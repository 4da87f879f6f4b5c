-------------------------- MODULE ThreadPool_proofs --------------------------
(***************************************************************************)
(* Proofs about the thread pool: a queued task is never stranded and is run *)
(* once and in order, the counter of running tasks is exact, waitForDone()  *)
(* and the destructor see everything, and a sleeper is woken.               *)
(***************************************************************************)
EXTENDS ThreadPool, OrderTheorems, FiniteSetTheorems

-----------------------------------------------------------------------------
(* Sequences and maxima.                                                    *)

\* A function on 1..n into the naturals is bounded.
LEMMA ImageBounded ==
    ASSUME NEW n \in Nat, NEW f \in [1..n -> Nat]
    PROVE  \E b \in Nat : \A i \in 1..n : f[i] <= b
<1> DEFINE Bounded(k) == \E b \in Nat : \A i \in 1..k : f[i] <= b
           Bad == {k \in 0..n : ~Bounded(k)}
<1>1. Bounded(0)
  <2>1. \A i \in 1..0 : f[i] <= 0
    OBVIOUS
  <2> QED BY <2>1
<1>2. ASSUME NEW k \in 1..n, Bounded(k - 1)
      PROVE  Bounded(k)
  <2>1. PICK b \in Nat : \A i \in 1..(k - 1) : f[i] <= b
    BY <1>2
  <2>2. f[k] \in Nat /\ b + f[k] \in Nat
    OBVIOUS
  <2>3. ASSUME NEW i \in 1..k PROVE f[i] <= b + f[k]
    <3>1. i = k \/ i \in 1..(k - 1)
      OBVIOUS
    <3>2. f[i] \in Nat
      OBVIOUS
    <3> QED BY <2>1, <2>2, <3>1, <3>2
  <2> QED BY <2>2, <2>3
<1> HIDE DEF Bounded
<1>3. ASSUME Bad # {} PROVE FALSE
  <2>1. Bad \in SUBSET Nat
    OBVIOUS
  <2>2. PICK k \in Bad : \A j \in Bad : k <= j
    BY <1>3, <2>1, LeastNatural
  <2>3. k \in 1..n /\ k - 1 \in 0..n /\ ~(k <= k - 1)
    BY <1>1, <2>2
  <2>4. Bounded(k - 1)
    BY <2>2, <2>3
  <2> QED BY <1>2, <2>2, <2>3, <2>4
<1>4. n \in 0..n
  OBVIOUS
<1>5. Bounded(n)
  BY <1>3, <1>4
<1> QED BY <1>5 DEF Bounded

\* A sequence with an element put in front of position p.
LEMMA InsertElements ==
    ASSUME NEW S, NEW q \in Seq(S), NEW e \in S, NEW p \in 1..Len(q)
    PROVE  /\ InsertAt(q, p, e) \in Seq(S)
           /\ DOMAIN InsertAt(q, p, e) = 1..(Len(q) + 1)
           /\ InsertAt(q, p, e)[p] = e
           /\ \A i \in 1..(Len(q) + 1) : i < p => InsertAt(q, p, e)[i] = q[i]
           /\ \A i \in 1..(Len(q) + 1) : i > p => InsertAt(q, p, e)[i] = q[i - 1]
  BY DEF InsertAt

\* A sequence without the element at position p.
LEMMA RemoveElements ==
    ASSUME NEW S, NEW q \in Seq(S), NEW p \in 1..Len(q)
    PROVE  /\ RemoveAt(q, p) \in Seq(S)
           /\ DOMAIN RemoveAt(q, p) = 1..(Len(q) - 1)
           /\ \A i \in 1..(Len(q) - 1) : i < p => RemoveAt(q, p)[i] = q[i]
           /\ \A i \in 1..(Len(q) - 1) : i >= p => RemoveAt(q, p)[i] = q[i + 1]
<1> DEFINE a == SubSeq(q, 1, p - 1)
           b == SubSeq(q, p + 1, Len(q))
<1>1. a \in Seq(S) /\ Len(a) = p - 1 /\ \A i \in 1..(p - 1) : a[i] = q[i]
  OBVIOUS
<1>2. b \in Seq(S) /\ Len(b) = Len(q) - p /\ \A i \in 1..(Len(q) - p) : b[i] = q[i + p]
  OBVIOUS
<1> HIDE DEF a, b
<1>3. /\ a \o b \in Seq(S) /\ Len(a \o b) = Len(q) - 1
      /\ \A i \in 1..(Len(q) - 1) : (a \o b)[i] = IF i <= p - 1 THEN a[i] ELSE b[i - (p - 1)]
  <2>1. Len(a) + Len(b) = Len(q) - 1 /\ Len(a) \in Nat /\ Len(b) \in Nat
    BY <1>1, <1>2
  <2>2. a \o b \in Seq(S) /\ Len(a \o b) = Len(a) + Len(b)
    <3>1. a \in Seq(S) /\ b \in Seq(S)
      BY <1>1, <1>2
    <3> QED BY <3>1
  <2>3. \A i \in 1..(Len(a) + Len(b)) : (a \o b)[i] = IF i <= Len(a) THEN a[i] ELSE b[i - Len(a)]
    BY <1>1, <1>2
  <2> QED BY <1>1, <2>1, <2>2, <2>3
<1>4. \A i \in 1..(Len(q) - 1) : i >= p => b[i - (p - 1)] = q[i + 1]
  <2> TAKE i \in 1..(Len(q) - 1)
  <2> HAVE i >= p
  <2>1. i - (p - 1) \in 1..(Len(q) - p) /\ (i - (p - 1)) + p = i + 1
    OBVIOUS
  <2> QED BY <2>1, <1>2
<1>5. \A i \in 1..(Len(q) - 1) : i >= p => ~(i <= p - 1)
  OBVIOUS
<1>6. \A i \in 1..(Len(q) - 1) : i < p => i <= p - 1 /\ i \in 1..(p - 1)
  OBVIOUS
<1>7. RemoveAt(q, p) = a \o b
  BY DEF RemoveAt, a, b
<1> QED BY <1>1, <1>3, <1>4, <1>5, <1>6, <1>7

-----------------------------------------------------------------------------
(* The inductive invariant.                                                *)

Busy == {"notifyRun", "run"}
Serving == {"ready", "notifyRun", "run", "notifyNext", "notifyIdle", "rearm"}

\* A worker entry and its thread agree: running is set while a task is between its
\* dispatch and its end; queued work has a dispatch under way; only an entry of
\* m_workers has work, and its thread serves it.
WorkerOK(x) ==
    /\ x.running <=> x.thread \in Busy
    /\ x.running <=> x.item # NoTask
    /\ ~(x.running /\ x.posted)
    /\ x.queue # <<>> => x.running \/ x.posted
    /\ x.place = "active" => ~x.quit /\ x.thread \in Serving
    /\ x.place # "active" => x.queue = <<>> /\ ~x.running /\ ~x.posted
    /\ x.place = "none" <=> x.thread = "none"

\* The entries ws, of which n were created.
WorkersOK(ws, n) ==
    /\ n <= MaxWorkers
    /\ \A w \in Ids : WorkerOK(ws[w]) /\ (ws[w].place = "none" <=> w > n)

WorkersInv == WorkersOK(workers, pool.created)

\* The tasks queued in ws are the ones st calls queued, each at one place.
QueuesOK(ws, st) ==
    /\ \A w \in Ids : \A i \in DOMAIN ws[w].queue : st[ws[w].queue[i].runnable] = "queued"
    /\ \A v, w \in Ids : \A i \in DOMAIN ws[v].queue : \A j \in DOMAIN ws[w].queue :
          ws[v].queue[i].runnable = ws[w].queue[j].runnable => v = w /\ i = j
    /\ \A t \in Tasks : st[t] = "queued" =>
          \E w \in Ids : \E i \in DOMAIN ws[w].queue : ws[w].queue[i].runnable = t

QueuesInv == QueuesOK(workers, status)

\* A precedes B in a queue.
Precedes(a, b) == \/ a.priority > b.priority
                  \/ a.priority = b.priority /\ a.sequence < b.sequence

\* Every queue of ws is in order, and n tasks were accepted.
OrderOK(ws, n) ==
    \A w \in Ids : \A i \in DOMAIN ws[w].queue :
        /\ ws[w].queue[i].sequence <= n
        /\ \A j \in DOMAIN ws[w].queue : i < j => Precedes(ws[w].queue[i], ws[w].queue[j])

OrderInv == OrderOK(workers, pool.accepted)

\* The tasks that run are the items of the workers, each on one of them.
RunningInv ==
    /\ \A w \in Ids : workers[w].item # NoTask => status[workers[w].item] = "running"
    /\ \A v, w \in Ids : workers[v].item # NoTask /\ workers[v].item = workers[w].item => v = w
    /\ \A t \in Tasks : status[t] = "running" => \E w \in Ids : workers[w].item = t

NoWork == \A w \in Ids : workers[w].queue = <<>> /\ ~workers[w].running /\ ~workers[w].posted

\* The places of a call of waitForDone() while m_waitingForDone is set, and the
\* places without a thread to join.
Waiting == {"lock", "check", "joinHeld", "sleep", "end"}
NotJoining == {"idle", "relocked", "check", "sleep", "end", "wait", "stopAll", "dead"}

\* One call waits at a time; when it saw the pool quiescent nothing was accepted
\* since.  A worker that was taken out is gone or someone is about to join it.
CallsInv ==
    /\ \A c \in Clients :
          /\ client[c].pc \in NotJoining => client[c].joining = {}
          /\ client[c].pc \in Waiting => pool.waiting
          /\ client[c].pc = "end" /\ client[c].ok => NoWork
          /\ \A d \in Clients : client[c].pc \in Waiting /\ client[d].pc \in Waiting => c = d
    /\ \A w \in Ids : workers[w].place = "taken" =>
          workers[w].thread = "gone" \/ \E c \in Clients : w \in client[c].joining

\* c is at pc, or goes there after its notification.
Past(c, pc) ==
    \/ client[c].pc = pc
    \/ client[c].pc = "notify" /\ client[c].next = pc

\* c is in the destructor, the other threads are in no call; c goes on to stop the
\* workers only when there is no work left.
Destroying(c) ==
    /\ \A d \in Clients \ {c} : client[d].pc = "idle"
    /\ client[c].pc \in Waiting \cup {"notify", "wait", "stopAll", "dead"}
    /\ client[c].pc = "notify" => client[c].next # "idle"
    /\ client[c].pc \in Waiting => ~client[c].timed /\ ~client[c].expired
    /\ client[c].pc = "end" => client[c].ok
    /\ (Past(c, "stopAll") \/ Past(c, "dead")) => NoWork
    /\ Past(c, "dead") => \A w \in Ids : workers[w].place \in {"none", "taken"}
    /\ pool.dead <=> client[c].pc = "dead"

ShutdownInv ==
    IF pool.stopping THEN \E c \in Clients : Destroying(c)
    ELSE /\ ~pool.dead
         /\ \A c \in Clients : /\ client[c].next = "idle"
                               /\ client[c].pc \notin {"wait", "stopAll", "dead"}

\* A dispatch without a task is left behind by a withdrawal only.
DispatchInv == \A w \in Ids : workers[w].posted /\ workers[w].queue = <<>> => Withdrawn

-----------------------------------------------------------------------------
(* What the operators on workers do.                                        *)

\* The fields of a worker.
LEMMA WorkerFields ==
    ASSUME NEW x \in Worker
    PROVE  /\ x.queue \in Seq(Items) /\ x.armed \in Nat /\ x.item \in Tasks \cup {NoTask}
           /\ x.running \in BOOLEAN /\ x.posted \in BOOLEAN /\ x.quit \in BOOLEAN
           /\ x.place \in {"none", "active", "retired", "taken"}
           /\ x.thread \in ThreadStates
  BY DEF Worker

\* The worker that createWorkerLocked_() makes.
LEMMA FreshFields ==
    /\ FreshWorker \in Worker
    /\ [FreshWorker EXCEPT !.place = "active", !.thread = "ready"] \in Worker
<1>1. <<>> \in Seq(Items) /\ 0 \in Nat /\ NoTask \in Tasks \cup {NoTask}
  OBVIOUS
<1>2. "none" \in ThreadStates /\ "ready" \in ThreadStates
  BY DEF ThreadStates
<1> QED BY <1>1, <1>2 DEF FreshWorker, Worker

\* r is q with x put in at position p.
Inserted(r, q, p, x) ==
    /\ r \in Seq(Items) /\ DOMAIN r = 1..(Len(q) + 1)
    /\ r[p] = x
    /\ \A i \in 1..(Len(q) + 1) : i < p => r[i] = q[i]
    /\ \A i \in 1..(Len(q) + 1) : i > p => r[i] = q[i - 1]

\* r is q without the element at position p.
Removed(r, q, p) ==
    /\ r \in Seq(Items) /\ DOMAIN r = 1..(Len(q) - 1)
    /\ \A i \in 1..(Len(q) - 1) : i < p => r[i] = q[i]
    /\ \A i \in 1..(Len(q) - 1) : i >= p => r[i] = q[i + 1]

\* Enqueue(ws, w, x) makes r of the queue of w, with x at position p: behind what x
\* does not precede, in front of what it precedes.
EnqueuedAt(ws, w, x, r, p) ==
    /\ Inserted(r, ws[w].queue, p, x)
    /\ \A i \in 1..(p - 1) : ~Precedes(x, ws[w].queue[i])
    /\ p <= Len(ws[w].queue) => Precedes(x, ws[w].queue[p])
    /\ Enqueue(ws, w, x) = [ws EXCEPT ![w].queue = r]

\* Where enqueueLocked_() puts an item: behind everything it does not precede.
LEMMA EnqueueEffect ==
    ASSUME NEW ws \in [Ids -> Worker], NEW w \in Ids, NEW x \in Items
    PROVE  \E r \in Seq(Items), p \in 1..(Len(ws[w].queue) + 1) : EnqueuedAt(ws, w, x, r, p)
<1> DEFINE q == ws[w].queue
           I == {i \in 1..Len(q) : Precedes(x, q[i])}
<1>q. q \in Seq(Items) /\ Len(q) \in Nat
  BY WorkerFields
<1>1. CASE I = {}
  <2>1. Enqueue(ws, w, x) = [ws EXCEPT ![w].queue = Append(q, x)]
    BY <1>1 DEF Enqueue, SelectInSeq, Precedes
  <2> DEFINE r == Append(q, x)
             p == Len(q) + 1
  <2>2. Inserted(r, q, p, x)
    BY <1>q, AppendElements DEF Inserted
  <2>3. \A i \in 1..(p - 1) : ~Precedes(x, q[i])
    BY <1>1, <1>q
  <2>4. p \in 1..(Len(q) + 1) /\ ~(p <= Len(q)) /\ r \in Seq(Items)
    BY <1>q
  <2> HIDE DEF r, p
  <2> QED BY <2>1, <2>2, <2>3, <2>4 DEF r, EnqueuedAt
<1>2. CASE I # {}
  <2> DEFINE p == Min(I)
             r == InsertAt(q, p, x)
  <2>1. I \in SUBSET Nat
    OBVIOUS
  <2>2. p \in I /\ \A y \in I : p <= y
    BY <1>2, <2>1, MinBounds
  <2>3. Enqueue(ws, w, x) = [ws EXCEPT ![w].queue = r]
    <3>1. p # 0
      BY <2>2
    <3> QED BY <1>2, <3>1 DEF Enqueue, SelectInSeq, Precedes
  <2>4. Inserted(r, q, p, x)
    <3>1. p \in 1..Len(q)
      BY <2>2
    <3> HIDE DEF p, q
    <3> QED BY <1>q, <3>1, InsertElements DEF Inserted
  <2>5. \A i \in 1..(p - 1) : ~Precedes(x, q[i])
    <3> TAKE i \in 1..(p - 1)
    <3>1. i \in 1..Len(q) /\ ~(p <= i)
      BY <1>q, <2>2
    <3> QED BY <3>1, <2>2
  <2>6. p \in 1..(Len(q) + 1) /\ Precedes(x, q[p])
    BY <1>q, <2>2
  <2>7. r \in Seq(Items)
    BY <2>4 DEF Inserted
  <2> HIDE DEF r, p
  <2> QED BY <2>3, <2>4, <2>5, <2>6, <2>7 DEF EnqueuedAt
<1> QED BY <1>1, <1>2

\* The workers after an assignment of t to w.
Assigned(t, priority, w) ==
    /\ workers' \in [Ids -> Worker]
    /\ \A v \in Ids \ {w} : workers'[v] = workers[v]
    /\ \E p \in 1..(Len(workers[w].queue) + 1) :
          /\ Inserted(workers'[w].queue, workers[w].queue, p, TaskItem(t, priority))
          /\ \A i \in 1..(p - 1) : ~Precedes(TaskItem(t, priority), workers[w].queue[i])
          /\ p <= Len(workers[w].queue) =>
                Precedes(TaskItem(t, priority), workers[w].queue[p])
    /\ workers'[w].place = "active" /\ ~workers'[w].quit
    /\ workers'[w].running = workers[w].running
    /\ workers'[w].item = workers[w].item
    /\ workers'[w].posted = ~workers[w].running
    /\ workers'[w].thread = IF w = pool.created + 1 THEN "ready" ELSE workers[w].thread

\* What an assignment of t to w does to the workers.
LEMMA AssignEffect ==
    ASSUME TypeOK, WorkersInv, NEW t \in Tasks, NEW priority \in Int, NEW w \in Ids,
           w \in Active(workers) \/ w = pool.created + 1,
           Assign(t, priority, w)
    PROVE  Assigned(t, priority, w)
<1> DEFINE fresh == w = pool.created + 1
           ws == IF fresh THEN CreateWorker(workers, w) ELSE workers
           x == TaskItem(t, priority)
<1>t. workers \in [Ids -> Worker] /\ pool.created \in Nat /\ pool.accepted \in Nat
  BY DEF TypeOK, Pool
<1>x. x \in Items
  BY <1>t DEF TaskItem, Items
<1>w. workers[w] \in Worker
  BY <1>t
<1>1. /\ ws \in [Ids -> Worker]
      /\ \A v \in Ids \ {w} : ws[v] = workers[v]
      /\ ws[w].queue = workers[w].queue /\ ws[w].place = "active" /\ ~ws[w].quit
      /\ ws[w].running = workers[w].running /\ ws[w].item = workers[w].item
      /\ ws[w].posted = workers[w].posted
      /\ ws[w].thread = IF fresh THEN "ready" ELSE workers[w].thread
  <2>1. CASE fresh
    <3>1. WorkerOK(workers[w]) /\ workers[w].place = "none"
      BY <1>t, <2>1 DEF WorkersInv, WorkersOK, Ids
    <3>2. /\ workers[w].queue = <<>> /\ workers[w].running = FALSE /\ workers[w].posted = FALSE
          /\ workers[w].item = NoTask
      BY <1>w, <3>1, WorkerFields DEF WorkerOK
    <3>3. ws = [workers EXCEPT ![w] = [FreshWorker EXCEPT !.place = "active", !.thread = "ready"]]
      BY <2>1 DEF CreateWorker
    <3>4. ws \in [Ids -> Worker]
      BY <1>t, <3>3, FreshFields
    <3>5. /\ ws[w] = [FreshWorker EXCEPT !.place = "active", !.thread = "ready"]
          /\ \A v \in Ids \ {w} : ws[v] = workers[v]
      BY <1>t, <3>3
    <3>6. /\ ws[w].queue = <<>> /\ ws[w].place = "active" /\ ws[w].quit = FALSE
          /\ ws[w].running = FALSE /\ ws[w].item = NoTask /\ ws[w].posted = FALSE
          /\ ws[w].thread = "ready"
      BY <3>5 DEF FreshWorker
    <3> QED BY <2>1, <3>2, <3>4, <3>5, <3>6
  <2>2. CASE ~fresh
    <3>1. WorkerOK(workers[w]) /\ workers[w].place = "active"
      BY <1>t, <2>2 DEF WorkersInv, WorkersOK, Active
    <3> QED BY <1>t, <2>2, <3>1 DEF WorkerOK
  <2> QED BY <2>1, <2>2
<1>2. workers' = ScheduleDispatch(Enqueue(ws, w, x), w)
  BY DEF Assign
<1> HIDE DEF ws, x
<1>3. PICK r \in Seq(Items), p \in 1..(Len(ws[w].queue) + 1) : EnqueuedAt(ws, w, x, r, p)
  <2>1. ws \in [Ids -> Worker]
    BY <1>1
  <2> QED BY <2>1, <1>x, EnqueueEffect
<1>4. r # <<>>
  <2>1. Len(ws[w].queue) \in Nat
    BY <1>1, <1>w, WorkerFields
  <2>2. 1 \in DOMAIN r
    BY <2>1, <1>3 DEF EnqueuedAt, Inserted
  <2> QED BY <2>2
<1> DEFINE es == [ws EXCEPT ![w].queue = r]
<1>5. /\ es \in [Ids -> Worker]
      /\ \A v \in Ids \ {w} : es[v] = workers[v]
      /\ es[w] = [ws[w] EXCEPT !.queue = r] /\ es[w].queue = r
      /\ es[w].place = "active" /\ ~es[w].quit
      /\ es[w].running = workers[w].running /\ es[w].item = workers[w].item
      /\ es[w].posted = workers[w].posted
      /\ es[w].thread = IF fresh THEN "ready" ELSE workers[w].thread
  <2>a. ws[w] \in Worker /\ r \in Seq(Items)
    BY <1>1
  <2>b. \A y \in Worker : \A s \in Seq(Items) : [y EXCEPT !.queue = s] \in Worker
    BY DEF Worker
  <2>1. ws[w] \in Worker /\ [ws[w] EXCEPT !.queue = r] \in Worker
    BY <2>a, <2>b
  <2>2. es = [ws EXCEPT ![w] = [ws[w] EXCEPT !.queue = r]]
    OBVIOUS
  <2>3. es \in [Ids -> Worker] /\ es[w] = [ws[w] EXCEPT !.queue = r]
        /\ \A v \in Ids \ {w} : es[v] = ws[v]
    BY <1>1, <2>1, <2>2
  <2>4. /\ [ws[w] EXCEPT !.queue = r].queue = r
        /\ [ws[w] EXCEPT !.queue = r].place = ws[w].place
        /\ [ws[w] EXCEPT !.queue = r].quit = ws[w].quit
        /\ [ws[w] EXCEPT !.queue = r].running = ws[w].running
        /\ [ws[w] EXCEPT !.queue = r].posted = ws[w].posted
        /\ [ws[w] EXCEPT !.queue = r].item = ws[w].item
        /\ [ws[w] EXCEPT !.queue = r].thread = ws[w].thread
    BY <2>1 DEF Worker
  <2> QED BY <1>1, <2>3, <2>4
<1>6. workers' = IF workers[w].running \/ workers[w].posted THEN es
                 ELSE [es EXCEPT ![w].posted = TRUE]
  BY <1>2, <1>3, <1>4, <1>5 DEF ScheduleDispatch, EnqueuedAt
<1>7. workers[w].running \in BOOLEAN /\ workers[w].posted \in BOOLEAN
      /\ ~(workers[w].running /\ workers[w].posted)
  BY <1>w, WorkerFields DEF WorkersInv, WorkersOK, WorkerOK
<1> HIDE DEF es
<1>8. CASE workers[w].running \/ workers[w].posted
  BY <1>1, <1>3, <1>5, <1>6, <1>7, <1>8 DEF x, EnqueuedAt, Assigned
<1>9. CASE ~(workers[w].running \/ workers[w].posted)
  <2>a. es[w] \in Worker
    BY <1>5
  <2>b. \A y \in Worker : [y EXCEPT !.posted = TRUE] \in Worker
    BY DEF Worker
  <2>1. [es[w] EXCEPT !.posted = TRUE] \in Worker
    BY <2>a, <2>b
  <2>2. workers' = [es EXCEPT ![w] = [es[w] EXCEPT !.posted = TRUE]]
    BY <1>6, <1>9, <1>5
  <2>3. /\ workers' \in [Ids -> Worker] /\ workers'[w] = [es[w] EXCEPT !.posted = TRUE]
        /\ \A v \in Ids \ {w} : workers'[v] = es[v]
    BY <1>5, <2>1, <2>2
  <2>4. /\ workers'[w].posted = TRUE /\ workers'[w].queue = r /\ workers'[w].place = "active"
        /\ ~workers'[w].quit /\ workers'[w].running = workers[w].running
        /\ workers'[w].item = workers[w].item
        /\ workers'[w].thread = IF fresh THEN "ready" ELSE workers[w].thread
    BY <2>3, <1>5 DEF Worker
  <2> QED BY <1>1, <1>3, <1>5, <1>7, <1>9, <2>3, <2>4 DEF x, EnqueuedAt, Assigned
<1> QED BY <1>8, <1>9

-----------------------------------------------------------------------------
(* rebalanceLocked_().                                                      *)

\* r is what a round of the loop makes of the workers ws, n of them created: a new
\* worker has the first task of s.
Moved(ws, n, s, r) ==
    /\ n + 1 \in Ids /\ s # n + 1
    /\ ws[s].place = "active" /\ ws[s].queue # <<>> /\ ws[n + 1].place = "none"
    /\ r.created = n + 1 /\ r.ws \in [Ids -> Worker]
    /\ \A v \in Ids \ {s, n + 1} : r.ws[v] = ws[v]
    /\ r.ws[s] = [ws[s] EXCEPT !.queue = Tail(ws[s].queue)]
    /\ r.ws[n + 1] = [FreshWorker EXCEPT !.place = "active", !.thread = "ready",
                         !.queue = <<Head(ws[s].queue)>>, !.posted = TRUE]

\* An item put into an empty queue.
LEMMA EnqueueFirst ==
    ASSUME NEW ws \in [Ids -> Worker], NEW w \in Ids, NEW x \in Items, ws[w].queue = <<>>
    PROVE  Enqueue(ws, w, x) = [ws EXCEPT ![w].queue = <<x>>]
<1>1. PICK r \in Seq(Items), p \in 1..(Len(ws[w].queue) + 1) : EnqueuedAt(ws, w, x, r, p)
  BY EnqueueEffect
<1>2. p = 1 /\ DOMAIN r = 1..1 /\ r[1] = x
  BY <1>1 DEF EnqueuedAt, Inserted
<1>3. r = <<x>>
  BY <1>2
<1> QED BY <1>1, <1>3 DEF EnqueuedAt

\* workerLoadLocked_() is a number.
LEMMA LoadType ==
    ASSUME NEW ws \in [Ids -> Worker], NEW w \in Ids
    PROVE  Load(ws, w) \in Nat
<1>1. Len(ws[w].queue) \in Nat
  BY WorkerFields
<1>2. PICK d \in Nat : d = IF ws[w].running \/ ws[w].posted THEN 1 ELSE 0
  OBVIOUS
<1>3. Load(ws, w) = Len(ws[w].queue) + d
  BY <1>2 DEF Load
<1> QED BY <1>1, <1>3

\* A round of the loop.
LEMMA RebalanceEffect ==
    ASSUME NEW rb, rb.ws \in [Ids -> Worker], rb.created \in Nat,
           WorkersOK(rb.ws, rb.created), NEW capacity
    PROVE  \/ RebalanceOne(rb, capacity) = rb
           \/ \E s \in Ids : Moved(rb.ws, rb.created, s, RebalanceOne(rb, capacity))
<1> DEFINE ws == rb.ws
           loads == {Load(ws, w) : w \in Active(ws)} \cup {0}
           highest == Max(loads)
           busiest == {w \in Active(ws) : Load(ws, w) = highest}
           s == Min(busiest)
           target == rb.created + 1
           taken == [ws EXCEPT ![s].queue = Tail(@)]
           made == CreateWorker(taken, target)
           moved == Enqueue(made, target, Head(ws[s].queue))
           r == [ws |-> ScheduleDispatch(moved, target), created |-> target]
           stays == \/ Cardinality(Active(ws)) >= capacity
                    \/ Active(ws) = {} \/ highest <= 1
                    \/ ws[s].queue = <<>>
                    \/ rb.created >= MaxWorkers
<1>1. RebalanceOne(rb, capacity) = IF stays THEN rb ELSE r
  BY DEF RebalanceOne
<1>m. MaxWorkers \in Nat
  BY PoolAssumption
<1>2. ASSUME ~stays PROVE Moved(ws, rb.created, s, r) /\ s \in Ids
  <2>1. \A w \in Ids : Load(ws, w) \in Nat
    BY LoadType
  <2>2. PICK b \in Nat : \A w \in Ids : Load(ws, w) <= b
    <3> DEFINE f == [w \in 1..MaxWorkers |-> Load(ws, w)]
    <3>1. f \in [1..MaxWorkers -> Nat]
      BY <2>1 DEF Ids
    <3>2. PICK b \in Nat : \A w \in 1..MaxWorkers : f[w] <= b
      BY <1>m, <3>1, ImageBounded
    <3> QED BY <3>2 DEF Ids
  <2>3. loads \in SUBSET Nat /\ loads # {} /\ \A x \in loads : x <= b
    BY <2>1, <2>2 DEF Active
  <2>4. highest \in loads
    BY <2>3, BoundedMax
  <2>5. highest \in Nat /\ highest # 0
    BY <1>2, <2>3, <2>4
  <2>6. busiest # {} /\ busiest \in SUBSET Nat
    <3> HIDE DEF highest
    <3>1. PICK w \in Active(ws) : Load(ws, w) = highest
      BY <2>4, <2>5
    <3>2. Active(ws) \in SUBSET Nat
      BY DEF Active, Ids
    <3> QED BY <3>1, <3>2
  <2>7. s \in busiest
    BY <2>6, MinBounds
  <2>8. s \in Ids /\ ws[s].place = "active" /\ ws[s].queue # <<>>
    BY <1>2, <2>7 DEF Active
  <2>9. target \in Ids /\ ws[target].place = "none" /\ s # target
    <3>1. target \in Ids
      BY <1>2, <1>m DEF Ids
    <3>2. target > rb.created
      OBVIOUS
    <3>3. ws[target].place = "none"
      BY <3>1, <3>2 DEF WorkersOK
    <3> QED BY <3>1, <3>3, <2>8
  <2>10. ws[s] \in Worker /\ ws[s].queue \in Seq(Items)
    BY <2>8, WorkerFields
  <2>11. Head(ws[s].queue) \in Items /\ Tail(ws[s].queue) \in Seq(Items)
    BY <2>8, <2>10
  <2>12. [ws[s] EXCEPT !.queue = Tail(ws[s].queue)] \in Worker
    BY <2>10, <2>11 DEF Worker
  <2>13. taken = [ws EXCEPT ![s] = [ws[s] EXCEPT !.queue = Tail(ws[s].queue)]]
    OBVIOUS
  <2> HIDE DEF s, target, taken
  <2>14. /\ taken \in [Ids -> Worker] /\ taken[s] = [ws[s] EXCEPT !.queue = Tail(ws[s].queue)]
         /\ \A v \in Ids \ {s} : taken[v] = ws[v]
    BY <2>8, <2>12, <2>13
  <2> DEFINE fresh == [FreshWorker EXCEPT !.place = "active", !.thread = "ready"]
  <2>15. made = [taken EXCEPT ![target] = fresh]
    BY DEF CreateWorker
  <2>16. /\ made \in [Ids -> Worker] /\ made[target] = fresh
         /\ \A v \in Ids \ {target} : made[v] = taken[v]
    BY <2>9, <2>14, <2>15, FreshFields
  <2>17. fresh.queue = <<>> /\ fresh.running = FALSE /\ fresh.posted = FALSE
    BY DEF FreshWorker
  <2> HIDE DEF made
  <2> DEFINE x == Head(ws[s].queue)
  <2>18. moved = [made EXCEPT ![target].queue = <<x>>]
    <3>1. made[target].queue = <<>> /\ made \in [Ids -> Worker] /\ target \in Ids /\ x \in Items
      BY <2>9, <2>11, <2>16, <2>17
    <3> HIDE DEF x
    <3>2. Enqueue(made, target, x) = [made EXCEPT ![target].queue = <<x>>]
      BY <3>1, EnqueueFirst
    <3> QED BY <3>2 DEF x
  <2> HIDE DEF moved
  <2>19. moved = [made EXCEPT ![target] = [fresh EXCEPT !.queue = <<x>>]]
    BY <2>9, <2>16, <2>18
  <2>20. /\ moved[target] = [fresh EXCEPT !.queue = <<x>>]
         /\ \A v \in Ids \ {target} : moved[v] = made[v]
         /\ DOMAIN moved = Ids
    BY <2>9, <2>16, <2>19
  <2>21. moved[target].queue = <<x>> /\ moved[target].running = FALSE /\ moved[target].posted = FALSE
    BY <2>17, <2>20 DEF FreshWorker
  <2>22. ScheduleDispatch(moved, target) = [moved EXCEPT ![target] = [moved[target] EXCEPT !.posted = TRUE]]
    BY <2>9, <2>20, <2>21 DEF ScheduleDispatch
  <2> DEFINE new == [FreshWorker EXCEPT !.place = "active", !.thread = "ready",
                         !.queue = <<x>>, !.posted = TRUE]
  <2>23. [moved[target] EXCEPT !.posted = TRUE] = new
    BY <2>20 DEF FreshWorker
  <2>24. new \in Worker
    <3>1. <<x>> \in Seq(Items) /\ 0 \in Nat /\ NoTask \in Tasks \cup {NoTask} /\ "ready" \in ThreadStates
      BY <2>11 DEF ThreadStates
    <3> QED BY <3>1 DEF FreshWorker, Worker
  <2> HIDE DEF new
  <2>25. r.ws = [moved EXCEPT ![target] = new] /\ r.created = target
    BY <2>22, <2>23
  <2>26. /\ r.ws[target] = new
         /\ \A v \in Ids \ {target} : r.ws[v] = made[v]
         /\ r.ws \in [Ids -> Worker]
    BY <2>9, <2>16, <2>20, <2>24, <2>25
  <2>27. /\ r.ws[s] = [ws[s] EXCEPT !.queue = Tail(ws[s].queue)]
         /\ \A v \in Ids \ {s, target} : r.ws[v] = ws[v]
    BY <2>8, <2>9, <2>14, <2>16, <2>26
  <2> QED BY <2>8, <2>9, <2>25, <2>26, <2>27 DEF Moved, new, target
<1> QED BY <1>1, <1>2

\* The fields of the two workers that a round changes.
MovedTo(ws, n, s, r) ==
    /\ r.ws[s].queue = Tail(ws[s].queue)
    /\ r.ws[s].place = ws[s].place /\ r.ws[s].running = ws[s].running
    /\ r.ws[s].posted = ws[s].posted /\ r.ws[s].item = ws[s].item
    /\ r.ws[s].thread = ws[s].thread /\ r.ws[s].quit = ws[s].quit
    /\ r.ws[n + 1].queue = <<Head(ws[s].queue)>>
    /\ r.ws[n + 1].place = "active" /\ r.ws[n + 1].running = FALSE
    /\ r.ws[n + 1].posted = TRUE /\ r.ws[n + 1].item = NoTask
    /\ r.ws[n + 1].thread = "ready" /\ r.ws[n + 1].quit = FALSE
    /\ ws[s].queue \in Seq(Items) /\ ws[s].queue # <<>>
    /\ ws[n + 1].queue = <<>> /\ ws[n + 1].item = NoTask

\* A worker whose first task was moved away, and the worker that took it.
LEMMA MovedFields ==
    ASSUME NEW ws \in [Ids -> Worker], NEW n \in Nat, NEW s \in Ids, NEW r, Moved(ws, n, s, r),
           WorkersOK(ws, n)
    PROVE  MovedTo(ws, n, s, r)
<1>1. ws[s] \in Worker
  OBVIOUS
<1>2. r.ws[s] = [ws[s] EXCEPT !.queue = Tail(ws[s].queue)]
  BY DEF Moved
<1>3. r.ws[n + 1] = [FreshWorker EXCEPT !.place = "active", !.thread = "ready",
                         !.queue = <<Head(ws[s].queue)>>, !.posted = TRUE]
  BY DEF Moved
<1>4. /\ r.ws[s].queue = Tail(ws[s].queue)
      /\ r.ws[s].place = ws[s].place /\ r.ws[s].running = ws[s].running
      /\ r.ws[s].posted = ws[s].posted /\ r.ws[s].item = ws[s].item
      /\ r.ws[s].thread = ws[s].thread /\ r.ws[s].quit = ws[s].quit
  BY <1>1, <1>2 DEF Worker
<1>5. /\ r.ws[n + 1].queue = <<Head(ws[s].queue)>>
      /\ r.ws[n + 1].place = "active" /\ r.ws[n + 1].running = FALSE
      /\ r.ws[n + 1].posted = TRUE /\ r.ws[n + 1].item = NoTask
      /\ r.ws[n + 1].thread = "ready" /\ r.ws[n + 1].quit = FALSE
  BY <1>3 DEF FreshWorker
<1>6. n + 1 \in Ids /\ ws[n + 1].place = "none" /\ ws[s].queue # <<>>
  BY DEF Moved
<1>7. WorkerOK(ws[n + 1])
  BY <1>6 DEF WorkersOK
<1>8. ws[n + 1].queue = <<>> /\ ws[n + 1].item = NoTask
  BY <1>6, <1>7 DEF WorkerOK
<1> QED BY <1>1, <1>4, <1>5, <1>6, <1>8, WorkerFields DEF MovedTo

\* A round keeps what is said of workers one by one.
LEMMA MovedWorkers ==
    ASSUME NEW ws \in [Ids -> Worker], NEW n \in Nat, NEW s \in Ids, NEW r, Moved(ws, n, s, r),
           WorkersOK(ws, n)
    PROVE  WorkersOK(r.ws, n + 1)
<1>moved. MovedTo(ws, n, s, r)
  BY MovedFields
<1>1. /\ n + 1 \in Ids /\ s # n + 1 /\ \A v \in Ids \ {s, n + 1} : r.ws[v] = ws[v]
      /\ ws[s].place = "active"
  BY DEF Moved
<1>2. n + 1 <= MaxWorkers
  BY <1>1, PoolAssumption DEF Ids
<1>3. ASSUME NEW w \in Ids PROVE WorkerOK(r.ws[w]) /\ (r.ws[w].place = "none" <=> w > n + 1)
  <2>1. w \in Nat /\ WorkerOK(ws[w]) /\ (ws[w].place = "none" <=> w > n)
    BY DEF WorkersOK, Ids
  <2>2. CASE w = n + 1
    <3>1. WorkerOK(r.ws[n + 1])
      BY <1>moved DEF WorkerOK, Busy, Serving, MovedTo
    <3>2. r.ws[n + 1].place = "active"
      BY <1>moved DEF MovedTo
    <3> QED BY <2>2, <3>1, <3>2
  <2>3. CASE w = s
    <3>1. ws[s].queue # <<>> => ws[s].running \/ ws[s].posted
      BY <2>1, <2>3 DEF WorkerOK
    <3>2. /\ r.ws[s].place = ws[s].place /\ r.ws[s].running = ws[s].running
          /\ r.ws[s].posted = ws[s].posted /\ r.ws[s].item = ws[s].item
          /\ r.ws[s].thread = ws[s].thread /\ r.ws[s].quit = ws[s].quit /\ ws[s].queue # <<>>
      BY <1>moved DEF MovedTo
    <3>3. WorkerOK(r.ws[s])
      BY <1>1, <2>1, <2>3, <3>1, <3>2 DEF WorkerOK
    <3>4. ~(s > n) /\ ~(s > n + 1)
      BY <1>1, <2>1, <2>3
    <3> QED BY <1>1, <2>3, <3>2, <3>3, <3>4
  <2>4. CASE w \notin {s, n + 1}
    <3>1. r.ws[w] = ws[w] /\ w # n + 1
      BY <1>1, <2>4
    <3> QED BY <2>1, <3>1
  <2> QED BY <2>2, <2>3, <2>4
<1> QED BY <1>2, <1>3 DEF WorkersOK

\* A round moves a queued task from one place to another.
LEMMA MovedQueues ==
    ASSUME NEW ws \in [Ids -> Worker], NEW n \in Nat, NEW s \in Ids, NEW r, Moved(ws, n, s, r),
           WorkersOK(ws, n), NEW st, QueuesOK(ws, st)
    PROVE  QueuesOK(r.ws, st)
<1>moved. MovedTo(ws, n, s, r)
  BY MovedFields
<1> DEFINE q(v) == ws[v].queue
           nq(v) == r.ws[v].queue
           t == n + 1
           Home(v) == IF v = t THEN s ELSE v
           At(v, i) == IF v = s THEN i + 1 ELSE i
<1>1. t \in Ids /\ s # t /\ \A v \in Ids \ {s, t} : r.ws[v] = ws[v]
  BY DEF Moved
<1>2. nq(s) = Tail(q(s)) /\ nq(t) = <<Head(q(s))>> /\ q(s) \in Seq(Items) /\ q(s) # <<>> /\ q(t) = <<>>
  BY <1>moved DEF MovedTo
<1>3. /\ DOMAIN nq(s) = 1..(Len(q(s)) - 1)
      /\ \A i \in DOMAIN nq(s) : nq(s)[i] = q(s)[i + 1] /\ i + 1 \in DOMAIN q(s)
      /\ 1 \in DOMAIN q(s) /\ Head(q(s)) = q(s)[1]
  BY <1>2, TailElements
<1>4. DOMAIN nq(t) = {1} /\ nq(t)[1] = q(s)[1]
  BY <1>2, <1>3
<1>5. \A v \in Ids : DOMAIN q(v) = 1..Len(q(v)) /\ Len(q(v)) \in Nat
  BY WorkerFields
<1> HIDE DEF q, nq, t
\* Where a task of the new queues was before.
<1>6. ASSUME NEW v \in Ids, NEW i \in DOMAIN nq(v)
      PROVE  /\ Home(v) \in Ids /\ At(v, i) \in DOMAIN q(Home(v))
             /\ nq(v)[i] = q(Home(v))[At(v, i)]
             /\ i \in Nat /\ i > 0
  <2>1. CASE v = s
    BY <1>1, <1>3, <2>1
  <2>2. CASE v = t
    BY <1>1, <1>3, <1>4, <2>2
  <2>3. CASE v \notin {s, t}
    BY <1>1, <1>5, <2>3 DEF q, nq
  <2> QED BY <2>1, <2>2, <2>3
<1>7. ASSUME NEW v \in Ids, NEW i \in DOMAIN nq(v) PROVE st[nq(v)[i].runnable] = "queued"
  BY <1>6, <1>7 DEF QueuesOK, q
<1>8. ASSUME NEW v \in Ids, NEW w \in Ids, NEW i \in DOMAIN nq(v), NEW j \in DOMAIN nq(w),
             nq(v)[i].runnable = nq(w)[j].runnable
      PROVE  v = w /\ i = j
  <2>1. /\ Home(v) \in Ids /\ At(v, i) \in DOMAIN q(Home(v)) /\ nq(v)[i] = q(Home(v))[At(v, i)]
        /\ Home(w) \in Ids /\ At(w, j) \in DOMAIN q(Home(w)) /\ nq(w)[j] = q(Home(w))[At(w, j)]
        /\ i \in Nat /\ i > 0 /\ j \in Nat /\ j > 0
    BY <1>6
  <2>2. q(Home(v))[At(v, i)].runnable = q(Home(w))[At(w, j)].runnable
    BY <1>8, <2>1
  <2>3. Home(v) = Home(w) /\ At(v, i) = At(w, j)
    BY <2>1, <2>2 DEF QueuesOK, q
  <2>4. (v = t => i = 1) /\ (w = t => j = 1)
    BY <1>4
  <2> QED BY <1>1, <2>1, <2>3, <2>4
<1>9. ASSUME NEW x \in Tasks, st[x] = "queued"
      PROVE  \E v \in Ids : \E i \in DOMAIN nq(v) : nq(v)[i].runnable = x
  <2>0. PICK v \in Ids : \E i \in DOMAIN q(v) : q(v)[i].runnable = x
    BY <1>9 DEF QueuesOK, q
  <2>1. PICK i \in DOMAIN q(v) : q(v)[i].runnable = x
    BY <2>0
  <2>2. CASE v = s /\ i = 1
    BY <1>1, <1>4, <2>1, <2>2
  <2>3. CASE v = s /\ i # 1
    <3>1. i \in 1..Len(q(s)) /\ Len(q(s)) \in Nat
      BY <1>5, <2>1, <2>3
    <3>2. i - 1 \in DOMAIN nq(s) /\ (i - 1) + 1 = i
      BY <1>3, <2>3, <3>1
    <3>3. nq(s)[i - 1] = q(s)[i]
      BY <1>3, <3>2
    <3> QED BY <2>1, <2>3, <3>2, <3>3
  <2>4. CASE v # s
    <3>1. v # t
      BY <1>2, <2>1
    <3>2. nq(v) = q(v)
      BY <1>1, <2>4, <3>1 DEF q, nq
    <3> QED BY <2>1, <3>2
  <2> QED BY <2>2, <2>3, <2>4
<1> QED BY <1>7, <1>8, <1>9 DEF QueuesOK, nq

\* A round keeps queues in order.
LEMMA MovedOrder ==
    ASSUME NEW ws \in [Ids -> Worker], NEW n \in Nat, NEW s \in Ids, NEW r, Moved(ws, n, s, r),
           WorkersOK(ws, n), NEW m, OrderOK(ws, m)
    PROVE  OrderOK(r.ws, m)
<1>moved. MovedTo(ws, n, s, r)
  BY MovedFields
<1> DEFINE q(v) == ws[v].queue
           nq(v) == r.ws[v].queue
           t == n + 1
<1>1. t \in Ids /\ s # t /\ \A v \in Ids \ {s, t} : r.ws[v] = ws[v]
  BY DEF Moved
<1>2. nq(s) = Tail(q(s)) /\ nq(t) = <<Head(q(s))>> /\ q(s) \in Seq(Items) /\ q(s) # <<>> /\ q(t) = <<>>
  BY <1>moved DEF MovedTo
<1>3. /\ DOMAIN nq(s) = 1..(Len(q(s)) - 1)
      /\ \A i \in DOMAIN nq(s) : nq(s)[i] = q(s)[i + 1] /\ i + 1 \in DOMAIN q(s)
      /\ 1 \in DOMAIN q(s) /\ Head(q(s)) = q(s)[1] /\ Len(q(s)) \in Nat
  BY <1>2, TailElements
<1>4. DOMAIN nq(t) = {1} /\ nq(t)[1] = q(s)[1]
  BY <1>2, <1>3
<1>5. \A v \in Ids : \A i \in DOMAIN q(v) :
        /\ q(v)[i].sequence <= m
        /\ \A j \in DOMAIN q(v) : i < j => Precedes(q(v)[i], q(v)[j])
  BY DEF OrderOK
<1> HIDE DEF q, nq, t
<1>6. ASSUME NEW v \in Ids, NEW i \in DOMAIN nq(v)
      PROVE  /\ nq(v)[i].sequence <= m
             /\ \A j \in DOMAIN nq(v) : i < j => Precedes(nq(v)[i], nq(v)[j])
  <2>1. CASE v = s
    <3>1. i \in Nat /\ \A j \in DOMAIN nq(s) : j \in Nat /\ (i < j => i + 1 < j + 1)
      BY <1>3, <2>1
    <3> QED BY <1>3, <1>5, <2>1, <3>1
  <2>2. CASE v = t
    <3>1. \A j \in DOMAIN nq(t) : ~(i < j)
      BY <1>4, <2>2
    <3> QED BY <1>3, <1>4, <1>5, <2>2, <3>1
  <2>3. CASE v \notin {s, t}
    <3>1. nq(v) = q(v)
      BY <1>1, <2>3 DEF q, nq
    <3> QED BY <1>5, <3>1
  <2> QED BY <2>1, <2>2, <2>3
<1> QED BY <1>6 DEF OrderOK, nq

\* What rebalanceLocked_() keeps, in the middle of it: rb has the workers and their
\* number.
RoundOK(rb) ==
    /\ rb.ws \in [Ids -> Worker] /\ rb.created \in Nat
    /\ WorkersOK(rb.ws, rb.created)
    /\ QueuesOK(rb.ws, status)
    /\ OrderOK(rb.ws, pool.accepted)
    /\ \A w \in Ids :
          /\ rb.ws[w].item = workers[w].item
          /\ workers[w].place # "none" => /\ rb.ws[w].place = workers[w].place
                                          /\ rb.ws[w].thread = workers[w].thread
          /\ workers[w].place = "none" => rb.ws[w].place \in {"none", "active"}
    /\ NoWork => rb.ws = workers

\* A round keeps it.
LEMMA RoundKeeps ==
    ASSUME NEW rb, RoundOK(rb), NEW capacity
    PROVE  RoundOK(RebalanceOne(rb, capacity))
<1> DEFINE r == RebalanceOne(rb, capacity)
           ws == rb.ws
           n == rb.created
<1>1. ws \in [Ids -> Worker] /\ n \in Nat /\ WorkersOK(ws, n)
  BY DEF RoundOK
<1>2. r = rb \/ \E s \in Ids : Moved(ws, n, s, r)
  BY <1>1, RebalanceEffect
<1> HIDE DEF r
<1>3. ASSUME NEW s \in Ids, Moved(ws, n, s, r) PROVE RoundOK(r)
  <2>1. MovedTo(ws, n, s, r)
    BY <1>1, <1>3, MovedFields
  <2>2. r.ws \in [Ids -> Worker] /\ r.created = n + 1 /\ n + 1 \in Nat
    BY <1>1, <1>3 DEF Moved
  <2>3. WorkersOK(r.ws, n + 1)
    BY <1>1, <1>3, MovedWorkers
  <2>4. QueuesOK(r.ws, status)
    <3>1. QueuesOK(ws, status)
      BY DEF RoundOK
    <3> QED BY <1>1, <1>3, <3>1, MovedQueues
  <2>5. OrderOK(r.ws, pool.accepted)
    <3>1. OrderOK(ws, pool.accepted)
      BY DEF RoundOK
    <3> QED BY <1>1, <1>3, <3>1, MovedOrder
  <2>6. ASSUME NEW w \in Ids
        PROVE  /\ r.ws[w].item = workers[w].item
               /\ workers[w].place # "none" => /\ r.ws[w].place = workers[w].place
                                               /\ r.ws[w].thread = workers[w].thread
               /\ workers[w].place = "none" => r.ws[w].place \in {"none", "active"}
    <3>1. /\ ws[w].item = workers[w].item
          /\ workers[w].place # "none" => /\ ws[w].place = workers[w].place
                                          /\ ws[w].thread = workers[w].thread
          /\ workers[w].place = "none" => ws[w].place \in {"none", "active"}
      BY DEF RoundOK
    <3>2. CASE w = s
      BY <2>1, <3>1, <3>2 DEF MovedTo
    <3>3. CASE w = n + 1
      <4>1. ws[n + 1].place = "none"
        BY <1>3 DEF Moved
      <4> QED BY <2>1, <3>1, <3>3, <4>1 DEF MovedTo
    <3>4. CASE w \notin {s, n + 1}
      <4>1. r.ws[w] = ws[w]
        BY <1>3, <3>4 DEF Moved
      <4> QED BY <3>1, <4>1
    <3> QED BY <3>2, <3>3, <3>4
  <2>7. ~NoWork
    <3>1. NoWork => ws[s].queue = <<>>
      BY DEF RoundOK, NoWork
    <3> QED BY <1>3, <3>1 DEF Moved
  <2> QED BY <2>2, <2>3, <2>4, <2>5, <2>6, <2>7 DEF RoundOK
<1> QED BY <1>2, <1>3 DEF r

\* The whole loop keeps it.
LEMMA RebalanceKeeps ==
    ASSUME TypeOK, WorkersInv, QueuesInv, OrderInv, NEW capacity
    PROVE  RoundOK(Rebalance(capacity))
<1> DEFINE Round(rb) == RebalanceOne(rb, capacity)
           base == [ws |-> workers, created |-> pool.created]
           Rounds(k, f) == [n \in 0..k |-> IF n = 0 THEN base ELSE Round(f[n - 1])]
           after == CHOOSE f : f = Rounds(MaxWorkers, f)
           Solved(k) == \E f : f = Rounds(k, f)
<1>m. MaxWorkers \in Nat
  BY PoolAssumption
<1>1. Rebalance(capacity) = after[MaxWorkers]
  BY DEF Rebalance
<1>2. RoundOK(base)
  BY DEF RoundOK, TypeOK, Pool, WorkersInv, QueuesInv, OrderInv
<1>3. \A rb : RoundOK(rb) => RoundOK(Round(rb))
  BY RoundKeeps
<1> HIDE DEF Round, base
\* The function after exists.
<1>4. Solved(0)
  <2> DEFINE f == [n \in 0..0 |-> base]
  <2>1. f = Rounds(0, f)
    OBVIOUS
  <2> QED BY <2>1
<1>5. ASSUME NEW k \in Nat, k > 0, Solved(k - 1) PROVE Solved(k)
  <2>1. PICK f : f = Rounds(k - 1, f)
    BY <1>5
  <2> DEFINE g == [n \in 0..k |-> IF n = k THEN Round(f[k - 1]) ELSE f[n]]
  <2>2. \A n \in 0..k : n # 0 => n - 1 \in 0..k /\ n - 1 # k
    OBVIOUS
  <2>3. \A n \in 0..k : g[n] = IF n = 0 THEN base ELSE Round(g[n - 1])
    <3> TAKE n \in 0..k
    <3>1. CASE n = k
      <4>1. g[k] = Round(f[k - 1]) /\ g[k - 1] = f[k - 1]
        BY <1>5
      <4> QED BY <1>5, <3>1, <4>1
    <3>2. CASE n # k /\ n = 0
      <4>1. g[0] = f[0] /\ f[0] = base
        BY <1>5, <2>1
      <4> QED BY <3>2, <4>1
    <3>3. CASE n # k /\ n # 0
      <4>1. g[n] = f[n] /\ g[n - 1] = f[n - 1]
        BY <2>2, <3>3
      <4>2. f[n] = Round(f[n - 1])
        BY <2>1, <3>3
      <4> QED BY <3>3, <4>1, <4>2
    <3> QED BY <3>1, <3>2, <3>3
  <2>4. g = Rounds(k, g)
    BY <2>3
  <2> HIDE DEF g
  <2> QED BY <2>4
<1> HIDE DEF Solved
<1>6. Solved(MaxWorkers)
  <2> DEFINE Bad == {k \in Nat : ~Solved(k)}
  <2>1. ASSUME Bad # {} PROVE FALSE
    <3>1. Bad \in SUBSET Nat
      OBVIOUS
    <3>2. PICK k \in Bad : \A j \in Bad : k <= j
      BY <2>1, <3>1, LeastNatural
    <3>3. k \in Nat /\ k > 0 /\ k - 1 \in Nat /\ ~(k <= k - 1)
      BY <1>4, <3>2
    <3>4. Solved(k - 1)
      BY <3>2, <3>3
    <3> QED BY <1>5, <3>2, <3>3, <3>4
  <2> QED BY <1>m, <2>1
<1>7. after = Rounds(MaxWorkers, after)
  BY <1>6 DEF Solved
<1> HIDE DEF after
<1>8. after[0] = base /\ \A n \in 1..MaxWorkers : after[n] = Round(after[n - 1])
  BY <1>m, <1>7
\* Every round keeps it.
<1> DEFINE Bad == {n \in 0..MaxWorkers : ~RoundOK(after[n])}
<1>9. ASSUME Bad # {} PROVE FALSE
  <2>1. Bad \in SUBSET Nat
    BY <1>m
  <2>2. PICK n \in Bad : \A j \in Bad : n <= j
    BY <1>9, <2>1, LeastNatural
  <2>3. n \in 1..MaxWorkers /\ n - 1 \in 0..MaxWorkers /\ ~(n <= n - 1)
    BY <1>m, <1>2, <1>8, <2>2
  <2>4. RoundOK(after[n - 1])
    BY <2>2, <2>3
  <2> QED BY <1>3, <1>8, <2>2, <2>3, <2>4
<1> QED BY <1>1, <1>9, <1>m

-----------------------------------------------------------------------------
(* What the steps do to the workers.                                        *)

\* The parts of a worker entry that the tasks depend on are the same in y.
SameWork(x, y) ==
    /\ y.queue = x.queue /\ y.item = x.item
    /\ y.running = x.running /\ y.posted = x.posted

\* Only the timers differ.
SameButArmed(x, y) ==
    /\ SameWork(x, y)
    /\ y.place = x.place /\ y.thread = x.thread /\ y.quit = x.quit

\* Workers taken out of the lists.
LEMMA TakenEffect ==
    ASSUME NEW ws \in [Ids -> Worker], NEW S
    PROVE  /\ Taken(ws, S) \in [Ids -> Worker]
           /\ \A v \in Ids :
                /\ SameWork(ws[v], Taken(ws, S)[v])
                /\ Taken(ws, S)[v].thread = ws[v].thread /\ Taken(ws, S)[v].quit = ws[v].quit
                /\ Taken(ws, S)[v].place = IF v \in S THEN "taken" ELSE ws[v].place
<1>1. \A v \in Ids : [ws[v] EXCEPT !.place = "taken"] \in Worker
  BY DEF Worker
<1>2. Taken(ws, S) \in [Ids -> Worker]
  BY <1>1 DEF Taken
<1>3. ASSUME NEW v \in Ids
      PROVE  /\ SameWork(ws[v], Taken(ws, S)[v])
             /\ Taken(ws, S)[v].thread = ws[v].thread /\ Taken(ws, S)[v].quit = ws[v].quit
             /\ Taken(ws, S)[v].place = IF v \in S THEN "taken" ELSE ws[v].place
  <2>1. Taken(ws, S)[v] = IF v \in S THEN [ws[v] EXCEPT !.place = "taken"] ELSE ws[v]
    BY DEF Taken
  <2>2. ws[v] \in Worker
    OBVIOUS
  <2>3. CASE v \in S
    BY <2>1, <2>2, <2>3 DEF SameWork, Worker
  <2>4. CASE v \notin S
    BY <2>1, <2>4 DEF SameWork
  <2> QED BY <2>3, <2>4
<1> QED BY <1>2, <1>3

\* Workers told to quit.
LEMMA QuitEffect ==
    ASSUME NEW ws \in [Ids -> Worker], NEW S
    PROVE  /\ Quit(ws, S) \in [Ids -> Worker]
           /\ \A v \in Ids :
                /\ SameWork(ws[v], Quit(ws, S)[v])
                /\ Quit(ws, S)[v].thread = ws[v].thread /\ Quit(ws, S)[v].place = ws[v].place
                /\ v \notin S => Quit(ws, S)[v].quit = ws[v].quit
<1>1. \A v \in Ids : [ws[v] EXCEPT !.quit = TRUE] \in Worker
  BY DEF Worker
<1>2. Quit(ws, S) \in [Ids -> Worker]
  BY <1>1 DEF Quit
<1>3. ASSUME NEW v \in Ids
      PROVE  /\ SameWork(ws[v], Quit(ws, S)[v])
             /\ Quit(ws, S)[v].thread = ws[v].thread /\ Quit(ws, S)[v].place = ws[v].place
             /\ v \notin S => Quit(ws, S)[v].quit = ws[v].quit
  <2>1. Quit(ws, S)[v] = IF v \in S THEN [ws[v] EXCEPT !.quit = TRUE] ELSE ws[v]
    BY DEF Quit
  <2>2. ws[v] \in Worker
    OBVIOUS
  <2>3. CASE v \in S
    BY <2>1, <2>2, <2>3 DEF SameWork, Worker
  <2>4. CASE v \notin S
    BY <2>1, <2>4 DEF SameWork
  <2> QED BY <2>3, <2>4
<1> QED BY <1>2, <1>3

\* ws with w replaced.
LEMMA ReplaceEffect ==
    ASSUME NEW ws \in [Ids -> Worker], NEW w \in Ids, NEW y \in Worker
    PROVE  /\ [ws EXCEPT ![w] = y] \in [Ids -> Worker]
           /\ [ws EXCEPT ![w] = y][w] = y
           /\ \A v \in Ids \ {w} : [ws EXCEPT ![w] = y][v] = ws[v]
  OBVIOUS

\* A new value of the timers of a worker.
LEMMA ArmedFields ==
    ASSUME NEW x \in Worker, NEW a \in Nat
    PROVE  [x EXCEPT !.armed = a] \in Worker /\ SameButArmed(x, [x EXCEPT !.armed = a])
  BY DEF Worker, SameButArmed, SameWork

\* A new token.
LEMMA TokenEffect ==
    ASSUME NEW ws \in [Ids -> Worker], NEW w \in Ids
    PROVE  /\ NewToken(ws, w) \in [Ids -> Worker]
           /\ NewToken(ws, w) = [ws EXCEPT ![w] = [ws[w] EXCEPT !.armed = 0]]
           /\ \A v \in Ids : SameButArmed(ws[v], NewToken(ws, w)[v])
<1>1. NewToken(ws, w) = [ws EXCEPT ![w] = [ws[w] EXCEPT !.armed = 0]]
  BY DEF NewToken
<1> DEFINE y == [ws[w] EXCEPT !.armed = 0]
<1>2. y \in Worker /\ SameButArmed(ws[w], y)
  BY ArmedFields
<1>3. \A v \in Ids : SameButArmed(ws[v], ws[v])
  BY DEF SameButArmed, SameWork
<1> HIDE DEF y
<1> QED BY <1>1, <1>2, <1>3 DEF y

\* A timer armed, or not.
LEMMA ExpiryCheckEffect ==
    ASSUME NEW ws \in [Ids -> Worker], NEW w \in Ids
    PROVE  /\ ScheduleExpiryCheck(ws, w) \in [Ids -> Worker]
           /\ \A v \in Ids : SameButArmed(ws[v], ScheduleExpiryCheck(ws, w)[v])
<1> DEFINE y == [ws[w] EXCEPT !.armed = ws[w].armed + 1]
<1>1. ScheduleExpiryCheck(ws, w) \in {ws, [ws EXCEPT ![w] = y]}
  BY DEF ScheduleExpiryCheck
<1>2. ws[w].armed + 1 \in Nat
  BY WorkerFields
<1>3. y \in Worker /\ SameButArmed(ws[w], y)
  BY <1>2, ArmedFields
<1>4. \A v \in Ids : SameButArmed(ws[v], ws[v])
  BY DEF SameButArmed, SameWork
<1> HIDE DEF y
<1> QED BY <1>1, <1>3, <1>4

\* SameButArmed is transitive.
LEMMA SameTransitive ==
    ASSUME NEW x, NEW y, NEW z, SameButArmed(x, y), SameButArmed(y, z)
    PROVE  SameButArmed(x, z)
  BY DEF SameButArmed, SameWork

\* The timers of idle workers start again.
LEMMA IdleExpiryEffect ==
    ASSUME NEW ws \in [Ids -> Worker]
    PROVE  /\ ScheduleIdleExpiry(ws) \in [Ids -> Worker]
           /\ \A v \in Ids : SameButArmed(ws[v], ScheduleIdleExpiry(ws)[v])
<1>1. ASSUME NEW w \in Ids
      PROVE  /\ ScheduleExpiryCheck(NewToken(ws, w), w)[w] \in Worker
             /\ SameButArmed(ws[w], ScheduleExpiryCheck(NewToken(ws, w), w)[w])
  <2>1. NewToken(ws, w) \in [Ids -> Worker] /\ SameButArmed(ws[w], NewToken(ws, w)[w])
    BY TokenEffect
  <2>2. /\ ScheduleExpiryCheck(NewToken(ws, w), w) \in [Ids -> Worker]
        /\ SameButArmed(NewToken(ws, w)[w], ScheduleExpiryCheck(NewToken(ws, w), w)[w])
    BY <2>1, ExpiryCheckEffect
  <2> QED BY <2>1, <2>2, SameTransitive
<1>2. \A v \in Ids : SameButArmed(ws[v], ws[v])
  BY DEF SameButArmed, SameWork
<1> QED BY <1>1, <1>2 DEF ScheduleIdleExpiry

\* setExpiryTimeout(-1).
LEMMA NoExpiryEffect ==
    ASSUME TypeOK, NEW c \in Clients, SetExpiryTimeout(c)
    PROVE  /\ workers' \in [Ids -> Worker]
           /\ \A v \in Ids : SameButArmed(workers[v], workers'[v])
<1>1. workers \in [Ids -> Worker]
  BY DEF TypeOK
<1>2. \A w \in Ids : /\ NewToken(workers, w)[w] \in Worker
                     /\ SameButArmed(workers[w], NewToken(workers, w)[w])
  BY <1>1, TokenEffect
<1>3. \A w \in Ids : SameButArmed(workers[w], workers[w])
  BY DEF SameButArmed, SameWork
<1>4. workers' = [w \in Ids |->
                    IF w \in Active(workers) /\ ~WouldQueue(workers, w)
                    THEN NewToken(workers, w)[w] ELSE workers[w]]
  BY DEF SetExpiryTimeout
<1> QED BY <1>1, <1>2, <1>3, <1>4

\* A dispatch that finds no task.
LEMMA EmptyDrainEffect ==
    ASSUME TypeOK, NEW w \in Ids, Drain(w), workers[w].queue = <<>>
    PROVE  /\ workers' \in [Ids -> Worker] /\ \A v \in Ids \ {w} : workers'[v] = workers[v]
           /\ workers'[w].queue = workers[w].queue /\ workers'[w].item = workers[w].item
           /\ workers'[w].running = workers[w].running /\ workers'[w].posted = FALSE
           /\ workers'[w].place = workers[w].place /\ workers'[w].quit = workers[w].quit
           /\ workers'[w].thread = workers[w].thread
           /\ UNCHANGED <<pool, status>>
<1> DEFINE y == [workers[w] EXCEPT !.posted = FALSE]
<1>1. workers \in [Ids -> Worker] /\ workers[w] \in Worker
  BY DEF TypeOK
<1>2. workers' = [workers EXCEPT ![w] = y] /\ UNCHANGED <<pool, status>>
  BY DEF Drain
<1>3. y \in Worker
  BY <1>1 DEF Worker
<1>4. /\ y.queue = workers[w].queue /\ y.item = workers[w].item
      /\ y.running = workers[w].running /\ y.posted = FALSE
      /\ y.place = workers[w].place /\ y.quit = workers[w].quit
      /\ y.thread = workers[w].thread
  BY <1>1 DEF Worker
<1> HIDE DEF y
<1> QED BY <1>1, <1>2, <1>3, <1>4

\* A dispatch that begins to run the first task.
LEMMA DrainEffect ==
    ASSUME TypeOK, NEW w \in Ids, Drain(w), workers[w].queue # <<>>
    PROVE  /\ workers' \in [Ids -> Worker] /\ \A v \in Ids \ {w} : workers'[v] = workers[v]
           /\ workers'[w].queue = Tail(workers[w].queue)
           /\ workers'[w].item = Head(workers[w].queue).runnable
           /\ workers'[w].running = TRUE /\ workers'[w].posted = FALSE
           /\ workers'[w].place = workers[w].place /\ workers'[w].quit = workers[w].quit
           /\ workers'[w].thread = "notifyRun"
           /\ pool' = [pool EXCEPT !.running = @ + 1]
           /\ status' = [status EXCEPT ![Head(workers[w].queue).runnable] = "running"]
<1> DEFINE x == workers[w]
           t == Head(x.queue).runnable
           y == [x EXCEPT !.armed = 0, !.posted = FALSE, !.queue = Tail(x.queue),
                          !.running = TRUE, !.item = t, !.thread = "notifyRun"]
<1>1. workers \in [Ids -> Worker] /\ x \in Worker
  BY DEF TypeOK
<1>2. x.queue \in Seq(Items) /\ x.queue # <<>>
  BY <1>1, WorkerFields
<1>3. Tail(x.queue) \in Seq(Items) /\ Head(x.queue) \in Items
  BY <1>2, TailElements
<1>4. t \in Tasks
  BY <1>3 DEF Items
<1>5. NewToken(workers, w) = [workers EXCEPT ![w] = [x EXCEPT !.armed = 0]]
  BY <1>1, TokenEffect
<1>6. /\ workers' = [NewToken(workers, w) EXCEPT
                       ![w].posted = FALSE, ![w].queue = Tail(@), ![w].running = TRUE,
                       ![w].item = t, ![w].thread = "notifyRun"]
      /\ pool' = [pool EXCEPT !.running = @ + 1]
      /\ status' = [status EXCEPT ![t] = "running"]
  BY DEF Drain
<1>7. workers' = [workers EXCEPT ![w] = y]
  <2> DEFINE a == [x EXCEPT !.armed = 0]
             nt == NewToken(workers, w)
             z == [a EXCEPT !.posted = FALSE, !.queue = Tail(a.queue), !.running = TRUE,
                            !.item = t, !.thread = "notifyRun"]
  <2>1. nt = [workers EXCEPT ![w] = a]
    BY <1>5
  <2> HIDE DEF nt
  <2>2. nt[w] = a /\ nt = [v \in Ids |-> IF v = w THEN a ELSE workers[v]]
    BY <1>1, <2>1
  <2>3. workers' = [nt EXCEPT ![w].posted = FALSE, ![w].queue = Tail(@), ![w].running = TRUE,
                       ![w].item = t, ![w].thread = "notifyRun"]
    BY <1>6 DEF nt
  <2>4. z = y
    BY <1>1 DEF Worker
  <2>5. workers' = [nt EXCEPT ![w] = z]
    BY <1>1, <2>2, <2>3 DEF Worker
  <2> HIDE DEF z, y, a
  <2> QED BY <1>1, <2>2, <2>4, <2>5
<1>8. "notifyRun" \in ThreadStates /\ 0 \in Nat
  BY DEF ThreadStates, AfterNotify
<1>9. y \in Worker
  BY <1>1, <1>3, <1>4, <1>8 DEF Worker
<1>10. /\ y.queue = Tail(x.queue) /\ y.item = t /\ y.running = TRUE /\ y.posted = FALSE
       /\ y.place = x.place /\ y.quit = x.quit /\ y.thread = "notifyRun"
  BY <1>1 DEF Worker
<1> HIDE DEF y
<1>11. workers' \in [Ids -> Worker] /\ workers'[w] = y /\ \A v \in Ids \ {w} : workers'[v] = workers[v]
  BY <1>1, <1>7, <1>9
<1> QED BY <1>6, <1>10, <1>11

\* The end of a task.
LEMMA FinishEffect ==
    ASSUME TypeOK, WorkersInv, NEW w \in Ids, Finish(w)
    PROVE  /\ workers' \in [Ids -> Worker] /\ \A v \in Ids \ {w} : workers'[v] = workers[v]
           /\ workers'[w].queue = workers[w].queue /\ workers'[w].item = NoTask
           /\ workers'[w].running = FALSE
           /\ workers'[w].posted = (workers[w].queue # <<>>)
           /\ workers'[w].place = workers[w].place /\ workers'[w].quit = workers[w].quit
           /\ workers'[w].thread = IF workers[w].queue # <<>> THEN "notifyNext" ELSE "notifyIdle"
           /\ workers[w].item \in Tasks /\ workers[w].running = TRUE /\ workers[w].place = "active"
<1> DEFINE x == workers[w]
           b == [x EXCEPT !.running = FALSE, !.item = NoTask]
           ws == [workers EXCEPT ![w].running = FALSE, ![w].item = NoTask]
           y1 == [b EXCEPT !.posted = TRUE, !.thread = "notifyNext"]
           y2 == [b EXCEPT !.armed = 0, !.thread = "notifyIdle"]
<1>1. workers \in [Ids -> Worker] /\ x \in Worker
  BY DEF TypeOK
<1>2. x.running = TRUE /\ x.posted = FALSE /\ x.item \in Tasks /\ x.place = "active"
  <2>1. x.thread = "run" /\ WorkerOK(x)
    BY DEF Finish, WorkersInv, WorkersOK
  <2> QED BY <1>1, <2>1, WorkerFields DEF WorkerOK, Busy
<1>3. ws = [workers EXCEPT ![w] = b] /\ b \in Worker
  BY <1>1 DEF Worker
<1>4. /\ b.queue = x.queue /\ b.item = NoTask /\ b.running = FALSE /\ b.posted = FALSE
      /\ b.place = x.place /\ b.quit = x.quit
  BY <1>1, <1>2 DEF Worker
<1> HIDE DEF b, ws
<1>5. ws \in [Ids -> Worker] /\ ws[w] = b /\ \A v \in Ids \ {w} : ws[v] = workers[v]
  BY <1>1, <1>3
<1>6. workers' = IF ws[w].queue # <<>>
                 THEN [ScheduleDispatch(ws, w) EXCEPT ![w].thread = "notifyNext"]
                 ELSE [NewToken(ws, w) EXCEPT ![w].thread = "notifyIdle"]
  BY DEF Finish, ws
<1>7. {"notifyNext", "notifyIdle"} \subseteq ThreadStates /\ 0 \in Nat
  BY DEF ThreadStates, AfterNotify
<1>8. y1 \in Worker /\ y2 \in Worker
  BY <1>3, <1>7 DEF Worker
<1>9. /\ y1.queue = b.queue /\ y1.item = b.item /\ y1.running = b.running /\ y1.posted = TRUE
      /\ y1.place = b.place /\ y1.quit = b.quit /\ y1.thread = "notifyNext"
      /\ y2.queue = b.queue /\ y2.item = b.item /\ y2.running = b.running /\ y2.posted = b.posted
      /\ y2.place = b.place /\ y2.quit = b.quit /\ y2.thread = "notifyIdle"
  BY <1>3 DEF Worker
<1>10. CASE x.queue # <<>>
  <2>1. ScheduleDispatch(ws, w) = [ws EXCEPT ![w].posted = TRUE]
    BY <1>4, <1>5, <1>10 DEF ScheduleDispatch
  <2>2. workers' = [ws EXCEPT ![w] = y1]
    BY <1>3, <1>4, <1>5, <1>6, <1>10, <2>1 DEF Worker
  <2> HIDE DEF y1
  <2> QED BY <1>2, <1>4, <1>5, <1>8, <1>9, <1>10, <2>2
<1>11. CASE x.queue = <<>>
  <2>1. NewToken(ws, w) = [ws EXCEPT ![w] = [b EXCEPT !.armed = 0]]
    BY <1>5, TokenEffect
  <2>2. workers' = [ws EXCEPT ![w] = y2]
    BY <1>3, <1>4, <1>5, <1>6, <1>11, <2>1 DEF Worker
  <2> HIDE DEF y2
  <2> QED BY <1>2, <1>4, <1>5, <1>8, <1>9, <1>11, <2>2
<1> QED BY <1>10, <1>11

\* The steps of a worker's thread between tasks: the work is the same, and so are the
\* other workers.
Quiet(w) ==
    /\ workers' \in [Ids -> Worker] /\ \A v \in Ids \ {w} : workers'[v] = workers[v]
    /\ SameWork(workers[w], workers'[w])

\* The second critical section of onRunnableFinished_().
LEMMA RearmEffect ==
    ASSUME TypeOK, NEW w \in Ids, Rearm(w)
    PROVE  /\ Quiet(w)
           /\ workers'[w].place = workers[w].place /\ workers'[w].quit = workers[w].quit
           /\ workers'[w].thread = "ready"
<1> DEFINE ws == IF workers[w].place = "active" THEN ScheduleExpiryCheck(workers, w) ELSE workers
           y == [ws[w] EXCEPT !.thread = "ready"]
<1>1. workers \in [Ids -> Worker]
  BY DEF TypeOK
<1>2. /\ ws \in [Ids -> Worker] /\ SameButArmed(workers[w], ws[w])
      /\ \A v \in Ids \ {w} : ws[v] = workers[v]
  <2>1. /\ ScheduleExpiryCheck(workers, w) \in [Ids -> Worker]
        /\ SameButArmed(workers[w], ScheduleExpiryCheck(workers, w)[w])
    BY <1>1, ExpiryCheckEffect
  <2>2. \A v \in Ids \ {w} : ScheduleExpiryCheck(workers, w)[v] = workers[v]
    BY <1>1 DEF ScheduleExpiryCheck
  <2>3. SameButArmed(workers[w], workers[w])
    BY DEF SameButArmed, SameWork
  <2> QED BY <1>1, <2>1, <2>2, <2>3
<1>3. workers' = [ws EXCEPT ![w].thread = "ready"]
  BY DEF Rearm
<1> HIDE DEF ws
<1>4. workers' = [ws EXCEPT ![w] = y]
  BY <1>2, <1>3
<1>5. y \in Worker /\ y.thread = "ready" /\ SameWork(ws[w], y) /\ y.place = ws[w].place
      /\ y.quit = ws[w].quit
  <2>1. "ready" \in ThreadStates /\ ws[w] \in Worker
    BY <1>2 DEF ThreadStates
  <2> QED BY <2>1 DEF Worker, SameWork
<1> HIDE DEF y
<1>6. workers' \in [Ids -> Worker] /\ workers'[w] = y /\ \A v \in Ids \ {w} : workers'[v] = workers[v]
  BY <1>2, <1>4, <1>5
<1> QED BY <1>2, <1>5, <1>6 DEF Quiet, SameWork, SameButArmed

\* An expiry timer that fires.
LEMMA ExpireEffect ==
    ASSUME TypeOK, NEW w \in Ids, Expire(w)
    PROVE  /\ Quiet(w) /\ workers'[w].quit = workers[w].quit
           /\ \/ workers'[w].place = workers[w].place /\ workers'[w].thread = workers[w].thread
              \/ /\ workers[w].place = "active" /\ ~WouldQueue(workers, w)
                 /\ workers'[w].place = "retired" /\ workers'[w].thread = "notifyQuit"
                 /\ ~pool.stopping /\ ~pool.waiting
<1> DEFINE a == [workers[w] EXCEPT !.armed = workers[w].armed - 1]
           y == [a EXCEPT !.place = "retired", !.thread = "notifyQuit"]
           fired == [workers EXCEPT ![w].armed = @ - 1]
           retires == /\ ~pool.stopping /\ ~pool.waiting
                      /\ workers[w].place = "active"
                      /\ ~WouldQueue(workers, w)
<1>1. workers \in [Ids -> Worker] /\ workers[w] \in Worker
  BY DEF TypeOK
<1>2. workers[w].armed - 1 \in Nat
  <2>1. workers[w].armed \in Nat /\ workers[w].armed > 0
    BY <1>1, WorkerFields DEF Expire
  <2> QED BY <2>1
<1>3. a \in Worker /\ SameButArmed(workers[w], a)
  BY <1>1, <1>2, ArmedFields
<1>4. fired = [workers EXCEPT ![w] = a]
  BY <1>1
<1> HIDE DEF a
<1>5. y \in Worker /\ SameWork(a, y) /\ y.quit = a.quit /\ y.place = "retired"
      /\ y.thread = "notifyQuit"
  <2>1. "notifyQuit" \in ThreadStates
    BY DEF ThreadStates, AfterNotify
  <2> QED BY <1>3, <2>1 DEF Worker, SameWork
<1>6. workers' = IF retires
                 THEN [fired EXCEPT ![w].place = "retired", ![w].thread = "notifyQuit"]
                 ELSE fired
  BY DEF Expire
<1>7. CASE retires
  <2>1. workers' = [workers EXCEPT ![w] = y]
    BY <1>1, <1>3, <1>4, <1>6, <1>7 DEF Worker
  <2> HIDE DEF y
  <2>2. workers' \in [Ids -> Worker] /\ workers'[w] = y /\ \A v \in Ids \ {w} : workers'[v] = workers[v]
    BY <1>1, <1>5, <2>1
  <2> QED BY <1>3, <1>5, <1>7, <2>2 DEF Quiet, SameWork, SameButArmed
<1>8. CASE ~retires
  <2>1. workers' = [workers EXCEPT ![w] = a]
    BY <1>4, <1>6, <1>8
  <2>2. workers' \in [Ids -> Worker] /\ workers'[w] = a /\ \A v \in Ids \ {w} : workers'[v] = workers[v]
    BY <1>1, <1>3, <2>1
  <2> QED BY <1>3, <2>2 DEF Quiet, SameWork, SameButArmed
<1> QED BY <1>7, <1>8

\* A notification by a worker's thread.
LEMMA ThreadNotifyEffect ==
    ASSUME TypeOK, NEW w \in Ids, ThreadNotify(w)
    PROVE  /\ Quiet(w) /\ workers'[w].place = workers[w].place
           /\ workers[w].thread \in DOMAIN AfterNotify
           /\ workers'[w].thread = AfterNotify[workers[w].thread]
           /\ workers'[w].quit = (workers[w].quit \/ workers[w].thread = "notifyQuit")
<1> DEFINE x == workers[w]
           y == [x EXCEPT !.thread = AfterNotify[x.thread],
                          !.quit = x.quit \/ x.thread = "notifyQuit"]
<1>1. workers \in [Ids -> Worker] /\ x \in Worker
  BY DEF TypeOK
<1>2. x.thread \in DOMAIN AfterNotify
  BY DEF ThreadNotify
<1>3. AfterNotify[x.thread] \in ThreadStates
  BY <1>2 DEF AfterNotify, ThreadStates
<1>4. workers' = [workers EXCEPT ![w] = y]
  <2>1. workers' = [workers EXCEPT ![w].thread = AfterNotify[@],
                                  ![w].quit = @ \/ workers[w].thread = "notifyQuit"]
    BY DEF ThreadNotify
  <2> QED BY <1>1, <2>1 DEF Worker
<1>5. (x.quit \/ x.thread = "notifyQuit") \in BOOLEAN
  OBVIOUS
<1>6. /\ y \in Worker /\ SameWork(x, y) /\ y.place = x.place
      /\ y.thread = AfterNotify[x.thread] /\ y.quit = (x.quit \/ x.thread = "notifyQuit")
  BY <1>1, <1>3, <1>5 DEF Worker, SameWork
<1> HIDE DEF y
<1>7. workers' \in [Ids -> Worker] /\ workers'[w] = y /\ \A v \in Ids \ {w} : workers'[v] = workers[v]
  BY <1>1, <1>4, <1>6
<1> QED BY <1>2, <1>6, <1>7 DEF Quiet

\* The end of a worker's event loop.
LEMMA ExitEffect ==
    ASSUME TypeOK, NEW w \in Ids, Exit(w)
    PROVE  /\ Quiet(w) /\ workers'[w].place = workers[w].place
           /\ workers'[w].quit = workers[w].quit /\ workers'[w].thread = "stopped"
<1> DEFINE x == workers[w]
           y == [x EXCEPT !.thread = "stopped", !.armed = 0]
<1>1. workers \in [Ids -> Worker] /\ x \in Worker
  BY DEF TypeOK
<1>2. workers' = [workers EXCEPT ![w] = y]
  <2>1. workers' = [workers EXCEPT ![w].thread = "stopped", ![w].armed = 0]
    BY DEF Exit
  <2> QED BY <1>1, <2>1 DEF Worker
<1>3. "stopped" \in ThreadStates /\ 0 \in Nat
  BY DEF ThreadStates, AfterNotify
<1>4. y \in Worker /\ SameWork(x, y) /\ y.place = x.place /\ y.thread = "stopped" /\ y.quit = x.quit
  BY <1>1, <1>3 DEF Worker, SameWork
<1> HIDE DEF y
<1>5. workers' \in [Ids -> Worker] /\ workers'[w] = y /\ \A v \in Ids \ {w} : workers'[v] = workers[v]
  BY <1>1, <1>2, <1>4
<1> QED BY <1>4, <1>5 DEF Quiet

\* tryTake() of a task that is queued on w.
LEMMA TryTakeEffect ==
    ASSUME TypeOK, NEW c \in Clients, NEW t \in Tasks, TryTake(c, t)
    PROVE  /\ workers' \in [Ids -> Worker]
           /\ \E w \in Ids : \E i \in DOMAIN workers[w].queue :
                /\ workers[w].queue[i].runnable = t
                /\ \A v \in Ids \ {w} : SameButArmed(workers[v], workers'[v])
                /\ Removed(workers'[w].queue, workers[w].queue, i)
                /\ workers'[w].item = workers[w].item /\ workers'[w].running = workers[w].running
                /\ workers'[w].posted = workers[w].posted /\ workers'[w].place = workers[w].place
                /\ workers'[w].thread = workers[w].thread /\ workers'[w].quit = workers[w].quit
<1>1. workers \in [Ids -> Worker]
  BY DEF TypeOK
<1>2. PICK w \in Ids : \E i \in DOMAIN workers[w].queue :
        /\ workers[w].queue[i].runnable = t
        /\ LET ws == [workers EXCEPT ![w].queue = RemoveAt(@, i)]
           IN  workers' = IF ~ws[w].running /\ ws[w].queue = <<>>
                          THEN ScheduleExpiryCheck(NewToken(ws, w), w) ELSE ws
  BY DEF TryTake, Active
<1>3. PICK i \in DOMAIN workers[w].queue :
        /\ workers[w].queue[i].runnable = t
        /\ LET ws == [workers EXCEPT ![w].queue = RemoveAt(@, i)]
           IN  workers' = IF ~ws[w].running /\ ws[w].queue = <<>>
                          THEN ScheduleExpiryCheck(NewToken(ws, w), w) ELSE ws
  BY <1>2
<1> DEFINE x == workers[w]
           r == RemoveAt(x.queue, i)
           y == [x EXCEPT !.queue = r]
           ws == [workers EXCEPT ![w].queue = RemoveAt(@, i)]
<1>4. workers' = IF ~ws[w].running /\ ws[w].queue = <<>>
                 THEN ScheduleExpiryCheck(NewToken(ws, w), w) ELSE ws
  BY <1>3
<1>5. x \in Worker /\ x.queue \in Seq(Items) /\ i \in 1..Len(x.queue)
  <2>1. x \in Worker /\ x.queue \in Seq(Items)
    BY <1>1, WorkerFields
  <2> QED BY <2>1
<1>6. Removed(r, x.queue, i)
  BY <1>5, RemoveElements DEF Removed
<1>7. ws = [workers EXCEPT ![w] = y]
  BY <1>1
<1>8. y \in Worker
  BY <1>5, <1>6 DEF Removed, Worker
<1>9. /\ y.queue = r /\ y.item = x.item /\ y.running = x.running /\ y.posted = x.posted
      /\ y.place = x.place /\ y.thread = x.thread /\ y.quit = x.quit
  BY <1>5 DEF Worker
<1> HIDE DEF ws, y, r
<1>10. ws \in [Ids -> Worker] /\ ws[w] = y /\ \A v \in Ids \ {w} : ws[v] = workers[v]
  BY <1>1, <1>7, <1>8
<1>11. workers' \in [Ids -> Worker] /\ \A v \in Ids : SameButArmed(ws[v], workers'[v])
  <2> DEFINE nt == NewToken(ws, w)
  <2>1. nt \in [Ids -> Worker] /\ \A v \in Ids : SameButArmed(ws[v], nt[v])
    BY <1>10, TokenEffect
  <2> HIDE DEF nt
  <2>2. /\ ScheduleExpiryCheck(nt, w) \in [Ids -> Worker]
        /\ \A v \in Ids : SameButArmed(nt[v], ScheduleExpiryCheck(nt, w)[v])
    BY <2>1, ExpiryCheckEffect
  <2>3. \A v \in Ids : SameButArmed(ws[v], ScheduleExpiryCheck(nt, w)[v])
    BY <2>1, <2>2, SameTransitive
  <2>4. \A v \in Ids : SameButArmed(ws[v], ws[v])
    BY DEF SameButArmed, SameWork
  <2>5. workers' = ws \/ workers' = ScheduleExpiryCheck(nt, w)
    BY <1>4 DEF nt
  <2> QED BY <1>10, <2>2, <2>3, <2>4, <2>5
<1>12. SameButArmed(y, workers'[w]) /\ \A v \in Ids \ {w} : SameButArmed(workers[v], workers'[v])
  BY <1>10, <1>11
<1>13. /\ workers'[w].queue = r /\ workers'[w].item = x.item
       /\ workers'[w].running = x.running /\ workers'[w].posted = x.posted
       /\ workers'[w].place = x.place /\ workers'[w].thread = x.thread
       /\ workers'[w].quit = x.quit
  BY <1>9, <1>12 DEF SameButArmed, SameWork
<1>14. Removed(workers'[w].queue, workers[w].queue, i)
  BY <1>6, <1>13
<1> QED BY <1>3, <1>11, <1>12, <1>13, <1>14

\* clear().
LEMMA ClearEffect ==
    ASSUME TypeOK, WorkersInv, NEW c \in Clients, Clear(c)
    PROVE  /\ workers' \in [Ids -> Worker]
           /\ \A v \in Ids :
                /\ workers'[v].queue = <<>> /\ workers'[v].item = workers[v].item
                /\ workers'[v].running = workers[v].running
                /\ workers'[v].posted = workers[v].posted /\ workers'[v].place = workers[v].place
                /\ workers'[v].thread = workers[v].thread /\ workers'[v].quit = workers[v].quit
<1> DEFINE ws == [w \in Ids |->
                    IF w \in Active(workers) THEN [workers[w] EXCEPT !.queue = <<>>]
                    ELSE workers[w]]
<1>1. workers \in [Ids -> Worker]
  BY DEF TypeOK
<1>2. ASSUME NEW v \in Ids
      PROVE  /\ ws[v] \in Worker
             /\ ws[v].queue = <<>> /\ ws[v].item = workers[v].item
             /\ ws[v].running = workers[v].running
             /\ ws[v].posted = workers[v].posted /\ ws[v].place = workers[v].place
             /\ ws[v].thread = workers[v].thread /\ ws[v].quit = workers[v].quit
  <2>1. workers[v] \in Worker /\ <<>> \in Seq(Items)
    BY <1>1
  <2>2. CASE v \in Active(workers)
    <3>1. ws[v] = [workers[v] EXCEPT !.queue = <<>>]
      BY <2>2
    <3> QED BY <2>1, <3>1 DEF Worker
  <2>3. CASE v \notin Active(workers)
    <3>1. ws[v] = workers[v] /\ workers[v].place # "active" /\ WorkerOK(workers[v])
      BY <2>3 DEF Active, WorkersInv, WorkersOK
    <3> QED BY <2>1, <3>1 DEF WorkerOK
  <2> QED BY <2>2, <2>3
<1>3. ws \in [Ids -> Worker]
  BY <1>2
<1>4. workers' = ScheduleIdleExpiry(ws)
  BY DEF Clear
<1> HIDE DEF ws
<1>5. workers' \in [Ids -> Worker] /\ \A v \in Ids : SameButArmed(ws[v], workers'[v])
  BY <1>3, <1>4, IdleExpiryEffect
<1> QED BY <1>2, <1>5 DEF SameButArmed, SameWork

\* A change of capacity.
LEMMA ResizeEffect ==
    ASSUME TypeOK, WorkersInv, QueuesInv, OrderInv, NEW c \in Clients, NEW changed, NEW capacity,
           Resize(c, changed, capacity)
    PROVE  \E rb : /\ RoundOK(rb)
                   /\ workers' \in [Ids -> Worker]
                   /\ \A v \in Ids : SameButArmed(rb.ws[v], workers'[v])
                   /\ pool' = [changed EXCEPT !.created = rb.created, !.settings = @ + 1]
<1> DEFINE rb == Rebalance(capacity)
<1>1. RoundOK(rb)
  BY RebalanceKeeps
<1>2. workers' = ScheduleIdleExpiry(rb.ws)
      /\ pool' = [changed EXCEPT !.created = rb.created, !.settings = @ + 1]
  BY DEF Resize
<1> HIDE DEF rb
<1>3. rb.ws \in [Ids -> Worker]
  BY <1>1 DEF RoundOK
<1>4. workers' \in [Ids -> Worker] /\ \A v \in Ids : SameButArmed(rb.ws[v], workers'[v])
  BY <1>2, <1>3, IdleExpiryEffect
<1> QED BY <1>1, <1>2, <1>4

\* The task t is accepted and goes to worker w.
Accepted(c, t, priority, w, left) ==
    /\ InCall(c) /\ status[t] = "new" /\ Accepts
    /\ w \in Active(workers) \/ w = pool.created + 1
    /\ Assign(t, priority, w)
    /\ pool' = [pool EXCEPT !.created = Max({@, w}), !.accepted = @ + 1, !.reserved = left]
    /\ GoesTo(c, "notify")
    /\ UNCHANGED waitMutex

\* chooseWorkerLocked_() picks a worker of m_workers or a new one.
LEMMA ChoiceEffect ==
    ASSUME NEW a, NEW b, NEW w \in ChooseWorker(a, b)
    PROVE  w \in Active(workers) \/ w = pool.created + 1
  BY DEF ChooseWorker

\* The calls that submit a task accept it or refuse it.
LEMMA SubmitEffect ==
    ASSUME TypeOK, NEW c \in Clients, NEW t \in Tasks,
           \/ \E priority \in Priorities : Start(c, t, priority, FALSE)
           \/ Start(c, t, 0, TRUE)
           \/ StartOnReservedThread(c, t)
    PROVE  \/ Refuse(c, t) /\ status[t] = "new" /\ InCall(c)
           \/ \E priority \in Int, w \in Ids, left \in Nat : Accepted(c, t, priority, w, left)
<1> DEFINE Goal == \/ Refuse(c, t) /\ status[t] = "new" /\ InCall(c)
                   \/ \E priority \in Int, w \in Ids, left \in Nat : Accepted(c, t, priority, w, left)
<1>t. pool \in Pool /\ pool.reserved \in Nat
  BY DEF TypeOK, Pool
<1>1. ASSUME NEW priority \in Int, NEW b, Start(c, t, priority, b) PROVE Goal
  <2>1. InCall(c) /\ status[t] = "new"
    BY <1>1 DEF Start
  <2>2. \/ Refuse(c, t)
        \/ Accepts /\ \E w \in ChooseWorker(FALSE, b) \cap Ids :
              /\ Assign(t, priority, w)
              /\ pool' = [pool EXCEPT !.created = Max({@, w}), !.accepted = @ + 1]
              /\ GoesTo(c, "notify") /\ UNCHANGED waitMutex
    BY <1>1 DEF Start
  <2>3. ASSUME Accepts, NEW w \in ChooseWorker(FALSE, b) \cap Ids, Assign(t, priority, w),
               pool' = [pool EXCEPT !.created = Max({@, w}), !.accepted = @ + 1],
               GoesTo(c, "notify"), UNCHANGED waitMutex
        PROVE  Accepted(c, t, priority, w, pool.reserved) /\ w \in Ids
    <3>1. w \in Active(workers) \/ w = pool.created + 1
      BY <2>3, ChoiceEffect
    <3>2. pool' = [pool EXCEPT !.created = Max({@, w}), !.accepted = @ + 1, !.reserved = pool.reserved]
      BY <1>t, <2>3 DEF Pool
    <3> QED BY <2>1, <2>3, <3>1, <3>2 DEF Accepted
  <2> QED BY <1>t, <2>1, <2>2, <2>3
<1>2. ASSUME StartOnReservedThread(c, t) PROVE Goal
  <2> DEFINE idle == ChooseWorker(TRUE, TRUE)
             immediate == pool.reserved > 0 /\ idle # {}
             choices == IF immediate THEN idle ELSE ChooseWorker(TRUE, FALSE)
             left == IF immediate THEN pool.reserved - 1 ELSE pool.reserved
  <2>1. InCall(c) /\ status[t] = "new"
    BY <1>2 DEF StartOnReservedThread
  <2>2. \/ Refuse(c, t)
        \/ Accepts /\ \E w \in choices \cap Ids :
              /\ Assign(t, 0, w)
              /\ pool' = [pool EXCEPT !.created = Max({@, w}), !.accepted = @ + 1,
                                      !.reserved = IF immediate THEN @ - 1 ELSE @]
              /\ GoesTo(c, "notify") /\ UNCHANGED waitMutex
    BY <1>2 DEF StartOnReservedThread
  <2>3. left \in Nat
    <3>1. immediate => pool.reserved > 0
      OBVIOUS
    <3> HIDE DEF immediate
    <3> QED BY <1>t, <3>1
  <2>4. ASSUME NEW w \in choices PROVE w \in Active(workers) \/ w = pool.created + 1
    BY <2>4, ChoiceEffect
  <2>5. ASSUME Accepts, NEW w \in choices \cap Ids, Assign(t, 0, w),
               pool' = [pool EXCEPT !.created = Max({@, w}), !.accepted = @ + 1,
                                    !.reserved = IF immediate THEN @ - 1 ELSE @],
               GoesTo(c, "notify"), UNCHANGED waitMutex
        PROVE  Accepted(c, t, 0, w, left) /\ w \in Ids
    <3>1. pool' = [pool EXCEPT !.created = Max({@, w}), !.accepted = @ + 1, !.reserved = left]
      BY <1>t, <2>5 DEF Pool
    <3> QED BY <2>1, <2>4, <2>5, <3>1 DEF Accepted
  <2> HIDE DEF choices, immediate, left
  <2>6. CASE Refuse(c, t)
    BY <2>1, <2>6
  <2>7. ASSUME NEW w \in Ids, Accepted(c, t, 0, w, left) PROVE Goal
    <3>1. 0 \in Int
      OBVIOUS
    <3> QED BY <2>3, <2>7, <3>1
  <2> HIDE DEF Goal
  <2> QED BY <2>2, <2>5, <2>6, <2>7
<1>3. Priorities \subseteq Int /\ 0 \in Int
  BY PoolAssumption
<1> HIDE DEF Goal
<1>4. Goal
  BY <1>1, <1>2, <1>3
<1> QED BY <1>4 DEF Goal

-----------------------------------------------------------------------------
(* Types.                                                                   *)

\* The fields of a thread that uses the pool.
LEMMA ClientFields ==
    ASSUME NEW x \in Client
    PROVE  /\ x.pc \in Places /\ x.next \in {"idle", "wait", "stopAll", "dead"}
           /\ x.joining \in SUBSET Ids
           /\ x.timed \in BOOLEAN /\ x.expired \in BOOLEAN /\ x.ok \in BOOLEAN
  BY DEF Client

\* A thread that begins or ends a call.
LEMMA IdleFields ==
    ASSUME NEW p \in Places
    PROVE  [Idle EXCEPT !.pc = p] \in Client
  BY DEF Idle, Client, Places

\* The members of the pool.
LEMMA PoolFields ==
    ASSUME TypeOK
    PROVE  /\ pool \in Pool
           /\ pool.maxThreads \in Nat /\ pool.maxQueued \in Int /\ pool.reserved \in Nat
           /\ pool.running \in Nat /\ pool.created \in Nat /\ pool.accepted \in Nat
           /\ pool.waits \in Nat /\ pool.settings \in Nat
           /\ pool.expires \in BOOLEAN /\ pool.waiting \in BOOLEAN
           /\ pool.stopping \in BOOLEAN /\ pool.dead \in BOOLEAN
  BY DEF TypeOK, Pool

\* notify_all() changes where sleepers are.
LEMMA WokenFields ==
    ASSUME TypeOK
    PROVE  Woken \in [Clients -> Client]
<1>1. client \in [Clients -> Client]
  BY DEF TypeOK
<1>2. \A c \in Clients : [client[c] EXCEPT !.pc = "lock"] \in Client
  BY <1>1 DEF Client, Places
<1> QED BY <1>1, <1>2 DEF Woken

\* A task that runs is counted.
LEMMA RunningPositive ==
    ASSUME RunningExact, NEW t \in Tasks, status[t] = "running"
    PROVE  /\ IsFiniteSet({u \in Tasks : status[u] = "running"})
           /\ pool.running > 0 /\ pool.running \in Nat
<1> DEFINE R == {u \in Tasks : status[u] = "running"}
<1>1. IsFiniteSet(R)
  BY PoolAssumption, FS_Subset
<1>2. R # {}
  OBVIOUS
<1>3. Cardinality(R) \in Nat /\ Cardinality(R) # 0
  BY <1>1, <1>2, FS_EmptySet, FS_CardinalityType
<1>4. pool.running = Cardinality(R)
  BY DEF RunningExact
<1> HIDE DEF R
<1> QED BY <1>1, <1>3, <1>4 DEF R

\* Every step keeps the types.
LEMMA TypeStep ==
    ASSUME TypeOK, WorkersInv, QueuesInv, OrderInv, RunningInv, RunningExact, [Next]_vars
    PROVE  TypeOK'
<1>t. /\ workers \in [Ids -> Worker] /\ status \in [Tasks -> Outcomes]
      /\ client \in [Clients -> Client] /\ waitMutex \in Clients \cup {Nobody}
  BY DEF TypeOK
<1>p. /\ pool \in Pool
      /\ pool.maxThreads \in Nat /\ pool.maxQueued \in Int /\ pool.reserved \in Nat
      /\ pool.running \in Nat /\ pool.created \in Nat /\ pool.accepted \in Nat
      /\ pool.waits \in Nat /\ pool.settings \in Nat
      /\ pool.expires \in BOOLEAN /\ pool.waiting \in BOOLEAN
      /\ pool.stopping \in BOOLEAN /\ pool.dead \in BOOLEAN
  BY PoolFields
<1>s. Stopped \in SUBSET Ids
  BY DEF Stopped
<1>a. {w \in Ids : workers[w].place \in {"active", "retired"}} \in SUBSET Ids
  OBVIOUS
<1>taken. Taken(workers, Stopped) \in [Ids -> Worker]
  BY <1>t, TakenEffect
<1>quit. \A S : Quit(Taken(workers, S), S) \in [Ids -> Worker]
  BY <1>t, TakenEffect, QuitEffect
<1>goes. \A c \in Clients : \A p \in Places : GoesTo(c, p) => client' \in [Clients -> Client]
  BY <1>t, IdleFields DEF GoesTo
<1>places. {"idle", "notify", "lock"} \subseteq Places
  BY DEF Places
<1>moves. \A c \in Clients : \A n \in {"idle", "wait", "stopAll", "dead"} : \A S \in SUBSET Ids :
           client' = [client EXCEPT ![c].pc = "notify", ![c].next = n, ![c].joining = S]
              => client' \in [Clients -> Client]
  <2> SUFFICES ASSUME NEW c \in Clients, NEW n \in {"idle", "wait", "stopAll", "dead"},
                      NEW S \in SUBSET Ids,
                      client' = [client EXCEPT ![c].pc = "notify", ![c].next = n, ![c].joining = S]
               PROVE  client' \in [Clients -> Client]
    OBVIOUS
  <2> DEFINE y == [client[c] EXCEPT !.pc = "notify", !.next = n, !.joining = S]
  <2>a. client[c] \in Client
    BY <1>t
  <2>b. \A x \in Client : [x EXCEPT !.pc = "notify", !.next = n, !.joining = S] \in Client
    BY DEF Client, Places
  <2>1. y \in Client
    BY <2>a, <2>b
  <2>2. client' = [client EXCEPT ![c] = y]
    BY <1>t DEF Client
  <2> HIDE DEF y
  <2> QED BY <1>t, <2>1, <2>2
<1>cleanup. ASSUME NEW c \in Clients, Cleanup(c) \/ AwaitCleanup(c) PROVE TypeOK'
  <2>1. client' \in [Clients -> Client]
    BY <1>t, <1>s, <1>cleanup DEF Cleanup, AwaitCleanup, Client, Places
  <2> QED BY <1>t, <1>p, <1>taken, <1>cleanup, <2>1 DEF Cleanup, AwaitCleanup, TypeOK
<1>submit. ASSUME NEW c \in Clients, NEW t \in Tasks,
                  \/ \E priority \in Priorities : Start(c, t, priority, FALSE)
                  \/ Start(c, t, 0, TRUE)
                  \/ StartOnReservedThread(c, t)
           PROVE  TypeOK'
  <2>1. CASE Refuse(c, t)
    <3>1. status' \in [Tasks -> Outcomes] /\ UNCHANGED <<workers, pool, waitMutex>> /\ GoesTo(c, "idle")
      BY <1>t, <2>1 DEF Refuse, Outcomes
    <3> QED BY <1>t, <1>p, <1>goes, <1>places, <3>1 DEF TypeOK
  <2>2. ASSUME NEW priority \in Int, NEW w \in Ids, NEW left \in Nat, Accepted(c, t, priority, w, left)
        PROVE  TypeOK'
    <3>1. workers' \in [Ids -> Worker]
      BY <2>2, AssignEffect DEF Accepted, Assigned
    <3>2. status' \in [Tasks -> Outcomes]
      BY <1>t, <2>2 DEF Accepted, Assign, Outcomes
    <3>3. client' \in [Clients -> Client] /\ waitMutex' = waitMutex
      BY <1>goes, <1>places, <2>2 DEF Accepted
    <3>4. w \in Nat /\ Max({pool.created, w}) \in Nat /\ pool.accepted + 1 \in Nat
      <4>1. w \in Nat
        BY DEF Ids
      <4> QED BY <1>p, <4>1, PairBounds
    <3>5. pool' = [pool EXCEPT !.created = Max({@, w}), !.accepted = @ + 1, !.reserved = left]
      BY <2>2 DEF Accepted
    <3>6. pool' \in Pool
      BY <1>p, <3>4, <3>5 DEF Pool
    <3> QED BY <1>t, <3>1, <3>2, <3>3, <3>6 DEF TypeOK
  <2> QED BY <1>submit, <2>1, <2>2, SubmitEffect
<1>take. ASSUME NEW c \in Clients, NEW t \in Tasks, TryTake(c, t) PROVE TypeOK'
  <2>1. workers' \in [Ids -> Worker]
    BY <1>take, TryTakeEffect
  <2>2. status' \in [Tasks -> Outcomes] /\ GoesTo(c, "notify") /\ UNCHANGED <<pool, waitMutex>>
    BY <1>t, <1>take DEF TryTake, Outcomes
  <2> QED BY <1>t, <1>p, <1>goes, <1>places, <2>1, <2>2 DEF TypeOK
<1>clear. ASSUME NEW c \in Clients, Clear(c) PROVE TypeOK'
  <2>1. workers' \in [Ids -> Worker]
    BY <1>clear, ClearEffect
  <2>2. status' \in [Tasks -> Outcomes] /\ GoesTo(c, "notify") /\ UNCHANGED <<pool, waitMutex>>
    BY <1>t, <1>clear DEF Clear, Outcomes
  <2> QED BY <1>t, <1>p, <1>goes, <1>places, <2>1, <2>2 DEF TypeOK
<1>resize. ASSUME NEW c \in Clients, NEW changed \in Pool, NEW capacity, Resize(c, changed, capacity)
           PROVE  TypeOK'
  <2>1. PICK rb : /\ RoundOK(rb) /\ workers' \in [Ids -> Worker]
                  /\ pool' = [changed EXCEPT !.created = rb.created, !.settings = @ + 1]
    BY <1>resize, ResizeEffect
  <2>2. rb.created \in Nat /\ changed.settings + 1 \in Nat
    BY <2>1 DEF RoundOK, Pool
  <2>3. pool' \in Pool
    BY <2>1, <2>2 DEF Pool
  <2>4. GoesTo(c, "idle") /\ UNCHANGED <<status, waitMutex>>
    BY <1>resize DEF Resize
  <2> QED BY <1>t, <1>goes, <1>places, <2>1, <2>3, <2>4 DEF TypeOK
<1>maxThreads. ASSUME NEW c \in Clients, NEW n \in ThreadCounts, SetMaxThreadCount(c, n) PROVE TypeOK'
  <2>1. n \in Nat
    BY PoolAssumption
  <2>2. [pool EXCEPT !.maxThreads = n] \in Pool
    BY <1>p, <2>1 DEF Pool
  <2>3. Resize(c, [pool EXCEPT !.maxThreads = n], Max({n - pool.reserved, 1}))
    BY <1>maxThreads DEF SetMaxThreadCount
  <2> QED BY <1>resize, <2>2, <2>3
<1>maxQueued. ASSUME NEW c \in Clients, NEW n \in QueueLimits, SetMaxQueuedTaskCount(c, n) PROVE TypeOK'
  <2>1. n \in Int /\ pool.settings + 1 \in Nat
    BY <1>p, PoolAssumption
  <2>2. pool' \in Pool
    BY <1>p, <1>maxQueued, <2>1 DEF SetMaxQueuedTaskCount, Pool
  <2> QED BY <1>t, <1>maxQueued, <2>2 DEF SetMaxQueuedTaskCount, TypeOK
<1>expiry. ASSUME NEW c \in Clients, SetExpiryTimeout(c) PROVE TypeOK'
  <2>1. workers' \in [Ids -> Worker]
    BY <1>expiry, NoExpiryEffect
  <2>2. pool.settings + 1 \in Nat
    BY <1>p
  <2>3. pool' \in Pool
    BY <1>p, <1>expiry, <2>2 DEF SetExpiryTimeout, Pool
  <2> QED BY <1>t, <1>goes, <1>places, <1>expiry, <2>1, <2>3 DEF SetExpiryTimeout, TypeOK
<1>reserve. ASSUME NEW c \in Clients, ReserveThread(c) PROVE TypeOK'
  <2>1. pool.reserved + 1 \in Nat /\ pool.settings + 1 \in Nat
    BY <1>p
  <2>2. pool' \in Pool
    BY <1>p, <1>reserve, <2>1 DEF ReserveThread, Pool
  <2> QED BY <1>t, <1>reserve, <2>2 DEF ReserveThread, TypeOK
<1>release. ASSUME NEW c \in Clients, ReleaseThread(c) PROVE TypeOK'
  <2> DEFINE left == Released(pool.reserved)
  <2>1. left \in Nat
    BY <1>p DEF Released
  <2>2. Resize(c, [pool EXCEPT !.reserved = left], Max({pool.maxThreads - left, 1}))
    BY <1>release DEF ReleaseThread
  <2> HIDE DEF left
  <2>3. [pool EXCEPT !.reserved = left] \in Pool
    BY <1>p, <2>1 DEF Pool
  <2> QED BY <1>resize, <2>2, <2>3
<1>stopIdle. ASSUME NEW c \in Clients, StopIdleWorkers(c) PROVE TypeOK'
  <2>1. pool.settings + 1 \in Nat
    BY <1>p
  <2>2. pool' \in Pool
    BY <1>p, <1>stopIdle, <2>1 DEF StopIdleWorkers, Pool
  <2>3. workers' \in [Ids -> Worker]
    BY <1>quit, <1>stopIdle DEF StopIdleWorkers
  <2>4. client' \in [Clients -> Client]
    <3> DEFINE all == {w \in Ids : workers[w].place \in {"active", "retired"}}
    <3>1. client' = [client EXCEPT ![c].pc = "notify", ![c].next = "idle", ![c].joining = all]
      BY <1>stopIdle DEF StopIdleWorkers
    <3> HIDE DEF all
    <3> QED BY <1>t, <1>a, <1>moves, <3>1 DEF all
  <2> QED BY <1>t, <1>stopIdle, <2>2, <2>3, <2>4 DEF StopIdleWorkers, TypeOK
<1>notify. ASSUME NEW c \in Clients, Notify(c) PROVE TypeOK'
  <2>1. client[c].next \in Places
    BY <1>t, ClientFields DEF Places
  <2>2. client' \in [Clients -> Client]
    BY <1>notify, <2>1, WokenFields, IdleFields DEF Notify
  <2>3. (client[c].next = "dead") \in BOOLEAN
    OBVIOUS
  <2>4. pool' \in Pool
    BY <1>p, <1>notify, <2>3 DEF Notify, Pool
  <2> QED BY <1>t, <1>notify, <2>2, <2>4 DEF Notify, TypeOK
<1>wait. ASSUME NEW c \in Clients, NEW timed \in Deadlines, WaitForDone(c, timed) PROVE TypeOK'
  <2>1. timed \in BOOLEAN /\ pool.waits + 1 \in Nat
    BY <1>p, PoolAssumption
  <2>2. pool' \in Pool
    BY <1>p, <1>wait, <2>1 DEF WaitForDone, Pool
  <2>3. [Idle EXCEPT !.pc = "lock", !.timed = timed] \in Client
    BY <2>1 DEF Idle, Client, Places
  <2>4. client' \in [Clients -> Client]
    BY <1>t, <1>wait, <2>3 DEF WaitForDone
  <2> QED BY <1>t, <1>wait, <2>2, <2>4 DEF WaitForDone, TypeOK
<1>destroy. ASSUME NEW c \in Clients, Destroy(c) PROVE TypeOK'
  <2>1. pool' \in Pool
    BY <1>p, <1>destroy DEF Destroy, Pool
  <2>2. client' \in [Clients -> Client]
    <3>1. client' = [client EXCEPT ![c].pc = "notify", ![c].next = "wait"]
      BY <1>destroy DEF Destroy
    <3> DEFINE y == [client[c] EXCEPT !.pc = "notify", !.next = "wait"]
    <3>2. y \in Client
      BY <1>t DEF Client, Places
    <3>3. client' = [client EXCEPT ![c] = y]
      BY <1>t, <3>1 DEF Client
    <3> HIDE DEF y
    <3> QED BY <1>t, <3>2, <3>3
  <2> QED BY <1>t, <1>destroy, <2>1, <2>2 DEF Destroy, TypeOK
<1>join. ASSUME NEW c \in Clients, Join(c) \/ Lock(c) \/ AwaitDone(c) \/ AwaitSleep(c) \/ TimeOut(c)
         PROVE  TypeOK'
  <2>1. Quiescent \in BOOLEAN
    BY DEF Quiescent
  <2>2. client' \in [Clients -> Client]
    BY <1>t, <1>join, <2>1 DEF Join, Lock, AwaitDone, AwaitSleep, TimeOut, Client, Places
  <2>3. waitMutex' \in Clients \cup {Nobody} /\ UNCHANGED <<workers, pool, status>>
    BY <1>t, <1>join DEF Join, Lock, AwaitDone, AwaitSleep, TimeOut
  <2> QED BY <1>t, <1>p, <2>2, <2>3 DEF TypeOK
<1>end. ASSUME NEW c \in Clients, EndWait(c) PROVE TypeOK'
  <2>1. pool' \in Pool
    BY <1>p, <1>end DEF EndWait, Pool
  <2>2. client' \in [Clients -> Client]
    <3> DEFINE next == IF pool.stopping THEN "stopAll" ELSE "idle"
    <3>1. next \in {"idle", "wait", "stopAll", "dead"}
      OBVIOUS
    <3>2. client' = [client EXCEPT ![c].pc = "notify", ![c].joining = Stopped, ![c].next = next]
      BY <1>end DEF EndWait
    <3> HIDE DEF next
    <3>3. client' = [client EXCEPT ![c].pc = "notify", ![c].next = next, ![c].joining = Stopped]
      BY <1>t, <3>2 DEF Client
    <3> QED BY <1>s, <1>moves, <3>1, <3>3
  <2> QED BY <1>t, <1>taken, <1>end, <2>1, <2>2 DEF EndWait, TypeOK
<1>shutdown. ASSUME NEW c \in Clients, ShutdownWait(c) PROVE TypeOK'
  <2>1. pool' \in Pool
    BY <1>p, <1>shutdown DEF ShutdownWait, Pool
  <2>2. [Idle EXCEPT !.pc = "lock", !.joining = Stopped] \in Client
    BY <1>s DEF Idle, Client, Places
  <2>3. client' \in [Clients -> Client]
    BY <1>t, <1>shutdown, <2>2 DEF ShutdownWait
  <2> QED BY <1>t, <1>taken, <1>shutdown, <2>1, <2>3 DEF ShutdownWait, TypeOK
<1>stopAll. ASSUME NEW c \in Clients, StopAllWorkers(c) PROVE TypeOK'
  <2>1. workers' \in [Ids -> Worker]
    BY <1>quit, <1>stopAll DEF StopAllWorkers
  <2>2. client' \in [Clients -> Client]
    <3> DEFINE all == {w \in Ids : workers[w].place \in {"active", "retired"}}
    <3>1. client' = [client EXCEPT ![c].pc = "notify", ![c].next = "dead", ![c].joining = all]
      BY <1>stopAll DEF StopAllWorkers
    <3> HIDE DEF all
    <3> QED BY <1>t, <1>a, <1>moves, <3>1 DEF all
  <2> QED BY <1>t, <1>p, <1>stopAll, <2>1, <2>2 DEF StopAllWorkers, TypeOK
<1>drain. ASSUME NEW w \in Ids, Drain(w) PROVE TypeOK'
  <2>1. UNCHANGED <<client, waitMutex>>
    BY <1>drain DEF Drain
  <2>2. CASE workers[w].queue = <<>>
    BY <1>t, <1>p, <1>drain, <2>1, <2>2, EmptyDrainEffect DEF TypeOK
  <2>3. CASE workers[w].queue # <<>>
    <3>1. /\ workers' \in [Ids -> Worker] /\ pool' = [pool EXCEPT !.running = @ + 1]
          /\ status' = [status EXCEPT ![Head(workers[w].queue).runnable] = "running"]
      BY <1>drain, <2>3, DrainEffect
    <3>2. pool.running + 1 \in Nat
      BY <1>p
    <3>3. pool' \in Pool
      BY <1>p, <3>1, <3>2 DEF Pool
    <3>4. status' \in [Tasks -> Outcomes]
      BY <1>t, <3>1 DEF Outcomes
    <3> QED BY <1>t, <2>1, <3>1, <3>3, <3>4 DEF TypeOK
  <2> QED BY <2>2, <2>3
<1>finish. ASSUME NEW w \in Ids, Finish(w) PROVE TypeOK'
  <2>1. workers' \in [Ids -> Worker] /\ workers[w].item \in Tasks
    BY <1>finish, FinishEffect
  <2>2. status[workers[w].item] = "running"
    BY <2>1, PoolAssumption DEF RunningInv
  <2>a. pool.running > 0 /\ pool.running \in Nat
    BY <2>1, <2>2, RunningPositive
  <2>3. pool.running - 1 \in Nat
    BY <2>a
  <2>4. pool' \in Pool
    BY <1>p, <1>finish, <2>3 DEF Finish, Pool
  <2>5. status' \in [Tasks -> Outcomes]
    BY <1>t, <1>finish DEF Finish, Outcomes
  <2> QED BY <1>t, <1>finish, <2>1, <2>4, <2>5 DEF Finish, TypeOK
<1>thread. ASSUME NEW w \in Ids, Rearm(w) \/ Expire(w) \/ ThreadNotify(w) \/ Exit(w) PROVE TypeOK'
  <2>1. workers' \in [Ids -> Worker]
    BY <1>thread, RearmEffect, ExpireEffect, ThreadNotifyEffect, ExitEffect DEF Quiet
  <2>2. client' \in [Clients -> Client]
    BY <1>t, <1>thread, WokenFields DEF Rearm, Expire, ThreadNotify, Exit
  <2>3. UNCHANGED <<pool, status, waitMutex>>
    BY <1>thread DEF Rearm, Expire, ThreadNotify, Exit
  <2> QED BY <1>t, <1>p, <2>1, <2>2, <2>3 DEF TypeOK
<1>stutter. CASE UNCHANGED vars
  BY <1>t, <1>p, <1>stutter DEF vars, TypeOK
<1> QED BY <1>cleanup, <1>submit, <1>take, <1>clear, <1>maxThreads, <1>maxQueued, <1>expiry, <1>reserve,
          <1>release, <1>stopIdle, <1>notify, <1>wait, <1>destroy, <1>join, <1>end, <1>shutdown,
          <1>stopAll, <1>drain, <1>finish, <1>thread, <1>stutter
    DEF Next, Call, ClientStep, WorkerStep

-----------------------------------------------------------------------------
(* The kinds of steps.                                                      *)

\* The work of every worker is the same, and so is every task that was accepted.
Calm ==
    /\ workers' \in [Ids -> Worker]
    /\ \A v \in Ids : SameWork(workers[v], workers'[v])
    /\ pool'.running = pool.running /\ pool'.accepted = pool.accepted
    /\ pool'.created = pool.created
    /\ pool'.settings \in {pool.settings, pool.settings + 1}
    /\ \A t \in Tasks : status'[t] = status[t] \/ (status[t] = "new" /\ status'[t] = "refused")

\* Tasks were moved to the new workers of rb.
Resized(c, rb) ==
    /\ RoundOK(rb) /\ workers' \in [Ids -> Worker]
    /\ \A v \in Ids : SameButArmed(rb.ws[v], workers'[v])
    /\ pool'.created = rb.created /\ pool'.settings = pool.settings + 1
    /\ pool'.running = pool.running /\ pool'.accepted = pool.accepted
    /\ pool'.stopping = pool.stopping /\ pool'.waiting = pool.waiting /\ pool'.dead = pool.dead
    /\ InCall(c) /\ GoesTo(c, "idle")
    /\ UNCHANGED <<status, waitMutex>>

\* The two calls that move tasks.
LEMMA ResizedEffect ==
    ASSUME TypeOK, WorkersInv, QueuesInv, OrderInv, NEW c \in Clients,
           ReleaseThread(c) \/ \E n \in ThreadCounts : SetMaxThreadCount(c, n)
    PROVE  \E rb : Resized(c, rb)
<1>p. pool \in Pool /\ pool.settings \in Nat /\ pool.reserved \in Nat
  BY PoolFields
<1>1. \A changed, capacity : InCall(c) /\ Resize(c, changed, capacity)
          /\ changed \in Pool
          /\ changed.settings = pool.settings /\ changed.running = pool.running
          /\ changed.accepted = pool.accepted /\ changed.stopping = pool.stopping
          /\ changed.waiting = pool.waiting /\ changed.dead = pool.dead
        => \E rb : Resized(c, rb)
  <2> SUFFICES ASSUME NEW changed \in Pool, NEW capacity, InCall(c), Resize(c, changed, capacity),
                      changed.settings = pool.settings, changed.running = pool.running,
                      changed.accepted = pool.accepted, changed.stopping = pool.stopping,
                      changed.waiting = pool.waiting, changed.dead = pool.dead
               PROVE  \E rb : Resized(c, rb)
    OBVIOUS
  <2>1. PICK rb : /\ RoundOK(rb)
                  /\ workers' \in [Ids -> Worker]
                  /\ \A v \in Ids : SameButArmed(rb.ws[v], workers'[v])
                  /\ pool' = [changed EXCEPT !.created = rb.created, !.settings = @ + 1]
    BY ResizeEffect
  <2>2. /\ pool'.created = rb.created /\ pool'.settings = changed.settings + 1
        /\ pool'.running = changed.running /\ pool'.accepted = changed.accepted
        /\ pool'.stopping = changed.stopping /\ pool'.waiting = changed.waiting
        /\ pool'.dead = changed.dead
    BY <2>1 DEF Pool
  <2>3. GoesTo(c, "idle") /\ UNCHANGED <<status, waitMutex>>
    BY DEF Resize
  <2>4. Resized(c, rb)
    BY <2>1, <2>2, <2>3 DEF Resized
  <2> QED BY <2>4
<1>2. CASE ReleaseThread(c)
  <2> DEFINE left == Released(pool.reserved)
             changed == [pool EXCEPT !.reserved = left]
  <2>1. left \in Nat
    BY <1>p DEF Released
  <2>2. InCall(c) /\ Resize(c, changed, Max({pool.maxThreads - left, 1}))
    BY <1>2 DEF ReleaseThread
  <2> HIDE DEF left
  <2>3. /\ changed \in Pool
        /\ changed.settings = pool.settings /\ changed.running = pool.running
        /\ changed.accepted = pool.accepted /\ changed.stopping = pool.stopping
        /\ changed.waiting = pool.waiting /\ changed.dead = pool.dead
    BY <1>p, <2>1 DEF Pool
  <2> HIDE DEF changed
  <2> QED BY <1>1, <2>2, <2>3
<1>3. ASSUME NEW n \in ThreadCounts, SetMaxThreadCount(c, n) PROVE \E rb : Resized(c, rb)
  <2> DEFINE changed == [pool EXCEPT !.maxThreads = n]
  <2>1. n \in Nat
    BY PoolAssumption
  <2>2. InCall(c) /\ Resize(c, changed, Max({n - pool.reserved, 1}))
    BY <1>3 DEF SetMaxThreadCount
  <2>3. /\ changed \in Pool
        /\ changed.settings = pool.settings /\ changed.running = pool.running
        /\ changed.accepted = pool.accepted /\ changed.stopping = pool.stopping
        /\ changed.waiting = pool.waiting /\ changed.dead = pool.dead
    BY <1>p, <2>1 DEF Pool
  <2> HIDE DEF changed
  <2> QED BY <1>1, <2>2, <2>3
<1> QED BY <1>2, <1>3

\* The calls of a client that change no worker's work, and what they do to the pool.
LEMMA CalmCalls ==
    ASSUME TypeOK, NEW c \in Clients,
           \/ Cleanup(c) \/ SetExpiryTimeout(c) \/ ReserveThread(c) \/ StopIdleWorkers(c)
           \/ \E n \in QueueLimits : SetMaxQueuedTaskCount(c, n)
           \/ \E timed \in Deadlines : WaitForDone(c, timed)
           \/ Destroy(c) \/ \E t \in Tasks : Refuse(c, t) /\ status[t] = "new"
    PROVE  Calm
<1>t. workers \in [Ids -> Worker] /\ status \in [Tasks -> Outcomes]
  BY DEF TypeOK
<1>p. pool \in Pool /\ pool.settings \in Nat
  BY PoolFields
<1>same. \A v \in Ids : SameWork(workers[v], workers[v])
  BY DEF SameWork
<1>trans. \A x, y, z : SameWork(x, y) /\ SameWork(y, z) => SameWork(x, z)
  BY DEF SameWork
<1>1. workers' \in [Ids -> Worker] /\ \A v \in Ids : SameWork(workers[v], workers'[v])
  <2>1. CASE workers' = workers
    BY <1>t, <1>same, <2>1
  <2>2. CASE Cleanup(c)
    BY <1>t, <2>2, TakenEffect DEF Cleanup
  <2>3. CASE SetExpiryTimeout(c)
    BY <2>3, NoExpiryEffect DEF SameButArmed
  <2>4. CASE StopIdleWorkers(c)
    <3> DEFINE all == {w \in Ids : workers[w].place \in {"active", "retired"}}
    <3>1. workers' = Quit(Taken(workers, all), all)
      BY <2>4 DEF StopIdleWorkers
    <3> HIDE DEF all
    <3>2. Taken(workers, all) \in [Ids -> Worker]
      BY <1>t, TakenEffect
    <3> QED BY <1>t, <1>trans, <3>1, <3>2, TakenEffect, QuitEffect
  <2> QED BY <2>1, <2>2, <2>3, <2>4
        DEF ReserveThread, SetMaxQueuedTaskCount, WaitForDone, Destroy, Refuse
<1>2. /\ pool'.running = pool.running /\ pool'.accepted = pool.accepted
      /\ pool'.created = pool.created
      /\ pool'.settings \in {pool.settings, pool.settings + 1}
  BY <1>p DEF Cleanup, SetExpiryTimeout, ReserveThread, StopIdleWorkers, SetMaxQueuedTaskCount,
       WaitForDone, Destroy, Refuse, Pool
<1>3. \A t \in Tasks : status'[t] = status[t] \/ (status[t] = "new" /\ status'[t] = "refused")
  <2>1. ASSUME NEW t \in Tasks, Refuse(c, t), status[t] = "new"
        PROVE  \A u \in Tasks : status'[u] = status[u] \/ (status[u] = "new" /\ status'[u] = "refused")
    BY <1>t, <2>1 DEF Refuse
  <2>2. CASE status' = status
    BY <2>2
  <2> QED BY <2>1, <2>2
        DEF Cleanup, SetExpiryTimeout, ReserveThread, StopIdleWorkers, SetMaxQueuedTaskCount,
            WaitForDone, Destroy
<1> QED BY <1>1, <1>2, <1>3 DEF Calm

\* The other steps that change no worker's work.
LEMMA CalmSteps ==
    ASSUME TypeOK,
           \/ \E c \in Clients : \/ Join(c) \/ Notify(c) \/ Lock(c) \/ AwaitCleanup(c) \/ AwaitDone(c)
                                 \/ AwaitSleep(c) \/ TimeOut(c) \/ EndWait(c) \/ ShutdownWait(c)
                                 \/ StopAllWorkers(c)
           \/ \E w \in Ids : Rearm(w) \/ Expire(w) \/ ThreadNotify(w) \/ Exit(w)
           \/ UNCHANGED vars
    PROVE  Calm
<1>t. workers \in [Ids -> Worker] /\ status \in [Tasks -> Outcomes]
  BY DEF TypeOK
<1>p. pool \in Pool /\ pool.settings \in Nat
  BY PoolFields
<1>same. \A v \in Ids : SameWork(workers[v], workers[v])
  BY DEF SameWork
<1>trans. \A x, y, z : SameWork(x, y) /\ SameWork(y, z) => SameWork(x, z)
  BY DEF SameWork
<1>1. workers' \in [Ids -> Worker] /\ \A v \in Ids : SameWork(workers[v], workers'[v])
  <2>1. CASE workers' = workers
    BY <1>t, <1>same, <2>1
  <2>2. CASE workers' = Taken(workers, Stopped)
    BY <1>t, <2>2, TakenEffect
  <2>3. ASSUME NEW c \in Clients, StopAllWorkers(c)
        PROVE  workers' \in [Ids -> Worker] /\ \A v \in Ids : SameWork(workers[v], workers'[v])
    <3> DEFINE all == {w \in Ids : workers[w].place \in {"active", "retired"}}
    <3>1. workers' = Quit(Taken(workers, all), all)
      BY <2>3 DEF StopAllWorkers
    <3> HIDE DEF all
    <3>2. Taken(workers, all) \in [Ids -> Worker]
      BY <1>t, TakenEffect
    <3> QED BY <1>t, <1>trans, <3>1, <3>2, TakenEffect, QuitEffect
  <2>4. ASSUME NEW w \in Ids, Rearm(w) \/ Expire(w) \/ ThreadNotify(w) \/ Exit(w)
        PROVE  workers' \in [Ids -> Worker] /\ \A v \in Ids : SameWork(workers[v], workers'[v])
    <3>1. Quiet(w)
      BY <2>4, RearmEffect, ExpireEffect, ThreadNotifyEffect, ExitEffect
    <3> QED BY <1>same, <3>1 DEF Quiet
  <2> QED BY <2>1, <2>2, <2>3, <2>4
        DEF Join, Notify, Lock, AwaitCleanup, AwaitDone, AwaitSleep, TimeOut, EndWait, ShutdownWait, vars
<1>2. /\ pool'.running = pool.running /\ pool'.accepted = pool.accepted
      /\ pool'.created = pool.created
      /\ pool'.settings \in {pool.settings, pool.settings + 1}
  <2>1. CASE pool' = pool
    BY <2>1
  <2>2. ASSUME NEW c \in Clients, Notify(c) \/ EndWait(c) \/ ShutdownWait(c)
        PROVE  /\ pool'.running = pool.running /\ pool'.accepted = pool.accepted
               /\ pool'.created = pool.created /\ pool'.settings = pool.settings
    BY <1>p, <2>2 DEF Notify, EndWait, ShutdownWait, Pool
  <2> QED BY <2>1, <2>2
        DEF Join, Lock, AwaitCleanup, AwaitDone, AwaitSleep, TimeOut, StopAllWorkers, Rearm, Expire,
            ThreadNotify, Exit, vars
<1>3. status' = status
  BY DEF Join, Notify, Lock, AwaitCleanup, AwaitDone, AwaitSleep, TimeOut, EndWait, ShutdownWait,
       StopAllWorkers, Rearm, Expire, ThreadNotify, Exit, vars
<1>4. \A t \in Tasks : status'[t] = status[t] \/ (status[t] = "new" /\ status'[t] = "refused")
  BY <1>3
<1> QED BY <1>1, <1>2, <1>4 DEF Calm

\* Every step is calm, or accepts, withdraws, moves, begins or ends tasks.
LEMMA StepKinds ==
    ASSUME TypeOK, WorkersInv, QueuesInv, OrderInv, [Next]_vars
    PROVE  \/ Calm
           \/ \E c \in Clients, t \in Tasks, priority \in Int, w \in Ids, left \in Nat :
                  Accepted(c, t, priority, w, left)
           \/ \E c \in Clients, t \in Tasks : TryTake(c, t)
           \/ \E c \in Clients : Clear(c)
           \/ \E c \in Clients : \E rb : Resized(c, rb)
           \/ \E w \in Ids : Drain(w)
           \/ \E w \in Ids : Finish(w)
<1> DEFINE Kinds ==
           \/ Calm
           \/ \E c \in Clients, t \in Tasks, priority \in Int, w \in Ids, left \in Nat :
                  Accepted(c, t, priority, w, left)
           \/ \E c \in Clients, t \in Tasks : TryTake(c, t)
           \/ \E c \in Clients : Clear(c)
           \/ \E c \in Clients : \E rb : Resized(c, rb)
           \/ \E w \in Ids : Drain(w)
           \/ \E w \in Ids : Finish(w)
<1> SUFFICES Kinds
  OBVIOUS
<1>1. ASSUME NEW c \in Clients, NEW t \in Tasks,
             \/ \E priority \in Priorities : Start(c, t, priority, FALSE)
             \/ Start(c, t, 0, TRUE)
             \/ StartOnReservedThread(c, t)
      PROVE  Kinds
  <2>1. \/ Refuse(c, t) /\ status[t] = "new" /\ InCall(c)
        \/ \E priority \in Int, w \in Ids, left \in Nat : Accepted(c, t, priority, w, left)
    BY <1>1, SubmitEffect
  <2>2. CASE Refuse(c, t) /\ status[t] = "new"
    BY <2>2, CalmCalls
  <2> QED BY <2>1, <2>2
<1>2. ASSUME NEW c \in Clients, Call(c) PROVE Kinds
  <2>1. CASE ReleaseThread(c) \/ \E n \in ThreadCounts : SetMaxThreadCount(c, n)
    BY <2>1, ResizedEffect
  <2>2. CASE \/ Cleanup(c) \/ SetExpiryTimeout(c) \/ ReserveThread(c) \/ StopIdleWorkers(c)
             \/ \E n \in QueueLimits : SetMaxQueuedTaskCount(c, n)
             \/ \E timed \in Deadlines : WaitForDone(c, timed)
             \/ Destroy(c)
    BY <2>2, CalmCalls
  <2> HIDE DEF Kinds
  <2>3. ASSUME NEW t \in Tasks, TryTake(c, t) PROVE Kinds
    BY <2>3 DEF Kinds
  <2>4. CASE Clear(c)
    BY <2>4 DEF Kinds
  <2> QED BY <1>1, <1>2, <2>1, <2>2, <2>3, <2>4 DEF Call
<1>3. ASSUME NEW c \in Clients, ClientStep(c) PROVE Kinds
  BY <1>3, CalmSteps DEF ClientStep
<1>4. ASSUME NEW w \in Ids, WorkerStep(w) PROVE Kinds
  <2>1. CASE Rearm(w) \/ Expire(w) \/ ThreadNotify(w) \/ Exit(w)
    BY <2>1, CalmSteps
  <2> QED BY <1>4, <2>1 DEF WorkerStep
<1>5. CASE UNCHANGED vars
  BY <1>5, CalmSteps
<1> HIDE DEF Kinds
<1> QED BY <1>2, <1>3, <1>4, <1>5 DEF Next

-----------------------------------------------------------------------------
(* The workers.                                                             *)

\* The destructor stops the workers only when there is no work left.
LEMMA StopAllNoWork ==
    ASSUME ShutdownInv, NEW c \in Clients, client[c].pc = "stopAll"
    PROVE  NoWork
<1>1. PICK d \in Clients : Destroying(d)
  BY DEF ShutdownInv
<1>2. d = c
  BY <1>1 DEF Destroying
<1> QED BY <1>1, <1>2 DEF Destroying, Past

\* A quiescent pool has no work.
LEMMA QuiescentNoWork ==
    ASSUME TypeOK, WorkersInv, Quiescent
    PROVE  NoWork
<1>1. ASSUME NEW w \in Ids
      PROVE  workers[w].queue = <<>> /\ ~workers[w].running /\ ~workers[w].posted
  <2>1. WorkerOK(workers[w])
    BY DEF WorkersInv, WorkersOK
  <2>2. CASE workers[w].place = "active"
    BY <2>2 DEF Quiescent, Active, WouldQueue
  <2>3. CASE workers[w].place # "active"
    BY <2>1, <2>3 DEF WorkerOK
  <2> QED BY <2>2, <2>3
<1> QED BY <1>1 DEF NoWork

\* Every step keeps the workers as they should be.
LEMMA WorkersStep ==
    ASSUME TypeOK, WorkersInv, QueuesInv, OrderInv, ShutdownInv, [Next]_vars
    PROVE  WorkersInv'
<1>t. workers \in [Ids -> Worker] /\ pool \in Pool /\ pool.created \in Nat
  BY PoolFields DEF TypeOK
<1>n. pool.created <= MaxWorkers /\ \A w \in Ids : w \in Nat
  BY DEF WorkersInv, WorkersOK, Ids
<1>w. \A w \in Ids : WorkerOK(workers[w]) /\ (workers[w].place = "none" <=> w > pool.created)
  BY DEF WorkersInv, WorkersOK
<1>each. ASSUME pool'.created = pool.created,
                \A w \in Ids : WorkerOK(workers'[w]) /\ (workers'[w].place = "none" <=> workers[w].place = "none")
         PROVE  WorkersInv'
  BY <1>n, <1>w, <1>each DEF WorkersInv, WorkersOK
<1>kept. ASSUME pool'.created = pool.created, \A w \in Ids : SameButArmed(workers[w], workers'[w])
         PROVE  WorkersInv'
  <2>1. ASSUME NEW w \in Ids
        PROVE  WorkerOK(workers'[w]) /\ (workers'[w].place = "none" <=> workers[w].place = "none")
    <3>1. SameButArmed(workers[w], workers'[w])
      BY <1>kept
    <3> QED BY <1>w, <3>1 DEF SameButArmed, SameWork, WorkerOK
  <2> QED BY <1>each, <1>kept, <2>1
<1>same. ASSUME pool'.created = pool.created, workers' = workers PROVE WorkersInv'
  BY <1>kept, <1>same DEF SameButArmed, SameWork
<1>stopped. ASSUME pool'.created = pool.created, workers' = Taken(workers, Stopped) PROVE WorkersInv'
  <2>1. ASSUME NEW w \in Ids
        PROVE  WorkerOK(workers'[w]) /\ (workers'[w].place = "none" <=> workers[w].place = "none")
    <3>1. /\ SameWork(workers[w], workers'[w])
          /\ workers'[w].thread = workers[w].thread /\ workers'[w].quit = workers[w].quit
          /\ workers'[w].place = IF w \in Stopped THEN "taken" ELSE workers[w].place
      BY <1>t, <1>stopped, TakenEffect
    <3>2. w \in Stopped => workers[w].place = "retired"
      BY DEF Stopped
    <3> QED BY <1>w, <3>1, <3>2 DEF SameWork, WorkerOK
  <2> QED BY <1>each, <1>stopped, <2>1
<1>all. ASSUME NEW all, all = {w \in Ids : workers[w].place \in {"active", "retired"}}, NoWork,
               pool'.created = pool.created, workers' = Quit(Taken(workers, all), all)
        PROVE  WorkersInv'
  <2>1. Taken(workers, all) \in [Ids -> Worker]
    BY <1>t, TakenEffect
  <2>2. ASSUME NEW w \in Ids
        PROVE  WorkerOK(workers'[w]) /\ (workers'[w].place = "none" <=> workers[w].place = "none")
    <3> DEFINE x == workers[w]
               y == Taken(workers, all)[w]
               z == workers'[w]
    <3>1. /\ SameWork(x, y) /\ y.thread = x.thread /\ y.quit = x.quit
          /\ y.place = IF w \in all THEN "taken" ELSE x.place
      BY <1>t, TakenEffect
    <3>2. SameWork(y, z) /\ z.thread = y.thread /\ z.place = y.place
      BY <1>all, <2>1, QuitEffect
    <3>3. w \in all <=> x.place \in {"active", "retired"}
      BY <1>all
    <3>4. x.place \in {"none", "active", "retired", "taken"}
      BY <1>t, WorkerFields
    <3>5. x.queue = <<>> /\ ~x.running /\ ~x.posted
      BY <1>all DEF NoWork
    <3>6. WorkerOK(x)
      BY <1>w
    <3> HIDE DEF x, y, z
    <3>7. z.place # "active" /\ (z.place = "none" <=> x.place = "none")
      BY <3>1, <3>2, <3>3, <3>4
    <3>8. WorkerOK(z)
      BY <3>1, <3>2, <3>5, <3>6, <3>7 DEF SameWork, WorkerOK
    <3> QED BY <3>7, <3>8 DEF x, z
  <2> QED BY <1>each, <1>all, <2>2
<1>one. ASSUME NEW w \in Ids, pool'.created = pool.created,
               \A v \in Ids \ {w} : workers'[v] = workers[v], WorkerOK(workers'[w]),
               workers'[w].place = "none" <=> workers[w].place = "none"
        PROVE  WorkersInv'
  BY <1>each, <1>one, <1>w
<1>accepted. ASSUME NEW c \in Clients, NEW t \in Tasks, NEW priority \in Int, NEW w \in Ids,
                    NEW left \in Nat, Accepted(c, t, priority, w, left)
             PROVE  WorkersInv'
  <2>1. w \in Active(workers) \/ w = pool.created + 1
    BY <1>accepted DEF Accepted
  <2>2. Assign(t, priority, w)
    BY <1>accepted DEF Accepted
  <2>3. pool'.created = Max({pool.created, w})
    BY <1>t, <1>accepted DEF Accepted, Pool
  <2>4. pool'.created = IF w = pool.created + 1 THEN w ELSE pool.created
    <3>1. w \in Active(workers) => w <= pool.created
      BY <1>t, <1>n, <1>w DEF Active
    <3> QED BY <1>t, <1>n, <2>1, <2>3, <3>1, PairBounds
  <2>5. pool'.created <= MaxWorkers
    BY <1>n, <2>4 DEF Ids
  <2>assigned. Assigned(t, priority, w)
    BY <2>1, <2>2, AssignEffect
  <2>6. \A v \in Ids \ {w} : workers'[v] = workers[v]
    BY <2>assigned DEF Assigned
  <2>7. /\ workers'[w].place = "active" /\ ~workers'[w].quit
        /\ workers'[w].running = workers[w].running
        /\ workers'[w].item = workers[w].item
        /\ workers'[w].posted = ~workers[w].running
        /\ workers'[w].thread = IF w = pool.created + 1 THEN "ready" ELSE workers[w].thread
    BY <2>assigned DEF Assigned
  <2>8. WorkerOK(workers'[w])
    <3>1. WorkerOK(workers[w]) /\ (w = pool.created + 1 => workers[w].place = "none")
      BY <1>t, <1>n, <1>w
    <3>2. w # pool.created + 1 => workers[w].place = "active"
      BY <2>1 DEF Active
    <3>3. workers[w].running \in BOOLEAN
      BY <1>t, WorkerFields
    <3> QED BY <2>7, <3>1, <3>2, <3>3 DEF WorkerOK, Busy, Serving
  <2>9. \A v \in Ids : workers'[v].place = "none" <=> v > pool'.created
    <3> SUFFICES ASSUME NEW v \in Ids PROVE workers'[v].place = "none" <=> v > pool'.created
      OBVIOUS
    <3>1. CASE v = w
      <4>1. w <= pool'.created
        <5>1. w \in Active(workers) => w <= pool.created
          BY <1>t, <1>n, <1>w DEF Active
        <5> QED BY <1>t, <1>n, <2>1, <2>4, <5>1
      <4>2. pool'.created \in Nat
        BY <1>t, <1>n, <2>4
      <4> QED BY <1>n, <2>7, <3>1, <4>1, <4>2
    <3>2. CASE v # w
      BY <1>t, <1>n, <1>w, <2>4, <2>6, <3>2
    <3> QED BY <3>1, <3>2
  <2>10. \A v \in Ids : WorkerOK(workers'[v])
    BY <1>w, <2>6, <2>8
  <2> QED BY <2>5, <2>9, <2>10 DEF WorkersInv, WorkersOK
<1>submit. ASSUME NEW c \in Clients, NEW t \in Tasks,
                  \/ \E priority \in Priorities : Start(c, t, priority, FALSE)
                  \/ Start(c, t, 0, TRUE)
                  \/ StartOnReservedThread(c, t)
           PROVE  WorkersInv'
  <2>1. CASE Refuse(c, t)
    BY <1>same, <2>1 DEF Refuse
  <2> QED BY <1>submit, <1>accepted, <2>1, SubmitEffect
<1>take. ASSUME NEW c \in Clients, NEW t \in Tasks, TryTake(c, t) PROVE WorkersInv'
  <2>1. pool'.created = pool.created
    BY <1>take DEF TryTake
  <2>2. PICK w \in Ids : \E i \in DOMAIN workers[w].queue :
                /\ \A v \in Ids \ {w} : SameButArmed(workers[v], workers'[v])
                /\ workers'[w].item = workers[w].item /\ workers'[w].running = workers[w].running
                /\ workers'[w].posted = workers[w].posted /\ workers'[w].place = workers[w].place
                /\ workers'[w].thread = workers[w].thread /\ workers'[w].quit = workers[w].quit
    BY <1>take, TryTakeEffect
  <2>3. workers[w].queue # <<>>
    BY <1>t, <2>2, WorkerFields
  <2>4. WorkerOK(workers'[w])
    BY <1>w, <2>2, <2>3 DEF WorkerOK
  <2>5. \A v \in Ids \ {w} : WorkerOK(workers'[v]) /\ workers'[v].place = workers[v].place
    <3> SUFFICES ASSUME NEW v \in Ids \ {w}
                 PROVE  WorkerOK(workers'[v]) /\ workers'[v].place = workers[v].place
      OBVIOUS
    <3>1. SameButArmed(workers[v], workers'[v])
      BY <2>2
    <3> QED BY <1>w, <3>1 DEF SameButArmed, SameWork, WorkerOK
  <2> QED BY <1>each, <2>1, <2>2, <2>4, <2>5
<1>clear. ASSUME NEW c \in Clients, Clear(c) PROVE WorkersInv'
  <2>1. pool'.created = pool.created
    BY <1>clear DEF Clear
  <2>2. ASSUME NEW w \in Ids
        PROVE  WorkerOK(workers'[w]) /\ (workers'[w].place = "none" <=> workers[w].place = "none")
    <3>1. /\ workers'[w].queue = <<>> /\ workers'[w].item = workers[w].item
          /\ workers'[w].running = workers[w].running
          /\ workers'[w].posted = workers[w].posted /\ workers'[w].place = workers[w].place
          /\ workers'[w].thread = workers[w].thread /\ workers'[w].quit = workers[w].quit
      BY <1>clear, ClearEffect
    <3> QED BY <1>w, <3>1 DEF WorkerOK
  <2> QED BY <1>each, <2>1, <2>2
<1>resize. ASSUME NEW c \in Clients, ReleaseThread(c) \/ \E n \in ThreadCounts : SetMaxThreadCount(c, n)
           PROVE  WorkersInv'
  <2>1. PICK rb : Resized(c, rb)
    BY <1>resize, ResizedEffect
  <2>2. WorkersOK(rb.ws, rb.created) /\ pool'.created = rb.created
    BY <2>1 DEF Resized, RoundOK
  <2>3. ASSUME NEW w \in Ids
        PROVE  WorkerOK(workers'[w]) /\ workers'[w].place = rb.ws[w].place
    <3>1. SameButArmed(rb.ws[w], workers'[w]) /\ WorkerOK(rb.ws[w])
      BY <2>1, <2>2 DEF Resized, WorkersOK
    <3> QED BY <3>1 DEF SameButArmed, SameWork, WorkerOK
  <2> QED BY <2>2, <2>3 DEF WorkersInv, WorkersOK
<1>expiry. ASSUME NEW c \in Clients, SetExpiryTimeout(c) PROVE WorkersInv'
  <2>1. pool'.created = pool.created
    BY <1>t, <1>expiry DEF SetExpiryTimeout, Pool
  <2> QED BY <1>kept, <1>expiry, <2>1, NoExpiryEffect
<1>settings. ASSUME NEW c \in Clients,
                    \/ \E n \in QueueLimits : SetMaxQueuedTaskCount(c, n)
                    \/ ReserveThread(c) \/ Notify(c) \/ Destroy(c)
                    \/ \E timed \in Deadlines : WaitForDone(c, timed)
                    \/ Join(c) \/ Lock(c) \/ AwaitDone(c) \/ AwaitSleep(c) \/ TimeOut(c)
             PROVE  WorkersInv'
  <2>1. workers' = workers /\ pool'.created = pool.created
    BY <1>t, <1>settings DEF SetMaxQueuedTaskCount, ReserveThread, Notify, Destroy, WaitForDone, Join, Lock,
         AwaitDone, AwaitSleep, TimeOut, Pool
  <2> QED BY <1>same, <2>1
<1>takes. ASSUME NEW c \in Clients, Cleanup(c) \/ AwaitCleanup(c) \/ EndWait(c) \/ ShutdownWait(c)
          PROVE  WorkersInv'
  <2>1. workers' = Taken(workers, Stopped) /\ pool'.created = pool.created
    BY <1>t, <1>takes DEF Cleanup, AwaitCleanup, EndWait, ShutdownWait, Pool
  <2> QED BY <1>stopped, <2>1
<1>stopIdle. ASSUME NEW c \in Clients, StopIdleWorkers(c) PROVE WorkersInv'
  <2> DEFINE all == {w \in Ids : workers[w].place \in {"active", "retired"}}
  <2>1. workers' = Quit(Taken(workers, all), all) /\ Quiescent
    BY <1>stopIdle DEF StopIdleWorkers
  <2>2. pool'.created = pool.created
    BY <1>t, <1>stopIdle DEF StopIdleWorkers, Pool
  <2>3. NoWork
    BY <2>1, QuiescentNoWork
  <2> QED BY <1>all, <2>1, <2>2, <2>3
<1>stopAll. ASSUME NEW c \in Clients, StopAllWorkers(c) PROVE WorkersInv'
  <2> DEFINE all == {w \in Ids : workers[w].place \in {"active", "retired"}}
  <2>1. workers' = Quit(Taken(workers, all), all) /\ pool'.created = pool.created
    BY <1>stopAll DEF StopAllWorkers
  <2>2. NoWork
    BY <1>stopAll, StopAllNoWork DEF StopAllWorkers
  <2> QED BY <1>all, <2>1, <2>2
<1>drain. ASSUME NEW w \in Ids, Drain(w) PROVE WorkersInv'
  <2>1. workers[w].thread = "ready" /\ workers[w].posted
    BY <1>drain DEF Drain
  <2>2. WorkerOK(workers[w])
    BY <1>w
  <2>3. CASE workers[w].queue = <<>>
    <3>1. WorkerOK(workers'[w])
      BY <1>drain, <2>1, <2>2, <2>3, EmptyDrainEffect DEF WorkerOK
    <3> QED BY <1>one, <1>drain, <2>3, <3>1, EmptyDrainEffect
  <2>4. CASE workers[w].queue # <<>>
    <3>1. Head(workers[w].queue).runnable \in Tasks
      <4>1. workers[w].queue \in Seq(Items)
        BY <1>t, WorkerFields
      <4>2. Head(workers[w].queue) \in Items
        BY <2>4, <4>1, TailElements
      <4> QED BY <4>2 DEF Items
    <3>2. /\ workers'[w].item # NoTask
          /\ workers'[w].running = TRUE /\ workers'[w].posted = FALSE
          /\ workers'[w].place = workers[w].place /\ workers'[w].quit = workers[w].quit
          /\ workers'[w].thread = "notifyRun"
      BY <1>drain, <2>4, <3>1, DrainEffect, PoolAssumption
    <3>3. WorkerOK(workers'[w])
      BY <2>1, <2>2, <3>2 DEF WorkerOK, Busy, Serving
    <3>4. pool'.created = pool.created
      BY <1>t, <1>drain, <2>4, DrainEffect DEF Pool
    <3> QED BY <1>one, <1>drain, <2>4, <3>2, <3>3, <3>4, DrainEffect
  <2> QED BY <2>3, <2>4
<1>finish. ASSUME NEW w \in Ids, Finish(w) PROVE WorkersInv'
  <2>1. pool'.created = pool.created
    BY <1>t, <1>finish DEF Finish, Pool
  <2>2. WorkerOK(workers[w])
    BY <1>w
  <2>3. WorkerOK(workers'[w])
    BY <1>finish, <2>2, FinishEffect DEF WorkerOK, Busy, Serving
  <2> QED BY <1>one, <1>finish, <2>1, <2>3, FinishEffect
<1>thread. ASSUME NEW w \in Ids, Rearm(w) \/ Expire(w) \/ ThreadNotify(w) \/ Exit(w) PROVE WorkersInv'
  <2>1. pool'.created = pool.created
    BY <1>thread DEF Rearm, Expire, ThreadNotify, Exit
  <2>2. WorkerOK(workers[w])
    BY <1>w
  <2>3. CASE Rearm(w)
    <3>1. workers[w].thread = "rearm"
      BY <2>3 DEF Rearm
    <3> QED BY <1>one, <2>1, <2>2, <2>3, <3>1, RearmEffect DEF Quiet, SameWork, WorkerOK, Busy, Serving
  <2>4. CASE Expire(w)
    <3>1. workers[w].thread = "ready"
      BY <2>4 DEF Expire
    <3> QED BY <1>one, <2>1, <2>2, <2>4, <3>1, ExpireEffect
          DEF Quiet, SameWork, WorkerOK, Busy, Serving, WouldQueue
  <2>5. CASE ThreadNotify(w)
    <3>1. /\ Quiet(w) /\ workers'[w].place = workers[w].place
          /\ workers[w].thread \in {"notifyRun", "notifyNext", "notifyIdle", "notifyQuit", "stopped"}
          /\ workers'[w].thread = AfterNotify[workers[w].thread]
          /\ workers'[w].quit = (workers[w].quit \/ workers[w].thread = "notifyQuit")
      BY <2>5, ThreadNotifyEffect DEF AfterNotify
    <3>2. /\ workers[w].thread = "notifyRun" => workers'[w].thread = "run"
          /\ workers[w].thread = "notifyNext" => workers'[w].thread = "ready"
          /\ workers[w].thread = "notifyIdle" => workers'[w].thread = "rearm"
          /\ workers[w].thread = "notifyQuit" => workers'[w].thread = "ready"
          /\ workers[w].thread = "stopped" => workers'[w].thread = "gone"
      BY <3>1 DEF AfterNotify
    <3>3. WorkerOK(workers'[w])
      BY <2>2, <3>1, <3>2 DEF Quiet, SameWork, WorkerOK, Busy, Serving
    <3> QED BY <1>one, <2>1, <3>1, <3>3 DEF Quiet
  <2>6. CASE Exit(w)
    <3>1. workers[w].thread = "ready" /\ workers[w].quit
      BY <2>6 DEF Exit
    <3> QED BY <1>one, <2>1, <2>2, <2>6, <3>1, ExitEffect DEF Quiet, SameWork, WorkerOK, Busy, Serving
  <2> QED BY <1>thread, <2>3, <2>4, <2>5, <2>6
<1>stutter. CASE UNCHANGED vars
  BY <1>same, <1>stutter DEF vars
<1> QED BY <1>submit, <1>take, <1>clear, <1>resize, <1>expiry, <1>settings, <1>takes, <1>stopIdle, <1>stopAll,
          <1>drain, <1>finish, <1>thread, <1>stutter
    DEF Next, Call, ClientStep, WorkerStep

-----------------------------------------------------------------------------
(* The queues.                                                              *)

\* The queues of the workers.
LEMMA QueueTypes ==
    ASSUME NEW ws \in [Ids -> Worker], NEW w \in Ids
    PROVE  /\ ws[w].queue \in Seq(Items)
           /\ DOMAIN ws[w].queue = 1..Len(ws[w].queue) /\ Len(ws[w].queue) \in Nat
           /\ \A i \in DOMAIN ws[w].queue :
                 /\ ws[w].queue[i] \in Items
                 /\ ws[w].queue[i].runnable \in Tasks /\ ws[w].queue[i].priority \in Int
                 /\ ws[w].queue[i].sequence \in Nat
<1>1. ws[w].queue \in Seq(Items)
  BY WorkerFields
<1>2. /\ DOMAIN ws[w].queue = 1..Len(ws[w].queue) /\ Len(ws[w].queue) \in Nat
      /\ \A i \in DOMAIN ws[w].queue : ws[w].queue[i] \in Items
  BY <1>1, SeqElements
<1>3. \A x \in Items : x.runnable \in Tasks /\ x.priority \in Int /\ x.sequence \in Nat
  BY DEF Items
<1> QED BY <1>1, <1>2, <1>3

\* Every step keeps the queues and the outcomes of tasks in agreement.
LEMMA QueuesStep ==
    ASSUME TypeOK, WorkersInv, QueuesInv, OrderInv, RunningInv, [Next]_vars
    PROVE  QueuesInv'
<1>t. workers \in [Ids -> Worker] /\ status \in [Tasks -> Outcomes]
  BY DEF TypeOK
<1>1. \A w \in Ids : \A i \in DOMAIN workers[w].queue : status[workers[w].queue[i].runnable] = "queued"
  BY DEF QueuesInv, QueuesOK
<1>2. \A v, w \in Ids : \A i \in DOMAIN workers[v].queue : \A j \in DOMAIN workers[w].queue :
          workers[v].queue[i].runnable = workers[w].queue[j].runnable => v = w /\ i = j
  BY DEF QueuesInv, QueuesOK
<1>3. \A t \in Tasks : status[t] = "queued" =>
          \E w \in Ids : \E i \in DOMAIN workers[w].queue : workers[w].queue[i].runnable = t
  BY DEF QueuesInv, QueuesOK
<1>q. \A w \in Ids : \A i \in DOMAIN workers[w].queue : workers[w].queue[i].runnable \in Tasks
  BY <1>t, QueueTypes
<1>same. ASSUME \A w \in Ids : workers'[w].queue = workers[w].queue,
                \A t \in Tasks : status'[t] = "queued" <=> status[t] = "queued"
         PROVE  QueuesInv'
  BY <1>1, <1>2, <1>3, <1>q, <1>same DEF QueuesInv, QueuesOK
<1>calm. CASE Calm
  BY <1>same, <1>calm DEF Calm, SameWork
<1>accepted. ASSUME NEW c \in Clients, NEW t \in Tasks, NEW priority \in Int, NEW w \in Ids,
                    NEW left \in Nat, Accepted(c, t, priority, w, left)
             PROVE  QueuesInv'
  <2>1. status[t] = "new" /\ status' = [status EXCEPT ![t] = "queued"]
    BY <1>accepted DEF Accepted, Assign
  <2>2. /\ Assign(t, priority, w)
        /\ w \in Active(workers) \/ w = pool.created + 1
    BY <1>accepted DEF Accepted
  <2>assigned. Assigned(t, priority, w)
    BY <2>2, AssignEffect
  <2>3. \A v \in Ids \ {w} : workers'[v].queue = workers[v].queue
    BY <2>assigned DEF Assigned
  <2> DEFINE q == workers[w].queue
             r == workers'[w].queue
  <2>4. PICK p \in 1..(Len(q) + 1) : Inserted(r, q, p, TaskItem(t, priority))
    BY <2>assigned DEF Assigned
  <2>5. TaskItem(t, priority).runnable = t
    BY DEF TaskItem
  <2>6. q \in Seq(Items) /\ DOMAIN q = 1..Len(q) /\ Len(q) \in Nat
    BY <1>t, QueueTypes
  <2>7. DOMAIN r = 1..(Len(q) + 1) /\ r[p].runnable = t
    BY <2>4, <2>5 DEF Inserted
  <2> HIDE DEF q, r
  <2>8. \A i \in DOMAIN r : i # p => \E j \in DOMAIN q : r[i] = q[j] /\ j = IF i < p THEN i ELSE i - 1
    BY <2>4, <2>6, <2>7 DEF Inserted
  <2>9. \A j \in DOMAIN q : \E i \in DOMAIN r : i # p /\ r[i] = q[j]
    <3> SUFFICES ASSUME NEW j \in DOMAIN q PROVE \E i \in DOMAIN r : i # p /\ r[i] = q[j]
      OBVIOUS
    <3>1. CASE j < p
      BY <2>4, <2>6, <2>7, <3>1 DEF Inserted
    <3>2. CASE j >= p
      <4>1. j + 1 \in DOMAIN r /\ j + 1 > p /\ (j + 1) - 1 = j
        BY <2>6, <2>7, <3>2
      <4>2. r[j + 1] = q[j]
        BY <2>4, <2>6, <2>7, <4>1 DEF Inserted
      <4> QED BY <4>1, <4>2
    <3> QED BY <2>6, <3>1, <3>2
  <2>10. \A v \in Ids : \A i \in DOMAIN workers[v].queue : workers[v].queue[i].runnable # t
    BY <1>1, <2>1
  <2>11. \A u \in Tasks : u # t => status'[u] = status[u]
    BY <1>t, <2>1
  <2>12. status'[t] = "queued"
    BY <1>t, <2>1
  <2>a. \A i \in DOMAIN q : q[i].runnable # t /\ q[i].runnable \in Tasks /\ status[q[i].runnable] = "queued"
    BY <1>1, <1>q, <2>10 DEF q
  <2>b. \A i \in DOMAIN r : status'[r[i].runnable] = "queued"
    BY <2>7, <2>8, <2>11, <2>12, <2>a
  <2>c. \A i, j \in DOMAIN r : r[i].runnable = r[j].runnable => i = j
    <3> SUFFICES ASSUME NEW i \in DOMAIN r, NEW j \in DOMAIN r, r[i].runnable = r[j].runnable PROVE i = j
      OBVIOUS
    <3>1. CASE i = p \/ j = p
      BY <2>7, <2>8, <2>a, <3>1
    <3>2. CASE i # p /\ j # p
      <4>1. PICK x \in DOMAIN q : r[i] = q[x] /\ x = IF i < p THEN i ELSE i - 1
        BY <2>8, <3>2
      <4>2. PICK y \in DOMAIN q : r[j] = q[y] /\ y = IF j < p THEN j ELSE j - 1
        BY <2>8, <3>2
      <4>3. x = y
        BY <1>2, <4>1, <4>2 DEF q
      <4> QED BY <2>7, <2>6, <3>2, <4>1, <4>2, <4>3
    <3> QED BY <3>1, <3>2
  <2>d. \A v \in Ids \ {w} : \A i \in DOMAIN workers[v].queue : \A j \in DOMAIN r :
            workers[v].queue[i].runnable # r[j].runnable
    <3> SUFFICES ASSUME NEW v \in Ids \ {w}, NEW i \in DOMAIN workers[v].queue, NEW j \in DOMAIN r
                 PROVE  workers[v].queue[i].runnable # r[j].runnable
      OBVIOUS
    <3>1. CASE j = p
      BY <2>7, <2>10, <3>1
    <3>2. CASE j # p
      <4>1. PICK y \in DOMAIN q : r[j] = q[y]
        BY <2>8, <3>2
      <4> QED BY <1>2, <4>1 DEF q
    <3> QED BY <3>1, <3>2
  <2>e. \A v \in Ids : \A i \in DOMAIN workers'[v].queue : status'[workers'[v].queue[i].runnable] = "queued"
    BY <1>1, <1>q, <2>3, <2>10, <2>11, <2>b DEF r
  <2>f. \A v, u \in Ids : \A i \in DOMAIN workers'[v].queue : \A j \in DOMAIN workers'[u].queue :
          workers'[v].queue[i].runnable = workers'[u].queue[j].runnable => v = u /\ i = j
    BY <1>2, <2>3, <2>c, <2>d DEF r
  <2>g. \A u \in Tasks : status'[u] = "queued" =>
          \E v \in Ids : \E i \in DOMAIN workers'[v].queue : workers'[v].queue[i].runnable = u
    <3> SUFFICES ASSUME NEW u \in Tasks, status'[u] = "queued"
                 PROVE  \E v \in Ids : \E i \in DOMAIN workers'[v].queue : workers'[v].queue[i].runnable = u
      OBVIOUS
    <3>1. CASE u = t
      BY <2>7, <3>1 DEF r
    <3>2. CASE u # t
      <4>1. PICK v \in Ids : \E i \in DOMAIN workers[v].queue : workers[v].queue[i].runnable = u
        BY <1>3, <2>11, <3>2
      <4>2. CASE v # w
        BY <2>3, <4>1, <4>2
      <4>3. CASE v = w
        BY <2>9, <4>1, <4>3 DEF q, r
      <4> QED BY <4>2, <4>3
    <3> QED BY <3>1, <3>2
  <2> QED BY <2>e, <2>f, <2>g DEF QueuesInv, QueuesOK
<1>removed. ASSUME NEW w \in Ids, NEW p \in DOMAIN workers[w].queue,
                   \A v \in Ids \ {w} : workers'[v].queue = workers[v].queue,
                   Removed(workers'[w].queue, workers[w].queue, p),
                   \A u \in Tasks : u # workers[w].queue[p].runnable => status'[u] = status[u],
                   status'[workers[w].queue[p].runnable] # "queued"
            PROVE  QueuesInv'
  <2> DEFINE q == workers[w].queue
             r == workers'[w].queue
  <2>1. q \in Seq(Items) /\ DOMAIN q = 1..Len(q) /\ Len(q) \in Nat
    BY <1>t, QueueTypes
  <2>2. DOMAIN r = 1..(Len(q) - 1)
    BY <1>removed DEF Removed
  <2>3. Removed(r, q, p) /\ p \in DOMAIN q
    BY <1>removed
  <2> HIDE DEF q, r
  <2>4. \A i \in DOMAIN r : \E j \in DOMAIN q : j # p /\ r[i] = q[j] /\ j = IF i < p THEN i ELSE i + 1
    BY <2>1, <2>2, <2>3 DEF Removed
  <2>5. \A j \in DOMAIN q : j # p => \E i \in DOMAIN r : r[i] = q[j]
    <3> SUFFICES ASSUME NEW j \in DOMAIN q, j # p PROVE \E i \in DOMAIN r : r[i] = q[j]
      OBVIOUS
    <3>1. CASE j < p
      <4>1. j \in DOMAIN r
        BY <2>1, <2>2, <2>3, <3>1
      <4> QED BY <2>1, <2>2, <2>3, <3>1, <4>1 DEF Removed
    <3>2. CASE j > p
      <4>1. j - 1 \in DOMAIN r /\ j - 1 >= p /\ (j - 1) + 1 = j
        BY <2>1, <2>2, <2>3, <3>2
      <4>2. r[j - 1] = q[j]
        BY <2>1, <2>2, <2>3, <4>1 DEF Removed
      <4> QED BY <4>1, <4>2
    <3> QED BY <2>1, <2>3, <3>1, <3>2
  <2>6. \A j \in DOMAIN q : j # p => q[j].runnable # q[p].runnable
    BY <1>2, <2>3 DEF q
  <2>7. \A v \in Ids \ {w} : \A i \in DOMAIN workers[v].queue : workers[v].queue[i].runnable # q[p].runnable
    BY <1>2, <2>3 DEF q
  <2>8. \A u \in Tasks : u # q[p].runnable => status'[u] = status[u]
    BY <1>removed DEF q
  <2>9. \A j \in DOMAIN q : q[j].runnable \in Tasks /\ status[q[j].runnable] = "queued"
    BY <1>1, <1>q DEF q
  <2>b. \A i \in DOMAIN r : status'[r[i].runnable] = "queued"
    BY <2>4, <2>6, <2>8, <2>9
  <2>c. \A i, j \in DOMAIN r : r[i].runnable = r[j].runnable => i = j
    <3> SUFFICES ASSUME NEW i \in DOMAIN r, NEW j \in DOMAIN r, r[i].runnable = r[j].runnable PROVE i = j
      OBVIOUS
    <3>1. PICK x \in DOMAIN q : r[i] = q[x] /\ x = IF i < p THEN i ELSE i + 1
      BY <2>4
    <3>2. PICK y \in DOMAIN q : r[j] = q[y] /\ y = IF j < p THEN j ELSE j + 1
      BY <2>4
    <3>3. x = y
      BY <1>2, <3>1, <3>2 DEF q
    <3> QED BY <2>1, <2>2, <2>3, <3>1, <3>2, <3>3
  <2>d. \A v \in Ids \ {w} : \A i \in DOMAIN workers[v].queue : \A j \in DOMAIN r :
            workers[v].queue[i].runnable # r[j].runnable
    BY <1>2, <2>4 DEF q
  <2>e. \A v \in Ids : \A i \in DOMAIN workers'[v].queue : status'[workers'[v].queue[i].runnable] = "queued"
    BY <1>1, <1>q, <1>removed, <2>7, <2>8, <2>b DEF r
  <2>f. \A v, u \in Ids : \A i \in DOMAIN workers'[v].queue : \A j \in DOMAIN workers'[u].queue :
          workers'[v].queue[i].runnable = workers'[u].queue[j].runnable => v = u /\ i = j
    BY <1>2, <1>removed, <2>c, <2>d DEF r
  <2>g. \A u \in Tasks : status'[u] = "queued" =>
          \E v \in Ids : \E i \in DOMAIN workers'[v].queue : workers'[v].queue[i].runnable = u
    <3> SUFFICES ASSUME NEW u \in Tasks, status'[u] = "queued"
                 PROVE  \E v \in Ids : \E i \in DOMAIN workers'[v].queue : workers'[v].queue[i].runnable = u
      OBVIOUS
    <3>1. u # q[p].runnable
      BY <1>removed DEF q
    <3>2. PICK v \in Ids : \E i \in DOMAIN workers[v].queue : workers[v].queue[i].runnable = u
      BY <1>3, <2>8, <3>1
    <3>3. CASE v # w
      BY <1>removed, <3>2, <3>3
    <3>4. CASE v = w
      BY <2>5, <3>1, <3>2, <3>4 DEF q, r
    <3> QED BY <3>3, <3>4
  <2> QED BY <2>e, <2>f, <2>g DEF QueuesInv, QueuesOK
<1>take. ASSUME NEW c \in Clients, NEW t \in Tasks, TryTake(c, t) PROVE QueuesInv'
  <2>1. PICK w \in Ids : \E i \in DOMAIN workers[w].queue :
                /\ workers[w].queue[i].runnable = t
                /\ \A v \in Ids \ {w} : SameButArmed(workers[v], workers'[v])
                /\ Removed(workers'[w].queue, workers[w].queue, i)
    BY <1>take, TryTakeEffect
  <2>2. status' = [status EXCEPT ![t] = "taken"]
    BY <1>take DEF TryTake
  <2>3. status'[t] = "taken" /\ \A u \in Tasks : u # t => status'[u] = status[u]
    BY <1>t, <2>2
  <2> QED BY <1>removed, <2>1, <2>3 DEF SameButArmed, SameWork
<1>clear. ASSUME NEW c \in Clients, Clear(c) PROVE QueuesInv'
  <2>1. \A w \in Ids : workers'[w].queue = <<>>
    BY <1>clear, ClearEffect
  <2>2. \A t \in Tasks : status'[t] # "queued"
    BY <1>clear DEF Clear
  <2>3. \A w \in Ids : DOMAIN workers'[w].queue = {}
    BY <2>1
  <2> QED BY <2>2, <2>3 DEF QueuesInv, QueuesOK
<1>resize. ASSUME NEW c \in Clients, NEW rb, Resized(c, rb) PROVE QueuesInv'
  <2>1. QueuesOK(rb.ws, status) /\ status' = status
    BY <1>resize DEF Resized, RoundOK
  <2>2. \A w \in Ids : workers'[w].queue = rb.ws[w].queue
    BY <1>resize DEF Resized, SameButArmed, SameWork
  <2>3. /\ \A w \in Ids : \A i \in DOMAIN rb.ws[w].queue : status[rb.ws[w].queue[i].runnable] = "queued"
        /\ \A v, w \in Ids : \A i \in DOMAIN rb.ws[v].queue : \A j \in DOMAIN rb.ws[w].queue :
              rb.ws[v].queue[i].runnable = rb.ws[w].queue[j].runnable => v = w /\ i = j
        /\ \A t \in Tasks : status[t] = "queued" =>
              \E w \in Ids : \E i \in DOMAIN rb.ws[w].queue : rb.ws[w].queue[i].runnable = t
    BY <2>1 DEF QueuesOK
  <2>4. \A w \in Ids : \A i \in DOMAIN workers'[w].queue : status'[workers'[w].queue[i].runnable] = "queued"
    BY <2>1, <2>2, <2>3
  <2>5. \A v, w \in Ids : \A i \in DOMAIN workers'[v].queue : \A j \in DOMAIN workers'[w].queue :
              workers'[v].queue[i].runnable = workers'[w].queue[j].runnable => v = w /\ i = j
    BY <2>2, <2>3
  <2>6. \A t \in Tasks : status'[t] = "queued" =>
              \E w \in Ids : \E i \in DOMAIN workers'[w].queue : workers'[w].queue[i].runnable = t
    BY <2>1, <2>2, <2>3
  <2> QED BY <2>4, <2>5, <2>6 DEF QueuesInv, QueuesOK
<1>drain. ASSUME NEW w \in Ids, Drain(w) PROVE QueuesInv'
  <2>1. CASE workers[w].queue = <<>>
    BY <1>same, <1>drain, <2>1, EmptyDrainEffect
  <2>2. CASE workers[w].queue # <<>>
    <3> DEFINE q == workers[w].queue
               t == q[1].runnable
    <3>1. q \in Seq(Items)
      BY <1>t, QueueTypes
    <3>2. Head(q) = q[1] /\ 1 \in DOMAIN q /\ Removed(Tail(q), q, 1)
      BY <2>2, <3>1, TailElements DEF Removed
    <3>3. /\ \A v \in Ids \ {w} : workers'[v] = workers[v]
          /\ workers'[w].queue = Tail(q)
          /\ status' = [status EXCEPT ![Head(q).runnable] = "running"]
      BY <1>drain, <2>2, DrainEffect
    <3>4. t \in Tasks
      BY <1>q, <3>2
    <3>5. status'[t] = "running" /\ \A u \in Tasks : u # t => status'[u] = status[u]
      BY <1>t, <3>2, <3>3, <3>4
    <3> QED BY <1>removed, <3>2, <3>3, <3>5
  <2> QED BY <2>1, <2>2
<1>finish. ASSUME NEW w \in Ids, Finish(w) PROVE QueuesInv'
  <2>1. \A v \in Ids : workers'[v].queue = workers[v].queue
    BY <1>finish, FinishEffect
  <2>2. status' = [status EXCEPT ![workers[w].item] = "done"]
    BY <1>finish DEF Finish
  <2>3. \A t \in Tasks : status'[t] = "queued" <=> status[t] = "queued"
    <3>1. workers[w].item \in Tasks
      BY <1>finish, FinishEffect
    <3>2. status[workers[w].item] = "running"
      BY <3>1, PoolAssumption DEF RunningInv
    <3> QED BY <1>t, <2>2, <3>2
  <2> QED BY <1>same, <2>1, <2>3
<1> QED BY <1>calm, <1>accepted, <1>take, <1>clear, <1>resize, <1>drain, <1>finish, StepKinds

\* Every step keeps the queues in order.
LEMMA OrderStep ==
    ASSUME TypeOK, WorkersInv, QueuesInv, OrderInv, [Next]_vars
    PROVE  OrderInv'
<1>t. workers \in [Ids -> Worker] /\ pool \in Pool /\ pool.accepted \in Nat
  BY PoolFields DEF TypeOK
<1>1. \A w \in Ids : \A i \in DOMAIN workers[w].queue : workers[w].queue[i].sequence <= pool.accepted
  BY DEF OrderInv, OrderOK
<1>2. \A w \in Ids : \A i, j \in DOMAIN workers[w].queue :
          i < j => Precedes(workers[w].queue[i], workers[w].queue[j])
  BY DEF OrderInv, OrderOK
<1>3. \A x, y, z \in Items : Precedes(x, y) /\ Precedes(y, z) => Precedes(x, z)
  BY DEF Precedes, Items
<1>same. ASSUME \A w \in Ids : workers'[w].queue = workers[w].queue, pool'.accepted = pool.accepted
         PROVE  OrderInv'
  BY <1>1, <1>2, <1>same DEF OrderInv, OrderOK
<1>calm. CASE Calm
  BY <1>same, <1>calm DEF Calm, SameWork
<1>accepted. ASSUME NEW c \in Clients, NEW t \in Tasks, NEW priority \in Int, NEW w \in Ids,
                    NEW left \in Nat, Accepted(c, t, priority, w, left)
             PROVE  OrderInv'
  <2>1. /\ Assign(t, priority, w)
        /\ w \in Active(workers) \/ w = pool.created + 1
    BY <1>accepted DEF Accepted
  <2>2. pool'.accepted = pool.accepted + 1
    BY <1>t, <1>accepted DEF Accepted, Pool
  <2>assigned. Assigned(t, priority, w)
    BY <2>1, AssignEffect
  <2>3. \A v \in Ids \ {w} : workers'[v] = workers[v]
    BY <2>assigned DEF Assigned
  <2> DEFINE q == workers[w].queue
             r == workers'[w].queue
             x == TaskItem(t, priority)
  <2>4. PICK p \in 1..(Len(q) + 1) :
                /\ Inserted(r, q, p, x)
                /\ \A i \in 1..(p - 1) : ~Precedes(x, q[i])
                /\ p <= Len(q) => Precedes(x, q[p])
    BY <2>assigned DEF Assigned
  <2>5. x \in Items /\ x.sequence = pool.accepted + 1 /\ x.priority = priority
    BY <1>t DEF TaskItem, Items
  <2>6. /\ q \in Seq(Items) /\ DOMAIN q = 1..Len(q) /\ Len(q) \in Nat
        /\ \A i \in DOMAIN q : /\ q[i] \in Items
                               /\ q[i].priority \in Int /\ q[i].sequence \in Nat
    BY <1>t, QueueTypes
  <2>7. DOMAIN r = 1..(Len(q) + 1) /\ r[p] = x
    BY <2>4 DEF Inserted
  <2>8. \A i \in DOMAIN q : q[i].sequence <= pool.accepted
    BY <1>1
  <2>9. \A i, j \in DOMAIN q : i < j => Precedes(q[i], q[j])
    BY <1>2
  <2> HIDE DEF q, r, x
  <2>10. \A i \in DOMAIN r : i # p => \E j \in DOMAIN q : r[i] = q[j] /\ j = IF i < p THEN i ELSE i - 1
    BY <2>4, <2>6, <2>7 DEF Inserted
  <2>11. \A i \in 1..(p - 1) : i \in DOMAIN q /\ Precedes(q[i], x)
    <3> SUFFICES ASSUME NEW i \in 1..(p - 1) PROVE i \in DOMAIN q /\ Precedes(q[i], x)
      OBVIOUS
    <3>1. i \in DOMAIN q
      BY <2>6
    <3>2. ~Precedes(x, q[i])
      BY <2>4
    <3>3. q[i].sequence < x.sequence
      BY <1>t, <2>5, <2>6, <2>8, <3>1
    <3>4. x.priority \in Int /\ x.sequence \in Nat
      BY <1>t, <2>5
    <3> QED BY <2>6, <3>1, <3>2, <3>3, <3>4 DEF Precedes
  <2>12. \A j \in DOMAIN q : j >= p => Precedes(x, q[j])
    <3> SUFFICES ASSUME NEW j \in DOMAIN q, j >= p PROVE Precedes(x, q[j])
      OBVIOUS
    <3>1. p \in DOMAIN q /\ Precedes(x, q[p])
      BY <2>4, <2>6
    <3>2. CASE j = p
      BY <3>1, <3>2
    <3>3. CASE j # p
      <4>1. Precedes(q[p], q[j])
        BY <2>6, <2>9, <3>1, <3>3
      <4> QED BY <1>3, <2>5, <2>6, <3>1, <4>1
    <3> QED BY <3>2, <3>3
  <2>13. \A i, j \in DOMAIN r : i < j => Precedes(r[i], r[j])
    <3> SUFFICES ASSUME NEW i \in DOMAIN r, NEW j \in DOMAIN r, i < j PROVE Precedes(r[i], r[j])
      OBVIOUS
    <3>1. CASE i = p
      <4>1. PICK b \in DOMAIN q : r[j] = q[b] /\ b = IF j < p THEN j ELSE j - 1
        BY <2>10, <2>7, <3>1
      <4>2. b >= p
        BY <2>6, <2>7, <3>1, <4>1
      <4> QED BY <2>7, <2>12, <3>1, <4>1, <4>2
    <3>2. CASE j = p
      <4>1. PICK a \in DOMAIN q : r[i] = q[a] /\ a = IF i < p THEN i ELSE i - 1
        BY <2>10, <2>7, <3>2
      <4>2. a \in 1..(p - 1)
        BY <2>6, <2>7, <3>2, <4>1
      <4> QED BY <2>7, <2>11, <3>2, <4>1, <4>2
    <3>3. CASE i # p /\ j # p
      <4>1. PICK a \in DOMAIN q : r[i] = q[a] /\ a = IF i < p THEN i ELSE i - 1
        BY <2>10, <3>3
      <4>2. PICK b \in DOMAIN q : r[j] = q[b] /\ b = IF j < p THEN j ELSE j - 1
        BY <2>10, <3>3
      <4>3. a < b
        BY <2>6, <2>7, <3>3, <4>1, <4>2
      <4> QED BY <2>9, <4>1, <4>2, <4>3
    <3> QED BY <3>1, <3>2, <3>3
  <2>14. \A i \in DOMAIN r : r[i].sequence <= pool.accepted + 1
    <3> SUFFICES ASSUME NEW i \in DOMAIN r PROVE r[i].sequence <= pool.accepted + 1
      OBVIOUS
    <3>1. CASE i = p
      BY <1>t, <2>5, <2>7, <3>1
    <3>2. CASE i # p
      <4>1. PICK a \in DOMAIN q : r[i] = q[a]
        BY <2>10, <3>2
      <4>2. q[a].sequence \in Nat /\ q[a].sequence <= pool.accepted
        BY <2>6, <2>8
      <4> QED BY <1>t, <4>1, <4>2
    <3> QED BY <3>1, <3>2
  <2>15. \A v \in Ids : \A i \in DOMAIN workers[v].queue : workers[v].queue[i].sequence <= pool.accepted + 1
    <3> SUFFICES ASSUME NEW v \in Ids, NEW i \in DOMAIN workers[v].queue
                 PROVE  workers[v].queue[i].sequence <= pool.accepted + 1
      OBVIOUS
    <3>1. workers[v].queue[i].sequence \in Nat /\ workers[v].queue[i].sequence <= pool.accepted
      BY <1>t, <1>1, QueueTypes
    <3> QED BY <1>t, <3>1
  <2>16. \A v \in Ids : \A i \in DOMAIN workers'[v].queue : workers'[v].queue[i].sequence <= pool'.accepted
    BY <2>2, <2>3, <2>14, <2>15 DEF r
  <2>17. \A v \in Ids : \A i, j \in DOMAIN workers'[v].queue :
            i < j => Precedes(workers'[v].queue[i], workers'[v].queue[j])
    BY <1>2, <2>3, <2>13 DEF r
  <2> QED BY <2>16, <2>17 DEF OrderInv, OrderOK
<1>removed. ASSUME NEW w \in Ids, NEW p \in DOMAIN workers[w].queue, pool'.accepted = pool.accepted,
                   \A v \in Ids \ {w} : workers'[v].queue = workers[v].queue,
                   Removed(workers'[w].queue, workers[w].queue, p)
            PROVE  OrderInv'
  <2> DEFINE q == workers[w].queue
             r == workers'[w].queue
  <2>1. q \in Seq(Items) /\ DOMAIN q = 1..Len(q) /\ Len(q) \in Nat
    BY <1>t, QueueTypes
  <2>2. DOMAIN r = 1..(Len(q) - 1)
    BY <1>removed DEF Removed
  <2>3. Removed(r, q, p) /\ p \in DOMAIN q
    BY <1>removed
  <2>4. \A i \in DOMAIN q : q[i].sequence <= pool.accepted
    BY <1>1
  <2>5. \A i, j \in DOMAIN q : i < j => Precedes(q[i], q[j])
    BY <1>2
  <2> HIDE DEF q, r
  <2>6. \A i \in DOMAIN r : \E j \in DOMAIN q : r[i] = q[j] /\ j = IF i < p THEN i ELSE i + 1
    BY <2>1, <2>2, <2>3 DEF Removed
  <2>7. \A i, j \in DOMAIN r : i < j => Precedes(r[i], r[j])
    <3> SUFFICES ASSUME NEW i \in DOMAIN r, NEW j \in DOMAIN r, i < j PROVE Precedes(r[i], r[j])
      OBVIOUS
    <3>1. PICK a \in DOMAIN q : r[i] = q[a] /\ a = IF i < p THEN i ELSE i + 1
      BY <2>6
    <3>2. PICK b \in DOMAIN q : r[j] = q[b] /\ b = IF j < p THEN j ELSE j + 1
      BY <2>6
    <3>3. a < b
      BY <2>1, <2>2, <2>3, <3>1, <3>2
    <3> QED BY <2>5, <3>1, <3>2, <3>3
  <2>8. \A i \in DOMAIN r : r[i].sequence <= pool.accepted
    BY <2>4, <2>6
  <2>9. \A v \in Ids : \A i \in DOMAIN workers'[v].queue : workers'[v].queue[i].sequence <= pool'.accepted
    BY <1>1, <1>removed, <2>8 DEF r
  <2>10. \A v \in Ids : \A i, j \in DOMAIN workers'[v].queue :
            i < j => Precedes(workers'[v].queue[i], workers'[v].queue[j])
    BY <1>2, <1>removed, <2>7 DEF r
  <2> QED BY <2>9, <2>10 DEF OrderInv, OrderOK
<1>take. ASSUME NEW c \in Clients, NEW t \in Tasks, TryTake(c, t) PROVE OrderInv'
  <2>1. PICK w \in Ids : \E i \in DOMAIN workers[w].queue :
                /\ \A v \in Ids \ {w} : SameButArmed(workers[v], workers'[v])
                /\ Removed(workers'[w].queue, workers[w].queue, i)
    BY <1>take, TryTakeEffect
  <2>2. pool' = pool
    BY <1>take DEF TryTake
  <2> QED BY <1>removed, <2>1, <2>2 DEF SameButArmed, SameWork
<1>clear. ASSUME NEW c \in Clients, Clear(c) PROVE OrderInv'
  <2>1. \A w \in Ids : workers'[w].queue = <<>>
    BY <1>clear, ClearEffect
  <2>2. \A w \in Ids : DOMAIN workers'[w].queue = {}
    BY <2>1
  <2> QED BY <2>2 DEF OrderInv, OrderOK
<1>resize. ASSUME NEW c \in Clients, NEW rb, Resized(c, rb) PROVE OrderInv'
  <2>1. OrderOK(rb.ws, pool.accepted) /\ pool'.accepted = pool.accepted
    BY <1>resize DEF Resized, RoundOK
  <2>2. \A w \in Ids : workers'[w].queue = rb.ws[w].queue
    BY <1>resize DEF Resized, SameButArmed, SameWork
  <2> QED BY <2>1, <2>2 DEF OrderInv, OrderOK
<1>drain. ASSUME NEW w \in Ids, Drain(w) PROVE OrderInv'
  <2>1. CASE workers[w].queue = <<>>
    BY <1>same, <1>drain, <2>1, EmptyDrainEffect
  <2>2. CASE workers[w].queue # <<>>
    <3> DEFINE q == workers[w].queue
    <3>1. q \in Seq(Items)
      BY <1>t, QueueTypes
    <3>2. 1 \in DOMAIN q /\ Removed(Tail(q), q, 1)
      BY <2>2, <3>1, TailElements DEF Removed
    <3>3. /\ \A v \in Ids \ {w} : workers'[v] = workers[v]
          /\ workers'[w].queue = Tail(q)
          /\ pool' = [pool EXCEPT !.running = @ + 1]
      BY <1>drain, <2>2, DrainEffect
    <3>4. pool'.accepted = pool.accepted
      BY <1>t, <3>3 DEF Pool
    <3> QED BY <1>removed, <3>2, <3>3, <3>4
  <2> QED BY <2>1, <2>2
<1>finish. ASSUME NEW w \in Ids, Finish(w) PROVE OrderInv'
  <2>1. \A v \in Ids : workers'[v].queue = workers[v].queue
    BY <1>finish, FinishEffect
  <2>2. pool'.accepted = pool.accepted
    BY <1>t, <1>finish DEF Finish, Pool
  <2> QED BY <1>same, <2>1, <2>2
<1> QED BY <1>calm, <1>accepted, <1>take, <1>clear, <1>resize, <1>drain, <1>finish, StepKinds

-----------------------------------------------------------------------------
(* What runs.                                                               *)

\* Every step keeps the items of the workers and the tasks that run in agreement.
LEMMA RunningStep ==
    ASSUME TypeOK, WorkersInv, QueuesInv, OrderInv, RunningInv, [Next]_vars
    PROVE  RunningInv'
<1>t. workers \in [Ids -> Worker] /\ status \in [Tasks -> Outcomes]
  BY DEF TypeOK
<1>i. \A w \in Ids : workers[w].item \in Tasks \cup {NoTask}
  BY <1>t, WorkerFields
<1>1. \A w \in Ids : workers[w].item # NoTask => status[workers[w].item] = "running"
  BY DEF RunningInv
<1>2. \A v, w \in Ids : workers[v].item # NoTask /\ workers[v].item = workers[w].item => v = w
  BY DEF RunningInv
<1>3. \A t \in Tasks : status[t] = "running" => \E w \in Ids : workers[w].item = t
  BY DEF RunningInv
<1>same. ASSUME \A w \in Ids : workers'[w].item = workers[w].item,
                \A t \in Tasks : status'[t] = "running" <=> status[t] = "running"
         PROVE  RunningInv'
  BY <1>i, <1>1, <1>2, <1>3, <1>same DEF RunningInv
<1>calm. CASE Calm
  BY <1>same, <1>calm DEF Calm, SameWork
<1>accepted. ASSUME NEW c \in Clients, NEW t \in Tasks, NEW priority \in Int, NEW w \in Ids,
                    NEW left \in Nat, Accepted(c, t, priority, w, left)
             PROVE  RunningInv'
  <2>1. /\ Assign(t, priority, w) /\ status[t] = "new"
        /\ w \in Active(workers) \/ w = pool.created + 1
    BY <1>accepted DEF Accepted
  <2>2. \A v \in Ids : workers'[v].item = workers[v].item
    <3>1. Assigned(t, priority, w)
      BY <2>1, AssignEffect
    <3> QED BY <3>1 DEF Assigned
  <2>3. status' = [status EXCEPT ![t] = "queued"]
    BY <2>1 DEF Assign
  <2>4. \A u \in Tasks : status'[u] = "running" <=> status[u] = "running"
    BY <1>t, <2>1, <2>3
  <2> QED BY <1>same, <2>2, <2>4
<1>take. ASSUME NEW c \in Clients, NEW t \in Tasks, TryTake(c, t) PROVE RunningInv'
  <2>1. PICK w \in Ids : \E i \in DOMAIN workers[w].queue :
                /\ workers[w].queue[i].runnable = t
                /\ \A v \in Ids \ {w} : SameButArmed(workers[v], workers'[v])
                /\ workers'[w].item = workers[w].item
    BY <1>take, TryTakeEffect
  <2>2. status' = [status EXCEPT ![t] = "taken"]
    BY <1>take DEF TryTake
  <2>3. status[t] = "queued"
    BY <2>1 DEF QueuesInv, QueuesOK
  <2>4. \A u \in Tasks : status'[u] = "running" <=> status[u] = "running"
    BY <1>t, <2>2, <2>3
  <2> QED BY <1>same, <2>1, <2>4 DEF SameButArmed, SameWork
<1>clear. ASSUME NEW c \in Clients, Clear(c) PROVE RunningInv'
  <2>1. \A w \in Ids : workers'[w].item = workers[w].item
    BY <1>clear, ClearEffect
  <2>2. \A u \in Tasks : status'[u] = "running" <=> status[u] = "running"
    BY <1>t, <1>clear DEF Clear
  <2> QED BY <1>same, <2>1, <2>2
<1>resize. ASSUME NEW c \in Clients, NEW rb, Resized(c, rb) PROVE RunningInv'
  <2>1. \A w \in Ids : workers'[w].item = workers[w].item
    BY <1>resize DEF Resized, RoundOK, SameButArmed, SameWork
  <2> QED BY <1>same, <1>resize, <2>1 DEF Resized
<1>drain. ASSUME NEW w \in Ids, Drain(w) PROVE RunningInv'
  <2>1. CASE workers[w].queue = <<>>
    BY <1>same, <1>drain, <2>1, EmptyDrainEffect
  <2>2. CASE workers[w].queue # <<>>
    <3> DEFINE t == workers[w].queue[1].runnable
    <3>1. 1 \in DOMAIN workers[w].queue /\ Head(workers[w].queue) = workers[w].queue[1]
      BY <1>t, <2>2, QueueTypes, TailElements
    <3>2. t \in Tasks /\ status[t] = "queued"
      BY <1>t, <3>1, QueueTypes DEF QueuesInv, QueuesOK
    <3>3. /\ \A v \in Ids \ {w} : workers'[v] = workers[v]
          /\ workers'[w].item = t
          /\ status' = [status EXCEPT ![t] = "running"]
      BY <1>drain, <2>2, <3>1, DrainEffect
    <3>4. workers[w].item = NoTask
      <4>1. workers[w].posted /\ WorkerOK(workers[w])
        BY <1>drain DEF Drain, WorkersInv, WorkersOK
      <4> QED BY <4>1 DEF WorkerOK
    <3>5. t # NoTask
      BY <3>2, PoolAssumption
    <3> HIDE DEF t
    <3>6. status'[t] = "running" /\ \A u \in Tasks : u # t => status'[u] = status[u]
      BY <1>t, <3>2, <3>3
    <3>7. \A v \in Ids : workers[v].item # t
      BY <1>1, <3>2, <3>5
    <3>8. \A v \in Ids : workers'[v].item # NoTask => status'[workers'[v].item] = "running"
      BY <1>1, <1>i, <3>3, <3>6, <3>7
    <3>9. \A v, u \in Ids : workers'[v].item # NoTask /\ workers'[v].item = workers'[u].item => v = u
      BY <1>2, <3>3, <3>7
    <3>10. \A u \in Tasks : status'[u] = "running" => \E v \in Ids : workers'[v].item = u
      <4> SUFFICES ASSUME NEW u \in Tasks, status'[u] = "running" PROVE \E v \in Ids : workers'[v].item = u
        OBVIOUS
      <4>1. CASE u = t
        BY <3>3, <4>1
      <4>2. CASE u # t
        <5>1. PICK v \in Ids : workers[v].item = u
          BY <1>3, <3>6, <4>2
        <5>2. v # w
          BY <3>4, <5>1, PoolAssumption
        <5> QED BY <3>3, <5>1, <5>2
      <4> QED BY <4>1, <4>2
    <3> QED BY <3>8, <3>9, <3>10 DEF RunningInv
  <2> QED BY <2>1, <2>2
<1>finish. ASSUME NEW w \in Ids, Finish(w) PROVE RunningInv'
  <2> DEFINE t == workers[w].item
  <2>1. /\ \A v \in Ids \ {w} : workers'[v] = workers[v]
        /\ workers'[w].item = NoTask /\ t \in Tasks
    BY <1>finish, FinishEffect
  <2>2. status' = [status EXCEPT ![t] = "done"]
    BY <1>finish DEF Finish
  <2>3. status'[t] = "done" /\ \A u \in Tasks : u # t => status'[u] = status[u]
    BY <1>t, <2>1, <2>2
  <2>4. \A v \in Ids \ {w} : workers[v].item # t
    BY <1>2, <2>1, PoolAssumption
  <2>5. t = workers[w].item
    OBVIOUS
  <2> HIDE DEF t
  <2>6. \A v \in Ids : workers'[v].item # NoTask => status'[workers'[v].item] = "running"
    BY <1>1, <1>i, <2>1, <2>3, <2>4
  <2>7. \A v, u \in Ids : workers'[v].item # NoTask /\ workers'[v].item = workers'[u].item => v = u
    BY <1>2, <2>1
  <2>8. \A u \in Tasks : status'[u] = "running" => \E v \in Ids : workers'[v].item = u
    <3> SUFFICES ASSUME NEW u \in Tasks, status'[u] = "running" PROVE \E v \in Ids : workers'[v].item = u
      OBVIOUS
    <3>1. u # t
      BY <2>3
    <3>2. PICK v \in Ids : workers[v].item = u
      BY <1>3, <2>3, <3>1
    <3>3. v # w
      BY <2>5, <3>1, <3>2
    <3> QED BY <2>1, <3>2, <3>3
  <2> QED BY <2>6, <2>7, <2>8 DEF RunningInv
<1> QED BY <1>calm, <1>accepted, <1>take, <1>clear, <1>resize, <1>drain, <1>finish, StepKinds

\* m_runningTasks stays exact.
LEMMA RunningExactStep ==
    ASSUME TypeOK, WorkersInv, QueuesInv, OrderInv, RunningInv, RunningExact, [Next]_vars
    PROVE  RunningExact'
<1> DEFINE R == {t \in Tasks : status[t] = "running"}
           S == {t \in Tasks : status'[t] = "running"}
<1>t. /\ workers \in [Ids -> Worker] /\ status \in [Tasks -> Outcomes]
      /\ pool \in Pool /\ pool.running \in Nat
  BY PoolFields DEF TypeOK
<1>1. pool.running = Cardinality(R) /\ IsFiniteSet(R)
  BY PoolAssumption, FS_Subset DEF RunningExact
<1>goal. SUFFICES pool'.running = Cardinality(S)
  BY DEF RunningExact
<1>same. ASSUME pool'.running = pool.running, \A t \in Tasks : status'[t] = "running" <=> status[t] = "running"
         PROVE  pool'.running = Cardinality(S)
  <2>1. S = R
    BY <1>same
  <2> QED BY <1>1, <1>same, <2>1
<1>calm. CASE Calm
  BY <1>same, <1>calm DEF Calm
<1>accepted. ASSUME NEW c \in Clients, NEW t \in Tasks, NEW priority \in Int, NEW w \in Ids,
                    NEW left \in Nat, Accepted(c, t, priority, w, left)
             PROVE  pool'.running = Cardinality(S)
  <2>1. pool'.running = pool.running
    BY <1>t, <1>accepted DEF Accepted, Pool
  <2>2. status[t] = "new" /\ status' = [status EXCEPT ![t] = "queued"]
    BY <1>accepted DEF Accepted, Assign
  <2>3. \A u \in Tasks : status'[u] = "running" <=> status[u] = "running"
    BY <1>t, <2>2
  <2> QED BY <1>same, <2>1, <2>3
<1>take. ASSUME NEW c \in Clients, NEW t \in Tasks, TryTake(c, t) PROVE pool'.running = Cardinality(S)
  <2>1. \E w \in Ids : \E i \in DOMAIN workers[w].queue : workers[w].queue[i].runnable = t
    BY <1>take, TryTakeEffect
  <2>2. status[t] = "queued"
    BY <2>1 DEF QueuesInv, QueuesOK
  <2>3. status' = [status EXCEPT ![t] = "taken"] /\ pool' = pool
    BY <1>take DEF TryTake
  <2>4. \A u \in Tasks : status'[u] = "running" <=> status[u] = "running"
    BY <1>t, <2>2, <2>3
  <2> QED BY <1>same, <2>3, <2>4
<1>clear. ASSUME NEW c \in Clients, Clear(c) PROVE pool'.running = Cardinality(S)
  <2>1. pool' = pool /\ \A u \in Tasks : status'[u] = "running" <=> status[u] = "running"
    BY <1>t, <1>clear DEF Clear
  <2> QED BY <1>same, <2>1
<1>resize. ASSUME NEW c \in Clients, NEW rb, Resized(c, rb) PROVE pool'.running = Cardinality(S)
  BY <1>same, <1>resize DEF Resized
<1>drain. ASSUME NEW w \in Ids, Drain(w) PROVE pool'.running = Cardinality(S)
  <2>1. CASE workers[w].queue = <<>>
    BY <1>same, <1>drain, <2>1, EmptyDrainEffect
  <2>2. CASE workers[w].queue # <<>>
    <3> DEFINE t == workers[w].queue[1].runnable
    <3>1. 1 \in DOMAIN workers[w].queue /\ Head(workers[w].queue) = workers[w].queue[1]
      BY <1>t, <2>2, QueueTypes, TailElements
    <3>2. t \in Tasks /\ status[t] = "queued"
      BY <1>t, <3>1, QueueTypes DEF QueuesInv, QueuesOK
    <3>3. pool' = [pool EXCEPT !.running = @ + 1] /\ status' = [status EXCEPT ![t] = "running"]
      BY <1>drain, <2>2, <3>1, DrainEffect
    <3>4. pool'.running = pool.running + 1
      BY <1>t, <3>3 DEF Pool
    <3> HIDE DEF t
    <3>5. S = R \cup {t} /\ t \notin R
      BY <1>t, <3>2, <3>3
    <3> HIDE DEF R, S
    <3> QED BY <1>1, <3>4, <3>5, FS_AddElement
  <2> QED BY <2>1, <2>2
<1>finish. ASSUME NEW w \in Ids, Finish(w) PROVE pool'.running = Cardinality(S)
  <2> DEFINE t == workers[w].item
  <2>1. t \in Tasks
    BY <1>finish, FinishEffect
  <2>2. status[t] = "running"
    BY <2>1, PoolAssumption DEF RunningInv
  <2>3. pool'.running = pool.running - 1 /\ status' = [status EXCEPT ![t] = "done"]
    BY <1>t, <1>finish DEF Finish, Pool
  <2> HIDE DEF t
  <2>4. S = R \ {t} /\ t \in R
    BY <1>t, <2>1, <2>2, <2>3
  <2> HIDE DEF R, S
  <2> QED BY <1>1, <2>3, <2>4, FS_RemoveElement
<1> QED BY <1>calm, <1>accepted, <1>take, <1>clear, <1>resize, <1>drain, <1>finish, StepKinds

\* Without work m_runningTasks is 0: the pool is quiescent.
LEMMA NoWorkQuiescent ==
    ASSUME TypeOK, WorkersInv, RunningInv, RunningExact, NoWork
    PROVE  Quiescent
<1>1. \A w \in Ids : workers[w].item = NoTask
  BY DEF NoWork, WorkersInv, WorkersOK, WorkerOK
<1>2. {t \in Tasks : status[t] = "running"} = {}
  BY <1>1, PoolAssumption DEF RunningInv
<1>3. pool.running = 0
  BY <1>2, FS_EmptySet DEF RunningExact
<1>4. \A w \in Active(workers) : ~WouldQueue(workers, w)
  BY DEF NoWork, Active, WouldQueue
<1> QED BY <1>3, <1>4 DEF Quiescent

\* Work comes from an accepted task only.
LEMMA NoWorkStays ==
    ASSUME TypeOK, WorkersInv, QueuesInv, OrderInv, NoWork, [Next]_vars
    PROVE  \/ NoWork'
           \/ \E c \in Clients, t \in Tasks, priority \in Int, w \in Ids, left \in Nat :
                  Accepted(c, t, priority, w, left)
<1>n. \A w \in Ids : workers[w].queue = <<>> /\ ~workers[w].running /\ ~workers[w].posted
  BY DEF NoWork
<1>calm. ASSUME Calm PROVE NoWork'
  BY <1>n, <1>calm DEF Calm, SameWork, NoWork
<1>take. ASSUME NEW c \in Clients, NEW t \in Tasks, TryTake(c, t) PROVE FALSE
  <2>1. PICK w \in Ids : \E i \in DOMAIN workers[w].queue : workers[w].queue[i].runnable = t
    BY <1>take, TryTakeEffect
  <2> QED BY <1>n, <2>1
<1>clear. ASSUME NEW c \in Clients, Clear(c) PROVE NoWork'
  BY <1>n, <1>clear, ClearEffect DEF NoWork
<1>resize. ASSUME NEW c \in Clients, NEW rb, Resized(c, rb) PROVE NoWork'
  <2>1. rb.ws = workers
    BY <1>resize DEF Resized, RoundOK
  <2> QED BY <1>n, <1>resize, <2>1 DEF Resized, SameButArmed, SameWork, NoWork
<1>drain. ASSUME NEW w \in Ids, Drain(w) PROVE FALSE
  BY <1>n, <1>drain DEF Drain
<1>finish. ASSUME NEW w \in Ids, Finish(w) PROVE FALSE
  BY <1>n, <1>finish, FinishEffect
<1> QED BY <1>calm, <1>take, <1>clear, <1>resize, <1>drain, <1>finish, StepKinds

\* What was withdrawn or moved stays so.
LEMMA WithdrawnStays ==
    ASSUME TypeOK, WorkersInv, QueuesInv, OrderInv, RunningInv, Withdrawn, [Next]_vars
    PROVE  Withdrawn'
<1>t. /\ workers \in [Ids -> Worker] /\ status \in [Tasks -> Outcomes]
      /\ pool \in Pool /\ pool.settings \in Nat
  BY PoolFields DEF TypeOK
<1>goal. ASSUME pool'.settings \in {pool.settings, pool.settings + 1},
                \A t \in Tasks : status[t] \in {"taken", "cleared"} => status'[t] = status[t]
         PROVE  Withdrawn'
  BY <1>t, <1>goal DEF Withdrawn
<1>calm. CASE Calm
  BY <1>goal, <1>calm DEF Calm
<1>accepted. ASSUME NEW c \in Clients, NEW t \in Tasks, NEW priority \in Int, NEW w \in Ids,
                    NEW left \in Nat, Accepted(c, t, priority, w, left)
             PROVE  Withdrawn'
  <2>1. pool'.settings = pool.settings
    BY <1>t, <1>accepted DEF Accepted, Pool
  <2>2. status[t] = "new" /\ status' = [status EXCEPT ![t] = "queued"]
    BY <1>accepted DEF Accepted, Assign
  <2> QED BY <1>t, <1>goal, <2>1, <2>2
<1>take. ASSUME NEW c \in Clients, NEW t \in Tasks, TryTake(c, t) PROVE Withdrawn'
  BY <1>t, <1>take DEF TryTake, Withdrawn
<1>clear. ASSUME NEW c \in Clients, Clear(c) PROVE Withdrawn'
  BY <1>t, <1>goal, <1>clear DEF Clear
<1>resize. ASSUME NEW c \in Clients, NEW rb, Resized(c, rb) PROVE Withdrawn'
  BY <1>goal, <1>resize DEF Resized
<1>drain. ASSUME NEW w \in Ids, Drain(w) PROVE Withdrawn'
  <2>1. CASE workers[w].queue = <<>>
    BY <1>goal, <1>drain, <2>1, EmptyDrainEffect
  <2>2. CASE workers[w].queue # <<>>
    <3> DEFINE t == workers[w].queue[1].runnable
    <3>1. 1 \in DOMAIN workers[w].queue /\ Head(workers[w].queue) = workers[w].queue[1]
      BY <1>t, <2>2, QueueTypes, TailElements
    <3>2. t \in Tasks /\ status[t] = "queued"
      BY <1>t, <3>1, QueueTypes DEF QueuesInv, QueuesOK
    <3>3. pool' = [pool EXCEPT !.running = @ + 1] /\ status' = [status EXCEPT ![t] = "running"]
      BY <1>drain, <2>2, <3>1, DrainEffect
    <3>4. pool'.settings = pool.settings
      BY <1>t, <3>3 DEF Pool
    <3> HIDE DEF t
    <3> QED BY <1>t, <1>goal, <3>2, <3>3, <3>4
  <2> QED BY <2>1, <2>2
<1>finish. ASSUME NEW w \in Ids, Finish(w) PROVE Withdrawn'
  <2>1. workers[w].item \in Tasks
    BY <1>finish, FinishEffect
  <2>2. status[workers[w].item] = "running"
    BY <2>1, PoolAssumption DEF RunningInv
  <2>3. pool'.settings = pool.settings /\ status' = [status EXCEPT ![workers[w].item] = "done"]
    BY <1>t, <1>finish DEF Finish, Pool
  <2> QED BY <1>t, <1>goal, <2>2, <2>3
<1> QED BY <1>calm, <1>accepted, <1>take, <1>clear, <1>resize, <1>drain, <1>finish, StepKinds

\* Every step keeps the reason of an empty dispatch.
LEMMA DispatchStep ==
    ASSUME TypeOK, WorkersInv, QueuesInv, OrderInv, RunningInv, DispatchInv, [Next]_vars
    PROVE  DispatchInv'
<1>t. /\ workers \in [Ids -> Worker] /\ status \in [Tasks -> Outcomes]
      /\ pool \in Pool /\ pool.settings \in Nat
  BY PoolFields DEF TypeOK
<1>goal. ASSUME \A w \in Ids : workers'[w].posted /\ workers'[w].queue = <<>> =>
                    workers[w].posted /\ workers[w].queue = <<>>
         PROVE  DispatchInv'
  BY <1>goal, WithdrawnStays DEF DispatchInv
<1>calm. CASE Calm
  BY <1>goal, <1>calm DEF Calm, SameWork
<1>accepted. ASSUME NEW c \in Clients, NEW t \in Tasks, NEW priority \in Int, NEW w \in Ids,
                    NEW left \in Nat, Accepted(c, t, priority, w, left)
             PROVE  DispatchInv'
  <2>1. Assigned(t, priority, w)
    BY <1>accepted, AssignEffect DEF Accepted
  <2>2. workers'[w].queue # <<>>
    <3>1. PICK p \in 1..(Len(workers[w].queue) + 1) :
              Inserted(workers'[w].queue, workers[w].queue, p, TaskItem(t, priority))
      BY <2>1 DEF Assigned
    <3>2. DOMAIN workers'[w].queue # {}
      BY <1>t, <3>1, QueueTypes DEF Inserted
    <3> QED BY <3>2
  <2> QED BY <1>goal, <2>1, <2>2 DEF Assigned
<1>take. ASSUME NEW c \in Clients, NEW t \in Tasks, TryTake(c, t) PROVE DispatchInv'
  BY <1>t, <1>take DEF TryTake, Withdrawn, DispatchInv
<1>clear. ASSUME NEW c \in Clients, Clear(c) PROVE DispatchInv'
  <2> SUFFICES ASSUME NEW w \in Ids, workers'[w].posted PROVE Withdrawn'
    BY DEF DispatchInv
  <2>1. workers[w].posted
    BY <1>clear, ClearEffect
  <2>2. CASE workers[w].queue = <<>>
    BY <2>1, <2>2, WithdrawnStays DEF DispatchInv
  <2>3. CASE workers[w].queue # <<>>
    <3>1. 1 \in DOMAIN workers[w].queue
      BY <1>t, <2>3, QueueTypes, TailElements
    <3>2. PICK t \in Tasks : status[t] = "queued"
      BY <1>t, <3>1, QueueTypes DEF QueuesInv, QueuesOK
    <3>3. status'[t] = "cleared"
      BY <1>t, <1>clear, <3>2 DEF Clear
    <3> QED BY <3>3 DEF Withdrawn
  <2> QED BY <2>2, <2>3
<1>resize. ASSUME NEW c \in Clients, NEW rb, Resized(c, rb) PROVE DispatchInv'
  <2>1. pool'.settings > 0
    BY <1>t, <1>resize DEF Resized
  <2> QED BY <2>1 DEF DispatchInv, Withdrawn
<1>drain. ASSUME NEW w \in Ids, Drain(w) PROVE DispatchInv'
  <2>1. CASE workers[w].queue = <<>>
    BY <1>goal, <1>drain, <2>1, EmptyDrainEffect
  <2>2. CASE workers[w].queue # <<>>
    BY <1>goal, <1>drain, <2>2, DrainEffect
  <2> QED BY <2>1, <2>2
<1>finish. ASSUME NEW w \in Ids, Finish(w) PROVE DispatchInv'
  BY <1>goal, <1>finish, FinishEffect
<1> QED BY <1>calm, <1>accepted, <1>take, <1>clear, <1>resize, <1>drain, <1>finish, StepKinds

-----------------------------------------------------------------------------
(* The threads that use the pool.                                           *)

\* A step of c: where it is now, the other threads are where they were.
Becomes(c, pc, next, joining) ==
    /\ \A d \in Clients \ {c} : client'[d] = client[d]
    /\ client'[c].pc = pc /\ client'[c].next = next /\ client'[c].joining = joining

\* What c knows of its deadline and of the outcome is the same.
SameFlags(c) ==
    /\ client'[c].timed = client[c].timed /\ client'[c].expired = client[c].expired
    /\ client'[c].ok = client[c].ok

\* A client replaced.
LEMMA ClientReplaced ==
    ASSUME TypeOK, NEW c \in Clients, NEW y, client' = [client EXCEPT ![c] = y]
    PROVE  client'[c] = y /\ \A d \in Clients \ {c} : client'[d] = client[d]
  BY DEF TypeOK

\* The end of the critical section of a call.
LEMMA GoesToEffect ==
    ASSUME TypeOK, NEW c \in Clients, NEW pc, GoesTo(c, pc)
    PROVE  Becomes(c, pc, "idle", {})
<1>1. client' = [client EXCEPT ![c] = [Idle EXCEPT !.pc = pc]]
  BY DEF GoesTo
<1>2. client'[c] = [Idle EXCEPT !.pc = pc] /\ \A d \in Clients \ {c} : client'[d] = client[d]
  BY <1>1, ClientReplaced
<1> QED BY <1>2 DEF Idle, Becomes

\* The steps that join threads, and those of awaitQuiescent_().
LEMMA JoinEffect ==
    ASSUME TypeOK, NEW c \in Clients
    PROVE  /\ Cleanup(c) => Becomes(c, "join", client[c].next, Stopped)
           /\ Join(c) => Becomes(c, "relocked", client[c].next, {})
           /\ Lock(c) => Becomes(c, "check", client[c].next, {}) /\ SameFlags(c)
           /\ AwaitCleanup(c) => Becomes(c, "joinHeld", client[c].next, Stopped) /\ SameFlags(c)
           /\ AwaitSleep(c) => Becomes(c, "sleep", client[c].next, {}) /\ SameFlags(c)
           /\ TimeOut(c) => Becomes(c, "lock", client[c].next, client[c].joining)
<1>t. client \in [Clients -> Client] /\ client[c] \in Client
  BY DEF TypeOK
<1>two. ASSUME NEW pc, NEW joining,
               client' = [client EXCEPT ![c].pc = pc, ![c].joining = joining]
        PROVE  Becomes(c, pc, client[c].next, joining) /\ SameFlags(c)
  <2> DEFINE y == [client[c] EXCEPT !.pc = pc, !.joining = joining]
  <2>1. client' = [client EXCEPT ![c] = y]
    BY <1>t, <1>two DEF Client
  <2>2. /\ y.pc = pc /\ y.next = client[c].next /\ y.joining = joining
        /\ y.timed = client[c].timed /\ y.expired = client[c].expired /\ y.ok = client[c].ok
    BY <1>t DEF Client
  <2> HIDE DEF y
  <2>3. client'[c] = y /\ \A d \in Clients \ {c} : client'[d] = client[d]
    BY <2>1, ClientReplaced
  <2> QED BY <2>2, <2>3 DEF Becomes, SameFlags
<1>1. Cleanup(c) => Becomes(c, "join", client[c].next, Stopped)
  BY <1>two DEF Cleanup
<1>2. Join(c) => Becomes(c, "relocked", client[c].next, {})
  BY <1>two DEF Join
<1>3. Lock(c) => Becomes(c, "check", client[c].next, {}) /\ SameFlags(c)
  BY <1>two DEF Lock
<1>4. AwaitCleanup(c) => Becomes(c, "joinHeld", client[c].next, Stopped) /\ SameFlags(c)
  BY <1>two DEF AwaitCleanup
<1>5. AwaitSleep(c) => Becomes(c, "sleep", client[c].next, {}) /\ SameFlags(c)
  BY <1>two DEF AwaitSleep
<1>6. TimeOut(c) => Becomes(c, "lock", client[c].next, client[c].joining)
  <2> SUFFICES ASSUME TimeOut(c) PROVE Becomes(c, "lock", client[c].next, client[c].joining)
    OBVIOUS
  <2>1. client' = [client EXCEPT ![c].pc = "lock", ![c].expired = TRUE]
    BY DEF TimeOut
  <2> DEFINE y == [client[c] EXCEPT !.pc = "lock", !.expired = TRUE]
  <2>2. client' = [client EXCEPT ![c] = y]
    BY <1>t, <2>1 DEF Client
  <2>3. y.pc = "lock" /\ y.next = client[c].next /\ y.joining = client[c].joining
    BY <1>t DEF Client
  <2> HIDE DEF y
  <2>4. client'[c] = y /\ \A d \in Clients \ {c} : client'[d] = client[d]
    BY <2>2, ClientReplaced
  <2> QED BY <2>3, <2>4 DEF Becomes
<1> QED BY <1>1, <1>2, <1>3, <1>4, <1>5, <1>6

\* awaitQuiescent_() returns.
LEMMA DoneEffect ==
    ASSUME TypeOK, NEW c \in Clients, AwaitDone(c)
    PROVE  /\ Becomes(c, "end", client[c].next, {})
           /\ client'[c].ok = Quiescent
           /\ client'[c].timed = client[c].timed /\ client'[c].expired = client[c].expired
<1>t. client \in [Clients -> Client] /\ client[c] \in Client
  BY DEF TypeOK
<1> DEFINE q == Quiescent
           y == [client[c] EXCEPT !.pc = "end", !.ok = q, !.joining = {}]
<1>1. client' = [client EXCEPT ![c].pc = "end", ![c].ok = q, ![c].joining = {}]
  BY DEF AwaitDone
<1> HIDE DEF q
<1>2. client' = [client EXCEPT ![c] = y]
  BY <1>t, <1>1 DEF Client
<1>3. /\ y.pc = "end" /\ y.next = client[c].next /\ y.joining = {} /\ y.ok = q
      /\ y.timed = client[c].timed /\ y.expired = client[c].expired
  BY <1>t DEF Client
<1> HIDE DEF y
<1>4. client'[c] = y /\ \A d \in Clients \ {c} : client'[d] = client[d]
  BY <1>2, ClientReplaced
<1> QED BY <1>3, <1>4 DEF Becomes, q

\* The steps that go on to a notification.
LEMMA ToNotifyEffect ==
    ASSUME TypeOK, NEW c \in Clients
    PROVE  /\ StopIdleWorkers(c) => Becomes(c, "notify", "idle",
                                        {w \in Ids : workers[w].place \in {"active", "retired"}})
           /\ StopAllWorkers(c) => Becomes(c, "notify", "dead",
                                        {w \in Ids : workers[w].place \in {"active", "retired"}})
           /\ EndWait(c) => Becomes(c, "notify", IF pool.stopping THEN "stopAll" ELSE "idle", Stopped)
           /\ Destroy(c) => Becomes(c, "notify", "wait", client[c].joining)
<1>t. client \in [Clients -> Client] /\ client[c] \in Client
  BY DEF TypeOK
<1> DEFINE all == {w \in Ids : workers[w].place \in {"active", "retired"}}
<1>three. ASSUME NEW next, NEW joining,
                 \/ client' = [client EXCEPT ![c].pc = "notify", ![c].next = next, ![c].joining = joining]
                 \/ client' = [client EXCEPT ![c].pc = "notify", ![c].joining = joining, ![c].next = next]
        PROVE  Becomes(c, "notify", next, joining)
  <2> DEFINE y == [client[c] EXCEPT !.pc = "notify", !.next = next, !.joining = joining]
  <2>1. client' = [client EXCEPT ![c] = y]
    BY <1>t, <1>three DEF Client
  <2>2. y.pc = "notify" /\ y.next = next /\ y.joining = joining
    BY <1>t DEF Client
  <2> HIDE DEF y
  <2>3. client'[c] = y /\ \A d \in Clients \ {c} : client'[d] = client[d]
    BY <2>1, ClientReplaced
  <2> QED BY <2>2, <2>3 DEF Becomes
<1>1. StopIdleWorkers(c) => Becomes(c, "notify", "idle", all)
  <2> SUFFICES ASSUME StopIdleWorkers(c) PROVE Becomes(c, "notify", "idle", all)
    OBVIOUS
  <2>1. client' = [client EXCEPT ![c].pc = "notify", ![c].next = "idle", ![c].joining = all]
    BY DEF StopIdleWorkers
  <2> HIDE DEF all
  <2> QED BY <1>three, <2>1
<1>2. StopAllWorkers(c) => Becomes(c, "notify", "dead", all)
  <2> SUFFICES ASSUME StopAllWorkers(c) PROVE Becomes(c, "notify", "dead", all)
    OBVIOUS
  <2>1. client' = [client EXCEPT ![c].pc = "notify", ![c].next = "dead", ![c].joining = all]
    BY DEF StopAllWorkers
  <2> HIDE DEF all
  <2> QED BY <1>three, <2>1
<1>3. EndWait(c) => Becomes(c, "notify", IF pool.stopping THEN "stopAll" ELSE "idle", Stopped)
  <2> SUFFICES ASSUME EndWait(c)
               PROVE  Becomes(c, "notify", IF pool.stopping THEN "stopAll" ELSE "idle", Stopped)
    OBVIOUS
  <2> DEFINE next == IF pool.stopping THEN "stopAll" ELSE "idle"
  <2>1. client' = [client EXCEPT ![c].pc = "notify", ![c].joining = Stopped, ![c].next = next]
    BY DEF EndWait
  <2> HIDE DEF next
  <2>2. Becomes(c, "notify", next, Stopped)
    BY <1>three, <2>1
  <2> QED BY <2>2 DEF next
<1>4. Destroy(c) => Becomes(c, "notify", "wait", client[c].joining)
  <2> SUFFICES ASSUME Destroy(c) PROVE Becomes(c, "notify", "wait", client[c].joining)
    OBVIOUS
  <2> DEFINE y == [client[c] EXCEPT !.pc = "notify", !.next = "wait"]
  <2>1. client' = [client EXCEPT ![c].pc = "notify", ![c].next = "wait"]
    BY DEF Destroy
  <2>2. client' = [client EXCEPT ![c] = y]
    BY <1>t, <2>1 DEF Client
  <2>3. y.pc = "notify" /\ y.next = "wait" /\ y.joining = client[c].joining
    BY <1>t DEF Client
  <2> HIDE DEF y
  <2>4. client'[c] = y /\ \A d \in Clients \ {c} : client'[d] = client[d]
    BY <2>2, ClientReplaced
  <2> QED BY <2>3, <2>4 DEF Becomes
<1> QED BY <1>1, <1>2, <1>3, <1>4

\* The two beginnings of waitForDone().
LEMMA ToWaitEffect ==
    ASSUME TypeOK, NEW c \in Clients
    PROVE  /\ \A timed \in Deadlines : WaitForDone(c, timed) => Becomes(c, "lock", "idle", {})
           /\ ShutdownWait(c) => /\ Becomes(c, "lock", "idle", Stopped)
                                 /\ ~client'[c].timed /\ ~client'[c].expired
<1>1. ASSUME NEW timed \in Deadlines, WaitForDone(c, timed) PROVE Becomes(c, "lock", "idle", {})
  <2>1. client' = [client EXCEPT ![c] = [Idle EXCEPT !.pc = "lock", !.timed = timed]]
    BY <1>1 DEF WaitForDone
  <2>2. /\ client'[c] = [Idle EXCEPT !.pc = "lock", !.timed = timed]
        /\ \A d \in Clients \ {c} : client'[d] = client[d]
    BY <2>1, ClientReplaced
  <2> QED BY <2>2 DEF Becomes, Idle
<1>2. ASSUME ShutdownWait(c)
      PROVE  Becomes(c, "lock", "idle", Stopped) /\ ~client'[c].timed /\ ~client'[c].expired
  <2>1. client' = [client EXCEPT ![c] = [Idle EXCEPT !.pc = "lock", !.joining = Stopped]]
    BY <1>2 DEF ShutdownWait
  <2>2. /\ client'[c] = [Idle EXCEPT !.pc = "lock", !.joining = Stopped]
        /\ \A d \in Clients \ {c} : client'[d] = client[d]
    BY <2>1, ClientReplaced
  <2> QED BY <2>2 DEF Becomes, Idle
<1> QED BY <1>1, <1>2

\* A sleeper that is woken goes to relock m_waitMutex, everything else is the same.
Wakes(d) ==
    /\ client'[d].pc = IF client[d].pc = "sleep" THEN "lock" ELSE client[d].pc
    /\ client'[d].next = client[d].next /\ client'[d].joining = client[d].joining
    /\ SameFlags(d)

\* notify_all() by c, or by the thread of a worker.
LEMMA NotifyEffect ==
    ASSUME TypeOK
    PROVE  /\ client' = Woken => \A d \in Clients : Wakes(d)
           /\ \A c \in Clients : Notify(c) =>
                 /\ \A d \in Clients \ {c} : Wakes(d)
                 /\ client'[c].pc = client[c].next /\ client'[c].next = "idle"
                 /\ client'[c].joining = {}
<1>t. client \in [Clients -> Client]
  BY DEF TypeOK
<1>1. \A d \in Clients : /\ Woken[d].pc = IF client[d].pc = "sleep" THEN "lock" ELSE client[d].pc
                         /\ Woken[d].next = client[d].next /\ Woken[d].joining = client[d].joining
                         /\ Woken[d].timed = client[d].timed /\ Woken[d].expired = client[d].expired
                         /\ Woken[d].ok = client[d].ok
  BY <1>t DEF Woken, Client
<1>2. Woken \in [Clients -> Client]
  BY WokenFields
<1>3. ASSUME NEW c \in Clients, Notify(c)
      PROVE  /\ \A d \in Clients \ {c} : client'[d] = Woken[d]
             /\ client'[c] = [Idle EXCEPT !.pc = client[c].next]
  BY <1>2, <1>3 DEF Notify
<1>4. client' = Woken => \A d \in Clients : Wakes(d)
  BY <1>1 DEF Wakes, SameFlags
<1>5. ASSUME NEW c \in Clients, Notify(c)
      PROVE  /\ \A d \in Clients \ {c} : Wakes(d)
             /\ client'[c].pc = client[c].next /\ client'[c].next = "idle"
             /\ client'[c].joining = {}
  <2>1. /\ \A d \in Clients \ {c} : client'[d] = Woken[d]
        /\ client'[c] = [Idle EXCEPT !.pc = client[c].next]
    BY <1>3, <1>5
  <2>2. \A d \in Clients \ {c} : Wakes(d)
    BY <1>1, <2>1 DEF Wakes, SameFlags
  <2>3. client'[c].pc = client[c].next /\ client'[c].next = "idle" /\ client'[c].joining = {}
    BY <2>1 DEF Idle
  <2> QED BY <2>2, <2>3
<1> QED BY <1>4, <1>5

\* A worker that is stopped goes from the lists into the hands of the thread that
\* stops it; no thread comes back.
LEMMA ThreadStepEffect ==
    ASSUME TypeOK, WorkersInv, NEW w \in Ids, WorkerStep(w)
    PROVE  /\ \A v \in Ids \ {w} : workers'[v] = workers[v]
           /\ workers'[w].place = workers[w].place \/ workers'[w].place = "retired"
           /\ workers[w].thread # "gone"
           /\ pool'.waiting = pool.waiting /\ pool'.stopping = pool.stopping /\ pool'.dead = pool.dead
           /\ client' = client \/ client' = Woken
           /\ pool.stopping => workers'[w].place = workers[w].place
<1>p. pool \in Pool
  BY DEF TypeOK
<1>1. CASE Drain(w)
  <2>1. workers[w].thread = "ready" /\ client' = client
    BY <1>1 DEF Drain
  <2>2. CASE workers[w].queue = <<>>
    BY <1>1, <2>1, <2>2, EmptyDrainEffect
  <2>3. CASE workers[w].queue # <<>>
    <3>1. pool' = [pool EXCEPT !.running = @ + 1] /\ workers'[w].place = workers[w].place
          /\ \A v \in Ids \ {w} : workers'[v] = workers[v]
      BY <1>1, <2>3, DrainEffect
    <3>2. pool'.waiting = pool.waiting /\ pool'.stopping = pool.stopping /\ pool'.dead = pool.dead
      BY <1>p, <3>1 DEF Pool
    <3> QED BY <2>1, <3>1, <3>2
  <2> QED BY <2>2, <2>3
<1>2. CASE Finish(w)
  <2>1. workers[w].thread = "run" /\ client' = client
    BY <1>2 DEF Finish
  <2>2. pool'.waiting = pool.waiting /\ pool'.stopping = pool.stopping /\ pool'.dead = pool.dead
    BY <1>p, <1>2 DEF Finish, Pool
  <2> QED BY <1>2, <2>1, <2>2, FinishEffect
<1>3. CASE Rearm(w)
  <2>1. workers[w].thread = "rearm" /\ client' = client /\ pool' = pool
    BY <1>3 DEF Rearm
  <2> QED BY <1>3, <2>1, RearmEffect DEF Quiet
<1>4. CASE Expire(w)
  <2>1. workers[w].thread = "ready" /\ client' = client /\ pool' = pool
    BY <1>4 DEF Expire
  <2> QED BY <1>4, <2>1, ExpireEffect DEF Quiet
<1>5. CASE ThreadNotify(w)
  <2>1. workers[w].thread # "gone" /\ client' = Woken /\ pool' = pool
    BY <1>5 DEF ThreadNotify, AfterNotify
  <2> QED BY <1>5, <2>1, ThreadNotifyEffect DEF Quiet
<1>6. CASE Exit(w)
  <2>1. workers[w].thread = "ready" /\ client' = client /\ pool' = pool
    BY <1>6 DEF Exit
  <2> QED BY <1>6, <2>1, ExitEffect DEF Quiet
<1> QED BY <1>1, <1>2, <1>3, <1>4, <1>5, <1>6 DEF WorkerStep

\* Every step keeps what is said of the calls.
LEMMA CallsStep ==
    ASSUME TypeOK, WorkersInv, QueuesInv, OrderInv, RunningInv, RunningExact, CallsInv, ShutdownInv,
           [Next]_vars
    PROVE  CallsInv'
<1>t. workers \in [Ids -> Worker] /\ pool \in Pool
  BY DEF TypeOK
<1>b. /\ pool.waiting \in BOOLEAN /\ pool.stopping \in BOOLEAN
  BY PoolFields
<1>1. \A c \in Clients : client[c].pc \in NotJoining => client[c].joining = {}
  BY DEF CallsInv
<1>2. \A c \in Clients : client[c].pc \in Waiting => pool.waiting
  BY DEF CallsInv
<1>3. \A c \in Clients : client[c].pc = "end" /\ client[c].ok => NoWork
  BY DEF CallsInv
<1>4. \A c, d \in Clients : client[c].pc \in Waiting /\ client[d].pc \in Waiting => c = d
  BY DEF CallsInv
<1>5. \A w \in Ids : workers[w].place = "taken" =>
          workers[w].thread = "gone" \/ \E c \in Clients : w \in client[c].joining
  BY DEF CallsInv
<1>kept. NoWork /\ pool.waiting => NoWork'
  BY NoWorkStays DEF Accepted, Accepts
<1>e. "end" \in Waiting
  BY DEF Waiting
<1>rule. ASSUME NEW c \in Clients, \A d \in Clients \ {c} : client'[d] = client[d],
                client'[c].pc \in NotJoining => client'[c].joining = {},
                client'[c].pc \in Waiting => pool'.waiting,
                client'[c].pc \in Waiting => \/ client[c].pc \in Waiting
                                             \/ \A d \in Clients \ {c} : client[d].pc \notin Waiting,
                \A d \in Clients \ {c} : client[d].pc \in Waiting => pool'.waiting,
                client'[c].pc = "end" /\ client'[c].ok => NoWork',
                \A w \in Ids : workers'[w].place = "taken" =>
                    \/ w \in client'[c].joining
                    \/ /\ workers[w].place = "taken" /\ workers'[w].thread = workers[w].thread
                       /\ w \in client[c].joining => workers[w].thread = "gone"
         PROVE  CallsInv'
  <2>1. \A d \in Clients : client'[d].pc \in NotJoining => client'[d].joining = {}
    BY <1>1, <1>rule
  <2>2. \A d \in Clients : client'[d].pc \in Waiting => pool'.waiting
    BY <1>rule
  <2>3. \A d \in Clients : client'[d].pc = "end" /\ client'[d].ok => NoWork'
    BY <1>2, <1>3, <1>kept, <1>rule, <1>e
  <2>4. \A d, f \in Clients : client'[d].pc \in Waiting /\ client'[f].pc \in Waiting => d = f
    BY <1>4, <1>rule
  <2>5. \A w \in Ids : workers'[w].place = "taken" =>
          workers'[w].thread = "gone" \/ \E d \in Clients : w \in client'[d].joining
    <3> SUFFICES ASSUME NEW w \in Ids, workers'[w].place = "taken"
                 PROVE  workers'[w].thread = "gone" \/ \E d \in Clients : w \in client'[d].joining
      OBVIOUS
    <3>1. CASE w \in client'[c].joining
      BY <3>1
    <3>2. CASE /\ workers[w].place = "taken" /\ workers'[w].thread = workers[w].thread
               /\ w \in client[c].joining => workers[w].thread = "gone"
      <4>1. workers[w].thread = "gone" \/ \E d \in Clients : w \in client[d].joining
        BY <1>5, <3>2
      <4> QED BY <1>rule, <3>2, <4>1
    <3> QED BY <1>rule, <3>1, <3>2
  <2> QED BY <2>1, <2>2, <2>3, <2>4, <2>5 DEF CallsInv
<1>none. ASSUME NEW c \in Clients, NEW pc, pc \notin Waiting, Becomes(c, pc, "idle", {}),
                pool'.waiting = pool.waiting, client[c].joining = {},
                \A w \in Ids : workers'[w].place = "taken" =>
                    workers[w].place = "taken" /\ workers'[w].thread = workers[w].thread
         PROVE  CallsInv'
  BY <1>2, <1>none, <1>rule, <1>e DEF Becomes
<1>incall. \A c \in Clients : InCall(c) => client[c].joining = {}
  BY <1>1 DEF InCall, NotJoining
<1>pcs. "idle" \notin Waiting /\ "notify" \notin Waiting
  BY DEF Waiting
<1>taken. ASSUME workers' = Taken(workers, Stopped)
          PROVE  \A w \in Ids : /\ workers'[w].thread = workers[w].thread
                                /\ workers'[w].place = "taken" => w \in Stopped \/ workers[w].place = "taken"
  BY <1>t, <1>taken, TakenEffect
<1>all. ASSUME NEW all, workers' = Quit(Taken(workers, all), all)
        PROVE  \A w \in Ids : /\ workers'[w].thread = workers[w].thread
                              /\ workers'[w].place = "taken" => w \in all \/ workers[w].place = "taken"
  <2>1. Taken(workers, all) \in [Ids -> Worker]
    BY <1>t, TakenEffect
  <2> QED BY <1>t, <1>all, <2>1, TakenEffect, QuitEffect
<1>same. ASSUME UNCHANGED <<workers, client>>, pool'.waiting = pool.waiting PROVE CallsInv'
  BY <1>1, <1>2, <1>3, <1>4, <1>5, <1>same DEF CallsInv, NoWork
<1>accepted. ASSUME NEW c \in Clients, NEW t \in Tasks, NEW priority \in Int, NEW w \in Ids,
                    NEW left \in Nat, Accepted(c, t, priority, w, left)
             PROVE  CallsInv'
  <2>1. Assigned(t, priority, w) /\ InCall(c)
    BY <1>accepted, AssignEffect DEF Accepted
  <2>2. pool'.waiting = pool.waiting
    BY <1>t, <1>accepted DEF Accepted, Pool
  <2>3. Becomes(c, "notify", "idle", {})
    BY <1>accepted, GoesToEffect DEF Accepted
  <2>4. \A v \in Ids : workers'[v].place = "taken" =>
            workers[v].place = "taken" /\ workers'[v].thread = workers[v].thread
    BY <2>1 DEF Assigned
  <2> QED BY <1>none, <1>incall, <1>pcs, <2>1, <2>2, <2>3, <2>4
<1>submit. ASSUME NEW c \in Clients, NEW t \in Tasks,
                  \/ \E priority \in Priorities : Start(c, t, priority, FALSE)
                  \/ Start(c, t, 0, TRUE)
                  \/ StartOnReservedThread(c, t)
           PROVE  CallsInv'
  <2>1. CASE Refuse(c, t) /\ InCall(c)
    <3>1. Becomes(c, "idle", "idle", {}) /\ UNCHANGED <<workers, pool>>
      BY <2>1, GoesToEffect DEF Refuse
    <3> QED BY <1>none, <1>incall, <1>pcs, <2>1, <3>1
  <2> QED BY <1>submit, <1>accepted, <2>1, SubmitEffect
<1>take. ASSUME NEW c \in Clients, NEW t \in Tasks, TryTake(c, t) PROVE CallsInv'
  <2>1. InCall(c) /\ Becomes(c, "notify", "idle", {}) /\ pool' = pool
    BY <1>take, GoesToEffect DEF TryTake
  <2>2. PICK w \in Ids : \E i \in DOMAIN workers[w].queue :
                /\ \A v \in Ids \ {w} : SameButArmed(workers[v], workers'[v])
                /\ workers'[w].place = workers[w].place
                /\ workers'[w].thread = workers[w].thread
    BY <1>take, TryTakeEffect
  <2>3. \A v \in Ids : workers'[v].place = workers[v].place /\ workers'[v].thread = workers[v].thread
    BY <2>2 DEF SameButArmed
  <2> QED BY <1>none, <1>incall, <1>pcs, <2>1, <2>3
<1>clear. ASSUME NEW c \in Clients, Clear(c) PROVE CallsInv'
  <2>1. InCall(c) /\ Becomes(c, "notify", "idle", {}) /\ pool' = pool
    BY <1>clear, GoesToEffect DEF Clear
  <2>2. \A v \in Ids : workers'[v].place = workers[v].place /\ workers'[v].thread = workers[v].thread
    BY <1>clear, ClearEffect
  <2> QED BY <1>none, <1>incall, <1>pcs, <2>1, <2>2
<1>resize. ASSUME NEW c \in Clients, ReleaseThread(c) \/ \E n \in ThreadCounts : SetMaxThreadCount(c, n)
           PROVE  CallsInv'
  <2>1. PICK rb : Resized(c, rb)
    BY <1>resize, ResizedEffect
  <2>2. InCall(c) /\ Becomes(c, "idle", "idle", {}) /\ pool'.waiting = pool.waiting
    BY <2>1, GoesToEffect DEF Resized
  <2>3. \A w \in Ids : workers'[w].place = "taken" =>
            workers[w].place = "taken" /\ workers'[w].thread = workers[w].thread
    BY <2>1 DEF Resized, RoundOK, SameButArmed
  <2> QED BY <1>none, <1>incall, <1>pcs, <2>2, <2>3
<1>expiry. ASSUME NEW c \in Clients, SetExpiryTimeout(c) PROVE CallsInv'
  <2>1. InCall(c) /\ Becomes(c, "idle", "idle", {})
    BY <1>expiry, GoesToEffect DEF SetExpiryTimeout
  <2>2. pool'.waiting = pool.waiting
    BY <1>t, <1>expiry DEF SetExpiryTimeout, Pool
  <2>3. \A v \in Ids : workers'[v].place = workers[v].place /\ workers'[v].thread = workers[v].thread
    BY <1>expiry, NoExpiryEffect DEF SameButArmed
  <2> QED BY <1>none, <1>incall, <1>pcs, <2>1, <2>2, <2>3
<1>settings. ASSUME NEW c \in Clients,
                    ReserveThread(c) \/ \E n \in QueueLimits : SetMaxQueuedTaskCount(c, n)
             PROVE  CallsInv'
  <2>1. UNCHANGED <<workers, client>> /\ pool'.waiting = pool.waiting
    BY <1>t, <1>settings DEF ReserveThread, SetMaxQueuedTaskCount, Pool
  <2> QED BY <1>same, <2>1
<1>cleanup. ASSUME NEW c \in Clients, Cleanup(c) PROVE CallsInv'
  <2>1. /\ client[c].pc = "idle" /\ workers' = Taken(workers, Stopped) /\ pool' = pool
        /\ Becomes(c, "join", client[c].next, Stopped)
    BY <1>cleanup, JoinEffect DEF Cleanup
  <2>2. client[c].joining = {}
    BY <1>1, <2>1 DEF NotJoining
  <2>3. \A w \in Ids : workers'[w].place = "taken" =>
            w \in client'[c].joining \/ (workers[w].place = "taken" /\ workers'[w].thread = workers[w].thread)
    BY <1>taken, <2>1 DEF Becomes
  <2> QED BY <1>2, <1>rule, <2>1, <2>2, <2>3 DEF Becomes, NotJoining, Waiting
<1>join. ASSUME NEW c \in Clients, Join(c) PROVE CallsInv'
  <2>1. /\ Joined(c) /\ UNCHANGED <<workers, pool>>
        /\ Becomes(c, "relocked", client[c].next, {})
    BY <1>join, JoinEffect DEF Join
  <2> QED BY <1>2, <1>rule, <2>1 DEF Becomes, NotJoining, Waiting, Joined
<1>stopIdle. ASSUME NEW c \in Clients, StopIdleWorkers(c) PROVE CallsInv'
  <2> DEFINE all == {w \in Ids : workers[w].place \in {"active", "retired"}}
  <2>1. /\ client[c].pc = "idle" /\ workers' = Quit(Taken(workers, all), all)
        /\ Becomes(c, "notify", "idle", all)
    BY <1>stopIdle, ToNotifyEffect DEF StopIdleWorkers
  <2>2. pool'.waiting = pool.waiting
    BY <1>t, <1>stopIdle DEF StopIdleWorkers, Pool
  <2> HIDE DEF all
  <2>3. client[c].joining = {}
    BY <1>1, <2>1 DEF NotJoining
  <2>4. \A w \in Ids : workers'[w].place = "taken" =>
            w \in client'[c].joining \/ (workers[w].place = "taken" /\ workers'[w].thread = workers[w].thread)
    BY <1>all, <2>1 DEF Becomes
  <2> QED BY <1>2, <1>rule, <2>1, <2>2, <2>3, <2>4 DEF Becomes, NotJoining, Waiting
<1>notify. ASSUME NEW c \in Clients, Notify(c) PROVE CallsInv'
  <2>1. /\ \A d \in Clients \ {c} : Wakes(d)
        /\ client'[c].pc = client[c].next /\ client'[c].joining = {}
    BY <1>notify, NotifyEffect
  <2>2. client[c].next \notin Waiting
    BY ClientFields DEF TypeOK, Waiting
  <2>3. workers' = workers /\ pool'.waiting = pool.waiting /\ Joined(c)
    BY <1>t, <1>notify DEF Notify, Pool
  <2>4. \A d \in Clients : client'[d].pc \in NotJoining => client'[d].joining = {}
    BY <1>1, <2>1 DEF Wakes, NotJoining
  <2>5. \A d \in Clients : client'[d].pc \in Waiting => d # c /\ client[d].pc \in Waiting
    BY <2>1, <2>2 DEF Wakes, Waiting
  <2>6. \A d \in Clients : client'[d].pc = "end" /\ client'[d].ok => NoWork'
    BY <1>2, <1>3, <1>e, <1>kept, <2>1, <2>2 DEF Wakes, SameFlags
  <2>7. \A w \in Ids : workers'[w].place = "taken" =>
          workers'[w].thread = "gone" \/ \E d \in Clients : w \in client'[d].joining
    BY <1>5, <2>1, <2>3 DEF Wakes, Joined
  <2>8. /\ \A d \in Clients : client'[d].pc \in Waiting => pool'.waiting
        /\ \A d, f \in Clients : client'[d].pc \in Waiting /\ client'[f].pc \in Waiting => d = f
    BY <1>2, <1>4, <2>3, <2>5
  <2> QED BY <2>4, <2>6, <2>7, <2>8 DEF CallsInv
<1>wait. ASSUME NEW c \in Clients, NEW timed \in Deadlines, WaitForDone(c, timed) PROVE CallsInv'
  <2>1. Becomes(c, "lock", "idle", {}) /\ InCall(c) /\ ~pool.waiting /\ workers' = workers
    BY <1>wait, ToWaitEffect DEF WaitForDone
  <2>2. pool'.waiting
    BY <1>t, <1>wait DEF WaitForDone, Pool
  <2>3. client[c].joining = {}
    BY <1>incall, <2>1
  <2> QED BY <1>2, <1>rule, <2>1, <2>2, <2>3 DEF Becomes, NotJoining
<1>destroy. ASSUME NEW c \in Clients, Destroy(c) PROVE CallsInv'
  <2>1. Becomes(c, "notify", "wait", client[c].joining) /\ workers' = workers /\ client[c].pc = "idle"
    BY <1>destroy, ToNotifyEffect DEF Destroy
  <2>2. pool'.waiting = pool.waiting
    BY <1>t, <1>destroy DEF Destroy, Pool
  <2>3. client[c].joining = {}
    BY <1>1, <2>1 DEF NotJoining
  <2> QED BY <1>2, <1>rule, <2>1, <2>2, <2>3 DEF Becomes, NotJoining, Waiting
<1>lock. ASSUME NEW c \in Clients, Lock(c) PROVE CallsInv'
  <2>1. /\ Becomes(c, "check", client[c].next, {}) /\ UNCHANGED <<workers, pool>> /\ Joined(c)
        /\ client[c].pc = "lock"
    BY <1>lock, JoinEffect DEF Lock
  <2> QED BY <1>2, <1>rule, <2>1 DEF Becomes, NotJoining, Waiting, Joined
<1>awaitCleanup. ASSUME NEW c \in Clients, AwaitCleanup(c) PROVE CallsInv'
  <2>1. /\ Becomes(c, "joinHeld", client[c].next, Stopped) /\ workers' = Taken(workers, Stopped)
        /\ pool' = pool /\ client[c].pc = "check"
    BY <1>awaitCleanup, JoinEffect DEF AwaitCleanup
  <2>2. client[c].joining = {}
    BY <1>1, <2>1 DEF NotJoining
  <2>3. \A w \in Ids : workers'[w].place = "taken" =>
            w \in client'[c].joining \/ (workers[w].place = "taken" /\ workers'[w].thread = workers[w].thread)
    BY <1>taken, <2>1 DEF Becomes
  <2> QED BY <1>2, <1>rule, <2>1, <2>2, <2>3 DEF Becomes, NotJoining, Waiting
<1>checking. ASSUME NEW c \in Clients, Checking(c)
             PROVE  client[c].pc \in Waiting /\ \A w \in client[c].joining : workers[w].thread = "gone"
  BY <1>1, <1>checking DEF Checking, Joined, Waiting, NotJoining
<1>done. ASSUME NEW c \in Clients, AwaitDone(c) PROVE CallsInv'
  <2>1. /\ Becomes(c, "end", client[c].next, {}) /\ client'[c].ok = Quiescent
        /\ UNCHANGED <<workers, pool>> /\ Checking(c)
    BY <1>done, DoneEffect DEF AwaitDone
  <2>2. client'[c].ok => NoWork'
    BY <2>1, QuiescentNoWork DEF NoWork
  <2> QED BY <1>2, <1>rule, <1>checking, <2>1, <2>2 DEF Becomes, NotJoining, Waiting
<1>sleep. ASSUME NEW c \in Clients, AwaitSleep(c) PROVE CallsInv'
  <2>1. Becomes(c, "sleep", client[c].next, {}) /\ UNCHANGED <<workers, pool>> /\ Checking(c)
    BY <1>sleep, JoinEffect DEF AwaitSleep
  <2> QED BY <1>2, <1>rule, <1>checking, <2>1 DEF Becomes, NotJoining, Waiting
<1>timeOut. ASSUME NEW c \in Clients, TimeOut(c) PROVE CallsInv'
  <2>1. /\ Becomes(c, "lock", client[c].next, client[c].joining) /\ UNCHANGED <<workers, pool>>
        /\ client[c].pc = "sleep"
    BY <1>timeOut, JoinEffect DEF TimeOut
  <2>2. client[c].joining = {}
    BY <1>1, <2>1 DEF NotJoining
  <2> QED BY <1>2, <1>rule, <2>1, <2>2 DEF Becomes, NotJoining, Waiting
<1>end. ASSUME NEW c \in Clients, EndWait(c) PROVE CallsInv'
  <2>1. PICK next : Becomes(c, "notify", next, Stopped)
    BY <1>end, ToNotifyEffect
  <2>2. workers' = Taken(workers, Stopped) /\ client[c].pc = "end"
    BY <1>end DEF EndWait
  <2>3. client[c].joining = {}
    BY <1>1, <2>2 DEF NotJoining
  <2>4. \A d \in Clients \ {c} : client[d].pc \notin Waiting
    BY <1>4, <1>e, <2>2
  <2>5. \A w \in Ids : workers'[w].place = "taken" =>
            w \in client'[c].joining \/ (workers[w].place = "taken" /\ workers'[w].thread = workers[w].thread)
    BY <1>taken, <2>1, <2>2 DEF Becomes
  <2> QED BY <1>rule, <2>1, <2>3, <2>4, <2>5 DEF Becomes, NotJoining, Waiting
<1>shutdown. ASSUME NEW c \in Clients, ShutdownWait(c) PROVE CallsInv'
  <2>1. Becomes(c, "lock", "idle", Stopped)
    BY <1>shutdown, ToWaitEffect
  <2>2. workers' = Taken(workers, Stopped) /\ client[c].pc = "wait"
    BY <1>shutdown DEF ShutdownWait
  <2>3. pool'.waiting
    BY <1>t, <1>shutdown DEF ShutdownWait, Pool
  <2>4. client[c].joining = {}
    BY <1>1, <2>2 DEF NotJoining
  <2>5. \A d \in Clients \ {c} : client[d].pc = "idle"
    <3>1. PICK d \in Clients : Destroying(d)
      BY <2>2 DEF ShutdownInv
    <3>2. d = c
      BY <2>2, <3>1 DEF Destroying
    <3> QED BY <3>1, <3>2 DEF Destroying
  <2>6. \A w \in Ids : workers'[w].place = "taken" =>
            w \in client'[c].joining \/ (workers[w].place = "taken" /\ workers'[w].thread = workers[w].thread)
    BY <1>taken, <2>1, <2>2 DEF Becomes
  <2> QED BY <1>rule, <2>1, <2>3, <2>4, <2>5, <2>6 DEF Becomes, NotJoining, Waiting
<1>stopAll. ASSUME NEW c \in Clients, StopAllWorkers(c) PROVE CallsInv'
  <2> DEFINE all == {w \in Ids : workers[w].place \in {"active", "retired"}}
  <2>1. /\ client[c].pc = "stopAll" /\ workers' = Quit(Taken(workers, all), all)
        /\ Becomes(c, "notify", "dead", all) /\ pool' = pool
    BY <1>stopAll, ToNotifyEffect DEF StopAllWorkers
  <2> HIDE DEF all
  <2>2. client[c].joining = {}
    BY <1>1, <2>1 DEF NotJoining
  <2>3. \A w \in Ids : workers'[w].place = "taken" =>
            w \in client'[c].joining \/ (workers[w].place = "taken" /\ workers'[w].thread = workers[w].thread)
    BY <1>all, <2>1 DEF Becomes
  <2> QED BY <1>2, <1>rule, <2>1, <2>2, <2>3 DEF Becomes, NotJoining, Waiting
<1>worker. ASSUME NEW w \in Ids, WorkerStep(w) PROVE CallsInv'
  <2>1. /\ \A v \in Ids \ {w} : workers'[v] = workers[v]
        /\ workers'[w].place = workers[w].place \/ workers'[w].place = "retired"
        /\ workers[w].thread # "gone"
        /\ pool'.waiting = pool.waiting
        /\ client' = client \/ client' = Woken
    BY <1>worker, ThreadStepEffect
  <2>2. \A d \in Clients : Wakes(d) \/ client'[d] = client[d]
    BY <2>1, NotifyEffect
  <2>3. \A d \in Clients : /\ client'[d].pc \in NotJoining => client[d].pc \in NotJoining
                           /\ client'[d].pc \in Waiting => client[d].pc \in Waiting
                           /\ client'[d].pc = "end" => client[d].pc = "end"
                           /\ client'[d].joining = client[d].joining /\ client'[d].ok = client[d].ok
    BY <2>2 DEF Wakes, SameFlags, NotJoining, Waiting
  <2>4. \A d \in Clients : client'[d].pc = "end" /\ client'[d].ok => NoWork'
    BY <1>2, <1>3, <1>e, <1>kept, <2>3
  <2>5. \A v \in Ids : workers'[v].place = "taken" =>
          workers'[v].thread = "gone" \/ \E d \in Clients : v \in client'[d].joining
    BY <1>5, <2>1, <2>3
  <2> QED BY <1>1, <1>2, <1>4, <2>1, <2>3, <2>4, <2>5 DEF CallsInv
<1>stutter. CASE UNCHANGED vars
  BY <1>same, <1>stutter DEF vars
<1> QED BY <1>submit, <1>take, <1>clear, <1>resize, <1>expiry, <1>settings, <1>cleanup, <1>join, <1>stopIdle,
          <1>notify, <1>wait, <1>destroy, <1>lock, <1>awaitCleanup, <1>done, <1>sleep, <1>timeOut, <1>end,
          <1>shutdown, <1>stopAll, <1>worker, <1>stutter
    DEF Next, Call, ClientStep

\* Every step keeps what is said of the destructor.
LEMMA ShutdownStep ==
    ASSUME TypeOK, WorkersInv, QueuesInv, OrderInv, RunningInv, RunningExact, CallsInv, ShutdownInv,
           [Next]_vars
    PROVE  ShutdownInv'
<1>t. workers \in [Ids -> Worker] /\ pool \in Pool
  BY DEF TypeOK
<1>b. pool.stopping \in BOOLEAN /\ pool.dead \in BOOLEAN
  BY PoolFields
<1>open. ASSUME ~pool.stopping PROVE ShutdownInv'
  <2>1. /\ ~pool.dead
        /\ \A c \in Clients : client[c].next = "idle" /\ client[c].pc \notin {"wait", "stopAll", "dead"}
    BY <1>open DEF ShutdownInv
  <2>rule. ASSUME pool'.stopping = pool.stopping, ~pool'.dead,
                  \A d \in Clients : /\ client'[d].next = "idle"
                                     /\ client'[d].pc \notin {"wait", "stopAll", "dead"}
           PROVE  ShutdownInv'
    BY <1>open, <2>rule DEF ShutdownInv
  <2>one. ASSUME NEW c \in Clients, NEW pc \in Places \ {"wait", "stopAll", "dead"}, NEW joining,
                 Becomes(c, pc, "idle", joining), pool'.stopping = pool.stopping, pool'.dead = pool.dead
          PROVE  ShutdownInv'
    BY <2>1, <2>one, <2>rule DEF Becomes
  <2>pcs. {"join", "relocked", "idle", "notify", "lock", "check", "joinHeld", "sleep", "end"}
             \subseteq Places \ {"wait", "stopAll", "dead"}
    BY DEF Places
  <2>destroy. ASSUME NEW c \in Clients, Destroy(c) PROVE ShutdownInv'
    <3>1. Becomes(c, "notify", "wait", client[c].joining) /\ \A d \in Clients : client[d].pc = "idle"
      BY <2>destroy, ToNotifyEffect DEF Destroy
    <3>2. pool'.stopping /\ ~pool'.dead
      BY <1>t, <2>1, <2>destroy DEF Destroy, Pool
    <3>3. Destroying(c)'
      BY <3>1, <3>2 DEF Destroying, Becomes, Waiting, Past
    <3> QED BY <3>2, <3>3 DEF ShutdownInv
  <2>submit. ASSUME NEW c \in Clients, NEW t \in Tasks,
                    \/ \E priority \in Priorities : Start(c, t, priority, FALSE)
                    \/ Start(c, t, 0, TRUE)
                    \/ StartOnReservedThread(c, t)
             PROVE  ShutdownInv'
    <3>1. CASE Refuse(c, t)
      <4>1. Becomes(c, "idle", "idle", {}) /\ pool' = pool
        BY <3>1, GoesToEffect DEF Refuse
      <4> QED BY <2>one, <2>pcs, <4>1
    <3>2. ASSUME NEW priority \in Int, NEW w \in Ids, NEW left \in Nat, Accepted(c, t, priority, w, left)
          PROVE  ShutdownInv'
      <4>1. Becomes(c, "notify", "idle", {})
        BY <3>2, GoesToEffect DEF Accepted
      <4>2. pool'.stopping = pool.stopping /\ pool'.dead = pool.dead
        BY <1>t, <3>2 DEF Accepted, Pool
      <4> QED BY <2>one, <2>pcs, <4>1, <4>2
    <3> QED BY <2>submit, <3>1, <3>2, SubmitEffect
  <2>take. ASSUME NEW c \in Clients, Clear(c) \/ \E t \in Tasks : TryTake(c, t) PROVE ShutdownInv'
    <3>1. Becomes(c, "notify", "idle", {}) /\ pool' = pool
      BY <2>take, GoesToEffect DEF Clear, TryTake
    <3> QED BY <2>one, <2>pcs, <3>1
  <2>resize. ASSUME NEW c \in Clients, ReleaseThread(c) \/ \E n \in ThreadCounts : SetMaxThreadCount(c, n)
             PROVE  ShutdownInv'
    <3>1. PICK rb : Resized(c, rb)
      BY <2>resize, ResizedEffect
    <3>2. /\ Becomes(c, "idle", "idle", {})
          /\ pool'.stopping = pool.stopping /\ pool'.dead = pool.dead
      BY <3>1, GoesToEffect DEF Resized
    <3> QED BY <2>one, <2>pcs, <3>2
  <2>expiry. ASSUME NEW c \in Clients, SetExpiryTimeout(c) PROVE ShutdownInv'
    <3>1. Becomes(c, "idle", "idle", {})
      BY <2>expiry, GoesToEffect DEF SetExpiryTimeout
    <3>2. pool'.stopping = pool.stopping /\ pool'.dead = pool.dead
      BY <1>t, <2>expiry DEF SetExpiryTimeout, Pool
    <3> QED BY <2>one, <2>pcs, <3>1, <3>2
  <2>settings. ASSUME NEW c \in Clients,
                      ReserveThread(c) \/ \E n \in QueueLimits : SetMaxQueuedTaskCount(c, n)
               PROVE  ShutdownInv'
    <3>1. client' = client /\ pool'.stopping = pool.stopping /\ pool'.dead = pool.dead
      BY <1>t, <2>settings DEF ReserveThread, SetMaxQueuedTaskCount, Pool
    <3> QED BY <2>1, <2>rule, <3>1
  <2>stopIdle. ASSUME NEW c \in Clients, StopIdleWorkers(c) PROVE ShutdownInv'
    <3>1. PICK all : Becomes(c, "notify", "idle", all)
      BY <2>stopIdle, ToNotifyEffect
    <3>2. pool'.stopping = pool.stopping /\ pool'.dead = pool.dead
      BY <1>t, <2>stopIdle DEF StopIdleWorkers, Pool
    <3> QED BY <2>one, <2>pcs, <3>1, <3>2
  <2>notify. ASSUME NEW c \in Clients, Notify(c) PROVE ShutdownInv'
    <3>1. /\ \A d \in Clients \ {c} : Wakes(d)
          /\ client'[c].pc = client[c].next /\ client'[c].next = "idle"
      BY <2>notify, NotifyEffect
    <3>2. client[c].next = "idle"
      BY <2>1
    <3>3. pool'.stopping = pool.stopping /\ pool'.dead = (client[c].next = "dead")
      BY <1>t, <2>notify DEF Notify, Pool
    <3> QED BY <2>1, <2>rule, <3>1, <3>2, <3>3 DEF Wakes
  <2>wait. ASSUME NEW c \in Clients, NEW timed \in Deadlines, WaitForDone(c, timed) PROVE ShutdownInv'
    <3>1. Becomes(c, "lock", "idle", {})
      BY <2>wait, ToWaitEffect
    <3>2. pool'.stopping = pool.stopping /\ pool'.dead = pool.dead
      BY <1>t, <2>wait DEF WaitForDone, Pool
    <3> QED BY <2>one, <2>pcs, <3>1, <3>2
  <2>await. ASSUME NEW c \in Clients, \/ Cleanup(c) \/ Join(c) \/ Lock(c) \/ AwaitCleanup(c)
                                      \/ AwaitSleep(c) \/ TimeOut(c) \/ AwaitDone(c)
            PROVE  ShutdownInv'
    <3>1. client[c].next = "idle"
      BY <2>1
    <3>2. pool' = pool
      BY <2>await DEF Cleanup, Join, Lock, AwaitCleanup, AwaitSleep, TimeOut, AwaitDone
    <3>3. \E joining : \E pc \in {"join", "relocked", "check", "joinHeld", "sleep", "lock", "end"} :
              Becomes(c, pc, client[c].next, joining)
      BY <2>await, JoinEffect, DoneEffect
    <3> QED BY <2>one, <2>pcs, <3>1, <3>2, <3>3
  <2>end. ASSUME NEW c \in Clients, EndWait(c) PROVE ShutdownInv'
    <3>1. Becomes(c, "notify", "idle", Stopped)
      BY <1>open, <2>end, ToNotifyEffect
    <3>2. pool'.stopping = pool.stopping /\ pool'.dead = pool.dead
      BY <1>t, <2>end DEF EndWait, Pool
    <3> QED BY <2>one, <2>pcs, <3>1, <3>2
  <2>shutdown. ASSUME NEW c \in Clients, ShutdownWait(c) \/ StopAllWorkers(c) PROVE FALSE
    BY <2>1, <2>shutdown DEF ShutdownWait, StopAllWorkers
  <2>worker. ASSUME NEW w \in Ids, WorkerStep(w) PROVE ShutdownInv'
    <3>1. /\ pool'.stopping = pool.stopping /\ pool'.dead = pool.dead
          /\ client' = client \/ client' = Woken
      BY <2>worker, ThreadStepEffect
    <3>2. \A d \in Clients : Wakes(d) \/ client'[d] = client[d]
      BY <3>1, NotifyEffect
    <3> QED BY <2>1, <2>rule, <3>1, <3>2 DEF Wakes
  <2>stutter. CASE UNCHANGED vars
    BY <2>1, <2>rule, <2>stutter DEF vars
  <2> QED BY <2>destroy, <2>submit, <2>take, <2>resize, <2>expiry, <2>settings, <2>stopIdle, <2>notify,
            <2>wait, <2>await, <2>end, <2>shutdown, <2>worker, <2>stutter
      DEF Next, Call, ClientStep
<1>closing. ASSUME pool.stopping PROVE ShutdownInv'
  <2>1. PICK c \in Clients : Destroying(c)
    BY <1>closing DEF ShutdownInv
  <2>2. /\ \A d \in Clients \ {c} : client[d].pc = "idle"
        /\ client[c].pc \in Waiting \cup {"notify", "wait", "stopAll", "dead"}
        /\ client[c].pc = "notify" => client[c].next # "idle"
        /\ client[c].pc \in Waiting => ~client[c].timed /\ ~client[c].expired
        /\ client[c].pc = "end" => client[c].ok
        /\ (Past(c, "stopAll") \/ Past(c, "dead")) => NoWork
        /\ Past(c, "dead") => \A w \in Ids : workers[w].place \in {"none", "taken"}
        /\ pool.dead <=> client[c].pc = "dead"
    BY <2>1 DEF Destroying
  <2>calls. \A d \in Clients : ~Call(d)
    BY <1>closing DEF Call, Cleanup, Start, StartOnReservedThread, TryTake, Clear, SetMaxThreadCount,
         SetMaxQueuedTaskCount, SetExpiryTimeout, ReserveThread, ReleaseThread, StopIdleWorkers,
         WaitForDone, Destroy, InCall
  <2>actor. \A d \in Clients : ClientStep(d) => d = c
    BY <2>2 DEF ClientStep, Join, Notify, Lock, AwaitCleanup, AwaitDone, AwaitSleep, TimeOut, EndWait,
         ShutdownWait, StopAllWorkers, Checking
  <2>nowork. NoWork => NoWork'
    BY <1>closing, NoWorkStays DEF Accepted, Accepts
  <2>rule. ASSUME pool'.stopping = pool.stopping, Destroying(c)' PROVE ShutdownInv'
    BY <1>closing, <2>rule DEF ShutdownInv
  <2>one. ASSUME NEW pc \in Waiting \cup {"notify", "wait", "stopAll", "dead"}, NEW next, NEW joining,
                 Becomes(c, pc, next, joining), pool'.stopping = pool.stopping,
                 pc = "notify" => next # "idle",
                 pc \in Waiting => ~client'[c].timed /\ ~client'[c].expired,
                 pc = "end" => client'[c].ok,
                 (pc \in {"stopAll", "dead"} \/ (pc = "notify" /\ next \in {"stopAll", "dead"})) => NoWork,
                 (pc = "dead" \/ (pc = "notify" /\ next = "dead")) =>
                     \A w \in Ids : workers'[w].place \in {"none", "taken"},
                 pool'.dead <=> pc = "dead"
          PROVE  ShutdownInv'
    <3>1. client'[c].pc = pc /\ client'[c].next = next /\ \A d \in Clients \ {c} : client'[d] = client[d]
      BY <2>one DEF Becomes
    <3>2. /\ Past(c, "stopAll")' <=> (pc = "stopAll" \/ (pc = "notify" /\ next = "stopAll"))
          /\ Past(c, "dead")' <=> (pc = "dead" \/ (pc = "notify" /\ next = "dead"))
      BY <3>1 DEF Past
    <3>3. /\ \A d \in Clients \ {c} : client'[d].pc = "idle"
          /\ client'[c].pc \in Waiting \cup {"notify", "wait", "stopAll", "dead"}
          /\ client'[c].pc = "notify" => client'[c].next # "idle"
          /\ client'[c].pc \in Waiting => ~client'[c].timed /\ ~client'[c].expired
          /\ client'[c].pc = "end" => client'[c].ok
          /\ pool'.dead <=> client'[c].pc = "dead"
      BY <2>2, <2>one, <3>1
    <3>4. (Past(c, "stopAll")' \/ Past(c, "dead")') => NoWork'
      BY <2>nowork, <2>one, <3>2
    <3>5. Past(c, "dead")' => \A w \in Ids : workers'[w].place \in {"none", "taken"}
      BY <2>one, <3>2
    <3> HIDE DEF Past, NoWork
    <3>6. Destroying(c)'
      BY <3>3, <3>4, <3>5 DEF Destroying
    <3> QED BY <2>one, <2>rule, <3>6
  <2>dead. client[c].pc # "dead" => ~pool.dead
    BY <2>2
  <2>notify. ASSUME Notify(c) PROVE ShutdownInv'
    <3>1. /\ \A d \in Clients \ {c} : Wakes(d)
          /\ client'[c].pc = client[c].next /\ client'[c].next = "idle" /\ client'[c].joining = {}
      BY <2>notify, NotifyEffect
    <3>2. client[c].pc = "notify" /\ workers' = workers
      BY <2>notify DEF Notify
    <3>3. client[c].next \in {"wait", "stopAll", "dead"}
      BY <2>2, <3>2, ClientFields DEF TypeOK
    <3>4. pool'.stopping = pool.stopping /\ pool'.dead = (client[c].next = "dead")
      BY <1>t, <2>notify DEF Notify, Pool
    <3>5. \A d \in Clients \ {c} : client'[d].pc = "idle"
      BY <2>2, <3>1 DEF Wakes
    <3>6. /\ client[c].next \in {"stopAll", "dead"} => NoWork
          /\ client[c].next = "dead" => \A w \in Ids : workers[w].place \in {"none", "taken"}
      BY <2>2, <3>2 DEF Past
    <3>7. (Past(c, "stopAll")' \/ Past(c, "dead")') => NoWork'
      BY <2>nowork, <3>1, <3>3, <3>6 DEF Past
    <3>8. Past(c, "dead")' => \A w \in Ids : workers'[w].place \in {"none", "taken"}
      BY <3>1, <3>2, <3>3, <3>6 DEF Past
    <3>9. Destroying(c)'
      BY <3>1, <3>3, <3>4, <3>5, <3>7, <3>8 DEF Destroying, Waiting
    <3> QED BY <2>rule, <3>4, <3>9
  <2>join. ASSUME Join(c) PROVE FALSE
    BY <2>2, <2>join DEF Join, Waiting
  <2>lock. ASSUME Lock(c) PROVE ShutdownInv'
    <3>1. /\ Becomes(c, "check", client[c].next, {}) /\ SameFlags(c) /\ pool' = pool /\ client[c].pc = "lock"
      BY <2>lock, JoinEffect DEF Lock
    <3> QED BY <2>2, <2>one, <3>1 DEF Waiting, SameFlags
  <2>awaitCleanup. ASSUME AwaitCleanup(c) PROVE ShutdownInv'
    <3>1. /\ Becomes(c, "joinHeld", client[c].next, Stopped) /\ SameFlags(c) /\ pool' = pool
          /\ client[c].pc = "check"
      BY <2>awaitCleanup, JoinEffect DEF AwaitCleanup
    <3> QED BY <2>2, <2>one, <3>1 DEF Waiting, SameFlags
  <2>sleep. ASSUME AwaitSleep(c) PROVE ShutdownInv'
    <3>1. /\ Becomes(c, "sleep", client[c].next, {}) /\ SameFlags(c) /\ pool' = pool
          /\ client[c].pc \in {"check", "joinHeld"}
      BY <2>sleep, JoinEffect DEF AwaitSleep, Checking
    <3> QED BY <2>2, <2>one, <3>1 DEF Waiting, SameFlags
  <2>timeOut. ASSUME TimeOut(c) PROVE FALSE
    BY <2>2, <2>timeOut DEF TimeOut, Waiting
  <2>done. ASSUME AwaitDone(c) PROVE ShutdownInv'
    <3>1. /\ Becomes(c, "end", client[c].next, {}) /\ client'[c].ok = Quiescent
          /\ client'[c].timed = client[c].timed /\ client'[c].expired = client[c].expired
          /\ pool' = pool /\ client[c].pc \in {"check", "joinHeld"}
          /\ Quiescent \/ client[c].expired
      BY <2>done, DoneEffect DEF AwaitDone, Checking
    <3> QED BY <2>2, <2>one, <3>1 DEF Waiting
  <2>end. ASSUME EndWait(c) PROVE ShutdownInv'
    <3>1. Becomes(c, "notify", "stopAll", Stopped)
      BY <1>closing, <2>end, ToNotifyEffect
    <3>2. client[c].pc = "end" /\ NoWork
      BY <2>2, <2>end DEF EndWait, CallsInv
    <3>3. pool'.stopping = pool.stopping /\ pool'.dead = pool.dead
      BY <1>t, <2>end DEF EndWait, Pool
    <3> QED BY <2>2, <2>one, <3>1, <3>2, <3>3 DEF Waiting
  <2>shutdown. ASSUME ShutdownWait(c) PROVE ShutdownInv'
    <3>1. /\ Becomes(c, "lock", "idle", Stopped) /\ ~client'[c].timed /\ ~client'[c].expired
          /\ client[c].pc = "wait"
      BY <2>shutdown, ToWaitEffect DEF ShutdownWait
    <3>2. pool'.stopping = pool.stopping /\ pool'.dead = pool.dead
      BY <1>t, <2>shutdown DEF ShutdownWait, Pool
    <3> QED BY <2>2, <2>one, <3>1, <3>2 DEF Waiting
  <2>stopAll. ASSUME StopAllWorkers(c) PROVE ShutdownInv'
    <3> DEFINE all == {w \in Ids : workers[w].place \in {"active", "retired"}}
    <3>1. /\ Becomes(c, "notify", "dead", all) /\ client[c].pc = "stopAll" /\ pool' = pool
          /\ workers' = Quit(Taken(workers, all), all)
      BY <2>stopAll, ToNotifyEffect DEF StopAllWorkers
    <3>2. NoWork
      BY <2>2, <3>1 DEF Past
    <3>3. \A w \in Ids : workers'[w].place \in {"none", "taken"}
      <4> SUFFICES ASSUME NEW w \in Ids PROVE workers'[w].place \in {"none", "taken"}
        OBVIOUS
      <4>1. workers[w].place \in {"none", "active", "retired", "taken"}
        BY <1>t, WorkerFields
      <4>2. w \in all <=> workers[w].place \in {"active", "retired"}
        OBVIOUS
      <4> HIDE DEF all
      <4>3. Taken(workers, all) \in [Ids -> Worker]
        BY <1>t, TakenEffect
      <4>4. Taken(workers, all)[w].place = IF w \in all THEN "taken" ELSE workers[w].place
        BY <1>t, TakenEffect
      <4>5. workers'[w].place = Taken(workers, all)[w].place
        BY <3>1, <4>3, QuitEffect
      <4> QED BY <4>1, <4>2, <4>4, <4>5
    <3> HIDE DEF all
    <3> QED BY <2>2, <2>one, <3>1, <3>2, <3>3 DEF Waiting
  <2>worker. ASSUME NEW w \in Ids, WorkerStep(w) PROVE ShutdownInv'
    <3>1. /\ \A v \in Ids \ {w} : workers'[v] = workers[v]
          /\ pool'.stopping = pool.stopping /\ pool'.dead = pool.dead
          /\ client' = client \/ client' = Woken
          /\ workers'[w].place = workers[w].place
      BY <1>closing, <2>worker, ThreadStepEffect
    <3>2. \A d \in Clients : Wakes(d) \/ client'[d] = client[d]
      BY <3>1, NotifyEffect
    <3>3. \A d \in Clients :
             /\ client'[d].pc = client[d].pc \/ (client[d].pc = "sleep" /\ client'[d].pc = "lock")
             /\ client'[d].next = client[d].next /\ SameFlags(d)
      BY <3>2 DEF Wakes, SameFlags
    <3>4. Past(c, "stopAll")' => Past(c, "stopAll")
      BY <3>3 DEF Past
    <3>5. Past(c, "dead")' => Past(c, "dead")
      BY <3>3 DEF Past
    <3>6. /\ \A d \in Clients \ {c} : client'[d].pc = "idle"
          /\ client'[c].pc \in Waiting \cup {"notify", "wait", "stopAll", "dead"}
          /\ client'[c].pc = "notify" => client'[c].next # "idle"
          /\ client'[c].pc \in Waiting => ~client'[c].timed /\ ~client'[c].expired
          /\ client'[c].pc = "end" => client'[c].ok
          /\ pool'.dead <=> client'[c].pc = "dead"
      BY <2>2, <3>1, <3>3 DEF Waiting, SameFlags
    <3>7. (Past(c, "stopAll")' \/ Past(c, "dead")') => NoWork'
      BY <2>2, <2>nowork, <3>4, <3>5
    <3>8. Past(c, "dead")' => \A v \in Ids : workers'[v].place \in {"none", "taken"}
      BY <2>2, <3>1, <3>5
    <3>9. Destroying(c)'
      BY <3>6, <3>7, <3>8 DEF Destroying
    <3> QED BY <2>rule, <3>1, <3>9
  <2>stutter. CASE UNCHANGED vars
    BY <2>1, <2>rule, <2>stutter DEF vars, Destroying, Past, NoWork
  <2> QED BY <2>calls, <2>actor, <2>notify, <2>join, <2>lock, <2>awaitCleanup, <2>sleep, <2>timeOut, <2>done,
            <2>end, <2>shutdown, <2>stopAll, <2>worker, <2>stutter
      DEF Next, ClientStep
<1> QED BY <1>b, <1>open, <1>closing

-----------------------------------------------------------------------------
(* Whoever sleeps is woken.                                                 *)

\* A step of c other than a notification moves nobody else, and takes no thread off
\* its way to a notification.
LEMMA ClientFrame ==
    ASSUME TypeOK, WorkersInv, QueuesInv, OrderInv, NEW c \in Clients,
           Call(c) \/ ClientStep(c), ~Notify(c)
    PROVE  /\ \A d \in Clients \ {c} : client'[d] = client[d]
           /\ client[c].pc # "notify"
           /\ client'[c].pc = "sleep" => AwaitSleep(c)
           /\ \A w \in Ids : workers[w].thread \in DOMAIN AfterNotify =>
                 workers'[w].thread = workers[w].thread
<1> DEFINE Goal == /\ \A d \in Clients \ {c} : client'[d] = client[d]
                   /\ client[c].pc # "notify"
                   /\ client'[c].pc = "sleep" => AwaitSleep(c)
                   /\ \A w \in Ids : workers[w].thread \in DOMAIN AfterNotify =>
                         workers'[w].thread = workers[w].thread
<1> SUFFICES Goal
  OBVIOUS
<1>t. workers \in [Ids -> Worker] /\ client \in [Clients -> Client]
  BY DEF TypeOK
<1>n. \A w \in Ids : workers[w].thread \in DOMAIN AfterNotify => workers[w].place # "none"
  BY DEF WorkersInv, WorkersOK, WorkerOK, AfterNotify
<1>rule. ASSUME NEW pc, NEW next, NEW joining, pc # "sleep", Becomes(c, pc, next, joining),
                client[c].pc # "notify",
                \A w \in Ids : workers[w].place # "none" => workers'[w].thread = workers[w].thread
         PROVE  Goal
  BY <1>n, <1>rule DEF Becomes
<1>taken. ASSUME workers' = Taken(workers, Stopped)
          PROVE  \A w \in Ids : workers'[w].thread = workers[w].thread
  BY <1>t, <1>taken, TakenEffect
<1>all. ASSUME NEW all, workers' = Quit(Taken(workers, all), all)
        PROVE  \A w \in Ids : workers'[w].thread = workers[w].thread
  <2>1. Taken(workers, all) \in [Ids -> Worker]
    BY <1>t, TakenEffect
  <2> QED BY <1>t, <1>all, <2>1, TakenEffect, QuitEffect
<1>incall. InCall(c) => client[c].pc # "notify"
  BY DEF InCall
<1>submit. ASSUME NEW t \in Tasks,
                  \/ \E priority \in Priorities : Start(c, t, priority, FALSE)
                  \/ Start(c, t, 0, TRUE)
                  \/ StartOnReservedThread(c, t)
           PROVE  Goal
  <2> HIDE DEF Goal
  <2>1. ASSUME Refuse(c, t), InCall(c) PROVE Goal
    <3>1. Becomes(c, "idle", "idle", {}) /\ workers' = workers
      BY <2>1, GoesToEffect DEF Refuse
    <3> QED BY <1>rule, <1>incall, <2>1, <3>1
  <2>2. ASSUME NEW priority \in Int, NEW w \in Ids, NEW left \in Nat, Accepted(c, t, priority, w, left)
        PROVE  Goal
    <3>1. /\ Becomes(c, "notify", "idle", {}) /\ InCall(c)
          /\ w \in Active(workers) \/ w = pool.created + 1
      BY <2>2, GoesToEffect DEF Accepted
    <3>2. Assigned(t, priority, w)
      BY <2>2, AssignEffect DEF Accepted
    <3>3. w = pool.created + 1 => workers[w].place = "none"
      <4>1. pool.created \in Nat
        BY PoolFields
      <4> QED BY <4>1 DEF WorkersInv, WorkersOK
    <3>4. \A v \in Ids : workers[v].place # "none" => workers'[v].thread = workers[v].thread
      BY <3>2, <3>3 DEF Assigned
    <3> QED BY <1>rule, <1>incall, <3>1, <3>4
  <2> QED BY <1>submit, <2>1, <2>2, SubmitEffect
<1>take. ASSUME NEW t \in Tasks, TryTake(c, t) PROVE Goal
  <2>1. InCall(c) /\ Becomes(c, "notify", "idle", {})
    BY <1>take, GoesToEffect DEF TryTake
  <2>2. PICK w \in Ids : \E i \in DOMAIN workers[w].queue :
                /\ \A v \in Ids \ {w} : SameButArmed(workers[v], workers'[v])
                /\ workers'[w].thread = workers[w].thread
    BY <1>take, TryTakeEffect
  <2>3. \A v \in Ids : workers'[v].thread = workers[v].thread
    BY <2>2 DEF SameButArmed
  <2> HIDE DEF Goal
  <2> QED BY <1>rule, <1>incall, <2>1, <2>3
<1>clear. ASSUME Clear(c) PROVE Goal
  <2>1. InCall(c) /\ Becomes(c, "notify", "idle", {})
    BY <1>clear, GoesToEffect DEF Clear
  <2>2. \A v \in Ids : workers'[v].thread = workers[v].thread
    BY <1>clear, ClearEffect
  <2> HIDE DEF Goal
  <2> QED BY <1>rule, <1>incall, <2>1, <2>2
<1>resize. ASSUME ReleaseThread(c) \/ \E n \in ThreadCounts : SetMaxThreadCount(c, n) PROVE Goal
  <2>1. PICK rb : Resized(c, rb)
    BY <1>resize, ResizedEffect
  <2>2. InCall(c) /\ Becomes(c, "idle", "idle", {})
    BY <2>1, GoesToEffect DEF Resized
  <2>3. \A w \in Ids : workers[w].place # "none" => workers'[w].thread = workers[w].thread
    BY <2>1 DEF Resized, RoundOK, SameButArmed
  <2> HIDE DEF Goal
  <2> QED BY <1>rule, <1>incall, <2>2, <2>3
<1>expiry. ASSUME SetExpiryTimeout(c) PROVE Goal
  <2>1. InCall(c) /\ Becomes(c, "idle", "idle", {})
    BY <1>expiry, GoesToEffect DEF SetExpiryTimeout
  <2>2. \A v \in Ids : workers'[v].thread = workers[v].thread
    BY <1>expiry, NoExpiryEffect DEF SameButArmed
  <2> HIDE DEF Goal
  <2> QED BY <1>rule, <1>incall, <2>1, <2>2
<1>settings. ASSUME ReserveThread(c) \/ \E n \in QueueLimits : SetMaxQueuedTaskCount(c, n) PROVE Goal
  BY <1>settings DEF ReserveThread, SetMaxQueuedTaskCount
<1>stopIdle. ASSUME StopIdleWorkers(c) \/ StopAllWorkers(c) PROVE Goal
  <2>1. client[c].pc # "notify" /\ \E all : workers' = Quit(Taken(workers, all), all)
    BY <1>stopIdle DEF StopIdleWorkers, StopAllWorkers
  <2>2. \E next, joining : Becomes(c, "notify", next, joining)
    BY <1>stopIdle, ToNotifyEffect
  <2> HIDE DEF Goal
  <2> QED BY <1>rule, <1>all, <2>1, <2>2
<1>takes. ASSUME Cleanup(c) \/ AwaitCleanup(c) \/ EndWait(c) \/ ShutdownWait(c) PROVE Goal
  <2>1. client[c].pc # "notify" /\ workers' = Taken(workers, Stopped)
    BY <1>takes DEF Cleanup, AwaitCleanup, EndWait, ShutdownWait
  <2>2. \E next, joining : \E pc \in {"join", "joinHeld", "notify", "lock"} : Becomes(c, pc, next, joining)
    BY <1>takes, JoinEffect, ToNotifyEffect, ToWaitEffect
  <2> HIDE DEF Goal
  <2> QED BY <1>rule, <1>taken, <2>1, <2>2
<1>wait. ASSUME \/ Destroy(c) \/ \E timed \in Deadlines : WaitForDone(c, timed)
                \/ Join(c) \/ Lock(c) \/ TimeOut(c) \/ AwaitDone(c)
         PROVE  Goal
  <2>1. client[c].pc # "notify" /\ workers' = workers
    BY <1>wait DEF Destroy, WaitForDone, Join, Lock, TimeOut, AwaitDone, Checking, InCall
  <2>2. \E next, joining : \E pc \in {"notify", "lock", "relocked", "check", "end"} :
            Becomes(c, pc, next, joining)
    BY <1>wait, JoinEffect, ToNotifyEffect, ToWaitEffect, DoneEffect
  <2> HIDE DEF Goal
  <2> QED BY <1>rule, <2>1, <2>2
<1>sleep. ASSUME AwaitSleep(c) PROVE Goal
  <2>1. client[c].pc # "notify" /\ workers' = workers
    BY <1>sleep DEF AwaitSleep, Checking
  <2>2. Becomes(c, "sleep", client[c].next, {})
    BY <1>sleep, JoinEffect
  <2> QED BY <1>sleep, <2>1, <2>2 DEF Becomes
<1> HIDE DEF Goal
<1> QED BY <1>submit, <1>take, <1>clear, <1>resize, <1>expiry, <1>settings, <1>stopIdle, <1>takes, <1>wait,
          <1>sleep
    DEF Call, ClientStep

\* A notification wakes everybody.
LEMMA NobodySleeps ==
    ASSUME TypeOK, (\E c \in Clients : Notify(c)) \/ client' = Woken
    PROVE  \A d \in Clients : client'[d].pc # "sleep"
<1>1. CASE client' = Woken
  BY <1>1, NotifyEffect DEF Wakes
<1>2. ASSUME NEW c \in Clients, Notify(c) PROVE \A d \in Clients : client'[d].pc # "sleep"
  <2>1. /\ \A d \in Clients \ {c} : Wakes(d)
        /\ client'[c].pc = client[c].next
    BY <1>2, NotifyEffect
  <2>2. client[c].next # "sleep"
    BY ClientFields DEF TypeOK
  <2> QED BY <2>1, <2>2 DEF Wakes
<1> QED BY <1>1, <1>2

\* A notification that is on its way stays so, or nobody sleeps.
LEMMA WakeStays ==
    ASSUME TypeOK, WorkersInv, QueuesInv, OrderInv, WakeComing, [Next]_vars
    PROVE  WakeComing' \/ \A d \in Clients : client'[d].pc # "sleep"
<1>1. CASE client' = Woken \/ \E c \in Clients : Notify(c)
  BY <1>1, NobodySleeps
<1>2. ASSUME NEW c \in Clients, Call(c) \/ ClientStep(c), ~Notify(c) PROVE WakeComing'
  BY <1>2, ClientFrame DEF WakeComing
<1>3. ASSUME NEW w \in Ids, WorkerStep(w), client' # Woken PROVE WakeComing'
  <2>1. client' = client /\ \A v \in Ids \ {w} : workers'[v] = workers[v]
    BY <1>3, ThreadStepEffect
  <2>2. workers[w].thread \notin DOMAIN AfterNotify
    BY <1>3 DEF WorkerStep, Drain, Finish, Rearm, Expire, ThreadNotify, Exit, AfterNotify
  <2> QED BY <2>1, <2>2 DEF WakeComing
<1>4. CASE UNCHANGED vars
  BY <1>4 DEF vars, WakeComing
<1> QED BY <1>1, <1>2, <1>3, <1>4 DEF Next

\* Every step keeps the promise to a sleeper.
LEMMA SleeperStep ==
    ASSUME TypeOK, WorkersInv, QueuesInv, OrderInv, RunningInv, RunningExact, ShutdownInv, DispatchInv,
           SleeperIsWoken, [Next]_vars
    PROVE  SleeperIsWoken'
<1>t. workers \in [Ids -> Worker] /\ pool \in Pool /\ pool.settings \in Nat
  BY PoolFields DEF TypeOK
<1> SUFFICES ASSUME NEW c \in Clients, client'[c].pc = "sleep", Quiescent', ~Withdrawn
             PROVE  WakeComing' \/ Withdrawn'
  BY WithdrawnStays DEF SleeperIsWoken
<1>1. WorkersInv'
  BY WorkersStep
<1>2. NoWork'
  <2> SUFFICES ASSUME NEW w \in Ids
               PROVE  workers'[w].queue = <<>> /\ ~workers'[w].running /\ ~workers'[w].posted
    BY DEF NoWork
  <2>1. WorkerOK(workers'[w])
    BY <1>1 DEF WorkersInv, WorkersOK
  <2>2. CASE workers'[w].place = "active"
    BY <2>2 DEF Quiescent, Active, WouldQueue
  <2>3. CASE workers'[w].place # "active"
    BY <2>1, <2>3 DEF WorkerOK
  <2> QED BY <2>2, <2>3
<1>3. client[c].pc = "sleep"
  <2>1. ASSUME NEW d \in Clients, Call(d) \/ ClientStep(d), ~Notify(d) PROVE client[c].pc = "sleep"
    <3>1. ~AwaitSleep(d)
      BY DEF AwaitSleep, Quiescent, Active, WouldQueue
    <3> QED BY <2>1, <3>1, ClientFrame
  <2>2. ASSUME NEW w \in Ids, WorkerStep(w) PROVE client[c].pc = "sleep"
    BY <2>2, ThreadStepEffect, NobodySleeps
  <2>3. CASE UNCHANGED vars
    BY <2>3 DEF vars
  <2> QED BY <2>1, <2>2, <2>3, NobodySleeps DEF Next
<1>4. CASE Quiescent
  <2>1. WakeComing
    BY <1>3, <1>4 DEF SleeperIsWoken
  <2> QED BY <2>1, WakeStays
<1>5. CASE ~Quiescent
  <2>1. ~NoWork
    BY <1>5, NoWorkQuiescent
  <2>calm. CASE Calm
    BY <1>2, <2>1, <2>calm DEF Calm, SameWork, NoWork
  <2>accepted. ASSUME NEW d \in Clients, NEW t \in Tasks, NEW priority \in Int, NEW w \in Ids,
                      NEW left \in Nat, Accepted(d, t, priority, w, left)
               PROVE  FALSE
    <3>1. Assigned(t, priority, w)
      BY <2>accepted, AssignEffect DEF Accepted
    <3>2. workers'[w].running = workers[w].running /\ workers'[w].posted = ~workers[w].running
      BY <3>1 DEF Assigned
    <3>3. workers[w].running \in BOOLEAN
      BY <1>t, WorkerFields
    <3> QED BY <1>2, <3>2, <3>3 DEF NoWork
  <2>take. ASSUME NEW d \in Clients, Clear(d) \/ \E t \in Tasks : TryTake(d, t) PROVE WakeComing'
    <3>1. Becomes(d, "notify", "idle", {})
      BY <2>take, GoesToEffect DEF Clear, TryTake
    <3> QED BY <3>1 DEF Becomes, WakeComing
  <2>resize. ASSUME NEW d \in Clients, NEW rb, Resized(d, rb) PROVE Withdrawn'
    <3>1. pool'.settings > 0
      BY <1>t, <2>resize DEF Resized
    <3> QED BY <3>1 DEF Withdrawn
  <2>drain. ASSUME NEW w \in Ids, Drain(w) PROVE FALSE
    <3>1. workers[w].posted
      BY <2>drain DEF Drain
    <3>2. CASE workers[w].queue = <<>>
      BY <3>1, <3>2 DEF DispatchInv
    <3>3. CASE workers[w].queue # <<>>
      BY <1>2, <2>drain, <3>3, DrainEffect DEF NoWork
    <3> QED BY <3>2, <3>3
  <2>finish. ASSUME NEW w \in Ids, Finish(w) PROVE WakeComing'
    <3>1. workers'[w].thread \in {"notifyNext", "notifyIdle"}
      BY <2>finish, FinishEffect
    <3> QED BY <3>1 DEF WakeComing, AfterNotify
  <2> QED BY <2>calm, <2>accepted, <2>take, <2>resize, <2>drain, <2>finish, StepKinds
<1> QED BY <1>4, <1>5

-----------------------------------------------------------------------------
(* The theorems.                                                            *)

\* The inductive invariant of the pool.
PoolInv ==
    /\ TypeOK /\ WorkersInv /\ QueuesInv /\ OrderInv /\ RunningInv /\ RunningExact
    /\ CallsInv /\ ShutdownInv /\ DispatchInv /\ SleeperIsWoken

\* A pool that was just made has it.
LEMMA PoolInit ==
    Init => PoolInv
<1> SUFFICES ASSUME Init PROVE PoolInv
  OBVIOUS
<1>w. workers = [w \in Ids |-> FreshWorker]
  BY DEF Init
<1>s. status = [t \in Tasks |-> "new"]
  BY DEF Init
<1>c. client = [c \in Clients |-> Idle] /\ waitMutex = Nobody
  BY DEF Init
<1>f. /\ FreshWorker.queue = <<>> /\ ~FreshWorker.running /\ ~FreshWorker.posted
      /\ FreshWorker.item = NoTask /\ FreshWorker.place = "none" /\ FreshWorker.thread = "none"
  BY DEF FreshWorker
<1>i. /\ Idle.pc = "idle" /\ Idle.next = "idle" /\ Idle.joining = {} /\ ~Idle.ok
  BY DEF Idle
<1>1. PICK n \in ThreadCounts :
        pool = [maxThreads |-> n, maxQueued |-> 0, expires |-> TRUE,
                reserved |-> 0, running |-> 0, created |-> 0, accepted |-> 0,
                waiting |-> FALSE, stopping |-> FALSE, dead |-> FALSE,
                waits |-> 0, settings |-> 0]
  BY DEF Init
<1>2. n \in Nat
  BY PoolAssumption
<1>3. TypeOK
  <2>1. workers \in [Ids -> Worker]
    BY <1>w, FreshFields
  <2>2. pool \in Pool
    BY <1>1, <1>2 DEF Pool
  <2>3. status \in [Tasks -> Outcomes]
    BY <1>s DEF Outcomes
  <2>4. Idle \in Client
    BY DEF Idle, Client, Places
  <2>5. client \in [Clients -> Client] /\ waitMutex \in Clients \cup {Nobody}
    BY <1>c, <2>4
  <2> QED BY <2>1, <2>2, <2>3, <2>5 DEF TypeOK
<1>p. /\ pool.created = 0 /\ pool.running = 0 /\ ~pool.stopping /\ ~pool.dead
  BY <1>1
<1>4. WorkersInv
  <2>1. WorkerOK(FreshWorker)
    BY DEF WorkerOK, FreshWorker, Busy
  <2>2. 0 <= MaxWorkers /\ \A w \in Ids : w > 0
    BY PoolAssumption DEF Ids
  <2> QED BY <1>w, <1>f, <1>p, <2>1, <2>2 DEF WorkersInv, WorkersOK
<1>q. \A w \in Ids : DOMAIN workers[w].queue = {}
  BY <1>w, <1>f
<1>5. QueuesInv
  BY <1>q, <1>s DEF QueuesInv, QueuesOK
<1>6. OrderInv
  BY <1>q DEF OrderInv, OrderOK
<1>7. RunningInv
  BY <1>w, <1>f, <1>s DEF RunningInv
<1>8. RunningExact
  <2>1. {t \in Tasks : status[t] = "running"} = {}
    BY <1>s
  <2> QED BY <1>p, <2>1, FS_EmptySet DEF RunningExact
<1>9. CallsInv
  BY <1>c, <1>i, <1>w, <1>f DEF CallsInv, Waiting
<1>10. ShutdownInv
  BY <1>c, <1>i, <1>p DEF ShutdownInv
<1>11. DispatchInv
  BY <1>w, <1>f DEF DispatchInv
<1>12. SleeperIsWoken
  BY <1>c, <1>i DEF SleeperIsWoken
<1> QED BY <1>3, <1>4, <1>5, <1>6, <1>7, <1>8, <1>9, <1>10, <1>11, <1>12 DEF PoolInv

\* The inductive invariant holds in every state: the steps of every action, in the
\* lemmas above, put together.
THEOREM PoolCorrect == Spec => []PoolInv
<1>1. PoolInv /\ [Next]_vars => PoolInv'
  <2> SUFFICES ASSUME PoolInv, [Next]_vars PROVE PoolInv'
    OBVIOUS
  <2> USE DEF PoolInv
  <2>1. TypeOK'
    BY TypeStep
  <2>2. WorkersInv'
    BY WorkersStep
  <2>3. QueuesInv'
    BY QueuesStep
  <2>4. OrderInv'
    BY OrderStep
  <2>5. RunningInv'
    BY RunningStep
  <2>6. RunningExact'
    BY RunningExactStep
  <2>7. CallsInv'
    BY CallsStep
  <2>8. ShutdownInv'
    BY ShutdownStep
  <2>9. DispatchInv'
    BY DispatchStep
  <2>10. SleeperIsWoken'
    BY SleeperStep
  <2> QED BY <2>1, <2>2, <2>3, <2>4, <2>5, <2>6, <2>7, <2>8, <2>9, <2>10
<1> QED BY PoolInit, <1>1, PTL DEF Spec

\* Every variable keeps its type: m_runningTasks, m_reservedThreadCount and the other
\* counters never go below zero.
THEOREM TypeCorrect == Spec => []TypeOK
<1>1. PoolInv => TypeOK
  BY DEF PoolInv
<1> QED BY <1>1, PoolCorrect, PTL

\* A worker with work is in m_workers, is dispatched and its thread serves it:
\* assignment, rebalancing, withdrawal, expiry and shutdown never strand a task.
THEOREM TasksNotStranded == Spec => []NoStrandedTask
<1>1. PoolInv => NoStrandedTask
  BY DEF PoolInv, WorkersInv, WorkersOK, WorkerOK, NoStrandedTask, Serving
<1> QED BY <1>1, PoolCorrect, PTL

\* m_runningTasks is the number of tasks that run, in every state.
THEOREM RunningCountExact == Spec => []RunningExact
<1>1. PoolInv => RunningExact
  BY DEF PoolInv
<1> QED BY <1>1, PoolCorrect, PTL

\* Every queue is in the order of priority, then of acceptance.
THEOREM QueuesOrdered == Spec => []QueueOrder
<1>1. PoolInv => QueueOrder
  BY DEF PoolInv, OrderInv, OrderOK, Precedes, QueueOrder
<1> QED BY <1>1, PoolCorrect, PTL

\* Without work there is no task that is queued or runs.
LEMMA NoWorkNoTask ==
    ASSUME QueuesInv, RunningInv, WorkersInv, NoWork
    PROVE  \A t \in Tasks : status[t] \notin {"queued", "running"}
<1>1. \A w \in Ids : workers[w].queue = <<>> /\ workers[w].item = NoTask
  BY DEF NoWork, WorkersInv, WorkersOK, WorkerOK
<1>2. \A w \in Ids : DOMAIN workers[w].queue = {}
  BY <1>1
<1>3. \A t \in Tasks : status[t] # "queued"
  BY <1>2 DEF QueuesInv, QueuesOK
<1>4. \A t \in Tasks : status[t] # "running"
  BY <1>1, PoolAssumption DEF RunningInv
<1> QED BY <1>3, <1>4

\* When waitForDone() is about to return true nothing is queued and nothing runs.
THEOREM WaitSeesEverything == Spec => []DoneMeansDone
<1>1. PoolInv => DoneMeansDone
  <2> SUFFICES ASSUME PoolInv, NEW c \in Clients, client[c].pc = "end", client[c].ok
               PROVE  \A t \in Tasks : status[t] \notin {"queued", "running"}
    BY DEF DoneMeansDone
  <2>1. NoWork
    BY DEF PoolInv, CallsInv
  <2> QED BY <2>1, NoWorkNoTask DEF PoolInv
<1> QED BY <1>1, PoolCorrect, PTL

\* When the destructor ends every accepted task was run or withdrawn, and every
\* thread of the pool is gone.
THEOREM DestructorWaits == Spec => []DestructorDrains
<1>1. PoolInv => DestructorDrains
  <2> SUFFICES ASSUME PoolInv, pool.dead PROVE DestructorDrains
    BY DEF DestructorDrains
  <2>1. PICK c \in Clients : Destroying(c)
    BY DEF PoolInv, ShutdownInv
  <2>2. client[c].pc = "dead" /\ \A d \in Clients \ {c} : client[d].pc = "idle"
    BY <2>1 DEF Destroying
  <2>3. NoWork /\ \A w \in Ids : workers[w].place \in {"none", "taken"}
    BY <2>1, <2>2 DEF Destroying, Past
  <2>4. \A d \in Clients : client[d].joining = {}
    BY <2>2 DEF PoolInv, CallsInv, NotJoining
  <2>5. \A w \in Ids : workers[w].thread \in {"none", "gone"}
    <3> SUFFICES ASSUME NEW w \in Ids PROVE workers[w].thread \in {"none", "gone"}
      OBVIOUS
    <3>1. CASE workers[w].place = "none"
      BY <3>1 DEF PoolInv, WorkersInv, WorkersOK, WorkerOK
    <3>2. CASE workers[w].place = "taken"
      BY <2>4, <3>2 DEF PoolInv, CallsInv
    <3> QED BY <2>3, <3>1, <3>2
  <2> QED BY <2>3, <2>5, NoWorkNoTask DEF PoolInv, DestructorDrains
<1> QED BY <1>1, PoolCorrect, PTL

\* While someone sleeps in waitForDone() and the pool is quiescent, a notification
\* is on its way, or a task was withdrawn or moved before.
THEOREM SleepersWoken == Spec => []SleeperIsWoken
<1>1. PoolInv => SleeperIsWoken
  BY DEF PoolInv
<1> QED BY <1>1, PoolCorrect, PTL

\* A queue has no more tasks than there are.
LEMMA QueueBounded ==
    ASSUME TypeOK, QueuesInv, NEW w \in Ids
    PROVE  Len(workers[w].queue) <= Cardinality(Tasks) /\ Cardinality(Tasks) \in Nat
<1> DEFINE q == workers[w].queue
           f == [i \in 1..Len(q) |-> q[i].runnable]
<1>1. /\ DOMAIN q = 1..Len(q) /\ Len(q) \in Nat
      /\ \A i \in DOMAIN q : q[i].runnable \in Tasks
  BY QueueTypes DEF TypeOK
<1>2. \A i, j \in DOMAIN q : q[i].runnable = q[j].runnable => i = j
  BY DEF QueuesInv, QueuesOK
<1> HIDE DEF q
<1>3. f \in [1..Len(q) -> Tasks] /\ \A i, j \in 1..Len(q) : f[i] = f[j] => i = j
  BY <1>1, <1>2
<1>4. f \in Injection(1..Len(q), Tasks)
  BY <1>3 DEF Injection, IsInjective
<1>5. Cardinality(1..Len(q)) <= Cardinality(Tasks)
  BY <1>4, PoolAssumption, FS_Injection
<1>6. Cardinality(1..Len(q)) = Len(q)
  BY <1>1, FS_Interval
<1>7. Cardinality(Tasks) \in Nat
  BY PoolAssumption, FS_CardinalityType
<1> QED BY <1>5, <1>6, <1>7 DEF q

\* A task that is queued is at one place of one queue, a task that runs is on one
\* worker, every other task is on none: nothing is run twice.
THEOREM TasksOnce == Spec => []EachTaskOnce
<1>1. PoolInv => EachTaskOnce
  <2> SUFFICES ASSUME PoolInv, NEW t \in Tasks
               PROVE  /\ Cardinality({p \in Ids \X (1 .. Cardinality(Tasks)) :
                                        /\ p[2] \in DOMAIN workers[p[1]].queue
                                        /\ workers[p[1]].queue[p[2]].runnable = t})
                            = IF status[t] = "queued" THEN 1 ELSE 0
                      /\ Cardinality({w \in Ids : workers[w].item = t})
                            = IF status[t] = "running" THEN 1 ELSE 0
    BY DEF EachTaskOnce
  <2> DEFINE P == {p \in Ids \X (1 .. Cardinality(Tasks)) :
                        /\ p[2] \in DOMAIN workers[p[1]].queue
                        /\ workers[p[1]].queue[p[2]].runnable = t}
             R == {w \in Ids : workers[w].item = t}
  <2>q. /\ \A w \in Ids : \A i \in DOMAIN workers[w].queue :
              status[workers[w].queue[i].runnable] = "queued"
        /\ \A v, w \in Ids : \A i \in DOMAIN workers[v].queue : \A j \in DOMAIN workers[w].queue :
              workers[v].queue[i].runnable = workers[w].queue[j].runnable => v = w /\ i = j
        /\ status[t] = "queued" =>
              \E w \in Ids : \E i \in DOMAIN workers[w].queue : workers[w].queue[i].runnable = t
    BY DEF PoolInv, QueuesInv, QueuesOK
  <2>r. /\ \A w \in Ids : workers[w].item = t => status[t] = "running"
        /\ \A v, w \in Ids : workers[v].item = t /\ workers[w].item = t => v = w
        /\ status[t] = "running" => \E w \in Ids : workers[w].item = t
    BY PoolAssumption DEF PoolInv, RunningInv
  <2>1. CASE status[t] = "queued"
    <3>1. PICK w \in Ids : \E i \in DOMAIN workers[w].queue : workers[w].queue[i].runnable = t
      BY <2>q, <2>1
    <3>2. PICK i \in DOMAIN workers[w].queue : workers[w].queue[i].runnable = t
      BY <3>1
    <3>3. i \in 1..Cardinality(Tasks)
      <4>1. DOMAIN workers[w].queue = 1..Len(workers[w].queue) /\ Len(workers[w].queue) \in Nat
        BY QueueTypes DEF PoolInv, TypeOK
      <4>2. Len(workers[w].queue) <= Cardinality(Tasks) /\ Cardinality(Tasks) \in Nat
        BY QueueBounded DEF PoolInv
      <4> QED BY <4>1, <4>2
    <3>4. <<w, i>> \in P
      BY <3>2, <3>3
    <3>5. \A p \in P : p = <<w, i>>
      BY <2>q, <3>2
    <3>6. P = {<<w, i>>}
      BY <3>4, <3>5
    <3>7. R = {}
      BY <2>1, <2>r
    <3> HIDE DEF P, R
    <3> QED BY <2>1, <3>6, <3>7, FS_Singleton, FS_EmptySet DEF P, R
  <2>2. CASE status[t] # "queued"
    <3>1. P = {}
      <4> SUFFICES ASSUME NEW p \in P PROVE FALSE
        OBVIOUS
      <4>1. p[1] \in Ids /\ p[2] \in DOMAIN workers[p[1]].queue /\ workers[p[1]].queue[p[2]].runnable = t
        OBVIOUS
      <4> QED BY <2>q, <2>2, <4>1
    <3>2. CASE status[t] = "running"
      <4>1. PICK w \in Ids : workers[w].item = t
        BY <2>r, <3>2
      <4>2. R = {w}
        BY <2>r, <4>1
      <4> HIDE DEF P, R
      <4> QED BY <2>2, <3>1, <3>2, <4>2, FS_Singleton, FS_EmptySet DEF P, R
    <3>3. CASE status[t] # "running"
      <4>1. R = {}
        BY <2>r, <3>3
      <4> HIDE DEF P, R
      <4> QED BY <2>2, <3>1, <3>3, <4>1, FS_EmptySet DEF P, R
    <3> QED BY <3>2, <3>3
  <2> QED BY <2>1, <2>2
<1> QED BY <1>1, PoolCorrect, PTL
=============================================================================
