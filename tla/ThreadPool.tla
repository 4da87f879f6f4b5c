----------------------------- MODULE ThreadPool -----------------------------
(***************************************************************************)
(* SwThreadPool: worker threads with a queue each, a task is dispatched to *)
(* the event loop of its worker one at a time; idle workers retire after a *)
(* time-out; waitForDone() sleeps on a condition variable with a mutex of  *)
(* its own until the pool is quiescent; the destructor drains the pool.    *)
(*                                                                         *)
(* A critical section of m_mutex is one step.  notifyStateChanged_() is a  *)
(* step of its own: it takes m_waitMutex for a moment and wakes whoever    *)
(* sleeps.  Worker ids are numbered as they are created, so they are in    *)
(* the order of m_workers.  lastActiveMs is not kept: chooseWorkerLocked_  *)
(* may take any of the least loaded workers.  A timer is kept only while   *)
(* its token is the idleToken of its worker: any other does nothing.       *)
(***************************************************************************)
EXTENDS Integers, Sequences, FiniteSets, FiniteSetsExt, SequencesExt

CONSTANTS
    Tasks,          \* runnables; each is submitted at most once
    Priorities,     \* the priorities start() is given
    Clients,        \* threads that use the pool
    ThreadCounts,   \* the values of setMaxThreadCount()
    QueueLimits,    \* the values of setMaxQueuedTaskCount()
    Deadlines,      \* whether waitForDone() is given a deadline: the cases
    MaxWorkers,     \* bound: workers created
    MaxWaits,       \* bound: calls of waitForDone()
    MaxSettings     \* bound: calls that change capacity, and stopIdleWorkers()

Nobody == "nobody"
NoTask == "none"

ASSUME PoolAssumption ==
    /\ IsFiniteSet(Tasks) /\ IsFiniteSet(Clients)
    /\ NoTask \notin Tasks /\ Nobody \notin Clients
    /\ Priorities \subseteq Int
    /\ ThreadCounts \subseteq Nat \ {0}
    /\ QueueLimits \subseteq Int
    /\ {MaxWorkers, MaxWaits, MaxSettings} \subseteq Nat
    /\ Deadlines \subseteq BOOLEAN

VARIABLES
    workers,    \* id -> its WorkerEntry and its thread
    pool,       \* the members of the pool
    status,     \* task -> what became of it
    client,     \* thread -> where it is in its call
    waitMutex   \* who holds m_waitMutex

vars == <<workers, pool, status, client, waitMutex>>

Ids == 1 .. MaxWorkers

\* place: in m_workers, in m_retiredWorkers, or in the hands of a thread that
\* stops it.  thread: where the thread of the worker is; it is "ready" in its
\* event loop, "stopped" once isRunning() is false, "gone" once it can be
\* joined without waiting.  posted: dispatchPosted, and the closure with it.
\* armed: expiry timers that carry the current idleToken.
FreshWorker ==
    [place |-> "none", queue |-> <<>>, running |-> FALSE, posted |-> FALSE,
     armed |-> 0, item |-> NoTask, thread |-> "none", quit |-> FALSE]

TaskItem(t, priority) ==
    [runnable |-> t, priority |-> priority, sequence |-> pool.accepted + 1]

\* A thread outside any call.  next: where it goes after a notification;
\* joining: the worker threads it has to join first.
Idle == [pc |-> "idle", next |-> "idle", joining |-> {}, timed |-> FALSE,
         expired |-> FALSE, ok |-> FALSE]

Init ==
    /\ workers = [w \in Ids |-> FreshWorker]
    /\ \E n \in ThreadCounts :
        pool = [maxThreads |-> n, maxQueued |-> 0, expires |-> TRUE,
                reserved |-> 0, running |-> 0, created |-> 0, accepted |-> 0,
                waiting |-> FALSE, stopping |-> FALSE, dead |-> FALSE,
                waits |-> 0, settings |-> 0]
    /\ status = [t \in Tasks |-> "new"]
    /\ client = [c \in Clients |-> Idle]
    /\ waitMutex = Nobody

-----------------------------------------------------------------------------
(* What the helpers with a name in ...Locked_ compute, on the workers ws.  *)

Active(ws) == {w \in Ids : ws[w].place = "active"}

WouldQueue(ws, w) == ws[w].running \/ ws[w].posted \/ ws[w].queue # <<>>

Load(ws, w) ==
    Len(ws[w].queue) + (IF ws[w].running \/ ws[w].posted THEN 1 ELSE 0)

QueuedTaskCount(ws) == MapThenSumSet(LAMBDA w : Len(ws[w].queue), Active(ws))

Capacity(ignoreReserved) ==
    LET n == IF ignoreReserved \/ pool.stopping THEN pool.maxThreads
             ELSE pool.maxThreads - pool.reserved
    IN  IF n < 1 THEN 1 ELSE n

ScheduleDispatch(ws, w) ==
    IF ws[w].running \/ ws[w].posted \/ ws[w].queue = <<>> THEN ws
    ELSE [ws EXCEPT ![w].posted = TRUE]

ScheduleExpiryCheck(ws, w) ==
    IF WouldQueue(ws, w) \/ ~pool.expires THEN ws ELSE [ws EXCEPT ![w].armed = @ + 1]

\* ++idleToken: the timers that are armed no longer count.
NewToken(ws, w) == [ws EXCEPT ![w].armed = 0]

ScheduleIdleExpiry(ws) ==
    [w \in Ids |->
        IF w \in Active(ws) /\ ~WouldQueue(ws, w)
        THEN ScheduleExpiryCheck(NewToken(ws, w), w)[w]
        ELSE ws[w]]

\* Higher priorities first, first come first served within one.
EnqueueLastFirst(ws, w, item) ==
    LET q == ws[w].queue
        i == SelectInSeq(q, LAMBDA other : item.priority >= other.priority)
    IN  [ws EXCEPT ![w].queue = IF i = 0 THEN Append(q, item) ELSE InsertAt(q, i, item)]
Enqueue(ws, w, item) ==
    LET q == ws[w].queue
        Before(other) == \/ item.priority > other.priority
                         \/ item.priority = other.priority /\ item.sequence < other.sequence
        i == SelectInSeq(q, Before)
    IN  [ws EXCEPT ![w].queue = IF i = 0 THEN Append(q, item) ELSE InsertAt(q, i, item)]

CreateWorker(ws, w) ==
    [ws EXCEPT ![w] = [FreshWorker EXCEPT !.place = "active", !.thread = "ready"]]

\* chooseWorkerLocked_(): the workers it may pick; the next id stands for a
\* new worker.
ChooseWorker(ignoreReserved, immediate) ==
    LET candidates == {w \in Active(workers) : immediate => Load(workers, w) = 0}
        least == Min({Load(workers, w) : w \in candidates})
        room == Cardinality(Active(workers)) < Capacity(ignoreReserved)
    IN  IF candidates = {}
        THEN IF room THEN {pool.created + 1} ELSE {}
        ELSE IF ~immediate /\ least > 0 /\ room THEN {pool.created + 1}
        ELSE {w \in candidates : Load(workers, w) = least}

\* rebalanceLocked_(): new workers, as far as capacity allows, take over the
\* first task of the busiest one.  rb holds the workers and their number.
RebalanceCopying(rb, capacity) ==
    LET ws == rb.ws
        highest == Max({Load(ws, w) : w \in Active(ws)} \cup {0})
        source == Min({w \in Active(ws) : Load(ws, w) = highest})
        target == rb.created + 1
        moved == Enqueue(CreateWorker(ws, target),
                         target, Head(ws[source].queue))
    IN  IF \/ Cardinality(Active(ws)) >= capacity
           \/ Active(ws) = {} \/ highest <= 1
           \/ ws[source].queue = <<>>
           \/ rb.created >= MaxWorkers
        THEN rb
        ELSE [ws |-> ScheduleDispatch(moved, target), created |-> target]
RebalanceOne(rb, capacity) ==
    LET ws == rb.ws
        highest == Max({Load(ws, w) : w \in Active(ws)} \cup {0})
        source == Min({w \in Active(ws) : Load(ws, w) = highest})
        target == rb.created + 1
        moved == Enqueue(CreateWorker([ws EXCEPT ![source].queue = Tail(@)], target),
                         target, Head(ws[source].queue))
    IN  IF \/ Cardinality(Active(ws)) >= capacity
           \/ Active(ws) = {} \/ highest <= 1
           \/ ws[source].queue = <<>>
           \/ rb.created >= MaxWorkers
        THEN rb
        ELSE [ws |-> ScheduleDispatch(moved, target), created |-> target]

\* At most MaxWorkers of them can be created.
Rebalance(capacity) ==
    LET after[n \in 0 .. MaxWorkers] ==
            IF n = 0 THEN [ws |-> workers, created |-> pool.created]
            ELSE RebalanceOne(after[n - 1], capacity)
    IN  after[MaxWorkers]

Quiescent ==
    /\ pool.running = 0
    /\ \A w \in Active(workers) : ~WouldQueue(workers, w)

\* Retired workers whose thread no longer runs.
Stopped == {w \in Ids : workers[w].place = "retired" /\ workers[w].thread \in {"stopped", "gone"}}

Taken(ws, ids) == [w \in Ids |-> IF w \in ids THEN [ws[w] EXCEPT !.place = "taken"] ELSE ws[w]]
Quit(ws, ids) == [w \in Ids |-> IF w \in ids THEN [ws[w] EXCEPT !.quit = TRUE] ELSE ws[w]]

Joined(c) == \A w \in client[c].joining : workers[w].thread = "gone"

\* notify_all(), once m_waitMutex was free: whoever sleeps goes to relock it.
Woken == [c \in Clients |->
            IF client[c].pc = "sleep" THEN [client[c] EXCEPT !.pc = "lock"] ELSE client[c]]

-----------------------------------------------------------------------------
(* Calls of a client.  Most begin with cleanupRetiredWorkersLocked_(), that *)
(* joins the threads of retired workers with m_mutex released.             *)

Cleanup(c) ==
    /\ client[c].pc = "idle" /\ ~pool.stopping
    /\ Stopped # {}
    /\ workers' = Taken(workers, Stopped)
    /\ client' = [client EXCEPT ![c].pc = "join", ![c].joining = Stopped]
    /\ UNCHANGED <<pool, status, waitMutex>>

Join(c) ==
    /\ client[c].pc = "join" /\ Joined(c)
    /\ client' = [client EXCEPT ![c].pc = "relocked", ![c].joining = {}]
    /\ UNCHANGED <<workers, pool, status, waitMutex>>

\* c is in the critical section of a call, past the clean-up.
InCall(c) ==
    /\ ~pool.stopping
    /\ client[c].pc = "relocked" \/ (client[c].pc = "idle" /\ Stopped = {})

GoesTo(c, pc) == client' = [client EXCEPT ![c] = [Idle EXCEPT !.pc = pc]]

\* assignTaskLocked_(): t goes to worker w, that is created when it is new.
Assign(t, priority, w) ==
    LET fresh == w = pool.created + 1
        ws == IF fresh THEN CreateWorker(workers, w) ELSE workers
    IN  /\ workers' = ScheduleDispatch(Enqueue(ws, w, TaskItem(t, priority)), w)
        /\ status' = [status EXCEPT ![t] = "queued"]

\* effectiveMaxQueuedTaskCountLocked_(): 0 asks for 32 tasks per thread (the
\* code caps the product at INT_MAX, which no queue reaches), and a negative
\* value for no limit.
QueueFull ==
    LET limit == IF pool.maxQueued = 0 THEN 32 * pool.maxThreads ELSE pool.maxQueued
    IN  limit >= 0 /\ QueuedTaskCount(workers) >= limit

Saturated(w) ==
    /\ w <= pool.created
    /\ WouldQueue(workers, w)
    /\ QueueFull

Refuse(c, t) ==
    /\ status' = [status EXCEPT ![t] = "refused"]
    /\ GoesTo(c, "idle")
    /\ UNCHANGED <<workers, pool, waitMutex>>

\* New work is refused while someone waits for the pool to be done.
AcceptsWhileWaiting == ~pool.stopping
Accepts == ~pool.stopping /\ ~pool.waiting

\* start() and tryStartQueued() (not immediate), tryStart() (immediate).
Start(c, t, priority, immediate) ==
    /\ InCall(c) /\ status[t] = "new"
    /\ LET choices == ChooseWorker(FALSE, immediate)
       IN  \/ /\ Accepts
              /\ \E w \in choices \cap Ids :
                    /\ ~Saturated(w)
                    /\ Assign(t, priority, w)
                    /\ pool' = [pool EXCEPT !.created = Max({@, w}), !.accepted = @ + 1]
                    /\ GoesTo(c, "notify")
                    /\ UNCHANGED waitMutex
           \/ /\ \/ ~Accepts
                 \/ choices = {}
                 \/ \E w \in choices : Saturated(w)
              /\ Refuse(c, t)

\* startOnReservedThread(): it uses up a reserved thread if there is one and an
\* idle worker, or room for a new one, is there at once.
StartOnReservedThread(c, t) ==
    /\ InCall(c) /\ status[t] = "new"
    /\ LET idle == ChooseWorker(TRUE, TRUE)
           immediate == pool.reserved > 0 /\ idle # {}
           choices == IF immediate THEN idle ELSE ChooseWorker(TRUE, FALSE)
       IN  \/ /\ Accepts
              /\ \E w \in choices \cap Ids :
                    /\ ~Saturated(w)
                    /\ Assign(t, 0, w)
                    /\ pool' = [pool EXCEPT !.created = Max({@, w}), !.accepted = @ + 1,
                                            !.reserved = IF immediate THEN @ - 1 ELSE @]
                    /\ GoesTo(c, "notify")
                    /\ UNCHANGED waitMutex
           \/ /\ ~Accepts \/ \E w \in choices : Saturated(w)
              /\ Refuse(c, t)

TryTake(c, t) ==
    /\ InCall(c)
    /\ \E w \in Active(workers) : \E i \in DOMAIN workers[w].queue :
        /\ workers[w].queue[i].runnable = t
        /\ LET ws == [workers EXCEPT ![w].queue = RemoveAt(@, i)]
           IN  workers' = IF ~ws[w].running /\ ws[w].queue = <<>>
                          THEN ScheduleExpiryCheck(NewToken(ws, w), w) ELSE ws
    /\ status' = [status EXCEPT ![t] = "taken"]
    /\ GoesTo(c, "notify")
    /\ UNCHANGED <<pool, waitMutex>>

Clear(c) ==
    /\ InCall(c)
    /\ QueuedTaskCount(workers) > 0
    /\ workers' = ScheduleIdleExpiry([w \in Ids |->
                    IF w \in Active(workers) THEN [workers[w] EXCEPT !.queue = <<>>]
                    ELSE workers[w]])
    /\ status' = [t \in Tasks |->
                    IF status[t] = "queued" THEN "cleared" ELSE status[t]]
    /\ GoesTo(c, "notify")
    /\ UNCHANGED <<pool, waitMutex>>

\* A change of capacity: tasks move to new workers, idle timers start again.
\* Neither call notifies.
Resize(c, changed, capacity) ==
    LET rb == Rebalance(capacity)
    IN  /\ workers' = ScheduleIdleExpiry(rb.ws)
        /\ pool' = [changed EXCEPT !.created = rb.created, !.settings = @ + 1]
        /\ GoesTo(c, "idle")
        /\ UNCHANGED <<status, waitMutex>>

SetMaxThreadCount(c, n) ==
    /\ InCall(c) /\ pool.settings < MaxSettings
    /\ Resize(c, [pool EXCEPT !.maxThreads = n], Max({n - pool.reserved, 1}))

SetMaxQueuedTaskCount(c, n) ==
    /\ client[c].pc = "idle" /\ ~pool.stopping /\ pool.settings < MaxSettings
    /\ n # pool.maxQueued
    /\ pool' = [pool EXCEPT !.maxQueued = n, !.settings = @ + 1]
    /\ UNCHANGED <<workers, status, client, waitMutex>>

\* setExpiryTimeout(-1): idle workers get a new token and no timer.
SetExpiryTimeout(c) ==
    /\ InCall(c) /\ pool.settings < MaxSettings
    /\ pool.expires
    /\ workers' = [w \in Ids |->
                    IF w \in Active(workers) /\ ~WouldQueue(workers, w)
                    THEN NewToken(workers, w)[w] ELSE workers[w]]
    /\ pool' = [pool EXCEPT !.expires = FALSE, !.settings = @ + 1]
    /\ GoesTo(c, "idle")
    /\ UNCHANGED <<status, waitMutex>>

ReserveThread(c) ==
    /\ client[c].pc = "idle" /\ ~pool.stopping /\ pool.settings < MaxSettings
    /\ pool' = [pool EXCEPT !.reserved = @ + 1, !.settings = @ + 1]
    /\ UNCHANGED <<workers, status, client, waitMutex>>

ReleasedBelowZero(n) == n - 1
Released(n) == IF n > 0 THEN n - 1 ELSE n

ReleaseThread(c) ==
    /\ InCall(c) /\ pool.settings < MaxSettings
    /\ LET left == Released(pool.reserved)
       IN  Resize(c, [pool EXCEPT !.reserved = left], Max({pool.maxThreads - left, 1}))

\* stopIdleWorkers(), at the iteration that finds nothing to run.
StopIdleWorkers(c) ==
    /\ client[c].pc = "idle" /\ ~pool.stopping /\ pool.settings < MaxSettings
    /\ Quiescent
    /\ LET all == {w \in Ids : workers[w].place \in {"active", "retired"}}
       IN  /\ all # {}
           /\ workers' = Quit(Taken(workers, all), all)
           /\ client' = [client EXCEPT ![c].pc = "notify", ![c].next = "idle", ![c].joining = all]
    /\ pool' = [pool EXCEPT !.settings = @ + 1]
    /\ UNCHANGED <<status, waitMutex>>

\* The end of a call: notifyStateChanged_(), after the joins that are left.
Notify(c) ==
    /\ client[c].pc = "notify" /\ Joined(c)
    /\ waitMutex = Nobody
    /\ client' = [Woken EXCEPT ![c] = [Idle EXCEPT !.pc = client[c].next]]
    /\ pool' = [pool EXCEPT !.dead = client[c].next = "dead"]
    /\ UNCHANGED <<workers, status, waitMutex>>

-----------------------------------------------------------------------------
(* waitForDone() and the destructor.                                       *)

WaitForDone(c, timed) ==
    /\ InCall(c) /\ pool.waits < MaxWaits
    /\ ~pool.waiting
    /\ pool' = [pool EXCEPT !.waiting = TRUE, !.waits = @ + 1]
    /\ client' = [client EXCEPT ![c] = [Idle EXCEPT !.pc = "lock", !.timed = timed]]
    /\ UNCHANGED <<workers, status, waitMutex>>

\* awaitQuiescent_(): m_waitMutex first, m_mutex inside.
Lock(c) ==
    /\ client[c].pc = "lock" /\ Joined(c)
    /\ waitMutex = Nobody
    /\ waitMutex' = c
    /\ client' = [client EXCEPT ![c].pc = "check", ![c].joining = {}]
    /\ UNCHANGED <<workers, pool, status>>

\* The clean-up inside the loop joins threads with m_waitMutex held.
AwaitCleanup(c) ==
    /\ client[c].pc = "check" /\ Stopped # {}
    /\ workers' = Taken(workers, Stopped)
    /\ client' = [client EXCEPT ![c].pc = "joinHeld", ![c].joining = Stopped]
    /\ UNCHANGED <<pool, status, waitMutex>>

Checking(c) ==
    \/ client[c].pc = "check" /\ Stopped = {}
    \/ client[c].pc = "joinHeld" /\ Joined(c)

AwaitDone(c) ==
    /\ Checking(c)
    /\ Quiescent \/ client[c].expired
    /\ client' = [client EXCEPT ![c].pc = "end", ![c].ok = Quiescent, ![c].joining = {}]
    /\ waitMutex' = Nobody
    /\ UNCHANGED <<workers, pool, status>>

AwaitSleep(c) ==
    /\ Checking(c)
    /\ ~Quiescent /\ ~client[c].expired
    /\ client' = [client EXCEPT ![c].pc = "sleep", ![c].joining = {}]
    /\ waitMutex' = Nobody
    /\ UNCHANGED <<workers, pool, status>>

TimeOut(c) ==
    /\ client[c].pc = "sleep" /\ client[c].timed
    /\ client' = [client EXCEPT ![c].pc = "lock", ![c].expired = TRUE]
    /\ UNCHANGED <<workers, pool, status, waitMutex>>

EndWait(c) ==
    /\ client[c].pc = "end"
    /\ pool' = [pool EXCEPT !.waiting = FALSE]
    /\ workers' = Taken(workers, Stopped)
    /\ client' = [client EXCEPT ![c].pc = "notify", ![c].joining = Stopped,
                                ![c].next = IF pool.stopping THEN "stopAll" ELSE "idle"]
    /\ UNCHANGED <<status, waitMutex>>

\* ~SwThreadPool(), when nobody is inside a call: shutdown_() bars new work,
\* notifies, waits for ever and stops every worker.
DestroyWithoutWait(c) ==
    /\ \A d \in Clients : client[d].pc = "idle"
    /\ ~pool.stopping
    /\ pool' = [pool EXCEPT !.stopping = TRUE]
    /\ client' = [client EXCEPT ![c].pc = "notify", ![c].next = "stopAll"]
    /\ UNCHANGED <<workers, status, waitMutex>>
Destroy(c) ==
    /\ \A d \in Clients : client[d].pc = "idle"
    /\ ~pool.stopping
    /\ pool' = [pool EXCEPT !.stopping = TRUE]
    /\ client' = [client EXCEPT ![c].pc = "notify", ![c].next = "wait"]
    /\ UNCHANGED <<workers, status, waitMutex>>

\* Its waitForDone(-1).  With m_stopping set nobody can tell whether the
\* clean-up comes before or after m_waitingForDone.
ShutdownWait(c) ==
    /\ client[c].pc = "wait"
    /\ pool' = [pool EXCEPT !.waiting = TRUE]
    /\ workers' = Taken(workers, Stopped)
    /\ client' = [client EXCEPT ![c] = [Idle EXCEPT !.pc = "lock", !.joining = Stopped]]
    /\ UNCHANGED <<status, waitMutex>>

StopAllWorkers(c) ==
    /\ client[c].pc = "stopAll"
    /\ LET all == {w \in Ids : workers[w].place \in {"active", "retired"}}
       IN  /\ workers' = Quit(Taken(workers, all), all)
           /\ client' = [client EXCEPT ![c].pc = "notify", ![c].next = "dead", ![c].joining = all]
    /\ UNCHANGED <<pool, status, waitMutex>>

-----------------------------------------------------------------------------
(* The thread of a worker.                                                 *)

\* drainOneTaskOnWorker_(), up to its notification.
Drain(w) ==
    /\ workers[w].thread = "ready" /\ workers[w].posted
    /\ IF workers[w].queue = <<>>
       THEN /\ workers' = [workers EXCEPT ![w].posted = FALSE]
            /\ UNCHANGED <<pool, status>>
       ELSE LET t == Head(workers[w].queue).runnable
            IN  /\ workers' = [NewToken(workers, w) EXCEPT
                                 ![w].posted = FALSE, ![w].queue = Tail(@),
                                 ![w].running = TRUE, ![w].item = t,
                                 ![w].thread = "notifyRun"]
                /\ pool' = [pool EXCEPT !.running = @ + 1]
                /\ status' = [status EXCEPT ![t] = "running"]
    /\ UNCHANGED <<client, waitMutex>>

\* run() returns or throws, then onRunnableFinished_(), up to its notification.
FinishQuietly(w) ==
    /\ workers[w].thread = "run"
    /\ LET ws == [workers EXCEPT ![w].running = FALSE, ![w].item = NoTask]
       IN  workers' = IF ws[w].queue # <<>>
                      THEN [ScheduleDispatch(ws, w) EXCEPT ![w].thread = "ready"]
                      ELSE [NewToken(ws, w) EXCEPT ![w].thread = "rearm"]
    /\ pool' = [pool EXCEPT !.running = @ - 1]
    /\ status' = [status EXCEPT ![workers[w].item] = "done"]
    /\ UNCHANGED <<client, waitMutex>>
FinishStuck(w) ==
    /\ workers[w].thread = "run"
    /\ workers' = [NewToken(workers, w) EXCEPT
                    ![w].running = FALSE, ![w].item = NoTask, ![w].thread = "notifyIdle"]
    /\ pool' = [pool EXCEPT !.running = @ - 1]
    /\ status' = [status EXCEPT ![workers[w].item] = "done"]
    /\ UNCHANGED <<client, waitMutex>>
FinishUncounted(w) ==
    /\ workers[w].thread = "run"
    /\ LET ws == [workers EXCEPT ![w].running = FALSE, ![w].item = NoTask]
           more == ws[w].queue # <<>>
       IN  /\ workers' = IF more
                         THEN [ScheduleDispatch(ws, w) EXCEPT ![w].thread = "notifyNext"]
                         ELSE [NewToken(ws, w) EXCEPT ![w].thread = "notifyIdle"]
           /\ pool' = [pool EXCEPT !.running = IF more THEN @ ELSE @ - 1]
    /\ status' = [status EXCEPT ![workers[w].item] = "done"]
    /\ UNCHANGED <<client, waitMutex>>
Finish(w) ==
    /\ workers[w].thread = "run"
    /\ LET ws == [workers EXCEPT ![w].running = FALSE, ![w].item = NoTask]
       IN  workers' = IF ws[w].queue # <<>>
                      THEN [ScheduleDispatch(ws, w) EXCEPT ![w].thread = "notifyNext"]
                      ELSE [NewToken(ws, w) EXCEPT ![w].thread = "notifyIdle"]
    /\ pool' = [pool EXCEPT !.running = @ - 1]
    /\ status' = [status EXCEPT ![workers[w].item] = "done"]
    /\ UNCHANGED <<client, waitMutex>>

\* Its second critical section.
Rearm(w) ==
    /\ workers[w].thread = "rearm"
    /\ workers' = LET ws == IF workers[w].place = "active"
                            THEN ScheduleExpiryCheck(workers, w) ELSE workers
                  IN  [ws EXCEPT ![w].thread = "ready"]
    /\ UNCHANGED <<pool, status, client, waitMutex>>

\* onWorkerExpiryTimeout_(), with the current token.
Expire(w) ==
    /\ workers[w].thread = "ready" /\ workers[w].armed > 0
    /\ LET fired == [workers EXCEPT ![w].armed = @ - 1]
           retires == /\ ~pool.stopping /\ ~pool.waiting
                      /\ workers[w].place = "active"
                      /\ ~WouldQueue(workers, w)
       IN  workers' = IF retires
                      THEN [fired EXCEPT ![w].place = "retired", ![w].thread = "notifyQuit"]
                      ELSE fired
    /\ UNCHANGED <<pool, status, client, waitMutex>>

\* Where a thread goes on after a notification; a retired worker quits.
AfterNotify ==
    [notifyRun |-> "run", notifyNext |-> "ready", notifyIdle |-> "rearm",
     notifyQuit |-> "ready", stopped |-> "gone"]

\* notifyStateChanged_() on a worker thread; the last one is the callback of
\* finished(), that threadEntry() runs when isRunning() is false already.
ThreadNotify(w) ==
    /\ workers[w].thread \in DOMAIN AfterNotify
    /\ waitMutex = Nobody
    /\ workers' = [workers EXCEPT ![w].thread = AfterNotify[@],
                                  ![w].quit = @ \/ workers[w].thread = "notifyQuit"]
    /\ client' = Woken
    /\ UNCHANGED <<pool, status, waitMutex>>

\* The event loop ends.
Exit(w) ==
    /\ workers[w].thread = "ready" /\ workers[w].quit
    /\ workers' = [workers EXCEPT ![w].thread = "stopped", ![w].armed = 0]
    /\ UNCHANGED <<pool, status, client, waitMutex>>

-----------------------------------------------------------------------------
Call(c) ==
    \/ Cleanup(c)
    \/ \E t \in Tasks : \/ \E priority \in Priorities : Start(c, t, priority, FALSE)
                         \/ Start(c, t, 0, TRUE)
                         \/ StartOnReservedThread(c, t)
                         \/ TryTake(c, t)
    \/ Clear(c)
    \/ \E n \in ThreadCounts : SetMaxThreadCount(c, n)
    \/ \E n \in QueueLimits : SetMaxQueuedTaskCount(c, n)
    \/ SetExpiryTimeout(c)
    \/ ReserveThread(c) \/ ReleaseThread(c)
    \/ StopIdleWorkers(c)
    \/ \E timed \in Deadlines : WaitForDone(c, timed)
    \/ Destroy(c)

\* What a client goes on to do inside a call.
ClientStep(c) ==
    \/ Join(c) \/ Notify(c)
    \/ Lock(c) \/ AwaitCleanup(c) \/ AwaitDone(c) \/ AwaitSleep(c) \/ TimeOut(c) \/ EndWait(c)
    \/ ShutdownWait(c) \/ StopAllWorkers(c)

WorkerStep(w) ==
    Drain(w) \/ Finish(w) \/ Rearm(w) \/ Expire(w) \/ ThreadNotify(w) \/ Exit(w)

Next ==
    \/ \E c \in Clients : Call(c) \/ ClientStep(c)
    \/ \E w \in Ids : WorkerStep(w)

Spec == Init /\ [][Next]_vars

-----------------------------------------------------------------------------
(* Properties.                                                             *)

Outcomes == {"new", "refused", "queued", "running", "done", "taken", "cleared"}

Items == [runnable : Tasks, priority : Int, sequence : Nat]

ThreadStates == DOMAIN AfterNotify \cup {"none", "ready", "run", "rearm", "gone"}

Worker ==
    [place : {"none", "active", "retired", "taken"}, queue : Seq(Items),
     running : BOOLEAN, posted : BOOLEAN, armed : Nat, item : Tasks \cup {NoTask},
     thread : ThreadStates, quit : BOOLEAN]

Pool ==
    [maxThreads : Nat, maxQueued : Int, expires : BOOLEAN, reserved : Nat, running : Nat,
     created : Nat, accepted : Nat, waiting : BOOLEAN, stopping : BOOLEAN, dead : BOOLEAN,
     waits : Nat, settings : Nat]

Places == {"idle", "join", "relocked", "notify", "lock", "check", "joinHeld", "sleep", "end",
           "wait", "stopAll", "dead"}

Client ==
    [pc : Places, next : {"idle", "wait", "stopAll", "dead"}, joining : SUBSET Ids,
     timed : BOOLEAN, expired : BOOLEAN, ok : BOOLEAN]

\* Types: counters stay natural numbers.
TypeOK ==
    /\ workers \in [Ids -> Worker]
    /\ pool \in Pool
    /\ status \in [Tasks -> Outcomes]
    /\ client \in [Clients -> Client]
    /\ waitMutex \in Clients \cup {Nobody}

\* A worker that has work queued is in m_workers and is about to look at its
\* queue: it runs a task or a dispatch is posted, and its thread will not
\* quit.  Moving tasks between workers, withdrawing them, expiry, idle stops
\* and shutdown never strand one.
NoStrandedTask ==
    \A w \in Ids : workers[w].queue # <<>> \/ workers[w].running \/ workers[w].posted =>
        /\ workers[w].place = "active"
        /\ workers[w].running \/ workers[w].posted
        /\ ~workers[w].quit
        /\ workers[w].thread \in {"ready", "notifyRun", "run", "notifyNext", "notifyIdle", "rearm"}

\* A task is queued on one worker once, or runs on one worker, or is neither:
\* nothing is run twice, or run after tryTake() gave it back or clear()
\* deleted it.
EachTaskOnce ==
    \A t \in Tasks :
        /\ Cardinality({p \in Ids \X (1 .. Cardinality(Tasks)) :
                            /\ p[2] \in DOMAIN workers[p[1]].queue
                            /\ workers[p[1]].queue[p[2]].runnable = t})
            = IF status[t] = "queued" THEN 1 ELSE 0
        /\ Cardinality({w \in Ids : workers[w].item = t})
            = IF status[t] = "running" THEN 1 ELSE 0

\* m_runningTasks counts the tasks that run: waitForDone(), stopIdleWorkers()
\* and activeThreadCount() rely on it.
RunningExact == pool.running = Cardinality({t \in Tasks : status[t] = "running"})

\* Every queue is in the order of priority, then of acceptance, also on the
\* workers that rebalanceLocked_() fills.
QueueOrder ==
    \A w \in Ids : \A i, j \in DOMAIN workers[w].queue : i < j =>
        LET t == workers[w].queue[i]
            u == workers[w].queue[j]
        IN  \/ t.priority > u.priority
            \/ t.priority = u.priority /\ t.sequence < u.sequence

\* When waitForDone() is about to return true nothing is queued and nothing
\* runs: no task slipped in after the check.
DoneMeansDone ==
    \A c \in Clients : client[c].pc = "end" /\ client[c].ok =>
        \A t \in Tasks : status[t] \notin {"queued", "running"}

\* When the destructor ends, every accepted task was run or withdrawn, and
\* every thread the pool created is gone.
DestructorDrains ==
    pool.dead => /\ \A t \in Tasks : status[t] \notin {"queued", "running"}
                 /\ \A w \in Ids : workers[w].thread \in {"none", "gone"}

\* A thread is on its way to notify_all().
WakeComing ==
    \/ \E c \in Clients : client[c].pc = "notify"
    \/ \E w \in Ids : workers[w].thread \in DOMAIN AfterNotify

\* A dispatch may have been left without a task: one was withdrawn, or moved
\* by a change of capacity.
Withdrawn ==
    \/ \E t \in Tasks : status[t] \in {"taken", "cleared"}
    \/ pool.settings > 0

\* A thread asleep in waitForDone() is never left behind by the last thing it
\* waits for: when the pool is quiescent a notification is on its way.  (Not
\* so once a task was withdrawn: the empty dispatch ends without one.)
SleeperIsWoken ==
    (\E c \in Clients : client[c].pc = "sleep") /\ Quiescent => WakeComing \/ Withdrawn
=============================================================================
