---------------------------- MODULE MCThreadPool ----------------------------
(* A small pool.  Tasks are interchangeable, and so are the clients.        *)
EXTENDS ThreadPool, TLC

\* setMaxQueuedTaskCount(): no limit, and a limit of one task.
NoneOrOne == {-1, 1}

Symmetric == Permutations(Clients) \cup Permutations(Tasks)
=============================================================================
