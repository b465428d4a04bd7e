----------------------------- MODULE ProcessLock -----------------------------
(***************************************************************************)
(* What the users of LockFile count on: while a process has a lock on a    *)
(* path, no other process has one; within the process the lock is shared.  *)
(***************************************************************************)
CONSTANTS
  Processes,
  Threads

VARIABLE users   \* the threads of each process that share its lock

Init == users = [p \in Processes |-> {}]

\* A thread gets or shares the lock of its process.
Lock(p, t) ==
  /\ \A q \in Processes \ {p} : users[q] = {}
  /\ users' = [users EXCEPT ![p] = @ \union {t}]

Unlock(p, t) ==
  /\ t \in users[p]
  /\ users' = [users EXCEPT ![p] = @ \ {t}]

\* A process that is killed loses its lock; so does one whose lock file is
\* replaced or closed.
Lose(p) == users' = [users EXCEPT ![p] = {}]

Next ==
  \E p \in Processes : Lose(p) \/ \E t \in Threads : Lock(p, t) \/ Unlock(p, t)

Spec == Init /\ [][Next]_users
=============================================================================
