---------------------------- MODULE LockRefinement ----------------------------
(***************************************************************************)
(* LockService implements FairLock when the random source does not fail.   *)
(***************************************************************************)
EXTENDS LockService

\* How the request fared, as its caller knows or will learn.
StatusOf(p) ==
  CASE \/ reply[p].code \in {"acquired", "stolen"}
       \/ Blocked(p) /\ waiter[p].granted          -> "served"
    [] Unanswered(p)                               -> "waiting"
    [] pc[p] \in {"idle", "enter"}                 -> "new"
    [] OTHER                                       -> "gone"

\* The abstract lock of the present state.
LockBar == [owner   |-> item.token,
            waiting |-> item.queue,
            status  |-> [p \in Request |-> StatusOf(p)]]

FL == INSTANCE FairLock WITH
        Client <- Request,
        None   <- NoToken,
        lock   <- LockBar,
        closed <- item.deleted

\* The code keeps the promise of a fair lock: every critical section of
\* service.go, expirer.go and of the two ends of a wait is a step of FairLock.
ImplementsFairLock == FL!FairLockSpec
=============================================================================
