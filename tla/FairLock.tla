------------------------------- MODULE FairLock -------------------------------
(***************************************************************************)
(* What the lock service promises of one lock, without tokens' validity,   *)
(* clocks, mutexes, channels or contexts: a lock that is never free while  *)
(* someone waits, that is handed to the waiters in the order they came,    *)
(* that a newcomer takes at once only if that passes nobody by, and whose  *)
(* every client ends up either served or gone, never both.                 *)
(* LockRefinement shows that LockService implements it.                    *)
(***************************************************************************)
EXTENDS Naturals, Sequences, SequencesExt

CONSTANTS
  Client,   \* each asks for the lock at most once
  None      \* the owner of a free lock, not a client

VARIABLES
  lock,     \* [owner, waiting, status]: who has it, who waits, how each fared
  closed    \* was the lock deleted?

fairVars == <<lock, closed>>

Status == {"new", "waiting", "served", "gone"}

FairTypeOK ==
  /\ lock \in [owner   : Client \cup {None},
               waiting : Seq(Client),
               status  : [Client -> Status]]
  /\ closed \in BOOLEAN

FairInit ==
  /\ lock = [owner |-> None, waiting |-> <<>>, status |-> [c \in Client |-> "new"]]
  /\ closed = FALSE

-----------------------------------------------------------------------------
\* The lock l with another owner and other waiters, after client c fared so.
After(l, owner, waiting, c, fate) ==
  [owner |-> owner, waiting |-> waiting, status |-> [l.status EXCEPT ![c] = fate]]

\* The owner's turn ends: the first waiter's begins, if there is one.
PassOn(l) ==
  IF l.waiting = <<>>
  THEN [l EXCEPT !.owner = None]
  ELSE After(l, Head(l.waiting), Tail(l.waiting), Head(l.waiting), "served")

\* An owner's turn may end on its own just before anything else happens.
Lapsed(l) == {l} \cup (IF l.owner = None THEN {} ELSE {PassOn(l)})

\* The owner's turn ends, and that is all or some client learns that it failed.
Pass ==
  /\ closed' = closed
  /\ \E l \in Lapsed(lock) :
       \/ lock' = l
       \/ \E c \in Client : /\ l.status[c] = "new"
                           /\ lock' = After(l, l.owner, l.waiting, c, "gone")

\* A newcomer takes a lock that is free; nobody waits for it then.
Take(c) ==
  /\ ~closed /\ closed' = closed
  /\ \E l \in Lapsed(lock) :
       /\ l.owner = None /\ l.waiting = <<>> /\ l.status[c] = "new"
       /\ lock' = After(l, c, <<>>, c, "served")

\* A newcomer lines up behind an owner.
Join(c) ==
  /\ ~closed /\ closed' = closed
  /\ \E l \in Lapsed(lock) :
       /\ l.owner # None /\ l.status[c] = "new"
       /\ lock' = After(l, l.owner, Append(l.waiting, c), c, "waiting")

\* A waiter gives up.
Leave(c) ==
  /\ closed' = closed
  /\ lock.status[c] = "waiting"
  /\ lock' = After(lock, lock.owner, RemoveFirst(lock.waiting, c), c, "gone")

\* The administrator gives the lock to a newcomer over everybody's head.
Seize(c) ==
  /\ ~closed /\ closed' = closed
  /\ lock.status[c] = "new"
  /\ lock' = After(lock, c, lock.waiting, c, "served")

\* The lock is deleted, by a client that asked for nothing else or by nobody:
\* all who wait are sent away.  A turn that lapses first serves one of them.
Close ==
  /\ closed' = TRUE
  /\ \E l \in Lapsed(lock), deleter \in SUBSET Client :
       /\ \A c \in deleter : l.status[c] = "new" /\ deleter = {c}
       /\ lock' = [owner   |-> None,
                   waiting |-> <<>>,
                   status  |-> [c \in Client |->
                                  IF l.status[c] = "waiting" \/ c \in deleter
                                  THEN "gone" ELSE l.status[c]]]

FairNext ==
  \/ Pass
  \/ \E c \in Client : Take(c) \/ Join(c) \/ Leave(c) \/ Seize(c)
  \/ Close

FairLockSpec == FairInit /\ [][FairNext]_fairVars
=============================================================================
