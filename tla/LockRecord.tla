------------------------------ MODULE LockRecord ------------------------------
(***************************************************************************)
(* The data of one lock of lockd and the operations on it: the record and  *)
(* its lease (internal/lock/types.go, lease.go, reentrant.go), the FIFO    *)
(* queue of waiters (queue.go, waiter.go) and the two service helpers that *)
(* touch both, grantNextLocked and expireLocked (service.go).              *)
(*                                                                         *)
(* The code runs all of these with the record's mutex held, so each one is *)
(* an operator from states to states.  A "state" is                        *)
(*     [item |-> the record, waiter |-> the waiter struct of each request] *)
(* An operator whose outcome depends on the random source returns the set  *)
(* of states it may end in.                                                *)
(*                                                                         *)
(* newToken draws 144 random bits; tokens are taken never to repeat.  A    *)
(* request obtains at most one new token, so the token drawn for request p *)
(* is written p.                                                           *)
(***************************************************************************)
EXTENDS Naturals, Sequences, FiniteSets, SequencesExt

CONSTANTS
  Request,      \* goroutines, each of which serves one API call
  Holder,       \* valid holder identities
  NoHolder,     \* the empty holder string
  NoToken,      \* the empty token string
  Reentrant,    \* CreateOptions.Reentrant of the lock
  MaxDepth,     \* CreateOptions.MaxDepth, at least 1 after Create
  DefaultTTL,   \* the lock's default TTL, normalised by Create
  AutoCleanup,  \* CreateOptions.AutoCleanup, 0 when the lock is kept for ever
  MinTTL,       \* shortest accepted lease
  MaxTTL,       \* longest accepted lease
  ReleasedCap,  \* most released tokens remembered (128 in the code)
  RandMayFail   \* may the random source fail (newToken returns an error)?

ASSUME RecordAssumption ==
  /\ NoHolder \notin Holder
  /\ NoToken \notin Request
  /\ Reentrant \in BOOLEAN
  /\ RandMayFail \in BOOLEAN
  /\ MaxDepth \in Nat \ {0}
  /\ AutoCleanup \in Nat
  /\ MinTTL \in Nat \ {0}
  /\ MaxTTL \in Nat
  /\ DefaultTTL \in MinTTL..MaxTTL
  /\ ReleasedCap \in Nat \ {0}

-----------------------------------------------------------------------------
(* Types.  Times are natural numbers and the clock starts at 1, so that 0  *)
(* is the zero time.Time of a record without a lease.                      *)

ZeroTime == 0

Token == Request \cup {NoToken}

Record == [holder        : Holder \cup {NoHolder},
           token         : Token,
           depth         : Nat,
           expiresAt     : Nat,
           lastIdleAt    : Nat,
           deleted       : BOOLEAN,
           queue         : Seq(Request),
           releasedToken : SUBSET Request]

\* What is sent on a waiter's done channel: a lease, or one of two errors.
Outcome == {"granted", "internal", "not_found"}

Waiter == [seq       : Nat,
           holder    : Holder \cup {NoHolder},
           ttl       : Nat,
           cancelled : BOOLEAN,
           granted   : BOOLEAN,
           done      : Seq(Outcome)]

\* The record Registry.Create stores, at time now.
NewRecord(now) ==
  [holder |-> NoHolder, token |-> NoToken, depth |-> 0, expiresAt |-> ZeroTime,
   lastIdleAt |-> now, deleted |-> FALSE, queue |-> <<>>, releasedToken |-> {}]

\* A request that has not (yet) built a waiter.
NoWaiter == [seq |-> 0, holder |-> NoHolder, ttl |-> 0, cancelled |-> FALSE,
             granted |-> FALSE, done |-> <<>>]

-----------------------------------------------------------------------------
(* The lease: lease.go and reentrant.go.                                   *)

\* normalizeTTL: a request without a TTL takes the lock's default...
NormalTTL(requested) == IF requested = 0 THEN DefaultTTL ELSE requested

\* ... and a TTL out of range is rejected.
ValidTTL(requested) == NormalTTL(requested) \in MinTTL..MaxTTL

\* Mutant: a lease ends one unit of time early.
LeaseExpiredEarly(expiresAt, now) == expiresAt # ZeroTime /\ now + 1 >= expiresAt

LeaseExpired(expiresAt, now) == expiresAt # ZeroTime /\ now >= expiresAt

\* Mutant: the TTL is taken off the time instead of added to it.
AssignLeaseBackwards(r, holder, token, ttl, now) ==
  [r EXCEPT !.holder = holder, !.token = token, !.depth = 1, !.expiresAt = now - ttl]

AssignLease(r, holder, token, ttl, now) ==
  [r EXCEPT !.holder = holder, !.token = token, !.depth = 1,
            !.expiresAt = now + ttl]

\* The released tokens are remembered in a set that is emptied when full.
Remember(tokens, token) ==
  IF Cardinality(tokens) >= ReleasedCap THEN {token} ELSE tokens \cup {token}

\* Mutants: every cleared token is remembered; none is.
ClearLeaseRemembersAll(r, now, rememberRelease) ==
  [r EXCEPT !.releasedToken = @ \cup ({r.token} \ {NoToken}),
            !.holder = NoHolder, !.token = NoToken, !.depth = 0,
            !.expiresAt = ZeroTime, !.lastIdleAt = now]
ClearLeaseForgets(r, now, rememberRelease) ==
  [r EXCEPT !.holder = NoHolder, !.token = NoToken, !.depth = 0,
            !.expiresAt = ZeroTime, !.lastIdleAt = now]

ClearLease(r, now, rememberRelease) ==
  [r EXCEPT !.releasedToken = IF rememberRelease /\ r.token # NoToken
                              THEN Remember(@, r.token) ELSE @,
            !.holder = NoHolder, !.token = NoToken, !.depth = 0,
            !.expiresAt = ZeroTime, !.lastIdleAt = now]

\* tryReenter handles the request when its holder has a reentrant lock ...
Reenters(r, holder) == r.holder = holder /\ r.token # NoToken /\ Reentrant

\* ... and goes one level deeper unless the depth is at its limit.
DeeperLease(r, ttl, now) ==
  [r EXCEPT !.depth = @ + 1, !.expiresAt = now + ttl]

\* decreaseDepth when a level remains: the lease restarts with the default TTL.
ShallowerLease(r, now) ==
  [r EXCEPT !.depth = @ - 1, !.expiresAt = now + DefaultTTL]

-----------------------------------------------------------------------------
(* The queue of waiters: queue.go and waiter.go.                           *)

NewWaiter(n, holder, ttl) ==
  [NoWaiter EXCEPT !.seq = n, !.holder = holder, !.ttl = ttl]

\* Mutant: newcomers go to the front.
PushFront(q, p) == <<p>> \o q

Push(q, p) == Append(q, p)

\* activeLength() = 0
NoneActive(q, ws) == \A i \in 1..Len(q) : ws[q[i]].cancelled

\* A send on the done channel.
Tell(w, outcome) == [w EXCEPT !.done = Append(@, outcome)]

GrantWaiter(w) == [Tell(w, "granted") EXCEPT !.granted = TRUE]

CancelWaiter(w) == [w EXCEPT !.cancelled = TRUE]

\* Mutant: the queue survives.
CancelAllKeepsQueue(s) ==
  [s EXCEPT !.waiter = [p \in Request |->
                          IF Contains(s.item.queue, p)
                          THEN Tell(CancelWaiter(s.waiter[p]), "not_found")
                          ELSE s.waiter[p]]]

\* cancelAll(ErrNotFound): every live waiter is cancelled and told, then the
\* queue is dropped.
CancelAll(s) ==
  [item   |-> [s.item EXCEPT !.queue = <<>>],
   waiter |-> [p \in Request |->
                 IF /\ Contains(s.item.queue, p)
                    /\ ~s.waiter[p].cancelled /\ ~s.waiter[p].granted
                 THEN Tell(CancelWaiter(s.waiter[p]), "not_found")
                 ELSE s.waiter[p]]]

-----------------------------------------------------------------------------
(* grantNextLocked pops waiters until one gets a lease.  pop drops the     *)
(* cancelled ones; a waiter for whom no token can be drawn is told of the  *)
(* error and the loop goes on.                                             *)

\* The positions at which the loop may stop; Len(q) + 1 when it runs dry.
StopAt(q, ws) ==
  {i \in 1..(Len(q) + 1) :
     /\ \A j \in 1..(i - 1) : ws[q[j]].cancelled \/ RandMayFail
     /\ i <= Len(q) => ~ws[q[i]].cancelled}

\* Mutant: nobody is told.
ToldBeforeNobody(q, ws, i) == {}

\* The waiters popped before position i that were told of an error.
ToldBefore(q, ws, i) ==
  {p \in Request : ~ws[p].cancelled /\ \E j \in 1..(i - 1) : j <= Len(q) /\ q[j] = p}

\* Mutants: the winner stays in the queue; waiters told of an error stay.
PopToKeepsWinner(s, i, now) ==
  LET q == s.item.queue
  IN IF i > Len(q) THEN [s EXCEPT !.item.queue = <<>>]
     ELSE [item   |-> AssignLease([s.item EXCEPT !.queue = SubSeq(q, i, Len(q))],
                                  s.waiter[q[i]].holder, q[i], s.waiter[q[i]].ttl, now),
           waiter |-> [s.waiter EXCEPT ![q[i]] = GrantWaiter(@)]]
PopToRequeues(s, i, now) ==
  LET q    == s.item.queue
      kept == [s.item EXCEPT !.queue = SubSeq(q, 1, i - 1) \o SubSeq(q, i + 1, Len(q))]
  IN [item   |-> IF i <= Len(q)
                 THEN AssignLease(kept, s.waiter[q[i]].holder, q[i], s.waiter[q[i]].ttl, now)
                 ELSE kept,
      waiter |-> [p \in Request |->
                    IF i <= Len(q) /\ p = q[i] THEN GrantWaiter(s.waiter[p])
                    ELSE IF p \in ToldBefore(q, s.waiter, i)
                         THEN Tell(s.waiter[p], "internal")
                    ELSE s.waiter[p]]]

PopTo(s, i, now) ==
  LET q       == s.item.queue
      popped  == [s.item EXCEPT !.queue = SubSeq(q, i + 1, Len(q))]
      found   == i <= Len(q)
      winner  == s.waiter[q[i]]
  IN [item   |-> IF found
                 THEN AssignLease(popped, winner.holder, q[i], winner.ttl, now)
                 ELSE popped,
      waiter |-> [p \in Request |->
                    IF found /\ p = q[i] THEN GrantWaiter(s.waiter[p])
                    ELSE IF p \in ToldBefore(q, s.waiter, i)
                         THEN Tell(s.waiter[p], "internal")
                    ELSE s.waiter[p]]]

GrantNext(s, now) == {PopTo(s, i, now) : i \in StopAt(s.item.queue, s.waiter)}

\* expireLocked clears the lease and grants the next one, when it has expired.
Expires(r, now) == r.token # NoToken /\ LeaseExpired(r.expiresAt, now)

\* Mutant: the lease is cleared and nobody gets the lock.
ExpireLockedNoGrant(s, now) ==
  IF Expires(s.item, now) THEN {[s EXCEPT !.item = ClearLease(@, now, FALSE)]} ELSE {s}

ExpireLocked(s, now) ==
  IF Expires(s.item, now)
  THEN GrantNext([s EXCEPT !.item = ClearLease(@, now, FALSE)], now)
  ELSE {s}
-----------------------------------------------------------------------------
(* What must hold between the queue and the waiters.  B is the set of      *)
(* requests blocked in Acquire.                                            *)

\* Blocked, and nobody has decided its fate yet.
Undecided(s, B, p) == p \in B /\ ~s.waiter[p].granted /\ s.waiter[p].done = <<>>

\* The queue holds exactly the undecided requests, none twice and none
\* cancelled; a channel holds one outcome at most; and it holds a grant that was
\* not received yet exactly if the waiter is marked as granted.
QueueInv(s, B) ==
  /\ IsInjective(s.item.queue)
  /\ \A p \in Request : Undecided(s, B, p) <=> Contains(s.item.queue, p)
  /\ \A p \in Request : Len(s.waiter[p].done) <= 1
  /\ \A p \in Request : Contains(s.item.queue, p) => ~s.waiter[p].cancelled
  /\ \A p \in B : s.waiter[p].granted <=> s.waiter[p].done = <<"granted">>

\* The numbers of the waiters, given out up to n, keep the order in which they
\* came: along the queue, and between the waiters granted and those who wait.
OrderInv(s, n) ==
  LET q      == s.item.queue
      num(p) == s.waiter[p].seq
  IN /\ \A p \in Request : num(p) <= n
     /\ \A i, j \in 1..Len(q) : i < j => num(q[i]) < num(q[j])
     /\ \A p, g \in Request : s.waiter[g].granted /\ Contains(q, p) => num(g) < num(p)
=============================================================================
