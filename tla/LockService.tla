------------------------------ MODULE LockService ------------------------------
(***************************************************************************)
(* The lock service of lockd (internal/lock/service.go, expirer.go) for    *)
(* one lock: goroutines that serve Acquire, Renew, Release, Steal and      *)
(* Delete, and the background expirer, all contending for the record.      *)
(*                                                                         *)
(* Granularity.  A call looks the record up and reads the clock BEFORE it  *)
(* locks item.mu; everything it does with item.mu held is one step, taken  *)
(* any number of other steps later.  So `now' may be stale and the record  *)
(* may have been deleted when the step is taken.  A blocked Acquire has    *)
(* three more steps: it receives an outcome from its done channel, or it   *)
(* sees its context done and then locks item.mu again.                     *)
(*                                                                         *)
(* Events and watchers are added by LockNotify, which conjoins to each     *)
(* action of this module what it broadcasts.  The metrics counters and the *)
(* record's version are left out: nothing reads them but the console.      *)
(***************************************************************************)
EXTENDS LockRecord

CONSTANTS
  CallOp,       \* the operations callers use, a subset of the five
  RefusedInput, \* do callers also send what is refused at the door (an empty
                \* holder, a context already done, a wrong force token)?
  TTLRequest,   \* TTLs asked for by callers; 0 means "none given"
  LastStart,    \* bound: no call starts later than this
  MaxClock      \* bound: the clock stops here

ASSUME ServiceAssumption ==
  /\ CallOp \subseteq {"acquire", "renew", "release", "steal", "delete"}
  /\ RefusedInput \in BOOLEAN
  /\ TTLRequest \subseteq Nat
  /\ LastStart \in Nat
  /\ MaxClock \in Nat \ {0}

VARIABLES
  clock,     \* time.Now()
  item,      \* the record
  waiter,    \* the waiter struct of each request, NoWaiter if it has none
  seq,       \* Service.seq, numbers the waiters
  pc,        \* where each request is
  call,      \* the locals of each running request
  reply,     \* what each finished request returned
  ctxDone,   \* the requests whose context is done
  expirer    \* the expirer goroutine: asleep, or scanning with a tick's time

vars == <<clock, item, waiter, seq, pc, call, reply, ctxDone, expirer>>

-----------------------------------------------------------------------------
\* idle: not started; enter: about to lock item.mu; wait: in Acquire's select;
\* abort: took the ctx.Done branch, about to lock item.mu; done: returned.
Place == {"idle", "enter", "wait", "abort", "done"}

Operation == {"none", "acquire", "renew", "release", "steal", "delete"}

ForceToken == {"none", "wrong", "right"}   \* the X-Force-Token presented

Call == [op : Operation, holder : Holder \cup {NoHolder}, token : Token,
         ttl : Nat, wait : BOOLEAN, force : ForceToken, now : Nat]

NoCall == [op |-> "none", holder |-> NoHolder, token |-> NoToken, ttl |-> 0,
           wait |-> FALSE, force |-> "none", now |-> 0]

Code == {"none", "acquired", "reentered", "locked", "renewed", "partial",
         "released", "repeated", "stolen", "deleted", "not_found", "invalid",
         "canceled", "wait_ended", "not_held", "token_invalid",
         "unauthorized", "internal"}

\* The code of the answer, and the token it is about: the one granted, or for
\* Renew and Release the one the caller presented.
Reply == [code : Code, token : Token]

NoReply == [code |-> "none", token |-> NoToken]

\* The type invariant: the record, the waiters' structs, the goroutines' locals
\* and the answers have the types Go gives them (times never before zero).
TypeOK ==
  /\ clock \in Nat
  /\ item \in Record
  /\ waiter \in [Request -> Waiter]
  /\ seq \in Nat
  /\ pc \in [Request -> Place]
  /\ call \in [Request -> Call]
  /\ reply \in [Request -> Reply]
  /\ ctxDone \in SUBSET Request
  /\ expirer \in [pc : {"sleep", "scan"}, now : Nat]

Init ==
  /\ clock = 1
  /\ item = NewRecord(1)
  /\ waiter = [p \in Request |-> NoWaiter]
  /\ seq = 0
  /\ pc = [p \in Request |-> "idle"]
  /\ call = [p \in Request |-> NoCall]
  /\ reply = [p \in Request |-> NoReply]
  /\ ctxDone = {}
  /\ expirer = [pc |-> "sleep", now |-> 0]

-----------------------------------------------------------------------------
(* Helpers.                                                                *)

State == [item |-> item, waiter |-> waiter]

\* The critical section leaves the record and the waiters in state s.
Becomes(s) == item' = s.item /\ waiter' = s.waiter

\* Request p returns to its caller.
Finish(p, code, token) ==
  /\ pc' = [pc EXCEPT ![p] = "done"]
  /\ call' = [call EXCEPT ![p] = NoCall]
  /\ reply' = [reply EXCEPT ![p] = [code |-> code, token |-> token]]

\* The common end of a critical section that answers the caller.
Answer(p, s, code, token) ==
  /\ Becomes(s)
  /\ Finish(p, code, token)
  /\ UNCHANGED <<clock, seq, ctxDone, expirer>>

\* registry.get finds the record unless it was removed; then time.Now() is read.
LookUp(p, c) ==
  /\ c.op \in CallOp
  /\ pc[p] = "idle"
  /\ clock <= LastStart
  /\ \/ /\ item.deleted
        /\ Finish(p, "not_found", c.token)
     \/ /\ ~item.deleted
        /\ pc' = [pc EXCEPT ![p] = "enter"]
        /\ call' = [call EXCEPT ![p] = [c EXCEPT !.now = clock]]
        /\ UNCHANGED reply
  /\ UNCHANGED <<clock, item, waiter, seq, ctxDone, expirer>>

\* The call returns before it looks anything up.
Refuse(p, code) ==
  /\ RefusedInput
  /\ pc[p] = "idle"
  /\ clock <= LastStart
  /\ Finish(p, code, NoToken)
  /\ UNCHANGED <<clock, item, waiter, seq, ctxDone, expirer>>

\* Request p has locked item.mu for operation op.
Enters(p, op) == pc[p] = "enter" /\ call[p].op = op

\* The tokens callers can present: those they were given, and none at all.
KnownToken ==
  {NoToken} \cup {t \in Request : reply[t].code \in {"acquired", "stolen"}}

-----------------------------------------------------------------------------
(* Acquire.                                                                *)

\* Entry: the holder is validated and a context already done is turned away.
StartAcquire(p) ==
  \E h \in Holder \cup {NoHolder}, ttl \in TTLRequest, wait \in BOOLEAN, gone \in BOOLEAN :
    \/ h = NoHolder /\ Refuse(p, "invalid")
    \/ h # NoHolder /\ gone /\ Refuse(p, "canceled")
    \/ /\ h # NoHolder /\ ~gone
       /\ LookUp(p, [NoCall EXCEPT !.op = "acquire", !.holder = h, !.ttl = ttl,
                                   !.wait = wait])

\* The record was deleted meanwhile, or the TTL is out of range.
AcquireRejected(p) ==
  /\ Enters(p, "acquire")
  /\ \/ item.deleted /\ Answer(p, State, "not_found", NoToken)
     \/ /\ ~item.deleted /\ ~ValidTTL(call[p].ttl)
        /\ Answer(p, State, "invalid", NoToken)

\* Mutant: the record is used although it was deleted after registry.get.
AcquireProceedsStale(p) == Enters(p, "acquire") /\ ValidTTL(call[p].ttl)

\* Otherwise Acquire goes on: it first expires the lease, which leaves state s
\* in the actions below.
AcquireProceeds(p) == Enters(p, "acquire") /\ ~item.deleted /\ ValidTTL(call[p].ttl)

Available(s) == s.item.token = NoToken /\ NoneActive(s.item.queue, s.waiter)

\* The lock is free and nobody waits.
AcquireFree(p) ==
  /\ AcquireProceeds(p)
  /\ \E s \in ExpireLocked(State, call[p].now) :
        /\ Available(s)
        /\ LET c == call[p] IN
           \/ Answer(p, [s EXCEPT !.item = AssignLease(@, c.holder, p, NormalTTL(c.ttl), c.now)],
                     "acquired", p)
           \/ RandMayFail /\ Answer(p, s, "internal", NoToken)

\* Mutant: the depth may exceed its limit by one.
AcquireReenterDeep(p) ==
  /\ AcquireProceeds(p)
  /\ \E s \in ExpireLocked(State, call[p].now) :
        /\ ~Available(s)
        /\ Reenters(s.item, call[p].holder)
        /\ s.item.depth <= MaxDepth
        /\ Answer(p, [s EXCEPT !.item = DeeperLease(@, NormalTTL(call[p].ttl), call[p].now)],
                  "reentered", s.item.token)

\* The caller is the holder of a reentrant lock.
AcquireReenter(p) ==
  /\ AcquireProceeds(p)
  /\ \E s \in ExpireLocked(State, call[p].now) :
        /\ ~Available(s)
        /\ Reenters(s.item, call[p].holder)
        /\ \/ /\ s.item.depth >= MaxDepth
              /\ Answer(p, s, "invalid", NoToken)
           \/ /\ s.item.depth < MaxDepth
              /\ Answer(p, [s EXCEPT !.item = DeeperLease(@, NormalTTL(call[p].ttl), call[p].now)],
                        "reentered", s.item.token)

\* The lock is taken and the caller does not want to wait.
AcquireLocked(p) ==
  /\ AcquireProceeds(p)
  /\ \E s \in ExpireLocked(State, call[p].now) :
        /\ ~Available(s)
        /\ ~Reenters(s.item, call[p].holder)
        /\ ~call[p].wait
        /\ Answer(p, s, "locked", NoToken)

\* The lock is taken and the caller waits: it joins the queue and unlocks.
AcquireEnqueue(p) ==
  /\ AcquireProceeds(p)
  /\ \E s \in ExpireLocked(State, call[p].now) :
        /\ ~Available(s)
        /\ ~Reenters(s.item, call[p].holder)
        /\ call[p].wait
        /\ seq' = seq + 1
        /\ item' = [s.item EXCEPT !.queue = Push(@, p)]
        /\ waiter' = [s.waiter EXCEPT ![p] =
                        NewWaiter(seq', call[p].holder, NormalTTL(call[p].ttl))]
        /\ pc' = [pc EXCEPT ![p] = "wait"]
        /\ call' = [call EXCEPT ![p] = NoCall]
        /\ UNCHANGED <<clock, reply, ctxDone, expirer>>

\* The select receives from w.done.
WaitOutcome(p) ==
  /\ pc[p] = "wait"
  /\ waiter[p].done # <<>>
  /\ waiter' = [waiter EXCEPT ![p].done = Tail(@)]
  /\ LET outcome == Head(waiter[p].done)
     IN IF outcome = "granted" THEN Finish(p, "acquired", p)
                               ELSE Finish(p, outcome, NoToken)
  /\ UNCHANGED <<clock, item, seq, ctxDone, expirer>>

\* The select takes the ctx.Done branch (even if w.done is ready as well).
WaitCtxDone(p) ==
  /\ pc[p] = "wait"
  /\ p \in ctxDone
  /\ pc' = [pc EXCEPT ![p] = "abort"]
  /\ UNCHANGED <<clock, item, waiter, seq, call, reply, ctxDone, expirer>>

\* Mutants of the end of a wait: a grant that came first is dropped; the waiter
\* stays in the queue; the goroutine waits to be told that it was cancelled.
AbortWaitDropsGrant(p) ==
  /\ pc[p] = "abort"
  /\ Answer(p, [item   |-> [item EXCEPT !.queue = RemoveFirst(@, p)],
                waiter |-> [waiter EXCEPT ![p] = CancelWaiter(@)]],
            "wait_ended", NoToken)
AbortWaitStays(p) ==
  /\ pc[p] = "abort"
  /\ \/ waiter[p].granted /\ Answer(p, State, "acquired", p)
     \/ ~waiter[p].granted /\ Answer(p, State, "wait_ended", NoToken)
AbortWaitForAnswer(p) ==
  /\ pc[p] = "abort"
  /\ waiter[p].done # <<>>
  /\ Answer(p, State, "wait_ended", NoToken)

\* It locks item.mu again: a grant that came first is kept, or the waiter is
\* cancelled and leaves the queue.
AbortWait(p) ==
  /\ pc[p] = "abort"
  /\ \/ /\ waiter[p].granted
        /\ Answer(p, State, "acquired", p)
     \/ /\ ~waiter[p].granted
        /\ Answer(p, [item   |-> [item EXCEPT !.queue = RemoveFirst(@, p)],
                      waiter |-> [waiter EXCEPT ![p] = CancelWaiter(@)]],
                  "wait_ended", NoToken)

\* The client disconnects or its wait timeout runs out.
CtxDone(p) ==
  /\ \/ pc[p] = "enter" /\ call[p].op = "acquire"
     \/ pc[p] = "wait"
  /\ p \notin ctxDone
  /\ ctxDone' = ctxDone \cup {p}
  /\ UNCHANGED <<clock, item, waiter, seq, pc, call, reply, expirer>>

-----------------------------------------------------------------------------
(* Renew.                                                                  *)

StartRenew(p) ==
  \E t \in KnownToken, ttl \in TTLRequest :
    LookUp(p, [NoCall EXCEPT !.op = "renew", !.token = t, !.ttl = ttl])

\* Deleted, free, or the lease has just been expired (and handed on).
RenewNotHeld(p) ==
  /\ Enters(p, "renew")
  /\ LET c == call[p] IN
     \/ item.deleted /\ Answer(p, State, "not_found", c.token)
     \/ /\ ~item.deleted /\ item.token = NoToken
        /\ Answer(p, State, "not_held", c.token)
     \/ /\ ~item.deleted /\ Expires(item, c.now)
        /\ \E s \in ExpireLocked(State, c.now) : Answer(p, s, "not_held", c.token)

RenewHeld(p) ==
  /\ Enters(p, "renew")
  /\ ~item.deleted /\ item.token # NoToken /\ ~Expires(item, call[p].now)
  /\ LET c == call[p] IN
     \/ /\ c.token # item.token
        /\ Answer(p, State, "token_invalid", c.token)
     \/ /\ c.token = item.token /\ ~ValidTTL(c.ttl)
        /\ Answer(p, State, "invalid", c.token)
     \/ /\ c.token = item.token /\ ValidTTL(c.ttl)
        /\ Answer(p, [State EXCEPT !.item.expiresAt = c.now + NormalTTL(c.ttl)],
                  "renewed", c.token)

-----------------------------------------------------------------------------
(* Release.                                                                *)

StartRelease(p) ==
  \E t \in KnownToken : LookUp(p, [NoCall EXCEPT !.op = "release", !.token = t])

\* Nothing to release: deleted, released before, or not held by this token.
ReleaseRefused(p) ==
  /\ Enters(p, "release")
  /\ LET t == call[p].token IN
     \/ item.deleted /\ Answer(p, State, "not_found", t)
     \/ /\ ~item.deleted /\ t \in item.releasedToken
        /\ Answer(p, State, "repeated", t)
     \/ /\ ~item.deleted /\ t \notin item.releasedToken
        /\ ~Expires(item, call[p].now)
        /\ \/ item.token = NoToken /\ Answer(p, State, "not_held", t)
           \/ /\ item.token # NoToken /\ t # item.token
              /\ Answer(p, State, "token_invalid", t)

\* The lease had expired before any scan saw it.
ReleaseExpired(p) ==
  /\ Enters(p, "release")
  /\ ~item.deleted
  /\ LET t == call[p].token IN
       /\ t \notin item.releasedToken
       /\ Expires(item, call[p].now)
       /\ \E s \in ExpireLocked(State, call[p].now) :
            Answer(p, s, IF t = item.token THEN "not_held" ELSE "token_invalid", t)

\* The token holds the lease: one level is given back, or the lease is cleared
\* and handed to the next waiter.
ReleaseHeld(p) ==
  /\ Enters(p, "release")
  /\ ~item.deleted
  /\ LET c == call[p] IN
       /\ c.token \notin item.releasedToken
       /\ ~Expires(item, c.now)
       /\ c.token # NoToken /\ c.token = item.token
       /\ \/ /\ item.depth > 1
             /\ Answer(p, [State EXCEPT !.item = ShallowerLease(@, c.now)], "partial", c.token)
          \/ /\ item.depth <= 1
             /\ \E s \in GrantNext([State EXCEPT !.item = ClearLease(@, c.now, TRUE)], c.now) :
                  Answer(p, s, "released", c.token)

-----------------------------------------------------------------------------
(* Steal and Delete.                                                       *)

StartSteal(p) ==
  \E h \in Holder \cup {NoHolder}, ttl \in TTLRequest, force \in ForceToken :
    \/ force # "right" /\ Refuse(p, "unauthorized")
    \/ force = "right" /\ h = NoHolder /\ Refuse(p, "invalid")
    \/ /\ force = "right" /\ h # NoHolder
       /\ LookUp(p, [NoCall EXCEPT !.op = "steal", !.holder = h, !.ttl = ttl, !.force = force])

\* Mutant: the lease is cleared before the TTL is looked at.
StealSectionClearsFirst(p) ==
  /\ Enters(p, "steal")
  /\ LET c       == call[p]
         cleared == [State EXCEPT !.item = ClearLease(@, c.now, FALSE)]
     IN \/ item.deleted /\ Answer(p, State, "not_found", NoToken)
        \/ /\ ~item.deleted /\ ~ValidTTL(c.ttl)
           /\ Answer(p, cleared, "invalid", NoToken)
        \/ /\ ~item.deleted /\ ValidTTL(c.ttl)
           /\ Answer(p, [cleared EXCEPT !.item =
                          AssignLease(@, c.holder, p, NormalTTL(c.ttl), c.now)],
                     "stolen", p)

\* The lease is cleared whoever has it, then assigned to the thief; the queue
\* stays.  When no token can be drawn the lock is left without a lease.
StealSection(p) ==
  /\ Enters(p, "steal")
  /\ LET c       == call[p]
         cleared == [State EXCEPT !.item = ClearLease(@, c.now, FALSE)]
     IN \/ item.deleted /\ Answer(p, State, "not_found", NoToken)
        \/ /\ ~item.deleted /\ ~ValidTTL(c.ttl)
           /\ Answer(p, State, "invalid", NoToken)
        \/ /\ ~item.deleted /\ ValidTTL(c.ttl)
           /\ \/ Answer(p, [cleared EXCEPT !.item =
                              AssignLease(@, c.holder, p, NormalTTL(c.ttl), c.now)],
                        "stolen", p)
              \/ RandMayFail /\ Answer(p, cleared, "internal", NoToken)

StartDelete(p) ==
  \E force \in {"none", "right"} \cup (IF RefusedInput THEN {"wrong"} ELSE {}) :
    LookUp(p, [NoCall EXCEPT !.op = "delete", !.force = force])

\* Delete does not look at item.deleted: the loser of two deletes learns from
\* registry.remove that the record is no longer registered.
DeleteSection(p) ==
  /\ Enters(p, "delete")
  /\ \/ call[p].force = "wrong" /\ Answer(p, State, "unauthorized", NoToken)
     \/ /\ call[p].force # "wrong"
        /\ \E s \in ExpireLocked(State, call[p].now) :
             \/ /\ s.item.token # NoToken /\ call[p].force # "right"
                /\ Answer(p, s, "locked", NoToken)
             \/ /\ s.item.token = NoToken \/ call[p].force = "right"
                /\ Answer(p, [CancelAll(s) EXCEPT !.item =
                                [ClearLease(@, call[p].now, FALSE) EXCEPT !.deleted = TRUE]],
                          IF item.deleted THEN "not_found" ELSE "deleted", NoToken)

-----------------------------------------------------------------------------
(* The expirer: the ticker's time is the `now' of the whole pass.          *)

\* Mutant: the time is read once, when the expirer is started.
ExpirerTickFrozen ==
  /\ expirer.pc = "sleep"
  /\ expirer' = [pc |-> "scan", now |-> 1]
  /\ UNCHANGED <<clock, item, waiter, seq, pc, call, reply, ctxDone>>

ExpirerTick ==
  /\ expirer.pc = "sleep"
  /\ expirer' = [pc |-> "scan", now |-> clock]
  /\ UNCHANGED <<clock, item, waiter, seq, pc, call, reply, ctxDone>>

\* An idle lock without waiters is purged once it was idle long enough.
Cleanup(s, now) ==
  /\ AutoCleanup > 0
  /\ Available(s)
  /\ now >= s.item.lastIdleAt + AutoCleanup

ExpirerScan ==
  /\ expirer.pc = "scan"
  /\ expirer' = [pc |-> "sleep", now |-> 0]
  /\ \/ item.deleted /\ UNCHANGED <<item, waiter>>
     \/ /\ ~item.deleted
        /\ \E s \in ExpireLocked(State, expirer.now) :
             \/ /\ Cleanup(s, expirer.now)
                /\ Becomes([s EXCEPT !.item.deleted = TRUE])
             \/ ~Cleanup(s, expirer.now) /\ Becomes(s)
  /\ UNCHANGED <<clock, seq, pc, call, reply, ctxDone>>

Tick ==
  /\ clock < MaxClock
  /\ clock' = clock + 1
  /\ UNCHANGED <<item, waiter, seq, pc, call, reply, ctxDone, expirer>>

-----------------------------------------------------------------------------
Start(p) ==
  StartAcquire(p) \/ StartRenew(p) \/ StartRelease(p) \/ StartSteal(p) \/ StartDelete(p)

Acquire(p) ==
  AcquireRejected(p) \/ AcquireFree(p) \/ AcquireReenter(p) \/ AcquireLocked(p)
  \/ AcquireEnqueue(p)

Renew(p) == RenewNotHeld(p) \/ RenewHeld(p)

Release(p) == ReleaseRefused(p) \/ ReleaseExpired(p) \/ ReleaseHeld(p)

Wait(p) == WaitOutcome(p) \/ WaitCtxDone(p) \/ AbortWait(p)

\* The steps of a goroutine that runs: everything but the start of its call.
Proceed(p) ==
  Acquire(p) \/ Wait(p) \/ Renew(p) \/ Release(p) \/ StealSection(p) \/ DeleteSection(p)

Next ==
  \/ \E p \in Request : Start(p) \/ Proceed(p) \/ CtxDone(p)
  \/ ExpirerTick
  \/ ExpirerScan
  \/ Tick

Spec == Init /\ [][Next]_vars

-----------------------------------------------------------------------------
(* Safety properties.                                                      *)

Blocked(p) == pc[p] \in {"wait", "abort"}

BlockedSet == {p \in Request : Blocked(p)}
Unanswered(p) == Undecided(State, BlockedSet, p)

\* The queue holds exactly the undecided waiters, each once: nobody who still
\* waits was forgotten, and nobody who gave up, was granted a lease or was told
\* of an error can be granted one (queue.go, and the two ends of Acquire's select).
QueueExact ==
  /\ \A p \in Request : Unanswered(p) <=> Contains(item.queue, p)
  /\ IsInjective(item.queue)

\* A done channel has room for one outcome and is sent to with item.mu held, so
\* a second send would block the lock for ever (waiter.go:28, queue.go:58).
SendNeverBlocks == \A p \in Request : Len(waiter[p].done) <= 1

\* Nobody waits in front of a free lock, whatever released, expired, stole or
\* deleted it (the callers of clearLease all hand on or empty the queue).
NoWaiterBehindFreeLock == item.token = NoToken => item.queue = <<>>

\* The depth is what the holders were told: one for the grant, one for every
\* re-entry answered, less the partial releases answered; and it is in bounds.
DepthCounts ==
  item.token # NoToken =>
    LET Told(code) == {p \in Request : reply[p] = [code |-> code, token |-> item.token]}
    IN /\ item.depth + Cardinality(Told("partial")) = 1 + Cardinality(Told("reentered"))
       /\ item.depth \in 1..MaxDepth

\* The lease belongs to a request that was answered with it, or that will be:
\* a grant racing the end of the wait is never lost (service.go:105-112).
LeaseReachesItsOwner ==
  item.token # NoToken =>
    LET p == item.token
    IN \/ reply[p].code \in {"acquired", "stolen"} /\ reply[p].token = p
       \/ Blocked(p) /\ waiter[p].granted

\* Only tokens given up by a Release are remembered as released, and none of
\* them holds the lock: expired and stolen tokens stay invalid (lease.go:62).
RememberedWereReleased ==
  \A t \in item.releasedToken :
    /\ t # item.token
    /\ \E p \in Request : reply[p] = [code |-> "released", token |-> t]

\* A record once deleted is never leased, waited for or revived, although calls
\* that looked it up before still hold it (service.go:60, expirer.go:36).
DeletedStaysDead ==
  [][item.deleted => /\ item'.deleted
                     /\ item'.token = NoToken
                     /\ item'.queue = <<>>]_vars

\* Nobody loses a lease before its time except by its own release, a steal or a
\* forced delete, even to a call with a stale `now'.
NoEarlyRevocation ==
  [][item.token # NoToken /\ item'.token # item.token =>
       \/ clock >= item.expiresAt
       \/ \E p \in Request :
            /\ pc[p] = "enter" /\ pc'[p] = "done"
            /\ \/ reply'[p] = [code |-> "released", token |-> item.token]
               \/ call[p].op = "steal"
               \/ call[p].op = "delete" /\ call[p].force = "right"]_vars

\* Waiters are served in the order of their sequence numbers: when one was
\* granted, no earlier one is still undecided (README: fair FIFO queueing).
NoOvertaking ==
  \A p, q \in Request :
    /\ waiter[q].granted
    /\ 0 < waiter[p].seq /\ waiter[p].seq < waiter[q].seq
    => ~Unanswered(p)

\* A newcomer gets the lock at once only when that passes nobody by.
NoBarging ==
  [][\A p \in Request :
       pc[p] = "enter" /\ pc'[p] = "done" /\ reply'[p].code = "acquired"
         => \A q \in Request : ~Unanswered(q)']_vars

\* A release that is retried is answered as a repetition (service.go:174), as
\* long as the lock exists.
RetriedReleaseIsRepeated ==
  [][\A p \in Request :
       /\ Enters(p, "release") /\ pc'[p] = "done" /\ ~item.deleted
       /\ \E q \in Request : reply[q] = [code |-> "released", token |-> call[p].token]
       => reply'[p].code = "repeated"]_vars

\* Acquire and Delete answer "lock is held" only when it is (errors.go:35).
LockedMeansHeld ==
  [][\A p \in Request :
       pc[p] = "enter" /\ pc'[p] = "done" /\ reply'[p].code = "locked"
         => item'.token # NoToken]_vars

\* A call that fails leaves the lease as it found it, unless it found that the
\* lease had expired: every check comes before the first assignment.  The one
\* exception is a Steal for which no token can be drawn (service.go:273-278).
Failure == {"not_found", "invalid", "canceled", "wait_ended", "not_held",
            "token_invalid", "locked", "unauthorized", "internal"}
FailureLeavesLease ==
  [][\A p \in Request :
       /\ pc[p] # "done" /\ pc'[p] = "done" /\ reply'[p].code \in Failure
       /\ ~(call[p].op = "steal" /\ reply'[p].code = "internal")
       => \/ /\ item'.holder = item.holder
             /\ item'.token = item.token
             /\ item'.depth = item.depth
             /\ item'.expiresAt = item.expiresAt
          \/ item.token # NoToken /\ clock >= item.expiresAt]_vars

\* No lease is created for a caller that has already disconnected
\* (service.go:50).  Not so: see the run that refutes it.
NoOrphanLease ==
  [][\A p \in ctxDone : item'.token = p => item.token = p]_vars

\* A deleted record has no lease and no queue, and in particular nothing that a
\* later step could hand on.
DeletedIsEmpty == item.deleted => item.token = NoToken /\ item.queue = <<>>

\* The times in use were read from the clock earlier; a request is answered once.
TimesArePast ==
  /\ \A p \in Request : pc[p] = "enter" => call[p].now <= clock
  /\ expirer.now <= clock
AnsweredOnce == \A p \in Request : pc[p] # "done" => reply[p] = NoReply

\* The inductive invariant behind the safety theorems of LockServiceProofs: what
\* the critical sections of service.go and expirer.go rely on and re-establish.
IInv ==
  /\ TypeOK
  /\ QueueInv(State, BlockedSet)
  /\ LeaseReachesItsOwner
  /\ DeletedIsEmpty
  /\ ~RandMayFail => NoWaiterBehindFreeLock
  /\ TimesArePast
  /\ AnsweredOnce

\* Request t was given the lease of token t, or will learn that it was.
Known(t) ==
  \/ t \in Request /\ reply[t].code \in {"acquired", "stolen"}
  \/ t \in BlockedSet /\ waiter[t].granted

\* Re-entries and releases that were answered are about tokens given before.
AnswersAboutKnown ==
  \A p \in Request :
    reply[p].code \in {"reentered", "partial", "released"} => Known(reply[p].token)

\* Calls start one at a time.
Started == {p \in Request : pc[p] # "idle"}

\* A record without a lease has nothing left of the last one.
FreeIsBlank ==
  item.token = NoToken =>
    item.holder = NoHolder /\ item.depth = 0 /\ item.expiresAt = ZeroTime

\* The inductive invariant, on top of IInv, behind the theorems about the past in
\* LockHistoryProofs: what the numbers of waiters and the answers given say of
\* the record.
HInv ==
  /\ FreeIsBlank
  /\ OrderInv(State, seq)
  /\ DepthCounts
  /\ RememberedWereReleased
  /\ AnswersAboutKnown
  /\ IsFiniteSet(Started)

-----------------------------------------------------------------------------
(* Liveness.  Goroutines that run are scheduled, time passes and the       *)
(* ticker fires; clients promise nothing.                                  *)

Fairness ==
  /\ \A p \in Request : WF_vars(Proceed(p))
  /\ WF_vars(ExpirerTick)
  /\ WF_vars(ExpirerScan)
  /\ WF_vars(Tick)

FairSpec == Spec /\ Fairness

\* A lease whose time has come ends, or is renewed by a call made before.
ExpiredLeaseEnds ==
  \A t \in Request :
    (item.token = t /\ clock >= item.expiresAt)
      ~> (item.token # t \/ clock < item.expiresAt)

\* Once the calls have dried up, who still waits does so behind a lease that
\* outlasts the clock's bound: nobody is stranded by a release, an expiry, a
\* steal or the end of another wait.
NoWaiterStranded ==
  \A p \in Request :
    <>[](Blocked(p) => item.token # NoToken /\ item.expiresAt > MaxClock)

\* Every call returns: it gets through its critical sections, and a wait ends once
\* the lock is deleted or the context is done (the HTTP handler gives every waiting
\* Acquire a deadline, handlers.go:169).
EveryCallReturns ==
  \A p \in Request :
    LET returned == pc[p] = "done"
        waiting  == pc[p] = "wait" /\ p \notin ctxDone /\ ~item.deleted
    IN pc[p] # "idle" ~> returned \/ waiting
=============================================================================
