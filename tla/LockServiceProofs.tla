--------------------------- MODULE LockServiceProofs ---------------------------
(***************************************************************************)
(* Proofs about LockService, for every value of its constants.  The        *)
(* inductive invariant is IInv; each critical section is shown to leave a  *)
(* state that is GoodState, and AnswerStep and its kin turn that into IInv'*)
(* for the shapes of action that LockService has.                          *)
(***************************************************************************)
EXTENDS LockService, LockRecordProofs

\* The owner of the lease in s, if there is one, knows it or will be told.
OwnerOK(s) ==
  LET t == s.item.token
  IN \/ t = NoToken
     \/ /\ t \in Request
        /\ reply[t].code \in {"acquired", "stolen"} /\ reply[t].token = t
     \/ t \in BlockedSet /\ s.waiter[t].granted

\* What the conjuncts of IInv say of one lock's state.
GoodState(s, B) ==
  /\ s \in LockState
  /\ QueueInv(s, B)
  /\ s.item.deleted => s.item.token = NoToken /\ s.item.queue = <<>>
  /\ ~RandMayFail => (s.item.token = NoToken => s.item.queue = <<>>)

\* The present state is good.
LEMMA StateIsGood ==
  ASSUME IInv
  PROVE  GoodState(State, BlockedSet) /\ OwnerOK(State)
<1>1. State.item = item /\ State.waiter = waiter
  BY DEF State
<1>2. State \in LockState
  BY DEF IInv, TypeOK, LockState, State
<1>3. OwnerOK(State)
  <2>1. item.token \in Token
    BY DEF IInv, TypeOK, Record
  <2>. QED
    BY <1>1, <2>1 DEF IInv, LeaseReachesItsOwner, OwnerOK, BlockedSet, Token
<1>. QED
  BY <1>1, <1>2, <1>3 DEF IInv, GoodState, DeletedIsEmpty, NoWaiterBehindFreeLock

\* So is every state that expireLocked makes of it.
LEMMA ExpiredIsGood ==
  ASSUME IInv, NEW now \in Nat, NEW s \in ExpireLocked(State, now)
  PROVE  /\ GoodState(s, BlockedSet) /\ OwnerOK(s)
         /\ s.item.deleted = item.deleted
<1>1. GoodState(State, BlockedSet) /\ OwnerOK(State) /\ State.item = item
  BY StateIsGood DEF State
<1>2. BlockedSet \in SUBSET Request
  BY DEF BlockedSet
<1>3. /\ s \in LockState
      /\ QueueInv(s, BlockedSet)
      /\ s.item.deleted = item.deleted
      /\ \/ s = State
         \/ Expires(item, now) /\ HandedOn(s, BlockedSet)
  BY <1>1, <1>2, ExpireLockedLemma DEF GoodState
<1>4. CASE s = State
  BY <1>1, <1>4
<1>5. CASE Expires(item, now) /\ HandedOn(s, BlockedSet)
  <2>1. ~item.deleted
    BY <1>5 DEF IInv, DeletedIsEmpty, Expires
  <2>2. NoToken \notin BlockedSet
    BY <1>2, RecordAssumption
  <2>3. s.item.token = NoToken => s.item.queue = <<>>
    BY <1>5, <2>2 DEF HandedOn
  <2>4. OwnerOK(s)
    BY <1>5 DEF HandedOn, OwnerOK
  <2>. QED
    BY <1>3, <2>1, <2>3, <2>4 DEF GoodState
<1>. QED
  BY <1>3, <1>4, <1>5

\* An action that answers request p after a critical section that left state s.
LEMMA AnswerStep ==
  ASSUME IInv, NEW p \in Request, pc[p] # "done",
         NEW s, NEW code \in Code, NEW token \in Token, Answer(p, s, code, token),
         GoodState(s, BlockedSet \ {p}),
         \/ OwnerOK(s) /\ s.item.token # p
         \/ s.item.token = p /\ code \in {"acquired", "stolen"} /\ token = p
  PROVE  IInv'
<1>1. /\ item' = s.item /\ waiter' = s.waiter
      /\ pc' = [pc EXCEPT ![p] = "done"]
      /\ call' = [call EXCEPT ![p] = NoCall]
      /\ reply' = [reply EXCEPT ![p] = [code |-> code, token |-> token]]
      /\ UNCHANGED <<clock, seq, ctxDone, expirer>>
  BY DEF Answer, Becomes, Finish
<1>2. /\ clock \in Nat /\ seq \in Nat /\ ctxDone \in SUBSET Request
      /\ pc \in [Request -> Place] /\ call \in [Request -> Call]
      /\ reply \in [Request -> Reply]
      /\ expirer \in [pc : {"sleep", "scan"}, now : Nat]
  BY DEF IInv, TypeOK
<1>3. NoCall \in Call /\ [code |-> code, token |-> token] \in Reply /\ "done" \in Place
  BY DEF NoCall, Call, Operation, Token, ForceToken, Reply, Place
<1>4. State' = s
  <2>1. s = [item |-> s.item, waiter |-> s.waiter]
    BY DEF GoodState, LockState
  <2>. QED
    BY <1>1, <2>1 DEF State
<1>5. BlockedSet' = BlockedSet \ {p}
  BY <1>1, <1>2 DEF BlockedSet, Blocked
<1>6. TypeOK'
  BY <1>1, <1>2, <1>3 DEF TypeOK, GoodState, LockState
<1>7. QueueInv(State, BlockedSet)'
  BY <1>4, <1>5 DEF GoodState
<1>8. LeaseReachesItsOwner'
  <2>1. ASSUME OwnerOK(s), s.item.token # p, s.item.token # NoToken
        PROVE  LeaseReachesItsOwner'
    BY <1>1, <1>2, <1>4, <1>5, <2>1 DEF OwnerOK, LeaseReachesItsOwner, BlockedSet
  <2>2. ASSUME s.item.token = p, code \in {"acquired", "stolen"}, token = p
        PROVE  LeaseReachesItsOwner'
    BY <1>1, <1>2, <2>2 DEF LeaseReachesItsOwner
  <2>. QED
    BY <1>1, <2>1, <2>2 DEF LeaseReachesItsOwner
<1>9. DeletedIsEmpty' /\ (~RandMayFail => NoWaiterBehindFreeLock')
  BY <1>1 DEF GoodState, DeletedIsEmpty, NoWaiterBehindFreeLock
<1>10. TimesArePast'
  BY <1>1, <1>2 DEF IInv, TimesArePast
<1>11. AnsweredOnce'
  BY <1>1, <1>2 DEF IInv, AnsweredOnce
<1>. QED
  BY <1>6, <1>7, <1>8, <1>9, <1>10, <1>11 DEF IInv

\* An answer to a request that had entered its critical section.
LEMMA EnteredAnswerStep ==
  ASSUME IInv, NEW p \in Request, pc[p] = "enter",
         NEW s, NEW code \in Code, NEW token \in Token, Answer(p, s, code, token),
         GoodState(s, BlockedSet),
         \/ OwnerOK(s)
         \/ s.item.token = p /\ code \in {"acquired", "stolen"} /\ token = p
  PROVE  IInv'
<1>1. BlockedSet \ {p} = BlockedSet /\ p \notin BlockedSet
  BY DEF BlockedSet, Blocked
<1>2. reply[p].code = "none" /\ p # NoToken
  BY RecordAssumption DEF IInv, AnsweredOnce, NoReply
<1>3. OwnerOK(s) => s.item.token # p
  BY <1>1, <1>2 DEF OwnerOK
<1>. QED
  BY <1>1, <1>3, AnswerStep

\* The record of a good state is changed but for its queue.
LEMMA UpdateIsGood ==
  ASSUME NEW s, NEW B, GoodState(s, B), NEW r \in Record,
         r.queue = s.item.queue,
         r.deleted => r.token = NoToken /\ r.queue = <<>>,
         ~RandMayFail => (r.token = NoToken => r.queue = <<>>)
  PROVE  LET t == [s EXCEPT !.item = r]
         IN GoodState(t, B) /\ t.item = r /\ t.waiter = s.waiter
<1>. DEFINE t == [s EXCEPT !.item = r]
<1>1. t \in LockState /\ t.item = r /\ t.waiter = s.waiter
  BY DEF GoodState, LockState
<1>. HIDE DEF t
<1>2. QueueInv(t, B)
  BY <1>1, QueueInvLemma DEF GoodState
<1>. QED
  BY <1>1, <1>2 DEF GoodState, t

\* The clock and the expirer's time are natural numbers.
LEMMA ExpirerType ==
  ASSUME IInv
  PROVE  expirer.now \in Nat /\ clock \in Nat
BY DEF IInv, TypeOK

\* What a request's locals are.
LEMMA CallType ==
  ASSUME IInv, NEW p \in Request
  PROVE  /\ call[p].holder \in AnyHolder /\ call[p].token \in Token
         /\ call[p].now \in Nat /\ call[p].ttl \in Nat /\ NormalTTL(call[p].ttl) \in Nat
         /\ p \in Token /\ NoToken \in Token
         /\ item \in Record /\ State.item = item /\ State.waiter = waiter
<1>1. DefaultTTL \in Nat
  BY RecordAssumption
<1>. QED
  BY <1>1 DEF IInv, TypeOK, Call, NormalTTL, Token, State, AnyHolder

\* The lease that Acquire and Steal give their caller.
LEMMA LeaseForCaller ==
  ASSUME IInv, NEW p \in Request, NEW r \in Record
  PROVE  LET a == AssignLease(r, call[p].holder, p, NormalTTL(call[p].ttl), call[p].now)
         IN /\ a \in Record
            /\ a.token = p
            /\ a.queue = r.queue
            /\ a.deleted = r.deleted
<1>. DEFINE h == call[p].holder
            n == call[p].now
            ttl == NormalTTL(call[p].ttl)
<1>1. h \in AnyHolder /\ n \in Nat /\ ttl \in Nat
  BY CallType
<1>. HIDE DEF h, n, ttl
<1>2. /\ AssignLease(r, h, p, ttl, n) \in Record
      /\ AssignLease(r, h, p, ttl, n).token = p
      /\ AssignLease(r, h, p, ttl, n).queue = r.queue
      /\ AssignLease(r, h, p, ttl, n).deleted = r.deleted
  BY <1>1, AssignLeaseLemma
<1>. QED
  BY <1>2 DEF h, n, ttl

-----------------------------------------------------------------------------
(* Acquire.                                                                *)

\* AcquireRejected answers and changes nothing (service.go:61-70).
LEMMA AcquireRejectedStep ==
  ASSUME IInv, NEW p \in Request, AcquireRejected(p) PROVE IInv'
<1>1. GoodState(State, BlockedSet) /\ OwnerOK(State)
  BY StateIsGood
<1>2. {"not_found", "invalid"} \subseteq Code /\ NoToken \in Token
  BY DEF Code, Token
<1>. QED
  BY <1>1, <1>2, EnteredAnswerStep DEF AcquireRejected, Enters

\* AcquireFree: the newcomer is the owner and is told so, or no token could be
\* drawn and the lock stays free (service.go:72-81).
LEMMA AcquireFreeStep ==
  ASSUME IInv, NEW p \in Request, AcquireFree(p) PROVE IInv'
<1>1. pc[p] = "enter" /\ ~item.deleted
  BY DEF AcquireFree, AcquireProceeds, Enters
<1>. DEFINE lease(s) == AssignLease(s.item, call[p].holder, p, NormalTTL(call[p].ttl), call[p].now)
<1>2. PICK s \in ExpireLocked(State, call[p].now) :
        \/ Answer(p, [s EXCEPT !.item = lease(s)], "acquired", p)
        \/ Answer(p, s, "internal", NoToken)
  BY DEF AcquireFree
<1>3. /\ GoodState(s, BlockedSet) /\ OwnerOK(s) /\ ~s.item.deleted
      /\ s.item \in Record
  BY <1>1, <1>2, CallType, ExpiredIsGood DEF GoodState, LockState
<1>4. CASE Answer(p, [s EXCEPT !.item = lease(s)], "acquired", p)
  <2>1. /\ lease(s) \in Record /\ lease(s).token = p
        /\ lease(s).queue = s.item.queue /\ lease(s).deleted = s.item.deleted
    BY <1>3, LeaseForCaller
  <2>2. p # NoToken
    BY RecordAssumption
  <2>. DEFINE r == lease(s)
              t == [s EXCEPT !.item = r]
  <2>. HIDE DEF r
  <2>3. GoodState(t, BlockedSet) /\ t.item = r
    BY <1>3, <2>1, <2>2, UpdateIsGood DEF r
  <2>4. Answer(p, t, "acquired", p)
    BY <1>4 DEF r
  <2>. HIDE DEF t
  <2>. QED
    BY <1>1, <2>1, <2>3, <2>4, CallType, EnteredAnswerStep DEF Code, r
<1>5. CASE Answer(p, s, "internal", NoToken)
  BY <1>1, <1>3, <1>5, CallType, EnteredAnswerStep DEF Code
<1>. QED
  BY <1>2, <1>4, <1>5

\* AcquireReenter keeps the owner and the queue (service.go:82-89).
LEMMA AcquireReenterStep ==
  ASSUME IInv, NEW p \in Request, AcquireReenter(p) PROVE IInv'
<1>1. pc[p] = "enter" /\ ~item.deleted
  BY DEF AcquireReenter, AcquireProceeds, Enters
<1>. DEFINE lease(s) == DeeperLease(s.item, NormalTTL(call[p].ttl), call[p].now)
<1>2. PICK s \in ExpireLocked(State, call[p].now) :
        /\ Reenters(s.item, call[p].holder)
        /\ \/ Answer(p, [s EXCEPT !.item = lease(s)], "reentered", s.item.token)
           \/ Answer(p, s, "invalid", NoToken)
  BY DEF AcquireReenter
<1>3. /\ GoodState(s, BlockedSet) /\ OwnerOK(s) /\ ~s.item.deleted
      /\ s.item \in Record /\ s.item.token \in Token /\ s.item.token # NoToken
  BY <1>1, <1>2, CallType, ExpiredIsGood DEF GoodState, LockState, Record, Reenters
<1>4. CASE Answer(p, [s EXCEPT !.item = lease(s)], "reentered", s.item.token)
  <2>1. /\ lease(s) \in Record /\ lease(s).token = s.item.token
        /\ lease(s).queue = s.item.queue /\ lease(s).deleted = s.item.deleted
    <3>1. /\ call[p].holder \in AnyHolder /\ call[p].now \in Nat
          /\ NormalTTL(call[p].ttl) \in Nat
      BY CallType
    <3>. QED
      BY <1>3, <3>1, SameLeaseLemma, Zenon
  <2>. DEFINE r == lease(s)
              t == [s EXCEPT !.item = r]
  <2>. HIDE DEF r
  <2>3. GoodState(t, BlockedSet) /\ t.item = r /\ t.waiter = s.waiter
    BY <1>3, <2>1, UpdateIsGood DEF r
  <2>4. Answer(p, t, "reentered", s.item.token)
    BY <1>4 DEF r
  <2>. HIDE DEF t
  <2>5. OwnerOK(t)
    BY <1>3, <2>1, <2>3 DEF OwnerOK, r
  <2>. QED
    BY <1>1, <1>3, <2>3, <2>4, <2>5, EnteredAnswerStep DEF Code
<1>5. CASE Answer(p, s, "invalid", NoToken)
  BY <1>1, <1>3, <1>5, CallType, EnteredAnswerStep DEF Code
<1>. QED
  BY <1>2, <1>4, <1>5

\* AcquireLocked changes nothing but what expireLocked did (service.go:90-94).
LEMMA AcquireLockedStep ==
  ASSUME IInv, NEW p \in Request, AcquireLocked(p) PROVE IInv'
<1>1. pc[p] = "enter"
  BY DEF AcquireLocked, AcquireProceeds, Enters
<1>2. PICK s \in ExpireLocked(State, call[p].now) : Answer(p, s, "locked", NoToken)
  BY DEF AcquireLocked
<1>3. GoodState(s, BlockedSet) /\ OwnerOK(s)
  BY <1>2, CallType, ExpiredIsGood
<1>. QED
  BY <1>1, <1>2, <1>3, CallType, EnteredAnswerStep DEF Code

\* AcquireEnqueue makes the caller blocked, undecided and queued at once
\* (service.go:95-98).
LEMMA AcquireEnqueueStep ==
  ASSUME IInv, NEW p \in Request, AcquireEnqueue(p) PROVE IInv'
<1>1. pc[p] = "enter" /\ ~item.deleted
  BY DEF AcquireEnqueue, AcquireProceeds, Enters
<1>. DEFINE w == NewWaiter(seq + 1, call[p].holder, NormalTTL(call[p].ttl))
<1>2. PICK s \in ExpireLocked(State, call[p].now) :
        /\ ~Available(s)
        /\ seq' = seq + 1
        /\ item' = [s.item EXCEPT !.queue = Push(@, p)]
        /\ waiter' = [s.waiter EXCEPT ![p] = w]
  BY DEF AcquireEnqueue
<1>3. /\ pc' = [pc EXCEPT ![p] = "wait"]
      /\ call' = [call EXCEPT ![p] = NoCall]
      /\ UNCHANGED <<clock, reply, ctxDone, expirer>>
  BY DEF AcquireEnqueue
<1>4. GoodState(s, BlockedSet) /\ OwnerOK(s) /\ ~s.item.deleted
  BY <1>1, <1>2, CallType, ExpiredIsGood
<1>5. /\ clock \in Nat /\ seq \in Nat /\ ctxDone \in SUBSET Request
      /\ pc \in [Request -> Place] /\ call \in [Request -> Call]
      /\ reply \in [Request -> Reply]
      /\ expirer \in [pc : {"sleep", "scan"}, now : Nat]
  BY DEF IInv, TypeOK
<1>6. NoCall \in Call /\ "wait" \in Place
  BY DEF NoCall, Call, Operation, Token, ForceToken, Place
<1>7. BlockedSet \in SUBSET Request /\ p \in Request \ BlockedSet
  BY <1>1 DEF BlockedSet, Blocked
<1>8. BlockedSet' = BlockedSet \cup {p}
  BY <1>3, <1>5 DEF BlockedSet, Blocked
<1>9. /\ State' \in LockState
      /\ QueueInv(State', BlockedSet \cup {p})
      /\ State'.item.token = s.item.token
      /\ State'.item.deleted = s.item.deleted
  <2>. DEFINE h == call[p].holder
              ttl == NormalTTL(call[p].ttl)
              n == seq + 1
  <2>1. n \in Nat /\ h \in AnyHolder /\ ttl \in Nat
    BY <1>5, CallType
  <2>. HIDE DEF h, ttl, n
  <2>2. s \in LockState /\ QueueInv(s, BlockedSet)
    BY <1>4 DEF GoodState
  <2>. DEFINE t == [item   |-> [s.item EXCEPT !.queue = Push(@, p)],
                    waiter |-> [s.waiter EXCEPT ![p] = NewWaiter(n, h, ttl)]]
  <2>3. /\ t \in LockState /\ QueueInv(t, BlockedSet \cup {p})
        /\ t.item.token = s.item.token /\ t.item.deleted = s.item.deleted
    BY <1>7, <2>1, <2>2, EnqueueLemma
  <2>4. State' = t
    BY <1>2 DEF State, h, ttl, n
  <2>. HIDE DEF t
  <2>. QED
    BY <2>3, <2>4
<1>10. State'.item = item' /\ State'.waiter = waiter'
  BY DEF State
<1>11. TypeOK'
  <2>1. item' \in Record /\ waiter' \in [Request -> Waiter]
    BY <1>9, <1>10 DEF LockState
  <2>2. seq' \in Nat
    BY <1>2, <1>5
  <2>. QED
    BY <1>3, <1>5, <1>6, <2>1, <2>2 DEF TypeOK
<1>12. QueueInv(State, BlockedSet)'
  BY <1>8, <1>9
<1>13. LeaseReachesItsOwner'
  <2>1. CASE item'.token = NoToken
    BY <2>1 DEF LeaseReachesItsOwner
  <2>2. CASE item'.token # NoToken
    <3>. DEFINE t == s.item.token
    <3>1. item'.token = t
      BY <1>9, <1>10
    <3>2. \/ t \in Request /\ reply[t].code \in {"acquired", "stolen"} /\ reply[t].token = t
          \/ t \in BlockedSet /\ s.waiter[t].granted
      BY <1>4, <2>2, <3>1 DEF OwnerOK
    <3>3. t \in BlockedSet => pc'[t] = pc[t] /\ waiter'[t] = s.waiter[t]
      BY <1>2, <1>3, <1>4, <1>5, <1>7 DEF GoodState, LockState
    <3>. HIDE DEF t
    <3>. QED
      BY <1>3, <3>1, <3>2, <3>3 DEF LeaseReachesItsOwner, BlockedSet, Blocked
  <2>. QED
    BY <2>1, <2>2
<1>14. DeletedIsEmpty'
  BY <1>4, <1>9, <1>10 DEF DeletedIsEmpty
<1>15. ~RandMayFail => NoWaiterBehindFreeLock'
  <2>1. ASSUME ~RandMayFail, s.item.token = NoToken PROVE FALSE
    <3>1. s.item.queue = <<>>
      BY <1>4, <2>1 DEF GoodState
    <3>2. NoneActive(s.item.queue, s.waiter)
      BY <3>1 DEF NoneActive
    <3>. QED
      BY <1>2, <2>1, <3>2 DEF Available
  <2>. QED
    BY <1>9, <1>10, <2>1 DEF NoWaiterBehindFreeLock
<1>16. TimesArePast'
  BY <1>3, <1>5 DEF IInv, TimesArePast
<1>17. AnsweredOnce'
  BY <1>1, <1>3, <1>5 DEF IInv, AnsweredOnce
<1>. QED
  BY <1>11, <1>12, <1>13, <1>14, <1>15, <1>16, <1>17 DEF IInv

\* The three ends of a wait answer the caller with a code that fits what is in
\* its channel and in its waiter.
LEMMA WaitAnswerStep ==
  ASSUME IInv, NEW p \in BlockedSet,
         NEW s \in LockState, NEW code \in Code, NEW token \in Token, Answer(p, s, code, token),
         s.item.token = item.token, s.item.deleted = item.deleted,
         \/ s.item.queue = item.queue /\ ~Contains(item.queue, p)
         \/ s.item.queue = RemoveFirst(item.queue, p),
         \A x \in Request \ {p} : s.waiter[x] = waiter[x],
         Len(s.waiter[p].done) <= 1,
         waiter[p].granted => code = "acquired" /\ token = p
  PROVE  IInv'
<1>1. GoodState(State, BlockedSet) /\ OwnerOK(State) /\ State.item = item /\ State.waiter = waiter
  BY StateIsGood DEF State
<1>2. p \in Request /\ pc[p] # "done" /\ BlockedSet \in SUBSET Request /\ p # NoToken
  BY RecordAssumption DEF BlockedSet, Blocked
<1>3. QueueInv(s, BlockedSet \ {p})
  BY <1>1, <1>2, LeaveLemma DEF GoodState
<1>4. item.queue = <<>> => s.item.queue = <<>>
  <2>1. item.queue = <<>> => RemoveFirst(item.queue, p) = <<>>
    BY EmptySeq DEF RemoveFirst
  <2>. QED
    BY <2>1
<1>5. GoodState(s, BlockedSet \ {p})
  BY <1>1, <1>3, <1>4 DEF GoodState
<1>6. CASE item.token = p
  <2>1. reply[p].code = "none"
    BY <1>2 DEF IInv, AnsweredOnce, NoReply
  <2>2. waiter[p].granted
    BY <1>1, <1>2, <1>6, <2>1 DEF OwnerOK
  <2>. QED
    BY <1>2, <1>5, <1>6, <2>2, AnswerStep
<1>7. CASE item.token # p
  <2>1. OwnerOK(s)
    BY <1>1, <1>7 DEF OwnerOK, BlockedSet
  <2>. QED
    BY <1>2, <1>5, <1>7, <2>1, AnswerStep
<1>. QED
  BY <1>6, <1>7

\* WaitOutcome: what is received from the channel decides the answer
\* (service.go:100-104).
LEMMA WaitOutcomeStep ==
  ASSUME IInv, NEW p \in Request, WaitOutcome(p) PROVE IInv'
<1>. DEFINE s == [item |-> item, waiter |-> [waiter EXCEPT ![p].done = Tail(@)]]
            o == Head(waiter[p].done)
<1>1. p \in BlockedSet
  BY DEF WaitOutcome, BlockedSet, Blocked
<1>2. /\ item \in Record /\ waiter \in [Request -> Waiter]
      /\ waiter[p].done \in Seq(Outcome) /\ waiter[p].done # <<>>
      /\ p \in Token /\ NoToken \in Token
  BY DEF IInv, TypeOK, Waiter, WaitOutcome, Token
<1>3. /\ o \in Outcome /\ Tail(waiter[p].done) \in Seq(Outcome)
      /\ Len(Tail(waiter[p].done)) = Len(waiter[p].done) - 1
  BY <1>2, HeadTailProperties
<1>4. Len(waiter[p].done) <= 1 /\ Len(waiter[p].done) \in Nat
  BY <1>2, LenProperties DEF IInv, QueueInv, State
<1>5. waiter[p].granted => o = "granted"
  <2>1. waiter[p].granted => waiter[p].done = <<"granted">>
    BY <1>1 DEF IInv, QueueInv, State
  <2>2. Head(<<"granted">>) = "granted"
    OBVIOUS
  <2>. QED
    BY <2>1, <2>2
<1>6. s.waiter[p] = [waiter[p] EXCEPT !.done = Tail(@)]
  BY <1>2
<1>7. [waiter[p] EXCEPT !.done = Tail(@)] \in Waiter
  <2>1. waiter[p] \in Waiter
    BY <1>2
  <2>. QED
    BY <1>3, <2>1, Zenon DEF Waiter
<1>8. s \in LockState
  BY <1>2, <1>6, <1>7 DEF LockState
<1>9. ~Contains(item.queue, p)
  BY <1>2 DEF IInv, QueueInv, Undecided, State
<1>10. s.waiter[p].done = Tail(waiter[p].done)
  <2>1. waiter[p] \in Waiter
    BY <1>2
  <2>. QED
    BY <1>6, <2>1 DEF Waiter
<1>11. \A x \in Request \ {p} : s.waiter[x] = waiter[x]
  BY <1>2
<1>12. /\ s.item = item /\ Len(s.waiter[p].done) <= 1
  BY <1>3, <1>4, <1>10
<1>13. \/ o = "granted" /\ Answer(p, s, "acquired", p)
       \/ o # "granted" /\ Answer(p, s, o, NoToken)
  BY DEF WaitOutcome, Answer, Becomes
<1>. HIDE DEF s, o
<1>14. (o # "granted" => o \in Code) /\ "acquired" \in Code
  BY <1>3 DEF Outcome, Code
<1>. QED
  BY <1>1, <1>2, <1>5, <1>8, <1>9, <1>11, <1>12, <1>13, <1>14, WaitAnswerStep

\* AbortWait: a grant that came first is answered, or the waiter leaves the
\* queue before it is blocked no more (service.go:105-120).
LEMMA AbortWaitStep ==
  ASSUME IInv, NEW p \in Request, AbortWait(p) PROVE IInv'
<1>1. p \in BlockedSet
  BY DEF AbortWait, BlockedSet, Blocked
<1>2. /\ item \in Record /\ waiter \in [Request -> Waiter]
      /\ p \in Token /\ NoToken \in Token /\ {"acquired", "wait_ended"} \subseteq Code
  BY DEF IInv, TypeOK, Token, Code
<1>3. Len(waiter[p].done) <= 1
  BY DEF IInv, QueueInv, State
<1>4. State \in LockState /\ State.item = item /\ State.waiter = waiter
  BY <1>2 DEF LockState, State
<1>5. CASE waiter[p].granted
  <2>1. ~Contains(item.queue, p)
    BY <1>5 DEF IInv, QueueInv, Undecided, State
  <2>2. Answer(p, State, "acquired", p)
    BY <1>5 DEF AbortWait
  <2>. QED
    BY <1>1, <1>2, <1>3, <1>4, <2>1, <2>2, WaitAnswerStep
<1>6. CASE ~waiter[p].granted
  <2>. DEFINE r == [item EXCEPT !.queue = RemoveFirst(@, p)]
              v == [waiter EXCEPT ![p] = CancelWaiter(@)]
              s == [item |-> r, waiter |-> v]
  <2>1. item.queue \in Seq(Request)
    BY <1>2 DEF Record
  <2>2. RemoveFirst(item.queue, p) \in Seq(Request)
    BY <2>1, RemoveFirstLemma
  <2>3. /\ r \in Record /\ r.queue = RemoveFirst(item.queue, p)
        /\ r.token = item.token /\ r.deleted = item.deleted
    BY <1>2, <2>2, Zenon DEF Record
  <2>4. waiter[p] \in Waiter /\ "internal" \in Outcome
    BY <1>2 DEF Outcome
  <2>5. CancelWaiter(waiter[p]) \in Waiter /\ CancelWaiter(waiter[p]).done = waiter[p].done
    BY <2>4, WaiterLemma
  <2>6. /\ v \in [Request -> Waiter] /\ v[p].done = waiter[p].done
        /\ \A x \in Request \ {p} : v[x] = waiter[x]
    BY <1>2, <2>5
  <2>7. Answer(p, s, "wait_ended", NoToken)
    BY <1>6 DEF AbortWait
  <2>. HIDE DEF r, v
  <2>8. s \in LockState /\ s.item = r /\ s.waiter = v
    BY <2>3, <2>6 DEF LockState
  <2>. HIDE DEF s
  <2>. QED
    BY <1>1, <1>2, <1>3, <1>6, <2>3, <2>6, <2>7, <2>8, WaitAnswerStep
<1>. QED
  BY <1>5, <1>6

-----------------------------------------------------------------------------
(* Renew and Release.                                                      *)

\* A call that answers with the state it found.
LEMMA NoChangeStep ==
  ASSUME IInv, NEW p \in Request, pc[p] = "enter",
         NEW code \in Code, NEW token \in Token, Answer(p, State, code, token)
  PROVE  IInv'
BY StateIsGood, EnteredAnswerStep

\* A call that fails after expireLocked.
LEMMA ExpiredStep ==
  ASSUME IInv, NEW p \in Request, pc[p] = "enter",
         NEW code \in Code, NEW token \in Token,
         NEW s \in ExpireLocked(State, call[p].now), Answer(p, s, code, token)
  PROVE  IInv'
BY CallType, ExpiredIsGood, EnteredAnswerStep

\* RenewNotHeld answers after expireLocked or before (service.go:137-146).
LEMMA RenewNotHeldStep ==
  ASSUME IInv, NEW p \in Request, RenewNotHeld(p) PROVE IInv'
<1>1. pc[p] = "enter" /\ {"not_found", "not_held"} \subseteq Code /\ call[p].token \in Token
  BY CallType DEF RenewNotHeld, Enters, Code
<1>2. CASE \E code \in {"not_found", "not_held"} : Answer(p, State, code, call[p].token)
  BY <1>1, <1>2, NoChangeStep
<1>3. CASE \E s \in ExpireLocked(State, call[p].now) : Answer(p, s, "not_held", call[p].token)
  BY <1>1, <1>3, ExpiredStep
<1>. QED
  BY <1>2, <1>3 DEF RenewNotHeld

\* The present record is changed, but for its token, its queue and its flag.
LEMMA SameLeaseStep ==
  ASSUME IInv, NEW p \in Request, pc[p] = "enter",
         NEW code \in Code, NEW token \in Token,
         NEW r \in Record, r.token = item.token, r.queue = item.queue, r.deleted = item.deleted,
         Answer(p, [State EXCEPT !.item = r], code, token)
  PROVE  IInv'
<1>. DEFINE t == [State EXCEPT !.item = r]
<1>1. GoodState(State, BlockedSet) /\ OwnerOK(State) /\ State.item = item
  BY StateIsGood DEF State
<1>2. GoodState(t, BlockedSet) /\ t.item = r /\ t.waiter = State.waiter
  <2>1. /\ item.deleted => item.token = NoToken /\ item.queue = <<>>
        /\ ~RandMayFail => (item.token = NoToken => item.queue = <<>>)
    BY <1>1 DEF GoodState
  <2>. QED
    BY <1>1, <2>1, UpdateIsGood
<1>. HIDE DEF t
<1>3. OwnerOK(t)
  BY <1>1, <1>2 DEF OwnerOK
<1>. QED
  BY <1>2, <1>3, EnteredAnswerStep DEF t

\* RenewHeld moves the end of the lease and nothing else (service.go:147-160).
LEMMA RenewHeldStep ==
  ASSUME IInv, NEW p \in Request, RenewHeld(p) PROVE IInv'
<1>1. /\ pc[p] = "enter" /\ {"token_invalid", "invalid", "renewed"} \subseteq Code
      /\ call[p].token \in Token
  BY CallType DEF RenewHeld, Enters, Code
<1>2. CASE \E code \in {"token_invalid", "invalid"} : Answer(p, State, code, call[p].token)
  BY <1>1, <1>2, NoChangeStep
<1>. DEFINE n == call[p].now
            ttl == NormalTTL(call[p].ttl)
            r == [item EXCEPT !.expiresAt = n + ttl]
<1>3. CASE Answer(p, [State EXCEPT !.item.expiresAt = n + ttl], "renewed", call[p].token)
  <2>1. item \in Record /\ ttl \in Nat /\ n \in Nat
    BY CallType
  <2>2. [State EXCEPT !.item.expiresAt = n + ttl] = [State EXCEPT !.item = r]
    BY DEF State
  <2>. HIDE DEF n, ttl
  <2>3. r \in Record /\ r.token = item.token /\ r.queue = item.queue /\ r.deleted = item.deleted
    BY <2>1, SameLeaseLemma
  <2>. HIDE DEF r
  <2>. QED
    BY <1>1, <1>3, <2>2, <2>3, SameLeaseStep
<1>. QED
  BY <1>2, <1>3 DEF RenewHeld

\* ReleaseRefused answers and changes nothing (service.go:171-194).
LEMMA ReleaseRefusedStep ==
  ASSUME IInv, NEW p \in Request, ReleaseRefused(p) PROVE IInv'
<1>1. /\ pc[p] = "enter" /\ call[p].token \in Token
      /\ {"not_found", "repeated", "not_held", "token_invalid"} \subseteq Code
  BY CallType DEF ReleaseRefused, Enters, Code
<1>2. \E code \in {"not_found", "repeated", "not_held", "token_invalid"} :
        Answer(p, State, code, call[p].token)
  BY DEF ReleaseRefused
<1>. QED
  BY <1>1, <1>2, NoChangeStep

\* ReleaseExpired: see ExpiredStep (service.go:180-186).
LEMMA ReleaseExpiredStep ==
  ASSUME IInv, NEW p \in Request, ReleaseExpired(p) PROVE IInv'
<1>1. /\ pc[p] = "enter" /\ call[p].token \in Token
      /\ {"not_held", "token_invalid"} \subseteq Code
  BY CallType DEF ReleaseExpired, Enters, Code
<1>2. \E s \in ExpireLocked(State, call[p].now), code \in {"not_held", "token_invalid"} :
        Answer(p, s, code, call[p].token)
  BY DEF ReleaseExpired
<1>. QED
  BY <1>1, <1>2, ExpiredStep

\* ReleaseHeld: a level less for the same owner, or the lock is handed on to
\* whoever comes first in the queue (service.go:195-208).
LEMMA ReleaseHeldStep ==
  ASSUME IInv, NEW p \in Request, ReleaseHeld(p) PROVE IInv'
<1>1. /\ pc[p] = "enter" /\ ~item.deleted /\ {"partial", "released"} \subseteq Code
      /\ call[p].token \in Token
  BY CallType DEF ReleaseHeld, Enters, Code
<1>. DEFINE n == call[p].now
            c == ClearLease(item, n, TRUE)
            u == [State EXCEPT !.item = c]
<1>2. \/ /\ item.depth > 1
         /\ Answer(p, [State EXCEPT !.item = ShallowerLease(item, n)], "partial", call[p].token)
      \/ \E s \in GrantNext(u, n) : Answer(p, s, "released", call[p].token)
  BY CallType DEF ReleaseHeld
<1>3. item \in Record /\ n \in Nat
  BY CallType
<1>4. CASE /\ item.depth > 1
           /\ Answer(p, [State EXCEPT !.item = ShallowerLease(item, n)], "partial", call[p].token)
  <2>. HIDE DEF n
  <2>. DEFINE r == ShallowerLease(item, n)
  <2>1. r \in Record /\ r.token = item.token /\ r.queue = item.queue /\ r.deleted = item.deleted
    BY <1>3, <1>4, RecordAssumption, SameLeaseLemma
  <2>2. Answer(p, [State EXCEPT !.item = r], "partial", call[p].token)
    BY <1>4
  <2>. HIDE DEF r
  <2>. QED
    BY <1>1, <2>1, <2>2, SameLeaseStep
<1>5. ASSUME NEW s \in GrantNext(u, n), Answer(p, s, "released", call[p].token)
      PROVE  IInv'
  <2>. HIDE DEF n
  <2>1. c \in Record /\ c.token = NoToken /\ c.queue = item.queue /\ c.deleted = item.deleted
    BY <1>3, ClearLeaseLemma
  <2>. HIDE DEF c
  <2>2. /\ GoodState(State, BlockedSet) /\ State.item = item
        /\ BlockedSet \in SUBSET Request /\ NoToken \notin BlockedSet
    BY StateIsGood, RecordAssumption DEF State, BlockedSet
  <2>3. u \in LockState /\ u.item = c /\ u.waiter = State.waiter
    BY <2>1, <2>2 DEF GoodState, LockState
  <2>4. QueueInv(u, BlockedSet)
    BY <2>1, <2>2, <2>3, QueueInvLemma DEF GoodState
  <2>5. s \in GrantNext(u, n)
    BY <1>5
  <2>. HIDE DEF u
  <2>6. /\ s \in LockState /\ QueueInv(s, BlockedSet)
        /\ s.item.deleted = u.item.deleted /\ HandedOn(s, BlockedSet)
    BY <1>3, <2>1, <2>2, <2>3, <2>4, <2>5, GrantNextLemma
  <2>7. GoodState(s, BlockedSet) /\ OwnerOK(s)
    BY <1>1, <2>1, <2>2, <2>3, <2>6 DEF GoodState, HandedOn, OwnerOK
  <2>. QED
    BY <1>1, <1>5, <2>7, EnteredAnswerStep
<1>. QED
  BY <1>2, <1>4, <1>5

-----------------------------------------------------------------------------
(* Steal, Delete and the expirer.                                          *)

\* StealSection: the thief owns the lock and is told so; without a token nobody
\* does, and the queue may stay behind a free lock (service.go:265-281).
LEMMA StealSectionStep ==
  ASSUME IInv, NEW p \in Request, StealSection(p) PROVE IInv'
<1>1. pc[p] = "enter" /\ {"not_found", "invalid", "stolen", "internal"} \subseteq Code
  BY DEF StealSection, Enters, Code
<1>2. p \in Token /\ NoToken \in Token /\ p # NoToken /\ item \in Record /\ State.item = item
  BY CallType, RecordAssumption
<1>. DEFINE c == ClearLease(item, call[p].now, FALSE)
            u == [State EXCEPT !.item = c]
            r == AssignLease(c, call[p].holder, p, NormalTTL(call[p].ttl), call[p].now)
<1>3. \/ \E code \in {"not_found", "invalid"} : Answer(p, State, code, NoToken)
      \/ ~item.deleted /\ Answer(p, [u EXCEPT !.item = r], "stolen", p)
      \/ ~item.deleted /\ RandMayFail /\ Answer(p, u, "internal", NoToken)
  <2>1. State.item = item /\ u.item = c
    BY DEF State
  <2>. QED
    BY <2>1 DEF StealSection
<1>4. /\ GoodState(State, BlockedSet) /\ OwnerOK(State)
      /\ (~RandMayFail => (item.token = NoToken => item.queue = <<>>))
  BY <1>2, StateIsGood DEF GoodState
<1>5. c \in Record /\ c.token = NoToken /\ c.queue = item.queue /\ c.deleted = item.deleted
  <2>1. call[p].now \in Nat
    BY CallType
  <2>. QED
    BY <1>2, <2>1, ClearLeaseLemma
<1>. HIDE DEF c
<1>6. r \in Record /\ r.token = p /\ r.queue = item.queue /\ r.deleted = item.deleted
  BY <1>5, LeaseForCaller
<1>. HIDE DEF r
<1>7. CASE \E code \in {"not_found", "invalid"} : Answer(p, State, code, NoToken)
  BY <1>1, <1>2, <1>7, NoChangeStep
<1>8. CASE ~item.deleted /\ Answer(p, [u EXCEPT !.item = r], "stolen", p)
  <2>. DEFINE t == [State EXCEPT !.item = r]
  <2>1. [u EXCEPT !.item = r] = t
    BY DEF State
  <2>2. GoodState(t, BlockedSet) /\ t.item = r
    BY <1>2, <1>4, <1>6, <1>8, UpdateIsGood
  <2>. HIDE DEF t, u
  <2>. QED
    BY <1>1, <1>2, <1>6, <1>8, <2>1, <2>2, EnteredAnswerStep
<1>9. CASE ~item.deleted /\ RandMayFail /\ Answer(p, u, "internal", NoToken)
  <2>1. GoodState(u, BlockedSet) /\ u.item = c
    BY <1>2, <1>4, <1>5, <1>9, UpdateIsGood
  <2>2. OwnerOK(u)
    BY <1>5, <2>1 DEF OwnerOK
  <2>. HIDE DEF u
  <2>. QED
    BY <1>1, <1>2, <1>9, <2>1, <2>2, EnteredAnswerStep
<1>. QED
  BY <1>3, <1>7, <1>8, <1>9

\* DeleteSection: every waiter is told, the queue and the lease go together
\* (service.go:287-312).
LEMMA DeleteSectionStep ==
  ASSUME IInv, NEW p \in Request, DeleteSection(p) PROVE IInv'
<1>1. /\ pc[p] = "enter" /\ NoToken \in Token
      /\ {"unauthorized", "locked", "not_found", "deleted"} \subseteq Code
  BY DEF DeleteSection, Enters, Code, Token
<1>. DEFINE dead(t) == [ClearLease(t.item, call[p].now, FALSE) EXCEPT !.deleted = TRUE]
<1>2. \/ Answer(p, State, "unauthorized", NoToken)
      \/ \E s \in ExpireLocked(State, call[p].now) :
           \/ Answer(p, s, "locked", NoToken)
           \/ \E code \in {"not_found", "deleted"} :
                Answer(p, [CancelAll(s) EXCEPT !.item = dead(CancelAll(s))], code, NoToken)
  BY DEF DeleteSection
<1>3. CASE Answer(p, State, "unauthorized", NoToken)
  BY <1>1, <1>3, NoChangeStep
<1>4. ASSUME NEW s \in ExpireLocked(State, call[p].now), Answer(p, s, "locked", NoToken)
      PROVE  IInv'
  BY <1>1, <1>4, ExpiredStep
<1>5. ASSUME NEW s \in ExpireLocked(State, call[p].now), NEW code \in {"not_found", "deleted"},
             Answer(p, [CancelAll(s) EXCEPT !.item = dead(CancelAll(s))], code, NoToken)
      PROVE  IInv'
  <2>. DEFINE t == CancelAll(s)
              c == ClearLease(t.item, call[p].now, FALSE)
              r == [c EXCEPT !.deleted = TRUE]
              u == [t EXCEPT !.item = r]
  <2>1. call[p].now \in Nat
    BY CallType
  <2>2. s \in LockState /\ QueueInv(s, BlockedSet) /\ BlockedSet \in SUBSET Request
    BY <2>1, ExpiredIsGood DEF GoodState, BlockedSet
  <2>3. t \in LockState /\ QueueInv(t, BlockedSet) /\ t.item.queue = <<>>
    BY <2>2, CancelAllLemma
  <2>4. Answer(p, u, code, NoToken)
    BY <1>5
  <2>. HIDE DEF t
  <2>5. t.item \in Record
    BY <2>3 DEF LockState
  <2>6. c \in Record /\ c.token = NoToken /\ c.queue = <<>>
    BY <2>1, <2>3, <2>5, ClearLeaseLemma
  <2>. HIDE DEF c
  <2>7. TRUE \in BOOLEAN
    OBVIOUS
  <2>8. r \in Record /\ r.token = NoToken /\ r.queue = <<>>
    BY <2>6, <2>7, Zenon DEF Record
  <2>. HIDE DEF r
  <2>9. u \in LockState /\ u.item = r /\ u.waiter = t.waiter
    BY <2>3, <2>8 DEF LockState
  <2>. HIDE DEF u
  <2>10. QueueInv(u, BlockedSet)
    BY <2>3, <2>8, <2>9, QueueInvLemma
  <2>11. GoodState(u, BlockedSet) /\ OwnerOK(u)
    BY <2>8, <2>9, <2>10 DEF GoodState, OwnerOK
  <2>. QED
    BY <1>1, <2>4, <2>11, EnteredAnswerStep
<1>. QED
  BY <1>2, <1>3, <1>4, <1>5

\* ExpirerScan: expireLocked, then a lock is deleted only when it is free and
\* nobody waits (expirer.go:23-45).
LEMMA ExpirerScanStep ==
  ASSUME IInv, ExpirerScan PROVE IInv'
<1>1. /\ expirer' = [pc |-> "sleep", now |-> 0]
      /\ UNCHANGED <<clock, seq, pc, call, reply, ctxDone>>
  BY DEF ExpirerScan
<1>. DEFINE n == expirer.now
<1>2. \/ Becomes(State)
      \/ \E s \in ExpireLocked(State, n) : Becomes(s)
      \/ \E s \in ExpireLocked(State, n) :
           Available(s) /\ Becomes([s EXCEPT !.item.deleted = TRUE])
  BY DEF ExpirerScan, Becomes, Cleanup, State
<1>3. \E t : GoodState(t, BlockedSet) /\ OwnerOK(t) /\ Becomes(t)
  <2>1. CASE Becomes(State)
    BY <2>1, StateIsGood
  <2>2. ASSUME NEW s \in ExpireLocked(State, n) PROVE GoodState(s, BlockedSet) /\ OwnerOK(s)
    BY ExpirerType, ExpiredIsGood
  <2>3. ASSUME NEW s \in ExpireLocked(State, n), Available(s),
               Becomes([s EXCEPT !.item.deleted = TRUE])
        PROVE  <1>3
    <3>. DEFINE r == [s.item EXCEPT !.deleted = TRUE]
                t == [s EXCEPT !.item = r]
    <3>1. GoodState(s, BlockedSet) /\ OwnerOK(s) /\ s.item \in Record /\ s.item.queue \in Seq(Request)
      BY <2>2 DEF GoodState, LockState, Record
    <3>2. TRUE \in BOOLEAN
      OBVIOUS
    <3>3. r \in Record /\ r.queue = s.item.queue /\ r.token = s.item.token
      BY <3>1, <3>2, Zenon DEF Record
    <3>4. s.item.token = NoToken
      BY <2>3 DEF Available
    <3>5. s.item.queue = <<>>
      <4>1. CASE Len(s.item.queue) = 0
        BY <3>1, <4>1, EmptySeq
      <4>2. CASE Len(s.item.queue) # 0
        <5>1. 1 \in 1..Len(s.item.queue) /\ s.item.queue[1] \in Request
          BY <3>1, <4>2, LenProperties, ElementOfSeq
        <5>2. s.waiter[s.item.queue[1]].cancelled
          BY <2>3, <5>1 DEF Available, NoneActive
        <5>3. ~s.waiter[s.item.queue[1]].cancelled
          BY <3>1, <5>1 DEF GoodState, QueueInv, Contains
        <5>. QED
          BY <5>2, <5>3
      <4>. QED
        BY <4>1, <4>2
    <3>6. [s EXCEPT !.item.deleted = TRUE] = t
      BY <3>1 DEF GoodState, LockState
    <3>. HIDE DEF r
    <3>7. GoodState(t, BlockedSet) /\ t.item = r
      BY <3>1, <3>3, <3>4, <3>5, UpdateIsGood
    <3>8. OwnerOK(t)
      BY <3>3, <3>4, <3>7 DEF OwnerOK
    <3>. QED
      BY <2>3, <3>6, <3>7, <3>8
  <2>. QED
    BY <1>2, <2>1, <2>2, <2>3
<1>4. PICK t : GoodState(t, BlockedSet) /\ OwnerOK(t) /\ Becomes(t)
  BY <1>3
<1>5. item' = t.item /\ waiter' = t.waiter /\ State' = t /\ BlockedSet' = BlockedSet
  <2>1. t = [item |-> t.item, waiter |-> t.waiter]
    BY <1>4 DEF GoodState, LockState
  <2>. QED
    BY <1>1, <1>4, <2>1 DEF Becomes, State, BlockedSet, Blocked
<1>6. TypeOK'
  <2>1. item' \in Record /\ waiter' \in [Request -> Waiter]
    BY <1>4, <1>5 DEF GoodState, LockState
  <2>2. expirer' \in [pc : {"sleep", "scan"}, now : Nat]
    BY <1>1
  <2>. QED
    BY <1>1, <2>1, <2>2 DEF IInv, TypeOK
<1>7. LeaseReachesItsOwner'
  BY <1>1, <1>4, <1>5 DEF OwnerOK, LeaseReachesItsOwner, BlockedSet, Blocked
<1>8. QueueInv(State, BlockedSet)' /\ DeletedIsEmpty' /\ (~RandMayFail => NoWaiterBehindFreeLock')
  BY <1>4, <1>5 DEF GoodState, DeletedIsEmpty, NoWaiterBehindFreeLock
<1>9. TimesArePast' /\ AnsweredOnce'
  <2>1. clock \in Nat
    BY ExpirerType
  <2>. QED
    BY <1>1, <2>1 DEF IInv, TimesArePast, AnsweredOnce
<1>. QED
  BY <1>6, <1>7, <1>8, <1>9 DEF IInv

-----------------------------------------------------------------------------
(* The steps that leave the lock alone.                                    *)

\* Neither the record nor a waiter changes, nobody starts or stops to be
\* blocked, and no answer that granted a lease is taken back.
LEMMA FrameStep ==
  ASSUME IInv, TypeOK', item' = item, waiter' = waiter, BlockedSet' = BlockedSet,
         \A q \in Request : reply[q].code \in {"acquired", "stolen"} => reply'[q] = reply[q],
         TimesArePast', AnsweredOnce'
  PROVE  IInv'
<1>1. State' = State
  BY DEF State
<1>2. QueueInv(State, BlockedSet)'
  BY <1>1 DEF IInv
<1>3. LeaseReachesItsOwner'
  <2>1. CASE item.token = NoToken
    BY <2>1 DEF LeaseReachesItsOwner
  <2>2. CASE item.token # NoToken
    <3>. DEFINE t == item.token
    <3>1. t \in Request
      BY <2>2 DEF IInv, TypeOK, Record, Token
    <3>2. \/ reply[t].code \in {"acquired", "stolen"} /\ reply[t].token = t
          \/ t \in BlockedSet /\ waiter[t].granted
      BY <2>2, <3>1 DEF IInv, LeaseReachesItsOwner, BlockedSet
    <3>3. t \in BlockedSet => Blocked(t)'
      BY DEF BlockedSet
    <3>. QED
      BY <3>1, <3>2, <3>3 DEF LeaseReachesItsOwner
  <2>. QED
    BY <2>1, <2>2
<1>4. DeletedIsEmpty' /\ (~RandMayFail => NoWaiterBehindFreeLock')
  BY DEF IInv, DeletedIsEmpty, NoWaiterBehindFreeLock
<1>. QED
  BY <1>2, <1>3, <1>4 DEF IInv

\* What stays typed when the clock does not move and the lock is left alone.
LEMMA TypesAtHand ==
  ASSUME IInv
  PROVE  /\ clock \in Nat /\ seq \in Nat /\ ctxDone \in SUBSET Request
         /\ item \in Record /\ waiter \in [Request -> Waiter]
         /\ pc \in [Request -> Place] /\ call \in [Request -> Call]
         /\ reply \in [Request -> Reply]
         /\ expirer \in [pc : {"sleep", "scan"}, now : Nat]
BY DEF IInv, TypeOK

\* An idle request is turned away before it has looked at the lock.
LEMMA TurnedAwayStep ==
  ASSUME IInv, NEW p \in Request, pc[p] = "idle",
         NEW code \in Code, NEW token \in Token, Finish(p, code, token),
         UNCHANGED <<clock, item, waiter, seq, ctxDone, expirer>>
  PROVE  IInv'
<1>1. NoCall \in Call /\ [code |-> code, token |-> token] \in Reply /\ "done" \in Place
  BY DEF NoCall, Call, Operation, Token, ForceToken, Reply, Place
<1>2. TypeOK'
  BY <1>1, TypesAtHand DEF TypeOK, Finish
<1>3. BlockedSet' = BlockedSet
  BY TypesAtHand DEF Finish, BlockedSet, Blocked
<1>4. reply[p].code = "none"
  BY DEF IInv, AnsweredOnce, NoReply
<1>5. \A q \in Request : reply[q].code \in {"acquired", "stolen"} => reply'[q] = reply[q]
  BY <1>4, TypesAtHand DEF Finish
<1>6. TimesArePast' /\ AnsweredOnce'
  BY TypesAtHand DEF Finish, IInv, TimesArePast, AnsweredOnce
<1>. QED
  BY <1>2, <1>3, <1>5, <1>6, FrameStep

\* Refuse: see TurnedAwayStep.
LEMMA RefuseStep ==
  ASSUME IInv, NEW p \in Request, NEW code \in Code, Refuse(p, code)
  PROVE  IInv'
<1>1. NoToken \in Token
  BY DEF Token
<1>. QED
  BY <1>1, TurnedAwayStep DEF Refuse

\* LookUp: the record is gone, or the clock is read and the call goes on.
LEMMA LookUpStep ==
  ASSUME IInv, NEW p \in Request, NEW c \in Call, LookUp(p, c)
  PROVE  IInv'
<1>1. pc[p] = "idle" /\ UNCHANGED <<clock, item, waiter, seq, ctxDone, expirer>>
  BY DEF LookUp
<1>2. CASE Finish(p, "not_found", c.token)
  <2>1. c.token \in Token /\ "not_found" \in Code
    BY DEF Call, Code
  <2>. QED
    BY <1>1, <1>2, <2>1, TurnedAwayStep
<1>3. CASE /\ pc' = [pc EXCEPT ![p] = "enter"]
           /\ call' = [call EXCEPT ![p] = [c EXCEPT !.now = clock]]
           /\ UNCHANGED reply
  <2>. DEFINE d == [c EXCEPT !.now = clock]
  <2>1. clock \in Nat
    BY ExpirerType
  <2>2. d \in Call /\ d.now = clock
    BY <2>1, Zenon DEF Call
  <2>. HIDE DEF d
  <2>3. TypeOK'
    BY <1>1, <1>3, <2>2, TypesAtHand DEF TypeOK, Place, d
  <2>4. BlockedSet' = BlockedSet
    BY <1>1, <1>3, TypesAtHand DEF BlockedSet, Blocked
  <2>5. TimesArePast' /\ AnsweredOnce'
    <3>1. call'[p] = d /\ \A q \in Request \ {p} : call'[q] = call[q] /\ pc'[q] = pc[q]
      BY <1>3, TypesAtHand DEF d
    <3>. QED
      BY <1>1, <1>3, <2>1, <2>2, <3>1, TypesAtHand DEF IInv, TimesArePast, AnsweredOnce
  <2>. QED
    BY <1>1, <1>3, <2>3, <2>4, <2>5, FrameStep
<1>. QED
  BY <1>2, <1>3 DEF LookUp

\* The five ways a call can start make a well-typed Call of what the caller
\* sent, or refuse it.
LEMMA StartStep ==
  ASSUME IInv, NEW p \in Request, Start(p) PROVE IInv'
<1>1. /\ NoCall \in Call
      /\ \A t \in KnownToken : t \in Token
      /\ \A ttl \in TTLRequest : ttl \in Nat
  BY ServiceAssumption DEF NoCall, Call, Operation, Token, ForceToken, KnownToken
<1>2. {"invalid", "canceled", "unauthorized"} \subseteq Code
  BY DEF Code
<1>3. /\ {"acquire", "renew", "release", "steal", "delete"} \subseteq Operation
      /\ {"none", "wrong", "right"} \subseteq ForceToken
  BY DEF Operation, ForceToken
<1>4. CASE StartAcquire(p)
  <2>1. PICK h \in Holder \cup {NoHolder}, ttl \in TTLRequest, wait \in BOOLEAN :
          \/ Refuse(p, "invalid")
          \/ Refuse(p, "canceled")
          \/ LookUp(p, [NoCall EXCEPT !.op = "acquire", !.holder = h, !.ttl = ttl, !.wait = wait])
    BY <1>4 DEF StartAcquire
  <2>. DEFINE c == [NoCall EXCEPT !.op = "acquire", !.holder = h, !.ttl = ttl, !.wait = wait]
  <2>2. ttl \in Nat /\ "acquire" \in Operation
    BY <1>1, <1>3
  <2>3. c \in Call
    BY <1>1, <2>2, Zenon DEF Call
  <2>. HIDE DEF c
  <2>. QED
    BY <1>2, <2>1, <2>3, RefuseStep, LookUpStep DEF c
<1>5. CASE StartRenew(p)
  <2>1. PICK t \in KnownToken, ttl \in TTLRequest :
          LookUp(p, [NoCall EXCEPT !.op = "renew", !.token = t, !.ttl = ttl])
    BY <1>5 DEF StartRenew
  <2>. DEFINE c == [NoCall EXCEPT !.op = "renew", !.token = t, !.ttl = ttl]
  <2>2. t \in Token /\ ttl \in Nat /\ "renew" \in Operation
    BY <1>1, <1>3
  <2>3. c \in Call
    BY <1>1, <2>2, Zenon DEF Call
  <2>. HIDE DEF c
  <2>. QED
    BY <2>1, <2>3, LookUpStep DEF c
<1>6. CASE StartRelease(p)
  <2>1. PICK t \in KnownToken : LookUp(p, [NoCall EXCEPT !.op = "release", !.token = t])
    BY <1>6 DEF StartRelease
  <2>. DEFINE c == [NoCall EXCEPT !.op = "release", !.token = t]
  <2>2. t \in Token /\ "release" \in Operation
    BY <1>1, <1>3
  <2>3. c \in Call
    BY <1>1, <2>2, Zenon DEF Call
  <2>. HIDE DEF c
  <2>. QED
    BY <2>1, <2>3, LookUpStep DEF c
<1>7. CASE StartSteal(p)
  <2>1. PICK h \in Holder \cup {NoHolder}, ttl \in TTLRequest, force \in ForceToken :
          \/ Refuse(p, "unauthorized")
          \/ Refuse(p, "invalid")
          \/ LookUp(p, [NoCall EXCEPT !.op = "steal", !.holder = h, !.ttl = ttl, !.force = force])
    BY <1>7 DEF StartSteal
  <2>. DEFINE c == [NoCall EXCEPT !.op = "steal", !.holder = h, !.ttl = ttl, !.force = force]
  <2>2. ttl \in Nat /\ "steal" \in Operation
    BY <1>1, <1>3
  <2>3. c \in Call
    BY <1>1, <2>2, Zenon DEF Call
  <2>. HIDE DEF c
  <2>. QED
    BY <1>2, <2>1, <2>3, RefuseStep, LookUpStep DEF c
<1>8. CASE StartDelete(p)
  <2>1. PICK force \in ForceToken :
          LookUp(p, [NoCall EXCEPT !.op = "delete", !.force = force])
    BY <1>3, <1>8 DEF StartDelete
  <2>. DEFINE c == [NoCall EXCEPT !.op = "delete", !.force = force]
  <2>2. "delete" \in Operation
    BY <1>3
  <2>3. c \in Call
    BY <1>1, <2>2, Zenon DEF Call
  <2>. HIDE DEF c
  <2>. QED
    BY <2>1, <2>3, LookUpStep DEF c
<1>. QED
  BY <1>4, <1>5, <1>6, <1>7, <1>8 DEF Start

\* A context is done, or the select of a blocked Acquire sees that it is.
LEMMA ContextStep ==
  ASSUME IInv, NEW p \in Request, CtxDone(p) \/ WaitCtxDone(p) PROVE IInv'
<1>1. UNCHANGED <<clock, item, waiter, seq, call, reply, expirer>>
  BY DEF CtxDone, WaitCtxDone
<1>2. CASE CtxDone(p)
  <2>1. ctxDone' \in SUBSET Request /\ pc' = pc
    BY <1>2, TypesAtHand DEF CtxDone
  <2>2. TypeOK' /\ TimesArePast' /\ AnsweredOnce' /\ BlockedSet' = BlockedSet
    BY <1>1, <2>1 DEF IInv, TypeOK, TimesArePast, AnsweredOnce, BlockedSet, Blocked
  <2>. QED
    BY <1>1, <2>2, FrameStep
<1>3. CASE WaitCtxDone(p)
  <2>1. pc[p] = "wait" /\ pc' = [pc EXCEPT ![p] = "abort"] /\ ctxDone' = ctxDone
    BY <1>3 DEF WaitCtxDone
  <2>2. TypeOK' /\ TimesArePast' /\ AnsweredOnce'
    BY <1>1, <2>1, TypesAtHand DEF IInv, TypeOK, TimesArePast, AnsweredOnce, Place
  <2>3. BlockedSet' = BlockedSet
    BY <2>1, TypesAtHand DEF BlockedSet, Blocked
  <2>. QED
    BY <1>1, <2>2, <2>3, FrameStep
<1>. QED
  BY <1>2, <1>3

\* Time passes, or the expirer's ticker fires.
LEMMA ClockStep ==
  ASSUME IInv, Tick \/ ExpirerTick PROVE IInv'
<1>1. UNCHANGED <<item, waiter, seq, pc, call, reply, ctxDone>>
  BY DEF Tick, ExpirerTick
<1>2. \/ clock' = clock + 1 /\ expirer' = expirer
      \/ clock' = clock /\ expirer' = [pc |-> "scan", now |-> clock]
  BY DEF Tick, ExpirerTick
<1>3. \A q \in Request : call[q].now \in Nat
  BY CallType
<1>4. TypeOK'
  BY <1>1, <1>2, TypesAtHand DEF TypeOK
<1>5. TimesArePast'
  <2>1. clock \in Nat /\ expirer.now \in Nat
    BY ExpirerType
  <2>. QED
    BY <1>1, <1>2, <1>3, <2>1 DEF IInv, TimesArePast
<1>6. AnsweredOnce' /\ BlockedSet' = BlockedSet
  BY <1>1 DEF IInv, AnsweredOnce, BlockedSet, Blocked
<1>. QED
  BY <1>1, <1>4, <1>5, <1>6, FrameStep

-----------------------------------------------------------------------------
(* The theorems.                                                           *)

\* A new lock without callers satisfies the inductive invariant.
LEMMA InitIsGood == Init => IInv
<1>. SUFFICES ASSUME Init PROVE IInv
  OBVIOUS
<1>1. item \in Record /\ item.token = NoToken /\ item.queue = <<>> /\ ~item.deleted
  BY EmptySeq DEF Init, NewRecord, Record, Token, ZeroTime
<1>2. waiter \in [Request -> Waiter] /\ \A p \in Request : waiter[p].done = <<>> /\ ~waiter[p].granted
  BY EmptySeq DEF Init, NoWaiter, Waiter
<1>3. TypeOK
  BY <1>1, <1>2 DEF Init, TypeOK, Place, NoCall, Call, Operation, ForceToken, Token, NoReply, Reply, Code
<1>4. BlockedSet = {}
  BY DEF Init, BlockedSet, Blocked
<1>5. QueueInv(State, BlockedSet)
  <2>1. IsInjective(item.queue) /\ \A p \in Request : ~Contains(item.queue, p)
    BY <1>1, EmptySeq DEF IsInjective, Contains
  <2>2. \A p \in Request : Len(waiter[p].done) <= 1
    BY <1>2, EmptySeq
  <2>. QED
    BY <1>4, <2>1, <2>2 DEF QueueInv, Undecided, State
<1>. QED
  BY <1>1, <1>3, <1>5 DEF Init, IInv, LeaseReachesItsOwner, DeletedIsEmpty,
                          NoWaiterBehindFreeLock, TimesArePast, AnsweredOnce

\* Every step keeps the inductive invariant: one lemma per action.
LEMMA StepIsGood == IInv /\ [Next]_vars => IInv'
<1>. SUFFICES ASSUME IInv, [Next]_vars PROVE IInv'
  OBVIOUS
<1>1. ASSUME NEW p \in Request, Acquire(p) PROVE IInv'
  BY <1>1, AcquireRejectedStep, AcquireFreeStep, AcquireReenterStep, AcquireLockedStep,
     AcquireEnqueueStep DEF Acquire
<1>2. ASSUME NEW p \in Request, Wait(p) PROVE IInv'
  BY <1>2, WaitOutcomeStep, ContextStep, AbortWaitStep DEF Wait
<1>3. ASSUME NEW p \in Request, Renew(p) PROVE IInv'
  BY <1>3, RenewNotHeldStep, RenewHeldStep DEF Renew
<1>4. ASSUME NEW p \in Request, Release(p) PROVE IInv'
  BY <1>4, ReleaseRefusedStep, ReleaseExpiredStep, ReleaseHeldStep DEF Release
<1>5. ASSUME NEW p \in Request, Start(p) \/ Proceed(p) \/ CtxDone(p) PROVE IInv'
  BY <1>1, <1>2, <1>3, <1>4, <1>5, StartStep, ContextStep, StealSectionStep, DeleteSectionStep
     DEF Proceed
<1>6. CASE UNCHANGED vars
  <2>1. State' = State /\ BlockedSet' = BlockedSet
    BY <1>6 DEF vars, State, BlockedSet, Blocked
  <2>. QED
    BY <1>6, <2>1 DEF vars, IInv, TypeOK, LeaseReachesItsOwner, Blocked, DeletedIsEmpty,
                      NoWaiterBehindFreeLock, TimesArePast, AnsweredOnce
<1>. QED
  BY <1>5, <1>6, ExpirerScanStep, ClockStep DEF Next

\* The inductive invariant holds of every reachable state: what each critical
\* section of service.go and expirer.go finds when it has locked the record.
THEOREM Invariance == Spec => []IInv
BY InitIsGood, StepIsGood, PTL DEF Spec

\* Records, waiters, locals and answers keep their types (types.go, waiter.go).
THEOREM TypeCorrect == Spec => []TypeOK
<1>1. IInv => TypeOK
  BY DEF IInv
<1>. QED
  BY <1>1, Invariance, PTL

\* The queue and the blocked Acquires agree: nobody is forgotten, and nobody who
\* is gone can be granted the lock (queue.go, service.go:95-120).
THEOREM QueueIsExact == Spec => []QueueExact
<1>1. IInv => QueueExact
  BY DEF IInv, QueueInv, QueueExact, Unanswered, State
<1>. QED
  BY <1>1, Invariance, PTL

\* No send on a done channel ever blocks with item.mu held (waiter.go:28).
THEOREM SendsNeverBlock == Spec => []SendNeverBlocks
<1>1. IInv => SendNeverBlocks
  BY DEF IInv, QueueInv, SendNeverBlocks, State
<1>. QED
  BY <1>1, Invariance, PTL

\* A lease is never lost between grantNextLocked and the waiter it is granted to
\* (service.go:105-112).
THEOREM LeasesReachOwners == Spec => []LeaseReachesItsOwner
<1>1. IInv => LeaseReachesItsOwner
  BY DEF IInv
<1>. QED
  BY <1>1, Invariance, PTL

\* While the random source works, nobody waits for a free lock.
THEOREM FreeLockHasNoWaiters ==
  ASSUME ~RandMayFail
  PROVE  Spec => []NoWaiterBehindFreeLock
<1>1. IInv => NoWaiterBehindFreeLock
  BY DEF IInv
<1>. QED
  BY <1>1, Invariance, PTL

-----------------------------------------------------------------------------
(* Two properties of single steps.                                         *)

\* expireLocked does nothing when the lease has not expired.
LEMMA NotExpired ==
  ASSUME NEW now, ~Expires(item, now), NEW s \in ExpireLocked(State, now)
  PROVE  s = State
BY DEF ExpireLocked, State

\* The end of a wait leaves everything of the record but its queue.
LEMMA WaitKeepsLease ==
  ASSUME IInv, NEW p \in Request, Wait(p)
  PROVE  item'.deleted = item.deleted /\ item'.token = item.token
<1>1. item \in Record
  BY DEF IInv, TypeOK
<1>2. CASE UNCHANGED item
  BY <1>2
<1>3. CASE item' = [item EXCEPT !.queue = RemoveFirst(@, p)]
  BY <1>1, <1>3 DEF Record
<1>. QED
  BY <1>2, <1>3 DEF Wait, WaitOutcome, WaitCtxDone, AbortWait, Answer, Becomes, State

\* No step revives a deleted record.
LEMMA DeletedStep ==
  ASSUME IInv, [Next]_vars, item.deleted PROVE item'.deleted
<1>1. item \in Record /\ State.item = item
  BY DEF IInv, TypeOK, State
<1>2. \A now : ~Expires(item, now)
  BY DEF IInv, DeletedIsEmpty, Expires
<1>3. ASSUME NEW p \in Request, Proceed(p) PROVE item'.deleted
  <2>1. CASE Wait(p)
    BY <2>1, WaitKeepsLease
  <2>2. CASE Acquire(p)
    BY <1>1, <2>2 DEF Acquire, AcquireRejected, AcquireFree, AcquireReenter, AcquireLocked,
                      AcquireEnqueue, AcquireProceeds, Answer, Becomes
  <2>3. CASE Renew(p)
    BY <1>1, <2>3 DEF Renew, RenewNotHeld, RenewHeld, Answer, Becomes
  <2>4. CASE Release(p)
    BY <1>1, <2>4 DEF Release, ReleaseRefused, ReleaseExpired, ReleaseHeld, Answer, Becomes
  <2>5. CASE StealSection(p)
    BY <1>1, <2>5 DEF StealSection, Answer, Becomes
  <2>6. CASE DeleteSection(p)
    <3>1. CASE item' = State.item
      BY <1>1, <3>1
    <3>2. ASSUME NEW s \in ExpireLocked(State, call[p].now), item' = s.item
          PROVE  item'.deleted
      BY <1>1, <1>2, <3>2, NotExpired
    <3>3. ASSUME NEW s \in ExpireLocked(State, call[p].now),
                 item' = [CancelAll(s) EXCEPT !.item =
                            [ClearLease(@, call[p].now, FALSE) EXCEPT !.deleted = TRUE]].item
          PROVE  item'.deleted
      <4>. DEFINE t == CancelAll(s)
                  c == ClearLease(t.item, call[p].now, FALSE)
      <4>1. call[p].now \in Nat
        BY CallType
      <4>2. s \in LockState /\ QueueInv(s, BlockedSet) /\ BlockedSet \in SUBSET Request
        BY <4>1, ExpiredIsGood DEF GoodState, BlockedSet
      <4>3. t \in LockState
        BY <4>2, CancelAllLemma
      <4>. HIDE DEF t
      <4>4. t.item \in Record
        BY <4>3 DEF LockState
      <4>5. c \in Record
        BY <4>1, <4>4, ClearLeaseLemma
      <4>6. item' = [c EXCEPT !.deleted = TRUE]
        BY <3>3, <4>3 DEF LockState, t
      <4>. HIDE DEF c
      <4>. QED
        BY <4>5, <4>6 DEF Record
    <3>. QED
      BY <2>6, <3>1, <3>2, <3>3 DEF DeleteSection, Answer, Becomes
  <2>. QED
    BY <1>3, <2>1, <2>2, <2>3, <2>4, <2>5, <2>6 DEF Proceed
<1>4. ASSUME NEW p \in Request, Start(p) \/ CtxDone(p) PROVE item' = item
  BY <1>4 DEF Start, StartAcquire, StartRenew, StartRelease, StartSteal, StartDelete,
              LookUp, Refuse, CtxDone
<1>5. CASE ExpirerScan \/ ExpirerTick \/ Tick \/ UNCHANGED vars
  BY <1>5 DEF ExpirerScan, ExpirerTick, Tick, vars
<1>. QED
  BY <1>3, <1>4, <1>5 DEF Next

\* Calls that found a record before it was deleted, and the expirer, cannot
\* lease it, queue on it or revive it (service.go:60, expirer.go:36).
THEOREM DeletedIsFinal == Spec => DeletedStaysDead
<1>1. IInv /\ IInv' /\ [Next]_vars =>
        [item.deleted => item'.deleted /\ item'.token = NoToken /\ item'.queue = <<>>]_vars
  BY DeletedStep DEF IInv, DeletedIsEmpty
<1>. QED
  BY <1>1, Invariance, PTL DEF Spec, DeletedStaysDead

\* Before its time a lease has not expired for any call, nor for the expirer:
\* the time a call read is never later than the clock.
LEMMA TimeIsNotUp ==
  ASSUME IInv, clock < item.expiresAt
  PROVE  /\ \A p \in Request : pc[p] = "enter" => ~Expires(item, call[p].now)
         /\ ~Expires(item, expirer.now)
<1>1. item.expiresAt \in Nat
  BY DEF IInv, TypeOK, Record
<1>2. \A p \in Request : call[p].now \in Nat
  BY CallType
<1>. QED
  BY <1>1, <1>2, ExpirerType DEF IInv, TimesArePast, Expires, LeaseExpired

\* Who takes a lease away before its time.
LEMMA RevocationStep ==
  ASSUME IInv, [Next]_vars,
         item.token # NoToken, item'.token # item.token, clock < item.expiresAt
  PROVE  \E p \in Request :
           /\ pc[p] = "enter" /\ pc'[p] = "done"
           /\ \/ reply'[p] = [code |-> "released", token |-> item.token]
              \/ call[p].op = "steal"
              \/ call[p].op = "delete" /\ call[p].force = "right"
<1>. DEFINE Goal == \E p \in Request :
           /\ pc[p] = "enter" /\ pc'[p] = "done"
           /\ \/ reply'[p] = [code |-> "released", token |-> item.token]
              \/ call[p].op = "steal"
              \/ call[p].op = "delete" /\ call[p].force = "right"
<1>1. item \in Record /\ State.item = item /\ State.waiter = waiter
  BY DEF IInv, TypeOK, State
<1>2. ASSUME NEW p \in Request, pc[p] = "enter", NEW s \in ExpireLocked(State, call[p].now)
      PROVE  s = State
  BY <1>2, TimeIsNotUp, NotExpired
<1>3. ASSUME NEW p \in Request, NEW s, NEW code, NEW token, Answer(p, s, code, token)
      PROVE  /\ item' = s.item
             /\ pc'[p] = "done" /\ reply'[p] = [code |-> code, token |-> token]
  BY <1>3, TypesAtHand DEF Answer, Becomes, Finish
<1>4. \A r : [State EXCEPT !.item = r].item = r
  BY DEF State
<1>5. ASSUME NEW p \in Request, NEW r, NEW code, NEW token,
             \/ Answer(p, State, code, token)
             \/ Answer(p, [State EXCEPT !.item = r], code, token),
             r.token = item.token
      PROVE  item'.token = item.token
  <2>1. CASE Answer(p, State, code, token)
    BY <1>1, <1>3, <2>1
  <2>2. CASE Answer(p, [State EXCEPT !.item = r], code, token)
    <3>1. item' = [State EXCEPT !.item = r].item
      BY <1>3, <2>2
    <3>. QED
      BY <1>4, <1>5, <3>1
  <2>. QED
    BY <1>5, <2>1, <2>2
<1>6. ASSUME NEW p \in Request, Proceed(p) PROVE Goal
  <2>1. CASE Wait(p)
    BY <2>1, WaitKeepsLease
  <2>2. CASE Acquire(p)
    <3>1. pc[p] = "enter"
      BY <2>2 DEF Acquire, AcquireRejected, AcquireFree, AcquireReenter, AcquireLocked,
                  AcquireEnqueue, AcquireProceeds, Enters
    <3>2. CASE AcquireRejected(p) \/ AcquireLocked(p)
      BY <1>1, <1>2, <1>3, <3>1, <3>2 DEF AcquireRejected, AcquireLocked
    <3>3. CASE AcquireFree(p)
      BY <1>1, <1>2, <3>1, <3>3 DEF AcquireFree, Available
    <3>4. CASE AcquireReenter(p)
      <4>1. PICK code, token :
              \/ Answer(p, State, code, token)
              \/ Answer(p, [State EXCEPT !.item =
                              DeeperLease(item, NormalTTL(call[p].ttl), call[p].now)], code, token)
        BY <1>1, <1>2, <3>1, <3>4 DEF AcquireReenter
      <4>2. DeeperLease(item, NormalTTL(call[p].ttl), call[p].now).token = item.token
        BY <1>1 DEF DeeperLease, Record
      <4>. QED
        BY <1>5, <4>1, <4>2
    <3>5. CASE AcquireEnqueue(p)
      <4>1. item' = [item EXCEPT !.queue = Push(@, p)]
        BY <1>1, <1>2, <3>1, <3>5 DEF AcquireEnqueue
      <4>. QED
        BY <1>1, <4>1 DEF Record
    <3>. QED
      BY <2>2, <3>2, <3>3, <3>4, <3>5 DEF Acquire
  <2>3. CASE Renew(p)
    <3>1. pc[p] = "enter"
      BY <2>3 DEF Renew, RenewNotHeld, RenewHeld, Enters
    <3>2. CASE RenewNotHeld(p)
      BY <1>1, <1>2, <1>3, <3>1, <3>2 DEF RenewNotHeld
    <3>3. CASE RenewHeld(p)
      <4>. DEFINE r == [item EXCEPT !.expiresAt = call[p].now + NormalTTL(call[p].ttl)]
      <4>1. r.token = item.token
        BY <1>1 DEF Record
      <4>2. \E code, token : Answer(p, State, code, token) \/ Answer(p, [State EXCEPT !.item = r], code, token)
        BY <3>3 DEF RenewHeld, State
      <4>. HIDE DEF r
      <4>. QED
        BY <1>5, <4>1, <4>2
    <3>. QED
      BY <2>3, <3>2, <3>3 DEF Renew
  <2>4. CASE Release(p)
    <3>1. pc[p] = "enter"
      BY <2>4 DEF Release, ReleaseRefused, ReleaseExpired, ReleaseHeld, Enters
    <3>2. CASE ReleaseRefused(p)
      BY <1>1, <1>3, <3>2 DEF ReleaseRefused
    <3>3. CASE ReleaseExpired(p)
      BY <3>1, <3>3, TimeIsNotUp DEF ReleaseExpired
    <3>4. CASE ReleaseHeld(p)
      <4>1. CASE Answer(p, [State EXCEPT !.item = ShallowerLease(item, call[p].now)],
                        "partial", call[p].token)
        <5>1. ShallowerLease(item, call[p].now).token = item.token
          BY <1>1 DEF ShallowerLease, Record
        <5>. QED
          BY <1>5, <4>1, <5>1
      <4>2. CASE \E s : Answer(p, s, "released", item.token)
        BY <1>3, <3>1, <4>2
      <4>. QED
        BY <1>1, <3>4, <4>1, <4>2 DEF ReleaseHeld
    <3>. QED
      BY <2>4, <3>2, <3>3, <3>4 DEF Release
  <2>5. CASE StealSection(p)
    BY <1>3, <2>5 DEF StealSection, Enters
  <2>6. CASE DeleteSection(p)
    <3>1. pc[p] = "enter" /\ call[p].op = "delete"
      BY <2>6 DEF DeleteSection, Enters
    <3>2. CASE \E code : Answer(p, State, code, NoToken)
      BY <1>1, <1>3, <3>2
    <3>3. CASE call[p].force = "right" /\ \E s, code : Answer(p, s, code, NoToken)
      BY <1>3, <3>1, <3>3
    <3>. QED
      BY <1>1, <1>2, <2>6, <3>1, <3>2, <3>3 DEF DeleteSection
  <2>. QED
    BY <1>6, <2>1, <2>2, <2>3, <2>4, <2>5, <2>6 DEF Proceed
<1>7. ASSUME NEW p \in Request, Start(p) \/ CtxDone(p) PROVE Goal
  BY <1>7 DEF Start, StartAcquire, StartRenew, StartRelease, StartSteal, StartDelete,
              LookUp, Refuse, CtxDone
<1>8. CASE ExpirerScan
  <2>1. \A s \in ExpireLocked(State, expirer.now) : s = State
    BY TimeIsNotUp, NotExpired
  <2>. QED
    BY <1>1, <1>8, <2>1 DEF ExpirerScan, Becomes, Record, State
<1>9. CASE ExpirerTick \/ Tick \/ UNCHANGED vars
  BY <1>9 DEF ExpirerTick, Tick, vars
<1>. QED
  BY <1>6, <1>7, <1>8, <1>9 DEF Next

\* A lease lasts until its time is up unless its owner releases it or an
\* administrator steals or deletes the lock; a stale `now' never shortens it.
THEOREM NoLeaseEndsEarly == Spec => NoEarlyRevocation
<1>1. IInv /\ [Next]_vars =>
        [item.token # NoToken /\ item'.token # item.token =>
           \/ clock >= item.expiresAt
           \/ \E p \in Request :
                /\ pc[p] = "enter" /\ pc'[p] = "done"
                /\ \/ reply'[p] = [code |-> "released", token |-> item.token]
                   \/ call[p].op = "steal"
                   \/ call[p].op = "delete" /\ call[p].force = "right"]_vars
  <2>1. IInv => clock \in Nat /\ item.expiresAt \in Nat
    BY DEF IInv, TypeOK, Record
  <2>. QED
    BY <2>1, RevocationStep
<1>. QED
  BY <1>1, Invariance, PTL DEF Spec, NoEarlyRevocation
=============================================================================
