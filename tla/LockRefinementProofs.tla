------------------------- MODULE LockRefinementProofs -------------------------
(***************************************************************************)
(* The proof that LockService implements FairLock, for every value of the  *)
(* constants with which the random source does not fail.  Critical sections*)
(* are sequences of operators on states; each operator is matched with the *)
(* change it makes to the abstract lock, and then each action with a step  *)
(* of FairLock.                                                            *)
(***************************************************************************)
EXTENDS LockRefinement, LockServiceProofs

Waits(place) == place \in {"wait", "abort"}

\* StatusOf, of a request at place, with this waiter, answered with code.
Fate(place, code, w) ==
  CASE code \in {"acquired", "stolen"} \/ (Waits(place) /\ w.granted) -> "served"
    [] Waits(place) /\ ~w.granted /\ w.done = <<>>                   -> "waiting"
    [] place \in {"idle", "enter"}                                   -> "new"
    [] OTHER                                                         -> "gone"

\* The abstract lock of state s, when the requests are at these places and have
\* had these answers.
View(s, places, replies) ==
  [owner   |-> s.item.token,
   waiting |-> s.item.queue,
   status  |-> [p \in Request |-> Fate(places[p], replies[p].code, s.waiter[p])]]

\* Only requests that returned have had an answer.
Answered(places, replies) ==
  \A p \in Request : places[p] # "done" => replies[p].code = "none"

\* At each place a request can only have fared in some ways.
LEMMA FateLemma ==
  ASSUME NEW place \in Place, NEW code, NEW w, place # "done" => code = "none"
  PROVE  /\ place \in {"idle", "enter"} => Fate(place, code, w) = "new"
         /\ Waits(place) => Fate(place, code, w) = IF w.granted THEN "served"
                                                   ELSE IF w.done = <<>> THEN "waiting"
                                                   ELSE "gone"
         /\ place = "done" => Fate(place, code, w) = IF code \in {"acquired", "stolen"}
                                                     THEN "served" ELSE "gone"
BY DEF Fate, Waits, Place

\* The refinement mapping is this view of the present state, and of the next.
LEMMA BarIsView ==
  /\ LockBar = View(State, pc, reply)
  /\ LockBar' = View(State', pc', reply')
<1>1. \A p \in Request : StatusOf(p) = Fate(pc[p], reply[p].code, waiter[p])
  BY DEF StatusOf, Fate, Waits, Blocked, Unanswered, Undecided, BlockedSet, State
<1>2. \A p \in Request : StatusOf(p)' = Fate(pc'[p], reply'[p].code, waiter'[p])
  BY DEF StatusOf, Fate, Waits, Blocked, Unanswered, Undecided, BlockedSet, State
<1>. QED
  BY <1>1, <1>2 DEF LockBar, View, State

\* A view has the shape of the abstract lock.
LEMMA ViewForm ==
  ASSUME NEW s, NEW places, NEW replies
  PROVE  View(s, places, replies) = [owner |-> s.item.token, waiting |-> s.item.queue,
                                     status |-> View(s, places, replies).status]
BY DEF View

\* The two ways in which a turn is passed on.
LEMMA PassOnLemma ==
  ASSUME NEW o, NEW w, NEW f
  PROVE  FL!PassOn([owner |-> o, waiting |-> w, status |-> f]) =
           IF w = <<>> THEN [owner |-> NoToken, waiting |-> w, status |-> f]
           ELSE [owner |-> Head(w), waiting |-> Tail(w),
                 status |-> [f EXCEPT ![Head(w)] = "served"]]
<1>. DEFINE l == [owner |-> o, waiting |-> w, status |-> f]
<1>1. CASE w = <<>>
  <2>1. FL!PassOn(l) = [l EXCEPT !.owner = NoToken]
    BY <1>1 DEF FL!PassOn
  <2>. QED
    BY <1>1, <2>1
<1>2. CASE w # <<>>
  BY <1>2 DEF FL!PassOn, FL!After
<1>. QED
  BY <1>1, <1>2

\* grantNextLocked, while the random source works, passes a lock that was
\* cleared on to the first waiter: nobody in the queue was cancelled.
LEMMA GrantIsPassOn ==
  ASSUME ~RandMayFail,
         NEW u \in LockState, NEW places \in [Request -> Place], NEW replies \in [Request -> Reply],
         Answered(places, replies),
         NEW B, B = {p \in Request : Waits(places[p])},
         QueueInv(u, B), u.item.token = NoToken, NEW now \in Nat, NEW t \in GrantNext(u, now)
  PROVE  View(t, places, replies) = FL!PassOn(View(u, places, replies))
<1>. DEFINE q == u.item.queue
<1>1. u.item \in Record /\ u.waiter \in [Request -> Waiter] /\ q \in Seq(Request)
  BY DEF LockState, Record
<1>2. Len(q) \in Nat /\ \A j \in 1..Len(q) : q[j] \in Request /\ ~u.waiter[q[j]].cancelled
  BY <1>1, LenProperties, ElementOfSeq DEF QueueInv, Contains
<1>3. PICK i \in StopAt(q, u.waiter) : t = PopTo(u, i, now)
  BY DEF GrantNext
<1>4. i = 1
  <2>1. i \in 1..(Len(q) + 1) /\ \A j \in 1..(i - 1) : u.waiter[q[j]].cancelled
    BY <1>3 DEF StopAt
  <2>. QED
    BY <1>2, <2>1
<1>5. ToldBefore(q, u.waiter, 1) = {}
  BY DEF ToldBefore
<1>6. CASE q = <<>>
  <2>1. t.item.token = NoToken /\ t.item.queue = <<>>
    BY <1>1, <1>3, <1>4, <1>6, EmptySeq, PopToLemma
  <2>2. \A p \in Request : t.waiter[p] = u.waiter[p]
    BY <1>3, <1>4, <1>5, <1>6, EmptySeq DEF PopTo
  <2>. QED
    BY <1>6, <2>1, <2>2 DEF View, FL!PassOn
<1>7. CASE q # <<>>
  <2>1. Len(q) >= 1 /\ 1 \in 1..Len(q) /\ q[1] = Head(q) /\ Head(q) \in Request
    BY <1>1, <1>2, <1>7, EmptySeq
  <2>2. /\ t.item.queue = Tail(q)
        /\ t.item.token = Head(q)
    BY <1>3, <1>4, <2>1 DEF PopTo, AssignLease
  <2>3. \A p \in Request : t.waiter[p] = IF p = Head(q) THEN GrantWaiter(u.waiter[p])
                                         ELSE u.waiter[p]
    BY <1>3, <1>4, <1>5, <2>1 DEF PopTo
  <2>4. Head(q) \in B
    BY <2>1 DEF QueueInv, Undecided, Contains
  <2>5. Fate(places[Head(q)], replies[Head(q)].code, t.waiter[Head(q)]) = "served"
    <3>1. u.waiter[Head(q)] \in Waiter /\ "granted" \in Outcome
      BY <1>1, <2>1 DEF Outcome
    <3>2. t.waiter[Head(q)].granted
      <4>1. t.waiter[Head(q)] = GrantWaiter(u.waiter[Head(q)])
        BY <2>1, <2>3
      <4>2. GrantWaiter(u.waiter[Head(q)]).granted = TRUE
        BY <3>1, WaiterLemma
      <4>. QED
        BY <4>1, <4>2
    <3>3. Waits(places[Head(q)]) /\ places[Head(q)] \in Place
      BY <2>1, <2>4
    <3>. HIDE DEF q
    <3>. QED
      BY <2>1, <3>2, <3>3, FateLemma DEF Answered, Waits
  <2>. DEFINE old == View(u, places, replies)
              new == View(t, places, replies)
  <2>6. old.waiting = q /\ q # <<>> /\ old.owner = NoToken
    BY <1>7 DEF View
  <2>7. new.owner = Head(q) /\ new.waiting = Tail(q)
    BY <2>2 DEF View
  <2>8. new.status = [old.status EXCEPT ![Head(q)] = "served"]
    BY <2>1, <2>3, <2>5 DEF View
  <2>9. FL!PassOn(old) = [owner |-> Head(q), waiting |-> Tail(q),
                          status |-> [old.status EXCEPT ![Head(q)] = "served"]]
    BY <2>6 DEF View, FL!PassOn, FL!After
  <2>. QED
    BY <2>7, <2>8, <2>9 DEF View
<1>. QED
  BY <1>6, <1>7

\* A lease that is cleared and handed on is a turn passed on.
LEMMA CededIsPassOn ==
  ASSUME ~RandMayFail, IInv, NEW now \in Nat, NEW b \in BOOLEAN,
         NEW s \in GrantNext([State EXCEPT !.item = ClearLease(item, now, b)], now)
  PROVE  View(s, pc, reply) = FL!PassOn(LockBar)
<1>. DEFINE c == ClearLease(item, now, b)
            u == [State EXCEPT !.item = c]
<1>1. /\ GoodState(State, BlockedSet) /\ State.item = item /\ State.waiter = waiter
      /\ pc \in [Request -> Place] /\ reply \in [Request -> Reply]
  BY StateIsGood, TypesAtHand DEF State
<1>2. s \in GrantNext(u, now)
  OBVIOUS
<1>3. c \in Record /\ c.token = NoToken /\ c.queue = item.queue
  BY <1>1, ClearLeaseLemma DEF GoodState, LockState
<1>. HIDE DEF c
<1>4. u \in LockState /\ u.item = c /\ u.waiter = waiter
  BY <1>1, <1>3 DEF GoodState, LockState, State
<1>. HIDE DEF u
<1>5. QueueInv(u, BlockedSet) /\ BlockedSet = {p \in Request : Waits(pc[p])}
  BY <1>1, <1>3, <1>4, QueueInvLemma DEF GoodState, BlockedSet, Blocked, Waits
<1>6. Answered(pc, reply)
  BY DEF Answered, IInv, AnsweredOnce, NoReply
<1>7. View(s, pc, reply) = FL!PassOn(View(u, pc, reply))
  BY <1>1, <1>2, <1>3, <1>4, <1>5, <1>6, GrantIsPassOn
<1>8. FL!PassOn(View(u, pc, reply)) = FL!PassOn(View(State, pc, reply))
  <2>. DEFINE fates == [p \in Request |-> Fate(pc[p], reply[p].code, waiter[p])]
              v == [owner |-> NoToken, waiting |-> item.queue, status |-> fates]
              w == [owner |-> item.token, waiting |-> item.queue, status |-> fates]
  <2>1. View(u, pc, reply) = v /\ View(State, pc, reply) = w
    BY <1>1, <1>3, <1>4 DEF View
  <2>. HIDE DEF fates
  <2>2. FL!PassOn(v) = FL!PassOn(w)
    <3>. DEFINE x == IF item.queue = <<>>
                     THEN [owner |-> NoToken, waiting |-> item.queue, status |-> fates]
                     ELSE [owner |-> Head(item.queue), waiting |-> Tail(item.queue),
                           status |-> [fates EXCEPT ![Head(item.queue)] = "served"]]
    <3>1. FL!PassOn(v) = x
      BY PassOnLemma
    <3>2. FL!PassOn(w) = x
      BY PassOnLemma
    <3>. QED
      BY <3>1, <3>2
  <2>. QED
    BY <2>1, <2>2
<1>. QED
  BY <1>7, <1>8, BarIsView

\* Such a lease leaves a well-typed state.
LEMMA CededIsGood ==
  ASSUME IInv, NEW now \in Nat, NEW b \in BOOLEAN,
         NEW s \in GrantNext([State EXCEPT !.item = ClearLease(item, now, b)], now)
  PROVE  s \in LockState /\ s.item.deleted = item.deleted
<1>. DEFINE c == ClearLease(item, now, b)
            u == [State EXCEPT !.item = c]
<1>1. /\ GoodState(State, BlockedSet) /\ State.item = item /\ State.waiter = waiter
      /\ BlockedSet \in SUBSET Request
  BY StateIsGood DEF State, BlockedSet
<1>2. s \in GrantNext(u, now)
  OBVIOUS
<1>3. c \in Record /\ c.token = NoToken /\ c.queue = item.queue /\ c.deleted = item.deleted
  BY <1>1, ClearLeaseLemma DEF GoodState, LockState
<1>. HIDE DEF c
<1>4. u \in LockState /\ u.item = c /\ u.waiter = State.waiter
  BY <1>1, <1>3 DEF GoodState, LockState
<1>. HIDE DEF u
<1>5. QueueInv(u, BlockedSet)
  BY <1>1, <1>3, <1>4, QueueInvLemma DEF GoodState
<1>. QED
  BY <1>1, <1>2, <1>3, <1>4, <1>5, GrantNextLemma

\* expireLocked lets the turn of an owner lapse, or does nothing.
LEMMA ExpireIsLapse ==
  ASSUME ~RandMayFail, IInv, NEW now \in Nat, NEW s \in ExpireLocked(State, now)
  PROVE  View(s, pc, reply) \in FL!Lapsed(LockBar)
<1>1. CASE ~Expires(item, now)
  BY <1>1, NotExpired, BarIsView DEF FL!Lapsed
<1>2. CASE Expires(item, now)
  <2>1. s \in GrantNext([State EXCEPT !.item = ClearLease(item, now, FALSE)], now)
    BY <1>2 DEF ExpireLocked, State
  <2>2. View(s, pc, reply) = FL!PassOn(LockBar)
    BY <2>1, CededIsPassOn
  <2>3. LockBar.owner # NoToken
    BY <1>2 DEF LockBar, Expires
  <2>. QED
    BY <2>2, <2>3 DEF FL!Lapsed
<1>. QED
  BY <1>1, <1>2

\* A call that has entered its critical section is new; the answer it gets
\* decides how it fared.
LEMMA AnswerView ==
  ASSUME IInv, NEW p \in Request, pc[p] = "enter",
         NEW s \in LockState, NEW code, NEW token, Answer(p, s, code, token)
  PROVE  LET l    == View(s, pc, reply)
             fate == IF code \in {"acquired", "stolen"} THEN "served" ELSE "gone"
         IN /\ l.status[p] = "new"
            /\ l.owner = s.item.token /\ l.waiting = s.item.queue
            /\ LockBar' = [owner |-> s.item.token, waiting |-> s.item.queue,
                           status |-> [l.status EXCEPT ![p] = fate]]
            /\ item'.deleted = s.item.deleted
<1>1. /\ item' = s.item /\ waiter' = s.waiter
      /\ pc' = [pc EXCEPT ![p] = "done"]
      /\ reply' = [reply EXCEPT ![p] = [code |-> code, token |-> token]]
  BY DEF Answer, Becomes, Finish
<1>2. /\ pc \in [Request -> Place] /\ reply \in [Request -> Reply]
      /\ \A q \in Request : pc[q] # "done" => reply[q].code = "none"
  BY DEF IInv, TypeOK, AnsweredOnce, NoReply
<1>. DEFINE f(q) == Fate(pc[q], reply[q].code, s.waiter[q])
            g(q) == Fate(pc'[q], reply'[q].code, waiter'[q])
            fate == IF code \in {"acquired", "stolen"} THEN "served" ELSE "gone"
<1>3. f(p) = "new"
  BY <1>2, FateLemma
<1>4. g(p) = fate
  <2>1. pc'[p] = "done" /\ reply'[p].code = code
    BY <1>1, <1>2
  <2>. QED
    BY <2>1, FateLemma DEF Place
<1>5. \A q \in Request \ {p} : g(q) = f(q)
  BY <1>1, <1>2
<1>6. LockBar' = [owner |-> item'.token, waiting |-> item'.queue, status |-> [q \in Request |-> g(q)]]
  BY BarIsView DEF View, State
<1>7. View(s, pc, reply) = [owner |-> s.item.token, waiting |-> s.item.queue,
                            status |-> [q \in Request |-> f(q)]]
  BY DEF View
<1>. HIDE DEF f, g, fate
<1>8. LockBar' = [owner |-> s.item.token, waiting |-> s.item.queue,
                  status |-> [View(s, pc, reply).status EXCEPT ![p] = fate]]
  BY <1>1, <1>4, <1>5, <1>6, <1>7
<1>. QED
  BY <1>1, <1>3, <1>7, <1>8 DEF fate

\* A call that fails, or that does no more to the lock than let a turn lapse.
LEMMA FailsIsPass ==
  ASSUME IInv, NEW p \in Request, pc[p] = "enter",
         NEW s \in LockState, NEW code, NEW token, Answer(p, s, code, token),
         code \notin {"acquired", "stolen"}, s.item.deleted = item.deleted,
         NEW l \in FL!Lapsed(LockBar), View(s, pc, reply) = l
  PROVE  FL!Pass
<1>1. /\ l.status[p] = "new"
      /\ l.owner = s.item.token /\ l.waiting = s.item.queue
      /\ LockBar' = FL!After(l, l.owner, l.waiting, p, "gone")
  BY AnswerView DEF FL!After
<1>2. item'.deleted = item.deleted
  BY AnswerView
<1>. QED
  BY <1>1, <1>2 DEF FL!Pass

\* A call that fails with the record as it found it.
LEMMA NoChangeIsPass ==
  ASSUME IInv, NEW p \in Request, pc[p] = "enter",
         NEW code, NEW token, Answer(p, State, code, token), code \notin {"acquired", "stolen"}
  PROVE  FL!Pass
<1>1. State \in LockState /\ State.item = item
  BY StateIsGood, CallType DEF GoodState
<1>2. LockBar \in FL!Lapsed(LockBar) /\ View(State, pc, reply) = LockBar
  BY BarIsView DEF FL!Lapsed
<1>. QED
  BY <1>1, <1>2, FailsIsPass

\* A call that fails after expireLocked.
LEMMA ExpiredIsPass ==
  ASSUME ~RandMayFail, IInv, NEW p \in Request, pc[p] = "enter",
         NEW s \in ExpireLocked(State, call[p].now),
         NEW code, NEW token, Answer(p, s, code, token), code \notin {"acquired", "stolen"}
  PROVE  FL!Pass
<1>1. s \in LockState /\ s.item.deleted = item.deleted
  BY CallType, ExpiredIsGood DEF GoodState
<1>2. View(s, pc, reply) \in FL!Lapsed(LockBar)
  BY CallType, ExpireIsLapse, BarIsView
<1>. QED
  BY <1>1, <1>2, FailsIsPass

\* Two states with the same waiters differ in their owner and queue only.
LEMMA ViewLemma ==
  ASSUME NEW s, NEW t, t.waiter = s.waiter, NEW places, NEW replies
  PROVE  View(t, places, replies) =
           [owner |-> t.item.token, waiting |-> t.item.queue,
            status |-> View(s, places, replies).status]
<1>. DEFINE f == [p \in Request |-> Fate(places[p], replies[p].code, s.waiter[p])]
<1>1. /\ View(s, places, replies) =
           [owner |-> s.item.token, waiting |-> s.item.queue, status |-> f]
      /\ View(t, places, replies) =
           [owner |-> t.item.token, waiting |-> t.item.queue, status |-> f]
  BY DEF View
<1>. HIDE DEF f
<1>. QED
  BY <1>1

\* A critical section that changes the record's times or depth, but neither its
\* token nor its queue, does not change the abstract lock.
LEMMA SameView ==
  ASSUME NEW s \in LockState, NEW r \in Record,
         r.token = s.item.token, r.queue = s.item.queue, r.deleted = s.item.deleted
  PROVE  LET t == [s EXCEPT !.item = r]
         IN /\ t \in LockState
            /\ t.item.deleted = s.item.deleted
            /\ \A places, replies : View(t, places, replies) = View(s, places, replies)
<1>. DEFINE t == [s EXCEPT !.item = r]
<1>1. t \in LockState /\ t.item = r /\ t.waiter = s.waiter
  BY DEF LockState
<1>. HIDE DEF t
<1>. QED
  BY <1>1 DEF View, t

-----------------------------------------------------------------------------
(* Acquire.                                                                *)

\* AcquireFree: Take, or Pass when no token can be drawn.
LEMMA AcquireFreeIsTake ==
  ASSUME ~RandMayFail, IInv, NEW p \in Request, AcquireFree(p)
  PROVE  FL!Take(p)
<1>. DEFINE n == call[p].now
            ttl == NormalTTL(call[p].ttl)
            lease(s) == AssignLease(s.item, call[p].holder, p, ttl, n)
<1>1. pc[p] = "enter" /\ ~item.deleted
  BY DEF AcquireFree, AcquireProceeds, Enters
<1>2. PICK s \in ExpireLocked(State, n) :
        Available(s) /\ Answer(p, [s EXCEPT !.item = lease(s)], "acquired", p)
  BY DEF AcquireFree
<1>3. /\ GoodState(s, BlockedSet) /\ s.item.deleted = item.deleted
      /\ View(s, pc, reply) \in FL!Lapsed(LockBar)
  BY <1>1, CallType, ExpiredIsGood, ExpireIsLapse, BarIsView
<1>4. s.item.token = NoToken /\ s.item.queue = <<>> /\ s \in LockState /\ s.item \in Record
  BY <1>2, <1>3 DEF Available, GoodState, LockState
<1>5. /\ lease(s) \in Record /\ lease(s).token = p
      /\ lease(s).queue = s.item.queue /\ lease(s).deleted = s.item.deleted
  BY <1>4, LeaseForCaller
<1>. DEFINE r == lease(s)
            t == [s EXCEPT !.item = r]
            l == View(s, pc, reply)
<1>. HIDE DEF r
<1>6. t \in LockState /\ t.item = r /\ t.waiter = s.waiter
  BY <1>4, <1>5 DEF LockState, r
<1>7. Answer(p, t, "acquired", p)
  BY <1>2 DEF r
<1>. HIDE DEF t
<1>8. /\ View(t, pc, reply).status[p] = "new"
      /\ LockBar' = [owner |-> t.item.token, waiting |-> t.item.queue,
                     status |-> [View(t, pc, reply).status EXCEPT ![p] = "served"]]
      /\ item'.deleted = t.item.deleted
  BY <1>1, <1>6, <1>7, AnswerView
<1>9. View(t, pc, reply).status = l.status
  BY <1>6, ViewLemma
<1>10. l = [owner |-> NoToken, waiting |-> <<>>, status |-> l.status]
  BY <1>4, ViewForm
<1>11. LockBar' = FL!After(l, p, <<>>, p, "served")
  <2>1. t.item.token = p /\ t.item.queue = <<>>
    BY <1>4, <1>5, <1>6 DEF r
  <2>. QED
    BY <1>8, <1>9, <2>1 DEF FL!After
<1>12. item'.deleted = item.deleted
  BY <1>3, <1>5, <1>6, <1>8 DEF r
<1>. QED
  BY <1>1, <1>3, <1>8, <1>9, <1>10, <1>11, <1>12 DEF FL!Take

\* AcquireReenter is no business of the abstract lock.
LEMMA AcquireReenterIsPass ==
  ASSUME ~RandMayFail, IInv, NEW p \in Request, AcquireReenter(p)
  PROVE  FL!Pass
<1>1. pc[p] = "enter" /\ ~item.deleted
  BY DEF AcquireReenter, AcquireProceeds, Enters
<1>. DEFINE lease(s) == DeeperLease(s.item, NormalTTL(call[p].ttl), call[p].now)
<1>2. PICK s \in ExpireLocked(State, call[p].now) :
        \/ Answer(p, [s EXCEPT !.item = lease(s)], "reentered", s.item.token)
        \/ Answer(p, s, "invalid", NoToken)
  BY DEF AcquireReenter
<1>3. /\ s \in LockState /\ s.item \in Record /\ s.item.deleted = item.deleted
      /\ View(s, pc, reply) \in FL!Lapsed(LockBar)
  BY CallType, ExpiredIsGood, ExpireIsLapse, BarIsView DEF GoodState, LockState
<1>4. CASE Answer(p, [s EXCEPT !.item = lease(s)], "reentered", s.item.token)
  <2>1. /\ lease(s) \in Record /\ lease(s).token = s.item.token
        /\ lease(s).queue = s.item.queue /\ lease(s).deleted = s.item.deleted
    <3>1. call[p].now \in Nat /\ NormalTTL(call[p].ttl) \in Nat
      BY CallType
    <3>. QED
      BY <1>3, <3>1, SameLeaseLemma, Zenon
  <2>. DEFINE r == lease(s)
              t == [s EXCEPT !.item = r]
  <2>. HIDE DEF r
  <2>2. /\ t \in LockState /\ t.item.deleted = item.deleted
        /\ View(t, pc, reply) = View(s, pc, reply)
    BY <1>3, <2>1, SameView DEF r
  <2>3. Answer(p, t, "reentered", s.item.token)
    BY <1>4 DEF r
  <2>. HIDE DEF t
  <2>. QED
    BY <1>1, <1>3, <2>2, <2>3, FailsIsPass
<1>5. CASE Answer(p, s, "invalid", NoToken)
  BY <1>1, <1>5, ExpiredIsPass
<1>. QED
  BY <1>2, <1>4, <1>5

\* AcquireRejected and AcquireLocked fail.
LEMMA AcquireFailsIsPass ==
  ASSUME ~RandMayFail, IInv, NEW p \in Request, AcquireRejected(p) \/ AcquireLocked(p)
  PROVE  FL!Pass
<1>1. CASE AcquireRejected(p)
  <2>1. pc[p] = "enter" /\ \E code \in {"not_found", "invalid"} : Answer(p, State, code, NoToken)
    BY <1>1 DEF AcquireRejected, Enters
  <2>. QED
    BY <2>1, NoChangeIsPass
<1>2. CASE AcquireLocked(p)
  <2>1. /\ pc[p] = "enter"
        /\ \E s \in ExpireLocked(State, call[p].now) : Answer(p, s, "locked", NoToken)
    BY <1>2 DEF AcquireLocked, AcquireProceeds, Enters
  <2>. QED
    BY <2>1, ExpiredIsPass
<1>. QED
  BY <1>1, <1>2

\* AcquireEnqueue: the caller joins the others behind an owner.
LEMMA AcquireEnqueueIsJoin ==
  ASSUME ~RandMayFail, IInv, NEW p \in Request, AcquireEnqueue(p)
  PROVE  FL!Join(p)
<1>. DEFINE w == NewWaiter(seq + 1, call[p].holder, NormalTTL(call[p].ttl))
<1>1. pc[p] = "enter" /\ ~item.deleted
  BY DEF AcquireEnqueue, AcquireProceeds, Enters
<1>2. PICK s \in ExpireLocked(State, call[p].now) :
        /\ ~Available(s)
        /\ item' = [s.item EXCEPT !.queue = Push(@, p)]
        /\ waiter' = [s.waiter EXCEPT ![p] = w]
  BY DEF AcquireEnqueue
<1>3. pc' = [pc EXCEPT ![p] = "wait"] /\ reply' = reply
  BY DEF AcquireEnqueue
<1>4. /\ GoodState(s, BlockedSet) /\ s.item.deleted = item.deleted
      /\ View(s, pc, reply) \in FL!Lapsed(LockBar)
  BY CallType, ExpiredIsGood, ExpireIsLapse
<1>5. s.item \in Record /\ s.waiter \in [Request -> Waiter] /\ s.item.token # NoToken
  <2>1. s.item.token = NoToken => s.item.queue = <<>>
    BY <1>4 DEF GoodState
  <2>2. s.item.queue = <<>> => NoneActive(s.item.queue, s.waiter)
    BY DEF NoneActive
  <2>. QED
    BY <1>2, <1>4, <2>1, <2>2 DEF GoodState, LockState, Available
<1>6. /\ item'.token = s.item.token /\ item'.deleted = s.item.deleted
      /\ item'.queue = Append(s.item.queue, p)
  BY <1>2, <1>5 DEF Push, Record
<1>7. /\ pc \in [Request -> Place] /\ reply[p].code = "none"
      /\ ~w.granted /\ w.done = <<>>
  BY <1>1, TypesAtHand DEF IInv, AnsweredOnce, NoReply, NewWaiter, NoWaiter
<1>. HIDE DEF w
<1>. DEFINE f(q) == Fate(pc[q], reply[q].code, s.waiter[q])
            g(q) == Fate(pc'[q], reply'[q].code, waiter'[q])
            l == View(s, pc, reply)
<1>8. f(p) = "new" /\ g(p) = "waiting"
  <2>1. pc'[p] = "wait" /\ reply'[p] = reply[p] /\ waiter'[p] = w
    BY <1>2, <1>3, <1>5, <1>7
  <2>. QED
    BY <1>1, <1>7, <2>1 DEF Fate, Waits
<1>9. \A q \in Request \ {p} : g(q) = f(q)
  BY <1>2, <1>3, <1>5, <1>7
<1>10. LockBar' = [owner |-> item'.token, waiting |-> item'.queue,
                   status |-> [q \in Request |-> g(q)]]
  BY BarIsView DEF View, State
<1>11. l = [owner |-> s.item.token, waiting |-> s.item.queue,
            status |-> [q \in Request |-> f(q)]]
  BY DEF View
<1>. HIDE DEF f, g, l
<1>12. LockBar' = FL!After(l, l.owner, Append(l.waiting, p), p, "waiting")
  BY <1>6, <1>8, <1>9, <1>10, <1>11 DEF FL!After
<1>13. l.owner # NoToken /\ l.status[p] = "new"
  BY <1>5, <1>8, <1>11
<1>. QED
  BY <1>1, <1>4, <1>6, <1>12, <1>13 DEF FL!Join, l

-----------------------------------------------------------------------------
(* The ends of a wait.                                                     *)

\* When nobody's fate changes, neither does the abstract lock.
LEMMA SameFates ==
  ASSUME item'.token = item.token, item'.queue = item.queue,
         \A q \in Request : Fate(pc'[q], reply'[q].code, waiter'[q]) =
                              Fate(pc[q], reply[q].code, waiter[q])
  PROVE  LockBar' = LockBar
BY BarIsView DEF View, State

\* How a waiter fares whose wait ends.
LEMMA WaitEnds ==
  ASSUME IInv, NEW p \in BlockedSet, NEW s \in LockState, NEW code, NEW token,
         Answer(p, s, code, token), \A x \in Request \ {p} : s.waiter[x] = waiter[x]
  PROVE  /\ p \in Request
         /\ item' = s.item
         /\ LockBar.status[p] = IF waiter[p].granted THEN "served"
                                ELSE IF waiter[p].done = <<>> THEN "waiting" ELSE "gone"
         /\ LockBar' = [owner |-> s.item.token, waiting |-> s.item.queue,
                        status |-> [LockBar.status EXCEPT ![p] =
                                      IF code \in {"acquired", "stolen"} THEN "served" ELSE "gone"]]
<1>1. /\ item' = s.item /\ waiter' = s.waiter
      /\ pc' = [pc EXCEPT ![p] = "done"]
      /\ reply' = [reply EXCEPT ![p] = [code |-> code, token |-> token]]
  BY DEF Answer, Becomes, Finish
<1>2. /\ p \in Request /\ Waits(pc[p])
      /\ pc \in [Request -> Place] /\ reply \in [Request -> Reply]
      /\ reply[p].code = "none"
  BY TypesAtHand DEF BlockedSet, Blocked, Waits, IInv, AnsweredOnce, NoReply
<1>. DEFINE f(q) == Fate(pc[q], reply[q].code, waiter[q])
            g(q) == Fate(pc'[q], reply'[q].code, waiter'[q])
            fate == IF code \in {"acquired", "stolen"} THEN "served" ELSE "gone"
            old == IF waiter[p].granted THEN "served"
                   ELSE IF waiter[p].done = <<>> THEN "waiting" ELSE "gone"
<1>3. f(p) = old
  BY <1>2, FateLemma
<1>4. g(p) = fate
  <2>1. pc'[p] = "done" /\ reply'[p].code = code
    BY <1>1, <1>2
  <2>. QED
    BY <2>1, FateLemma DEF Place
<1>5. \A q \in Request \ {p} : g(q) = f(q)
  BY <1>1, <1>2
<1>6. LockBar' = [owner |-> item'.token, waiting |-> item'.queue,
                  status |-> [q \in Request |-> g(q)]]
  BY BarIsView DEF View, State
<1>7. LockBar.status = [q \in Request |-> f(q)]
  BY BarIsView DEF View, State
<1>. HIDE DEF f, g, fate, old
<1>8. LockBar.status[p] = old
  BY <1>2, <1>3, <1>7
<1>9. LockBar' = [owner |-> s.item.token, waiting |-> s.item.queue,
                  status |-> [LockBar.status EXCEPT ![p] = fate]]
  BY <1>1, <1>2, <1>4, <1>5, <1>6, <1>7
<1>. QED
  BY <1>1, <1>2, <1>8, <1>9 DEF fate, old

\* What decides a waiter's fate is already known when it returns: WaitOutcome is
\* invisible.
LEMMA WaitOutcomeIsStutter ==
  ASSUME IInv, NEW p \in Request, WaitOutcome(p)
  PROVE  LockBar' = LockBar /\ item'.deleted = item.deleted
<1>. DEFINE o == Head(waiter[p].done)
            code == IF o = "granted" THEN "acquired" ELSE o
<1>1. /\ pc[p] = "wait" /\ waiter[p].done # <<>> /\ item' = item
      /\ waiter' = [waiter EXCEPT ![p].done = Tail(@)]
      /\ pc' = [pc EXCEPT ![p] = "done"]
      /\ \E token : reply' = [reply EXCEPT ![p] = [code |-> code, token |-> token]]
  BY DEF WaitOutcome, Finish
<1>2. /\ pc \in [Request -> Place] /\ reply \in [Request -> Reply]
      /\ waiter \in [Request -> Waiter] /\ p \in BlockedSet
      /\ reply[p].code = "none" /\ waiter[p].done \in Seq(Outcome)
      /\ waiter[p].granted <=> waiter[p].done = <<"granted">>
      /\ Len(waiter[p].done) <= 1
  BY <1>1, TypesAtHand DEF IInv, QueueInv, AnsweredOnce, NoReply, State, BlockedSet, Blocked, Waiter
<1>3. waiter[p].done = <<o>> /\ o \in Outcome
  <2>. DEFINE d == waiter[p].done
  <2>1. d \in Seq(Outcome) /\ d # <<>> /\ Len(d) <= 1
    BY <1>1, <1>2
  <2>. HIDE DEF d
  <2>2. Len(d) = 1
    <3>1. \A x \in Seq(Outcome) : x # <<>> => Len(x) \in Nat \ {0}
      BY EmptySeq
    <3>2. Len(d) \in Nat \ {0}
      BY <2>1, <3>1
    <3>3. \A k \in Nat \ {0} : k <= 1 => k = 1
      OBVIOUS
    <3>. QED
      BY <2>1, <3>2, <3>3
  <2>3. d = <<Head(d)>> /\ Head(d) \in Outcome
    BY <2>1, <2>2
  <2>. QED
    BY <2>3 DEF d
<1>4. waiter[p].granted <=> o = "granted"
  BY <1>2, <1>3
<1>. HIDE DEF o
<1>. DEFINE f(q) == Fate(pc[q], reply[q].code, waiter[q])
            g(q) == Fate(pc'[q], reply'[q].code, waiter'[q])
<1>5. f(p) = IF waiter[p].granted THEN "served" ELSE "gone"
  BY <1>1, <1>2, FateLemma DEF Waits
<1>6. g(p) = IF waiter[p].granted THEN "served" ELSE "gone"
  <2>1. pc'[p] = "done" /\ reply'[p].code = code
    BY <1>1, <1>2
  <2>2. code \in {"acquired", "stolen"} <=> waiter[p].granted
    BY <1>3, <1>4 DEF Outcome
  <2>. HIDE DEF code
  <2>. QED
    BY <2>1, <2>2, FateLemma DEF Place
<1>7. \A q \in Request \ {p} : g(q) = f(q)
  BY <1>1, <1>2
<1>8. \A q \in Request : g(q) = f(q)
  BY <1>5, <1>6, <1>7
<1>. QED
  BY <1>1, <1>8, SameFates

\* FairLock's RemoveFirst is the one of the queue.
LEMMA SameRemoveFirst ==
  ASSUME NEW q, NEW e PROVE FL!RemoveFirst(q, e) = RemoveFirst(q, e)
BY Zenon DEF FL!RemoveFirst, RemoveFirst, FL!RemoveAt, RemoveAt, FL!SelectInSeq, SelectInSeq, FL!Min, Min

\* AbortWait: the waiter leaves, if its fate is still open; else it is invisible.
LEMMA AbortWaitIsLeave ==
  ASSUME IInv, NEW p \in Request, AbortWait(p)
  PROVE  item'.deleted = item.deleted /\ (LockBar' = LockBar \/ FL!Leave(p))
<1>1. /\ p \in BlockedSet /\ State \in LockState /\ State.item = item /\ State.waiter = waiter
      /\ item \in Record /\ waiter \in [Request -> Waiter] /\ item.queue \in Seq(Request)
  BY StateIsGood, TypesAtHand DEF AbortWait, BlockedSet, Blocked, GoodState, State, Record
<1>2. LockBar = [owner |-> item.token, waiting |-> item.queue, status |-> LockBar.status]
  BY DEF LockBar
<1>3. LockBar.status \in [Request -> FL!Status]
  BY DEF LockBar, StatusOf, FL!Status
<1>4. CASE waiter[p].granted
  <2>1. Answer(p, State, "acquired", p)
    BY <1>4 DEF AbortWait
  <2>2. LockBar.status[p] = "served" /\ item' = item
    BY <1>1, <1>4, <2>1, WaitEnds
  <2>3. LockBar' = [owner |-> item.token, waiting |-> item.queue,
                    status |-> [LockBar.status EXCEPT ![p] = "served"]]
    BY <1>1, <2>1, WaitEnds
  <2>4. [LockBar.status EXCEPT ![p] = "served"] = LockBar.status
    BY <1>3, <2>2
  <2>. QED
    BY <1>2, <2>2, <2>3, <2>4
<1>5. CASE ~waiter[p].granted
  <2>. DEFINE q == RemoveFirst(item.queue, p)
              r == [item EXCEPT !.queue = q]
              v == [waiter EXCEPT ![p] = CancelWaiter(@)]
              s == [item |-> r, waiter |-> v]
  <2>1. q \in Seq(Request)
    BY <1>1, RemoveFirstLemma
  <2>2. /\ r \in Record /\ r.queue = q /\ r.token = item.token /\ r.deleted = item.deleted
    BY <1>1, <2>1, Zenon DEF Record
  <2>3. waiter[p] \in Waiter /\ "internal" \in Outcome
    BY <1>1 DEF Outcome
  <2>4. CancelWaiter(waiter[p]) \in Waiter
    BY <2>3, WaiterLemma
  <2>5. v \in [Request -> Waiter] /\ \A x \in Request \ {p} : v[x] = waiter[x]
    BY <1>1, <2>4
  <2>6. Answer(p, s, "wait_ended", NoToken)
    BY <1>5 DEF AbortWait
  <2>. HIDE DEF r, v
  <2>7. s \in LockState /\ s.item = r /\ s.waiter = v
    BY <2>2, <2>5 DEF LockState
  <2>. HIDE DEF s
  <2>8. /\ item' = r
        /\ LockBar.status[p] = IF waiter[p].done = <<>> THEN "waiting" ELSE "gone"
        /\ LockBar' = [owner |-> item.token, waiting |-> q,
                       status |-> [LockBar.status EXCEPT ![p] = "gone"]]
    BY <1>1, <1>5, <2>2, <2>5, <2>6, <2>7, WaitEnds
  <2>9. CASE waiter[p].done = <<>>
    <3>1. LockBar' = FL!After(LockBar, LockBar.owner, FL!RemoveFirst(LockBar.waiting, p), p, "gone")
      BY <1>2, <2>8, SameRemoveFirst DEF FL!After
    <3>. QED
      BY <2>2, <2>8, <2>9, <3>1 DEF FL!Leave
  <2>10. CASE waiter[p].done # <<>>
    <3>1. ~Contains(item.queue, p)
      BY <1>1, <2>10 DEF IInv, QueueInv, Undecided, State
    <3>2. q = item.queue
      BY <3>1 DEF RemoveFirst, Contains
    <3>3. [LockBar.status EXCEPT ![p] = "gone"] = LockBar.status
      BY <1>3, <2>8, <2>10
    <3>. QED
      BY <1>2, <2>2, <2>8, <3>2, <3>3
  <2>. QED
    BY <2>9, <2>10
<1>. QED
  BY <1>4, <1>5

\* Time, contexts and the ticker are no business of the abstract lock.
LEMMA ClockIsStutter ==
  ASSUME IInv, Tick \/ ExpirerTick \/ \E p \in Request : CtxDone(p) \/ WaitCtxDone(p)
  PROVE  LockBar' = LockBar /\ item'.deleted = item.deleted
<1>1. item' = item /\ waiter' = waiter /\ reply' = reply
  BY DEF Tick, ExpirerTick, CtxDone, WaitCtxDone
<1>2. \A q \in Request : pc'[q] = pc[q] \/ (Waits(pc'[q]) /\ Waits(pc[q]))
  <2>1. CASE pc' = pc
    BY <2>1
  <2>2. ASSUME NEW p \in Request, WaitCtxDone(p) PROVE <1>2
    BY <2>2, TypesAtHand DEF WaitCtxDone, Waits
  <2>. QED
    BY <2>1, <2>2 DEF Tick, ExpirerTick, CtxDone
<1>3. ASSUME NEW q \in Request
      PROVE  Fate(pc'[q], reply'[q].code, waiter'[q]) = Fate(pc[q], reply[q].code, waiter[q])
  BY <1>1, <1>2 DEF Fate, Waits
<1>. QED
  BY <1>1, <1>3, SameFates

-----------------------------------------------------------------------------
(* Renew and Release.                                                      *)

\* An answer that leaves the record but for its times and depth.
LEMMA SameLeaseIsPass ==
  ASSUME IInv, NEW p \in Request, pc[p] = "enter",
         NEW code, NEW token, code \notin {"acquired", "stolen"},
         NEW r \in Record, r.token = item.token, r.queue = item.queue, r.deleted = item.deleted,
         Answer(p, [State EXCEPT !.item = r], code, token)
  PROVE  FL!Pass
<1>. DEFINE t == [State EXCEPT !.item = r]
<1>1. State \in LockState /\ State.item = item
  BY StateIsGood, CallType DEF GoodState
<1>2. /\ t \in LockState /\ t.item.deleted = item.deleted
      /\ View(t, pc, reply) = View(State, pc, reply)
  BY <1>1, SameView
<1>3. View(t, pc, reply) = LockBar /\ LockBar \in FL!Lapsed(LockBar)
  BY <1>2, BarIsView DEF FL!Lapsed
<1>. HIDE DEF t
<1>. QED
  BY <1>2, <1>3, FailsIsPass DEF t

\* Renew lets a turn lapse at most.
LEMMA RenewIsPass ==
  ASSUME ~RandMayFail, IInv, NEW p \in Request, Renew(p) PROVE FL!Pass
<1>1. pc[p] = "enter"
  BY DEF Renew, RenewNotHeld, RenewHeld, Enters
<1>. DEFINE n == call[p].now
            ttl == NormalTTL(call[p].ttl)
            r == [item EXCEPT !.expiresAt = n + ttl]
<1>2. \/ \E code \in {"not_found", "not_held", "token_invalid", "invalid"} :
            Answer(p, State, code, call[p].token)
      \/ \E s \in ExpireLocked(State, n) : Answer(p, s, "not_held", call[p].token)
      \/ Answer(p, [State EXCEPT !.item.expiresAt = n + ttl], "renewed", call[p].token)
  BY DEF Renew, RenewNotHeld, RenewHeld
<1>3. CASE Answer(p, [State EXCEPT !.item.expiresAt = n + ttl], "renewed", call[p].token)
  <2>1. item \in Record /\ ttl \in Nat /\ n \in Nat
    BY CallType
  <2>2. [State EXCEPT !.item.expiresAt = n + ttl] = [State EXCEPT !.item = r]
    BY DEF State
  <2>. HIDE DEF n, ttl
  <2>3. r \in Record /\ r.token = item.token /\ r.queue = item.queue /\ r.deleted = item.deleted
    BY <2>1, SameLeaseLemma
  <2>. HIDE DEF r
  <2>. QED
    BY <1>1, <1>3, <2>2, <2>3, SameLeaseIsPass
<1>. QED
  BY <1>1, <1>2, <1>3, NoChangeIsPass, ExpiredIsPass

\* Release gives up a level, or the turn, or fails.
LEMMA ReleaseIsPass ==
  ASSUME ~RandMayFail, IInv, NEW p \in Request, Release(p) PROVE FL!Pass
<1>1. pc[p] = "enter"
  BY DEF Release, ReleaseRefused, ReleaseExpired, ReleaseHeld, Enters
<1>2. CASE ReleaseRefused(p)
  <2>1. \E code \in {"not_found", "repeated", "not_held", "token_invalid"} :
          Answer(p, State, code, call[p].token)
    BY <1>2 DEF ReleaseRefused
  <2>. QED
    BY <1>1, <2>1, NoChangeIsPass
<1>3. CASE ReleaseExpired(p)
  <2>1. \E s \in ExpireLocked(State, call[p].now), code \in {"not_held", "token_invalid"} :
          Answer(p, s, code, call[p].token)
    BY <1>3 DEF ReleaseExpired
  <2>. QED
    BY <1>1, <2>1, ExpiredIsPass
<1>4. CASE ReleaseHeld(p)
  <2>. DEFINE n == call[p].now
              u == [State EXCEPT !.item = ClearLease(item, n, TRUE)]
  <2>1. item \in Record /\ n \in Nat /\ State.item = item
    BY CallType
  <2>2. /\ call[p].token = item.token /\ item.token # NoToken
        /\ \/ /\ item.depth > 1
              /\ Answer(p, [State EXCEPT !.item = ShallowerLease(item, n)], "partial", call[p].token)
           \/ \E s \in GrantNext(u, n) : Answer(p, s, "released", call[p].token)
    BY <1>4, <2>1 DEF ReleaseHeld
  <2>3. CASE /\ item.depth > 1
             /\ Answer(p, [State EXCEPT !.item = ShallowerLease(item, n)], "partial", call[p].token)
    <3>. HIDE DEF n
    <3>. DEFINE r == ShallowerLease(item, n)
    <3>1. r \in Record /\ r.token = item.token /\ r.queue = item.queue /\ r.deleted = item.deleted
      <4>1. item \in Record /\ n \in Nat /\ item.depth > 1
        BY <2>1, <2>3
      <4>. QED
        BY <4>1, RecordAssumption, SameLeaseLemma
    <3>2. Answer(p, [State EXCEPT !.item = r], "partial", call[p].token)
      BY <2>3
    <3>. HIDE DEF r
    <3>. QED
      BY <1>1, <3>1, <3>2, SameLeaseIsPass
  <2>4. ASSUME NEW s \in GrantNext(u, n), Answer(p, s, "released", call[p].token)
        PROVE  FL!Pass
    <3>1. View(s, pc, reply) = FL!PassOn(LockBar)
      BY <2>1, CededIsPassOn
    <3>2. LockBar.owner # NoToken
      BY <2>2 DEF LockBar
    <3>3. s \in LockState /\ s.item.deleted = item.deleted
      BY <2>1, CededIsGood
    <3>. HIDE DEF n, u
    <3>. QED
      BY <1>1, <2>4, <3>1, <3>2, <3>3, FailsIsPass DEF FL!Lapsed
  <2>. QED
    BY <2>2, <2>3, <2>4
<1>. QED
  BY <1>2, <1>3, <1>4 DEF Release

-----------------------------------------------------------------------------
(* Steal, Delete and the expirer.                                          *)

\* StealSection: the thief takes the owner's place, or it fails.
LEMMA StealIsSeize ==
  ASSUME ~RandMayFail, IInv, NEW p \in Request, StealSection(p)
  PROVE  FL!Seize(p) \/ FL!Pass
<1>1. pc[p] = "enter" /\ item \in Record /\ State.item = item /\ call[p].now \in Nat
  BY CallType DEF StealSection, Enters
<1>. DEFINE c == ClearLease(item, call[p].now, FALSE)
            u == [State EXCEPT !.item = c]
            r == AssignLease(c, call[p].holder, p, NormalTTL(call[p].ttl), call[p].now)
<1>2. \/ \E code \in {"not_found", "invalid"} : Answer(p, State, code, NoToken)
      \/ ~item.deleted /\ Answer(p, [u EXCEPT !.item = r], "stolen", p)
  <2>1. State.item = item /\ u.item = c
    BY DEF State
  <2>. QED
    BY <2>1 DEF StealSection
<1>3. CASE \E code \in {"not_found", "invalid"} : Answer(p, State, code, NoToken)
  BY <1>1, <1>3, NoChangeIsPass
<1>4. CASE ~item.deleted /\ Answer(p, [u EXCEPT !.item = r], "stolen", p)
  <2>. DEFINE t == [State EXCEPT !.item = r]
  <2>1. [u EXCEPT !.item = r] = t
    BY DEF State
  <2>2. c \in Record /\ c.queue = item.queue /\ c.deleted = item.deleted
    BY <1>1, ClearLeaseLemma
  <2>. HIDE DEF c
  <2>3. r \in Record /\ r.token = p /\ r.queue = item.queue /\ r.deleted = item.deleted
    BY <2>2, LeaseForCaller
  <2>. HIDE DEF r
  <2>4. State \in LockState
    BY StateIsGood DEF GoodState
  <2>5. t \in LockState /\ t.item = r /\ t.waiter = State.waiter
    BY <2>3, <2>4 DEF LockState
  <2>6. Answer(p, t, "stolen", p)
    BY <1>4, <2>1
  <2>. HIDE DEF t
  <2>7. /\ View(t, pc, reply).status[p] = "new"
        /\ LockBar' = [owner |-> t.item.token, waiting |-> t.item.queue,
                       status |-> [View(t, pc, reply).status EXCEPT ![p] = "served"]]
        /\ item'.deleted = t.item.deleted
    BY <1>1, <2>5, <2>6, AnswerView
  <2>8. View(t, pc, reply).status = LockBar.status
    BY <2>5, ViewLemma, BarIsView
  <2>9. LockBar.waiting = item.queue
    BY DEF LockBar
  <2>10. LockBar' = FL!After(LockBar, p, LockBar.waiting, p, "served")
    BY <2>3, <2>5, <2>7, <2>8, <2>9 DEF FL!After
  <2>. QED
    BY <1>4, <2>3, <2>5, <2>7, <2>8, <2>10 DEF FL!Seize
<1>. QED
  BY <1>2, <1>3, <1>4

\* cancelAll sends away exactly those whose fate was open.
LEMMA CancelAllFates ==
  ASSUME IInv, NEW s \in LockState, QueueInv(s, BlockedSet), NEW q \in Request
  PROVE  LET fate == Fate(pc[q], reply[q].code, s.waiter[q])
         IN Fate(pc[q], reply[q].code, CancelAll(s).waiter[q]) =
              IF fate = "waiting" THEN "gone" ELSE fate
<1>. DEFINE w == s.waiter[q]
            v == CancelAll(s).waiter[q]
            f == Fate(pc[q], reply[q].code, w)
            g == Fate(pc[q], reply[q].code, v)
<1>1. w \in Waiter /\ "not_found" \in Outcome /\ pc[q] \in Place
  BY TypesAtHand DEF LockState, Outcome
<1>2. q \in BlockedSet <=> Waits(pc[q])
  BY DEF BlockedSet, Blocked, Waits
<1>3. pc[q] # "done" => reply[q].code = "none"
  BY DEF IInv, AnsweredOnce, NoReply
<1>4. CASE Contains(s.item.queue, q)
  <2>1. Waits(pc[q]) /\ ~w.granted /\ w.done = <<>> /\ ~w.cancelled
    BY <1>2, <1>4 DEF QueueInv, Undecided
  <2>2. v = Tell(CancelWaiter(w), "not_found")
    BY <1>4, <2>1 DEF CancelAll
  <2>3. ~v.granted /\ v.done # <<>>
    <3>1. CancelWaiter(w) \in Waiter /\ ~CancelWaiter(w).granted /\ CancelWaiter(w).done = <<>>
      BY <1>1, <2>1, WaiterLemma
    <3>. DEFINE x == CancelWaiter(w)
    <3>. HIDE DEF x
    <3>2. Tell(x, "not_found").done = Append(x.done, "not_found") /\ ~Tell(x, "not_found").granted
      BY <1>1, <3>1, WaiterLemma DEF x
    <3>3. v.done = Append(<<>>, "not_found") /\ ~v.granted
      BY <2>2, <3>1, <3>2 DEF x
    <3>. QED
      BY <3>3
  <2>. HIDE DEF w, v
  <2>4. f = "waiting"
    BY <1>1, <1>3, <2>1, FateLemma DEF Waits
  <2>5. g = "gone"
    BY <1>1, <1>3, <2>1, <2>3, FateLemma DEF Waits
  <2>. QED
    BY <2>4, <2>5 DEF w, v
<1>5. CASE ~Contains(s.item.queue, q)
  <2>1. v = w
    BY <1>5 DEF CancelAll
  <2>2. ~(Waits(pc[q]) /\ ~w.granted /\ w.done = <<>>)
    BY <1>2, <1>5 DEF QueueInv, Undecided
  <2>. HIDE DEF w, v
  <2>3. f # "waiting"
    BY <1>1, <1>3, <2>2, FateLemma DEF Waits, Place
  <2>. QED
    BY <2>1, <2>3 DEF w, v
<1>. QED
  BY <1>4, <1>5

\* DeleteSection: the lock is closed by p, or p fails.
LEMMA DeleteIsClose ==
  ASSUME ~RandMayFail, IInv, NEW p \in Request, DeleteSection(p)
  PROVE  FL!Close \/ FL!Pass
<1>. DEFINE n == call[p].now
            dead(t) == [ClearLease(t.item, n, FALSE) EXCEPT !.deleted = TRUE]
<1>1. pc[p] = "enter" /\ n \in Nat
  BY CallType DEF DeleteSection, Enters
<1>2. \/ Answer(p, State, "unauthorized", NoToken)
      \/ \E s \in ExpireLocked(State, n) :
           \/ Answer(p, s, "locked", NoToken)
           \/ \E code \in {"not_found", "deleted"} :
                Answer(p, [CancelAll(s) EXCEPT !.item = dead(CancelAll(s))], code, NoToken)
  BY DEF DeleteSection
<1>3. ASSUME NEW s \in ExpireLocked(State, n), NEW code \in {"not_found", "deleted"},
             Answer(p, [CancelAll(s) EXCEPT !.item = dead(CancelAll(s))], code, NoToken)
      PROVE  FL!Close
  <2>. DEFINE t == CancelAll(s)
              c == ClearLease(t.item, n, FALSE)
              r == [c EXCEPT !.deleted = TRUE]
              u == [t EXCEPT !.item = r]
              l == View(s, pc, reply)
  <2>1. /\ s \in LockState /\ QueueInv(s, BlockedSet) /\ BlockedSet \in SUBSET Request
        /\ l \in FL!Lapsed(LockBar)
    BY <1>1, ExpiredIsGood, ExpireIsLapse DEF GoodState, BlockedSet
  <2>2. t \in LockState /\ t.item.queue = <<>>
    BY <2>1, CancelAllLemma
  <2>3. \A q \in Request : Fate(pc[q], reply[q].code, t.waiter[q]) =
                             IF l.status[q] = "waiting" THEN "gone" ELSE l.status[q]
    BY <2>1, CancelAllFates DEF View
  <2>4. Answer(p, u, code, NoToken)
    BY <1>3
  <2>. HIDE DEF t
  <2>5. t.item \in Record
    BY <2>2 DEF LockState
  <2>6. c \in Record /\ c.token = NoToken /\ c.queue = <<>>
    BY <1>1, <2>2, <2>5, ClearLeaseLemma
  <2>. HIDE DEF c
  <2>7. TRUE \in BOOLEAN
    OBVIOUS
  <2>8. r \in Record /\ r.token = NoToken /\ r.queue = <<>> /\ r.deleted
    BY <2>6, <2>7, Zenon DEF Record
  <2>. HIDE DEF r
  <2>9. u \in LockState /\ u.item = r /\ u.waiter = t.waiter
    BY <2>2, <2>8 DEF LockState
  <2>. HIDE DEF u
  <2>. DEFINE v == View(u, pc, reply)
  <2>10. /\ v.status[p] = "new"
         /\ LockBar' = [owner |-> NoToken, waiting |-> <<>>,
                        status |-> [v.status EXCEPT ![p] = "gone"]]
         /\ item'.deleted
    <3>1. code \notin {"acquired", "stolen"}
      OBVIOUS
    <3>2. /\ v.status[p] = "new"
          /\ LockBar' = [owner |-> u.item.token, waiting |-> u.item.queue,
                         status |-> [v.status EXCEPT ![p] = "gone"]]
          /\ item'.deleted = u.item.deleted
      BY <1>1, <2>4, <2>9, <3>1, AnswerView
    <3>. QED
      BY <2>8, <2>9, <3>2
  <2>11. v.status = [q \in Request |-> IF l.status[q] = "waiting" THEN "gone" ELSE l.status[q]]
    BY <2>3, <2>9 DEF View
  <2>. HIDE DEF v, l
  <2>12. [v.status EXCEPT ![p] = "gone"] =
           [q \in Request |-> IF l.status[q] = "waiting" \/ q \in {p} THEN "gone" ELSE l.status[q]]
    BY <2>11
  <2>13. l.status[p] = "new"
    BY <2>10, <2>11
  <2>14. item'.deleted = TRUE
    BY <2>10
  <2>15. \A q \in {p} : l.status[q] = "new" /\ {p} = {q}
    BY <2>13
  <2>16. LockBar' = [owner |-> NoToken, waiting |-> <<>>,
                     status |-> [q \in Request |-> IF l.status[q] = "waiting" \/ q \in {p}
                                                   THEN "gone" ELSE l.status[q]]]
    BY <2>10, <2>12
  <2>17. {p} \in SUBSET Request
    OBVIOUS
  <2>. QED
    BY <2>1, <2>14, <2>15, <2>16, <2>17 DEF FL!Close
<1>. QED
  BY <1>1, <1>2, <1>3, NoChangeIsPass, ExpiredIsPass

\* ExpirerScan: a turn may lapse, and then an idle lock may be closed by nobody.
LEMMA ScanIsLapse ==
  ASSUME ~RandMayFail, IInv, ExpirerScan
  PROVE  \/ FL!Pass \/ FL!Close
         \/ LockBar' = LockBar /\ item'.deleted = item.deleted
<1>. DEFINE n == expirer.now
<1>1. n \in Nat /\ pc' = pc /\ reply' = reply
  BY ExpirerType DEF ExpirerScan
<1>2. \/ UNCHANGED <<item, waiter>>
      \/ \E s \in ExpireLocked(State, n) :
           \/ Becomes(s)
           \/ Available(s) /\ Becomes([s EXCEPT !.item.deleted = TRUE])
  BY DEF ExpirerScan, Cleanup
<1>3. CASE UNCHANGED <<item, waiter>>
  BY <1>1, <1>3, SameFates
<1>4. ASSUME NEW s \in ExpireLocked(State, n)
      PROVE  /\ GoodState(s, BlockedSet) /\ s.item.deleted = item.deleted
             /\ View(s, pc, reply) \in FL!Lapsed(LockBar)
  BY <1>1, ExpiredIsGood, ExpireIsLapse
<1>5. ASSUME NEW s \in ExpireLocked(State, n), Becomes(s) PROVE FL!Pass
  <2>1. State' = s
    BY <1>4, <1>5 DEF State, Becomes, GoodState, LockState
  <2>2. LockBar' = View(s, pc, reply) /\ item'.deleted = item.deleted
    BY <1>1, <1>4, <1>5, <2>1, BarIsView DEF Becomes
  <2>. QED
    BY <1>4, <2>2 DEF FL!Pass
<1>6. ASSUME NEW s \in ExpireLocked(State, n), Available(s),
             Becomes([s EXCEPT !.item.deleted = TRUE])
      PROVE  FL!Close
  <2>. DEFINE r == [s.item EXCEPT !.deleted = TRUE]
              t == [s EXCEPT !.item.deleted = TRUE]
              l == View(s, pc, reply)
  <2>1. /\ s \in LockState /\ QueueInv(s, BlockedSet)
        /\ s.item.token = NoToken /\ s.item.queue = <<>> /\ s.item \in Record
    BY <1>4, <1>6 DEF GoodState, LockState, Available
  <2>2. t = [s EXCEPT !.item = r]
    BY <2>1 DEF LockState
  <2>3. r.token = NoToken /\ r.queue = <<>> /\ r.deleted = TRUE
    BY <2>1 DEF Record
  <2>. HIDE DEF r
  <2>4. State'.waiter = s.waiter /\ State'.item = r /\ item' = r
    BY <1>6, <2>1, <2>2 DEF State, Becomes, LockState
  <2>. HIDE DEF t
  <2>5. LockBar' = [owner |-> NoToken, waiting |-> <<>>, status |-> l.status]
    <3>1. LockBar' = View(State', pc, reply)
      BY <1>1, BarIsView
    <3>2. View(State', pc, reply) = [owner |-> State'.item.token, waiting |-> State'.item.queue,
                                     status |-> l.status]
      BY <2>4, ViewLemma
    <3>. QED
      BY <2>3, <2>4, <3>1, <3>2
  <2>6. \A q \in Request : l.status[q] # "waiting"
    <3>. SUFFICES ASSUME NEW q \in Request PROVE l.status[q] # "waiting"
      OBVIOUS
    <3>1. ~(Waits(pc[q]) /\ ~s.waiter[q].granted /\ s.waiter[q].done = <<>>)
      BY <2>1 DEF QueueInv, Undecided, Contains, BlockedSet, Blocked, Waits
    <3>2. l.status[q] = Fate(pc[q], reply[q].code, s.waiter[q])
      BY DEF View
    <3>. QED
      BY <3>1, <3>2 DEF Fate
  <2>7. l.status = [q \in Request |-> l.status[q]]
    BY DEF View
  <2>. HIDE DEF l
  <2>8. LockBar' = [owner |-> NoToken, waiting |-> <<>>,
                    status |-> [q \in Request |-> IF l.status[q] = "waiting" \/ q \in {}
                                                  THEN "gone" ELSE l.status[q]]]
    BY <2>5, <2>6, <2>7
  <2>9. item'.deleted = TRUE
    BY <2>3, <2>4
  <2>10. l \in FL!Lapsed(LockBar)
    BY <1>4 DEF l
  <2>11. {} \in SUBSET Request /\ \A q \in {} : l.status[q] = "new" /\ {} = {q}
    OBVIOUS
  <2>. QED
    BY <2>8, <2>9, <2>10, <2>11 DEF FL!Close
<1>. QED
  BY <1>2, <1>3, <1>5, <1>6

-----------------------------------------------------------------------------
(* The start of a call, and the theorem.                                   *)

\* A call that is turned away at the door has failed.
LEMMA TurnedAwayIsPass ==
  ASSUME IInv, NEW p \in Request, pc[p] = "idle", NEW code, NEW token, Finish(p, code, token),
         code \notin {"acquired", "stolen"}, item' = item, waiter' = waiter
  PROVE  FL!Pass
<1>1. /\ pc \in [Request -> Place] /\ reply \in [Request -> Reply] /\ reply[p].code = "none"
      /\ pc' = [pc EXCEPT ![p] = "done"]
      /\ reply' = [reply EXCEPT ![p] = [code |-> code, token |-> token]]
  BY TypesAtHand DEF Finish, IInv, AnsweredOnce, NoReply
<1>. DEFINE f(q) == Fate(pc[q], reply[q].code, waiter[q])
            g(q) == Fate(pc'[q], reply'[q].code, waiter'[q])
<1>2. f(p) = "new"
  BY <1>1, FateLemma DEF Place
<1>3. g(p) = "gone"
  <2>1. pc'[p] = "done" /\ reply'[p].code = code
    BY <1>1
  <2>. QED
    BY <2>1, FateLemma DEF Place
<1>4. \A q \in Request \ {p} : g(q) = f(q)
  BY <1>1
<1>5. /\ LockBar = [owner |-> item.token, waiting |-> item.queue, status |-> [q \in Request |-> f(q)]]
      /\ LockBar' = [owner |-> item.token, waiting |-> item.queue, status |-> [q \in Request |-> g(q)]]
  BY BarIsView DEF View, State
<1>. HIDE DEF f, g
<1>6. LockBar' = FL!After(LockBar, LockBar.owner, LockBar.waiting, p, "gone")
  BY <1>3, <1>4, <1>5 DEF FL!After
<1>7. LockBar.status[p] = "new"
  BY <1>2, <1>5
<1>. QED
  BY <1>6, <1>7 DEF FL!Pass, FL!Lapsed

\* Start: the call fails at the door, or goes on and is as new as before.
LEMMA StartIsPass ==
  ASSUME IInv, NEW p \in Request, Start(p)
  PROVE  FL!Pass \/ (LockBar' = LockBar /\ item'.deleted = item.deleted)
<1>1. \/ \E code \in {"invalid", "canceled", "unauthorized"} : Refuse(p, code)
      \/ \E c : LookUp(p, c)
  <2>1. CASE StartAcquire(p)
    BY <2>1 DEF StartAcquire
  <2>2. CASE StartRenew(p)
    BY <2>2 DEF StartRenew
  <2>3. CASE StartRelease(p)
    BY <2>3 DEF StartRelease
  <2>4. CASE StartSteal(p)
    BY <2>4 DEF StartSteal
  <2>5. CASE StartDelete(p)
    BY <2>5 DEF StartDelete
  <2>. QED
    BY <2>1, <2>2, <2>3, <2>4, <2>5 DEF Start
<1>2. ASSUME NEW code \in {"invalid", "canceled", "unauthorized"}, Refuse(p, code) PROVE FL!Pass
  <2>1. /\ pc[p] = "idle" /\ Finish(p, code, NoToken) /\ item' = item /\ waiter' = waiter
        /\ code \notin {"acquired", "stolen"}
    BY <1>2 DEF Refuse
  <2>. QED
    BY <2>1, TurnedAwayIsPass
<1>3. ASSUME NEW c, LookUp(p, c)
      PROVE  FL!Pass \/ (LockBar' = LockBar /\ item'.deleted = item.deleted)
  <2>1. pc[p] = "idle" /\ item' = item /\ waiter' = waiter
    BY <1>3 DEF LookUp
  <2>2. CASE Finish(p, "not_found", c.token)
    BY <2>1, <2>2, TurnedAwayIsPass
  <2>3. CASE pc' = [pc EXCEPT ![p] = "enter"] /\ reply' = reply
    <3>1. ASSUME NEW q \in Request
          PROVE  Fate(pc'[q], reply'[q].code, waiter'[q]) = Fate(pc[q], reply[q].code, waiter[q])
      <4>1. pc'[q] = pc[q] \/ (pc[q] = "idle" /\ pc'[q] = "enter")
        BY <2>1, <2>3, TypesAtHand
      <4>. QED
        BY <2>1, <2>3, <4>1 DEF Fate, Waits
    <3>. QED
      BY <2>1, <3>1, SameFates
  <2>. QED
    BY <1>3, <2>2, <2>3 DEF LookUp
<1>. QED
  BY <1>1, <1>2, <1>3

\* A new lock is a new fair lock.
LEMMA InitIsFairInit == Init => FL!FairInit
<1>. SUFFICES ASSUME Init PROVE FL!FairInit
  OBVIOUS
<1>1. item.token = NoToken /\ item.queue = <<>> /\ item.deleted = FALSE
  BY DEF Init, NewRecord
<1>2. \A q \in Request : Fate(pc[q], reply[q].code, waiter[q]) = "new"
  BY DEF Init, Fate, Waits, NoReply
<1>3. LockBar = [owner |-> NoToken, waiting |-> <<>>, status |-> [q \in Request |-> "new"]]
  BY <1>1, <1>2, BarIsView DEF View, State
<1>. QED
  BY <1>1, <1>3 DEF FL!FairInit

\* Every step of the service is a step of the fair lock, or one it does not see.
LEMMA StepIsFairStep ==
  ASSUME ~RandMayFail
  PROVE  IInv /\ [Next]_vars => [FL!FairNext]_(FL!fairVars)
<1>. DEFINE Seen == FL!FairNext \/ (LockBar' = LockBar /\ item'.deleted = item.deleted)
<1>. SUFFICES ASSUME IInv, [Next]_vars PROVE Seen
  BY DEF FL!fairVars
<1>1. ASSUME NEW p \in Request, Acquire(p) PROVE Seen
  BY <1>1, AcquireFailsIsPass, AcquireFreeIsTake, AcquireReenterIsPass, AcquireEnqueueIsJoin
     DEF Acquire, FL!FairNext
<1>2. ASSUME NEW p \in Request, Wait(p) PROVE Seen
  BY <1>2, WaitOutcomeIsStutter, AbortWaitIsLeave, ClockIsStutter DEF Wait, FL!FairNext
<1>3. ASSUME NEW p \in Request, Renew(p) \/ Release(p) PROVE Seen
  BY <1>3, RenewIsPass, ReleaseIsPass DEF FL!FairNext
<1>4. ASSUME NEW p \in Request, StealSection(p) \/ DeleteSection(p) PROVE Seen
  BY <1>4, StealIsSeize, DeleteIsClose DEF FL!FairNext
<1>5. ASSUME NEW p \in Request, Start(p) PROVE Seen
  BY <1>5, StartIsPass DEF FL!FairNext
<1>6. ASSUME NEW p \in Request, CtxDone(p) PROVE Seen
  BY <1>6, ClockIsStutter
<1>7. CASE ExpirerScan
  BY <1>7, ScanIsLapse DEF FL!FairNext
<1>8. CASE Tick \/ ExpirerTick
  BY <1>8, ClockIsStutter
<1>9. CASE UNCHANGED vars
  <2>1. item' = item /\ waiter' = waiter /\ pc' = pc /\ reply' = reply
    BY <1>9 DEF vars
  <2>. QED
    BY <2>1, SameFates
<1>. HIDE DEF Seen
<1>. QED
  BY <1>1, <1>2, <1>3, <1>4, <1>5, <1>6, <1>7, <1>8, <1>9 DEF Next, Proceed

\* While the random source works, the service is a fair lock: it hands the lock
\* from owner to first waiter, lets nobody pass but a thief, and serves or sends
\* away every caller, never both (README: fair FIFO queueing; service.go).
THEOREM ServiceIsFairLock ==
  ASSUME ~RandMayFail
  PROVE  Spec => ImplementsFairLock
<1>1. IInv /\ [Next]_vars => [FL!FairNext]_(FL!fairVars)
  BY StepIsFairStep
<1>. QED
  BY <1>1, InitIsFairInit, Invariance, PTL DEF Spec, ImplementsFairLock, FL!FairLockSpec
=============================================================================
