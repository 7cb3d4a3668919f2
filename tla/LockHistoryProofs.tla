--------------------------- MODULE LockHistoryProofs ---------------------------
(***************************************************************************)
(* Proofs about what the record and its waiters remember of the past: the  *)
(* order in which waiters came, the depth of the lease against the answers *)
(* given, and the tokens that were released; and about the step in which a *)
(* call is answered.  The inductive invariant is IInv together with HInv.  *)
(***************************************************************************)
EXTENDS LockServiceProofs, FiniteSetTheorems

-----------------------------------------------------------------------------
(* The order of waiters.                                                   *)

\* Queue r is what is left of queue q: some were taken out, nobody was moved.
LeftOf(r, q) ==
  \E f \in [1..Len(r) -> 1..Len(q)] :
    /\ \A i \in 1..Len(r) : r[i] = q[f[i]]
    /\ \A i, j \in 1..Len(r) : i < j => f[i] < f[j]

\* Nothing, or everything, may be left.
LEMMA LeftOfEnds ==
  ASSUME NEW q \in Seq(Request)
  PROVE  LeftOf(q, q) /\ LeftOf(<<>>, q)
<1>1. Len(q) \in Nat /\ Len(<<>>) = 0
  BY LenProperties, EmptySeq
<1>2. LeftOf(q, q)
  <2>. DEFINE f == [i \in 1..Len(q) |-> i]
  <2>1. f \in [1..Len(q) -> 1..Len(q)] /\ \A i \in 1..Len(q) : f[i] = i
    OBVIOUS
  <2>. HIDE DEF f
  <2>. QED
    BY <2>1 DEF LeftOf
<1>3. LeftOf(<<>>, q)
  <2>. DEFINE e == <<>>
              f == [i \in 1..Len(e) |-> i]
  <2>1. 1..Len(e) = {}
    BY <1>1
  <2>. HIDE DEF e
  <2>2. f \in [1..Len(e) -> 1..Len(q)]
    BY <2>1
  <2>. HIDE DEF f
  <2>3. LeftOf(e, q)
    BY <2>1, <2>2 DEF LeftOf
  <2>. QED
    BY <2>3 DEF e
<1>. QED
  BY <1>2, <1>3

\* pop leaves the rest of the queue, behind the one popped.
LEMMA LeftByPop ==
  ASSUME NEW q \in Seq(Request), NEW i \in 1..(Len(q) + 1)
  PROVE  LET r == SubSeq(q, i + 1, Len(q))
         IN /\ LeftOf(r, q)
            /\ \A x : Contains(r, x) => \E j \in 1..Len(q) : j > i /\ q[j] = x
<1>. DEFINE r == SubSeq(q, i + 1, Len(q))
<1>1. Len(q) \in Nat
  BY LenProperties
<1>2. /\ Len(r) = IF i + 1 <= Len(q) THEN Len(q) - (i + 1) + 1 ELSE 0
      /\ \A j \in 1..(Len(q) - (i + 1) + 1) : r[j] = q[i + 1 + j - 1]
  <2>1. \A j \in (i + 1)..Len(q) : q[j] \in Request
    BY <1>1, ElementOfSeq
  <2>2. i + 1 \in Int /\ Len(q) \in Int
    BY <1>1
  <2>. QED
    BY <2>1, <2>2, SubSeqProperties
<1>. HIDE DEF r
<1>3. ASSUME NEW j \in 1..Len(r) PROVE i + j \in 1..Len(q) /\ r[j] = q[i + j]
  <2>1. j \in 1..(Len(q) - (i + 1) + 1) /\ i + 1 + j - 1 = i + j
    BY <1>1, <1>2
  <2>. QED
    BY <1>1, <1>2, <2>1
<1>. DEFINE f == [j \in 1..Len(r) |-> i + j]
<1>4. f \in [1..Len(r) -> 1..Len(q)] /\ \A j \in 1..Len(r) : f[j] = i + j
  BY <1>3
<1>. HIDE DEF f
<1>5. LeftOf(r, q)
  <2>1. \A j \in 1..Len(r) : r[j] = q[f[j]]
    BY <1>3, <1>4
  <2>2. \A j, k \in 1..Len(r) : j < k => f[j] < f[k]
    BY <1>4
  <2>. QED
    BY <1>4, <2>1, <2>2 DEF LeftOf
<1>. QED
  BY <1>5, SubSeqLemma DEF r

\* remove takes out one.
LEMMA LeftByRemove ==
  ASSUME NEW q \in Seq(Request), NEW e
  PROVE  LeftOf(RemoveFirst(q, e), q)
<1>1. CASE ~Contains(q, e)
  <2>1. RemoveFirst(q, e) = q
    BY <1>1 DEF RemoveFirst, Contains
  <2>. QED
    BY <2>1, LeftOfEnds
<1>2. CASE Contains(q, e)
  <2>1. PICK k \in 1..Len(q) :
          RemoveFirst(q, e) = SubSeq(q, 1, k - 1) \o SubSeq(q, k + 1, Len(q))
    BY <1>2, RemoveFirstAt
  <2>. DEFINE a == SubSeq(q, 1, k - 1)
              b == SubSeq(q, k + 1, Len(q))
              c == a \o b
  <2>2. /\ a \in Seq(Request) /\ Len(a) = k - 1
        /\ \A i \in 1..(k - 1) : a[i] = q[i]
    BY SubSeqProperties, ElementOfSeq, Z3
  <2>3. /\ b \in Seq(Request) /\ Len(b) = Len(q) - k
        /\ \A i \in 1..(Len(q) - k) : b[i] = q[k + i]
    BY SubSeqProperties, ElementOfSeq, Z3
  <2>. HIDE DEF a, b
  <2>4. /\ c \in Seq(Request) /\ Len(c) = Len(a) + Len(b)
        /\ \A i \in 1..(Len(a) + Len(b)) :
             c[i] = IF i <= Len(a) THEN a[i] ELSE b[i - Len(a)]
    BY <2>2, <2>3, ConcatProperties
  <2>. HIDE DEF c
  <2>5. Len(q) \in Nat /\ Len(c) = Len(q) - 1
    BY <2>2, <2>3, <2>4, LenProperties
  <2>6. ASSUME NEW i \in 1..Len(c) PROVE c[i] = q[IF i < k THEN i ELSE i + 1]
    <3>1. CASE i < k
      BY <2>2, <2>4, <2>5, <3>1
    <3>2. CASE ~(i < k)
      <4>1. i - Len(a) \in 1..(Len(q) - k) /\ k + (i - Len(a)) = i + 1
        BY <2>2, <2>5, <3>2
      <4>. QED
        BY <2>2, <2>3, <2>4, <2>5, <3>2, <4>1
    <3>. QED
      BY <3>1, <3>2
  <2>. DEFINE f == [i \in 1..Len(c) |-> IF i < k THEN i ELSE i + 1]
  <2>7. /\ f \in [1..Len(c) -> 1..Len(q)]
        /\ \A i \in 1..Len(c) : f[i] = IF i < k THEN i ELSE i + 1
    BY <2>5
  <2>. HIDE DEF f
  <2>8. \A i \in 1..Len(c) : c[i] = q[f[i]]
    BY <2>6, <2>7
  <2>9. \A i, j \in 1..Len(c) : i < j => f[i] < f[j]
    BY <2>5, <2>7
  <2>10. LeftOf(c, q)
    BY <2>7, <2>8, <2>9 DEF LeftOf
  <2>. QED
    BY <2>1, <2>10 DEF a, b, c
<1>. QED
  BY <1>1, <1>2

\* The order is kept when waiters are taken out and nobody is granted the lock
\* before another who stays.
LEMMA OrderIsKept ==
  ASSUME NEW s, NEW t, NEW n, OrderInv(s, n),
         LeftOf(t.item.queue, s.item.queue),
         \A p \in Request : t.waiter[p].seq = s.waiter[p].seq,
         \A j \in 1..Len(s.item.queue) : s.item.queue[j] \in Request,
         \A p, g \in Request :
           t.waiter[g].granted /\ Contains(t.item.queue, p) =>
             s.waiter[g].granted \/ s.waiter[g].seq < s.waiter[p].seq
  PROVE  OrderInv(t, n)
<1>. DEFINE q == s.item.queue
            r == t.item.queue
<1>1. PICK f \in [1..Len(r) -> 1..Len(q)] :
        /\ \A i \in 1..Len(r) : r[i] = q[f[i]]
        /\ \A i, j \in 1..Len(r) : i < j => f[i] < f[j]
  BY DEF LeftOf
<1>2. ASSUME NEW i \in 1..Len(r), NEW j \in 1..Len(r), i < j
      PROVE  t.waiter[r[i]].seq < t.waiter[r[j]].seq
  <2>1. /\ f[i] \in 1..Len(q) /\ f[j] \in 1..Len(q) /\ f[i] < f[j]
        /\ r[i] = q[f[i]] /\ r[j] = q[f[j]]
    BY <1>1, <1>2
  <2>2. s.waiter[q[f[i]]].seq < s.waiter[q[f[j]]].seq
    BY <2>1 DEF OrderInv
  <2>. QED
    BY <2>1, <2>2
<1>3. ASSUME NEW p \in Request, NEW g \in Request, t.waiter[g].granted, Contains(r, p)
      PROVE  t.waiter[g].seq < t.waiter[p].seq
  <2>1. Contains(q, p)
    BY <1>1, <1>3 DEF Contains
  <2>. QED
    BY <1>3, <2>1 DEF OrderInv
<1>4. \A p \in Request : t.waiter[p].seq <= n
  BY DEF OrderInv
<1>. QED
  BY <1>2, <1>3, <1>4 DEF OrderInv

-----------------------------------------------------------------------------
(* What the helpers of LockRecord do to numbers, depths and released tokens. *)

\* Nothing that happens to a waiter changes its number.
LEMMA NumbersStay ==
  ASSUME NEW w \in Waiter, NEW o
  PROVE  /\ Tell(w, o).seq = w.seq
         /\ CancelWaiter(w).seq = w.seq
         /\ GrantWaiter(w).seq = w.seq
         /\ Tell(CancelWaiter(w), o).seq = w.seq
         /\ CancelWaiter(w).granted = w.granted
         /\ Tell(w, o).granted = w.granted
         /\ Tell(CancelWaiter(w), o).granted = w.granted
BY DEF Waiter, Tell, CancelWaiter, GrantWaiter

\* clearLease remembers one token at most, and only the one that it clears.
LEMMA ClearLeaseRemembers ==
  ASSUME NEW r \in Record, NEW now, NEW b \in BOOLEAN
  PROVE  LET c == ClearLease(r, now, b)
         IN \A t \in c.releasedToken : t \in r.releasedToken \/ (b /\ t = r.token /\ t # NoToken)
<1>. DEFINE set == IF b /\ r.token # NoToken THEN Remember(r.releasedToken, r.token)
                   ELSE r.releasedToken
            c == ClearLease(r, now, b)
<1>1. c.releasedToken = set
  BY DEF ClearLease, Record
<1>2. \A t \in Remember(r.releasedToken, r.token) : t \in r.releasedToken \/ t = r.token
  BY DEF Remember
<1>. HIDE DEF c
<1>. QED
  BY <1>1, <1>2 DEF c

\* A loop of grantNextLocked that ends at position i.
LEMMA PopToHistory ==
  ASSUME NEW s \in LockState, NEW now \in Nat, NEW n, OrderInv(s, n),
         NEW i \in StopAt(s.item.queue, s.waiter)
  PROVE  LET t == PopTo(s, i, now)
         IN /\ OrderInv(t, n)
            /\ t.item.releasedToken = s.item.releasedToken
            /\ \/ t.item.token = s.item.token
               \/ /\ t.item.token \in Request
                  /\ Contains(s.item.queue, t.item.token)
                  /\ t.item.depth = 1
<1>. DEFINE q == s.item.queue
            t == PopTo(s, i, now)
            rest == SubSeq(q, i + 1, Len(q))
            popped == [s.item EXCEPT !.queue = rest]
<1>1. s.item \in Record /\ s.waiter \in [Request -> Waiter]
  BY DEF LockState
<1>2. q \in Seq(Request) /\ Len(q) \in Nat /\ i \in 1..(Len(q) + 1)
  BY <1>1, LenProperties DEF Record, StopAt
<1>3. \A j \in 1..Len(q) : q[j] \in Request
  BY <1>2, ElementOfSeq
<1>4. /\ LeftOf(rest, q)
      /\ \A x : Contains(rest, x) => \E j \in 1..Len(q) : j > i /\ q[j] = x
  BY <1>2, LeftByPop
<1>. HIDE DEF rest
<1>5. /\ popped.queue = rest /\ popped.token = s.item.token
      /\ popped.releasedToken = s.item.releasedToken
      /\ DOMAIN popped = DOMAIN s.item
  BY <1>1 DEF Record
<1>6. /\ t.item = IF i <= Len(q)
                  THEN AssignLease(popped, s.waiter[q[i]].holder, q[i], s.waiter[q[i]].ttl, now)
                  ELSE popped
      /\ t.waiter = [p \in Request |->
                       IF i <= Len(q) /\ p = q[i] THEN GrantWaiter(s.waiter[p])
                       ELSE IF p \in ToldBefore(q, s.waiter, i)
                            THEN Tell(s.waiter[p], "internal")
                       ELSE s.waiter[p]]
  BY DEF PopTo, popped, rest
<1>. HIDE DEF t
<1>7. /\ t.item.queue = rest
      /\ t.item.releasedToken = s.item.releasedToken
      /\ i <= Len(q) => t.item.token = q[i] /\ t.item.depth = 1
      /\ ~(i <= Len(q)) => t.item.token = s.item.token
  <2>1. \A h, x, ttl : LET a == AssignLease(popped, h, x, ttl, now)
                       IN /\ a.queue = rest /\ a.releasedToken = s.item.releasedToken
                          /\ a.token = x /\ a.depth = 1
    BY <1>1, <1>5 DEF AssignLease, Record, popped
  <2>. HIDE DEF popped
  <2>. QED
    BY <1>5, <1>6, <2>1
<1>8. ASSUME NEW p \in Request
      PROVE  /\ t.waiter[p].seq = s.waiter[p].seq
             /\ t.waiter[p].granted => s.waiter[p].granted \/ (i <= Len(q) /\ p = q[i])
  <2>1. s.waiter[p] \in Waiter
    BY <1>1
  <2>2. /\ GrantWaiter(s.waiter[p]).seq = s.waiter[p].seq
        /\ Tell(s.waiter[p], "internal").seq = s.waiter[p].seq
        /\ Tell(s.waiter[p], "internal").granted = s.waiter[p].granted
    BY <2>1, NumbersStay
  <2>. QED
    BY <1>6, <2>2
<1>9. ASSUME NEW p \in Request, i <= Len(q), Contains(rest, p)
      PROVE  s.waiter[q[i]].seq < s.waiter[p].seq
  <2>1. PICK j \in 1..Len(q) : j > i /\ q[j] = p
    BY <1>4, <1>9
  <2>2. i \in 1..Len(q) /\ i < j
    BY <1>2, <1>9, <2>1
  <2>. QED
    BY <2>1, <2>2 DEF OrderInv
<1>10. OrderInv(t, n)
  BY <1>3, <1>4, <1>7, <1>8, <1>9, OrderIsKept
<1>11. i <= Len(q) => q[i] \in Request /\ Contains(q, q[i])
  BY <1>2, <1>3 DEF Contains
<1>. QED
  BY <1>7, <1>10, <1>11 DEF t

\* grantNextLocked, from a record whose lease was cleared.
LEMMA GrantNextHistory ==
  ASSUME NEW s \in LockState, NEW now \in Nat, NEW n, OrderInv(s, n),
         NEW t \in GrantNext(s, now)
  PROVE  /\ OrderInv(t, n)
         /\ t.item.releasedToken = s.item.releasedToken
         /\ \/ t.item.token = s.item.token
            \/ /\ t.item.token \in Request
               /\ Contains(s.item.queue, t.item.token)
               /\ t.item.depth = 1
<1>1. PICK i \in StopAt(s.item.queue, s.waiter) : t = PopTo(s, i, now)
  BY DEF GrantNext
<1>. QED
  BY <1>1, PopToHistory

\* cancelAll leaves nobody in the queue, and grants nothing.
LEMMA CancelAllHistory ==
  ASSUME NEW s \in LockState, NEW n, OrderInv(s, n)
  PROVE  OrderInv(CancelAll(s), n)
<1>. DEFINE t == CancelAll(s)
<1>1. s.item \in Record /\ s.item.queue \in Seq(Request) /\ s.waiter \in [Request -> Waiter]
  BY DEF LockState, Record
<1>2. t.item.queue = <<>>
  BY <1>1 DEF CancelAll, Record
<1>3. ASSUME NEW p \in Request
      PROVE  t.waiter[p].seq = s.waiter[p].seq /\ (t.waiter[p].granted => s.waiter[p].granted)
  <2>1. s.waiter[p] \in Waiter
    BY <1>1
  <2>2. /\ Tell(CancelWaiter(s.waiter[p]), "not_found").seq = s.waiter[p].seq
        /\ Tell(CancelWaiter(s.waiter[p]), "not_found").granted = s.waiter[p].granted
    BY <2>1, NumbersStay
  <2>. QED
    BY <2>2 DEF CancelAll
<1>4. LeftOf(t.item.queue, s.item.queue) /\ \A j \in 1..Len(s.item.queue) : s.item.queue[j] \in Request
  BY <1>1, <1>2, LeftOfEnds, ElementOfSeq
<1>. HIDE DEF t
<1>5. OrderInv(t, n)
  BY <1>3, <1>4, OrderIsKept
<1>. QED
  BY <1>5 DEF t

-----------------------------------------------------------------------------
(* A free record is blank.                                                 *)

Blank(r) ==
  r.token = NoToken => r.holder = NoHolder /\ r.depth = 0 /\ r.expiresAt = ZeroTime

\* Two records with the same lease.
SameLease(a, b) ==
  a.holder = b.holder /\ a.token = b.token /\ a.depth = b.depth /\ a.expiresAt = b.expiresAt

\* clearLease leaves a blank record (lease.go:56).
LEMMA ClearedIsBlank ==
  ASSUME NEW r \in Record, NEW n, NEW b
  PROVE  /\ Blank(ClearLease(r, n, b))
         /\ Blank([ClearLease(r, n, b) EXCEPT !.deleted = TRUE])
BY DEF Blank, ClearLease, Record

\* Enough to be blank: to be leased, or to have the lease of a record that is blank.
LEMMA BlankEnough ==
  ASSUME NEW r
  PROVE  /\ r.token # NoToken => Blank(r)
         /\ \A a : Blank(a) /\ SameLease(r, a) => Blank(r)
BY DEF Blank, SameLease

\* grantNextLocked assigns a lease or leaves a blank record blank.
LEMMA GrantNextBlank ==
  ASSUME NEW s \in LockState, Blank(s.item), NEW now, NEW t \in GrantNext(s, now)
  PROVE  Blank(t.item)
<1>1. PICK i \in StopAt(s.item.queue, s.waiter) : t = PopTo(s, i, now)
  BY DEF GrantNext
<1>. DEFINE q == s.item.queue
            popped == [s.item EXCEPT !.queue = SubSeq(q, i + 1, Len(q))]
<1>2. s.item \in Record /\ q \in Seq(Request) /\ Len(q) \in Nat /\ i \in 1..(Len(q) + 1)
  BY LenProperties DEF LockState, Record, StopAt
<1>3. popped \in Record /\ Blank(popped)
  <2>1. SubSeq(q, i + 1, Len(q)) \in Seq(Request)
    BY <1>2, SubSeqLemma
  <2>2. popped \in Record
    BY <1>2, <2>1, Zenon DEF Record
  <2>3. SameLease(popped, s.item)
    BY <1>2 DEF SameLease, Record
  <2>. QED
    BY <2>2, <2>3, BlankEnough
<1>4. t.item = IF i <= Len(q)
               THEN AssignLease(popped, s.waiter[q[i]].holder, q[i], s.waiter[q[i]].ttl, now)
               ELSE popped
  BY <1>1 DEF PopTo
<1>. HIDE DEF popped
<1>5. CASE i <= Len(q)
  <2>1. q[i] # NoToken
    BY <1>2, <1>5, ElementOfSeq, RecordAssumption
  <2>2. t.item.token = q[i]
    BY <1>3, <1>4, <1>5 DEF AssignLease, Record
  <2>. QED
    BY <2>1, <2>2, BlankEnough
<1>6. CASE ~(i <= Len(q))
  BY <1>3, <1>4, <1>6
<1>. QED
  BY <1>5, <1>6

\* A lease that is cleared and handed on, or expired, leaves no traces.
LEMMA CededBlank ==
  ASSUME IInv, NEW now \in Nat, NEW b \in BOOLEAN,
         NEW s \in GrantNext([State EXCEPT !.item = ClearLease(item, now, b)], now)
  PROVE  Blank(s.item)
<1>. DEFINE c == ClearLease(item, now, b)
            u == [State EXCEPT !.item = c]
<1>1. c \in Record /\ Blank(c)
  BY TypesAtHand, ClearLeaseLemma, ClearedIsBlank
<1>. HIDE DEF c
<1>2. u \in LockState /\ u.item = c
  BY <1>1, TypesAtHand DEF LockState, State
<1>3. s \in GrantNext(u, now)
  BY DEF c
<1>. HIDE DEF u
<1>. QED
  BY <1>1, <1>2, <1>3, GrantNextBlank

LEMMA ExpiredBlank ==
  ASSUME IInv, FreeIsBlank, NEW now \in Nat, NEW s \in ExpireLocked(State, now)
  PROVE  Blank(s.item) /\ s.item \in Record
<1>1. s.item \in Record /\ State.item = item
  BY ExpiredIsGood DEF GoodState, LockState, State
<1>2. CASE ~Expires(item, now)
  BY <1>1, <1>2, NotExpired DEF Blank, FreeIsBlank
<1>3. CASE Expires(item, now)
  <2>1. s \in GrantNext([State EXCEPT !.item = ClearLease(item, now, FALSE)], now)
    BY <1>1, <1>3 DEF ExpireLocked
  <2>. QED
    BY <1>1, <2>1, CededBlank
<1>. QED
  BY <1>2, <1>3

\* One step of a goroutine.
LEMMA ProceedBlank ==
  ASSUME IInv, FreeIsBlank, NEW p \in Request, Proceed(p)
  PROVE  Blank(item')
<1>1. /\ item \in Record /\ State.item = item /\ Blank(item) /\ call[p].now \in Nat
      /\ p # NoToken
  BY CallType, RecordAssumption DEF Blank, FreeIsBlank
<1>2. \A s \in ExpireLocked(State, call[p].now) : Blank(s.item) /\ s.item \in Record /\ s \in LockState
  BY <1>1, ExpiredBlank, ExpiredIsGood DEF GoodState
<1>3. \A s \in LockState : \A r : [s EXCEPT !.item = r].item = r
  BY DEF LockState
<1>4. CASE Acquire(p)
  <2>1. CASE AcquireRejected(p)
    BY <1>1, <2>1 DEF AcquireRejected, Answer, Becomes
  <2>2. CASE AcquireFree(p)
    <3>1. PICK s \in ExpireLocked(State, call[p].now) :
            LET a == AssignLease(s.item, call[p].holder, p, NormalTTL(call[p].ttl), call[p].now)
            IN item' = s.item \/ item' = [s EXCEPT !.item = a].item
      BY <2>2 DEF AcquireFree, Answer, Becomes
    <3>. DEFINE a == AssignLease(s.item, call[p].holder, p, NormalTTL(call[p].ttl), call[p].now)
    <3>2. s \in LockState /\ s.item \in Record
      BY <1>2
    <3>3. a.token = p
      BY <3>2 DEF AssignLease, Record
    <3>. HIDE DEF a
    <3>4. item' = s.item \/ item' = a
      BY <1>3, <3>1, <3>2 DEF a
    <3>. QED
      BY <1>1, <1>2, <3>3, <3>4, BlankEnough
  <2>3. CASE AcquireReenter(p)
    <3>1. PICK s \in ExpireLocked(State, call[p].now) :
            LET d == DeeperLease(s.item, NormalTTL(call[p].ttl), call[p].now)
            IN s.item.token # NoToken /\ (item' = s.item \/ item' = [s EXCEPT !.item = d].item)
      BY <2>3 DEF AcquireReenter, Reenters, Answer, Becomes
    <3>. DEFINE d == DeeperLease(s.item, NormalTTL(call[p].ttl), call[p].now)
    <3>2. s \in LockState /\ s.item \in Record
      BY <1>2
    <3>3. d.token = s.item.token
      BY <3>2 DEF DeeperLease, Record
    <3>. HIDE DEF d
    <3>4. item' = s.item \/ item' = d
      BY <1>3, <3>1, <3>2 DEF d
    <3>. QED
      BY <3>1, <3>3, <3>4, BlankEnough
  <2>4. CASE AcquireLocked(p)
    BY <1>2, <2>4 DEF AcquireLocked, Answer, Becomes
  <2>5. CASE AcquireEnqueue(p)
    <3>1. PICK s \in ExpireLocked(State, call[p].now) : item' = [s.item EXCEPT !.queue = Push(@, p)]
      BY <2>5 DEF AcquireEnqueue
    <3>2. SameLease(item', s.item)
      BY <1>2, <3>1 DEF SameLease, Record
    <3>. QED
      BY <1>2, <3>2, BlankEnough
  <2>. QED
    BY <1>4, <2>1, <2>2, <2>3, <2>4, <2>5 DEF Acquire
<1>5. CASE Wait(p)
  <2>1. item' = item \/ item' = [item EXCEPT !.queue = RemoveFirst(@, p)]
    BY <1>1, <1>5 DEF Wait, WaitOutcome, WaitCtxDone, AbortWait, Answer, Becomes
  <2>2. item' = item \/ SameLease(item', item)
    BY <1>1, <2>1 DEF SameLease, Record
  <2>. QED
    BY <1>1, <2>2, BlankEnough
<1>6. CASE Renew(p)
  <2>1. CASE RenewNotHeld(p)
    BY <1>1, <1>2, <2>1 DEF RenewNotHeld, Answer, Becomes
  <2>2. CASE RenewHeld(p)
    <3>1. item.token # NoToken
      BY <2>2 DEF RenewHeld
    <3>2. item' = item \/ item' = [item EXCEPT !.expiresAt = call[p].now + NormalTTL(call[p].ttl)]
      BY <2>2 DEF RenewHeld, Answer, Becomes, State
    <3>3. item' = item \/ item'.token = item.token
      BY <1>1, <3>2 DEF Record
    <3>. QED
      BY <1>1, <3>1, <3>3, BlankEnough
  <2>. QED
    BY <1>6, <2>1, <2>2 DEF Renew
<1>7. CASE Release(p)
  <2>1. CASE ReleaseRefused(p)
    BY <1>1, <2>1 DEF ReleaseRefused, Answer, Becomes
  <2>2. CASE ReleaseExpired(p)
    BY <1>2, <2>2 DEF ReleaseExpired, Answer, Becomes
  <2>3. CASE ReleaseHeld(p)
    <3>1. item.token # NoToken
      BY <2>3 DEF ReleaseHeld
    <3>2. \/ item' = ShallowerLease(item, call[p].now)
          \/ \E s \in GrantNext([State EXCEPT !.item = ClearLease(item, call[p].now, TRUE)],
                                call[p].now) : item' = s.item
      BY <2>3 DEF ReleaseHeld, Answer, Becomes, State
    <3>3. item' = ShallowerLease(item, call[p].now) => item'.token = item.token
      BY <1>1 DEF ShallowerLease, Record
    <3>4. ASSUME NEW s \in GrantNext([State EXCEPT !.item = ClearLease(item, call[p].now, TRUE)],
                                     call[p].now)
          PROVE  Blank(s.item)
      BY <1>1, CededBlank
    <3>. QED
      BY <3>1, <3>2, <3>3, <3>4, BlankEnough
  <2>. QED
    BY <1>7, <2>1, <2>2, <2>3 DEF Release
<1>8. CASE StealSection(p)
  <2>. DEFINE c == ClearLease(item, call[p].now, FALSE)
  <2>1. c \in Record /\ Blank(c)
    BY <1>1, ClearLeaseLemma, ClearedIsBlank
  <2>2. \/ item' = item
        \/ item' = c
        \/ item' = AssignLease(c, call[p].holder, p, NormalTTL(call[p].ttl), call[p].now)
    BY <1>8 DEF StealSection, Answer, Becomes, State
  <2>. HIDE DEF c
  <2>3. item' = item \/ item' = c \/ item'.token = p
    BY <2>1, <2>2 DEF AssignLease, Record
  <2>. QED
    BY <1>1, <2>1, <2>3, BlankEnough
<1>9. CASE DeleteSection(p)
  <2>1. CASE item' = item
    BY <1>1, <2>1
  <2>2. ASSUME NEW s \in ExpireLocked(State, call[p].now), item' = s.item
        PROVE  Blank(item')
    BY <1>2, <2>2
  <2>3. ASSUME NEW s \in ExpireLocked(State, call[p].now),
               item' = [CancelAll(s) EXCEPT !.item =
                          [ClearLease(@, call[p].now, FALSE) EXCEPT !.deleted = TRUE]].item
        PROVE  Blank(item')
    <3>1. CancelAll(s).item \in Record /\ CancelAll(s) \in LockState
      <4>1. QueueInv(s, BlockedSet) /\ BlockedSet \in SUBSET Request
        BY <1>1, ExpiredIsGood DEF GoodState, BlockedSet
      <4>. QED
        BY <1>2, <4>1, CancelAllLemma DEF LockState
    <3>2. item' = [ClearLease(CancelAll(s).item, call[p].now, FALSE) EXCEPT !.deleted = TRUE]
      BY <1>3, <2>3, <3>1
    <3>. QED
      BY <3>1, <3>2, ClearedIsBlank
  <2>. QED
    BY <1>1, <1>9, <2>1, <2>2, <2>3 DEF DeleteSection, Answer, Becomes
<1>. QED
  BY <1>4, <1>5, <1>6, <1>7, <1>8, <1>9 DEF Proceed

\* Every step keeps a free record blank.
LEMMA BlankStep == IInv /\ FreeIsBlank /\ [Next]_vars => FreeIsBlank'
<1>. SUFFICES ASSUME IInv, FreeIsBlank, [Next]_vars PROVE Blank(item')
  BY DEF Blank, FreeIsBlank
<1>1. Blank(item) /\ item \in Record /\ State.item = item
  BY TypesAtHand DEF Blank, FreeIsBlank, State
<1>2. ASSUME NEW p \in Request, Start(p) \/ CtxDone(p) PROVE item' = item
  BY <1>2 DEF Start, StartAcquire, StartRenew, StartRelease, StartSteal, StartDelete,
              LookUp, Refuse, CtxDone
<1>3. CASE ExpirerScan
  <2>1. \A s \in ExpireLocked(State, expirer.now) : Blank(s.item) /\ s.item \in Record /\ s \in LockState
    BY ExpirerType, ExpiredBlank, ExpiredIsGood DEF GoodState
  <2>2. \/ item' = item
        \/ \E s \in ExpireLocked(State, expirer.now) :
             item' = s.item \/ item' = [s.item EXCEPT !.deleted = TRUE]
    BY <1>3, <2>1 DEF ExpirerScan, Becomes, LockState
  <2>3. item' = item \/ \E s \in ExpireLocked(State, expirer.now) : item' = s.item \/ SameLease(item', s.item)
    BY <2>1, <2>2 DEF SameLease, Record
  <2>. QED
    BY <1>1, <2>1, <2>3, BlankEnough
<1>4. CASE Tick \/ ExpirerTick \/ UNCHANGED vars
  BY <1>1, <1>4 DEF Tick, ExpirerTick, vars
<1>. QED
  BY <1>1, <1>2, <1>3, <1>4, ProceedBlank DEF Next

-----------------------------------------------------------------------------
(* Counting answers.                                                       *)

\* The requests answered with this code about this token.
Told(replies, code, t) == {p \in Request : replies[p] = [code |-> code, token |-> t]}

\* The depth of token t's lease against the answers about it: DepthCounts.
Count(replies, t, depth) ==
  depth + Cardinality(Told(replies, "partial", t)) = 1 + Cardinality(Told(replies, "reentered", t))

\* A lease with the right depth, of a record with these answers.
Counted(replies, r) ==
  r.token # NoToken => r.depth \in 1..MaxDepth /\ Count(replies, r.token, r.depth)

\* DepthCounts says just that, of the present record and of the next.
LEMMA DepthIsCounted ==
  /\ DepthCounts <=> Counted(reply, item)
  /\ DepthCounts' <=> Counted(reply', item')
BY DEF DepthCounts, Counted, Count, Told

\* Somebody was answered.
SomeAnswered(replies) == {p \in Request : replies[p].code # "none"}

\* The answers are new, with one more than replies: p was answered.
OneMore(replies, new, p, code, token) ==
  /\ replies[p].code = "none"
  /\ new[p] = [code |-> code, token |-> token]
  /\ \A q \in Request \ {p} : new[q] = replies[q]

\* An answer more is counted once, where it belongs.
LEMMA OneMoreAnswer ==
  ASSUME NEW replies, IsFiniteSet(SomeAnswered(replies)), NEW new,
         NEW p \in Request, NEW code, NEW token, OneMore(replies, new, p, code, token),
         NEW c, c # "none", NEW t
  PROVE  /\ Cardinality(Told(replies, c, t)) \in Nat
         /\ Cardinality(Told(new, c, t)) =
              IF c = code /\ t = token THEN Cardinality(Told(replies, c, t)) + 1
                                       ELSE Cardinality(Told(replies, c, t))
<1>. DEFINE old == Told(replies, c, t)
<1>1. old \in SUBSET SomeAnswered(replies)
  <2>1. ASSUME NEW q \in Request, replies[q] = [code |-> c, token |-> t] PROVE replies[q].code # "none"
    BY <2>1
  <2>. QED
    BY <2>1 DEF Told, SomeAnswered
<1>2. IsFiniteSet(old)
  BY <1>1, FS_Subset
<1>3. p \notin old
  BY DEF Told, OneMore
<1>4. CASE c = code /\ t = token
  <2>1. Told(new, c, t) = old \cup {p}
    BY <1>4 DEF Told, OneMore
  <2>. HIDE DEF old
  <2>2. Cardinality(old) \in Nat /\ Cardinality(old \cup {p}) = Cardinality(old) + 1
    BY <1>2, <1>3, FS_AddElement, FS_CardinalityType
  <2>. QED
    BY <1>4, <2>1, <2>2 DEF old
<1>5. CASE ~(c = code /\ t = token)
  <2>1. new[p] # [code |-> c, token |-> t]
    BY <1>5 DEF OneMore
  <2>2. Told(new, c, t) = old
    BY <1>3, <2>1 DEF Told, OneMore
  <2>. HIDE DEF old
  <2>3. Cardinality(old) \in Nat
    BY <1>2, FS_CardinalityType
  <2>. QED
    BY <1>5, <2>2, <2>3 DEF old
<1>. QED
  BY <1>4, <1>5

\* A lease nobody was answered about has depth 1.
LEMMA NoAnswerYet ==
  ASSUME NEW replies, NEW t,
         \A p \in Request : replies[p].code \in {"partial", "reentered"} => replies[p].token # t
  PROVE  Count(replies, t, 1)
<1>1. Told(replies, "partial", t) = {} /\ Told(replies, "reentered", t) = {}
  BY DEF Told
<1>. QED
  BY <1>1, FS_EmptySet DEF Count

\* What is counted after one more answer.
LEMMA CountAfter ==
  ASSUME NEW replies, IsFiniteSet(SomeAnswered(replies)), NEW new,
         NEW p \in Request, NEW code, NEW token, OneMore(replies, new, p, code, token),
         NEW t, NEW depth \in Nat,
         \/ code = "reentered" /\ token = t /\ depth > 0 /\ Count(replies, t, depth - 1)
         \/ code = "partial" /\ token = t /\ Count(replies, t, depth + 1)
         \/ code \notin {"reentered", "partial"} /\ Count(replies, t, depth)
  PROVE  Count(new, t, depth)
<1>. DEFINE a == Cardinality(Told(replies, "partial", t))
            b == Cardinality(Told(replies, "reentered", t))
            x == Cardinality(Told(new, "partial", t))
            y == Cardinality(Told(new, "reentered", t))
<1>1. a \in Nat /\ x = IF "partial" = code /\ t = token THEN a + 1 ELSE a
  BY OneMoreAnswer
<1>2. b \in Nat /\ y = IF "reentered" = code /\ t = token THEN b + 1 ELSE b
  BY OneMoreAnswer
<1>3. \A d : Count(replies, t, d) <=> d + a = 1 + b
  BY DEF Count
<1>4. Count(new, t, depth) <=> depth + x = 1 + y
  BY DEF Count
<1>. HIDE DEF a, b, x, y
<1>. QED
  BY <1>1, <1>2, <1>3, <1>4

-----------------------------------------------------------------------------
(* Tokens given and tokens to come.                                        *)

\* The leases of requests that wait in the queue, or that have just entered
\* their critical section, are still to come.
LEMMA NotYetKnown ==
  ASSUME IInv, NEW t \in Request, Contains(item.queue, t) \/ pc[t] = "enter"
  PROVE  ~Known(t)
<1>1. \A q \in Request : pc[q] # "done" => reply[q].code = "none"
  BY DEF IInv, AnsweredOnce, NoReply
<1>2. CASE Contains(item.queue, t)
  <2>1. Undecided(State, BlockedSet, t)
    BY <1>2 DEF IInv, QueueInv, State
  <2>. QED
    BY <1>1, <2>1 DEF Undecided, State, Known, BlockedSet, Blocked
<1>3. CASE pc[t] = "enter"
  BY <1>1, <1>3 DEF Known, BlockedSet, Blocked
<1>. QED
  BY <1>2, <1>3

\* The lease that comes has depth 1, and was never released.
LEMMA FreshLease ==
  ASSUME IInv, HInv, NEW t, ~Known(t)
  PROVE  Count(reply, t, 1) /\ t \notin item.releasedToken
<1>1. \A p \in Request : reply[p].code \in {"reentered", "partial", "released"} => reply[p].token # t
  BY DEF HInv, AnswersAboutKnown
<1>2. Count(reply, t, 1)
  BY <1>1, NoAnswerYet
<1>3. ASSUME t \in item.releasedToken PROVE FALSE
  <2>1. PICK p \in Request : reply[p] = [code |-> "released", token |-> t]
    BY <1>3 DEF HInv, RememberedWereReleased
  <2>2. reply[p].code = "released" /\ reply[p].token = t
    BY <2>1
  <2>. QED
    BY <1>1, <2>2
<1>. QED
  BY <1>2, <1>3

\* The lease of the record is known.
LEMMA OwnerIsKnown ==
  ASSUME IInv, item.token # NoToken
  PROVE  Known(item.token)
BY TypesAtHand DEF IInv, LeaseReachesItsOwner, Known, BlockedSet, Record, Token

\* No waiter that was granted is forgotten in state s.
GrantsKept(s) == \A q \in Request : waiter[q].granted => s.waiter[q].granted

\* Some call was answered that this token, and no later lease, is released.
WasReleased(t) == \E q \in Request : reply[q] = [code |-> "released", token |-> t]

\* A lease that is cleared and handed on: the next one is fresh.
LEMMA CededHistory ==
  ASSUME IInv, HInv, NEW now \in Nat, NEW b \in BOOLEAN,
         NEW s \in GrantNext([State EXCEPT !.item = ClearLease(item, now, b)], now)
  PROVE  /\ OrderInv(s, seq)
         /\ Counted(reply, s.item)
         /\ GrantsKept(s)
         /\ \A t \in s.item.releasedToken :
              t # s.item.token /\ (WasReleased(t) \/ (b /\ t = item.token))
<1>. DEFINE c == ClearLease(item, now, b)
            u == [State EXCEPT !.item = c]
<1>1. /\ GoodState(State, BlockedSet) /\ State.item = item /\ State.waiter = waiter
      /\ item \in Record /\ BlockedSet \in SUBSET Request
  BY StateIsGood, CallType, TypesAtHand DEF State, BlockedSet
<1>2. s \in GrantNext(u, now)
  OBVIOUS
<1>3. /\ c \in Record /\ c.token = NoToken /\ c.queue = item.queue
      /\ \A t \in c.releasedToken : t \in item.releasedToken \/ (b /\ t = item.token /\ t # NoToken)
  BY <1>1, ClearLeaseLemma, ClearLeaseRemembers
<1>. HIDE DEF c
<1>4. u \in LockState /\ u.item = c /\ u.waiter = State.waiter
  BY <1>1, <1>3 DEF GoodState, LockState
<1>. HIDE DEF u
<1>5. QueueInv(u, BlockedSet)
  BY <1>1, <1>3, <1>4, QueueInvLemma DEF GoodState
<1>6. OrderInv(u, seq)
  BY <1>1, <1>3, <1>4 DEF HInv, OrderInv
<1>7. /\ \A q \in Request : u.waiter[q].granted => s.waiter[q].granted
  BY <1>1, <1>2, <1>3, <1>4, <1>5, GrantNextLemma
<1>8. /\ OrderInv(s, seq)
      /\ s.item.releasedToken = c.releasedToken
      /\ \/ s.item.token = NoToken
         \/ /\ s.item.token \in Request
            /\ Contains(item.queue, s.item.token)
            /\ s.item.depth = 1
  BY <1>2, <1>3, <1>4, <1>6, GrantNextHistory
<1>9. s.item.token # NoToken => s.item.token \in Request /\ ~Known(s.item.token)
  BY <1>8, NotYetKnown
<1>10. Counted(reply, s.item)
  <2>1. s.item.token # NoToken => Count(reply, s.item.token, 1)
    BY <1>9, FreshLease
  <2>2. 1 \in 1..MaxDepth
    BY RecordAssumption
  <2>. QED
    BY <1>8, <2>1, <2>2 DEF Counted
<1>11. ASSUME NEW t \in s.item.releasedToken
       PROVE  t # s.item.token /\ (WasReleased(t) \/ (b /\ t = item.token))
  <2>1. t \in item.releasedToken \/ (b /\ t = item.token /\ t # NoToken)
    BY <1>3, <1>8, <1>11
  <2>2. CASE t \in item.releasedToken
    <3>1. WasReleased(t)
      BY <2>2 DEF HInv, RememberedWereReleased, WasReleased
    <3>2. t # NoToken
      BY <1>1, <2>2, RecordAssumption DEF Record
    <3>3. s.item.token # NoToken => s.item.token \notin item.releasedToken
      BY <1>9, FreshLease
    <3>. QED
      BY <2>2, <3>1, <3>2, <3>3
  <2>3. CASE b /\ t = item.token /\ t # NoToken
    <3>1. Known(t)
      BY <2>3, OwnerIsKnown
    <3>. QED
      BY <1>9, <2>3, <3>1
  <2>. QED
    BY <2>1, <2>2, <2>3
<1>. QED
  BY <1>1, <1>4, <1>7, <1>8, <1>10, <1>11 DEF GrantsKept

\* The present state, and what expireLocked makes of it.
LEMMA ExpiredHistory ==
  ASSUME IInv, HInv, NEW now \in Nat, NEW s \in ExpireLocked(State, now)
  PROVE  /\ OrderInv(s, seq)
         /\ Counted(reply, s.item)
         /\ GrantsKept(s)
         /\ \A t \in s.item.releasedToken : t # s.item.token /\ WasReleased(t)
<1>1. CASE ~Expires(item, now)
  <2>1. s = State /\ State.item = item /\ State.waiter = waiter
    BY <1>1, NotExpired DEF State
  <2>. QED
    BY <2>1, DepthIsCounted DEF HInv, GrantsKept, RememberedWereReleased, WasReleased
<1>2. CASE Expires(item, now)
  <2>1. s \in GrantNext([State EXCEPT !.item = ClearLease(item, now, FALSE)], now)
    BY <1>2 DEF ExpireLocked, State
  <2>. QED
    BY <2>1, CededHistory
<1>. QED
  BY <1>1, <1>2

-----------------------------------------------------------------------------
(* The shapes of a step.                                                   *)

\* State s is what a critical section may leave that answers with code and token.
Fits(s, code, token) ==
  /\ OrderInv(s, seq)
  /\ GrantsKept(s)
  /\ \A t \in s.item.releasedToken :
       t # s.item.token /\ (WasReleased(t) \/ (code = "released" /\ t = token))
  /\ code \in {"reentered", "partial", "released"} =>
       Known(token) \/ (token = s.item.token /\ token # NoToken)
  /\ s.item.token # NoToken =>
       /\ s.item.depth \in 1..MaxDepth
       /\ LET t == s.item.token
              d == s.item.depth
          IN \/ code = "reentered" /\ token = t /\ Count(reply, t, d - 1)
             \/ code = "partial" /\ token = t /\ Count(reply, t, d + 1)
             \/ code \notin {"reentered", "partial"} /\ Count(reply, t, d)

\* Most codes say nothing of the past.
LEMMA PlainFits ==
  ASSUME NEW s, OrderInv(s, seq), Counted(reply, s.item), GrantsKept(s),
         \A t \in s.item.releasedToken : t # s.item.token /\ WasReleased(t),
         NEW code, code \notin {"reentered", "partial", "released"}, NEW token
  PROVE  Fits(s, code, token)
BY DEF Fits, Counted

\* The present state is good for all of those.
LEMMA PresentFits ==
  ASSUME IInv, HInv
  PROVE  /\ OrderInv(State, seq) /\ Counted(reply, State.item) /\ GrantsKept(State)
         /\ \A t \in State.item.releasedToken : t # State.item.token /\ WasReleased(t)
BY DepthIsCounted DEF HInv, GrantsKept, RememberedWereReleased, WasReleased, State

\* Who was answered has started.
LEMMA AnsweredIsFinite ==
  ASSUME IInv, HInv
  PROVE  IsFiniteSet(SomeAnswered(reply))
<1>1. SomeAnswered(reply) \in SUBSET Started
  BY DEF SomeAnswered, Started, IInv, AnsweredOnce, NoReply
<1>. QED
  BY <1>1, FS_Subset DEF HInv

\* A step that answers request p.
LEMMA AnswerHistory ==
  ASSUME IInv, IInv', HInv, FreeIsBlank', NEW p \in Request, pc[p] # "done",
         NEW s, NEW code, NEW token, Fits(s, code, token),
         item' = s.item, waiter' = s.waiter, seq' = seq,
         pc' = [pc EXCEPT ![p] = "done"],
         reply' = [reply EXCEPT ![p] = [code |-> code, token |-> token]],
         p \in BlockedSet /\ waiter[p].granted => code = "acquired"
  PROVE  HInv'
<1>1. pc \in [Request -> Place] /\ reply \in [Request -> Reply] /\ item' \in Record
  BY TypesAtHand DEF IInv, TypeOK
<1>2. OneMore(reply, reply', p, code, token)
  BY <1>1 DEF OneMore, IInv, AnsweredOnce, NoReply
<1>3. IsFiniteSet(SomeAnswered(reply))
  BY AnsweredIsFinite
<1>4. OrderInv(State', seq')
  BY DEF Fits, OrderInv, State
<1>5. DepthCounts'
  <2>. DEFINE t == item'.token
              d == item'.depth
  <2>1. ASSUME t # NoToken PROVE d \in 1..MaxDepth /\ Count(reply', t, d)
    <3>1. d \in Nat /\ MaxDepth \in Nat
      BY <1>1, RecordAssumption DEF Record
    <3>2. /\ d \in 1..MaxDepth
          /\ \/ code = "reentered" /\ token = t /\ Count(reply, t, d - 1)
             \/ code = "partial" /\ token = t /\ Count(reply, t, d + 1)
             \/ code \notin {"reentered", "partial"} /\ Count(reply, t, d)
      BY <2>1 DEF Fits
    <3>3. d > 0
      BY <3>1, <3>2
    <3>. HIDE DEF t, d
    <3>. QED
      BY <1>2, <1>3, <3>1, <3>2, <3>3, CountAfter
  <2>. QED
    BY <2>1, DepthIsCounted DEF Counted
<1>6. RememberedWereReleased'
  <2>1. ASSUME NEW t, WasReleased(t) PROVE \E q \in Request : reply'[q] = [code |-> "released", token |-> t]
    <3>1. PICK q \in Request : reply[q] = [code |-> "released", token |-> t]
      BY <2>1 DEF WasReleased
    <3>2. q # p
      BY <1>2, <3>1 DEF OneMore
    <3>. QED
      BY <1>2, <3>1, <3>2 DEF OneMore
  <2>2. reply'[p] = [code |-> code, token |-> token]
    BY <1>2 DEF OneMore
  <2>3. \A t \in item'.releasedToken :
          t # item'.token /\ (WasReleased(t) \/ (code = "released" /\ t = token))
    BY DEF Fits
  <2>. QED
    BY <2>1, <2>2, <2>3 DEF RememberedWereReleased
<1>7. ASSUME NEW t, Known(t) PROVE Known(t)'
  <2>1. CASE t \in Request /\ reply[t].code \in {"acquired", "stolen"}
    BY <1>2, <2>1 DEF OneMore, Known
  <2>2. CASE t \in BlockedSet /\ waiter[t].granted
    <3>1. t \in Request /\ waiter'[t].granted
      BY <2>2 DEF Fits, GrantsKept, BlockedSet
    <3>2. CASE t = p
      BY <1>2, <2>2, <3>1, <3>2 DEF OneMore, Known
    <3>3. CASE t # p
      BY <1>1, <2>2, <3>1, <3>3 DEF Known, BlockedSet, Blocked
    <3>. QED
      BY <3>2, <3>3
  <2>. QED
    BY <1>7, <2>1, <2>2 DEF Known
<1>8. AnswersAboutKnown'
  <2>1. ASSUME NEW q \in Request, NEW t, t = reply'[q].token,
               reply'[q].code \in {"reentered", "partial", "released"}
        PROVE  Known(t)'
    <3>1. CASE q # p
      <4>1. reply'[q] = reply[q]
        BY <1>2, <3>1 DEF OneMore
      <4>2. Known(t)
        BY <2>1, <4>1 DEF HInv, AnswersAboutKnown
      <4>. QED
        BY <1>7, <4>2
    <3>2. CASE q = p
      <4>1. code \in {"reentered", "partial", "released"} /\ t = token
        BY <1>2, <2>1, <3>2 DEF OneMore
      <4>2. Known(t) \/ (t = item'.token /\ t # NoToken)
        BY <4>1 DEF Fits
      <4>3. t = item'.token /\ t # NoToken => Known(t)'
        BY <1>1 DEF IInv, LeaseReachesItsOwner, Known, BlockedSet, Record, Token
      <4>. QED
        BY <1>7, <4>2, <4>3
    <3>. QED
      BY <3>1, <3>2
  <2>. QED
    BY <2>1 DEF AnswersAboutKnown, Known
<1>9. IsFiniteSet(Started)'
  <2>1. Started' \in SUBSET (Started \cup {p})
    BY <1>1 DEF Started
  <2>2. IsFiniteSet(Started \cup {p})
    BY FS_AddElement DEF HInv
  <2>. QED
    BY <2>1, <2>2, FS_Subset
<1>. QED
  BY <1>4, <1>5, <1>6, <1>8, <1>9 DEF HInv

\* A step that answers nobody.
LEMMA QuietHistory ==
  ASSUME IInv, IInv', HInv, FreeIsBlank', NEW p \in Request,
         \A q \in Request \ {p} : pc'[q] = pc[q], BlockedSet \subseteq BlockedSet',
         reply' = reply, OrderInv(State', seq'), Counted(reply, item'),
         \A q \in BlockedSet : waiter[q].granted => waiter'[q].granted,
         \A t \in item'.releasedToken : t # item'.token /\ WasReleased(t)
  PROVE  HInv'
<1>1. DepthCounts'
  BY DepthIsCounted
<1>2. RememberedWereReleased'
  BY DEF RememberedWereReleased, WasReleased
<1>3. ASSUME NEW t, Known(t) PROVE Known(t)'
  BY <1>3 DEF Known
<1>4. AnswersAboutKnown'
  BY <1>3 DEF HInv, AnswersAboutKnown
<1>5. IsFiniteSet(Started)'
  <2>1. Started' \in SUBSET (Started \cup {p})
    BY DEF Started
  <2>2. IsFiniteSet(Started \cup {p})
    BY FS_AddElement DEF HInv
  <2>. QED
    BY <2>1, <2>2, FS_Subset
<1>. QED
  BY <1>1, <1>2, <1>4, <1>5 DEF HInv

-----------------------------------------------------------------------------
(* One lemma per action: HInv is kept.                                     *)

\* A critical section that answers.
LEMMA SectionHistory ==
  ASSUME IInv, IInv', HInv, FreeIsBlank', NEW p \in Request, pc[p] = "enter",
         NEW s, NEW code, NEW token, Fits(s, code, token), Answer(p, s, code, token)
  PROVE  HInv'
<1>1. pc[p] # "done" /\ p \notin BlockedSet
  BY DEF BlockedSet, Blocked
<1>2. /\ item' = s.item /\ waiter' = s.waiter /\ seq' = seq
      /\ pc' = [pc EXCEPT ![p] = "done"]
      /\ reply' = [reply EXCEPT ![p] = [code |-> code, token |-> token]]
  BY DEF Answer, Becomes, Finish
<1>. QED
  BY <1>1, <1>2, AnswerHistory

\* The codes that say nothing of re-entries and releases.
Plain == Code \ {"reentered", "partial", "released"}

\* A critical section that answers one of them, and leaves the record as it is or
\* as expireLocked made it.
LEMMA PlainHistory ==
  ASSUME IInv, IInv', HInv, FreeIsBlank', NEW p \in Request, pc[p] = "enter",
         NEW code \in Plain, NEW token, NEW s, Answer(p, s, code, token),
         s = State \/ s \in ExpireLocked(State, call[p].now)
  PROVE  HInv'
<1>1. code \notin {"reentered", "partial", "released"} /\ call[p].now \in Nat
  BY CallType DEF Plain
<1>2. Fits(s, code, token)
  <2>1. CASE s = State
    BY <1>1, <2>1, PresentFits, PlainFits
  <2>2. CASE s \in ExpireLocked(State, call[p].now)
    BY <1>1, <2>2, ExpiredHistory, PlainFits
  <2>. QED
    BY <2>1, <2>2
<1>. QED
  BY <1>2, SectionHistory

\* The calls that are turned away (service.go:60-70, 137-162, 171-194).
LEMMA RejectedHistory ==
  ASSUME IInv, IInv', HInv, FreeIsBlank', NEW p \in Request,
         \/ AcquireRejected(p) \/ AcquireLocked(p) \/ RenewNotHeld(p)
         \/ ReleaseRefused(p) \/ ReleaseExpired(p)
  PROVE  HInv'
<1>1. {"not_found", "invalid", "locked", "not_held", "repeated", "token_invalid"} \subseteq Plain
  BY DEF Plain, Code
<1>2. pc[p] = "enter"
  BY DEF AcquireRejected, AcquireLocked, AcquireProceeds, RenewNotHeld, ReleaseRefused,
         ReleaseExpired, Enters
<1>3. \A code \in Plain : \A token : Answer(p, State, code, token) => HInv'
  BY <1>2, PlainHistory
<1>4. \A s \in ExpireLocked(State, call[p].now), code \in Plain : \A token :
        Answer(p, s, code, token) => HInv'
  BY <1>2, PlainHistory
<1>5. CASE AcquireRejected(p)
  BY <1>1, <1>3, <1>5 DEF AcquireRejected
<1>6. CASE AcquireLocked(p)
  BY <1>1, <1>4, <1>6 DEF AcquireLocked
<1>7. CASE RenewNotHeld(p)
  BY <1>1, <1>3, <1>4, <1>7 DEF RenewNotHeld
<1>8. CASE ReleaseRefused(p)
  BY <1>1, <1>3, <1>8 DEF ReleaseRefused
<1>9. CASE ReleaseExpired(p)
  BY <1>1, <1>4, <1>9 DEF ReleaseExpired
<1>. QED
  BY <1>5, <1>6, <1>7, <1>8, <1>9

\* The record of state s is changed but for its queue and the tokens it remembers.
LEMMA UpdateFits ==
  ASSUME IInv, HInv, NEW s, OrderInv(s, seq), GrantsKept(s), NEW r,
         r.queue = s.item.queue, r.releasedToken = s.item.releasedToken,
         NEW t, t.item = r, t.waiter = s.waiter
  PROVE  OrderInv(t, seq) /\ GrantsKept(t) /\ t.item.releasedToken = s.item.releasedToken
BY DEF OrderInv, GrantsKept

\* Acquire and Steal: a lease of depth 1 for request p.
LEMMA NewLeaseHistory ==
  ASSUME IInv, IInv', HInv, FreeIsBlank', NEW p \in Request, pc[p] = "enter",
         NEW s \in LockState, OrderInv(s, seq), GrantsKept(s),
         \A t \in s.item.releasedToken : WasReleased(t),
         NEW code \in {"acquired", "stolen"},
         LET c == call[p]
         IN Answer(p, [s EXCEPT !.item = AssignLease(@, c.holder, p, NormalTTL(c.ttl), c.now)],
                   code, p)
  PROVE  HInv'
<1>. DEFINE r == AssignLease(s.item, call[p].holder, p, NormalTTL(call[p].ttl), call[p].now)
            t == [s EXCEPT !.item = r]
<1>1. /\ s.item \in Record /\ r.token = p /\ r.depth = 1 /\ r.queue = s.item.queue
      /\ r.releasedToken = s.item.releasedToken
  BY DEF LockState, AssignLease, Record
<1>2. Answer(p, t, code, p)
  OBVIOUS
<1>. HIDE DEF r
<1>3. t.item = r /\ t.waiter = s.waiter
  BY DEF LockState
<1>. HIDE DEF t
<1>4. OrderInv(t, seq) /\ GrantsKept(t) /\ t.item.releasedToken = s.item.releasedToken
  BY <1>1, <1>3, UpdateFits
<1>5. ~Known(p)
  BY NotYetKnown
<1>6. ~WasReleased(p)
  <2>1. \A q \in Request : reply[q].code = "released" => reply[q].token # p
    BY <1>5 DEF HInv, AnswersAboutKnown
  <2>. QED
    BY <2>1 DEF WasReleased
<1>7. Count(reply, p, 1)
  BY <1>5, FreshLease
<1>8. 1 \in 1..MaxDepth
  BY RecordAssumption
<1>9. Fits(t, code, p)
  BY <1>1, <1>3, <1>4, <1>6, <1>7, <1>8 DEF Fits
<1>. QED
  BY <1>2, <1>9, SectionHistory

\* AcquireFree: see NewLeaseHistory (service.go:72-81).
LEMMA AcquireFreeHistory ==
  ASSUME IInv, IInv', HInv, FreeIsBlank', NEW p \in Request, AcquireFree(p)
  PROVE  HInv'
<1>1. pc[p] = "enter" /\ "internal" \in Plain /\ call[p].now \in Nat
  BY CallType DEF AcquireFree, AcquireProceeds, Enters, Plain, Code
<1>2. PICK s \in ExpireLocked(State, call[p].now) :
        LET c == call[p]
        IN \/ Answer(p, [s EXCEPT !.item = AssignLease(@, c.holder, p, NormalTTL(c.ttl), c.now)],
                     "acquired", p)
           \/ Answer(p, s, "internal", NoToken)
  BY DEF AcquireFree
<1>3. CASE Answer(p, s, "internal", NoToken)
  BY <1>1, <1>3, PlainHistory
<1>4. CASE ~Answer(p, s, "internal", NoToken)
  <2>1. s \in LockState
    BY <1>1, <1>2, ExpiredIsGood DEF GoodState
  <2>2. OrderInv(s, seq) /\ GrantsKept(s) /\ \A t \in s.item.releasedToken : WasReleased(t)
    BY <1>1, <1>2, ExpiredHistory
  <2>. QED
    BY <1>1, <1>2, <1>4, <2>1, <2>2, NewLeaseHistory
<1>. QED
  BY <1>3, <1>4

\* AcquireReenter: a level more, and an answer more (reentrant.go).
LEMMA AcquireReenterHistory ==
  ASSUME IInv, IInv', HInv, FreeIsBlank', NEW p \in Request, AcquireReenter(p)
  PROVE  HInv'
<1>1. pc[p] = "enter" /\ "invalid" \in Plain /\ call[p].now \in Nat
  BY CallType DEF AcquireReenter, AcquireProceeds, Enters, Plain, Code
<1>. DEFINE lease(s) == DeeperLease(s.item, NormalTTL(call[p].ttl), call[p].now)
<1>2. PICK s \in ExpireLocked(State, call[p].now) :
        /\ Reenters(s.item, call[p].holder)
        /\ \/ Answer(p, s, "invalid", NoToken)
           \/ /\ s.item.depth < MaxDepth
              /\ Answer(p, [s EXCEPT !.item = lease(s)], "reentered", s.item.token)
  BY DEF AcquireReenter
<1>3. CASE Answer(p, s, "invalid", NoToken)
  BY <1>1, <1>3, PlainHistory
<1>4. CASE /\ s.item.depth < MaxDepth
           /\ Answer(p, [s EXCEPT !.item = lease(s)], "reentered", s.item.token)
  <2>. DEFINE r == lease(s)
              t == [s EXCEPT !.item = r]
  <2>1. s \in LockState /\ s.item \in Record /\ s.item.token # NoToken
    BY <1>1, <1>2, ExpiredIsGood DEF GoodState, LockState, Reenters
  <2>2. /\ OrderInv(s, seq) /\ GrantsKept(s) /\ Counted(reply, s.item)
        /\ \A x \in s.item.releasedToken : x # s.item.token /\ WasReleased(x)
    BY <1>1, <1>2, ExpiredHistory
  <2>3. /\ r.queue = s.item.queue /\ r.releasedToken = s.item.releasedToken
        /\ r.token = s.item.token /\ r.depth = s.item.depth + 1
    BY <2>1 DEF DeeperLease, Record
  <2>. HIDE DEF r
  <2>4. t.item = r /\ t.waiter = s.waiter
    BY <2>1 DEF LockState
  <2>. HIDE DEF t
  <2>5. OrderInv(t, seq) /\ GrantsKept(t) /\ t.item.releasedToken = s.item.releasedToken
    BY <2>2, <2>3, <2>4, UpdateFits
  <2>6. r.depth \in 1..MaxDepth /\ r.depth - 1 = s.item.depth
    BY <1>4, <2>1, <2>3, RecordAssumption DEF Record
  <2>7. Count(reply, s.item.token, r.depth - 1)
    BY <2>1, <2>2, <2>6 DEF Counted
  <2>8. Fits(t, "reentered", s.item.token)
    BY <2>1, <2>2, <2>3, <2>4, <2>5, <2>6, <2>7 DEF Fits
  <2>. QED
    BY <1>1, <1>4, <2>8, SectionHistory DEF t, r
<1>. QED
  BY <1>2, <1>3, <1>4

\* RenewHeld leaves the depth and the token (service.go:147-158).
LEMMA RenewHeldHistory ==
  ASSUME IInv, IInv', HInv, FreeIsBlank', NEW p \in Request, RenewHeld(p)
  PROVE  HInv'
<1>1. pc[p] = "enter" /\ {"token_invalid", "invalid", "renewed"} \subseteq Plain
  BY DEF RenewHeld, Enters, Plain, Code
<1>. DEFINE e == call[p].now + NormalTTL(call[p].ttl)
            r == [item EXCEPT !.expiresAt = e]
            t == [State EXCEPT !.item.expiresAt = e]
<1>2. \/ \E code \in {"token_invalid", "invalid"} : Answer(p, State, code, call[p].token)
      \/ Answer(p, t, "renewed", call[p].token)
  BY DEF RenewHeld
<1>3. CASE \E code \in {"token_invalid", "invalid"} : Answer(p, State, code, call[p].token)
  BY <1>1, <1>3, PlainHistory
<1>4. CASE Answer(p, t, "renewed", call[p].token)
  <2>1. /\ r.queue = item.queue /\ r.releasedToken = item.releasedToken
        /\ r.token = item.token /\ r.depth = item.depth
    BY CallType DEF Record
  <2>2. t.item = r /\ t.waiter = State.waiter /\ State.item = item
    BY DEF State
  <2>. HIDE DEF r, t
  <2>3. /\ OrderInv(State, seq) /\ GrantsKept(State) /\ Counted(reply, item)
        /\ \A x \in item.releasedToken : x # item.token /\ WasReleased(x)
    BY <2>2, PresentFits
  <2>4. OrderInv(t, seq) /\ GrantsKept(t)
    BY <2>1, <2>2, <2>3, UpdateFits
  <2>5. Counted(reply, t.item)
    BY <2>1, <2>2, <2>3 DEF Counted
  <2>6. Fits(t, "renewed", call[p].token)
    BY <2>1, <2>2, <2>3, <2>4, <2>5, PlainFits
  <2>. QED
    BY <1>1, <1>4, <2>6, SectionHistory
<1>. QED
  BY <1>2, <1>3, <1>4

\* ReleaseHeld: a level less and an answer more, or the lease is cleared, its
\* token remembered and the lock handed on (service.go:195-208).
LEMMA ReleaseHeldHistory ==
  ASSUME IInv, IInv', HInv, FreeIsBlank', NEW p \in Request, ReleaseHeld(p)
  PROVE  HInv'
<1>1. /\ pc[p] = "enter" /\ call[p].now \in Nat
      /\ call[p].token # NoToken /\ call[p].token = item.token
  BY CallType DEF ReleaseHeld, Enters
<1>. DEFINE n == call[p].now
            r == ShallowerLease(item, n)
            t == [State EXCEPT !.item = r]
<1>2. \/ item.depth > 1 /\ Answer(p, t, "partial", item.token)
      \/ \E s \in GrantNext([State EXCEPT !.item = ClearLease(item, n, TRUE)], n) :
           Answer(p, s, "released", item.token)
  BY <1>1, CallType DEF ReleaseHeld
<1>3. Known(item.token)
  BY <1>1, OwnerIsKnown
<1>4. CASE item.depth > 1 /\ Answer(p, t, "partial", item.token)
  <2>1. item \in Record /\ item.depth \in Nat
    BY TypesAtHand DEF Record
  <2>2. /\ r.queue = item.queue /\ r.releasedToken = item.releasedToken
        /\ r.token = item.token /\ r.depth = item.depth - 1
    BY <2>1 DEF ShallowerLease, Record
  <2>. HIDE DEF r
  <2>3. t.item = r /\ t.waiter = State.waiter /\ State.item = item
    BY DEF State
  <2>. HIDE DEF t
  <2>4. /\ OrderInv(State, seq) /\ GrantsKept(State) /\ Counted(reply, item)
        /\ \A x \in item.releasedToken : x # item.token /\ WasReleased(x)
    BY <2>3, PresentFits
  <2>5. OrderInv(t, seq) /\ GrantsKept(t)
    BY <2>2, <2>3, <2>4, UpdateFits
  <2>6. item.depth \in 1..MaxDepth /\ Count(reply, item.token, item.depth)
    BY <1>1, <2>4 DEF Counted
  <2>7. r.depth \in 1..MaxDepth /\ r.depth + 1 = item.depth
    BY <1>4, <2>1, <2>2, <2>6, RecordAssumption
  <2>8. Fits(t, "partial", item.token)
    BY <1>1, <2>2, <2>3, <2>4, <2>5, <2>6, <2>7 DEF Fits
  <2>. QED
    BY <1>1, <1>4, <2>8, SectionHistory
<1>5. ASSUME NEW s \in GrantNext([State EXCEPT !.item = ClearLease(item, n, TRUE)], n),
             Answer(p, s, "released", item.token)
      PROVE  HInv'
  <2>1. /\ OrderInv(s, seq) /\ Counted(reply, s.item) /\ GrantsKept(s)
        /\ \A x \in s.item.releasedToken : x # s.item.token /\ (WasReleased(x) \/ x = item.token)
    BY <1>1, CededHistory
  <2>2. Fits(s, "released", item.token)
    BY <1>3, <2>1 DEF Fits, Counted
  <2>. QED
    BY <1>1, <1>5, <2>2, SectionHistory
<1>. QED
  BY <1>2, <1>4, <1>5

\* StealSection: a new lease, or none when no token can be drawn
\* (service.go:265-281).
LEMMA StealSectionHistory ==
  ASSUME IInv, IInv', HInv, FreeIsBlank', NEW p \in Request, StealSection(p)
  PROVE  HInv'
<1>1. pc[p] = "enter" /\ call[p].now \in Nat /\ {"not_found", "invalid", "internal"} \subseteq Plain
  BY CallType DEF StealSection, Enters, Plain, Code
<1>. DEFINE c == ClearLease(item, call[p].now, FALSE)
            s == [State EXCEPT !.item = c]
            lease(r) == AssignLease(r, call[p].holder, p, NormalTTL(call[p].ttl), call[p].now)
<1>2. \/ \E code \in {"not_found", "invalid"} : Answer(p, State, code, NoToken)
      \/ Answer(p, [s EXCEPT !.item = lease(@)], "stolen", p)
      \/ Answer(p, s, "internal", NoToken)
  <2>1. State.item = item
    BY DEF State
  <2>. QED
    BY <2>1 DEF StealSection
<1>3. /\ c \in Record /\ c.token = NoToken /\ c.queue = item.queue
      /\ \A t \in c.releasedToken : t \in item.releasedToken
  BY <1>1, TypesAtHand, ClearLeaseLemma, ClearLeaseRemembers
<1>. HIDE DEF c
<1>4. s \in LockState /\ s.item = c /\ s.waiter = waiter /\ State.item = item
  BY <1>3, TypesAtHand DEF LockState, State
<1>. HIDE DEF s
<1>5. /\ OrderInv(State, seq) /\ GrantsKept(State)
      /\ \A t \in item.releasedToken : WasReleased(t)
  BY <1>4, PresentFits
<1>6. /\ OrderInv(s, seq) /\ GrantsKept(s)
      /\ \A t \in s.item.releasedToken : WasReleased(t)
  BY <1>3, <1>4, <1>5 DEF OrderInv, GrantsKept, State
<1>7. CASE \E code \in {"not_found", "invalid"} : Answer(p, State, code, NoToken)
  BY <1>1, <1>7, PlainHistory
<1>8. CASE Answer(p, [s EXCEPT !.item = lease(@)], "stolen", p)
  BY <1>1, <1>4, <1>6, <1>8, NewLeaseHistory
<1>9. CASE Answer(p, s, "internal", NoToken)
  <2>1. \A t \in s.item.releasedToken : t # s.item.token
    BY <1>3, <1>4, RecordAssumption DEF Record
  <2>2. Counted(reply, s.item)
    BY <1>3, <1>4 DEF Counted
  <2>3. Fits(s, "internal", NoToken)
    BY <1>6, <2>1, <2>2, PlainFits
  <2>. QED
    BY <1>1, <1>9, <2>3, SectionHistory
<1>. QED
  BY <1>2, <1>7, <1>8, <1>9

\* DeleteSection: the lease and the queue are gone (service.go:287-312).
LEMMA DeleteSectionHistory ==
  ASSUME IInv, IInv', HInv, FreeIsBlank', NEW p \in Request, DeleteSection(p)
  PROVE  HInv'
<1>1. /\ pc[p] = "enter" /\ call[p].now \in Nat
      /\ {"unauthorized", "locked", "not_found", "deleted"} \subseteq Plain
  BY CallType DEF DeleteSection, Enters, Plain, Code
<1>. DEFINE n == call[p].now
            dead(t) == [ClearLease(t.item, n, FALSE) EXCEPT !.deleted = TRUE]
<1>2. \/ Answer(p, State, "unauthorized", NoToken)
      \/ \E s \in ExpireLocked(State, n) :
           \/ Answer(p, s, "locked", NoToken)
           \/ \E code \in {"not_found", "deleted"} :
                Answer(p, [CancelAll(s) EXCEPT !.item = dead(CancelAll(s))], code, NoToken)
  BY DEF DeleteSection
<1>3. CASE Answer(p, State, "unauthorized", NoToken)
  BY <1>1, <1>3, PlainHistory
<1>4. CASE \E s \in ExpireLocked(State, n) : Answer(p, s, "locked", NoToken)
  BY <1>1, <1>4, PlainHistory
<1>5. ASSUME NEW s \in ExpireLocked(State, n), NEW code \in {"not_found", "deleted"},
             Answer(p, [CancelAll(s) EXCEPT !.item = dead(CancelAll(s))], code, NoToken)
      PROVE  HInv'
  <2>. DEFINE t == CancelAll(s)
              c == ClearLease(t.item, n, FALSE)
              r == [c EXCEPT !.deleted = TRUE]
              u == [t EXCEPT !.item = r]
  <2>1. s \in LockState /\ QueueInv(s, BlockedSet)
    BY <1>1, ExpiredIsGood DEF GoodState
  <2>2. /\ OrderInv(s, seq) /\ GrantsKept(s)
        /\ \A x \in s.item.releasedToken : x # s.item.token /\ WasReleased(x)
    BY <1>1, ExpiredHistory
  <2>3. OrderInv(t, seq)
    BY <2>1, <2>2, CancelAllHistory
  <2>4. t \in LockState /\ t.item \in Record
    BY <2>1, CancelAllLemma DEF LockState, BlockedSet
  <2>5. t.item.releasedToken = s.item.releasedToken
    BY <2>1 DEF CancelAll, LockState, Record
  <2>6. GrantsKept(t)
    <3>1. ASSUME NEW q \in Request PROVE t.waiter[q].granted = s.waiter[q].granted
      <4>1. s.waiter[q] \in Waiter
        BY <2>1 DEF LockState
      <4>2. Tell(CancelWaiter(s.waiter[q]), "not_found").granted = s.waiter[q].granted
        BY <4>1, NumbersStay
      <4>. QED
        BY <4>2 DEF CancelAll
    <3>. QED
      BY <2>2, <3>1 DEF GrantsKept
  <2>7. Answer(p, u, code, NoToken)
    BY <1>5
  <2>. HIDE DEF t
  <2>8. /\ c \in Record /\ c.token = NoToken /\ c.queue = t.item.queue
        /\ \A x \in c.releasedToken : x \in t.item.releasedToken
    BY <1>1, <2>4, ClearLeaseLemma, ClearLeaseRemembers
  <2>. HIDE DEF c
  <2>9. r.token = NoToken /\ r.queue = t.item.queue /\ r.releasedToken = c.releasedToken
    BY <2>8 DEF Record
  <2>. HIDE DEF r
  <2>10. u.item = r /\ u.waiter = t.waiter
    BY <2>4 DEF LockState
  <2>. HIDE DEF u
  <2>11. OrderInv(u, seq) /\ GrantsKept(u)
    BY <2>3, <2>6, <2>9, <2>10 DEF OrderInv, GrantsKept
  <2>12. Counted(reply, u.item)
    BY <2>9, <2>10 DEF Counted
  <2>13. ASSUME NEW x \in u.item.releasedToken PROVE x # u.item.token /\ WasReleased(x)
    <3>1. x \in s.item.releasedToken /\ x # NoToken
      BY <2>5, <2>8, <2>9, <2>10, <2>13, RecordAssumption DEF Record
    <3>. QED
      BY <2>2, <2>9, <2>10, <3>1
  <2>14. code \in Plain /\ code \notin {"reentered", "partial", "released"}
    BY <1>1 DEF Plain
  <2>15. Fits(u, code, NoToken)
    BY <2>11, <2>12, <2>13, <2>14, PlainFits
  <2>. QED
    BY <1>1, <2>7, <2>15, SectionHistory
<1>. QED
  BY <1>2, <1>3, <1>4, <1>5

\* Acquire joins the queue with a number above all others (service.go:95-98).
LEMMA EnqueueOrder ==
  ASSUME NEW n \in Nat, NEW s \in LockState, OrderInv(s, n),
         NEW p \in Request, ~Contains(s.item.queue, p),
         NEW t, t.item.queue = Push(s.item.queue, p),
         t.waiter[p].seq = n + 1, ~t.waiter[p].granted,
         \A q \in Request \ {p} : t.waiter[q] = s.waiter[q]
  PROVE  OrderInv(t, n + 1)
<1>. DEFINE q == s.item.queue
            r == t.item.queue
<1>1. q \in Seq(Request) /\ s.waiter \in [Request -> Waiter]
  BY DEF LockState, Record
<1>2. Len(q) \in Nat /\ \A i \in 1..Len(q) : q[i] \in Request /\ q[i] # p
  BY <1>1, LenProperties, ElementOfSeq DEF Contains
<1>3. /\ Len(r) = Len(q) + 1 /\ r[Len(q) + 1] = p
      /\ \A i \in 1..Len(q) : r[i] = q[i]
  BY <1>1, AppendProperties DEF Push
<1>4. \A x \in Request : s.waiter[x].seq \in Nat /\ s.waiter[x].seq <= n
  BY <1>1 DEF OrderInv, Waiter
<1>. HIDE DEF r
<1>5. \A x \in Request : t.waiter[x].seq <= n + 1
  BY <1>4
<1>6. ASSUME NEW i \in 1..Len(r), NEW j \in 1..Len(r), i < j
      PROVE  t.waiter[r[i]].seq < t.waiter[r[j]].seq
  <2>1. i \in 1..Len(q) /\ r[i] = q[i] /\ t.waiter[q[i]] = s.waiter[q[i]]
    BY <1>2, <1>3, <1>6
  <2>2. CASE j \in 1..Len(q)
    <3>1. r[j] = q[j] /\ t.waiter[q[j]] = s.waiter[q[j]]
      BY <1>2, <1>3, <2>2
    <3>2. s.waiter[q[i]].seq < s.waiter[q[j]].seq
      BY <1>6, <2>1, <2>2 DEF OrderInv
    <3>. QED
      BY <2>1, <3>1, <3>2
  <2>3. CASE j \notin 1..Len(q)
    <3>1. r[j] = p
      BY <1>2, <1>3, <2>3
    <3>. QED
      BY <1>2, <1>4, <2>1, <3>1
  <2>. QED
    BY <2>2, <2>3
<1>7. ASSUME NEW x \in Request, NEW g \in Request, t.waiter[g].granted, Contains(r, x)
      PROVE  t.waiter[g].seq < t.waiter[x].seq
  <2>1. g # p /\ t.waiter[g] = s.waiter[g]
    BY <1>7
  <2>2. CASE x = p
    BY <1>4, <2>1, <2>2
  <2>3. CASE x # p
    <3>1. Contains(q, x)
      BY <1>2, <1>3, <1>7, <2>3 DEF Contains
    <3>. QED
      BY <1>7, <2>1, <2>3, <3>1 DEF OrderInv
  <2>. QED
    BY <2>2, <2>3
<1>. QED
  BY <1>5, <1>6, <1>7 DEF OrderInv, r

\* AcquireEnqueue answers nobody yet.
LEMMA AcquireEnqueueHistory ==
  ASSUME IInv, IInv', HInv, FreeIsBlank', NEW p \in Request, AcquireEnqueue(p)
  PROVE  HInv'
<1>1. pc[p] = "enter" /\ call[p].now \in Nat /\ seq \in Nat /\ p \notin BlockedSet
  BY CallType, TypesAtHand DEF AcquireEnqueue, AcquireProceeds, Enters, BlockedSet, Blocked
<1>. DEFINE w == NewWaiter(seq + 1, call[p].holder, NormalTTL(call[p].ttl))
<1>2. PICK s \in ExpireLocked(State, call[p].now) :
        /\ seq' = seq + 1
        /\ item' = [s.item EXCEPT !.queue = Push(@, p)]
        /\ waiter' = [s.waiter EXCEPT ![p] = w]
  BY DEF AcquireEnqueue
<1>3. pc' = [pc EXCEPT ![p] = "wait"] /\ reply' = reply
  BY DEF AcquireEnqueue
<1>4. s \in LockState /\ QueueInv(s, BlockedSet)
  BY <1>1, ExpiredIsGood DEF GoodState
<1>5. /\ OrderInv(s, seq) /\ GrantsKept(s) /\ Counted(reply, s.item)
      /\ \A x \in s.item.releasedToken : x # s.item.token /\ WasReleased(x)
  BY <1>1, ExpiredHistory
<1>6. /\ item'.queue = Push(s.item.queue, p) /\ item'.token = s.item.token
      /\ item'.depth = s.item.depth /\ item'.releasedToken = s.item.releasedToken
  BY <1>2, <1>4 DEF LockState, Record
<1>7. w.seq = seq + 1 /\ ~w.granted
  BY DEF NewWaiter, NoWaiter
<1>. HIDE DEF w
<1>8. waiter'[p] = w /\ \A q \in Request \ {p} : waiter'[q] = s.waiter[q]
  BY <1>2, <1>4 DEF LockState
<1>9. ~Contains(s.item.queue, p)
  BY <1>1, <1>4 DEF QueueInv, Undecided
<1>10. OrderInv(State', seq')
  <2>. DEFINE t == State'
  <2>1. t.item = item' /\ t.waiter = waiter'
    BY DEF State
  <2>. HIDE DEF t
  <2>2. OrderInv(t, seq + 1)
    BY <1>1, <1>4, <1>5, <1>6, <1>7, <1>8, <1>9, <2>1, EnqueueOrder
  <2>. QED
    BY <1>2, <2>2 DEF t
<1>11. Counted(reply, item')
  BY <1>5, <1>6 DEF Counted
<1>12. (\A q \in Request \ {p} : pc'[q] = pc[q]) /\ BlockedSet \subseteq BlockedSet'
  BY <1>1, <1>3, TypesAtHand DEF BlockedSet, Blocked
<1>13. \A q \in BlockedSet : waiter[q].granted => waiter'[q].granted
  BY <1>1, <1>5, <1>8 DEF GrantsKept, BlockedSet
<1>14. \A t \in item'.releasedToken : t # item'.token /\ WasReleased(t)
  BY <1>5, <1>6
<1>. QED
  BY <1>3, <1>10, <1>11, <1>12, <1>13, <1>14, QuietHistory

\* The end of a wait: a grant is kept, and takes nothing with it.
LEMMA WaitHistory ==
  ASSUME IInv, IInv', HInv, FreeIsBlank', NEW p \in BlockedSet, NEW s,
         NEW code \in Plain, NEW token, waiter[p].granted => code = "acquired",
         s.item.token = item.token, s.item.depth = item.depth,
         s.item.releasedToken = item.releasedToken, LeftOf(s.item.queue, item.queue),
         \A q \in Request : /\ s.waiter[q].seq = waiter[q].seq
                            /\ s.waiter[q].granted = waiter[q].granted,
         item' = s.item, waiter' = s.waiter, seq' = seq, Finish(p, code, token)
  PROVE  HInv'
<1>1. p \in Request /\ pc[p] # "done" /\ State.item = item /\ State.waiter = waiter
  BY DEF BlockedSet, Blocked, State
<1>2. \A j \in 1..Len(item.queue) : item.queue[j] \in Request
  BY TypesAtHand, ElementOfSeq DEF Record
<1>3. /\ OrderInv(State, seq) /\ Counted(reply, item)
      /\ \A t \in item.releasedToken : t # item.token /\ WasReleased(t)
  BY <1>1, PresentFits
<1>4. OrderInv(s, seq)
  BY <1>1, <1>2, <1>3, OrderIsKept
<1>5. Counted(reply, s.item) /\ GrantsKept(s)
  BY <1>3 DEF Counted, GrantsKept
<1>6. Fits(s, code, token)
  BY <1>3, <1>4, <1>5, PlainFits DEF Plain
<1>7. /\ pc' = [pc EXCEPT ![p] = "done"]
      /\ reply' = [reply EXCEPT ![p] = [code |-> code, token |-> token]]
  BY DEF Finish
<1>. QED
  BY <1>1, <1>6, <1>7, AnswerHistory

\* WaitOutcome: a grant received is a grant recorded (service.go:101-104).
LEMMA WaitOutcomeHistory ==
  ASSUME IInv, IInv', HInv, FreeIsBlank', NEW p \in Request, WaitOutcome(p)
  PROVE  HInv'
<1>1. p \in BlockedSet
  BY DEF WaitOutcome, BlockedSet, Blocked
<1>. DEFINE o == Head(waiter[p].done)
            s == [item |-> item, waiter |-> [waiter EXCEPT ![p].done = Tail(@)]]
<1>2. /\ item' = item /\ seq' = seq
      /\ waiter' = [waiter EXCEPT ![p].done = Tail(@)]
      /\ IF o = "granted" THEN Finish(p, "acquired", p) ELSE Finish(p, o, NoToken)
      /\ waiter[p].done # <<>>
  BY DEF WaitOutcome
<1>3. waiter[p].granted => o = "granted"
  BY <1>1 DEF IInv, QueueInv, State
<1>4. o \in Outcome
  <2>1. waiter[p].done \in Seq(Outcome)
    BY TypesAtHand DEF Waiter
  <2>. QED
    BY <1>2, <2>1, HeadTailProperties
<1>. HIDE DEF o
<1>5. \A q \in Request : /\ s.waiter[q].seq = waiter[q].seq
                         /\ s.waiter[q].granted = waiter[q].granted
  <2>1. waiter \in [Request -> Waiter]
    BY TypesAtHand
  <2>. QED
    BY <2>1 DEF Waiter
<1>6. LeftOf(item.queue, item.queue)
  BY TypesAtHand, LeftOfEnds DEF Record
<1>7. s.item = item /\ item' = s.item /\ waiter' = s.waiter
  BY <1>2
<1>. HIDE DEF s
<1>8. CASE o = "granted"
  <2>1. Finish(p, "acquired", p) /\ "acquired" \in Plain
    BY <1>2, <1>8 DEF Plain, Code
  <2>. QED
    BY <1>1, <1>2, <1>5, <1>6, <1>7, <2>1, WaitHistory
<1>9. CASE o # "granted"
  <2>1. Finish(p, o, NoToken) /\ o \in Plain /\ ~waiter[p].granted
    BY <1>2, <1>3, <1>4, <1>9 DEF Plain, Code, Outcome
  <2>. QED
    BY <1>1, <1>2, <1>5, <1>6, <1>7, <2>1, WaitHistory
<1>. QED
  BY <1>8, <1>9

\* AbortWait: a grant that came first is kept, or the waiter leaves the queue
\* (service.go:105-120).
LEMMA AbortWaitHistory ==
  ASSUME IInv, IInv', HInv, FreeIsBlank', NEW p \in Request, AbortWait(p)
  PROVE  HInv'
<1>1. p \in BlockedSet /\ {"acquired", "wait_ended"} \subseteq Plain
  BY DEF AbortWait, BlockedSet, Blocked, Plain, Code
<1>2. item \in Record /\ item.queue \in Seq(Request) /\ waiter \in [Request -> Waiter]
  BY TypesAtHand DEF Record
<1>3. CASE waiter[p].granted
  <2>1. /\ item' = State.item /\ waiter' = State.waiter /\ seq' = seq
        /\ Finish(p, "acquired", p)
    BY <1>3 DEF AbortWait, Answer, Becomes
  <2>2. State.item = item /\ State.waiter = waiter
    BY DEF State
  <2>3. LeftOf(item.queue, item.queue)
    BY <1>2, LeftOfEnds
  <2>. QED
    BY <1>1, <2>1, <2>2, <2>3, WaitHistory
<1>4. CASE ~waiter[p].granted
  <2>. DEFINE r == [item EXCEPT !.queue = RemoveFirst(@, p)]
              v == [waiter EXCEPT ![p] = CancelWaiter(@)]
              s == [item |-> r, waiter |-> v]
  <2>1. /\ item' = s.item /\ waiter' = s.waiter /\ seq' = seq
        /\ Finish(p, "wait_ended", NoToken)
    BY <1>4 DEF AbortWait, Answer, Becomes
  <2>2. /\ r.token = item.token /\ r.depth = item.depth
        /\ r.releasedToken = item.releasedToken /\ r.queue = RemoveFirst(item.queue, p)
    BY <1>2 DEF Record
  <2>3. LeftOf(r.queue, item.queue)
    BY <1>2, <2>2, LeftByRemove
  <2>4. \A q \in Request : v[q].seq = waiter[q].seq /\ v[q].granted = waiter[q].granted
    <3>1. waiter[p] \in Waiter
      BY <1>2
    <3>2. /\ CancelWaiter(waiter[p]).seq = waiter[p].seq
          /\ CancelWaiter(waiter[p]).granted = waiter[p].granted
      BY <3>1, NumbersStay
    <3>. QED
      BY <1>2, <3>2
  <2>5. s.item = r /\ s.waiter = v
    OBVIOUS
  <2>. HIDE DEF r, v, s
  <2>. QED
    BY <1>1, <1>4, <2>1, <2>2, <2>3, <2>4, <2>5, WaitHistory
<1>. QED
  BY <1>3, <1>4

\* A call that returns before it has locked the record.
LEMMA TurnedAwayHistory ==
  ASSUME IInv, IInv', HInv, FreeIsBlank', NEW p \in Request, pc[p] = "idle",
         NEW code \in Plain, NEW token, Finish(p, code, token),
         UNCHANGED <<item, waiter, seq>>
  PROVE  HInv'
<1>1. pc[p] # "done" /\ p \notin BlockedSet /\ State.item = item /\ State.waiter = waiter
  BY DEF BlockedSet, Blocked, State
<1>2. Fits(State, code, token)
  BY PresentFits, PlainFits DEF Plain
<1>3. /\ pc' = [pc EXCEPT ![p] = "done"]
      /\ reply' = [reply EXCEPT ![p] = [code |-> code, token |-> token]]
  BY DEF Finish
<1>. QED
  BY <1>1, <1>2, <1>3, AnswerHistory

\* A step that neither answers nor touches the record.
LEMMA FrameHistory ==
  ASSUME IInv, IInv', HInv, FreeIsBlank', NEW p \in Request,
         \A q \in Request \ {p} : pc'[q] = pc[q], BlockedSet \subseteq BlockedSet',
         UNCHANGED <<item, waiter, seq, reply>>
  PROVE  HInv'
<1>1. State' = State /\ State.item = item
  BY DEF State
<1>2. /\ OrderInv(State, seq) /\ Counted(reply, item)
      /\ \A t \in item.releasedToken : t # item.token /\ WasReleased(t)
  BY <1>1, PresentFits
<1>. QED
  BY <1>1, <1>2, QuietHistory

\* The start of a call that looks the record up.
LEMMA LookUpHistory ==
  ASSUME IInv, IInv', HInv, FreeIsBlank', NEW p \in Request, NEW c, LookUp(p, c)
  PROVE  HInv'
<1>1. pc[p] = "idle" /\ UNCHANGED <<item, waiter, seq>>
  BY DEF LookUp
<1>2. CASE Finish(p, "not_found", c.token)
  <2>1. "not_found" \in Plain
    BY DEF Plain, Code
  <2>. QED
    BY <1>1, <1>2, <2>1, TurnedAwayHistory
<1>3. CASE pc' = [pc EXCEPT ![p] = "enter"] /\ UNCHANGED reply
  <2>1. (\A q \in Request \ {p} : pc'[q] = pc[q]) /\ BlockedSet \subseteq BlockedSet'
    BY <1>1, <1>3, TypesAtHand DEF BlockedSet, Blocked
  <2>. QED
    BY <1>1, <1>3, <2>1, FrameHistory
<1>. QED
  BY <1>2, <1>3 DEF LookUp

\* Starts of calls.
LEMMA StartHistory ==
  ASSUME IInv, IInv', HInv, FreeIsBlank', NEW p \in Request, Start(p)
  PROVE  HInv'
<1>1. ASSUME NEW code \in {"invalid", "canceled", "unauthorized"}, Refuse(p, code)
      PROVE  HInv'
  <2>1. code \in Plain
    BY DEF Plain, Code
  <2>. QED
    BY <1>1, <2>1, TurnedAwayHistory DEF Refuse
<1>2. \A c : LookUp(p, c) => HInv'
  BY LookUpHistory
<1>. QED
  BY <1>1, <1>2, Zenon DEF Start, StartAcquire, StartRenew, StartRelease, StartSteal, StartDelete

\* Contexts that end, and the expirer's ticks.
LEMMA ContextHistory ==
  ASSUME IInv, IInv', HInv, FreeIsBlank', NEW p \in Request, CtxDone(p) \/ WaitCtxDone(p)
  PROVE  HInv'
<1>1. UNCHANGED <<item, waiter, seq, reply>>
  BY DEF CtxDone, WaitCtxDone
<1>2. (\A q \in Request \ {p} : pc'[q] = pc[q]) /\ BlockedSet \subseteq BlockedSet'
  BY TypesAtHand DEF CtxDone, WaitCtxDone, BlockedSet, Blocked
<1>. QED
  BY <1>1, <1>2, FrameHistory

\* The expirer hands an expired lease on, or purges an idle record.
LEMMA ExpirerScanHistory ==
  ASSUME IInv, IInv', HInv, FreeIsBlank', ExpirerScan
  PROVE  HInv'
<1>1. UNCHANGED <<clock, seq, pc, call, reply, ctxDone>>
  BY DEF ExpirerScan
<1>2. State.item = item /\ State.waiter = waiter
  BY DEF State
<1>3. expirer.now \in Nat
  BY ExpirerType
<1>4. \E s : /\ s \in LockState /\ OrderInv(s, seq) /\ Counted(reply, s.item) /\ GrantsKept(s)
             /\ \A t \in s.item.releasedToken : t # s.item.token /\ WasReleased(t)
             /\ waiter' = s.waiter
             /\ item' = s.item \/ item' = [s.item EXCEPT !.deleted = TRUE]
  <2>1. CASE UNCHANGED <<item, waiter>>
    BY <1>2, <2>1, PresentFits, StateIsGood DEF GoodState
  <2>2. ASSUME NEW s \in ExpireLocked(State, expirer.now),
               Becomes(s) \/ Becomes([s EXCEPT !.item.deleted = TRUE])
        PROVE  \E u : /\ u \in LockState /\ OrderInv(u, seq) /\ Counted(reply, u.item) /\ GrantsKept(u)
                      /\ \A t \in u.item.releasedToken : t # u.item.token /\ WasReleased(t)
                      /\ waiter' = u.waiter
                      /\ item' = u.item \/ item' = [u.item EXCEPT !.deleted = TRUE]
    <3>1. /\ OrderInv(s, seq) /\ Counted(reply, s.item) /\ GrantsKept(s)
          /\ \A t \in s.item.releasedToken : t # s.item.token /\ WasReleased(t)
      BY <1>3, ExpiredHistory
    <3>2. s \in LockState
      BY <1>3, ExpiredIsGood DEF GoodState
    <3>3. waiter' = s.waiter /\ (item' = s.item \/ item' = [s.item EXCEPT !.deleted = TRUE])
      BY <2>2, <3>2 DEF Becomes, LockState
    <3>. QED
      BY <3>1, <3>2, <3>3
  <2>. QED
    BY <2>1, <2>2 DEF ExpirerScan
<1>5. PICK s : /\ s \in LockState /\ OrderInv(s, seq) /\ Counted(reply, s.item) /\ GrantsKept(s)
               /\ \A t \in s.item.releasedToken : t # s.item.token /\ WasReleased(t)
               /\ waiter' = s.waiter
               /\ item' = s.item \/ item' = [s.item EXCEPT !.deleted = TRUE]
  BY <1>4
<1>6. /\ item'.queue = s.item.queue /\ item'.token = s.item.token
      /\ item'.depth = s.item.depth /\ item'.releasedToken = s.item.releasedToken
  BY <1>5 DEF LockState, Record
<1>7. OrderInv(State', seq')
  <2>. DEFINE t == State'
  <2>1. t.item = item' /\ t.waiter = waiter'
    BY DEF State
  <2>. HIDE DEF t
  <2>2. OrderInv(t, seq)
    BY <1>5, <1>6, <2>1 DEF OrderInv
  <2>. QED
    BY <1>1, <2>2 DEF t
<1>8. DepthCounts'
  BY <1>1, <1>5, <1>6, DepthIsCounted DEF Counted
<1>9. RememberedWereReleased'
  BY <1>1, <1>5, <1>6 DEF RememberedWereReleased, WasReleased
<1>10. \A t : Known(t) => Known(t)'
  BY <1>1, <1>5 DEF Known, BlockedSet, Blocked, GrantsKept
<1>11. AnswersAboutKnown'
  BY <1>1, <1>10 DEF HInv, AnswersAboutKnown
<1>12. IsFiniteSet(Started)'
  BY <1>1 DEF HInv, Started
<1>. QED
  BY <1>7, <1>8, <1>9, <1>11, <1>12 DEF HInv

\* Nothing happens to what HInv speaks of.
LEMMA StutterHistory ==
  ASSUME HInv, UNCHANGED <<item, waiter, seq, pc, reply>>
  PROVE  HInv'
<1>1. State' = State /\ BlockedSet' = BlockedSet /\ Started' = Started
  BY DEF State, BlockedSet, Blocked, Started
<1>2. OrderInv(State, seq)'
  BY <1>1 DEF HInv
<1>3. DepthCounts'
  BY DEF HInv, DepthCounts
<1>4. RememberedWereReleased'
  BY DEF HInv, RememberedWereReleased
<1>5. AnswersAboutKnown'
  BY <1>1 DEF HInv, AnswersAboutKnown, Known
<1>6. FreeIsBlank'
  BY DEF HInv, FreeIsBlank
<1>. QED
  BY <1>1, <1>2, <1>3, <1>4, <1>5, <1>6 DEF HInv

\* Every step keeps HInv.
LEMMA HistoryStep == IInv /\ IInv' /\ HInv /\ [Next]_vars => HInv'
<1>. SUFFICES ASSUME IInv, IInv', HInv, [Next]_vars PROVE HInv'
  OBVIOUS
<1>0. FreeIsBlank'
  BY BlankStep DEF HInv
<1>1. ASSUME NEW p \in Request, Acquire(p) PROVE HInv'
  BY <1>0, <1>1, RejectedHistory, AcquireFreeHistory, AcquireReenterHistory, AcquireEnqueueHistory
     DEF Acquire
<1>2. ASSUME NEW p \in Request, Wait(p) PROVE HInv'
  BY <1>0, <1>2, WaitOutcomeHistory, ContextHistory, AbortWaitHistory DEF Wait
<1>3. ASSUME NEW p \in Request, Renew(p) PROVE HInv'
  BY <1>0, <1>3, RejectedHistory, RenewHeldHistory DEF Renew
<1>4. ASSUME NEW p \in Request, Release(p) PROVE HInv'
  BY <1>0, <1>4, RejectedHistory, ReleaseHeldHistory DEF Release
<1>5. ASSUME NEW p \in Request, Start(p) \/ Proceed(p) \/ CtxDone(p) PROVE HInv'
  BY <1>0, <1>1, <1>2, <1>3, <1>4, <1>5, StartHistory, ContextHistory, StealSectionHistory,
     DeleteSectionHistory DEF Proceed
<1>6. CASE Tick \/ ExpirerTick \/ UNCHANGED vars
  BY <1>6, StutterHistory DEF Tick, ExpirerTick, vars
<1>. QED
  BY <1>0, <1>5, <1>6, ExpirerScanHistory DEF Next

\* A new lock has no past.
LEMMA NoHistory == Init => HInv
<1>. SUFFICES ASSUME Init PROVE HInv
  OBVIOUS
<1>1. item.token = NoToken /\ item.queue = <<>> /\ item.releasedToken = {}
  BY DEF Init, NewRecord
<1>2. \A p \in Request : waiter[p].seq = 0 /\ ~waiter[p].granted /\ reply[p].code = "none"
  BY DEF Init, NoWaiter, NoReply
<1>3. OrderInv(State, seq)
  <2>1. Len(item.queue) = 0 /\ seq = 0
    BY <1>1, EmptySeq DEF Init
  <2>2. \A p \in Request : waiter[p].seq <= seq
    BY <1>2, <2>1
  <2>. QED
    BY <1>2, <2>1, <2>2 DEF OrderInv, State
<1>4. DepthCounts /\ RememberedWereReleased /\ FreeIsBlank
  BY <1>1 DEF DepthCounts, RememberedWereReleased, FreeIsBlank, Init, NewRecord
<1>5. AnswersAboutKnown
  BY <1>2 DEF AnswersAboutKnown
<1>6. IsFiniteSet(Started)
  <2>1. Started = {}
    BY DEF Init, Started
  <2>. QED
    BY <2>1, FS_EmptySet
<1>. QED
  BY <1>3, <1>4, <1>5, <1>6 DEF HInv

-----------------------------------------------------------------------------
(* The theorems about the past.                                            *)

\* Numbers, depth and remembered tokens agree with what was answered, in every
\* reachable state.
THEOREM HistoryInvariance == Spec => []HInv
<1>1. Init => IInv /\ HInv
  BY InitIsGood, NoHistory
<1>2. IInv /\ HInv /\ [Next]_vars => (IInv /\ HInv)'
  BY StepIsGood, HistoryStep
<1>. QED
  BY <1>1, <1>2, PTL DEF Spec

\* Fair FIFO queueing: nobody is granted the lock before one who came earlier and
\* still waits, whatever mix of releases, expiries, ends of waits and retries of
\* grantNextLocked led there (service.go:95-98, queue.go).
THEOREM NobodyOvertakes == Spec => []NoOvertaking
<1>1. IInv /\ HInv => NoOvertaking
  <2>. SUFFICES ASSUME IInv, HInv, NEW p \in Request, NEW q \in Request, waiter[q].granted,
                       waiter[p].seq < waiter[q].seq, Unanswered(p)
                PROVE  FALSE
    BY DEF NoOvertaking
  <2>1. Contains(item.queue, p)
    BY DEF IInv, QueueInv, Unanswered, State
  <2>2. waiter[q].seq < waiter[p].seq
    BY <2>1 DEF HInv, OrderInv, State
  <2>3. waiter[p].seq \in Nat /\ waiter[q].seq \in Nat
    BY TypesAtHand DEF Waiter
  <2>. QED
    BY <2>2, <2>3
<1>. QED
  BY <1>1, Invariance, HistoryInvariance, PTL

\* The depth of a lease is what its holders were told, and stays within the
\* limit (reentrant.go).
THEOREM DepthIsWhatWasTold == Spec => []DepthCounts
<1>1. HInv => DepthCounts
  BY DEF HInv
<1>. QED
  BY <1>1, HistoryInvariance, PTL

\* A token remembered as released was released by a call that was told so, and
\* no longer holds the lock (lease.go:62, service.go:174).
THEOREM RememberedAreReleased == Spec => []RememberedWereReleased
<1>1. HInv => RememberedWereReleased
  BY DEF HInv
<1>. QED
  BY <1>1, HistoryInvariance, PTL

-----------------------------------------------------------------------------
(* Properties of the step that answers a call.                             *)

\* A goroutine moves itself only.
LEMMA OthersStay ==
  ASSUME IInv, NEW q \in Request, Start(q) \/ Proceed(q) \/ CtxDone(q),
         NEW p \in Request, p # q
  PROVE  pc'[p] = pc[p]
<1>. DEFINE Stays == pc'[p] = pc[p]
<1>0. pc \in [Request -> Place]
  BY TypesAtHand
<1>1. \A code, token : Finish(q, code, token) => Stays
  BY <1>0 DEF Finish
<1>2. \A s, code, token : Answer(q, s, code, token) => Stays
  BY <1>1 DEF Answer
<1>3. (\A c : LookUp(q, c) => Stays) /\ (\A code : Refuse(q, code) => Stays)
  BY <1>0, <1>1 DEF LookUp, Refuse
<1>. SUFFICES Stays
  OBVIOUS
<1>. HIDE DEF Stays
<1>4. CASE Start(q)
  BY <1>3, <1>4, Zenon DEF Start, StartAcquire, StartRenew, StartRelease, StartSteal, StartDelete
<1>5. CASE CtxDone(q)
  BY <1>5 DEF CtxDone, Stays
<1>6. CASE Acquire(q)
  <2>1. CASE AcquireEnqueue(q)
    BY <1>0, <2>1 DEF AcquireEnqueue, Stays
  <2>. QED
    BY <1>2, <1>6, <2>1, Zenon DEF Acquire, AcquireRejected, AcquireFree, AcquireReenter, AcquireLocked
<1>7. CASE Wait(q)
  <2>1. CASE WaitCtxDone(q)
    BY <1>0, <2>1 DEF WaitCtxDone, Stays
  <2>2. CASE WaitOutcome(q)
    BY <1>1, <2>2, Zenon DEF WaitOutcome
  <2>. QED
    BY <1>2, <1>7, <2>1, <2>2, Zenon DEF Wait, AbortWait
<1>8. CASE Renew(q) \/ Release(q)
  BY <1>2, <1>8, Zenon DEF Renew, RenewNotHeld, RenewHeld, Release, ReleaseRefused, ReleaseExpired,
                           ReleaseHeld
<1>9. CASE StealSection(q) \/ DeleteSection(q)
  BY <1>2, <1>9, Zenon DEF StealSection, DeleteSection
<1>. QED
  BY <1>4, <1>5, <1>6, <1>7, <1>8, <1>9 DEF Proceed

\* A call is answered by a step of its own goroutine.
LEMMA OwnAnswer ==
  ASSUME IInv, [Next]_vars, NEW p \in Request, pc[p] # "done", pc'[p] = "done"
  PROVE  Start(p) \/ Proceed(p)
<1>1. ~UNCHANGED pc
  OBVIOUS
<1>2. PICK q \in Request : Start(q) \/ Proceed(q) \/ CtxDone(q)
  BY <1>1 DEF Next, ExpirerTick, ExpirerScan, Tick, vars
<1>3. q = p
  BY <1>2, OthersStay
<1>4. ~CtxDone(p)
  BY <1>1 DEF CtxDone
<1>. QED
  BY <1>2, <1>3, <1>4

\* Once it is inside, by the critical section of its operation.
LEMMA SectionAnswers ==
  ASSUME IInv, [Next]_vars, NEW p \in Request, pc[p] = "enter", pc'[p] = "done"
  PROVE  Acquire(p) \/ Renew(p) \/ Release(p) \/ StealSection(p) \/ DeleteSection(p)
<1>1. Start(p) \/ Proceed(p)
  BY OwnAnswer
<1>2. ~Start(p)
  BY DEF Start, StartAcquire, StartRenew, StartRelease, StartSteal, StartDelete, LookUp, Refuse
<1>3. ~Wait(p)
  BY DEF Wait, WaitOutcome, WaitCtxDone, AbortWait
<1>. QED
  BY <1>1, <1>2, <1>3 DEF Proceed

\* The code of an answer is the one that the caller gets.
LEMMA AnswerIsGiven ==
  ASSUME IInv, NEW p \in Request, NEW s, NEW code, NEW token, Answer(p, s, code, token)
  PROVE  reply'[p].code = code /\ item' = s.item /\ waiter' = s.waiter
<1>1. reply \in [Request -> Reply]
  BY TypesAtHand
<1>. QED
  BY <1>1 DEF Answer, Becomes, Finish

\* Acquire alone answers "acquired" at once, by AcquireFree.
LEMMA AcquiredAtOnce ==
  ASSUME IInv, [Next]_vars, NEW p \in Request, pc[p] = "enter", pc'[p] = "done",
         reply'[p].code = "acquired"
  PROVE  AcquireFree(p)
<1>1. \A s, code, token : Answer(p, s, code, token) => code = "acquired"
  BY AnswerIsGiven
<1>2. ~Renew(p) /\ ~Release(p)
  <2>1. \A s, token : ~Answer(p, s, "not_found", token) /\ ~Answer(p, s, "not_held", token)
    BY <1>1
  <2>2. \A s, token : ~Answer(p, s, "token_invalid", token) /\ ~Answer(p, s, "invalid", token)
    BY <1>1
  <2>3. \A s, token : ~Answer(p, s, "renewed", token) /\ ~Answer(p, s, "repeated", token)
    BY <1>1
  <2>4. \A s, token : ~Answer(p, s, "partial", token) /\ ~Answer(p, s, "released", token)
    BY <1>1
  <2>5. ~Renew(p) /\ ~ReleaseRefused(p) /\ ~ReleaseHeld(p)
    BY <2>1, <2>2, <2>3, <2>4 DEF Renew, RenewNotHeld, RenewHeld, ReleaseRefused, ReleaseHeld
  <2>6. ~ReleaseExpired(p)
    BY <1>1 DEF ReleaseExpired
  <2>. QED
    BY <2>5, <2>6 DEF Release
<1>3. ~StealSection(p) /\ ~DeleteSection(p)
  BY <1>1 DEF StealSection, DeleteSection
<1>4. ~AcquireRejected(p) /\ ~AcquireReenter(p) /\ ~AcquireLocked(p)
  BY <1>1 DEF AcquireRejected, AcquireReenter, AcquireLocked
<1>5. ~AcquireEnqueue(p)
  BY TypesAtHand DEF AcquireEnqueue
<1>. QED
  BY <1>2, <1>3, <1>4, <1>5, SectionAnswers DEF Acquire

\* The lock is given at once only if the queue is empty, and stays so.
LEMMA BargingStep ==
  ASSUME IInv, IInv', [Next]_vars, NEW p \in Request,
         pc[p] = "enter", pc'[p] = "done", reply'[p].code = "acquired", NEW q \in Request
  PROVE  ~Unanswered(q)'
<1>1. AcquireFree(p)
  BY AcquiredAtOnce
<1>. DEFINE lease(s) == AssignLease(s.item, call[p].holder, p, NormalTTL(call[p].ttl), call[p].now)
<1>2. PICK s \in ExpireLocked(State, call[p].now) :
        /\ Available(s)
        /\ \/ Answer(p, [s EXCEPT !.item = lease(s)], "acquired", p)
           \/ Answer(p, s, "internal", NoToken)
  BY <1>1 DEF AcquireFree
<1>3. s \in LockState /\ s.item \in Record /\ QueueInv(s, BlockedSet)
  BY <1>2, CallType, ExpiredIsGood DEF GoodState, LockState
<1>4. item'.queue = s.item.queue
  <2>. DEFINE a == lease(s)
  <2>1. a.queue = s.item.queue
    BY <1>3, LeaseForCaller
  <2>2. [s EXCEPT !.item = a].item = a
    BY <1>3 DEF LockState
  <2>3. item' = [s EXCEPT !.item = a].item \/ item' = s.item
    BY <1>2, AnswerIsGiven
  <2>. HIDE DEF a
  <2>. QED
    BY <2>1, <2>2, <2>3
<1>5. ~Contains(s.item.queue, q)
  BY <1>2, <1>3 DEF Available, NoneActive, QueueInv, Contains
<1>6. Unanswered(q)' => Contains(item'.queue, q)
  BY DEF IInv, QueueInv, Unanswered, State
<1>. QED
  BY <1>4, <1>5, <1>6

\* "locked" is said of a lease that is there, and stays.
LEMMA LockedStep ==
  ASSUME ~RandMayFail, IInv, [Next]_vars, NEW p \in Request,
         pc[p] = "enter", pc'[p] = "done", reply'[p].code = "locked"
  PROVE  item'.token # NoToken
<1>0. \A s : Answer(p, s, "locked", NoToken) => item' = s.item
  BY AnswerIsGiven
<1>1. \A s, code, token : Answer(p, s, code, token) => code = "locked"
  BY AnswerIsGiven
<1>2. \A s \in ExpireLocked(State, call[p].now) : s.item.token = NoToken => Available(s)
  <2>1. ASSUME NEW s \in ExpireLocked(State, call[p].now), s.item.token = NoToken
        PROVE  s.item.queue = <<>>
    BY <2>1, CallType, ExpiredIsGood DEF GoodState
  <2>. QED
    BY <2>1, EmptySeq DEF Available, NoneActive
<1>3. CASE Acquire(p)
  <2>1. ~AcquireRejected(p) /\ ~AcquireFree(p) /\ ~AcquireReenter(p)
    BY <1>1 DEF AcquireRejected, AcquireFree, AcquireReenter
  <2>2. ~AcquireEnqueue(p)
    BY TypesAtHand DEF AcquireEnqueue
  <2>. QED
    BY <1>0, <1>2, <1>3, <2>1, <2>2 DEF Acquire, AcquireLocked
<1>4. CASE Renew(p) \/ Release(p)
  <2>1. \A s, token : ~Answer(p, s, "not_found", token) /\ ~Answer(p, s, "not_held", token)
    BY <1>1
  <2>2. \A s, token : ~Answer(p, s, "token_invalid", token) /\ ~Answer(p, s, "invalid", token)
    BY <1>1
  <2>3. \A s, token : ~Answer(p, s, "renewed", token) /\ ~Answer(p, s, "repeated", token)
    BY <1>1
  <2>4. \A s, token : ~Answer(p, s, "partial", token) /\ ~Answer(p, s, "released", token)
    BY <1>1
  <2>5. ~Renew(p) /\ ~ReleaseRefused(p) /\ ~ReleaseHeld(p)
    BY <2>1, <2>2, <2>3, <2>4 DEF Renew, RenewNotHeld, RenewHeld, ReleaseRefused, ReleaseHeld
  <2>6. ~ReleaseExpired(p)
    BY <1>1 DEF ReleaseExpired
  <2>. QED
    BY <1>4, <2>5, <2>6 DEF Release
<1>5. CASE StealSection(p)
  BY <1>1, <1>5 DEF StealSection
<1>6. CASE DeleteSection(p)
  BY <1>0, <1>1, <1>6 DEF DeleteSection
<1>. QED
  BY <1>3, <1>4, <1>5, <1>6, SectionAnswers

\* What expireLocked changes had expired.
LEMMA ExpiredOrSame ==
  ASSUME IInv, NEW p \in Request, pc[p] = "enter", NEW s \in ExpireLocked(State, call[p].now)
  PROVE  s = State \/ (item.token # NoToken /\ clock >= item.expiresAt)
<1>1. CASE ~Expires(item, call[p].now)
  BY <1>1, NotExpired
<1>2. CASE Expires(item, call[p].now)
  <2>1. item.token # NoToken /\ call[p].now >= item.expiresAt /\ call[p].now <= clock
    BY <1>2 DEF Expires, LeaseExpired, IInv, TimesArePast
  <2>2. call[p].now \in Nat /\ clock \in Nat /\ item.expiresAt \in Nat
    BY CallType, TypesAtHand DEF Record
  <2>. QED
    BY <2>1, <2>2
<1>. QED
  BY <1>1, <1>2

\* A call that fails leaves the lease as it was.
LEMMA FailureStep ==
  ASSUME IInv, FreeIsBlank, [Next]_vars, NEW p \in Request,
         pc[p] # "done", pc'[p] = "done", reply'[p].code \in Failure,
         ~(call[p].op = "steal" /\ reply'[p].code = "internal")
  PROVE  SameLease(item', item) \/ (item.token # NoToken /\ clock >= item.expiresAt)
<1>. DEFINE Goal == SameLease(item', item) \/ (item.token # NoToken /\ clock >= item.expiresAt)
<1>1. \A s, code, token : Answer(p, s, code, token) => code \in Failure /\ item' = s.item
  BY AnswerIsGiven
<1>2. item' = item => Goal
  BY DEF SameLease
<1>3. State.item = item /\ item \in Record
  BY TypesAtHand DEF State
<1>4. \A code, token : Answer(p, State, code, token) => Goal
  BY <1>1, <1>2, <1>3
<1>5. \A s \in ExpireLocked(State, call[p].now) : \A code, token :
        pc[p] = "enter" /\ Answer(p, s, code, token) => Goal
  BY <1>1, <1>2, <1>3, ExpiredOrSame
<1>. SUFFICES Goal
  OBVIOUS
<1>. HIDE DEF Goal
<1>6. CASE Start(p)
  <2>1. item' = item
    BY <1>6 DEF Start, StartAcquire, StartRenew, StartRelease, StartSteal, StartDelete, LookUp, Refuse
  <2>. QED
    BY <1>2, <2>1
<1>7. CASE Wait(p)
  <2>1. item' = item \/ item' = [item EXCEPT !.queue = RemoveFirst(@, p)]
    BY <1>3, <1>7 DEF Wait, WaitOutcome, WaitCtxDone, AbortWait, Answer, Becomes
  <2>. QED
    BY <1>2, <1>3, <2>1 DEF Goal, SameLease, Record
<1>8. CASE Acquire(p)
  <2>1. pc[p] = "enter" /\ "acquired" \notin Failure /\ "reentered" \notin Failure
    BY <1>8 DEF Acquire, AcquireRejected, AcquireFree, AcquireReenter, AcquireLocked,
                AcquireEnqueue, AcquireProceeds, Enters, Failure
  <2>2. ~AcquireEnqueue(p)
    BY TypesAtHand DEF AcquireEnqueue
  <2>3. CASE AcquireRejected(p)
    BY <1>4, <2>3 DEF AcquireRejected
  <2>4. CASE AcquireFree(p)
    BY <1>1, <1>5, <2>1, <2>4 DEF AcquireFree
  <2>5. CASE AcquireReenter(p)
    BY <1>1, <1>5, <2>1, <2>5 DEF AcquireReenter
  <2>6. CASE AcquireLocked(p)
    BY <1>5, <2>1, <2>6 DEF AcquireLocked
  <2>. QED
    BY <1>8, <2>2, <2>3, <2>4, <2>5, <2>6 DEF Acquire
<1>9. CASE Renew(p) \/ Release(p)
  <2>1. {"renewed", "partial", "released"} \cap Failure = {}
    BY DEF Failure
  <2>2. CASE RenewNotHeld(p)
    BY <1>4, <1>5, <2>2 DEF RenewNotHeld, Enters
  <2>3. CASE RenewHeld(p)
    BY <1>1, <1>4, <2>1, <2>3 DEF RenewHeld
  <2>4. CASE ReleaseRefused(p)
    BY <1>4, <2>4 DEF ReleaseRefused
  <2>5. CASE ReleaseExpired(p)
    BY <1>5, <2>5 DEF ReleaseExpired, Enters
  <2>6. CASE ReleaseHeld(p)
    BY <1>1, <2>1, <2>6 DEF ReleaseHeld
  <2>. QED
    BY <1>9, <2>2, <2>3, <2>4, <2>5, <2>6 DEF Renew, Release
<1>10. CASE StealSection(p)
  <2>1. call[p].op = "steal" /\ "stolen" \notin Failure
    BY <1>10 DEF StealSection, Enters, Failure
  <2>2. \A s, token : ~Answer(p, s, "internal", token)
    BY <2>1, AnswerIsGiven
  <2>. QED
    BY <1>1, <1>4, <1>10, <2>1, <2>2 DEF StealSection
<1>11. CASE DeleteSection(p)
  <2>. DEFINE n == call[p].now
              dead(t) == [ClearLease(t.item, n, FALSE) EXCEPT !.deleted = TRUE]
  <2>1. pc[p] = "enter" /\ "deleted" \notin Failure
    BY <1>11 DEF DeleteSection, Enters, Failure
  <2>2. \/ Answer(p, State, "unauthorized", NoToken)
        \/ \E s \in ExpireLocked(State, n) :
             \/ Answer(p, s, "locked", NoToken)
             \/ /\ item.deleted
                /\ Answer(p, [CancelAll(s) EXCEPT !.item = dead(CancelAll(s))], "not_found", NoToken)
    BY <1>1, <1>11, <2>1 DEF DeleteSection
  <2>3. ASSUME NEW s \in ExpireLocked(State, n), item.deleted,
               Answer(p, [CancelAll(s) EXCEPT !.item = dead(CancelAll(s))], "not_found", NoToken)
        PROVE  Goal
    <3>. DEFINE t == CancelAll(s)
                d == dead(t)
    <3>1. item.token = NoToken
      BY <2>3 DEF IInv, DeletedIsEmpty
    <3>2. s = State
      BY <3>1, NotExpired DEF Expires
    <3>3. t \in LockState /\ t.item \in Record
      BY <3>2, StateIsGood, CancelAllLemma DEF GoodState, LockState, BlockedSet
    <3>4. item' = [t EXCEPT !.item = d].item
      BY <2>3, AnswerIsGiven
    <3>. HIDE DEF t
    <3>5. d.token = NoToken /\ d.holder = NoHolder /\ d.depth = 0 /\ d.expiresAt = ZeroTime
      BY <3>3 DEF ClearLease, Record
    <3>. HIDE DEF d
    <3>6. item' = d
      BY <3>3, <3>4 DEF LockState
    <3>. QED
      BY <3>1, <3>5, <3>6 DEF Goal, SameLease, FreeIsBlank
  <2>. QED
    BY <1>4, <1>5, <2>1, <2>2, <2>3
<1>. QED
  BY <1>6, <1>7, <1>8, <1>9, <1>10, <1>11, OwnAnswer DEF Proceed

\* A newcomer gets the lock at once only when nobody waits (service.go:72).
THEOREM NewcomersWait == Spec => NoBarging
<1>1. IInv /\ IInv' /\ [Next]_vars =>
        [\A p \in Request :
           pc[p] = "enter" /\ pc'[p] = "done" /\ reply'[p].code = "acquired"
             => \A q \in Request : ~Unanswered(q)']_vars
  BY BargingStep
<1>. QED
  BY <1>1, Invariance, PTL DEF Spec, NoBarging

\* While the random source works, "lock is held" is said of a lock that is
\* (errors.go:35).
THEOREM LockedIsTrue ==
  ASSUME ~RandMayFail
  PROVE  Spec => LockedMeansHeld
<1>1. IInv /\ [Next]_vars =>
        [\A p \in Request :
           pc[p] = "enter" /\ pc'[p] = "done" /\ reply'[p].code = "locked"
             => item'.token # NoToken]_vars
  BY LockedStep
<1>. QED
  BY <1>1, Invariance, PTL DEF Spec, LockedMeansHeld

\* A call that fails leaves the lease as it found it, unless it found it expired;
\* that a deleted record is blank is what makes the second of two deletes harmless
\* (service.go:287-312).
THEOREM FailuresLeaveLease == Spec => FailureLeavesLease
<1>1. IInv /\ HInv /\ [Next]_vars =>
        [\A p \in Request :
           /\ pc[p] # "done" /\ pc'[p] = "done" /\ reply'[p].code \in Failure
           /\ ~(call[p].op = "steal" /\ reply'[p].code = "internal")
           => \/ /\ item'.holder = item.holder
                 /\ item'.token = item.token
                 /\ item'.depth = item.depth
                 /\ item'.expiresAt = item.expiresAt
              \/ item.token # NoToken /\ clock >= item.expiresAt]_vars
  BY FailureStep DEF HInv, SameLease
<1>. QED
  BY <1>1, Invariance, HistoryInvariance, PTL DEF Spec, FailureLeavesLease
=============================================================================
