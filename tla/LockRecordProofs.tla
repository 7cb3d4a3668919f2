--------------------------- MODULE LockRecordProofs ---------------------------
(***************************************************************************)
(* Lemmas about the operators of LockRecord: what types they keep, and     *)
(* what pop, remove, cancelAll and grantNextLocked do to a queue and to    *)
(* the waiters in it.  LockServiceProofs cites them by name.               *)
(***************************************************************************)
EXTENDS LockRecord, SequenceTheorems, WellFoundedInduction, TLAPS

\* A non-empty set of natural numbers has a least element.
LEMMA NatMin ==
  ASSUME NEW T \in SUBSET Nat, T # {}
  PROVE  Min(T) \in T /\ \A y \in T : Min(T) <= y
<1>. DEFINE R == OpToRel(<, Nat)
<1>1. IsWellFoundedOn(R, Nat)
  BY NatLessThanWellFounded, Zenon
<1>2. \A x, y \in Nat : x < y => <<x, y>> \in R
  BY DEF OpToRel
<1>. HIDE DEF R
<1>3. PICK x \in T : \A y \in T : <<y, x>> \notin R
  BY <1>1, WFMin, Zenon
<1>4. ASSUME NEW y \in T PROVE x <= y
  <2>1. ~(y < x)
    BY <1>2, <1>3
  <2>2. x \in Nat /\ y \in Nat
    OBVIOUS
  <2>. QED
    BY <2>1, <2>2
<1>. QED
  BY <1>4 DEF Min

\* waiterQueue.remove (queue.go:22) takes out the first occurrence of its target...
LEMMA RemoveFirstAt ==
  ASSUME NEW S, NEW q \in Seq(S), NEW e, Contains(q, e)
  PROVE  \E k \in 1..Len(q) :
           /\ q[k] = e
           /\ RemoveFirst(q, e) = SubSeq(q, 1, k - 1) \o SubSeq(q, k + 1, Len(q))
<1>. DEFINE I == {i \in 1..Len(q) : q[i] = e}
<1>1. I \in SUBSET Nat /\ I # {}
  BY DEF Contains
<1>2. Min(I) \in I
  BY <1>1, NatMin
<1>3. RemoveFirst(q, e) = SubSeq(q, 1, Min(I) - 1) \o SubSeq(q, Min(I) + 1, Len(q))
  BY <1>1 DEF Contains, RemoveFirst, RemoveAt, SelectInSeq
<1>. QED
  BY <1>2, <1>3

\* ... so it keeps the queue's type, its order free of repetitions, and every
\* other element.
LEMMA RemoveFirstLemma ==
  ASSUME NEW S, NEW q \in Seq(S), NEW e
  PROVE  /\ RemoveFirst(q, e) \in Seq(S)
         /\ IsInjective(q) =>
              /\ IsInjective(RemoveFirst(q, e))
              /\ \A x : Contains(RemoveFirst(q, e), x) <=> Contains(q, x) /\ x # e
<1>1. CASE ~Contains(q, e)
  BY <1>1 DEF RemoveFirst, Contains
<1>2. CASE Contains(q, e)
  <2>1. PICK k \in 1..Len(q) :
          /\ q[k] = e
          /\ RemoveFirst(q, e) = SubSeq(q, 1, k - 1) \o SubSeq(q, k + 1, Len(q))
    BY <1>2, RemoveFirstAt
  <2>. DEFINE a == SubSeq(q, 1, k - 1)
              b == SubSeq(q, k + 1, Len(q))
              c == a \o b
  <2>2. /\ a \in Seq(S) /\ Len(a) = k - 1
        /\ \A i \in 1..(k - 1) : a[i] = q[i]
    BY SubSeqProperties, ElementOfSeq, Z3
  <2>3. /\ b \in Seq(S) /\ Len(b) = Len(q) - k
        /\ \A i \in 1..(Len(q) - k) : b[i] = q[k + i]
    BY SubSeqProperties, ElementOfSeq, Z3
  <2>. HIDE DEF a, b
  <2>4. /\ c \in Seq(S) /\ Len(c) = Len(a) + Len(b)
        /\ \A i \in 1..(Len(a) + Len(b)) :
             c[i] = IF i <= Len(a) THEN a[i] ELSE b[i - Len(a)]
    BY <2>2, <2>3, ConcatProperties
  <2>. HIDE DEF c
  <2>5. Len(q) \in Nat
    BY LenProperties
  <2>6. Len(c) = Len(q) - 1
    BY <2>2, <2>3, <2>4, <2>5
  <2>7. ASSUME NEW i \in 1..Len(c) PROVE c[i] = IF i < k THEN q[i] ELSE q[i + 1]
    <3>1. CASE i < k
      BY <2>2, <2>4, <2>5, <2>6, <3>1
    <3>2. CASE ~(i < k)
      <4>1. i - Len(a) \in 1..(Len(q) - k) /\ k + (i - Len(a)) = i + 1
        BY <2>2, <2>5, <2>6, <3>2
      <4>. QED
        BY <2>2, <2>3, <2>4, <2>5, <2>6, <3>2, <4>1
    <3>. QED
      BY <3>1, <3>2
  <2>8. DOMAIN q = 1..Len(q) /\ DOMAIN c = 1..Len(c)
    BY <2>4, LenProperties
  <2>9. ASSUME IsInjective(q) PROVE IsInjective(c)
    <3>. SUFFICES ASSUME NEW i \in 1..Len(c), NEW j \in 1..Len(c), c[i] = c[j]
                  PROVE  i = j
      BY <2>8 DEF IsInjective
    <3>. DEFINE up(n) == IF n < k THEN n ELSE n + 1
    <3>1. up(i) \in 1..Len(q) /\ up(j) \in 1..Len(q) /\ q[up(i)] = q[up(j)]
      BY <2>5, <2>6, <2>7
    <3>2. up(i) = up(j)
      BY <2>9, <2>8, <3>1 DEF IsInjective
    <3>. QED
      BY <2>5, <3>2
  <2>10. ASSUME IsInjective(q), NEW x PROVE Contains(c, x) <=> Contains(q, x) /\ x # e
    <3>1. ASSUME NEW i \in 1..Len(c), c[i] = x PROVE Contains(q, x) /\ x # e
      BY <2>1, <2>10, <2>5, <2>6, <2>7, <2>8, <3>1 DEF IsInjective, Contains
    <3>2. ASSUME NEW i \in 1..Len(q), q[i] = x, x # e PROVE Contains(c, x)
      <4>1. CASE i < k
        BY <2>5, <2>6, <2>7, <3>2, <4>1 DEF Contains
      <4>2. CASE i > k
        <5>1. i - 1 \in 1..Len(c) /\ c[i - 1] = x
          BY <2>5, <2>6, <2>7, <3>2, <4>2
        <5>. QED BY <5>1 DEF Contains
      <4>. QED BY <2>1, <3>2, <4>1, <4>2
    <3>. QED BY <3>1, <3>2 DEF Contains
  <2>. QED
    BY <2>1, <2>4, <2>9, <2>10 DEF a, b, c
<1>. QED
  BY <1>1, <1>2

-----------------------------------------------------------------------------
\* What a critical section works on.
LockState == [item : Record, waiter : [Request -> Waiter]]

\* A holder identity, or none.
AnyHolder == Holder \cup {NoHolder}

\* clearLease frees the lock and touches neither the queue nor the deleted flag.
LEMMA ClearLeaseLemma ==
  ASSUME NEW r \in Record, NEW now \in Nat, NEW b \in BOOLEAN
  PROVE  LET c == ClearLease(r, now, b)
         IN /\ c \in Record
            /\ c.token = NoToken
            /\ c.queue = r.queue
            /\ c.deleted = r.deleted
<1>1. r.token \in Request \cup {NoToken} /\ r.releasedToken \in SUBSET Request
  BY DEF Record, Token
<1>. DEFINE kept == IF b /\ r.token # NoToken THEN Remember(r.releasedToken, r.token)
                                             ELSE r.releasedToken
<1>2. kept \in SUBSET Request
  BY <1>1 DEF Remember
<1>3. /\ 0 \in Nat /\ ZeroTime \in Nat
      /\ NoToken \in Token /\ NoHolder \in Holder \cup {NoHolder}
  BY DEF Token, ZeroTime
<1>4. ClearLease(r, now, b) =
        [r EXCEPT !.releasedToken = kept, !.holder = NoHolder, !.token = NoToken,
                  !.depth = 0, !.expiresAt = ZeroTime, !.lastIdleAt = now]
  BY DEF ClearLease
<1>. HIDE DEF kept
<1>5. ClearLease(r, now, b) \in Record
  BY <1>2, <1>3, <1>4, Zenon DEF Record
<1>. QED
  BY <1>4, <1>5, Zenon DEF Record

\* assignLease gives the lock to token t and touches nothing else.
LEMMA AssignLeaseLemma ==
  ASSUME NEW r \in Record, NEW h \in AnyHolder, NEW t \in Request,
         NEW ttl \in Nat, NEW now \in Nat
  PROVE  LET a == AssignLease(r, h, t, ttl, now)
         IN /\ a \in Record
            /\ a.token = t
            /\ a.queue = r.queue
            /\ a.deleted = r.deleted
<1>1. 1 \in Nat /\ now + ttl \in Nat /\ t \in Token
  BY DEF Token
<1>2. AssignLease(r, h, t, ttl, now) \in Record
  BY <1>1, Zenon DEF Record, AssignLease, AnyHolder
<1>. QED
  BY <1>2, Zenon DEF Record, AssignLease

\* Re-entry, partial release and renewal leave the token, the queue and the
\* deleted flag alone.
LEMMA SameLeaseLemma ==
  ASSUME NEW r \in Record, NEW ttl \in Nat, NEW now \in Nat
  PROVE  LET Same(n) == /\ n \in Record
                        /\ n.token = r.token
                        /\ n.queue = r.queue
                        /\ n.deleted = r.deleted
         IN /\ Same(DeeperLease(r, ttl, now))
            /\ r.depth > 1 => Same(ShallowerLease(r, now))
            /\ Same([r EXCEPT !.expiresAt = now + ttl])
<1>1. r.depth \in Nat /\ DefaultTTL \in Nat
  BY RecordAssumption DEF Record
<1>2. r.depth + 1 \in Nat /\ now + ttl \in Nat /\ now + DefaultTTL \in Nat
  BY <1>1
<1>3. r.depth > 1 => r.depth - 1 \in Nat
  BY <1>1
<1>4. DeeperLease(r, ttl, now) \in Record
  BY <1>2, Zenon DEF Record, DeeperLease
<1>5. r.depth > 1 => ShallowerLease(r, now) \in Record
  BY <1>2, <1>3, Zenon DEF Record, ShallowerLease
<1>6. [r EXCEPT !.expiresAt = now + ttl] \in Record
  BY <1>2, Zenon DEF Record
<1>. QED
  BY <1>4, <1>5, <1>6, Zenon DEF Record, DeeperLease, ShallowerLease

\* The operations on a waiter keep its type, and do what they say.
LEMMA WaiterLemma ==
  ASSUME NEW w \in Waiter, NEW o \in Outcome
  PROVE  /\ Tell(w, o) \in Waiter
         /\ Tell(w, o).done = Append(w.done, o)
         /\ Tell(w, o).granted = w.granted
         /\ Tell(w, o).cancelled = w.cancelled
         /\ CancelWaiter(w) \in Waiter
         /\ CancelWaiter(w).done = w.done
         /\ CancelWaiter(w).granted = w.granted
         /\ GrantWaiter(w) \in Waiter
         /\ GrantWaiter(w).done = Append(w.done, "granted")
         /\ GrantWaiter(w).granted = TRUE
         /\ GrantWaiter(w).cancelled = w.cancelled
<1>1. /\ w.done \in Seq(Outcome)
      /\ "granted" \in Outcome
      /\ TRUE \in BOOLEAN
  BY DEF Waiter, Outcome
<1>2. Append(w.done, o) \in Seq(Outcome) /\ Append(w.done, "granted") \in Seq(Outcome)
  BY <1>1
<1>3. Tell(w, o) \in Waiter /\ Tell(w, "granted") \in Waiter
  BY <1>2, Zenon DEF Waiter, Tell
<1>4. CancelWaiter(w) \in Waiter
  BY <1>1, Zenon DEF Waiter, CancelWaiter
<1>5. GrantWaiter(w) \in Waiter
  BY <1>1, <1>3, Zenon DEF Waiter, GrantWaiter
<1>. QED
  BY <1>3, <1>4, <1>5, Zenon DEF Waiter, Tell, CancelWaiter, GrantWaiter

-----------------------------------------------------------------------------
(* The queue and the waiters, under QueueInv.                              *)

\* pop drops a prefix of the queue.
LEMMA SubSeqLemma ==
  ASSUME NEW S, NEW q \in Seq(S), NEW i \in 1..(Len(q) + 1)
  PROVE  LET r == SubSeq(q, i + 1, Len(q))
         IN /\ r \in Seq(S)
            /\ IsInjective(q) => IsInjective(r)
            /\ \A x : Contains(r, x) => \E j \in 1..Len(q) : j > i /\ q[j] = x
            /\ \A j \in 1..Len(q) : j > i => Contains(r, q[j])
            /\ i >= Len(q) => r = <<>>
<1>. DEFINE r == SubSeq(q, i + 1, Len(q))
<1>1. Len(q) \in Nat
  BY LenProperties
<1>2. /\ r \in Seq(S)
      /\ Len(r) = IF i + 1 <= Len(q) THEN Len(q) - (i + 1) + 1 ELSE 0
      /\ \A j \in 1..(Len(q) - (i + 1) + 1) : r[j] = q[i + 1 + j - 1]
  <2>1. \A j \in (i + 1)..Len(q) : q[j] \in S
    BY <1>1, ElementOfSeq
  <2>2. i + 1 \in Int /\ Len(q) \in Int
    BY <1>1
  <2>. QED
    BY <2>1, <2>2, SubSeqProperties
<1>. HIDE DEF r
<1>3. ASSUME NEW j \in 1..Len(r) PROVE i + j \in 1..Len(q) /\ i + j > i /\ r[j] = q[i + j]
  <2>1. j \in 1..(Len(q) - (i + 1) + 1) /\ i + 1 + j - 1 = i + j
    BY <1>1, <1>2
  <2>. QED
    BY <1>1, <1>2, <2>1
<1>4. ASSUME NEW j \in 1..Len(q), j > i PROVE j - i \in 1..Len(r) /\ r[j - i] = q[j]
  <2>1. j - i \in 1..(Len(q) - (i + 1) + 1) /\ i + 1 + (j - i) - 1 = j
    BY <1>1, <1>4
  <2>. QED
    BY <1>1, <1>2, <1>4, <2>1
<1>5. ASSUME IsInjective(q), NEW j \in 1..Len(r), NEW k \in 1..Len(r), r[j] = r[k] PROVE j = k
  <2>1. i + j = i + k
    BY <1>3, <1>5 DEF IsInjective
  <2>. QED
    BY <1>1, <1>2, <2>1
<1>6. i >= Len(q) => r = <<>>
  BY <1>1, <1>2, EmptySeq
<1>7. IsInjective(q) => IsInjective(r)
  BY <1>5 DEF IsInjective
<1>8. ASSUME NEW x, Contains(r, x) PROVE \E j \in 1..Len(q) : j > i /\ q[j] = x
  BY <1>3, <1>8 DEF Contains
<1>9. \A j \in 1..Len(q) : j > i => Contains(r, q[j])
  BY <1>4 DEF Contains
<1>. QED
  BY <1>2, <1>6, <1>7, <1>8, <1>9 DEF r

\* What one run of grantNextLocked's loop that ends at position i leaves behind:
\* the rest of the queue, told or granted every waiter it popped, once.
LEMMA PopToLemma ==
  ASSUME NEW s \in LockState, NEW B \in SUBSET Request, QueueInv(s, B), NEW now \in Nat,
         NEW i \in StopAt(s.item.queue, s.waiter)
  PROVE  LET q == s.item.queue
             t == PopTo(s, i, now)
         IN /\ t \in LockState
            /\ QueueInv(t, B)
            /\ t.item.deleted = s.item.deleted
            /\ \A p \in Request : s.waiter[p].granted => t.waiter[p].granted
            /\ i > Len(q) => t.item.queue = <<>> /\ t.item.token = s.item.token
            /\ i <= Len(q) => /\ t.item.token \in B
                             /\ t.waiter[t.item.token].granted
<1>. DEFINE q == s.item.queue
            t == PopTo(s, i, now)
            rest == SubSeq(q, i + 1, Len(q))
            popped == [s.item EXCEPT !.queue = rest]
<1>1. s.item \in Record /\ s.waiter \in [Request -> Waiter]
  BY DEF LockState
<1>2. q \in Seq(Request) /\ Len(q) \in Nat /\ i \in 1..(Len(q) + 1)
  BY <1>1, LenProperties DEF Record, StopAt
<1>3. \A j \in 1..Len(q) : q[j] \in Request
  BY <1>2, ElementOfSeq
<1>4. /\ rest \in Seq(Request)
      /\ IsInjective(q) => IsInjective(rest)
      /\ \A x : Contains(rest, x) => \E j \in 1..Len(q) : j > i /\ q[j] = x
      /\ \A j \in 1..Len(q) : j > i => Contains(rest, q[j])
      /\ i >= Len(q) => rest = <<>>
  BY <1>2, SubSeqLemma
<1>. HIDE DEF rest
<1>5. /\ popped \in Record /\ popped.queue = rest
      /\ popped.token = s.item.token /\ popped.deleted = s.item.deleted
  BY <1>1, <1>4, Zenon DEF Record
<1>. HIDE DEF popped
<1>6. t = [item   |-> IF i <= Len(q)
                      THEN AssignLease(popped, s.waiter[q[i]].holder, q[i],
                                       s.waiter[q[i]].ttl, now)
                      ELSE popped,
           waiter |-> [p \in Request |->
                         IF i <= Len(q) /\ p = q[i] THEN GrantWaiter(s.waiter[p])
                         ELSE IF p \in ToldBefore(q, s.waiter, i)
                              THEN Tell(s.waiter[p], "internal")
                         ELSE s.waiter[p]]]
  BY DEF PopTo, popped, rest
<1>. HIDE DEF t
<1>7. /\ t.item \in Record
      /\ t.item.queue = rest
      /\ t.item.deleted = s.item.deleted
      /\ t.item.token = IF i <= Len(q) THEN q[i] ELSE s.item.token
  <2>1. CASE i <= Len(q)
    <3>1. q[i] \in Request
      BY <1>2, <1>3, <2>1
    <3>2. s.waiter[q[i]].holder \in AnyHolder /\ s.waiter[q[i]].ttl \in Nat
      BY <1>1, <3>1 DEF Waiter, AnyHolder
    <3>. DEFINE a == AssignLease(popped, s.waiter[q[i]].holder, q[i], s.waiter[q[i]].ttl, now)
    <3>3. a \in Record /\ a.token = q[i] /\ a.queue = popped.queue /\ a.deleted = popped.deleted
      BY <1>5, <3>1, <3>2, AssignLeaseLemma
    <3>4. t.item = a
      BY <1>6, <2>1
    <3>. QED
      BY <1>5, <2>1, <3>3, <3>4
  <2>2. CASE ~(i <= Len(q))
    BY <1>5, <1>6, <2>2
  <2>. QED
    BY <2>1, <2>2
<1>8. ASSUME NEW p \in Request
      PROVE  /\ ~Contains(q, p) => t.waiter[p] = s.waiter[p]
             /\ \A j \in 1..Len(q) : q[j] = p =>
                  /\ j < i => t.waiter[p] = Tell(s.waiter[p], "internal")
                  /\ j = i => t.waiter[p] = GrantWaiter(s.waiter[p])
                  /\ j > i => t.waiter[p] = s.waiter[p]
  <2>1. t.waiter[p] = IF i <= Len(q) /\ p = q[i] THEN GrantWaiter(s.waiter[p])
                      ELSE IF p \in ToldBefore(q, s.waiter, i)
                           THEN Tell(s.waiter[p], "internal")
                      ELSE s.waiter[p]
    BY <1>6
  <2>2. ~Contains(q, p) => ~(i <= Len(q) /\ p = q[i]) /\ p \notin ToldBefore(q, s.waiter, i)
    BY <1>2 DEF Contains, ToldBefore
  <2>3. ASSUME NEW j \in 1..Len(q), q[j] = p
        PROVE  /\ j < i => p \in ToldBefore(q, s.waiter, i)
               /\ j >= i => p \notin ToldBefore(q, s.waiter, i)
               /\ i <= Len(q) /\ p = q[i] => j = i
    <3>1. IsInjective(q) /\ ~s.waiter[p].cancelled
      BY <2>3 DEF QueueInv, Contains
    <3>. QED
      BY <1>2, <2>3, <3>1 DEF IsInjective, ToldBefore
  <2>. QED
    BY <1>2, <2>1, <2>2, <2>3
<1>9. t.waiter \in [Request -> Waiter]
  <2>1. \A p \in Request : s.waiter[p] \in Waiter /\ "internal" \in Outcome
    BY <1>1 DEF Outcome
  <2>2. \A p \in Request : /\ GrantWaiter(s.waiter[p]) \in Waiter
                          /\ Tell(s.waiter[p], "internal") \in Waiter
    BY <2>1, WaiterLemma
  <2>. QED
    BY <1>6, <2>1, <2>2
<1>10. t \in LockState
  BY <1>6, <1>7, <1>9 DEF LockState
<1>11. ASSUME NEW p \in Request
       PROVE  /\ Undecided(t, B, p) <=> Contains(rest, p)
              /\ Len(t.waiter[p].done) <= 1
              /\ Contains(rest, p) => ~t.waiter[p].cancelled
              /\ p \in B => (t.waiter[p].granted <=> t.waiter[p].done = <<"granted">>)
              /\ s.waiter[p].granted => t.waiter[p].granted
              /\ i <= Len(q) /\ p = q[i] => p \in B /\ t.waiter[p].granted
  <2>0. s.waiter[p] \in Waiter /\ "internal" \in Outcome
    BY <1>1 DEF Outcome
  <2>1. CASE ~Contains(q, p)
    <3>1. ~Contains(rest, p)
      BY <1>4, <2>1 DEF Contains
    <3>2. ~(i <= Len(q) /\ p = q[i])
      BY <1>2, <2>1 DEF Contains
    <3>. QED
      BY <1>8, <2>1, <3>1, <3>2 DEF QueueInv, Undecided
  <2>2. ASSUME NEW j \in 1..Len(q), q[j] = p PROVE <1>11!2
    <3>1. /\ p \in B /\ ~s.waiter[p].granted /\ s.waiter[p].done = <<>>
          /\ ~s.waiter[p].cancelled /\ IsInjective(q)
      BY <2>2 DEF QueueInv, Undecided, Contains
    <3>2. Contains(rest, p) <=> j > i
      <4>1. j > i => Contains(rest, p)
        BY <1>4, <2>2
      <4>2. Contains(rest, p) => \E k \in 1..Len(q) : k > i /\ q[k] = p
        BY <1>4
      <4>3. \A k \in 1..Len(q) : q[k] = p => k = j
        BY <1>2, <2>2, <3>1, LenProperties DEF IsInjective
      <4>. QED
        BY <4>1, <4>2, <4>3
    <3>3. i <= Len(q) /\ p = q[i] => j = i
      BY <1>2, <2>2, <3>1 DEF IsInjective
    <3>4. CASE j < i
      <4>1. t.waiter[p].done = <<"internal">> /\ ~t.waiter[p].granted
        <5>1. t.waiter[p] = Tell(s.waiter[p], "internal")
          BY <1>8, <2>2, <3>4
        <5>2. /\ Tell(s.waiter[p], "internal").done = Append(s.waiter[p].done, "internal")
              /\ Tell(s.waiter[p], "internal").granted = s.waiter[p].granted
          BY <2>0, WaiterLemma
        <5>. QED
          BY <3>1, <5>1, <5>2
      <4>2. <<"internal">> # <<"granted">> /\ <<"internal">> # <<>> /\ Len(<<"internal">>) = 1
        OBVIOUS
      <4>. QED
        BY <1>2, <3>1, <3>2, <3>3, <3>4, <4>1, <4>2 DEF Undecided
    <3>5. CASE j = i
      <4>1. t.waiter[p].done = <<"granted">> /\ t.waiter[p].granted
        <5>1. t.waiter[p] = GrantWaiter(s.waiter[p])
          BY <1>8, <2>2, <3>5
        <5>2. t.waiter[p].done = Append(<<>>, "granted") /\ t.waiter[p].granted
          BY <2>0, <3>1, <5>1, WaiterLemma
        <5>. QED
          BY <5>2
      <4>. QED
        BY <1>2, <3>1, <3>2, <3>3, <3>5, <4>1 DEF Undecided
    <3>6. CASE j > i
      <4>1. t.waiter[p] = s.waiter[p]
        BY <1>8, <2>2, <3>6
      <4>2. <<>> # <<"granted">> /\ Len(s.waiter[p].done) <= 1
        BY DEF QueueInv
      <4>3. Contains(rest, p) /\ ~(i <= Len(q) /\ p = q[i])
        BY <1>2, <3>2, <3>3, <3>6
      <4>. QED
        BY <3>1, <4>1, <4>2, <4>3 DEF Undecided
    <3>. QED
      BY <1>2, <3>4, <3>5, <3>6
  <2>. QED
    BY <2>1, <2>2 DEF Contains
<1>12. QueueInv(t, B)
  BY <1>4, <1>7, <1>11 DEF QueueInv
<1>13. i <= Len(q) => t.item.token \in B /\ t.waiter[t.item.token].granted
  BY <1>2, <1>3, <1>7, <1>11
<1>14. i > Len(q) => t.item.queue = <<>> /\ t.item.token = s.item.token
  BY <1>2, <1>4, <1>7
<1>. QED
  BY <1>7, <1>10, <1>11, <1>12, <1>13, <1>14 DEF t

\* A lock left by grantNextLocked is held by a waiter it granted, or is free
\* with an empty queue.
HandedOn(t, B) ==
  \/ t.item.token \in B /\ t.waiter[t.item.token].granted
  \/ t.item.token = NoToken /\ t.item.queue = <<>>

\* grantNextLocked, from a record whose lease was cleared.
LEMMA GrantNextLemma ==
  ASSUME NEW s \in LockState, NEW B \in SUBSET Request, QueueInv(s, B), NEW now \in Nat,
         s.item.token = NoToken, NEW t \in GrantNext(s, now)
  PROVE  /\ t \in LockState
         /\ QueueInv(t, B)
         /\ t.item.deleted = s.item.deleted
         /\ \A p \in Request : s.waiter[p].granted => t.waiter[p].granted
         /\ HandedOn(t, B)
<1>1. PICK i \in StopAt(s.item.queue, s.waiter) : t = PopTo(s, i, now)
  BY DEF GrantNext
<1>2. Len(s.item.queue) \in Nat /\ i \in Nat
  BY <1>1, LenProperties DEF LockState, Record, StopAt
<1>. QED
  BY <1>1, <1>2, PopToLemma DEF HandedOn

\* QueueInv is about the queue and the waiters only.
LEMMA QueueInvLemma ==
  ASSUME NEW s, NEW t, NEW B, QueueInv(s, B),
         t.item.queue = s.item.queue, t.waiter = s.waiter
  PROVE  QueueInv(t, B)
BY DEF QueueInv, Undecided

\* expireLocked does nothing, or ends an expired lease and hands the lock on.
LEMMA ExpireLockedLemma ==
  ASSUME NEW s \in LockState, NEW B \in SUBSET Request, QueueInv(s, B), NEW now \in Nat,
         NEW t \in ExpireLocked(s, now)
  PROVE  /\ t \in LockState
         /\ QueueInv(t, B)
         /\ t.item.deleted = s.item.deleted
         /\ \A p \in Request : s.waiter[p].granted => t.waiter[p].granted
         /\ \/ t = s
            \/ Expires(s.item, now) /\ HandedOn(t, B)
<1>1. CASE ~Expires(s.item, now)
  BY <1>1 DEF ExpireLocked
<1>2. CASE Expires(s.item, now)
  <2>. DEFINE c == ClearLease(s.item, now, FALSE)
              u == [s EXCEPT !.item = c]
  <2>1. s.item \in Record /\ s.waiter \in [Request -> Waiter]
    BY DEF LockState
  <2>2. /\ c \in Record /\ c.token = NoToken
        /\ c.queue = s.item.queue /\ c.deleted = s.item.deleted
    BY <2>1, ClearLeaseLemma
  <2>. HIDE DEF c
  <2>3. u \in LockState /\ u.item = c /\ u.waiter = s.waiter
    BY <2>1, <2>2 DEF LockState
  <2>4. QueueInv(u, B)
    BY <2>2, <2>3, QueueInvLemma
  <2>5. t \in GrantNext(u, now)
    BY <1>2 DEF ExpireLocked, c
  <2>. HIDE DEF u
  <2>. QED
    BY <1>2, <2>2, <2>3, <2>4, <2>5, GrantNextLemma
<1>. QED
  BY <1>1, <1>2

\* cancelAll empties the queue; every request that was in it is told, once.
LEMMA CancelAllLemma ==
  ASSUME NEW s \in LockState, NEW B \in SUBSET Request, QueueInv(s, B)
  PROVE  LET t == CancelAll(s)
         IN /\ t \in LockState
            /\ QueueInv(t, B)
            /\ t.item.queue = <<>>
            /\ t.item.token = s.item.token
            /\ \A p \in Request : s.waiter[p].granted => t.waiter[p].granted
<1>. DEFINE t == CancelAll(s)
            q == s.item.queue
            emptied == [s.item EXCEPT !.queue = <<>>]
<1>1. s.item \in Record /\ s.waiter \in [Request -> Waiter]
  BY DEF LockState
<1>2. <<>> \in Seq(Request) /\ Len(<<>>) = 0
  BY EmptySeq
<1>3. emptied \in Record /\ emptied.queue = <<>> /\ emptied.token = s.item.token
  BY <1>1, <1>2, Zenon DEF Record
<1>. HIDE DEF emptied
<1>4. t.item = emptied
  BY DEF CancelAll, emptied
<1>5. ASSUME NEW p \in Request
      PROVE  t.waiter[p] = IF Contains(q, p) /\ ~s.waiter[p].cancelled /\ ~s.waiter[p].granted
                           THEN Tell(CancelWaiter(s.waiter[p]), "not_found")
                           ELSE s.waiter[p]
  BY DEF CancelAll, Contains
<1>6. ASSUME NEW p \in Request
      PROVE  LET w == Tell(CancelWaiter(s.waiter[p]), "not_found")
             IN /\ w \in Waiter
                /\ w.done = Append(s.waiter[p].done, "not_found")
                /\ w.granted = s.waiter[p].granted
  <2>1. s.waiter[p] \in Waiter /\ "not_found" \in Outcome
    BY <1>1 DEF Outcome
  <2>2. /\ CancelWaiter(s.waiter[p]) \in Waiter
        /\ CancelWaiter(s.waiter[p]).done = s.waiter[p].done
        /\ CancelWaiter(s.waiter[p]).granted = s.waiter[p].granted
    BY <2>1, WaiterLemma
  <2>. DEFINE c == CancelWaiter(s.waiter[p])
  <2>3. c \in Waiter
    BY <2>2
  <2>. HIDE DEF c
  <2>4. /\ Tell(c, "not_found") \in Waiter
        /\ Tell(c, "not_found").done = Append(c.done, "not_found")
        /\ Tell(c, "not_found").granted = c.granted
    BY <2>1, <2>3, WaiterLemma
  <2>. QED
    BY <2>2, <2>4 DEF c
<1>7. t.waiter = [p \in Request |-> t.waiter[p]] /\ DOMAIN t = {"item", "waiter"}
  BY DEF CancelAll
<1>8. t.waiter \in [Request -> Waiter]
  BY <1>1, <1>5, <1>6, <1>7
<1>9. t \in LockState
  BY <1>3, <1>4, <1>8 DEF LockState, CancelAll
<1>. HIDE DEF t
<1>10. ASSUME NEW p \in Request
       PROVE  /\ ~Undecided(t, B, p)
              /\ Len(t.waiter[p].done) <= 1
              /\ p \in B => (t.waiter[p].granted <=> t.waiter[p].done = <<"granted">>)
              /\ s.waiter[p].granted => t.waiter[p].granted
  <2>1. CASE ~Contains(q, p)
    BY <1>5, <2>1 DEF QueueInv, Undecided
  <2>2. CASE Contains(q, p)
    <3>1. ~s.waiter[p].cancelled /\ ~s.waiter[p].granted /\ s.waiter[p].done = <<>>
      BY <2>2 DEF QueueInv, Undecided
    <3>2. t.waiter[p].done = Append(<<>>, "not_found") /\ ~t.waiter[p].granted
      BY <1>5, <1>6, <2>2, <3>1
    <3>3. Append(<<>>, "not_found") = <<"not_found">>
      OBVIOUS
    <3>. QED
      BY <3>1, <3>2, <3>3 DEF Undecided
  <2>. QED
    BY <2>1, <2>2
<1>11. QueueInv(t, B)
  BY <1>2, <1>3, <1>4, <1>10 DEF QueueInv, IsInjective, Contains
<1>. QED
  BY <1>3, <1>4, <1>9, <1>10, <1>11 DEF t

\* A request that joins the queue is blocked, and undecided.
LEMMA EnqueueLemma ==
  ASSUME NEW s \in LockState, NEW B \in SUBSET Request, QueueInv(s, B),
         NEW p \in Request \ B, NEW n \in Nat, NEW h \in AnyHolder,
         NEW ttl \in Nat
  PROVE  LET t == [item   |-> [s.item EXCEPT !.queue = Push(@, p)],
                   waiter |-> [s.waiter EXCEPT ![p] = NewWaiter(n, h, ttl)]]
         IN /\ t \in LockState
            /\ QueueInv(t, B \cup {p})
            /\ t.item.token = s.item.token
            /\ t.item.deleted = s.item.deleted
<1>. DEFINE q == s.item.queue
            w == NewWaiter(n, h, ttl)
            r == [s.item EXCEPT !.queue = Append(q, p)]
            v == [s.waiter EXCEPT ![p] = w]
            t == [item |-> r, waiter |-> v]
<1>1. s.item \in Record /\ s.waiter \in [Request -> Waiter] /\ q \in Seq(Request)
  BY DEF LockState, Record
<1>2. /\ Append(q, p) \in Seq(Request)
      /\ Len(q) \in Nat /\ Len(Append(q, p)) = Len(q) + 1
      /\ \A i \in 1..Len(q) : Append(q, p)[i] = q[i]
      /\ Append(q, p)[Len(q) + 1] = p
  BY <1>1, AppendProperties, LenProperties
<1>3. r \in Record /\ r.queue = Append(q, p) /\ r.token = s.item.token /\ r.deleted = s.item.deleted
  BY <1>1, <1>2, Zenon DEF Record
<1>4. 0 \in Nat /\ FALSE \in BOOLEAN /\ <<>> \in Seq(Outcome) /\ Len(<<>>) = 0
  BY EmptySeq
<1>5. w \in Waiter /\ w.done = <<>> /\ w.granted = FALSE /\ w.cancelled = FALSE
  BY <1>4, Zenon DEF Waiter, NewWaiter, NoWaiter, AnyHolder
<1>. HIDE DEF w, r
<1>6. v \in [Request -> Waiter] /\ v[p] = w /\ \A x \in Request \ {p} : v[x] = s.waiter[x]
  BY <1>1, <1>5
<1>. HIDE DEF v
<1>7. t \in LockState
  BY <1>3, <1>6 DEF LockState
<1>8. ~Contains(q, p)
  BY DEF QueueInv, Undecided
<1>9. \A x : Contains(Append(q, p), x) <=> x = p \/ Contains(q, x)
  <2>1. ASSUME NEW x, Contains(q, x) PROVE Contains(Append(q, p), x)
    BY <1>2, <2>1 DEF Contains
  <2>2. Contains(Append(q, p), p)
    <3>1. Len(q) + 1 \in 1..Len(Append(q, p))
      BY <1>2
    <3>. QED
      BY <1>2, <3>1 DEF Contains
  <2>3. ASSUME NEW x, Contains(Append(q, p), x) PROVE x = p \/ Contains(q, x)
    <3>1. PICK i \in 1..Len(Append(q, p)) : Append(q, p)[i] = x
      BY <2>3 DEF Contains
    <3>2. i \in 1..Len(q) \/ i = Len(q) + 1
      BY <1>2
    <3>. QED
      BY <1>2, <3>1, <3>2 DEF Contains
  <2>. QED
    BY <2>1, <2>2, <2>3
<1>10. IsInjective(Append(q, p))
  <2>. DEFINE a == Append(q, p)
  <2>1. DOMAIN a = 1..(Len(q) + 1) /\ DOMAIN q = 1..Len(q)
    BY <1>1, <1>2, LenProperties
  <2>. HIDE DEF a
  <2>2. SUFFICES ASSUME NEW i \in DOMAIN a, NEW j \in DOMAIN a, a[i] = a[j]
                 PROVE  i = j
    BY DEF IsInjective, a
  <2>3. \A k \in 1..Len(q) : a[k] = q[k] /\ a[k] # p
    BY <1>2, <1>8 DEF Contains, a
  <2>4. a[Len(q) + 1] = p
    BY <1>2 DEF a
  <2>5. IsInjective(q)
    BY DEF QueueInv
  <2>6. CASE i \in 1..Len(q) /\ j \in 1..Len(q)
    BY <2>1, <2>2, <2>3, <2>5, <2>6 DEF IsInjective
  <2>7. CASE ~(i \in 1..Len(q) /\ j \in 1..Len(q))
    <3>1. i = Len(q) + 1 \/ j = Len(q) + 1
      BY <1>2, <2>1, <2>7
    <3>. QED
      BY <1>2, <2>1, <2>2, <2>3, <2>4, <3>1
  <2>. QED
    BY <2>6, <2>7
<1>11. QueueInv(t, B \cup {p})
  <2>1. ASSUME NEW x \in Request
        PROVE  /\ Undecided(t, B \cup {p}, x) <=> Contains(Append(q, p), x)
               /\ Len(v[x].done) <= 1
               /\ Contains(Append(q, p), x) => ~v[x].cancelled
               /\ x \in B \cup {p} => (v[x].granted <=> v[x].done = <<"granted">>)
    <3>1. CASE x = p
      BY <1>4, <1>5, <1>6, <1>9, <3>1 DEF Undecided
    <3>2. CASE x # p
      <4>1. v[x] = s.waiter[x]
        BY <1>6, <3>2
      <4>2. Contains(Append(q, p), x) <=> Contains(q, x)
        BY <1>9, <3>2
      <4>. QED
        BY <3>2, <4>1, <4>2 DEF QueueInv, Undecided
    <3>. QED
      BY <3>1, <3>2
  <2>. QED
    BY <1>3, <1>10, <2>1 DEF QueueInv
<1>12. t = [item   |-> [s.item EXCEPT !.queue = Push(@, p)],
            waiter |-> [s.waiter EXCEPT ![p] = NewWaiter(n, h, ttl)]]
  BY DEF Push, r, v, w
<1>. QED
  BY <1>3, <1>7, <1>11, <1>12, Zenon

\* A request that was decided and stops being blocked disturbs nobody, whatever
\* is left in its channel.
LEMMA LeaveLemma ==
  ASSUME NEW s \in LockState, NEW B \in SUBSET Request, QueueInv(s, B),
         NEW p \in Request, NEW t \in LockState,
         \/ t.item.queue = s.item.queue /\ ~Contains(s.item.queue, p)
         \/ t.item.queue = RemoveFirst(s.item.queue, p),
         \A x \in Request \ {p} : t.waiter[x] = s.waiter[x],
         Len(t.waiter[p].done) <= 1
  PROVE  QueueInv(t, B \ {p})
<1>. DEFINE q == s.item.queue
            r == RemoveFirst(q, p)
<1>1. q \in Seq(Request) /\ IsInjective(q)
  BY DEF LockState, Record, QueueInv
<1>2. IsInjective(r) /\ \A x : Contains(r, x) <=> Contains(q, x) /\ x # p
  BY <1>1, RemoveFirstLemma
<1>. HIDE DEF r
<1>3. /\ IsInjective(t.item.queue)
      /\ \A x : Contains(t.item.queue, x) <=> Contains(q, x) /\ x # p
  <2>1. CASE t.item.queue = q /\ ~Contains(q, p)
    BY <1>1, <2>1
  <2>2. CASE t.item.queue = r
    BY <1>2, <2>2
  <2>. QED
    BY <2>1, <2>2 DEF r
<1>4. ASSUME NEW x \in Request
      PROVE  /\ Undecided(t, B \ {p}, x) <=> Contains(t.item.queue, x)
             /\ Len(t.waiter[x].done) <= 1
             /\ Contains(t.item.queue, x) => ~t.waiter[x].cancelled
             /\ x \in B \ {p} => (t.waiter[x].granted <=> t.waiter[x].done = <<"granted">>)
  <2>1. CASE x = p
    BY <1>3, <2>1 DEF Undecided
  <2>2. CASE x # p
    BY <1>3, <2>2 DEF QueueInv, Undecided
  <2>. QED
    BY <2>1, <2>2
<1>. QED
  BY <1>3, <1>4 DEF QueueInv
=============================================================================
