----------------------------- MODULE ClientProofs -----------------------------
(***************************************************************************)
(* Proofs about the Go client: what it believes of its lease against what  *)
(* the server holds.                                                       *)
(*                                                                         *)
(* BaseInv (types, tokens, messages) is inductive alone; on it rest        *)
(* DepthInv for DepthAgrees, and TimesOK with EndInv for BeliefEnds.  What *)
(* the client knows of the term (TermInv) and whether it renews in time    *)
(* (KeepInv) are proved for one TTL: OneTTL and ShortDelay are hypotheses  *)
(* of those two theorems.  The server's steps are dealt with once, in      *)
(* ServingLemma and OthersLemma.                                           *)
(***************************************************************************)
EXTENDS Client, LockRecordProofs, FiniteSetTheorems

-----------------------------------------------------------------------------
(* The inductive invariant.                                                *)

App == call["app"]
Ren == call["renewer"]

\* The tokens that were drawn are real ones, and nobody knows any other.
TokensKnown ==
  LET known == drawn \cup {NoToken}
  IN /\ item.token \in known /\ lease.token \in known /\ renewer.token \in known
     /\ \A g \in Goroutine : call[g].answer.token \in known

\* The record without a lease is blank, nobody queues on it.
RecordOK ==
  /\ item.queue = <<>>
  /\ item.token = NoToken <=> item.depth = 0

\* The application has a token if it has a lease, and the renewer if it was started.
HoldersOK ==
  /\ lease.token = NoToken => lease.depth = 0 /\ ~lease.new
  /\ (renewer.pc = "off") <=> (renewer.token = NoToken)

\* An answer that is no error, to a call about the depth.
Pending(op) == App.at = "answer" /\ App.answer.ok /\ App.msg.op = op

\* What the two goroutines send and get.
CallsOK ==
  /\ \A g \in Goroutine : call[g].at = "none" => call[g] = NoCall
  /\ App.at # "none" => App.msg.op \in {"acquire", "release", "watch"}
  /\ App.msg.op = "release" => App.msg.token = lease.token /\ lease.token # NoToken
  /\ App.answer.depth <= MaxDepth /\ (App.answer.depth > 0 => App.answer.token # NoToken)
  /\ Pending("release") /\ App.answer.depth > 0 => App.answer.token = App.msg.token
  /\ Pending("acquire") => App.answer.depth > 0
  /\ Ren.at # "none" <=> renewer.pc = "call"
  /\ Ren.at # "none" => Ren.msg = [NoMessage EXCEPT !.op = "renew", !.token = renewer.token,
                                                   !.ttl = renewer.ttl]
  /\ Ren.answer.ok => Ren.answer.token = renewer.token
  /\ \A m \in stray : m.op \in {"acquire", "release"} /\ (m.op = "release" => m.token # NoToken)

\* The calls that ended without an answer and may have taken effect.
Strays(op) == {m \in stray : m.op = op}
Late(op) == failed[op] - Cardinality(Strays(op))

\* One, if the answer of such a call is on its way.
Due(op) == IF Pending(op) THEN 1 ELSE 0

\* The depth on the server against one that the application was or will be told.
DepthInv ==
  /\ IsFiniteSet(stray)
  /\ \A op \in {"acquire", "release"} : Cardinality(Strays(op)) <= failed[op]
  /\ lease.depth > 0 /\ item.token = lease.token =>
       item.depth - lease.depth \in
         (-(Late("release") + Due("release")))..(Late("acquire") + Due("acquire"))
  /\ (Pending("acquire") \/ Pending("release")) /\ App.answer.depth > 0
     /\ item.token = App.answer.token =>
       item.depth - App.answer.depth \in (-Late("release"))..Late("acquire")

BaseInv == ClientTypeOK /\ TokensKnown /\ RecordOK /\ HoldersOK /\ CallsOK

\* The longest pause of the renewer.
LongestPause == (12 * Base(renewer.ttl)) \div 10

\* No call takes too long and no timer is missed.
TimesOK ==
  /\ \A g \in Goroutine : call[g].at # "none" =>
       call[g].since <= clock /\ clock <= call[g].since + Delay
  /\ renewer.pc = "sleep" => clock <= renewer.due /\ renewer.due <= clock + LongestPause

\* The latest time of the f-th failure in a row after the end of the lease.
Failed(f) == end.at + Delay + f * (LongestPause + Delay)

Alive == renewer.pc \in {"sleep", "call"}

\* While the renewer goes on, what it does after the end of its lease is in time, and no
\* renewal sent after the end succeeds.
EndInv ==
  /\ renewer.pc = "off" => end.how = "none"
  /\ renewer.pc # "off" /\ end.how = "none" => item.token = renewer.token
  /\ renewer.pc # "off" /\ end.how # "none" => item.token # renewer.token /\ end.at <= clock
  /\ Alive => renewer.failures \in 0..2
  /\ Alive /\ end.how # "none" =>
       /\ renewer.pc = "sleep" => renewer.due <= Failed(renewer.failures) + LongestPause
       /\ renewer.pc = "call" =>
            /\ Ren.since <= Failed(renewer.failures) + LongestPause
            /\ Ren.answer.ok => Ren.since <= end.at

-----------------------------------------------------------------------------
(* With one TTL (OneTTL) and short calls (ShortDelay).                     *)

\* Every TTL is the default one, so no step of the server's brings an expiry forward, and
\* what the client or an answer says of it was true when it was said.
TermInv ==
  /\ renewer.pc # "off" => renewer.ttl = DefaultTTL
  /\ lease.token # NoToken => lease.ttl = DefaultTTL
  /\ item.expiresAt <= clock + DefaultTTL
  /\ \A m \in stray \cup {App.msg} : m.ttl \in {0, DefaultTTL}
  /\ renewer.own => lease.token = renewer.token
  /\ lease.token # NoToken /\ item.token = lease.token => lease.expiresAt <= item.expiresAt
  /\ \A g \in Goroutine :
       LET a == call[g].answer
       IN a.ok /\ a.token # NoToken =>
            /\ a.expiresAt <= clock + DefaultTTL
            /\ item.token = a.token => a.expiresAt <= item.expiresAt
            /\ call[g].msg.op \in {"acquire", "renew"} => a.expiresAt >= call[g].since + DefaultTTL

\* What a renewer that has not failed twice still needs, from its next call on.
Left == (1 - renewer.failures) * (LongestPause + Delay) + Delay

\* That is less than what is left of the lease: when it is new, when the renewer sleeps,
\* when it has called, and when its call has been answered.
KeepInv ==
  /\ lease.new /\ item.token = lease.token => item.expiresAt + Delay >= clock + DefaultTTL
  /\ renewer.failures <= renewer.worst
  /\ Alive /\ end.how = "none" /\ renewer.worst <= 1 =>
       /\ renewer.pc = "sleep" => renewer.due + Left < item.expiresAt
       /\ renewer.pc = "call" => Ren.since + Left < item.expiresAt
       /\ Ren.answer.ok => item.expiresAt >= Ren.since + DefaultTTL

-----------------------------------------------------------------------------
(* Numbers.                                                                *)

\* The pauses between renewals.
LEMMA PauseLemma ==
  ASSUME NEW ttl \in Nat
  PROVE  /\ Base(ttl) \in Nat /\ (12 * Base(ttl)) \div 10 \in Nat
         /\ \A n \in Pause(ttl) : n \in Nat /\ n <= (12 * Base(ttl)) \div 10
<1>1. MinBase \in Nat /\ ttl \div 3 \in Nat
  BY ClientAssumption
<1>2. Base(ttl) \in Nat
  BY <1>1 DEF Base
<1>. DEFINE b == Base(ttl)
<1>. HIDE DEF b
<1>3. b \in Nat
  BY <1>2 DEF b
<1>4. (12 * b) \div 10 \in Nat /\ (8 * b) \div 10 \in Nat
  BY <1>3
<1>. QED
  BY <1>2, <1>4 DEF Pause, b

\* Max and Min of two numbers.
LEMMA ClampLemma ==
  ASSUME NEW a \in Nat, NEW b \in Nat, NEW c \in Nat
  PROVE  /\ Max({b, c}) = (IF b >= c THEN b ELSE c)
         /\ Min({a, b}) = (IF a <= b THEN a ELSE b)
<1>1. \E x \in {b, c} : \A y \in {b, c} : x >= y
  BY b >= c \/ c >= b
<1>2. \E x \in {a, b} : \A y \in {a, b} : x <= y
  BY a <= b \/ b <= a
<1>3. Max({b, c}) \in {b, c} /\ \A y \in {b, c} : Max({b, c}) >= y
  BY <1>1 DEF Max
<1>4. Min({a, b}) \in {a, b} /\ \A y \in {a, b} : Min({a, b}) <= y
  BY <1>2 DEF Min
<1>5. Max({b, c}) = (IF b >= c THEN b ELSE c)
  BY <1>3
<1>6. Min({a, b}) = (IF a <= b THEN a ELSE b)
  BY <1>4
<1>. QED
  BY <1>5, <1>6

\* The TTL the client works out: what was asked for, or what is left, rounded.
LEMMA EffectiveTTLLemma ==
  ASSUME NEW requested \in Nat, NEW expiresAt \in Nat, clock \in Nat
  PROVE  /\ EffectiveTTL(requested, expiresAt) \in Nat
         /\ requested > 0 => EffectiveTTL(requested, expiresAt) = requested
         /\ LET left == IF expiresAt > clock THEN expiresAt - clock ELSE 0
                rounded == ((2 * left + Second) \div (2 * Second)) * Second
            IN requested = 0 /\ rounded \in MinTTL..MaxTTL =>
                 EffectiveTTL(requested, expiresAt) = rounded
<1>. DEFINE left == IF expiresAt > clock THEN expiresAt - clock ELSE 0
            half == (2 * left + Second) \div (2 * Second)
            rounded == half * Second
            low == Max({MinTTL, rounded})
<1>1. left \in Nat /\ Second \in Nat \ {0} /\ MinTTL \in Nat /\ MaxTTL \in Nat
  BY ClientAssumption, RecordAssumption
<1>. HIDE DEF left
<1>2. half \in Nat
  BY <1>1
<1>. HIDE DEF half
<1>3. rounded \in Nat
  BY <1>1, <1>2
<1>. HIDE DEF rounded
<1>4. low = (IF MinTTL >= rounded THEN MinTTL ELSE rounded)
  <2>1. MinTTL \in Nat /\ rounded \in Nat /\ 0 \in Nat
    BY <1>1, <1>3
  <2>. QED
    BY <2>1, ClampLemma
<1>. HIDE DEF low
<1>9. low \in Nat
  BY <1>1, <1>3, <1>4
<1>5. Min({MaxTTL, low}) = (IF MaxTTL <= low THEN MaxTTL ELSE low)
  BY <1>1, <1>9, ClampLemma
<1>6. EffectiveTTL(requested, expiresAt) = IF requested > 0 THEN requested ELSE Min({MaxTTL, low})
  BY DEF EffectiveTTL, low, rounded, half, left
<1>7. EffectiveTTL(requested, expiresAt) \in Nat
  BY <1>1, <1>4, <1>5, <1>6
<1>8. requested = 0 /\ rounded \in MinTTL..MaxTTL => EffectiveTTL(requested, expiresAt) = rounded
  BY <1>1, <1>3, <1>4, <1>5, <1>6
<1>. QED
  BY <1>6, <1>7, <1>8 DEF rounded, half, left

\* TTLs that are asked for are numbers, and so is the default.
LEMMA ValidTTLs ==
  /\ DefaultTTL \in Nat \ {0}
  /\ \A ttl \in Nat : NormalTTL(ttl) \in Nat
BY RecordAssumption DEF NormalTTL

-----------------------------------------------------------------------------
(* The server.                                                             *)

GoodRecord(r) ==
  /\ r \in Record /\ r.queue = <<>> /\ r.depth <= MaxDepth
  /\ r.token = NoToken <=> r.depth = 0

\* A record whose lease is over.
Blank(r) == r.token = NoToken /\ r.depth = 0 /\ r.expiresAt = 0

\* expireLocked leaves the record alone or ends its lease; nobody waits for it here.
LEMMA CurrentLemma ==
  ASSUME GoodRecord(item), clock \in Nat, NEW r \in Current
  PROVE  GoodRecord(r) /\ (r = item \/ (Expires(item, clock) /\ Blank(r)))
<1>. DEFINE s == [item |-> item, waiter |-> [p \in Request |-> NoWaiter]]
            c == ClearLease(item, clock, FALSE)
            u == [s EXCEPT !.item = c]
<1>1. PICK t \in ExpireLocked(s, clock) : r = t.item
  BY DEF Current
<1>2. CASE ~Expires(item, clock)
  BY <1>1, <1>2 DEF ExpireLocked
<1>3. CASE Expires(item, clock)
  <2>1. c \in Record /\ c.token = NoToken /\ c.queue = <<>>
    BY ClearLeaseLemma DEF GoodRecord
  <2>2. c.depth = 0 /\ c.expiresAt = 0
    BY DEF ClearLease, ZeroTime, GoodRecord, Record
  <2>3. t \in GrantNext(u, clock)
    BY <1>1, <1>3 DEF ExpireLocked
  <2>. HIDE DEF c
  <2>4. PICK i \in StopAt(u.item.queue, u.waiter) : t = PopTo(u, i, clock)
    BY <2>3 DEF GrantNext
  <2>5. u.item = c
    OBVIOUS
  <2>6. Len(<<>>) = 0
    OBVIOUS
  <2>7. i = 1
    BY <2>1, <2>4, <2>5, <2>6 DEF StopAt
  <2>8. t.item = [c EXCEPT !.queue = SubSeq(<<>>, 2, 0)]
    BY <2>1, <2>4, <2>5, <2>6, <2>7 DEF PopTo
  <2>9. SubSeq(<<>>, 2, 0) = <<>>
    BY EmptySeq
  <2>10. t.item = c
    BY <2>1, <2>8, <2>9 DEF Record
  <2>. QED
    BY <1>1, <1>3, <2>1, <2>2, <2>10, RecordAssumption DEF GoodRecord, Blank
<1>. QED
  BY <1>2, <1>3

\* A token that was never drawn.
LEMMA FreshLemma ==
  ASSUME TokensLeft, drawn \subseteq Request
  PROVE  Fresh \in Request /\ Fresh \notin drawn
BY DEF TokensLeft, Fresh

\* A lease that begins, one that goes on, and one that ends.
Begins(r, n, ttl) ==
  /\ n.token = Fresh /\ n.depth = 1
  /\ n.expiresAt = clock + ttl

GoesOn(r, n, levels, ttl) ==
  /\ n.token = r.token /\ n.depth = r.depth + levels /\ r.depth > 0 /\ n.depth > 0
  /\ n.expiresAt = clock + ttl

\* A new lease.
LEMMA BeginsLemma ==
  ASSUME NEW r, GoodRecord(r), clock \in Nat, Fresh \in Request, NEW h \in Holder, NEW ttl \in Nat
  PROVE  LET n == AssignLease(r, h, Fresh, ttl, clock)
         IN GoodRecord(n) /\ Begins(r, n, ttl)
<1>. DEFINE n == AssignLease(r, h, Fresh, ttl, clock)
<1>1. n \in Record /\ n.token = Fresh /\ n.queue = r.queue
  BY AssignLeaseLemma DEF GoodRecord, AnyHolder
<1>2. n.depth = 1 /\ n.expiresAt = clock + ttl
  BY DEF AssignLease, GoodRecord, Record
<1>. QED
  BY <1>1, <1>2, RecordAssumption DEF GoodRecord, Begins

\* What is sent: renewals and releases are of a lease.
Sent(m) ==
  /\ m \in Message /\ m.op # "none"
  /\ m.op \in {"renew", "release"} => m.token # NoToken

\* What each request makes of the record.
LEMMA ServedLemma ==
  ASSUME NEW r, GoodRecord(r), clock \in Nat, NEW m, Sent(m), Accepts(m, r),
         m.op = "acquire" => Fresh \in Request
  PROVE  LET n == Served(m, r)
         IN /\ GoodRecord(n)
            /\ m.op = "acquire" => \/ r.token = NoToken /\ Begins(r, n, NormalTTL(m.ttl))
                                   \/ GoesOn(r, n, 1, NormalTTL(m.ttl))
            /\ m.op = "renew" => m.token = r.token /\ GoesOn(r, n, 0, NormalTTL(m.ttl))
            /\ m.op = "release" =>
                  m.token = r.token /\ (GoesOn(r, n, -1, DefaultTTL) \/ Blank(n))
            /\ m.op = "watch" => n = r
<1>. DEFINE n == Served(m, r)
            ttl == NormalTTL(m.ttl)
<1>1. ttl \in Nat /\ DefaultTTL \in Nat /\ m.op \in Operation /\ m.token \in Token
  BY ValidTTLs DEF Message, Sent
<1>2. r \in Record /\ r.depth \in Nat /\ r.depth <= MaxDepth /\ MaxDepth \in Nat /\ r.queue = <<>>
  BY RecordAssumption DEF GoodRecord, Record
<1>3. CASE m.op = "acquire" /\ r.token = NoToken
  <2>1. n = AssignLease(r, User, Fresh, ttl, clock)
    BY <1>3 DEF Served
  <2>. HIDE DEF ttl
  <2>2. GoodRecord(n) /\ Begins(r, n, ttl)
    BY <1>1, <1>3, <2>1, BeginsLemma, ClientAssumption
  <2>. QED
    BY <1>3, <2>2 DEF ttl
<1>4. CASE m.op = "acquire" /\ r.token # NoToken
  <2>1. n = DeeperLease(r, ttl, clock) /\ r.depth < MaxDepth /\ r.depth # 0
    BY <1>4 DEF Served, Accepts, GoodRecord
  <2>. HIDE DEF ttl
  <2>. HIDE DEF n
  <2>2. n \in Record /\ n.token = r.token /\ n.queue = r.queue
    BY <1>1, <1>2, <2>1, SameLeaseLemma
  <2>3. n.depth = r.depth + 1 /\ n.expiresAt = clock + ttl
    BY <1>2, <2>1 DEF DeeperLease, Record
  <2>4. GoodRecord(n) /\ GoesOn(r, n, 1, ttl)
    BY <1>2, <1>4, <2>1, <2>2, <2>3 DEF GoodRecord, GoesOn
  <2>. QED
    BY <1>4, <2>4 DEF ttl, n
<1>5. CASE m.op = "renew"
  <2>1. n = [r EXCEPT !.expiresAt = clock + ttl] /\ r.token = m.token /\ r.depth # 0
    BY <1>5 DEF Served, Accepts, GoodRecord, Sent
  <2>. HIDE DEF ttl
  <2>. HIDE DEF n
  <2>2. n \in Record /\ n.token = r.token /\ n.queue = r.queue
    BY <1>1, <1>2, <2>1, SameLeaseLemma
  <2>3. n.depth = r.depth /\ n.expiresAt = clock + ttl
    BY <1>2, <2>1 DEF Record
  <2>4. GoodRecord(n) /\ GoesOn(r, n, 0, ttl)
    BY <1>2, <2>1, <2>2, <2>3 DEF GoodRecord, GoesOn
  <2>. QED
    BY <1>5, <2>1, <2>4 DEF ttl, n
<1>6. CASE m.op = "release" /\ r.depth > 1
  <2>1. n = ShallowerLease(r, clock)
    <3>1. ~(r.depth <= 1)
      BY <1>2, <1>6
    <3>. QED
      BY <1>6, <3>1 DEF Served
  <2>5. r.token = m.token
    BY <1>6 DEF Accepts
  <2>. HIDE DEF n
  <2>2. n \in Record /\ n.token = r.token /\ n.queue = r.queue
    BY <1>1, <1>2, <1>6, <2>1, SameLeaseLemma
  <2>3. n.depth = r.depth - 1 /\ n.expiresAt = clock + DefaultTTL
    BY <1>2, <2>1 DEF ShallowerLease, Record
  <2>4. GoodRecord(n) /\ GoesOn(r, n, -1, DefaultTTL)
    BY <1>2, <1>6, <2>1, <2>2, <2>3 DEF GoodRecord, GoesOn
  <2>. QED
    BY <1>6, <2>4, <2>5 DEF n
<1>7. CASE m.op = "release" /\ ~(r.depth > 1)
  <2>1. n = ClearLease(r, clock, TRUE)
    <3>1. r.depth <= 1
      BY <1>2, <1>7
    <3>. QED
      BY <1>7, <3>1 DEF Served
  <2>5. r.token = m.token
    BY <1>7 DEF Accepts
  <2>. HIDE DEF n
  <2>2. n \in Record /\ n.token = NoToken /\ n.queue = r.queue
    BY <1>2, <2>1, ClearLeaseLemma
  <2>3. n.depth = 0 /\ n.expiresAt = 0
    BY <1>2, <2>1 DEF ClearLease, ZeroTime, Record
  <2>4. GoodRecord(n) /\ Blank(n)
    BY <1>2, <2>2, <2>3, RecordAssumption DEF GoodRecord, Blank
  <2>. QED
    BY <1>7, <2>4, <2>5 DEF n
<1>8. CASE m.op = "watch"
  <2>1. n = r
    BY <1>8 DEF Served
  <2>. QED
    BY <1>8, <2>1
<1>. QED
  BY <1>1, <1>3, <1>4, <1>5, <1>6, <1>7, <1>8 DEF Operation, Sent

-----------------------------------------------------------------------------
(* The steps of the server.                                                *)

\* The end of the lease that is renewed is noted, once.
Noted ==
  IF renewer.pc # "off" /\ item.token = renewer.token /\ item'.token # item.token
  THEN /\ end' \in [how : {"released", "expired", "stolen"}, at : Nat] /\ end'.at = clock
       /\ end'.how = "expired" => Expires(item, clock)
  ELSE end' = end

\* What the server's steps have in common.
ServerStep ==
  /\ GoodRecord(item')
  /\ drawn' = drawn \cup ({item'.token} \ {NoToken}) /\ drawn' \subseteq Request
  /\ Noted

\* A new lease of somebody's, the same lease one level deeper or not so deep,
\* or no lease.
LeaseBegins(ttl) ==
  /\ item'.token \in Request \ drawn /\ item'.depth = 1 /\ item'.expiresAt = clock + ttl

LeaseGoesOn(levels, ttl) == GoesOn(item, item', levels, ttl)

\* The lease is the one it was, or it was over and has been cleared.
LeaseStays == item' = item \/ (Expires(item, clock) /\ Blank(item'))

\* The end of the lease that is renewed does not go unnoticed.
LEMMA BecomesLemma ==
  ASSUME NEW r, GoodRecord(r), NEW how \in {"released", "expired", "stolen"}, Becomes(r, how),
         drawn \subseteq Request, clock \in Nat,
         how = "expired" /\ r.token # item.token /\ item.token # NoToken => Expires(item, clock),
         renewer.pc # "off" => renewer.token # NoToken
  PROVE  ServerStep /\ item' = r
<1>1. item' = r /\ r.token \in Token
  BY DEF Becomes, GoodRecord, Record
<1>2. drawn' = drawn \cup ({item'.token} \ {NoToken}) /\ drawn' \subseteq Request
  BY <1>1 DEF Becomes, Token
<1>3. Noted
  BY <1>1 DEF Noted, Becomes
<1>. QED
  BY <1>1, <1>2, <1>3 DEF ServerStep

\* All that the server may do and answer, in the terms the invariants need.
LEMMA ServingLemma ==
  ASSUME GoodRecord(item), clock \in Nat, drawn \subseteq Request,
         item.token \in drawn \cup {NoToken}, renewer.pc # "off" => renewer.token # NoToken,
         NEW m, Sent(m), m.op = "acquire" => TokensLeft, NEW a, Serving(m, a)
  PROVE  /\ ServerStep
         /\ \/ a = Error /\ LeaseStays
            \/ a = Done /\ item' = item /\ m.op \in {"watch", "release"}
            \/ a = Told(item') /\ LeaseStays /\ m.op = "watch"
            \/ /\ a = Told(item') /\ m.op = "acquire"
               /\ LeaseBegins(NormalTTL(m.ttl)) \/ LeaseGoesOn(1, NormalTTL(m.ttl))
            \/ /\ a = Told(item') /\ m.op = "renew" /\ m.token = item.token
               /\ LeaseGoesOn(0, NormalTTL(m.ttl))
            \/ /\ a = Told(item') /\ m.op = "release" /\ m.token = item.token
               /\ LeaseGoesOn(-1, DefaultTTL) \/ Blank(item')
<1>1. CASE m.op = "watch" \/ (m.op = "release" /\ m.token \in item.releasedToken)
  <2>1. a = Done /\ item' = item /\ drawn' = drawn /\ end' = end
    BY <1>1 DEF Serving
  <2>2. ServerStep
    BY <2>1 DEF ServerStep, Noted
  <2>. QED
    BY <1>1, <2>1, <2>2
<1>2. CASE ~(m.op = "watch" \/ (m.op = "release" /\ m.token \in item.releasedToken))
  <2>1. PICK r \in Current :
          IF Accepts(m, r)
          THEN a = Told(Served(m, r)) /\ Becomes(Served(m, r), "released")
          ELSE a = Error /\ Becomes(r, "expired")
    BY <1>2 DEF Serving
  <2>2. GoodRecord(r) /\ (r = item \/ (Expires(item, clock) /\ Blank(r)))
    BY CurrentLemma
  <2>3. CASE ~Accepts(m, r)
    <3>1. a = Error /\ Becomes(r, "expired")
      BY <2>1, <2>3
    <3>2. ServerStep /\ item' = r
      BY <2>2, <3>1, BecomesLemma
    <3>. QED
      BY <2>2, <3>1, <3>2 DEF LeaseStays
  <2>4. CASE Accepts(m, r)
    <3>. DEFINE n == Served(m, r)
    <3>1. a = Told(n) /\ Becomes(n, "released")
      BY <2>1, <2>4
    <3>2. m.op = "acquire" => Fresh \in Request /\ Fresh \notin drawn
      BY FreshLemma
    <3>3. /\ GoodRecord(n)
          /\ m.op = "acquire" => \/ r.token = NoToken /\ Begins(r, n, NormalTTL(m.ttl))
                                 \/ GoesOn(r, n, 1, NormalTTL(m.ttl))
          /\ m.op = "renew" => m.token = r.token /\ GoesOn(r, n, 0, NormalTTL(m.ttl))
          /\ m.op = "release" =>
                m.token = r.token /\ (GoesOn(r, n, -1, DefaultTTL) \/ Blank(n))
      BY <2>2, <2>4, <3>2, ServedLemma
    <3>. HIDE DEF n
    <3>4. ServerStep /\ item' = n
      BY <3>1, <3>3, BecomesLemma
    <3>5. a = Told(item')
      BY <3>1, <3>4
    <3>6. \A levels, ttl : GoesOn(r, n, levels, ttl) => r = item /\ LeaseGoesOn(levels, ttl)
      BY <2>2, <3>4 DEF GoesOn, LeaseGoesOn, Blank
    <3>7. CASE m.op = "acquire"
      <4>1. \A ttl : Begins(r, n, ttl) => LeaseBegins(ttl)
        BY <3>2, <3>4, <3>7 DEF Begins, LeaseBegins
      <4>. QED
        BY <3>3, <3>4, <3>5, <3>6, <3>7, <4>1
    <3>8. CASE m.op = "renew"
      BY <3>3, <3>4, <3>5, <3>6, <3>8
    <3>9. CASE m.op = "release"
      <4>1. m.token # NoToken
        BY <3>9 DEF Sent
      <4>2. r = item
        BY <2>2, <3>3, <3>9, <4>1 DEF Blank
      <4>. QED
        BY <3>3, <3>4, <3>5, <3>6, <3>9, <4>2
    <3>10. m.op \in {"acquire", "renew", "release"}
      BY <1>2 DEF Sent, Message, Operation
    <3>. QED
      BY <3>7, <3>8, <3>9, <3>10
  <2>. QED
    BY <2>3, <2>4
<1>. QED
  BY <1>1, <1>2

\* Other holders and the expirer begin leases and end expired ones.
LEMMA OthersLemma ==
  ASSUME GoodRecord(item), clock \in Nat, drawn \subseteq Request,
         item.token \in drawn \cup {NoToken}, renewer.pc # "off" => renewer.token # NoToken, Others
  PROVE  ServerStep /\ (LeaseBegins(DefaultTTL) \/ LeaseStays)
<1>1. DefaultTTL \in Nat
  BY ValidTTLs
<1>2. CASE OthersAcquire
  <2>1. PICK h \in Holder \ {User}, r \in Current :
          r.token = NoToken /\ Becomes(AssignLease(r, h, Fresh, DefaultTTL, clock), "expired")
    BY <1>2 DEF OthersAcquire
  <2>2. GoodRecord(r) /\ (r = item \/ (Expires(item, clock) /\ Blank(r)))
    BY CurrentLemma
  <2>3. Fresh \in Request /\ Fresh \notin drawn
    BY <1>2, FreshLemma DEF OthersAcquire
  <2>. DEFINE n == AssignLease(r, h, Fresh, DefaultTTL, clock)
  <2>4. GoodRecord(n) /\ Begins(r, n, DefaultTTL) /\ Becomes(n, "expired")
    BY <1>1, <2>1, <2>2, <2>3, BeginsLemma
  <2>. HIDE DEF n
  <2>5. item.token # NoToken => Expires(item, clock)
    BY <2>1, <2>2
  <2>6. ServerStep /\ item' = n
    BY <2>4, <2>5, BecomesLemma
  <2>. QED
    BY <2>3, <2>4, <2>6 DEF Begins, LeaseBegins
<1>3. CASE OthersSteal
  <2>1. PICK h \in Holder \ {User}, r \in Current :
          Becomes(AssignLease(ClearLease(r, clock, FALSE), h, Fresh, DefaultTTL, clock), "stolen")
    BY <1>3 DEF OthersSteal
  <2>. DEFINE c == ClearLease(r, clock, FALSE)
              n == AssignLease(c, h, Fresh, DefaultTTL, clock)
  <2>2. GoodRecord(r)
    BY CurrentLemma
  <2>3. Fresh \in Request /\ Fresh \notin drawn
    BY <1>3, FreshLemma DEF OthersSteal
  <2>4. GoodRecord(c)
    <3>1. c \in Record /\ c.token = NoToken /\ c.queue = <<>>
      BY <2>2, ClearLeaseLemma DEF GoodRecord
    <3>2. c.depth = 0
      BY <2>2 DEF ClearLease, GoodRecord, Record
    <3>. HIDE DEF c
    <3>. QED
      BY <3>1, <3>2, RecordAssumption DEF GoodRecord
  <2>. HIDE DEF c
  <2>5. GoodRecord(n) /\ Begins(c, n, DefaultTTL)
    BY <1>1, <2>3, <2>4, BeginsLemma
  <2>6. Becomes(n, "stolen")
    BY <2>1 DEF c
  <2>. HIDE DEF n
  <2>7. ServerStep /\ item' = n
    BY <2>5, <2>6, BecomesLemma
  <2>. QED
    BY <2>3, <2>5, <2>7 DEF Begins, LeaseBegins
<1>4. CASE Expirer
  <2>1. PICK r \in Current : Becomes(r, "expired")
    BY <1>4 DEF Expirer
  <2>2. GoodRecord(r) /\ (r = item \/ (Expires(item, clock) /\ Blank(r)))
    BY CurrentLemma
  <2>3. ServerStep /\ item' = r
    BY <1>4, <2>1, <2>2, BecomesLemma DEF Expirer
  <2>. QED
    BY <2>2, <2>3 DEF LeaseStays
<1>. QED
  BY <1>2, <1>3, <1>4 DEF Others

-----------------------------------------------------------------------------
(* Types, tokens and messages: BaseInv.                                    *)

LEMMA Goroutines == "app" \in Goroutine /\ "renewer" \in Goroutine /\ "app" # "renewer"
                    /\ \A g \in Goroutine : g = "app" \/ g = "renewer"
BY DEF Goroutine

\* What the lemmas about the server need of the state.
LEMMA BaseFacts ==
  ASSUME BaseInv
  PROVE  /\ GoodRecord(item) /\ clock \in Nat /\ drawn \subseteq Request
         /\ item.token \in drawn \cup {NoToken}
         /\ renewer.pc # "off" => renewer.token # NoToken
         /\ \A g \in Goroutine : call[g].at # "none" => Sent(call[g].msg)
<1>1. /\ GoodRecord(item) /\ clock \in Nat /\ drawn \subseteq Request
      /\ item.token \in drawn \cup {NoToken}
  BY DEF BaseInv, ClientTypeOK, RecordOK, TokensKnown, GoodRecord
<1>2. renewer.pc # "off" => renewer.token # NoToken
  BY DEF BaseInv, HoldersOK
<1>3. ASSUME NEW g \in Goroutine, call[g].at # "none" PROVE Sent(call[g].msg)
  <2>1. call[g].msg \in Message
    BY DEF BaseInv, ClientTypeOK, Call
  <2>2. CASE g = "app"
    BY <1>3, <2>1, <2>2 DEF BaseInv, CallsOK, App, Sent
  <2>3. CASE g = "renewer"
    <3>1. renewer.token # NoToken
      BY <1>2, <1>3, <2>3 DEF BaseInv, CallsOK, Ren
    <3>2. call[g].msg = [NoMessage EXCEPT !.op = "renew", !.token = renewer.token,
                                          !.ttl = renewer.ttl]
      BY <1>3, <2>3 DEF BaseInv, CallsOK, Ren
    <3>3. call[g].msg.op = "renew" /\ call[g].msg.token = renewer.token
      BY <3>2 DEF NoMessage
    <3>. QED
      BY <2>1, <3>1, <3>3 DEF Sent
  <2>. QED
    BY <2>2, <2>3, Goroutines
<1>. QED
  BY <1>1, <1>2, <1>3

\* The answers.
LEMMA AnswerTypes ==
  /\ Error \in Answer /\ Done \in Answer
  /\ Error.ok = FALSE /\ Error.token = NoToken /\ Error.depth = 0
  /\ Done.ok = TRUE /\ Done.token = NoToken /\ Done.depth = 0
  /\ \A r \in Record : /\ Told(r) \in Answer /\ Told(r).ok = TRUE /\ Told(r).token = r.token
                       /\ Told(r).depth = r.depth /\ Told(r).expiresAt = r.expiresAt
<1>1. NoToken \in Token
  BY DEF Token
<1>. QED
  BY <1>1 DEF Answer, Error, Done, Told, Record, ZeroTime

\* The calls.
LEMMA CallTypes ==
  /\ NoMessage \in Message /\ NoCall \in Call
  /\ NoCall.at = "none" /\ NoCall.msg = NoMessage /\ NoCall.answer = Error
  /\ NoMessage.op = "none" /\ NoMessage.token = NoToken
  /\ \A m \in Message : clock \in Nat =>
       /\ Sending(m) \in Call /\ Sending(m).msg = m /\ Sending(m).at = "request"
       /\ Sending(m).since = clock /\ Sending(m).answer = Error /\ Sending(m).attempt = 0
<1>1. NoToken \in Token
  BY DEF Token
<1>2. NoMessage \in Message /\ NoMessage.op = "none" /\ NoMessage.token = NoToken
  BY <1>1 DEF NoMessage, Message, Operation
<1>3. /\ NoCall \in Call /\ NoCall.at = "none" /\ NoCall.msg = NoMessage /\ NoCall.answer = Error
      /\ NoCall.attempt = 0
  BY <1>2, AnswerTypes DEF NoCall, Call
<1>. QED
  BY <1>2, <1>3 DEF Sending, Call

\* What an answer says, of the record as it is when the answer is given.
LEMMA AnswerLemma ==
  ASSUME BaseInv, NEW g \in Goroutine, call[g].at = "request",
         call[g].msg.op = "acquire" => TokensLeft, NEW a, Serving(call[g].msg, a)
  PROVE  /\ ServerStep
         /\ a \in Answer /\ a.token \in drawn' \cup {NoToken}
         /\ a.depth <= MaxDepth /\ (a.depth > 0 => a.token # NoToken)
         /\ call[g].msg.op = "release" /\ a.depth > 0 => a.token = call[g].msg.token
         /\ call[g].msg.op = "acquire" /\ a.ok => a.depth > 0
         /\ call[g].msg.op = "renew" /\ a.ok => a.token = call[g].msg.token
<1>. DEFINE m == call[g].msg
<1>1. Sent(m) /\ (m.op = "acquire" => TokensLeft) /\ Serving(m, a)
  BY BaseFacts
<1>. HIDE DEF m
<1>2. /\ GoodRecord(item) /\ clock \in Nat /\ drawn \subseteq Request
      /\ item.token \in drawn \cup {NoToken}
      /\ renewer.pc # "off" => renewer.token # NoToken
  BY BaseFacts
<1>3. ServerStep
  BY <1>1, <1>2, ServingLemma
<1>4. /\ item' \in Record /\ item'.token \in drawn' \cup {NoToken} /\ item'.depth <= MaxDepth
      /\ item'.depth \in Nat /\ (item'.depth > 0 => item'.token # NoToken) /\ MaxDepth \in Nat
  <2>1. item'.token \in Token /\ item'.depth \in Nat
    BY <1>3 DEF ServerStep, GoodRecord, Record
  <2>. QED
    BY <1>3, <2>1, RecordAssumption DEF ServerStep, GoodRecord, Token
<1>5. \/ a = Error
      \/ a = Done /\ m.op \in {"watch", "release"}
      \/ a = Told(item') /\ m.op = "watch"
      \/ a = Told(item') /\ m.op = "acquire" /\ item'.depth > 0
      \/ a = Told(item') /\ m.op = "renew" /\ item'.token = m.token
      \/ a = Told(item') /\ m.op = "release" /\ (item'.depth > 0 => item'.token = m.token)
  BY <1>1, <1>2, ServingLemma DEF LeaseBegins, LeaseGoesOn, GoesOn, Blank
<1>6. /\ a \in Answer /\ a.token \in drawn' \cup {NoToken}
      /\ a.depth <= MaxDepth /\ (a.depth > 0 => a.token # NoToken)
      /\ m.op = "release" /\ a.depth > 0 => a.token = m.token
      /\ m.op = "acquire" /\ a.ok => a.depth > 0
      /\ m.op = "renew" /\ a.ok => a.token = m.token
  BY <1>4, <1>5, AnswerTypes
<1>. QED
  BY <1>3, <1>6 DEF m

\* What the server's steps keep, when the client has no part in them.
LEMMA ServerKeeps ==
  ASSUME BaseInv, ServerStep
  PROVE  /\ item' \in Record /\ item'.depth <= MaxDepth /\ drawn' \subseteq Request
         /\ drawn \subseteq drawn' /\ item'.token \in drawn' \cup {NoToken}
         /\ end' \in [how : {"none", "released", "expired", "stolen", "early"}, at : Nat]
         /\ RecordOK'
<1>1. item'.token \in Token
  BY DEF ServerStep, GoodRecord, Record
<1>2. end' \in [how : {"none", "released", "expired", "stolen", "early"}, at : Nat]
  BY DEF ServerStep, Noted, BaseInv, ClientTypeOK
<1>. QED
  BY <1>1, <1>2 DEF ServerStep, GoodRecord, RecordOK, Token

\* The server answers a call.
LEMMA ServeBase ==
  ASSUME BaseInv, NEW g \in Goroutine, Serve(g)
  PROVE  BaseInv'
<1>1. PICK a : Serving(call[g].msg, a) /\ call' = [call EXCEPT ![g].at = "answer", ![g].answer = a]
  BY DEF Serve
<1>2. /\ ServerStep
      /\ a \in Answer /\ a.token \in drawn' \cup {NoToken}
      /\ a.depth <= MaxDepth /\ (a.depth > 0 => a.token # NoToken)
      /\ call[g].msg.op = "release" /\ a.depth > 0 => a.token = call[g].msg.token
      /\ call[g].msg.op = "acquire" /\ a.ok => a.depth > 0
      /\ call[g].msg.op = "renew" /\ a.ok => a.token = call[g].msg.token
  BY <1>1, AnswerLemma DEF Serve
<1>3. /\ item' \in Record /\ item'.depth <= MaxDepth /\ drawn' \subseteq Request
      /\ drawn \subseteq drawn' /\ item'.token \in drawn' \cup {NoToken}
      /\ end' \in [how : {"none", "released", "expired", "stolen", "early"}, at : Nat]
      /\ RecordOK'
  BY <1>2, ServerKeeps
<1>4. UNCHANGED <<clock, lease, stray, renewer, calls, failed>>
  BY DEF Serve
<1>5. /\ call \in [Goroutine -> Call] /\ call' \in [Goroutine -> Call]
      /\ call'[g].msg = call[g].msg /\ call'[g].at = "answer" /\ call'[g].answer = a
      /\ \A x \in Goroutine \ {g} : call'[x] = call[x]
  BY <1>1, <1>2 DEF BaseInv, ClientTypeOK, Call
<1>6. ClientTypeOK'
  BY <1>3, <1>4, <1>5 DEF BaseInv, ClientTypeOK
<1>7. TokensKnown'
  BY <1>2, <1>3, <1>4, <1>5 DEF BaseInv, TokensKnown
<1>8. HoldersOK'
  BY <1>4 DEF BaseInv, HoldersOK
<1>9. CallsOK'
  <2>1. call[g].at = "request"
    BY DEF Serve
  <2>2. CASE g = "app"
    <3>1. Ren' = Ren /\ App'.msg = App.msg /\ App'.at = "answer" /\ App'.answer = a /\ App.at = "request"
      BY <1>5, <2>1, <2>2, Goroutines DEF App, Ren
    <3>2. \A x \in Goroutine : call'[x].at = "none" => call'[x] = NoCall
      BY <1>5, <2>2 DEF BaseInv, CallsOK
    <3>. QED
      BY <1>2, <1>4, <2>2, <3>1, <3>2 DEF BaseInv, CallsOK, Pending, App
  <2>3. CASE g = "renewer"
    <3>1. App' = App /\ Ren'.msg = Ren.msg /\ Ren'.at = "answer" /\ Ren'.answer = a /\ Ren.at = "request"
      BY <1>5, <2>1, <2>3, Goroutines DEF App, Ren
    <3>2. \A x \in Goroutine : call'[x].at = "none" => call'[x] = NoCall
      BY <1>5, <2>3 DEF BaseInv, CallsOK
    <3>3. Ren.msg.op = "renew" /\ Ren.msg.token = renewer.token
      BY <3>1 DEF BaseInv, CallsOK, NoMessage
    <3>4. Ren'.answer.ok => Ren'.answer.token = renewer'.token
      BY <1>2, <1>4, <2>3, <3>1, <3>3 DEF Ren
    <3>. QED
      BY <1>4, <3>1, <3>2, <3>4 DEF BaseInv, CallsOK, Pending
  <2>. QED
    BY <2>2, <2>3, Goroutines
<1>. QED
  BY <1>3, <1>6, <1>7, <1>8, <1>9 DEF BaseInv

\* A step of the server's alone.
LEMMA ServerBase ==
  ASSUME BaseInv, ServerStep, UNCHANGED <<clock, lease, call, renewer, calls, failed>>,
         stray' \subseteq stray
  PROVE  BaseInv'
<1>1. /\ item' \in Record /\ item'.depth <= MaxDepth /\ drawn' \subseteq Request
      /\ drawn \subseteq drawn' /\ item'.token \in drawn' \cup {NoToken}
      /\ end' \in [how : {"none", "released", "expired", "stolen", "early"}, at : Nat]
      /\ RecordOK'
  BY ServerKeeps
<1>2. ClientTypeOK'
  BY <1>1 DEF BaseInv, ClientTypeOK
<1>3. TokensKnown'
  BY <1>1 DEF BaseInv, TokensKnown
<1>4. HoldersOK'
  BY DEF BaseInv, HoldersOK
<1>5. CallsOK'
  BY DEF BaseInv, CallsOK, Pending, App, Ren
<1>. QED
  BY <1>1, <1>2, <1>3, <1>4, <1>5 DEF BaseInv

\* A request that comes late is served like any other.
LEMMA StrayServed ==
  ASSUME BaseInv, ServeStray
  PROVE  /\ ServerStep /\ UNCHANGED <<clock, lease, call, renewer, calls, failed>>
         /\ \E m \in stray :
              /\ stray' = stray \ {m} /\ m.op \in {"acquire", "release"} /\ m \in Message
              /\ \/ LeaseStays
                 \/ m.op = "acquire" /\ (LeaseBegins(NormalTTL(m.ttl)) \/ LeaseGoesOn(1, NormalTTL(m.ttl)))
                 \/ m.op = "release" /\ (LeaseGoesOn(-1, DefaultTTL) \/ Blank(item'))
<1>1. PICK m \in stray :
        /\ m.op = "acquire" => TokensLeft
        /\ \E a \in Answers(m) : Serving(m, a)
        /\ stray' = stray \ {m}
  BY DEF ServeStray
<1>2. PICK a : Serving(m, a)
  BY <1>1
<1>3. Sent(m) /\ m.op \in {"acquire", "release"} /\ m \in Message
  BY <1>1 DEF BaseInv, ClientTypeOK, CallsOK, Sent
<1>4. /\ ServerStep
      /\ \/ LeaseStays
         \/ m.op = "acquire" /\ (LeaseBegins(NormalTTL(m.ttl)) \/ LeaseGoesOn(1, NormalTTL(m.ttl)))
         \/ m.op = "release" /\ (LeaseGoesOn(-1, DefaultTTL) \/ Blank(item'))
  <2>1. /\ GoodRecord(item) /\ clock \in Nat /\ drawn \subseteq Request
        /\ item.token \in drawn \cup {NoToken}
        /\ renewer.pc # "off" => renewer.token # NoToken
    BY BaseFacts
  <2>. QED
    BY <1>1, <1>2, <1>3, <2>1, ServingLemma DEF LeaseStays
<1>. QED
  BY <1>1, <1>3, <1>4 DEF ServeStray

\* So are the others.
LEMMA OthersStep ==
  ASSUME BaseInv, Others
  PROVE  /\ ServerStep /\ UNCHANGED <<clock, lease, call, stray, renewer, calls, failed>>
         /\ LeaseBegins(DefaultTTL) \/ LeaseStays
BY BaseFacts, OthersLemma DEF Others

\* What the application sends.
LEMMA AppSends ==
  ASSUME BaseInv, AppAcquire \/ AppRelease \/ AppWatch
  PROVE  \E m \in Message :
           /\ call["app"] = NoCall /\ call' = [call EXCEPT !["app"] = Sending(m)]
           /\ calls < MaxCall /\ calls' = calls + 1
           /\ UNCHANGED <<clock, item, drawn, lease, stray, renewer, failed, end>>
           /\ m.op \in {"acquire", "release", "watch"}
           /\ m.op = "release" => m.token = lease.token /\ lease.depth > 0
           /\ m.op = "acquire" => m.ttl \in TTLRequest
           /\ m.op # "acquire" => m.ttl = 0
<1>1. ASSUME NEW op \in {"acquire", "release", "watch"}, NEW token \in Token, NEW ttl \in Nat,
             AppCalls(op, token, ttl)
      PROVE  \E m \in Message :
               /\ m.op = op /\ m.token = token /\ m.ttl = ttl
               /\ call["app"] = NoCall /\ call' = [call EXCEPT !["app"] = Sending(m)]
               /\ calls < MaxCall /\ calls' = calls + 1
               /\ UNCHANGED <<clock, item, drawn, lease, stray, renewer, failed, end>>
  <2>. DEFINE m == [id |-> calls + 1, op |-> op, token |-> token, ttl |-> ttl]
  <2>1. calls + 1 \in Nat
    BY ClientAssumption DEF BaseInv, ClientTypeOK
  <2>2. m \in Message /\ m.op = op /\ m.token = token /\ m.ttl = ttl
    BY <2>1 DEF Message, Operation
  <2>3. /\ call["app"] = NoCall /\ call' = [call EXCEPT !["app"] = Sending(m)]
        /\ calls < MaxCall /\ calls' = calls + 1
        /\ UNCHANGED <<clock, item, drawn, lease, stray, renewer, failed, end>>
    BY <1>1 DEF AppCalls
  <2>. HIDE DEF m
  <2>. QED
    BY <2>2, <2>3
<1>2. NoToken \in Token /\ lease.token \in Token /\ 0 \in Nat
  BY DEF Token, BaseInv, ClientTypeOK, Lease
<1>3. CASE AppAcquire
  <2>1. PICK ttl \in TTLRequest : AppCalls("acquire", NoToken, ttl)
    BY <1>3 DEF AppAcquire
  <2>2. ttl \in Nat
    BY ClientAssumption
  <2>3. PICK m \in Message :
          /\ m.op = "acquire" /\ m.token = NoToken /\ m.ttl = ttl
          /\ call["app"] = NoCall /\ call' = [call EXCEPT !["app"] = Sending(m)]
          /\ calls < MaxCall /\ calls' = calls + 1
          /\ UNCHANGED <<clock, item, drawn, lease, stray, renewer, failed, end>>
    BY <1>1, <1>2, <2>1, <2>2
  <2>. QED
    BY <2>3
<1>4. CASE AppRelease
  <2>1. AppCalls("release", lease.token, 0) /\ lease.depth > 0
    BY <1>4 DEF AppRelease
  <2>2. PICK m \in Message :
          /\ m.op = "release" /\ m.token = lease.token /\ m.ttl = 0
          /\ call["app"] = NoCall /\ call' = [call EXCEPT !["app"] = Sending(m)]
          /\ calls < MaxCall /\ calls' = calls + 1
          /\ UNCHANGED <<clock, item, drawn, lease, stray, renewer, failed, end>>
    BY <1>1, <1>2, <2>1
  <2>. QED
    BY <2>1, <2>2
<1>5. CASE AppWatch
  <2>1. AppCalls("watch", NoToken, 0)
    BY <1>5 DEF AppWatch
  <2>2. PICK m \in Message :
          /\ m.op = "watch" /\ m.token = NoToken /\ m.ttl = 0
          /\ call["app"] = NoCall /\ call' = [call EXCEPT !["app"] = Sending(m)]
          /\ calls < MaxCall /\ calls' = calls + 1
          /\ UNCHANGED <<clock, item, drawn, lease, stray, renewer, failed, end>>
    BY <1>1, <1>2, <2>1
  <2>. QED
    BY <2>2
<1>. QED
  BY <1>3, <1>4, <1>5

LEMMA AppSendsBase ==
  ASSUME BaseInv, AppAcquire \/ AppRelease \/ AppWatch
  PROVE  BaseInv'
<1>1. PICK m \in Message :
           /\ call["app"] = NoCall /\ call' = [call EXCEPT !["app"] = Sending(m)]
           /\ calls < MaxCall /\ calls' = calls + 1
           /\ UNCHANGED <<clock, item, drawn, lease, stray, renewer, failed, end>>
           /\ m.op \in {"acquire", "release", "watch"}
           /\ m.op = "release" => m.token = lease.token /\ lease.depth > 0
  BY AppSends
<1>2. /\ Sending(m) \in Call /\ Sending(m).msg = m /\ Sending(m).at = "request"
      /\ Sending(m).answer = Error
  BY CallTypes DEF BaseInv, ClientTypeOK
<1>3. /\ call' \in [Goroutine -> Call] /\ App' = Sending(m) /\ Ren' = Ren
      /\ \A g \in Goroutine : call'[g] = IF g = "app" THEN Sending(m) ELSE call[g]
  BY <1>1, <1>2, Goroutines DEF BaseInv, ClientTypeOK, App, Ren
<1>4. calls' \in 0..MaxCall
  BY <1>1, ClientAssumption DEF BaseInv, ClientTypeOK
<1>5. ClientTypeOK'
  BY <1>1, <1>3, <1>4 DEF BaseInv, ClientTypeOK
<1>6. TokensKnown'
  BY <1>1, <1>2, <1>3, AnswerTypes DEF BaseInv, TokensKnown
<1>7. HoldersOK' /\ RecordOK'
  BY <1>1 DEF BaseInv, HoldersOK, RecordOK
<1>8. CallsOK'
  <2>1. m.op = "release" => m.token = lease.token /\ lease.token # NoToken
    <3>1. lease.depth \in Nat
      BY DEF BaseInv, ClientTypeOK, Lease
    <3>. QED
      BY <1>1, <3>1 DEF BaseInv, HoldersOK
  <2>2. \A g \in Goroutine : call'[g].at = "none" => call'[g] = NoCall
    BY <1>2, <1>3 DEF BaseInv, CallsOK
  <2>3. MaxDepth \in Nat
    BY RecordAssumption
  <2>. QED
    BY <1>1, <1>2, <1>3, <2>1, <2>2, <2>3, AnswerTypes DEF BaseInv, CallsOK, Pending
<1>. QED
  BY <1>1, <1>5, <1>6, <1>7, <1>8 DEF BaseInv

\* The end of a call, with or without an answer that is of use.
LEMMA CallEnds ==
  ASSUME BaseInv, NEW g \in Goroutine, call' = [call EXCEPT ![g] = NoCall]
  PROVE  /\ call' \in [Goroutine -> Call] /\ call'[g] = NoCall
         /\ \A x \in Goroutine : call'[x] = IF x = g THEN NoCall ELSE call[x]
         /\ g = "app" => App' = NoCall /\ Ren' = Ren
         /\ g = "renewer" => Ren' = NoCall /\ App' = App
BY CallTypes, Goroutines DEF BaseInv, ClientTypeOK, App, Ren

\* The lease an answered call leaves the application with.
LEMMA AppReturnsLease ==
  ASSUME BaseInv, AppReturns
  PROVE  LET m == App.msg
             a == App.answer
         IN /\ App.at = "answer" /\ a.ok
            /\ \/ /\ m.op = "acquire" /\ Pending("acquire")
                  /\ lease' = [token |-> a.token, depth |-> a.depth, expiresAt |-> a.expiresAt,
                               ttl |-> EffectiveTTL(m.ttl, a.expiresAt), new |-> TRUE]
                  /\ lease' \in Lease
                  /\ renewer' = [renewer EXCEPT !.own = FALSE]
               \/ /\ m.op = "release" /\ Pending("release")
                  /\ lease' = [lease EXCEPT !.depth = a.depth]
                  /\ lease' \in Lease /\ lease'.depth = a.depth /\ lease'.token = lease.token
                  /\ lease'.ttl = lease.ttl /\ lease'.expiresAt = lease.expiresAt
                  /\ lease'.new = lease.new
                  /\ renewer' = renewer
               \/ m.op = "watch" /\ UNCHANGED <<lease, renewer>>
            /\ call' = [call EXCEPT !["app"] = NoCall]
            /\ UNCHANGED <<clock, item, drawn, stray, calls, failed, end>>
<1>. DEFINE m == App.msg
            a == App.answer
<1>1. /\ App.at = "answer" /\ a.ok /\ m.op \in {"acquire", "release", "watch"}
      /\ call' = [call EXCEPT !["app"] = NoCall]
      /\ UNCHANGED <<clock, item, drawn, stray, calls, failed, end>>
  BY DEF AppReturns, BaseInv, CallsOK, App
<1>2. App \in Call /\ m \in Message /\ a \in Answer
  BY Goroutines DEF BaseInv, ClientTypeOK, Call, App
<1>3. CASE m.op = "acquire"
  <2>1. /\ lease' = [token |-> a.token, depth |-> a.depth, expiresAt |-> a.expiresAt,
                     ttl |-> EffectiveTTL(m.ttl, a.expiresAt), new |-> TRUE]
        /\ renewer' = [renewer EXCEPT !.own = FALSE]
    BY <1>3 DEF AppReturns, App
  <2>2. EffectiveTTL(m.ttl, a.expiresAt) \in Nat
    BY <1>2, EffectiveTTLLemma DEF Message, Answer, BaseInv, ClientTypeOK
  <2>3. lease' \in Lease
    BY <1>2, <2>1, <2>2 DEF Lease, Answer
  <2>. QED
    BY <1>1, <1>3, <2>1, <2>3 DEF Pending
<1>4. CASE m.op = "release"
  <2>1. lease' = [lease EXCEPT !.depth = a.depth] /\ renewer' = renewer
    BY <1>4 DEF AppReturns, App
  <2>2. lease \in Lease /\ a.depth \in Nat
    BY <1>2 DEF BaseInv, ClientTypeOK, Answer
  <2>3. /\ lease' \in Lease /\ lease'.depth = a.depth /\ lease'.token = lease.token
        /\ lease'.ttl = lease.ttl /\ lease'.expiresAt = lease.expiresAt /\ lease'.new = lease.new
    BY <2>1, <2>2 DEF Lease
  <2>. QED
    BY <1>1, <1>4, <2>1, <2>3 DEF Pending
<1>5. CASE m.op = "watch"
  <2>1. lease' = lease /\ renewer' = renewer
    BY <1>5 DEF AppReturns, App
  <2>. QED
    BY <1>1, <1>5, <2>1
<1>. QED
  BY <1>1, <1>3, <1>4, <1>5

\* The application takes its answer.
LEMMA AppReturnsBase ==
  ASSUME BaseInv, AppReturns
  PROVE  BaseInv'
<1>. DEFINE m == App.msg
            a == App.answer
<1>1. /\ App.at = "answer" /\ a.ok
      /\ \/ /\ m.op = "acquire" /\ Pending("acquire")
            /\ lease' = [token |-> a.token, depth |-> a.depth, expiresAt |-> a.expiresAt,
                         ttl |-> EffectiveTTL(m.ttl, a.expiresAt), new |-> TRUE]
            /\ lease' \in Lease
            /\ renewer' = [renewer EXCEPT !.own = FALSE]
         \/ /\ m.op = "release" /\ Pending("release")
            /\ lease' \in Lease /\ lease'.depth = a.depth /\ lease'.token = lease.token
            /\ lease'.new = lease.new
            /\ renewer' = renewer
         \/ m.op = "watch" /\ UNCHANGED <<lease, renewer>>
      /\ call' = [call EXCEPT !["app"] = NoCall]
      /\ UNCHANGED <<clock, item, drawn, stray, calls, failed, end>>
  BY AppReturnsLease
<1>2. /\ call' \in [Goroutine -> Call] /\ App' = NoCall /\ Ren' = Ren
      /\ \A x \in Goroutine : call'[x] = IF x = "app" THEN NoCall ELSE call[x]
  BY <1>1, CallEnds, Goroutines
<1>3. /\ renewer' \in Renewer /\ renewer'.pc = renewer.pc /\ renewer'.token = renewer.token
      /\ renewer'.ttl = renewer.ttl
  BY <1>1 DEF BaseInv, ClientTypeOK, Renewer
<1>4. /\ a.token \in drawn \cup {NoToken} /\ a.depth \in Nat /\ a.depth <= MaxDepth
      /\ (a.depth > 0 => a.token # NoToken) /\ (Pending("acquire") => a.depth > 0)
      /\ (m.op = "release" => lease.token # NoToken)
  BY Goroutines DEF BaseInv, ClientTypeOK, TokensKnown, CallsOK, Call, Answer, App
<1>5. /\ lease' \in Lease /\ lease'.depth <= MaxDepth /\ lease'.token \in drawn \cup {NoToken}
      /\ (lease'.token = NoToken => lease'.depth = 0 /\ ~lease'.new)
  BY <1>1, <1>4 DEF BaseInv, ClientTypeOK, TokensKnown, HoldersOK
<1>6. ClientTypeOK'
  BY <1>1, <1>2, <1>3, <1>5 DEF BaseInv, ClientTypeOK
<1>7. TokensKnown'
  BY <1>1, <1>2, <1>3, <1>5, CallTypes, AnswerTypes DEF BaseInv, TokensKnown
<1>8. HoldersOK' /\ RecordOK'
  BY <1>1, <1>3, <1>5 DEF BaseInv, HoldersOK, RecordOK
<1>9. CallsOK'
  <2>1. MaxDepth \in Nat
    BY RecordAssumption
  <2>. QED
    BY <1>1, <1>2, <1>3, <2>1, CallTypes, AnswerTypes DEF BaseInv, CallsOK, Pending
<1>. QED
  BY <1>6, <1>7, <1>8, <1>9 DEF BaseInv

\* A renewal has failed.
LEMMA AfterFailureLemma ==
  ASSUME NEW w \in Renewer, NEW n \in Nat, clock \in Nat
  PROVE  LET v == AfterFailure(w, n)
         IN /\ v \in Renewer
            /\ v.token = w.token /\ v.ttl = w.ttl /\ v.own = w.own /\ v.cancelled = w.cancelled
            /\ v.failures = w.failures + 1
            /\ v.worst = (IF w.failures + 1 > w.worst THEN w.failures + 1 ELSE w.worst)
            /\ v.pc = (IF w.failures + 1 >= 3 THEN "lost" ELSE "sleep")
            /\ v.due = (IF w.failures + 1 >= 3 THEN 0 ELSE clock + n)
<1>1. w.failures \in Nat /\ w.worst \in Nat
  BY DEF Renewer
<1>2. w.failures + 1 \in Nat /\ clock + n \in Nat
  BY <1>1
<1>. QED
  BY <1>1, <1>2 DEF AfterFailure, Renewer

\* A call that fails is over; the renewer counts a failure.
LEMMA ReportsErrorLemma ==
  ASSUME BaseInv, NEW g \in Goroutine, ReportsError(g)
  PROVE  /\ call' = [call EXCEPT ![g] = NoCall]
         /\ g = "app" => renewer' = renewer
         /\ g = "renewer" => \E n \in Pause(renewer.ttl) : n \in Nat /\ renewer' = AfterFailure(renewer, n)
<1>1. renewer.ttl \in Nat
  BY DEF BaseInv, ClientTypeOK, Renewer
<1>2. \A n \in Pause(renewer.ttl) : n \in Nat
  BY <1>1, PauseLemma
<1>. QED
  BY <1>2, Goroutines DEF ReportsError

\* A failure repeats a call, or ends it; only the application's requests may still arrive.
LEMMA FailCases ==
  ASSUME BaseInv, NEW g \in Goroutine, Fail(g)
  PROVE  /\ call[g].at # "none"
         /\ UNCHANGED <<clock, item, drawn, lease, calls, end>>
         /\ \/ stray' = stray
            \/ /\ g = "app" /\ App.at = "request" /\ App.msg.op \in {"acquire", "release"}
               /\ stray' = stray \cup {App.msg}
         /\ \/ /\ g = "app" /\ App.msg.op = "watch" /\ stray' = stray
               /\ \E c \in Call : /\ call' = [call EXCEPT !["app"] = c]
                                  /\ c.msg = App.msg /\ c.at = "request" /\ c.since = clock
                                  /\ c.answer = Error
               /\ UNCHANGED <<renewer, failed>>
            \/ /\ ReportsError(g)
               /\ failed' = [op \in DOMAIN failed |->
                               failed[op] + (IF call[g].msg.op = op THEN 1 ELSE 0)]
<1>1. /\ call[g].at # "none"
      /\ UNCHANGED <<clock, item, drawn, lease, calls, end>>
      /\ \/ stray' = stray
         \/ /\ call[g].at = "request" /\ call[g].msg.op \in {"acquire", "release"}
            /\ stray' = stray \cup {call[g].msg}
      /\ \/ /\ call[g].attempt < Attempts(call[g].msg.op)
            /\ call' = [call EXCEPT ![g] = [Sending(call[g].msg) EXCEPT !.attempt = call[g].attempt + 1]]
            /\ UNCHANGED <<renewer, failed>>
         \/ /\ ReportsError(g)
            /\ failed' = [op \in DOMAIN failed |->
                            failed[op] + (IF call[g].msg.op = op THEN 1 ELSE 0)]
  BY DEF Fail
<1>2. /\ call[g] \in Call /\ call[g].attempt \in Nat /\ call[g].msg \in Message
      /\ call \in [Goroutine -> Call] /\ clock \in Nat
  BY DEF BaseInv, ClientTypeOK, Call
<1>3. g = "renewer" => call[g].msg.op = "renew"
  BY <1>1 DEF BaseInv, CallsOK, Ren, NoMessage
<1>4. \/ stray' = stray
      \/ /\ g = "app" /\ App.at = "request" /\ App.msg.op \in {"acquire", "release"}
         /\ stray' = stray \cup {App.msg}
  BY <1>1, <1>3, Goroutines DEF App
<1>5. CASE /\ call[g].attempt < Attempts(call[g].msg.op)
           /\ call' = [call EXCEPT ![g] = [Sending(call[g].msg) EXCEPT !.attempt = call[g].attempt + 1]]
           /\ UNCHANGED <<renewer, failed>>
  <2>1. call[g].msg.op = "watch"
    BY <1>2, <1>5 DEF Attempts
  <2>2. g = "app" /\ App.msg.op = "watch"
    BY <1>3, <2>1, Goroutines DEF App
  <2>3. stray' = stray
    BY <1>1, <2>1
  <2>. DEFINE c == [Sending(App.msg) EXCEPT !.attempt = App.attempt + 1]
  <2>4. call' = [call EXCEPT !["app"] = c]
    BY <1>5, <2>2 DEF App
  <2>5. c \in Call /\ c.msg = App.msg /\ c.at = "request" /\ c.since = clock /\ c.answer = Error
    <3>1. /\ Sending(App.msg) \in Call /\ Sending(App.msg).msg = App.msg
          /\ Sending(App.msg).at = "request"
          /\ Sending(App.msg).since = clock /\ Sending(App.msg).answer = Error
      BY <1>2, <2>2, CallTypes DEF App
    <3>2. App.attempt + 1 \in Nat
      BY <1>2, <2>2 DEF App
    <3>. QED
      BY <3>1, <3>2 DEF Call
  <2>. HIDE DEF c
  <2>6. UNCHANGED <<renewer, failed>>
    BY <1>5
  <2>. QED
    BY <1>1, <1>4, <2>2, <2>3, <2>4, <2>5, <2>6
<1>6. CASE /\ ReportsError(g)
           /\ failed' = [op \in DOMAIN failed |->
                           failed[op] + (IF call[g].msg.op = op THEN 1 ELSE 0)]
  BY <1>1, <1>4, <1>6
<1>. QED
  BY <1>1, <1>5, <1>6

\* A call that ends with an error, whatever becomes of its request.
LEMMA ErrorBase ==
  ASSUME BaseInv, NEW g \in Goroutine, call[g].at # "none", ReportsError(g),
         UNCHANGED <<clock, item, drawn, lease, calls, end>>,
         stray' \subseteq Message,
         \A m \in stray' : m.op \in {"acquire", "release"} /\ (m.op = "release" => m.token # NoToken),
         failed' \in [{"acquire", "release"} -> Nat]
  PROVE  BaseInv'
<1>1. /\ call' \in [Goroutine -> Call] /\ call'[g] = NoCall
      /\ \A x \in Goroutine : call'[x] = IF x = g THEN NoCall ELSE call[x]
      /\ g = "app" => App' = NoCall /\ Ren' = Ren
      /\ g = "renewer" => Ren' = NoCall /\ App' = App
  BY ReportsErrorLemma, CallEnds
<1>2. /\ renewer' \in Renewer /\ renewer'.token = renewer.token /\ renewer'.ttl = renewer.ttl
      /\ g = "app" => renewer' = renewer
      /\ g = "renewer" => renewer'.pc \in {"lost", "sleep"} /\ renewer.pc = "call"
  <2>1. CASE g = "app"
    BY <2>1, ReportsErrorLemma DEF BaseInv, ClientTypeOK
  <2>2. CASE g = "renewer"
    <3>1. PICK n \in Pause(renewer.ttl) : n \in Nat /\ renewer' = AfterFailure(renewer, n)
      BY <2>2, ReportsErrorLemma
    <3>2. renewer \in Renewer /\ clock \in Nat
      BY DEF BaseInv, ClientTypeOK
    <3>3. renewer' \in Renewer /\ renewer'.token = renewer.token /\ renewer'.ttl = renewer.ttl
          /\ renewer'.pc = (IF renewer.failures + 1 >= 3 THEN "lost" ELSE "sleep")
      BY <3>1, <3>2, AfterFailureLemma
    <3>4. renewer.pc = "call"
      BY <2>2 DEF BaseInv, CallsOK, Ren
    <3>. QED
      BY <2>2, <3>3, <3>4
  <2>. QED
    BY <2>1, <2>2, Goroutines
<1>3. ClientTypeOK'
  BY <1>1, <1>2 DEF BaseInv, ClientTypeOK
<1>4. TokensKnown'
  BY <1>1, <1>2, CallTypes, AnswerTypes DEF BaseInv, TokensKnown
<1>5. HoldersOK' /\ RecordOK'
  BY <1>2, Goroutines DEF BaseInv, HoldersOK, RecordOK
<1>6. CallsOK'
  <2>1. MaxDepth \in Nat
    BY RecordAssumption
  <2>2. \A x \in Goroutine : call'[x].at = "none" => call'[x] = NoCall
    BY <1>1 DEF BaseInv, CallsOK
  <2>3. CASE g = "app"
    BY <1>1, <1>2, <2>1, <2>2, <2>3, CallTypes, AnswerTypes DEF BaseInv, CallsOK, Pending
  <2>4. CASE g = "renewer"
    BY <1>1, <1>2, <2>1, <2>2, <2>4, CallTypes, AnswerTypes DEF BaseInv, CallsOK, Pending
  <2>. QED
    BY <2>3, <2>4, Goroutines
<1>. QED
  BY <1>3, <1>4, <1>5, <1>6 DEF BaseInv

LEMMA FailBase ==
  ASSUME BaseInv, NEW g \in Goroutine, Fail(g)
  PROVE  BaseInv'
<1>1. /\ call[g].at # "none"
      /\ UNCHANGED <<clock, item, drawn, lease, calls, end>>
      /\ \/ stray' = stray
         \/ /\ g = "app" /\ App.at = "request" /\ App.msg.op \in {"acquire", "release"}
            /\ stray' = stray \cup {App.msg}
      /\ \/ /\ g = "app" /\ App.msg.op = "watch" /\ stray' = stray
            /\ \E c \in Call : /\ call' = [call EXCEPT !["app"] = c]
                               /\ c.msg = App.msg /\ c.at = "request" /\ c.since = clock
                               /\ c.answer = Error
            /\ UNCHANGED <<renewer, failed>>
         \/ /\ ReportsError(g)
            /\ failed' = [op \in DOMAIN failed |->
                            failed[op] + (IF call[g].msg.op = op THEN 1 ELSE 0)]
  BY FailCases
<1>2. CASE ReportsError(g) /\ failed' = [op \in DOMAIN failed |->
                                           failed[op] + (IF call[g].msg.op = op THEN 1 ELSE 0)]
  <2>1. failed' \in [{"acquire", "release"} -> Nat]
    BY <1>2 DEF BaseInv, ClientTypeOK
  <2>2. /\ stray' \subseteq Message
        /\ \A m \in stray' : m.op \in {"acquire", "release"} /\ (m.op = "release" => m.token # NoToken)
    <3>1. App.at # "none" => Sent(App.msg)
      BY BaseFacts, Goroutines DEF App
    <3>. QED
      BY <1>1, <3>1 DEF Sent, BaseInv, ClientTypeOK, CallsOK
  <2>. QED
    BY <1>1, <1>2, <2>1, <2>2, ErrorBase
<1>3. ASSUME g = "app", App.msg.op = "watch", stray' = stray, UNCHANGED <<renewer, failed>>,
             NEW c \in Call, call' = [call EXCEPT !["app"] = c],
             c.msg = App.msg, c.at = "request", c.since = clock, c.answer = Error
      PROVE  BaseInv'
  <2>1. /\ call' \in [Goroutine -> Call] /\ App' = c /\ Ren' = Ren
        /\ \A x \in Goroutine : call'[x] = IF x = "app" THEN c ELSE call[x]
    BY <1>3, Goroutines DEF BaseInv, ClientTypeOK, App, Ren
  <2>2. ClientTypeOK'
    BY <1>1, <1>3, <2>1 DEF BaseInv, ClientTypeOK
  <2>3. TokensKnown'
    BY <1>1, <1>3, <2>1, AnswerTypes DEF BaseInv, TokensKnown
  <2>4. HoldersOK' /\ RecordOK'
    BY <1>1, <1>3 DEF BaseInv, HoldersOK, RecordOK
  <2>5. CallsOK'
    <3>1. MaxDepth \in Nat
      BY RecordAssumption
    <3>. QED
      BY <1>1, <1>3, <2>1, <3>1, AnswerTypes DEF BaseInv, CallsOK, Pending
  <2>. QED
    BY <2>2, <2>3, <2>4, <2>5 DEF BaseInv
<1>. QED
  BY <1>1, <1>2, <1>3

LEMMA RefusedBase ==
  ASSUME BaseInv, NEW g \in Goroutine, Refused(g)
  PROVE  BaseInv'
BY ErrorBase DEF Refused, BaseInv, ClientTypeOK, CallsOK

-----------------------------------------------------------------------------
\* The renewer starts, and wakes, and is answered.
LEMMA StartRenewerLemma ==
  ASSUME BaseInv, StartRenewer
  PROVE  /\ renewer.pc = "off" /\ lease.new /\ lease.token # NoToken
         /\ \E n \in Pause(lease.ttl) : n \in Nat /\ renewer'.due = clock + n
         /\ renewer' \in Renewer /\ renewer'.pc = "sleep" /\ renewer'.token = lease.token
         /\ renewer'.ttl = lease.ttl /\ renewer'.failures = 0 /\ renewer'.worst = 0
         /\ renewer'.own = TRUE
         /\ end' = (IF item.token = lease.token THEN end ELSE [how |-> "early", at |-> clock])
         /\ UNCHANGED <<clock, item, drawn, lease, call, stray, calls, failed>>
<1>1. /\ renewer.pc = "off" /\ lease.new
      /\ end' = (IF item.token = lease.token THEN end ELSE [how |-> "early", at |-> clock])
      /\ UNCHANGED <<clock, item, drawn, lease, call, stray, calls, failed>>
  BY DEF StartRenewer
<1>2. PICK n \in Pause(lease.ttl) :
        renewer' = [NoRenewer EXCEPT !.pc = "sleep", !.token = lease.token, !.ttl = lease.ttl,
                                     !.due = clock + n, !.own = TRUE]
  BY DEF StartRenewer
<1>3. lease.ttl \in Nat /\ lease.token \in Token /\ clock \in Nat
  BY DEF BaseInv, ClientTypeOK, Lease
<1>4. n \in Nat /\ clock + n \in Nat
  BY <1>3, PauseLemma
<1>5. /\ renewer' \in Renewer /\ renewer'.pc = "sleep" /\ renewer'.token = lease.token
      /\ renewer'.ttl = lease.ttl /\ renewer'.failures = 0 /\ renewer'.worst = 0
      /\ renewer'.own = TRUE /\ renewer'.due = clock + n
  BY <1>2, <1>3, <1>4 DEF NoRenewer, Renewer
<1>6. lease.token # NoToken
  BY <1>1 DEF BaseInv, HoldersOK
<1>. QED
  BY <1>1, <1>4, <1>5, <1>6

LEMMA StartRenewerBase ==
  ASSUME BaseInv, StartRenewer
  PROVE  BaseInv'
<1>1. /\ renewer.pc = "off" /\ lease.new /\ lease.token # NoToken
      /\ renewer' \in Renewer /\ renewer'.pc = "sleep" /\ renewer'.token = lease.token
      /\ end' = (IF item.token = lease.token THEN end ELSE [how |-> "early", at |-> clock])
      /\ UNCHANGED <<clock, item, drawn, lease, call, stray, calls, failed>>
  BY StartRenewerLemma
<1>2. ClientTypeOK'
  BY <1>1 DEF BaseInv, ClientTypeOK
<1>3. TokensKnown' /\ HoldersOK' /\ RecordOK'
  BY <1>1 DEF BaseInv, TokensKnown, HoldersOK, RecordOK
<1>4. App' = App /\ Ren' = Ren /\ Ren.at = "none" /\ ~Ren.answer.ok
  <2>1. Ren.at = "none"
    BY <1>1, Goroutines DEF BaseInv, CallsOK, ClientTypeOK, Call, Ren
  <2>2. Ren = NoCall
    BY <2>1, Goroutines DEF BaseInv, CallsOK, Ren
  <2>. QED
    BY <1>1, <2>1, <2>2, CallTypes, AnswerTypes DEF App, Ren
<1>5. CallsOK'
  BY <1>1, <1>4 DEF BaseInv, CallsOK, Pending
<1>. QED
  BY <1>2, <1>3, <1>5 DEF BaseInv

LEMMA RenewerWakesLemma ==
  ASSUME BaseInv, RenewerWakes
  PROVE  /\ renewer.pc = "sleep" /\ clock = renewer.due
         /\ renewer' \in Renewer /\ renewer'.pc = "call" /\ renewer'.token = renewer.token
         /\ renewer'.ttl = renewer.ttl /\ renewer'.failures = renewer.failures
         /\ renewer'.worst = renewer.worst /\ renewer'.own = renewer.own
         /\ call' \in [Goroutine -> Call] /\ App' = App
         /\ Ren'.at = "request" /\ Ren'.since = clock /\ Ren'.answer = Error
         /\ Ren'.msg = [NoMessage EXCEPT !.op = "renew", !.token = renewer.token,
                                         !.ttl = renewer.ttl]
         /\ Ren'.msg \in Message
         /\ UNCHANGED <<clock, item, drawn, lease, stray, calls, failed, end>>
<1>. DEFINE m == [NoMessage EXCEPT !.op = "renew", !.token = renewer.token, !.ttl = renewer.ttl]
<1>1. /\ renewer.pc = "sleep" /\ clock = renewer.due
      /\ renewer' = [renewer EXCEPT !.pc = "call", !.due = 0]
      /\ call' = [call EXCEPT !["renewer"] = Sending(m)]
      /\ UNCHANGED <<clock, item, drawn, lease, stray, calls, failed, end>>
  BY DEF RenewerWakes
<1>2. renewer \in Renewer /\ renewer.token \in Token /\ renewer.ttl \in Nat /\ clock \in Nat
  BY DEF BaseInv, ClientTypeOK, Renewer
<1>3. m \in Message
  BY <1>2 DEF NoMessage, Message, Operation
<1>. HIDE DEF m
<1>4. /\ Sending(m) \in Call /\ Sending(m).msg = m /\ Sending(m).at = "request"
      /\ Sending(m).since = clock /\ Sending(m).answer = Error
  BY <1>2, <1>3, CallTypes
<1>5. call' \in [Goroutine -> Call] /\ App' = App /\ Ren' = Sending(m)
  BY <1>1, <1>4, Goroutines DEF BaseInv, ClientTypeOK, App, Ren
<1>6. /\ renewer' \in Renewer /\ renewer'.pc = "call" /\ renewer'.token = renewer.token
      /\ renewer'.ttl = renewer.ttl /\ renewer'.failures = renewer.failures
      /\ renewer'.worst = renewer.worst /\ renewer'.own = renewer.own
  BY <1>1, <1>2 DEF Renewer
<1>. QED
  BY <1>1, <1>3, <1>4, <1>5, <1>6 DEF m

LEMMA RenewerWakesBase ==
  ASSUME BaseInv, RenewerWakes
  PROVE  BaseInv'
<1>1. /\ renewer.pc = "sleep"
      /\ renewer' \in Renewer /\ renewer'.pc = "call" /\ renewer'.token = renewer.token
      /\ renewer'.ttl = renewer.ttl
      /\ call' \in [Goroutine -> Call] /\ App' = App
      /\ Ren'.at = "request" /\ Ren'.answer = Error
      /\ Ren'.msg = [NoMessage EXCEPT !.op = "renew", !.token = renewer.token,
                                      !.ttl = renewer.ttl]
      /\ UNCHANGED <<clock, item, drawn, lease, stray, calls, failed, end>>
  BY RenewerWakesLemma
<1>2. ClientTypeOK'
  BY <1>1 DEF BaseInv, ClientTypeOK
<1>3. TokensKnown'
  BY <1>1, AnswerTypes, Goroutines DEF BaseInv, TokensKnown, App, Ren
<1>4. HoldersOK' /\ RecordOK'
  BY <1>1 DEF BaseInv, HoldersOK, RecordOK
<1>5. CallsOK'
  <2>1. \A g \in Goroutine : call'[g].at = "none" => call'[g] = NoCall
    BY <1>1, Goroutines DEF BaseInv, CallsOK, App, Ren
  <2>. QED
    BY <1>1, <2>1, AnswerTypes DEF BaseInv, CallsOK, Pending
<1>. QED
  BY <1>2, <1>3, <1>4, <1>5 DEF BaseInv

LEMMA RenewReturnsLemma ==
  ASSUME BaseInv, RenewReturns
  PROVE  /\ Ren.at = "answer" /\ Ren.answer.ok /\ renewer.pc = "call"
         /\ lease' \in Lease /\ lease'.token = lease.token /\ lease'.depth = lease.depth
         /\ lease'.ttl = lease.ttl /\ lease'.new = lease.new
         /\ lease'.expiresAt = (IF renewer.own THEN Ren.answer.expiresAt ELSE lease.expiresAt)
         /\ \E n \in Pause(renewer.ttl) : n \in Nat /\ renewer'.due = clock + n
         /\ renewer' \in Renewer /\ renewer'.pc = "sleep" /\ renewer'.token = renewer.token
         /\ renewer'.ttl = renewer.ttl /\ renewer'.failures = 0
         /\ renewer'.worst = renewer.worst /\ renewer'.own = renewer.own
         /\ call' = [call EXCEPT !["renewer"] = NoCall]
         /\ UNCHANGED <<clock, item, drawn, stray, calls, failed, end>>
<1>1. /\ Ren.at = "answer" /\ Ren.answer.ok
      /\ lease' = IF renewer.own THEN [lease EXCEPT !.expiresAt = Ren.answer.expiresAt] ELSE lease
      /\ call' = [call EXCEPT !["renewer"] = NoCall]
      /\ UNCHANGED <<clock, item, drawn, stray, calls, failed, end>>
  BY DEF RenewReturns, Ren
<1>2. PICK n \in Pause(renewer.ttl) :
        renewer' = [renewer EXCEPT !.pc = "sleep", !.failures = 0, !.due = clock + n]
  BY DEF RenewReturns
<1>3. /\ renewer \in Renewer /\ renewer.ttl \in Nat /\ clock \in Nat /\ lease \in Lease
      /\ Ren.answer.expiresAt \in Nat
  BY Goroutines DEF BaseInv, ClientTypeOK, Renewer, Ren, Call, Answer
<1>4. n \in Nat /\ clock + n \in Nat
  BY <1>3, PauseLemma
<1>5. /\ renewer' \in Renewer /\ renewer'.pc = "sleep" /\ renewer'.token = renewer.token
      /\ renewer'.ttl = renewer.ttl /\ renewer'.failures = 0 /\ renewer'.due = clock + n
      /\ renewer'.worst = renewer.worst /\ renewer'.own = renewer.own
  BY <1>2, <1>3, <1>4 DEF Renewer
<1>6. /\ lease' \in Lease /\ lease'.token = lease.token /\ lease'.depth = lease.depth
      /\ lease'.ttl = lease.ttl /\ lease'.new = lease.new
      /\ lease'.expiresAt = (IF renewer.own THEN Ren.answer.expiresAt ELSE lease.expiresAt)
  BY <1>1, <1>3 DEF Lease
<1>7. renewer.pc = "call"
  BY <1>1 DEF BaseInv, CallsOK
<1>. QED
  BY <1>1, <1>4, <1>5, <1>6, <1>7

LEMMA RenewReturnsBase ==
  ASSUME BaseInv, RenewReturns
  PROVE  BaseInv'
<1>1. /\ renewer.pc = "call"
      /\ lease' \in Lease /\ lease'.token = lease.token /\ lease'.depth = lease.depth
      /\ lease'.new = lease.new
      /\ renewer' \in Renewer /\ renewer'.pc = "sleep" /\ renewer'.token = renewer.token
      /\ renewer'.ttl = renewer.ttl
      /\ call' = [call EXCEPT !["renewer"] = NoCall]
      /\ UNCHANGED <<clock, item, drawn, stray, calls, failed, end>>
  BY RenewReturnsLemma
<1>2. /\ call' \in [Goroutine -> Call] /\ Ren' = NoCall /\ App' = App
      /\ \A x \in Goroutine : call'[x] = IF x = "renewer" THEN NoCall ELSE call[x]
  BY <1>1, CallEnds, Goroutines
<1>3. ClientTypeOK'
  BY <1>1, <1>2 DEF BaseInv, ClientTypeOK
<1>4. TokensKnown'
  BY <1>1, <1>2, CallTypes, AnswerTypes DEF BaseInv, TokensKnown
<1>5. HoldersOK' /\ RecordOK'
  BY <1>1 DEF BaseInv, HoldersOK, RecordOK
<1>6. CallsOK'
  BY <1>1, <1>2, CallTypes, AnswerTypes DEF BaseInv, CallsOK, Pending
<1>. QED
  BY <1>3, <1>4, <1>5, <1>6 DEF BaseInv

\* The renewer is cancelled, or ends.
LEMMA RenewerEnds ==
  ASSUME BaseInv, CancelRenewer \/ RenewerStops
  PROVE  /\ renewer' \in Renewer /\ renewer'.token = renewer.token /\ renewer'.ttl = renewer.ttl
         /\ renewer'.failures = renewer.failures /\ renewer'.worst = renewer.worst
         /\ renewer'.own = renewer.own
         /\ \/ renewer'.pc = renewer.pc /\ renewer'.due = renewer.due
            \/ renewer'.pc = "ended" /\ renewer.pc = "sleep"
         /\ UNCHANGED <<clock, item, drawn, lease, call, stray, calls, failed, end>>
<1>1. renewer \in Renewer
  BY DEF BaseInv, ClientTypeOK
<1>2. CASE CancelRenewer
  <2>1. /\ renewer' = [renewer EXCEPT !.cancelled = TRUE]
        /\ UNCHANGED <<clock, item, drawn, lease, call, stray, calls, failed, end>>
    BY <1>2 DEF CancelRenewer
  <2>2. /\ renewer' \in Renewer /\ renewer'.token = renewer.token /\ renewer'.ttl = renewer.ttl
        /\ renewer'.failures = renewer.failures /\ renewer'.worst = renewer.worst
        /\ renewer'.own = renewer.own /\ renewer'.pc = renewer.pc /\ renewer'.due = renewer.due
    BY <1>1, <2>1 DEF Renewer
  <2>. QED
    BY <2>1, <2>2
<1>3. CASE RenewerStops
  <2>1. /\ renewer.pc = "sleep" /\ renewer' = [renewer EXCEPT !.pc = "ended", !.due = 0]
        /\ UNCHANGED <<clock, item, drawn, lease, call, stray, calls, failed, end>>
    BY <1>3 DEF RenewerStops
  <2>2. /\ renewer' \in Renewer /\ renewer'.token = renewer.token /\ renewer'.ttl = renewer.ttl
        /\ renewer'.failures = renewer.failures /\ renewer'.worst = renewer.worst
        /\ renewer'.own = renewer.own /\ renewer'.pc = "ended"
    BY <1>1, <2>1 DEF Renewer
  <2>. QED
    BY <2>1, <2>2
<1>. QED
  BY <1>2, <1>3

LEMMA RenewerEndsBase ==
  ASSUME BaseInv, CancelRenewer \/ RenewerStops
  PROVE  BaseInv'
<1>1. /\ renewer' \in Renewer /\ renewer'.token = renewer.token /\ renewer'.ttl = renewer.ttl
      /\ \/ renewer'.pc = renewer.pc
         \/ renewer'.pc = "ended" /\ renewer.pc = "sleep"
      /\ UNCHANGED <<clock, item, drawn, lease, call, stray, calls, failed, end>>
  BY RenewerEnds
<1>2. ClientTypeOK' /\ TokensKnown' /\ HoldersOK' /\ RecordOK'
  BY <1>1 DEF BaseInv, ClientTypeOK, TokensKnown, HoldersOK, RecordOK
<1>3. CallsOK'
  BY <1>1 DEF BaseInv, CallsOK, Pending, App, Ren
<1>. QED
  BY <1>2, <1>3 DEF BaseInv

LEMMA TickLemma ==
  ASSUME BaseInv, Tick
  PROVE  /\ clock' \in Nat /\ clock' > clock
         /\ \A u \in (clock + 1)..(clock' - 1) : ~Eventful(u)
         /\ \A g \in Goroutine : call[g].at # "none" => clock' <= call[g].since + Delay
         /\ renewer.pc = "sleep" => clock < renewer.due
         /\ lease' \in Lease /\ lease'.token = lease.token /\ lease'.depth = lease.depth
         /\ lease'.ttl = lease.ttl /\ lease'.expiresAt = lease.expiresAt /\ ~lease'.new
         /\ UNCHANGED <<item, drawn, call, stray, renewer, calls, failed, end>>
<1>1. clock \in Nat /\ lease \in Lease /\ MaxClock \in Nat
  BY ClientAssumption DEF BaseInv, ClientTypeOK
<1>2. PICK t \in (clock + 1)..MaxClock :
        /\ \A u \in (clock + 1)..(t - 1) : ~Eventful(u)
        /\ \A g \in Goroutine : call[g].at # "none" => t <= call[g].since + Delay
        /\ clock' = t
  BY DEF Tick
<1>3. t \in Nat /\ t > clock
  BY <1>1
<1>4. /\ renewer.pc = "sleep" => clock < renewer.due
      /\ lease' = [lease EXCEPT !.new = FALSE]
      /\ UNCHANGED <<item, drawn, call, stray, renewer, calls, failed, end>>
  BY DEF Tick
<1>5. /\ lease' \in Lease /\ lease'.token = lease.token /\ lease'.depth = lease.depth
      /\ lease'.ttl = lease.ttl /\ lease'.expiresAt = lease.expiresAt /\ ~lease'.new
  BY <1>1, <1>4 DEF Lease
<1>. QED
  BY <1>2, <1>3, <1>4, <1>5

LEMMA TickBase ==
  ASSUME BaseInv, Tick
  PROVE  BaseInv'
<1>1. /\ clock' \in Nat
      /\ lease' \in Lease /\ lease'.token = lease.token /\ lease'.depth = lease.depth /\ ~lease'.new
      /\ UNCHANGED <<item, drawn, call, stray, renewer, calls, failed, end>>
  BY TickLemma
<1>2. ClientTypeOK' /\ TokensKnown' /\ HoldersOK' /\ RecordOK'
  BY <1>1 DEF BaseInv, ClientTypeOK, TokensKnown, HoldersOK, RecordOK
<1>3. CallsOK'
  BY <1>1 DEF BaseInv, CallsOK, Pending, App, Ren
<1>. QED
  BY <1>2, <1>3 DEF BaseInv

LEMMA BaseInit == ClientInit => BaseInv
<1>. SUFFICES ASSUME ClientInit PROVE BaseInv
  OBVIOUS
<1>1. /\ clock = 1 /\ item = NewRecord(1) /\ drawn = {} /\ lease = NoLease
      /\ call = [g \in Goroutine |-> NoCall] /\ stray = {} /\ renewer = NoRenewer /\ calls = 0
      /\ failed = [op \in {"acquire", "release"} |-> 0] /\ end = [how |-> "none", at |-> 0]
  BY DEF ClientInit
<1>2. /\ item \in Record /\ item.token = NoToken /\ item.depth = 0 /\ item.queue = <<>>
  <2>1. <<>> \in Seq(Request)
    BY EmptySeq
  <2>. QED
    BY <1>1, <2>1 DEF NewRecord, Record, Token, ZeroTime
<1>3. /\ lease \in Lease /\ lease.token = NoToken /\ lease.depth = 0 /\ ~lease.new
  BY <1>1 DEF NoLease, Lease, Token, ZeroTime
<1>4. /\ renewer \in Renewer /\ renewer.token = NoToken /\ renewer.pc = "off"
  BY <1>1 DEF NoRenewer, Renewer, Token
<1>5. /\ call \in [Goroutine -> Call] /\ App = NoCall /\ Ren = NoCall
      /\ \A g \in Goroutine : call[g] = NoCall
  BY <1>1, CallTypes, Goroutines DEF App, Ren
<1>6. MaxDepth \in Nat /\ MaxCall \in Nat
  BY RecordAssumption, ClientAssumption
<1>7. ClientTypeOK
  BY <1>1, <1>2, <1>3, <1>4, <1>5, <1>6 DEF ClientTypeOK
<1>8. TokensKnown /\ RecordOK /\ HoldersOK
  BY <1>1, <1>2, <1>3, <1>4, <1>5, CallTypes, AnswerTypes DEF TokensKnown, RecordOK, HoldersOK
<1>9. CallsOK
  BY <1>1, <1>4, <1>5, <1>6, CallTypes, AnswerTypes DEF CallsOK, Pending
<1>. QED
  BY <1>7, <1>8, <1>9 DEF BaseInv

\* BaseInv is inductive.
LEMMA BaseStep == BaseInv /\ [ClientNext]_vars => BaseInv'
<1>. SUFFICES ASSUME BaseInv, [ClientNext]_vars PROVE BaseInv'
  OBVIOUS
<1>1. CASE AppAcquire \/ AppRelease \/ AppWatch
  BY <1>1, AppSendsBase
<1>2. CASE AppReturns
  BY <1>2, AppReturnsBase
<1>3. CASE StartRenewer
  BY <1>3, StartRenewerBase
<1>4. CASE RenewerWakes
  BY <1>4, RenewerWakesBase
<1>5. CASE RenewReturns
  BY <1>5, RenewReturnsBase
<1>6. CASE CancelRenewer \/ RenewerStops
  BY <1>6, RenewerEndsBase
<1>7. CASE \E g \in Goroutine : Serve(g) \/ Fail(g) \/ Refused(g)
  BY <1>7, ServeBase, FailBase, RefusedBase
<1>8. CASE ServeStray
  <2>1. /\ ServerStep /\ UNCHANGED <<clock, lease, call, renewer, calls, failed>>
        /\ stray' \subseteq stray
    BY <1>8, StrayServed
  <2>. QED
    BY <2>1, ServerBase
<1>9. CASE Others
  <2>1. /\ ServerStep /\ UNCHANGED <<clock, lease, call, renewer, calls, failed>>
        /\ stray' \subseteq stray
    BY <1>9, OthersStep
  <2>. QED
    BY <2>1, ServerBase
<1>10. CASE Tick
  BY <1>10, TickBase
<1>11. CASE UNCHANGED vars
  BY <1>11 DEF vars, BaseInv, ClientTypeOK, TokensKnown, RecordOK, HoldersOK, CallsOK, Pending,
               App, Ren
<1>. QED
  BY <1>1, <1>2, <1>3, <1>4, <1>5, <1>6, <1>7, <1>8, <1>9, <1>10, <1>11 DEF ClientNext

\* The client, its calls and the record stay well formed; the depth a client was told is
\* within the lock's limit.
THEOREM ClientTypeCorrect == ClientSpec => []ClientTypeOK
<1>1. BaseInv => ClientTypeOK
  BY DEF BaseInv
<1>. QED
  BY <1>1, BaseInit, BaseStep, PTL DEF ClientSpec

-----------------------------------------------------------------------------
(* The depth: DepthInv.                                                    *)

\* The numbers DepthInv is about.
LEMMA LateFacts ==
  ASSUME BaseInv, DepthInv, NEW op \in {"acquire", "release"}
  PROVE  /\ IsFiniteSet(Strays(op)) /\ Cardinality(Strays(op)) \in Nat /\ failed[op] \in Nat
         /\ Cardinality(Strays(op)) <= failed[op]
         /\ Late(op) \in Nat /\ Due(op) \in {0, 1}
<1>1. IsFiniteSet(stray) /\ Cardinality(Strays(op)) <= failed[op]
  BY DEF DepthInv
<1>2. Strays(op) \subseteq stray
  BY DEF Strays
<1>3. IsFiniteSet(Strays(op)) /\ Cardinality(Strays(op)) \in Nat
  BY <1>1, <1>2, FS_Subset, FS_CardinalityType
<1>4. failed[op] \in Nat
  BY DEF BaseInv, ClientTypeOK
<1>. QED
  BY <1>1, <1>3, <1>4 DEF Late, Due

\* A request is left behind, and one arrives late.
LEMMA StrayAdded ==
  ASSUME BaseInv, DepthInv, NEW m, stray' = stray \cup {m}, NEW op \in {"acquire", "release"}
  PROVE  /\ IsFiniteSet(stray') /\ Cardinality(Strays(op)') \in Nat
         /\ Cardinality(Strays(op)') <= Cardinality(Strays(op)) + (IF m.op = op THEN 1 ELSE 0)
<1>1. IsFiniteSet(stray) /\ IsFiniteSet(Strays(op)) /\ Cardinality(Strays(op)) \in Nat
  BY LateFacts DEF DepthInv
<1>2. IsFiniteSet(stray')
  BY <1>1, FS_AddElement
<1>3. CASE m.op = op
  <2>1. Strays(op)' = Strays(op) \cup {m}
    BY <1>3 DEF Strays
  <2>2. Cardinality(Strays(op) \cup {m}) \in {Cardinality(Strays(op)), Cardinality(Strays(op)) + 1}
    BY <1>1, FS_AddElement
  <2>. QED
    BY <1>1, <1>2, <1>3, <2>1, <2>2
<1>4. CASE m.op # op
  <2>1. Strays(op)' = Strays(op)
    BY <1>4 DEF Strays
  <2>. QED
    BY <1>1, <1>2, <1>4, <2>1
<1>. QED
  BY <1>3, <1>4

LEMMA StrayRemoved ==
  ASSUME BaseInv, DepthInv, NEW m \in stray, stray' = stray \ {m}, NEW op \in {"acquire", "release"}
  PROVE  /\ IsFiniteSet(stray') /\ Cardinality(Strays(op)') \in Nat
         /\ Cardinality(Strays(op)') = Cardinality(Strays(op)) - (IF m.op = op THEN 1 ELSE 0)
<1>1. IsFiniteSet(stray) /\ IsFiniteSet(Strays(op)) /\ Cardinality(Strays(op)) \in Nat
  BY LateFacts DEF DepthInv
<1>2. IsFiniteSet(stray')
  BY <1>1, FS_RemoveElement
<1>3. CASE m.op = op
  <2>1. Strays(op)' = Strays(op) \ {m} /\ m \in Strays(op)
    BY <1>3 DEF Strays
  <2>2. /\ IsFiniteSet(Strays(op) \ {m})
        /\ Cardinality(Strays(op) \ {m}) = Cardinality(Strays(op)) - 1
    BY <1>1, <2>1, FS_RemoveElement
  <2>3. Cardinality(Strays(op) \ {m}) \in Nat
    BY <2>2, FS_CardinalityType
  <2>. QED
    BY <1>1, <1>2, <1>3, <2>1, <2>2, <2>3
<1>4. CASE m.op # op
  <2>1. Strays(op)' = Strays(op)
    BY <1>4 DEF Strays
  <2>. QED
    BY <1>1, <1>2, <1>4, <2>1
<1>. QED
  BY <1>3, <1>4

\* A step of the server's leaves a lease that somebody knows of as deep as it was, or
\* changes its depth by what the request asked for; it never brings one back.
LEMMA KnownLease ==
  ASSUME BaseInv, ServerStep, NEW levels \in Int,
         \/ LeaseStays
         \/ Blank(item')
         \/ \E ttl : LeaseBegins(ttl) \/ LeaseGoesOn(levels, ttl),
         NEW t \in drawn, item'.token = t
  PROVE  /\ item.token = t /\ item.depth \in Nat
         /\ item'.depth = item.depth \/ item'.depth = item.depth + levels
<1>1. item.depth \in Nat
  BY DEF BaseInv, ClientTypeOK, Record
<1>2. t \in Request /\ t # NoToken
  BY RecordAssumption DEF BaseInv, ClientTypeOK
<1>. QED
  BY <1>1, <1>2 DEF LeaseStays, Blank, LeaseBegins, LeaseGoesOn, GoesOn

\* The tokens of a lease with a depth.
LEMMA DepthTokens ==
  ASSUME BaseInv
  PROVE  /\ lease.depth \in Nat /\ App.answer.depth \in Nat /\ item.depth \in Nat
         /\ lease.depth > 0 => lease.token \in drawn
         /\ App.answer.depth > 0 => App.answer.token \in drawn
<1>1. lease.depth \in Nat /\ App.answer.depth \in Nat /\ item.depth \in Nat
  BY Goroutines DEF BaseInv, ClientTypeOK, Lease, Call, Answer, Record, App
<1>2. /\ lease.token \in drawn \cup {NoToken} /\ App.answer.token \in drawn \cup {NoToken}
      /\ lease.depth > 0 => lease.token # NoToken
      /\ App.answer.depth > 0 => App.answer.token # NoToken
  BY <1>1, Goroutines DEF BaseInv, TokensKnown, HoldersOK, CallsOK, App
<1>. QED
  BY <1>1, <1>2

\* What DepthInv says of one step, piece by piece.
LEMMA DepthSame ==
  ASSUME BaseInv, DepthInv, item' = item, lease'.depth = lease.depth, lease'.token = lease.token,
         UNCHANGED <<stray, failed>>,
         App' = App \/ (/\ ~Pending("acquire") /\ ~Pending("release")
                        /\ ~Pending("acquire")' /\ ~Pending("release")')
  PROVE  DepthInv'
<1>1. \A op : Strays(op)' = Strays(op) /\ Late(op)' = Late(op)
  BY DEF Strays, Late
<1>2. CASE App' = App
  <2>1. \A op : Pending(op)' = Pending(op) /\ Due(op)' = Due(op)
    BY <1>2 DEF Pending, Due
  <2>. QED
    BY <1>1, <1>2, <2>1 DEF DepthInv
<1>3. CASE /\ ~Pending("acquire") /\ ~Pending("release")
           /\ ~Pending("acquire")' /\ ~Pending("release")'
  <2>1. /\ Due("acquire")' = Due("acquire") /\ Due("release")' = Due("release")
    BY <1>3 DEF Due
  <2>. QED
    BY <1>1, <1>3, <2>1 DEF DepthInv
<1>. QED
  BY <1>2, <1>3

\* The answer that is due says how deep the lease has become.
LEMMA ServeDepth ==
  ASSUME BaseInv, DepthInv, NEW g \in Goroutine, Serve(g)
  PROVE  DepthInv'
<1>1. PICK a : Serving(call[g].msg, a) /\ call' = [call EXCEPT ![g].at = "answer", ![g].answer = a]
  BY DEF Serve
<1>. DEFINE m == call[g].msg
<1>2. /\ ServerStep
      /\ \/ a = Error /\ LeaseStays
         \/ a = Done /\ item' = item /\ m.op \in {"watch", "release"}
         \/ a = Told(item') /\ LeaseStays /\ m.op = "watch"
         \/ /\ a = Told(item') /\ m.op = "acquire"
            /\ LeaseBegins(NormalTTL(m.ttl)) \/ LeaseGoesOn(1, NormalTTL(m.ttl))
         \/ /\ a = Told(item') /\ m.op = "renew"
            /\ LeaseGoesOn(0, NormalTTL(m.ttl))
         \/ /\ a = Told(item') /\ m.op = "release"
            /\ LeaseGoesOn(-1, DefaultTTL) \/ Blank(item')
  <2>1. Sent(m) /\ (m.op = "acquire" => TokensLeft) /\ Serving(m, a)
    BY <1>1, BaseFacts DEF Serve
  <2>. HIDE DEF m
  <2>2. /\ GoodRecord(item) /\ clock \in Nat /\ drawn \subseteq Request
        /\ item.token \in drawn \cup {NoToken}
        /\ renewer.pc # "off" => renewer.token # NoToken
    BY BaseFacts
  <2>. QED
    BY <2>1, <2>2, ServingLemma
<1>3. UNCHANGED <<clock, lease, stray, renewer, calls, failed>> /\ call[g].at = "request"
  BY DEF Serve
<1>4. \A op : Strays(op)' = Strays(op) /\ Late(op)' = Late(op)
  BY <1>3 DEF Strays, Late
<1>5. /\ Late("acquire") \in Nat /\ Late("release") \in Nat
      /\ Due("acquire") \in {0, 1} /\ Due("release") \in {0, 1}
  BY LateFacts
<1>6. /\ lease.depth \in Nat /\ App.answer.depth \in Nat /\ item.depth \in Nat
      /\ lease.depth > 0 => lease.token \in drawn
      /\ App.answer.depth > 0 => App.answer.token \in drawn
  BY DepthTokens
<1>7. item' \in Record /\ item'.depth \in Nat
  BY <1>2 DEF ServerStep, GoodRecord, Record
<1>8. CASE g = "app"
  <2>1. App'.at = "answer" /\ App'.msg = m /\ App'.answer = a /\ App.at = "request" /\ App.msg = m
    BY <1>1, <1>3, <1>8, Goroutines DEF BaseInv, ClientTypeOK, Call, App
  <2>2. m.op \in {"acquire", "release", "watch"}
    BY <2>1 DEF BaseInv, CallsOK
  <2>. HIDE DEF m
  <2>3. ~Pending("acquire") /\ ~Pending("release") /\ Due("acquire") = 0 /\ Due("release") = 0
    BY <2>1 DEF Pending, Due
  <2>4. /\ Due("acquire")' = (IF a.ok /\ m.op = "acquire" THEN 1 ELSE 0)
        /\ Due("release")' = (IF a.ok /\ m.op = "release" THEN 1 ELSE 0)
    BY <2>1 DEF Pending, Due
  <2>5. lease.depth > 0 /\ item'.token = lease.token =>
          item'.depth - lease.depth \in
           (-(Late("release") + Due("release")'))..(Late("acquire") + Due("acquire")')
    <3>. SUFFICES ASSUME lease.depth > 0, item'.token = lease.token
                  PROVE  item'.depth - lease.depth \in
                           (-(Late("release") + Due("release")'))..(Late("acquire") + Due("acquire")')
      OBVIOUS
    <3>. DEFINE d2 == item'.depth
                d1 == item.depth
                r2 == Due("release")'
                a2 == Due("acquire")'
    <3>1. lease.token \in drawn
      BY <1>6
    <3>2. \/ a.ok /\ m.op = "acquire" /\ item.token = lease.token /\ d2 \in {d1, d1 + 1}
          \/ a.ok /\ m.op = "release" /\ item.token = lease.token /\ d2 \in {d1, d1 - 1}
          \/ item.token = lease.token /\ d2 = d1
      <4>1. CASE \/ a = Error /\ LeaseStays
                 \/ a = Done /\ item' = item
                 \/ a = Told(item') /\ LeaseStays
        BY <1>2, <3>1, <4>1, KnownLease, 0 \in Int DEF LeaseStays
      <4>2. CASE /\ a = Told(item') /\ m.op = "acquire"
                 /\ LeaseBegins(NormalTTL(m.ttl)) \/ LeaseGoesOn(1, NormalTTL(m.ttl))
        <5>1. a.ok
          BY <1>7, <4>2, AnswerTypes
        <5>2. item.token = lease.token /\ (d2 = d1 \/ d2 = d1 + 1)
          BY <1>2, <3>1, <4>2, KnownLease, 1 \in Int
        <5>. QED
          BY <4>2, <5>1, <5>2
      <4>3. CASE /\ a = Told(item') /\ m.op = "release"
                 /\ LeaseGoesOn(-1, DefaultTTL) \/ Blank(item')
        <5>1. a.ok
          BY <1>7, <4>3, AnswerTypes
        <5>2. item.token = lease.token /\ (d2 = d1 \/ d2 = d1 + (-1))
          BY <1>2, <3>1, <4>3, KnownLease, -1 \in Int
        <5>3. d1 + (-1) = d1 - 1
          BY <1>6
        <5>. QED
          BY <4>3, <5>1, <5>2, <5>3
      <4>. QED
        BY <1>2, <2>2, <4>1, <4>2, <4>3
    <3>3. item.token = lease.token => d1 - lease.depth \in (-Late("release"))..Late("acquire")
      BY <1>5, <2>3 DEF DepthInv
    <3>4. r2 = (IF a.ok /\ m.op = "release" THEN 1 ELSE 0)
          /\ a2 = (IF a.ok /\ m.op = "acquire" THEN 1 ELSE 0)
      BY <2>4
    <3>5. d1 \in Nat /\ d2 \in Nat
      BY <1>6, <1>7
    <3>. HIDE DEF d1, d2, r2, a2
    <3>6. d2 - lease.depth \in (-(Late("release") + r2))..(Late("acquire") + a2)
      BY <1>5, <1>6, <3>2, <3>3, <3>4, <3>5
    <3>. QED
      BY <3>6 DEF d2, r2, a2
  <2>6. a.depth > 0 /\ item'.token = a.token =>
          item'.depth - a.depth \in (-Late("release"))..Late("acquire")
    <3>1. a.depth > 0 => a = Told(item')
      BY <1>2, AnswerTypes
    <3>2. a.depth > 0 => a.depth = item'.depth
      BY <1>7, <3>1, AnswerTypes
    <3>. QED
      BY <1>5, <1>7, <3>2
  <2>. QED
    BY <1>3, <1>4, <2>1, <2>5, <2>6 DEF DepthInv
<1>9. CASE g = "renewer"
  <2>1. App' = App
    BY <1>1, <1>9, Goroutines DEF BaseInv, ClientTypeOK, App
  <2>2. m.op = "renew"
    BY <1>3, <1>9, Goroutines DEF BaseInv, CallsOK, Ren, NoMessage
  <2>. HIDE DEF m
  <2>3. LeaseStays \/ LeaseGoesOn(0, NormalTTL(m.ttl))
    BY <1>2, <2>2 DEF LeaseStays
  <2>4. \A t \in drawn : item'.token = t => item.token = t /\ item'.depth = item.depth
    BY <1>2, <1>6, <2>3, KnownLease, 0 \in Int
  <2>5. \A op : Due(op)' = Due(op) /\ Pending(op)' = Pending(op)
    BY <2>1 DEF Due, Pending
  <2>. QED
    BY <1>3, <1>4, <1>6, <2>1, <2>4, <2>5 DEF DepthInv
<1>. QED
  BY <1>8, <1>9, Goroutines

\* A late request changes the depth by the one level that its caller is unsure of.
LEMMA ServeStrayDepth ==
  ASSUME BaseInv, DepthInv, ServeStray
  PROVE  DepthInv'
<1>1. /\ ServerStep /\ UNCHANGED <<clock, lease, call, renewer, calls, failed>>
      /\ \E m \in stray :
           /\ stray' = stray \ {m} /\ m.op \in {"acquire", "release"} /\ m \in Message
           /\ \/ LeaseStays
              \/ m.op = "acquire" /\ (LeaseBegins(NormalTTL(m.ttl)) \/ LeaseGoesOn(1, NormalTTL(m.ttl)))
              \/ m.op = "release" /\ (LeaseGoesOn(-1, DefaultTTL) \/ Blank(item'))
  BY StrayServed
<1>2. PICK m \in stray :
        /\ stray' = stray \ {m} /\ m.op \in {"acquire", "release"}
        /\ \/ LeaseStays
           \/ m.op = "acquire" /\ (LeaseBegins(NormalTTL(m.ttl)) \/ LeaseGoesOn(1, NormalTTL(m.ttl)))
           \/ m.op = "release" /\ (LeaseGoesOn(-1, DefaultTTL) \/ Blank(item'))
  BY <1>1
<1>. DEFINE la == Late("acquire")
            lr == Late("release")
            la2 == Late("acquire")'
            lr2 == Late("release")'
            ca == Due("acquire")
            cr == Due("release")
            d1 == item.depth
            d2 == item'.depth
<1>3. /\ la \in Nat /\ lr \in Nat /\ ca \in {0, 1} /\ cr \in {0, 1}
  BY LateFacts
<1>4. /\ lease.depth \in Nat /\ App.answer.depth \in Nat /\ d1 \in Nat
      /\ lease.depth > 0 => lease.token \in drawn
      /\ App.answer.depth > 0 => App.answer.token \in drawn
  BY DepthTokens
<1>5. d2 \in Nat
  BY <1>1 DEF ServerStep, GoodRecord, Record
<1>6. /\ IsFiniteSet(stray')
      /\ \A op \in {"acquire", "release"} : Cardinality(Strays(op)') <= failed'[op]
      /\ la2 = la + (IF m.op = "acquire" THEN 1 ELSE 0)
      /\ lr2 = lr + (IF m.op = "release" THEN 1 ELSE 0)
  <2>1. ASSUME NEW op \in {"acquire", "release"}
        PROVE  /\ IsFiniteSet(stray') /\ Cardinality(Strays(op)') <= failed'[op]
               /\ Late(op)' = Late(op) + (IF m.op = op THEN 1 ELSE 0)
    <3>. DEFINE c == Cardinality(Strays(op))
                c2 == Cardinality(Strays(op)')
    <3>1. IsFiniteSet(stray') /\ c2 \in Nat /\ c2 = c - (IF m.op = op THEN 1 ELSE 0)
      BY <1>2, StrayRemoved
    <3>2. c \in Nat /\ failed[op] \in Nat /\ c <= failed[op] /\ failed' = failed
      BY <1>1, LateFacts
    <3>3. Late(op) = failed[op] - c /\ Late(op)' = failed'[op] - c2
      BY DEF Late
    <3>. HIDE DEF c, c2
    <3>4. c2 <= failed'[op] /\ Late(op)' = Late(op) + (IF m.op = op THEN 1 ELSE 0)
      BY <3>1, <3>2, <3>3
    <3>. QED
      BY <3>1, <3>4 DEF c2
  <2>. QED
    BY <2>1
<1>7. \A t \in drawn : item'.token = t =>
        item.token = t /\ (d2 = d1 \/ d2 = d1 + (IF m.op = "acquire" THEN 1 ELSE -1))
  <2>. DEFINE l == IF m.op = "acquire" THEN 1 ELSE -1
  <2>1. l \in Int
    OBVIOUS
  <2>2. LeaseStays \/ Blank(item') \/ \E ttl : LeaseBegins(ttl) \/ LeaseGoesOn(l, ttl)
    BY <1>2
  <2>. HIDE DEF l
  <2>3. \A t \in drawn : item'.token = t => item.token = t /\ (d2 = d1 \/ d2 = d1 + l)
    BY <1>1, <2>1, <2>2, KnownLease
  <2>. QED
    BY <2>3 DEF l
<1>8. App' = App /\ lease' = lease /\ \A op : Due(op)' = Due(op) /\ Pending(op)' = Pending(op)
  BY <1>1 DEF App, Due, Pending
<1>9. lease.depth > 0 /\ item.token = lease.token => d1 - lease.depth \in (-(lr + cr))..(la + ca)
  BY DEF DepthInv
<1>10. (Pending("acquire") \/ Pending("release")) /\ App.answer.depth > 0
       /\ item.token = App.answer.token => d1 - App.answer.depth \in (-lr)..la
  BY DEF DepthInv
<1>. HIDE DEF la, lr, la2, lr2, ca, cr, d1, d2
<1>11. lease.depth > 0 /\ item'.token = lease.token => d2 - lease.depth \in (-(lr2 + cr))..(la2 + ca)
  BY <1>2, <1>3, <1>4, <1>5, <1>6, <1>7, <1>9
<1>12. (Pending("acquire") \/ Pending("release")) /\ App.answer.depth > 0
       /\ item'.token = App.answer.token => d2 - App.answer.depth \in (-lr2)..la2
  BY <1>2, <1>3, <1>4, <1>5, <1>6, <1>7, <1>10
<1>. QED
  BY <1>6, <1>8, <1>11, <1>12 DEF DepthInv, la2, lr2, ca, cr, d2

\* Nobody else changes the depth of a lease.
LEMMA OthersDepth ==
  ASSUME BaseInv, DepthInv, Others
  PROVE  DepthInv'
<1>1. /\ ServerStep /\ UNCHANGED <<clock, lease, call, stray, renewer, calls, failed>>
      /\ LeaseBegins(DefaultTTL) \/ LeaseStays
  BY OthersStep
<1>2. /\ lease.depth \in Nat /\ App.answer.depth \in Nat /\ item.depth \in Nat
      /\ lease.depth > 0 => lease.token \in drawn
      /\ App.answer.depth > 0 => App.answer.token \in drawn
  BY DepthTokens
<1>3. \A t \in drawn : item'.token = t => item.token = t /\ item'.depth = item.depth
  BY <1>1, <1>2, KnownLease, 0 \in Int
<1>4. /\ App' = App /\ lease' = lease
      /\ \A op : Due(op)' = Due(op) /\ Pending(op)' = Pending(op) /\ Strays(op)' = Strays(op)
                 /\ Late(op)' = Late(op)
  BY <1>1 DEF App, Due, Pending, Strays, Late
<1>. QED
  BY <1>1, <1>2, <1>3, <1>4 DEF DepthInv

\* The depth that was due is the one the application knows.
LEMMA AppReturnsDepth ==
  ASSUME BaseInv, DepthInv, AppReturns
  PROVE  DepthInv'
<1>. DEFINE m == App.msg
            a == App.answer
<1>1. /\ App.at = "answer" /\ a.ok
      /\ \/ /\ m.op = "acquire" /\ Pending("acquire")
            /\ lease' = [token |-> a.token, depth |-> a.depth, expiresAt |-> a.expiresAt,
                         ttl |-> EffectiveTTL(m.ttl, a.expiresAt), new |-> TRUE]
         \/ /\ m.op = "release" /\ Pending("release")
            /\ lease'.depth = a.depth /\ lease'.token = lease.token
         \/ m.op = "watch" /\ UNCHANGED <<lease, renewer>>
      /\ call' = [call EXCEPT !["app"] = NoCall]
      /\ UNCHANGED <<clock, item, drawn, stray, calls, failed, end>>
  BY AppReturnsLease
<1>2. App' = NoCall
  BY <1>1, CallEnds, Goroutines
<1>3. \A op : Strays(op)' = Strays(op) /\ Late(op)' = Late(op) /\ ~Pending(op)' /\ Due(op)' = 0
  BY <1>1, <1>2, CallTypes DEF Strays, Late, Pending, Due
<1>4. /\ Late("acquire") \in Nat /\ Late("release") \in Nat
  BY LateFacts
<1>5. CASE m.op = "watch"
  <2>1. ~Pending("acquire") /\ ~Pending("release") /\ lease' = lease
    BY <1>1, <1>5 DEF Pending
  <2>. QED
    BY <1>1, <1>3, <2>1, DepthSame
<1>6. CASE m.op # "watch"
  <2>1. /\ Pending("acquire") \/ Pending("release")
        /\ lease'.depth = a.depth /\ (a.depth > 0 => lease'.token = a.token)
    <3>1. m.op = "release" /\ a.depth > 0 => a.token = lease.token
      BY <1>1 DEF BaseInv, CallsOK
    <3>. QED
      BY <1>1, <1>6, <3>1
  <2>2. a.depth > 0 /\ item.token = a.token => item.depth - a.depth \in (-Late("release"))..Late("acquire")
    BY <2>1 DEF DepthInv
  <2>3. /\ IsFiniteSet(stray)
        /\ \A op \in {"acquire", "release"} : Cardinality(Strays(op)) <= failed[op]
    BY DEF DepthInv
  <2>4. lease'.depth > 0 /\ item.token = lease'.token =>
          item.depth - lease'.depth \in (-(Late("release") + 0))..(Late("acquire") + 0)
    <3>1. Late("release") + 0 = Late("release") /\ Late("acquire") + 0 = Late("acquire")
      BY <1>4
    <3>. QED
      BY <2>1, <2>2, <3>1
  <2>. QED
    BY <1>1, <1>3, <2>3, <2>4 DEF DepthInv
<1>. QED
  BY <1>5, <1>6

\* A call that brings no answer counts, from then on, as one that may have taken effect.
LEMMA FailDepth ==
  ASSUME BaseInv, DepthInv, NEW g \in Goroutine, Fail(g)
  PROVE  DepthInv'
<1>1. /\ call[g].at # "none"
      /\ UNCHANGED <<clock, item, drawn, lease, calls, end>>
      /\ \/ stray' = stray
         \/ /\ g = "app" /\ App.at = "request" /\ App.msg.op \in {"acquire", "release"}
            /\ stray' = stray \cup {App.msg}
      /\ \/ /\ g = "app" /\ App.msg.op = "watch" /\ stray' = stray
            /\ \E c \in Call : /\ call' = [call EXCEPT !["app"] = c]
                               /\ c.msg = App.msg /\ c.at = "request" /\ c.since = clock
                               /\ c.answer = Error
            /\ UNCHANGED <<renewer, failed>>
         \/ /\ ReportsError(g)
            /\ failed' = [op \in DOMAIN failed |->
                            failed[op] + (IF call[g].msg.op = op THEN 1 ELSE 0)]
  BY FailCases
<1>2. call \in [Goroutine -> Call] /\ failed \in [{"acquire", "release"} -> Nat]
  BY DEF BaseInv, ClientTypeOK
<1>3. ASSUME g = "app", App.msg.op = "watch", stray' = stray, UNCHANGED <<renewer, failed>>,
             NEW c \in Call, call' = [call EXCEPT !["app"] = c], c.at = "request"
      PROVE  DepthInv'
  <2>1. App' = c
    BY <1>2, <1>3, Goroutines DEF App
  <2>2. ~Pending("acquire") /\ ~Pending("release") /\ ~Pending("acquire")' /\ ~Pending("release")'
    BY <1>3, <2>1 DEF Pending
  <2>. QED
    BY <1>1, <1>3, <2>2, DepthSame
<1>4. ASSUME g = "renewer", ReportsError(g),
             failed' = [op \in DOMAIN failed |->
                          failed[op] + (IF call[g].msg.op = op THEN 1 ELSE 0)]
      PROVE  DepthInv'
  <2>1. call[g].msg.op = "renew" /\ stray' = stray
    BY <1>1, <1>4, Goroutines DEF BaseInv, CallsOK, Ren, NoMessage
  <2>2. failed' = failed
    BY <1>2, <1>4, <2>1
  <2>3. App' = App
    BY <1>4, ReportsErrorLemma, CallEnds
  <2>. QED
    BY <1>1, <2>1, <2>2, <2>3, DepthSame
<1>5. ASSUME g = "app", ReportsError(g),
             failed' = [op \in DOMAIN failed |->
                          failed[op] + (IF call[g].msg.op = op THEN 1 ELSE 0)]
      PROVE  DepthInv'
  <2>. DEFINE la == Late("acquire")
              lr == Late("release")
              la2 == Late("acquire")'
              lr2 == Late("release")'
              ca == Due("acquire")
              cr == Due("release")
              d == item.depth
  <2>1. App' = NoCall /\ call[g] = App
    BY <1>5, ReportsErrorLemma, CallEnds DEF App
  <2>2. \A op : ~Pending(op)' /\ Due(op)' = 0
    BY <2>1, CallTypes DEF Pending, Due
  <2>3. ASSUME NEW op \in {"acquire", "release"}
        PROVE  /\ IsFiniteSet(stray') /\ Cardinality(Strays(op)') <= failed'[op]
               /\ Late(op)' \in Nat /\ Late(op)' >= Late(op) + Due(op)
    <3>. DEFINE c == Cardinality(Strays(op))
                c2 == Cardinality(Strays(op)')
    <3>1. c \in Nat /\ failed[op] \in Nat /\ c <= failed[op] /\ Due(op) \in {0, 1} /\ Late(op) \in Nat
      BY LateFacts
    <3>2. failed'[op] = failed[op] + (IF App.msg.op = op THEN 1 ELSE 0)
      BY <1>2, <1>5, <2>1
    <3>3. /\ IsFiniteSet(stray') /\ c2 \in Nat
          /\ c2 + Due(op) <= c + (IF App.msg.op = op THEN 1 ELSE 0)
      <4>1. CASE stray' = stray
        <5>1. c2 = c /\ IsFiniteSet(stray)
          BY <4>1 DEF Strays, DepthInv
        <5>2. Due(op) <= (IF App.msg.op = op THEN 1 ELSE 0)
          BY DEF Due, Pending
        <5>. HIDE DEF c, c2
        <5>. QED
          BY <3>1, <4>1, <5>1, <5>2
      <4>2. CASE App.at = "request" /\ stray' = stray \cup {App.msg}
        <5>1. IsFiniteSet(stray') /\ c2 \in Nat /\ c2 <= c + (IF App.msg.op = op THEN 1 ELSE 0)
          BY <4>2, StrayAdded
        <5>2. Due(op) = 0
          BY <4>2 DEF Due, Pending
        <5>. HIDE DEF c, c2
        <5>. QED
          BY <3>1, <5>1, <5>2
      <4>. QED
        BY <1>1, <4>1, <4>2
    <3>4. Late(op) = failed[op] - c /\ Late(op)' = failed'[op] - c2
      BY DEF Late
    <3>. HIDE DEF c, c2
    <3>5. /\ c2 <= failed'[op] /\ Late(op)' \in Nat /\ Late(op)' >= Late(op) + Due(op)
      BY <3>1, <3>2, <3>3, <3>4
    <3>. QED
      BY <3>3, <3>5 DEF c2
  <2>4. /\ la \in Nat /\ lr \in Nat /\ ca \in {0, 1} /\ cr \in {0, 1} /\ d \in Nat
        /\ lease.depth \in Nat
    BY LateFacts, DepthTokens
  <2>5. /\ la2 \in Nat /\ lr2 \in Nat /\ la2 >= la + ca /\ lr2 >= lr + cr
    BY <2>3
  <2>6. lease.depth > 0 /\ item.token = lease.token => d - lease.depth \in (-(lr + cr))..(la + ca)
    BY DEF DepthInv
  <2>7. lease' = lease /\ item' = item
    BY <1>1
  <2>. HIDE DEF la, lr, la2, lr2, ca, cr, d
  <2>8. lease.depth > 0 /\ item.token = lease.token => d - lease.depth \in (-(lr2 + 0))..(la2 + 0)
    BY <2>4, <2>5, <2>6
  <2>. QED
    BY <2>2, <2>3, <2>7, <2>8 DEF DepthInv, la2, lr2, d
<1>. QED
  BY <1>1, <1>3, <1>4, <1>5, Goroutines

LEMMA RefusedDepth ==
  ASSUME BaseInv, DepthInv, NEW g \in Goroutine, Refused(g)
  PROVE  DepthInv'
<1>1. /\ call[g].at = "answer" /\ ~call[g].answer.ok /\ ReportsError(g)
      /\ UNCHANGED <<clock, item, drawn, lease, stray, calls, failed, end>>
  BY DEF Refused
<1>2. CASE g = "app"
  <2>1. App' = NoCall
    BY <1>1, <1>2, ReportsErrorLemma, CallEnds
  <2>2. ~Pending("acquire") /\ ~Pending("release") /\ ~Pending("acquire")' /\ ~Pending("release")'
    BY <1>1, <1>2, <2>1, CallTypes DEF Pending, App
  <2>. QED
    BY <1>1, <2>2, DepthSame
<1>3. CASE g = "renewer"
  <2>1. App' = App
    BY <1>1, <1>3, ReportsErrorLemma, CallEnds
  <2>. QED
    BY <1>1, <2>1, DepthSame
<1>. QED
  BY <1>2, <1>3, Goroutines

LEMMA AppSendsDepth ==
  ASSUME BaseInv, DepthInv, AppAcquire \/ AppRelease \/ AppWatch
  PROVE  DepthInv'
<1>1. PICK m \in Message :
           /\ call["app"] = NoCall /\ call' = [call EXCEPT !["app"] = Sending(m)]
           /\ UNCHANGED <<clock, item, drawn, lease, stray, renewer, failed, end>>
  BY AppSends
<1>2. App = NoCall /\ App' = Sending(m) /\ Sending(m).at = "request"
  BY <1>1, CallTypes, Goroutines DEF BaseInv, ClientTypeOK, App
<1>3. ~Pending("acquire") /\ ~Pending("release") /\ ~Pending("acquire")' /\ ~Pending("release")'
  BY <1>2, CallTypes DEF Pending
<1>. QED
  BY <1>1, <1>3, DepthSame

LEMMA DepthInit == ClientInit => DepthInv
<1>. SUFFICES ASSUME ClientInit PROVE DepthInv
  OBVIOUS
<1>1. /\ lease.depth = 0 /\ stray = {} /\ App = NoCall
      /\ failed["acquire"] = 0 /\ failed["release"] = 0
  BY Goroutines DEF ClientInit, NoLease, App
<1>2. \A op : Strays(op) = {}
  BY <1>1 DEF Strays
<1>3. IsFiniteSet(stray) /\ \A op : Cardinality(Strays(op)) = 0
  BY <1>1, <1>2, FS_EmptySet
<1>. QED
  BY <1>1, <1>3, CallTypes DEF DepthInv, Pending

\* DepthInv is inductive.
LEMMA DepthStep == BaseInv /\ DepthInv /\ [ClientNext]_vars => DepthInv'
<1>. SUFFICES ASSUME BaseInv, DepthInv, [ClientNext]_vars PROVE DepthInv'
  OBVIOUS
<1>1. CASE AppAcquire \/ AppRelease \/ AppWatch
  BY <1>1, AppSendsDepth
<1>2. CASE AppReturns
  BY <1>2, AppReturnsDepth
<1>3. CASE StartRenewer
  <2>1. UNCHANGED <<item, lease, call, stray, failed>>
    BY <1>3, StartRenewerLemma
  <2>. QED
    BY <2>1, DepthSame DEF App
<1>4. CASE RenewerWakes
  BY <1>4, RenewerWakesLemma, DepthSame
<1>5. CASE RenewReturns
  <2>1. /\ lease'.token = lease.token /\ lease'.depth = lease.depth
        /\ call' = [call EXCEPT !["renewer"] = NoCall] /\ UNCHANGED <<item, stray, failed>>
    BY <1>5, RenewReturnsLemma
  <2>2. App' = App
    BY <2>1, CallEnds, Goroutines
  <2>. QED
    BY <2>1, <2>2, DepthSame
<1>6. CASE CancelRenewer \/ RenewerStops
  <2>1. UNCHANGED <<item, lease, call, stray, failed>>
    BY <1>6, RenewerEnds
  <2>. QED
    BY <2>1, DepthSame DEF App
<1>7. CASE \E g \in Goroutine : Serve(g) \/ Fail(g) \/ Refused(g)
  BY <1>7, ServeDepth, FailDepth, RefusedDepth
<1>8. CASE ServeStray
  BY <1>8, ServeStrayDepth
<1>9. CASE Others
  BY <1>9, OthersDepth
<1>10. CASE Tick
  <2>1. /\ lease'.token = lease.token /\ lease'.depth = lease.depth
        /\ UNCHANGED <<item, call, stray, failed>>
    BY <1>10, TickLemma
  <2>. QED
    BY <2>1, DepthSame DEF App
<1>11. CASE UNCHANGED vars
  BY <1>11, DepthSame DEF vars, App
<1>. QED
  BY <1>1, <1>2, <1>3, <1>4, <1>5, <1>6, <1>7, <1>8, <1>9, <1>10, <1>11 DEF ClientNext

\* The bounds of DepthInv are those of DepthAgrees or closer.
LEMMA DepthImplies == BaseInv /\ DepthInv => DepthAgrees
<1>. SUFFICES ASSUME BaseInv, DepthInv, lease.depth > 0, item.token = lease.token
              PROVE  item.depth - lease.depth \in (-Unsure("release"))..Unsure("acquire")
  BY DEF DepthAgrees
<1>. DEFINE d == item.depth - lease.depth
<1>1. d \in (-(Late("release") + Due("release")))..(Late("acquire") + Due("acquire"))
  BY DEF DepthInv
<1>2. item.depth \in Nat /\ lease.depth \in Nat
  BY DepthTokens
<1>3. ASSUME NEW op \in {"acquire", "release"}
      PROVE  Unsure(op) \in Nat /\ Late(op) + Due(op) \in Nat /\ Late(op) + Due(op) <= Unsure(op)
  <2>. DEFINE u == IF App.msg.op = op THEN 1 ELSE 0
              c == Cardinality(Strays(op))
  <2>1. /\ c \in Nat /\ failed[op] \in Nat /\ Late(op) \in Nat /\ Due(op) \in {0, 1}
    BY LateFacts
  <2>2. Late(op) = failed[op] - c /\ Unsure(op) = failed[op] + u
    BY DEF Late, Unsure, App
  <2>3. Due(op) <= u /\ u \in {0, 1}
    BY DEF Due, Pending
  <2>. HIDE DEF u, c
  <2>. QED
    BY <2>1, <2>2, <2>3
<1>4. /\ Unsure("acquire") \in Nat /\ Late("acquire") + Due("acquire") \in Nat
      /\ Late("acquire") + Due("acquire") <= Unsure("acquire")
      /\ Unsure("release") \in Nat /\ Late("release") + Due("release") \in Nat
      /\ Late("release") + Due("release") <= Unsure("release")
  BY <1>3
<1>5. d \in Int
  BY <1>2
<1>. HIDE DEF d
<1>6. d \in (-Unsure("release"))..Unsure("acquire")
  BY <1>1, <1>4, <1>5
<1>. QED
  BY <1>6 DEF d

\* The depth on the server is what the last answer said, but for the calls that brought
\* no answer, each of which took effect once at most: a lost acquire or release is never
\* replayed (client.go:167).
THEOREM DepthIsAsTold == ClientSpec => []DepthAgrees
<1>1. ClientInit => BaseInv /\ DepthInv
  BY BaseInit, DepthInit
<1>2. BaseInv /\ DepthInv /\ [ClientNext]_vars => (BaseInv /\ DepthInv)'
  BY BaseStep, DepthStep
<1>. QED
  BY <1>1, <1>2, DepthImplies, PTL DEF ClientSpec

-----------------------------------------------------------------------------
(* Time: TimesOK and EndInv.                                               *)

\* Numbers of time.
LEMMA TimeTypes ==
  ASSUME BaseInv
  PROVE  /\ clock \in Nat /\ Delay \in Nat /\ LongestPause \in Nat /\ renewer.ttl \in Nat
         /\ renewer.due \in Nat /\ renewer.failures \in Nat /\ end.at \in Nat
         /\ item.expiresAt \in Nat /\ renewer.token \in drawn \cup {NoToken}
         /\ \A g \in Goroutine : call[g].since \in Nat
<1>1. /\ clock \in Nat /\ renewer.ttl \in Nat /\ renewer.due \in Nat /\ renewer.failures \in Nat
      /\ end.at \in Nat /\ item.expiresAt \in Nat /\ renewer.token \in drawn \cup {NoToken}
  BY DEF BaseInv, ClientTypeOK, Renewer, Record, TokensKnown
<1>2. Delay \in Nat
  BY ClientAssumption
<1>3. LongestPause \in Nat
  BY <1>1, PauseLemma DEF LongestPause
<1>4. \A g \in Goroutine : call[g].since \in Nat
  BY DEF BaseInv, ClientTypeOK, Call
<1>. QED
  BY <1>1, <1>2, <1>3, <1>4

\* What a step does to the clock's relations, when it leaves the renewer's timer alone.
LEMMA TimesKept ==
  ASSUME BaseInv, BaseInv', TimesOK, clock' = clock,
         \A g \in Goroutine : \/ call'[g].at = "none"
                              \/ call'[g].since = clock
                              \/ call[g].at # "none" /\ call'[g].since = call[g].since,
         \/ renewer'.pc # "sleep"
         \/ /\ renewer'.ttl = renewer.ttl
            /\ renewer.pc = "sleep" /\ renewer'.due = renewer.due
         \/ renewer'.due \in clock..(clock + LongestPause')
  PROVE  TimesOK'
<1>1. /\ clock \in Nat /\ Delay \in Nat /\ LongestPause' \in Nat /\ LongestPause \in Nat
      /\ renewer'.due \in Nat
  <2>1. renewer'.due \in Nat /\ renewer'.ttl \in Nat
    BY DEF BaseInv, ClientTypeOK, Renewer
  <2>2. LongestPause' \in Nat
    BY <2>1, PauseLemma DEF LongestPause
  <2>. QED
    BY <2>1, <2>2, TimeTypes
<1>2. \A g \in Goroutine : call'[g].at # "none" =>
        call'[g].since <= clock' /\ clock' <= call'[g].since + Delay
  BY <1>1 DEF TimesOK
<1>3. renewer'.ttl = renewer.ttl => LongestPause' = LongestPause
  BY DEF LongestPause
<1>4. renewer'.pc = "sleep" => clock' <= renewer'.due /\ renewer'.due <= clock' + LongestPause'
  BY <1>1, <1>3 DEF TimesOK
<1>. QED
  BY <1>2, <1>4 DEF TimesOK

LEMMA Within == \A c \in Nat, n \in Nat, d \in Nat : n <= d => c + n \in c..(c + d)
OBVIOUS

\* TimesOK is inductive.
LEMMA TimesStep == BaseInv /\ TimesOK /\ [ClientNext]_vars => TimesOK'
<1>. SUFFICES ASSUME BaseInv, TimesOK, [ClientNext]_vars PROVE TimesOK'
  OBVIOUS
<1>0. BaseInv'
  BY BaseStep
<1>. DEFINE CallsKept ==
              \A g \in Goroutine : \/ call'[g].at = "none"
                                   \/ call'[g].since = clock
                                   \/ call[g].at # "none" /\ call'[g].since = call[g].since
<1>t. /\ clock \in Nat /\ LongestPause \in Nat /\ LongestPause' \in Nat
  <2>1. renewer'.ttl \in Nat
    BY <1>0 DEF BaseInv, ClientTypeOK, Renewer
  <2>2. LongestPause' \in Nat
    BY <2>1, PauseLemma DEF LongestPause
  <2>. QED
    BY <2>2, TimeTypes
<1>c. call \in [Goroutine -> Call] /\ call' = call => CallsKept
  <2>1. \A g \in Goroutine : call[g].at = "none" \/ call[g].at # "none"
    OBVIOUS
  <2>. QED
    BY <2>1
<1>1. CASE AppAcquire \/ AppRelease \/ AppWatch
  <2>1. PICK m \in Message :
           /\ call' = [call EXCEPT !["app"] = Sending(m)]
           /\ UNCHANGED <<clock, item, drawn, lease, stray, renewer, failed, end>>
    BY <1>1, AppSends
  <2>2. CallsKept
    BY <2>1, CallTypes, Goroutines DEF BaseInv, ClientTypeOK
  <2>. QED
    BY <1>0, <2>1, <2>2, TimesKept
<1>2. CASE AppReturns
  <2>1. /\ call' = [call EXCEPT !["app"] = NoCall] /\ clock' = clock
        /\ renewer' = renewer \/ renewer' = [renewer EXCEPT !.own = FALSE]
    BY <1>2, AppReturnsLease
  <2>2. CallsKept
    BY <2>1, CallTypes, Goroutines DEF BaseInv, ClientTypeOK
  <2>3. renewer'.pc = renewer.pc /\ renewer'.ttl = renewer.ttl /\ renewer'.due = renewer.due
    BY <2>1 DEF BaseInv, ClientTypeOK, Renewer
  <2>. QED
    BY <1>0, <2>1, <2>2, <2>3, TimesKept
<1>3. CASE StartRenewer
  <2>1. PICK n \in Pause(lease.ttl) : n \in Nat /\ renewer'.due = clock + n
    BY <1>3, StartRenewerLemma
  <2>2. renewer'.ttl = lease.ttl /\ UNCHANGED <<clock, call>>
    BY <1>3, StartRenewerLemma
  <2>3. n <= LongestPause'
    <3>1. lease.ttl \in Nat
      BY DEF BaseInv, ClientTypeOK, Lease
    <3>. QED
      BY <2>1, <2>2, <3>1, PauseLemma DEF LongestPause
  <2>4. renewer'.due \in clock..(clock + LongestPause')
    BY <1>t, <2>1, <2>3, Within
  <2>. QED
    BY <1>0, <1>c, <2>2, <2>4, TimesKept
<1>4. CASE RenewerWakes
  <2>1. /\ renewer'.pc = "call" /\ App' = App /\ Ren'.since = clock /\ clock' = clock
    BY <1>4, RenewerWakesLemma
  <2>2. CallsKept
    BY <2>1, Goroutines DEF App, Ren
  <2>. QED
    BY <1>0, <2>1, <2>2, TimesKept
<1>5. CASE RenewReturns
  <2>1. PICK n \in Pause(renewer.ttl) : n \in Nat /\ renewer'.due = clock + n
    BY <1>5, RenewReturnsLemma
  <2>2. /\ renewer'.ttl = renewer.ttl /\ call' = [call EXCEPT !["renewer"] = NoCall] /\ clock' = clock
    BY <1>5, RenewReturnsLemma
  <2>3. CallsKept
    BY <2>2, CallTypes, Goroutines DEF BaseInv, ClientTypeOK
  <2>4. n <= LongestPause'
    BY <2>1, <2>2, PauseLemma, TimeTypes DEF LongestPause
  <2>5. renewer'.due \in clock..(clock + LongestPause')
    BY <1>t, <2>1, <2>4, Within
  <2>. QED
    BY <1>0, <2>2, <2>3, <2>5, TimesKept
<1>6. CASE CancelRenewer \/ RenewerStops
  <2>1. /\ renewer'.ttl = renewer.ttl
        /\ \/ renewer'.pc = renewer.pc /\ renewer'.due = renewer.due
           \/ renewer'.pc = "ended" /\ renewer.pc = "sleep"
        /\ UNCHANGED <<clock, call>>
    BY <1>6, RenewerEnds
  <2>. QED
    BY <1>0, <1>c, <2>1, TimesKept
<1>7. CASE \E g \in Goroutine : Serve(g)
  <2>1. PICK g \in Goroutine : Serve(g)
    BY <1>7
  <2>2. PICK a : call' = [call EXCEPT ![g].at = "answer", ![g].answer = a]
    BY <2>1 DEF Serve
  <2>3. CallsKept
    BY <2>1, <2>2 DEF BaseInv, ClientTypeOK, Call, Serve
  <2>4. UNCHANGED <<clock, renewer>>
    BY <2>1 DEF Serve
  <2>. QED
    BY <1>0, <2>3, <2>4, TimesKept
<1>8. CASE \E g \in Goroutine : Fail(g) \/ Refused(g)
  <2>1. PICK g \in Goroutine : Fail(g) \/ Refused(g)
    BY <1>8
  <2>2. CASE ReportsError(g) /\ clock' = clock
    <3>1. \A x \in Goroutine : call'[x] = IF x = g THEN NoCall ELSE call[x]
      BY <2>2, ReportsErrorLemma, CallEnds
    <3>2. CallsKept
      BY <3>1, CallTypes
    <3>3. CASE g = "app"
      BY <1>0, <2>2, <3>2, <3>3, ReportsErrorLemma, TimesKept
    <3>4. CASE g = "renewer"
      <4>1. PICK n \in Pause(renewer.ttl) : n \in Nat /\ renewer' = AfterFailure(renewer, n)
        BY <2>2, <3>4, ReportsErrorLemma
      <4>2. renewer \in Renewer /\ clock \in Nat
        BY DEF BaseInv, ClientTypeOK
      <4>3. /\ renewer'.ttl = renewer.ttl
            /\ renewer'.pc = (IF renewer.failures + 1 >= 3 THEN "lost" ELSE "sleep")
            /\ renewer'.due = (IF renewer.failures + 1 >= 3 THEN 0 ELSE clock + n)
        BY <4>1, <4>2, AfterFailureLemma
      <4>4. n <= LongestPause'
        BY <4>1, <4>3, PauseLemma, TimeTypes DEF LongestPause
      <4>5. renewer'.pc # "sleep" \/ renewer'.due \in clock..(clock + LongestPause')
        <5>1. clock + n \in clock..(clock + LongestPause')
          BY <1>t, <4>1, <4>4, Within
        <5>. QED
          BY <4>3, <5>1
      <4>. QED
        BY <1>0, <2>2, <3>2, <4>5, TimesKept
    <3>. QED
      BY <3>3, <3>4, Goroutines
  <2>3. ASSUME NEW c \in Call, call' = [call EXCEPT !["app"] = c], c.since = clock,
               UNCHANGED <<clock, renewer>>
        PROVE  TimesOK'
    <3>1. CallsKept
      BY <2>3 DEF BaseInv, ClientTypeOK
    <3>. QED
      BY <1>0, <2>3, <3>1, TimesKept
  <2>4. CASE Fail(g)
    BY <2>2, <2>3, <2>4, FailCases
  <2>5. CASE Refused(g)
    BY <2>2, <2>5 DEF Refused
  <2>. QED
    BY <2>1, <2>4, <2>5
<1>9. CASE ServeStray \/ Others
  <2>1. UNCHANGED <<clock, call, renewer>>
    BY <1>9 DEF ServeStray, Others
  <2>. QED
    BY <1>0, <1>c, <2>1, TimesKept
<1>10. CASE Tick
  <2>1. /\ clock' \in Nat /\ clock' > clock
        /\ \A u \in (clock + 1)..(clock' - 1) : ~Eventful(u)
        /\ \A g \in Goroutine : call[g].at # "none" => clock' <= call[g].since + Delay
        /\ renewer.pc = "sleep" => clock < renewer.due
        /\ UNCHANGED <<call, renewer>>
    BY <1>10, TickLemma
  <2>2. Eventful(renewer.due)
    BY DEF Eventful
  <2>3. /\ renewer.due \in Nat /\ \A g \in Goroutine : call[g].since \in Nat
    BY TimeTypes
  <2>4. renewer.pc = "sleep" => clock' <= renewer.due
    BY <1>t, <2>1, <2>2, <2>3
  <2>5. LongestPause' = LongestPause
    BY <2>1 DEF LongestPause
  <2>6. \A g \in Goroutine : call[g].at # "none" => call[g].since <= clock'
    BY <1>t, <2>1, <2>3 DEF TimesOK
  <2>7. renewer.pc = "sleep" => renewer.due <= clock' + LongestPause
    BY <1>t, <2>1, <2>3 DEF TimesOK
  <2>. QED
    BY <2>1, <2>4, <2>5, <2>6, <2>7 DEF TimesOK
<1>11. CASE UNCHANGED vars
  BY <1>11 DEF vars, TimesOK, LongestPause
<1>. QED
  BY <1>1, <1>2, <1>3, <1>4, <1>5, <1>6, <1>7, <1>8, <1>9, <1>10, <1>11 DEF ClientNext

\* The latest times of the failures in a row.
LEMMA Deadlines ==
  ASSUME NEW at \in Nat, NEW p \in Nat, NEW d \in Nat
  PROVE  /\ at + d + 0 * (p + d) = at + d
         /\ \A f \in 0..2 : /\ at + d + f * (p + d) \in Nat
                            /\ at + d <= at + d + f * (p + d)
                            /\ at + d + (f + 1) * (p + d) = at + d + f * (p + d) + p + d
                            /\ at + d + f * (p + d) + p + d <= at + d + 3 * (p + d)
<1>. DEFINE x == p + d
            y == at + d
<1>1. x \in Nat /\ y \in Nat /\ x = p + d
  OBVIOUS
<1>. HIDE DEF x, y
<1>2. y + 0 * x = y
  BY <1>1
<1>3. \A f \in 0..2 : /\ y + f * x \in Nat /\ y <= y + f * x
                      /\ y + (f + 1) * x = y + f * x + x
                      /\ y + f * x + x <= y + 3 * x
  <2>. TAKE f \in 0..2
  <2>1. CASE f = 0
    BY <1>1, <2>1
  <2>2. CASE f = 1
    BY <1>1, <2>2
  <2>3. CASE f = 2
    BY <1>1, <2>3
  <2>. QED
    BY <2>1, <2>2, <2>3
<1>4. \A f \in 0..2 : y + f * x + p + d = y + f * x + x
  BY <1>1, <1>3
<1>. QED
  BY <1>2, <1>3, <1>4 DEF x, y

\* The renewer and its lease are left alone.
LEMMA EndKept ==
  ASSUME BaseInv, EndInv, clock' \in Nat, clock <= clock', item'.token = item.token, end' = end,
         renewer'.pc = renewer.pc \/ (renewer.pc = "sleep" /\ renewer'.pc = "ended"),
         renewer'.token = renewer.token, renewer'.ttl = renewer.ttl,
         renewer'.failures = renewer.failures,
         renewer'.pc = "sleep" => renewer'.due = renewer.due,
         Ren' = Ren
  PROVE  EndInv'
<1>1. /\ LongestPause' = LongestPause /\ \A f : Failed(f)' = Failed(f)
  BY DEF LongestPause, Failed
<1>2. clock \in Nat /\ end.at \in Nat
  BY TimeTypes
<1>. QED
  BY <1>1, <1>2 DEF EndInv, Alive

\* The server may end the lease; a renewal is answered with a lease only while it lasts.
LEMMA EndServed ==
  ASSUME BaseInv, TimesOK, EndInv, ServerStep, UNCHANGED <<clock, renewer>>,
         \A t \in drawn : item'.token = t => item.token = t,
         Ren'.since = Ren.since,
         Ren'.answer.ok => Ren.answer.ok \/ item.token = renewer.token
  PROVE  EndInv'
<1>1. /\ clock \in Nat /\ Delay \in Nat /\ LongestPause \in Nat /\ end.at \in Nat
      /\ renewer.due \in Nat /\ Ren.since \in Nat /\ renewer.failures \in Nat
  BY TimeTypes, Goroutines DEF Ren
<1>2. renewer.pc # "off" => renewer.token \in drawn
  BY TimeTypes, BaseFacts
<1>3. LongestPause' = LongestPause
  BY DEF LongestPause
<1>4. CASE renewer.pc # "off" /\ item.token = renewer.token /\ item'.token # item.token
  <2>1. end'.how # "none" /\ end'.at = clock
    BY <1>4 DEF ServerStep, Noted
  <2>2. Alive => renewer.failures \in 0..2
    BY DEF EndInv
  <2>3. Alive => clock <= Failed(renewer.failures)' /\ Failed(renewer.failures)' \in Nat
    <3>1. Failed(renewer.failures)' = clock + Delay + renewer.failures * (LongestPause + Delay)
      BY <1>3, <2>1 DEF Failed
    <3>2. Alive => /\ clock + Delay + renewer.failures * (LongestPause + Delay) \in Nat
                   /\ clock + Delay <= clock + Delay + renewer.failures * (LongestPause + Delay)
      BY <1>1, <2>2, Deadlines
    <3>. DEFINE x == renewer.failures * (LongestPause + Delay)
                y == Failed(renewer.failures)'
    <3>3. y = clock + Delay + x
      BY <3>1
    <3>. HIDE DEF x, y
    <3>4. Alive => clock <= y /\ y \in Nat
      BY <1>1, <3>2, <3>3 DEF x
    <3>. QED
      BY <3>4 DEF y
  <2>4. renewer.pc = "sleep" => renewer.due <= clock + LongestPause
    BY DEF TimesOK
  <2>5. renewer.pc = "call" => Ren.since <= clock
    BY Goroutines DEF TimesOK, BaseInv, CallsOK, Ren
  <2>. DEFINE y == Failed(renewer.failures)'
  <2>6. Alive => clock <= y /\ y \in Nat
    BY <2>3
  <2>7. (renewer.failures)' = renewer.failures /\ Failed(renewer.failures)' = y
    OBVIOUS
  <2>. HIDE DEF y
  <2>8. /\ renewer.pc = "sleep" => renewer.due <= y + LongestPause
        /\ renewer.pc = "call" => Ren.since <= y + LongestPause /\ Ren.since <= clock
    BY <1>1, <2>4, <2>5, <2>6 DEF Alive
  <2>. QED
    BY <1>1, <1>3, <1>4, <2>1, <2>2, <2>7, <2>8 DEF EndInv, Alive
<1>5. CASE ~(renewer.pc # "off" /\ item.token = renewer.token /\ item'.token # item.token)
  <2>1. end' = end
    BY <1>5 DEF ServerStep, Noted
  <2>2. \A f : Failed(f)' = Failed(f)
    BY <1>3, <2>1 DEF Failed
  <2>3. renewer.pc # "off" /\ end.how # "none" => item'.token # renewer.token
    BY <1>2 DEF EndInv
  <2>4. renewer.pc # "off" /\ end.how = "none" => item'.token = renewer.token
    BY <1>5 DEF EndInv
  <2>5. renewer.pc # "off" /\ end.how # "none" /\ Ren'.answer.ok => Ren.answer.ok
    BY DEF EndInv
  <2>. QED
    BY <1>1, <1>3, <2>1, <2>2, <2>3, <2>4, <2>5 DEF EndInv, Alive
<1>. QED
  BY <1>4, <1>5

\* A renewer whose lease has ended before it starts has three pauses to find out.
LEMMA StartRenewerEnd ==
  ASSUME BaseInv, EndInv, StartRenewer
  PROVE  EndInv'
<1>1. /\ renewer.pc = "off" /\ lease.new /\ lease.token # NoToken
      /\ renewer'.pc = "sleep" /\ renewer'.token = lease.token
      /\ renewer'.ttl = lease.ttl /\ renewer'.failures = 0
      /\ end' = (IF item.token = lease.token THEN end ELSE [how |-> "early", at |-> clock])
      /\ UNCHANGED <<clock, item, drawn, lease, call, stray, calls, failed>>
  BY StartRenewerLemma
<1>2. PICK n \in Pause(lease.ttl) : n \in Nat /\ renewer'.due = clock + n
  BY StartRenewerLemma
<1>3. lease.ttl \in Nat /\ clock \in Nat /\ Delay \in Nat
  BY TimeTypes DEF BaseInv, ClientTypeOK, Lease
<1>4. LongestPause' \in Nat /\ n <= LongestPause'
  BY <1>1, <1>2, <1>3, PauseLemma DEF LongestPause
<1>5. CASE item.token = lease.token
  <2>1. end'.how = "none" /\ item'.token = renewer'.token
    BY <1>1, <1>5 DEF EndInv
  <2>. QED
    BY <1>1, <2>1 DEF EndInv, Alive
<1>6. CASE item.token # lease.token
  <2>1. end'.how = "early" /\ end'.at = clock /\ item'.token # renewer'.token
    BY <1>1, <1>6
  <2>. DEFINE p == LongestPause'
              y == Failed(0)'
  <2>2. y = clock + Delay + 0 * (p + Delay)
    BY <2>1 DEF Failed
  <2>3. p \in Nat /\ n <= p
    BY <1>4
  <2>4. Failed(renewer.failures)' = y
    BY <1>1 DEF Failed
  <2>. HIDE DEF p, y
  <2>5. clock + Delay + 0 * (p + Delay) = clock + Delay
    BY <1>3, <2>3, Deadlines
  <2>6. renewer'.due <= y + p
    BY <1>2, <1>3, <2>2, <2>3, <2>5
  <2>7. clock <= clock'
    BY <1>1, <1>3
  <2>. QED
    BY <1>1, <2>1, <2>4, <2>6, <2>7 DEF EndInv, Alive, p
<1>. QED
  BY <1>5, <1>6

LEMMA RenewerWakesEnd ==
  ASSUME BaseInv, EndInv, RenewerWakes
  PROVE  EndInv'
<1>1. /\ renewer.pc = "sleep" /\ clock = renewer.due
      /\ renewer'.pc = "call" /\ renewer'.token = renewer.token
      /\ renewer'.ttl = renewer.ttl /\ renewer'.failures = renewer.failures
      /\ Ren'.since = clock /\ Ren'.answer = Error
      /\ UNCHANGED <<clock, item, drawn, lease, stray, calls, failed, end>>
  BY RenewerWakesLemma
<1>2. LongestPause' = LongestPause /\ \A f : Failed(f)' = Failed(f)
  BY <1>1 DEF LongestPause, Failed
<1>3. ~Ren'.answer.ok
  BY <1>1, AnswerTypes
<1>. QED
  BY <1>1, <1>2, <1>3 DEF EndInv, Alive

\* A renewal that was answered after the end had been sent before it.
LEMMA RenewReturnsEnd ==
  ASSUME BaseInv, TimesOK, EndInv, RenewReturns
  PROVE  EndInv'
<1>1. /\ Ren.at = "answer" /\ Ren.answer.ok /\ renewer.pc = "call"
      /\ renewer'.pc = "sleep" /\ renewer'.token = renewer.token
      /\ renewer'.ttl = renewer.ttl /\ renewer'.failures = 0
      /\ UNCHANGED <<clock, item, drawn, stray, calls, failed, end>>
  BY RenewReturnsLemma
<1>2. PICK n \in Pause(renewer.ttl) : n \in Nat /\ renewer'.due = clock + n
  BY RenewReturnsLemma
<1>3. /\ clock \in Nat /\ Delay \in Nat /\ LongestPause \in Nat /\ end.at \in Nat
      /\ Ren.since \in Nat /\ renewer.ttl \in Nat
  BY TimeTypes, Goroutines DEF Ren
<1>4. n <= LongestPause
  BY <1>3, PauseLemma DEF LongestPause
<1>5. LongestPause' = LongestPause /\ Failed(0)' = Failed(0)
  BY <1>1 DEF LongestPause, Failed
<1>6. clock <= Ren.since + Delay
  BY <1>1, Goroutines DEF TimesOK, Ren
<1>. DEFINE y == Failed(0)
            p == LongestPause
<1>7. y = end.at + Delay
  BY <1>3, Deadlines DEF Failed
<1>8. end.how # "none" => Ren.since <= end.at
  BY <1>1 DEF EndInv, Alive
<1>. HIDE DEF y, p
<1>9. end.how # "none" => renewer'.due <= y + p
  BY <1>2, <1>3, <1>4, <1>6, <1>7, <1>8 DEF p
<1>10. Failed(renewer.failures)' = y
  BY <1>1, <1>5 DEF Failed, y
<1>. QED
  BY <1>1, <1>5, <1>9, <1>10 DEF EndInv, Alive, p

\* Each failure comes at most a pause and a call after the one before.
LEMMA RenewFailsEnd ==
  ASSUME BaseInv, TimesOK, EndInv, call["renewer"].at # "none", ReportsError("renewer"),
         UNCHANGED <<clock, item, end>>
  PROVE  EndInv'
<1>1. PICK n \in Pause(renewer.ttl) : n \in Nat /\ renewer' = AfterFailure(renewer, n)
  BY ReportsErrorLemma, Goroutines
<1>2. /\ clock \in Nat /\ Delay \in Nat /\ LongestPause \in Nat /\ end.at \in Nat
      /\ Ren.since \in Nat /\ renewer.ttl \in Nat /\ renewer \in Renewer
  BY TimeTypes, Goroutines DEF Ren, BaseInv, ClientTypeOK
<1>3. /\ renewer'.token = renewer.token /\ renewer'.ttl = renewer.ttl
      /\ renewer'.failures = renewer.failures + 1
      /\ renewer'.pc = (IF renewer.failures + 1 >= 3 THEN "lost" ELSE "sleep")
      /\ renewer'.due = (IF renewer.failures + 1 >= 3 THEN 0 ELSE clock + n)
  BY <1>1, <1>2, AfterFailureLemma
<1>4. renewer.pc = "call" /\ Alive /\ renewer.failures \in 0..2
  BY DEF BaseInv, CallsOK, Ren, EndInv, Alive
<1>5. n <= LongestPause
  BY <1>1, <1>2, PauseLemma DEF LongestPause
<1>6. LongestPause' = LongestPause
  BY <1>3 DEF LongestPause
<1>7. clock <= Ren.since + Delay
  BY Goroutines DEF TimesOK, Ren
<1>. DEFINE f == renewer.failures
            y == Failed(f)
            y2 == Failed(renewer.failures)'
            p == LongestPause
<1>8. end.how # "none" => Ren.since <= y + p
  BY <1>4 DEF EndInv
<1>9. y \in Nat /\ y2 = y + p + Delay
  <2>1. y = end.at + Delay + f * (p + Delay)
    BY DEF Failed
  <2>2. y2 = end.at + Delay + (f + 1) * (p + Delay)
    BY <1>3, <1>6 DEF Failed
  <2>3. f \in 0..2 /\ p \in Nat
    BY <1>2, <1>4
  <2>. HIDE DEF f, y, y2, p
  <2>. QED
    BY <1>2, <2>1, <2>2, <2>3, Deadlines
<1>. HIDE DEF y, y2
<1>10. end.how # "none" /\ renewer'.pc = "sleep" => renewer'.due <= y2 + p
  <2>. HIDE DEF p
  <2>1. p \in Nat /\ n <= p
    BY <1>2, <1>5 DEF p
  <2>2. renewer'.pc = "sleep" => renewer'.due = clock + n
    BY <1>3
  <2>. QED
    BY <1>1, <1>2, <1>7, <1>8, <1>9, <2>1, <2>2
<1>11. renewer'.pc = "sleep" => renewer'.failures \in 0..2
  BY <1>3, <1>4
<1>12. renewer'.pc \in {"sleep", "lost"}
  BY <1>3
<1>. QED
  BY <1>3, <1>4, <1>6, <1>10, <1>11, <1>12 DEF EndInv, Alive, y2

\* EndInv is inductive.
LEMMA EndStep == BaseInv /\ TimesOK /\ EndInv /\ [ClientNext]_vars => EndInv'
<1>. SUFFICES ASSUME BaseInv, TimesOK, EndInv, [ClientNext]_vars PROVE EndInv'
  OBVIOUS
<1>t. clock \in Nat /\ clock <= clock
  BY TimeTypes
<1>k. \A t \in drawn : t # NoToken
  BY RecordAssumption DEF BaseInv, ClientTypeOK
<1>1. CASE AppAcquire \/ AppRelease \/ AppWatch
  <2>1. PICK m \in Message :
           /\ call' = [call EXCEPT !["app"] = Sending(m)]
           /\ UNCHANGED <<clock, item, drawn, lease, stray, renewer, failed, end>>
    BY <1>1, AppSends
  <2>2. Ren' = Ren
    BY <2>1, Goroutines DEF BaseInv, ClientTypeOK, Ren
  <2>. QED
    BY <1>t, <2>1, <2>2, EndKept
<1>2. CASE AppReturns
  <2>1. /\ call' = [call EXCEPT !["app"] = NoCall] /\ UNCHANGED <<clock, item, end>>
        /\ renewer' = renewer \/ renewer' = [renewer EXCEPT !.own = FALSE]
    BY <1>2, AppReturnsLease
  <2>2. Ren' = Ren
    BY <2>1, CallEnds, Goroutines
  <2>3. /\ renewer'.pc = renewer.pc /\ renewer'.ttl = renewer.ttl /\ renewer'.due = renewer.due
        /\ renewer'.token = renewer.token /\ renewer'.failures = renewer.failures
    BY <2>1 DEF BaseInv, ClientTypeOK, Renewer
  <2>. QED
    BY <1>t, <2>1, <2>2, <2>3, EndKept
<1>3. CASE StartRenewer
  BY <1>3, StartRenewerEnd
<1>4. CASE RenewerWakes
  BY <1>4, RenewerWakesEnd
<1>5. CASE RenewReturns
  BY <1>5, RenewReturnsEnd
<1>6. CASE CancelRenewer \/ RenewerStops
  <2>1. /\ renewer'.token = renewer.token /\ renewer'.ttl = renewer.ttl
        /\ renewer'.failures = renewer.failures
        /\ \/ renewer'.pc = renewer.pc /\ renewer'.due = renewer.due
           \/ renewer'.pc = "ended" /\ renewer.pc = "sleep"
        /\ UNCHANGED <<clock, item, drawn, lease, call, stray, calls, failed, end>>
    BY <1>6, RenewerEnds
  <2>2. Ren' = Ren
    BY <2>1 DEF Ren
  <2>. QED
    BY <1>t, <2>1, <2>2, EndKept
<1>7. CASE \E g \in Goroutine : Serve(g)
  <2>1. PICK g \in Goroutine : Serve(g)
    BY <1>7
  <2>2. PICK a : Serving(call[g].msg, a) /\ call' = [call EXCEPT ![g].at = "answer", ![g].answer = a]
    BY <2>1 DEF Serve
  <2>3. /\ UNCHANGED <<clock, renewer>> /\ call[g].at = "request"
        /\ (call[g].msg.op = "acquire" => TokensLeft)
    BY <2>1 DEF Serve
  <2>. DEFINE m == call[g].msg
  <2>4. Sent(m) /\ (m.op = "acquire" => TokensLeft) /\ Serving(m, a)
    BY <2>2, <2>3, BaseFacts
  <2>5. /\ GoodRecord(item) /\ clock \in Nat /\ drawn \subseteq Request
        /\ item.token \in drawn \cup {NoToken}
        /\ renewer.pc # "off" => renewer.token # NoToken
    BY BaseFacts
  <2>6. g = "renewer" => m.op = "renew" /\ m.token = renewer.token
    BY <2>3, Goroutines DEF BaseInv, CallsOK, Ren, NoMessage
  <2>7. /\ Ren'.since = Ren.since
        /\ g = "app" => Ren' = Ren
        /\ g = "renewer" => Ren'.answer = a
    BY <2>1, <2>2, Goroutines DEF BaseInv, ClientTypeOK, Call, Ren
  <2>. HIDE DEF m
  <2>8. /\ ServerStep
        /\ LeaseStays \/ Blank(item') \/ \E levels, ttl : LeaseBegins(ttl) \/ LeaseGoesOn(levels, ttl)
        /\ m.op = "renew" /\ a.ok => m.token = item.token
    <3>1. /\ ServerStep
          /\ \/ a = Error /\ LeaseStays
             \/ a = Done /\ item' = item /\ m.op \in {"watch", "release"}
             \/ a = Told(item') /\ LeaseStays /\ m.op = "watch"
             \/ /\ a = Told(item') /\ m.op = "acquire"
                /\ LeaseBegins(NormalTTL(m.ttl)) \/ LeaseGoesOn(1, NormalTTL(m.ttl))
             \/ /\ a = Told(item') /\ m.op = "renew" /\ m.token = item.token
                /\ LeaseGoesOn(0, NormalTTL(m.ttl))
             \/ /\ a = Told(item') /\ m.op = "release" /\ m.token = item.token
                /\ LeaseGoesOn(-1, DefaultTTL) \/ Blank(item')
      BY <2>4, <2>5, ServingLemma
    <3>2. LeaseStays \/ Blank(item') \/ \E levels, ttl : LeaseBegins(ttl) \/ LeaseGoesOn(levels, ttl)
      BY <3>1 DEF LeaseStays
    <3>. QED
      BY <3>1, <3>2, AnswerTypes
  <2>9. \A t \in drawn : item'.token = t => item.token = t
    BY <1>k, <2>8 DEF LeaseStays, Blank, LeaseBegins, LeaseGoesOn, GoesOn
  <2>10. Ren'.answer.ok => Ren.answer.ok \/ item.token = renewer.token
    BY <2>6, <2>7, <2>8, Goroutines
  <2>. QED
    BY <2>3, <2>7, <2>8, <2>9, <2>10, EndServed
<1>8. CASE \E g \in Goroutine : Fail(g) \/ Refused(g)
  <2>1. PICK g \in Goroutine : Fail(g) \/ Refused(g)
    BY <1>8
  <2>2. CASE ReportsError(g) /\ call[g].at # "none" /\ UNCHANGED <<clock, item, end>>
    <3>1. CASE g = "app"
      <4>1. Ren' = Ren /\ renewer' = renewer
        BY <2>2, <3>1, ReportsErrorLemma, CallEnds
      <4>. QED
        BY <1>t, <2>2, <4>1, EndKept
    <3>2. CASE g = "renewer"
      BY <2>2, <3>2, RenewFailsEnd
    <3>. QED
      BY <3>1, <3>2, Goroutines
  <2>3. ASSUME NEW c \in Call, call' = [call EXCEPT !["app"] = c],
               UNCHANGED <<clock, item, end, renewer>>
        PROVE  EndInv'
    <3>1. Ren' = Ren
      BY <2>3, Goroutines DEF BaseInv, ClientTypeOK, Ren
    <3>. QED
      BY <1>t, <2>3, <3>1, EndKept
  <2>4. CASE Fail(g)
    BY <2>2, <2>3, <2>4, FailCases
  <2>5. CASE Refused(g)
    BY <2>2, <2>5 DEF Refused
  <2>. QED
    BY <2>1, <2>4, <2>5
<1>9. CASE ServeStray \/ Others
  <2>1. /\ ServerStep /\ UNCHANGED <<clock, call, renewer>>
        /\ LeaseStays \/ Blank(item') \/ \E levels, ttl : LeaseBegins(ttl) \/ LeaseGoesOn(levels, ttl)
    <3>1. CASE ServeStray
      BY <3>1, StrayServed
    <3>2. CASE Others
      BY <3>2, OthersStep
    <3>. QED
      BY <1>9, <3>1, <3>2
  <2>2. \A t \in drawn : item'.token = t => item.token = t
    BY <1>k, <2>1 DEF LeaseStays, Blank, LeaseBegins, LeaseGoesOn, GoesOn
  <2>3. Ren' = Ren
    BY <2>1 DEF Ren
  <2>. QED
    BY <2>1, <2>2, <2>3, EndServed
<1>10. CASE Tick
  <2>1. /\ clock' \in Nat /\ clock' > clock
        /\ UNCHANGED <<item, call, renewer, end>>
    BY <1>10, TickLemma
  <2>2. Ren' = Ren /\ clock <= clock'
    BY <1>t, <2>1 DEF Ren
  <2>. QED
    BY <2>1, <2>2, EndKept
<1>11. CASE UNCHANGED vars
  <2>1. UNCHANGED <<clock, item, call, renewer, end>>
    BY <1>11 DEF vars
  <2>. QED
    BY <1>t, <2>1, EndKept DEF Ren
<1>. QED
  BY <1>1, <1>2, <1>3, <1>4, <1>5, <1>6, <1>7, <1>8, <1>9, <1>10, <1>11 DEF ClientNext

LEMMA EndInit == ClientInit => TimesOK /\ EndInv
<1>. SUFFICES ASSUME ClientInit PROVE TimesOK /\ EndInv
  OBVIOUS
<1>1. /\ end.how = "none" /\ renewer.pc = "off" /\ \A g \in Goroutine : call[g] = NoCall
  BY DEF ClientInit, NoRenewer
<1>. QED
  BY <1>1, CallTypes DEF TimesOK, EndInv, Alive

\* The third failure is the last.
LEMMA EndImplies == BaseInv /\ TimesOK /\ EndInv => BeliefEnds
<1>. SUFFICES ASSUME BaseInv, TimesOK, EndInv, Renewing, end.how # "none"
              PROVE  clock <= end.at + Grace
  BY DEF BeliefEnds
<1>. DEFINE f == renewer.failures
            p == LongestPause
            y == Failed(f)
<1>1. /\ clock \in Nat /\ Delay \in Nat /\ p \in Nat /\ end.at \in Nat
      /\ Ren.since \in Nat /\ renewer.due \in Nat
  BY TimeTypes, Goroutines DEF Ren
<1>2. Alive /\ f \in 0..2 /\ renewer.pc \in {"sleep", "call"}
  BY DEF Renewing, Alive, EndInv
<1>3. y = end.at + Delay + f * (p + Delay)
  BY DEF Failed
<1>4. /\ renewer.pc = "sleep" => renewer.due <= y + p /\ clock <= renewer.due
      /\ renewer.pc = "call" => Ren.since <= y + p /\ clock <= Ren.since + Delay
  <2>1. renewer.pc = "call" => Ren.at # "none"
    BY DEF BaseInv, CallsOK
  <2>. QED
    BY <1>2, <2>1, Goroutines DEF EndInv, TimesOK, Ren
<1>5. Grace = Delay + 3 * (p + Delay)
  BY DEF Grace, LongestPause
<1>. HIDE DEF f, p, y
<1>6. y \in Nat /\ y + p + Delay <= end.at + Delay + 3 * (p + Delay)
  BY <1>1, <1>2, <1>3, Deadlines
<1>7. clock <= y + p + Delay
  BY <1>1, <1>2, <1>4, <1>6
<1>8. 3 * (p + Delay) \in Nat
  BY <1>1
<1>. QED
  BY <1>1, <1>5, <1>6, <1>7, <1>8

\* Whoever renews a lease that is no longer its own is told so within Grace: three renewals
\* fail, and onLost is called (renewer.go:31).
THEOREM BeliefEndsInTime == ClientSpec => []BeliefEnds
<1>1. ClientInit => BaseInv /\ TimesOK /\ EndInv
  BY BaseInit, EndInit
<1>2. BaseInv /\ TimesOK /\ EndInv /\ [ClientNext]_vars => (BaseInv /\ TimesOK /\ EndInv)'
  BY BaseStep, TimesStep, EndStep
<1>. QED
  BY <1>1, <1>2, EndImplies, PTL DEF ClientSpec

-----------------------------------------------------------------------------
(* The term: TermInv.                                                      *)

\* The quotient is the only number it can be.
LEMMA QuotientLemma ==
  ASSUME NEW n \in Nat \ {0}, NEW k \in Nat, NEW x \in Nat, n * k <= x, x < n * k + n
  PROVE  x \div n = k
<1>. DEFINE q == x \div n
<1>1. q \in Nat /\ n * q <= x /\ x < n * q + n
  OBVIOUS
<1>. HIDE DEF q
<1>2. CASE q < k
  <2>1. PICK j \in Nat : k = q + 1 + j
    <3>1. k - q - 1 \in Nat /\ k = q + 1 + (k - q - 1)
      BY <1>1, <1>2
    <3>. QED
      BY <3>1
  <2>2. n * k = n * q + n + n * j /\ n * j \in Nat /\ n * q \in Nat
    BY <1>1, <2>1
  <2>. QED
    BY <1>1, <2>2
<1>3. CASE k < q
  <2>1. PICK j \in Nat : q = k + 1 + j
    <3>1. q - k - 1 \in Nat /\ q = k + 1 + (q - k - 1)
      BY <1>1, <1>3
    <3>. QED
      BY <3>1
  <2>2. n * q = n * k + n + n * j /\ n * j \in Nat /\ n * k \in Nat
    BY <1>1, <2>1
  <2>. QED
    BY <1>1, <2>2
<1>. QED
  BY <1>1, <1>2, <1>3 DEF q

\* The client, told when its lease expires, finds the TTL by rounding what is left.
LEMMA RoundLemma ==
  ASSUME OneTTL, NEW left \in Nat, DefaultTTL <= left + Delay, left <= DefaultTTL
  PROVE  ((2 * left + Second) \div (2 * Second)) * Second = DefaultTTL
<1>1. /\ Second \in Nat \ {0} /\ DefaultTTL \in Nat /\ Delay \in Nat
      /\ DefaultTTL % Second = 0 /\ 2 * Delay <= Second
  BY ClientAssumption, ValidTTLs DEF OneTTL
<1>. DEFINE k == DefaultTTL \div Second
<1>2. k \in Nat /\ DefaultTTL = Second * k
  BY <1>1
<1>. HIDE DEF k
<1>3. (2 * Second) * k = 2 * DefaultTTL
  BY <1>1, <1>2
<1>4. /\ (2 * Second) * k <= 2 * left + Second
      /\ 2 * left + Second < (2 * Second) * k + 2 * Second
  BY <1>1, <1>3
<1>5. (2 * left + Second) \div (2 * Second) = k
  <2>1. 2 * Second \in Nat \ {0} /\ 2 * left + Second \in Nat
    BY <1>1
  <2>. QED
    BY <1>2, <1>4, <2>1, QuotientLemma
<1>6. k * Second = Second * k
  BY <1>1, <1>2
<1>. QED
  BY <1>2, <1>5, <1>6

\* A request asks for the default TTL, or for none.
LEMMA OneTTLs ==
  ASSUME NEW ttl \in {0, DefaultTTL}
  PROVE  NormalTTL(ttl) = DefaultTTL
BY DEF NormalTTL

\* The server never brings the expiry of a lease forward, nor puts it off too far.
LEMMA ServerTerm ==
  ASSUME BaseInv, TermInv, ServerStep,
         \/ LeaseStays
         \/ Blank(item')
         \/ LeaseBegins(DefaultTTL)
         \/ \E levels : LeaseGoesOn(levels, DefaultTTL)
  PROVE  /\ item'.expiresAt \in Nat /\ item'.expiresAt <= clock + DefaultTTL
         /\ \A t \in drawn : item'.token = t => item.token = t /\ item.expiresAt <= item'.expiresAt
<1>1. \A t \in drawn : t \in Request /\ t # NoToken
  BY RecordAssumption DEF BaseInv, ClientTypeOK
<1>2. /\ clock \in Nat /\ DefaultTTL \in Nat /\ item.expiresAt \in Nat /\ item'.expiresAt \in Nat
      /\ item.expiresAt <= clock + DefaultTTL
  BY TimeTypes, ValidTTLs DEF ServerStep, GoodRecord, Record, TermInv
<1>. QED
  BY <1>1, <1>2 DEF LeaseStays, Blank, LeaseBegins, LeaseGoesOn, GoesOn

\* What TermInv says of one answer.
AnswerTerm(c) ==
  c.answer.ok /\ c.answer.token # NoToken =>
    /\ c.answer.expiresAt <= clock + DefaultTTL
    /\ item.token = c.answer.token => c.answer.expiresAt <= item.expiresAt
    /\ c.msg.op \in {"acquire", "renew"} => c.answer.expiresAt >= c.since + DefaultTTL

LEMMA AnswerTerms == TermInv => \A g \in Goroutine : AnswerTerm(call[g])
BY DEF TermInv, AnswerTerm

\* TermInv of the state after a step, conjunct by conjunct.
LEMMA TermBuild ==
  ASSUME renewer'.pc # "off" => renewer'.ttl = DefaultTTL,
         lease'.token # NoToken => lease'.ttl = DefaultTTL,
         item'.expiresAt <= clock' + DefaultTTL,
         \A m \in stray' \cup {App'.msg} : m.ttl \in {0, DefaultTTL},
         renewer'.own => lease'.token = renewer'.token,
         lease'.token # NoToken /\ item'.token = lease'.token => lease'.expiresAt <= item'.expiresAt,
         \A g \in Goroutine : AnswerTerm(call[g])'
  PROVE  TermInv'
BY DEF TermInv, AnswerTerm

\* The answers, when the server has moved or time has passed.
LEMMA AnswersKept ==
  ASSUME BaseInv, TermInv, NEW g \in Goroutine, call'[g] = call[g],
         clock' \in Nat, clock <= clock', item'.expiresAt \in Nat,
         \A t \in drawn : item'.token = t => item.token = t /\ item.expiresAt <= item'.expiresAt
  PROVE  AnswerTerm(call[g])'
<1>1. /\ clock \in Nat /\ DefaultTTL \in Nat /\ item.expiresAt \in Nat
      /\ call[g].answer.expiresAt \in Nat /\ call[g].answer.token \in drawn \cup {NoToken}
  BY TimeTypes, ValidTTLs DEF BaseInv, ClientTypeOK, Call, Answer, TokensKnown
<1>2. AnswerTerm(call[g])
  BY AnswerTerms
<1>. DEFINE c == call[g]
<1>3. call'[g] = c
  OBVIOUS
<1>. HIDE DEF c
<1>4. c.answer.expiresAt \in Nat /\ c.answer.token \in drawn \cup {NoToken} /\ AnswerTerm(c)
  BY <1>1, <1>2 DEF c
<1>. QED
  BY <1>1, <1>3, <1>4 DEF AnswerTerm

\* The server answers with the expiry it has just set.
LEMMA ServeTerm ==
  ASSUME BaseInv, TimesOK, TermInv, NEW g \in Goroutine, Serve(g)
  PROVE  TermInv'
<1>1. PICK a : Serving(call[g].msg, a) /\ call' = [call EXCEPT ![g].at = "answer", ![g].answer = a]
  BY DEF Serve
<1>. DEFINE m == call[g].msg
<1>2. /\ UNCHANGED <<clock, lease, stray, renewer, calls, failed>> /\ call[g].at = "request"
      /\ (m.op = "acquire" => TokensLeft)
  BY DEF Serve
<1>3. NormalTTL(m.ttl) = DefaultTTL
  <2>1. CASE g = "app"
    BY <2>1, OneTTLs DEF TermInv, App
  <2>2. CASE g = "renewer"
    <3>1. m.ttl = renewer.ttl /\ renewer.pc # "off"
      BY <1>2, <2>2 DEF BaseInv, CallsOK, Ren, NoMessage
    <3>. QED
      BY <3>1, OneTTLs DEF TermInv
  <2>. QED
    BY <2>1, <2>2, Goroutines
<1>4. /\ ServerStep
      /\ LeaseStays \/ Blank(item') \/ LeaseBegins(DefaultTTL)
         \/ \E levels : LeaseGoesOn(levels, DefaultTTL)
      /\ a = Error \/ a = Done \/ a = Told(item')
      /\ m.op \in {"acquire", "renew"} =>
           a = Error \/ item'.expiresAt = clock + DefaultTTL
  <2>1. Sent(m) /\ Serving(m, a)
    BY <1>1, <1>2, BaseFacts
  <2>. HIDE DEF m
  <2>2. /\ GoodRecord(item) /\ clock \in Nat /\ drawn \subseteq Request
        /\ item.token \in drawn \cup {NoToken}
        /\ renewer.pc # "off" => renewer.token # NoToken
    BY BaseFacts
  <2>3. /\ ServerStep
        /\ \/ a = Error /\ LeaseStays
           \/ a = Done /\ item' = item /\ m.op \in {"watch", "release"}
           \/ a = Told(item') /\ LeaseStays /\ m.op = "watch"
           \/ /\ a = Told(item') /\ m.op = "acquire"
              /\ LeaseBegins(DefaultTTL) \/ LeaseGoesOn(1, DefaultTTL)
           \/ /\ a = Told(item') /\ m.op = "renew" /\ m.token = item.token
              /\ LeaseGoesOn(0, DefaultTTL)
           \/ /\ a = Told(item') /\ m.op = "release" /\ m.token = item.token
              /\ LeaseGoesOn(-1, DefaultTTL) \/ Blank(item')
    BY <1>2, <1>3, <2>1, <2>2, ServingLemma
  <2>4. LeaseStays \/ Blank(item') \/ LeaseBegins(DefaultTTL)
        \/ \E levels : LeaseGoesOn(levels, DefaultTTL)
    BY <2>3 DEF LeaseStays
  <2>5. m.op \in {"acquire", "renew"} => a = Error \/ item'.expiresAt = clock + DefaultTTL
    BY <2>3 DEF LeaseBegins, LeaseGoesOn, GoesOn
  <2>. QED
    BY <2>3, <2>4, <2>5
<1>5. /\ item'.expiresAt \in Nat /\ item'.expiresAt <= clock + DefaultTTL
      /\ \A t \in drawn : item'.token = t => item.token = t /\ item.expiresAt <= item'.expiresAt
  BY <1>4, ServerTerm
<1>6. /\ \A x \in Goroutine : x # g => call'[x] = call[x]
      /\ call'[g].answer = a /\ call'[g].msg = m /\ call'[g].since = call[g].since
      /\ App'.msg = App.msg
  BY <1>1, Goroutines DEF BaseInv, ClientTypeOK, Call, App
<1>7. /\ clock \in Nat /\ DefaultTTL \in Nat /\ item.expiresAt \in Nat /\ call[g].since \in Nat
      /\ call[g].since <= clock /\ item' \in Record
  BY <1>2, <1>4, TimeTypes, ValidTTLs DEF TimesOK, ServerStep, GoodRecord
<1>8. AnswerTerm(call[g])'
  <2>. DEFINE c == call'[g]
  <2>1. c.answer.ok /\ c.answer.token # NoToken =>
          a = Told(item') /\ a.expiresAt = item'.expiresAt /\ a # Error
    BY <1>4, <1>6, <1>7, AnswerTypes
  <2>2. c.answer = a /\ c.msg = m /\ c.since = call[g].since /\ clock' = clock
    BY <1>2, <1>6
  <2>. HIDE DEF c, m
  <2>3. c.answer.ok /\ c.answer.token # NoToken =>
          /\ c.answer.expiresAt <= clock' + DefaultTTL
          /\ item'.token = c.answer.token => c.answer.expiresAt <= item'.expiresAt
          /\ c.msg.op \in {"acquire", "renew"} => c.answer.expiresAt >= c.since + DefaultTTL
    BY <1>4, <1>5, <1>7, <2>1, <2>2
  <2>. QED
    BY <2>3 DEF c, AnswerTerm
<1>9. \A x \in Goroutine : AnswerTerm(call[x])'
  <2>1. clock' \in Nat /\ clock <= clock'
    BY <1>2, <1>7
  <2>. QED
    BY <1>5, <1>6, <1>8, <2>1, AnswersKept
<1>10. lease'.token # NoToken /\ item'.token = lease'.token => lease'.expiresAt <= item'.expiresAt
  <2>1. lease.token \in drawn \cup {NoToken} /\ lease.expiresAt \in Nat
    BY DEF BaseInv, TokensKnown, ClientTypeOK, Lease
  <2>. QED
    BY <1>2, <1>5, <1>7, <2>1 DEF TermInv
<1>. QED
  BY <1>2, <1>5, <1>6, <1>9, <1>10, TermBuild DEF TermInv

LEMMA NoAnswerTerm ==
  ASSUME NEW g, ~call'[g].answer.ok
  PROVE  AnswerTerm(call[g])'
BY DEF AnswerTerm

\* The record is left alone: the answers that stay are as good as before.
LEMMA AnswersStay ==
  ASSUME BaseInv, TermInv, item' = item, clock' \in Nat, clock <= clock',
         \A g \in Goroutine : call'[g] = call[g] \/ ~call'[g].answer.ok
  PROVE  \A g \in Goroutine : AnswerTerm(call[g])'
<1>1. /\ item'.expiresAt \in Nat
      /\ \A t \in drawn : item'.token = t => item.token = t /\ item.expiresAt <= item'.expiresAt
  <2>1. item.expiresAt \in Nat
    BY TimeTypes
  <2>. QED
    BY <2>1
<1>. TAKE g \in Goroutine
<1>2. CASE call'[g] = call[g]
  BY <1>1, <1>2, AnswersKept
<1>3. CASE ~call'[g].answer.ok
  BY <1>3, NoAnswerTerm
<1>. QED
  BY <1>2, <1>3

\* An answer a call has waited for gives the client the TTL back by rounding.
LEMMA AppReturnsTerm ==
  ASSUME OneTTL, BaseInv, TimesOK, TermInv, AppReturns
  PROVE  TermInv'
<1>. DEFINE m == App.msg
            a == App.answer
<1>1. /\ App.at = "answer" /\ a.ok
      /\ \/ /\ m.op = "acquire" /\ Pending("acquire")
            /\ lease' = [token |-> a.token, depth |-> a.depth, expiresAt |-> a.expiresAt,
                         ttl |-> EffectiveTTL(m.ttl, a.expiresAt), new |-> TRUE]
            /\ renewer' = [renewer EXCEPT !.own = FALSE]
         \/ /\ m.op = "release" /\ Pending("release")
            /\ lease'.token = lease.token
            /\ lease'.ttl = lease.ttl /\ lease'.expiresAt = lease.expiresAt
            /\ renewer' = renewer
         \/ m.op = "watch" /\ UNCHANGED <<lease, renewer>>
      /\ call' = [call EXCEPT !["app"] = NoCall]
      /\ UNCHANGED <<clock, item, drawn, stray, calls, failed, end>>
  BY AppReturnsLease
<1>2. /\ App' = NoCall /\ \A x \in Goroutine : call'[x] = IF x = "app" THEN NoCall ELSE call[x]
  BY <1>1, CallEnds, Goroutines
<1>3. /\ clock \in Nat /\ Delay \in Nat /\ item.expiresAt \in Nat /\ DefaultTTL \in Nat \ {0}
      /\ App.since \in Nat
  BY TimeTypes, ValidTTLs, Goroutines DEF App
<1>4. /\ renewer'.pc = renewer.pc /\ renewer'.token = renewer.token /\ renewer'.ttl = renewer.ttl
      /\ renewer'.own => renewer.own /\ m.op # "acquire"
  BY <1>1 DEF BaseInv, ClientTypeOK, Renewer
<1>5. \A g \in Goroutine : AnswerTerm(call[g])'
  <2>1. clock' \in Nat /\ clock <= clock' /\ item' = item
    BY <1>1, <1>3
  <2>2. \A g \in Goroutine : call'[g] = call[g] \/ ~call'[g].answer.ok
    BY <1>2, CallTypes, AnswerTypes
  <2>. QED
    BY <2>1, <2>2, AnswersStay
<1>6. \A x \in stray' \cup {App'.msg} : x.ttl \in {0, DefaultTTL}
  BY <1>1, <1>2, CallTypes DEF TermInv, NoMessage
<1>7. CASE m.op = "acquire"
  <2>1. lease'.token = a.token /\ lease'.expiresAt = a.expiresAt
        /\ lease'.ttl = EffectiveTTL(m.ttl, a.expiresAt)
    BY <1>1, <1>7
  <2>2. a.token # NoToken /\ a.expiresAt \in Nat
    BY <1>1, <1>7, Goroutines DEF BaseInv, CallsOK, ClientTypeOK, Call, Answer, App
  <2>3. AnswerTerm(App)
    BY AnswerTerms, Goroutines DEF App
  <2>4. /\ a.expiresAt <= clock + DefaultTTL
        /\ item.token = a.token => a.expiresAt <= item.expiresAt
        /\ App.since + DefaultTTL <= a.expiresAt
    BY <1>1, <1>3, <1>7, <2>2, <2>3 DEF AnswerTerm
  <2>5. clock <= App.since + Delay
    BY <1>1, Goroutines DEF TimesOK, App
  <2>6. lease'.ttl = DefaultTTL
    <3>. DEFINE e == a.expiresAt
                left == IF e > clock THEN e - clock ELSE 0
                rounded == ((2 * left + Second) \div (2 * Second)) * Second
    <3>1. m.ttl \in {0, DefaultTTL}
      BY DEF TermInv
    <3>2. left \in Nat /\ DefaultTTL <= left + Delay /\ left <= DefaultTTL
      BY <1>3, <2>2, <2>4, <2>5
    <3>3. rounded = DefaultTTL
      <4>. HIDE DEF left
      <4>. QED
        BY <3>2, RoundLemma
    <3>4. DefaultTTL \in MinTTL..MaxTTL
      BY RecordAssumption
    <3>. HIDE DEF e, m
    <3>5. /\ m.ttl > 0 => EffectiveTTL(m.ttl, e) = m.ttl
          /\ m.ttl = 0 /\ rounded \in MinTTL..MaxTTL => EffectiveTTL(m.ttl, e) = rounded
      <4>1. m.ttl \in Nat /\ e \in Nat
        BY <1>3, <2>2, <3>1 DEF e
      <4>. QED
        BY <1>3, <4>1, EffectiveTTLLemma
    <3>6. EffectiveTTL(m.ttl, e) = DefaultTTL
      <4>. HIDE DEF rounded
      <4>. QED
        BY <1>3, <3>1, <3>3, <3>4, <3>5
    <3>. QED
      BY <2>1, <3>6 DEF e
  <2>7. lease'.token # NoToken /\ item'.token = lease'.token => lease'.expiresAt <= item'.expiresAt
    BY <1>1, <2>1, <2>4
  <2>. QED
    BY <1>1, <1>4, <1>5, <1>6, <1>7, <2>6, <2>7, TermBuild DEF TermInv
<1>8. CASE m.op # "acquire"
  <2>1. lease'.token = lease.token /\ lease'.ttl = lease.ttl /\ lease'.expiresAt = lease.expiresAt
        /\ renewer' = renewer
    BY <1>1, <1>8
  <2>. QED
    BY <1>1, <1>4, <1>5, <1>6, <2>1, TermBuild DEF TermInv
<1>. QED
  BY <1>7, <1>8

\* The renewer writes the expiry it was told.
LEMMA RenewReturnsTerm ==
  ASSUME BaseInv, TermInv, RenewReturns
  PROVE  TermInv'
<1>1. /\ Ren.at = "answer" /\ Ren.answer.ok /\ renewer.pc = "call"
      /\ lease'.token = lease.token /\ lease'.ttl = lease.ttl
      /\ lease'.expiresAt = (IF renewer.own THEN Ren.answer.expiresAt ELSE lease.expiresAt)
      /\ renewer'.pc = "sleep" /\ renewer'.token = renewer.token
      /\ renewer'.ttl = renewer.ttl /\ renewer'.own = renewer.own
      /\ call' = [call EXCEPT !["renewer"] = NoCall]
      /\ UNCHANGED <<clock, item, drawn, stray, calls, failed, end>>
  BY RenewReturnsLemma
<1>2. App' = App /\ \A x \in Goroutine : call'[x] = IF x = "renewer" THEN NoCall ELSE call[x]
  BY <1>1, CallEnds, Goroutines
<1>3. clock \in Nat
  BY TimeTypes
<1>5. \A g \in Goroutine : AnswerTerm(call[g])'
  <2>1. clock' \in Nat /\ clock <= clock' /\ item' = item
    BY <1>1, <1>3
  <2>2. \A g \in Goroutine : call'[g] = call[g] \/ ~call'[g].answer.ok
    BY <1>2, CallTypes, AnswerTypes
  <2>. QED
    BY <2>1, <2>2, AnswersStay
<1>6. lease'.token # NoToken /\ item'.token = lease'.token => lease'.expiresAt <= item'.expiresAt
  <2>1. CASE renewer.own
    <3>1. lease.token = renewer.token /\ Ren.answer.token = renewer.token
      BY <1>1, <2>1 DEF TermInv, BaseInv, CallsOK
    <3>2. AnswerTerm(Ren)
      BY AnswerTerms, Goroutines DEF Ren
    <3>. QED
      BY <1>1, <2>1, <3>1, <3>2 DEF AnswerTerm
  <2>2. CASE ~renewer.own
    BY <1>1, <2>2 DEF TermInv
  <2>. QED
    BY <2>1, <2>2
<1>. QED
  BY <1>1, <1>2, <1>5, <1>6, TermBuild DEF TermInv

\* The steps of the client that do not touch what it knows of the term.
LEMMA TermKept ==
  ASSUME BaseInv, TermInv, UNCHANGED <<clock, item, lease>>,
         renewer'.pc # "off" => renewer.pc # "off",
         renewer'.token = renewer.token, renewer'.ttl = renewer.ttl, renewer'.own = renewer.own,
         \A m \in stray' \cup {App'.msg} : m.ttl \in {0, DefaultTTL},
         \A g \in Goroutine : call'[g] = call[g] \/ ~call'[g].answer.ok
  PROVE  TermInv'
<1>1. clock' \in Nat /\ clock <= clock' /\ item' = item
  BY TimeTypes
<1>2. \A g \in Goroutine : AnswerTerm(call[g])'
  BY <1>1, AnswersStay
<1>. QED
  BY <1>2, TermBuild DEF TermInv

LEMMA ErrorTerm ==
  ASSUME BaseInv, TermInv, NEW g \in Goroutine, ReportsError(g), call[g].at # "none",
         UNCHANGED <<clock, item, lease>>, stray' \subseteq stray \cup {App.msg}
  PROVE  TermInv'
<1>1. \A x \in Goroutine : call'[x] = IF x = g THEN NoCall ELSE call[x]
  BY ReportsErrorLemma, CallEnds
<1>2. \A x \in Goroutine : call'[x] = call[x] \/ ~call'[x].answer.ok
  BY <1>1, CallTypes, AnswerTypes
<1>3. \A m \in stray' \cup {App'.msg} : m.ttl \in {0, DefaultTTL}
  <2>1. App' = App \/ App' = NoCall
    BY <1>1, Goroutines DEF App
  <2>2. NoCall.msg.ttl = 0
    BY CallTypes DEF NoMessage
  <2>. QED
    BY <2>1, <2>2 DEF TermInv
<1>4. /\ renewer'.pc # "off" => renewer.pc # "off"
      /\ renewer'.token = renewer.token /\ renewer'.ttl = renewer.ttl /\ renewer'.own = renewer.own
  <2>1. CASE g = "app"
    BY <2>1, ReportsErrorLemma
  <2>2. CASE g = "renewer"
    <3>1. PICK n \in Pause(renewer.ttl) : n \in Nat /\ renewer' = AfterFailure(renewer, n)
      BY <2>2, ReportsErrorLemma
    <3>2. renewer \in Renewer /\ clock \in Nat
      BY DEF BaseInv, ClientTypeOK
    <3>3. /\ renewer'.token = renewer.token /\ renewer'.ttl = renewer.ttl
          /\ renewer'.own = renewer.own
      BY <3>1, <3>2, AfterFailureLemma
    <3>4. renewer.pc = "call"
      BY <2>2 DEF BaseInv, CallsOK, Ren
    <3>. QED
      BY <3>3, <3>4
  <2>. QED
    BY <2>1, <2>2, Goroutines
<1>. QED
  BY <1>2, <1>3, <1>4, TermKept

\* TermInv is inductive, with one TTL.
LEMMA TermStep ==
  ASSUME OneTTL
  PROVE  BaseInv /\ TimesOK /\ TermInv /\ [ClientNext]_vars => TermInv'
<1>. SUFFICES ASSUME BaseInv, TimesOK, TermInv, [ClientNext]_vars PROVE TermInv'
  OBVIOUS
<1>t. clock \in Nat /\ clock <= clock
  BY TimeTypes
<1>1. CASE AppAcquire \/ AppRelease \/ AppWatch
  <2>1. PICK m \in Message :
           /\ call["app"] = NoCall /\ call' = [call EXCEPT !["app"] = Sending(m)]
           /\ UNCHANGED <<clock, item, drawn, lease, stray, renewer, failed, end>>
           /\ m.op \in {"acquire", "release", "watch"}
           /\ m.op = "acquire" => m.ttl \in TTLRequest
           /\ m.op # "acquire" => m.ttl = 0
    BY <1>1, AppSends
  <2>2. Sending(m).msg = m /\ Sending(m).answer = Error
    BY <1>t, CallTypes
  <2>3. App' = Sending(m) /\ \A g \in Goroutine : call'[g] = call[g] \/ call'[g] = Sending(m)
    BY <2>1, Goroutines DEF BaseInv, ClientTypeOK, App
  <2>4. m.ttl \in {0, DefaultTTL}
    BY <2>1 DEF OneTTL
  <2>5. \A x \in stray' \cup {App'.msg} : x.ttl \in {0, DefaultTTL}
    BY <2>1, <2>2, <2>3, <2>4 DEF TermInv
  <2>6. \A g \in Goroutine : call'[g] = call[g] \/ ~call'[g].answer.ok
    BY <2>2, <2>3, AnswerTypes
  <2>. QED
    BY <2>1, <2>5, <2>6, TermKept
<1>2. CASE AppReturns
  BY <1>2, AppReturnsTerm
<1>3. CASE StartRenewer
  <2>1. /\ renewer.pc = "off" /\ lease.token # NoToken
        /\ renewer'.pc = "sleep" /\ renewer'.token = lease.token /\ renewer'.ttl = lease.ttl
        /\ UNCHANGED <<clock, item, drawn, lease, call, stray, calls, failed>>
    BY <1>3, StartRenewerLemma
  <2>2. \A g \in Goroutine : AnswerTerm(call[g])'
    <3>1. clock' \in Nat /\ clock <= clock' /\ item' = item
      BY <1>t, <2>1
    <3>. QED
      BY <2>1, <3>1, AnswersStay
  <2>3. \A m \in stray' \cup {App'.msg} : m.ttl \in {0, DefaultTTL}
    BY <2>1 DEF TermInv, App
  <2>. QED
    BY <2>1, <2>2, <2>3, TermBuild DEF TermInv
<1>4. CASE RenewerWakes
  <2>1. /\ renewer.pc = "sleep" /\ renewer'.token = renewer.token /\ renewer'.ttl = renewer.ttl
        /\ renewer'.own = renewer.own /\ App' = App /\ Ren'.answer = Error
        /\ UNCHANGED <<clock, item, drawn, lease, stray, calls, failed, end>>
    BY <1>4, RenewerWakesLemma
  <2>2. \A g \in Goroutine : call'[g] = call[g] \/ ~call'[g].answer.ok
    BY <2>1, AnswerTypes, Goroutines DEF App, Ren
  <2>3. \A m \in stray' \cup {App'.msg} : m.ttl \in {0, DefaultTTL}
    BY <2>1 DEF TermInv
  <2>. QED
    BY <2>1, <2>2, <2>3, TermKept
<1>5. CASE RenewReturns
  BY <1>5, RenewReturnsTerm
<1>6. CASE CancelRenewer \/ RenewerStops
  <2>1. /\ renewer'.token = renewer.token /\ renewer'.ttl = renewer.ttl
        /\ renewer'.own = renewer.own
        /\ renewer'.pc = renewer.pc \/ renewer.pc = "sleep"
        /\ UNCHANGED <<clock, item, drawn, lease, call, stray, calls, failed, end>>
    BY <1>6, RenewerEnds
  <2>2. \A m \in stray' \cup {App'.msg} : m.ttl \in {0, DefaultTTL}
    BY <2>1 DEF TermInv, App
  <2>. QED
    BY <2>1, <2>2, TermKept
<1>7. CASE \E g \in Goroutine : Serve(g)
  BY <1>7, ServeTerm
<1>8. CASE \E g \in Goroutine : Fail(g) \/ Refused(g)
  <2>1. PICK g \in Goroutine : Fail(g) \/ Refused(g)
    BY <1>8
  <2>2. CASE /\ ReportsError(g) /\ call[g].at # "none" /\ UNCHANGED <<clock, item, lease>>
             /\ stray' \subseteq stray \cup {App.msg}
    BY <2>2, ErrorTerm
  <2>3. ASSUME NEW c \in Call, call' = [call EXCEPT !["app"] = c], c.msg = App.msg,
               c.answer = Error, UNCHANGED <<clock, item, lease, stray, renewer>>
        PROVE  TermInv'
    <3>1. App' = c /\ \A x \in Goroutine : call'[x] = call[x] \/ call'[x] = c
      BY <2>3, Goroutines DEF BaseInv, ClientTypeOK, App
    <3>2. \A m \in stray' \cup {App'.msg} : m.ttl \in {0, DefaultTTL}
      BY <2>3, <3>1 DEF TermInv
    <3>3. \A x \in Goroutine : call'[x] = call[x] \/ ~call'[x].answer.ok
      BY <2>3, <3>1, AnswerTypes
    <3>. QED
      BY <2>3, <3>2, <3>3, TermKept
  <2>4. CASE Fail(g)
    <3>1. /\ call[g].at # "none" /\ UNCHANGED <<clock, item, lease>>
          /\ stray' \subseteq stray \cup {App.msg}
          /\ \/ /\ stray' = stray /\ renewer' = renewer
                /\ \E c \in Call : /\ call' = [call EXCEPT !["app"] = c]
                                   /\ c.msg = App.msg /\ c.answer = Error
             \/ ReportsError(g)
      BY <2>4, FailCases
    <3>. QED
      BY <2>2, <2>3, <3>1
  <2>5. CASE Refused(g)
    BY <2>2, <2>5 DEF Refused
  <2>. QED
    BY <2>1, <2>4, <2>5
<1>9. CASE ServeStray \/ Others
  <2>1. /\ ServerStep /\ UNCHANGED <<clock, lease, call, renewer>> /\ stray' \subseteq stray
        /\ LeaseStays \/ Blank(item') \/ LeaseBegins(DefaultTTL)
           \/ \E levels : LeaseGoesOn(levels, DefaultTTL)
    <3>1. CASE ServeStray
      <4>1. /\ ServerStep /\ UNCHANGED <<clock, lease, call, renewer, calls, failed>>
            /\ \E m \in stray :
                 /\ stray' = stray \ {m} /\ m.op \in {"acquire", "release"} /\ m \in Message
                 /\ \/ LeaseStays
                    \/ m.op = "acquire"
                       /\ (LeaseBegins(NormalTTL(m.ttl)) \/ LeaseGoesOn(1, NormalTTL(m.ttl)))
                    \/ m.op = "release" /\ (LeaseGoesOn(-1, DefaultTTL) \/ Blank(item'))
        BY <3>1, StrayServed
      <4>2. \A m \in stray : NormalTTL(m.ttl) = DefaultTTL
        BY OneTTLs DEF TermInv
      <4>. QED
        BY <4>1, <4>2
    <3>2. CASE Others
      BY <3>2, OthersStep
    <3>. QED
      BY <1>9, <3>1, <3>2
  <2>2. /\ item'.expiresAt \in Nat /\ item'.expiresAt <= clock + DefaultTTL
        /\ \A t \in drawn : item'.token = t => item.token = t /\ item.expiresAt <= item'.expiresAt
    BY <2>1, ServerTerm
  <2>3. clock' \in Nat /\ clock <= clock'
    BY <1>t, <2>1
  <2>4. \A g \in Goroutine : AnswerTerm(call[g])'
    BY <2>1, <2>2, <2>3, AnswersKept
  <2>5. \A m \in stray' \cup {App'.msg} : m.ttl \in {0, DefaultTTL}
    BY <2>1 DEF TermInv, App
  <2>6. lease.token # NoToken /\ item'.token = lease.token => lease.expiresAt <= item'.expiresAt
    <3>1. lease.token \in drawn \cup {NoToken} /\ lease.expiresAt \in Nat /\ item.expiresAt \in Nat
      BY TimeTypes DEF BaseInv, TokensKnown, ClientTypeOK, Lease
    <3>. QED
      BY <2>2, <3>1 DEF TermInv
  <2>. QED
    BY <2>1, <2>2, <2>4, <2>5, <2>6, TermBuild DEF TermInv
<1>10. CASE Tick
  <2>1. /\ clock' \in Nat /\ clock' > clock
        /\ lease'.token = lease.token /\ lease'.ttl = lease.ttl /\ lease'.expiresAt = lease.expiresAt
        /\ UNCHANGED <<item, drawn, call, stray, renewer, calls, failed, end>>
    BY <1>10, TickLemma
  <2>2. \A g \in Goroutine : AnswerTerm(call[g])'
    <3>1. clock <= clock' /\ item' = item
      BY <1>t, <2>1
    <3>. QED
      BY <2>1, <3>1, AnswersStay
  <2>3. \A m \in stray' \cup {App'.msg} : m.ttl \in {0, DefaultTTL}
    BY <2>1 DEF TermInv, App
  <2>4. item'.expiresAt <= clock' + DefaultTTL
    <3>1. item.expiresAt <= clock + DefaultTTL /\ item.expiresAt \in Nat /\ DefaultTTL \in Nat
      BY TimeTypes, ValidTTLs DEF TermInv
    <3>. QED
      BY <1>t, <2>1, <3>1
  <2>. QED
    BY <2>1, <2>2, <2>3, <2>4, TermBuild DEF TermInv
<1>11. CASE UNCHANGED vars
  BY <1>11, <1>t DEF vars, TermInv, App
<1>. QED
  BY <1>1, <1>2, <1>3, <1>4, <1>5, <1>6, <1>7, <1>8, <1>9, <1>10, <1>11 DEF ClientNext

LEMMA TermInit == ClientInit => TermInv
<1>. SUFFICES ASSUME ClientInit PROVE TermInv
  OBVIOUS
<1>1. /\ clock = 1 /\ item.expiresAt = 0 /\ lease.token = NoToken /\ stray = {}
      /\ renewer.pc = "off" /\ ~renewer.own /\ \A g \in Goroutine : call[g] = NoCall
  BY DEF ClientInit, NewRecord, NoLease, NoRenewer, ZeroTime
<1>2. App = NoCall /\ NoCall.msg.ttl = 0
  BY <1>1, CallTypes, Goroutines DEF App, NoMessage
<1>3. DefaultTTL \in Nat
  BY ValidTTLs
<1>. QED
  BY <1>1, <1>2, <1>3, CallTypes, AnswerTypes DEF TermInv

LEMMA TermImplies == BaseInv /\ TermInv => TermIsKnown
<1>. SUFFICES ASSUME BaseInv, TermInv PROVE TermIsKnown
  OBVIOUS
<1>1. lease.depth > 0 => lease.token # NoToken
  BY DepthTokens, RecordAssumption DEF BaseInv, ClientTypeOK
<1>. QED
  BY <1>1 DEF TermInv, TermIsKnown

\* With one TTL, the client never thinks that a lease it has lasts longer than it does,
\* whatever the order in which its goroutines' answers come (client.go:124).
THEOREM TermIsNeverOverrated ==
  ASSUME OneTTL
  PROVE  ClientSpec => []TermIsKnown
<1>1. ClientInit => BaseInv /\ TimesOK /\ TermInv
  BY BaseInit, EndInit, TermInit
<1>2. BaseInv /\ TimesOK /\ TermInv /\ [ClientNext]_vars => (BaseInv /\ TimesOK /\ TermInv)'
  BY BaseStep, TimesStep, TermStep
<1>3. BaseInv /\ TimesOK /\ TermInv => TermIsKnown
  BY TermImplies
<1>. QED
  BY <1>1, <1>2, <1>3, PTL DEF ClientSpec

-----------------------------------------------------------------------------
(* The renewer in time: KeepInv.                                           *)

LEMMA LeftLemma ==
  ASSUME NEW f \in {0, 1}, NEW p \in Nat, NEW d \in Nat
  PROVE  (1 - f) * (p + d) + d = (IF f = 0 THEN p + d + d ELSE d)
<1>1. CASE f = 0
  BY <1>1
<1>2. CASE f = 1
  BY <1>2
<1>. QED
  BY <1>1, <1>2

\* What is left of the pauses and calls, and the longest pause when there is one TTL.
LEMMA KeepNumbers ==
  ASSUME OneTTL, ShortDelay, BaseInv, TermInv, renewer.pc # "off"
  PROVE  /\ LongestPause \in Nat /\ Delay \in Nat /\ DefaultTTL \in Nat
         /\ 3 * Delay + 2 * LongestPause < DefaultTTL
         /\ renewer.failures \in {0, 1} =>
              Left = (IF renewer.failures = 0 THEN LongestPause + Delay + Delay ELSE Delay)
<1>1. LongestPause \in Nat /\ Delay \in Nat /\ DefaultTTL \in Nat
  BY TimeTypes, ValidTTLs
<1>2. LongestPause = (12 * Base(DefaultTTL)) \div 10
  BY DEF TermInv, LongestPause
<1>3. 3 * Delay + 2 * LongestPause < DefaultTTL
  BY <1>2 DEF ShortDelay
<1>4. renewer.failures \in {0, 1} =>
        Left = (IF renewer.failures = 0 THEN LongestPause + Delay + Delay ELSE Delay)
  BY <1>1, LeftLemma DEF Left
<1>. QED
  BY <1>1, <1>3, <1>4

\* The renewer is left alone, and the lease it renews lasts as long as before or longer.
LEMMA KeepKept ==
  ASSUME BaseInv, KeepInv, item'.expiresAt \in Nat,
         \A t \in drawn : item'.token = t => item.token = t /\ item.expiresAt <= item'.expiresAt,
         lease'.new => lease.new /\ clock' = clock /\ lease'.token = lease.token,
         renewer'.pc = renewer.pc \/ (renewer.pc = "sleep" /\ renewer'.pc = "ended"),
         renewer'.ttl = renewer.ttl, renewer'.failures = renewer.failures,
         renewer'.worst = renewer.worst, renewer'.pc = "sleep" => renewer'.due = renewer.due,
         Ren'.since = Ren.since,
         Ren'.answer.ok => Ren.answer.ok \/ item'.expiresAt >= Ren.since + DefaultTTL,
         end'.how = "none" => end.how = "none",
         renewer.pc # "off" /\ end'.how = "none" => item'.token = renewer.token
  PROVE  KeepInv'
<1>1. /\ clock \in Nat /\ DefaultTTL \in Nat /\ Delay \in Nat /\ item.expiresAt \in Nat
      /\ Ren.since \in Nat /\ renewer.due \in Nat /\ renewer.failures \in Nat
      /\ LongestPause \in Nat
  BY TimeTypes, ValidTTLs, Goroutines DEF Ren
<1>2. LongestPause' = LongestPause /\ Left' = Left
  BY DEF LongestPause, Left
<1>3. Left \in Int
  BY <1>1 DEF Left
<1>4. lease'.new /\ item'.token = lease'.token => item'.expiresAt + Delay >= clock' + DefaultTTL
  <2>1. lease.new => lease.token \in drawn
    BY DEF BaseInv, TokensKnown, HoldersOK
  <2>. QED
    BY <1>1, <2>1 DEF KeepInv
<1>5. renewer.pc # "off" /\ end'.how = "none" => item.expiresAt <= item'.expiresAt
  BY TimeTypes, BaseFacts
<1>6. renewer'.failures <= renewer'.worst
  BY DEF KeepInv
<1>7. Alive' => Alive /\ (renewer'.pc = renewer.pc)
  BY DEF Alive
<1>8. ASSUME Alive', end'.how = "none", renewer'.worst <= 1
      PROVE  /\ renewer'.pc = "sleep" => renewer'.due + Left' < item'.expiresAt
             /\ renewer'.pc = "call" => Ren'.since + Left' < item'.expiresAt
             /\ Ren'.answer.ok => item'.expiresAt >= Ren'.since + DefaultTTL
  <2>1. Alive /\ end.how = "none" /\ renewer.worst <= 1 /\ renewer'.pc = renewer.pc
        /\ item.expiresAt <= item'.expiresAt
    BY <1>5, <1>7, <1>8 DEF Alive
  <2>2. /\ renewer.pc = "sleep" => renewer.due + Left < item.expiresAt
        /\ renewer.pc = "call" => Ren.since + Left < item.expiresAt
        /\ Ren.answer.ok => item.expiresAt >= Ren.since + DefaultTTL
    BY <2>1 DEF KeepInv
  <2>. DEFINE l == Left
  <2>3. l \in Int /\ Left' = l
    BY <1>2, <1>3
  <2>. HIDE DEF l
  <2>4. /\ renewer.pc = "sleep" => renewer.due + l < item.expiresAt
        /\ renewer.pc = "call" => Ren.since + l < item.expiresAt
    BY <2>2 DEF l
  <2>. QED
    BY <1>1, <2>1, <2>2, <2>3, <2>4
<1>. QED
  BY <1>4, <1>6, <1>8 DEF KeepInv

\* The server's steps put the expiry off, never forward.
LEMMA KeepServed ==
  ASSUME BaseInv, TimesOK, EndInv, TermInv, KeepInv, ServerStep, EndInv',
         \/ LeaseStays
         \/ Blank(item')
         \/ LeaseBegins(DefaultTTL)
         \/ \E levels : LeaseGoesOn(levels, DefaultTTL),
         UNCHANGED <<clock, lease, renewer>>, Ren'.since = Ren.since,
         Ren'.answer.ok => Ren.answer.ok \/ item'.expiresAt >= Ren.since + DefaultTTL
  PROVE  KeepInv'
<1>1. /\ item'.expiresAt \in Nat
      /\ \A t \in drawn : item'.token = t => item.token = t /\ item.expiresAt <= item'.expiresAt
  BY ServerTerm
<1>2. renewer.pc # "off" /\ end'.how = "none" => item'.token = renewer.token
  BY DEF EndInv
<1>3. end'.how = "none" => end.how = "none"
  BY DEF ServerStep, Noted
<1>. QED
  BY <1>1, <1>2, <1>3, KeepKept

LEMMA AppReturnsKeep ==
  ASSUME BaseInv, TimesOK, TermInv, KeepInv, AppReturns
  PROVE  KeepInv'
<1>. DEFINE m == App.msg
            a == App.answer
<1>1. /\ App.at = "answer" /\ a.ok
      /\ \/ /\ m.op = "acquire" /\ Pending("acquire")
            /\ lease' = [token |-> a.token, depth |-> a.depth, expiresAt |-> a.expiresAt,
                         ttl |-> EffectiveTTL(m.ttl, a.expiresAt), new |-> TRUE]
            /\ renewer' = [renewer EXCEPT !.own = FALSE]
         \/ /\ m.op = "release" /\ Pending("release")
            /\ lease'.token = lease.token /\ lease'.new = lease.new
            /\ renewer' = renewer
         \/ m.op = "watch" /\ UNCHANGED <<lease, renewer>>
      /\ call' = [call EXCEPT !["app"] = NoCall]
      /\ UNCHANGED <<clock, item, drawn, stray, calls, failed, end>>
  BY AppReturnsLease
<1>2. Ren' = Ren
  BY <1>1, CallEnds, Goroutines
<1>3. /\ clock \in Nat /\ Delay \in Nat /\ item.expiresAt \in Nat /\ DefaultTTL \in Nat
      /\ App.since \in Nat
  BY TimeTypes, ValidTTLs, Goroutines DEF App
<1>4. /\ renewer'.pc = renewer.pc /\ renewer'.ttl = renewer.ttl /\ renewer'.due = renewer.due
      /\ renewer'.failures = renewer.failures /\ renewer'.worst = renewer.worst
  BY <1>1 DEF BaseInv, ClientTypeOK, Renewer
<1>5. lease'.new /\ item.token = lease'.token => item.expiresAt + Delay >= clock + DefaultTTL
  <2>1. CASE m.op = "acquire"
    <3>1. lease'.token = a.token
      BY <1>1, <2>1
    <3>2. a.token # NoToken /\ a.expiresAt \in Nat
      BY <1>1, <2>1, Goroutines DEF BaseInv, CallsOK, ClientTypeOK, Call, Answer, App
    <3>3. AnswerTerm(App)
      BY AnswerTerms, Goroutines DEF App
    <3>4. /\ item.token = a.token => a.expiresAt <= item.expiresAt
          /\ App.since + DefaultTTL <= a.expiresAt
      BY <1>1, <1>3, <2>1, <3>2, <3>3 DEF AnswerTerm
    <3>5. clock <= App.since + Delay
      BY <1>1, Goroutines DEF TimesOK, App
    <3>. QED
      BY <1>3, <3>1, <3>2, <3>4, <3>5
  <2>2. CASE m.op # "acquire"
    BY <1>1, <2>2 DEF KeepInv
  <2>. QED
    BY <2>1, <2>2
<1>6. LongestPause' = LongestPause /\ Left' = Left
  BY <1>4 DEF LongestPause, Left
<1>. QED
  BY <1>1, <1>2, <1>4, <1>5, <1>6 DEF KeepInv, Alive

\* A lease that was just given lasts for two pauses.
LEMMA StartRenewerKeep ==
  ASSUME OneTTL, ShortDelay, BaseInv, EndInv, TermInv, KeepInv, StartRenewer
  PROVE  KeepInv'
<1>1. /\ renewer.pc = "off" /\ lease.new /\ lease.token # NoToken
      /\ renewer'.pc = "sleep" /\ renewer'.token = lease.token
      /\ renewer'.ttl = lease.ttl /\ renewer'.failures = 0 /\ renewer'.worst = 0
      /\ end' = (IF item.token = lease.token THEN end ELSE [how |-> "early", at |-> clock])
      /\ UNCHANGED <<clock, item, drawn, lease, call, stray, calls, failed>>
  BY StartRenewerLemma
<1>2. PICK n \in Pause(lease.ttl) : n \in Nat /\ renewer'.due = clock + n
  BY StartRenewerLemma
<1>3. /\ clock \in Nat /\ Delay \in Nat /\ item.expiresAt \in Nat /\ DefaultTTL \in Nat
      /\ lease.ttl = DefaultTTL
  BY <1>1, TimeTypes, ValidTTLs DEF TermInv
<1>4. /\ LongestPause' \in Nat /\ n <= LongestPause'
      /\ LongestPause' = (12 * Base(DefaultTTL)) \div 10
  BY <1>1, <1>2, <1>3, PauseLemma DEF LongestPause
<1>. DEFINE p == LongestPause'
            l == Left'
<1>5. 3 * Delay + 2 * p < DefaultTTL /\ p \in Nat
  BY <1>4 DEF ShortDelay
<1>6. l = p + Delay + Delay
  <2>1. l = (1 - 0) * (p + Delay) + Delay
    BY <1>1 DEF Left
  <2>. HIDE DEF l, p
  <2>. QED
    BY <1>3, <1>5, <2>1
<1>7. end'.how = "none" => item.token = lease.token
  BY <1>1
<1>8. item.token = lease.token => item.expiresAt + Delay >= clock + DefaultTTL
  BY <1>1 DEF KeepInv
<1>. HIDE DEF l, p
<1>9. end'.how = "none" => renewer'.due + l < item'.expiresAt
  <2>1. n <= p
    BY <1>4 DEF p
  <2>. QED
    BY <1>1, <1>2, <1>3, <1>5, <1>6, <1>7, <1>8, <2>1
<1>10. ~Ren'.answer.ok
  <2>1. Ren.at = "none"
    BY <1>1, Goroutines DEF BaseInv, CallsOK, ClientTypeOK, Call, Ren
  <2>2. Ren = NoCall
    BY <2>1, Goroutines DEF BaseInv, CallsOK, Ren
  <2>. QED
    BY <1>1, <2>2, CallTypes, AnswerTypes DEF Ren
<1>. QED
  BY <1>1, <1>8, <1>9, <1>10 DEF KeepInv, l

LEMMA RenewerWakesKeep ==
  ASSUME BaseInv, KeepInv, RenewerWakes
  PROVE  KeepInv'
<1>1. /\ renewer.pc = "sleep" /\ clock = renewer.due
      /\ renewer'.pc = "call"
      /\ renewer'.ttl = renewer.ttl /\ renewer'.failures = renewer.failures
      /\ renewer'.worst = renewer.worst
      /\ Ren'.since = clock /\ Ren'.answer = Error
      /\ UNCHANGED <<clock, item, drawn, lease, stray, calls, failed, end>>
  BY RenewerWakesLemma
<1>2. LongestPause' = LongestPause /\ Left' = Left
  BY <1>1 DEF LongestPause, Left
<1>3. ~Ren'.answer.ok
  BY <1>1, AnswerTypes
<1>. QED
  BY <1>1, <1>2, <1>3 DEF KeepInv, Alive

\* So does one that was just renewed.
LEMMA RenewReturnsKeep ==
  ASSUME OneTTL, ShortDelay, BaseInv, TimesOK, TermInv, KeepInv, RenewReturns
  PROVE  KeepInv'
<1>1. /\ Ren.at = "answer" /\ Ren.answer.ok /\ renewer.pc = "call"
      /\ lease'.token = lease.token /\ lease'.new = lease.new
      /\ renewer'.pc = "sleep" /\ renewer'.ttl = renewer.ttl /\ renewer'.failures = 0
      /\ renewer'.worst = renewer.worst
      /\ call' = [call EXCEPT !["renewer"] = NoCall]
      /\ UNCHANGED <<clock, item, drawn, stray, calls, failed, end>>
  BY RenewReturnsLemma
<1>2. PICK n \in Pause(renewer.ttl) : n \in Nat /\ renewer'.due = clock + n
  BY RenewReturnsLemma
<1>3. /\ clock \in Nat /\ item.expiresAt \in Nat /\ Ren.since \in Nat /\ renewer.ttl \in Nat
      /\ renewer.failures \in Nat /\ renewer.worst \in Nat
  BY TimeTypes, Goroutines DEF Ren, BaseInv, ClientTypeOK, Renewer
<1>4. /\ LongestPause \in Nat /\ Delay \in Nat /\ DefaultTTL \in Nat
      /\ 3 * Delay + 2 * LongestPause < DefaultTTL
  BY <1>1, KeepNumbers
<1>5. n <= LongestPause
  BY <1>3, PauseLemma DEF LongestPause
<1>6. clock <= Ren.since + Delay
  BY <1>1, Goroutines DEF TimesOK, Ren
<1>. DEFINE p == LongestPause
            l == Left'
<1>7. l = p + Delay + Delay
  <2>1. l = (1 - 0) * (p + Delay) + Delay
    BY <1>1 DEF Left, LongestPause
  <2>. HIDE DEF l, p
  <2>2. p \in Nat
    BY <1>4 DEF p
  <2>. QED
    BY <1>4, <2>1, <2>2
<1>8. end.how = "none" /\ renewer.worst <= 1 => item.expiresAt >= Ren.since + DefaultTTL
  BY <1>1 DEF KeepInv, Alive
<1>9. Ren' = NoCall
  BY <1>1, CallEnds, Goroutines
<1>. HIDE DEF l
<1>10. end.how = "none" /\ renewer.worst <= 1 => renewer'.due + l < item.expiresAt
  BY <1>2, <1>3, <1>4, <1>5, <1>6, <1>7, <1>8
<1>11. /\ renewer'.failures <= renewer'.worst
       /\ lease'.new /\ item'.token = lease'.token => item'.expiresAt + Delay >= clock' + DefaultTTL
  BY <1>1, <1>3 DEF KeepInv
<1>. QED
  BY <1>1, <1>9, <1>10, <1>11, CallTypes, AnswerTypes DEF KeepInv, l

\* After the first failure there is time for another pause.
LEMMA RenewFailsKeep ==
  ASSUME OneTTL, ShortDelay, BaseInv, TimesOK, TermInv, KeepInv,
         call["renewer"].at # "none", ReportsError("renewer"), UNCHANGED <<clock, item, lease, end>>
  PROVE  KeepInv'
<1>1. PICK n \in Pause(renewer.ttl) : n \in Nat /\ renewer' = AfterFailure(renewer, n)
  BY ReportsErrorLemma, Goroutines
<1>2. /\ clock \in Nat /\ item.expiresAt \in Nat /\ Ren.since \in Nat /\ renewer.ttl \in Nat
      /\ renewer.failures \in Nat /\ renewer.worst \in Nat /\ renewer \in Renewer
  BY TimeTypes, Goroutines DEF Ren, BaseInv, ClientTypeOK, Renewer
<1>3. /\ renewer'.ttl = renewer.ttl /\ renewer'.failures = renewer.failures + 1
      /\ renewer'.worst = (IF renewer.failures + 1 > renewer.worst THEN renewer.failures + 1
                           ELSE renewer.worst)
      /\ renewer'.pc = (IF renewer.failures + 1 >= 3 THEN "lost" ELSE "sleep")
      /\ renewer'.due = (IF renewer.failures + 1 >= 3 THEN 0 ELSE clock + n)
  BY <1>1, <1>2, AfterFailureLemma
<1>4. renewer.pc = "call" /\ Alive
  BY DEF BaseInv, CallsOK, Ren, Alive
<1>5. /\ LongestPause \in Nat /\ Delay \in Nat /\ DefaultTTL \in Nat
      /\ renewer.failures \in {0, 1} =>
           Left = (IF renewer.failures = 0 THEN LongestPause + Delay + Delay ELSE Delay)
  BY <1>4, KeepNumbers
<1>6. n <= LongestPause
  BY <1>1, <1>2, PauseLemma DEF LongestPause
<1>7. clock <= Ren.since + Delay
  BY Goroutines DEF TimesOK, Ren
<1>8. Ren' = NoCall
  BY ReportsErrorLemma, CallEnds, Goroutines
<1>9. /\ renewer'.failures <= renewer'.worst
      /\ lease'.new /\ item'.token = lease'.token => item'.expiresAt + Delay >= clock' + DefaultTTL
  BY <1>2, <1>3 DEF KeepInv
<1>10. ASSUME renewer'.worst <= 1, end.how = "none"
       PROVE  renewer'.pc = "sleep" /\ renewer'.due + Left' < item.expiresAt
  <2>1. renewer.failures = 0 /\ renewer.worst <= 1
    BY <1>2, <1>3, <1>10
  <2>2. renewer'.failures = 1 /\ renewer'.pc = "sleep" /\ renewer'.due = clock + n
    BY <1>3, <2>1
  <2>. DEFINE l == Left'
              k == Left
  <2>3. l = (1 - 1) * (LongestPause + Delay) + Delay
    BY <1>3, <2>2 DEF Left, LongestPause
  <2>4. k = LongestPause + Delay + Delay
    BY <1>5, <2>1
  <2>5. Ren.since + k < item.expiresAt
    BY <1>4, <1>10, <2>1 DEF KeepInv
  <2>. HIDE DEF l, k
  <2>6. l = Delay
    BY <1>5, <2>3
  <2>7. renewer'.due + l < item.expiresAt
    BY <1>1, <1>2, <1>5, <1>6, <1>7, <2>2, <2>4, <2>5, <2>6
  <2>. QED
    BY <2>2, <2>7 DEF l
<1>. QED
  BY <1>8, <1>9, <1>10, CallTypes, AnswerTypes DEF KeepInv

\* KeepInv is inductive, with one TTL and short calls.
LEMMA KeepStep ==
  ASSUME OneTTL, ShortDelay
  PROVE  BaseInv /\ TimesOK /\ EndInv /\ TermInv /\ KeepInv /\ [ClientNext]_vars => KeepInv'
<1>. SUFFICES ASSUME BaseInv, TimesOK, EndInv, TermInv, KeepInv, [ClientNext]_vars PROVE KeepInv'
  OBVIOUS
<1>e. EndInv'
  BY EndStep
<1>t. /\ clock \in Nat /\ item.expiresAt \in Nat /\ DefaultTTL \in Nat
      /\ \A g \in Goroutine : call[g].since \in Nat
  BY TimeTypes, ValidTTLs
<1>i. item' = item => /\ item'.expiresAt \in Nat
                      /\ \A t \in drawn : item'.token = t =>
                           item.token = t /\ item.expiresAt <= item'.expiresAt
  BY <1>t
<1>n. renewer'.pc # "off" /\ end'.how = "none" => item'.token = renewer'.token
  BY <1>e DEF EndInv
<1>1. CASE AppAcquire \/ AppRelease \/ AppWatch
  <2>1. PICK m \in Message :
           /\ call' = [call EXCEPT !["app"] = Sending(m)]
           /\ UNCHANGED <<clock, item, drawn, lease, stray, renewer, failed, end>>
    BY <1>1, AppSends
  <2>2. Ren' = Ren
    BY <2>1, Goroutines DEF BaseInv, ClientTypeOK, Ren
  <2>. QED
    BY <1>i, <1>n, <2>1, <2>2, KeepKept
<1>2. CASE AppReturns
  BY <1>2, AppReturnsKeep
<1>3. CASE StartRenewer
  BY <1>3, StartRenewerKeep
<1>4. CASE RenewerWakes
  BY <1>4, RenewerWakesKeep
<1>5. CASE RenewReturns
  BY <1>5, RenewReturnsKeep
<1>6. CASE CancelRenewer \/ RenewerStops
  <2>1. /\ renewer'.token = renewer.token /\ renewer'.ttl = renewer.ttl
        /\ renewer'.failures = renewer.failures /\ renewer'.worst = renewer.worst
        /\ \/ renewer'.pc = renewer.pc /\ renewer'.due = renewer.due
           \/ renewer'.pc = "ended" /\ renewer.pc = "sleep"
        /\ UNCHANGED <<clock, item, drawn, lease, call, stray, calls, failed, end>>
    BY <1>6, RenewerEnds
  <2>2. Ren' = Ren
    BY <2>1 DEF Ren
  <2>3. renewer.pc # "off" /\ end'.how = "none" => item'.token = renewer.token
    BY <2>1 DEF EndInv
  <2>. QED
    BY <1>i, <2>1, <2>2, <2>3, KeepKept
<1>7. CASE \E g \in Goroutine : Serve(g)
  <2>1. PICK g \in Goroutine : Serve(g)
    BY <1>7
  <2>2. PICK a : Serving(call[g].msg, a) /\ call' = [call EXCEPT ![g].at = "answer", ![g].answer = a]
    BY <2>1 DEF Serve
  <2>. DEFINE m == call[g].msg
  <2>3. /\ UNCHANGED <<clock, lease, stray, renewer, calls, failed>> /\ call[g].at = "request"
        /\ (m.op = "acquire" => TokensLeft)
    BY <2>1 DEF Serve
  <2>4. NormalTTL(m.ttl) = DefaultTTL /\ (g = "renewer" => m.op = "renew")
    <3>1. CASE g = "app"
      BY <3>1, OneTTLs, Goroutines DEF TermInv, App
    <3>2. CASE g = "renewer"
      <4>1. m.ttl = renewer.ttl /\ renewer.pc # "off" /\ m.op = "renew"
        BY <2>3, <3>2 DEF BaseInv, CallsOK, Ren, NoMessage
      <4>. QED
        BY <4>1, OneTTLs DEF TermInv
    <3>. QED
      BY <3>1, <3>2, Goroutines
  <2>5. /\ ServerStep
        /\ LeaseStays \/ Blank(item') \/ LeaseBegins(DefaultTTL)
           \/ \E levels : LeaseGoesOn(levels, DefaultTTL)
        /\ m.op = "renew" => a = Error \/ item'.expiresAt = clock + DefaultTTL
    <3>1. Sent(m) /\ Serving(m, a)
      BY <2>2, <2>3, BaseFacts
    <3>. HIDE DEF m
    <3>2. /\ GoodRecord(item) /\ clock \in Nat /\ drawn \subseteq Request
          /\ item.token \in drawn \cup {NoToken}
          /\ renewer.pc # "off" => renewer.token # NoToken
      BY BaseFacts
    <3>3. /\ ServerStep
          /\ \/ a = Error /\ LeaseStays
             \/ a = Done /\ item' = item /\ m.op \in {"watch", "release"}
             \/ a = Told(item') /\ LeaseStays /\ m.op = "watch"
             \/ /\ a = Told(item') /\ m.op = "acquire"
                /\ LeaseBegins(DefaultTTL) \/ LeaseGoesOn(1, DefaultTTL)
             \/ /\ a = Told(item') /\ m.op = "renew" /\ m.token = item.token
                /\ LeaseGoesOn(0, DefaultTTL)
             \/ /\ a = Told(item') /\ m.op = "release" /\ m.token = item.token
                /\ LeaseGoesOn(-1, DefaultTTL) \/ Blank(item')
      BY <2>3, <2>4, <3>1, <3>2, ServingLemma
    <3>4. LeaseStays \/ Blank(item') \/ LeaseBegins(DefaultTTL)
          \/ \E levels : LeaseGoesOn(levels, DefaultTTL)
      BY <3>3 DEF LeaseStays
    <3>5. m.op = "renew" => a = Error \/ item'.expiresAt = clock + DefaultTTL
      BY <3>3 DEF LeaseGoesOn, GoesOn
    <3>. QED
      BY <3>3, <3>4, <3>5
  <2>6. /\ Ren'.since = Ren.since
        /\ g = "app" => Ren' = Ren
        /\ g = "renewer" => Ren'.answer = a
    BY <2>1, <2>2, Goroutines DEF BaseInv, ClientTypeOK, Call, Ren
  <2>7. Ren'.answer.ok => Ren.answer.ok \/ item'.expiresAt >= Ren.since + DefaultTTL
    <3>1. CASE g = "app"
      BY <2>6, <3>1
    <3>2. CASE g = "renewer"
      <4>1. Ren.since \in Nat /\ Ren.since <= clock
        BY <1>t, <2>3, <3>2, Goroutines DEF TimesOK, Ren
      <4>. HIDE DEF m
      <4>2. Ren'.answer.ok => item'.expiresAt = clock + DefaultTTL
        BY <2>4, <2>5, <2>6, <3>2, AnswerTypes
      <4>. QED
        BY <1>t, <4>1, <4>2
    <3>. QED
      BY <3>1, <3>2, Goroutines
  <2>. QED
    BY <1>e, <2>3, <2>5, <2>6, <2>7, KeepServed
<1>8. CASE \E g \in Goroutine : Fail(g) \/ Refused(g)
  <2>1. PICK g \in Goroutine : Fail(g) \/ Refused(g)
    BY <1>8
  <2>2. CASE ReportsError(g) /\ call[g].at # "none" /\ UNCHANGED <<clock, item, lease, end>>
    <3>1. CASE g = "app"
      <4>1. Ren' = Ren /\ renewer' = renewer
        BY <2>2, <3>1, ReportsErrorLemma, CallEnds
      <4>. QED
        BY <1>i, <1>n, <2>2, <4>1, KeepKept
    <3>2. CASE g = "renewer"
      BY <2>2, <3>2, RenewFailsKeep
    <3>. QED
      BY <3>1, <3>2, Goroutines
  <2>3. ASSUME NEW c \in Call, call' = [call EXCEPT !["app"] = c],
               UNCHANGED <<clock, item, lease, end, renewer>>
        PROVE  KeepInv'
    <3>1. Ren' = Ren
      BY <2>3, Goroutines DEF BaseInv, ClientTypeOK, Ren
    <3>. QED
      BY <1>i, <1>n, <2>3, <3>1, KeepKept
  <2>4. CASE Fail(g)
    BY <2>2, <2>3, <2>4, FailCases
  <2>5. CASE Refused(g)
    BY <2>2, <2>5 DEF Refused
  <2>. QED
    BY <2>1, <2>4, <2>5
<1>9. CASE ServeStray \/ Others
  <2>1. /\ ServerStep /\ UNCHANGED <<clock, lease, call, renewer>>
        /\ LeaseStays \/ Blank(item') \/ LeaseBegins(DefaultTTL)
           \/ \E levels : LeaseGoesOn(levels, DefaultTTL)
    <3>1. CASE ServeStray
      <4>1. /\ ServerStep /\ UNCHANGED <<clock, lease, call, renewer, calls, failed>>
            /\ \E m \in stray :
                 /\ stray' = stray \ {m} /\ m.op \in {"acquire", "release"} /\ m \in Message
                 /\ \/ LeaseStays
                    \/ m.op = "acquire"
                       /\ (LeaseBegins(NormalTTL(m.ttl)) \/ LeaseGoesOn(1, NormalTTL(m.ttl)))
                    \/ m.op = "release" /\ (LeaseGoesOn(-1, DefaultTTL) \/ Blank(item'))
        BY <3>1, StrayServed
      <4>2. \A m \in stray : NormalTTL(m.ttl) = DefaultTTL
        BY OneTTLs DEF TermInv
      <4>. QED
        BY <4>1, <4>2
    <3>2. CASE Others
      BY <3>2, OthersStep
    <3>. QED
      BY <1>9, <3>1, <3>2
  <2>2. Ren' = Ren
    BY <2>1 DEF Ren
  <2>. QED
    BY <1>e, <2>1, <2>2, KeepServed
<1>10. CASE Tick
  <2>1. /\ clock' \in Nat /\ clock' > clock /\ ~lease'.new
        /\ UNCHANGED <<item, call, renewer, end>>
    BY <1>10, TickLemma
  <2>2. Ren' = Ren
    BY <2>1 DEF Ren
  <2>. QED
    BY <1>i, <1>n, <2>1, <2>2, KeepKept
<1>11. CASE UNCHANGED vars
  <2>1. UNCHANGED <<clock, item, lease, call, renewer, end>>
    BY <1>11 DEF vars
  <2>. QED
    BY <1>i, <1>n, <2>1, KeepKept DEF Ren
<1>. QED
  BY <1>1, <1>2, <1>3, <1>4, <1>5, <1>6, <1>7, <1>8, <1>9, <1>10, <1>11 DEF ClientNext

LEMMA KeepInit == ClientInit => KeepInv
BY DEF ClientInit, NoLease, NoRenewer, KeepInv, Alive

\* Two pauses and the calls between them fit into what is left of the lease.
LEMMA InTime ==
  ASSUME OneTTL, ShortDelay, BaseInv, TimesOK, EndInv, TermInv, KeepInv,
         Renewing, end.how = "none", ~(renewer.worst >= 2)
  PROVE  ~Expires(item, clock)
<1>1. /\ clock \in Nat /\ item.expiresAt \in Nat /\ Ren.since \in Nat /\ renewer.due \in Nat
      /\ renewer.failures \in Nat /\ renewer.worst \in Nat
  BY TimeTypes, Goroutines DEF Ren, BaseInv, ClientTypeOK, Renewer
<1>2. renewer.worst <= 1 /\ renewer.failures \in {0, 1} /\ Alive /\ renewer.pc # "off"
  BY <1>1 DEF KeepInv, Renewing, Alive
<1>3. /\ LongestPause \in Nat /\ Delay \in Nat
      /\ Left = (IF renewer.failures = 0 THEN LongestPause + Delay + Delay ELSE Delay)
  BY <1>2, KeepNumbers
<1>4. /\ renewer.pc = "sleep" => renewer.due + Left < item.expiresAt /\ clock <= renewer.due
      /\ renewer.pc = "call" => Ren.since + Left < item.expiresAt /\ clock <= Ren.since + Delay
  <2>1. renewer.pc = "call" => Ren.at # "none"
    BY DEF BaseInv, CallsOK
  <2>. QED
    BY <1>2, <2>1, Goroutines DEF KeepInv, TimesOK, Ren
<1>. DEFINE l == Left
<1>5. l \in Nat /\ Delay <= l
  BY <1>3
<1>. HIDE DEF l
<1>6. clock < item.expiresAt
  <2>1. /\ renewer.pc = "sleep" => renewer.due + l < item.expiresAt
        /\ renewer.pc = "call" => Ren.since + l < item.expiresAt
    BY <1>4 DEF l
  <2>. QED
    BY <1>1, <1>2, <1>3, <1>4, <1>5, <2>1 DEF Alive
<1>. QED
  BY <1>1, <1>6 DEF Expires, LeaseExpired

\* With one TTL that leaves room for two pauses and three calls, a lease with a renewer does
\* not expire unless two renewals in a row failed (renewer.go:13: the pause is a third of
\* the TTL).
THEOREM RenewedInTime ==
  ASSUME OneTTL, ShortDelay
  PROVE  ClientSpec => KeptAlive
<1>. DEFINE Inv == BaseInv /\ TimesOK /\ EndInv /\ TermInv /\ KeepInv
<1>1. ClientInit => Inv
  BY BaseInit, EndInit, TermInit, KeepInit
<1>2. Inv /\ [ClientNext]_vars => Inv'
  BY BaseStep, TimesStep, EndStep, TermStep, KeepStep
<1>3. Inv /\ [ClientNext]_vars =>
        [Renewing /\ end.how = "none" /\ end'.how = "expired" => renewer.worst >= 2]_vars
  <2>. SUFFICES ASSUME Inv, [ClientNext]_vars, Renewing, end.how = "none", end'.how = "expired"
                PROVE  renewer.worst >= 2
    OBVIOUS
  <2>1. ServerStep => Expires(item, clock)
    BY DEF ServerStep, Noted
  <2>2. ServerStep
    <3>1. CASE \E g \in Goroutine : Serve(g)
      <4>1. PICK g \in Goroutine : Serve(g)
        BY <3>1
      <4>2. PICK a : Serving(call[g].msg, a)
        BY <4>1 DEF Serve
      <4>. QED
        BY <4>1, <4>2, AnswerLemma DEF Serve
    <3>2. CASE ServeStray \/ Others
      BY <3>2, StrayServed, OthersStep
    <3>3. CASE StartRenewer
      BY <3>3 DEF StartRenewer, Renewing
    <3>4. end' # end
      OBVIOUS
    <3>5. CASE UNCHANGED end
      BY <3>4, <3>5
    <3>6. \/ \E g \in Goroutine : Serve(g)
          \/ ServeStray \/ Others
          \/ StartRenewer
          \/ UNCHANGED end
      BY DEF ClientNext, vars, AppAcquire, AppRelease, AppWatch, AppCalls, AppReturns, RenewerWakes,
             RenewReturns, CancelRenewer, RenewerStops, Fail, Refused, Tick
    <3>. QED
      BY <3>1, <3>2, <3>3, <3>5, <3>6
  <2>. QED
    BY <2>1, <2>2, InTime
<1>. QED
  BY <1>1, <1>2, <1>3, PTL DEF ClientSpec, KeptAlive
=============================================================================
