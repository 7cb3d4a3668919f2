----------------------------- MODULE ServerProofs -----------------------------
(***************************************************************************)
(* Proofs about the event bus and the streams of a server, for any number  *)
(* of emitters, streams, namespaces and events and any room in a channel.  *)
(* BusInv is the inductive invariant of EventStream's variables; LineOK is *)
(* the part of it about one stream's line of events.                       *)
(***************************************************************************)
EXTENDS Server, SequenceTheorems, TLAPS

\* A line of events drawn up to number n, when those numbered in `done' are over:
\* none twice, and none before one that was over when it was drawn.
LineOK(q, n, done) ==
  /\ q \in Seq(Event)
  /\ \A i \in 1..Len(q) : q[i].seq <= n /\ q[i].after \subseteq done
  /\ \A i, j \in 1..Len(q) :
       i < j => q[i].seq # q[j].seq /\ q[j].seq \notin q[i].after

HasNumber(q, n) == \E i \in 1..Len(q) : q[i].seq = n

\* The numbers of the events whose broadcast is over.
OverSeqs == {b.event.seq : b \in over}

\* An event on its way has a number of its own, which nobody has seen the end of.
Numbered ==
  /\ \A n \in OverSeqs : n <= eventSeq
  /\ \A f \in flight : /\ f.event.seq <= eventSeq
                       /\ f.event.seq \notin OverSeqs
                       /\ f.event.after \subseteq OverSeqs
  /\ \A f, g \in flight : f.event.seq = g.event.seq => f = g

\* Whom a broadcast has yet to serve, and whom it can have served.
Stages ==
  /\ \A f \in flight : /\ f.stage = "drawn" => f.left = {} /\ f.to = {}
                       /\ f.left \subseteq f.to
                       /\ f.left \subseteq subs
  /\ \A s \in subs : stream[s].pc \in {"open", "leaving"}
  /\ \A s \in Stream : stream[s].pc \in {"closed", "opening"} =>
       /\ \A f \in flight : s \notin f.to
       /\ \A b \in over : s \notin b.to

\* Event e has come to stream s, or was dropped, and not both.
Delivered(s, e) == ~(e.seq \in stream[s].dropped <=> Contains(Got(s), e))

LinesOK ==
  \A s \in Stream :
    /\ LineOK(Got(s), eventSeq, OverSeqs)
    /\ \A n \in stream[s].dropped : n <= eventSeq
    /\ \A i \in 1..Len(stream[s].written) : Wanted(s, stream[s].written[i])

\* A stream has nothing of an event that is still to come to it ...
NotYet ==
  \A s \in Stream : \A f \in flight :
    s \in f.left \/ f.stage = "drawn" =>
      ~HasNumber(Got(s), f.event.seq) /\ f.event.seq \notin stream[s].dropped

\* ... and every event that has come to it and that it wants.
Served ==
  \A s \in Stream : stream[s].pc = "open" =>
    /\ \A f \in flight : s \in f.to \ f.left /\ Wanted(s, f.event) => Delivered(s, f.event)
    /\ \A b \in over : s \in b.to /\ Wanted(s, b.event) => Delivered(s, b.event)

BusInv ==
  /\ BusTypeOK
  /\ Numbered
  /\ Stages
  /\ LinesOK
  /\ NotYet
  /\ Served

ServerInv == ServerTypeOK /\ BusInv

-----------------------------------------------------------------------------
(* Lines of events.                                                        *)

\* An event that is not in a line, and not over, can be put at its end.
LEMMA AppendLine ==
  ASSUME NEW q, NEW n \in Nat, NEW done, LineOK(q, n, done), NEW e \in Event,
         e.seq <= n, e.seq \notin done, e.after \subseteq done, ~HasNumber(q, e.seq)
  PROVE  /\ LineOK(Append(q, e), n, done)
         /\ \A k : HasNumber(Append(q, e), k) <=> HasNumber(q, k) \/ k = e.seq
         /\ \A x : Contains(Append(q, e), x) <=> Contains(q, x) \/ x = e
<1> DEFINE a == Append(q, e)
<1>1. q \in Seq(Event) /\ Len(q) \in Nat
  BY DEF LineOK
<1>2. /\ a \in Seq(Event) /\ Len(a) = Len(q) + 1
      /\ \A i \in 1..Len(q) : a[i] = q[i]
      /\ a[Len(q) + 1] = e
  BY <1>1, AppendProperties
<1>. HIDE DEF a
<1>3. \A i \in 1..Len(a) : i \in 1..Len(q) \/ i = Len(q) + 1
  BY <1>1, <1>2
<1>4. 1..Len(q) \subseteq 1..Len(a) /\ Len(q) + 1 \in 1..Len(a)
  BY <1>1, <1>2
<1>5. \A k : HasNumber(a, k) <=> HasNumber(q, k) \/ k = e.seq
  BY <1>2, <1>3, <1>4 DEF HasNumber
<1>6. \A x : Contains(a, x) <=> Contains(q, x) \/ x = e
  BY <1>2, <1>3, <1>4 DEF Contains
<1>7. LineOK(a, n, done)
  <2>1. \A i \in 1..Len(a) : a[i].seq <= n /\ a[i].after \subseteq done
    BY <1>2, <1>3 DEF LineOK
  <2>2. ASSUME NEW i \in 1..Len(a), NEW j \in 1..Len(a), i < j
        PROVE  a[i].seq # a[j].seq /\ a[j].seq \notin a[i].after
    <3>1. i \in 1..Len(q)
      BY <1>1, <1>2, <2>2
    <3>2. CASE j \in 1..Len(q)
      BY <1>2, <2>2, <3>1, <3>2 DEF LineOK
    <3>3. CASE j = Len(q) + 1
      BY <1>2, <3>1, <3>3 DEF LineOK, HasNumber
    <3>. QED
      BY <1>3, <3>2, <3>3
  <2>. QED
    BY <1>2, <2>1, <2>2 DEF LineOK
<1>. QED
  BY <1>5, <1>6, <1>7 DEF a

\* A line stays good while more events are drawn and more are over.
LEMMA LineGrows ==
  ASSUME NEW q, NEW n \in Int, NEW done, LineOK(q, n, done), NEW n2 \in Int, n <= n2,
         NEW done2, done \subseteq done2, \A i \in 1..Len(q) : q[i].seq \in Int
  PROVE  LineOK(q, n2, done2)
BY DEF LineOK

\* A line grows at the end of its channel ...
LEMMA ConcatAppend ==
  ASSUME NEW w \in Seq(Event), NEW c \in Seq(Event), NEW e \in Event
  PROVE  w \o Append(c, e) = Append(w \o c, e)
<1>1. Append(c, e) = c \o <<e>> /\ <<e>> \in Seq(Event)
  BY AppendIsConcat
<1>2. w \o c \in Seq(Event)
  BY ConcatProperties
<1>3. Append(w \o c, e) = (w \o c) \o <<e>>
  BY <1>2, AppendIsConcat
<1>. QED
  BY <1>1, <1>3, ConcatAssociative

\* ... a stream that writes an event moves it along in its line ...
LEMMA WriteKeepsLine ==
  ASSUME NEW w \in Seq(Event), NEW c \in Seq(Event), c # <<>>
  PROVE  Append(w, Head(c)) \o Tail(c) = w \o c
<1>1. Head(c) \in Event /\ Tail(c) \in Seq(Event) /\ c = <<Head(c)>> \o Tail(c)
  BY HeadTailProperties
<1>2. Append(w, Head(c)) = w \o <<Head(c)>> /\ <<Head(c)>> \in Seq(Event)
  BY <1>1, AppendIsConcat
<1>. QED
  BY <1>1, <1>2, ConcatAssociative

\* ... and one that passes an event over takes it out of its line.
LEMMA PassOverLine ==
  ASSUME NEW w \in Seq(Event), NEW c \in Seq(Event), c # <<>>,
         NEW n, NEW done, LineOK(w \o c, n, done)
  PROVE  /\ LineOK(w \o Tail(c), n, done)
         /\ \A k : HasNumber(w \o Tail(c), k) => HasNumber(w \o c, k)
         /\ \A x : x # Head(c) => (Contains(w \o Tail(c), x) <=> Contains(w \o c, x))
<1> DEFINE old == w \o c
           new == w \o Tail(c)
           At(i) == IF i <= Len(w) THEN i ELSE i + 1
<1>1. /\ Tail(c) \in Seq(Event) /\ Len(Tail(c)) = Len(c) - 1
      /\ \A i \in 1..Len(Tail(c)) : Tail(c)[i] = c[i + 1]
      /\ Head(c) = c[1]
      /\ Len(w) \in Nat /\ Len(c) \in Nat \ {0}
  BY HeadTailProperties, EmptySeq
<1>2. /\ Len(old) = Len(w) + Len(c)
      /\ \A i \in 1..Len(old) : old[i] = IF i <= Len(w) THEN w[i] ELSE c[i - Len(w)]
  BY ConcatProperties
<1>3. /\ new \in Seq(Event)
      /\ Len(new) = Len(w) + Len(Tail(c))
      /\ \A i \in 1..Len(new) : new[i] = IF i <= Len(w) THEN w[i] ELSE Tail(c)[i - Len(w)]
  BY <1>1, ConcatProperties
<1>. HIDE DEF old, new
<1>4. ASSUME NEW i \in 1..Len(new)
      PROVE  At(i) \in 1..Len(old) /\ new[i] = old[At(i)]
  <2>1. At(i) \in 1..Len(old)
    BY <1>1, <1>2, <1>3
  <2>2. CASE i <= Len(w)
    BY <1>2, <1>3, <2>1, <2>2
  <2>3. CASE ~(i <= Len(w))
    <3>1. i - Len(w) \in 1..Len(Tail(c)) /\ (i + 1) - Len(w) = (i - Len(w)) + 1
      BY <1>1, <1>3, <2>3
    <3>2. new[i] = c[(i + 1) - Len(w)]
      BY <1>1, <1>3, <2>3, <3>1
    <3>3. old[i + 1] = c[(i + 1) - Len(w)]
      BY <1>1, <1>2, <2>1, <2>3
    <3>. QED
      BY <2>1, <2>3, <3>2, <3>3
  <2>. QED
    BY <2>2, <2>3
<1>5. ASSUME NEW i \in 1..Len(old), i # Len(w) + 1
      PROVE  \E j \in 1..Len(new) : new[j] = old[i]
  <2>1. CASE i <= Len(w)
    <3>1. i \in 1..Len(new) /\ At(i) = i
      BY <1>1, <1>2, <1>3, <2>1
    <3>. QED
      BY <1>4, <3>1
  <2>2. CASE i > Len(w)
    <3>1. i - 1 \in 1..Len(new) /\ At(i - 1) = i
      BY <1>1, <1>2, <1>3, <1>5, <2>2
    <3>. QED
      BY <1>4, <3>1
  <2>. QED
    BY <1>1, <2>1, <2>2
<1>6. Len(w) + 1 \in 1..Len(old) /\ old[Len(w) + 1] = Head(c)
  BY <1>1, <1>2
<1>7. \A i, j \in 1..Len(new) : i < j => At(i) < At(j)
  BY <1>1, <1>3
<1>. HIDE DEF At
<1>8. LineOK(new, n, done)
  <2>1. LineOK(old, n, done)
    BY DEF old
  <2>2. ASSUME NEW i \in 1..Len(new)
        PROVE  new[i].seq <= n /\ new[i].after \subseteq done
    BY <1>4, <2>1 DEF LineOK
  <2>3. ASSUME NEW i \in 1..Len(new), NEW j \in 1..Len(new), i < j
        PROVE  new[i].seq # new[j].seq /\ new[j].seq \notin new[i].after
    <3>1. At(i) \in 1..Len(old) /\ At(j) \in 1..Len(old) /\ At(i) < At(j)
      BY <1>4, <1>7, <2>3
    <3>2. old[At(i)].seq # old[At(j)].seq /\ old[At(j)].seq \notin old[At(i)].after
      BY <2>1, <3>1 DEF LineOK
    <3>3. new[i] = old[At(i)] /\ new[j] = old[At(j)]
      BY <1>4
    <3>. QED
      BY <3>2, <3>3
  <2>. QED
    BY <1>3, <2>2, <2>3 DEF LineOK
<1>9. \A k : HasNumber(new, k) => HasNumber(old, k)
  BY <1>4 DEF HasNumber
<1>10. ASSUME NEW x, x # Head(c)
       PROVE  Contains(new, x) <=> Contains(old, x)
  BY <1>4, <1>5, <1>6, <1>10 DEF Contains
<1>. QED
  BY <1>8, <1>9, <1>10 DEF old, new

-----------------------------------------------------------------------------
(* The bus.                                                                *)

\* What the invariant says of one stream's line.
LEMMA LineFacts ==
  ASSUME BusInv, NEW s \in Stream
  PROVE  /\ stream[s] \in StreamState /\ Len(stream[s].chan) <= Room
         /\ stream[s].written \in Seq(Event) /\ stream[s].chan \in Seq(Event)
         /\ LineOK(Got(s), eventSeq, OverSeqs)
         /\ \A i \in 1..Len(Got(s)) : Got(s)[i] \in Event /\ Got(s)[i].seq \in Int
         /\ eventSeq \in Nat /\ Room \in Nat
<1>1. stream[s] \in StreamState /\ Len(stream[s].chan) <= Room
  BY DEF BusInv, BusTypeOK
<1>2. LineOK(Got(s), eventSeq, OverSeqs)
  BY DEF BusInv, LinesOK
<1>3. \A i \in 1..Len(Got(s)) : Got(s)[i] \in Event
  BY <1>2, ElementOfSeq DEF LineOK
<1>4. \A e \in Event : e.seq \in Int
  BY DEF Event
<1>5. eventSeq \in Nat /\ Room \in Nat
  BY EventStreamAssumption DEF BusInv, BusTypeOK
<1>. QED
  BY <1>1, <1>2, <1>3, <1>4, <1>5 DEF StreamState

\* A step of stream s alone, to st, keeps the invariant if the line is still good,
\* has nothing new, and lacks nothing it should have.
LEMMA StreamStep ==
  ASSUME BusInv, NEW s \in Stream, NEW st \in StreamState,
         stream' = [stream EXCEPT ![s] = st],
         UNCHANGED <<eventSeq, flight, over>>,
         Len(st.chan) <= Room,
         LineOK(st.written \o st.chan, eventSeq, OverSeqs),
         \A k : HasNumber(st.written \o st.chan, k) => HasNumber(Got(s), k),
         \A i \in 1..Len(st.written) : Wanted(s, st.written[i]),
         st.dropped \subseteq stream[s].dropped,
         st.pc \in {"closed", "opening"} => stream[s].pc \in {"closed", "opening"},
         st.pc = "open" /\ stream[s].pc # "opening" =>
           /\ stream[s].pc = "open" /\ st.dropped = stream[s].dropped
           /\ \A e \in Event : Wanted(s, e) =>
                (Contains(st.written \o st.chan, e) <=> Contains(Got(s), e)),
         subs' \subseteq Stream,
         \A q \in Stream \ {s} : q \in subs' => q \in subs,
         s \in subs' => st.pc \in {"open", "leaving"},
         \A f \in flight : f.left \subseteq subs'
  PROVE  BusInv'
<1>1. \A q \in Stream : stream'[q] = IF q = s THEN st ELSE stream[q]
  BY DEF BusInv, BusTypeOK
<1>2. /\ Got(s)' = st.written \o st.chan
      /\ \A q \in Stream \ {s} : Got(q)' = Got(q)
  BY <1>1 DEF Got
<1>3. OverSeqs' = OverSeqs
  BY DEF OverSeqs
<1>4. BusTypeOK'
  BY <1>1 DEF BusInv, BusTypeOK
<1>5. Numbered'
  BY <1>3 DEF BusInv, Numbered
<1>6. Stages'
  BY <1>1 DEF BusInv, BusTypeOK, Stages
<1>7. LinesOK'
  <2>1. ASSUME NEW q \in Stream
        PROVE  /\ LineOK(Got(q)', eventSeq, OverSeqs)
               /\ \A n \in stream'[q].dropped : n <= eventSeq
               /\ \A i \in 1..Len(stream'[q].written) : Wanted(q, stream'[q].written[i])
    BY <1>1, <1>2 DEF BusInv, LinesOK
  <2>. QED
    BY <1>3, <2>1 DEF LinesOK, Wanted
<1>8. NotYet'
  <2>1. ASSUME NEW q \in Stream, NEW f \in flight, q \in f.left \/ f.stage = "drawn"
        PROVE  ~HasNumber(Got(q)', f.event.seq) /\ f.event.seq \notin stream'[q].dropped
    <3>1. ~HasNumber(Got(q), f.event.seq) /\ f.event.seq \notin stream[q].dropped
      BY <2>1 DEF BusInv, NotYet
    <3>. QED
      BY <1>1, <1>2, <3>1
  <2>. QED
    BY <2>1 DEF NotYet
<1>9. Served'
  <2>1. ASSUME NEW q \in Stream, stream'[q].pc = "open", NEW e \in Event,
               q = s => stream[s].pc # "opening",
               Wanted(q, e), stream[q].pc = "open" => Delivered(q, e)
        PROVE  Delivered(q, e)'
    <3>1. CASE q = s
      BY <1>1, <1>2, <2>1, <3>1 DEF Delivered
    <3>2. CASE q # s
      BY <1>1, <1>2, <2>1, <3>2 DEF Delivered
    <3>. QED
      BY <3>1, <3>2
  <2>2. ASSUME NEW q \in Stream, stream'[q].pc = "open"
        PROVE  /\ \A f \in flight : q \in f.to \ f.left /\ Wanted(q, f.event) => Delivered(q, f.event)'
               /\ \A b \in over : q \in b.to /\ Wanted(q, b.event) => Delivered(q, b.event)'
    <3>1. CASE q = s /\ stream[s].pc = "opening"
      BY <3>1 DEF BusInv, Stages
    <3>2. CASE ~(q = s /\ stream[s].pc = "opening")
      <4>1. \A f \in flight : f.event \in Event
        BY DEF BusInv, BusTypeOK, Flight
      <4>2. \A b \in over : b.event \in Event
        BY DEF BusInv, BusTypeOK
      <4>3. stream[q].pc = "open"
        BY <1>1, <2>2, <3>2
      <4>. QED
        BY <2>1, <2>2, <3>2, <4>1, <4>2, <4>3 DEF BusInv, Served
    <3>. QED
      BY <3>1, <3>2
  <2>. QED
    BY <2>2 DEF Served, Wanted
<1>. QED
  BY <1>4, <1>5, <1>6, <1>7, <1>8, <1>9 DEF BusInv

\* A step that changes flight and over alone, and gives no stream anything.
LEMMA FlightStep ==
  ASSUME BusInv, UNCHANGED <<subs, stream>>,
         eventSeq' \in 0..MaxEvent, eventSeq <= eventSeq',
         flight' \subseteq Flight,
         over' \subseteq [event : Event, to : SUBSET Stream],
         OverSeqs \subseteq OverSeqs',
         Numbered', Stages', NotYet', Served'
  PROVE  BusInv'
<1>1. BusTypeOK'
  BY DEF BusInv, BusTypeOK
<1>2. \A s \in Stream : Got(s)' = Got(s)
  BY DEF Got
<1>3. eventSeq' \in Int /\ eventSeq \in Int
  BY EventStreamAssumption DEF BusInv, BusTypeOK
<1>4. ASSUME NEW s \in Stream
      PROVE  /\ LineOK(Got(s), eventSeq', OverSeqs')
             /\ \A n \in stream[s].dropped : n <= eventSeq'
             /\ \A i \in 1..Len(stream[s].written) : Wanted(s, stream[s].written[i])
  <2>1. LineOK(Got(s), eventSeq', OverSeqs')
    BY <1>3, LineFacts, LineGrows
  <2>2. \A n \in stream[s].dropped : n \in Int
    BY LineFacts DEF StreamState
  <2>. QED
    BY <1>3, <2>1, <2>2 DEF BusInv, LinesOK
<1>5. LinesOK'
  BY <1>2, <1>4 DEF LinesOK, Wanted
<1>. QED
  BY <1>1, <1>5 DEF BusInv

LEMMA DrawStep ==
  ASSUME BusInv, NEW e \in Emitter, DrawEvent(e)
  PROVE  BusInv'
<1>1. PICK ns \in Namespace :
        flight' = flight \cup {[event |-> Drawn(e, ns), stage |-> "drawn", left |-> {}, to |-> {}]}
  BY DEF DrawEvent
<1>2. ~Emitting(e) /\ eventSeq < MaxEvent /\ eventSeq' = eventSeq + 1
      /\ UNCHANGED <<subs, stream, over>>
  BY DEF DrawEvent
<1> DEFINE d == Drawn(e, ns)
           new == [event |-> d, stage |-> "drawn", left |-> {}, to |-> {}]
<1>3. eventSeq \in Nat /\ MaxEvent \in Nat
  BY EventStreamAssumption DEF BusInv, BusTypeOK
<1>4. d.seq = eventSeq + 1 /\ d.after = OverSeqs /\ d \in Event
  <2>1. {g \in flight : g.event.from = e} = {}
    BY <1>2 DEF Emitting
  <2>2. OverSeqs \subseteq 1..MaxEvent
    BY DEF OverSeqs, BusInv, BusTypeOK, Event
  <2>3. d = [seq |-> eventSeq + 1, from |-> e, ns |-> ns, after |-> OverSeqs]
    BY <2>1 DEF Drawn, OverSeqs
  <2>. QED
    BY <1>2, <1>3, <2>2, <2>3 DEF Event
<1>. HIDE DEF d
<1>5. /\ new \in Flight /\ new.event = d /\ new.stage = "drawn"
      /\ new.left = {} /\ new.to = {}
  BY <1>4 DEF Flight
<1>6. flight' = flight \cup {new}
  BY <1>1 DEF d
<1>. HIDE DEF new
<1>7. flight' \subseteq Flight /\ eventSeq' \in 0..MaxEvent /\ eventSeq <= eventSeq'
  BY <1>2, <1>3, <1>5, <1>6 DEF BusInv, BusTypeOK
<1>8. OverSeqs' = OverSeqs
  BY <1>2 DEF OverSeqs
<1>9. \A f \in flight : f.event.seq \in Nat /\ f.event.seq <= eventSeq
  BY DEF BusInv, BusTypeOK, Flight, Event, Numbered
<1>10. \A n \in OverSeqs : n \in Nat /\ n <= eventSeq
  BY DEF BusInv, BusTypeOK, OverSeqs, Event, Numbered
<1>11. Numbered'
  <2>1. \A n \in OverSeqs : n <= eventSeq'
    BY <1>2, <1>3, <1>10
  <2>2. ASSUME NEW f \in flight'
        PROVE  /\ f.event.seq <= eventSeq' /\ f.event.seq \notin OverSeqs
               /\ f.event.after \subseteq OverSeqs
    <3>1. CASE f \in flight
      BY <1>2, <1>3, <1>9, <3>1 DEF BusInv, Numbered
    <3>2. CASE f = new
      BY <1>2, <1>3, <1>4, <1>5, <1>10, <3>2
    <3>. QED
      BY <1>6, <3>1, <3>2
  <2>3. ASSUME NEW f \in flight', NEW g \in flight', f.event.seq = g.event.seq
        PROVE  f = g
    <3>1. \A h \in flight : h.event.seq # new.event.seq
      BY <1>3, <1>4, <1>5, <1>9
    <3>. QED
      BY <1>6, <2>3, <3>1 DEF BusInv, Numbered
  <2>. QED
    BY <1>8, <2>1, <2>2, <2>3 DEF Numbered
<1>12. Stages'
  BY <1>2, <1>5, <1>6 DEF BusInv, Stages
<1>13. NotYet'
  <2>1. ASSUME NEW s \in Stream, NEW f \in flight', s \in f.left \/ f.stage = "drawn"
        PROVE  ~HasNumber(Got(s), f.event.seq) /\ f.event.seq \notin stream[s].dropped
    <3>1. CASE f \in flight
      BY <2>1, <3>1 DEF BusInv, NotYet
    <3>2. CASE f = new
      <4>1. \A i \in 1..Len(Got(s)) : Got(s)[i].seq # eventSeq + 1
        BY <1>3, LineFacts DEF LineOK
      <4>2. \A n \in stream[s].dropped : n \in Int /\ n <= eventSeq
        BY LineFacts DEF StreamState, BusInv, LinesOK
      <4>. QED
        BY <1>3, <1>4, <1>5, <3>2, <4>1, <4>2 DEF HasNumber
    <3>. QED
      BY <1>6, <3>1, <3>2
  <2>2. \A s \in Stream : Got(s)' = Got(s)
    BY <1>2 DEF Got
  <2>. QED
    BY <1>2, <2>1, <2>2 DEF NotYet
<1>14. Served'
  BY <1>2, <1>5, <1>6 DEF BusInv, Served, Delivered, Got, Wanted
<1>. QED
  BY <1>2, <1>7, <1>8, <1>11, <1>12, <1>13, <1>14, FlightStep DEF BusInv, BusTypeOK

LEMMA StartBroadcastStep ==
  ASSUME BusInv, NEW e \in Emitter, StartBroadcast(e)
  PROVE  BusInv'
<1>1. PICK f \in flight :
        /\ f.event.from = e /\ f.stage = "drawn"
        /\ flight' = (flight \ {f}) \cup {[f EXCEPT !.stage = "sending", !.left = subs, !.to = subs]}
  BY DEF StartBroadcast
<1>2. UNCHANGED <<eventSeq, subs, stream, over>>
  BY DEF StartBroadcast
<1> DEFINE new == [f EXCEPT !.stage = "sending", !.left = subs, !.to = subs]
<1>3. f \in Flight
  BY DEF BusInv, BusTypeOK
<1>4. /\ new \in Flight /\ new.event = f.event /\ new.stage = "sending"
      /\ new.left = subs /\ new.to = subs
  BY <1>3 DEF Flight, BusInv, BusTypeOK
<1>5. flight' = (flight \ {f}) \cup {new}
  BY <1>1
<1>. HIDE DEF new
<1>6. OverSeqs' = OverSeqs /\ (\A s \in Stream : Got(s)' = Got(s))
  BY <1>2 DEF OverSeqs, Got
<1>7. Numbered'
  BY <1>2, <1>4, <1>5, <1>6 DEF BusInv, Numbered
<1>8. Stages'
  <2>1. \A s \in subs : stream[s].pc \notin {"closed", "opening"}
    BY DEF BusInv, Stages
  <2>. QED
    BY <1>2, <1>4, <1>5, <2>1 DEF BusInv, Stages
<1>9. NotYet'
  <2>1. ASSUME NEW s \in Stream, NEW g \in flight', s \in g.left \/ g.stage = "drawn"
        PROVE  ~HasNumber(Got(s), g.event.seq) /\ g.event.seq \notin stream[s].dropped
    <3>1. CASE g \in flight
      BY <2>1, <3>1 DEF BusInv, NotYet
    <3>2. CASE g = new
      BY <1>1, <1>4, <3>2 DEF BusInv, NotYet
    <3>. QED
      BY <1>5, <3>1, <3>2
  <2>. QED
    BY <1>2, <1>6, <2>1 DEF NotYet
<1>10. Served'
  BY <1>2, <1>4, <1>5 DEF BusInv, Served, Delivered, Got, Wanted
<1>11. flight' \subseteq Flight /\ eventSeq' \in 0..MaxEvent /\ eventSeq <= eventSeq'
  BY <1>2, <1>4, <1>5, EventStreamAssumption DEF BusInv, BusTypeOK
<1>. QED
  BY <1>2, <1>6, <1>7, <1>8, <1>9, <1>10, <1>11, FlightStep DEF BusInv, BusTypeOK

LEMMA EndBroadcastStep ==
  ASSUME BusInv, NEW e \in Emitter, EndBroadcast(e)
  PROVE  BusInv'
<1>1. PICK f \in flight :
        /\ f.event.from = e /\ f.stage = "sending" /\ f.left = {}
        /\ flight' = flight \ {f}
        /\ over' = over \cup {[event |-> f.event, to |-> f.to]}
  BY DEF EndBroadcast
<1>2. UNCHANGED <<eventSeq, subs, stream>>
  BY DEF EndBroadcast
<1>3. f \in Flight
  BY DEF BusInv, BusTypeOK
<1>4. OverSeqs' = OverSeqs \cup {f.event.seq}
  <2> DEFINE r == [event |-> f.event, to |-> f.to]
  <2>1. over' = over \cup {r} /\ r.event = f.event
    BY <1>1
  <2>. HIDE DEF r
  <2>. QED
    BY <2>1 DEF OverSeqs
<1>5. Numbered'
  <2>1. f.event.seq <= eventSeq /\ \A n \in OverSeqs : n <= eventSeq
    BY DEF BusInv, Numbered
  <2>2. ASSUME NEW g \in flight \ {f}
        PROVE  /\ g.event.seq <= eventSeq
               /\ g.event.seq \notin OverSeqs \cup {f.event.seq}
               /\ g.event.after \subseteq OverSeqs
    BY DEF BusInv, Numbered
  <2>3. \A g, h \in flight' : g.event.seq = h.event.seq => g = h
    BY <1>1 DEF BusInv, Numbered
  <2>. QED
    BY <1>1, <1>2, <1>4, <2>1, <2>2, <2>3 DEF Numbered
<1>6. Stages'
  BY <1>1, <1>2 DEF BusInv, Stages
<1>7. NotYet'
  BY <1>1, <1>2 DEF BusInv, NotYet, Got
<1>8. Served'
  BY <1>1, <1>2 DEF BusInv, Served, Delivered, Got, Wanted
<1>9. /\ flight' \subseteq Flight /\ eventSeq' \in 0..MaxEvent /\ eventSeq <= eventSeq'
      /\ over' \subseteq [event : Event, to : SUBSET Stream]
  BY <1>1, <1>2, <1>3, EventStreamAssumption DEF BusInv, BusTypeOK, Flight
<1>. QED
  BY <1>2, <1>4, <1>5, <1>6, <1>7, <1>8, <1>9, FlightStep

\* A channel with room takes the event, a full one drops it.
LEMMA SendStep ==
  ASSUME BusInv, NEW e \in Emitter, Send(e)
  PROVE  BusInv'
<1>0. PICK f \in flight : \E s \in f.left :
        /\ f.event.from = e /\ f.stage = "sending"
        /\ stream' = IF Len(stream[s].chan) < Room
                     THEN [stream EXCEPT ![s].chan = Append(@, f.event)]
                     ELSE [stream EXCEPT ![s].dropped = @ \cup {f.event.seq}]
        /\ flight' = (flight \ {f}) \cup {[f EXCEPT !.left = @ \ {s}]}
  BY DEF Send
<1>1. PICK s \in f.left :
        /\ f.event.from = e /\ f.stage = "sending"
        /\ stream' = IF Len(stream[s].chan) < Room
                     THEN [stream EXCEPT ![s].chan = Append(@, f.event)]
                     ELSE [stream EXCEPT ![s].dropped = @ \cup {f.event.seq}]
        /\ flight' = (flight \ {f}) \cup {[f EXCEPT !.left = @ \ {s}]}
  BY <1>0
<1>2. UNCHANGED <<eventSeq, subs, over>>
  BY DEF Send
<1> DEFINE new == [f EXCEPT !.left = @ \ {s}]
           x == f.event
           fits == Len(stream[s].chan) < Room
<1>3. f \in Flight /\ s \in Stream /\ x \in Event /\ s \in subs
  BY DEF BusInv, BusTypeOK, Flight, Stages
<1>4. /\ new \in Flight /\ new.event = x /\ new.stage = "sending"
      /\ new.left = f.left \ {s} /\ new.to = f.to
  BY <1>1, <1>3 DEF Flight
<1>5. flight' = (flight \ {f}) \cup {new}
  BY <1>1
<1>6. /\ LineOK(Got(s), eventSeq, OverSeqs)
      /\ stream[s] \in StreamState
      /\ stream[s].written \in Seq(Event) /\ stream[s].chan \in Seq(Event)
      /\ eventSeq \in Nat /\ Room \in Nat /\ Len(stream[s].chan) <= Room
  BY <1>3, LineFacts
<1>7. /\ ~HasNumber(Got(s), x.seq) /\ x.seq \notin stream[s].dropped
      /\ x.seq <= eventSeq /\ x.seq \notin OverSeqs /\ x.after \subseteq OverSeqs
      /\ x.seq \in 1..MaxEvent
  BY <1>3 DEF BusInv, NotYet, Numbered, Event
<1>8. \A g \in flight : g # f => g.event.seq # x.seq
  BY DEF BusInv, Numbered
<1>9. \A b \in over : b.event.seq # x.seq
  BY <1>7 DEF OverSeqs
<1>. HIDE DEF new
<1> DEFINE st == IF fits THEN [stream[s] EXCEPT !.chan = Append(@, x)]
                 ELSE [stream[s] EXCEPT !.dropped = @ \cup {x.seq}]
<1>10. /\ st \in StreamState /\ st.pc = stream[s].pc /\ st.written = stream[s].written
       /\ st.chan = IF fits THEN Append(stream[s].chan, x) ELSE stream[s].chan
       /\ st.dropped = IF fits THEN stream[s].dropped ELSE stream[s].dropped \cup {x.seq}
  <2>1. Append(stream[s].chan, x) \in Seq(Event)
    BY <1>3, <1>6, AppendProperties
  <2>. QED
    BY <1>6, <1>7, <2>1 DEF StreamState
<1>11. Len(st.chan) <= Room
  BY <1>3, <1>6, <1>10, AppendProperties
<1>12. stream' = [stream EXCEPT ![s] = st]
  BY <1>1, <1>3 DEF BusInv, BusTypeOK
<1>. HIDE DEF st
<1>13. \A q \in Stream : stream'[q] = IF q = s THEN st ELSE stream[q]
  BY <1>12 DEF BusInv, BusTypeOK
<1>14. /\ Got(s)' = IF fits THEN Append(Got(s), x) ELSE Got(s)
       /\ \A q \in Stream \ {s} : Got(q)' = Got(q)
  <2>1. stream[s].written \o Append(stream[s].chan, x) = Append(Got(s), x)
    BY <1>3, <1>6, ConcatAppend DEF Got
  <2>. QED
    BY <1>3, <1>10, <1>13, <2>1 DEF Got
<1>. HIDE DEF fits, x
<1>15. /\ LineOK(Got(s)', eventSeq, OverSeqs)
       /\ \A k : HasNumber(Got(s)', k) <=> HasNumber(Got(s), k) \/ (fits /\ k = x.seq)
       /\ \A y : Contains(Got(s)', y) <=> Contains(Got(s), y) \/ (fits /\ y = x)
  <2>1. CASE fits
    <3>1. Got(s)' = Append(Got(s), x)
      BY <1>14, <2>1
    <3>2. /\ LineOK(Append(Got(s), x), eventSeq, OverSeqs)
          /\ \A k : HasNumber(Append(Got(s), x), k) <=> HasNumber(Got(s), k) \/ k = x.seq
          /\ \A y : Contains(Append(Got(s), x), y) <=> Contains(Got(s), y) \/ y = x
      BY <1>3, <1>6, <1>7, AppendLine
    <3>. QED
      BY <2>1, <3>1, <3>2
  <2>2. CASE ~fits
    BY <1>6, <1>14, <2>2
  <2>. QED
    BY <2>1, <2>2
<1>16. OverSeqs' = OverSeqs
  BY <1>2 DEF OverSeqs
<1>17. BusTypeOK'
  BY <1>2, <1>3, <1>4, <1>5, <1>10, <1>11, <1>12, <1>13 DEF BusInv, BusTypeOK
<1>18. Numbered'
  BY <1>2, <1>4, <1>5, <1>7, <1>8, <1>16 DEF BusInv, Numbered
<1>19. Stages'
  BY <1>1, <1>2, <1>4, <1>5, <1>10, <1>13 DEF BusInv, BusTypeOK, Stages
<1>20. LinesOK'
  <2>1. ASSUME NEW q \in Stream
        PROVE  /\ LineOK(Got(q)', eventSeq, OverSeqs)
               /\ \A n \in stream'[q].dropped : n <= eventSeq
               /\ \A i \in 1..Len(stream'[q].written) : Wanted(q, stream'[q].written[i])
    BY <1>7, <1>10, <1>13, <1>14, <1>15 DEF BusInv, LinesOK
  <2>. QED
    BY <1>2, <1>16, <2>1 DEF LinesOK, Wanted
<1>21. NotYet'
  <2>1. ASSUME NEW q \in Stream, NEW g \in flight', q \in g.left \/ g.stage = "drawn"
        PROVE  ~HasNumber(Got(q)', g.event.seq) /\ g.event.seq \notin stream'[q].dropped
    <3>1. CASE g = new
      <4>1. q # s /\ q \in f.left
        BY <1>4, <2>1, <3>1
      <4>2. ~HasNumber(Got(q), f.event.seq) /\ f.event.seq \notin stream[q].dropped
        BY <4>1 DEF BusInv, NotYet
      <4>. QED
        BY <1>4, <1>13, <1>14, <3>1, <4>1, <4>2 DEF x
    <3>2. CASE g \in flight /\ g # f
      <4>1. ~HasNumber(Got(q), g.event.seq) /\ g.event.seq \notin stream[q].dropped
        BY <2>1, <3>2 DEF BusInv, NotYet
      <4>. QED
        BY <1>8, <1>10, <1>13, <1>14, <1>15, <3>2, <4>1
    <3>. QED
      BY <1>5, <3>1, <3>2
  <2>. QED
    BY <2>1 DEF NotYet
<1>22. Served'
  <2>1. ASSUME NEW q \in Stream, NEW y \in Event, y.seq # x.seq, Delivered(q, y)
        PROVE  Delivered(q, y)'
    <3>1. y # x
      BY <2>1
    <3>2. Contains(Got(q)', y) <=> Contains(Got(q), y)
      BY <1>14, <1>15, <3>1
    <3>3. y.seq \in stream'[q].dropped <=> y.seq \in stream[q].dropped
      BY <1>10, <1>13, <2>1
    <3>. QED
      BY <2>1, <3>2, <3>3 DEF Delivered
  <2>2. Delivered(s, x)'
    <3>1. ~Contains(Got(s), x)
      BY <1>7 DEF Contains, HasNumber
    <3>. QED
      BY <1>3, <1>7, <1>10, <1>13, <1>15, <3>1 DEF Delivered
  <2>3. \A q \in Stream \ {s} : Delivered(q, x) => Delivered(q, x)'
    BY <1>13, <1>14 DEF Delivered
  <2>4. ASSUME NEW q \in Stream, stream'[q].pc = "open"
        PROVE  /\ \A g \in flight' : q \in g.to \ g.left /\ Wanted(q, g.event) => Delivered(q, g.event)'
               /\ \A b \in over : q \in b.to /\ Wanted(q, b.event) => Delivered(q, b.event)'
    <3>1. stream[q].pc = "open"
      BY <1>10, <1>13, <2>4
    <3>2. ASSUME NEW g \in flight', q \in g.to \ g.left, Wanted(q, g.event)
          PROVE  Delivered(q, g.event)'
      <4>1. CASE g = new
        <5>1. q = s \/ (q \in f.to \ f.left /\ Delivered(q, x))
          BY <1>4, <3>1, <3>2, <4>1 DEF BusInv, Served, x
        <5>. QED
          BY <1>4, <2>2, <2>3, <4>1, <5>1
      <4>2. CASE g \in flight /\ g # f
        <5>1. Delivered(q, g.event) /\ g.event \in Event
          BY <3>1, <3>2, <4>2 DEF BusInv, BusTypeOK, Flight, Served
        <5>. QED
          BY <1>8, <2>1, <4>2, <5>1
      <4>. QED
        BY <1>5, <4>1, <4>2
    <3>3. ASSUME NEW b \in over, q \in b.to, Wanted(q, b.event)
          PROVE  Delivered(q, b.event)'
      <4>1. Delivered(q, b.event) /\ b.event \in Event
        BY <3>1, <3>3 DEF BusInv, BusTypeOK, Served
      <4>. QED
        BY <1>9, <2>1, <4>1
    <3>. QED
      BY <3>2, <3>3
  <2>. QED
    BY <1>2, <2>4 DEF Served, Wanted
<1>. QED
  BY <1>17, <1>18, <1>19, <1>20, <1>21, <1>22 DEF BusInv

-----------------------------------------------------------------------------
(* The streams.                                                            *)

\* A step that moves stream s from one place to another.
LEMMA PlaceStep ==
  ASSUME BusInv, NEW s \in Stream, NEW pc,
         pc \in {"opening", "open", "leaving"},
         stream[s].pc = "closed" => pc = "opening",
         stream[s].pc \in {"closed", "opening"} \/ pc = "leaving",
         To(s, pc), UNCHANGED <<eventSeq, flight, over>>,
         subs' = IF pc = "open" THEN subs \cup {s} ELSE subs,
         pc = "opening" => stream[s].pc = "closed",
         pc = "open" => NoReaders
  PROVE  BusInv'
<1> DEFINE st == [stream[s] EXCEPT !.pc = pc]
<1>1. stream[s] \in StreamState /\ Len(stream[s].chan) <= Room
  BY LineFacts
<1>2. /\ st \in StreamState /\ st.pc = pc /\ st.chan = stream[s].chan
      /\ st.written = stream[s].written /\ st.dropped = stream[s].dropped
  BY <1>1 DEF StreamState
<1>3. stream' = [stream EXCEPT ![s] = st]
  BY DEF To, BusInv, BusTypeOK
<1>. HIDE DEF st
<1>4. st.written \o st.chan = Got(s)
  BY <1>2 DEF Got
<1>5. LineOK(Got(s), eventSeq, OverSeqs)
      /\ \A i \in 1..Len(stream[s].written) : Wanted(s, stream[s].written[i])
  BY DEF BusInv, LinesOK
<1>6. subs \subseteq Stream /\ (\A f \in flight : f.left \subseteq subs)
  BY DEF BusInv, BusTypeOK, Stages
<1>7. s \in subs => stream[s].pc \in {"open", "leaving"}
  BY DEF BusInv, Stages
<1>8. subs' \subseteq Stream /\ (\A q \in Stream \ {s} : q \in subs' => q \in subs)
      /\ (s \in subs' => st.pc \in {"open", "leaving"})
      /\ (\A f \in flight : f.left \subseteq subs')
  BY <1>2, <1>6, <1>7
<1>9. st.pc = "open" => stream[s].pc = "opening"
  BY <1>2
<1>10. st.pc \in {"closed", "opening"} => stream[s].pc \in {"closed", "opening"}
  BY <1>2
<1>. QED
  BY <1>1, <1>2, <1>3, <1>4, <1>5, <1>8, <1>9, <1>10, StreamStep

LEMMA OpenStreamStep ==
  ASSUME BusInv, NEW s \in Stream, OpenStream(s)
  PROVE  BusInv'
BY PlaceStep DEF OpenStream

LEMMA SubscribeStep ==
  ASSUME BusInv, NEW s \in Stream, Subscribe(s)
  PROVE  BusInv'
BY PlaceStep DEF Subscribe

LEMMA LeaveStep ==
  ASSUME BusInv, NEW s \in Stream, Leave(s)
  PROVE  BusInv'
BY PlaceStep DEF Leave

LEMMA UnsubscribeStep ==
  ASSUME BusInv, NEW s \in Stream, Unsubscribe(s)
  PROVE  BusInv'
<1> DEFINE st == [NoStream EXCEPT !.pc = "gone"]
<1>1. /\ stream' = [stream EXCEPT ![s] = st] /\ subs' = subs \ {s}
      /\ UNCHANGED <<eventSeq, flight, over>> /\ NoReaders
  BY DEF Unsubscribe
<1>2. st.pc = "gone" /\ st.chan = <<>> /\ st.written = <<>> /\ st.dropped = {}
  BY DEF NoStream
<1>3. st \in StreamState
  BY EmptySeq DEF NoStream, StreamState
<1>. HIDE DEF st
<1>4. st.written \o st.chan = <<>> /\ Len(<<>>) = 0 /\ <<>> \in Seq(Event)
  BY <1>2, EmptySeq, ConcatEmptySeq
<1>5. LineOK(<<>>, eventSeq, OverSeqs) /\ \A k : ~HasNumber(<<>>, k)
  BY <1>4 DEF LineOK, HasNumber
<1>6. \A f \in flight : f.left = {}
  <2>1. \A f \in flight : f.stage = "drawn"
    BY <1>1 DEF NoReaders, BusInv, BusTypeOK, Flight
  <2>. QED
    BY <2>1 DEF BusInv, Stages
<1>7. /\ subs' \subseteq Stream /\ s \notin subs'
      /\ \A q \in Stream \ {s} : q \in subs' => q \in subs
      /\ \A f \in flight : f.left \subseteq subs'
  BY <1>1, <1>6 DEF BusInv, BusTypeOK
<1>8. /\ Len(st.chan) <= Room
      /\ \A i \in 1..Len(st.written) : Wanted(s, st.written[i])
  BY <1>2, <1>4, EventStreamAssumption
<1>9. /\ LineOK(st.written \o st.chan, eventSeq, OverSeqs)
      /\ \A k : HasNumber(st.written \o st.chan, k) => HasNumber(Got(s), k)
  BY <1>4, <1>5
<1>. QED
  BY <1>1, <1>2, <1>3, <1>7, <1>8, <1>9, StreamStep

LEMMA WriteEventStep ==
  ASSUME BusInv, NEW s \in Stream, WriteEvent(s)
  PROVE  BusInv'
<1> DEFINE w == stream[s].written
           c == stream[s].chan
           x == Head(c)
<1>1. /\ stream[s] \in StreamState /\ Len(c) <= Room
      /\ w \in Seq(Event) /\ c \in Seq(Event) /\ c # <<>>
      /\ LineOK(w \o c, eventSeq, OverSeqs)
      /\ Got(s) = w \o c /\ Room \in Nat
  BY LineFacts DEF WriteEvent, Got
<1>2. \A i \in 1..Len(w) : Wanted(s, w[i])
  BY DEF BusInv, LinesOK
<1>3. /\ x \in Event /\ Tail(c) \in Seq(Event)
      /\ Len(c) \in Nat /\ Len(Tail(c)) = Len(c) - 1
  BY <1>1, HeadTailProperties, LenProperties
<1>4. /\ LineOK(w \o Tail(c), eventSeq, OverSeqs)
      /\ \A k : HasNumber(w \o Tail(c), k) => HasNumber(w \o c, k)
      /\ \A e : e # x => (Contains(w \o Tail(c), e) <=> Contains(w \o c, e))
  BY <1>1, PassOverLine
<1>5. /\ stream[s].pc = "open" /\ UNCHANGED <<eventSeq, flight, subs, over>>
      /\ \/ /\ Wanted(s, x)
            /\ stream' = [stream EXCEPT ![s].chan = Tail(@), ![s].written = Append(@, x)]
         \/ /\ ~Wanted(s, x)
            /\ stream' = [stream EXCEPT ![s].chan = Tail(@)]
         \/ /\ Wanted(s, x)
            /\ stream' = [stream EXCEPT ![s].chan = Tail(@), ![s].pc = "leaving"]
  BY DEF WriteEvent
<1>6. /\ subs \subseteq Stream /\ (\A f \in flight : f.left \subseteq subs)
      /\ stream \in [Stream -> StreamState]
  BY DEF BusInv, BusTypeOK, Stages
<1>. HIDE DEF w, c, x
<1>7. CASE Wanted(s, x)
           /\ stream' = [stream EXCEPT ![s].chan = Tail(@), ![s].written = Append(@, x)]
  <2> DEFINE st == [stream[s] EXCEPT !.chan = Tail(c), !.written = Append(w, x)]
  <2>1. /\ Append(w, x) \in Seq(Event) /\ Len(Append(w, x)) = Len(w) + 1 /\ Len(w) \in Nat
        /\ \A i \in 1..Len(w) : Append(w, x)[i] = w[i]
        /\ Append(w, x)[Len(w) + 1] = x
    BY <1>1, <1>3, AppendProperties, LenProperties
  <2>2. Append(w, x) \o Tail(c) = w \o c
    BY <1>1, WriteKeepsLine DEF x
  <2>3. /\ st \in StreamState /\ st.pc = "open" /\ st.chan = Tail(c)
        /\ st.written = Append(w, x) /\ st.dropped = stream[s].dropped
    BY <1>1, <1>3, <1>5, <2>1 DEF StreamState
  <2>4. stream' = [stream EXCEPT ![s] = st]
    BY <1>6, <1>7 DEF w, c
  <2>. HIDE DEF st
  <2>5. \A i \in 1..Len(st.written) : Wanted(s, st.written[i])
    <3>1. \A i \in 1..Len(st.written) : i \in 1..Len(w) \/ i = Len(w) + 1
      BY <2>1, <2>3
    <3>. QED
      BY <1>2, <1>7, <2>1, <2>3, <3>1
  <2>6. Len(st.chan) <= Room
    BY <1>1, <1>3, <2>3
  <2>7. st.written \o st.chan = Got(s)
    BY <1>1, <2>2, <2>3
  <2>. QED
    BY <1>1, <1>5, <1>6, <2>3, <2>4, <2>5, <2>6, <2>7, StreamStep
<1>8. CASE ~Wanted(s, x) /\ stream' = [stream EXCEPT ![s].chan = Tail(@)]
  <2> DEFINE st == [stream[s] EXCEPT !.chan = Tail(c)]
  <2>1. /\ st \in StreamState /\ st.pc = "open" /\ st.chan = Tail(c)
        /\ st.written = w /\ st.dropped = stream[s].dropped
    BY <1>1, <1>3, <1>5 DEF StreamState, w
  <2>2. stream' = [stream EXCEPT ![s] = st]
    BY <1>6, <1>8 DEF c
  <2>. HIDE DEF st
  <2>3. Len(st.chan) <= Room
    BY <1>1, <1>3, <2>1
  <2>4. ASSUME NEW e \in Event, Wanted(s, e)
        PROVE  Contains(st.written \o st.chan, e) <=> Contains(Got(s), e)
    <3>1. e # x
      BY <1>8, <2>4
    <3>. QED
      BY <1>1, <1>4, <2>1, <3>1
  <2>5. /\ LineOK(st.written \o st.chan, eventSeq, OverSeqs)
        /\ \A k : HasNumber(st.written \o st.chan, k) => HasNumber(Got(s), k)
        /\ \A i \in 1..Len(st.written) : Wanted(s, st.written[i])
    BY <1>1, <1>2, <1>4, <2>1
  <2>. QED
    BY <1>5, <1>6, <2>1, <2>2, <2>3, <2>4, <2>5, StreamStep
<1>9. CASE stream' = [stream EXCEPT ![s].chan = Tail(@), ![s].pc = "leaving"]
  <2> DEFINE st == [stream[s] EXCEPT !.chan = Tail(c), !.pc = "leaving"]
  <2>1. /\ st \in StreamState /\ st.pc = "leaving" /\ st.chan = Tail(c)
        /\ st.written = w /\ st.dropped = stream[s].dropped
    BY <1>1, <1>3 DEF StreamState, w
  <2>2. stream' = [stream EXCEPT ![s] = st]
    BY <1>6, <1>9 DEF c
  <2>. HIDE DEF st
  <2>3. Len(st.chan) <= Room
    BY <1>1, <1>3, <2>1
  <2>. QED
    BY <1>1, <1>2, <1>4, <1>5, <1>6, <2>1, <2>2, <2>3, StreamStep
<1>. QED
  BY <1>5, <1>7, <1>8, <1>9

-----------------------------------------------------------------------------
(* The process.                                                            *)

\* The bus of a process that has not begun, or is no more.
BusIsEmpty ==
  /\ eventSeq = 0 /\ flight = {} /\ subs = {} /\ over = {}
  /\ \E pc \in {"closed", "gone"} :
       stream = [s \in Stream |-> [NoStream EXCEPT !.pc = pc]]

LEMMA EmptyBus == BusIsEmpty => BusInv
<1>. SUFFICES ASSUME BusIsEmpty,
                     NEW pc \in {"closed", "gone"},
                     stream = [s \in Stream |-> [NoStream EXCEPT !.pc = pc]]
              PROVE  BusInv
  BY DEF BusIsEmpty
<1>1. \A s \in Stream : /\ stream[s].pc = pc /\ stream[s].chan = <<>>
                        /\ stream[s].written = <<>> /\ stream[s].dropped = {}
  BY DEF NoStream
<1>2. Len(<<>>) = 0 /\ <<>> \in Seq(Event) /\ <<>> \o <<>> = <<>> /\ 1..0 = {}
  BY EmptySeq, ConcatEmptySeq
<1>3. [NoStream EXCEPT !.pc = pc] \in StreamState
  BY <1>2 DEF NoStream, StreamState
<1>4. BusTypeOK
  BY <1>1, <1>2, <1>3, EventStreamAssumption DEF BusIsEmpty, BusTypeOK
<1>5. Numbered /\ Stages /\ NotYet /\ Served
  BY <1>1 DEF BusIsEmpty, Numbered, Stages, NotYet, Served, OverSeqs
<1>6. LineOK(<<>>, eventSeq, OverSeqs)
  BY <1>2 DEF LineOK
<1>7. LinesOK
  BY <1>1, <1>2, <1>6 DEF LinesOK, Got
<1>. QED
  BY <1>4, <1>5, <1>7 DEF BusInv

LEMMA BusUnchanged ==
  ASSUME BusInv, UNCHANGED busVars
  PROVE  BusInv'
<1>1. OverSeqs' = OverSeqs /\ \A s : Got(s)' = Got(s)
  BY DEF busVars, OverSeqs, Got
<1>2. BusTypeOK' /\ Numbered' /\ Stages' /\ NotYet'
  BY <1>1 DEF BusInv, busVars, BusTypeOK, Numbered, Stages, NotYet
<1>3. LinesOK' /\ Served'
  BY <1>1 DEF BusInv, busVars, LinesOK, Served, Delivered, Wanted
<1>. QED
  BY <1>2, <1>3 DEF BusInv

LEMMA InitIsGood == ServerInit => ServerInv
<1>. SUFFICES ASSUME ServerInit PROVE ServerInv
  OBVIOUS
<1>1. NoStream = [NoStream EXCEPT !.pc = "closed"]
  BY DEF NoStream
<1>2. BusInv
  BY <1>1, EmptyBus DEF ServerInit, BusInit, BusIsEmpty
<1>3. ServerTypeOK
  BY <1>2 DEF BusInv, ServerInit, ServerTypeOK
<1>. QED
  BY <1>2, <1>3 DEF ServerInv

\* Each step of a server keeps the bus in order.
LEMMA NextKeepsBus ==
  ASSUME BusInv, ServerNext
  PROVE  BusInv'
<1>1. CASE Listen \/ Signal \/ StopExpirer \/ BeginShutdown \/ EndShutdown \/ ServeReturns
  BY <1>1, BusUnchanged DEF Listen, Signal, StopExpirer, BeginShutdown, EndShutdown,
                            ServeReturns
<1>2. CASE MainReturns
  <2>1. BusIsEmpty'
    BY <1>2 DEF MainReturns, BusIsEmpty, NoStream
  <2>. QED
    BY <2>1, EmptyBus, PTL
<1>3. ASSUME NEW c \in Call, Accept(c) \/ Answer(c)
      PROVE  BusInv'
  BY <1>3, BusUnchanged DEF Accept, Answer
<1>4. ASSUME NEW e \in Emitter, Emit(e) \/ Bus(e)
      PROVE  BusInv'
  BY <1>4, DrawStep, StartBroadcastStep, SendStep, EndBroadcastStep DEF Emit, Bus, Broadcast
<1>5. ASSUME NEW s \in Stream, AcceptStream(s) \/ StreamTakesBus(s) \/ StreamWorks(s)
      PROVE  BusInv'
  BY <1>5, OpenStreamStep, SubscribeStep, UnsubscribeStep, WriteEventStep, LeaveStep
     DEF AcceptStream, StreamTakesBus, TakesBus, StreamWorks
<1>. QED
  BY <1>1, <1>2, <1>3, <1>4, <1>5 DEF ServerNext

\* The variables of the process have their types.
LEMMA NextKeepsTypes ==
  ASSUME ServerTypeOK, ServerNext
  PROVE  /\ main' \in {"starting", "serving", "stopped", "exited", "failed"}
         /\ signalled' \in BOOLEAN
         /\ drain' \in {"off", "waits", "done", "late"}
         /\ expirer' \in BOOLEAN
         /\ call' \in [Call -> {"none", "active", "answered", "cut"}]
<1>1. CASE Listen \/ Signal \/ StopExpirer \/ BeginShutdown \/ EndShutdown \/ ServeReturns
  BY <1>1 DEF ServerTypeOK, Listen, Signal, StopExpirer, BeginShutdown, EndShutdown,
              ServeReturns
<1>2. CASE MainReturns
  BY <1>2 DEF ServerTypeOK, MainReturns
<1>3. CASE \E c \in Call : Accept(c) \/ Answer(c)
  BY <1>3 DEF ServerTypeOK, Accept, Answer
<1>4. CASE UNCHANGED procVars
  BY <1>4 DEF ServerTypeOK, procVars
<1>. QED
  BY <1>1, <1>2, <1>3, <1>4
     DEF ServerNext, Emit, Bus, AcceptStream, StreamTakesBus, StreamWorks

\* The bus, the streams and the process stay consistent in every behaviour of a
\* server (notify.go, router.go:33, main.go).
THEOREM ServerInvariance == ServerSpec => []ServerInv
<1>1. ServerInv /\ [ServerNext]_vars => ServerInv'
  <2>. SUFFICES ASSUME ServerInv, [ServerNext]_vars PROVE ServerInv'
    OBVIOUS
  <2>1. CASE ServerNext
    <3>1. BusInv'
      BY <2>1, NextKeepsBus DEF ServerInv
    <3>. QED
      BY <2>1, <3>1, NextKeepsTypes DEF ServerInv, ServerTypeOK, BusInv
  <2>2. CASE UNCHANGED vars
    <3>1. BusInv'
      BY <2>2, BusUnchanged DEF ServerInv, vars, busVars
    <3>. QED
      BY <2>2, <3>1 DEF ServerInv, ServerTypeOK, BusInv, vars, procVars
  <2>. QED
    BY <2>1, <2>2
<1>. QED
  BY InitIsGood, <1>1, PTL DEF ServerSpec

\* The type invariant, which includes that no channel holds more than it can.
THEOREM ServerTypeCorrect == ServerSpec => []ServerTypeOK
<1>1. ServerInv => ServerTypeOK
  BY DEF ServerInv
<1>. QED
  BY <1>1, ServerInvariance, PTL

\* No client of a stream sees an event before one that was out when it was emitted,
\* although broadcasts overlap (service.go:335, notify.go:40).
THEOREM StreamsKeepOrder == ServerSpec => []OrderKept
<1>1. ServerInv => OrderKept
  BY DEF ServerInv, BusInv, LinesOK, LineOK, OrderKept
<1>. QED
  BY <1>1, ServerInvariance, PTL

\* An open stream has each event it should have once, and no other but what its own
\* full channel dropped is missing (notify.go:40-46, router.go:53-60).
THEOREM StreamsAreExact == ServerSpec => []StreamExact
<1>1. ServerInv => StreamExact
  <2>. SUFFICES ASSUME ServerInv, NEW s \in Stream, stream[s].pc = "open"
                PROVE  /\ \A b \in over : s \in b.to /\ Wanted(s, b.event) =>
                            (b.event.seq \in stream[s].dropped) # Contains(Got(s), b.event)
                       /\ IsInjective(Got(s))
                       /\ \A i \in 1..Len(stream[s].written) : Wanted(s, stream[s].written[i])
    BY DEF StreamExact
  <2>1. \A b \in over : s \in b.to /\ Wanted(s, b.event) =>
          (b.event.seq \in stream[s].dropped) # Contains(Got(s), b.event)
    BY DEF ServerInv, BusInv, Served, Delivered, Contains
  <2>2. IsInjective(Got(s))
    <3>1. LineOK(Got(s), eventSeq, OverSeqs) /\ DOMAIN Got(s) = 1..Len(Got(s))
          /\ Len(Got(s)) \in Nat
      BY LenProperties DEF ServerInv, BusInv, LinesOK, LineOK
    <3>. QED
      BY <3>1 DEF LineOK, IsInjective
  <2>3. \A i \in 1..Len(stream[s].written) : Wanted(s, stream[s].written[i])
    BY DEF ServerInv, BusInv, LinesOK
  <2>. QED
    BY <2>1, <2>2, <2>3
<1>. QED
  BY <1>1, ServerInvariance, PTL
=============================================================================
