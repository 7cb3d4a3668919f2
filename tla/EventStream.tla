----------------------------- MODULE EventStream -----------------------------
(***************************************************************************)
(* The event bus of lockd step by step (internal/lock/notify.go, emit of   *)
(* service.go) and its server-sent-event streams (handleEvents of          *)
(* internal/api/router.go).                                                *)
(*                                                                         *)
(* An event takes its number, then its broadcast holds the bus for reading *)
(* while it goes from subscriber to subscriber.  Broadcasts overlap; a     *)
(* stream that subscribes or leaves takes the bus for writing.  A stream's *)
(* client reads when it likes, or never.                                   *)
(***************************************************************************)
EXTENDS Naturals, Sequences, FiniteSets, SequencesExt

CONSTANTS
  Emitter,       \* goroutines that emit events
  Stream,        \* requests for /api/v1/events
  Namespace,
  AnyNamespace,  \* the empty namespace of a request: no filter
  Filter,        \* the namespace each stream asks for
  Room,          \* what a stream's channel holds (64 in the code)
  MaxEvent       \* bound: events emitted

ASSUME EventStreamAssumption ==
  /\ AnyNamespace \notin Namespace
  /\ Filter \in [Stream -> Namespace \cup {AnyNamespace}]
  /\ Room \in Nat \ {0}
  /\ MaxEvent \in Nat

VARIABLES
  eventSeq,  \* Service.eventSeq
  flight,    \* the events drawn whose broadcast is not over
  subs,      \* Bus.subs
  stream,    \* the goroutine of each stream
  over       \* history: the broadcasts that are over, and to whom they went

busVars == <<eventSeq, flight, subs, stream, over>>

-----------------------------------------------------------------------------
\* `after' (history): the numbers of the events that were over when this one was
\* drawn, and of those that its goroutine had drawn before.
Event == [seq : 1..MaxEvent, from : Emitter, ns : Namespace, after : SUBSET (1..MaxEvent)]

\* drawn: has its number; sending: holds the bus for reading, `left' to be served.
Flight == [event : Event, stage : {"drawn", "sending"}, left : SUBSET Stream,
           to : SUBSET Stream]

\* dropped (history): the numbers of the events for which there was no room.
StreamState == [pc : {"closed", "opening", "open", "leaving", "gone"}, chan : Seq(Event),
                written : Seq(Event), dropped : SUBSET (1..MaxEvent)]

NoStream == [pc |-> "closed", chan |-> <<>>, written |-> <<>>, dropped |-> {}]

BusInit ==
  /\ eventSeq = 0
  /\ flight = {}
  /\ subs = {}
  /\ stream = [s \in Stream |-> NoStream]
  /\ over = {}

-----------------------------------------------------------------------------
(* emit and Broadcast.                                                     *)

Emitting(e) == \E f \in flight : f.event.from = e

Drawn(e, ns) == [seq |-> eventSeq + 1, from |-> e, ns |-> ns,
                 after |-> {b.event.seq : b \in over}
                             \cup {f.event.seq : f \in {g \in flight : g.event.from = e}}]

\* Mutant: emit does not wait for its broadcast.
DrawEventAsync(e) ==
  /\ eventSeq < MaxEvent
  /\ \E ns \in Namespace :
       flight' = flight \cup {[event |-> Drawn(e, ns), stage |-> "drawn", left |-> {}, to |-> {}]}
  /\ eventSeq' = eventSeq + 1
  /\ UNCHANGED <<subs, stream, over>>

\* emit draws the event's number.
DrawEvent(e) ==
  /\ ~Emitting(e)
  /\ eventSeq < MaxEvent
  /\ \E ns \in Namespace :
       flight' = flight \cup {[event |-> Drawn(e, ns), stage |-> "drawn", left |-> {}, to |-> {}]}
  /\ eventSeq' = eventSeq + 1
  /\ UNCHANGED <<subs, stream, over>>

\* A writer that waits for the bus keeps new readers out (sync.RWMutex).
WriterWaits == \E s \in Stream : stream[s].pc \in {"opening", "leaving"}
NoReaders == \A f \in flight : f.stage # "sending"

StartBroadcast(e) ==
  /\ ~WriterWaits
  /\ \E f \in flight :
       /\ f.event.from = e /\ f.stage = "drawn"
       /\ flight' = (flight \ {f}) \cup {[f EXCEPT !.stage = "sending", !.left = subs, !.to = subs]}
  /\ UNCHANGED <<eventSeq, subs, stream, over>>

\* Mutants: the channel has no limit; the send waits for room; a full channel ends
\* the broadcast.
SendAlways(e) ==
  /\ \E f \in flight : \E s \in f.left :
       /\ f.event.from = e /\ f.stage = "sending"
       /\ stream' = [stream EXCEPT ![s].chan = Append(@, f.event)]
       /\ flight' = (flight \ {f}) \cup {[f EXCEPT !.left = @ \ {s}]}
  /\ UNCHANGED <<eventSeq, subs, over>>
SendBlocking(e) ==
  /\ \E f \in flight : \E s \in f.left :
       /\ f.event.from = e /\ f.stage = "sending"
       /\ Len(stream[s].chan) < Room
       /\ stream' = [stream EXCEPT ![s].chan = Append(@, f.event)]
       /\ flight' = (flight \ {f}) \cup {[f EXCEPT !.left = @ \ {s}]}
  /\ UNCHANGED <<eventSeq, subs, over>>
SendUntilFull(e) ==
  /\ \E f \in flight : \E s \in f.left :
       /\ f.event.from = e /\ f.stage = "sending"
       /\ IF Len(stream[s].chan) < Room
          THEN /\ stream' = [stream EXCEPT ![s].chan = Append(@, f.event)]
               /\ flight' = (flight \ {f}) \cup {[f EXCEPT !.left = @ \ {s}]}
          ELSE /\ stream' = [stream EXCEPT ![s].dropped = @ \cup {f.event.seq}]
               /\ flight' = (flight \ {f}) \cup {[f EXCEPT !.left = {}]}
  /\ UNCHANGED <<eventSeq, subs, over>>

\* The next subscriber, in any order, gets the event if its channel has room.
Send(e) ==
  /\ \E f \in flight : \E s \in f.left :
       /\ f.event.from = e /\ f.stage = "sending"
       /\ stream' = IF Len(stream[s].chan) < Room
                    THEN [stream EXCEPT ![s].chan = Append(@, f.event)]
                    ELSE [stream EXCEPT ![s].dropped = @ \cup {f.event.seq}]
       /\ flight' = (flight \ {f}) \cup {[f EXCEPT !.left = @ \ {s}]}
  /\ UNCHANGED <<eventSeq, subs, over>>

EndBroadcast(e) ==
  /\ \E f \in flight :
       /\ f.event.from = e /\ f.stage = "sending" /\ f.left = {}
       /\ flight' = flight \ {f}
       /\ over' = over \cup {[event |-> f.event, to |-> f.to]}
  /\ UNCHANGED <<eventSeq, subs, stream>>

Broadcast(e) == StartBroadcast(e) \/ Send(e) \/ EndBroadcast(e)

-----------------------------------------------------------------------------
(* handleEvents.                                                           *)

To(s, pc) == stream' = [stream EXCEPT ![s].pc = pc]

\* A request comes in and asks for the bus.
OpenStream(s) ==
  /\ stream[s].pc = "closed" /\ To(s, "opening")
  /\ UNCHANGED <<eventSeq, flight, subs, over>>

Subscribe(s) ==
  /\ stream[s].pc = "opening" /\ NoReaders
  /\ To(s, "open")
  /\ subs' = subs \cup {s}
  /\ UNCHANGED <<eventSeq, flight, over>>

\* Does stream s write e out?
Wanted(s, e) == Filter[s] \in {AnyNamespace, e.ns}

\* An event is taken from the channel and written, passed over, or the write fails.
WriteEvent(s) ==
  /\ stream[s].pc = "open" /\ stream[s].chan # <<>>
  /\ LET e == Head(stream[s].chan)
     IN \/ /\ Wanted(s, e)
           /\ stream' = [stream EXCEPT ![s].chan = Tail(@), ![s].written = Append(@, e)]
        \/ /\ ~Wanted(s, e)
           /\ stream' = [stream EXCEPT ![s].chan = Tail(@)]
        \/ /\ Wanted(s, e)
           /\ stream' = [stream EXCEPT ![s].chan = Tail(@), ![s].pc = "leaving"]
  /\ UNCHANGED <<eventSeq, flight, subs, over>>

\* The client has gone: the context is done, or a heartbeat cannot be written.
Leave(s) ==
  /\ stream[s].pc = "open" /\ To(s, "leaving")
  /\ UNCHANGED <<eventSeq, flight, subs, over>>

\* The deferred cancel; the channel is garbage.
Unsubscribe(s) ==
  /\ stream[s].pc = "leaving" /\ NoReaders
  /\ stream' = [stream EXCEPT ![s] = [NoStream EXCEPT !.pc = "gone"]]
  /\ subs' = subs \ {s}
  /\ UNCHANGED <<eventSeq, flight, over>>

\* What a stream's goroutine does of its own accord when it has the bus.
TakesBus(s) == Subscribe(s) \/ Unsubscribe(s)

-----------------------------------------------------------------------------
(* Properties.                                                             *)

BusTypeOK ==
  /\ eventSeq \in 0..MaxEvent
  /\ flight \subseteq Flight
  /\ subs \subseteq Stream
  /\ stream \in [Stream -> StreamState]
  /\ over \subseteq [event : Event, to : SUBSET Stream]
  /\ \A s \in Stream : Len(stream[s].chan) <= Room

\* What a stream has taken and what is on its way to it, in this order.
Got(s) == stream[s].written \o stream[s].chan

\* A client of a stream sees events in an order they can have happened in: one
\* that was emitted after another, by the same goroutine or when the other was
\* out, never comes before it, though numbers may come in any order otherwise
\* (service.go:335, notify.go:40).
OrderKept ==
  \A s \in Stream : \A i, j \in 1..Len(Got(s)) :
    i < j => Got(s)[j].seq \notin Got(s)[i].after

\* An open stream lacks no event: each one whose broadcast was over while it was
\* subscribed is written out, or still in its channel, or of another namespace, or
\* was dropped because this stream's own channel was full; none comes twice, and
\* none of another namespace is written (notify.go:40-46, router.go:53-60).
StreamExact ==
  \A s \in Stream : stream[s].pc = "open" =>
    /\ \A b \in over : s \in b.to /\ Wanted(s, b.event) =>
         (b.event.seq \in stream[s].dropped) # Contains(Got(s), b.event)
    /\ IsInjective(Got(s))
    /\ \A i \in 1..Len(stream[s].written) : Wanted(s, stream[s].written[i])
=============================================================================
