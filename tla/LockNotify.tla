------------------------------ MODULE LockNotify ------------------------------
(***************************************************************************)
(* The events of one lock and those who watch it: the bus of               *)
(* internal/lock/notify.go, Service.emit and Service.Watch (service.go),   *)
(* composed with LockService.                                              *)
(*                                                                         *)
(* expireLocked broadcasts with item.mu held, in the step of LockService   *)
(* that runs it.  All other events are emitted after item.mu was unlocked: *)
(* they lie in the outbox of the goroutine that is about to emit them, and *)
(* any step of the others may come first.  Broadcast holds the bus's       *)
(* read-lock and never blocks: a subscriber whose channel is full misses   *)
(* the event.                                                              *)
(***************************************************************************)
EXTENDS LockService

CONSTANTS
  Watcher,      \* goroutines, each of which serves one watch request
  Expirer,      \* the expirer goroutine, as an emitter of events
  WatchBuffer   \* room in a watcher's channel (8 in the code)

ASSUME NotifyAssumption ==
  /\ Expirer \notin Request
  /\ WatchBuffer \in Nat \ {0}

VARIABLES
  outbox,    \* the events each goroutine has still to emit
  watcher,   \* the watching goroutines
  sent       \* history: how often each kind of event was broadcast

notifyVars == <<outbox, watcher, sent>>

\* The kinds of event of this lock, and "other" for any event of another lock.
Kind == {"held", "released", "expired", "stolen", "purged"}

Emitter == Request \cup {Expirer}

\* look: subscribed, about to look the lock up; view: about to lock item.mu;
\* select: waiting for an event, having seen the lease `seen'.  `missed' is
\* history: an event that would have ended the watch found the channel full.
Watching == [pc     : {"idle", "look", "view", "select", "done"},
             chan   : Seq(Kind \cup {"other"}),
             now    : Nat,
             seen   : Token,
             missed : BOOLEAN]

\* The type invariant, with the bound of the watchers' channels.
NotifyTypeOK ==
  /\ outbox \in [Emitter -> Seq(Kind)]
  /\ watcher \in [Watcher -> Watching]
  /\ \A w \in Watcher : Len(watcher[w].chan) <= WatchBuffer
  /\ sent \in [Kind -> Nat]

\* A goroutine that is not watching has no channel and no locals.
NotWatching(place) ==
  [pc |-> place, chan |-> <<>>, now |-> 0, seen |-> NoToken, missed |-> FALSE]

NotifyInit ==
  /\ Init
  /\ outbox = [g \in Emitter |-> <<>>]
  /\ watcher = [w \in Watcher |-> NotWatching("idle")]
  /\ sent = [k \in Kind |-> 0]

-----------------------------------------------------------------------------
(* The bus.                                                                *)

\* Watch subscribes first and unsubscribes when it returns.
Subscribed(v) == v.pc \in {"look", "view", "select"}

\* Mutant: only a release ends a watch.
EndsWatchOnRelease(kind) == kind = "released"

\* Any event of this lock but "held" ends a watch.
EndsWatch(kind) == kind \in Kind \ {"held"}

\* Mutant: the channel has no bound.
ReceiveAlways(v, events) ==
  IF Subscribed(v) THEN [v EXCEPT !.chan = @ \o events] ELSE v

\* Events reach one subscriber, one after the other; those for which its channel
\* has no room are dropped.
Receive(v, events) ==
  LET room  == WatchBuffer - Len(v.chan)
      taken == IF Len(events) < room THEN Len(events) ELSE room
      lost  == (taken + 1)..Len(events)
  IN IF ~Subscribed(v) THEN v
     ELSE [v EXCEPT !.chan = @ \o SubSeq(events, 1, taken),
                    !.missed = @ \/ \E i \in lost : EndsWatch(events[i])]

\* How many of the events are of a kind.
CountOf(kind, events) == Cardinality({i \in 1..Len(events) : events[i] = kind})

\* A sequence of events is broadcast.
Broadcast(events) ==
  /\ watcher' = [w \in Watcher |-> Receive(watcher[w], events)]
  /\ sent' = [k \in Kind |-> sent[k] + CountOf(k, events)]

\* A goroutine emits the first of its events.
Emit(g) ==
  /\ outbox[g] # <<>>
  /\ outbox' = [outbox EXCEPT ![g] = Tail(@)]
  /\ Broadcast(<<Head(outbox[g])>>)
  /\ UNCHANGED vars

\* Another lock's event goes to everybody; it is of no use to a watcher.
OtherLock ==
  /\ Broadcast(<<"other">>)
  /\ UNCHANGED <<vars, outbox>>

-----------------------------------------------------------------------------
(* What the steps of LockService emit.                                     *)

\* A waiter is granted the lock in this step.
Grants == \E q \in Request : waiter'[q].granted /\ ~waiter[q].granted

\* The "held" event of the waiter that was granted the lock, if there was one.
HeldByNext == IF Grants THEN <<"held">> ELSE <<>>

\* Mutant: a hand-over by expiry is not announced.
ExpiryEventsNoHeld(now) ==
  IF Expires(item, now) /\ item'.token # item.token THEN <<"expired">> ELSE <<>>

\* expireLocked, when this step ran it and the lease had expired: tokens do not
\* repeat, so the token changed.
ExpiryEvents(now) ==
  IF Expires(item, now) /\ item'.token # item.token
  THEN <<"expired">> \o HeldByNext ELSE <<>>

\* What a call emits after it unlocked the record, by what it answers.
LateEvents(code) ==
  CASE code \in {"acquired", "reentered"} -> <<"held">>
    [] code = "released"                  -> <<"released">> \o HeldByNext
    [] code = "stolen"                    -> <<"stolen">>
    [] code = "deleted"                   -> <<"purged">>
    [] OTHER                              -> <<>>

\* A call runs its critical section.  Steal does not run expireLocked.
Section(p) ==
  /\ pc[p] = "enter"
  /\ Proceed(p)
  /\ Broadcast(IF call[p].op = "steal" THEN <<>> ELSE ExpiryEvents(call[p].now))
  /\ outbox' = [outbox EXCEPT ![p] = LateEvents(reply'[p].code)]

\* The end of a wait emits nothing: who granted the lease did.
EndOfWait(p) == Wait(p) /\ UNCHANGED notifyVars

\* A call starts; the tokens it may present were returned to their owners, who
\* had to emit their events first.
StartCall(p) ==
  /\ Start(p)
  /\ LET t == call'[p].token IN t # NoToken => outbox[t] = <<>>
  /\ UNCHANGED notifyVars

\* The expirer's pass, and its next tick after it has emitted what it had to.
ScanPass ==
  /\ ExpirerScan
  /\ Broadcast(ExpiryEvents(expirer.now))
  /\ outbox' = [outbox EXCEPT ![Expirer] =
                  IF item'.deleted /\ ~item.deleted THEN <<"purged">> ELSE <<>>]

ScanTick == outbox[Expirer] = <<>> /\ ExpirerTick /\ UNCHANGED notifyVars

-----------------------------------------------------------------------------
(* Watch.                                                                  *)

\* The goroutine of watcher w goes on as v.
Watches(w, v) ==
  /\ watcher' = [watcher EXCEPT ![w] = v]
  /\ UNCHANGED <<vars, outbox, sent>>

WatchSubscribe(w) ==
  /\ watcher[w].pc = "idle"
  /\ clock <= LastStart
  /\ Watches(w, NotWatching("look"))

\* registry.Get finds the record unless it was removed, then reads the clock.
WatchLook(w) ==
  /\ watcher[w].pc = "look"
  /\ Watches(w, IF item.deleted THEN NotWatching("done")
                ELSE [watcher[w] EXCEPT !.pc = "view", !.now = clock])

\* Mutant: the subscription is made in a step after the lock was looked at, so
\* that what arrived in between is gone.
WatchViewFirst(w) ==
  /\ watcher[w].pc = "view"
  /\ LET v    == watcher[w]
         held == /\ ~item.deleted
                 /\ item.token # NoToken
                 /\ v.now < item.expiresAt
     IN \/ /\ v.seen = NoToken
           /\ Watches(w, IF held THEN [v EXCEPT !.seen = item.token] ELSE NotWatching("done"))
        \/ /\ v.seen # NoToken
           /\ Watches(w, [NotWatching("select") EXCEPT !.seen = v.seen])

\* The record was deleted meanwhile, or has no lease that lasts beyond now: the
\* watch is over at once.  Otherwise it waits.
WatchView(w) ==
  /\ watcher[w].pc = "view"
  /\ LET held == /\ ~item.deleted
                 /\ item.token # NoToken
                 /\ watcher[w].now < item.expiresAt
     IN Watches(w, IF held
                   THEN [watcher[w] EXCEPT !.pc = "select", !.seen = item.token, !.now = 0]
                   ELSE NotWatching("done"))

\* An event is taken from the channel; it ends the watch or is passed over.
WatchEvent(w) ==
  /\ watcher[w].pc = "select"
  /\ watcher[w].chan # <<>>
  /\ Watches(w, IF EndsWatch(Head(watcher[w].chan)) THEN NotWatching("done")
                ELSE [watcher[w] EXCEPT !.chan = Tail(@)])

\* The client leaves or the watch's timeout runs out.
WatchCtxDone(w) == watcher[w].pc = "select" /\ Watches(w, NotWatching("done"))

Watch(w) == WatchLook(w) \/ WatchView(w) \/ WatchEvent(w)

NotifyNext ==
  \/ \E p \in Request :
       StartCall(p) \/ Section(p) \/ EndOfWait(p) \/ (CtxDone(p) /\ UNCHANGED notifyVars)
  \/ ScanPass
  \/ ScanTick
  \/ (Tick /\ UNCHANGED notifyVars)
  \/ \E g \in Emitter : Emit(g)
  \/ \E w \in Watcher : WatchSubscribe(w) \/ Watch(w) \/ WatchCtxDone(w)
  \/ OtherLock

allVars == <<vars, notifyVars>>

NotifySpec == NotifyInit /\ [][NotifyNext]_allVars

-----------------------------------------------------------------------------
(* Properties.                                                             *)

\* The events of a kind that wait in the outboxes.
Pending(kind) ==
  UNION {{g} \X {i \in 1..Len(outbox[g]) : outbox[g][i] = kind} : g \in Emitter}

\* The events of a kind that were sent or will be.
Announced(kind) == sent[kind] + Cardinality(Pending(kind))

\* A watch that goes on has missed nothing: the lease it saw is still there, or
\* an event that will end the watch is in its channel or in somebody's outbox
\* (service.go:227: it subscribes before it looks), unless one was dropped.
NoMissedEnd ==
  \A w \in Watcher :
    LET v == watcher[w]
    IN v.pc = "select" /\ ~v.missed =>
         \/ item.token = v.seen
         \/ \E i \in 1..Len(v.chan) : EndsWatch(v.chan[i])
         \/ \E g \in Emitter : \E i \in 1..Len(outbox[g]) : EndsWatch(outbox[g][i])

\* Every lease that began is announced once: by "held", or by "stolen" when the
\* lock was seized; and so is every re-entry.
Owners == {p \in Request : \/ reply[p].code \in {"acquired", "stolen"}
                           \/ Blocked(p) /\ waiter[p].granted}
Reentries == {p \in Request : reply[p].code = "reentered"}

EveryLeaseAnnounced ==
  Announced("held") + Announced("stolen") = Cardinality(Owners) + Cardinality(Reentries)

\* Nobody has anything to emit who has not yet been through the section that
\* leaves it something.
OutboxesEmpty ==
  /\ \A p \in Request : pc[p] # "done" => outbox[p] = <<>>
  /\ expirer.pc = "scan" => outbox[Expirer] = <<>>

\* What is seen by a watch is a lease.
SeesLease == \A w \in Watcher : watcher[w].pc = "select" => watcher[w].seen # NoToken

\* Goroutines that run are scheduled; nobody has to start a watch or leave one.
NotifyFairness ==
  /\ \A p \in Request : WF_allVars(Section(p) \/ EndOfWait(p))
  /\ \A g \in Emitter : WF_allVars(Emit(g))
  /\ \A w \in Watcher : WF_allVars(Watch(w))
  /\ WF_allVars(ScanTick)
  /\ WF_allVars(ScanPass)
  /\ WF_allVars(Tick /\ UNCHANGED notifyVars)

FairNotifySpec == NotifySpec /\ NotifyFairness

\* Once the calls have dried up, only a lease that outlasts the clock's bound, or
\* an event that was dropped, keeps a watch going.
WatchersAreTold ==
  \A w \in Watcher :
    <>[](watcher[w].pc = "select" =>
           \/ watcher[w].missed
           \/ item.token # NoToken /\ item.expiresAt > MaxClock)
=============================================================================
