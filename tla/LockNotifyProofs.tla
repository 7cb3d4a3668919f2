--------------------------- MODULE LockNotifyProofs ---------------------------
(***************************************************************************)
(* Proofs about the events of a lock: composing the bus and the watchers   *)
(* with the service leaves the service as it is, no watch goes on that has *)
(* missed the end of the lease it saw, and every lease is announced once.  *)
(***************************************************************************)
EXTENDS LockNotify, LockHistoryProofs

-----------------------------------------------------------------------------
(* The service inside.                                                     *)

\* What the bus and the watchers add to the steps of LockService takes nothing
\* from them and adds no step to them: LockNotify behaves as LockService does.
THEOREM NotifyIsService == NotifySpec => Spec
<1>1. NotifyInit => Init
  BY DEF NotifyInit
<1>2. [NotifyNext]_allVars => [Next]_vars
  <2>. SUFFICES ASSUME [NotifyNext]_allVars PROVE Next \/ UNCHANGED vars
    OBVIOUS
  <2>1. CASE \E p \in Request :
               StartCall(p) \/ Section(p) \/ EndOfWait(p) \/ (CtxDone(p) /\ UNCHANGED notifyVars)
    BY <2>1 DEF Next, StartCall, Section, EndOfWait, Proceed
  <2>2. CASE ScanPass \/ ScanTick \/ (Tick /\ UNCHANGED notifyVars)
    BY <2>2 DEF Next, ScanPass, ScanTick
  <2>3. CASE (\E g \in Emitter : Emit(g)) \/ OtherLock \/ UNCHANGED allVars
    BY <2>3 DEF Emit, OtherLock, allVars
  <2>4. CASE \E w \in Watcher : WatchSubscribe(w) \/ Watch(w) \/ WatchCtxDone(w)
    <3>1. \A w \in Watcher : \A v : Watches(w, v) => UNCHANGED vars
      BY DEF Watches
    <3>. QED
      BY <2>4, <3>1 DEF WatchSubscribe, Watch, WatchLook, WatchView, WatchEvent, WatchCtxDone
  <2>. QED
    BY <2>1, <2>2, <2>3, <2>4 DEF NotifyNext
<1>. QED
  BY <1>1, <1>2, PTL DEF NotifySpec, Spec

-----------------------------------------------------------------------------
(* The bus.                                                                *)

AnyKind == Kind \cup {"other"}

\* An event that ends a watch is among those of a sequence.
HasEnd(events) == \E i \in 1..Len(events) : EndsWatch(events[i])

\* The first n of the events of sequence b are put at the end of channel a.
Taking(a, b, n) == a \o SubSeq(b, 1, n)

LEMMA TakeLemma ==
  ASSUME NEW S, NEW a \in Seq(S), NEW b \in Seq(S), NEW n \in 0..Len(b)
  PROVE  LET c == Taking(a, b, n)
         IN /\ c \in Seq(S)
            /\ Len(c) = Len(a) + n
            /\ \A i \in 1..Len(a) : i \in 1..Len(c) /\ c[i] = a[i]
            /\ \A i \in 1..n : Len(a) + i \in 1..Len(c) /\ c[Len(a) + i] = b[i]
<1>. DEFINE f == SubSeq(b, 1, n)
<1>1. Len(a) \in Nat /\ Len(b) \in Nat /\ n \in Nat
  BY LenProperties
<1>2. f \in Seq(S) /\ Len(f) = n /\ \A i \in 1..n : f[i] = b[i]
  <2>1. \A i \in 1..n : b[i] \in S
    BY <1>1, ElementOfSeq
  <2>2. \A i \in 1..n : 1 + i - 1 = i /\ i \in 1..(n - 1 + 1)
    BY <1>1
  <2>. QED
    BY <1>1, <2>1, <2>2, SubSeqProperties
<1>. HIDE DEF f
<1>3. /\ a \o f \in Seq(S)
      /\ Len(a \o f) = Len(a) + n
      /\ \A i \in 1..(Len(a) + n) : (a \o f)[i] = IF i <= Len(a) THEN a[i] ELSE f[i - Len(a)]
  BY <1>2, ConcatProperties
<1>4. ASSUME NEW i \in 1..Len(a) PROVE i \in 1..(Len(a) + n) /\ (a \o f)[i] = a[i]
  BY <1>1, <1>3
<1>5. ASSUME NEW i \in 1..n
      PROVE  Len(a) + i \in 1..(Len(a) + n) /\ (a \o f)[Len(a) + i] = b[i]
  <2>1. Len(a) + i \in 1..(Len(a) + n) /\ ~(Len(a) + i <= Len(a)) /\ (Len(a) + i) - Len(a) = i
    BY <1>1
  <2>. QED
    BY <1>2, <1>3, <2>1
<1>. QED
  BY <1>3, <1>4, <1>5 DEF f, Taking

\* What a subscriber's channel holds stays in it, in bounds; an event that ends
\* its watch gets into it or is noted as missed.
LEMMA ReceiveLemma ==
  ASSUME NEW v \in Watching, Len(v.chan) <= WatchBuffer, NEW events \in Seq(AnyKind)
  PROVE  LET r == Receive(v, events)
         IN /\ r \in Watching
            /\ Len(r.chan) <= WatchBuffer
            /\ r.pc = v.pc /\ r.seen = v.seen
            /\ v.missed => r.missed
            /\ HasEnd(v.chan) => HasEnd(r.chan)
            /\ v.pc = "select" /\ HasEnd(events) => r.missed \/ HasEnd(r.chan)
<1>. DEFINE room  == WatchBuffer - Len(v.chan)
            taken == IF Len(events) < room THEN Len(events) ELSE room
            chan  == Taking(v.chan, events, taken)
            miss  == v.missed \/ \E i \in (taken + 1)..Len(events) : EndsWatch(events[i])
            full  == [v EXCEPT !.chan = chan, !.missed = miss]
<1>1. v.chan \in Seq(AnyKind) /\ v.missed \in BOOLEAN
  BY DEF Watching, AnyKind
<1>2. Len(v.chan) \in Nat /\ Len(events) \in Nat /\ WatchBuffer \in Nat
  BY <1>1, LenProperties, NotifyAssumption
<1>3. taken \in 0..Len(events) /\ Len(v.chan) + taken <= WatchBuffer
  <2>1. \A m, n, k \in Nat :
          n <= k => LET t == IF m < k - n THEN m ELSE k - n
                    IN t \in 0..m /\ n + t <= k
    OBVIOUS
  <2>. QED
    BY <1>2, <2>1
<1>4. Receive(v, events) = IF Subscribed(v) THEN full ELSE v
  BY DEF Receive, Taking
<1>. HIDE DEF taken
<1>5. /\ chan \in Seq(AnyKind)
      /\ Len(chan) = Len(v.chan) + taken
      /\ \A i \in 1..Len(v.chan) : i \in 1..Len(chan) /\ chan[i] = v.chan[i]
      /\ \A i \in 1..taken :
           Len(v.chan) + i \in 1..Len(chan) /\ chan[Len(v.chan) + i] = events[i]
  BY <1>1, <1>3, TakeLemma
<1>6. miss \in BOOLEAN
  BY <1>1
<1>7. HasEnd(v.chan) => HasEnd(chan)
  BY <1>5 DEF HasEnd
<1>8. ASSUME HasEnd(events), ~miss PROVE HasEnd(chan)
  <2>1. PICK i \in 1..Len(events) : EndsWatch(events[i])
    BY <1>8 DEF HasEnd
  <2>2. i \in 1..taken
    BY <1>2, <1>3, <1>8, <2>1
  <2>. QED
    BY <1>5, <2>1, <2>2 DEF HasEnd
<1>9. v.missed => miss
  OBVIOUS
<1>. HIDE DEF chan, miss
<1>10. full \in Watching /\ full.chan = chan /\ full.missed = miss
       /\ full.pc = v.pc /\ full.seen = v.seen
  BY <1>5, <1>6 DEF Watching, AnyKind
<1>. HIDE DEF full
<1>11. Len(chan) <= WatchBuffer
  BY <1>3, <1>5
<1>12. v.pc = "select" => Subscribed(v)
  BY DEF Subscribed
<1>. QED
  BY <1>4, <1>7, <1>8, <1>9, <1>10, <1>11, <1>12

\* The number of events of a kind is a number.
LEMMA CountOfLemma ==
  ASSUME NEW S, NEW events \in Seq(S), NEW kind
  PROVE  /\ CountOf(kind, events) \in Nat
         /\ IsFiniteSet({i \in 1..Len(events) : events[i] = kind})
<1>1. Len(events) \in Nat
  BY LenProperties
<1>2. IsFiniteSet(1..Len(events))
  BY <1>1, FS_Interval
<1>. QED
  BY <1>2, FS_Subset, FS_CardinalityType DEF CountOf

-----------------------------------------------------------------------------
(* What the steps of the service emit.                                     *)

LEMMA EventsType ==
  /\ \A code : LateEvents(code) \in Seq(Kind)
  /\ \A now : ExpiryEvents(now) \in Seq(Kind)
  /\ HeldByNext \in Seq(Kind)
  /\ \A kind \in Kind : <<kind>> \in Seq(Kind)
<1>1. /\ "held" \in Kind /\ "released" \in Kind /\ "stolen" \in Kind /\ "purged" \in Kind
      /\ "expired" \in Kind
  BY DEF Kind
<1>2. \A a, b \in Kind : <<>> \in Seq(Kind) /\ <<a>> \in Seq(Kind) /\ <<a, b>> \in Seq(Kind)
  OBVIOUS
<1>3. HeldByNext \in Seq(Kind)
  BY <1>1, <1>2 DEF HeldByNext
<1>4. <<"released">> \o HeldByNext \in Seq(Kind) /\ <<"expired">> \o HeldByNext \in Seq(Kind)
  BY <1>1, <1>2, <1>3, ConcatProperties
<1>5. ASSUME NEW code PROVE LateEvents(code) \in Seq(Kind)
  BY <1>1, <1>2, <1>4 DEF LateEvents
<1>6. ASSUME NEW now PROVE ExpiryEvents(now) \in Seq(Kind)
  BY <1>1, <1>2, <1>4 DEF ExpiryEvents
<1>. QED
  BY <1>2, <1>3, <1>5, <1>6

\* The events that begin with one that ends a watch.
LEMMA EventsThatEnd ==
  /\ HasEnd(LateEvents("released")) /\ HasEnd(LateEvents("stolen")) /\ HasEnd(LateEvents("deleted"))
  /\ \A now : Expires(item, now) /\ item'.token # item.token => HasEnd(ExpiryEvents(now))
<1>1. ASSUME NEW kind \in Kind \ {"held"}
      PROVE  HasEnd(<<kind>>) /\ HasEnd(<<kind>> \o HeldByNext)
  <2>1. <<kind>> \in Seq(Kind) /\ Len(<<kind>>) = 1 /\ <<kind>>[1] = kind
    OBVIOUS
  <2>2. Len(HeldByNext) \in Nat /\ HeldByNext \in Seq(Kind)
    BY EventsType, LenProperties
  <2>3. Len(<<kind>> \o HeldByNext) = 1 + Len(HeldByNext)
    BY <2>1, <2>2, ConcatProperties
  <2>4. 1 \in 1..(1 + Len(HeldByNext)) /\ 1 <= Len(<<kind>>)
    BY <2>1, <2>2
  <2>5. (<<kind>> \o HeldByNext)[1] = kind
    BY <2>1, <2>2, <2>4, ConcatProperties
  <2>. QED
    BY <1>1, <2>1, <2>3, <2>4, <2>5 DEF HasEnd, EndsWatch
<1>2. /\ "released" \in Kind \ {"held"} /\ "stolen" \in Kind \ {"held"}
      /\ "purged" \in Kind \ {"held"} /\ "expired" \in Kind \ {"held"}
  BY DEF Kind
<1>. QED
  BY <1>1, <1>2 DEF LateEvents, ExpiryEvents

\* A call that ends a lease answers so or found that it had expired.
LEMMA SectionEndsLease ==
  ASSUME IInv, ~RandMayFail, NEW p \in Request, pc[p] = "enter", Proceed(p),
         item.token # NoToken, item'.token # item.token
  PROVE  \/ call[p].op # "steal" /\ Expires(item, call[p].now)
         \/ reply'[p].code \in {"released", "stolen", "deleted"}
<1>1. /\ item \in Record /\ State.item = item /\ State \in LockState
      /\ call[p].now \in Nat
  BY CallType, StateIsGood DEF IInv, TypeOK, State, GoodState
<1>2. ~item.deleted
  BY DEF IInv, DeletedIsEmpty
<1>3. \A s : \A code, token : Answer(p, s, code, token) => item' = s.item /\ reply'[p].code = code
  BY DEF Answer, Becomes, Finish, IInv, TypeOK
<1>4. CASE Acquire(p) \/ Renew(p) \/ Release(p) \/ DeleteSection(p)
  <2>0. SUFFICES ASSUME ~Expires(item, call[p].now)
                PROVE  reply'[p].code \in {"released", "stolen", "deleted"}
    BY <1>4 DEF Acquire, AcquireRejected, AcquireFree, AcquireReenter, AcquireLocked,
              AcquireEnqueue, AcquireProceeds, Renew, RenewNotHeld, RenewHeld, Release, ReleaseRefused,
              ReleaseExpired, ReleaseHeld, DeleteSection, Enters
  <2>1. ExpireLocked(State, call[p].now) = {State}
    BY <1>1, <2>0 DEF ExpireLocked
  <2>2. CASE Acquire(p)
    <3>1. [item EXCEPT !.queue = Push(@, p)].token = item.token
      BY <1>1 DEF Record
    <3>2. \A ttl, now : [State EXCEPT !.item = DeeperLease(@, ttl, now)].item.token = item.token
      BY <1>1 DEF State, Record, DeeperLease
    <3>3. ~AcquireRejected(p)
      BY <1>1, <1>3 DEF AcquireRejected
    <3>4. ~AcquireFree(p)
      BY <1>1, <2>1 DEF AcquireFree, Available
    <3>5. ~AcquireReenter(p)
      <4>1. AcquireReenter(p) =>
              \/ item' = State.item
              \/ item' = [State EXCEPT !.item = DeeperLease(@, NormalTTL(call[p].ttl),
                                                           call[p].now)].item
        BY <2>1 DEF AcquireReenter, Answer, Becomes
      <4>. QED
        BY <1>1, <3>2, <4>1
    <3>6. ~AcquireLocked(p)
      BY <1>1, <1>3, <2>1 DEF AcquireLocked
    <3>7. ~AcquireEnqueue(p)
      <4>1. AcquireEnqueue(p) => item' = [State.item EXCEPT !.queue = Push(@, p)]
        BY <2>1 DEF AcquireEnqueue
      <4>. QED
        BY <1>1, <3>1, <4>1
    <3>. QED
      BY <2>2, <3>3, <3>4, <3>5, <3>6, <3>7 DEF Acquire
  <2>3. CASE Renew(p)
    <3>1. \A n : [State EXCEPT !.item.expiresAt = n].item.token = item.token
      BY <1>1 DEF State, Record
    <3>. QED
      BY <1>1, <1>3, <2>0, <2>3, <3>1 DEF Renew, RenewNotHeld, RenewHeld
  <2>4. CASE Release(p)
    <3>1. \A now : [State EXCEPT !.item = ShallowerLease(@, now)].item.token = item.token
      BY <1>1 DEF State, Record, ShallowerLease
    <3>. QED
      BY <1>1, <1>3, <2>0, <2>4, <3>1 DEF Release, ReleaseRefused, ReleaseExpired, ReleaseHeld
  <2>5. CASE DeleteSection(p)
    BY <1>1, <1>2, <1>3, <2>1, <2>5 DEF DeleteSection
  <2>. QED
    BY <1>4, <2>2, <2>3, <2>4, <2>5
<1>5. CASE StealSection(p)
  BY <1>1, <1>3, <1>5 DEF StealSection
<1>6. ~Wait(p)
  BY DEF Wait, WaitOutcome, WaitCtxDone, AbortWait
<1>. QED
  BY <1>4, <1>5, <1>6 DEF Proceed

\* The same for a pass of the expirer.
LEMMA ScanEndsLease ==
  ASSUME IInv, ExpirerScan, item'.token # item.token
  PROVE  Expires(item, expirer.now)
<1>. SUFFICES ASSUME ~Expires(item, expirer.now) PROVE FALSE
  OBVIOUS
<1>1. item \in Record /\ State.item = item /\ ExpireLocked(State, expirer.now) = {State}
  BY DEF IInv, TypeOK, State, ExpireLocked
<1>2. [State EXCEPT !.item.deleted = TRUE].item.token = item.token
  BY <1>1 DEF State, Record
<1>. QED
  BY <1>1, <1>2 DEF ExpirerScan, Becomes
\* A call that went through its critical section has returned, or it waits and
\* has been told nothing.
LEMMA SectionLeaves ==
  ASSUME IInv, NEW p \in Request, pc[p] = "enter", Proceed(p)
  PROVE  pc'[p] = "done" \/ (AcquireEnqueue(p) /\ reply' = reply)
<1>1. pc \in [Request -> Place]
  BY TypesAtHand
<1>2. \A s, code, token : Answer(p, s, code, token) => pc'[p] = "done"
  BY <1>1 DEF Answer, Finish
<1>3. ~Wait(p)
  BY DEF Wait, WaitOutcome, WaitCtxDone, AbortWait
<1>4. CASE AcquireEnqueue(p)
  BY <1>4 DEF AcquireEnqueue
<1>5. CASE Acquire(p) /\ ~AcquireEnqueue(p)
  BY <1>2, <1>5, Zenon DEF Acquire, AcquireRejected, AcquireFree, AcquireReenter, AcquireLocked
<1>6. CASE Renew(p) \/ Release(p)
  BY <1>2, <1>6, Zenon DEF Renew, RenewNotHeld, RenewHeld, Release, ReleaseRefused, ReleaseExpired,
                           ReleaseHeld
<1>7. CASE StealSection(p) \/ DeleteSection(p)
  BY <1>2, <1>7, Zenon DEF StealSection, DeleteSection
<1>. QED
  BY <1>3, <1>4, <1>5, <1>6, <1>7 DEF Proceed

-----------------------------------------------------------------------------
(* The watchers.                                                           *)

\* What a broadcast does to a watcher.
LEMMA BroadcastLemma ==
  ASSUME NotifyTypeOK, NEW events \in Seq(AnyKind), Broadcast(events), NEW w \in Watcher
  PROVE  /\ watcher'[w] \in Watching
         /\ Len(watcher'[w].chan) <= WatchBuffer
         /\ watcher'[w].pc = watcher[w].pc /\ watcher'[w].seen = watcher[w].seen
         /\ watcher[w].missed => watcher'[w].missed
         /\ HasEnd(watcher[w].chan) => HasEnd(watcher'[w].chan)
         /\ watcher[w].pc = "select" /\ HasEnd(events)
              => watcher'[w].missed \/ HasEnd(watcher'[w].chan)
<1>1. watcher[w] \in Watching /\ Len(watcher[w].chan) <= WatchBuffer
  BY DEF NotifyTypeOK
<1>2. watcher'[w] = Receive(watcher[w], events)
  BY DEF Broadcast
<1>. QED
  BY <1>1, <1>2, ReceiveLemma

\* Broadcasts keep the types.
LEMMA BroadcastTypes ==
  ASSUME NotifyTypeOK, NEW events \in Seq(AnyKind), Broadcast(events),
         outbox' \in [Emitter -> Seq(Kind)]
  PROVE  NotifyTypeOK'
<1>1. sent' \in [Kind -> Nat]
  <2>1. \A k \in Kind : CountOf(k, events) \in Nat
    BY CountOfLemma
  <2>2. \A k \in Kind : sent[k] + CountOf(k, events) \in Nat
    BY <2>1 DEF NotifyTypeOK
  <2>. QED
    BY <2>2 DEF Broadcast
<1>2. watcher' \in [Watcher -> Watching]
  BY BroadcastLemma DEF Broadcast
<1>3. \A w \in Watcher : Len(watcher'[w].chan) <= WatchBuffer
  BY BroadcastLemma
<1>. QED
  BY <1>1, <1>2, <1>3 DEF NotifyTypeOK

\* A watch stays in touch with its lease: the lease is there, or its end is on
\* the way to the watcher.
InTouch(w) ==
  watcher[w].pc = "select" /\ ~watcher[w].missed =>
    \/ item.token = watcher[w].seen
    \/ HasEnd(watcher[w].chan)
    \/ \E g \in Emitter : HasEnd(outbox[g])

LEMMA NoMissedEndForm == NoMissedEnd <=> \A w \in Watcher : InTouch(w)
BY DEF NoMissedEnd, InTouch, HasEnd

\* A step that broadcasts, empties an outbox only by broadcasting what was in it,
\* and ends a lease only with an event that says so.
LEMMA BroadcastWatch ==
  ASSUME NotifyTypeOK, SeesLease, NEW events \in Seq(AnyKind), Broadcast(events)
  PROVE  /\ SeesLease'
         /\ /\ NoMissedEnd
            /\ \A g \in Emitter : HasEnd(outbox[g]) => HasEnd(outbox'[g]) \/ HasEnd(events)
            /\ item.token # NoToken /\ item'.token # item.token =>
                 HasEnd(events) \/ \E g \in Emitter : HasEnd(outbox'[g])
            => NoMissedEnd'
<1>1. SeesLease'
  BY BroadcastLemma DEF SeesLease
<1>2. ASSUME NoMissedEnd, NEW w \in Watcher,
             \A g \in Emitter : HasEnd(outbox[g]) => HasEnd(outbox'[g]) \/ HasEnd(events),
             item.token # NoToken /\ item'.token # item.token =>
               HasEnd(events) \/ \E g \in Emitter : HasEnd(outbox'[g])
      PROVE  InTouch(w)'
  <2>1. InTouch(w)
    BY <1>2, NoMissedEndForm
  <2>2. watcher[w].pc = "select" => watcher[w].seen # NoToken
    BY DEF SeesLease
  <2>3. InTouch(w)' <=>
          (watcher'[w].pc = "select" /\ ~watcher'[w].missed =>
             \/ item'.token = watcher'[w].seen
             \/ HasEnd(watcher'[w].chan)
             \/ \E g \in Emitter : HasEnd(outbox'[g]))
    BY DEF InTouch, HasEnd, EndsWatch, Kind, Emitter
  <2>. QED
    BY <1>2, <2>1, <2>2, <2>3, BroadcastLemma DEF InTouch
<1>3. (\A w \in Watcher : InTouch(w)') => NoMissedEnd'
  BY DEF NoMissedEnd, InTouch, HasEnd
<1>. QED
  BY <1>1, <1>2, <1>3

\* A step of the service that the watchers do not see and that ends no lease.
LEMMA QuietWatch ==
  ASSUME NotifyTypeOK, SeesLease, UNCHANGED notifyVars
  PROVE  /\ NotifyTypeOK' /\ SeesLease'
         /\ NoMissedEnd /\ item'.token = item.token => NoMissedEnd'
BY DEF NotifyTypeOK, SeesLease, NoMissedEnd, notifyVars

\* A watcher's own step: it is not in its select, or has seen the lease there, or
\* has what it had but for an event that does not end its watch.
LEMMA WatchesLemma ==
  ASSUME NotifyTypeOK, SeesLease, NEW w \in Watcher,
         NEW v \in Watching, Len(v.chan) <= WatchBuffer, Watches(w, v)
  PROVE  /\ NotifyTypeOK'
         /\ (v.pc = "select" => v.seen # NoToken) => SeesLease'
         /\ /\ NoMissedEnd
            /\ v.pc = "select" => \/ v.seen = item.token
                                  \/ /\ watcher[w].pc = "select"
                                     /\ v.seen = watcher[w].seen
                                     /\ watcher[w].missed => v.missed
                                     /\ HasEnd(watcher[w].chan) => HasEnd(v.chan)
            => NoMissedEnd'
<1>1. /\ watcher' = [watcher EXCEPT ![w] = v] /\ watcher \in [Watcher -> Watching]
      /\ UNCHANGED <<item, outbox, sent>>
  BY DEF NotifyTypeOK, Watches, vars
<1>2. watcher' \in [Watcher -> Watching] /\ watcher'[w] = v
      /\ \A x \in Watcher \ {w} : watcher'[x] = watcher[x]
  BY <1>1
<1>3. NotifyTypeOK'
  BY <1>1, <1>2 DEF NotifyTypeOK
<1>4. (v.pc = "select" => v.seen # NoToken) => SeesLease'
  BY <1>2 DEF SeesLease
<1>5. ASSUME NoMissedEnd,
             v.pc = "select" => \/ v.seen = item.token
                                \/ /\ watcher[w].pc = "select"
                                   /\ v.seen = watcher[w].seen
                                   /\ watcher[w].missed => v.missed
                                   /\ HasEnd(watcher[w].chan) => HasEnd(v.chan),
             NEW x \in Watcher
      PROVE  InTouch(x)'
  <2>1. InTouch(w) /\ InTouch(x)
    BY <1>5, NoMissedEndForm
  <2>2. InTouch(x)' <=>
          (watcher'[x].pc = "select" /\ ~watcher'[x].missed =>
             \/ item.token = watcher'[x].seen
             \/ HasEnd(watcher'[x].chan)
             \/ \E g \in Emitter : HasEnd(outbox[g]))
    BY <1>1 DEF InTouch, HasEnd, EndsWatch, Kind, Emitter
  <2>3. CASE x = w
    BY <1>2, <1>5, <2>1, <2>2, <2>3 DEF InTouch
  <2>4. CASE x # w
    BY <1>2, <2>1, <2>2, <2>4 DEF InTouch
  <2>. QED
    BY <2>3, <2>4
<1>6. (\A x \in Watcher : InTouch(x)') => NoMissedEnd'
  BY DEF NoMissedEnd, InTouch, HasEnd
<1>. QED
  BY <1>3, <1>4, <1>5, <1>6
\* The calls leave the expirer alone.
LEMMA ProceedKeepsExpirer ==
  ASSUME NEW p \in Request, Proceed(p)
  PROVE  expirer' = expirer
<1>1. \A s, code, token : Answer(p, s, code, token) => expirer' = expirer
  BY DEF Answer
<1>2. CASE Acquire(p)
  <2>1. CASE AcquireEnqueue(p)
    BY <2>1 DEF AcquireEnqueue
  <2>. QED
    BY <1>1, <1>2, <2>1, Zenon DEF Acquire, AcquireRejected, AcquireFree, AcquireReenter, AcquireLocked
<1>3. CASE Renew(p) \/ Release(p)
  BY <1>1, <1>3, Zenon DEF Renew, RenewNotHeld, RenewHeld, Release, ReleaseRefused, ReleaseExpired,
                           ReleaseHeld
<1>4. CASE StealSection(p) \/ DeleteSection(p)
  BY <1>1, <1>4, Zenon DEF StealSection, DeleteSection
<1>5. CASE Wait(p)
  <2>1. CASE AbortWait(p)
    BY <1>1, <2>1, Zenon DEF AbortWait
  <2>. QED
    BY <1>5, <2>1 DEF Wait, WaitOutcome, WaitCtxDone
<1>. QED
  BY <1>2, <1>3, <1>4, <1>5 DEF Proceed

-----------------------------------------------------------------------------
(* The steps.  Each keeps the types, leaves nothing in the outbox of who   *)
(* has yet to act, and has no watch miss the end of its lease.             *)

\* What holds of the events whether or not the random source works.
EventsOK == NotifyTypeOK /\ OutboxesEmpty /\ SeesLease

\* The shape of each step's lemma.
Kept == EventsOK' /\ (NoMissedEnd => NoMissedEnd')

\* Emitting the first event of an outbox leaves the others in it.
LEMMA TailLemma ==
  ASSUME NEW q \in Seq(Kind), q # <<>>
  PROVE  /\ Head(q) \in Kind /\ <<Head(q)>> \in Seq(AnyKind) /\ Tail(q) \in Seq(Kind)
         /\ HasEnd(q) => HasEnd(Tail(q)) \/ HasEnd(<<Head(q)>>)
<1>1. /\ Len(q) \in Nat \ {0} /\ Head(q) \in Kind /\ Tail(q) \in Seq(Kind)
      /\ Len(Tail(q)) = Len(q) - 1
      /\ \A i \in 1..(Len(q) - 1) : Tail(q)[i] = q[i + 1]
      /\ Head(q) = q[1]
  BY EmptySeq, HeadTailProperties
<1>2. <<Head(q)>> \in Seq(AnyKind) /\ Len(<<Head(q)>>) = 1 /\ <<Head(q)>>[1] = q[1]
  BY <1>1 DEF AnyKind
<1>3. ASSUME HasEnd(q) PROVE HasEnd(Tail(q)) \/ HasEnd(<<Head(q)>>)
  <2>1. PICK i \in 1..Len(q) : EndsWatch(q[i])
    BY <1>3 DEF HasEnd
  <2>2. CASE i = 1
    BY <1>2, <2>1, <2>2 DEF HasEnd
  <2>3. CASE i # 1
    <3>1. i - 1 \in 1..(Len(q) - 1) /\ (i - 1) + 1 = i
      BY <1>1, <2>3
    <3>2. EndsWatch(Tail(q)[i - 1])
      BY <1>1, <2>1, <3>1
    <3>. QED
      BY <1>1, <3>1, <3>2 DEF HasEnd
  <2>. QED
    BY <2>2, <2>3
<1>. QED
  BY <1>1, <1>2, <1>3

LEMMA EmitStep ==
  ASSUME IInv, EventsOK, NEW g \in Emitter, Emit(g)
  PROVE  Kept
<1>. DEFINE q == outbox[g]
<1>1. q \in Seq(Kind) /\ q # <<>> /\ outbox \in [Emitter -> Seq(Kind)]
  BY DEF EventsOK, NotifyTypeOK, Emit
<1>2. /\ <<Head(q)>> \in Seq(AnyKind) /\ Tail(q) \in Seq(Kind)
      /\ HasEnd(q) => HasEnd(Tail(q)) \/ HasEnd(<<Head(q)>>)
  BY <1>1, TailLemma
<1>3. /\ outbox' = [outbox EXCEPT ![g] = Tail(q)] /\ Broadcast(<<Head(q)>>)
      /\ UNCHANGED <<item, pc, expirer>>
  BY DEF Emit, vars
<1>. HIDE DEF q
<1>4. /\ outbox' \in [Emitter -> Seq(Kind)] /\ outbox'[g] = Tail(q)
      /\ \A x \in Emitter \ {g} : outbox'[x] = outbox[x]
  BY <1>1, <1>2, <1>3
<1>5. NotifyTypeOK' /\ SeesLease' /\ (NoMissedEnd => NoMissedEnd')
  <2>1. \A x \in Emitter : HasEnd(outbox[x]) => HasEnd(outbox'[x]) \/ HasEnd(<<Head(q)>>)
    BY <1>2, <1>4 DEF q
  <2>. QED
    BY <1>2, <1>3, <1>4, <2>1, BroadcastTypes, BroadcastWatch DEF EventsOK
<1>6. \A x \in Emitter : outbox[x] = <<>> => x # g
  BY <1>1 DEF q
<1>7. OutboxesEmpty'
  BY <1>3, <1>4, <1>6 DEF EventsOK, OutboxesEmpty, Emitter
<1>. QED
  BY <1>5, <1>7 DEF Kept, EventsOK

LEMMA OtherLockStep ==
  ASSUME IInv, EventsOK, OtherLock
  PROVE  Kept
<1>1. <<"other">> \in Seq(AnyKind)
  BY DEF AnyKind
<1>2. Broadcast(<<"other">>) /\ UNCHANGED <<item, pc, expirer, outbox>>
  BY DEF OtherLock, vars
<1>3. outbox' \in [Emitter -> Seq(Kind)]
  BY <1>2 DEF EventsOK, NotifyTypeOK
<1>4. NotifyTypeOK' /\ SeesLease' /\ (NoMissedEnd => NoMissedEnd')
  BY <1>1, <1>2, <1>3, BroadcastTypes, BroadcastWatch DEF EventsOK
<1>5. OutboxesEmpty'
  BY <1>2 DEF EventsOK, OutboxesEmpty
<1>. QED
  BY <1>4, <1>5 DEF Kept, EventsOK

LEMMA SectionStep ==
  ASSUME IInv, EventsOK, NEW p \in Request, Section(p)
  PROVE  EventsOK' /\ (~RandMayFail /\ NoMissedEnd => NoMissedEnd')
<1>. DEFINE E == IF call[p].op = "steal" THEN <<>> ELSE ExpiryEvents(call[p].now)
            late == LateEvents(reply'[p].code)
<1>1. /\ pc[p] = "enter" /\ Proceed(p) /\ Broadcast(E)
      /\ outbox' = [outbox EXCEPT ![p] = late]
  BY DEF Section
<1>2. E \in Seq(Kind) /\ E \in Seq(AnyKind) /\ late \in Seq(Kind)
  <2>1. Kind \subseteq AnyKind /\ <<>> \in Seq(Kind)
    BY EmptySeq DEF AnyKind
  <2>. QED
    BY <2>1, EventsType, SeqMonotonic
<1>3. p \in Emitter /\ Expirer # p /\ outbox \in [Emitter -> Seq(Kind)]
  BY NotifyAssumption DEF Emitter, EventsOK, NotifyTypeOK
<1>4. item.token # NoToken /\ item'.token # item.token /\ ~RandMayFail => HasEnd(E) \/ HasEnd(late)
  BY <1>1, SectionEndsLease, EventsThatEnd
<1>. HIDE DEF E
<1>5. outbox[p] = <<>> /\ ~HasEnd(outbox[p])
  <2>1. outbox[p] = <<>>
    BY <1>1 DEF EventsOK, OutboxesEmpty
  <2>2. Len(<<>>) = 0
    OBVIOUS
  <2>. QED
    BY <2>1, <2>2 DEF HasEnd
<1>6. pc'[p] # "done" => late = <<>>
  <2>1. pc'[p] # "done" => reply'[p] = NoReply
    BY <1>1, SectionLeaves DEF IInv, AnsweredOnce
  <2>. QED
    BY <2>1 DEF LateEvents, NoReply
<1>. HIDE DEF late
<1>7. /\ outbox' \in [Emitter -> Seq(Kind)] /\ outbox'[p] = late
      /\ \A x \in Emitter \ {p} : outbox'[x] = outbox[x]
  BY <1>1, <1>2, <1>3
<1>8. NotifyTypeOK' /\ SeesLease'
  BY <1>1, <1>2, <1>7, BroadcastTypes, BroadcastWatch DEF EventsOK
<1>9. ASSUME ~RandMayFail, NoMissedEnd PROVE NoMissedEnd'
  <2>1. \A x \in Emitter : HasEnd(outbox[x]) => HasEnd(outbox'[x]) \/ HasEnd(E)
    BY <1>5, <1>7
  <2>2. item.token # NoToken /\ item'.token # item.token =>
          HasEnd(E) \/ \E x \in Emitter : HasEnd(outbox'[x])
    BY <1>3, <1>4, <1>7, <1>9
  <2>. QED
    BY <1>1, <1>2, <1>9, <2>1, <2>2, BroadcastWatch DEF EventsOK
<1>10. OutboxesEmpty'
  <2>1. \A x \in Request \ {p} : pc'[x] = pc[x]
    BY <1>1, OthersStay
  <2>2. expirer' = expirer
    BY <1>1, ProceedKeepsExpirer
  <2>. QED
    BY <1>3, <1>6, <1>7, <2>1, <2>2 DEF EventsOK, OutboxesEmpty, Emitter
<1>. QED
  BY <1>8, <1>9, <1>10 DEF EventsOK

LEMMA ScanPassStep ==
  ASSUME IInv, EventsOK, ScanPass
  PROVE  Kept
<1>. DEFINE E == ExpiryEvents(expirer.now)
            late == IF item'.deleted /\ ~item.deleted THEN <<"purged">> ELSE <<>>
<1>1. /\ ExpirerScan /\ Broadcast(E) /\ outbox' = [outbox EXCEPT ![Expirer] = late]
      /\ expirer.pc = "scan" /\ expirer'.pc = "sleep" /\ pc' = pc
  BY DEF ScanPass, ExpirerScan
<1>2. E \in Seq(Kind) /\ E \in Seq(AnyKind) /\ late \in Seq(Kind)
  <2>1. Kind \subseteq AnyKind /\ <<>> \in Seq(Kind) /\ "purged" \in Kind
    BY EmptySeq DEF AnyKind, Kind
  <2>. QED
    BY <2>1, EventsType, SeqMonotonic
<1>3. Expirer \in Emitter /\ Expirer \notin Request /\ outbox \in [Emitter -> Seq(Kind)]
  BY NotifyAssumption DEF Emitter, EventsOK, NotifyTypeOK
<1>4. item'.token # item.token => HasEnd(E)
  BY <1>1, ScanEndsLease, EventsThatEnd
<1>. HIDE DEF E
<1>5. outbox[Expirer] = <<>> /\ ~HasEnd(outbox[Expirer])
  <2>1. outbox[Expirer] = <<>>
    BY <1>1 DEF EventsOK, OutboxesEmpty
  <2>2. Len(<<>>) = 0
    OBVIOUS
  <2>. QED
    BY <2>1, <2>2 DEF HasEnd
<1>. HIDE DEF late
<1>6. /\ outbox' \in [Emitter -> Seq(Kind)]
      /\ \A x \in Emitter \ {Expirer} : outbox'[x] = outbox[x]
  BY <1>1, <1>2, <1>3
<1>7. NotifyTypeOK' /\ SeesLease'
  BY <1>1, <1>2, <1>6, BroadcastTypes, BroadcastWatch DEF EventsOK
<1>8. NoMissedEnd => NoMissedEnd'
  <2>1. \A x \in Emitter : HasEnd(outbox[x]) => HasEnd(outbox'[x]) \/ HasEnd(E)
    BY <1>5, <1>6
  <2>. QED
    BY <1>1, <1>2, <1>4, <2>1, BroadcastWatch DEF EventsOK
<1>9. OutboxesEmpty'
  BY <1>1, <1>3, <1>6 DEF EventsOK, OutboxesEmpty, Emitter
<1>. QED
  BY <1>7, <1>8, <1>9 DEF Kept, EventsOK
\* A watcher that passes over an event has the others left.
LEMMA PassOver ==
  ASSUME NEW q \in Seq(AnyKind), q # <<>>, ~EndsWatch(Head(q))
  PROVE  /\ Tail(q) \in Seq(AnyKind) /\ Len(q) \in Nat /\ Len(Tail(q)) = Len(q) - 1
         /\ HasEnd(q) => HasEnd(Tail(q))
<1>1. /\ Len(q) \in Nat \ {0} /\ Tail(q) \in Seq(AnyKind)
      /\ Len(Tail(q)) = Len(q) - 1
      /\ \A i \in 1..(Len(q) - 1) : Tail(q)[i] = q[i + 1]
      /\ Head(q) = q[1]
  BY EmptySeq, HeadTailProperties
<1>2. ASSUME NEW i \in 1..Len(q), EndsWatch(q[i]) PROVE HasEnd(Tail(q))
  <2>1. i - 1 \in 1..(Len(q) - 1) /\ (i - 1) + 1 = i
    BY <1>1, <1>2
  <2>. QED
    BY <1>1, <1>2, <2>1 DEF HasEnd
<1>. QED
  BY <1>1, <1>2 DEF HasEnd

\* The steps of the service that emit nothing.
LEMMA QuietStep ==
  ASSUME IInv, EventsOK,
         \/ \E p \in Request : StartCall(p) \/ EndOfWait(p) \/ (CtxDone(p) /\ UNCHANGED notifyVars)
         \/ ScanTick
         \/ Tick /\ UNCHANGED notifyVars
         \/ UNCHANGED allVars
  PROVE  Kept
<1>1. UNCHANGED notifyVars
  BY DEF StartCall, EndOfWait, ScanTick, allVars
<1>2. item'.token = item.token
  <2>1. ASSUME NEW p \in Request, Start(p) PROVE item' = item
    <3>1. \A c, code : LookUp(p, c) \/ Refuse(p, code) => item' = item
      BY DEF LookUp, Refuse
    <3>. QED
      BY <2>1, <3>1, Zenon DEF Start, StartAcquire, StartRenew, StartRelease, StartSteal, StartDelete
  <2>2. ASSUME NEW p \in Request, EndOfWait(p) PROVE item'.token = item.token
    BY <2>2, WaitKeepsLease DEF EndOfWait
  <2>. QED
    BY <2>1, <2>2 DEF StartCall, CtxDone, ScanTick, ExpirerTick, Tick, allVars, vars
<1>3. NotifyTypeOK' /\ SeesLease' /\ (NoMissedEnd => NoMissedEnd')
  BY <1>1, <1>2, QuietWatch DEF EventsOK
<1>4. OutboxesEmpty'
  <2>1. outbox' = outbox
    BY <1>1 DEF notifyVars
  <2>2. ASSUME NEW x \in Request, pc'[x] # "done" PROVE outbox[x] = <<>>
    <3>1. ASSUME NEW p \in Request, StartCall(p) \/ EndOfWait(p) \/ CtxDone(p)
          PROVE  pc[x] # "done"
      <4>1. Start(p) \/ Proceed(p) \/ CtxDone(p)
        BY <3>1 DEF StartCall, EndOfWait, Proceed
      <4>2. CASE x = p
        <5>1. \A c, code : LookUp(p, c) \/ Refuse(p, code) => pc[p] = "idle"
          BY DEF LookUp, Refuse
        <5>2. Start(p) => pc[p] = "idle"
          BY <5>1, Zenon DEF Start, StartAcquire, StartRenew, StartRelease, StartSteal, StartDelete
        <5>3. Wait(p) => pc[p] \in {"wait", "abort"}
          BY DEF Wait, WaitOutcome, WaitCtxDone, AbortWait
        <5>4. CtxDone(p) => pc[p] \in {"enter", "wait"}
          BY DEF CtxDone
        <5>. QED
          BY <3>1, <4>2, <5>2, <5>3, <5>4 DEF StartCall, EndOfWait
      <4>. QED
        BY <2>2, <4>1, <4>2, OthersStay
    <3>2. (ScanTick \/ Tick \/ UNCHANGED allVars) => pc' = pc
      BY DEF ScanTick, ExpirerTick, Tick, allVars, vars
    <3>. QED
      BY <2>2, <3>1, <3>2 DEF EventsOK, OutboxesEmpty
  <2>3. expirer'.pc = "scan" => outbox[Expirer] = <<>>
    <3>1. ASSUME NEW p \in Request, StartCall(p) \/ EndOfWait(p) \/ CtxDone(p)
          PROVE  expirer' = expirer
      <4>1. \A c, code : LookUp(p, c) \/ Refuse(p, code) => expirer' = expirer
        BY DEF LookUp, Refuse
      <4>2. Start(p) => expirer' = expirer
        BY <4>1, Zenon DEF Start, StartAcquire, StartRenew, StartRelease, StartSteal, StartDelete
      <4>. QED
        BY <3>1, <4>2, ProceedKeepsExpirer DEF StartCall, EndOfWait, CtxDone, Proceed
    <3>2. CASE ScanTick
      BY <3>2 DEF ScanTick
    <3>3. (Tick \/ UNCHANGED allVars) => expirer' = expirer
      BY DEF Tick, allVars, vars
    <3>. QED
      BY <3>1, <3>2, <3>3 DEF EventsOK, OutboxesEmpty
  <2>. QED
    BY <2>1, <2>2, <2>3 DEF OutboxesEmpty
<1>. QED
  BY <1>3, <1>4 DEF Kept, EventsOK

\* Watcher w may go on as v: v is not in its select, has just seen the lease, or
\* has what w had but for events that do not end its watch.
GoesOn(w, v) ==
  /\ v \in Watching /\ Len(v.chan) <= WatchBuffer
  /\ v.pc = "select" => /\ v.seen # NoToken
                        /\ \/ v.seen = item.token
                           \/ /\ watcher[w].pc = "select"
                              /\ v.seen = watcher[w].seen
                              /\ watcher[w].missed => v.missed
                              /\ HasEnd(watcher[w].chan) => HasEnd(v.chan)

\* A watcher's steps.
LEMMA WatchStep ==
  ASSUME IInv, EventsOK, NEW w \in Watcher, WatchSubscribe(w) \/ Watch(w) \/ WatchCtxDone(w)
  PROVE  Kept
<1>. DEFINE old == watcher[w]
<1>1. old \in Watching /\ Len(old.chan) <= WatchBuffer /\ old.chan \in Seq(AnyKind)
  BY DEF EventsOK, NotifyTypeOK, Watching, AnyKind
<1>2. clock \in Nat /\ item \in Record /\ item.token \in Token
  BY DEF IInv, TypeOK, Record
<1>3. \A place \in {"look", "done"} : GoesOn(w, NotWatching(place))
  <2>1. Len(<<>>) = 0 /\ <<>> \in Seq(Kind \cup {"other"}) /\ WatchBuffer \in Nat \ {0}
    BY EmptySeq, NotifyAssumption
  <2>2. NoToken \in Token
    BY DEF Token
  <2>. QED
    BY <2>1, <2>2 DEF NotWatching, Watching, GoesOn
<1>4. ASSUME old.pc = "look" PROVE GoesOn(w, [old EXCEPT !.pc = "view", !.now = clock])
  BY <1>1, <1>2 DEF Watching, GoesOn
<1>5. ASSUME item.token # NoToken
      PROVE  GoesOn(w, [old EXCEPT !.pc = "select", !.seen = item.token, !.now = 0])
  BY <1>1, <1>2, <1>5 DEF Watching, GoesOn
<1>6. ASSUME old.pc = "select", old.chan # <<>>, ~EndsWatch(Head(old.chan))
      PROVE  GoesOn(w, [old EXCEPT !.chan = Tail(@)])
  <2>1. /\ Tail(old.chan) \in Seq(AnyKind) /\ Len(Tail(old.chan)) <= WatchBuffer
        /\ HasEnd(old.chan) => HasEnd(Tail(old.chan))
    BY <1>1, <1>6, PassOver, NotifyAssumption
  <2>2. old.seen # NoToken
    BY <1>6 DEF EventsOK, SeesLease
  <2>. QED
    BY <1>1, <1>6, <2>1, <2>2 DEF Watching, AnyKind, GoesOn
<1>7. \E v : GoesOn(w, v) /\ Watches(w, v)
  <2>1. CASE WatchSubscribe(w) \/ WatchCtxDone(w)
    BY <1>3, <2>1 DEF WatchSubscribe, WatchCtxDone
  <2>2. CASE WatchLook(w)
    BY <1>3, <1>4, <2>2 DEF WatchLook
  <2>3. CASE WatchView(w)
    BY <1>3, <1>5, <2>3 DEF WatchView
  <2>4. CASE WatchEvent(w)
    BY <1>3, <1>6, <2>4 DEF WatchEvent
  <2>. QED
    BY <2>1, <2>2, <2>3, <2>4 DEF Watch
<1>8. NotifyTypeOK' /\ SeesLease' /\ (NoMissedEnd => NoMissedEnd')
  <2>0. PICK v : GoesOn(w, v) /\ Watches(w, v)
    BY <1>7
  <2>1. v \in Watching /\ Len(v.chan) <= WatchBuffer /\ Watches(w, v)
    BY <2>0 DEF GoesOn
  <2>2. v.pc = "select" => v.seen # NoToken
    BY <2>0 DEF GoesOn
  <2>3. v.pc = "select" => \/ v.seen = item.token
                           \/ /\ watcher[w].pc = "select"
                              /\ v.seen = watcher[w].seen
                              /\ watcher[w].missed => v.missed
                              /\ HasEnd(watcher[w].chan) => HasEnd(v.chan)
    BY <2>0 DEF GoesOn
  <2>. QED
    BY <2>1, <2>2, <2>3, WatchesLemma DEF EventsOK
<1>9. UNCHANGED <<outbox, pc, expirer>>
  BY <1>7 DEF Watches, vars
<1>10. OutboxesEmpty'
  BY <1>9 DEF EventsOK, OutboxesEmpty
<1>. QED
  BY <1>8, <1>10 DEF Kept, EventsOK

-----------------------------------------------------------------------------
(* The theorems.                                                           *)

LEMMA EventsInit == NotifyInit => EventsOK /\ NoMissedEnd
<1>. SUFFICES ASSUME NotifyInit PROVE EventsOK /\ NoMissedEnd
  OBVIOUS
<1>1. /\ \A g \in Emitter : outbox[g] = <<>> /\ outbox \in [Emitter -> Seq(Kind)]
      /\ sent \in [Kind -> Nat]
      /\ \A w \in Watcher : watcher[w] = NotWatching("idle")
  BY EmptySeq DEF NotifyInit
<1>2. NotWatching("idle") \in Watching /\ Len(NotWatching("idle").chan) = 0
  <2>1. Len(<<>>) = 0 /\ <<>> \in Seq(Kind \cup {"other"}) /\ NoToken \in Token
    BY EmptySeq DEF Token
  <2>. QED
    BY <2>1 DEF NotWatching, Watching
<1>3. NotifyTypeOK
  <2>1. watcher \in [Watcher -> Watching]
    BY <1>1, <1>2 DEF NotifyInit
  <2>2. outbox \in [Emitter -> Seq(Kind)]
    BY EmptySeq DEF NotifyInit
  <2>. QED
    BY <1>1, <1>2, <2>1, <2>2, NotifyAssumption DEF NotifyTypeOK
<1>4. OutboxesEmpty /\ SeesLease /\ NoMissedEnd
  BY <1>1 DEF OutboxesEmpty, SeesLease, NoMissedEnd, Emitter, NotWatching
<1>. QED
  BY <1>3, <1>4 DEF EventsOK

LEMMA EventsStep ==
  ASSUME IInv, EventsOK, [NotifyNext]_allVars
  PROVE  EventsOK' /\ (~RandMayFail /\ NoMissedEnd => NoMissedEnd')
<1>1. CASE \E g \in Emitter : Emit(g)
  BY <1>1, EmitStep DEF Kept
<1>2. CASE OtherLock
  BY <1>2, OtherLockStep DEF Kept
<1>3. CASE \E p \in Request : Section(p)
  BY <1>3, SectionStep
<1>4. CASE ScanPass
  BY <1>4, ScanPassStep DEF Kept
<1>5. CASE \E w \in Watcher : WatchSubscribe(w) \/ Watch(w) \/ WatchCtxDone(w)
  BY <1>5, WatchStep DEF Kept
<1>6. CASE \/ \E p \in Request :
                StartCall(p) \/ EndOfWait(p) \/ (CtxDone(p) /\ UNCHANGED notifyVars)
           \/ ScanTick \/ (Tick /\ UNCHANGED notifyVars) \/ UNCHANGED allVars
  BY <1>6, QuietStep DEF Kept
<1>. QED
  BY <1>1, <1>2, <1>3, <1>4, <1>5, <1>6 DEF NotifyNext

\* The channels stay in bounds and what is in them, in the outboxes and in the
\* watchers' locals has its type, however emissions and watches cross.
THEOREM NotifyTypeCorrect == NotifySpec => []NotifyTypeOK
<1>1. NotifyInit => EventsOK
  BY EventsInit
<1>2. IInv /\ EventsOK /\ [NotifyNext]_allVars => EventsOK'
  BY EventsStep
<1>3. EventsOK => NotifyTypeOK
  BY DEF EventsOK
<1>. QED
  BY <1>1, <1>2, <1>3, Invariance, NotifyIsService, PTL DEF NotifySpec

\* No watch goes on that has missed the end of the lease it saw (service.go:227:
\* Watch subscribes before it looks), unless its channel was full, as long as
\* the random source works: a Steal that draws no token ends a lease and says
\* nothing (service.go:276).
THEOREM NoWatchMissesTheEnd ==
  ASSUME ~RandMayFail
  PROVE  NotifySpec => []NoMissedEnd
<1>1. NotifyInit => EventsOK /\ NoMissedEnd
  BY EventsInit
<1>2. IInv /\ EventsOK /\ NoMissedEnd /\ [NotifyNext]_allVars => EventsOK' /\ NoMissedEnd'
  BY EventsStep
<1>. QED
  BY <1>1, <1>2, Invariance, NotifyIsService, PTL DEF NotifySpec

-----------------------------------------------------------------------------
(* Counting events.                                                        *)

\* The places at which a sequence has events of a kind.
Places(kind, events) == {i \in 1..Len(events) : events[i] = kind}

LEMMA PlacesLemma ==
  ASSUME NEW S, NEW events \in Seq(S), NEW kind
  PROVE  /\ CountOf(kind, events) = Cardinality(Places(kind, events))
         /\ CountOf(kind, events) \in Nat
         /\ IsFiniteSet(Places(kind, events))
BY CountOfLemma DEF CountOf, Places

\* An event in front of others counts once if it is of the kind.
LEMMA ConsCount ==
  ASSUME NEW S, NEW c \in Seq(S), NEW r \in Seq(S), Len(c) = Len(r) + 1,
         \A i \in 1..Len(r) : c[i + 1] = r[i], NEW kind
  PROVE  CountOf(kind, c) = (IF c[1] = kind THEN 1 ELSE 0) + CountOf(kind, r)
<1>. DEFINE A == Places(kind, r)
            B == {i \in 2..Len(c) : c[i] = kind}
            f == [i \in A |-> i + 1]
<1>1. Len(r) \in Nat /\ Len(c) \in Nat
  BY LenProperties
<1>2. IsFiniteSet(A) /\ CountOf(kind, r) = Cardinality(A) /\ Cardinality(A) \in Nat
  BY PlacesLemma
<1>3. f \in Bijection(A, B)
  <2>1. \A i \in A : i \in 1..Len(r) /\ f[i] = i + 1 /\ f[i] \in B
    BY <1>1 DEF Places
  <2>2. \A i, j \in A : f[i] = f[j] => i = j
    BY <2>1
  <2>3. ASSUME NEW j \in B PROVE \E i \in A : f[i] = j
    <3>1. j - 1 \in 1..Len(r) /\ (j - 1) + 1 = j
      BY <1>1
    <3>2. j - 1 \in A
      BY <3>1 DEF Places
    <3>. QED
      BY <3>1, <3>2
  <2>4. f \in [A -> B]
    BY <2>1
  <2>. HIDE DEF A, B, f
  <2>. QED
    BY <2>2, <2>3, <2>4 DEF Bijection, Injection, Surjection, IsInjective
<1>. HIDE DEF f, A
<1>4. IsFiniteSet(B) /\ Cardinality(B) = Cardinality(A)
  BY <1>2, <1>3, FS_Bijection DEF ExistsBijection
<1>5. Places(kind, c) = IF c[1] = kind THEN B \cup {1} ELSE B
  BY <1>1 DEF Places
<1>6. 1 \notin B
  OBVIOUS
<1>. HIDE DEF B
<1>7. Cardinality(B \cup {1}) = Cardinality(B) + 1
  BY <1>4, <1>6, FS_AddElement
<1>8. CountOf(kind, c) = Cardinality(Places(kind, c))
  BY PlacesLemma
<1>. QED
  BY <1>2, <1>4, <1>5, <1>7, <1>8

\* An event followed by those of a sequence, and the first of a sequence.
LEMMA FirstCount ==
  ASSUME NEW S
  PROVE  /\ \A kind : CountOf(kind, <<>>) = 0
         /\ \A a \in S : \A kind : CountOf(kind, <<a>>) = IF a = kind THEN 1 ELSE 0
         /\ \A a \in S, r \in Seq(S) : \A kind :
              CountOf(kind, <<a>> \o r) = (IF a = kind THEN 1 ELSE 0) + CountOf(kind, r)
         /\ \A q \in Seq(S) : \A kind : q # <<>> =>
              CountOf(kind, q) = CountOf(kind, <<Head(q)>>) + CountOf(kind, Tail(q))
<1>1. ASSUME NEW kind PROVE CountOf(kind, <<>>) = 0
  <2>1. Places(kind, <<>>) = {}
    BY EmptySeq DEF Places
  <2>. QED
    BY <2>1, FS_EmptySet DEF CountOf, Places
<1>2. ASSUME NEW a \in S, NEW kind PROVE CountOf(kind, <<a>>) = IF a = kind THEN 1 ELSE 0
  <2>. DEFINE c == <<a>>
              e == <<>>
  <2>1. c \in Seq(S) /\ Len(c) = 1 /\ c[1] = a /\ e \in Seq(S) /\ Len(e) = 0
    BY EmptySeq
  <2>2. CountOf(kind, e) = 0
    BY <1>1
  <2>. HIDE DEF c, e
  <2>3. Len(c) = Len(e) + 1 /\ \A i \in 1..Len(e) : c[i + 1] = e[i]
    BY <2>1
  <2>4. CountOf(kind, c) = (IF c[1] = kind THEN 1 ELSE 0) + CountOf(kind, e)
    <3>1. c \in Seq(S) /\ e \in Seq(S)
      BY <2>1
    <3>. QED
      BY <2>3, <3>1, ConsCount, SMTT(30)
  <2>5. CountOf(kind, c) = IF a = kind THEN 1 ELSE 0
    BY <2>1, <2>2, <2>4
  <2>. QED
    BY <2>5 DEF c
<1>3. ASSUME NEW a \in S, NEW r \in Seq(S), NEW kind
      PROVE  CountOf(kind, <<a>> \o r) = (IF a = kind THEN 1 ELSE 0) + CountOf(kind, r)
  <2>. DEFINE c == <<a>> \o r
  <2>1. <<a>> \in Seq(S) /\ Len(<<a>>) = 1 /\ <<a>>[1] = a /\ Len(r) \in Nat
    BY LenProperties
  <2>2. /\ c \in Seq(S) /\ Len(c) = 1 + Len(r)
        /\ \A i \in 1..(1 + Len(r)) : c[i] = IF i <= 1 THEN <<a>>[i] ELSE r[i - 1]
    BY <2>1, ConcatProperties
  <2>. HIDE DEF c
  <2>3. c[1] = a /\ \A i \in 1..Len(r) : c[i + 1] = r[i]
    BY <2>1, <2>2
  <2>4. CountOf(kind, c) = (IF c[1] = kind THEN 1 ELSE 0) + CountOf(kind, r)
    BY <2>1, <2>2, <2>3, ConsCount
  <2>. QED
    BY <2>3, <2>4 DEF c
<1>4. ASSUME NEW q \in Seq(S), NEW kind, q # <<>>
      PROVE  CountOf(kind, q) = CountOf(kind, <<Head(q)>>) + CountOf(kind, Tail(q))
  <2>. DEFINE r == Tail(q)
  <2>1. /\ Head(q) \in S /\ Head(q) = q[1] /\ r \in Seq(S) /\ Len(q) \in Nat
        /\ Len(r) = Len(q) - 1
        /\ \A i \in 1..Len(r) : q[i + 1] = r[i]
    BY <1>4, HeadTailProperties, LenProperties
  <2>2. CountOf(kind, <<Head(q)>>) = IF q[1] = kind THEN 1 ELSE 0
    BY <1>2, <2>1
  <2>. HIDE DEF r
  <2>3. Len(q) = Len(r) + 1
    BY <2>1
  <2>4. CountOf(kind, q) = (IF q[1] = kind THEN 1 ELSE 0) + CountOf(kind, r)
    BY <2>1, <2>3, ConsCount
  <2>. QED
    BY <2>2, <2>4 DEF r
<1>. QED
  BY <1>1, <1>2, <1>3, <1>4

\* The places in the outboxes that hold events of a kind: Pending.
Waiting(box, kind) == UNION {{g} \X Places(kind, box[g]) : g \in Emitter}

LEMMA PendingForm ==
  \A kind : Pending(kind) = Waiting(outbox, kind) /\ Pending(kind)' = Waiting(outbox', kind)
BY DEF Pending, Waiting, Places, Emitter

\* When one outbox changes, what waits in it makes the difference.
LEMMA WaitingChange ==
  ASSUME NEW box \in [Emitter -> Seq(Kind)], NEW new \in [Emitter -> Seq(Kind)], NEW g \in Emitter,
         \A x \in Emitter \ {g} : new[x] = box[x], NEW kind, IsFiniteSet(Waiting(box, kind))
  PROVE  /\ IsFiniteSet(Waiting(new, kind))
         /\ Cardinality(Waiting(box, kind)) \in Nat /\ Cardinality(Waiting(new, kind)) \in Nat
         /\ Cardinality(Waiting(new, kind)) + CountOf(kind, box[g]) =
              Cardinality(Waiting(box, kind)) + CountOf(kind, new[g])
<1>. DEFINE rest == UNION {{x} \X Places(kind, box[x]) : x \in Emitter \ {g}}
<1>1. Waiting(box, kind) = rest \cup ({g} \X Places(kind, box[g]))
  BY DEF Waiting
<1>2. Waiting(new, kind) = rest \cup ({g} \X Places(kind, new[g]))
  BY DEF Waiting
<1>3. IsFiniteSet(rest) /\ Cardinality(rest) \in Nat
  <2>1. rest \in SUBSET Waiting(box, kind)
    BY <1>1
  <2>. QED
    BY <2>1, FS_Subset, FS_CardinalityType
<1>4. \A q : rest \cap ({g} \X Places(kind, q)) = {}
  OBVIOUS
<1>. HIDE DEF rest
<1>5. ASSUME NEW q \in Seq(Kind)
      PROVE  LET all == rest \cup ({g} \X Places(kind, q))
             IN /\ IsFiniteSet(all) /\ Cardinality(all) \in Nat
                /\ Cardinality(all) = Cardinality(rest) + CountOf(kind, q)
                /\ CountOf(kind, q) \in Nat
  <2>. DEFINE one  == {g}
              at   == Places(kind, q)
              here == one \X at
  <2>1. IsFiniteSet(at) /\ CountOf(kind, q) = Cardinality(at) /\ CountOf(kind, q) \in Nat
    BY PlacesLemma
  <2>2. IsFiniteSet(one) /\ Cardinality(one) = 1
    BY FS_Singleton
  <2>3. rest \cap here = {}
    BY <1>4
  <2>. HIDE DEF one, at
  <2>4. IsFiniteSet(here) /\ Cardinality(here) = Cardinality(one) * Cardinality(at)
    BY <2>1, <2>2, FS_Product
  <2>5. Cardinality(here) = CountOf(kind, q)
    BY <2>1, <2>2, <2>4
  <2>. HIDE DEF here
  <2>6. /\ IsFiniteSet(rest \cup here)
        /\ Cardinality(rest \cup here) =
             Cardinality(rest) + Cardinality(here) - Cardinality(rest \cap here)
    BY <1>3, <2>4, FS_Union
  <2>7. Cardinality(rest \cap here) = 0
    BY <2>3, FS_EmptySet
  <2>8. Cardinality(rest \cup here) = Cardinality(rest) + CountOf(kind, q)
    BY <1>3, <2>1, <2>5, <2>6, <2>7
  <2>9. /\ IsFiniteSet(rest \cup here) /\ Cardinality(rest \cup here) \in Nat
        /\ Cardinality(rest \cup here) = Cardinality(rest) + CountOf(kind, q)
    BY <1>3, <2>1, <2>6, <2>8
  <2>. QED
    BY <2>1, <2>9 DEF here, one, at
<1>6. box[g] \in Seq(Kind) /\ new[g] \in Seq(Kind)
  OBVIOUS
<1>7. /\ Cardinality(Waiting(box, kind)) = Cardinality(rest) + CountOf(kind, box[g])
      /\ Cardinality(Waiting(new, kind)) = Cardinality(rest) + CountOf(kind, new[g])
      /\ IsFiniteSet(Waiting(new, kind))
      /\ CountOf(kind, box[g]) \in Nat /\ CountOf(kind, new[g]) \in Nat
  BY <1>1, <1>2, <1>5, <1>6
<1>. QED
  BY <1>3, <1>7

-----------------------------------------------------------------------------
(* Who is granted the lock in a step.                                      *)

\* grantNextLocked grants nobody, or one blocked request, whose the lease is.
LEMMA GrantNextGrants ==
  ASSUME NEW s \in LockState, NEW B \in SUBSET Request, QueueInv(s, B), NEW now \in Nat,
         NEW t \in GrantNext(s, now)
  PROVE  LET w == t.item.token
         IN \/ \A q \in Request : t.waiter[q].granted <=> s.waiter[q].granted
            \/ /\ w \in B /\ ~s.waiter[w].granted /\ t.waiter[w].granted
               /\ \A q \in Request \ {w} : t.waiter[q].granted <=> s.waiter[q].granted
<1>1. PICK i \in StopAt(s.item.queue, s.waiter) : t = PopTo(s, i, now)
  BY DEF GrantNext
<1>. DEFINE queue == s.item.queue
<1>2. /\ s.waiter \in [Request -> Waiter] /\ queue \in Seq(Request)
      /\ Len(queue) \in Nat /\ i \in 1..(Len(queue) + 1)
  BY LenProperties DEF LockState, Record, StopAt
<1>3. ASSUME NEW q \in Request, ~(i <= Len(queue) /\ q = queue[i])
      PROVE  t.waiter[q].granted <=> s.waiter[q].granted
  <2>1. t.waiter[q] \in {s.waiter[q], Tell(s.waiter[q], "internal")}
    BY <1>1, <1>3 DEF PopTo
  <2>2. s.waiter[q] \in Waiter
    BY <1>2
  <2>. QED
    BY <2>1, <2>2, NumbersStay
<1>4. CASE i <= Len(queue)
  <2>. DEFINE w == queue[i]
  <2>1. w \in Request /\ Contains(queue, w)
    BY <1>2, <1>4, ElementOfSeq DEF Contains
  <2>2. w \in B /\ ~s.waiter[w].granted
    BY <2>1 DEF QueueInv, Undecided
  <2>3. t.waiter[w] = GrantWaiter(s.waiter[w])
    BY <1>1, <1>4, <2>1 DEF PopTo
  <2>4. t.waiter[w].granted
    <3>1. s.waiter[w] \in Waiter
      BY <1>2, <2>1
    <3>2. GrantWaiter(s.waiter[w]).granted
      BY <3>1 DEF GrantWaiter, Tell, Waiter
    <3>. QED
      BY <2>3, <3>2
  <2>5. t.item.token = w
    BY <1>1, <1>4 DEF PopTo, AssignLease, LockState, Record
  <2>. QED
    BY <1>3, <2>2, <2>4, <2>5
<1>5. CASE ~(i <= Len(queue))
  BY <1>3, <1>5
<1>. QED
  BY <1>4, <1>5

\* The waiters are granted as before, or but for one who is granted now.
SameGrants(ws) == \A q \in Request : ws[q].granted <=> waiter[q].granted

OneGrant(ws, w) ==
  /\ w \in BlockedSet /\ ~waiter[w].granted /\ ws[w].granted
  /\ \A q \in Request \ {w} : ws[q].granted <=> waiter[q].granted

LEMMA CededGrants ==
  ASSUME IInv, NEW now \in Nat, NEW b \in BOOLEAN,
         NEW s \in GrantNext([State EXCEPT !.item = ClearLease(item, now, b)], now)
  PROVE  \/ SameGrants(s.waiter)
         \/ /\ OneGrant(s.waiter, s.item.token)
            /\ s.item.token # item.token /\ s.item.token # NoToken
<1>. DEFINE c == ClearLease(item, now, b)
            u == [State EXCEPT !.item = c]
<1>1. /\ GoodState(State, BlockedSet) /\ State.item = item /\ State.waiter = waiter
      /\ item \in Record /\ BlockedSet \in SUBSET Request
  BY StateIsGood, CallType, TypesAtHand DEF State, BlockedSet
<1>2. s \in GrantNext(u, now)
  OBVIOUS
<1>3. c \in Record /\ c.queue = item.queue
  BY <1>1, ClearLeaseLemma
<1>. HIDE DEF c
<1>4. u \in LockState /\ u.item = c /\ u.waiter = State.waiter
  BY <1>1, <1>3 DEF GoodState, LockState
<1>. HIDE DEF u
<1>5. QueueInv(u, BlockedSet)
  BY <1>1, <1>3, <1>4, QueueInvLemma DEF GoodState
<1>6. SameGrants(s.waiter) \/ OneGrant(s.waiter, s.item.token)
  BY <1>1, <1>2, <1>4, <1>5, GrantNextGrants DEF SameGrants, OneGrant
<1>7. ASSUME OneGrant(s.waiter, s.item.token)
      PROVE  s.item.token # item.token /\ s.item.token # NoToken
  <2>. DEFINE w == s.item.token
  <2>1. w \in Request /\ w # NoToken /\ Blocked(w) /\ ~waiter[w].granted
    BY <1>7, RecordAssumption DEF OneGrant, BlockedSet
  <2>2. reply[w].code = "none"
    BY <2>1 DEF IInv, AnsweredOnce, NoReply, Blocked
  <2>. QED
    BY <2>1, <2>2 DEF IInv, LeaseReachesItsOwner
<1>. QED
  BY <1>6, <1>7

LEMMA ExpiredGrants ==
  ASSUME IInv, NEW now \in Nat, NEW s \in ExpireLocked(State, now)
  PROVE  \/ SameGrants(s.waiter)
         \/ /\ OneGrant(s.waiter, s.item.token)
            /\ Expires(item, now) /\ item.token # NoToken
            /\ s.item.token # item.token /\ s.item.token # NoToken
<1>1. CASE ~Expires(item, now)
  <2>1. s = State /\ State.waiter = waiter
    BY <1>1, NotExpired DEF State
  <2>. QED
    BY <2>1 DEF SameGrants
<1>2. CASE Expires(item, now)
  <2>1. s \in GrantNext([State EXCEPT !.item = ClearLease(item, now, FALSE)], now)
    BY <1>2 DEF ExpireLocked, State
  <2>2. item.token # NoToken
    BY <1>2 DEF Expires
  <2>. QED
    BY <1>2, <2>1, <2>2, CededGrants
<1>. QED
  BY <1>1, <1>2

\* Those granted the lock in this step.
Granted == {q \in Request : waiter'[q].granted /\ ~waiter[q].granted}

\* A call's section grants nobody, or one blocked request: because the lease had
\* expired, which is announced at once, or because the call released it.
Given(p) ==
  LET code    == reply'[p].code
      expired == /\ call[p].op # "steal" /\ Expires(item, call[p].now)
                 /\ item'.token # item.token
  IN /\ \A q \in BlockedSet : waiter[q].granted => waiter'[q].granted
     /\ \/ Granted = {}
        \/ \E w \in BlockedSet : Granted = {w} /\ (code = "released" \/ expired)
     /\ code = "released" => ~Expires(item, call[p].now)

\* The waiters of a section are those of ws, but for a waiter made by the caller.
Leaves(p, ws) ==
  /\ \A q \in Request \ {p} : waiter'[q] = ws[q]
  /\ waiter'[p].granted => ws[p].granted

LEMMA LeftGranted ==
  ASSUME NEW p \in Request, p \notin BlockedSet, NEW ws, Leaves(p, ws)
  PROVE  /\ SameGrants(ws) => /\ Granted = {}
                              /\ \A q \in BlockedSet : waiter[q].granted => waiter'[q].granted
         /\ \A w : OneGrant(ws, w) =>
                     /\ Granted = {w}
                     /\ \A q \in BlockedSet : waiter[q].granted => waiter'[q].granted
<1>1. ASSUME SameGrants(ws)
      PROVE  Granted = {} /\ \A q \in BlockedSet : waiter[q].granted => waiter'[q].granted
  BY <1>1 DEF SameGrants, Leaves, Granted, BlockedSet
<1>2. ASSUME NEW w, OneGrant(ws, w)
      PROVE  /\ Granted = {w}
             /\ \A q \in BlockedSet : waiter[q].granted => waiter'[q].granted
  <2>1. w \in Request /\ w # p
    BY <1>2 DEF OneGrant, BlockedSet
  <2>2. w \in Granted
    BY <1>2, <2>1 DEF OneGrant, Leaves, Granted
  <2>3. \A q \in Request \ {w} : q \notin Granted
    BY <1>2, <2>1 DEF OneGrant, Leaves, Granted
  <2>4. \A q \in BlockedSet : waiter[q].granted => waiter'[q].granted
    BY <1>2, <2>1 DEF OneGrant, Leaves, BlockedSet
  <2>. QED
    BY <2>2, <2>3, <2>4 DEF Granted
<1>. QED
  BY <1>1, <1>2

\* A section that leaves the waiters alone.
LEMMA NobodyGiven ==
  ASSUME NEW p \in Request, p \notin BlockedSet, Leaves(p, waiter), reply'[p].code # "released"
  PROVE  Given(p)
<1>1. SameGrants(waiter)
  BY DEF SameGrants
<1>. QED
  BY <1>1, LeftGranted DEF Given

\* A section that leaves them as expireLocked did.
LEMMA ExpiryGiven ==
  ASSUME IInv, NEW p \in Request, pc[p] = "enter", call[p].op # "steal",
         NEW s \in ExpireLocked(State, call[p].now), Leaves(p, s.waiter),
         reply'[p].code # "released",
         s.item.token = NoToken \/ item'.token \in {s.item.token, NoToken}
  PROVE  Given(p)
<1>1. call[p].now \in Nat /\ p \notin BlockedSet
  BY CallType DEF BlockedSet, Blocked
<1>2. CASE SameGrants(s.waiter)
  BY <1>1, <1>2, LeftGranted DEF Given
<1>3. CASE /\ OneGrant(s.waiter, s.item.token)
           /\ Expires(item, call[p].now) /\ item.token # NoToken
           /\ s.item.token # item.token /\ s.item.token # NoToken
  <2>1. item'.token # item.token
    BY <1>3
  <2>2. s.item.token \in BlockedSet
    BY <1>3 DEF OneGrant
  <2>3. /\ Granted = {s.item.token}
        /\ \A q \in BlockedSet : waiter[q].granted => waiter'[q].granted
    BY <1>1, <1>3, LeftGranted
  <2>. QED
    BY <1>3, <2>1, <2>2, <2>3 DEF Given
<1>. QED
  BY <1>1, <1>2, <1>3, ExpiredGrants

LEMMA SectionGiven ==
  ASSUME IInv, NEW p \in Request, pc[p] = "enter", Proceed(p)
  PROVE  Given(p)
<1>. DEFINE now == call[p].now
<1>1. /\ now \in Nat /\ p \notin BlockedSet /\ item \in Record /\ waiter \in [Request -> Waiter]
      /\ State.item = item /\ State.waiter = waiter /\ State \in LockState
  BY CallType, TypesAtHand, StateIsGood DEF BlockedSet, Blocked, GoodState
<1>2. ASSUME NEW s, NEW code, NEW token, Answer(p, s, code, token)
      PROVE  Leaves(p, s.waiter) /\ item' = s.item /\ reply'[p].code = code
  BY <1>2, AnswerIsGiven DEF Leaves
<1>3. ASSUME NEW s \in LockState, NEW r
      PROVE  [s EXCEPT !.item = r].waiter = s.waiter /\ [s EXCEPT !.item = r].item = r
  BY DEF LockState
<1>4. ASSUME NEW s, s.waiter = waiter, NEW code, NEW token, Answer(p, s, code, token),
             code # "released"
      PROVE  Given(p)
  BY <1>1, <1>2, <1>4, NobodyGiven
<1>5. ASSUME NEW s \in ExpireLocked(State, now), NEW t, t.waiter = s.waiter,
             NEW code, NEW token, Answer(p, t, code, token),
             code # "released", call[p].op # "steal",
             s.item.token = NoToken \/ t.item.token \in {s.item.token, NoToken}
      PROVE  Given(p)
  BY <1>2, <1>5, ExpiryGiven
<1>6. ASSUME NEW s \in ExpireLocked(State, now)
      PROVE  s \in LockState /\ s.item \in Record /\ s.waiter \in [Request -> Waiter]
  BY <1>1, <1>6, ExpiredIsGood DEF GoodState, LockState
<1>7. CASE AcquireRejected(p)
  BY <1>1, <1>4, <1>7 DEF AcquireRejected
<1>8. CASE AcquireFree(p)
  <2>1. PICK s \in ExpireLocked(State, now) :
          /\ s.item.token = NoToken
          /\ \/ Answer(p, [s EXCEPT !.item = AssignLease(@, call[p].holder, p,
                                                       NormalTTL(call[p].ttl), now)],
                       "acquired", p)
             \/ Answer(p, s, "internal", NoToken)
    BY <1>8 DEF AcquireFree, Available
  <2>2. call[p].op # "steal"
    BY <1>8 DEF AcquireFree, AcquireProceeds, Enters
  <2>3. \A r : [s EXCEPT !.item = r].waiter = s.waiter
    BY <1>3, <1>6
  <2>. QED
    BY <1>5, <2>1, <2>2, <2>3
<1>9. CASE AcquireReenter(p)
  <2>1. PICK s \in ExpireLocked(State, now) :
          \E t, code, token :
               /\ Answer(p, t, code, token) /\ code # "released"
               /\ \/ t = s
                  \/ t = [s EXCEPT !.item = DeeperLease(@, NormalTTL(call[p].ttl), now)]
    BY <1>9 DEF AcquireReenter
  <2>2. call[p].op # "steal"
    BY <1>9 DEF AcquireReenter, AcquireProceeds, Enters
  <2>3. \A ttl : DeeperLease(s.item, ttl, now).token = s.item.token
    BY <1>6 DEF DeeperLease, Record
  <2>4. ASSUME NEW t, t = [s EXCEPT !.item = DeeperLease(@, NormalTTL(call[p].ttl), now)]
        PROVE  t.waiter = s.waiter /\ t.item.token = s.item.token
    BY <1>3, <1>6, <2>3, <2>4
  <2>. QED
    BY <1>5, <2>1, <2>2, <2>4
<1>10. CASE AcquireLocked(p)
  <2>1. call[p].op # "steal"
    BY <1>10 DEF AcquireLocked, AcquireProceeds, Enters
  <2>. QED
    BY <1>5, <1>10, <2>1 DEF AcquireLocked
<1>11. CASE AcquireEnqueue(p)
  <2>. DEFINE w == NewWaiter(seq', call[p].holder, NormalTTL(call[p].ttl))
  <2>1. PICK s \in ExpireLocked(State, now) :
          /\ item' = [s.item EXCEPT !.queue = Push(@, p)]
          /\ waiter' = [s.waiter EXCEPT ![p] = w]
    BY <1>11 DEF AcquireEnqueue
  <2>2. reply' = reply /\ call[p].op # "steal"
    BY <1>11 DEF AcquireEnqueue, AcquireProceeds, Enters
  <2>3. ~w.granted
    BY DEF NewWaiter, NoWaiter
  <2>. HIDE DEF w
  <2>4. Leaves(p, s.waiter) /\ item'.token = s.item.token
    BY <1>6, <2>1, <2>3 DEF Leaves, Record
  <2>5. reply'[p].code # "released"
    BY <2>2 DEF IInv, AnsweredOnce, NoReply
  <2>. QED
    BY <2>2, <2>4, <2>5, ExpiryGiven
<1>12. CASE RenewNotHeld(p)
  <2>1. call[p].op # "steal"
    BY <1>12 DEF RenewNotHeld, Enters
  <2>. QED
    BY <1>1, <1>4, <1>5, <1>12, <2>1 DEF RenewNotHeld
<1>13. CASE RenewHeld(p)
  <2>1. \A n : [State EXCEPT !.item.expiresAt = n].waiter = waiter
    BY <1>1 DEF LockState
  <2>. QED
    BY <1>1, <1>4, <1>13, <2>1 DEF RenewHeld
<1>14. CASE ReleaseRefused(p)
  BY <1>1, <1>4, <1>14 DEF ReleaseRefused
<1>15. CASE ReleaseExpired(p)
  <2>1. call[p].op # "steal"
    BY <1>15 DEF ReleaseExpired, Enters
  <2>2. PICK s \in ExpireLocked(State, now) :
          \E code \in {"not_held", "token_invalid"} : Answer(p, s, code, call[p].token)
    BY <1>15 DEF ReleaseExpired
  <2>. QED
    BY <1>5, <2>1, <2>2
<1>16. CASE ReleaseHeld(p)
  <2>1. CASE \E t, token : t.waiter = waiter /\ Answer(p, t, "partial", token)
    BY <1>4, <2>1
  <2>2. ASSUME NEW s \in GrantNext([State EXCEPT !.item = ClearLease(item, now, TRUE)], now),
               NEW token, Answer(p, s, "released", token)
        PROVE  Given(p)
    <3>1. Leaves(p, s.waiter) /\ reply'[p].code = "released"
      BY <1>2, <2>2
    <3>2. ~Expires(item, now)
      BY <1>16 DEF ReleaseHeld
    <3>3. CASE SameGrants(s.waiter)
      BY <1>1, <3>1, <3>2, <3>3, LeftGranted DEF Given
    <3>4. CASE OneGrant(s.waiter, s.item.token)
      <4>1. s.item.token \in BlockedSet
        BY <3>4 DEF OneGrant
      <4>. QED
        BY <1>1, <3>1, <3>2, <3>4, <4>1, LeftGranted DEF Given
    <3>. QED
      BY <1>1, <3>3, <3>4, CededGrants
  <2>3. ~(\E t, token : t.waiter = waiter /\ Answer(p, t, "partial", token)) =>
          \E s \in GrantNext([State EXCEPT !.item = ClearLease(item, now, TRUE)], now) : \E token :
            Answer(p, s, "released", token)
    BY <1>1, <1>3, <1>16 DEF ReleaseHeld
  <2>. QED
    BY <2>1, <2>2, <2>3
<1>17. CASE StealSection(p)
  <2>. DEFINE cleared == [State EXCEPT !.item = ClearLease(@, now, FALSE)]
              taken   == [cleared EXCEPT !.item = AssignLease(@, call[p].holder, p,
                                                              NormalTTL(call[p].ttl), now)]
  <2>1. cleared.waiter = waiter /\ taken.waiter = waiter
    BY DEF State
  <2>2. \/ \E code \in {"not_found", "invalid"} : Answer(p, State, code, NoToken)
        \/ Answer(p, taken, "stolen", p)
        \/ Answer(p, cleared, "internal", NoToken)
    BY <1>17 DEF StealSection
  <2>. HIDE DEF cleared, taken
  <2>. QED
    BY <1>1, <1>4, <2>1, <2>2
<1>18. CASE DeleteSection(p)
  <2>. DEFINE dead(t) == [ClearLease(t.item, now, FALSE) EXCEPT !.deleted = TRUE]
  <2>1. call[p].op # "steal"
    BY <1>18 DEF DeleteSection, Enters
  <2>2. \/ Answer(p, State, "unauthorized", NoToken)
        \/ \E s \in ExpireLocked(State, now) :
             \/ Answer(p, s, "locked", NoToken)
             \/ \E code \in {"not_found", "deleted"} :
                  Answer(p, [CancelAll(s) EXCEPT !.item = dead(CancelAll(s))], code, NoToken)
    BY <1>18 DEF DeleteSection
  <2>3. CASE Answer(p, State, "unauthorized", NoToken)
    BY <1>1, <1>4, <2>3
  <2>4. CASE \E s \in ExpireLocked(State, now) : Answer(p, s, "locked", NoToken)
    BY <1>5, <2>1, <2>4
  <2>5. ASSUME NEW s \in ExpireLocked(State, now), NEW code \in {"not_found", "deleted"},
               Answer(p, [CancelAll(s) EXCEPT !.item = dead(CancelAll(s))], code, NoToken)
        PROVE  Given(p)
    <3>. DEFINE t == CancelAll(s)
                u == [t EXCEPT !.item = dead(t)]
    <3>1. t \in LockState
      BY <1>1, <2>5, ExpiredIsGood, CancelAllLemma DEF GoodState, BlockedSet
    <3>2. \A q \in Request : t.waiter[q].granted <=> s.waiter[q].granted
      <4>1. ASSUME NEW q \in Request PROVE t.waiter[q].granted <=> s.waiter[q].granted
        <5>1. s.waiter[q] \in Waiter
          BY <1>6
        <5>2. Tell(CancelWaiter(s.waiter[q]), "not_found").granted = s.waiter[q].granted
          BY <5>1, NumbersStay
        <5>. QED
          BY <5>2 DEF CancelAll
      <4>. QED
        BY <4>1
    <3>. HIDE DEF t
    <3>3. u.waiter = t.waiter /\ u.item = dead(t)
      BY <1>3, <3>1
    <3>4. dead(t).token = NoToken
      BY <3>1 DEF ClearLease, LockState, Record
    <3>5. Answer(p, u, code, NoToken)
      BY <2>5 DEF t
    <3>. HIDE DEF dead, u
    <3>6. Leaves(p, u.waiter) /\ item' = u.item /\ reply'[p].code = code
      BY <1>2, <3>5
    <3>. QED
      <4>1. CASE SameGrants(s.waiter)
        <5>1. SameGrants(u.waiter)
          BY <3>2, <3>3, <4>1 DEF SameGrants
        <5>. QED
          BY <1>1, <2>5, <3>6, <5>1, LeftGranted DEF Given
      <4>2. CASE /\ OneGrant(s.waiter, s.item.token)
                 /\ Expires(item, now) /\ item.token # NoToken
        <5>1. OneGrant(u.waiter, s.item.token) /\ s.item.token \in BlockedSet
          BY <3>2, <3>3, <4>2 DEF OneGrant, BlockedSet
        <5>2. item'.token # item.token
          BY <3>3, <3>4, <3>6, <4>2
        <5>3. /\ Granted = {s.item.token}
              /\ \A q \in BlockedSet : waiter[q].granted => waiter'[q].granted
          BY <1>1, <3>6, <5>1, LeftGranted
        <5>. QED
          BY <2>1, <2>5, <3>6, <4>2, <5>1, <5>2, <5>3 DEF Given
      <4>. QED
        BY <1>1, <4>1, <4>2, ExpiredGrants
  <2>. QED
    BY <2>2, <2>3, <2>4, <2>5
<1>19. ~Wait(p)
  BY DEF Wait, WaitOutcome, WaitCtxDone, AbortWait
<1>. QED
  BY <1>7, <1>8, <1>9, <1>10, <1>11, <1>12, <1>13, <1>14, <1>15, <1>16, <1>17, <1>18, <1>19
  DEF Proceed, Acquire, Renew, Release

LEMMA ScanGiven ==
  ASSUME IInv, ExpirerScan
  PROVE  /\ \A q \in BlockedSet : waiter[q].granted => waiter'[q].granted
         /\ \/ Granted = {}
            \/ \E w \in BlockedSet :
                 Granted = {w} /\ Expires(item, expirer.now) /\ item'.token # item.token
<1>1. expirer.now \in Nat
  BY ExpirerType
<1>2. CASE UNCHANGED <<item, waiter>>
  BY <1>2 DEF Granted
<1>3. CASE ~(UNCHANGED <<item, waiter>>)
  <2>1. PICK s \in ExpireLocked(State, expirer.now) :
          Becomes([s EXCEPT !.item.deleted = TRUE]) \/ Becomes(s)
    BY <1>3 DEF ExpirerScan
  <2>2. s \in LockState
    BY <1>1, ExpiredIsGood DEF GoodState
  <2>3. waiter' = s.waiter /\ item'.token = s.item.token
    BY <2>1, <2>2 DEF Becomes, LockState, Record
  <2>4. CASE SameGrants(s.waiter)
    BY <2>3, <2>4 DEF SameGrants, Granted, BlockedSet
  <2>5. CASE /\ OneGrant(s.waiter, s.item.token)
             /\ Expires(item, expirer.now) /\ s.item.token # item.token
    <3>1. s.item.token \in BlockedSet /\ s.item.token \in Granted
      BY <2>3, <2>5 DEF OneGrant, Granted, BlockedSet
    <3>2. \A q \in Granted : q = s.item.token
      BY <2>3, <2>5 DEF OneGrant, Granted
    <3>3. \A q \in BlockedSet : waiter[q].granted => waiter'[q].granted
      BY <2>3, <2>5 DEF OneGrant, BlockedSet
    <3>. QED
      BY <2>3, <2>5, <3>1, <3>2, <3>3
  <2>. QED
    BY <1>1, <2>4, <2>5, ExpiredGrants
<1>. QED
  BY <1>2, <1>3

\* Nobody's answer changes but the caller's.
LEMMA AnswersStay ==
  ASSUME IInv, NEW p \in Request, Proceed(p), NEW q \in Request \ {p}
  PROVE  reply'[q] = reply[q]
<1>1. reply \in [Request -> Reply]
  BY TypesAtHand
<1>2. \A code, token : Finish(p, code, token) => reply'[q] = reply[q]
  BY <1>1 DEF Finish
<1>3. \A s, code, token : Answer(p, s, code, token) => reply'[q] = reply[q]
  BY <1>2 DEF Answer
<1>4. CASE Acquire(p)
  <2>1. AcquireEnqueue(p) => reply' = reply
    BY DEF AcquireEnqueue
  <2>. QED
    BY <1>3, <1>4, <2>1, Zenon
    DEF Acquire, AcquireRejected, AcquireFree, AcquireReenter, AcquireLocked
<1>5. CASE Renew(p) \/ Release(p)
  BY <1>3, <1>5, Zenon DEF Renew, RenewNotHeld, RenewHeld, Release, ReleaseRefused, ReleaseExpired,
                           ReleaseHeld
<1>6. CASE StealSection(p) \/ DeleteSection(p)
  BY <1>3, <1>6, Zenon DEF StealSection, DeleteSection
<1>7. CASE Wait(p)
  <2>1. WaitOutcome(p) => reply'[q] = reply[q]
    BY <1>2 DEF WaitOutcome
  <2>2. WaitCtxDone(p) => reply' = reply
    BY DEF WaitCtxDone
  <2>3. AbortWait(p) => reply'[q] = reply[q]
    BY <1>3, Zenon DEF AbortWait
  <2>. QED
    BY <1>7, <2>1, <2>2, <2>3 DEF Wait
<1>. QED
  BY <1>4, <1>5, <1>6, <1>7 DEF Proceed

-----------------------------------------------------------------------------
(* The owners of leases and the re-entries.                                *)

LEMMA OwnersFinite ==
  ASSUME IInv, HInv
  PROVE  IsFiniteSet(Owners) /\ IsFiniteSet(Reentries)
<1>1. \A p \in Request : pc[p] = "idle" => reply[p].code = "none" /\ ~Blocked(p)
  BY DEF IInv, AnsweredOnce, NoReply, Blocked
<1>2. Owners \in SUBSET Started /\ Reentries \in SUBSET Started
  BY <1>1 DEF Owners, Reentries, Started
<1>. QED
  BY <1>2, FS_Subset DEF HInv

\* What a call's section does to them.
LEMMA SectionOwners ==
  ASSUME IInv, NEW p \in Request, pc[p] = "enter", Proceed(p)
  PROVE  LET code == reply'[p].code
         IN /\ p \notin Owners /\ p \notin Reentries /\ p \notin Granted
            /\ Granted \cap Owners = {}
            /\ Owners' = (Owners \cup Granted)
                           \cup (IF code \in {"acquired", "stolen"} THEN {p} ELSE {})
            /\ Reentries' = Reentries \cup (IF code = "reentered" THEN {p} ELSE {})
<1>1. Given(p)
  BY SectionGiven
<1>2. reply[p].code = "none" /\ ~Blocked(p)
  BY DEF IInv, AnsweredOnce, NoReply, Blocked
<1>3. Granted \subseteq BlockedSet
  BY <1>1 DEF Given
<1>4. \A q \in BlockedSet : reply[q].code = "none"
  BY DEF IInv, AnsweredOnce, NoReply, Blocked, BlockedSet
<1>5. \A q \in Request \ {p} : reply'[q] = reply[q] /\ pc'[q] = pc[q]
  BY AnswersStay, OthersStay
<1>6. p \notin Owners /\ p \notin Reentries /\ p \notin Granted
  BY <1>2, <1>3 DEF Owners, Reentries, BlockedSet
<1>7. Granted \cap Owners = {}
  BY <1>3, <1>4 DEF Granted, Owners
<1>8. p \in Owners' <=> reply'[p].code \in {"acquired", "stolen"}
  <2>1. CASE pc'[p] = "done"
    BY <2>1 DEF Owners, Blocked
  <2>2. CASE AcquireEnqueue(p)
    <3>. DEFINE w == NewWaiter(seq', call[p].holder, NormalTTL(call[p].ttl))
    <3>1. PICK s \in ExpireLocked(State, call[p].now) : waiter' = [s.waiter EXCEPT ![p] = w]
      BY <2>2 DEF AcquireEnqueue
    <3>2. s.waiter \in [Request -> Waiter]
      BY ExpiredIsGood, CallType DEF GoodState, LockState
    <3>3. ~w.granted
      BY DEF NewWaiter, NoWaiter
    <3>. HIDE DEF w
    <3>4. ~waiter'[p].granted
      BY <3>1, <3>2, <3>3
    <3>. QED
      BY <3>4 DEF Owners
  <2>. QED
    BY <2>1, <2>2, SectionLeaves
<1>9. ASSUME NEW q \in Request \ {p} PROVE q \in Owners' <=> q \in Owners \cup Granted
  <2>1. Blocked(q)' <=> Blocked(q)
    BY <1>5 DEF Blocked
  <2>2. Blocked(q) => (waiter'[q].granted <=> waiter[q].granted \/ q \in Granted)
    BY <1>1 DEF Given, Granted, BlockedSet
  <2>3. q \in Granted => Blocked(q)
    BY <1>3 DEF BlockedSet
  <2>. QED
    BY <1>5, <2>1, <2>2, <2>3 DEF Owners
<1>10. Owners' = (Owners \cup Granted)
                   \cup (IF reply'[p].code \in {"acquired", "stolen"} THEN {p} ELSE {})
  <2>1. Owners' \subseteq Request /\ Owners \subseteq Request /\ Granted \subseteq Request
    BY DEF Owners, Granted
  <2>. QED
    BY <1>6, <1>8, <1>9, <2>1
<1>11. Reentries' = Reentries \cup (IF reply'[p].code = "reentered" THEN {p} ELSE {})
  BY <1>5, <1>6 DEF Reentries
<1>. QED
  BY <1>6, <1>7, <1>10, <1>11

\* What the expirer's pass does to them.
LEMMA ScanOwners ==
  ASSUME IInv, ExpirerScan
  PROVE  Granted \cap Owners = {} /\ Owners' = Owners \cup Granted /\ Reentries' = Reentries
<1>1. pc' = pc /\ reply' = reply
  BY DEF ExpirerScan
<1>2. Granted \subseteq BlockedSet /\ \A q \in BlockedSet : waiter[q].granted => waiter'[q].granted
  BY ScanGiven
<1>3. \A q \in BlockedSet : reply[q].code = "none"
  BY DEF IInv, AnsweredOnce, NoReply, Blocked, BlockedSet
<1>4. Granted \cap Owners = {}
  BY <1>2, <1>3 DEF Granted, Owners
<1>5. ASSUME NEW q \in Request PROVE q \in Owners' <=> q \in Owners \cup Granted
  <2>1. Blocked(q)' <=> Blocked(q)
    BY <1>1 DEF Blocked
  <2>2. Blocked(q) => (waiter'[q].granted <=> waiter[q].granted \/ q \in Granted)
    BY <1>2 DEF Granted, BlockedSet
  <2>3. q \in Granted => Blocked(q)
    BY <1>2 DEF BlockedSet
  <2>. QED
    BY <1>1, <2>1, <2>2, <2>3 DEF Owners
<1>6. Owners' \subseteq Request /\ Owners \subseteq Request /\ Granted \subseteq Request
  BY DEF Owners, Granted
<1>. QED
  BY <1>1, <1>4, <1>5, <1>6 DEF Reentries

\* The other steps of the service: whose lease was granted while it waited is
\* answered so.
LEMMA QuietOwners ==
  ASSUME IInv,
         \/ \E p \in Request : Start(p) \/ Wait(p) \/ CtxDone(p)
         \/ ExpirerTick \/ Tick \/ UNCHANGED vars
  PROVE  Owners' = Owners /\ Reentries' = Reentries
<1>0. reply \in [Request -> Reply] /\ pc \in [Request -> Place] /\ waiter \in [Request -> Waiter]
  BY TypesAtHand
<1>1. CASE ExpirerTick \/ Tick \/ UNCHANGED vars \/ \E p \in Request : CtxDone(p)
  <2>1. UNCHANGED <<waiter, pc, reply>>
    BY <1>1 DEF ExpirerTick, Tick, vars, CtxDone
  <2>. QED
    BY <2>1 DEF Owners, Reentries, Blocked
<1>2. ASSUME NEW p \in Request, Start(p) PROVE Owners' = Owners /\ Reentries' = Reentries
  <2>1. /\ waiter' = waiter /\ pc[p] = "idle" /\ pc'[p] \in {"enter", "done"}
        /\ reply'[p].code \notin {"acquired", "stolen", "reentered"}
        /\ \A q \in Request \ {p} : pc'[q] = pc[q] /\ reply'[q] = reply[q]
    <3>. DEFINE P == /\ waiter' = waiter /\ pc[p] = "idle" /\ pc'[p] \in {"enter", "done"}
                     /\ reply'[p].code \notin {"acquired", "stolen", "reentered"}
                     /\ \A q \in Request \ {p} : pc'[q] = pc[q] /\ reply'[q] = reply[q]
    <3>1. pc[p] = "idle" => reply[p].code = "none"
      BY DEF IInv, AnsweredOnce, NoReply
    <3>2. \A c : LookUp(p, c) => P
      BY <1>0, <3>1 DEF LookUp, Finish
    <3>3. \A code : Refuse(p, code) /\ code \notin {"acquired", "stolen", "reentered"} => P
      BY <1>0 DEF Refuse, Finish
    <3>4. /\ "invalid" \notin {"acquired", "stolen", "reentered"}
          /\ "canceled" \notin {"acquired", "stolen", "reentered"}
          /\ "unauthorized" \notin {"acquired", "stolen", "reentered"}
      OBVIOUS
    <3>. HIDE DEF P
    <3>5. P
      BY <1>2, <3>2, <3>3, <3>4, Zenon
      DEF Start, StartAcquire, StartRenew, StartRelease, StartSteal, StartDelete
    <3>. QED
      BY <3>5 DEF P
  <2>2. p \notin Owners /\ p \notin Reentries
    BY <2>1 DEF IInv, AnsweredOnce, NoReply, Owners, Reentries, Blocked
  <2>3. p \notin Owners' /\ p \notin Reentries'
    BY <2>1 DEF Owners, Reentries, Blocked
  <2>4. \A q \in Request \ {p} : /\ q \in Owners' <=> q \in Owners
                                 /\ q \in Reentries' <=> q \in Reentries
    BY <2>1 DEF Owners, Reentries, Blocked
  <2>5. Owners \cup Owners' \cup Reentries \cup Reentries' \subseteq Request
    BY DEF Owners, Reentries
  <2>. QED
    BY <2>2, <2>3, <2>4, <2>5
<1>3. ASSUME NEW p \in Request, Wait(p) PROVE Owners' = Owners /\ Reentries' = Reentries
  <2>1. Proceed(p) /\ Blocked(p) /\ reply[p].code = "none"
    BY <1>3 DEF Proceed, Wait, WaitOutcome, WaitCtxDone, AbortWait, Blocked, IInv, AnsweredOnce,
                NoReply
  <2>2. /\ \A q \in Request \ {p} : reply'[q] = reply[q] /\ pc'[q] = pc[q]
        /\ \A q \in Request \ {p} : waiter'[q].granted = waiter[q].granted
    <3>1. \A q \in Request \ {p} : waiter'[q] = waiter[q]
      BY <1>0, <1>3 DEF Wait, WaitOutcome, WaitCtxDone, AbortWait, Answer, Becomes, State
    <3>. QED
      BY <2>1, <3>1, AnswersStay, OthersStay
  <2>3. p \in Owners <=> waiter[p].granted
    BY <2>1 DEF Owners
  <2>4. p \notin Reentries
    BY <2>1 DEF Reentries
  <2>5. (p \in Owners' <=> waiter[p].granted) /\ p \notin Reentries'
    <3>1. CASE WaitCtxDone(p)
      <4>1. waiter' = waiter /\ reply' = reply /\ pc'[p] = "abort"
        BY <1>0, <3>1 DEF WaitCtxDone
      <4>. QED
        BY <2>1, <4>1 DEF Owners, Reentries, Blocked
    <3>2. CASE WaitOutcome(p)
      <4>1. p \in BlockedSet /\ waiter[p].done # <<>> /\ waiter[p].done \in Seq(Outcome)
            /\ Len(waiter[p].done) <= 1
        BY <1>0, <2>1, <3>2 DEF WaitOutcome, BlockedSet, Waiter, IInv, QueueInv, State
      <4>2. waiter[p].granted <=> Head(waiter[p].done) = "granted"
        <5>1. waiter[p].granted <=> waiter[p].done = <<"granted">>
          BY <4>1 DEF IInv, QueueInv, State
        <5>2. waiter[p].done = <<Head(waiter[p].done)>>
          BY <4>1
        <5>. QED
          BY <5>1, <5>2
      <4>3. /\ pc'[p] = "done"
            /\ reply'[p].code = IF Head(waiter[p].done) = "granted" THEN "acquired"
                                ELSE Head(waiter[p].done)
        BY <1>0, <3>2 DEF WaitOutcome, Finish
      <4>4. Head(waiter[p].done) \in Outcome
        BY <4>1
      <4>. QED
        BY <4>2, <4>3, <4>4 DEF Owners, Reentries, Blocked, Outcome
    <3>3. CASE AbortWait(p)
      <4>1. \/ waiter[p].granted /\ pc'[p] = "done" /\ reply'[p].code = "acquired"
            \/ ~waiter[p].granted /\ pc'[p] = "done" /\ reply'[p].code = "wait_ended"
        BY <1>0, <3>3 DEF AbortWait, Answer, Finish
      <4>. QED
        BY <4>1 DEF Owners, Reentries, Blocked
    <3>. QED
      BY <1>3, <3>1, <3>2, <3>3 DEF Wait
  <2>6. \A q \in Request \ {p} : /\ q \in Owners' <=> q \in Owners
                                 /\ q \in Reentries' <=> q \in Reentries
    BY <2>2 DEF Owners, Reentries, Blocked
  <2>7. Owners \cup Owners' \cup Reentries \cup Reentries' \subseteq Request
    BY DEF Owners, Reentries
  <2>. QED
    BY <2>3, <2>4, <2>5, <2>6, <2>7
<1>. QED
  BY <1>1, <1>2, <1>3

-----------------------------------------------------------------------------
(* Every lease is announced.                                               *)

\* Events that announce a lease or a re-entry.
Weight(events) == CountOf("held", events) + CountOf("stolen", events)

LEMMA WeightLemma ==
  ASSUME NEW events \in Seq(AnyKind)
  PROVE  /\ Weight(events) \in Nat
         /\ CountOf("held", events) \in Nat /\ CountOf("stolen", events) \in Nat
BY PlacesLemma DEF Weight

\* What those granted the lock in this step weigh.
Grantees == IF Granted = {} THEN 0 ELSE 1

LEMMA HeldByNextWeight ==
  /\ CountOf("held", HeldByNext) = Grantees /\ CountOf("stolen", HeldByNext) = 0
  /\ HeldByNext \in Seq(AnyKind)
<1>1. Grants <=> Granted # {}
  BY DEF Grants, Granted
<1>2. "held" \in AnyKind /\ "held" # "stolen" /\ <<"held">> \in Seq(AnyKind) /\ <<>> \in Seq(AnyKind)
  BY EmptySeq DEF AnyKind, Kind
<1>3. CASE Granted = {}
  <2>1. HeldByNext = <<>>
    BY <1>1, <1>3 DEF HeldByNext
  <2>. QED
    BY <1>2, <1>3, <2>1, FirstCount DEF Grantees
<1>4. CASE Granted # {}
  <2>1. HeldByNext = <<"held">>
    BY <1>1, <1>4 DEF HeldByNext
  <2>2. CountOf("held", <<"held">>) = 1 /\ CountOf("stolen", <<"held">>) = 0
    BY <1>2, FirstCount
  <2>. QED
    BY <1>2, <1>4, <2>1, <2>2 DEF Grantees
<1>. QED
  BY <1>3, <1>4

\* Events that begin with one of another kind weigh what the others do.
LEMMA OtherWeight ==
  ASSUME NEW a \in AnyKind \ {"held", "stolen"}
  PROVE  Weight(<<a>>) = 0 /\ Weight(<<a>> \o HeldByNext) = Grantees
<1>1. \A kind \in {"held", "stolen"} :
        CountOf(kind, <<a>>) = 0 /\ CountOf(kind, <<a>> \o HeldByNext) = 0 + CountOf(kind, HeldByNext)
  BY HeldByNextWeight, FirstCount
<1>2. Grantees \in Nat
  BY DEF Grantees
<1>. QED
  BY <1>1, <1>2, HeldByNextWeight DEF Weight

LEMMA LateWeight ==
  ASSUME NEW code
  PROVE  Weight(LateEvents(code)) = IF code = "released" THEN Grantees
                                    ELSE IF code \in {"acquired", "reentered", "stolen"} THEN 1
                                    ELSE 0
<1>1. "held" \in AnyKind /\ "stolen" \in AnyKind
      /\ "released" \in AnyKind \ {"held", "stolen"} /\ "purged" \in AnyKind \ {"held", "stolen"}
  BY DEF AnyKind, Kind
<1>2. Weight(<<"held">>) = 1 /\ Weight(<<"stolen">>) = 1 /\ Weight(<<>>) = 0
  <2>1. /\ CountOf("held", <<"held">>) = 1 /\ CountOf("stolen", <<"held">>) = 0
        /\ CountOf("held", <<"stolen">>) = 0 /\ CountOf("stolen", <<"stolen">>) = 1
        /\ CountOf("held", <<>>) = 0 /\ CountOf("stolen", <<>>) = 0
    BY <1>1, FirstCount
  <2>. QED
    BY <2>1 DEF Weight
<1>3. Weight(<<"released">> \o HeldByNext) = Grantees /\ Weight(<<"purged">>) = 0
  BY <1>1, OtherWeight
<1>4. CASE code \in {"acquired", "reentered"}
  <2>1. LateEvents(code) = <<"held">> /\ code # "released"
    BY <1>4 DEF LateEvents
  <2>. QED
    BY <1>2, <1>4, <2>1
<1>5. CASE code = "released"
  <2>1. LateEvents(code) = <<"released">> \o HeldByNext
    BY <1>5 DEF LateEvents
  <2>. QED
    BY <1>3, <1>5, <2>1
<1>6. CASE code = "stolen"
  <2>1. LateEvents(code) = <<"stolen">>
    BY <1>6 DEF LateEvents
  <2>. QED
    BY <1>2, <1>6, <2>1
<1>7. CASE code \notin {"acquired", "reentered", "released", "stolen"}
  <2>1. LateEvents(code) \in {<<"purged">>, <<>>}
    BY <1>7 DEF LateEvents
  <2>. QED
    BY <1>2, <1>3, <1>7, <2>1
<1>. QED
  BY <1>4, <1>5, <1>6, <1>7

LEMMA ExpiryWeight ==
  ASSUME NEW now
  PROVE  Weight(ExpiryEvents(now)) =
           IF Expires(item, now) /\ item'.token # item.token THEN Grantees ELSE 0
<1>1. "expired" \in AnyKind \ {"held", "stolen"}
  BY DEF AnyKind, Kind
<1>2. Weight(<<>>) = 0
  BY FirstCount DEF Weight
<1>. QED
  BY <1>1, <1>2, OtherWeight DEF ExpiryEvents

\* The events that announce, sent or to be sent, of outboxes and counts.
Total == Announced("held") + Announced("stolen")

Finite == IsFiniteSet(Pending("held")) /\ IsFiniteSet(Pending("stolen"))

\* A step that broadcasts some events and changes what is in one outbox: the
\* events of one kind, and those that announce.
LEMMA KindAnnouncing ==
  ASSUME NotifyTypeOK, Finite, NEW events \in Seq(AnyKind), Broadcast(events),
         NEW g \in Emitter, NEW late \in Seq(Kind), outbox' = [outbox EXCEPT ![g] = late],
         NEW kind \in {"held", "stolen"}
  PROVE  /\ IsFiniteSet(Pending(kind)')
         /\ Announced(kind) \in Nat /\ Announced(kind)' \in Nat
         /\ CountOf(kind, outbox[g]) \in Nat
         /\ CountOf(kind, events) \in Nat /\ CountOf(kind, late) \in Nat
         /\ Announced(kind)' + CountOf(kind, outbox[g]) =
              Announced(kind) + CountOf(kind, events) + CountOf(kind, late)
<1>0. /\ outbox \in [Emitter -> Seq(Kind)] /\ outbox' \in [Emitter -> Seq(Kind)]
      /\ outbox'[g] = late /\ \A x \in Emitter \ {g} : outbox'[x] = outbox[x]
      /\ outbox[g] \in Seq(Kind)
  BY DEF NotifyTypeOK
<1>1. IsFiniteSet(Waiting(outbox, kind))
  BY PendingForm DEF Finite
<1>2. /\ IsFiniteSet(Waiting(outbox', kind))
      /\ Cardinality(Waiting(outbox, kind)) \in Nat /\ Cardinality(Waiting(outbox', kind)) \in Nat
      /\ Cardinality(Waiting(outbox', kind)) + CountOf(kind, outbox[g]) =
           Cardinality(Waiting(outbox, kind)) + CountOf(kind, outbox'[g])
  <2>. DEFINE box == outbox
              box2 == outbox'
  <2>1. /\ box \in [Emitter -> Seq(Kind)] /\ box2 \in [Emitter -> Seq(Kind)]
        /\ \A x \in Emitter \ {g} : box2[x] = box[x]
        /\ IsFiniteSet(Waiting(box, kind))
    BY <1>0, <1>1
  <2>. HIDE DEF box, box2
  <2>2. /\ IsFiniteSet(Waiting(box2, kind))
        /\ Cardinality(Waiting(box, kind)) \in Nat /\ Cardinality(Waiting(box2, kind)) \in Nat
        /\ Cardinality(Waiting(box2, kind)) + CountOf(kind, box[g]) =
             Cardinality(Waiting(box, kind)) + CountOf(kind, box2[g])
    BY <2>1, WaitingChange
  <2>. QED
    BY <2>2 DEF box, box2
<1>3. kind \in Kind
  BY DEF Kind
<1>4. sent[kind] \in Nat /\ sent'[kind] = sent[kind] + CountOf(kind, events)
  BY <1>3 DEF NotifyTypeOK, Broadcast
<1>5. CountOf(kind, outbox[g]) \in Nat /\ CountOf(kind, late) \in Nat
  BY <1>0, PlacesLemma
<1>6. CountOf(kind, events) \in Nat
  BY PlacesLemma
<1>7. CountOf(kind, outbox'[g]) = CountOf(kind, late)
  BY <1>0
<1>. DEFINE c  == Cardinality(Waiting(outbox, kind))
            c2 == Cardinality(Waiting(outbox', kind))
            s  == sent[kind]
            s2 == sent'[kind]
            gone == CountOf(kind, outbox[g])
            now  == CountOf(kind, events)
            left == CountOf(kind, late)
<1>8. /\ c \in Nat /\ c2 \in Nat /\ c2 + gone = c + left
      /\ s \in Nat /\ s2 = s + now
      /\ gone \in Nat /\ now \in Nat /\ left \in Nat
  BY <1>2, <1>4, <1>5, <1>6, <1>7
<1>9. Announced(kind) = s + c /\ Announced(kind)' = s2 + c2 /\ IsFiniteSet(Pending(kind)')
  BY <1>2, PendingForm DEF Announced
<1>. HIDE DEF c, c2, s, s2, gone, now, left
<1>10. /\ s + c \in Nat /\ s2 + c2 \in Nat /\ (s2 + c2) + gone = (s + c) + now + left
  BY <1>8
<1>. QED
  BY <1>8, <1>9, <1>10 DEF gone, now, left

LEMMA Announcing ==
  ASSUME NotifyTypeOK, Finite, NEW events \in Seq(AnyKind), Broadcast(events),
         NEW g \in Emitter, NEW late \in Seq(Kind), outbox' = [outbox EXCEPT ![g] = late]
  PROVE  /\ Finite' /\ Total \in Nat /\ Total' \in Nat
         /\ Weight(outbox[g]) \in Nat /\ Weight(events) \in Nat /\ Weight(late) \in Nat
         /\ Total' + Weight(outbox[g]) = Total + Weight(events) + Weight(late)
<1>. DEFINE h  == Announced("held")
            h2 == Announced("held")'
            hg == CountOf("held", outbox[g])
            he == CountOf("held", events)
            hl == CountOf("held", late)
            s  == Announced("stolen")
            s2 == Announced("stolen")'
            sg == CountOf("stolen", outbox[g])
            se == CountOf("stolen", events)
            sl == CountOf("stolen", late)
<1>1. /\ IsFiniteSet(Pending("held")')
      /\ h \in Nat /\ h2 \in Nat /\ hg \in Nat /\ he \in Nat /\ hl \in Nat
      /\ h2 + hg = h + he + hl
  BY KindAnnouncing
<1>2. /\ IsFiniteSet(Pending("stolen")')
      /\ s \in Nat /\ s2 \in Nat /\ sg \in Nat /\ se \in Nat /\ sl \in Nat
      /\ s2 + sg = s + se + sl
  BY KindAnnouncing
<1>3. /\ Total = h + s /\ Total' = h2 + s2
      /\ Weight(outbox[g]) = hg + sg /\ Weight(events) = he + se /\ Weight(late) = hl + sl
  BY DEF Total, Weight
<1>4. Finite'
  BY <1>1, <1>2 DEF Finite
<1>. HIDE DEF h, h2, hg, he, hl, s, s2, sg, se, sl
<1>. QED
  BY <1>1, <1>2, <1>3, <1>4

\* A set that others and perhaps one more join.
LEMMA SetGrows ==
  ASSUME NEW O, IsFiniteSet(O), NEW G, IsFiniteSet(G), NEW p, NEW b \in BOOLEAN,
         G \cap O = {}, p \notin O, p \notin G,
         NEW all, all = (O \cup G) \cup (IF b THEN {p} ELSE {})
  PROVE  /\ Cardinality(O) \in Nat /\ Cardinality(G) \in Nat
         /\ Cardinality(all) = Cardinality(O) + Cardinality(G) + (IF b THEN 1 ELSE 0)
<1>. DEFINE M == O \cup G
<1>1. /\ IsFiniteSet(M) /\ Cardinality(O) \in Nat /\ Cardinality(G) \in Nat
      /\ Cardinality(M) = Cardinality(O) + Cardinality(G)
  <2>1. O \cap G = {} /\ Cardinality(O \cap G) = 0
    BY FS_EmptySet
  <2>2. /\ IsFiniteSet(O \cup G)
        /\ Cardinality(O \cup G) = Cardinality(O) + Cardinality(G) - Cardinality(O \cap G)
    BY FS_Union
  <2>. QED
    BY <2>1, <2>2, FS_CardinalityType
<1>2. p \notin M /\ all = M \cup (IF b THEN {p} ELSE {})
  OBVIOUS
<1>. HIDE DEF M
<1>3. Cardinality(all) = Cardinality(M) + (IF b THEN 1 ELSE 0)
  <2>1. CASE b
    <3>1. all = M \cup {p}
      BY <1>2, <2>1
    <3>. QED
      BY <1>1, <1>2, <2>1, <3>1, FS_AddElement
  <2>2. CASE ~b
    <3>1. all = M /\ Cardinality(M) \in Nat
      BY <1>1, <1>2, <2>2, FS_CardinalityType
    <3>. QED
      BY <2>2, <3>1
  <2>. QED
    BY <2>1, <2>2
<1>. QED
  BY <1>1, <1>3

\* There is at most one to be granted the lock.
LEMMA OneGrantee ==
  ASSUME Granted = {} \/ \E w : Granted = {w}
  PROVE  IsFiniteSet(Granted) /\ Cardinality(Granted) = Grantees
BY FS_EmptySet, FS_Singleton DEF Grantees

\* The invariant: EveryLeaseAnnounced, of finitely many events to be sent.
AllAnnounced == EveryLeaseAnnounced /\ Finite

LEMMA SectionAnnounces ==
  ASSUME IInv, HInv, EventsOK, AllAnnounced, NEW p \in Request, Section(p)
  PROVE  AllAnnounced'
<1>. DEFINE code == reply'[p].code
            E    == IF call[p].op = "steal" THEN <<>> ELSE ExpiryEvents(call[p].now)
            late == LateEvents(code)
            got  == code \in {"acquired", "stolen"}
            again == code = "reentered"
<1>1. /\ pc[p] = "enter" /\ Proceed(p) /\ Broadcast(E)
      /\ outbox' = [outbox EXCEPT ![p] = late]
  BY DEF Section
<1>2. E \in Seq(AnyKind) /\ late \in Seq(Kind) /\ p \in Emitter
  <2>1. Kind \subseteq AnyKind /\ <<>> \in Seq(Kind)
    BY EmptySeq DEF AnyKind
  <2>. QED
    BY <2>1, EventsType, SeqMonotonic DEF Emitter
<1>3. Weight(late) = IF code = "released" THEN Grantees
                     ELSE IF code \in {"acquired", "reentered", "stolen"} THEN 1 ELSE 0
  BY LateWeight
<1>4. Weight(E) = IF /\ call[p].op # "steal" /\ Expires(item, call[p].now)
                     /\ item'.token # item.token
                  THEN Grantees ELSE 0
  <2>1. Weight(<<>>) = 0
    BY FirstCount DEF Weight
  <2>. QED
    BY <2>1, ExpiryWeight
<1>. HIDE DEF E, late
<1>5. Weight(outbox[p]) = 0
  <2>1. outbox[p] = <<>>
    BY <1>1 DEF EventsOK, OutboxesEmpty
  <2>. QED
    BY <2>1, FirstCount DEF Weight
<1>6. /\ Finite' /\ Total \in Nat /\ Total' \in Nat /\ Weight(E) \in Nat /\ Weight(late) \in Nat
      /\ Total' + Weight(outbox[p]) = Total + Weight(E) + Weight(late)
  BY <1>1, <1>2, Announcing DEF EventsOK, AllAnnounced
<1>7. Given(p)
  BY <1>1, SectionGiven
<1>8. Weight(E) + Weight(late) = Grantees + (IF got THEN 1 ELSE 0) + (IF again THEN 1 ELSE 0)
  BY <1>3, <1>4, <1>7 DEF Given, Grantees
<1>9. /\ p \notin Owners /\ p \notin Reentries /\ p \notin Granted /\ Granted \cap Owners = {}
      /\ Owners' = (Owners \cup Granted) \cup (IF got THEN {p} ELSE {})
      /\ Reentries' = Reentries \cup (IF again THEN {p} ELSE {})
  BY <1>1, SectionOwners
<1>10. got \in BOOLEAN /\ again \in BOOLEAN /\ IsFiniteSet(Owners) /\ IsFiniteSet(Reentries)
       /\ (Granted = {} \/ \E w : Granted = {w})
  BY <1>7, OwnersFinite DEF Given
<1>. HIDE DEF got, again
<1>11. /\ Cardinality(Owners) \in Nat
       /\ Cardinality(Owners') = Cardinality(Owners) + Grantees + (IF got THEN 1 ELSE 0)
  <2>. DEFINE old == Owners
              new == Owners'
              gr  == Granted
  <2>1. /\ p \notin old /\ p \notin gr /\ gr \cap old = {} /\ IsFiniteSet(old)
        /\ new = (old \cup gr) \cup (IF got THEN {p} ELSE {})
        /\ IsFiniteSet(gr) /\ Cardinality(gr) = Grantees /\ got \in BOOLEAN
    BY <1>9, <1>10, OneGrantee
  <2>. HIDE DEF old, new, gr
  <2>2. /\ Cardinality(old) \in Nat
        /\ Cardinality(new) = Cardinality(old) + Cardinality(gr) + (IF got THEN 1 ELSE 0)
    BY <2>1, SetGrows
  <2>. QED
    BY <2>1, <2>2 DEF old, new
<1>12. /\ Cardinality(Reentries) \in Nat
       /\ Cardinality(Reentries') = Cardinality(Reentries) + 0 + (IF again THEN 1 ELSE 0)
  <2>. DEFINE old  == Reentries
              new  == Reentries'
              none == {}
  <2>1. /\ p \notin old /\ p \notin none /\ none \cap old = {} /\ IsFiniteSet(old)
        /\ new = (old \cup none) \cup (IF again THEN {p} ELSE {})
        /\ IsFiniteSet(none) /\ Cardinality(none) = 0
    BY <1>9, <1>10, FS_EmptySet
  <2>. HIDE DEF old, new, none
  <2>2. /\ Cardinality(old) \in Nat
        /\ Cardinality(new) =
             Cardinality(old) + Cardinality(none) + (IF again THEN 1 ELSE 0)
    BY <1>10, <2>1, SetGrows
  <2>. QED
    BY <2>1, <2>2 DEF old, new
<1>13. Total = Cardinality(Owners) + Cardinality(Reentries)
  BY DEF AllAnnounced, EveryLeaseAnnounced, Total
<1>14. Total' = Cardinality(Owners') + Cardinality(Reentries')
  <2>1. Grantees \in Nat
    BY DEF Grantees
  <2>. QED
    BY <1>5, <1>6, <1>8, <1>11, <1>12, <1>13, <2>1
<1>. QED
  BY <1>6, <1>14 DEF AllAnnounced, EveryLeaseAnnounced, Total

LEMMA ScanAnnounces ==
  ASSUME IInv, HInv, EventsOK, AllAnnounced, ScanPass
  PROVE  AllAnnounced'
<1>. DEFINE E == ExpiryEvents(expirer.now)
            late == IF item'.deleted /\ ~item.deleted THEN <<"purged">> ELSE <<>>
<1>1. /\ ExpirerScan /\ Broadcast(E) /\ outbox' = [outbox EXCEPT ![Expirer] = late]
      /\ expirer.pc = "scan"
  BY DEF ScanPass, ExpirerScan
<1>2. E \in Seq(AnyKind) /\ late \in Seq(Kind) /\ Expirer \in Emitter
  <2>1. Kind \subseteq AnyKind /\ <<>> \in Seq(Kind) /\ "purged" \in Kind
    BY EmptySeq DEF AnyKind, Kind
  <2>. QED
    BY <2>1, EventsType, SeqMonotonic DEF Emitter
<1>3. Weight(late) = 0 /\ Weight(outbox[Expirer]) = 0
  <2>1. Weight(<<>>) = 0
    BY FirstCount DEF Weight
  <2>2. Weight(<<"purged">>) = 0
    BY OtherWeight DEF AnyKind, Kind
  <2>3. outbox[Expirer] = <<>>
    BY <1>1 DEF EventsOK, OutboxesEmpty
  <2>. QED
    BY <2>1, <2>2, <2>3
<1>4. Weight(E) = Grantees
  BY <1>1, ExpiryWeight, ScanGiven DEF Grantees
<1>. HIDE DEF E, late
<1>5. /\ Finite' /\ Total \in Nat /\ Total' \in Nat
      /\ Total' + Weight(outbox[Expirer]) = Total + Weight(E) + Weight(late)
  BY <1>1, <1>2, Announcing DEF EventsOK, AllAnnounced
<1>6. Granted \cap Owners = {} /\ Owners' = Owners \cup Granted /\ Reentries' = Reentries
  BY <1>1, ScanOwners
<1>7. IsFiniteSet(Owners) /\ (Granted = {} \/ \E w : Granted = {w})
  BY <1>1, OwnersFinite, ScanGiven
<1>8. /\ Cardinality(Owners) \in Nat
      /\ Cardinality(Owners') = Cardinality(Owners) + Grantees + 0
  <2>1. \E p : p \notin Owners /\ p \notin Granted
    <3>1. NoToken \notin Owners /\ NoToken \notin Granted
      BY RecordAssumption DEF Owners, Granted
    <3>. QED
      BY <3>1
  <2>2. PICK p : p \notin Owners /\ p \notin Granted
    BY <2>1
  <2>. DEFINE old == Owners
              new == Owners'
              gr  == Granted
              no  == FALSE
  <2>3. /\ p \notin old /\ p \notin gr /\ gr \cap old = {} /\ IsFiniteSet(old)
        /\ new = (old \cup gr) \cup (IF no THEN {p} ELSE {})
        /\ IsFiniteSet(gr) /\ Cardinality(gr) = Grantees
        /\ no \in BOOLEAN /\ no = FALSE
    BY <1>6, <1>7, <2>2, OneGrantee
  <2>. HIDE DEF old, new, gr, no
  <2>4. /\ Cardinality(old) \in Nat
        /\ Cardinality(new) = Cardinality(old) + Cardinality(gr) + (IF no THEN 1 ELSE 0)
    BY <2>3, SetGrows
  <2>. QED
    BY <2>3, <2>4 DEF old, new
<1>9. Total = Cardinality(Owners) + Cardinality(Reentries) /\ Cardinality(Reentries) \in Nat
  BY OwnersFinite, FS_CardinalityType DEF AllAnnounced, EveryLeaseAnnounced, Total
<1>10. Total' = Cardinality(Owners') + Cardinality(Reentries')
  <2>1. Grantees \in Nat
    BY DEF Grantees
  <2>. QED
    BY <1>3, <1>4, <1>5, <1>6, <1>8, <1>9, <2>1
<1>. QED
  BY <1>5, <1>10 DEF AllAnnounced, EveryLeaseAnnounced, Total

\* Emitting moves an event from the outbox to those sent.
LEMMA EmitAnnounces ==
  ASSUME EventsOK, AllAnnounced, NEW g \in Emitter, Emit(g)
  PROVE  AllAnnounced'
<1>. DEFINE q == outbox[g]
            first == <<Head(q)>>
            late == Tail(q)
<1>1. q \in Seq(Kind) /\ q # <<>>
  BY DEF EventsOK, NotifyTypeOK, Emit
<1>2. first \in Seq(AnyKind) /\ late \in Seq(Kind)
  BY <1>1, TailLemma
<1>3. outbox' = [outbox EXCEPT ![g] = late] /\ Broadcast(first) /\ UNCHANGED vars
  BY DEF Emit
<1>4. Weight(q) = Weight(first) + Weight(late)
  <2>1. \A kind : CountOf(kind, q) = CountOf(kind, first) + CountOf(kind, late)
    BY <1>1, FirstCount
  <2>2. \A kind : CountOf(kind, first) \in Nat /\ CountOf(kind, late) \in Nat
    BY <1>2, PlacesLemma
  <2>. QED
    BY <2>1, <2>2 DEF Weight
<1>. HIDE DEF first, late
<1>5. /\ Finite' /\ Total \in Nat /\ Total' \in Nat
      /\ Weight(q) \in Nat /\ Weight(first) \in Nat /\ Weight(late) \in Nat
      /\ Total' + Weight(q) = Total + Weight(first) + Weight(late)
  BY <1>2, <1>3, Announcing DEF EventsOK, AllAnnounced
<1>6. Owners' = Owners /\ Reentries' = Reentries
  BY <1>3 DEF vars, Owners, Reentries, Blocked
<1>. HIDE DEF q
<1>7. Total' = Total
  BY <1>4, <1>5
<1>. QED
  BY <1>5, <1>6, <1>7 DEF AllAnnounced, EveryLeaseAnnounced, Total

LEMMA OtherLockAnnounces ==
  ASSUME EventsOK, AllAnnounced, OtherLock
  PROVE  AllAnnounced'
<1>1. outbox' = outbox /\ UNCHANGED vars /\ Broadcast(<<"other">>)
  BY DEF OtherLock
<1>2. \A kind \in {"held", "stolen"} : CountOf(kind, <<"other">>) = 0
  BY FirstCount DEF AnyKind
<1>3. sent'["held"] = sent["held"] /\ sent'["stolen"] = sent["stolen"]
  BY <1>1, <1>2 DEF Broadcast, EventsOK, NotifyTypeOK, Kind
<1>4. \A kind : Pending(kind)' = Pending(kind)
  BY <1>1, PendingForm
<1>5. Owners' = Owners /\ Reentries' = Reentries
  BY <1>1 DEF vars, Owners, Reentries, Blocked
<1>. QED
  BY <1>3, <1>4, <1>5 DEF AllAnnounced, EveryLeaseAnnounced, Announced, Finite

\* A step that emits nothing and grants nothing.
LEMMA QuietAnnounces ==
  ASSUME AllAnnounced, outbox' = outbox, sent' = sent, Owners' = Owners, Reentries' = Reentries
  PROVE  AllAnnounced'
<1>1. \A kind : Pending(kind)' = Pending(kind)
  BY PendingForm
<1>. QED
  BY <1>1 DEF AllAnnounced, EveryLeaseAnnounced, Announced, Finite

LEMMA AnnouncedStep ==
  ASSUME IInv, HInv, EventsOK, AllAnnounced, [NotifyNext]_allVars
  PROVE  AllAnnounced'
<1>1. CASE \E g \in Emitter : Emit(g)
  BY <1>1, EmitAnnounces
<1>2. CASE OtherLock
  BY <1>2, OtherLockAnnounces
<1>3. CASE \E p \in Request : Section(p)
  BY <1>3, SectionAnnounces
<1>4. CASE ScanPass
  BY <1>4, ScanAnnounces
<1>5. CASE \E w \in Watcher : WatchSubscribe(w) \/ Watch(w) \/ WatchCtxDone(w)
  <2>1. \A w, v : Watches(w, v) => UNCHANGED <<vars, outbox, sent>>
    BY DEF Watches
  <2>2. UNCHANGED <<vars, outbox, sent>>
    BY <1>5, <2>1 DEF WatchSubscribe, Watch, WatchLook, WatchView, WatchEvent, WatchCtxDone
  <2>. QED
    BY <2>2, QuietOwners, QuietAnnounces
<1>6. CASE \/ \E p \in Request :
                StartCall(p) \/ EndOfWait(p) \/ (CtxDone(p) /\ UNCHANGED notifyVars)
           \/ ScanTick \/ (Tick /\ UNCHANGED notifyVars) \/ UNCHANGED allVars
  <2>1. UNCHANGED <<outbox, sent>>
    BY <1>6 DEF StartCall, EndOfWait, ScanTick, allVars, notifyVars
  <2>2. \/ \E p \in Request : Start(p) \/ Wait(p) \/ CtxDone(p)
        \/ ExpirerTick \/ Tick \/ UNCHANGED vars
    BY <1>6 DEF StartCall, EndOfWait, ScanTick, allVars
  <2>. QED
    BY <2>1, <2>2, QuietOwners, QuietAnnounces
<1>. QED
  BY <1>1, <1>2, <1>3, <1>4, <1>5, <1>6 DEF NotifyNext

LEMMA NothingAnnounced == NotifyInit => AllAnnounced
<1>. SUFFICES ASSUME NotifyInit PROVE AllAnnounced
  OBVIOUS
<1>1. Owners = {} /\ Reentries = {}
  BY DEF NotifyInit, Init, NoReply, Owners, Reentries, Blocked
<1>2. \A kind : Pending(kind) = {}
  <2>1. \A g \in Emitter : outbox[g] = <<>>
    BY DEF NotifyInit
  <2>2. \A kind : Places(kind, <<>>) = {}
    BY EmptySeq DEF Places
  <2>. QED
    BY <2>1, <2>2, PendingForm DEF Waiting
<1>3. sent["held"] = 0 /\ sent["stolen"] = 0
  BY DEF NotifyInit, Kind
<1>. QED
  BY <1>1, <1>2, <1>3, FS_EmptySet DEF AllAnnounced, EveryLeaseAnnounced, Announced, Finite

\* Every lease that begins is announced once, and so is every re-entry, whoever
\* granted it and whatever comes between the unlock and the emission
\* (service.go:205, 221, 320): by "held", or by "stolen" when it was seized.
THEOREM LeasesAreAnnounced == NotifySpec => []EveryLeaseAnnounced
<1>1. NotifyInit => EventsOK /\ AllAnnounced
  BY EventsInit, NothingAnnounced
<1>2. IInv /\ HInv /\ EventsOK /\ AllAnnounced /\ [NotifyNext]_allVars => EventsOK' /\ AllAnnounced'
  BY EventsStep, AnnouncedStep
<1>3. AllAnnounced => EveryLeaseAnnounced
  BY DEF AllAnnounced
<1>. QED
  BY <1>1, <1>2, <1>3, Invariance, HistoryInvariance, NotifyIsService, PTL DEF NotifySpec
=============================================================================
