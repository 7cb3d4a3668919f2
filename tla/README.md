# lockd: a verification project

`lockd` is a lock server: named locks in namespaces, leases with a TTL, a fair
FIFO queue of waiters, re-entry, administrative steal and delete, and events.
This directory holds TLA+ models of it, TLC runs and TLAPS proofs.

## The system (inventory)

| Part | Code | State | Operations | What is hard |
|---|---|---|---|---|
| Lock record, lease, re-entry | `internal/lock/types.go`, `lease.go`, `reentrant.go` | one `record` per lock: holder, token, depth, expiresAt, lastIdleAt, deleted, queue, releasedToken | assignLease, clearLease, tryReenter, decreaseDepth | depth and term against what the holders were told; the cap on remembered tokens |
| Waiter queue | `queue.go`, `waiter.go` | list of waiters; each has a one-place channel and the flags cancelled, granted | push, pop, remove, cancelAll, grant, cancel | a second send on a channel blocks with the record locked; a waiter that is gone must not be granted |
| Lock service | `service.go` | the records, through the registry | Acquire, Renew, Release, Steal, Delete, Watch | the clock and the pointer are read before the record is locked; select between grant and context; token failure half-way |
| Expirer | `expirer.go` | a ticker | expirePass: expire, hand on, purge idle locks | races every call; a purge against a call that holds the pointer |
| Registry | `registry.go` | name -> record, count per namespace | Create, get, Get, List, allRecords, remove, Stats | re-created names, quota accounting, lock order |
| Event bus, Watch | `notify.go`, `service.go:226-249` | bounded channel per subscriber | Subscribe, Broadcast | events are sent after unlock, in any order; full channels drop |
| HTTP API | `internal/api/handlers.go`, `response.go` | none | decode, call, encode | wait timeouts, lost answers |
| SSE event stream | `internal/api/router.go:33-70` | one goroutine and one channel of 64 per stream | handleEvents | readers that are slow or read nothing; streams never end by themselves |
| Go client | `internal/client/client.go`, `watch.go` | the leases it has handed out | Acquire, Renew, Release, Steal, Watch | what a client believes against what the server holds; lost answers, late requests |
| Client renewer | `renewer.go` | failures in a row, a timer | StartRenewer | two goroutines write one lease; failures against the TTL |
| Process | `cmd/lockd/main.go` | signal context, HTTP server | start, graceful shutdown | main returns before the drain ends |
| Configuration, metrics, logger, console, lockctl | | | | nothing that interacts |

The goroutines of the HTTP server and the expirer share one record under
`item.mu`; blocked Acquires learn their fate through a channel; the registry has
its own mutex, taken inside or outside `item.mu`, never both ways round.

## Modules

* `LockRecord`: the record, the queue and the helpers `grantNextLocked` and
  `expireLocked`, as operators from a state `[item, waiter]` to states. All of
  them run with `item.mu` held. Where `newToken` may fail
  (`RandMayFail`) an operator returns the set of possible outcomes.
* `LockService`: the goroutines of one lock. `Start*` is the part of a call
  before `item.mu.Lock()` (checks at the entry, `registry.get`, `time.Now()`);
  each critical section is one action (`AcquireFree`, `ReleaseHeld`, ...); a
  blocked Acquire has three further steps (`WaitOutcome`, `WaitCtxDone`,
  `AbortWait`). `CtxDone` is a disconnected client or a deadline. `ExpirerTick`
  and `ExpirerScan` are one pass of the expirer. `Tick` is time.
* `FairLock`, `LockRefinement`: the abstract lock (an owner, a line of waiters,
  how each client fared) and the mapping (`LockBar`) under which `LockService`
  implements it.
* `LockNotify`: `LockService` composed with the event bus and `Watch`. Every
  action of `LockService` is conjoined with what it broadcasts under `item.mu`
  (`expireLocked`) and what it leaves in the goroutine's outbox to emit after the
  unlock (everything else). Watchers have bounded channels; a full one drops.
* `Registry`: the map of names, the quota's counters, `registry.mu` and the
  records' mutexes; records are numbers, names are given again, and calls keep
  pointers to records that are gone.
* `Client`: the Go client with its renewer, and the record it leases. It uses
  the operators of `LockRecord` for what the server does. A call is a message
  that travels, is served in one step and comes back; `Fail` loses either part
  or gives the call up, and may leave the request to be served later
  (`ServeStray`). `AppReturns` and `RenewReturns` are what `client.go` does with an
  answer. Time is real: the renewer's timer fires when due, a call takes `Delay`
  at most, and `Tick` goes on to the next instant at which something may happen.
  `OneTTL` and `ShortDelay` say what two of its properties rest on; `MCClient`
  has TLC confirm that the instance of `client` meets both.
* `EventStream`: the bus step by step (number, lock for reading, one send per
  subscriber, unlock) and `handleEvents`. `LockNotify` has broadcasts as single
  steps but knows what each event is about; `EventStream` has their overlap.
* `Server`: `EventStream` composed with the process: `main.go`'s goroutines, the
  expirer and API calls as the emitters of events, and the end that cuts them.
* `MCLockService`, `MCLockRefinement`, `MCLockNotify`, `MCRegistry`, `MCClient`,
  `MCServer`: small instances for TLC.
* `LockRecordProofs`, `LockServiceProofs`, `LockHistoryProofs`,
  `LockRefinementProofs`, `LockNotifyProofs`, `RegistryProofs`, `ServerProofs`,
  `ClientProofs`: the TLAPS proofs, each about the module (or part of one) it is
  named for.

The record's token is the request that drew it: 144 random bits do not repeat,
and a request draws at most one. The version counter, metrics, views and the
wording of errors are left out.

## Runs

| Run | Instance | What it shows |
|---|---|---|
| `handover` | 4 requests, 1 holder, no re-entry; acquire, release, steal, delete; purge on | the queue holds exactly the undecided waiters (`QueueExact`), no channel gets a second outcome (`SendNeverBlocks`), waiters are served in order (`NoOvertaking`), no grant is lost (`LeaseReachesItsOwner`), nobody waits for a free lock, a deleted record stays dead, "locked" is true when it is said, a retried release is a repetition, and `LockService` implements `FairLock` |
| `inputs` | 3 requests, 2 holders, re-entry to depth 2, all five operations, refused inputs, TTLs in and out of range, random source may fail | the types, the inductive invariants `IInv` and `HInv` of the proofs, a failing call leaves the lease alone, newcomers pass nobody by although `grantNextLocked` may skip waiters, the depth is what the holders were told, remembered tokens were released, no lease ends before its time |
| `served` | 3 requests, fair scheduling; acquire, release, steal, delete | expired leases end, nobody is stranded in the queue, every call returns |
| `events` | 3 requests, 2 holders, re-entry, one watcher, channel of 2 | no watch goes on that missed the end of its lease, each lease is announced once, channels stay in bounds |
| `told` | 3 requests, one watcher, channel of 1, fair scheduling | watchers of a lease that ends return, unless their channel dropped the event |
| `registry` | 4 goroutines, 4 names in 2 namespaces (one name denied), quota 1, 3 records | quota count, no ghost locks, calls work on registered records, lists are complete, no deadlock between the two kinds of mutex |
| `client` | one application goroutine with 3 calls, its renewer, another holder; TTL 30, calls of up to 1 | depth and term are what the client believes, but for calls without an answer, each of which took effect once at most (`DepthAgrees`, `TermIsKnown`); a renewed lease does not expire unless two renewals in a row fail (`KeptAlive`); a lost lease is noticed within three renewals (`BeliefEnds`) |
| `server` | one call and the expirer emit 2 events in 2 namespaces; a stream of everything and a stream of one namespace, channels of 1; fair scheduling | a stream lacks no event but for its own full channel (`StreamExact`), and gets them in a possible order (`OrderKept`); the bus never stands still (`BusMoves`); a signal ends the process (`SignalEnds`) |
| `orphan`, `forgotten`, `nested`, `drained` | see Findings | what the code's comments and documents say and the code does not do |

### Bounds

`Request` bounds the calls of a behaviour of `LockService`: each request makes one
call. Four are an owner, a waiter, and two more that can be a second waiter, the
release of either, a thief, a deleter or a newcomer: enough for two waiters behind
a lease that is taken away, and for a hand-over that races a newcomer or a waiter's
end. The three of `inputs` are an owner, its re-entry or a waiter, and whatever
ends the lease. `LastStart` (no call starts later) and `MaxClock` bound time; with
TTLs of 1 (2 in `inputs`) a lease given at the last start can still expire, and its
successor's can, before the clock stops. `ReleasedCap` stands for the code's 128;
it is out of reach in the passing runs and 1 in `forgotten`. `MaxDepth` 2 has both
a re-entry and one that is refused. `WatchBuffer` 1 or 2 stands for 8 and `Room` 1
for 64: a full channel is reached. `Quota` 1 with two names in one namespace has it
refused, and freed again. `MaxRecord` 3 lets a name be given twice while calls still
hold the first record.

In `client`, a TTL of 30 makes the renewer's pauses, 8 to 12, exact. A call may
take 1: the bound on `KeptAlive` is that three calls take less than a fifth of a
TTL. Three calls are an acquire, a re-entry and a partial release, or the same with
repetitions; they and the other holder's are made at the times 1 and 15 (`Pace`,
`LastAct`), before and after the first renewal. The clock runs to 45, past the
latest time at which `onLost` may be called for a lease lost at the start. Two
tokens are the application's and a thief's. `client` has one TTL: what shorter ones
do is `nested`, with a default of 5. In `server`, two events are enough for either
order of each pair of emitters, and for an event that finds a channel full.

Requests and holders are interchangeable, and used as a symmetry set in the runs
of safety properties of `LockService` and `LockNotify`; the others use none.
Deadlock is checked but in `registry`, `client` and `server`, where every goroutine
ends or the clock stops.

### Fairness

Weak fairness only: a goroutine that can proceed does so (the Go scheduler; a
`sync.Mutex` in starvation mode serves in turn), the ticker of `RunExpirer`
fires and its pass is run (`main.go:43` starts it for the life of the process),
and time passes up to the clock's bound. Clients promise nothing: nobody has to
start a call, release, renew or disconnect. A wait therefore ends only by a
grant, a cancellation or the end of its context, and `EveryCallReturns` is stated
accordingly; over HTTP each waiting Acquire has a deadline of at most ten minutes
(`handlers.go:168-185`), so that over HTTP every call returns. In
`Registry`, weak fairness of a goroutine's steps stands for mutexes handed over
in turn.

In `Server` the fair steps are those of the bus (its readers and writers, once the
bus is theirs), of the goroutine that waits for the signal and of main. Nobody has
to read a stream, to answer a call or to go away, so `BusMoves` and `SignalEnds` do
not rest on clients. `Client` needs no fairness: its properties bound time.

The liveness properties that mention `MaxClock` allow a lease to outlast the
model's clock; there is nothing else they allow.

## Findings

* `orphan` (`service.go:50`): "never create an orphan lease for a caller that has
  already disconnected". The context is looked at once, before the record is
  locked. A caller that disconnects between that and the assignment, or whose
  wait has ended but which has not locked the record yet, is leased the lock.
  In the second case `Acquire` keeps the grant and returns it to nobody. The
  lease lives until its TTL ends; it does end (`ExpiredLeaseEnds`).
* `forgotten` (`service.go:174`, `lease.go:63`): a retried release "remains
  idempotent even after the lock was handed on", but the set of remembered tokens
  is emptied, not trimmed, when it is full; all retries but the newest are then
  refused.
* `nested` (`reentrant.go:29`): re-entrant locks and automatic renewal
  (BENZHI_README.md) do not go together when a lease's TTL is longer than the
  lock's default. A release that leaves a level restarts the lease with the
  default TTL; the renewer pauses a third of the TTL it was started with. The lease
  may expire before the next renewal, with every call answered.
* `drained` (`main.go:53`): the shutdown timeout is the "graceful shutdown limit"
  (`config.go:46`), but `ListenAndServe` returns when `Shutdown` is called and main
  with it: calls in progress are cut at once, whatever the limit.

A limit that has no run: `Steal` clears the lease and then draws a token
(`service.go:273-276`). If the random source fails there, the lock is free with
waiters whom nobody wakes until their contexts end; newcomers are told "lock is
held", and the expirer does not help, since there is no lease to expire. With
`RandMayFail = TRUE`, `LockedMeansHeld` is false for this reason; the other
properties do not depend on it.

## Proofs

`LockRecordProofs` has the lemmas about the operators of `LockRecord`: what
`PopTo`, `GrantNext`, `ExpireLocked`, `CancelAll`, `RemoveFirst`, enqueueing and
the lease operators return, and that they preserve `QueueInv`.
`LockServiceProofs` proves, for any number of requests and holders, any TTLs,
bounds and faults allowed by the assumptions:

* `Invariance`: `Spec => []IInv`, and from it `TypeCorrect`, `QueueIsExact`,
  `SendsNeverBlock`, `LeasesReachOwners`;
* `FreeLockHasNoWaiters`: `NoWaiterBehindFreeLock`, if the random source does not
  fail (if it may, it is false after a `Steal` that fails);
* `DeletedIsFinal` and `NoLeaseEndsEarly`: the action properties
  `DeletedStaysDead` and `NoEarlyRevocation`.

The assumptions are the `ASSUME`s of `LockRecord` and `LockService`: the constants
have their types, the empty holder and token are no real ones, `DefaultTTL` is
within `MinTTL..MaxTTL` and `MinTTL` is positive (what `Create` and `normalizeTTL`
enforce). That tokens never repeat is built into the model.

`QueueExact` alone is not inductive. `IInv` adds to it:

* `QueueInv`: besides exactness (a waiter is queued if and only if its Acquire is
  blocked and undecided), that no queued waiter is cancelled (or `pop`
  would drop one that nobody told), that channels hold at most one outcome and
  that an unreceived grant is still in its channel (or the receive would misread
  it), so that at most one send per waiter is a consequence of being queued;
* `LeaseReachesItsOwner`, which is what allows `AbortWait` and `WaitOutcome` to
  answer with the lease;
* `DeletedIsEmpty` and, if the random source is sound, `NoWaiterBehindFreeLock`:
  neither can be re-established by a step that finds it broken;
* `TimesArePast` (a stale `now` is never in the future: needed for
  `NoLeaseEndsEarly`) and `AnsweredOnce` (an answer is not overwritten, so an owner
  that was told of its lease stays told).

The argument has two layers. `GoodState(s, B)` is the part of `IInv` about one state
of the record; each operator lemma shows that a critical section turns a good
state into a good one. `AnswerStep`, `WaitAnswerStep`, `FrameStep` and the like
then show, once for each shape of action (answer and return, end of a wait,
nothing but bookkeeping), that a good result gives `IInv'`. `StepIsGood` has one
case per action.

`LockHistoryProofs` is about what the record and the waiters remember of the past:

* `HistoryInvariance`: `Spec => []HInv`, and from it `NobodyOvertakes`
  (`NoOvertaking`), `DepthIsWhatWasTold` (`DepthCounts`) and `RememberedAreReleased`
  (`RememberedWereReleased`);
* `NewcomersWait` and `FailuresLeaveLease`: the action properties `NoBarging` and
  `FailureLeavesLease`; `LockedIsTrue`: `LockedMeansHeld`, if the random source does
  not fail (after a `Steal` that fails it is false).

`HInv` comes on top of `IInv`. `NoOvertaking` needs that the queue is in the order of
the waiters' numbers and that a number once granted is behind all that are undecided
(`OrderInv`). `DepthCounts` compares the depth with numbers of answers, so it needs
that the requests that have started are finitely many (`Started`), that answers
speak of tokens somebody was leased (`AnswersAboutKnown`: a new lease starts with no
answers counted for it), and that a lease ends when its depth is used up.
`FreeIsBlank`, a free record has no holder and no depth, makes the second of two
deletes, and a purge, leave the lease alone.

`LockRefinementProofs` proves `ServiceIsFairLock`: `Spec => ImplementsFairLock`, if
the random source does not fail; the abstract specification has no step for a lease
that ends with waiters whom nobody wakes. The initial states map to initial states.
For a step, the operators' lemmas are restated on the abstract lock: a hand-over is
`PassOn` (`CededIsPassOn`), an expiry that a call finds is a turn that lapses before
the call's own abstract step (`ExpireIsLapse`), a delete is `Close`, and the end of
a wait leaves the abstract lock alone if the outcome was decided before
(`WaitOutcomeIsStutter`), or takes the client out of the line (`AbortWaitIsLeave`).
The line is the queue, so the strengthened `QueueInv` is what makes `FairLock`'s
guards true: who is in the line is waiting, and who waits is in the line.

`LockNotifyProofs` is about the events, for any number of watchers and any room in
their channels:

* `NotifyIsService`: `NotifySpec => Spec`: what is conjoined with the steps of
  `LockService` takes nothing from them, so that `IInv` and `HInv` hold here;
* `NotifyTypeCorrect` (`NotifyTypeOK`);
* `NoWatchMissesTheEnd` (`NoMissedEnd`), if the random source does not fail: a `Steal`
  that fails ends a lease without any event, and its watchers are left;
* `LeasesAreAnnounced` (`EveryLeaseAnnounced`), with no assumption but the `ASSUME`s.

`NoMissedEnd` needs that a goroutine with a section before it has nothing to emit
(`OutboxesEmpty`: a section overwrites no event) and that a watch waits on a lease,
not on a free lock (`SeesLease`). A step that ends a lease broadcasts or leaves in an
outbox an event that ends watches; one that is broadcast is at the end of each
channel or is noted as missed; one that is emitted moves from outbox to channels.
`EveryLeaseAnnounced` counts, so the events that wait must be finitely many; the
invariant is `AllAnnounced`. Each section grants nobody or exactly one blocked
request (`SectionGiven`), answers one, and its events that announce, sent and left
together, are as many (`SectionAnnounces`); emission moves them (`EmitAnnounces`).
The end of a wait is the delicate one: its request stops to be counted as a granted
waiter and starts to be counted as one that was answered.

`RegistryProofs` proves, for any number of goroutines, names, namespaces and
records, from `RegistryAssumption` alone (names need not be finitely many):

* `RegistryInvariance`: `RegistrySpec => []RInv`, and from it `RegistryTypeCorrect`,
  `CountsAreExact` (`CountsMatch`) and `OneLockPerName` (`NoGhostLock`);
* `CallsWorkOnRegistered` and `ListsAreComplete`: the action properties
  `WorksOnRegistered` and `ListIsComplete`.

`CountsMatch` is not inductive: a removal keeps it only if the name it frees is of
the namespace whose count goes down (`NamesMatch`), and if the set that is counted
is finite, which `RInv` carries along. `NoGhostLock` needs to know that whoever is
about to remove a record holds its mutex and has marked it (`PlaceOK`); the same
predicate says what a walker has listed or has still to come to, which gives
`ListIsComplete` with the fact that the pointers are copied under the lock that
`Create` takes.

`ServerProofs` proves, for any number of emitters, streams, namespaces and events
and any room in the channels:

* `ServerInvariance`: `ServerSpec => []ServerInv`, and from it `ServerTypeCorrect`,
  `StreamsKeepOrder` (`OrderKept`) and `StreamsAreExact` (`StreamExact`).

`OrderKept` holds because an event that is being sent is not over (`Numbered`), and
what an event was drawn after was over already. `StreamExact` speaks of events
that are over; `Served` says the same of those on their way, for the subscribers
they have come to, and `NotYet` that the others have nothing of them. `Stages`
ties the subscribers of a broadcast to the streams that are subscribed, which is
where the bus's read-write lock comes in: nobody unsubscribes while a broadcast has
him still to serve. `LineOK` is the part about one stream's line of events; its
lemmas say that a line stays good when an event is put at its end, written out or
passed over.

`ClientProofs` proves, for any number of calls, any TTLs that the handlers accept and
any bounds on time and on the length of a call:

* `ClientTypeCorrect` (`ClientTypeOK`), `DepthIsAsTold` (`DepthAgrees`) and
  `BeliefEndsInTime` (`BeliefEnds`), from the `ASSUME`s alone;
* `TermIsNeverOverrated` (`TermIsKnown`), if everybody asks for the lock's default
  TTL (`OneTTL`);
* `RenewedInTime` (the action property `KeptAlive`), if besides three calls and two
  of the longest pauses take less than the TTL (`ShortDelay`).

The two hypotheses are needed: `nested` has `KeptAlive` violated where TTLs differ.
`InstanceAssumption` of `MCClient` says that they can be met, by `client`.

The argument is in layers, each inductive on top of those before:

* `BaseInv`: types; that nobody knows a token that was not drawn; that a record
  without a lease is blank; that each answer in transit fits the call it answers.
* `DepthInv`, for `DepthAgrees`. A failed call may have been served, may be served
  later as a stray request, or never; `Late` counts the failed calls that are
  stray no more. The depth is compared with what the application knows and, while
  an answer is on its way, with that answer: either may be the later one to count.
* `TimesOK` and `EndInv`, for `BeliefEnds`: no call in progress is older than
  `Delay`, no pause is longer than the longest; after the end of a lease no renewal
  that is sent succeeds, so the f-th failure comes within `Delay` and f pauses and
  calls of the end.
* `TermInv`, for `TermIsKnown`: with one TTL the server never brings an expiry
  forward, so an older answer promises no more than a newer one. The client works
  its TTL out by rounding what is left of the lease; `RoundLemma` is that it gets
  the TTL again.
* `KeepInv`, for `KeptAlive`: while at most one renewal in a row has failed, the
  next is due, with time to spare for a call, before the lease ends.

Model-checked only: all liveness, which is beyond the prover, and
`RetriedReleaseIsRepeated`.

## Not modelled, and why

* One lock at a time in `LockService`: records share nothing but the registry,
  which `Registry` models, and the bus, where other locks' events appear as
  `OtherLock` in `LockNotify`.
* `GetView`, `List`'s filters and order, `Stats`, metrics and versions: nothing
  that changes a lease reads them.
* Parsing and formatting of requests, paths, durations and errors; configuration;
  logging; the console and `lockctl`.
* Of the client: `Create`, `List`, `Delete` and `Steal`, which send one request and
  keep nothing; `WatchLoop`, which repeats `Watch`; its map of leases, which is
  written and never read; clocks of client and server that differ; the data race
  between the renewer's write of `lease.ExpiresAt` and the application's reads.
  A renewal has no deadline of its own but the HTTP client's eleven minutes: `Delay`
  stands for whatever bound a deployment has.
* Of the streams: heartbeats that are written (one that fails ends the stream), and
  the time a write takes. Of the process: a second signal, and panics of handlers.

## Plan

What is left to prove is `RetriedReleaseIsRepeated`. It holds for every value of the
constants only if the requests do not outnumber `ReleasedCap` (`forgotten` is what
happens otherwise), which the theorem would have as its hypothesis.
