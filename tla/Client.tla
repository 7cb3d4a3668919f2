-------------------------------- MODULE Client --------------------------------
(***************************************************************************)
(* The Go client of lockd (internal/client/client.go, renewer.go) and the  *)
(* record it leases, with a network that loses requests and answers.       *)
(*                                                                         *)
(* One application goroutine of holder User acquires, re-enters and        *)
(* releases one lock and may start a renewer for the lease it was given.   *)
(* Each call travels to the server, is served there in one step by the     *)
(* operators of LockRecord (LockService has the steps' interleavings), and *)
(* its answer travels back.  A call may fail on its way; a request whose   *)
(* caller has given up may still be served later.  Other holders acquire   *)
(* and steal the lock directly.                                            *)
(*                                                                         *)
(* Time is real: a call takes at most Delay, a timer fires when it is due. *)
(* The clocks of client and server agree, and tokens can always be drawn.  *)
(***************************************************************************)
EXTENDS LockRecord, Integers

CONSTANTS
  User,        \* the holder the client acquires for
  TTLRequest,  \* TTLs the application asks for; 0 means "none given"
  Retries,     \* Client.retries (3 in the code)
  MinBase,     \* shortest pause between renewals (100 ms in the code)
  Second,      \* what the client rounds a TTL to that it works out itself
  Delay,       \* longest duration of a call
  MaxCall,     \* bound: calls the application makes
  Pace,        \* bound: the application and other holders act every Pace units ...
  LastAct,     \* ... and not after LastAct
  MaxClock     \* bound: the clock stops here

ASSUME ClientAssumption ==
  /\ User \in Holder
  /\ TTLRequest \subseteq Nat /\ \A t \in TTLRequest : ValidTTL(t)
  /\ Retries \in Nat
  /\ MinBase \in Nat \ {0}
  /\ Second \in Nat \ {0}
  /\ Delay \in Nat
  /\ MaxCall \in Nat
  /\ Pace \in Nat \ {0}
  /\ LastAct \in Nat
  /\ MaxClock \in Nat \ {0}

VARIABLES
  clock,    \* time.Now(), on both sides
  item,     \* the server's record
  drawn,    \* the tokens drawn so far
  lease,    \* the Lease the application works with: the last one it was given
  call,     \* the call in progress of each goroutine of the client
  stray,    \* requests that may still reach the server though nobody waits
  renewer,  \* the renewer goroutine
  calls,    \* how many calls the application has made
  failed,   \* history: how many acquires and releases ended without an answer
  end       \* history: how and when the lease that is renewed came to its end

vars == <<clock, item, drawn, lease, call, stray, renewer, calls, failed, end>>

-----------------------------------------------------------------------------
Goroutine == {"app", "renewer"}

Operation == {"none", "acquire", "renew", "release", "watch"}

\* `id' tells the application's calls apart.
Message == [id : Nat, op : Operation, token : Token, ttl : Nat]

\* What the server answers: an error, or the lease as it is now.
Answer == [ok : BOOLEAN, token : Token, depth : Nat, expiresAt : Nat]

Error == [ok |-> FALSE, token |-> NoToken, depth |-> 0, expiresAt |-> ZeroTime]
Done == [Error EXCEPT !.ok = TRUE]
Told(r) == [ok |-> TRUE, token |-> r.token, depth |-> r.depth, expiresAt |-> r.expiresAt]

\* On its way to the server ("request") or back ("answer").
Call == [msg : Message, at : {"none", "request", "answer"}, since : Nat,
         attempt : Nat, answer : Answer]

NoMessage == [id |-> 0, op |-> "none", token |-> NoToken, ttl |-> 0]

NoCall == [msg |-> NoMessage, at |-> "none", since |-> 0, attempt |-> 0, answer |-> Error]

Sending(m) == [NoCall EXCEPT !.msg = m, !.at = "request", !.since = clock]

\* new: Acquire has only just returned it.
Lease == [token : Token, depth : Nat, expiresAt : Nat, ttl : Nat, new : BOOLEAN]

NoLease == [token |-> NoToken, depth |-> 0, expiresAt |-> ZeroTime, ttl |-> 0, new |-> FALSE]

\* When the application and the other holders act (bound).
OnPace(t) == t <= LastAct /\ (t - 1) % Pace = 0

\* lost: it has called onLost.  `own' says that the application's lease is still
\* the object the renewer writes to; `worst' is the longest row of failures yet.
Renewer == [pc : {"off", "sleep", "call", "lost", "ended"}, token : Token, ttl : Nat,
            due : Nat, failures : Nat, worst : Nat, cancelled : BOOLEAN, own : BOOLEAN]

NoRenewer == [pc |-> "off", token |-> NoToken, ttl |-> 0, due |-> 0, failures |-> 0,
              worst |-> 0, cancelled |-> FALSE, own |-> FALSE]

ClientInit ==
  /\ clock = 1
  /\ item = NewRecord(1)
  /\ drawn = {}
  /\ lease = NoLease
  /\ call = [g \in Goroutine |-> NoCall]
  /\ stray = {}
  /\ renewer = NoRenewer
  /\ calls = 0
  /\ failed = [op \in {"acquire", "release"} |-> 0]
  /\ end = [how |-> "none", at |-> 0]

-----------------------------------------------------------------------------
(* The server.                                                             *)

\* expireLocked; nobody waits in this model.
Current == {s.item : s \in ExpireLocked([item   |-> item,
                                         waiter |-> [p \in Request |-> NoWaiter]], clock)}

\* A new token (there is one for whoever needs it: TokensLeft is a bound).
Fresh == CHOOSE t \in Request : t \notin drawn
TokensLeft == drawn # Request

\* Mutant: the depth has no limit.
AcceptsAnyDepth(m, r) ==
  CASE m.op = "acquire" -> r.token = NoToken \/ Reenters(r, User)
    [] m.op = "watch"   -> TRUE
    [] OTHER            -> r.token = m.token

\* Does the server do what m asks of a record without an expired lease?
Accepts(m, r) ==
  CASE m.op = "acquire" -> r.token = NoToken \/ (Reenters(r, User) /\ r.depth < MaxDepth)
    [] m.op = "watch"   -> TRUE
    [] OTHER            -> r.token = m.token

\* The record when it has done so.
Served(m, r) ==
  CASE m.op = "acquire" /\ r.token = NoToken ->
         AssignLease(r, User, Fresh, NormalTTL(m.ttl), clock)
    [] m.op = "acquire" /\ r.token # NoToken -> DeeperLease(r, NormalTTL(m.ttl), clock)
    [] m.op = "renew"                        -> [r EXCEPT !.expiresAt = clock + NormalTTL(m.ttl)]
    [] m.op = "release" /\ r.depth > 1       -> ShallowerLease(r, clock)
    [] m.op = "release" /\ r.depth <= 1      -> ClearLease(r, clock, TRUE)
    [] OTHER                                 -> r

\* The record becomes r; history notes the end of the lease that is renewed.
Becomes(r, how) ==
  /\ item' = r
  /\ drawn' = drawn \cup ({r.token} \ {NoToken})
  /\ end' = IF renewer.pc # "off" /\ item.token = renewer.token /\ r.token # item.token
            THEN [how |-> IF Expires(item, clock) THEN "expired" ELSE how, at |-> clock]
            ELSE end

\* The server serves m and answers a; a release it remembers is answered first.
Serving(m, a) ==
  IF m.op = "watch" \/ (m.op = "release" /\ m.token \in item.releasedToken)
  THEN a = Done /\ UNCHANGED <<item, drawn, end>>
  ELSE \E r \in Current :
         IF Accepts(m, r)
         THEN a = Told(Served(m, r)) /\ Becomes(Served(m, r), "released")
         ELSE a = Error /\ Becomes(r, "expired")

\* The answers m may get.
Answers(m) == {Done, Error} \cup {Told(Served(m, r)) : r \in Current}

Serve(g) ==
  /\ call[g].at = "request"
  /\ call[g].msg.op = "acquire" => TokensLeft
  /\ \E a \in Answers(call[g].msg) :
       /\ Serving(call[g].msg, a)
       /\ call' = [call EXCEPT ![g].at = "answer", ![g].answer = a]
  /\ UNCHANGED <<clock, lease, stray, renewer, calls, failed>>

\* A request whose caller has given up arrives after all.
ServeStray ==
  /\ OnPace(clock)
  /\ \E m \in stray :
       /\ m.op = "acquire" => TokensLeft
       /\ \E a \in Answers(m) : Serving(m, a)
       /\ stray' = stray \ {m}
  /\ UNCHANGED <<clock, lease, call, renewer, calls, failed>>

\* Other holders acquire and steal the lock, and the expirer comes by.
OthersAcquire ==
  /\ OnPace(clock) /\ TokensLeft
  /\ \E h \in Holder \ {User}, r \in Current :
       /\ r.token = NoToken
       /\ Becomes(AssignLease(r, h, Fresh, DefaultTTL, clock), "expired")

OthersSteal ==
  /\ OnPace(clock) /\ TokensLeft
  /\ \E h \in Holder \ {User}, r \in Current :
       Becomes(AssignLease(ClearLease(r, clock, FALSE), h, Fresh, DefaultTTL, clock), "stolen")

Expirer == Expires(item, clock) /\ \E r \in Current : Becomes(r, "expired")

Others ==
  /\ OthersAcquire \/ OthersSteal \/ Expirer
  /\ UNCHANGED <<clock, lease, call, stray, renewer, calls, failed>>

-----------------------------------------------------------------------------
(* The application's calls.                                                *)

AppCalls(op, token, ttl) ==
  /\ call["app"] = NoCall
  /\ OnPace(clock) /\ calls < MaxCall
  /\ calls' = calls + 1
  /\ call' = [call EXCEPT !["app"] =
                Sending([id |-> calls + 1, op |-> op, token |-> token, ttl |-> ttl])]
  /\ UNCHANGED <<clock, item, drawn, lease, stray, renewer, failed, end>>

AppAcquire == \E ttl \in TTLRequest : AppCalls("acquire", NoToken, ttl)

AppRelease == lease.depth > 0 /\ AppCalls("release", lease.token, 0)

AppWatch == AppCalls("watch", NoToken, 0)

\* Mutant: every call is repeated.
AttemptsAlways(op) == Retries

\* Only calls that change nothing are repeated.
Attempts(op) == IF op = "watch" THEN Retries ELSE 0

\* Mutant: a fourth failure is needed.
AfterFailureLate(w, pause) ==
  LET n == w.failures + 1
  IN [w EXCEPT !.failures = n, !.worst = IF n > @ THEN n ELSE @, !.due = clock + pause,
               !.pc = IF n > 3 THEN "lost" ELSE "sleep"]

\* The renewer after a failed renewal, about to pause or done.
AfterFailure(w, pause) ==
  LET n == w.failures + 1
  IN [w EXCEPT !.failures = n, !.worst = IF n > @ THEN n ELSE @,
               !.due = IF n >= 3 THEN 0 ELSE clock + pause,
               !.pc = IF n >= 3 THEN "lost" ELSE "sleep"]

Base(ttl) == IF ttl \div 3 < MinBase THEN MinBase ELSE ttl \div 3

\* Mutant: around half the TTL.
PauseHalf(ttl) == ((8 * (ttl \div 2)) \div 10)..((12 * (ttl \div 2)) \div 10)

\* The jitter is 0.8 to 1.2.
Pause(ttl) == ((8 * Base(ttl)) \div 10)..((12 * Base(ttl)) \div 10)

\* The call of g reports an error to its caller.
ReportsError(g) ==
  /\ call' = [call EXCEPT ![g] = NoCall]
  /\ IF g = "renewer"
     THEN \E n \in Pause(renewer.ttl) : renewer' = AfterFailure(renewer, n)
     ELSE UNCHANGED renewer

\* The request or the answer is lost, or the caller's context is done; a request
\* on its way may still arrive.  A call that may be repeated is sent again, unless
\* the context is done.
Fail(g) ==
  /\ call[g].at # "none"
  /\ \/ UNCHANGED stray
     \/ /\ call[g].at = "request" /\ call[g].msg.op \in {"acquire", "release"}
        /\ stray' = stray \cup {call[g].msg}
  /\ \/ /\ call[g].attempt < Attempts(call[g].msg.op)
        /\ call' = [call EXCEPT ![g] = [Sending(@.msg) EXCEPT !.attempt = call[g].attempt + 1]]
        /\ UNCHANGED <<renewer, failed>>
     \/ /\ ReportsError(g)
        /\ failed' = [op \in DOMAIN failed |->
                        failed[op] + (IF call[g].msg.op = op THEN 1 ELSE 0)]
  /\ UNCHANGED <<clock, item, drawn, lease, calls, end>>

\* The server's answer is an error: no transport failure, never repeated.
Refused(g) ==
  /\ call[g].at = "answer" /\ ~call[g].answer.ok
  /\ ReportsError(g)
  /\ UNCHANGED <<clock, item, drawn, lease, stray, calls, failed, end>>

EffectiveTTL(requested, expiresAt) ==
  LET left == IF expiresAt > clock THEN expiresAt - clock ELSE 0
      rounded == ((2 * left + Second) \div (2 * Second)) * Second
  IN IF requested > 0 THEN requested ELSE Min({MaxTTL, Max({MinTTL, rounded})})

\* The application's call returns.  Acquire gives it a new Lease.
AppReturns ==
  /\ call["app"].at = "answer" /\ call["app"].answer.ok
  /\ LET c == call["app"]
         a == c.answer
     IN /\ lease' = CASE c.msg.op = "acquire" ->
                         [token |-> a.token, depth |-> a.depth, expiresAt |-> a.expiresAt,
                          ttl |-> EffectiveTTL(c.msg.ttl, a.expiresAt), new |-> TRUE]
                      [] c.msg.op = "release" -> [lease EXCEPT !.depth = a.depth]
                      [] OTHER                -> lease
        /\ renewer' = IF c.msg.op = "acquire" THEN [renewer EXCEPT !.own = FALSE] ELSE renewer
  /\ call' = [call EXCEPT !["app"] = NoCall]
  /\ UNCHANGED <<clock, item, drawn, stray, calls, failed, end>>

-----------------------------------------------------------------------------
(* The renewer.                                                            *)

\* StartRenewer, as soon as Acquire has returned.
StartRenewer ==
  /\ renewer.pc = "off"
  /\ lease.new
  /\ \E n \in Pause(lease.ttl) :
       renewer' = [NoRenewer EXCEPT !.pc = "sleep", !.token = lease.token, !.ttl = lease.ttl,
                                    !.due = clock + n, !.own = TRUE]
  /\ end' = IF item.token = lease.token THEN end ELSE [how |-> "early", at |-> clock]
  /\ UNCHANGED <<clock, item, drawn, lease, call, stray, calls, failed>>

\* The timer fires and Renew is called.
RenewerWakes ==
  /\ renewer.pc = "sleep" /\ clock = renewer.due
  /\ renewer' = [renewer EXCEPT !.pc = "call", !.due = 0]
  /\ call' = [call EXCEPT !["renewer"] =
                Sending([NoMessage EXCEPT !.op = "renew", !.token = renewer.token,
                                          !.ttl = renewer.ttl])]
  /\ UNCHANGED <<clock, item, drawn, lease, stray, calls, failed, end>>

\* Mutant: the expiry is reckoned by the client when the answer comes.
RenewReturnsOwnClock ==
  /\ call["renewer"].at = "answer" /\ call["renewer"].answer.ok
  /\ lease' = IF renewer.own THEN [lease EXCEPT !.expiresAt = clock + renewer.ttl] ELSE lease
  /\ \E n \in Pause(renewer.ttl) :
       renewer' = [renewer EXCEPT !.pc = "sleep", !.failures = 0, !.due = clock + n]
  /\ call' = [call EXCEPT !["renewer"] = NoCall]
  /\ UNCHANGED <<clock, item, drawn, stray, calls, failed, end>>

RenewReturns ==
  /\ call["renewer"].at = "answer" /\ call["renewer"].answer.ok
  /\ lease' = IF renewer.own THEN [lease EXCEPT !.expiresAt = call["renewer"].answer.expiresAt]
              ELSE lease
  /\ \E n \in Pause(renewer.ttl) :
       renewer' = [renewer EXCEPT !.pc = "sleep", !.failures = 0, !.due = clock + n]
  /\ call' = [call EXCEPT !["renewer"] = NoCall]
  /\ UNCHANGED <<clock, item, drawn, stray, calls, failed, end>>

\* The application cancels the renewer, which ends when it next waits.
CancelRenewer ==
  /\ OnPace(clock)
  /\ renewer.pc \in {"sleep", "call"} /\ ~renewer.cancelled
  /\ renewer' = [renewer EXCEPT !.cancelled = TRUE]
  /\ UNCHANGED <<clock, item, drawn, lease, call, stray, calls, failed, end>>

RenewerStops ==
  /\ renewer.pc = "sleep" /\ renewer.cancelled
  /\ renewer' = [renewer EXCEPT !.pc = "ended", !.due = 0]
  /\ UNCHANGED <<clock, item, drawn, lease, call, stray, calls, failed, end>>

-----------------------------------------------------------------------------
\* Something may happen at time t.
Eventful(t) ==
  \/ OnPace(t)
  \/ t \in {renewer.due, item.expiresAt, MaxClock}
  \/ \E g \in Goroutine : call[g].at # "none"

\* Time passes to the next instant at which something may happen; no call takes
\* too long and no timer is missed.
Tick ==
  /\ \E t \in (clock + 1)..MaxClock :
       /\ Eventful(t) /\ \A u \in (clock + 1)..(t - 1) : ~Eventful(u)
       /\ \A g \in Goroutine : call[g].at # "none" => t <= call[g].since + Delay
       /\ clock' = t
  /\ renewer.pc = "sleep" => clock < renewer.due
  /\ lease' = [lease EXCEPT !.new = FALSE]
  /\ UNCHANGED <<item, drawn, call, stray, renewer, calls, failed, end>>

ClientNext ==
  \/ AppAcquire \/ AppRelease \/ AppWatch \/ AppReturns
  \/ StartRenewer \/ RenewerWakes \/ RenewReturns \/ CancelRenewer \/ RenewerStops
  \/ \E g \in Goroutine : Serve(g) \/ Fail(g) \/ Refused(g)
  \/ ServeStray
  \/ Others
  \/ Tick

ClientSpec == ClientInit /\ [][ClientNext]_vars

-----------------------------------------------------------------------------
(* Properties.                                                             *)

\* The type invariant; the depth a client was told is within the lock's limit.
ClientTypeOK ==
  /\ clock \in Nat
  /\ item \in Record /\ item.depth <= MaxDepth
  /\ drawn \subseteq Request
  /\ lease \in Lease /\ lease.depth <= MaxDepth
  /\ call \in [Goroutine -> Call]
  /\ stray \subseteq Message
  /\ renewer \in Renewer
  /\ calls \in 0..MaxCall
  /\ failed \in [{"acquire", "release"} -> Nat]
  /\ end \in [how : {"none", "released", "expired", "stolen", "early"}, at : Nat]

\* The renewer runs and nobody has asked it to stop.
Renewing == renewer.pc \in {"sleep", "call"} /\ ~renewer.cancelled

\* The calls of op whose effect on the depth the application cannot know.
Unsure(op) == failed[op] + (IF call["app"].msg.op = op THEN 1 ELSE 0)

\* The depth on the server is what the last answer said, but for the calls that
\* brought no answer, each of which took effect once at most (client.go:167:
\* "replaying acquire/release can mutate twice").
DepthAgrees ==
  lease.depth > 0 /\ item.token = lease.token =>
    item.depth - lease.depth \in (-Unsure("release"))..Unsure("acquire")

\* The client never thinks that a lease it has lasts longer than it does, whatever
\* the order in which its two goroutines' answers come (client.go:124).
TermIsKnown ==
  lease.depth > 0 /\ item.token = lease.token => lease.expiresAt <= item.expiresAt

\* A lease with a renewer does not expire, unless two renewals in a row failed
\* (renewer.go:13: the pause is a third of the TTL).
KeptAlive ==
  [][Renewing /\ end.how = "none" /\ end'.how = "expired" => renewer.worst >= 2]_vars

\* What TermIsKnown rests on: nobody asks for another TTL than the lock's default, and
\* the client, which works its TTL out from what is left of the lease when the answer
\* comes (client.go:244), gets that right.
OneTTL ==
  /\ TTLRequest \subseteq {0, DefaultTTL}
  /\ DefaultTTL % Second = 0
  /\ 2 * Delay <= Second

\* What KeptAlive rests on, beside one TTL: two renewals, the second after one that
\* failed, and the way back of the last answer take less than the TTL.
ShortDelay ==
  3 * Delay + 2 * ((12 * Base(DefaultTTL)) \div 10) < DefaultTTL

\* The longest time from the end of a lease to onLost: a last renewal under way,
\* and three that fail.
Grace == Delay + 3 * ((12 * Base(renewer.ttl)) \div 10 + Delay)

\* Whoever renews a lease that is no longer its own is told so in time, by
\* onLost (renewer.go:31), and does not go on for ever.
BeliefEnds == Renewing /\ end.how # "none" => clock <= end.at + Grace
=============================================================================
