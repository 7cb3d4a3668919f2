-------------------------------- MODULE Server --------------------------------
(***************************************************************************)
(* The life of a lockd process (cmd/lockd/main.go) with the requests and   *)
(* event streams it serves: start, signal, the expirer's end, Shutdown's   *)
(* drain and the end of main, which ends whatever still runs.              *)
(***************************************************************************)
EXTENDS EventStream

CONSTANTS
  Call,     \* API calls other than event streams
  Expirer   \* the goroutine of RunExpirer

ASSUME ServerAssumption == Emitter = Call \cup {Expirer} /\ Expirer \notin Call

VARIABLES
  main,       \* the main goroutine
  signalled,  \* is the signal's context done?
  drain,      \* server.Shutdown in its goroutine: waits, done, or out of time
  expirer,    \* does RunExpirer run?
  call        \* the API calls; "cut" ones were ended by the end of the process

procVars == <<main, signalled, drain, expirer, call>>
vars == <<busVars, procVars>>

ServerTypeOK ==
  /\ BusTypeOK
  /\ main \in {"starting", "serving", "stopped", "exited", "failed"}
  /\ signalled \in BOOLEAN
  /\ drain \in {"off", "waits", "done", "late"}
  /\ expirer \in BOOLEAN
  /\ call \in [Call -> {"none", "active", "answered", "cut"}]

ServerInit ==
  /\ BusInit
  /\ main = "starting"
  /\ signalled = FALSE
  /\ drain = "off"
  /\ expirer = TRUE
  /\ call = [c \in Call |-> "none"]

Alive == main \notin {"exited", "failed"}

Accepting == main = "serving" /\ drain = "off"

\* Requests that Shutdown waits for.
ActiveCalls == {c \in Call : call[c] = "active"}
ActiveStreams == {s \in Stream : stream[s].pc \in {"opening", "open", "leaving"}}

-----------------------------------------------------------------------------
(* main.                                                                   *)

\* The listener is there, or cannot be had: os.Exit(1).
Listen ==
  /\ main = "starting" /\ drain = "off"
  /\ main' \in {"serving", "failed"}
  /\ UNCHANGED <<busVars, signalled, drain, expirer, call>>

Signal ==
  /\ Alive /\ ~signalled
  /\ signalled' = TRUE
  /\ UNCHANGED <<busVars, main, drain, expirer, call>>

\* RunExpirer sees ctx.Done between two passes.
StopExpirer ==
  /\ Alive /\ signalled /\ expirer
  /\ ~Emitting(Expirer)
  /\ expirer' = FALSE
  /\ UNCHANGED <<busVars, main, signalled, drain, call>>

\* server.Shutdown closes the listener and waits for the requests ...
BeginShutdown ==
  /\ Alive /\ signalled /\ drain = "off"
  /\ drain' = "waits"
  /\ UNCHANGED <<busVars, main, signalled, expirer, call>>

\* ... until there are none or ShutdownTimeout is over.
EndShutdown ==
  /\ Alive /\ drain = "waits"
  /\ \/ ActiveCalls = {} /\ ActiveStreams = {} /\ drain' = "done"
     \/ drain' = "late"
  /\ UNCHANGED <<busVars, main, signalled, expirer, call>>

\* Mutant: main goes on when the drain is done.
ServeReturnsDrained ==
  /\ main \in {"starting", "serving"} /\ drain = "done"
  /\ main' = "stopped"
  /\ UNCHANGED <<busVars, signalled, drain, expirer, call>>

\* ListenAndServe returns ErrServerClosed as soon as Shutdown is called.
ServeReturns ==
  /\ main \in {"starting", "serving"} /\ drain # "off"
  /\ main' = "stopped"
  /\ UNCHANGED <<busVars, signalled, drain, expirer, call>>

\* main returns and the process ends, with all that it was at.
MainReturns ==
  /\ main = "stopped"
  /\ main' = "exited"
  /\ call' = [c \in Call |-> IF call[c] = "active" THEN "cut" ELSE call[c]]
  /\ expirer' = FALSE
  /\ eventSeq' = 0 /\ flight' = {} /\ subs' = {} /\ over' = {}
  /\ stream' = [s \in Stream |-> [NoStream EXCEPT !.pc = "gone"]]
  /\ UNCHANGED <<signalled, drain>>

-----------------------------------------------------------------------------
(* The HTTP server.                                                        *)

Accept(c) ==
  /\ Accepting /\ call[c] = "none"
  /\ call' = [call EXCEPT ![c] = "active"]
  /\ UNCHANGED <<busVars, main, signalled, drain, expirer>>

Answer(c) ==
  /\ Alive /\ call[c] = "active" /\ ~Emitting(c)
  /\ call' = [call EXCEPT ![c] = "answered"]
  /\ UNCHANGED <<busVars, main, signalled, drain, expirer>>

\* A call or a pass of the expirer emits an event.
Emit(e) ==
  /\ Alive
  /\ IF e = Expirer THEN expirer ELSE call[e] = "active"
  /\ DrawEvent(e)
  /\ UNCHANGED procVars

Bus(e) == Alive /\ Broadcast(e) /\ UNCHANGED procVars

AcceptStream(s) == Accepting /\ OpenStream(s) /\ UNCHANGED procVars

StreamTakesBus(s) == Alive /\ TakesBus(s) /\ UNCHANGED procVars

StreamWorks(s) == Alive /\ (WriteEvent(s) \/ Leave(s)) /\ UNCHANGED procVars

-----------------------------------------------------------------------------
ServerNext ==
  \/ Listen \/ Signal \/ StopExpirer \/ BeginShutdown \/ EndShutdown
  \/ ServeReturns \/ MainReturns
  \/ \E c \in Call : Accept(c) \/ Answer(c)
  \/ \E e \in Emitter : Emit(e) \/ Bus(e)
  \/ \E s \in Stream : AcceptStream(s) \/ StreamTakesBus(s) \/ StreamWorks(s)

ServerSpec == ServerInit /\ [][ServerNext]_vars

\* Goroutines that can go on do.  Nobody has to read a stream, call, or answer.
ServerFairness ==
  /\ WF_vars(BeginShutdown) /\ WF_vars(ServeReturns) /\ WF_vars(MainReturns)
  /\ \A e \in Emitter : WF_vars(Bus(e))
  /\ \A s \in Stream : WF_vars(StreamTakesBus(s))

FairServerSpec == ServerSpec /\ ServerFairness

-----------------------------------------------------------------------------
(* Properties.                                                             *)

\* The bus never comes to a standstill: once nothing new is emitted, every event
\* has gone its round and every stream got in or out, even if no client reads its
\* stream (notify.go:41).
BusAtRest == flight = {} /\ ~WriterWaits
BusMoves == []<>(BusAtRest \/ ~Alive)

\* A signal ends the process, although event streams do not end by themselves
\* and clients may never read them (main.go:44-57).
SignalEnds == signalled ~> ~Alive

\* A graceful end: while the shutdown timeout is not over, the process does not
\* end with calls unanswered (config.go:46, "graceful shutdown limit").
Drained == [][main = "stopped" /\ main' = "exited" /\ drain # "late" => ActiveCalls = {}]_vars
=============================================================================
