---------------------------- MODULE HttpService ----------------------------
(***************************************************************************)
(* One Go service (cmd/wallet, games, engine, settlement, gateway) from    *)
(* main to exit: what it opens and defers, the middleware every request    *)
(* goes through with the Redis rate limiter, and the signalled shutdown.   *)
(* Instants are ticks of the shared clock; the key of a client is its name.*)
(***************************************************************************)
EXTENDS Naturals, Sequences, FiniteSets

CONSTANTS
  Services,   \* the services the run boots, one at a time
  Busy,       \* bound: those that get requests
  Requests,   \* the requests that may arrive
  Clients,    \* the addresses the limiter can parse
  Limit,      \* IPRequestsPerWindow
  Window,     \* IPWindow, in ticks
  Horizon     \* bound: the last instant of the clock

Known == {"wallet", "games", "engine", "settlement", "gateway"}

ASSUME HttpServiceAssumption ==
  /\ Services \subseteq Known /\ Busy \subseteq Services /\ Limit \in Nat \ {0}
  /\ Window \in Nat \ {0} /\ Horizon \in Nat /\ IsFiniteSet(Requests)

VARIABLES
  service,   \* the service that runs
  phase,     \* "boot", "serving", "draining", "closing" or "exited"
  booted,    \* the steps of main done
  deferred,  \* what main has opened and will close, last first
  exit,      \* the exit code
  now,       \* the clock
  req,       \* each request: where it is, its client, its answer, its clock reading
  entries, expires, \* the sorted set of each client in Redis, and when it expires
  inFlight   \* the gauge in_flight_requests

main == <<service, phase, booted, deferred, exit>>
limiter == <<entries, expires>>
httpVars == <<main, now, req, limiter, inFlight>>

-----------------------------------------------------------------------------
(* What main opens, in order.  MaxMind may be missing in all of them.      *)

WalletMain == <<"config", "tracer", "db", "limiter", "proxies">>
GamesMain == <<"config", "db", "tax", "nats", "limiter", "proxies">>
EngineMain == <<"config", "db", "limiter", "proxies">>
SettlementMain == <<"config", "db", "limiter", "proxies">>
GatewayMain == <<"config", "tracer", "limiter">>

Main(s) ==
  CASE s = "wallet" -> WalletMain
    [] s = "games" -> GamesMain
    [] s = "engine" -> EngineMain
    [] s = "settlement" -> SettlementMain
    [] s = "gateway" -> GatewayMain

Deferrable == {"tracer", "db", "nats", "limiter"}

(* What the handlers of a service answer: the stubs always the same.       *)
WalletRoutes == [health |-> 200, wallet |-> 200, balance |-> 200, debit |-> 200,
                 credit |-> 200, transactions |-> 200]
GamesRoutes == [health |-> 200, current |-> 200, history |-> 200, bet |-> 201, ws |-> 200]
EngineRoutes == [health |-> 200, sync |-> 202, calculate |-> 200, live |-> 200]
SettlementRoutes == [health |-> 200, pending |-> 200, process |-> 202, settlement |-> 200]

Routes(s) ==
  CASE s = "wallet" -> WalletRoutes
    [] s = "games" -> GamesRoutes
    [] s = "engine" -> EngineRoutes
    [] s = "settlement" -> SettlementRoutes
    [] s = "gateway" -> <<>>

\* readiness pings what the service registered; the gateway registers nothing.
Readiness(s) == IF s = "gateway" THEN {200} ELSE {200, 503}
Codes(s) == {Routes(s)[x] : x \in DOMAIN Routes(s)} \cup {200} \cup Readiness(s)

\* Of an answer the model keeps the class (2 for 2xx), of an ended request what it
\* took from the limiter.
Class(code) == code \div 100
Quiet == [at |-> "new", from |-> "none", class |-> 0, read |-> 0,
          admitted |-> FALSE, late |-> FALSE, panicked |-> FALSE]
Ended(q, code) ==
  [(IF q.admitted THEN q ELSE Quiet) EXCEPT !.at = "done", !.class = Class(code)]

InProgress == {r \in Requests : req[r].at \in {"clock", "script", "handler"}}
Panicked == {r \in Requests : req[r].panicked}
WindowStart(t) == (t \div Window) * Window

HttpInit ==
  /\ service = "none" /\ phase = "boot" /\ booted = 0 /\ deferred = <<>> /\ exit = 0
  /\ now = 0 /\ req = [r \in Requests |-> Quiet] /\ inFlight = 0
  /\ entries = [c \in Clients |-> {}] /\ expires = [c \in Clients |-> 0]

-----------------------------------------------------------------------------
(* main: each step opens something or is os.Exit(1), which runs no defer.  *)

Launch ==
  /\ service = "none" /\ service' \in Services
  /\ UNCHANGED <<phase, booted, deferred, exit, now, req, limiter, inFlight>>

Exits(code) == phase' = "exited" /\ exit' = code

BootStep ==
  /\ service # "none" /\ phase = "boot"
  /\ \/ LET step == Main(service)[booted + 1]
        IN  /\ booted' = booted + 1
            /\ deferred' = IF step \in Deferrable THEN <<step>> \o deferred ELSE deferred
            /\ phase' = IF booted' = Len(Main(service)) THEN "serving" ELSE "boot"
            /\ UNCHANGED exit
     \/ Exits(1) /\ UNCHANGED <<booted, deferred>>
  /\ UNCHANGED <<service, now, req, limiter, inFlight>>

-----------------------------------------------------------------------------
(* A request, from the router through the middleware to its handler.       *)

Answered(r, code) == req' = [req EXCEPT ![r] = Ended(@, code)]

\* Variant with a bug: the gauge goes up before the pre-flight is answered.
ArriveCountedEarly(r) ==
  /\ phase = "serving" /\ req[r].at = "new"
  /\ Answered(r, 204)
  /\ inFlight' = inFlight + 1
  /\ UNCHANGED <<main, now, limiter>>

\* The addresses requests come from: GetClientIP cuts one at its first colon, so an
\* IPv6 peer leaves something that is no IP.
GetClientIP == Clients \cup {"unparsed"}
\* The gateway's limiter has one of its own, which takes whatever a trusted proxy forwards.
getClientIP == Clients \cup {"unparsed"}
Peers == IF service = "gateway" THEN getClientIP ELSE GetClientIP

\* The router answers what matches no route; a pre-flight ends in CORS before the
\* gauge; a request whose country is known and not allowed ends in Geolocation.
Unrouted(r) == Answered(r, 404) /\ UNCHANGED inFlight
CORS(r) == Answered(r, 204) /\ UNCHANGED inFlight
Geolocation(r) == Answered(r, 451) /\ UNCHANGED inFlight
Measured(r) ==
  /\ \E from \in Peers :
       req' = [req EXCEPT ![r] = [Quiet EXCEPT !.at = "clock", !.from = from]]
  /\ inFlight' = inFlight + 1

Arrive(r) ==
  /\ phase = "serving" /\ service \in Busy /\ req[r].at = "new"
  /\ Unrouted(r) \/ CORS(r) \/ Geolocation(r) \/ Measured(r)
  /\ UNCHANGED <<main, now, limiter>>

\* checkLimit reads its clock; an address that is no IP is let through.
ReadClock(r) ==
  /\ phase # "exited" /\ req[r].at = "clock"
  /\ req' = [req EXCEPT ![r] = IF req[r].from \in Clients
                                THEN [@ EXCEPT !.at = "script", !.read = now]
                                ELSE [@ EXCEPT !.at = "handler"]]
  /\ UNCHANGED <<main, now, limiter, inFlight>>

Stored(c) == IF now >= expires[c] THEN {} ELSE entries[c]

\* Variant with a bug: one request too many fits in the window.
RoomPlusOne(kept) == Cardinality(kept) <= Limit
Room(kept) == Cardinality(kept) < Limit

\* The Lua script.  window_start - 1 is a double and rounds to window_start, so the
\* entry of the window's first instant goes too; equal instants are one member.
Script(r) ==
  LET c == req[r].from
      kept == {t \in Stored(c) : t > WindowStart(req[r].read)}
      late == WindowStart(now) # WindowStart(req[r].read)
  IN  /\ phase # "exited" /\ req[r].at = "script"
      /\ IF Room(kept)
         THEN /\ entries' = [entries EXCEPT ![c] = kept \cup {req[r].read}]
              /\ expires' = [expires EXCEPT ![c] = now + Window]
              /\ req' = [req EXCEPT ![r].at = "handler", ![r].admitted = TRUE, ![r].late = late]
              /\ UNCHANGED inFlight
         ELSE /\ entries' = [entries EXCEPT ![c] = kept]
              /\ Answered(r, 429)
              /\ inFlight' = inFlight - 1
              /\ UNCHANGED expires
      /\ UNCHANGED <<main, now>>

\* Redis does not answer: the request is served all the same.
ScriptFails(r) ==
  /\ phase # "exited" /\ req[r].at = "script"
  /\ req' = [req EXCEPT ![r] = [Quiet EXCEPT !.at = "handler"]]
  /\ UNCHANGED <<main, now, limiter, inFlight>>

\* A request that is let in, refused or let through; one limit for all is in force.
HTTPMiddleware(r) == ReadClock(r) \/ Script(r) \/ ScriptFails(r)

Handle(r) ==
  /\ phase # "exited" /\ req[r].at = "handler"
  /\ \E code \in Codes(service) : Answered(r, code)
  /\ inFlight' = inFlight - 1
  /\ UNCHANGED <<main, now, limiter>>

\* Recovery answers 500, outside the metrics: the gauge is not taken down again.
Panic(r) ==
  /\ phase # "exited" /\ req[r].at = "handler"
  /\ req' = [req EXCEPT ![r] = [Ended(@, 500) EXCEPT !.panicked = TRUE]]
  /\ UNCHANGED <<main, now, limiter, inFlight>>

-----------------------------------------------------------------------------
(* RunHTTP: a signal or a listener's error, then Shutdown and the defers.  *)

Signal ==
  /\ phase = "serving" /\ phase' = "draining"
  /\ UNCHANGED <<service, booted, deferred, exit, now, req, limiter, inFlight>>

ListenFails ==
  /\ phase = "serving" /\ Exits(1)
  /\ UNCHANGED <<service, booted, deferred, now, req, limiter, inFlight>>

Drained ==
  /\ phase = "draining" /\ InProgress = {} /\ phase' = "closing"
  /\ UNCHANGED <<service, booted, deferred, exit, now, req, limiter, inFlight>>

\* Variant with a bug: Shutdown has no deadline.
NoDeadline == FALSE /\ UNCHANGED httpVars

\* Fifteen seconds have passed with a request still inside.
ShutdownTimeout ==
  /\ phase = "draining" /\ InProgress # {} /\ Exits(1)
  /\ UNCHANGED <<service, booted, deferred, now, req, limiter, inFlight>>

Close ==
  /\ phase = "closing"
  /\ IF deferred = <<>> THEN Exits(0) /\ UNCHANGED deferred
     ELSE deferred' = Tail(deferred) /\ UNCHANGED <<phase, exit>>
  /\ UNCHANGED <<service, booted, now, req, limiter, inFlight>>

Elapse ==
  /\ phase \in {"serving", "draining"} /\ now < Horizon /\ now' = now + 1
  /\ UNCHANGED <<main, req, limiter, inFlight>>

Serve(r) == Arrive(r) \/ HTTPMiddleware(r) \/ Handle(r) \/ Panic(r)
Stop == Signal \/ ListenFails \/ Drained \/ ShutdownTimeout \/ Close
HttpNext == Launch \/ BootStep \/ Stop \/ Elapse \/ \E r \in Requests : Serve(r)

\* A handler may hang; the server's own goroutines and timer do not.
HttpFairness == WF_httpVars(Drained) /\ WF_httpVars(ShutdownTimeout) /\ WF_httpVars(Close)
HttpSpec == HttpInit /\ [][HttpNext]_httpVars /\ HttpFairness

-----------------------------------------------------------------------------
Instants(c, late) ==
  {req[r].read : r \in {q \in Requests : req[q].from = c /\ req[q].admitted /\ req[q].late \in late}}

\* While Redis answers, the requests of a client decided within the window in which
\* they read the clock are at most Limit per window.  Requests in the window's first
\* instant, at one instant, or decided after their window escape the count.
AdmittedWithinLimit ==
  \A c \in Clients, t \in 0 .. Horizon :
    Cardinality({i \in Instants(c, {FALSE}) : WindowStart(i) = WindowStart(t) /\ i # WindowStart(t)})
      <= Limit

\* What main deferred is closed only when no request can use it any more, and the
\* exit code is 0 only if every request taken was answered and everything closed.
DrainedBeforeClosed ==
  /\ phase = "closing" => InProgress = {}
  /\ phase = "exited" /\ exit = 0 => InProgress = {} /\ deferred = <<>>
  /\ phase \in {"serving", "draining"} =>
       {deferred[i] : i \in DOMAIN deferred} = Deferrable \cap {Main(service)[i] : i \in DOMAIN Main(service)}

\* The gauge is the requests inside plus every panic so far (Recovery is outside the
\* metrics): no other end of a request leaves it high.
GaugeCountsPanics == inFlight = Cardinality(InProgress) + Cardinality(Panicked)

\* No request is lost count of: none is in a handler when the service's resources are
\* closed, and the gauge counts those in handlers, the ones a panic ended included.
RequestsAccountedFor == DrainedBeforeClosed /\ GaugeCountsPanics

\* A service asked to stop stops, whatever its handlers do.
StopsWhenAsked == phase = "draining" ~> phase = "exited"

-----------------------------------------------------------------------------
(* The inductive invariants from which ServicesProofs derives the above.   *)

RequestType ==
  [at : {"new", "clock", "script", "handler", "done"}, from : Clients \cup {"unparsed", "none"},
   class : Nat, read : Nat, admitted : BOOLEAN, late : BOOLEAN, panicked : BOOLEAN]

HttpTypes ==
  /\ now \in Nat
  /\ req \in [Requests -> RequestType]
  /\ entries \in [Clients -> SUBSET (0 .. now)]
  /\ expires \in [Clients -> Nat]

\* Only an answer tells of a panic, only what the limiter let in is admitted, and
\* nothing arrives before main is done.
RequestsInv ==
  \A r \in Requests :
    /\ req[r].panicked => req[r].at = "done"
    /\ req[r].at \in {"new", "clock", "script"} => ~req[r].admitted
    /\ req[r].at = "script" \/ req[r].admitted => req[r].from \in Clients
    /\ req[r].read <= now
    /\ phase = "boot" => req[r].at = "new"

\* What main has opened so far is what it will close.
Opened(n) == Deferrable \cap {Main(service)[i] : i \in 1 .. n}
MainInv ==
  /\ service \in Services \cup {"none"}
  /\ phase \in {"boot", "serving", "draining", "closing", "exited"}
  /\ deferred \in Seq(Deferrable)
  /\ service = "none" => phase = "boot" /\ booted = 0 /\ deferred = <<>>
  /\ service # "none" /\ phase = "boot" =>
       /\ booted \in 0 .. Len(Main(service)) - 1
       /\ {deferred[i] : i \in DOMAIN deferred} = Opened(booted)

\* The requests the limiter counts in the window of t.
CountedIn(c, t) ==
  {i \in Instants(c, {FALSE}) : WindowStart(i) = WindowStart(t) /\ i # WindowStart(t)}

\* What was decided in the current window is still stored, with room for no more than
\* Limit, and no key expires before the window of its entries ends.
LimiterInv ==
  \A c \in Clients :
    /\ \A e \in entries[c] : e + Window <= expires[c]
    /\ CountedIn(c, now) \subseteq entries[c]
    /\ Cardinality({e \in entries[c] : e > WindowStart(now)}) <= Limit

HttpInv ==
  /\ HttpTypes /\ RequestsInv /\ MainInv /\ LimiterInv
  /\ RequestsAccountedFor /\ AdmittedWithinLimit
=============================================================================
