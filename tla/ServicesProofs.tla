--------------------------- MODULE ServicesProofs ---------------------------
(***************************************************************************)
(* Theorems about the Go processes of MCServices: a service with its rate  *)
(* limiter, for every set of requests and clients, every limit and window; *)
(* the id generators, for every worker numbering and sequence size; the    *)
(* leads, for every set of phones, lengths and callers; the crash engine,  *)
(* for every set of players, bets, cash-outs and callers, every capacity   *)
(* of the channel and every draw.                                          *)
(***************************************************************************)
EXTENDS HttpService, CrashEngine, Ids, Leads, FiniteSetTheorems, SumTheorems, SequenceTheorems, TLAPS

-----------------------------------------------------------------------------
(* HttpService: main, requests, the limiter and the shutdown.              *)

\* What main opens is a list of a few steps.
LEMMA MainType ==
  ASSUME NEW s \in Known
  PROVE  Len(Main(s)) \in Nat \ {0} /\ DOMAIN Main(s) = 1 .. Len(Main(s))
<1>1. Main(s) \in {WalletMain, GamesMain, EngineMain, SettlementMain, GatewayMain}
  <2>1. CASE s = "wallet"
    BY <2>1 DEF Main
  <2>2. CASE s = "games"
    BY <2>2 DEF Main
  <2>3. CASE s = "engine"
    BY <2>3 DEF Main
  <2>4. CASE s = "settlement"
    BY <2>4 DEF Main
  <2>5. CASE s = "gateway"
    BY <2>5 DEF Main
  <2> QED BY <2>1, <2>2, <2>3, <2>4, <2>5 DEF Known
<1>2. /\ Len(WalletMain) = 5 /\ Len(GamesMain) = 6 /\ Len(EngineMain) = 4
      /\ Len(SettlementMain) = 4 /\ Len(GatewayMain) = 3
  BY DEF WalletMain, GamesMain, EngineMain, SettlementMain, GatewayMain
<1>3. /\ DOMAIN WalletMain = 1 .. 5 /\ DOMAIN GamesMain = 1 .. 6 /\ DOMAIN EngineMain = 1 .. 4
      /\ DOMAIN SettlementMain = 1 .. 4 /\ DOMAIN GatewayMain = 1 .. 3
  BY DEF WalletMain, GamesMain, EngineMain, SettlementMain, GatewayMain
<1> QED BY <1>1, <1>2, <1>3

\* Every answer has a class.
LEMMA CodesType ==
  ASSUME NEW s \in Known, NEW code \in Codes(s)
  PROVE  code \in Nat
<1> USE DEF Codes, Routes, Readiness, Known
<1>1. CASE s = "wallet"
  BY <1>1 DEF WalletRoutes
<1>2. CASE s = "games"
  BY <1>2 DEF GamesRoutes
<1>3. CASE s = "engine"
  BY <1>3 DEF EngineRoutes
<1>4. CASE s = "settlement"
  BY <1>4 DEF SettlementRoutes
<1>5. CASE s = "gateway"
  BY <1>5
<1> QED BY <1>1, <1>2, <1>3, <1>4, <1>5

\* A class is a number.
LEMMA ClassType == ASSUME NEW code \in Nat PROVE Class(code) \in Nat
BY DEF Class

\* What an ended request is.
LEMMA EndedType ==
  ASSUME NEW q \in RequestType, NEW code \in Nat
  PROVE  LET e == Ended(q, code)
         IN  /\ e \in RequestType /\ e.at = "done" /\ e.admitted = q.admitted
             /\ q.admitted => e.from = q.from /\ e.read = q.read /\ e.late = q.late
             /\ ~q.admitted => e.read = 0
             /\ e.panicked => q.panicked
<1>1. Class(code) \in Nat
  BY ClassType
<1>2. Quiet \in RequestType
  BY DEF Quiet, RequestType
<1>3. CASE q.admitted
  BY <1>1, <1>3 DEF Ended, RequestType
<1>4. CASE ~q.admitted
  BY <1>1, <1>2, <1>4 DEF Ended, RequestType, Quiet
<1> QED BY <1>3, <1>4

-----------------------------------------------------------------------------
(* Windows of the limiter.                                                 *)

\* Multiplication is monotone.
LEMMA Product ==
  ASSUME NEW a \in Nat, NEW b \in Nat, NEW w \in Nat, a <= b
  PROVE  a * w \in Nat /\ a * w <= b * w
OBVIOUS

\* An instant is in the window that starts at its WindowStart.
LEMMA WindowBounds ==
  ASSUME NEW t \in Nat
  PROVE  /\ (t \div Window) \in Nat /\ WindowStart(t) \in Nat
         /\ WindowStart(t) <= t /\ t < WindowStart(t) + Window
<1> DEFINE q == t \div Window
<1>1. q \in Nat /\ t = q * Window + (t % Window) /\ (t % Window) \in 0 .. (Window - 1)
  BY HttpServiceAssumption
<1>2. q * Window \in Nat
  BY <1>1, HttpServiceAssumption
<1> HIDE DEF q
<1>3. WindowStart(t) = q * Window
  BY DEF WindowStart, q
<1> QED BY <1>1, <1>2, <1>3, HttpServiceAssumption DEF q

\* Windows follow each other, and what is not before the start of a window is in it.
LEMMA WindowOrder ==
  ASSUME NEW s \in Nat, NEW t \in Nat, s <= t
  PROVE  /\ WindowStart(s) <= WindowStart(t)
         /\ s >= WindowStart(t) => WindowStart(s) = WindowStart(t)
<1> DEFINE q == s \div Window
           r == t \div Window
<1>0. Window \in Nat \ {0}
  BY HttpServiceAssumption
<1>1. /\ q \in Nat /\ q * Window \in Nat /\ q * Window <= s /\ s < q * Window + Window
      /\ r \in Nat /\ r * Window \in Nat /\ r * Window <= t /\ t < r * Window + Window
  BY WindowBounds DEF WindowStart
<1>2. WindowStart(s) = q * Window /\ WindowStart(t) = r * Window
  BY DEF WindowStart
<1> HIDE DEF q, r
<1>3. ASSUME r < q PROVE FALSE
  <2>1. (r + 1) * Window <= q * Window
    BY <1>0, <1>1, <1>3, Product, r + 1 <= q, r + 1 \in Nat
  <2>2. (r + 1) * Window = r * Window + Window
    BY <1>0, <1>1
  <2> QED BY <1>0, <1>1, <2>1, <2>2
<1>4. q * Window <= r * Window
  BY <1>0, <1>1, <1>3, Product
<1>5. ASSUME q < r, s >= r * Window PROVE FALSE
  <2>1. (q + 1) * Window <= r * Window
    BY <1>0, <1>1, <1>5, Product, q + 1 <= r, q + 1 \in Nat
  <2>2. (q + 1) * Window = q * Window + Window
    BY <1>0, <1>1
  <2> QED BY <1>0, <1>1, <1>5, <2>1, <2>2
<1>6. s >= r * Window => q = r
  BY <1>1, <1>3, <1>5
<1> QED BY <1>2, <1>4, <1>6

-----------------------------------------------------------------------------
(* Steps of one request.                                                   *)

\* A request after its step: what RequestsInv asks of one of them.
Sound(q) ==
  /\ q \in RequestType
  /\ q.panicked => q.at = "done"
  /\ q.at \in {"new", "clock", "script"} => ~q.admitted
  /\ q.at = "script" \/ q.admitted => q.from \in Clients
  /\ q.read <= now

Inside(q) == q.at \in {"clock", "script", "handler"}
Weight(q) == (IF Inside(q) THEN 1 ELSE 0) + (IF q.panicked THEN 1 ELSE 0)

\* A request outside the boot keeps the invariants of requests, main and the gauge.
LEMMA RequestStep ==
  ASSUME HttpInv, NEW r \in Requests, NEW q, Sound(q),
         req' = [req EXCEPT ![r] = q], UNCHANGED <<main, now>>,
         phase = "serving" \/ Inside(req[r]),
         ~req[r].panicked,
         inFlight' = inFlight + Weight(q) - Weight(req[r])
  PROVE  req' \in [Requests -> RequestType] /\ RequestsInv' /\ MainInv' /\ RequestsAccountedFor'
<1> USE DEF HttpInv
<1>1. /\ req \in [Requests -> RequestType] /\ req' \in [Requests -> RequestType]
      /\ req'[r] = q /\ \A s \in Requests \ {r} : req'[s] = req[s]
  BY DEF HttpTypes, Sound
<1>2. phase # "boot" /\ phase' = phase /\ now' = now
  BY DEF main, RequestsInv, Inside
<1>3. RequestsInv'
  BY <1>1, <1>2 DEF RequestsInv, Sound
<1>4. MainInv'
  BY DEF MainInv, main, Opened
<1>5. /\ InProgress' = IF Inside(q) THEN InProgress \cup {r} ELSE InProgress \ {r}
      /\ Panicked' = IF q.panicked THEN Panicked \cup {r} ELSE Panicked
      /\ r \notin Panicked /\ (r \in InProgress <=> Inside(req[r]))
  BY <1>1 DEF InProgress, Panicked, Inside
<1>6. DrainedBeforeClosed'
  <2>1. phase # "closing" /\ ~(phase = "exited" /\ exit = 0)
    BY <1>5 DEF RequestsAccountedFor, DrainedBeforeClosed
  <2> QED BY <2>1, <1>2 DEF RequestsAccountedFor, DrainedBeforeClosed, main
<1>7. GaugeCountsPanics'
  <2>1. IsFiniteSet(InProgress) /\ IsFiniteSet(Panicked)
    BY FS_Subset, HttpServiceAssumption DEF InProgress, Panicked
  <2>2. /\ Cardinality(InProgress) \in Nat /\ Cardinality(Panicked) \in Nat
        /\ Cardinality(InProgress \cup {r}) =
             IF r \in InProgress THEN Cardinality(InProgress) ELSE Cardinality(InProgress) + 1
        /\ Cardinality(InProgress \ {r}) =
             IF r \in InProgress THEN Cardinality(InProgress) - 1 ELSE Cardinality(InProgress)
        /\ Cardinality(Panicked \cup {r}) = Cardinality(Panicked) + 1
    BY <2>1, <1>5, FS_AddElement, FS_RemoveElement, FS_CardinalityType
  <2>3. inFlight = Cardinality(InProgress) + Cardinality(Panicked)
    BY DEF RequestsAccountedFor, GaugeCountsPanics
  <2>4. /\ Weight(req[r]) = IF r \in InProgress THEN 1 ELSE 0
        /\ Weight(q) = (IF Inside(q) THEN 1 ELSE 0) + (IF q.panicked THEN 1 ELSE 0)
    BY <1>5 DEF Weight
  <2>5. /\ Cardinality(InProgress') = Cardinality(InProgress)
             + (IF Inside(q) THEN 1 ELSE 0) - (IF r \in InProgress THEN 1 ELSE 0)
        /\ Cardinality(Panicked') = Cardinality(Panicked) + (IF q.panicked THEN 1 ELSE 0)
    BY <1>5, <2>2
  <2>6. inFlight' = Cardinality(InProgress') + Cardinality(Panicked')
    BY <2>2, <2>3, <2>4, <2>5
  <2> QED BY <2>6 DEF GaugeCountsPanics
<1> QED BY <1>1, <1>3, <1>4, <1>6, <1>7 DEF RequestsAccountedFor

\* A request that adds no admission leaves the limiter's counts as they are.
LEMMA NoAdmission ==
  ASSUME HttpInv, NEW r \in Requests, NEW q \in RequestType,
         req' = [req EXCEPT ![r] = q], UNCHANGED now,
         q.admitted => /\ req[r].admitted /\ q.from = req[r].from
                       /\ q.read = req[r].read /\ q.late = req[r].late
  PROVE  \A c \in Clients : Instants(c, {FALSE})' \subseteq Instants(c, {FALSE})
<1>1. /\ req'[r] = q /\ \A s \in Requests \ {r} : req'[s] = req[s]
  BY DEF HttpInv, HttpTypes
<1>2. ASSUME NEW c \in Clients, NEW i \in Instants(c, {FALSE})'
      PROVE  i \in Instants(c, {FALSE})
  <2>1. PICK s \in Requests : /\ req'[s].from = c /\ req'[s].admitted /\ req'[s].late = FALSE
                             /\ i = req'[s].read
    BY <1>2 DEF Instants
  <2>2. req[s].from = c /\ req[s].admitted /\ req[s].late = FALSE /\ i = req[s].read
    BY <1>1, <2>1
  <2> QED BY <2>2 DEF Instants
<1> QED BY <1>2

\* The instants counted are up to now, so their sets are finite.
LEMMA InstantsFinite ==
  ASSUME HttpInv, NEW c \in Clients
  PROVE  /\ Instants(c, {FALSE}) \subseteq 0 .. now
         /\ \A S : S \subseteq 0 .. now => IsFiniteSet(S)
<1>1. now \in Nat /\ \A r \in Requests : req[r].read \in 0 .. now
  BY DEF HttpInv, HttpTypes, RequestsInv, RequestType
<1>2. \A S : S \subseteq 0 .. now => IsFiniteSet(S)
  <2>1. IsFiniteSet(0 .. now)
    BY <1>1, FS_Interval
  <2> QED BY <2>1, FS_Subset
<1> QED BY <1>1, <1>2 DEF Instants

\* One element more.
LEMMA OneMore ==
  ASSUME NEW S, IsFiniteSet(S), NEW x
  PROVE  /\ IsFiniteSet(S \cup {x}) /\ Cardinality(S \cup {x}) \in Nat
         /\ Cardinality(S \cup {x}) <= Cardinality(S) + 1
<1>1. /\ IsFiniteSet(S \cup {x}) /\ Cardinality(S) \in Nat
      /\ Cardinality(S \cup {x}) = IF x \in S THEN Cardinality(S) ELSE Cardinality(S) + 1
  BY FS_AddElement, FS_CardinalityType
<1> QED BY <1>1

\* A part of what is within Limit is.
LEMMA LessThanLimit ==
  ASSUME NEW S, NEW T, S \subseteq T, IsFiniteSet(T), Cardinality(T) <= Limit
  PROVE  Cardinality(S) <= Limit
<1>1. IsFiniteSet(S) /\ Cardinality(S) <= Cardinality(T)
  BY FS_Subset
<1> QED BY <1>1, FS_CardinalityType, HttpServiceAssumption

\* Fewer instants are not more than Limit.
LEMMA LimitKept ==
  ASSUME HttpInv,
         \A c \in Clients : Instants(c, {FALSE})' \subseteq Instants(c, {FALSE})
  PROVE  AdmittedWithinLimit'
<1> USE DEF HttpInv
<1>1. ASSUME NEW c \in Clients, NEW t \in 0 .. Horizon
      PROVE  Cardinality(CountedIn(c, t)') <= Limit
  <2>1. CountedIn(c, t)' \subseteq CountedIn(c, t) /\ CountedIn(c, t) \subseteq 0 .. now
    BY InstantsFinite DEF CountedIn, WindowStart
  <2>2. IsFiniteSet(CountedIn(c, t)) /\ IsFiniteSet(CountedIn(c, t)')
    BY <2>1, InstantsFinite
  <2>3. Cardinality(CountedIn(c, t)') <= Cardinality(CountedIn(c, t))
    BY <2>1, <2>2, FS_Subset
  <2>4. Cardinality(CountedIn(c, t)) <= Limit
    BY DEF AdmittedWithinLimit, CountedIn
  <2> QED BY <2>2, <2>3, <2>4, FS_CardinalityType, HttpServiceAssumption
<1> QED BY <1>1 DEF AdmittedWithinLimit, CountedIn, WindowStart

\* What is stored of the current window has not expired.
LEMMA CurrentStored ==
  ASSUME HttpInv, NEW c \in Clients, NEW e \in entries[c], e > WindowStart(now)
  PROVE  e \in Stored(c)
<1>1. now \in Nat /\ e \in 0 .. now /\ expires[c] \in Nat /\ e + Window <= expires[c]
  BY DEF HttpInv, HttpTypes, LimiterInv
<1>2. now < WindowStart(now) + Window /\ WindowStart(now) \in Nat
  BY <1>1, WindowBounds
<1>3. now < expires[c]
  BY <1>1, <1>2, HttpServiceAssumption
<1> QED BY <1>1, <1>3 DEF Stored

\* Some stored instants of the current window at most are as many as before.
LEMMA CurrentFits ==
  ASSUME HttpInv, NEW c \in Clients, NEW S \in SUBSET {e \in entries[c] : e > WindowStart(now)}
  PROVE  IsFiniteSet(S) /\ Cardinality(S) \in Nat /\ Cardinality(S) <= Limit
<1> DEFINE all == {e \in entries[c] : e > WindowStart(now)}
<1>1. all \subseteq 0 .. now /\ Cardinality(all) <= Limit
  BY DEF HttpInv, HttpTypes, LimiterInv
<1>2. IsFiniteSet(all)
  BY <1>1, InstantsFinite
<1> HIDE DEF all
<1>3. S \subseteq all
  BY DEF all
<1>4. IsFiniteSet(S) /\ Cardinality(S) <= Cardinality(all)
  BY <1>2, <1>3, FS_Subset
<1> QED BY <1>1, <1>2, <1>4, FS_CardinalityType, HttpServiceAssumption

\* The limiter's invariant when nothing of the current window is added or removed.
LEMMA LimiterShrinks ==
  ASSUME HttpInv, UNCHANGED now,
         entries' \in [Clients -> SUBSET (0 .. now)],
         \A c \in Clients :
           /\ \A e \in entries'[c] : e + Window <= expires'[c]
           /\ Instants(c, {FALSE})' \subseteq Instants(c, {FALSE})
           /\ \A e \in entries[c] : e > WindowStart(now) => e \in entries'[c]
           /\ \A e \in entries'[c] : e > WindowStart(now) => e \in entries[c]
  PROVE  LimiterInv'
<1> SUFFICES ASSUME NEW c \in Clients
             PROVE  /\ CountedIn(c, now)' \subseteq entries'[c]
                    /\ Cardinality({e \in entries'[c] : e > WindowStart(now)}) <= Limit
  BY DEF LimiterInv, WindowStart
<1>1. now \in Nat /\ Instants(c, {FALSE}) \subseteq 0 .. now /\ WindowStart(now) \in Nat
  BY InstantsFinite, WindowBounds DEF HttpInv, HttpTypes
<1>2. ASSUME NEW i \in CountedIn(c, now)'  PROVE i \in entries'[c]
  <2>1. /\ i \in Instants(c, {FALSE}) /\ WindowStart(i) = WindowStart(now) /\ i # WindowStart(now)
    BY <1>2 DEF CountedIn, WindowStart
  <2>2. i \in Nat /\ i > WindowStart(now)
    BY <1>1, <2>1, WindowBounds
  <2>3. i \in entries[c]
    BY <2>1 DEF HttpInv, LimiterInv, CountedIn
  <2> QED BY <2>2, <2>3
<1>3. {e \in entries'[c] : e > WindowStart(now)} \subseteq {e \in entries[c] : e > WindowStart(now)}
  OBVIOUS
<1> QED BY <1>2, <1>3, CurrentFits

-----------------------------------------------------------------------------
(* One lemma per action.                                                   *)

\* The requests the limiter counts change only where it decides.
LEMMA Decided ==
  ASSUME HttpInv, NEW r \in Requests, NEW q, Sound(q),
         req' = [req EXCEPT ![r] = q], UNCHANGED <<main, now, limiter>>,
         phase = "serving" \/ Inside(req[r]), ~req[r].panicked,
         inFlight' = inFlight + Weight(q) - Weight(req[r]),
         q.admitted => /\ req[r].admitted /\ q.from = req[r].from
                       /\ q.read = req[r].read /\ q.late = req[r].late
  PROVE  HttpInv'
<1>1. q \in RequestType
  BY DEF Sound
<1>2. \A c \in Clients : Instants(c, {FALSE})' \subseteq Instants(c, {FALSE})
  BY <1>1, NoAdmission
<1>3. LimiterInv' /\ AdmittedWithinLimit'
  <2>1. now' = now /\ entries' = entries /\ expires' = expires
    BY DEF limiter
  <2>2. LimiterInv'
    BY <1>2, <2>1, LimiterShrinks DEF HttpInv, HttpTypes, LimiterInv
  <2> QED BY <1>2, <2>2, LimitKept
<1>4. req' \in [Requests -> RequestType] /\ RequestsInv' /\ MainInv' /\ RequestsAccountedFor'
  BY RequestStep
<1>5. HttpTypes'
  BY <1>4 DEF HttpInv, HttpTypes, limiter
<1> QED BY <1>3, <1>4, <1>5 DEF HttpInv

\* The request a step is about.
LEMMA RequestIs ==
  ASSUME HttpInv, NEW r \in Requests
  PROVE  /\ Sound(req[r]) /\ req[r] \in RequestType /\ now \in Nat
         /\ (req[r].panicked => ~Inside(req[r]) /\ req[r].at # "new")
BY DEF HttpInv, HttpTypes, RequestsInv, Sound, Inside

\* The gauge is a number.
LEMMA GaugeType ==
  ASSUME HttpInv  PROVE inFlight \in Nat
<1>1. IsFiniteSet(InProgress) /\ IsFiniteSet(Panicked)
  BY FS_Subset, HttpServiceAssumption DEF InProgress, Panicked
<1>2. Cardinality(InProgress) \in Nat /\ Cardinality(Panicked) \in Nat
  BY <1>1, FS_CardinalityType
<1> QED BY <1>2 DEF HttpInv, RequestsAccountedFor, GaugeCountsPanics

\* An answer of its own, before the gauge or after the handler.
LEMMA AnsweredKeeps ==
  ASSUME HttpInv, NEW r \in Requests, NEW code \in Nat, Answered(r, code),
         UNCHANGED <<main, now, limiter>>, ~req[r].panicked,
         phase = "serving" \/ Inside(req[r]),
         inFlight' = inFlight - Weight(req[r])
  PROVE  HttpInv'
<1> DEFINE q == Ended(req[r], code)
<1>1. Sound(req[r]) /\ req[r] \in RequestType /\ now \in Nat
  BY RequestIs
<1>2. /\ q \in RequestType /\ q.at = "done" /\ q.admitted = req[r].admitted
      /\ q.admitted => q.from = req[r].from /\ q.read = req[r].read /\ q.late = req[r].late
      /\ ~q.admitted => q.read = 0
      /\ q.panicked => req[r].panicked
  BY <1>1, EndedType
<1>3. req' = [req EXCEPT ![r] = q]
  BY DEF Answered
<1> HIDE DEF q
<1>4. Sound(q) /\ Weight(q) = 0
  BY <1>1, <1>2 DEF Sound, Weight, Inside
<1>5. inFlight' = inFlight + Weight(q) - Weight(req[r])
  <2>1. inFlight \in Int /\ Weight(req[r]) \in Int
    BY <1>1, GaugeType DEF Weight
  <2> QED BY <1>4, <2>1
<1> QED BY <1>2, <1>3, <1>4, <1>5, Decided

\* A request the router, CORS or Geolocation answers, or that enters the gauge.
LEMMA ArriveKeeps ==
  ASSUME HttpInv, NEW r \in Requests, Arrive(r)  PROVE HttpInv'
<1>1. /\ phase = "serving" /\ req[r].at = "new" /\ UNCHANGED <<main, now, limiter>>
      /\ ~req[r].panicked /\ Weight(req[r]) = 0 /\ inFlight \in Nat
      /\ now \in Nat
  BY RequestIs, GaugeType DEF Arrive, Weight, Inside
<1>2. CASE Unrouted(r) \/ CORS(r) \/ Geolocation(r)
  <2>1. inFlight' = inFlight - Weight(req[r])
    BY <1>1, <1>2 DEF Unrouted, CORS, Geolocation
  <2>2. PICK code \in {404, 204, 451} : Answered(r, code)
    BY <1>2 DEF Unrouted, CORS, Geolocation
  <2> QED BY <1>1, <2>1, <2>2, AnsweredKeeps
<1>3. CASE Measured(r)
  <2>1. PICK from \in Peers : req' = [req EXCEPT ![r] = [Quiet EXCEPT !.at = "clock", !.from = from]]
    BY <1>3 DEF Measured
  <2> DEFINE q == [Quiet EXCEPT !.at = "clock", !.from = from]
  <2>2. q \in RequestType /\ q.at = "clock" /\ ~q.admitted /\ ~q.panicked /\ q.read = 0
    BY DEF Quiet, RequestType, Peers, GetClientIP, getClientIP
  <2> HIDE DEF q
  <2>3. Sound(q) /\ Weight(q) = 1
    BY <1>1, <2>2 DEF Sound, Weight, Inside
  <2>4. inFlight' = inFlight + Weight(q) - Weight(req[r])
    BY <1>1, <1>3, <2>3 DEF Measured
  <2> QED BY <1>1, <2>1, <2>2, <2>3, <2>4, Decided DEF q
<1> QED BY <1>2, <1>3 DEF Arrive

\* checkLimit has read its clock, or lets the request through.
LEMMA ReadClockKeeps ==
  ASSUME HttpInv, NEW r \in Requests, ReadClock(r)  PROVE HttpInv'
<1> DEFINE q == IF req[r].from \in Clients
                THEN [req[r] EXCEPT !.at = "script", !.read = now]
                ELSE [req[r] EXCEPT !.at = "handler"]
<1>1. /\ req[r].at = "clock" /\ UNCHANGED <<main, now, limiter, inFlight>>
      /\ ~req[r].panicked /\ ~req[r].admitted /\ Weight(req[r]) = 1 /\ inFlight \in Nat
      /\ now \in Nat /\ Sound(req[r]) /\ req[r] \in RequestType /\ Inside(req[r])
  BY RequestIs, GaugeType DEF ReadClock, Weight, Inside, Sound
<1>2. req' = [req EXCEPT ![r] = q]
  BY DEF ReadClock
<1>3. /\ q \in RequestType /\ q.at \in {"script", "handler"} /\ ~q.admitted /\ ~q.panicked
      /\ q.at = "script" => q.from \in Clients
      /\ q.read <= now
  <2>1. CASE req[r].from \in Clients
    <3> DEFINE k == [req[r] EXCEPT !.at = "script"]
    <3>1. k \in RequestType /\ k.at = "script" /\ ~k.admitted /\ ~k.panicked /\ k.from = req[r].from
      BY <1>1 DEF RequestType
    <3>2. q = [k EXCEPT !.read = now]
      BY <2>1
    <3> HIDE DEF k, q
    <3> QED BY <1>1, <2>1, <3>1, <3>2 DEF RequestType
  <2>2. CASE req[r].from \notin Clients
    <3>1. q = [req[r] EXCEPT !.at = "handler"]
      BY <2>2
    <3> QED BY <1>1, <2>2, <3>1 DEF RequestType, Sound
  <2> QED BY <2>1, <2>2
<1> HIDE DEF q
<1>4. Sound(q) /\ Weight(q) = 1
  BY <1>3 DEF Sound, Weight, Inside
<1>5. inFlight' = inFlight + Weight(q) - Weight(req[r])
  BY <1>1, <1>4
<1> QED BY <1>1, <1>2, <1>3, <1>4, <1>5, Decided

\* Redis has not answered.
LEMMA ScriptFailsKeeps ==
  ASSUME HttpInv, NEW r \in Requests, ScriptFails(r)  PROVE HttpInv'
<1> DEFINE q == [Quiet EXCEPT !.at = "handler"]
<1>1. /\ req[r].at = "script" /\ UNCHANGED <<main, now, limiter, inFlight>>
      /\ ~req[r].panicked /\ Weight(req[r]) = 1 /\ inFlight \in Nat
      /\ now \in Nat /\ Inside(req[r]) /\ req' = [req EXCEPT ![r] = q]
  BY RequestIs, GaugeType DEF ScriptFails, Weight, Inside, Sound
<1>2. q \in RequestType /\ q.at = "handler" /\ ~q.admitted /\ ~q.panicked /\ q.read = 0
  BY DEF Quiet, RequestType
<1> HIDE DEF q
<1>3. Sound(q) /\ Weight(q) = 1
  BY <1>1, <1>2 DEF Sound, Weight, Inside
<1>4. inFlight' = inFlight + Weight(q) - Weight(req[r])
  BY <1>1, <1>3
<1> QED BY <1>1, <1>2, <1>3, <1>4, Decided

\* A handler answers, and the gauge goes down.
LEMMA HandleKeeps ==
  ASSUME HttpInv, NEW r \in Requests, Handle(r)  PROVE HttpInv'
<1>1. /\ req[r].at = "handler" /\ UNCHANGED <<main, now, limiter>> /\ inFlight' = inFlight - 1
      /\ ~req[r].panicked /\ Weight(req[r]) = 1 /\ Inside(req[r])
  BY RequestIs DEF Handle, Weight, Inside
<1>2. service \in Known
  BY <1>1, HttpServiceAssumption DEF HttpInv, MainInv, RequestsInv
<1>3. PICK code \in Codes(service) : Answered(r, code)
  BY DEF Handle
<1>4. code \in Nat
  BY <1>2, CodesType
<1> QED BY <1>1, <1>3, <1>4, AnsweredKeeps

\* A handler panics, and the gauge stays up.
LEMMA PanicKeeps ==
  ASSUME HttpInv, NEW r \in Requests, Panic(r)  PROVE HttpInv'
<1> DEFINE e == Ended(req[r], 500)
           q == [e EXCEPT !.panicked = TRUE]
<1>1. /\ req[r].at = "handler" /\ UNCHANGED <<main, now, limiter, inFlight>>
      /\ ~req[r].panicked /\ Weight(req[r]) = 1 /\ Inside(req[r]) /\ inFlight \in Nat
      /\ Sound(req[r]) /\ req[r] \in RequestType /\ now \in Nat
      /\ req' = [req EXCEPT ![r] = q]
  BY RequestIs, GaugeType DEF Panic, Weight, Inside
<1>2. /\ e \in RequestType /\ e.at = "done" /\ e.admitted = req[r].admitted
      /\ e.admitted => e.from = req[r].from /\ e.read = req[r].read /\ e.late = req[r].late
      /\ ~e.admitted => e.read = 0
  <2>1. req[r] \in RequestType /\ 500 \in Nat
    BY <1>1
  <2> QED BY <2>1, EndedType
<1> HIDE DEF e
<1>3. /\ q \in RequestType /\ q.at = "done" /\ q.admitted = req[r].admitted /\ q.panicked
      /\ q.admitted => q.from = req[r].from /\ q.read = req[r].read /\ q.late = req[r].late
      /\ ~q.admitted => q.read = 0
  BY <1>2 DEF RequestType
<1> HIDE DEF q
<1>4. Sound(q) /\ Weight(q) = 1
  BY <1>1, <1>3 DEF Sound, Weight, Inside
<1>5. inFlight' = inFlight + Weight(q) - Weight(req[r])
  BY <1>1, <1>4
<1> QED BY <1>1, <1>3, <1>4, <1>5, Decided

\* What the limiter refuses was not admitted before.
LEMMA RefusedRequest ==
  ASSUME HttpInv, NEW r \in Requests, req[r].at = "script"
  PROVE  LET q == Ended(req[r], 429)
         IN  q \in RequestType /\ q.at = "done" /\ ~q.admitted /\ q.read = 0 /\ ~q.panicked
<1> DEFINE q == Ended(req[r], 429)
<1>1. req[r] \in RequestType /\ ~req[r].admitted /\ ~req[r].panicked
  BY RequestIs DEF Sound
<1>2. /\ q \in RequestType /\ q.at = "done" /\ q.admitted = req[r].admitted
      /\ ~q.admitted => q.read = 0
      /\ q.panicked => req[r].panicked
  BY <1>1, EndedType
<1> HIDE DEF q
<1>3. ~q.admitted /\ q.read = 0 /\ ~q.panicked
  BY <1>1, <1>2
<1> QED BY <1>2, <1>3 DEF q

\* A refused request: what has expired or left the window is removed.
LEMMA RefusedKeeps ==
  ASSUME HttpInv, NEW r \in Requests, Script(r),
         ~Room({t \in Stored(req[r].from) : t > WindowStart(req[r].read)})
  PROVE  HttpInv'
<1> DEFINE c == req[r].from
           kept == {t \in Stored(c) : t > WindowStart(req[r].read)}
           q == Ended(req[r], 429)
<1>1. /\ req[r].at = "script" /\ UNCHANGED <<main, now>> /\ expires' = expires
      /\ entries' = [entries EXCEPT ![c] = kept]
      /\ req' = [req EXCEPT ![r] = q] /\ inFlight' = inFlight - 1
  BY DEF Script, Answered
<1>2. /\ ~req[r].panicked /\ ~req[r].admitted /\ Weight(req[r]) = 1 /\ Inside(req[r])
      /\ inFlight \in Nat /\ Sound(req[r]) /\ req[r] \in RequestType /\ now \in Nat
      /\ c \in Clients /\ req[r].read \in 0 .. now
  BY <1>1, RequestIs, GaugeType DEF Weight, Inside, Sound, RequestType
<1>3. /\ q \in RequestType /\ q.at = "done" /\ ~q.admitted /\ q.read = 0 /\ ~q.panicked
  BY <1>1, <1>2, RefusedRequest
<1> HIDE DEF q
<1>4. Sound(q) /\ Weight(q) = 0
  BY <1>2, <1>3 DEF Sound, Weight, Inside
<1>5. req' \in [Requests -> RequestType] /\ RequestsInv' /\ MainInv' /\ RequestsAccountedFor'
  <2>1. inFlight' = inFlight + Weight(q) - Weight(req[r])
    BY <1>1, <1>2, <1>4
  <2> QED BY <1>1, <1>2, <1>4, <2>1, RequestStep
<1>6. kept \subseteq entries[c] /\ entries \in [Clients -> SUBSET (0 .. now)] /\ now' = now
  BY <1>1 DEF Stored, HttpInv, HttpTypes
<1>7. HttpTypes'
  BY <1>1, <1>2, <1>5, <1>6 DEF HttpInv, HttpTypes
<1>8. \A d \in Clients : Instants(d, {FALSE})' \subseteq Instants(d, {FALSE})
  BY <1>1, <1>3, NoAdmission
<1>9. AdmittedWithinLimit'
  BY <1>6, <1>8, LimitKept
<1>10. LimiterInv'
  <2>1. entries' \in [Clients -> SUBSET (0 .. now)] /\ UNCHANGED now
    BY <1>6, <1>7 DEF HttpTypes
  <2>2. WindowStart(req[r].read) <= WindowStart(now) /\ WindowStart(now) \in Nat
        /\ WindowStart(req[r].read) \in Nat
    BY <1>2, WindowOrder, WindowBounds
  <2>3. \A e \in entries[c] : e > WindowStart(now) => e \in kept
    BY <1>2, <1>6, <2>2, CurrentStored
  <2>4. entries'[c] = kept /\ \A d \in Clients \ {c} : entries'[d] = entries[d]
    BY <1>1, <1>2, <1>6
  <2>5. \A d \in Clients : \A e \in entries[d] : e + Window <= expires'[d]
    BY <1>1 DEF HttpInv, LimiterInv
  <2> HIDE DEF c, kept
  <2>6. ASSUME NEW d \in Clients
        PROVE  /\ \A e \in entries'[d] : e \in entries[d]
               /\ \A e \in entries[d] : e > WindowStart(now) => e \in entries'[d]
    <3>1. CASE d = c
      BY <1>6, <2>3, <2>4, <3>1
    <3>2. CASE d # c
      BY <2>4, <3>2
    <3> QED BY <3>1, <3>2
  <2> QED BY <1>8, <2>1, <2>5, <2>6, LimiterShrinks
<1> QED BY <1>5, <1>7, <1>9, <1>10 DEF HttpInv

\* The request the script has let in.
Admission(r, late) == [req[r] EXCEPT !.at = "handler", !.admitted = TRUE, !.late = late]

\* An admitted request: its instant is stored until the window after it has passed.
LEMMA AdmittedRequest ==
  ASSUME HttpInv, NEW r \in Requests, req[r].at = "script", NEW late \in BOOLEAN, NEW q,
         q = Admission(r, late)
  PROVE  /\ Sound(q) /\ Weight(q) = 1 /\ Weight(req[r]) = 1
         /\ q.admitted /\ q.late = late /\ q.from = req[r].from /\ q.read = req[r].read
<1>1. req[r] \in RequestType /\ Sound(req[r]) /\ ~req[r].panicked
  BY RequestIs DEF Sound
<1> DEFINE k == [req[r] EXCEPT !.at = "handler"]
           l == [k EXCEPT !.admitted = TRUE]
<1>2. /\ k \in RequestType /\ k.at = "handler" /\ k.from = req[r].from /\ k.read = req[r].read
      /\ ~k.panicked
  BY <1>1 DEF RequestType
<1> HIDE DEF k
<1>3. /\ l \in RequestType /\ l.at = "handler" /\ l.from = req[r].from /\ l.read = req[r].read
      /\ ~l.panicked /\ l.admitted
  BY <1>2 DEF RequestType
<1>4. q = [l EXCEPT !.late = late]
  BY DEF k, Admission
<1> HIDE DEF l
<1>5. /\ q \in RequestType /\ q.at = "handler" /\ q.from = req[r].from /\ q.read = req[r].read
      /\ ~q.panicked /\ q.admitted /\ q.late = late
  BY <1>3, <1>4 DEF RequestType
<1>6. Sound(q)
  BY <1>1, <1>5 DEF Sound
<1>7. Weight(q) = 1 /\ Weight(req[r]) = 1
  BY <1>1, <1>5 DEF Weight, Inside
<1> QED BY <1>5, <1>6, <1>7

\* Who is counted after an admission: the ones before, and the admitted request in
\* its own window.
LEMMA InstantsAfter ==
  ASSUME HttpInv, NEW r \in Requests, NEW q, q.from = req[r].from, q.read = req[r].read,
         req' = [req EXCEPT ![r] = q], NEW d \in Clients, NEW i \in Instants(d, {FALSE})'
  PROVE  i \in Instants(d, {FALSE}) \/ (d = req[r].from /\ i = req[r].read /\ q.late = FALSE)
<1>1. PICK s \in Requests : /\ req'[s].from = d /\ req'[s].admitted /\ req'[s].late = FALSE
                            /\ i = req'[s].read
  BY DEF Instants
<1>2. /\ req'[r] = q /\ \A u \in Requests \ {r} : req'[u] = req[u]
  BY DEF HttpInv, HttpTypes
<1>3. CASE s = r
  BY <1>1, <1>2, <1>3
<1>4. CASE s # r
  BY <1>1, <1>2, <1>4 DEF Instants
<1> QED BY <1>3, <1>4

\* What the script finds: stored instants after the start of the request's window, among
\* them those of the current one.
LEMMA KeptInstants ==
  ASSUME HttpInv, NEW c \in Clients, NEW i \in 0 .. now, NEW kept,
         kept = {t \in Stored(c) : t > WindowStart(i)}
  PROVE  /\ kept \subseteq entries[c] /\ kept \subseteq 0 .. now /\ IsFiniteSet(kept)
         /\ \A e \in entries[c] : e > WindowStart(now) => e \in kept
<1>1. kept \subseteq entries[c] /\ entries[c] \subseteq 0 .. now /\ now \in Nat
  BY DEF Stored, HttpInv, HttpTypes
<1>2. IsFiniteSet(kept)
  BY <1>1, InstantsFinite
<1>3. /\ WindowStart(i) <= WindowStart(now) /\ WindowStart(now) \in Nat /\ WindowStart(i) \in Nat
  BY <1>1, WindowOrder, WindowBounds
<1>4. ASSUME NEW e \in entries[c], e > WindowStart(now)  PROVE e \in kept
  BY <1>1, <1>3, <1>4, CurrentStored
<1> QED BY <1>1, <1>2, <1>4

\* An admission leaves no more than Limit of the current window stored.
LEMMA AdmittedFits ==
  ASSUME HttpInv, NEW c \in Clients, NEW i \in 0 .. now, NEW kept,
         kept = {t \in Stored(c) : t > WindowStart(i)}, Room(kept)
  PROVE  LET inWindow == {e \in kept \cup {i} : e > WindowStart(now)}
         IN  IsFiniteSet(inWindow) /\ Cardinality(inWindow) <= Limit
<1> DEFINE inWindow == {e \in kept \cup {i} : e > WindowStart(now)}
<1>0. now \in Nat
  BY DEF HttpInv, HttpTypes
<1>1. kept \subseteq entries[c] /\ kept \subseteq 0 .. now /\ IsFiniteSet(kept)
  BY KeptInstants
<1>2. /\ WindowStart(i) <= WindowStart(now) /\ WindowStart(now) \in Nat
      /\ i >= WindowStart(now) => WindowStart(i) = WindowStart(now)
  BY <1>0, WindowOrder, WindowBounds
<1>3. CASE i <= WindowStart(now)
  <2>1. inWindow \subseteq {e \in entries[c] : e > WindowStart(now)}
    BY <1>1, <1>2, <1>3
  <2> HIDE DEF inWindow
  <2>2. inWindow \in SUBSET {e \in entries[c] : e > WindowStart(now)}
    BY <2>1
  <2>3. IsFiniteSet(inWindow) /\ Cardinality(inWindow) <= Limit
    BY <2>2, CurrentFits
  <2> QED BY <2>3 DEF inWindow
<1>4. CASE i > WindowStart(now)
  <2>1. Cardinality(kept) \in Nat /\ Cardinality(kept) < Limit /\ IsFiniteSet(kept \cup {i})
    BY <1>1, OneMore, FS_CardinalityType DEF Room
  <2>2. Cardinality(kept \cup {i}) <= Cardinality(kept) + 1 /\ Cardinality(kept \cup {i}) \in Nat
    BY <1>1, OneMore
  <2>3. IsFiniteSet(inWindow) /\ Cardinality(inWindow) <= Cardinality(kept \cup {i})
    BY <2>1, FS_Subset, inWindow \subseteq kept \cup {i}
  <2>4. Cardinality(inWindow) \in Nat
    BY <2>3, FS_CardinalityType
  <2> QED BY <2>1, <2>2, <2>3, <2>4, HttpServiceAssumption
<1> QED BY <1>0, <1>2, <1>3, <1>4

\* The limiter lets a request in.
LEMMA AdmittedKeeps ==
  ASSUME HttpInv, NEW r \in Requests, Script(r),
         Room({t \in Stored(req[r].from) : t > WindowStart(req[r].read)})
  PROVE  HttpInv'
<1> DEFINE c == req[r].from
           i == req[r].read
           kept == {t \in Stored(c) : t > WindowStart(i)}
           late == WindowStart(now) # WindowStart(i)
           q == [req[r] EXCEPT !.at = "handler", !.admitted = TRUE, !.late = late]
<1>1. /\ req[r].at = "script" /\ UNCHANGED <<main, now, inFlight>>
      /\ entries' = [entries EXCEPT ![c] = kept \cup {i}]
      /\ expires' = [expires EXCEPT ![c] = now + Window]
      /\ req' = [req EXCEPT ![r].at = "handler", ![r].admitted = TRUE, ![r].late = late]
  BY DEF Script
<1>2. /\ c \in Clients /\ i \in 0 .. now /\ now \in Nat /\ late \in BOOLEAN /\ inFlight \in Nat
      /\ Inside(req[r]) /\ ~req[r].panicked
  BY <1>1, RequestIs, GaugeType DEF Sound, RequestType, Inside
<1>3. req' = [req EXCEPT ![r] = q]
  BY <1>1
<1>k. kept = {t \in Stored(c) : t > WindowStart(i)} /\ Room(kept)
  OBVIOUS
<1>7. /\ late <=> WindowStart(now) # WindowStart(i)
  OBVIOUS
<1> HIDE DEF kept, late
<1>5. /\ Room(kept) /\ kept \subseteq entries[c] /\ kept \subseteq 0 .. now
      /\ \A e \in entries[c] : e > WindowStart(now) => e \in kept
  <2>1. c \in Clients /\ i \in 0 .. now
    BY <1>2
  <2> HIDE DEF c, i
  <2> QED BY <1>k, <2>1, KeptInstants
<1>6. LET inWindow == {e \in kept \cup {i} : e > WindowStart(now)}
      IN  IsFiniteSet(inWindow) /\ Cardinality(inWindow) <= Limit
  <2>1. c \in Clients /\ i \in 0 .. now
    BY <1>2
  <2> HIDE DEF c, i
  <2> QED BY <1>k, <2>1, AdmittedFits
<1>q. q = Admission(r, late)
  BY DEF Admission
<1> HIDE DEF q
<1>4. /\ Sound(q) /\ Weight(q) = 1 /\ Weight(req[r]) = 1
      /\ q.late = late /\ q.from = c /\ q.read = i
  <2>1. req[r].at = "script" /\ late \in BOOLEAN
    BY <1>1, <1>2
  <2> QED BY <2>1, <1>q, AdmittedRequest
<1>8. req' \in [Requests -> RequestType] /\ RequestsInv' /\ MainInv' /\ RequestsAccountedFor'
  <2>1. inFlight' = inFlight + Weight(q) - Weight(req[r]) /\ UNCHANGED <<main, now>>
    BY <1>1, <1>2, <1>4
  <2> QED BY <1>2, <1>3, <1>4, <2>1, RequestStep
<1>9. ASSUME NEW d \in Clients, NEW j \in Instants(d, {FALSE})'
      PROVE  j \in Instants(d, {FALSE}) \/ (d = c /\ j = i /\ ~late)
  BY <1>3, <1>4, <1>9, InstantsAfter
<1> HIDE DEF c, i
<1>10. /\ entries \in [Clients -> SUBSET (0 .. now)] /\ expires \in [Clients -> Nat]
       /\ entries'[c] = kept \cup {i} /\ expires'[c] = now + Window
       /\ \A d \in Clients \ {c} : entries'[d] = entries[d] /\ expires'[d] = expires[d]
       /\ now' = now
  BY <1>1, <1>2 DEF HttpInv, HttpTypes
<1>11. HttpTypes'
  BY <1>1, <1>2, <1>5, <1>8, <1>10, HttpServiceAssumption DEF HttpTypes
<1>12. \A t \in Nat : WindowStart(t)' = WindowStart(t)
  BY DEF WindowStart
<1>13. ASSUME NEW d \in Clients, NEW j \in CountedIn(d, now)'
       PROVE  j \in entries'[d] /\ (d = c => j > WindowStart(now))
  <2>1. /\ j \in Instants(d, {FALSE})' /\ WindowStart(j) = WindowStart(now)
        /\ j # WindowStart(now)
    BY <1>10, <1>13 DEF CountedIn, WindowStart
  <2>2. j \in Nat
    BY <1>2, <1>9, <2>1, InstantsFinite
  <2>3. j > WindowStart(now) /\ WindowStart(now) \in Nat
    BY <1>2, <2>1, <2>2, WindowBounds
  <2>4. CASE j \in Instants(d, {FALSE})
    <3>1. j \in entries[d]
      BY <2>1, <2>4 DEF HttpInv, LimiterInv, CountedIn
    <3> QED BY <1>5, <1>10, <2>3, <3>1
  <2>5. CASE d = c /\ j = i
    BY <1>10, <2>3, <2>5
  <2> QED BY <1>9, <2>1, <2>4, <2>5
<1>14. LimiterInv'
  <2> SUFFICES ASSUME NEW d \in Clients
               PROVE  /\ \A e \in entries'[d] : e + Window <= expires'[d]
                      /\ CountedIn(d, now)' \subseteq entries'[d]
                      /\ Cardinality({e \in entries'[d] : e > WindowStart(now)}) <= Limit
    BY <1>10 DEF LimiterInv, WindowStart
  <2>1. CASE d = c
    <3>1. \A e \in entries'[d] : e + Window <= expires'[d]
      <4>1. \A e \in kept \cup {i} : e \in 0 .. now
        BY <1>2, <1>5
      <4>2. \A e \in 0 .. now : e + Window <= now + Window
        BY <1>2, HttpServiceAssumption
      <4> QED BY <1>10, <2>1, <4>1, <4>2
    <3> QED BY <1>6, <1>10, <1>13, <2>1, <3>1
  <2>2. CASE d # c
    BY <1>10, <1>13, <2>2 DEF HttpInv, LimiterInv
  <2> QED BY <2>1, <2>2
<1>15. ASSUME NEW d \in Clients, NEW t \in 0 .. Horizon
       PROVE  Cardinality(CountedIn(d, t)') <= Limit
  <2>1. \A j \in CountedIn(d, t)' :
          /\ j \in Instants(d, {FALSE})' /\ WindowStart(j) = WindowStart(t) /\ j # WindowStart(t)
    BY DEF CountedIn, WindowStart
  <2>2. CASE d = c /\ WindowStart(t) = WindowStart(now)
    <3>1. CountedIn(d, t)' = CountedIn(d, now)'
      BY <1>10, <2>2 DEF CountedIn, WindowStart
    <3>2. CountedIn(d, t)' \subseteq {e \in kept \cup {i} : e > WindowStart(now)}
      BY <1>10, <1>13, <2>2, <3>1
    <3> QED BY <1>6, <3>2, LessThanLimit
  <2>3. CASE ~(d = c /\ WindowStart(t) = WindowStart(now))
    <3>1. \A j \in CountedIn(d, t)' : j \in CountedIn(d, t)
      BY <1>7, <1>9, <2>1, <2>3 DEF CountedIn
    <3>2. IsFiniteSet(CountedIn(d, t)) /\ Cardinality(CountedIn(d, t)) <= Limit
      BY InstantsFinite DEF HttpInv, AdmittedWithinLimit, CountedIn
    <3> QED BY <3>1, <3>2, LessThanLimit
  <2> QED BY <2>2, <2>3
<1>16. AdmittedWithinLimit'
  BY <1>15 DEF AdmittedWithinLimit, CountedIn, WindowStart
<1> QED BY <1>8, <1>11, <1>14, <1>16 DEF HttpInv

\* The clock: a window that begins has nothing stored or counted.
LEMMA ElapseKeeps ==
  ASSUME HttpInv, Elapse  PROVE HttpInv'
<1>1. /\ now \in Nat /\ now' = now + 1 /\ req' = req /\ entries' = entries /\ expires' = expires
      /\ inFlight' = inFlight /\ service' = service /\ phase' = phase /\ booted' = booted
      /\ deferred' = deferred /\ exit' = exit
  BY DEF HttpInv, HttpTypes, Elapse, main, limiter
<1>2. HttpTypes'
  <2>1. \A S \in SUBSET (0 .. now) : S \in SUBSET (0 .. now')
    BY <1>1
  <2>2. entries \in [Clients -> SUBSET (0 .. now')]
    BY <2>1 DEF HttpInv, HttpTypes
  <2> QED BY <1>1, <2>2 DEF HttpInv, HttpTypes
<1>3. RequestsInv'
  BY <1>1 DEF HttpInv, HttpTypes, RequestsInv, RequestType
<1>4. MainInv'
  BY <1>1 DEF HttpInv, MainInv, Opened
<1>5. RequestsAccountedFor'
  BY <1>1 DEF HttpInv, RequestsAccountedFor, DrainedBeforeClosed, GaugeCountsPanics, InProgress,
              Panicked
<1>6. \A c \in Clients : Instants(c, {FALSE})' = Instants(c, {FALSE})
  BY <1>1 DEF Instants
<1>7. AdmittedWithinLimit'
  BY <1>6 DEF HttpInv, AdmittedWithinLimit, WindowStart
<1>8. LimiterInv'
  <2> SUFFICES ASSUME NEW c \in Clients
               PROVE  /\ CountedIn(c, now)' \subseteq entries[c]
                      /\ Cardinality({e \in entries[c] : e > WindowStart(now + 1)}) <= Limit
    BY <1>1 DEF HttpInv, LimiterInv, WindowStart
  <2>1. /\ Instants(c, {FALSE}) \subseteq 0 .. now /\ entries[c] \subseteq 0 .. now
    BY InstantsFinite DEF HttpInv, HttpTypes
  <2>2. /\ WindowStart(now) \in Nat /\ WindowStart(now + 1) \in Nat
        /\ now >= WindowStart(now + 1) => WindowStart(now) = WindowStart(now + 1)
    BY <1>1, WindowBounds, WindowOrder
  <2>3. CASE now >= WindowStart(now + 1)
    <3>1. CountedIn(c, now)' = CountedIn(c, now)
      BY <1>1, <1>6, <2>2, <2>3 DEF CountedIn, WindowStart
    <3> QED BY <2>2, <2>3, <3>1 DEF HttpInv, LimiterInv
  <2>4. CASE now < WindowStart(now + 1)
    <3>1. ASSUME NEW i \in CountedIn(c, now)'  PROVE FALSE
      <4>1. i \in 0 .. now /\ WindowStart(i) = WindowStart(now + 1)
        BY <1>1, <1>6, <2>1, <3>1 DEF CountedIn, WindowStart
      <4>2. WindowStart(i) <= i
        BY <4>1, WindowBounds
      <4> QED BY <1>1, <2>2, <2>4, <4>1, <4>2
    <3>2. {e \in entries[c] : e > WindowStart(now + 1)} = {}
      BY <1>1, <2>1, <2>2, <2>4
    <3>3. Cardinality({e \in entries[c] : e > WindowStart(now + 1)}) = 0
      BY <3>2, FS_EmptySet
    <3> QED BY <3>1, <3>3, HttpServiceAssumption
  <2> QED BY <1>1, <2>2, <2>3, <2>4
<1> QED BY <1>2, <1>3, <1>4, <1>5, <1>7, <1>8 DEF HttpInv

\* A step of main or of the shutdown: the requests are not touched.
LEMMA MainStep ==
  ASSUME HttpInv, UNCHANGED <<now, req, limiter, inFlight>>,
         MainInv', phase' = "boot" => phase = "boot", DrainedBeforeClosed'
  PROVE  HttpInv'
<1>1. now' = now /\ req' = req /\ entries' = entries /\ expires' = expires /\ inFlight' = inFlight
  BY DEF limiter
<1>2. HttpTypes'
  BY <1>1 DEF HttpInv, HttpTypes
<1>3. RequestsInv'
  BY <1>1 DEF HttpInv, RequestsInv
<1>4. RequestsAccountedFor'
  BY <1>1 DEF HttpInv, RequestsAccountedFor, GaugeCountsPanics, InProgress, Panicked
<1>5. \A c \in Clients : Instants(c, {FALSE})' = Instants(c, {FALSE})
  BY <1>1 DEF Instants
<1>6. LimiterInv' /\ AdmittedWithinLimit'
  BY <1>1, <1>5 DEF HttpInv, LimiterInv, AdmittedWithinLimit, CountedIn, WindowStart
<1> QED BY <1>2, <1>3, <1>4, <1>6 DEF HttpInv

\* What comes first on the list of deferred calls is among them.
LEMMA Deferred ==
  ASSUME NEW s \in Seq(Deferrable), NEW x \in Deferrable
  PROVE  LET t == <<x>> \o s
         IN  t \in Seq(Deferrable) /\ {t[i] : i \in DOMAIN t} = {x} \cup {s[i] : i \in DOMAIN s}
<1> DEFINE t == <<x>> \o s
<1>1. /\ t \in Seq(Deferrable) /\ Len(s) \in Nat /\ DOMAIN s = 1 .. Len(s)
      /\ DOMAIN t = 1 .. Len(s) + 1 /\ t[1] = x
      /\ \A i \in 1 .. Len(s) : t[i + 1] = s[i]
  OBVIOUS
<1> HIDE DEF t
<1>2. ASSUME NEW i \in DOMAIN t  PROVE t[i] \in {x} \cup {s[j] : j \in DOMAIN s}
  <2>1. CASE i = 1
    BY <1>1, <2>1
  <2>2. CASE i # 1
    <3>1. i - 1 \in 1 .. Len(s) /\ i = (i - 1) + 1
      BY <1>1, <2>2
    <3>2. t[i] = s[i - 1]
      BY <1>1, <3>1
    <3> QED BY <1>1, <3>1, <3>2
  <2> QED BY <2>1, <2>2
<1>3. ASSUME NEW j \in DOMAIN s  PROVE s[j] \in {t[i] : i \in DOMAIN t}
  <2>1. j + 1 \in DOMAIN t /\ t[j + 1] = s[j]
    BY <1>1
  <2> QED BY <2>1
<1>4. x \in {t[i] : i \in DOMAIN t}
  <2>1. 1 \in DOMAIN t
    BY <1>1
  <2> QED BY <1>1, <2>1
<1> QED BY <1>1, <1>2, <1>3, <1>4 DEF t

\* main starts.
LEMMA LaunchKeeps ==
  ASSUME HttpInv, Launch  PROVE HttpInv'
<1>1. /\ service = "none" /\ service' \in Services /\ phase' = phase /\ booted' = booted
      /\ deferred' = deferred /\ exit' = exit /\ UNCHANGED <<now, req, limiter, inFlight>>
      /\ phase = "boot" /\ booted = 0 /\ deferred = <<>> /\ service' # "none"
      /\ service' \in Known
  BY HttpServiceAssumption DEF Launch, HttpInv, MainInv, Known
<1>2. Len(Main(service')) \in Nat \ {0}
  BY <1>1, MainType
<1>3. MainInv'
  BY <1>1, <1>2 DEF HttpInv, MainInv, Opened
<1>4. DrainedBeforeClosed'
  BY <1>1 DEF DrainedBeforeClosed
<1> QED BY <1>1, <1>3, <1>4, MainStep

\* A step of main: something is opened, and perhaps deferred, or main exits.
LEMMA BootKeeps ==
  ASSUME HttpInv, BootStep  PROVE HttpInv'
<1>1. /\ service \in Services /\ service # "none" /\ phase = "boot" /\ service' = service
      /\ UNCHANGED <<now, req, limiter, inFlight>> /\ deferred \in Seq(Deferrable)
      /\ service \in Known /\ booted \in 0 .. Len(Main(service)) - 1
      /\ {deferred[i] : i \in DOMAIN deferred} = Opened(booted)
  BY HttpServiceAssumption DEF BootStep, HttpInv, MainInv
<1>2. Len(Main(service)) \in Nat \ {0} /\ DOMAIN Main(service) = 1 .. Len(Main(service))
  BY <1>1, MainType
<1>3. CASE Exits(1) /\ UNCHANGED <<booted, deferred>>
  <2>1. MainInv' /\ DrainedBeforeClosed'
    BY <1>1, <1>3 DEF Exits, HttpInv, MainInv, DrainedBeforeClosed
  <2> QED BY <1>1, <1>3, <2>1, MainStep DEF Exits
<1>4. CASE ~(Exits(1) /\ UNCHANGED <<booted, deferred>>)
  <2> DEFINE step == Main(service)[booted + 1]
  <2>1. /\ booted' = booted + 1
        /\ deferred' = IF step \in Deferrable THEN <<step>> \o deferred ELSE deferred
        /\ phase' = IF booted' = Len(Main(service)) THEN "serving" ELSE "boot"
        /\ exit' = exit
    BY <1>4 DEF BootStep
  <2>2. Opened(booted + 1) = IF step \in Deferrable THEN {step} \cup Opened(booted) ELSE Opened(booted)
    BY <1>1, <1>2 DEF Opened
  <2> HIDE DEF step
  <2>3. /\ deferred' \in Seq(Deferrable)
        /\ {deferred'[i] : i \in DOMAIN deferred'} = Opened(booted')
    <3>1. CASE step \in Deferrable
      <4>1. deferred' = <<step>> \o deferred /\ booted' = booted + 1
        BY <2>1, <3>1
      <4>2. LET t == <<step>> \o deferred
            IN  /\ t \in Seq(Deferrable)
                /\ {t[i] : i \in DOMAIN t} = {step} \cup {deferred[i] : i \in DOMAIN deferred}
        BY <1>1, <3>1, Deferred
      <4>3. /\ deferred' \in Seq(Deferrable)
            /\ {deferred'[i] : i \in DOMAIN deferred'}
                 = {step} \cup {deferred[i] : i \in DOMAIN deferred}
        BY <4>1, <4>2
      <4>4. {step} \cup {deferred[i] : i \in DOMAIN deferred} = Opened(booted')
        BY <1>1, <2>2, <3>1, <4>1
      <4> QED BY <4>3, <4>4
    <3>2. CASE step \notin Deferrable
      BY <1>1, <2>1, <2>2, <3>2
    <3> QED BY <3>1, <3>2
  <2>4. MainInv'
    <3>1. /\ phase' \in {"boot", "serving"} /\ service' = service
          /\ phase' = "boot" => booted' \in 0 .. Len(Main(service')) - 1
      <4> DEFINE n == Len(Main(service))
      <4>1. /\ n \in Nat /\ booted \in 0 .. n - 1 /\ booted' = booted + 1
            /\ phase' = IF booted' = n THEN "serving" ELSE "boot"
        BY <1>1, <1>2, <2>1
      <4>2. Len(Main(service')) = n
        BY <1>1
      <4> HIDE DEF n
      <4>3. phase' = "boot" => booted' \in 0 .. n - 1
        BY <4>1
      <4> QED BY <1>1, <4>1, <4>2, <4>3
    <3>2. {deferred'[i] : i \in DOMAIN deferred'} = Opened(booted)'
      BY <2>3, <3>1 DEF Opened
    <3> QED BY <1>1, <2>3, <3>1, <3>2 DEF MainInv
  <2>5. DrainedBeforeClosed'
    BY <1>1, <1>2, <2>1, <2>3 DEF DrainedBeforeClosed, Opened
  <2> QED BY <1>1, <2>1, <2>4, <2>5, MainStep
<1> QED BY <1>3, <1>4

\* The shutdown: a request that is still inside keeps what main opened open.
LEMMA StopKeeps ==
  ASSUME HttpInv, Stop  PROVE HttpInv'
<1>1. /\ DrainedBeforeClosed /\ phase # "boot" /\ UNCHANGED <<service, now, req, limiter, inFlight>>
      /\ InProgress' = InProgress /\ service' = service /\ service # "none"
  BY DEF HttpInv, RequestsAccountedFor, Stop, Signal, ListenFails, Drained, ShutdownTimeout, Close,
         InProgress, MainInv
<1>2. phase' # "boot" /\ phase' \in {"boot", "serving", "draining", "closing", "exited"}
  BY <1>1 DEF Stop, Signal, ListenFails, Drained, ShutdownTimeout, Close, Exits, HttpInv, MainInv
<1>3. deferred' \in Seq(Deferrable)
  <2>1. CASE Close
    BY <2>1 DEF Close, HttpInv, MainInv
  <2>2. CASE Signal \/ ListenFails \/ Drained \/ ShutdownTimeout
    BY <2>2 DEF Signal, ListenFails, Drained, ShutdownTimeout, HttpInv, MainInv
  <2> QED BY <2>1, <2>2 DEF Stop
<1>4. MainInv'
  BY <1>1, <1>2, <1>3 DEF HttpInv, MainInv
<1>5. DrainedBeforeClosed'
  <2>1. CASE Signal
    BY <1>1, <2>1 DEF Signal, DrainedBeforeClosed
  <2>2. CASE ListenFails
    BY <1>1, <2>2 DEF ListenFails, Exits, DrainedBeforeClosed
  <2>3. CASE Drained
    BY <1>1, <2>3 DEF Drained, DrainedBeforeClosed
  <2>4. CASE ShutdownTimeout
    BY <1>1, <2>4 DEF ShutdownTimeout, Exits, DrainedBeforeClosed
  <2>5. CASE Close
    BY <1>1, <2>5 DEF Close, Exits, DrainedBeforeClosed
  <2> QED BY <2>1, <2>2, <2>3, <2>4, <2>5 DEF Stop
<1> QED BY <1>1, <1>2, <1>4, <1>5, MainStep

\* A service that has not been launched.
LEMMA HttpStarts == HttpInit => HttpInv
<1> SUFFICES ASSUME HttpInit  PROVE HttpInv
  OBVIOUS
<1>1. /\ service = "none" /\ phase = "boot" /\ booted = 0 /\ deferred = <<>> /\ exit = 0
      /\ now = 0 /\ req = [r \in Requests |-> Quiet] /\ inFlight = 0
      /\ entries = [c \in Clients |-> {}] /\ expires = [c \in Clients |-> 0]
  BY DEF HttpInit
<1>2. /\ Quiet \in RequestType /\ Quiet.at = "new" /\ ~Quiet.panicked /\ ~Quiet.admitted
      /\ Quiet.read = 0
  BY DEF Quiet, RequestType
<1>3. HttpTypes
  BY <1>1, <1>2 DEF HttpTypes
<1>4. RequestsInv
  BY <1>1, <1>2 DEF RequestsInv
<1>5. MainInv
  BY <1>1 DEF MainInv
<1>6. InProgress = {} /\ Panicked = {} /\ \A c \in Clients : Instants(c, {FALSE}) = {}
  BY <1>1, <1>2 DEF InProgress, Panicked, Instants
<1>7. RequestsAccountedFor
  BY <1>1, <1>6, FS_EmptySet DEF RequestsAccountedFor, DrainedBeforeClosed, GaugeCountsPanics
<1>8. \A c \in Clients, t \in Nat : CountedIn(c, t) = {}
  BY <1>6 DEF CountedIn
<1>9. AdmittedWithinLimit
  BY <1>8, FS_EmptySet, HttpServiceAssumption DEF AdmittedWithinLimit, CountedIn
<1>10. LimiterInv
  <2> SUFFICES ASSUME NEW c \in Clients
               PROVE  /\ \A e \in entries[c] : e + Window <= expires[c]
                      /\ CountedIn(c, now) \subseteq entries[c]
                      /\ Cardinality({e \in entries[c] : e > WindowStart(now)}) <= Limit
    BY DEF LimiterInv
  <2>1. entries[c] = {} /\ {e \in entries[c] : e > WindowStart(now)} = {}
    BY <1>1
  <2> QED BY <1>1, <1>8, <2>1, FS_EmptySet, HttpServiceAssumption
<1> QED BY <1>3, <1>4, <1>5, <1>7, <1>9, <1>10 DEF HttpInv

\* Every step keeps the invariant.
LEMMA HttpKeeps ==
  ASSUME HttpInv, [HttpNext]_httpVars  PROVE HttpInv'
<1>1. CASE Launch
  BY <1>1, LaunchKeeps
<1>2. CASE BootStep
  BY <1>2, BootKeeps
<1>3. CASE Stop
  BY <1>3, StopKeeps
<1>4. CASE Elapse
  BY <1>4, ElapseKeeps
<1>5. ASSUME NEW r \in Requests, Serve(r)  PROVE HttpInv'
  <2>1. CASE Arrive(r)
    BY <2>1, ArriveKeeps
  <2>2. CASE ReadClock(r)
    BY <2>2, ReadClockKeeps
  <2>3. CASE Script(r)
    BY <2>3, AdmittedKeeps, RefusedKeeps
  <2>4. CASE ScriptFails(r)
    BY <2>4, ScriptFailsKeeps
  <2>5. CASE Handle(r)
    BY <2>5, HandleKeeps
  <2>6. CASE Panic(r)
    BY <2>6, PanicKeeps
  <2> QED BY <1>5, <2>1, <2>2, <2>3, <2>4, <2>5, <2>6 DEF Serve, HTTPMiddleware
<1>6. CASE UNCHANGED httpVars
  <2>1. /\ UNCHANGED <<now, req, limiter, inFlight>> /\ service' = service /\ phase' = phase
        /\ booted' = booted /\ deferred' = deferred /\ exit' = exit /\ req' = req
    BY <1>6 DEF httpVars, main
  <2>2. MainInv' /\ DrainedBeforeClosed'
    BY <2>1 DEF HttpInv, MainInv, Opened, RequestsAccountedFor, DrainedBeforeClosed, InProgress
  <2> QED BY <2>1, <2>2, MainStep
<1> QED BY <1>1, <1>2, <1>3, <1>4, <1>5, <1>6 DEF HttpNext

\* The invariant holds of every behaviour.
LEMMA HttpInvariance == HttpSpec => []HttpInv
<1>1. HttpInv /\ [HttpNext]_httpVars => HttpInv'
  BY HttpKeeps
<1> QED BY HttpStarts, <1>1, PTL DEF HttpSpec

\* While Redis answers, the limiter lets no more than Limit requests of a client into a
\* window, apart from those its arithmetic overlooks (the script of checkLimit).
THEOREM LimitIsKept == HttpSpec => []AdmittedWithinLimit
<1>1. HttpInv => AdmittedWithinLimit
  BY DEF HttpInv
<1> QED BY <1>1, HttpInvariance, PTL

\* A service closes what its handlers use when none is left, and its gauge is high by
\* the panics alone (RunHTTP, MetricsMiddleware under Recovery).
THEOREM NoRequestLost == HttpSpec => []RequestsAccountedFor
<1>1. HttpInv => RequestsAccountedFor
  BY DEF HttpInv
<1> QED BY <1>1, HttpInvariance, PTL

-----------------------------------------------------------------------------
(* Ids.                                                                    *)

Id == [second : Nat, worker : Nat, sequence : Nat]
Generator == [last : Nat, sequence : Nat, waits : Nat]

\* Ids in the order IdsInOrder asks for.
InOrder(s) ==
  \A i, j \in DOMAIN s : i < j =>
    /\ s[i].second <= s[j].second
    /\ s[i].second = s[j].second => s[i].sequence < s[j].sequence \/ s[j].sequence = 0

IdsTypes ==
  /\ clock \in Nat \ {0}
  /\ gen \in [Generators -> Generator]
  /\ issued \in [Generators -> Seq(Id)]

\* What a generator keeps is at or past every id it returned; while it waits it keeps
\* the second the wait began in, and otherwise that second's last sequence number.
Ahead(g) ==
  /\ gen[g].sequence < SequenceCount
  /\ gen[g].waits > 0 => gen[g].waits = gen[g].last
  /\ \A i \in DOMAIN issued[g] :
       /\ issued[g][i].second <= gen[g].last
       /\ issued[g][i].second = gen[g].last /\ gen[g].waits = 0 =>
            issued[g][i].sequence <= gen[g].sequence

IdsInvariant == IdsTypes /\ \A g \in Generators : Ahead(g) /\ InOrder(issued[g])

\* A step of g that leaves it with this second, sequence number and wait.
Moves(g, last, kept, waits) ==
  /\ gen' \in [Generators -> Generator]
  /\ gen'[g].last = last /\ gen'[g].sequence = kept /\ gen'[g].waits = waits
  /\ \A h \in Generators \ {g} : gen'[h] = gen[h]
  /\ UNCHANGED clock

\* Such a step that returns an id no earlier one is past.
Returns(g, second, sequence, last, kept) ==
  /\ Moves(g, last, kept, 0) /\ Issue(g, second, sequence)
  /\ kept < SequenceCount /\ second <= last /\ (second = last => sequence <= kept)
  /\ \A i \in DOMAIN issued[g] :
       /\ issued[g][i].second <= second
       /\ issued[g][i].second = second => issued[g][i].sequence < sequence \/ sequence = 0
       /\ issued[g][i].second = last => issued[g][i].sequence <= kept

-----------------------------------------------------------------------------
\* The sequence number counts up and starts again at zero (sequence + 1) & maxSequence.
LEMMA NextSequence ==
  ASSUME NEW k \in Nat, k < SequenceCount
  PROVE  (k + 1) % SequenceCount = IF k + 1 = SequenceCount THEN 0 ELSE k + 1
<1>1. SequenceCount \in Nat \ {0}
  BY IdsAssumption
<1>2. CASE k + 1 = SequenceCount
  BY <1>1, <1>2
<1>3. CASE k + 1 # SequenceCount
  BY <1>1, <1>3
<1> QED BY <1>2, <1>3

\* An id that no earlier one is past keeps the order.
LEMMA AppendKeepsOrder ==
  ASSUME NEW s \in Seq(Id), NEW e \in Id, InOrder(s),
         \A i \in DOMAIN s :
           /\ s[i].second <= e.second
           /\ s[i].second = e.second => s[i].sequence < e.sequence \/ e.sequence = 0
  PROVE  InOrder(Append(s, e))
<1> DEFINE t == Append(s, e)
<1>1. /\ DOMAIN s = 1 .. Len(s) /\ DOMAIN t = 1 .. (Len(s) + 1) /\ Len(s) \in Nat
      /\ \A i \in 1 .. Len(s) : t[i] = s[i]
      /\ t[Len(s) + 1] = e
  OBVIOUS
<1> HIDE DEF t
<1> SUFFICES ASSUME NEW i \in DOMAIN t, NEW j \in DOMAIN t, i < j
             PROVE  /\ t[i].second <= t[j].second
                    /\ t[i].second = t[j].second => t[i].sequence < t[j].sequence \/ t[j].sequence = 0
  BY DEF InOrder, t
<1>2. i \in DOMAIN s /\ t[i] = s[i]
  BY <1>1
<1>3. CASE j = Len(s) + 1
  BY <1>1, <1>2, <1>3
<1>4. CASE j # Len(s) + 1
  <2>1. j \in DOMAIN s /\ t[j] = s[j]
    BY <1>1, <1>4
  <2> QED BY <1>2, <2>1 DEF InOrder
<1> QED BY <1>3, <1>4

\* A generator that returns the next id of its second, or the first of a later one.
LEMMA IssueKeeps ==
  ASSUME IdsInvariant, NEW g \in Generators, NEW second \in Nat, NEW sequence \in Nat,
         NEW last \in Nat, NEW kept \in Nat, Returns(g, second, sequence, last, kept)
  PROVE  IdsInvariant'
<1> USE DEF Returns, Moves
<1> DEFINE e == [second |-> second, worker |-> WorkerOf[g], sequence |-> sequence]
<1>1. e \in Id /\ e.second = second /\ e.sequence = sequence
  BY IdsAssumption DEF Id
<1>2. issued' = [issued EXCEPT ![g] = Append(@, e)]
  BY DEF Issue
<1> HIDE DEF e
<1>3. issued[g] \in Seq(Id) /\ Append(issued[g], e) \in Seq(Id)
  BY <1>1 DEF IdsInvariant, IdsTypes
<1>4. IdsTypes'
  BY <1>2, <1>3 DEF IdsInvariant, IdsTypes, Generator
<1>5. /\ issued'[g] = Append(issued[g], e)
      /\ gen'[g].last = last /\ gen'[g].sequence = kept /\ gen'[g].waits = 0
      /\ \A h \in Generators \ {g} : issued'[h] = issued[h] /\ gen'[h] = gen[h]
  BY <1>2 DEF IdsInvariant, IdsTypes
<1>6. InOrder(issued'[g])
  BY <1>1, <1>3, <1>5, AppendKeepsOrder DEF IdsInvariant
<1>7. Ahead(g)'
  <2>1. ASSUME NEW i \in DOMAIN issued'[g]
        PROVE  /\ issued'[g][i].second <= last
               /\ issued'[g][i].second = last => issued'[g][i].sequence <= kept
    <3>1. CASE i = Len(issued[g]) + 1
      <4>1. issued'[g][i] = e
        BY <1>3, <1>5, <3>1
      <4> QED BY <1>1, <4>1
    <3>2. CASE i # Len(issued[g]) + 1
      <4>1. i \in DOMAIN issued[g] /\ issued'[g][i] = issued[g][i]
        BY <1>3, <1>5, <2>1, <3>2
      <4>2. issued[g][i] \in Id
        BY <1>3, <4>1
      <4> QED BY <4>1, <4>2 DEF Id
    <3> QED BY <3>1, <3>2
  <2> QED BY <1>5, <2>1 DEF Ahead
<1>8. \A h \in Generators \ {g} : Ahead(h)' /\ InOrder(issued'[h])
  BY <1>5 DEF IdsInvariant, Ahead
<1> QED BY <1>4, <1>6, <1>7, <1>8 DEF IdsInvariant

\* The sequence has come round: nothing is returned before the next second begins.
LEMMA WaitKeeps ==
  ASSUME IdsInvariant, NEW g \in Generators, clock = gen[g].last, UNCHANGED issued,
         Moves(g, clock, 0, clock)
  PROVE  IdsInvariant'
<1> USE DEF Moves
<1>1. IdsTypes'
  BY DEF IdsInvariant, IdsTypes
<1>2. Ahead(g)'
  BY IdsAssumption DEF IdsInvariant, IdsTypes, Ahead
<1>3. \A h \in Generators \ {g} : Ahead(h)'
  BY DEF IdsInvariant, Ahead
<1> QED BY <1>1, <1>2, <1>3 DEF IdsInvariant

\* The call of GenerateID that holds the mutex.
LEMMA GenerateKeeps ==
  ASSUME IdsInvariant, NEW g \in Generators, GenerateID(g)  PROVE IdsInvariant'
<1> DEFINE next == (gen[g].sequence + 1) % SequenceCount
<1>1. /\ gen[g] \in Generator /\ gen[g].waits = 0 /\ UNCHANGED clock
      /\ clock \in Nat \ {0} /\ gen[g].last <= clock /\ issued[g] \in Seq(Id) /\ Ahead(g)
      /\ gen[g].last \in Nat /\ gen[g].sequence \in Nat
  BY DEF GenerateID, Backwards, IdsInvariant, IdsTypes, Generator
<1>2. /\ \A i \in DOMAIN issued[g] :
           /\ issued[g][i] \in Id
           /\ issued[g][i].second <= gen[g].last
           /\ issued[g][i].second = gen[g].last => issued[g][i].sequence <= gen[g].sequence
  BY <1>1 DEF Ahead
<1>3. next = IF gen[g].sequence + 1 = SequenceCount THEN 0 ELSE gen[g].sequence + 1
  BY <1>1, NextSequence DEF Ahead
<1>4. CASE clock # gen[g].last
  <2>0. gen' = [gen EXCEPT ![g].last = clock, ![g].sequence = 0] /\ Issue(g, clock, 0)
    BY <1>4 DEF GenerateID
  <2>1. Moves(g, clock, 0, 0)
    <3>1. PICK k : k = [gen[g] EXCEPT !.last = clock]
      OBVIOUS
    <3>2. PICK n : n = [k EXCEPT !.sequence = 0]
      OBVIOUS
    <3>3. gen' = [gen EXCEPT ![g] = n]
      BY <2>0, <3>1, <3>2
    <3>4. k \in Generator /\ k.last = clock /\ k.waits = 0
      BY <1>1, <3>1 DEF Generator
    <3>5. n \in Generator /\ n.last = clock /\ n.sequence = 0 /\ n.waits = 0
      BY <3>2, <3>4 DEF Generator
    <3> QED BY <1>1, <3>3, <3>5 DEF Moves, IdsInvariant, IdsTypes
  <2>2. \A i \in DOMAIN issued[g] : issued[g][i].second < clock
    <3>1. gen[g].last < clock
      BY <1>1, <1>4
    <3>2. TAKE i \in DOMAIN issued[g]
    <3>3. issued[g][i].second \in Nat /\ issued[g][i].second <= gen[g].last
      BY <1>2 DEF Id
    <3> QED BY <1>1, <3>1, <3>3
  <2>3. Returns(g, clock, 0, clock, 0)
    <3>1. 0 < SequenceCount /\ clock <= clock /\ 0 <= 0
      BY <1>1, IdsAssumption
    <3>2. ASSUME NEW i \in DOMAIN issued[g]
          PROVE  issued[g][i].second <= clock /\ issued[g][i].second # clock
      <4>1. issued[g][i].second \in Nat /\ issued[g][i].second < clock
        BY <1>2, <2>2 DEF Id
      <4> QED BY <1>1, <4>1
    <3> QED BY <2>0, <2>1, <3>1, <3>2 DEF Returns
  <2>4. clock \in Nat /\ 0 \in Nat
    BY <1>1
  <2> QED BY <2>3, <2>4, IssueKeeps
<1>5. CASE clock = gen[g].last /\ next = 0
  <2>1. Moves(g, clock, 0, clock) /\ UNCHANGED issued
    BY <1>1, <1>5 DEF GenerateID, Moves, IdsInvariant, IdsTypes, Generator
  <2> QED BY <1>5, <2>1, WaitKeeps
<1>6. CASE clock = gen[g].last /\ next # 0
  <2>1. next = gen[g].sequence + 1 /\ next < SequenceCount /\ next \in Nat
    BY <1>1, <1>3, <1>6, IdsAssumption DEF Ahead
  <2>2. gen' = [gen EXCEPT ![g].sequence = next] /\ Issue(g, clock, next)
    BY <1>6 DEF GenerateID
  <2> HIDE DEF next
  <2>3. Moves(g, clock, next, 0)
    <3>1. PICK n : n = [gen[g] EXCEPT !.sequence = next]
      OBVIOUS
    <3>2. n \in Generator /\ n.last = clock /\ n.sequence = next /\ n.waits = 0
      BY <1>1, <1>6, <2>1, <3>1 DEF Generator
    <3>3. gen' = [gen EXCEPT ![g] = n]
      BY <2>2, <3>1
    <3> QED BY <1>1, <3>2, <3>3 DEF Moves, IdsInvariant, IdsTypes
  <2>4. Returns(g, clock, next, clock, next)
    <3>1. next < SequenceCount /\ clock <= clock /\ next <= next
      BY <1>1, <2>1
    <3>2. ASSUME NEW i \in DOMAIN issued[g]
          PROVE  /\ issued[g][i].second <= clock
                 /\ issued[g][i].second = clock => issued[g][i].sequence < next /\ issued[g][i].sequence <= next
      <4>1. issued[g][i].sequence \in Nat /\ issued[g][i].second <= clock
        BY <1>2, <1>6 DEF Id
      <4>2. issued[g][i].second = clock => issued[g][i].sequence <= gen[g].sequence
        BY <1>2, <1>6
      <4> QED BY <1>1, <2>1, <4>1, <4>2
    <3> QED BY <2>2, <2>3, <3>1, <3>2 DEF Returns
  <2> QED BY <1>1, <2>1, <2>4, IssueKeeps
<1> QED BY <1>4, <1>5, <1>6

\* The end of a wait returns the first id of the second it began in.
LEMMA WaitEndKeeps ==
  ASSUME IdsInvariant, NEW g \in Generators, waitNextSecond(g)  PROVE IdsInvariant'
<1>1. /\ gen[g] \in Generator /\ clock \in Nat \ {0} /\ issued[g] \in Seq(Id) /\ Ahead(g)
      /\ gen[g].last \in Nat /\ gen[g].waits \in Nat /\ gen[g].sequence \in Nat
      /\ UNCHANGED clock /\ gen[g].waits = gen[g].last /\ gen[g].last < clock
      /\ Issue(g, gen[g].waits, 0)
  BY DEF waitNextSecond, IdsInvariant, IdsTypes, Generator, Ahead
<1>2. Moves(g, clock, gen[g].sequence, 0)
  BY <1>1 DEF waitNextSecond, Moves, IdsInvariant, IdsTypes, Generator
<1>3. \A i \in DOMAIN issued[g] :
        /\ issued[g][i].second \in Nat /\ issued[g][i].second <= gen[g].last
  <2>1. \A i \in DOMAIN issued[g] : issued[g][i] \in Id
    BY <1>1
  <2> QED BY <1>1, <2>1 DEF Ahead, Id
<1>4. Returns(g, gen[g].waits, 0, clock, gen[g].sequence)
  BY <1>1, <1>2, <1>3 DEF Returns, Ahead
<1> QED BY <1>1, <1>4, IssueKeeps

-----------------------------------------------------------------------------
\* A generator's ids never go back, whatever the clock does and however many waits
\* it takes (GenerateID, waitNextSecond).
THEOREM IdsStayInOrder == IdsSpec => []IdsInOrder
<1>1. IdsInit => IdsInvariant
  <2> SUFFICES ASSUME IdsInit  PROVE IdsInvariant
    OBVIOUS
  <2>1. IdsTypes
    BY DEF IdsInit, IdsTypes, Generator
  <2>2. ASSUME NEW g \in Generators  PROVE Ahead(g) /\ InOrder(issued[g])
    <3>1. issued[g] = <<>> /\ gen[g].sequence = 0 /\ gen[g].waits = 0 /\ DOMAIN issued[g] = {}
      BY DEF IdsInit
    <3> QED BY <3>1, IdsAssumption DEF Ahead, InOrder
  <2> QED BY <2>1, <2>2 DEF IdsInvariant
<1>2. IdsInvariant /\ [IdsNext]_idsVars => IdsInvariant'
  <2> SUFFICES ASSUME IdsInvariant, [IdsNext]_idsVars  PROVE IdsInvariant'
    OBVIOUS
  <2>1. CASE SetClock
    BY <2>1 DEF SetClock, IdsInvariant, IdsTypes, Ahead
  <2>2. ASSUME NEW g \in Generators, GenerateID(g)  PROVE IdsInvariant'
    BY <2>2, GenerateKeeps
  <2>3. ASSUME NEW g \in Generators, waitNextSecond(g)  PROVE IdsInvariant'
    BY <2>3, WaitEndKeeps
  <2>4. CASE UNCHANGED idsVars
    BY <2>4 DEF idsVars, IdsInvariant, IdsTypes, Ahead
  <2> QED BY <2>1, <2>2, <2>3, <2>4 DEF IdsNext
<1>3. IdsInvariant => IdsInOrder
  BY DEF IdsInvariant, IdsInOrder, InOrder
<1> QED BY <1>1, <1>2, <1>3, PTL DEF IdsSpec

-----------------------------------------------------------------------------
(* Leads.                                                                  *)

Answers == {"new", "bad", "conflict", "insert", "exists", "free", "created", "failed"}
AnyNumber == Numbers \cup {NoCall.number}

LeadsTypes ==
  /\ leads \subseteq AnyNumber
  /\ call \in [Callers -> [at : Answers, number : AnyNumber, before : SUBSET Callers]]
  /\ \A c \in Callers : call[c].at \in {"insert", "created"} => call[c].number \in Numbers

\* Accepted requests have their rows, no two of them the same one.
RowsOfTheAccepted ==
  /\ \A c \in Accepted : call[c].number \in leads
  /\ \A c, d \in Accepted : c # d => call[c].number # call[d].number

\* Who was told that a number is there still finds it.
ToldTrue == \A c \in Callers : call[c].at = "exists" => phoneExists(call[c].number)

\* A request past its check found none of the numbers accepted before it among the
\* forms of its own.
CheckedAgainst ==
  \A d \in Callers : call[d].at \in {"insert", "created"} =>
    \A c \in call[d].before : c \in Accepted /\ call[c].number \notin phoneVariants(call[d].number)

LeadsInvariant == LeadsTypes /\ RowsOfTheAccepted /\ ToldTrue /\ CheckedAgainst

-----------------------------------------------------------------------------
\* Both forms of an 11-digit phone are looked for whichever one is sent (phoneVariants).
LEMMA BothForms ==
  ASSUME NEW n \in Numbers, NEW o \in Numbers, n.phone = o.phone, Digits[n.phone] = 11
  PROVE  n \in phoneVariants(o)
<1>1. n = [phone |-> n.phone, intl |-> n.intl] /\ o = [phone |-> o.phone, intl |-> o.intl]
      /\ n.intl \in BOOLEAN /\ o.intl \in BOOLEAN
  BY DEF Numbers
<1>2. n = o \/ n = Other(o)
  <2>1. Other(o) = [phone |-> o.phone, intl |-> ~o.intl]
    BY <1>1 DEF Other
  <2> QED BY <1>1, <2>1
<1>3. (o.intl /\ Length(o) > 12) \/ (~o.intl /\ Length(o) \in 10 .. 11)
  BY <1>1 DEF Length
<1> QED BY <1>2, <1>3 DEF phoneVariants

\* The invariant says what the property says.
LEMMA InvariantSuffices ==
  ASSUME LeadsInvariant  PROVE TwiceOnlyTogether
<1> USE DEF LeadsInvariant
<1>1. \A c \in Accepted : call[c].number \in leads
  BY DEF RowsOfTheAccepted
<1>2. \A c \in Callers : call[c].at = "exists" => phoneExists(call[c].number)
  BY DEF ToldTrue
<1>3. ASSUME NEW c \in Accepted, NEW d \in Accepted, c # d,
             call[c].number.phone = call[d].number.phone, Digits[call[c].number.phone] = 11
      PROVE  call[c].number # call[d].number /\ c \notin call[d].before /\ d \notin call[c].before
  <2>1. call[c].number \in Numbers /\ call[d].number \in Numbers
    BY DEF LeadsTypes, Accepted
  <2>2. /\ call[c].number \in phoneVariants(call[d].number)
        /\ call[d].number \in phoneVariants(call[c].number)
    BY <1>3, <2>1, BothForms
  <2>3. call[c].number # call[d].number
    BY <1>3 DEF RowsOfTheAccepted
  <2> QED BY <2>2, <2>3 DEF CheckedAgainst, Accepted
<1> QED BY <1>1, <1>2, <1>3 DEF TwiceOnlyTogether

\* A request that ends without a row, or only asks, changes none of it (AskPhone,
\* a refusal and a failure of the database).
LEMMA EndsKeeps ==
  ASSUME LeadsInvariant, NEW c \in Callers, call[c].at # "created", UNCHANGED leads,
         NEW p \in Answers \ {"new", "exists", "insert", "created"},
         NEW n \in AnyNumber, NEW b \in SUBSET Callers,
         call' = [call EXCEPT ![c] = [at |-> p, number |-> n, before |-> b]]
  PROVE  LeadsInvariant'
<1> USE DEF LeadsInvariant
<1>1. LeadsTypes'
  BY DEF LeadsTypes
<1>2. /\ call'[c] = [at |-> p, number |-> n, before |-> b]
      /\ \A d \in Callers \ {c} : call'[d] = call[d]
  BY DEF LeadsTypes
<1>3. Accepted' = Accepted /\ c \notin Accepted
  BY <1>2 DEF Accepted
<1>4. RowsOfTheAccepted'
  BY <1>2, <1>3 DEF RowsOfTheAccepted, Accepted
<1>5. ToldTrue'
  BY <1>2 DEF ToldTrue, phoneExists
<1>6. CheckedAgainst'
  BY <1>2, <1>3 DEF CheckedAgainst
<1> QED BY <1>1, <1>4, <1>5, <1>6

\* A refused number, a free one and a failure end the request.
LEMMA EndsAtKeeps ==
  ASSUME LeadsInvariant, NEW c \in Callers, call[c].at # "created", UNCHANGED leads,
         NEW p \in Answers \ {"new", "exists", "insert", "created"}, Ends(c, p)
  PROVE  LeadsInvariant'
<1>1. call[c] \in [at : Answers, number : AnyNumber, before : SUBSET Callers]
  BY DEF LeadsInvariant, LeadsTypes
<1>2. call' = [call EXCEPT ![c] = [at |-> p, number |-> call[c].number, before |-> call[c].before]]
  <2>1. [call[c] EXCEPT !.at = p] = [at |-> p, number |-> call[c].number, before |-> call[c].before]
    BY <1>1
  <2> QED BY <2>1 DEF Ends
<1> QED BY <1>1, <1>2, EndsKeeps

\* A request that was told the number is there saw a row of it (AskPhone).
LEMMA ToldKeeps ==
  ASSUME LeadsInvariant, NEW c \in Callers, call[c].at = "new", UNCHANGED leads,
         NEW n \in Numbers, phoneExists(n),
         call' = [call EXCEPT ![c] = [at |-> "exists", number |-> n, before |-> {}]]
  PROVE  LeadsInvariant'
<1> USE DEF LeadsInvariant
<1>1. LeadsTypes'
  BY DEF LeadsTypes, Answers, AnyNumber
<1>2. /\ call'[c] = [at |-> "exists", number |-> n, before |-> {}]
      /\ \A d \in Callers \ {c} : call'[d] = call[d]
  BY DEF LeadsTypes
<1>3. Accepted' = Accepted /\ c \notin Accepted
  BY <1>2 DEF Accepted
<1>4. RowsOfTheAccepted'
  BY <1>2, <1>3 DEF RowsOfTheAccepted, Accepted
<1>5. ToldTrue'
  BY <1>2 DEF ToldTrue, phoneExists
<1>6. CheckedAgainst'
  BY <1>2, <1>3 DEF CheckedAgainst
<1> QED BY <1>1, <1>4, <1>5, <1>6

\* A request that passes its check found no form of its number among the rows, those
\* of the accepted requests included (CheckPhone).
LEMMA PassKeeps ==
  ASSUME LeadsInvariant, NEW c \in Callers, call[c].at = "new", UNCHANGED leads,
         NEW n \in Numbers, ~phoneExists(n),
         call' = [call EXCEPT ![c] = [at |-> "insert", number |-> n, before |-> Accepted]]
  PROVE  LeadsInvariant'
<1> USE DEF LeadsInvariant
<1>0. Accepted \in SUBSET Callers
  BY DEF Accepted
<1>1. LeadsTypes'
  BY <1>0 DEF LeadsTypes, Answers, AnyNumber
<1>2. /\ call'[c] = [at |-> "insert", number |-> n, before |-> Accepted]
      /\ \A d \in Callers \ {c} : call'[d] = call[d]
  BY DEF LeadsTypes
<1>3. Accepted' = Accepted /\ c \notin Accepted
  BY <1>2 DEF Accepted
<1>4. RowsOfTheAccepted'
  BY <1>2, <1>3 DEF RowsOfTheAccepted, Accepted
<1>5. ToldTrue'
  BY <1>2 DEF ToldTrue, phoneExists
<1>6. CheckedAgainst'
  <2> SUFFICES ASSUME NEW d \in Callers, call'[d].at \in {"insert", "created"}, NEW e \in call'[d].before
               PROVE  e \in Accepted' /\ call'[e].number \notin phoneVariants(call'[d].number)
    BY DEF CheckedAgainst
  <2>1. CASE d = c
    <3>1. e \in Accepted /\ call'[e] = call[e]
      BY <1>2, <1>3, <2>1 DEF Accepted
    <3>2. call[e].number \in leads
      BY <3>1 DEF RowsOfTheAccepted
    <3>3. call[e].number \notin phoneVariants(n)
      BY <3>2 DEF phoneExists
    <3> QED BY <1>2, <1>3, <2>1, <3>1, <3>3
  <2>2. CASE d # c
    BY <1>2, <1>3, <2>2 DEF CheckedAgainst
  <2> QED BY <2>1, <2>2
<1> QED BY <1>1, <1>4, <1>5, <1>6

\* The unique index lets in a number no row has (InsertLead, 23505).
LEMMA InsertKeeps ==
  ASSUME LeadsInvariant, NEW c \in Callers, InsertLead(c)
  PROVE  LeadsInvariant'
<1> USE DEF LeadsInvariant
<1>1. CASE call[c].number \in leads
  BY <1>1, EndsAtKeeps DEF InsertLead, Answers
<1>2. CASE call[c].number \notin leads
  <2>1. /\ call[c].at = "insert" /\ leads' = leads \cup {call[c].number}
        /\ call' = [call EXCEPT ![c].at = "created"]
    BY <1>2 DEF InsertLead, Ends
  <2>2. /\ call'[c] = [call[c] EXCEPT !.at = "created"]
        /\ call'[c].at = "created" /\ call'[c].number = call[c].number
        /\ call'[c].before = call[c].before
        /\ \A d \in Callers \ {c} : call'[d] = call[d]
    BY <2>1 DEF LeadsTypes
  <2>3. Accepted' = Accepted \cup {c} /\ c \notin Accepted
    BY <2>1, <2>2 DEF Accepted
  <2>4. LeadsTypes'
    BY <2>1, <2>2 DEF LeadsTypes, Answers
  <2>5. RowsOfTheAccepted'
    BY <1>2, <2>1, <2>2, <2>3 DEF RowsOfTheAccepted, Accepted
  <2>6. ToldTrue'
    BY <2>1, <2>2 DEF ToldTrue, phoneExists
  <2>7. CheckedAgainst'
    BY <2>1, <2>2, <2>3 DEF CheckedAgainst, Accepted
  <2> QED BY <2>4, <2>5, <2>6, <2>7
<1> QED BY <1>1, <1>2

-----------------------------------------------------------------------------
\* However requests interleave, an 11-digit phone has two leads only when each was
\* checked before the other was saved (phoneExists, then INSERT).
THEOREM TwiceOnlyWhenTogether == LeadsSpec => []TwiceOnlyTogether
<1>1. LeadsInit => LeadsInvariant
  <2> SUFFICES ASSUME LeadsInit  PROVE LeadsInvariant
    OBVIOUS
  <2>1. leads = {} /\ call = [c \in Callers |-> NoCall]
    BY DEF LeadsInit
  <2>2. NoCall \in [at : Answers, number : AnyNumber, before : SUBSET Callers] /\ NoCall.at = "new"
    BY DEF NoCall, Answers, AnyNumber
  <2>3. Accepted = {}
    BY <2>1, <2>2 DEF Accepted
  <2>4. LeadsTypes
    BY <2>1, <2>2 DEF LeadsTypes
  <2>5. RowsOfTheAccepted /\ ToldTrue /\ CheckedAgainst
    BY <2>1, <2>2, <2>3 DEF RowsOfTheAccepted, ToldTrue, CheckedAgainst
  <2> QED BY <2>4, <2>5 DEF LeadsInvariant
<1>2. LeadsInvariant /\ [LeadsNext]_leadsVars => LeadsInvariant'
  <2> SUFFICES ASSUME LeadsInvariant, [LeadsNext]_leadsVars  PROVE LeadsInvariant'
    OBVIOUS
  <2>1. ASSUME NEW c \in Callers, AskPhone(c)  PROVE LeadsInvariant'
    <3>1. PICK n \in Numbers :
            call' = [call EXCEPT ![c] = [number |-> n, before |-> {},
              at |-> IF Length(n) < 10 THEN "bad" ELSE IF phoneExists(n) THEN "exists" ELSE "free"]]
      BY <2>1 DEF AskPhone
    <3> DEFINE p == IF Length(n) < 10 THEN "bad" ELSE IF phoneExists(n) THEN "exists" ELSE "free"
    <3>2. call' = [call EXCEPT ![c] = [at |-> p, number |-> n, before |-> {}]]
      BY <3>1
    <3> HIDE DEF p
    <3>3. call[c].at = "new" /\ UNCHANGED leads /\ n \in AnyNumber
      BY <2>1 DEF AskPhone, AnyNumber
    <3>4. CASE p = "exists"
      <4>1. phoneExists(n)
        BY <3>4 DEF p
      <4> QED BY <3>2, <3>3, <3>4, <4>1, ToldKeeps
    <3>5. CASE p # "exists"
      <4>1. p \in Answers \ {"new", "exists", "insert", "created"}
        BY <3>5 DEF Answers, p
      <4>2. {} \in SUBSET Callers /\ call[c].at # "created"
        BY <3>3
      <4> QED BY <3>2, <3>3, <4>1, <4>2, EndsKeeps
    <3> QED BY <3>4, <3>5
  <2>2. ASSUME NEW c \in Callers, CheckPhone(c)  PROVE LeadsInvariant'
    <3>1. PICK n \in Numbers :
            call' = [call EXCEPT ![c] = [number |-> n, before |-> Accepted,
              at |-> IF Length(n) < 10 THEN "bad" ELSE IF phoneExists(n) THEN "conflict" ELSE "insert"]]
      BY <2>2 DEF CheckPhone
    <3> DEFINE p == IF Length(n) < 10 THEN "bad" ELSE IF phoneExists(n) THEN "conflict" ELSE "insert"
    <3>3. /\ call[c].at = "new" /\ UNCHANGED leads /\ n \in AnyNumber
          /\ Accepted \in SUBSET Callers
      BY <2>2 DEF CheckPhone, AnyNumber, Accepted
    <3>4. CASE p = "insert"
      <4>1. ~phoneExists(n)
        BY <3>4
      <4> QED BY <3>1, <3>3, <3>4, <4>1, PassKeeps
    <3>5. CASE p # "insert"
      <4>1. p \in Answers \ {"new", "exists", "insert", "created"}
        BY <3>5 DEF Answers
      <4>2. call' = [call EXCEPT ![c] = [at |-> p, number |-> n, before |-> Accepted]]
        BY <3>1
      <4> HIDE DEF p
      <4> QED BY <3>3, <4>1, <4>2, EndsKeeps
    <3> QED BY <3>4, <3>5
  <2>3. ASSUME NEW c \in Callers, InsertLead(c)  PROVE LeadsInvariant'
    BY <2>3, InsertKeeps
  <2>4. ASSUME NEW c \in Callers, DatabaseFails(c)  PROVE LeadsInvariant'
    BY <2>4, EndsAtKeeps DEF DatabaseFails, Answers
  <2>5. CASE UNCHANGED leadsVars
    BY <2>5 DEF leadsVars, LeadsInvariant, LeadsTypes, RowsOfTheAccepted, ToldTrue, CheckedAgainst,
                Accepted, phoneExists
  <2> QED BY <2>1, <2>2, <2>3, <2>4, <2>5 DEF LeadsNext
<1>3. LeadsInvariant => TwiceOnlyTogether
  BY InvariantSuffices
<1> QED BY <1>1, <1>2, <1>3, PTL DEF LeadsSpec

-----------------------------------------------------------------------------
(* CrashEngine: values.                                                    *)

\* The smaller and the larger of two numbers.
LEMMA Extremes ==
  ASSUME NEW a \in Int, NEW b \in Int
  PROVE  Min({a, b}) \in Int /\ Max({a, b}) \in Int
<1> DEFINE lo == IF a <= b THEN a ELSE b
           hi == IF a <= b THEN b ELSE a
<1>1. \E x \in {a, b} : \A y \in {a, b} : x <= y
  <2>1. lo \in {a, b} /\ \A y \in {a, b} : lo <= y
    OBVIOUS
  <2> QED BY <2>1
<1>2. \E x \in {a, b} : \A y \in {a, b} : x >= y
  <2>1. hi \in {a, b} /\ \A y \in {a, b} : hi >= y
    OBVIOUS
  <2> QED BY <2>1
<1>3. Min({a, b}) \in {a, b}
  BY <1>1 DEF Min
<1>4. Max({a, b}) \in {a, b}
  BY <1>2 DEF Max
<1> QED BY <1>3, <1>4

\* A crash point is a number, whatever the MAC gives (CalculateCrashPoint).
LEMMA CrashPointType ==
  ASSUME NEW d \in Draws  PROVE CrashPoint(d[1], d[2]) \in Int
<1>1. d[1] \in Nat /\ d[2] \in Nat /\ Modulus \in Nat
  BY CrashEngineAssumption
<1>2. CASE d[2] = 0 \/ d[1] < HouseEdgePercent
  BY <1>1, <1>2 DEF CrashPoint, MaxCrash, HouseEdgePercent
<1>3. CASE d[2] # 0 /\ ~(d[1] < HouseEdgePercent)
  <2> DEFINE x == (Modulus * 100) \div d[2]
  <2>1. x \in Int
    <3>1. Modulus * 100 \in Int
      BY <1>1
    <3> QED BY <1>1, <1>3, <3>1
  <2>2. CrashPoint(d[1], d[2]) = Min({MaxCrash, Max({100, x})})
    BY <1>3 DEF CrashPoint
  <2> HIDE DEF x
  <2>3. Max({100, x}) \in Int
    BY <2>1, Extremes
  <2> QED BY <2>2, <2>3, Extremes DEF MaxCrash
<1> QED BY <1>2, <1>3

\* The kinds of requests are told apart.
LEMMA Kinds ==
  /\ \A b \in Bets : b \in EngineRequests /\ b \notin Cashouts /\ b \notin Starters
  /\ \A c \in Cashouts : c \in EngineRequests /\ c \notin Starters /\ Wanted[c] \in Bets
  /\ \A s \in Starters : s \in EngineRequests
BY CrashEngineAssumption DEF EngineRequests

\* The first element of a channel and what is left when it is taken.
LEMMA Taken ==
  ASSUME NEW S, NEW q \in Seq(S), q # <<>>
  PROVE  /\ Head(q) \in S /\ Head(q) = q[1] /\ Tail(q) \in Seq(S) /\ 1 \in DOMAIN q
         /\ \A i \in DOMAIN Tail(q) : i + 1 \in DOMAIN q /\ Tail(q)[i] = q[i + 1] /\ i \in Nat \ {0}
<1>1. Len(q) \in Nat \ {0} /\ DOMAIN q = 1 .. Len(q)
  OBVIOUS
<1>2. /\ Tail(q) \in Seq(S) /\ Len(Tail(q)) = Len(q) - 1
      /\ \A i \in 1 .. Len(q) - 1 : Tail(q)[i] = q[i + 1]
  BY <1>1
<1>3. DOMAIN Tail(q) = 1 .. Len(q) - 1
  BY <1>2
<1> QED BY <1>1, <1>2, <1>3

-----------------------------------------------------------------------------
(* Money.                                                                  *)

\* The bets of a player in the table.
MineIn(rows, u) == {b \in Bets : rows[b].status # "NONE" /\ UserOf[b] = u}

\* Amounts are numbers, of finitely many bets.
LEMMA StakeSums ==
  ASSUME NEW rows, NEW u
  PROVE  /\ IsFiniteSet(MineIn(rows, u)) /\ IsIntOn(Amount, MineIn(rows, u))
         /\ Sum(Amount, MineIn(rows, u)) \in Int
         /\ SumFunction([b \in MineIn(rows, u) |-> Amount[b]]) = Sum(Amount, MineIn(rows, u))
<1> DEFINE S == MineIn(rows, u)
           f == [b \in S |-> Amount[b]]
<1>1. IsFiniteSet(S)
  BY FS_Subset, CrashEngineAssumption DEF MineIn
<1>2. \A b \in S : Amount[b] \in Nat
  BY CrashEngineAssumption DEF MineIn
<1>3. IsIntOn(Amount, S)
  BY <1>2 DEF IsIntOn
<1>4. SumFunction(f) = Sum(f, S) /\ \A b \in S : f[b] = Amount[b]
  BY DEF SumFunction, Sum
<1> HIDE DEF f
<1>5. Sum(f, S) = Sum(Amount, S)
  BY <1>1, <1>3, <1>4, SumCongruence
<1> QED BY <1>1, <1>3, <1>4, <1>5, SumType DEF f

\* Nothing is credited: no bet has an automatic cash-out (handlePlaceBet).
LEMMA NoCredits ==
  ASSUME NEW rows \in [Bets -> BetRow], NEW u
  PROVE  SumFunction([b \in MineIn(rows, u) |-> IF rows[b].auto # 0 THEN rows[b].payout ELSE 0]) = 0
<1> DEFINE S == MineIn(rows, u)
           f == [b \in S |-> IF rows[b].auto # 0 THEN rows[b].payout ELSE 0]
<1>1. IsFiniteSet(S)
  BY StakeSums
<1>2. \A b \in S : f[b] = 0
  BY DEF MineIn, BetRow
<1>3. SumFunction(f) = Sum(f, S)
  BY DEF SumFunction, Sum
<1> HIDE DEF f, S
<1> QED BY <1>1, <1>2, <1>3, SumZero DEF f, S

\* Wallets and answers, as StakesTaken has them.
Balanced(rows, money) ==
  \A u \in Users : money[u] >= 0 /\ money[u] = Opening[u] - Sum(Amount, MineIn(rows, u))
Truthful(rows, told) ==
  \A b \in Bets : /\ told[b] = "ok" => rows[b].status # "NONE"
                  /\ told[b] = "refused" => rows[b].status = "NONE"

\* They are what the property is about, before a step and after it.
LEMMA StakesTakenNow ==
  ASSUME bets \in [Bets -> BetRow], balance \in [Users -> Int]
  PROVE  StakesTaken <=> Balanced(bets, balance) /\ Truthful(bets, reply)
<1>1. ASSUME NEW u \in Users
      PROVE  Opening[u] - StakesOf(u) + CreditsOf(u) = Opening[u] - Sum(Amount, MineIn(bets, u))
  <2>1. BetsOf(u) = MineIn(bets, u)
    BY DEF MineIn, BetsOf, Placed
  <2>2. StakesOf(u) = Sum(Amount, MineIn(bets, u))
    BY <2>1, StakeSums DEF StakesOf
  <2>3. CreditsOf(u) = 0
    BY <2>1, NoCredits DEF CreditsOf, Credited
  <2>4. Opening[u] \in Nat /\ Sum(Amount, MineIn(bets, u)) \in Int
    BY StakeSums, CrashEngineAssumption
  <2> QED BY <2>2, <2>3, <2>4
<1> QED BY <1>1 DEF StakesTaken, Balanced, Truthful, Placed

LEMMA StakesTakenNext ==
  ASSUME bets' \in [Bets -> BetRow], balance' \in [Users -> Int]
  PROVE  StakesTaken' <=> Balanced(bets', balance') /\ Truthful(bets', reply')
<1>1. ASSUME NEW u \in Users
      PROVE  Opening[u] - StakesOf(u)' + CreditsOf(u)' = Opening[u] - Sum(Amount, MineIn(bets', u))
  <2>1. BetsOf(u)' = MineIn(bets', u)
    BY DEF MineIn, BetsOf, Placed
  <2>2. StakesOf(u)' = Sum(Amount, MineIn(bets', u))
    BY <2>1, StakeSums DEF StakesOf
  <2>3. CreditsOf(u)' = 0
    BY <2>1, NoCredits DEF CreditsOf, Credited
  <2>4. Opening[u] \in Nat /\ Sum(Amount, MineIn(bets', u)) \in Int
    BY StakeSums, CrashEngineAssumption
  <2> QED BY <2>2, <2>3, <2>4
<1> QED BY <1>1 DEF StakesTaken, Balanced, Truthful, Placed

-----------------------------------------------------------------------------
(* Types, action by action.                                                *)

\* Where a goroutine is, and what it read, may change; so may a game's status and clock.
LEMMA Moved ==
  ASSUME NEW k \in Goroutine, NEW at \in Places
  PROVE  /\ [k EXCEPT !.at = at] \in Goroutine
         /\ [k EXCEPT !.at = at].at = at /\ [k EXCEPT !.at = at].req = k.req
BY DEF Goroutine

LEMMA Read ==
  ASSUME NEW k \in Goroutine, NEW o \in Int, NEW g \in Procs
  PROVE  /\ [k EXCEPT !.odds = o] \in Goroutine /\ [k EXCEPT !.game = g] \in Goroutine
         /\ [k EXCEPT !.odds = o].at = k.at /\ [k EXCEPT !.game = g].at = k.at
         /\ [k EXCEPT !.odds = o].req = k.req
BY DEF Goroutine

LEMMA GameMoved ==
  ASSUME NEW k \in Game, NEW s \in GameStatuses, NEW n \in Nat
  PROVE  /\ [k EXCEPT !.status = s] \in Game /\ [k EXCEPT !.row = s] \in Game
         /\ [k EXCEPT !.age = n] \in Game
BY DEF Game

\* A goroutine that moves on, and one that answers.
LEMMA GotoType ==
  ASSUME EngineTypes, NEW p \in Procs, NEW at \in Places, Goto(p, at)
  PROVE  /\ proc' \in [Procs -> Goroutine]
         /\ proc'[p].at = at /\ \A r \in Procs \ {p} : proc'[r] = proc[r]
<1> DEFINE o == IF p = 0 THEN 0 ELSE proc[p].odds
           k == [Idle EXCEPT !.at = at]
           g == [k EXCEPT !.odds = o]
<1>1. o \in Int
  BY DEF EngineTypes, Goroutine
<1>2. 0 \in Procs /\ Idle \in Goroutine
  BY CrashEngineAssumption DEF Idle, Goroutine, Procs, Places
<1>3. proc' = [proc EXCEPT ![p] = g]
  BY DEF Goto
<1> HIDE DEF o
<1>4. k \in Goroutine /\ k.at = at
  BY <1>2 DEF Goroutine
<1> HIDE DEF k
<1>5. g \in Goroutine /\ g.at = at
  BY <1>1, <1>4 DEF Goroutine
<1> HIDE DEF g
<1> QED BY <1>3, <1>5 DEF EngineTypes

LEMMA AnswerType ==
  ASSUME EngineTypes, NEW r \in EngineRequests,
         \/ Answer(r, "ok") \/ Answer(r, "refused") \/ Answer(r, "timeout") \/ Answer(r, "failed")
  PROVE  /\ reply' \in [EngineRequests -> Replies]
         /\ \A x \in EngineRequests \ {r} : reply'[x] = reply[x]
         /\ reply[r] # "waiting" => reply'[r] = reply[r]
         /\ reply[r] = "waiting" /\ Answer(r, "ok") => reply'[r] = "ok"
         /\ reply[r] = "waiting" /\ Answer(r, "refused") => reply'[r] = "refused"
         /\ reply[r] = "waiting" /\ Answer(r, "timeout") => reply'[r] = "timeout"
         /\ reply[r] = "waiting" /\ Answer(r, "failed") => reply'[r] = "failed"
BY DEF EngineTypes, Answer, Replies

\* Odds are numbers.
LEMMA OddsType ==
  ASSUME EngineTypes, NEW g \in Procs, g # 0
  PROVE  g \in Rounds /\ games[g] \in Game /\ Odds(g) \in Int
<1>1. g \in Rounds
  BY CrashEngineAssumption DEF Procs, Rounds
<1>2. games[g] \in Game
  BY <1>1 DEF EngineTypes
<1>3. games[g].age \in Nat
  BY <1>2 DEF Game
<1> QED BY <1>1, <1>2, <1>3 DEF Odds

\* What is not about bets, money and channels: a step of the loops, of the manager on
\* its game, or of the clock.
Bystanders == UNCHANGED <<betChan, cashChan, bets, balance, reply>>
Hands == proc'[0] = proc[0] \/ proc'[0].at \notin {"bet", "odds", "cash"}

LEMMA StartType ==
  ASSUME EngineTypes, TakesStart
  PROVE  Bystanders /\ EngineTypes' /\ (proc'[0] = proc[0])
<1>1. /\ round' = round + 1 /\ round < MaxRounds /\ Bystanders
  BY DEF TakesStart, Bystanders, store
<1>2. round' \in Procs /\ round' \in Rounds /\ round' # 0
  BY <1>1, CrashEngineAssumption DEF EngineTypes, Procs, Rounds
<1>3. CASE UNCHANGED <<games, current, cancel, shown, proc>>
  BY <1>1, <1>2, <1>3 DEF EngineTypes, Bystanders
<1>4. CASE \E d \in Draws :
             /\ games' = [games EXCEPT ![round'] = [status |-> "RUNNING",
                            row |-> "RUNNING", crash |-> CrashPoint(d[1], d[2]), age |-> 0]]
             /\ current' = round' /\ cancel' = round' /\ shown' = round'
             /\ Goto(round', "start")
  <2>1. PICK d \in Draws :
          games' = [games EXCEPT ![round'] = [status |-> "RUNNING",
                      row |-> "RUNNING", crash |-> CrashPoint(d[1], d[2]), age |-> 0]]
    BY <1>4
  <2> DEFINE c == CrashPoint(d[1], d[2])
             k == [status |-> "RUNNING", row |-> "RUNNING", crash |-> c, age |-> 0]
  <2>2. c \in Int
    BY CrashPointType
  <2> HIDE DEF c
  <2>3. k \in Game
    BY <2>2 DEF Game, GameStatuses
  <2>4. games' \in [Rounds -> Game]
    BY <2>1, <2>3 DEF EngineTypes, c
  <2>5. current' \in Procs /\ Goto(round', "start")
    BY <1>2, <1>4
  <2>6. proc' \in [Procs -> Goroutine] /\ \A r \in Procs \ {round'} : proc'[r] = proc[r]
    BY <1>2, <2>5, GotoType DEF Places
  <2>7. 0 \in Procs
    BY CrashEngineAssumption DEF Procs
  <2> QED BY <1>1, <1>2, <2>4, <2>5, <2>6, <2>7 DEF EngineTypes, Bystanders
<1> QED BY <1>3, <1>4 DEF TakesStart

\* The tick takes nothing from anyone: the set of automatic cash-outs is empty.
LEMMA CreditAutoIsNothing ==
  ASSUME EngineTypes, NEW g, CreditAuto(g)
  PROVE  bets' = bets /\ balance' = balance
<1>1. AutoCashouts(g) = {}
  BY DEF AutoCashouts, GetActiveByGame, EngineTypes, BetRow
<1>2. bets' = bets
  BY <1>1 DEF CreditAuto, EngineTypes
<1>3. ASSUME NEW u \in Users
      PROVE  SumFunction([b \in {d \in AutoCashouts(g) : UserOf[d] = u} |-> NetPayout(b)]) = 0
  <2> DEFINE S == {d \in AutoCashouts(g) : UserOf[d] = u}
             f == [b \in S |-> NetPayout(b)]
  <2>1. S = {}
    BY <1>1
  <2>2. SumFunction(f) = Sum(f, S)
    BY DEF SumFunction, Sum
  <2> HIDE DEF f, S
  <2>3. SumFunction(f) = 0
    BY <2>1, <2>2, SumEmpty
  <2> QED BY <2>3 DEF f, S
<1> DEFINE c(u) == SumFunction([b \in {d \in AutoCashouts(g) : UserOf[d] = u} |-> NetPayout(b)])
<1>4. balance' = [u \in Users |-> balance[u] + c(u)] /\ \A u \in Users : c(u) = 0
  BY <1>3 DEF CreditAuto
<1> HIDE DEF c
<1>5. balance' = balance
  BY <1>4 DEF EngineTypes
<1> QED BY <1>2, <1>5

LEMMA TickType ==
  ASSUME EngineTypes, NEW p \in Procs, Tick(p)
  PROVE  Bystanders /\ EngineTypes' /\ Hands
<1>1. UNCHANGED <<current, round, games, channels, reply>>
  BY DEF Tick
<1>2. bets' = bets /\ balance' = balance
  BY CreditAutoIsNothing DEF Tick, store
<1>3. Goto(p, "select") \/ Goto(p, "check") \/ Goto(p, "send")
  BY DEF Tick, AfterTick
<1>4. /\ proc' \in [Procs -> Goroutine] /\ proc'[p].at \in {"select", "check", "send"}
      /\ \A r \in Procs \ {p} : proc'[r] = proc[r]
  BY <1>3, GotoType DEF Places
<1>5. 0 \in Procs
  BY CrashEngineAssumption DEF Procs
<1> QED BY <1>1, <1>2, <1>4, <1>5 DEF Bystanders, EngineTypes, Hands, channels

\* The other steps of the loops and of the manager on its game.
LEMMA GameType ==
  ASSUME EngineTypes, NEW p \in Procs,
         SendCrash(p) \/ CrashMark(p) \/ CrashRow(p) \/ CrashNil(p)
  PROVE  Bystanders /\ EngineTypes' /\ Hands
<1>0. 0 \in Procs
  BY CrashEngineAssumption DEF Procs
<1>1. UNCHANGED <<round, betChan, cashChan, store, reply>>
  BY DEF SendCrash, CrashMark, CrashRow, CrashNil, pointers, channels
<1>2. CASE SendCrash(p)
  <2>1. Goto(p, "select") \/ Goto(p, "check")
    BY <1>2 DEF SendCrash, AfterTick
  <2>2. /\ proc' \in [Procs -> Goroutine] /\ proc'[p].at \in {"select", "check"}
        /\ \A r \in Procs \ {p} : proc'[r] = proc[r]
    BY <2>1, GotoType DEF Places
  <2> QED BY <1>0, <1>1, <1>2, <2>2 DEF SendCrash, pointers, store, Bystanders, EngineTypes, Hands
<1>3. CASE CrashMark(p) /\ current = 0
  <2>1. Goto(p, "settle") \/ Goto(p, "done")
    BY <1>3 DEF CrashMark, AfterCrash
  <2>2. /\ proc' \in [Procs -> Goroutine] /\ proc'[p].at \in {"settle", "done"}
        /\ \A r \in Procs \ {p} : proc'[r] = proc[r]
    BY <2>1, GotoType DEF Places
  <2> QED BY <1>0, <1>1, <1>3, <2>2 DEF CrashMark, store, Bystanders, EngineTypes, Hands
<1>4. CASE CrashMark(p) /\ current # 0
  <2>1. /\ games' = [games EXCEPT ![current].status = "CRASHED"]
        /\ proc' = [proc EXCEPT ![p].at = "row", ![p].game = current] /\ current' = current
    BY <1>4 DEF CrashMark
  <2>2. games' \in [Rounds -> Game]
    BY <2>1 DEF EngineTypes, Game, GameStatuses
  <2>3. proc' \in [Procs -> Goroutine] /\ proc'[p].at = "row" /\ \A r \in Procs \ {p} : proc'[r] = proc[r]
    <3> DEFINE k == [proc[p] EXCEPT !.at = "row"]
               l == [k EXCEPT !.game = current]
    <3>0. proc[p] \in Goroutine /\ "row" \in Places
      BY DEF EngineTypes, Places
    <3>1. k \in Goroutine /\ k.at = "row"
      BY <3>0, Moved
    <3>2. proc' = [proc EXCEPT ![p] = l]
      BY <2>1 DEF EngineTypes
    <3> HIDE DEF k
    <3>3. l \in Goroutine /\ l.at = "row"
      BY <3>1 DEF EngineTypes, Goroutine
    <3> HIDE DEF l
    <3> QED BY <3>2, <3>3 DEF EngineTypes
  <2> QED BY <1>0, <1>1, <2>1, <2>2, <2>3 DEF store, Bystanders, EngineTypes, Hands
<1>5. CASE CrashRow(p)
  <2>1. /\ proc' = [proc EXCEPT ![p].at = "nil"] /\ current' = current
        /\ games' = [games EXCEPT ![proc[p].game].row = "CRASHED"] \/ games' = games
    BY <1>5 DEF CrashRow
  <2>2. games' \in [Rounds -> Game]
    <3>1. \A g \in Rounds : [games[g] EXCEPT !.row = "CRASHED"] \in Game
      BY GameMoved DEF EngineTypes, GameStatuses
    <3> QED BY <2>1, <3>1 DEF EngineTypes
  <2>3. proc' \in [Procs -> Goroutine] /\ proc'[p].at = "nil" /\ \A r \in Procs \ {p} : proc'[r] = proc[r]
    <3> DEFINE k == [proc[p] EXCEPT !.at = "nil"]
    <3>1. proc[p] \in Goroutine /\ "nil" \in Places
      BY DEF EngineTypes, Places
    <3>2. k \in Goroutine /\ k.at = "nil"
      BY <3>1, Moved
    <3>3. proc' = [proc EXCEPT ![p] = k]
      BY <2>1
    <3> HIDE DEF k
    <3> QED BY <3>2, <3>3 DEF EngineTypes
  <2> QED BY <1>0, <1>1, <2>1, <2>2, <2>3 DEF store, Bystanders, EngineTypes, Hands
<1>6. CASE CrashNil(p)
  <2>1. Goto(p, "settle") \/ Goto(p, "done")
    BY <1>6 DEF CrashNil, AfterCrash
  <2>2. /\ proc' \in [Procs -> Goroutine] /\ proc'[p].at \in {"settle", "done"}
        /\ \A r \in Procs \ {p} : proc'[r] = proc[r]
    BY <2>1, GotoType DEF Places
  <2> QED BY <1>0, <1>1, <1>6, <2>2 DEF CrashNil, store, Bystanders, EngineTypes, Hands
<1> QED BY <1>2, <1>3, <1>4, <1>5, <1>6

LEMMA LoopType ==
  ASSUME EngineTypes, NEW g \in Rounds, LoopStart(g) \/ LoopCancelled(g) \/ LoopCheck(g)
  PROVE  Bystanders /\ EngineTypes' /\ Hands
<1>0. 0 \in Procs /\ g \in Procs /\ g # 0
  BY CrashEngineAssumption DEF Procs, Rounds
<1>1. UNCHANGED <<current, round, games>> /\ Bystanders
  BY DEF LoopStart, LoopCancelled, LoopCheck, pointers, channels, store, Bystanders
<1>2. proc' \in [Procs -> Goroutine] /\ proc'[0] = proc[0]
  <2>1. CASE LoopStart(g) /\ current = 0
    BY <2>1 DEF LoopStart, EngineTypes
  <2>2. CASE LoopStart(g) /\ current # 0
    <3>1. games[current].crash \in Int
      BY <2>2, OddsType DEF EngineTypes, Game
    <3> DEFINE k == [proc[g] EXCEPT !.at = "wait"]
               l == [k EXCEPT !.odds = games[current].crash]
    <3>0. proc[g] \in Goroutine /\ "wait" \in Places
      BY <1>0 DEF EngineTypes, Places
    <3>2. k \in Goroutine
      BY <3>0, Moved
    <3>3. proc' = [proc EXCEPT ![g] = l]
      BY <1>0, <2>2 DEF EngineTypes, LoopStart
    <3> HIDE DEF k
    <3>4. l \in Goroutine
      BY <3>1, <3>2 DEF Goroutine
    <3> HIDE DEF l
    <3> QED BY <1>0, <3>3, <3>4 DEF EngineTypes
  <2>3. CASE LoopCancelled(g)
    <3>1. Goto(g, "done")
      BY <2>3 DEF LoopCancelled
    <3> QED BY <1>0, <3>1, GotoType DEF Places
  <2>4. CASE LoopCheck(g)
    <3>1. PICK at \in Places : proc' = [proc EXCEPT ![g].at = at]
      BY <2>4 DEF LoopCheck, Places
    <3>2. PICK k : k = [proc[g] EXCEPT !.at = at]
      OBVIOUS
    <3>3. proc[g] \in Goroutine /\ proc' = [proc EXCEPT ![g] = k]
      BY <1>0, <3>1, <3>2 DEF EngineTypes
    <3>4. k \in Goroutine
      BY <3>2, <3>3, Moved
    <3> QED BY <1>0, <3>3, <3>4 DEF EngineTypes
  <2> QED BY <2>1, <2>2, <2>3, <2>4
<1> QED BY <1>1, <1>2 DEF EngineTypes, Bystanders, Hands

LEMMA PassType ==
  ASSUME EngineTypes, Pass  PROVE Bystanders /\ EngineTypes' /\ Hands
<1>1. UNCHANGED <<current, round, proc>> /\ Bystanders
  BY DEF Pass, channels, store, Bystanders
<1>2. games' \in [Rounds -> Game]
  <2>1. ASSUME NEW g \in Rounds
        PROVE  (IF games[g].status = "RUNNING" /\ games[g].age < MaxAge
                THEN [games[g] EXCEPT !.age = @ + 1] ELSE games[g]) \in Game
    <3>1. games[g] \in Game
      BY DEF EngineTypes
    <3>2. games[g].age + 1 \in Nat
      BY <3>1 DEF Game
    <3>3. "CRASHED" \in GameStatuses
      BY DEF GameStatuses
    <3>4. [games[g] EXCEPT !.age = games[g].age + 1] \in Game
      BY <3>1, <3>2, <3>3, GameMoved
    <3> QED BY <3>1, <3>4
  <2> QED BY <2>1 DEF Pass
<1> QED BY <1>1, <1>2 DEF EngineTypes, Bystanders, Hands

-----------------------------------------------------------------------------
(* What most steps do: they take no bet, debit nobody and reopen no bet.   *)

\* Answers that say nothing of a bet placed or cashed out.
Harmless(r) ==
  \/ reply'[r] = reply[r]
  \/ r \in Starters
  \/ r \in Cashouts /\ reply'[r] # "ok"
  \/ r \in Bets /\ reply[r] = "waiting" /\ reply'[r] = "timeout"
  \/ r \in Bets /\ reply[r] = "idle" /\ reply'[r] = "refused"

\* The manager holds the request it held, none, or a cash-out.
SafeHands ==
  \/ proc'[0] = proc[0]
  \/ proc'[0].at \notin {"bet", "odds", "cash"}
  \/ proc'[0].at \in {"odds", "cash"} /\ proc'[0].req \in Cashouts

\* Rows come from bets placed, and stay.
SameRows == \A b \in Bets : bets'[b].status = "NONE" <=> bets[b].status = "NONE"

\* QueueInv of a channel, what the manager does, the rows and the answers.
Unanswered(rows, told, b) == rows[b].status = "NONE" /\ told[b] \in {"waiting", "timeout"}
Queued(chan, hand, rows, told) ==
  /\ \A i, j \in DOMAIN chan : chan[i] = chan[j] => i = j
  /\ \A i \in DOMAIN chan : Unanswered(rows, told, chan[i])
  /\ hand.at = "bet" =>
       /\ hand.req \in Bets /\ Unanswered(rows, told, hand.req)
       /\ \A i \in DOMAIN chan : chan[i] # hand.req
  /\ hand.at \in {"odds", "cash"} => hand.req \in Cashouts
  /\ \A b \in Bets : told[b] \in {"none", "idle"} => rows[b].status = "NONE"

LEMMA QueuedIsQueueInv ==
  /\ QueueInv <=> Queued(betChan, proc[0], bets, reply)
  /\ QueueInv' <=> Queued(betChan', proc'[0], bets', reply')
BY DEF QueueInv, Queued, Pending, Unanswered, Placed

LEMMA QueueKept ==
  ASSUME EngineTypes, QueueInv, EngineTypes', SafeHands, SameRows, betChan' = betChan,
         \A b \in Bets : \/ reply'[b] = reply[b]
                         \/ reply[b] = "waiting" /\ reply'[b] = "timeout"
                         \/ reply[b] = "idle" /\ reply'[b] = "refused"
  PROVE  QueueInv'
<1>1. \A b \in Bets : Pending(b) => Pending(b)'
  BY DEF SameRows, Pending, Placed
<1>2. \A i \in DOMAIN betChan : betChan[i] \in Bets
  BY DEF EngineTypes
<1>3. \A i, j \in DOMAIN betChan' : betChan'[i] = betChan'[j] => i = j
  BY DEF QueueInv
<1>4. \A i \in DOMAIN betChan' : Pending(betChan[i])'
  BY <1>1, <1>2 DEF QueueInv
<1>5. proc'[0].at = "bet" =>
        /\ proc'[0].req \in Bets /\ Pending(proc[0].req)'
        /\ \A i \in DOMAIN betChan' : betChan'[i] # proc'[0].req
  <2>1. proc'[0].at = "bet" => proc'[0] = proc[0]
    BY DEF SafeHands
  <2> QED BY <1>1, <2>1 DEF QueueInv
<1> QED BY <1>3, <1>4, <1>5 DEF QueueInv, SafeHands, SameRows, Placed

LEMMA MoneyKept ==
  ASSUME EngineTypes, StakesTaken, EngineTypes', SameRows, balance' = balance,
         \A b \in Bets : \/ reply'[b] = reply[b]
                         \/ reply'[b] \notin {"ok", "refused"}
                         \/ reply'[b] = "refused" /\ bets[b].status = "NONE"
                         \/ reply'[b] = "ok" /\ bets[b].status # "NONE"
  PROVE  StakesTaken'
<1>1. Balanced(bets, balance) /\ Truthful(bets, reply)
  BY StakesTakenNow DEF EngineTypes
<1>2. \A u \in Users : MineIn(bets', u) = MineIn(bets, u)
  BY DEF SameRows, MineIn
<1>3. Balanced(bets', balance')
  BY <1>1, <1>2 DEF Balanced
<1>4. Truthful(bets', reply')
  BY <1>1 DEF Truthful, SameRows
<1> QED BY <1>3, <1>4, StakesTakenNext DEF EngineTypes

LEMMA CashoutsKept ==
  ASSUME EngineTypes, CashoutsInv,
         \A b \in Bets : bets[b].status = "CASHED_OUT" => bets'[b].status = "CASHED_OUT",
         \A c \in Cashouts : reply'[c] = reply[c] \/ reply'[c] # "ok"
  PROVE  CashoutsInv'
<1>1. \A c \in Cashouts : Wanted[c] \in Bets
  BY CrashEngineAssumption
<1> QED BY <1>1 DEF CashoutsInv

\* A step of that kind.
LEMMA Harmlessly ==
  ASSUME EngineInv, EngineTypes', SafeHands, betChan' = betChan, balance' = balance, SameRows,
         \A b \in Bets : bets[b].status = "CASHED_OUT" => bets'[b].status = "CASHED_OUT",
         \A r \in EngineRequests : Harmless(r)
  PROVE  EngineInv'
<1>1. \A b \in Bets : \/ reply'[b] = reply[b]
                      \/ reply[b] = "waiting" /\ reply'[b] = "timeout"
                      \/ reply[b] = "idle" /\ reply'[b] = "refused"
  BY Kinds DEF Harmless
<1>2. \A c \in Cashouts : reply'[c] = reply[c] \/ reply'[c] # "ok"
  BY Kinds DEF Harmless
<1>3. QueueInv'
  BY <1>1, QueueKept DEF EngineInv
<1>4. CashoutsInv'
  BY <1>2, CashoutsKept DEF EngineInv
<1>5. \A b \in Bets : \/ reply'[b] = reply[b]
                      \/ reply'[b] \notin {"ok", "refused"}
                      \/ reply'[b] = "refused" /\ bets[b].status = "NONE"
                      \/ reply'[b] = "ok" /\ bets[b].status # "NONE"
  <2>1. \A b \in Bets : reply[b] = "idle" => bets[b].status = "NONE"
    BY DEF EngineInv, QueueInv, Placed
  <2> QED BY <1>1, <2>1
<1>6. StakesTaken'
  BY <1>5, MoneyKept DEF EngineInv
<1> QED BY <1>3, <1>4, <1>6 DEF EngineInv

\* The loops, the clock and the manager on its game are of that kind.
LEMMA Bystanding ==
  ASSUME EngineInv, EngineTypes', Bystanders, Hands  PROVE EngineInv'
BY Harmlessly DEF Bystanders, Hands, SafeHands, SameRows, Harmless

-----------------------------------------------------------------------------
(* The callers.                                                            *)

\* Nothing but one answer changes.
LEMMA AnswerOnly ==
  ASSUME EngineInv, UNCHANGED <<pointers, proc, betChan, cashChan, store>>,
         NEW r \in EngineRequests, Harmless(r), reply'[r] \in Replies,
         reply' \in [EngineRequests -> Replies],
         \A x \in EngineRequests \ {r} : reply'[x] = reply[x]
  PROVE  EngineInv'
<1>1. EngineTypes'
  BY DEF EngineInv, EngineTypes, pointers, store, Replies
<1>2. \A x \in EngineRequests : Harmless(x)
  BY DEF Harmless
<1> QED BY <1>1, <1>2, Harmlessly DEF SafeHands, SameRows, store

LEMMA StartGameStep ==
  ASSUME EngineInv, NEW s \in Starters, StartGame(s)  PROVE EngineInv'
<1>1. s \in EngineRequests
  BY Kinds
<1>2. /\ reply' \in [EngineRequests -> Replies] /\ reply'[s] \in Replies
      /\ \A x \in EngineRequests \ {s} : reply'[x] = reply[x]
  BY <1>1 DEF StartGame, EngineInv, EngineTypes, Replies
<1> QED BY <1>1, <1>2, AnswerOnly DEF StartGame, channels, Harmless

LEMMA SendStartStep ==
  ASSUME EngineInv, NEW s \in Starters, SendStart(s)  PROVE EngineInv'
<1>1. s \in EngineRequests
  BY Kinds
<1>2. /\ reply' \in [EngineRequests -> Replies] /\ reply'[s] \in Replies
      /\ \A x \in EngineRequests \ {s} : reply'[x] = reply[x]
  BY <1>1, AnswerType DEF SendStart, EngineInv, Replies
<1> QED BY <1>1, <1>2, AnswerOnly DEF SendStart, Harmless

LEMMA TimeoutStep ==
  ASSUME EngineInv, NEW r \in EngineRequests, Timeout(r)  PROVE EngineInv'
<1>1. /\ reply' \in [EngineRequests -> Replies] /\ reply'[r] = "timeout"
      /\ \A x \in EngineRequests \ {r} : reply'[x] = reply[x]
  BY AnswerType DEF Timeout, EngineInv, Replies
<1>2. Harmless(r)
  BY <1>1 DEF Timeout, Harmless, EngineRequests
<1> QED BY <1>1, <1>2, AnswerOnly DEF Timeout, channels, Replies

LEMMA CashoutStep ==
  ASSUME EngineInv, NEW c \in Cashouts, Cashout(c)  PROVE EngineInv'
<1>1. c \in EngineRequests
  BY Kinds
<1>2. /\ reply' \in [EngineRequests -> Replies] /\ reply'[c] = "waiting"
      /\ \A x \in EngineRequests \ {c} : reply'[x] = reply[x]
  BY <1>1 DEF Cashout, EngineInv, EngineTypes, Replies
<1>3. cashChan' \in Seq(Cashouts)
  BY DEF Cashout, EngineInv, EngineTypes
<1>4. EngineTypes'
  BY <1>2, <1>3 DEF Cashout, EngineInv, EngineTypes, pointers, store, Replies
<1>5. \A x \in EngineRequests : Harmless(x)
  BY <1>2 DEF Harmless
<1> QED BY <1>4, <1>5, Harmlessly DEF Cashout, SafeHands, SameRows, store

\* A bet over or under the limits is refused; another waits last in the channel.
LEMMA PlaceBetStep ==
  ASSUME EngineInv, NEW b \in Bets, PlaceBet(b)  PROVE EngineInv'
<1>1. b \in EngineRequests /\ b \notin Cashouts
  BY Kinds
<1>2. CASE Amount[b] \notin BetLimits
  <2>1. /\ reply' \in [EngineRequests -> Replies] /\ reply'[b] = "refused"
        /\ \A x \in EngineRequests \ {b} : reply'[x] = reply[x]
    BY <1>1, <1>2 DEF PlaceBet, EngineInv, EngineTypes, Replies
  <2> QED BY <1>1, <1>2, <2>1, AnswerOnly DEF PlaceBet, Harmless, Replies
<1>3. CASE Amount[b] \in BetLimits
  <2>1. /\ reply' \in [EngineRequests -> Replies] /\ reply'[b] = "waiting" /\ reply[b] = "idle"
        /\ \A x \in EngineRequests \ {b} : reply'[x] = reply[x]
    BY <1>1, <1>3 DEF PlaceBet, EngineInv, EngineTypes, Replies
  <2>2. /\ betChan' = Append(betChan, b) /\ UNCHANGED <<pointers, proc, cashChan, bets, balance>>
    BY <1>3 DEF PlaceBet, store
  <2>3. /\ betChan' \in Seq(Bets) /\ Len(betChan) \in Nat
        /\ DOMAIN betChan = 1 .. Len(betChan) /\ DOMAIN betChan' = 1 .. Len(betChan) + 1
        /\ \A i \in DOMAIN betChan : betChan'[i] = betChan[i] /\ betChan[i] \in Bets
        /\ betChan'[Len(betChan) + 1] = b
    BY <2>2 DEF EngineInv, EngineTypes
  <2>4. EngineTypes'
    BY <2>1, <2>2, <2>3 DEF EngineInv, EngineTypes, pointers, Replies
  <2>5. SameRows /\ \A x \in Bets \ {b} : reply'[x] = reply[x]
    BY <1>1, <2>1, <2>2, Kinds DEF SameRows
  <2>6. StakesTaken'
    BY <2>1, <2>2, <2>4, <2>5, MoneyKept DEF EngineInv
  <2>7. CashoutsInv'
    BY <1>1, <2>1, <2>2, Kinds, CashoutsKept DEF EngineInv
  <2> DEFINE U(x) == Unanswered(bets, reply, x)
             V(x) == Unanswered(bets', reply', x)
  <2>8. ~U(b) /\ bets[b].status = "NONE" /\ Queued(betChan, proc[0], bets, reply)
    BY <2>1, QueuedIsQueueInv DEF Unanswered, EngineInv, Queued
  <2>9. V(b) /\ \A x \in Bets \ {b} : V(x) <=> U(x)
    BY <2>1, <2>2, <2>5, <2>8 DEF Unanswered
  <2> HIDE DEF U, V
  <2>10. \A i \in DOMAIN betChan : U(betChan[i]) /\ betChan[i] # b
    BY <2>8 DEF Queued, U
  <2>11. \A i, j \in DOMAIN betChan' : betChan'[i] = betChan'[j] => i = j
    BY <2>3, <2>8, <2>10 DEF Queued
  <2>12. \A i \in DOMAIN betChan' : V(betChan'[i])
    <3>1. ASSUME NEW i \in DOMAIN betChan', i # Len(betChan) + 1  PROVE V(betChan'[i])
      <4>1. i \in DOMAIN betChan
        BY <2>3, <3>1
      <4> QED BY <2>3, <2>9, <2>10, <4>1
    <3> QED BY <2>3, <2>9, <3>1
  <2>13. proc[0].at = "bet" =>
           /\ proc[0].req \in Bets /\ V(proc[0].req) /\ proc[0].req # b
           /\ \A i \in DOMAIN betChan : betChan[i] # proc[0].req
    BY <2>8, <2>9 DEF Queued, U
  <2>14. proc[0].at = "bet" => \A i \in DOMAIN betChan' : betChan'[i] # proc[0].req
    BY <2>3, <2>13
  <2>15. \A x \in Bets : reply'[x] \in {"none", "idle"} => bets'[x].status = "NONE"
    BY <2>1, <2>2, <2>5, <2>8 DEF Queued
  <2>16. proc' = proc
    BY <2>2
  <2>17. Queued(betChan', proc'[0], bets', reply')
    BY <2>8, <2>11, <2>12, <2>13, <2>14, <2>15, <2>16 DEF Queued, V
  <2>18. QueueInv'
    BY <2>17, QueuedIsQueueInv
  <2> QED BY <2>4, <2>6, <2>7, <2>18 DEF EngineInv
<1> QED BY <1>2, <1>3

-----------------------------------------------------------------------------
(* The manager.                                                            *)

\* A bet leaves the channel: it is refused, or in hand and in the channel no more.
LEMMA TakesBetStep ==
  ASSUME EngineInv, TakesBet  PROVE EngineInv'
<1> DEFINE b == Head(betChan)
           U(x) == Unanswered(bets, reply, x)
           V(x) == Unanswered(bets', reply', x)
<1>0. /\ proc[0].at = "select" /\ betChan # <<>> /\ betChan' = Tail(betChan)
      /\ UNCHANGED <<current, round, games, cashChan, bets, balance>>
  BY DEF TakesBet, AtSelect, pointers, store
<1>1. /\ b \in Bets /\ b = betChan[1] /\ betChan' \in Seq(Bets) /\ 1 \in DOMAIN betChan
      /\ \A i \in DOMAIN betChan' :
           i + 1 \in DOMAIN betChan /\ betChan'[i] = betChan[i + 1] /\ i \in Nat \ {0}
  BY <1>0, Taken DEF EngineInv, EngineTypes
<1>2. Queued(betChan, proc[0], bets, reply)
  BY QueuedIsQueueInv DEF EngineInv
<1>3. U(b) /\ \A i \in DOMAIN betChan' : U(betChan'[i]) /\ betChan'[i] # b
  BY <1>1, <1>2 DEF Queued
<1>4. \A i, j \in DOMAIN betChan' : betChan'[i] = betChan'[j] => i = j
  BY <1>1, <1>2 DEF Queued
<1>5. b \in EngineRequests /\ b \notin Cashouts /\ 0 \in Procs
  BY <1>1, Kinds, CrashEngineAssumption DEF Procs
<1>6. SameRows
  BY <1>0 DEF SameRows
<1>7. CASE Running(current)
  <2> DEFINE h == [at |-> "bet", game |-> current, req |-> b, odds |-> 0]
  <2>1. proc' = [proc EXCEPT ![0] = h] /\ reply' = reply
    BY <1>7 DEF TakesBet
  <2>2. h \in Goroutine /\ h.at = "bet" /\ h.req = b
    BY <1>5 DEF Goroutine, Places, EngineInv, EngineTypes
  <2> HIDE DEF h, b
  <2>3. proc' \in [Procs -> Goroutine] /\ proc'[0] = h
    BY <1>5, <2>1, <2>2 DEF EngineInv, EngineTypes
  <2>4. EngineTypes'
    BY <1>0, <1>1, <2>1, <2>3 DEF EngineInv, EngineTypes
  <2>5. \A x \in Bets : U(x) <=> V(x)
    BY <1>0, <2>1 DEF Unanswered
  <2>6. \A x \in Bets : reply'[x] \in {"none", "idle"} => bets'[x].status = "NONE"
    BY <1>0, <1>2, <2>1 DEF Queued
  <2> HIDE DEF U, V
  <2>7. \A i \in DOMAIN betChan' : V(betChan'[i]) /\ betChan'[i] # b
    BY <1>1, <1>3, <2>5 DEF EngineTypes
  <2>8. V(b)
    BY <1>1, <1>3, <2>5
  <2>9. Queued(betChan', proc'[0], bets', reply')
    BY <1>1, <1>4, <2>2, <2>3, <2>6, <2>7, <2>8 DEF Queued, V
  <2>10. StakesTaken' /\ CashoutsInv'
    BY <1>0, <1>6, <2>1, <2>4, MoneyKept, CashoutsKept DEF EngineInv
  <2> QED BY <2>4, <2>9, <2>10, QueuedIsQueueInv DEF EngineInv
<1>8. CASE ~Running(current)
  <2>1. Answer(b, "refused") /\ proc' = proc
    BY <1>8 DEF TakesBet
  <2>2. /\ reply' \in [EngineRequests -> Replies]
        /\ \A x \in EngineRequests \ {b} : reply'[x] = reply[x]
        /\ reply'[b] = reply[b] \/ reply'[b] = "refused"
        /\ reply'[b] \notin {"none", "idle"}
    <3>1. reply[b] \in {"waiting", "timeout"}
      BY <1>3 DEF Unanswered
    <3> HIDE DEF b
    <3>2. EngineTypes
      BY DEF EngineInv
    <3> QED BY <1>5, <2>1, <3>1, <3>2, AnswerType DEF Replies
  <2>3. bets[b].status = "NONE"
    BY <1>3 DEF Unanswered
  <2> HIDE DEF b
  <2>4. EngineTypes'
    BY <1>0, <1>1, <2>1, <2>2 DEF EngineInv, EngineTypes, Replies
  <2>5. \A x \in Bets \ {b} : V(x) <=> U(x)
    BY <1>0, <2>2, Kinds DEF Unanswered
  <2>6. \A x \in Bets : reply'[x] \in {"none", "idle"} => bets'[x].status = "NONE"
    BY <1>0, <1>2, <2>2, Kinds DEF Queued
  <2> HIDE DEF U, V
  <2>7. \A i \in DOMAIN betChan' : V(betChan'[i])
    BY <1>1, <1>3, <2>5 DEF EngineTypes
  <2>8. Queued(betChan', proc'[0], bets', reply')
    BY <1>0, <1>4, <2>1, <2>6, <2>7 DEF Queued, V
  <2>9. \A x \in Bets : \/ reply'[x] = reply[x]
                        \/ reply'[x] = "refused" /\ bets[x].status = "NONE"
    BY <2>2, <2>3, Kinds
  <2>10. StakesTaken'
    BY <1>0, <1>6, <2>4, <2>9, MoneyKept DEF EngineInv
  <2>11. \A x \in Cashouts : reply'[x] = reply[x]
    BY <1>5, <2>2, Kinds
  <2>12. CashoutsInv'
    BY <1>0, <2>11, CashoutsKept DEF EngineInv
  <2> QED BY <2>4, <2>8, <2>10, <2>12, QueuedIsQueueInv DEF EngineInv
<1> QED BY <1>7, <1>8

\* The manager moves on from the bet in hand: what is left of the queue's invariant.
LEMMA HandEmptied ==
  ASSUME EngineInv, NEW b \in Bets, proc[0].at = "bet", proc[0].req = b, betChan' = betChan,
         proc'[0].at = "select",
         \A x \in Bets \ {b} : bets'[x].status = bets[x].status /\ reply'[x] = reply[x],
         reply'[b] \notin {"none", "idle"}
  PROVE  QueueInv'
<1>1. Queued(betChan, proc[0], bets, reply)
  BY QueuedIsQueueInv DEF EngineInv
<1>2. \A i \in DOMAIN betChan : betChan[i] \in Bets \ {b}
  BY <1>1 DEF Queued, EngineInv, EngineTypes
<1>3. \A i \in DOMAIN betChan : Unanswered(bets', reply', betChan[i])
  BY <1>1, <1>2 DEF Queued, Unanswered
<1>4. \A x \in Bets : reply'[x] \in {"none", "idle"} => bets'[x].status = "NONE"
  BY <1>1 DEF Queued
<1>5. Queued(betChan', proc'[0], bets', reply')
  BY <1>1, <1>3, <1>4 DEF Queued
<1> QED BY <1>5, QueuedIsQueueInv

\* A new row: the stakes of its player grow by its amount.
LEMMA StakeAdded ==
  ASSUME NEW rows, NEW rows1, NEW b \in Bets,
         rows[b].status = "NONE", rows1[b].status # "NONE",
         \A x \in Bets \ {b} : rows1[x].status = rows[x].status
  PROVE  /\ Sum(Amount, MineIn(rows1, UserOf[b]))
              = Sum(Amount, MineIn(rows, UserOf[b])) + Amount[b]
         /\ \A u \in Users \ {UserOf[b]} : MineIn(rows1, u) = MineIn(rows, u)
<1> DEFINE S == MineIn(rows, UserOf[b])
           T == MineIn(rows1, UserOf[b])
<1>1. T = S \cup {b} /\ b \notin S
  BY DEF MineIn
<1>2. IsFiniteSet(S) /\ IsIntOn(Amount, T)
  BY StakeSums
<1>3. \A u \in Users \ {UserOf[b]} : MineIn(rows1, u) = MineIn(rows, u)
  BY DEF MineIn
<1> HIDE DEF S, T
<1>4. Sum(Amount, T) = Sum(Amount, S) + Amount[b]
  BY <1>1, <1>2, SumAdd
<1> QED BY <1>3, <1>4 DEF S, T

LEMMA InsertBetStep ==
  ASSUME EngineInv, InsertBet  PROVE EngineInv'
<1> DEFINE b == proc[0].req
           u == UserOf[b]
<1>0. /\ proc[0].at = "bet" /\ Goto(0, "select") /\ EngineTypes
      /\ UNCHANGED <<current, round, games, betChan, cashChan>>
  BY DEF InsertBet, EngineInv, pointers, channels
<1>1. b \in Bets /\ Unanswered(bets, reply, b)
  BY <1>0 DEF EngineInv, QueueInv, Pending, Placed, Unanswered
<1>2. /\ b \in EngineRequests /\ b \notin Cashouts /\ 0 \in Procs /\ u \in Users
      /\ Amount[b] \in Nat
  BY <1>1, Kinds, CrashEngineAssumption DEF Procs
<1>3. proc' \in [Procs -> Goroutine] /\ proc'[0].at = "select"
  BY <1>0, <1>2, GotoType DEF Places
<1>4. bets[b].status = "NONE" /\ reply[b] \in {"waiting", "timeout"}
  BY <1>1 DEF Unanswered
<1>5. CASE Answer(b, "failed") /\ UNCHANGED store
  <2>1. /\ reply' \in [EngineRequests -> Replies]
        /\ \A x \in EngineRequests \ {b} : reply'[x] = reply[x]
        /\ reply'[b] \in {"timeout", "failed"}
    <3> HIDE DEF b
    <3> QED BY <1>0, <1>2, <1>4, <1>5, AnswerType DEF Replies
  <2> HIDE DEF b, u
  <2>2. EngineTypes'
    BY <1>0, <1>3, <1>5, <2>1 DEF EngineTypes, Replies, store
  <2>3. QueueInv'
    BY <1>0, <1>1, <1>3, <1>5, <2>1, Kinds, HandEmptied DEF store, b
  <2>4. StakesTaken'
    <3>1. SameRows /\ balance' = balance
      BY <1>5 DEF SameRows, store
    <3>2. \A x \in Bets : \/ reply'[x] = reply[x]
                          \/ reply'[x] \notin {"ok", "refused"}
                          \/ reply'[x] = "refused" /\ bets[x].status = "NONE"
      BY <1>4, <2>1, Kinds
    <3> QED BY <2>2, <3>1, <3>2, MoneyKept DEF EngineInv
  <2>5. CashoutsInv'
    BY <1>2, <1>5, <2>1, Kinds, CashoutsKept DEF EngineInv, store
  <2> QED BY <2>2, <2>3, <2>4, <2>5 DEF EngineInv
<1>6. CASE /\ balance[u] >= Amount[b]
           /\ balance' = [balance EXCEPT ![u] = @ - Amount[b]]
           /\ bets' = [bets EXCEPT ![b] = [NoBet EXCEPT !.game = proc[0].game, !.status = "ACTIVE"]]
           /\ \E answer \in {"ok", "failed"} : Answer(b, answer)
  <2>1. /\ reply' \in [EngineRequests -> Replies]
        /\ \A x \in EngineRequests \ {b} : reply'[x] = reply[x]
        /\ reply'[b] \in {"timeout", "ok", "failed"}
    <3> HIDE DEF b
    <3> QED BY <1>0, <1>2, <1>4, <1>6, AnswerType DEF Replies
  <2> DEFINE k == [NoBet EXCEPT !.game = proc[0].game]
             l == [k EXCEPT !.status = "ACTIVE"]
  <2>2. /\ bets' = [bets EXCEPT ![b] = l] /\ balance[u] >= Amount[b]
        /\ balance' = [balance EXCEPT ![u] = @ - Amount[b]]
    BY <1>6
  <2>3. l \in BetRow /\ l.status = "ACTIVE"
    <3>1. proc[0] \in Goroutine
      BY <1>0, <1>2 DEF EngineTypes
    <3>2. proc[0].game \in Procs
      BY <3>1 DEF Goroutine
    <3>3. k \in BetRow
      BY <3>2 DEF NoBet, BetRow
    <3> HIDE DEF k
    <3> QED BY <3>3 DEF BetRow
  <2> HIDE DEF b, u, k, l
  <2>4. /\ bets' \in [Bets -> BetRow] /\ bets'[b].status = "ACTIVE"
        /\ \A x \in Bets \ {b} : bets'[x].status = bets[x].status
    BY <1>0, <1>1, <2>2, <2>3 DEF EngineTypes
  <2>5. /\ balance' \in [Users -> Int] /\ balance'[u] = balance[u] - Amount[b]
        /\ balance'[u] >= 0 /\ \A x \in Users \ {u} : balance'[x] = balance[x]
    BY <1>0, <1>2, <2>2 DEF EngineTypes
  <2>6. EngineTypes'
    BY <1>0, <1>3, <2>1, <2>4, <2>5 DEF EngineTypes, Replies
  <2>7. QueueInv'
    BY <1>0, <1>1, <1>3, <2>1, <2>4, Kinds, HandEmptied DEF b
  <2>8. Balanced(bets, balance) /\ Truthful(bets, reply)
    BY <1>0, StakesTakenNow DEF EngineInv, EngineTypes
  <2>9. Balanced(bets', balance')
    <3>1. /\ Sum(Amount, MineIn(bets', u)) = Sum(Amount, MineIn(bets, u)) + Amount[b]
          /\ \A x \in Users \ {u} : MineIn(bets', x) = MineIn(bets, x)
      BY <1>1, <1>4, <2>4, StakeAdded DEF u
    <3>2. Sum(Amount, MineIn(bets, u)) \in Int /\ Opening[u] \in Nat
      BY <1>2, StakeSums, CrashEngineAssumption
    <3>3. balance'[u] = Opening[u] - Sum(Amount, MineIn(bets', u))
      BY <1>2, <2>5, <2>8, <3>1, <3>2 DEF Balanced
    <3> QED BY <2>5, <2>8, <3>1, <3>3 DEF Balanced
  <2>10. Truthful(bets', reply')
    BY <2>1, <2>4, <2>8, Kinds DEF Truthful
  <2>11. StakesTaken'
    BY <2>4, <2>5, <2>9, <2>10, StakesTakenNext
  <2>12. CashoutsInv'
    BY <1>2, <1>4, <2>1, <2>4, Kinds, CashoutsKept DEF EngineInv
  <2> QED BY <2>6, <2>7, <2>11, <2>12 DEF EngineInv
<1> QED BY <1>5, <1>6 DEF InsertBet

LEMMA TakesCashoutStep ==
  ASSUME EngineInv, TakesCashout  PROVE EngineInv'
<1> DEFINE c == Head(cashChan)
<1>0. /\ EngineTypes /\ cashChan # <<>> /\ cashChan' = Tail(cashChan)
      /\ UNCHANGED <<current, round, games, betChan, bets, balance>>
  BY DEF TakesCashout, EngineInv, pointers, store
<1>1. c \in Cashouts /\ cashChan' \in Seq(Cashouts)
  BY <1>0, Taken DEF EngineTypes
<1>2. c \in EngineRequests /\ 0 \in Procs
  BY <1>1, Kinds, CrashEngineAssumption DEF Procs
<1>3. CASE current # 0
  <2> DEFINE k == [Idle EXCEPT !.at = "odds"]
             l == [k EXCEPT !.req = c]
  <2>1. proc' = [proc EXCEPT ![0] = l] /\ reply' = reply
    BY <1>3 DEF TakesCashout
  <2>2. l \in Goroutine /\ l.at = "odds" /\ l.req = c
    <3>1. k \in Goroutine /\ k.at = "odds"
      BY <1>2 DEF Idle, Goroutine, Places
    <3> HIDE DEF k, c
    <3> QED BY <1>2, <3>1 DEF Goroutine
  <2> HIDE DEF k, l, c
  <2>3. proc' \in [Procs -> Goroutine] /\ proc'[0] = l
    BY <1>0, <1>2, <2>1, <2>2 DEF EngineTypes
  <2>4. EngineTypes'
    BY <1>0, <1>1, <2>1, <2>3 DEF EngineTypes
  <2> QED BY <1>0, <1>1, <2>1, <2>2, <2>3, <2>4, Harmlessly DEF SafeHands, SameRows, Harmless
<1>4. CASE current = 0
  <2>1. Answer(c, "refused") /\ proc' = proc
    BY <1>4 DEF TakesCashout
  <2> HIDE DEF c
  <2>2. /\ reply' \in [EngineRequests -> Replies]
        /\ \A x \in EngineRequests \ {c} : reply'[x] = reply[x]
        /\ reply'[c] = reply[c] \/ reply'[c] = "refused"
    BY <1>0, <1>2, <2>1, AnswerType DEF Replies
  <2>3. EngineTypes'
    BY <1>0, <1>1, <2>1, <2>2 DEF EngineTypes, Replies
  <2>4. \A x \in EngineRequests : Harmless(x)
    BY <1>1, <2>2 DEF Harmless
  <2> QED BY <1>0, <2>1, <2>3, <2>4, Harmlessly DEF SafeHands, SameRows
<1> QED BY <1>3, <1>4

\* The cash-out in hand names a bet of the table.
LEMMA CashoutInHand ==
  ASSUME EngineInv, proc[0].at \in {"odds", "cash"}
  PROVE  /\ proc[0].req \in Cashouts /\ proc[0].req \in EngineRequests /\ Wanted[proc[0].req] \in Bets
         /\ proc[0] \in Goroutine /\ proc[0].odds \in Int /\ 0 \in Procs
<1>1. proc[0].req \in Cashouts /\ 0 \in Procs
  BY CrashEngineAssumption DEF EngineInv, QueueInv, Procs
<1>2. proc[0] \in Goroutine
  BY <1>1 DEF EngineInv, EngineTypes
<1>3. proc[0].odds \in Int
  BY <1>2 DEF Goroutine
<1> QED BY <1>1, <1>2, <1>3, Kinds

\* A refusal of the cash-out in hand, or its failure.
LEMMA RefusesCashout ==
  ASSUME EngineInv, proc[0].at \in {"odds", "cash"},
         Answer(proc[0].req, "refused") \/ Answer(proc[0].req, "failed"),
         Goto(0, "select"), UNCHANGED <<pointers, channels, bets, balance>>
  PROVE  EngineInv'
<1> DEFINE c == proc[0].req
<1>0. EngineTypes /\ c \in Cashouts /\ c \in EngineRequests /\ 0 \in Procs
  BY CashoutInHand DEF EngineInv
<1>1. proc' \in [Procs -> Goroutine] /\ proc'[0].at = "select"
  BY <1>0, GotoType DEF Places
<1> HIDE DEF c
<1>2. /\ reply' \in [EngineRequests -> Replies]
      /\ \A x \in EngineRequests \ {c} : reply'[x] = reply[x]
      /\ reply'[c] \in {reply[c], "refused", "failed"}
  BY <1>0, AnswerType DEF Replies, c
<1>3. EngineTypes'
  BY <1>0, <1>1, <1>2 DEF EngineTypes, Replies, pointers, channels
<1>4. \A x \in EngineRequests : Harmless(x)
  BY <1>0, <1>2 DEF Harmless
<1> QED BY <1>1, <1>3, <1>4, Harmlessly DEF SafeHands, SameRows, channels

LEMMA ReadOddsStep ==
  ASSUME EngineInv, ReadOdds  PROVE EngineInv'
<1> DEFINE c == proc[0].req
           price == IF current = 0 THEN 100 ELSE Odds(current)
           k == [proc[0] EXCEPT !.at = "cash"]
           l == [k EXCEPT !.odds = price]
<1>0. /\ EngineTypes /\ proc[0].at = "odds" /\ UNCHANGED <<pointers, channels, bets, balance>>
  BY DEF ReadOdds, EngineInv, pointers, channels, store
<1>1. c \in Cashouts /\ 0 \in Procs /\ proc[0] \in Goroutine
  BY <1>0, CashoutInHand
<1>2. CASE Answer(c, "refused") /\ Goto(0, "select")
  BY <1>0, <1>2, RefusesCashout
<1>3. CASE /\ proc' = [proc EXCEPT ![0].at = "cash", ![0].odds = price]
           /\ UNCHANGED reply
  <2>1. proc' = [proc EXCEPT ![0] = l] /\ reply' = reply
    BY <1>3
  <2>2. price \in Int
    <3>1. CASE current = 0
      BY <3>1
    <3>2. CASE current # 0
      BY <1>0, <3>2, OddsType DEF EngineTypes
    <3> QED BY <3>1, <3>2
  <2> HIDE DEF price
  <2>3. k \in Goroutine /\ k.at = "cash" /\ k.req = c
    BY <1>1, Moved DEF Places
  <2> HIDE DEF k
  <2>4. l \in Goroutine /\ l.at = "cash" /\ l.req = c
    BY <1>1, <2>2, <2>3, Read
  <2> HIDE DEF l, c
  <2>5. proc' \in [Procs -> Goroutine] /\ proc'[0] = l
    BY <1>0, <1>1, <2>1, <2>4 DEF EngineTypes
  <2>6. EngineTypes'
    BY <1>0, <2>1, <2>5 DEF EngineTypes, pointers, channels
  <2> QED BY <1>0, <1>1, <2>1, <2>4, <2>5, <2>6, Harmlessly
          DEF SafeHands, SameRows, Harmless, channels
<1> QED BY <1>2, <1>3 DEF ReadOdds

\* The row of a cashed-out bet.
LEMMA CashedRow ==
  ASSUME NEW row \in BetRow, NEW o \in Int, NEW n \in Int
  PROVE  LET new == [row EXCEPT !.status = "CASHED_OUT", !.at = o, !.payout = n]
         IN  new \in BetRow /\ new.status = "CASHED_OUT"
<1> DEFINE k == [row EXCEPT !.status = "CASHED_OUT"]
           l == [k EXCEPT !.at = o]
           m == [l EXCEPT !.payout = n]
<1>1. k \in BetRow /\ k.status = "CASHED_OUT"
  BY DEF BetRow
<1> HIDE DEF k
<1>2. l \in BetRow /\ l.status = "CASHED_OUT"
  BY <1>1 DEF BetRow
<1> HIDE DEF l
<1>3. m \in BetRow /\ m.status = "CASHED_OUT"
  BY <1>2 DEF BetRow
<1> QED BY <1>3 DEF k, l

\* The bet was active, so nobody had been told of its cash-out.
LEMMA AtomicCashoutStep ==
  ASSUME EngineInv, AtomicCashout
  PROVE  /\ EngineInv'
         /\ \A x \in Bets : bets[x].status = "CASHED_OUT" => bets'[x] = bets[x]
<1> DEFINE c == proc[0].req
           b == Wanted[c]
           n == (Amount[b] * proc[0].odds) \div 100
           r == [bets[b] EXCEPT !.status = "CASHED_OUT", !.at = proc[0].odds, !.payout = n]
<1>0. /\ EngineTypes /\ proc[0].at = "cash" /\ Goto(0, "select")
      /\ UNCHANGED <<pointers, channels, balance>>
  BY DEF AtomicCashout, EngineInv, pointers, channels
<1>1. /\ c \in Cashouts /\ c \in EngineRequests /\ b \in Bets /\ 0 \in Procs
      /\ proc[0].odds \in Int
  BY <1>0, CashoutInHand
<1>2. CASE (Answer(c, "refused") \/ Answer(c, "failed")) /\ UNCHANGED bets
  BY <1>0, <1>2, RefusesCashout
<1>3. CASE bets[b].status = "ACTIVE" /\ bets' = [bets EXCEPT ![b] = r]
           /\ \E answer \in {"ok", "failed"} : Answer(c, answer)
  <2>1. proc' \in [Procs -> Goroutine] /\ proc'[0].at = "select"
    BY <1>0, <1>1, GotoType DEF Places
  <2>2. n \in Int
    <3>1. Amount[b] \in Int
      BY <1>1, CrashEngineAssumption
    <3> HIDE DEF b
    <3>2. Amount[b] * proc[0].odds \in Int
      BY <1>1, <3>1
    <3> QED BY <3>2
  <2> HIDE DEF n
  <2>3. bets[b] \in BetRow
    BY <1>0, <1>1 DEF EngineTypes
  <2>4. r \in BetRow /\ r.status = "CASHED_OUT"
    BY <1>1, <2>2, <2>3, CashedRow
  <2> HIDE DEF r, b, c
  <2>5. /\ bets' \in [Bets -> BetRow] /\ bets'[b].status = "CASHED_OUT"
        /\ \A x \in Bets \ {b} : bets'[x] = bets[x]
    BY <1>0, <1>1, <1>3, <2>4 DEF EngineTypes
  <2>6. /\ reply' \in [EngineRequests -> Replies]
        /\ \A x \in EngineRequests \ {c} : reply'[x] = reply[x]
    BY <1>0, <1>1, <1>3, AnswerType DEF Replies
  <2>7. EngineTypes'
    BY <1>0, <2>1, <2>5, <2>6 DEF EngineTypes, Replies, pointers, channels
  <2>8. SameRows /\ \A x \in Bets : reply'[x] = reply[x]
    BY <1>1, <1>3, <2>5, <2>6, Kinds DEF SameRows
  <2>9. QueueInv'
    BY <1>0, <2>1, <2>7, <2>8, QueueKept DEF EngineInv, SafeHands, channels
  <2>10. StakesTaken'
    BY <1>0, <2>7, <2>8, MoneyKept DEF EngineInv
  <2>11. CashoutsInv'
    <3>1. \A d \in Cashouts : Wanted[d] = b => reply[d] # "ok"
      BY <1>3 DEF EngineInv, CashoutsInv
    <3>2. \A d \in Cashouts : Wanted[d] \in Bets /\ d \in EngineRequests
      BY Kinds
    <3>3. \A d \in Cashouts : reply'[d] = "ok" => d = c \/ (reply[d] = "ok" /\ Wanted[d] # b)
      BY <2>6, <3>1, <3>2
    <3>4. \A d \in Cashouts : reply'[d] = "ok" => bets'[Wanted[d]].status = "CASHED_OUT"
      BY <2>5, <3>2, <3>3 DEF EngineInv, CashoutsInv, b
    <3>5. \A d, e \in Cashouts :
            reply'[d] = "ok" /\ reply'[e] = "ok" /\ Wanted[d] = Wanted[e] => d = e
      BY <3>3 DEF EngineInv, CashoutsInv, b
    <3> QED BY <3>4, <3>5 DEF CashoutsInv
  <2>12. \A x \in Bets : bets[x].status = "CASHED_OUT" => bets'[x] = bets[x]
    BY <1>3, <2>5
  <2> QED BY <2>7, <2>9, <2>10, <2>11, <2>12 DEF EngineInv
<1> QED BY <1>2, <1>3 DEF AtomicCashout

LEMMA TakesCrashStep ==
  ASSUME EngineInv, TakesCrash  PROVE EngineInv'
<1>1. /\ EngineTypes /\ 0 \in Procs
      /\ Goto(0, "select") \/ Goto(0, "mark")
      /\ UNCHANGED <<pointers, betChan, cashChan, store, reply>>
  BY CrashEngineAssumption DEF TakesCrash, EngineInv, Procs
<1>2. proc' \in [Procs -> Goroutine] /\ proc'[0].at \in {"select", "mark"}
  BY <1>1, GotoType DEF Places
<1>3. EngineTypes' /\ Bystanders /\ Hands
  BY <1>1, <1>2 DEF EngineTypes, Bystanders, Hands, pointers, store
<1> QED BY <1>3, Bystanding

\* A crashed game's bets are lost, the cashed-out ones excepted.
LEMMA SettleStep ==
  ASSUME EngineInv, Settle
  PROVE  /\ EngineInv'
         /\ \A x \in Bets : bets[x].status = "CASHED_OUT" => bets'[x] = bets[x]
<1>1. /\ EngineTypes /\ 0 \in Procs /\ Goto(0, "select")
      /\ UNCHANGED <<round, games, betChan, cashChan, balance, reply>> /\ current' = 0
  BY CrashEngineAssumption DEF Settle, EngineInv, Procs, channels
<1>2. proc' \in [Procs -> Goroutine] /\ proc'[0].at = "select"
  BY <1>1, GotoType DEF Places
<1>3. bets' = [b \in Bets |-> IF current # 0 /\ b \in GetActiveByGame(current)
                 THEN [bets[b] EXCEPT !.status = "LOST"] ELSE bets[b]]
  BY DEF Settle
<1>4. \A b \in Bets : /\ [bets[b] EXCEPT !.status = "LOST"] \in BetRow
                      /\ [bets[b] EXCEPT !.status = "LOST"].status = "LOST"
  <2>1. ASSUME NEW row \in BetRow
        PROVE  [row EXCEPT !.status = "LOST"] \in BetRow /\ [row EXCEPT !.status = "LOST"].status = "LOST"
    BY DEF BetRow
  <2>2. \A b \in Bets : bets[b] \in BetRow
    BY <1>1 DEF EngineTypes
  <2> QED BY <2>1, <2>2
<1>5. /\ bets' \in [Bets -> BetRow]
      /\ \A b \in Bets : bets'[b] = bets[b] \/ (bets[b].status = "ACTIVE" /\ bets'[b].status = "LOST")
  <2>1. \A b \in GetActiveByGame(current) : bets[b].status = "ACTIVE"
    BY DEF GetActiveByGame
  <2>2. \A b \in Bets : bets[b] \in BetRow
    BY <1>1 DEF EngineTypes
  <2> QED BY <1>3, <1>4, <2>1, <2>2
<1>6. EngineTypes'
  BY <1>1, <1>2, <1>5 DEF EngineTypes
<1>7. SameRows /\ \A b \in Bets : bets[b].status = "CASHED_OUT" => bets'[b] = bets[b]
  BY <1>5 DEF SameRows
<1> QED BY <1>1, <1>2, <1>6, <1>7, Harmlessly DEF SafeHands, Harmless

-----------------------------------------------------------------------------
(* Every step, and what follows.                                           *)

\* A cashed-out bet stands.
Stands == \A b \in Bets : bets[b].status = "CASHED_OUT" => bets'[b] = bets[b]

LEMMA InsertBetStands ==
  ASSUME EngineInv, InsertBet  PROVE Stands
<1>1. proc[0].at = "bet" /\ EngineTypes
  BY DEF InsertBet, EngineInv
<1>2. bets[proc[0].req].status = "NONE"
  BY <1>1 DEF EngineInv, QueueInv, Pending, Placed
<1>3. \A b \in Bets \ {proc[0].req} : bets'[b] = bets[b]
  BY <1>1 DEF InsertBet, store, EngineTypes
<1> QED BY <1>2, <1>3 DEF Stands

LEMMA SharedStep ==
  ASSUME EngineInv, NEW p \in Procs, Shared(p)  PROVE EngineInv' /\ Stands
<1>1. Bystanders /\ EngineTypes' /\ Hands
  BY TickType, GameType DEF Shared, EngineInv
<1> QED BY <1>1, Bystanding DEF Bystanders, Stands

LEMMA LoopStep ==
  ASSUME EngineInv, NEW g \in Rounds, Loop(g)  PROVE EngineInv' /\ Stands
<1>1. g \in Procs
  BY CrashEngineAssumption DEF Procs, Rounds
<1>2. CASE Shared(g)
  BY <1>1, <1>2, SharedStep
<1>3. CASE LoopStart(g) \/ LoopCancelled(g) \/ LoopCheck(g)
  <2>1. Bystanders /\ EngineTypes' /\ Hands
    BY <1>3, LoopType DEF EngineInv
  <2> QED BY <2>1, Bystanding DEF Bystanders, Stands
<1> QED BY <1>2, <1>3 DEF Loop

LEMMA CallerStep ==
  ASSUME EngineInv, NEW r \in EngineRequests, Caller(r)  PROVE EngineInv' /\ Stands
<1>1. EngineInv'
  BY StartGameStep, SendStartStep, PlaceBetStep, CashoutStep, TimeoutStep DEF Caller
<1>2. bets' = bets
  BY DEF Caller, StartGame, SendStart, PlaceBet, Cashout, Timeout, store
<1> QED BY <1>1, <1>2 DEF Stands

LEMMA ManagerStep ==
  ASSUME EngineInv, Manager  PROVE EngineInv' /\ Stands
<1>1. CASE TakesBet
  BY <1>1, TakesBetStep DEF TakesBet, store, Stands
<1>2. CASE InsertBet
  BY <1>2, InsertBetStep, InsertBetStands
<1>3. CASE TakesCashout
  BY <1>3, TakesCashoutStep DEF TakesCashout, store, Stands
<1>4. CASE ReadOdds
  BY <1>4, ReadOddsStep DEF ReadOdds, store, Stands
<1>5. CASE AtomicCashout
  BY <1>5, AtomicCashoutStep DEF Stands
<1>6. CASE TakesStart
  <2>1. Bystanders /\ EngineTypes' /\ Hands
    BY <1>6, StartType DEF EngineInv, Hands
  <2> QED BY <2>1, Bystanding DEF Bystanders, Stands
<1>7. CASE TakesCrash
  BY <1>7, TakesCrashStep DEF TakesCrash, store, Stands
<1>8. CASE Settle
  BY <1>8, SettleStep DEF Stands
<1> QED BY <1>1, <1>2, <1>3, <1>4, <1>5, <1>6, <1>7, <1>8 DEF Manager

LEMMA EngineStep ==
  ASSUME EngineInv, [EngineNext]_engineVars  PROVE EngineInv' /\ Stands
<1>1. CASE Manager
  BY <1>1, ManagerStep
<1>2. CASE Shared(0)
  <2>1. 0 \in Procs
    BY CrashEngineAssumption DEF Procs
  <2> QED BY <1>2, <2>1, SharedStep
<1>3. CASE Pass
  <2>1. Bystanders /\ EngineTypes' /\ Hands
    BY <1>3, PassType DEF EngineInv
  <2> QED BY <2>1, Bystanding DEF Bystanders, Stands
<1>4. CASE \E g \in Rounds : Loop(g)
  BY <1>4, LoopStep
<1>5. CASE \E r \in EngineRequests : Caller(r)
  BY <1>5, CallerStep
<1>6. CASE UNCHANGED engineVars
  <2>1. /\ Bystanders /\ Hands /\ UNCHANGED <<current, round, games, proc>>
    BY <1>6 DEF engineVars, pointers, channels, store, Bystanders, Hands
  <2>2. EngineTypes'
    BY <2>1 DEF EngineInv, EngineTypes, Bystanders
  <2> QED BY <2>1, <2>2, Bystanding DEF Bystanders, Stands
<1> QED BY <1>1, <1>2, <1>3, <1>4, <1>5, <1>6 DEF EngineNext

LEMMA EngineStart ==
  ASSUME EngineInit  PROVE EngineInv
<1>1. /\ current = 0 /\ round = 0 /\ games = [g \in Rounds |-> NoGame]
      /\ proc = [p \in Procs |-> IF p = 0 THEN [Idle EXCEPT !.at = "select"] ELSE Idle]
      /\ betChan = <<>> /\ cashChan = <<>>
      /\ bets = [b \in Bets |-> NoBet] /\ balance = Opening
  BY DEF EngineInit
<1>2. 0 \in Procs /\ Idle \in Goroutine /\ "select" \in Places
  BY CrashEngineAssumption DEF Procs, Idle, Goroutine, Places
<1>3. proc \in [Procs -> Goroutine] /\ proc[0].at = "select"
  BY <1>1, <1>2, Moved
<1>4. NoBet \in BetRow /\ NoBet.status = "NONE" /\ NoGame \in Game
  BY <1>2 DEF NoBet, BetRow, NoGame, Game, GameStatuses
<1>5. bets \in [Bets -> BetRow] /\ (\A b \in Bets : bets[b].status = "NONE")
      /\ games \in [Rounds -> Game]
  BY <1>1, <1>4
<1>6. reply \in [EngineRequests -> {"idle", "none"}]
  BY DEF EngineInit
<1>7. EngineTypes
  <2>1. balance \in [Users -> Int]
    BY <1>1, CrashEngineAssumption
  <2>2. reply \in [EngineRequests -> Replies]
    BY <1>6 DEF Replies
  <2>3. betChan \in Seq(Bets) /\ cashChan \in Seq(Cashouts)
    BY <1>1
  <2> QED BY <1>1, <1>2, <1>3, <1>5, <2>1, <2>2, <2>3 DEF EngineTypes
<1>8. QueueInv
  BY <1>1, <1>3, <1>5 DEF QueueInv, Placed
<1>9. \A r \in EngineRequests : reply[r] \notin {"ok", "refused"}
  BY <1>6
<1>10. CashoutsInv
  BY <1>9, Kinds DEF CashoutsInv
<1>11. StakesTaken
  <2>1. \A u \in Users : Sum(Amount, MineIn(bets, u)) = 0
    <3>1. \A u \in Users : MineIn(bets, u) = {}
      BY <1>5 DEF MineIn
    <3> QED BY <3>1, SumEmpty
  <2>2. Balanced(bets, balance)
    <3>1. ASSUME NEW u \in Users
          PROVE  balance[u] >= 0 /\ balance[u] = Opening[u] - Sum(Amount, MineIn(bets, u))
      <4>1. balance[u] = Opening[u] /\ Opening[u] \in Nat
        BY <1>1, CrashEngineAssumption
      <4>2. Sum(Amount, MineIn(bets, u)) = 0
        BY <2>1
      <4> QED BY <4>1, <4>2
    <3> QED BY <3>1 DEF Balanced
  <2>3. Truthful(bets, reply)
    BY <1>9, Kinds DEF Truthful
  <2> QED BY <1>7, <2>2, <2>3, StakesTakenNow DEF EngineTypes
<1> QED BY <1>7, <1>8, <1>10, <1>11 DEF EngineInv

\* Every run keeps the invariant.
LEMMA EngineKept == EngineSpec => []EngineInv
<1>1. EngineInit => EngineInv
  BY EngineStart
<1>2. EngineInv /\ [EngineNext]_engineVars => EngineInv'
  BY EngineStep
<1> QED BY <1>1, <1>2, PTL DEF EngineSpec

\* Every wallet of the crash game is its opening balance less the stakes of the bets in
\* the table, and never negative, whatever arrives, crashes, times out or fails in
\* between, a commit whose answer was lost included (handlePlaceBet,
\* CreateBetWithWalletUpdate).  Who was told that a bet stands has its row; who was
\* refused for the amount or for want of a running game has none; who was told of an
\* error or of nothing may have one, with its stake taken.
THEOREM StakesAreTaken == EngineSpec => []StakesTaken
<1>1. EngineInv => StakesTaken
  BY DEF EngineInv
<1> QED BY <1>1, EngineKept, PTL

\* A bet cashed out keeps its odds and payout through later cash-outs, the crash and the
\* settlement, and one caller at most was told of it (AtomicCashout, settleBets).
THEOREM CashOutsStand == EngineSpec => CashedOutIsFinal
<1> DEFINE Told == \A c, d \in Cashouts :
             reply[c] = "ok" /\ reply[d] = "ok" /\ Wanted[c] = Wanted[d] => c = d
<1>1. EngineInv => Told
  BY DEF EngineInv, CashoutsInv
<1>2. EngineInv /\ [EngineNext]_engineVars =>
        [\A b \in Bets : bets[b].status = "CASHED_OUT" => bets'[b] = bets[b]]_engineVars
  BY EngineStep DEF Stands
<1> QED BY <1>1, <1>2, EngineKept, PTL DEF EngineSpec, CashedOutIsFinal
====
