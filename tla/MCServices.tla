----------------------------- MODULE MCServices -----------------------------
(***************************************************************************)
(* The Go processes, one at a time: a service of cmd/ from main to exit,   *)
(* the crash game's goroutines, an id generator, the landing page's leads. *)
(* They share no variable, so one run picks one of them and lets it go.    *)
(***************************************************************************)
EXTENDS HttpService, CrashEngine, Ids, Leads

CONSTANTS ana, b1, b2, c1, c2, s1, s2

VARIABLE active  \* the process this behaviour is about

MCOpening == [u \in Users |-> 3000]
MCUserOf == [b \in Bets |-> ana]
MCAmount == [b \in Bets |-> 2000]
MCWanted == [c \in Cashouts |-> b1]
MCCountries == {"KE"}
MCRegimes == [c \in MCCountries |-> [stakeRate |-> 1500, winningsRate |-> 2000, threshold |-> 0]]
MCCallSets == {{s1, s2}, {s1, b1, b2}, {s1, b1, c1, c2}}
MCDraws == {<<0, 1>>, <<50, 1>>}

MCWorkerOf == [g \in Generators |-> ServiceWorker("edit")]
MCDigits == [p \in Phones |-> CASE p = "mobile" -> 11 [] p = "landline" -> 10 [] p = "short" -> 9]

servicesVars == <<active, httpVars, engineVars, idsVars, leadsVars>>

ServicesInit ==
  /\ active \in {"service", "engine", "ids", "leads"}
  /\ HttpInit /\ EngineInit /\ IdsInit /\ LeadsInit
  /\ active = "engine" \/ \A s \in Starters : reply[s] = "idle"

ServicesNext ==
  /\ UNCHANGED active
  /\ \/ active = "service" /\ HttpNext /\ UNCHANGED <<engineVars, idsVars, leadsVars>>
     \/ active = "engine" /\ EngineNext /\ UNCHANGED <<httpVars, idsVars, leadsVars>>
     \/ active = "ids" /\ IdsNext /\ UNCHANGED <<httpVars, engineVars, leadsVars>>
     \/ active = "leads" /\ LeadsNext /\ UNCHANGED <<httpVars, engineVars, idsVars>>

ServicesSpec ==
  /\ ServicesInit /\ [][ServicesNext]_servicesVars
  /\ active = "service" => HttpFairness
  /\ active = "engine" => EngineFairness
=============================================================================
