---------------------------- MODULE CatalogRows ----------------------------
(***************************************************************************)
(* The rows of the sports catalogue: match_repository.go with              *)
(* match_query.go, betting_market_repository.go and                        *)
(* market_outcome_repository.go.  Who calls them is outside src; a caller  *)
(* may change a match it has read and write it back.                       *)
(***************************************************************************)
EXTENDS Integers, FiniteSets

CONSTANTS
  Games,    \* the ids of matches; each has one market, with one outcome
  Goals,    \* bound: the scores
  Editors   \* the callers

ASSUME CatalogAssumption == Goals \subseteq Nat /\ 0 \in Goals /\ Games # {}

VARIABLES
  event,    \* rows of sport_events: status, score, team names
  market,   \* of each match the status of its market, or none
  outcome,  \* of each match its outcome: status and whether settled_at is set
  editor,   \* each caller: what its last call answered, the match it has read
  written   \* of each match: the score last asked for, whether a copy spoilt the row

catalogVars == <<event, market, outcome, editor, written>>

Null == -1
NoEvent == [status |-> "none", score |-> Null, teams |-> FALSE]
NoCopy == [answer |-> "none", match |-> CHOOSE x \in Games : TRUE, copy |-> NoEvent, fresh |-> FALSE]
NoOutcome == [status |-> "none", dated |-> FALSE]

CatalogInit ==
  /\ event = [x \in Games |-> NoEvent] /\ market = [x \in Games |-> "none"]
  /\ outcome = [x \in Games |-> NoOutcome]
  /\ editor = [e \in Editors |-> NoCopy]
  /\ written = [x \in Games |-> [score |-> Null, spoilt |-> FALSE]]

There(x) == event[x] # NoEvent
Answer(e, a) == editor' = [editor EXCEPT ![e].answer = a]
Holds(e, x, m) == editor' = [editor EXCEPT ![e] = [answer |-> "match", match |-> x, copy |-> m, fresh |-> TRUE]]
\* A call that changes the row of x leaves every copy of it stale.
Changed(e, x) == editor' = [f \in Editors |->
  [editor[f] EXCEPT !.answer = IF f = e THEN "ok" ELSE @, !.fresh = @ /\ editor[f].match # x]]
Score(x, s) ==
  /\ event' = [event EXCEPT ![x].score = s]
  /\ written' = [written EXCEPT ![x].score = s]

\* A match without a score makes Create panic.
CreateMatch(e, x, s) ==
  /\ IF s = Null THEN Answer(e, "panic") /\ UNCHANGED <<event, written>>
     ELSE IF There(x) THEN Answer(e, "error") /\ UNCHANGED <<event, written>>
     ELSE /\ Changed(e, x)
          /\ event' = [event EXCEPT ![x] = [status |-> "SCHEDULED", score |-> s, teams |-> TRUE]]
          /\ written' = [written EXCEPT ![x] = [score |-> s, spoilt |-> FALSE]]
  /\ UNCHANGED <<market, outcome>>

\* A null score does not scan; a score of nil all is no score; the teams are dropped.
GetByID(e, x) ==
  /\ IF ~There(x) \/ event[x].score = Null THEN Answer(e, "error")
     ELSE Holds(e, x, [event[x] EXCEPT !.teams = FALSE, !.score = IF @ = 0 THEN Null ELSE @])
  /\ UNCHANGED <<event, market, outcome, written>>

GetByEventID(e, x) ==
  /\ IF There(x) THEN Holds(e, x, event[x]) ELSE Answer(e, "error")
  /\ UNCHANGED <<event, market, outcome, written>>
scanMatches(e, x) == There(x) /\ GetByEventID(e, x)
GetLiveMatches(e, x) == event[x].status = "LIVE" /\ scanMatches(e, x)
GetBySport(e, x) == scanMatches(e, x)

\* The whole row becomes the copy, with a new status.
UpdateMatch(e, s) ==
  LET x == editor[e].match
  IN  /\ editor[e].copy # NoEvent /\ Changed(e, x)
      /\ IF There(x)
         THEN /\ event' = [event EXCEPT ![x] = [editor[e].copy EXCEPT !.status = s]]
              /\ written' = [written EXCEPT ![x].spoilt = @ \/ ~editor[e].copy.teams \/ ~editor[e].fresh]
         ELSE UNCHANGED <<event, written>>
      /\ UNCHANGED <<market, outcome>>

\* An UPDATE or DELETE of a row that is not there succeeds and changes nothing.
UpdateStatus(e, x, s) ==
  /\ event' = IF There(x) THEN [event EXCEPT ![x].status = s] ELSE event
  /\ Changed(e, x) /\ UNCHANGED <<market, outcome, written>>
UpdateScore(e, x, s) ==
  /\ IF There(x) THEN Score(x, s) ELSE UNCHANGED <<event, written>>
  /\ Changed(e, x) /\ UNCHANGED <<market, outcome>>

\* Markets and outcomes go with their match.
DeleteMatch(e, x) ==
  /\ Changed(e, x)
  /\ event' = [event EXCEPT ![x] = NoEvent] /\ market' = [market EXCEPT ![x] = "none"]
  /\ outcome' = [outcome EXCEPT ![x] = NoOutcome]
  /\ UNCHANGED written

HasMarket(x) == market[x] # "none"
Market(e, x, s) ==
  /\ market' = [market EXCEPT ![x] = s] /\ Answer(e, "ok")
  /\ UNCHANGED <<event, outcome, written>>
\* An error where the match is not there or the market is.
CreateMarket(e, x) ==
  \/ There(x) /\ ~HasMarket(x) /\ Market(e, x, "OPEN")
  \/ (HasMarket(x) \/ ~There(x)) /\ Answer(e, "error") /\ UNCHANGED <<event, market, outcome, written>>
\* UpdateMarketStatus is the repository's UpdateStatus.
UpdateMarketStatus(e, x, s) == Market(e, x, IF HasMarket(x) THEN s ELSE "none")
UpdateMarket(e, x, s) == UpdateMarketStatus(e, x, s)
DeleteMarket(e, x) ==
  /\ Answer(e, "ok")
  /\ market' = [market EXCEPT ![x] = "none"] /\ outcome' = [outcome EXCEPT ![x] = NoOutcome]
  /\ UNCHANGED <<event, written>>
\* Ten columns are scanned into nine variables: any row is an error, no row an empty list.
Listed10(e, found, none) ==
  /\ Answer(e, IF found THEN "error" ELSE none)
  /\ UNCHANGED <<event, market, outcome, written>>
GetMarketByID(e, x) == Listed10(e, HasMarket(x), "error")
GetMarkets(e, x) == Listed10(e, HasMarket(x), "empty")
GetActiveMarkets(e) == Listed10(e, \E x \in Games : market[x] = "OPEN", "empty")

HasOutcome(x) == outcome[x] # NoOutcome
Outcome(e, x, o) ==
  /\ outcome' = [outcome EXCEPT ![x] = o] /\ Answer(e, "ok")
  /\ UNCHANGED <<event, market, written>>
Dated(s) == [status |-> s, dated |-> s \in {"WON", "LOST"}]
CreateOutcome(e, x, s) ==
  \/ HasMarket(x) /\ ~HasOutcome(x) /\ Outcome(e, x, Dated(s))
  \/ (HasOutcome(x) \/ ~HasMarket(x)) /\ Answer(e, "error") /\ UNCHANGED <<event, market, outcome, written>>
UpdateOutcome(e, x, s) == Outcome(e, x, IF HasOutcome(x) THEN Dated(s) ELSE NoOutcome)
\* The date stays as it was.
UpdateOutcomeStatus(e, x, s) ==
  Outcome(e, x, IF HasOutcome(x) THEN [outcome[x] EXCEPT !.status = s] ELSE NoOutcome)
\* The odds are not modelled.
UpdateOdds(e, x) == Outcome(e, x, outcome[x])
DeleteOutcome(e, x) == Outcome(e, x, NoOutcome)
\* Eleven columns into ten variables.
Listed11(e, found, none) == Listed10(e, found, none)
GetOutcomeByID(e, x) == Listed11(e, HasOutcome(x), "error")
GetOutcomes(e, x) == Listed11(e, HasOutcome(x), "empty")
GetActiveOutcomes(e) == Listed11(e, \E x \in Games : outcome[x].status = "PENDING", "empty")

Scores == Goals \cup {Null}
OnMatch(e, x) ==
  \/ GetByID(e, x) \/ GetByEventID(e, x) \/ GetLiveMatches(e, x) \/ GetBySport(e, x) \/ DeleteMatch(e, x)
  \/ \E s \in Scores : CreateMatch(e, x, s) \/ UpdateScore(e, x, s)
  \/ \E s \in {"SCHEDULED", "LIVE"} : UpdateStatus(e, x, s)
OnMarket(e, x) ==
  \/ CreateMarket(e, x) \/ DeleteMarket(e, x) \/ GetMarketByID(e, x) \/ GetMarkets(e, x)
  \/ \E s \in {"SUSPENDED", "OPEN"} : UpdateMarket(e, x, s) \/ UpdateMarketStatus(e, x, s)
OnOutcome(e, x) ==
  \/ DeleteOutcome(e, x) \/ GetOutcomeByID(e, x) \/ GetOutcomes(e, x) \/ UpdateOdds(e, x)
  \/ \E s \in {"PENDING", "WON"} : CreateOutcome(e, x, s) \/ UpdateOutcome(e, x, s) \/ UpdateOutcomeStatus(e, x, s)
CatalogNext ==
  \E e \in Editors : \/ \E s \in {"SCHEDULED", "LIVE"} : UpdateMatch(e, s)
                     \/ GetActiveMarkets(e) \/ GetActiveOutcomes(e)
                     \/ \E x \in Games : OnMatch(e, x) \/ OnMarket(e, x) \/ OnOutcome(e, x)
CatalogSpec == CatalogInit /\ [][CatalogNext]_catalogVars

-----------------------------------------------------------------------------
\* Unless a copy read by GetByID, or read before the row changed, was written over it, a
\* match keeps its teams and the score last asked for; an outcome goes with its market,
\* the market with its match.
CatalogKept ==
  \A x \in Games :
    /\ There(x) /\ ~written[x].spoilt => event[x].teams /\ event[x].score = written[x].score
    /\ (HasOutcome(x) => HasMarket(x)) /\ (HasMarket(x) => There(x))
=============================================================================
