--------------------------- MODULE VirtualSports ---------------------------
(***************************************************************************)
(* The virtual games (internal/virtualsports): every operation holds the   *)
(* service's lock, and none of them sets the status "upcoming" that the    *)
(* start of a game and its bets ask for.                                   *)
(***************************************************************************)
EXTENDS Naturals, FiniteSets

CONSTANTS
  Virtuals,    \* the games
  Punts,       \* the calls
  PuntAmounts  \* bound: their amounts

ASSUME VirtualAssumption == PuntAmounts \subseteq Nat

VARIABLES
  virtual,  \* the status of each game in the map, or none
  punt,     \* the answer of each call
  taken     \* what the wallet was debited

virtualVars == <<virtual, punt, taken>>
VirtualInit == virtual = [g \in Virtuals |-> "none"] /\ punt = [p \in Punts |-> "none"] /\ taken = 0

AsScheduled(g) == virtual' = [virtual EXCEPT ![g] = "SCHEDULED"]
CreateVirtualGame(g) == virtual[g] = "none" /\ AsScheduled(g) /\ UNCHANGED <<punt, taken>>

StartGame(p, g) ==
  /\ punt[p] = "none"
  /\ IF virtual[g] = "upcoming" THEN virtual' = [virtual EXCEPT ![g] = "live"] /\ punt' = [punt EXCEPT ![p] = "ok"]
     ELSE punt' = [punt EXCEPT ![p] = "error"] /\ UNCHANGED virtual
  /\ UNCHANGED taken

\* The market has to be the game's; the odds are the caller's.
PlaceVirtualBet(p, g) ==
  /\ punt[p] = "none"
  /\ \E a \in PuntAmounts, moneyline, refused \in BOOLEAN :
       IF virtual[g] # "upcoming" \/ ~moneyline \/ refused
       THEN punt' = [punt EXCEPT ![p] = "refused"] /\ UNCHANGED taken
       ELSE punt' = [punt EXCEPT ![p] = "ok"] /\ taken' = taken + a
  /\ UNCHANGED virtual

GetActiveGames == {g \in Virtuals : virtual[g] \in {"live", "upcoming"}}
VirtualNext ==
  \/ \E g \in Virtuals : CreateVirtualGame(g)
  \/ \E g \in Virtuals, p \in Punts : StartGame(p, g) \/ PlaceVirtualBet(p, g)
VirtualSpec == VirtualInit /\ [][VirtualNext]_virtualVars

-----------------------------------------------------------------------------
\* As no game becomes upcoming, none is ever active, no call succeeds and no stake is taken.
VirtualGamesStayShut ==
  GetActiveGames = {} /\ taken = 0 /\ \A p \in Punts : punt[p] # "ok"
=============================================================================
