------------------------------ MODULE Jackpots ------------------------------
(***************************************************************************)
(* JackpotService (internal/jackpots): tickets are bought and jackpots are *)
(* drawn by separate reads and whole-row writes, with no lock taken.  The  *)
(* repository and the wallet are interfaces; every call of them may fail,  *)
(* and may report an error of what it has done.                            *)
(***************************************************************************)
EXTENDS Naturals, FiniteSets, Functions

CONSTANTS
  Pots,              \* the jackpots
  Buys, Draws,       \* the calls of PurchaseTicket and of DrawJackpot
  Combos,            \* the valid sets of six numbers; any other is "invalid"
  Stakes, MinTicket, MaxTicket, Rate,  \* the bets; Rate is a percentage
  StartAmounts             \* the amounts, in hundredths, a jackpot is created with

ASSUME JackpotsAssumption ==
  /\ Stakes \subseteq Nat \ {0} /\ MinTicket \in Nat \ {0} /\ MaxTicket \in Nat
  /\ Rate \in 1 .. 100 /\ StartAmounts \subseteq Nat /\ "invalid" \notin Combos
  /\ IsFiniteSet(Buys)

VARIABLES
  pot,     \* the rows of jackpots
  ticket,  \* the row of the ticket each purchase makes
  buy,     \* each PurchaseTicket: where it is and the jackpot it read
  draw,    \* each DrawJackpot: where it is, the jackpot it read, its winner
  credits, \* the prizes the wallet took: of which draw, ticket and amount
  start,   \* the amount each jackpot was created with
  crossed  \* the jackpots two draws of which overlapped

jackpotVars == <<pot, ticket, buy, draw, credits, start, crossed>>

NoPot == [status |-> "none", amount |-> 0, winner |-> "none"]
NoTicket == [status |-> "none", pot |-> "none", combo |-> "none", stake |-> 0, prize |-> 0]
Contribution(stake) == stake * Rate

JackpotInit ==
  /\ pot = [p \in Pots |-> NoPot] /\ ticket = [b \in Buys |-> NoTicket]
  /\ buy = [b \in Buys |-> [at |-> "new", ask |-> NoTicket, seen |-> NoPot]]
  /\ draw = [d \in Draws |-> [at |-> "new", pot |-> "none", seen |-> NoPot, winner |-> "none"]]
  /\ credits = {} /\ start = [p \in Pots |-> 0] /\ crossed = {}

\* validateJackpot refuses a bad configuration; CurrentAmount is the caller's, not the seed.
CreateJackpot(p) ==
  /\ pot[p].status = "none" /\ MinTicket <= MaxTicket
  /\ \E a \in StartAmounts :
       /\ pot' = [pot EXCEPT ![p] = [status |-> "ACTIVE", amount |-> a, winner |-> "none"]]
       /\ start' = [start EXCEPT ![p] = a]
  /\ UNCHANGED <<ticket, buy, draw, credits, crossed>>

-----------------------------------------------------------------------------
(* PurchaseTicket.  The player's wallet is not debited.                    *)

validateTicketPurchase(row, t) ==
  /\ row.status = "ACTIVE" /\ MinTicket <= t.stake /\ t.stake <= MaxTicket /\ t.combo \in Combos

ReadPot(b) ==
  /\ buy[b].at = "new"
  /\ \E p \in Pots, c \in Combos \cup {"invalid"}, k \in Stakes :
       LET t == [status |-> "ACTIVE", pot |-> p, combo |-> c, stake |-> k, prize |-> 0]
       IN  buy' = [buy EXCEPT ![b] =
                     IF validateTicketPurchase(pot[p], t)
                     THEN [at |-> "ticket", ask |-> t, seen |-> pot[p]]
                     ELSE [@ EXCEPT !.at = "refused"]]
  /\ UNCHANGED <<pot, ticket, draw, credits, start, crossed>>

PurchaseFails(b) ==
  /\ buy[b].at \in {"ticket", "pot"} /\ buy' = [buy EXCEPT ![b].at = "failed"]
  /\ UNCHANGED <<pot, ticket, draw, credits, start, crossed>>

CreateTicket(b) ==
  /\ buy[b].at = "ticket"
  /\ ticket' = [ticket EXCEPT ![b] = buy[b].ask]
  /\ \E at \in {"pot", "failed"} : buy' = [buy EXCEPT ![b].at = at]
  /\ UNCHANGED <<pot, draw, credits, start, crossed>>

\* Update writes the row as it was read, with the contribution added.
AddContribution(b) ==
  LET t == buy[b].ask
  IN  /\ buy[b].at = "pot"
      /\ pot' = [pot EXCEPT ![t.pot] = [buy[b].seen EXCEPT !.amount = @ + Contribution(t.stake)]]
      /\ \E at \in {"bought", "failed"} : buy' = [buy EXCEPT ![b].at = at]
      /\ UNCHANGED <<ticket, draw, credits, start, crossed>>

-----------------------------------------------------------------------------
(* DrawJackpot looks at no status, and at no draw that runs beside it.     *)

Drawing(d) == draw[d].at \in {"tickets", "mark", "pay", "write"}

ReadPotToDraw(d) ==
  /\ draw[d].at = "new"
  /\ \E p \in Pots :
       /\ pot[p].status # "none"
       /\ draw' = [draw EXCEPT ![d] = [at |-> "tickets", pot |-> p, seen |-> pot[p], winner |-> "none"]]
       /\ crossed' = IF \E e \in Draws \ {d} : Drawing(e) /\ draw[e].pot = p
                     THEN crossed \cup {p} ELSE crossed
  /\ UNCHANGED <<pot, ticket, buy, credits, start>>

GetActiveTickets(p) == {b \in Buys : ticket[b].status = "ACTIVE" /\ ticket[b].pot = p}

\* Any set may be drawn; the winner is the first ticket with it, in an order the
\* repository does not promise.
findWinner(these, drawn) == {b \in these : ticket[b].combo = drawn}

DrawNumbers(d) ==
  LET these == GetActiveTickets(draw[d].pot)
  IN  /\ draw[d].at = "tickets"
      /\ IF these = {} THEN draw' = [draw EXCEPT ![d].at = "failed"]
         ELSE \E drawn \in Combos \cup {"invalid"} :
                IF findWinner(these, drawn) = {} THEN draw' = [draw EXCEPT ![d].at = "write"]
                ELSE \E b \in findWinner(these, drawn) :
                       draw' = [draw EXCEPT ![d].at = "mark", ![d].winner = b]
      /\ UNCHANGED <<pot, ticket, buy, credits, start, crossed>>

MarkWinner(d) ==
  LET b == draw[d].winner
  IN  /\ draw[d].at = "mark"
      /\ ticket' = [ticket EXCEPT ![b].status = "WINNER", ![b].prize = draw[d].seen.amount]
      /\ \E at \in {"pay", "failed"} : draw' = [draw EXCEPT ![d].at = at]
      /\ UNCHANGED <<pot, buy, credits, start, crossed>>

CreditWinner(d) ==
  /\ draw[d].at = "pay"
  /\ credits' = credits \cup {[draw |-> d, ticket |-> draw[d].winner, amount |-> draw[d].seen.amount]}
  /\ \E at \in {"write", "failed"} : draw' = [draw EXCEPT ![d].at = at]
  /\ UNCHANGED <<pot, ticket, buy, start, crossed>>

\* The row is written back as it was read: completed, or with a later draw time.
WriteDraw(d) ==
  LET w == draw[d].winner
  IN  /\ draw[d].at = "write"
      /\ pot' = [pot EXCEPT ![draw[d].pot] = IF w = "none" THEN draw[d].seen
                   ELSE [draw[d].seen EXCEPT !.status = "COMPLETED", !.winner = w]]
      /\ \E at \in {"drawn", "failed"} : draw' = [draw EXCEPT ![d].at = at]
      /\ UNCHANGED <<ticket, buy, credits, start, crossed>>

DrawFails(d) ==
  /\ Drawing(d) /\ draw' = [draw EXCEPT ![d].at = "failed"]
  /\ UNCHANGED <<pot, ticket, buy, credits, start, crossed>>

Purchase(b) == ReadPot(b) \/ CreateTicket(b) \/ AddContribution(b) \/ PurchaseFails(b)
DrawJackpot(d) ==
  ReadPotToDraw(d) \/ DrawNumbers(d) \/ MarkWinner(d) \/ CreditWinner(d) \/ WriteDraw(d) \/ DrawFails(d)
JackpotNext ==
  \/ \E p \in Pots : CreateJackpot(p)
  \/ \E b \in Buys : Purchase(b)
  \/ \E d \in Draws : DrawJackpot(d)
JackpotSpec == JackpotInit /\ [][JackpotNext]_jackpotVars

-----------------------------------------------------------------------------
Contributions == [b \in Buys |-> Contribution(ticket[b].stake)]
Contributed(p) == SumFunctionOnSet(Contributions, {b \in Buys : ticket[b].pot = p})

\* Whatever purchases and draws overlap or fail, contributions overwritten and jackpots
\* written back as active included, no prize exceeds what the jackpot began with and its
\* saved tickets contributed, and it goes to a ticket marked as the winner.  A ticket is
\* paid once, over any number of draws, unless two draws of its jackpot overlapped.
\* (That no contribution is lost, and that a drawn jackpot is not opened again, is not
\* promised: the code keeps neither when calls overlap.)
PrizesAreCovered ==
  /\ \A x \in credits :
       LET t == ticket[x.ticket]
       IN  t.status = "WINNER" /\ x.amount <= start[t.pot] + Contributed(t.pot)
  /\ \A x, y \in credits :
       x.ticket = y.ticket /\ ticket[x.ticket].pot \notin crossed => x = y
=============================================================================
