----------------------------- MODULE SportBets -----------------------------
(***************************************************************************)
(* Sport bets: placed live (internal/sports/live), edited for five minutes *)
(* (internal/sports/edit) and marked settled (SportBetRepository).  The    *)
(* wallet is external: what it took and gave back for a bet is counted.    *)
(* No code fills liveMatches: Listed is what the map holds.                *)
(***************************************************************************)
EXTENDS Integers, FiniteSets

CONSTANTS
  Slips,          \* the bets
  Listed, Matches,\* the matches in liveMatches, among those asked for
  Amounts,        \* bound: the stakes asked for, of either sign: no code looks at them
  Edits           \* the calls of EditBet

ASSUME SportBetsAssumption ==
  Listed \subseteq Matches /\ Amounts \subseteq Int

VARIABLES
  row,      \* sport_bets: status, amount, settlement_reason and match of each bet
  shut,     \* bets placed more than five minutes ago, and matches started
  place,    \* PlaceLiveBet of each bet, between its check and its insert
  edit,     \* each call of EditBet: where it is and the bet as it read it
  money,    \* of each bet: what it was placed for, debits and credits of its edits
  untidy,   \* bets whose edits overlapped, or moved money and wrote no row
  suspended \* the live matches suspended

sportVars == <<row, shut, place, edit, money, untidy, suspended>>

NoRow == [status |-> "none", amount |-> 0, reason |-> "", match |-> "none"]
NoEdit == [at |-> "new", slip |-> "none", seen |-> NoRow, amount |-> 0]
Settled == {"WON", "LOST", "VOID"}

SportInit ==
  /\ row = [s \in Slips |-> NoRow] /\ shut = {}
  /\ place = [s \in Slips |-> [at |-> "new", match |-> "none", amount |-> 0]]
  /\ edit = [e \in Edits |-> NoEdit]
  /\ money = [s \in Slips |-> [placed |-> 0, debits |-> 0, credits |-> 0]] /\ untidy = {}
  /\ suspended = {}

-----------------------------------------------------------------------------
(* PlaceLiveBet.  validateLiveOdds accepts everything; no wallet is asked. *)
(* Over HTTP getUserID makes a new "user-..." each time, which is no uuid. *)

CheckLive(s) ==
  /\ place[s].at = "new"
  /\ \E x \in Matches, a \in Amounts, uuid \in BOOLEAN :
       place' = [place EXCEPT ![s] =
         IF x \in Listed \ suspended /\ uuid
         THEN [at |-> "save", match |-> x, amount |-> a]
         ELSE [@ EXCEPT !.at = "refused"]]
  /\ UNCHANGED <<row, shut, edit, money, untidy, suspended>>

\* Create: PENDING, and the empty string as the reason.  The table takes an amount over
\* zero only; the caller may be told of an error after the row was inserted.
Create(s) ==
  /\ place[s].at = "save"
  /\ \/ /\ place[s].amount > 0
        /\ \E answer \in {"placed", "failed"} : place' = [place EXCEPT ![s].at = answer]
        /\ row' = [row EXCEPT ![s] = [status |-> "PENDING", amount |-> place[s].amount,
                                      reason |-> "", match |-> place[s].match]]
        /\ money' = [money EXCEPT ![s].placed = place[s].amount]
     \/ place' = [place EXCEPT ![s].at = "failed"] /\ UNCHANGED <<row, money>>
  /\ UNCHANGED <<shut, edit, untidy, suspended>>

\* The five minutes of a bet pass; a match starts.
Shuts == \E x \in (Slips \cup Listed) \ shut :
  shut' = shut \cup {x} /\ UNCHANGED <<row, place, edit, money, untidy, suspended>>

-----------------------------------------------------------------------------
(* SportBetRepository: the marks look at no status.                        *)

\* A NULL reason does not scan into a string: the bet, and every list it is in, fails.
Readable(s) == row[s].status # "none" /\ row[s].reason # "NULL"

Write(s, r) == row' = [row EXCEPT ![s] = r] /\ UNCHANGED <<shut, place, edit, money, untidy, suspended>>
StoredSlips == {s \in Slips : row[s].status # "none"}
MarkAsWon(s) == s \in StoredSlips /\ Write(s, [row[s] EXCEPT !.status = "WON"])
MarkAsLost(s) == s \in StoredSlips /\ Write(s, [row[s] EXCEPT !.status = "LOST"])
MarkAsVoid(s) == s \in StoredSlips /\ Write(s, [row[s] EXCEPT !.status = "VOID", !.reason = "text"])
Delete(s) == s \in StoredSlips /\ Write(s, NoRow)

\* GetByUserID, GetByEventID, GetByStatus, GetSettledBets: all the rows or an error.
scanBets(these) == IF \A s \in these : Readable(s) THEN these ELSE {}
GetByUserID(status) == scanBets({s \in StoredSlips : row[s].status = status})
SlipsOfMatch(x) == scanBets({s \in StoredSlips : row[s].match = x})
GetSettledBets == scanBets({s \in StoredSlips : row[s].status \in Settled})

canEditBet(s) == row[s].status = "PENDING" /\ s \notin shut
GetEditableBets == {s \in GetByUserID("PENDING") : canEditBet(s) /\ row[s].match \notin shut}

\* A call that lists bets returns the rows or an error, and changes none.
ListBets(e) ==
  /\ edit[e].at = "new"
  /\ \E list \in {GetEditableBets, GetSettledBets} \cup {SlipsOfMatch(x) : x \in Listed} :
       edit' = [edit EXCEPT ![e].at = IF list = {} THEN "nothing" ELSE "listed"]
  /\ UNCHANGED <<row, shut, place, money, untidy, suspended>>

-----------------------------------------------------------------------------
(* EditBet: two reads, a wallet call and a write, with no transaction.     *)

Inside(e) == edit[e].at \in {"match", "pay", "save"}
Others(e, s) == {d \in Edits \ {e} : Inside(d) /\ edit[d].slip = s}

ReadBet(e) ==
  /\ edit[e].at = "new"
  /\ \E s \in Slips, a \in Amounts, mine \in BOOLEAN :
       IF Readable(s) /\ mine /\ canEditBet(s)
       THEN /\ edit' = [edit EXCEPT ![e] =
                          [at |-> "match", slip |-> s, seen |-> row[s], amount |-> a]]
            /\ untidy' = IF Others(e, s) = {} THEN untidy ELSE untidy \cup {s}
       ELSE edit' = [edit EXCEPT ![e].at = "refused"] /\ UNCHANGED untidy
  /\ UNCHANGED <<row, shut, place, money, suspended>>

\* GetByID of the match may fail; its StartTime may have passed.
ReadMatch(e) ==
  /\ edit[e].at = "match"
  /\ edit' \in {[edit EXCEPT ![e].at = at] : at \in
       {"refused"} \cup (IF edit[e].seen.match \in shut THEN {} ELSE {"pay"})}
  /\ UNCHANGED <<row, shut, place, money, untidy, suspended>>

\* Variant with a bug: a smaller bet is debited and a larger one refunded.
DifferenceSwapped(seen, new) ==
  IF seen > new THEN [debit |-> seen - new, credit |-> 0] ELSE [debit |-> 0, credit |-> new - seen]
calculateAmountDifference(seen, new) ==
  IF new > seen THEN [debit |-> new - seen, credit |-> 0] ELSE [debit |-> 0, credit |-> seen - new]

\* processRefund or processAdditionalPayment; the wallet may refuse, and may report an
\* error of a movement it committed.
MoveMoney(e) ==
  LET d == calculateAmountDifference(edit[e].seen.amount, edit[e].amount)
      s == edit[e].slip
      asked == edit[e].seen.amount # edit[e].amount
  IN  /\ edit[e].at = "pay"
      /\ \/ /\ money' = [money EXCEPT ![s].debits = @ + d.debit, ![s].credits = @ + d.credit]
            /\ \/ edit' = [edit EXCEPT ![e].at = "save"] /\ UNCHANGED untidy
               \/ /\ asked /\ edit' = [edit EXCEPT ![e].at = "refused"]
                  /\ untidy' = untidy \cup {s}
         \/ asked /\ edit' = [edit EXCEPT ![e].at = "refused"] /\ UNCHANGED <<money, untidy>>
      /\ UNCHANGED <<row, shut, place, suspended>>

\* Every column is written back as it was read, but the reason: GetByID does not keep
\* the one it scans, and Update writes an empty one as NULL.
createEditedBet(e) == [edit[e].seen EXCEPT !.amount = edit[e].amount, !.reason = "NULL"]

\* The table refuses an amount of zero or less, when the refund has been paid.
SaveEdit(e) ==
  LET s == edit[e].slip
  IN  /\ edit[e].at = "save"
      /\ \/ /\ s \in StoredSlips => edit[e].amount > 0
            /\ \E answer \in {"edited", "failed"} : edit' = [edit EXCEPT ![e].at = answer]
            /\ row' = IF s \in StoredSlips THEN [row EXCEPT ![s] = createEditedBet(e)] ELSE row
            /\ UNCHANGED untidy
         \/ /\ edit' = [edit EXCEPT ![e].at = "failed"]
            /\ untidy' = untidy \cup {s} /\ UNCHANGED row
      /\ UNCHANGED <<shut, place, money, suspended>>

SuspendMatch == \E x \in Listed :
  suspended' = suspended \cup {x} /\ UNCHANGED <<row, shut, place, edit, money, untidy>>

Bet(s) == CheckLive(s) \/ Create(s) \/ MarkAsWon(s) \/ MarkAsLost(s) \/ MarkAsVoid(s) \/ Delete(s)
EditBet(e) == ReadBet(e) \/ ReadMatch(e) \/ MoveMoney(e) \/ SaveEdit(e)

SportNext ==
  \/ \E s \in Slips : Bet(s)
  \/ \E e \in Edits : ListBets(e) \/ EditBet(e)
  \/ Shuts \/ SuspendMatch
SportSpec == SportInit /\ [][SportNext]_sportVars

-----------------------------------------------------------------------------
\* A bet never stands for more than it was placed for and what its edits debited,
\* whatever edits overlap or fail.  It stands for exactly that less the refunds when its
\* edits came one after the other, none of them being between wallet and row, and none
\* moved money without writing the row.  Two edits that overlap refund twice, or pay
\* twice, what one row shows; an edit to zero or less is refunded and not written.
SlipsPaidApart ==
  \A s \in StoredSlips :
    LET m == money[s]
        settling == \E e \in Edits : edit[e].slip = s /\ edit[e].at = "save"
    IN  /\ row[s].amount <= m.placed + m.debits
        /\ s \notin untidy /\ ~settling => row[s].amount + m.credits = m.placed + m.debits
=============================================================================
