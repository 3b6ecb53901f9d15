------------------------------- MODULE Truco -------------------------------
(***************************************************************************)
(* The card game of the platform: app/Services/TrucoEngine.php, the calls  *)
(* of TrucoController that reach it, and the parts of WalletService it     *)
(* uses.  One match is modelled, from the room to the settlement.          *)
(*                                                                         *)
(* Team "us" are the players, team "them" ghosts played by the engine; in  *)
(* a room of four the second seat of "us" is a guest's, or a ghost's when  *)
(* nobody came.  Who wins the match is drawn when it starts (target); the  *)
(* cards only decide how the score gets to 12.                             *)
(*                                                                         *)
(* Every request runs in one transaction that locks the match row, so it   *)
(* is one step, except for what it reads before the lock.  The moves the   *)
(* ghosts make in reply belong to the same transaction: while `ghosts` is  *)
(* TRUE the row is still locked and nothing else can touch the match.      *)
(*                                                                         *)
(* A card is its strength under the turned card (cardStrength): only the   *)
(* comparisons matter.  The exchange of hands that favours the house is    *)
(* one more deal.  Chances are choices.  Names, messages, reactions, what  *)
(* a page shows, the finance ledger and the room code are left out.        *)
(***************************************************************************)
EXTENDS Integers, Sequences, FiniteSets, FiniteSetsExt, SequencesExt

CONSTANTS
  Users,     \* players with an account
  Pages,     \* open pages, each of which sends one request at a time
  Owner,     \* [Pages -> Users]
  Host,      \* the player who opens the match
  Opening,   \* [Users -> balance, bonus]: money before the match
  Stake,     \* the entry of the match, one of STAKES
  Modes,     \* kinds of match that may be opened: "1v1", "2v2"
  Deals      \* [Modes -> sets of deals]; a deal gives every seat its hand

Seats(mode) == IF mode = "1v1" THEN 0..1 ELSE 0..3
HandSize == 3

Nobody == "nobody"
Ghost == "ghost"

ASSUME TrucoAssumption ==
  /\ Owner \in [Pages -> Users]
  /\ Host \in Users
  /\ Nobody \notin Users /\ Ghost \notin Users
  /\ Opening \in [Users -> [balance : Nat, bonus : Nat]]
  /\ Stake \in Nat \ {0}
  /\ Modes \subseteq {"1v1", "2v2"}
  /\ \A mode \in Modes :
       Deals[mode] \subseteq [Seats(mode) -> [1..HandSize -> Nat]]

Teams == {"us", "them"}
TeamOf(seat) == IF seat \in {0, 2} THEN "us" ELSE "them"
Rival(team) == IF team = "us" THEN "them" ELSE "us"

VARIABLES
  match,    \* the row of truco_matches, with its JSON column state
  seats,    \* truco_seats: who sits where
  split,    \* what each player's entry took from balance and from bonus
  users,    \* the money columns of table users
  ghosts,   \* the transaction of the last action is open: ghosts to move
  page      \* page[p] = "start": a start request past its unlocked checks

vars == <<match, seats, split, users, ghosts, page>>

NoRaise == [to |-> "us", value |-> 0]
NoSplit == [balance |-> 0, bonus |-> 0]

Cards == Nat
Match(mode) ==
  [mode : {mode},
   status : {"none", "waiting", "playing", "finished", "cancelled"},
   host : Users,
   score : [Teams -> 0..12],
   value : {1, 3, 6, 9, 12},             \* hand_value
   target : Teams,                       \* target_winner
   winner : Teams \cup {Nobody},         \* state.match_winner
   settled : BOOLEAN,                    \* settled_at
   deadline : {"none", "ahead", "over"}, \* turn_deadline
   phase : {"play", "raise", "eleven"},
   turn : 0..3,
   raise : [to : Teams, value : {0, 3, 6, 9, 12}], \* pending_truco
   dark : BOOLEAN,                       \* escuro
   tricks : [Teams -> 0..2],
   hands : [Seats(mode) -> Seq(Cards)],
   table : Seq([seat : 0..3, card : Cards])]

TypeOK ==
  /\ match.mode \in {"1v1", "2v2"}
  /\ match \in Match(match.mode)
  /\ Len(match.table) <= 3
  /\ \A s \in Seats(match.mode) : Len(match.hands[s]) <= HandSize
  /\ seats \in [0..3 -> Users \cup {Nobody, Ghost}]
  /\ split \in [Users -> [balance : Nat, bonus : Nat]]
  /\ users \in [Users -> [balance : Nat, bonus : Nat]]
  /\ ghosts \in BOOLEAN
  /\ page \in [Pages -> {"idle", "start"}]

Init ==
  /\ \E mode \in Modes :
       match = [mode |-> mode, status |-> "none", host |-> Host,
                score |-> [t \in Teams |-> 0], value |-> 1,
                target |-> "them", winner |-> Nobody, settled |-> FALSE,
                deadline |-> "none", phase |-> "play", turn |-> 0,
                raise |-> NoRaise, dark |-> FALSE,
                tricks |-> [t \in Teams |-> 0],
                hands |-> [s \in Seats(mode) |-> <<>>], table |-> <<>>]
  /\ seats = [s \in 0..3 |-> Nobody]
  /\ split = [u \in Users |-> NoSplit]
  /\ users = Opening
  /\ ghosts = FALSE
  /\ page = [p \in Pages |-> "idle"]

-----------------------------------------------------------------------------
(* Money.                                                                  *)

Humans(table) == {u \in Users : \E s \in {0, 2} : table[s] = u}

Affordable(u) == users[u].balance + users[u].bonus >= Stake

\* The entry takes the real balance first and the bonus for the rest.
EntrySplit(u) ==
  LET fromBalance == Min({users[u].balance, Stake})
  IN  [balance |-> fromBalance, bonus |-> Stake - fromBalance]

\* Variant with a bug: only the host pays.
DebitHost(players) ==
  /\ split' = [split EXCEPT ![match.host] = EntrySplit(match.host)]
  /\ users' = [users EXCEPT
                 ![match.host] =
                   [balance |-> @.balance - EntrySplit(match.host).balance,
                    bonus |-> @.bonus - EntrySplit(match.host).bonus]]

\* Every player pays; one who cannot makes the whole transaction fail.
DebitHumans(players) ==
  /\ \A u \in players : Affordable(u)
  /\ split' = [u \in Users |->
                 IF u \in players THEN EntrySplit(u) ELSE split[u]]
  /\ users' = [u \in Users |->
                 IF u \in players
                 THEN [balance |-> users[u].balance - EntrySplit(u).balance,
                       bonus |-> users[u].bonus - EntrySplit(u).bonus]
                 ELSE users[u]]

\* The stake goes back to where it came from and as much again, the profit,
\* to the real balance.
Payout(u) == [balance |-> users[u].balance + split[u].balance + Stake,
              bonus |-> users[u].bonus + split[u].bonus]

\* What the match becomes; when that settles it for the players they are
\* paid in the same transaction.
Become(m) ==
  /\ match' = m
  /\ users' = IF ~match.settled /\ m.settled /\ m.winner = "us"
              THEN [u \in Users |->
                      IF u \in Humans(seats) THEN Payout(u) ELSE users[u]]
              ELSE users
  /\ UNCHANGED <<seats, split>>

-----------------------------------------------------------------------------
(* From one hand to the next.                                              *)

\* The match is settled at most once: a second settlement leaves the row as
\* it was, whatever the request had changed before.
Settle(m, winner) ==
  IF m.settled THEN match
  ELSE [m EXCEPT !.status = "finished", !.settled = TRUE,
                 !.winner = winner, !.deadline = "none",
                 !.score[winner] = 12]

\* A rival with 11 points plays the hand for 3 or runs, giving a point, if
\* the match is to be won by the players; and again, until both have 11.
RivalYields(m) ==
  IF m.score["them"] = 11 /\ m.score["us"] < 11 /\ m.target = "us"
  THEN m.score["us"]..11
  ELSE {m.score["us"]}

\* A hand that the rival plays with 11 points is worth 3, seen or unseen.
HandValue(m, points) == IF m.score["them"] = 11 THEN 3 ELSE m.value

\* Cards are dealt and seat 0 leads.  A team of 11 decides whether to play,
\* and when both have 11 nobody sees his cards.
NewHand(m, points, deal) ==
  [m EXCEPT
     !.score["us"] = points,
     !.value = HandValue(m, points),
     !.phase = IF points = 11 /\ m.score["them"] < 11 THEN "eleven"
               ELSE "play",
     !.dark = points = 11 /\ m.score["them"] = 11,
     !.tricks = [t \in Teams |-> 0],
     !.hands = deal, !.table = <<>>, !.turn = 0, !.raise = NoRaise,
     !.deadline = "ahead"]

NewHands(m) ==
  UNION {{NewHand(m, points, deal) : deal \in Deals[m.mode]} : points \in RivalYields(m)}

Scored(m, team, points) ==
  [m EXCEPT !.score[team] = Min({12, @ + points})]

\* The hand is won by a team.  At 12 points the match ends as it was drawn.
FinishHand(m, team) ==
  LET s == Scored(m, team, m.value)
  IN  IF s.score[team] >= 12 THEN {Settle(s, s.target)}
      ELSE NewHands([s EXCEPT !.value = 1])

-----------------------------------------------------------------------------
(* Playing a card.                                                         *)

\* The card that takes the trick: the strongest, of equals the first.
Best(table) ==
  CHOOSE i \in DOMAIN table :
    /\ \A j \in DOMAIN table : table[j].card <= table[i].card
    /\ \A j \in 1..i - 1 : table[j].card < table[i].card

\* Variant with a bug: a hand needs all three tricks.
HandOverLate(tricks) == \E t \in Teams : tricks[t] >= 3

HandOver(tricks) == \E t \in Teams : tricks[t] >= 2

ResolveTrick(m) ==
  LET seat == m.table[Best(m.table)].seat
      team == TeamOf(seat)
      t == [m EXCEPT !.tricks[team] = @ + 1, !.table = <<>>, !.turn = seat]
  IN  IF HandOver(t.tricks) THEN FinishHand(t, team) ELSE {t}

\* The card at a place of the hand of the seat whose turn it is.
PlayCard(m, seat, place) ==
  LET p == [m EXCEPT !.hands[seat] = RemoveAt(@, place),
                     !.table = Append(@, [seat |-> seat,
                                          card |-> m.hands[seat][place]])]
      players == Cardinality(Seats(m.mode))
  IN  IF Len(p.table) = players THEN ResolveTrick(p)
      ELSE {[p EXCEPT !.turn = (seat + 1) % players]}

-----------------------------------------------------------------------------
(* Raising the value of a hand.                                            *)

NextValue == [v \in {1, 3, 6, 9} |->
                CASE v = 1 -> 3 [] v = 3 -> 6 [] v = 6 -> 9 [] v = 9 -> 12]

Raised(m, from, value) ==
  [m EXCEPT !.phase = "raise",
            !.raise = [to |-> Rival(from), value |-> value]]

\* A raise answers one's rival's, or opens, whoever's turn it is.
MayRaise(m, from) ==
  IF m.phase = "raise" THEN m.raise.to = from /\ m.raise.value < 12
  ELSE m.phase = "play" /\ ~m.dark /\ m.value < 12

RequestRaise(m, from) ==
  Raised(m, from, NextValue[IF m.phase = "raise" THEN m.raise.value
                            ELSE m.value])

\* Accepting makes the hand worth what was asked; running loses it for what
\* it was worth before the raises.
Accepted(m) == [m EXCEPT !.value = m.raise.value, !.phase = "play",
                         !.raise = NoRaise]
RanAway(m) ==
  FinishHand([m EXCEPT !.phase = "play", !.raise = NoRaise],
             Rival(m.raise.to))

-----------------------------------------------------------------------------
(* The ghosts' replies (ghostTick1v1, ghostTick2v2).                       *)

WantWin(m) == m.target = "them"

GhostAnswers(m) == m.phase = "raise" /\ m.raise.to = "them"
GhostPlays(m, table) ==
  /\ m.phase = "play"
  /\ table[m.turn] = Ghost
  /\ m.hands[m.turn] # <<>>

\* Variant with a bug: a ghost whose raise or lead is due is not called.
GhostOnlyAnswers(m, table) == m.status = "playing" /\ GhostAnswers(m)

GhostToMove(m, table) ==
  m.status = "playing" /\ (GhostAnswers(m) \/ GhostPlays(m, table))

PlaceOf(card, hand) == Min({i \in DOMAIN hand : hand[i] = card})

\* The places in its hand of the card a ghost picks.  It beats the table
\* with the weakest card that does when it wants to win, and plays the
\* weakest that does not otherwise; it leads with its weakest, or with the
\* next when it wants to win.  In the dark any card may come.
PickGhostCard(m) ==
  LET hand == m.hands[m.turn]
      table == {m.table[i].card : i \in DOMAIN m.table}
      beaters == {c \in ToSet(hand) : \A t \in table : c > t}
      losers == ToSet(hand) \ beaters
      fit == IF WantWin(m) THEN beaters ELSE losers
      weakest == Min(ToSet(hand))
      others == {hand[i] : i \in DOMAIN hand \ {PlaceOf(weakest, hand)}}
      pick == IF table = {}
              THEN IF WantWin(m) /\ others # {} THEN Min(others) ELSE weakest
              ELSE IF fit = {} THEN weakest ELSE Min(fit)
  IN  IF m.dark THEN DOMAIN hand ELSE {PlaceOf(pick, hand)}

GhostAnswer ==
  /\ ghosts
  /\ GhostAnswers(match)
  /\ \E m \in {Accepted(match)} \cup RanAway(match) :
       /\ Become(m)
       /\ ghosts' = GhostToMove(m, seats)
  /\ UNCHANGED page

\* Only in a match of two, and when it wants to win, a ghost raises a raise.
GhostRaisesBack ==
  /\ ghosts
  /\ GhostAnswers(match)
  /\ match.mode = "1v1"
  /\ WantWin(match)
  /\ MayRaise(match, "them")
  /\ Become(RequestRaise(match, "them"))
  /\ ghosts' = FALSE
  /\ UNCHANGED page

\* A ghost whose turn it is raises instead of playing.  Its turn in the
\* transaction ends with that, whoever has to answer.
GhostRaise ==
  /\ ghosts
  /\ GhostPlays(match, seats)
  /\ MayRaise(match, TeamOf(match.turn))
  /\ Become(RequestRaise(match, TeamOf(match.turn)))
  /\ ghosts' = FALSE
  /\ UNCHANGED page

GhostCard ==
  /\ ghosts
  /\ GhostPlays(match, seats)
  /\ \E place \in PickGhostCard(match) :
       \E m \in PlayCard(match, match.turn, place) :
         /\ Become(m)
         /\ ghosts' = GhostToMove(m, seats)
  /\ UNCHANGED page

GhostTick == GhostAnswer \/ GhostRaisesBack \/ GhostRaise \/ GhostCard

-----------------------------------------------------------------------------
(* Opening a match.                                                        *)

Drawn(m) ==
  UNION {{[n EXCEPT !.target = t, !.status = "playing"] : t \in Teams} :
           n \in NewHands([m EXCEPT !.score = [t \in Teams |-> 0], !.value = 1,
                                    !.winner = Nobody])}

Idle(p) == page[p] = "idle"

Start1v1(p) ==
  /\ Idle(p) /\ Owner[p] = match.host
  /\ match.status = "none" /\ match.mode = "1v1"
  /\ DebitHumans({match.host})
  /\ \E m \in Drawn(match) : match' = m
  /\ seats' = [seats EXCEPT ![0] = match.host, ![1] = Ghost]
  /\ UNCHANGED <<ghosts, page>>

Create2v2Room(p) ==
  /\ Idle(p) /\ Owner[p] = match.host
  /\ match.status = "none" /\ match.mode = "2v2"
  /\ match' = [match EXCEPT !.status = "waiting"]
  /\ seats' = [seats EXCEPT ![0] = match.host, ![1] = Ghost, ![3] = Ghost]
  /\ UNCHANGED <<split, users, ghosts, page>>

Join2v2Room(p) ==
  /\ Idle(p) /\ Owner[p] # match.host
  /\ match.status = "waiting"
  /\ seats[2] = Nobody
  /\ seats' = [seats EXCEPT ![2] = Owner[p]]
  /\ UNCHANGED <<match, split, users, ghosts, page>>

\* The host starts the room: its status is checked on the row that came
\* with the request ...
StartRequest(p) ==
  /\ Idle(p) /\ Owner[p] = match.host
  /\ match.status = "waiting"
  /\ page' = [page EXCEPT ![p] = "start"]
  /\ UNCHANGED <<match, seats, split, users, ghosts>>

\* ... and not again on the locked one.  A seat nobody took is a ghost's.
Start2v2(p) ==
  /\ page[p] = "start" /\ ~ghosts
  /\ seats' = [seats EXCEPT ![2] = IF @ = Nobody THEN Ghost ELSE @]
  /\ DebitHumans(Humans(seats))
  /\ \E m \in Drawn(match) : match' = m
  /\ page' = [page EXCEPT ![p] = "idle"]
  /\ UNCHANGED ghosts

StartRefused(p) ==
  /\ page[p] = "start" /\ ~ghosts
  /\ \E u \in Humans(seats) : ~Affordable(u)
  /\ page' = [page EXCEPT ![p] = "idle"]
  /\ UNCHANGED <<match, seats, split, users, ghosts>>

-----------------------------------------------------------------------------
(* Playing and leaving.                                                    *)

\* A seated player's action on a match in play: what it makes of the match.
\* What happens to a turn that has expired comes first, see Expire.
Act(p, results) ==
  /\ Idle(p) /\ ~ghosts
  /\ Owner[p] \in Humans(seats)
  /\ match.status = "playing"
  /\ \E m \in results :
       /\ Become([m EXCEPT !.deadline = IF m.status = "playing" THEN "ahead"
                                        ELSE "none"])
       /\ ghosts' = GhostToMove(m, seats)
  /\ UNCHANGED page

ActPlay(p) ==
  Act(p, IF match.phase = "play" /\ seats[match.turn] = Owner[p]
         THEN UNION {PlayCard(match, match.turn, i) :
                       i \in DOMAIN match.hands[match.turn]}
         ELSE {})

ActRaise(p) ==
  Act(p, IF MayRaise(match, "us") THEN {RequestRaise(match, "us")} ELSE {})

ActAnswer(p) ==
  Act(p, IF match.phase = "raise" /\ match.raise.to = "us"
         THEN {Accepted(match)} \cup RanAway(match)
         ELSE {})

\* With 11 points the players accept the hand for 3, or give a point.
ActEleven(p) ==
  Act(p, IF match.phase = "eleven"
         THEN {[match EXCEPT !.value = 3, !.phase = "play"]}
                \cup LET s == Scored(match, "them", 1)
                     IN  IF s.score["them"] >= 12 THEN {Settle(s, s.target)}
                         ELSE NewHands([s EXCEPT !.value = 1])
         ELSE {})

\* Leaving closes one's room, frees one's seat, or loses the match.
Forfeit(p) ==
  /\ Idle(p) /\ ~ghosts
  /\ Owner[p] \in Humans(seats)
  /\ UNCHANGED <<ghosts, page>>
  /\ \/ /\ match.status = "waiting" /\ Owner[p] = match.host
        /\ match' = [match EXCEPT !.status = "cancelled"]
        /\ UNCHANGED <<seats, split, users>>
     \/ /\ match.status = "waiting" /\ Owner[p] # match.host
        /\ seats' = [seats EXCEPT ![2] = Nobody]
        /\ UNCHANGED <<match, split, users>>
     \/ /\ match.status = "playing"
        /\ Become(Settle(match, "them"))

-----------------------------------------------------------------------------
(* Time.                                                                   *)

TurnRunsOut ==
  /\ match.status = "playing" /\ ~ghosts
  /\ match.deadline = "ahead"
  /\ match' = [match EXCEPT !.deadline = "over"]
  /\ UNCHANGED <<seats, split, users, ghosts, page>>

\* Variant with a bug: a raise nobody answers is left pending.
ExpireUnlessRaised ==
  /\ match.status = "playing" /\ ~ghosts
  /\ match.deadline = "over"
  /\ match.phase # "raise"
  /\ Become(Settle(match, "them"))
  /\ UNCHANGED <<ghosts, page>>

\* The first request to find the turn over (each page polls) acts for those
\* who did not: a raise is run from, anything else loses the match.
Expire ==
  /\ match.status = "playing" /\ ~ghosts
  /\ match.deadline = "over"
  /\ \E m \in IF match.phase = "raise" THEN RanAway(match)
              ELSE {Settle(match, "them")} : Become(m)
  /\ UNCHANGED <<ghosts, page>>

Over ==
  /\ match.status \in {"finished", "cancelled"}
  /\ \A p \in Pages : Idle(p)
  /\ UNCHANGED vars

Next ==
  \/ \E p \in Pages :
       \/ Start1v1(p) \/ Create2v2Room(p) \/ Join2v2Room(p)
       \/ StartRequest(p) \/ Start2v2(p) \/ StartRefused(p)
       \/ ActPlay(p) \/ ActRaise(p) \/ ActAnswer(p) \/ ActEleven(p)
       \/ Forfeit(p)
  \/ GhostTick
  \/ TurnRunsOut
  \/ Expire
  \/ Over

Spec == Init /\ [][Next]_vars

\* The transaction of an action ends, time passes, and some page polls.
Fairness ==
  /\ WF_vars(GhostTick)
  /\ WF_vars(TurnRunsOut)
  /\ WF_vars(Expire)

FairSpec == Spec /\ Fairness

-----------------------------------------------------------------------------
(* Properties.                                                             *)

InPlay == match.status \in {"playing", "finished"}

\* Each player of the match has paid one stake, real balance first; the
\* winners have it back where it came from with as much again in their real
\* balance; nobody else's money has moved.
EntryOf(u) ==
  LET fromBalance == Min({Opening[u].balance, Stake})
  IN  [balance |-> fromBalance, bonus |-> Stake - fromBalance]
WalletAgreesWithMatch ==
  \A u \in Users :
    users[u] =
      IF ~InPlay \/ u \notin Humans(seats) THEN Opening[u]
      ELSE IF match.winner = "us"
      THEN [balance |-> Opening[u].balance + Stake, bonus |-> Opening[u].bonus]
      ELSE [balance |-> Opening[u].balance - EntryOf(u).balance,
            bonus |-> Opening[u].bonus - EntryOf(u).bonus]

\* The wallets agree with the match, and none is negative.
StakesAgree == TypeOK /\ WalletAgreesWithMatch

\* Hands stay in step with tricks and table: whoever is to play has a card,
\* and no card is lost or played twice.
HandsInStep ==
  match.status = "playing" =>
    /\ match.phase = "play" => match.hands[match.turn] # <<>>
    /\ \A s \in Seats(match.mode) :
         Len(match.hands[s])
           + Cardinality({i \in DOMAIN match.table : match.table[i].seat = s})
           + match.tricks["us"] + match.tricks["them"] = HandSize

\* A hand played with a team at 11 is worth at least 3, and one played in
\* the dark exactly 3: nothing can be raised unseen.
ElevenIsWorthThree ==
  match.status = "playing" =>
    /\ match.phase # "eleven" /\ 11 \in {match.score[t] : t \in Teams} =>
         match.value >= 3
    /\ match.dark => match.value = 3 /\ match.phase = "play"

\* A match drawn for the house pays nobody, and one drawn for the players
\* pays unless they leave or let their time run out.
DrawDecides ==
  match.status = "finished" =>
    /\ match.winner = "us" => match.target = "us"
    /\ match.winner = "them" /\ match.target = "us" =>
         match.score["us"] < 12

\* The game played is Truco, and the draw of the match is kept.
RulesKept == HandsInStep /\ ElevenIsWorthThree /\ DrawDecides

\* When a request has been answered it is for a player to move: no ghost is
\* waited for until the turn expires.  Not so when a ghost partner raised:
\* its rivals answer only in a later request, and none can succeed.
NoGhostIsWaitedFor ==
  match.status = "playing" /\ ~ghosts =>
    \/ match.phase = "eleven"
    \/ match.phase = "raise" /\ match.raise.to = "us"
    \/ match.phase = "play" /\ seats[match.turn] \in Users
    \/ match.phase = "raise" /\ seats[2] = Ghost

\* A match in play ends, whatever the players do or do not do.
EveryMatchEnds == match.status = "playing" ~> match.status = "finished"

-----------------------------------------------------------------------------
(* The inductive invariant from which TrucoProofs derives the above.       *)

\* Where the host has one page, one start request is under way at most.
OneHostPage == \A p, q \in Pages : Owner[p] = Host /\ Owner[q] = Host => p = q

\* Who sits where, and when: the host first, ghosts against him.
SeatsInv ==
  /\ match.mode \in Modes /\ match.host = Host
  /\ match.status = "none" => \A s \in 0..3 : seats[s] = Nobody
  /\ match.status # "none" =>
       /\ seats[0] = Host /\ seats[1] = Ghost /\ seats[2] # Host
       /\ seats[3] = IF match.mode = "1v1" THEN Nobody ELSE Ghost
       /\ match.mode = "1v1" => seats[2] = Nobody
  /\ match.mode = "2v2" /\ InPlay => seats[2] # Nobody
  /\ match.status = "waiting" => match.mode = "2v2" /\ seats[2] # Ghost
  /\ \A p \in Pages : page[p] = "start" => match.status = "waiting" /\ Owner[p] = Host
  /\ ghosts => match.status = "playing"

\* The match is settled when it is finished, and until then each player's entry is known.
EntriesInv ==
  /\ match.settled <=> match.status = "finished"
  /\ match.winner = Nobody <=> match.status # "finished"
  /\ match.status = "playing" => \A u \in Humans(seats) : split[u] = EntryOf(u)

Players(mode) == IF mode = "1v1" THEN 2 ELSE 4
OnTable(m, s) == IF \E i \in DOMAIN m.table : m.table[i].seat = s THEN 1 ELSE 0

\* The cards on the table are those of the seats before the one to play, in their order.
TableInOrder(m) ==
  /\ m.turn \in Seats(m.mode)
  /\ Len(m.table) < Players(m.mode)
  /\ \A i \in DOMAIN m.table :
       /\ m.table[i].seat \in Seats(m.mode)
       /\ (m.table[i].seat + Len(m.table) + 1 - i) % Players(m.mode) = m.turn

\* Every seat has the rest of its hand, and nobody has won it yet.
HandsAreWhole(m) ==
  /\ m.tricks["us"] <= 1 /\ m.tricks["them"] <= 1
  /\ \A s \in Seats(m.mode) :
       Len(m.hands[s]) + OnTable(m, s) + m.tricks["us"] + m.tricks["them"] = HandSize

\* Nobody has 12 points yet, 11 make the hand worth three, and only a raise raises it.
ValueFits(m) ==
  /\ m.score["us"] < 12 /\ m.score["them"] < 12
  /\ m.phase = "eleven" => m.score["us"] = 11 /\ m.score["them"] < 11
  /\ m.phase # "eleven" /\ (m.score["us"] = 11 \/ m.score["them"] = 11) => m.value >= 3
  /\ m.dark => m.value = 3 /\ m.phase = "play"
  /\ m.phase = "raise" => m.raise.value >= 3

IInv ==
  /\ TypeOK /\ SeatsInv /\ EntriesInv /\ WalletAgreesWithMatch
  /\ match.status = "playing" =>
       TableInOrder(match) /\ HandsAreWhole(match) /\ ValueFits(match)
  /\ DrawDecides /\ NoGhostIsWaitedFor
=============================================================================
