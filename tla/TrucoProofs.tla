----------------------------- MODULE TrucoProofs -----------------------------
(***************************************************************************)
(* Theorems about Truco, for every set of players and pages, every stake   *)
(* and every set of deals, where the host has one page.                    *)
(***************************************************************************)
EXTENDS Truco, FiniteSetTheorems, SequenceTheorems, TLAPS

-----------------------------------------------------------------------------
(* Rows of truco_matches.                                                  *)

Cells == Seq([seat : 0..3, card : Cards])

\* A row with another value in one field is a row.
LEMMA OneField ==
  ASSUME NEW mode, NEW m \in Match(mode)
  PROVE  /\ \A v \in {"none", "waiting", "playing", "finished", "cancelled"} :
              [m EXCEPT !.status = v] \in Match(mode)
         /\ \A v \in [Teams -> 0..12] : [m EXCEPT !.score = v] \in Match(mode)
         /\ \A v \in {1, 3, 6, 9, 12} : [m EXCEPT !.value = v] \in Match(mode)
         /\ \A v \in Teams : [m EXCEPT !.target = v] \in Match(mode)
         /\ \A v \in Teams \cup {Nobody} : [m EXCEPT !.winner = v] \in Match(mode)
         /\ \A v \in BOOLEAN : [m EXCEPT !.settled = v] \in Match(mode)
         /\ \A v \in {"none", "ahead", "over"} : [m EXCEPT !.deadline = v] \in Match(mode)
         /\ \A v \in {"play", "raise", "eleven"} : [m EXCEPT !.phase = v] \in Match(mode)
         /\ \A v \in 0..3 : [m EXCEPT !.turn = v] \in Match(mode)
         /\ \A v \in [to : Teams, value : {0, 3, 6, 9, 12}] : [m EXCEPT !.raise = v] \in Match(mode)
         /\ \A v \in BOOLEAN : [m EXCEPT !.dark = v] \in Match(mode)
         /\ \A v \in [Teams -> 0..2] : [m EXCEPT !.tricks = v] \in Match(mode)
         /\ \A v \in [Seats(mode) -> Seq(Cards)] : [m EXCEPT !.hands = v] \in Match(mode)
         /\ \A v \in Cells : [m EXCEPT !.table = v] \in Match(mode)
<1>1. \A v \in {"none", "waiting", "playing", "finished", "cancelled"} :
          [m EXCEPT !.status = v] \in Match(mode)
  BY DEF Match
<1>2. \A v \in [Teams -> 0..12] : [m EXCEPT !.score = v] \in Match(mode)
  BY DEF Match
<1>3. \A v \in {1, 3, 6, 9, 12} : [m EXCEPT !.value = v] \in Match(mode)
  BY DEF Match
<1>4. \A v \in Teams : [m EXCEPT !.target = v] \in Match(mode)
  BY DEF Match
<1>5. \A v \in Teams \cup {Nobody} : [m EXCEPT !.winner = v] \in Match(mode)
  BY DEF Match
<1>6. \A v \in BOOLEAN : [m EXCEPT !.settled = v] \in Match(mode)
  BY DEF Match
<1>7. \A v \in {"none", "ahead", "over"} : [m EXCEPT !.deadline = v] \in Match(mode)
  BY DEF Match
<1>8. \A v \in {"play", "raise", "eleven"} : [m EXCEPT !.phase = v] \in Match(mode)
  BY DEF Match
<1>9. \A v \in 0..3 : [m EXCEPT !.turn = v] \in Match(mode)
  BY DEF Match
<1>10. \A v \in [to : Teams, value : {0, 3, 6, 9, 12}] : [m EXCEPT !.raise = v] \in Match(mode)
  BY DEF Match
<1>11. \A v \in BOOLEAN : [m EXCEPT !.dark = v] \in Match(mode)
  BY DEF Match
<1>12. \A v \in [Teams -> 0..2] : [m EXCEPT !.tricks = v] \in Match(mode)
  BY DEF Match
<1>13. \A v \in [Seats(mode) -> Seq(Cards)] : [m EXCEPT !.hands = v] \in Match(mode)
  BY DEF Match
<1>14. \A v \in Cells : [m EXCEPT !.table = v] \in Match(mode)
  BY DEF Match, Cells
<1> QED BY <1>1, <1>2, <1>3, <1>4, <1>5, <1>6, <1>7, <1>8, <1>9, <1>10, <1>11, <1>12, <1>13, <1>14

\* The fields of a row.
LEMMA RowTypes ==
  ASSUME NEW mode, NEW m \in Match(mode)
  PROVE  /\ m.mode = mode /\ m.status \in {"none", "waiting", "playing", "finished", "cancelled"}
         /\ m.host \in Users /\ m.score \in [Teams -> 0..12] /\ m.value \in {1, 3, 6, 9, 12}
         /\ m.target \in Teams /\ m.winner \in Teams \cup {Nobody} /\ m.settled \in BOOLEAN
         /\ m.deadline \in {"none", "ahead", "over"} /\ m.phase \in {"play", "raise", "eleven"}
         /\ m.turn \in 0..3 /\ m.raise \in [to : Teams, value : {0, 3, 6, 9, 12}]
         /\ m.dark \in BOOLEAN /\ m.tricks \in [Teams -> 0..2]
         /\ m.hands \in [Seats(mode) -> Seq(Cards)] /\ m.table \in Cells
BY DEF Match, Cells

\* A match has two seats or four.
LEMMA TwoModes ==
  ASSUME NEW mode \in Modes
  PROVE  /\ mode = "1v1" \/ mode = "2v2"
         /\ mode = "1v1" => Seats(mode) = 0..1 /\ Cardinality(Seats(mode)) = 2
         /\ mode = "2v2" => Seats(mode) = 0..3 /\ Cardinality(Seats(mode)) = 4
<1>1. mode = "1v1" \/ mode = "2v2"
  BY TrucoAssumption
<1>2. Cardinality(0..1) = 2 /\ Cardinality(0..3) = 4
  <2>1. \A n \in Int : n >= 0 => Cardinality(0..n) = n + 1
    <3>1. \A n \in Int : Cardinality(0..n) = IF 0 > n THEN 0 ELSE n - 0 + 1
      BY FS_Interval
    <3> QED BY <3>1
  <2>2. 1 \in Int /\ 3 \in Int /\ 1 >= 0 /\ 3 >= 0 /\ 1 + 1 = 2 /\ 3 + 1 = 4
    OBVIOUS
  <2>3. Cardinality(0..1) = 1 + 1 /\ Cardinality(0..3) = 3 + 1
    BY <2>1, <2>2, Zenon
  <2> QED BY <2>2, <2>3
<1> QED BY <1>1, <1>2 DEF Seats

\* What is dealt is a hand of three cards.
LEMMA DealtHand ==
  ASSUME NEW f \in [1..HandSize -> Nat]
  PROVE  f \in Seq(Cards) /\ Len(f) = HandSize
<1>1. f \in Seq(Cards)
  BY SeqDef DEF HandSize, Cards
<1>2. Len(f) \in Nat /\ DOMAIN f = 1 .. Len(f) /\ DOMAIN f = 1..3
  BY <1>1, LenProperties DEF HandSize
<1>3. Len(f) = 3
  <2> DEFINE k == Len(f)
  <2>1. k \in Nat /\ 1..k = 1..3
    BY <1>2
  <2> HIDE DEF k
  <2>2. 3 \in 1..k /\ 4 \notin 1..k
    BY <2>1
  <2>3. k = 3
    BY <2>1, <2>2
  <2> QED BY <2>3 DEF k
<1> QED BY <1>1, <1>3 DEF HandSize

\* The smaller of two numbers.
LEMMA MinOfTwo ==
  ASSUME NEW a \in Int, NEW b \in Int
  PROVE  Min({a, b}) = IF a <= b THEN a ELSE b
BY DEF Min

-----------------------------------------------------------------------------
(* Cards.                                                                  *)

\* Of a few cards one is the weakest.
LEMMA WeakestOfFew ==
  ASSUME NEW a \in Nat, NEW b \in Nat, NEW c \in Nat, NEW T, T \subseteq {a, b, c}, T # {}
  PROVE  Min(T) \in T
<1>1. \E x \in T : \A y \in T : x <= y
  <2> SUFFICES ASSUME \A x \in T : \E y \in T : y < x
               PROVE  FALSE
    OBVIOUS
  <2>1. T \cap {a, b, c} # {}
    OBVIOUS
  <2> QED BY <2>1
<1> QED BY <1>1 DEF Min

\* A hand without the card played.
LEMMA CardRemoved ==
  ASSUME NEW hand \in Seq(Cards), NEW i \in DOMAIN hand
  PROVE  /\ RemoveAt(hand, i) \in Seq(Cards)
         /\ Len(hand) \in Nat /\ Len(RemoveAt(hand, i)) = Len(hand) - 1
         /\ hand[i] \in Cards
<1>1. Len(hand) \in Nat /\ DOMAIN hand = 1 .. Len(hand) /\ \A j \in 1 .. Len(hand) : hand[j] \in Cards
  BY LenProperties, ElementOfSeq
<1> DEFINE l == SubSeq(hand, 1, i - 1)
           r == SubSeq(hand, i + 1, Len(hand))
<1>2. l \in Seq(Cards) /\ Len(l) = i - 1
  BY <1>1, SubSeqProperties
<1>3. r \in Seq(Cards) /\ Len(r) = Len(hand) - i
  BY <1>1, SubSeqProperties
<1>4. l \o r \in Seq(Cards) /\ Len(l \o r) = Len(l) + Len(r)
  BY <1>2, <1>3, ConcatProperties
<1>5. RemoveAt(hand, i) = l \o r
  BY DEF RemoveAt
<1> HIDE DEF l, r
<1>6. i \in 1 .. Len(hand) /\ Len(l \o r) = Len(hand) - 1
  BY <1>1, <1>2, <1>3, <1>4
<1> QED BY <1>1, <1>4, <1>5, <1>6

\* A card of a hand has a place in it.
LEMMA CardHasPlace ==
  ASSUME NEW hand \in Seq(Cards), Len(hand) <= HandSize, NEW card \in ToSet(hand)
  PROVE  PlaceOf(card, hand) \in DOMAIN hand
<1> DEFINE T == {i \in DOMAIN hand : hand[i] = card}
<1>1. Len(hand) \in Nat /\ DOMAIN hand = 1 .. Len(hand)
  BY LenProperties
<1>2. T \subseteq {1, 2, 3} /\ T # {}
  BY <1>1 DEF ToSet, HandSize
<1>3. Min(T) \in T
  <2> HIDE DEF T
  <2> QED BY <1>2, WeakestOfFew
<1> QED BY <1>3 DEF PlaceOf

\* Some cards of a hand have a weakest.
LEMMA WeakestOfHand ==
  ASSUME NEW hand \in Seq(Cards), Len(hand) <= HandSize, NEW T, T \subseteq ToSet(hand), T # {}
  PROVE  Min(T) \in T
<1>1. Len(hand) \in Nat /\ DOMAIN hand = 1 .. Len(hand) /\ \A j \in 1 .. Len(hand) : hand[j] \in Cards
  BY LenProperties, ElementOfSeq
<1> DEFINE c(k) == IF k <= Len(hand) THEN hand[k] ELSE 0
<1>2. c(1) \in Nat /\ c(2) \in Nat /\ c(3) \in Nat
  BY <1>1 DEF Cards
<1>3. T \subseteq {c(1), c(2), c(3)}
  <2>1. \A x \in T : \E k \in 1 .. Len(hand) : x = hand[k]
    BY <1>1 DEF ToSet
  <2>2. \A k \in 1 .. Len(hand) : k \in {1, 2, 3} /\ c(k) = hand[k]
    BY <1>1 DEF HandSize
  <2> HIDE DEF c
  <2> QED BY <2>1, <2>2
<1> HIDE DEF c
<1> QED BY <1>2, <1>3, WeakestOfFew

\* What a ghost picks is in its hand.
LEMMA GhostCardInHand ==
  ASSUME NEW m, NEW hand \in Seq(Cards), hand = m.hands[m.turn], Len(hand) <= HandSize, hand # <<>>,
         NEW place \in PickGhostCard(m)
  PROVE  place \in DOMAIN hand
<1> DEFINE table == {m.table[i].card : i \in DOMAIN m.table}
           beaters == {c \in ToSet(hand) : \A t \in table : c > t}
           losers == ToSet(hand) \ beaters
           fit == IF WantWin(m) THEN beaters ELSE losers
           weakest == Min(ToSet(hand))
           others == {hand[i] : i \in DOMAIN hand \ {PlaceOf(weakest, hand)}}
           pick == IF table = {}
                   THEN IF WantWin(m) /\ others # {} THEN Min(others) ELSE weakest
                   ELSE IF fit = {} THEN weakest ELSE Min(fit)
<1>1. place \in IF m.dark THEN DOMAIN hand ELSE {PlaceOf(pick, hand)}
  BY DEF PickGhostCard
<1>2. ToSet(hand) # {}
  <2>1. Len(hand) \in Nat \ {0} /\ DOMAIN hand = 1 .. Len(hand)
    BY EmptySeq, LenProperties
  <2>2. 1 \in DOMAIN hand
    BY <2>1
  <2> QED BY <2>2 DEF ToSet
<1>3. others \subseteq ToSet(hand) /\ fit \subseteq ToSet(hand)
  BY DEF ToSet
<1> HIDE DEF table, fit, others
<1>4. weakest \in ToSet(hand) /\ (others # {} => Min(others) \in ToSet(hand))
      /\ (fit # {} => Min(fit) \in ToSet(hand))
  BY <1>2, <1>3, WeakestOfHand
<1> HIDE DEF weakest
<1>5. pick \in ToSet(hand)
  BY <1>4
<1> HIDE DEF pick
<1> QED BY <1>1, <1>5, CardHasPlace

\* A trick has a strongest card.
LEMMA BestIsOnTable ==
  ASSUME NEW table \in Cells, Len(table) \in {2, 4}
  PROVE  Best(table) \in DOMAIN table
<1>1. DOMAIN table = 1 .. Len(table) /\ \A i \in 1 .. Len(table) : table[i].card \in Nat
  <2>1. \A i \in 1 .. Len(table) : table[i] \in [seat : 0..3, card : Cards]
    BY ElementOfSeq DEF Cells
  <2> QED BY <2>1, LenProperties DEF Cells, Cards
<1> DEFINE Strongest(k, i) == /\ \A j \in 1..k : table[j].card <= table[i].card
                              /\ \A j \in 1..i - 1 : table[j].card < table[i].card
<1>2. Strongest(1, 1)
  BY <1>1
<1>3. ASSUME NEW k \in 1..3, k + 1 <= Len(table), NEW i \in 1..k, Strongest(k, i)
      PROVE  \E l \in 1 .. k + 1 : Strongest(k + 1, l)
  <2>1. CASE table[k + 1].card <= table[i].card
    <3>1. Strongest(k + 1, i)
      BY <1>1, <1>3, <2>1
    <3> HIDE DEF Strongest
    <3> QED BY <3>1
  <2>2. CASE table[i].card < table[k + 1].card
    <3>1. Strongest(k + 1, k + 1)
      BY <1>1, <1>3, <2>2
    <3> HIDE DEF Strongest
    <3> QED BY <3>1
  <2>3. table[k + 1].card \in Nat /\ table[i].card \in Nat
    BY <1>1, <1>3
  <2> QED BY <2>1, <2>2, <2>3
<1>4. \E i \in 1 .. Len(table) : Strongest(Len(table), i)
  <2> HIDE DEF Strongest
  <2>1. \E i \in 1..2 : Strongest(2, i)
    BY <1>2, <1>3
  <2>2. Len(table) = 4 => \E i \in 1..3 : Strongest(3, i)
    BY <2>1, <1>3
  <2>3. Len(table) = 4 => \E i \in 1..4 : Strongest(4, i)
    BY <2>2, <1>3
  <2> QED BY <2>1, <2>3
<1> QED BY <1>1, <1>4 DEF Best

-----------------------------------------------------------------------------
(* What becomes of a match in play.                                        *)

\* The match goes on.
Live(mode, m) ==
  /\ m \in Match(mode) /\ m.status = "playing" /\ m.settled = FALSE /\ m.winner = Nobody
  /\ TableInOrder(m) /\ HandsAreWhole(m) /\ ValueFits(m)

\* Or it has ended, as it was drawn or with the players giving up.
Ended(mode, m) ==
  /\ m \in Match(mode) /\ m.status = "finished" /\ m.settled = TRUE /\ m.winner \in Teams
  /\ Len(m.table) <= 3
  /\ \A s \in Seats(mode) : Len(m.hands[s]) <= HandSize
  /\ m.winner = "us" => m.target = "us"
  /\ m.winner = "them" /\ m.target = "us" => m.score["us"] < 12

Same(m, n) == n.host = m.host /\ n.target = m.target
Becomes(mode, m, n) == Same(m, n) /\ (Live(mode, n) \/ Ended(mode, n))

\* A new hand: seat 0 is to play or to decide.
Fresh(n) == n.turn = 0 /\ n.phase \in {"play", "eleven"}

\* A new hand is dealt in order.
LEMMA NewHandsDeal ==
  ASSUME NEW mode \in Modes, NEW m \in Match(mode), m.score["us"] < 12, m.score["them"] < 12,
         NEW n \in NewHands(m)
  PROVE  /\ n \in Match(mode) /\ TableInOrder(n) /\ HandsAreWhole(n) /\ ValueFits(n) /\ Fresh(n)
         /\ n.status = m.status /\ n.settled = m.settled /\ n.winner = m.winner /\ Same(m, n)
<1>1. PICK points \in RivalYields(m), deal \in Deals[m.mode] : n = NewHand(m, points, deal)
  BY DEF NewHands
<1> DEFINE score == [m.score EXCEPT !["us"] = points]
           value == HandValue(m, points)
           phase == IF points = 11 /\ m.score["them"] < 11 THEN "eleven" ELSE "play"
           dark == (points = 11 /\ m.score["them"] = 11)
           tricks == [t \in Teams |-> 0]
<1>2. /\ m.mode = mode /\ m.score \in [Teams -> 0..12] /\ m.value \in {1, 3, 6, 9, 12}
  BY RowTypes
<1>3. points \in 0..11
  <2>1. m.score["us"] \in 0..11 /\ m.score["them"] \in 0..11
    BY <1>2 DEF Teams
  <2> QED BY <2>1 DEF RivalYields
<1>4. /\ score \in [Teams -> 0..12] /\ score["us"] = points /\ score["them"] = m.score["them"]
  BY <1>2, <1>3 DEF Teams
<1>5. /\ value \in {1, 3, 6, 9, 12} /\ (m.score["them"] = 11 => value = 3)
  BY <1>2 DEF HandValue
<1>6. deal \in [Seats(mode) -> Seq(Cards)] /\ \A s \in Seats(mode) : Len(deal[s]) = HandSize
  <2>1. deal \in [Seats(mode) -> [1..HandSize -> Nat]]
    BY <1>2, TrucoAssumption
  <2>2. \A f \in [1..HandSize -> Nat] : f \in Seq(Cards) /\ Len(f) = HandSize
    BY DealtHand
  <2> QED BY <2>1, <2>2
<1>7. /\ tricks \in [Teams -> 0..2] /\ tricks["us"] = 0 /\ tricks["them"] = 0
      /\ phase \in {"play", "raise", "eleven"} /\ dark \in BOOLEAN
      /\ NoRaise \in [to : Teams, value : {0, 3, 6, 9, 12}]
      /\ <<>> \in Cells /\ Len(<<>>) = 0 /\ DOMAIN <<>> = {} /\ 0 \in 0..3
      /\ "ahead" \in {"none", "ahead", "over"}
  BY DEF Teams, NoRaise, Cells
<1> HIDE DEF score, value, phase, dark, tricks
<1>8. n = [m EXCEPT !.score = score, !.value = value, !.phase = phase, !.dark = dark, !.tricks = tricks,
                    !.hands = deal, !.table = <<>>, !.turn = 0, !.raise = NoRaise, !.deadline = "ahead"]
  BY <1>1 DEF NewHand, score, value, phase, dark, tricks
<1>9. /\ n.mode = m.mode /\ n.status = m.status /\ n.host = m.host /\ n.score = score /\ n.value = value
      /\ n.target = m.target /\ n.winner = m.winner /\ n.settled = m.settled /\ n.phase = phase
      /\ n.turn = 0 /\ n.raise = NoRaise /\ n.dark = dark /\ n.tricks = tricks
      /\ n.hands = deal /\ n.table = <<>>
  BY <1>8 DEF Match
<1>10. n \in Match(mode)
  <2> DEFINE m1 == [m EXCEPT !.score = score]
             m2 == [m1 EXCEPT !.value = value]
             m3 == [m2 EXCEPT !.phase = phase]
             m4 == [m3 EXCEPT !.dark = dark]
             m5 == [m4 EXCEPT !.tricks = tricks]
             m6 == [m5 EXCEPT !.hands = deal]
             m7 == [m6 EXCEPT !.table = <<>>]
             m8 == [m7 EXCEPT !.turn = 0]
             m9 == [m8 EXCEPT !.raise = NoRaise]
             m10 == [m9 EXCEPT !.deadline = "ahead"]
  <2>0. n = m10
    BY <1>8
  <2> HIDE DEF m1, m2, m3, m4, m5, m6, m7, m8, m9, m10
  <2>1. m1 \in Match(mode)
    BY <1>4, OneField DEF m1
  <2>2. m2 \in Match(mode)
    BY <2>1, <1>5, OneField DEF m2
  <2>3. m3 \in Match(mode)
    BY <2>2, <1>7, OneField DEF m3
  <2>4. m4 \in Match(mode)
    BY <2>3, <1>7, OneField DEF m4
  <2>5. m5 \in Match(mode)
    BY <2>4, <1>7, OneField DEF m5
  <2>6. m6 \in Match(mode)
    BY <2>5, <1>6, OneField DEF m6
  <2>7. m7 \in Match(mode)
    BY <2>6, <1>7, OneField DEF m7
  <2>8. m8 \in Match(mode)
    BY <2>7, <1>7, OneField DEF m8
  <2>9. m9 \in Match(mode)
    BY <2>8, <1>7, OneField DEF m9
  <2>10. m10 \in Match(mode)
    BY <2>9, <1>7, OneField DEF m10
  <2> QED BY <2>0, <2>10
<1>11. TableInOrder(n)
  <2>1. 0 \in Seats(mode) /\ Players(mode) \in {2, 4}
    BY TwoModes DEF Players
  <2> QED BY <1>2, <1>7, <1>9, <2>1 DEF TableInOrder
<1>12. HandsAreWhole(n)
  <2>1. \A s : OnTable(n, s) = 0
    BY <1>7, <1>9 DEF OnTable
  <2>2. \A s \in Seats(n.mode) : Len(n.hands[s]) = HandSize
    BY <1>2, <1>6, <1>9
  <2>3. n.tricks["us"] = 0 /\ n.tricks["them"] = 0
    BY <1>7, <1>9
  <2>4. 3 + 0 + 0 + 0 = 3 /\ 0 <= 1
    OBVIOUS
  <2> QED BY <2>1, <2>2, <2>3, <2>4, Zenon DEF HandsAreWhole, HandSize
<1>13. ValueFits(n)
  <2>1. m.score["them"] \in 0..11
    BY <1>2 DEF Teams
  <2>2. n.dark => points = 11 /\ m.score["them"] = 11
    BY <1>9, Zenon DEF dark
  <2>3. n.phase = IF points = 11 /\ m.score["them"] < 11 THEN "eleven" ELSE "play"
    BY <1>9 DEF phase
  <2>4. n.dark => n.value = 3 /\ n.phase = "play"
    BY <1>5, <1>9, <2>2, <2>3
  <2> QED BY <1>3, <1>4, <1>5, <1>9, <2>1, <2>3, <2>4 DEF ValueFits
<1>14. Fresh(n) /\ Same(m, n)
  BY <1>9 DEF Fresh, Same, phase
<1> QED BY <1>9, <1>10, <1>11, <1>12, <1>13, <1>14

\* A settlement ends the match for a team.
LEMMA SettleEnds ==
  ASSUME NEW mode, NEW m \in Match(mode), m.settled = FALSE, NEW winner \in Teams,
         Len(m.table) <= 3, \A s \in Seats(mode) : Len(m.hands[s]) <= HandSize,
         winner = "us" => m.target = "us",
         winner = "them" /\ m.target = "us" => m.score["us"] < 12
  PROVE  Ended(mode, Settle(m, winner)) /\ Same(m, Settle(m, winner))
<1> DEFINE score == [m.score EXCEPT ![winner] = 12]
           n == Settle(m, winner)
<1>1. m.score \in [Teams -> 0..12]
  BY RowTypes
<1>2. score \in [Teams -> 0..12] /\ (winner = "them" => score["us"] = m.score["us"])
  BY <1>1 DEF Teams
<1>3. n = [m EXCEPT !.status = "finished", !.settled = TRUE, !.winner = winner, !.deadline = "none",
                    !.score = score]
  BY DEF Settle
<1> HIDE DEF score, n
<1>4. /\ n.host = m.host /\ n.target = m.target /\ n.status = "finished" /\ n.settled = TRUE
      /\ n.winner = winner /\ n.score = score /\ n.hands = m.hands /\ n.table = m.table
  BY <1>3 DEF Match
<1>5. n \in Match(mode)
  <2> DEFINE m1 == [m EXCEPT !.status = "finished"]
             m2 == [m1 EXCEPT !.settled = TRUE]
             m3 == [m2 EXCEPT !.winner = winner]
             m4 == [m3 EXCEPT !.deadline = "none"]
             m5 == [m4 EXCEPT !.score = score]
  <2>0. n = m5
    BY <1>3
  <2> HIDE DEF m1, m2, m3, m4, m5
  <2>1. m1 \in Match(mode)
    BY OneField DEF m1
  <2>2. m2 \in Match(mode)
    BY <2>1, OneField DEF m2
  <2>3. m3 \in Match(mode)
    BY <2>2, OneField DEF m3
  <2>4. m4 \in Match(mode)
    BY <2>3, OneField DEF m4
  <2>5. m5 \in Match(mode)
    BY <1>2, <2>4, OneField DEF m5
  <2> QED BY <2>0, <2>5
<1>6. Ended(mode, n)
  BY <1>2, <1>4, <1>5 DEF Ended
<1> QED BY <1>4, <1>6 DEF Same, n

\* A score is never above 12.
LEMMA CappedScore ==
  ASSUME NEW a \in 0..12, NEW points \in 1..12
  PROVE  Min({12, a + points}) \in 0..12
<1> DEFINE x == a + points
<1>1. x \in Nat
  OBVIOUS
<1> HIDE DEF x
<1>2. Min({12, x}) = IF 12 <= x THEN 12 ELSE x
  BY <1>1, MinOfTwo
<1> QED BY <1>1, <1>2 DEF x

\* A hand won: the match ends as it was drawn, or goes on with a new one.
LEMMA HandFinishes ==
  ASSUME NEW mode \in Modes, NEW m \in Match(mode),
         m.status = "playing", m.settled = FALSE, m.winner = Nobody,
         m.score["us"] < 12, m.score["them"] < 12,
         Len(m.table) <= 3, \A s \in Seats(mode) : Len(m.hands[s]) <= HandSize,
         NEW team \in Teams, NEW points \in 1..12, NEW s, s = Scored(m, team, points),
         NEW n \in IF s.score[team] >= 12 THEN {Settle(s, s.target)}
                   ELSE NewHands([s EXCEPT !.value = 1])
  PROVE  Becomes(mode, m, n) /\ (n.status = "playing" => Fresh(n))
<1> DEFINE score == [m.score EXCEPT ![team] = Min({12, m.score[team] + points})]
           r == [s EXCEPT !.value = 1]
<1>1. m.score \in [Teams -> 0..12] /\ m.target \in Teams
  BY RowTypes
<1>2. Min({12, m.score[team] + points}) \in 0..12
  <2>1. m.score[team] \in 0..12
    BY <1>1, Zenon
  <2> QED BY <2>1, CappedScore
<1>3. /\ score \in [Teams -> 0..12]
      /\ \A t \in Teams \ {team} : score[t] = m.score[t]
  BY <1>1, <1>2
<1>4. s = [m EXCEPT !.score = score]
  BY Zenon DEF Scored, score
<1> HIDE DEF score
<1>5. /\ s \in Match(mode) /\ s.score = score /\ s.settled = FALSE /\ s.target = m.target
      /\ s.status = "playing" /\ s.winner = Nobody /\ s.host = m.host
      /\ s.table = m.table /\ s.hands = m.hands
  <2>1. [m EXCEPT !.score = score] \in Match(mode)
    BY <1>3, OneField
  <2>2. s \in Match(mode)
    BY <1>4, <2>1
  <2> QED BY <1>4, <2>2 DEF Match
<1>6. CASE s.score[team] >= 12
  <2>1. n = Settle(s, s.target)
    BY <1>6
  <2>2. Ended(mode, Settle(s, s.target)) /\ Same(s, Settle(s, s.target))
    BY <1>1, <1>5, SettleEnds DEF Teams
  <2> QED BY <1>5, <2>1, <2>2 DEF Becomes, Ended, Same
<1>7. CASE ~(s.score[team] >= 12)
  <2>1. n \in NewHands(r)
    BY <1>7
  <2>2. /\ r \in Match(mode) /\ r.score = score /\ r.status = "playing" /\ r.settled = FALSE
        /\ r.winner = Nobody /\ r.host = m.host /\ r.target = m.target
    <3>1. r \in Match(mode)
      BY <1>5, OneField
    <3> QED BY <1>5, <3>1 DEF Match
  <2>3. score[team] < 12
    BY <1>3, <1>5, <1>7
  <2>4. r.score["us"] < 12 /\ r.score["them"] < 12
    BY <1>3, <2>2, <2>3 DEF Teams
  <2> HIDE DEF r
  <2>5. /\ n \in Match(mode) /\ TableInOrder(n) /\ HandsAreWhole(n) /\ ValueFits(n) /\ Fresh(n)
        /\ n.status = r.status /\ n.settled = r.settled /\ n.winner = r.winner /\ Same(r, n)
    BY <2>1, <2>2, <2>4, NewHandsDeal
  <2> QED BY <2>2, <2>5 DEF Becomes, Live, Same
<1> QED BY <1>6, <1>7

-----------------------------------------------------------------------------
(* A card is played.                                                       *)

\* A seat is before the one to play by the cards laid since.
LEMMA SeatsBeforeTurn ==
  ASSUME NEW mode \in Modes, NEW m \in Match(mode), TableInOrder(m)
  PROVE  /\ OnTable(m, m.turn) = 0
         /\ \A i, j \in DOMAIN m.table : m.table[i].seat = m.table[j].seat => i = j
<1> DEFINE k == Len(m.table)
           seat(i) == m.table[i].seat
<1>1. m.mode = mode /\ m.table \in Cells
  BY RowTypes
<1>2. k \in Nat /\ DOMAIN m.table = 1..k
  BY <1>1, LenProperties DEF Cells
<1>3. /\ m.turn \in Seats(mode) /\ k < Players(mode)
      /\ \A i \in 1..k : seat(i) \in Seats(mode) /\ (seat(i) + k + 1 - i) % Players(mode) = m.turn
  BY <1>1, <1>2 DEF TableInOrder
<1> HIDE DEF k, seat
<1>4. /\ \A i \in 1..k : seat(i) # m.turn
      /\ \A i, j \in 1..k : seat(i) = seat(j) => i = j
  <2>1. CASE mode = "1v1"
    <3>1. Seats(mode) = 0..1 /\ Players(mode) = 2
      BY <2>1 DEF Seats, Players
    <3> QED BY <1>2, <1>3, <3>1
  <2>2. CASE mode = "2v2"
    <3>1. Seats(mode) = 0..3 /\ Players(mode) = 4
      BY <2>2 DEF Seats, Players
    <3>2. k \in 0..3 /\ m.turn \in 0..3
      BY <1>2, <1>3, <3>1
    <3>3. ASSUME NEW i \in 1..k PROVE seat(i) \in 0..3 /\ (seat(i) + (k + 1 - i)) % 4 = m.turn /\ k + 1 - i \in 1..3
      BY <1>2, <1>3, <3>1, <3>2
    <3>4. ASSUME NEW i \in 1..k PROVE seat(i) # m.turn
      <4> DEFINE d == k + 1 - i
      <4>1. d \in 1..3 /\ seat(i) \in 0..3 /\ (seat(i) + d) % 4 = m.turn
        BY <3>3
      <4> HIDE DEF d
      <4>2. \A x \in 0..3, y \in 1..3 : (x + y) % 4 # x
        OBVIOUS
      <4> QED BY <4>1, <4>2
    <3>5. ASSUME NEW i \in 1..k, NEW j \in 1..k, seat(i) = seat(j) PROVE i = j
      <4> DEFINE d == k + 1 - i
                 e == k + 1 - j
      <4>1. d \in 1..3 /\ e \in 1..3 /\ seat(i) \in 0..3 /\ (seat(i) + d) % 4 = (seat(i) + e) % 4
        BY <3>3, <3>5
      <4>2. i = k + 1 - d /\ j = k + 1 - e
        BY <1>2
      <4> HIDE DEF d, e
      <4>3. d = e
        BY <4>1
      <4> QED BY <4>2, <4>3
    <3> QED BY <3>4, <3>5
  <2> QED BY <2>1, <2>2, TwoModes
<1> QED BY <1>2, <1>4 DEF OnTable, seat

\* Whose turn it is has a card to play.
LEMMA TurnHasCard ==
  ASSUME NEW mode \in Modes, NEW m \in Match(mode), TableInOrder(m), HandsAreWhole(m)
  PROVE  /\ m.turn \in Seats(mode) /\ m.hands[m.turn] # <<>> /\ Len(m.table) <= 3
         /\ \A s \in Seats(mode) : Len(m.hands[s]) <= HandSize
<1>1. m.mode = mode /\ m.table \in Cells /\ m.tricks \in [Teams -> 0..2]
      /\ m.hands \in [Seats(mode) -> Seq(Cards)]
  BY RowTypes
<1>2. m.turn \in Seats(mode) /\ Len(m.table) < Players(mode) /\ Len(m.table) \in Nat
  BY <1>1, LenProperties DEF TableInOrder, Cells
<1>3. m.tricks["us"] \in 0..1 /\ m.tricks["them"] \in 0..1
  BY <1>1 DEF HandsAreWhole, Teams
<1>4. \A s \in Seats(mode) :
        /\ Len(m.hands[s]) \in Nat /\ OnTable(m, s) \in {0, 1}
        /\ Len(m.hands[s]) + OnTable(m, s) + m.tricks["us"] + m.tricks["them"] = 3
  <2>1. TAKE s \in Seats(mode)
  <2>2. m.hands[s] \in Seq(Cards)
    BY <1>1
  <2>3. Len(m.hands[s]) \in Nat
    BY <2>2, LenProperties
  <2>4. OnTable(m, s) \in {0, 1}
    BY DEF OnTable
  <2>5. Len(m.hands[s]) + OnTable(m, s) + m.tricks["us"] + m.tricks["them"] = HandSize
    BY <1>1 DEF HandsAreWhole
  <2> QED BY <2>3, <2>4, <2>5 DEF HandSize
<1>5. \A s \in Seats(mode) : Len(m.hands[s]) <= HandSize
  <2>1. TAKE s \in Seats(mode)
  <2>2. PICK h \in Nat, t \in {0, 1}, a \in 0 .. 1, b \in 0 .. 1 :
          /\ h = Len(m.hands[s]) /\ t = OnTable(m, s) /\ a = m.tricks["us"] /\ b = m.tricks["them"]
          /\ h + t + a + b = 3
    BY <1>3, <1>4
  <2>3. h + t + a + b = 3
    BY <2>2
  <2>4. h <= 3
    BY <2>3
  <2> QED BY <2>2, <2>4 DEF HandSize
<1>6. Len(m.hands[m.turn]) # 0
  <2>1. OnTable(m, m.turn) = 0
    BY SeatsBeforeTurn
  <2>2. Len(m.hands[m.turn]) + 0 + m.tricks["us"] + m.tricks["them"] = 3
    BY <1>2, <1>4, <2>1
  <2> QED BY <1>2, <1>3, <1>4, <2>2
<1>7. Len(m.table) <= 3
  BY <1>2 DEF Players
<1> QED BY <1>2, <1>5, <1>6, <1>7, EmptySeq

\* The card leaves the hand of its seat for the table.
Laid(m, p, card) ==
  /\ p.table = Append(m.table, [seat |-> m.turn, card |-> card])
  /\ \A s \in Seats(m.mode) : Len(p.hands[s]) + OnTable(p, s) = Len(m.hands[s]) + OnTable(m, s)

WithCardLaid(m, place, card) ==
  [m EXCEPT !.hands[m.turn] = RemoveAt(@, place), !.table = Append(@, [seat |-> m.turn, card |-> card])]

\* A card laid changes one hand and the table, and nothing else.
LEMMA CardIsLaid ==
  ASSUME NEW mode \in Modes, NEW m \in Match(mode), TableInOrder(m), HandsAreWhole(m),
         NEW place \in DOMAIN m.hands[m.turn], NEW card, card = m.hands[m.turn][place],
         NEW p, p = WithCardLaid(m, place, card)
  PROVE  /\ p \in Match(mode) /\ Laid(m, p, card)
         /\ p.mode = m.mode /\ p.status = m.status /\ p.settled = m.settled /\ p.winner = m.winner
         /\ p.score = m.score /\ p.value = m.value /\ p.phase = m.phase /\ p.dark = m.dark
         /\ p.raise = m.raise /\ p.tricks = m.tricks /\ p.turn = m.turn /\ Same(m, p)
<1> DEFINE hands == [m.hands EXCEPT ![m.turn] = RemoveAt(m.hands[m.turn], place)]
           cell == [seat |-> m.turn, card |-> card]
           table == Append(m.table, cell)
<1>1. m.mode = mode /\ m.table \in Cells /\ m.hands \in [Seats(mode) -> Seq(Cards)] /\ m.turn \in Seats(mode)
      /\ m.turn \in 0..3
  BY RowTypes DEF TableInOrder
<1>2. /\ RemoveAt(m.hands[m.turn], place) \in Seq(Cards)
      /\ Len(m.hands[m.turn]) \in Nat /\ Len(RemoveAt(m.hands[m.turn], place)) = Len(m.hands[m.turn]) - 1
      /\ card \in Cards
  BY <1>1, CardRemoved
<1>3. /\ hands \in [Seats(mode) -> Seq(Cards)]
      /\ Len(hands[m.turn]) = Len(m.hands[m.turn]) - 1
      /\ \A s \in Seats(mode) \ {m.turn} : hands[s] = m.hands[s]
  BY <1>1, <1>2
<1>4. cell \in [seat : 0..3, card : Cards] /\ cell.seat = m.turn
  BY <1>1, <1>2
<1> HIDE DEF cell
<1>5. /\ table \in Cells /\ Len(table) = Len(m.table) + 1 /\ table[Len(m.table) + 1] = cell
      /\ \A i \in 1 .. Len(m.table) : table[i] = m.table[i]
  BY <1>1, <1>4, AppendProperties DEF Cells
<1>6. Len(m.table) \in Nat /\ DOMAIN m.table = 1 .. Len(m.table) /\ DOMAIN table = 1 .. Len(m.table) + 1
  BY <1>1, <1>5, LenProperties DEF Cells
<1>7. p = [m EXCEPT !.hands = hands, !.table = table]
  BY Zenon DEF WithCardLaid, hands, table, cell
<1> HIDE DEF hands, table
<1>8. p \in Match(mode)
  <2> DEFINE m1 == [m EXCEPT !.hands = hands]
             m2 == [m1 EXCEPT !.table = table]
  <2>0. p = m2
    BY <1>7
  <2> HIDE DEF m1, m2
  <2>1. m1 \in Match(mode)
    BY <1>3, OneField DEF m1
  <2>2. m2 \in Match(mode)
    BY <1>5, <2>1, OneField DEF m2
  <2> QED BY <2>0, <2>2
<1>9. /\ p.mode = m.mode /\ p.status = m.status /\ p.settled = m.settled /\ p.winner = m.winner
      /\ p.score = m.score /\ p.value = m.value /\ p.phase = m.phase /\ p.dark = m.dark
      /\ p.raise = m.raise /\ p.tricks = m.tricks /\ p.turn = m.turn /\ p.host = m.host
      /\ p.target = m.target /\ p.hands = hands /\ p.table = table
  BY <1>7 DEF Match
<1>10. OnTable(m, m.turn) = 0
  BY SeatsBeforeTurn
<1>11. OnTable(p, m.turn) = 1
  <2>1. Len(m.table) + 1 \in DOMAIN p.table /\ p.table[Len(m.table) + 1].seat = m.turn
    <3>1. p.table[Len(m.table) + 1].seat = m.turn
      BY <1>4, <1>5, <1>9
    <3>2. Len(m.table) + 1 \in 1 .. Len(m.table) + 1
      BY <1>6
    <3> QED BY <1>6, <1>9, <3>1, <3>2
  <2> QED BY <2>1 DEF OnTable
<1>12. ASSUME NEW s \in Seats(mode) \ {m.turn}
       PROVE  OnTable(p, s) = OnTable(m, s)
  <2>1. (\E i \in DOMAIN p.table : p.table[i].seat = s) <=> (\E i \in DOMAIN m.table : m.table[i].seat = s)
    <3>1. \A i \in 1 .. Len(m.table) + 1 : i \in 1 .. Len(m.table) \/ i = Len(m.table) + 1
      BY <1>6
    <3>2. \A i \in 1 .. Len(m.table) : i \in 1 .. Len(m.table) + 1
      BY <1>6
    <3>3. p.table[Len(m.table) + 1].seat # s /\ \A i \in 1 .. Len(m.table) : p.table[i].seat = m.table[i].seat
      BY <1>4, <1>5, <1>6, <1>9
    <3>4. DOMAIN p.table = 1 .. Len(m.table) + 1 /\ DOMAIN m.table = 1 .. Len(m.table)
      BY <1>6, <1>9
    <3>5. ASSUME NEW i \in DOMAIN p.table, p.table[i].seat = s
          PROVE  \E j \in DOMAIN m.table : m.table[j].seat = s
      <4>1. i \in 1 .. Len(m.table)
        BY <3>1, <3>3, <3>4, <3>5
      <4>2. i \in DOMAIN m.table /\ m.table[i].seat = s
        BY <3>3, <3>4, <3>5, <4>1
      <4> QED BY <4>2
    <3>6. ASSUME NEW i \in DOMAIN m.table, m.table[i].seat = s
          PROVE  \E j \in DOMAIN p.table : p.table[j].seat = s
      <4>1. i \in DOMAIN p.table /\ p.table[i].seat = s
        BY <3>2, <3>3, <3>4, <3>6
      <4> QED BY <4>1
    <3> QED BY <3>5, <3>6
  <2> QED BY <2>1, Zenon DEF OnTable
<1>13. \A s \in Seats(mode) : Len(p.hands[s]) + OnTable(p, s) = Len(m.hands[s]) + OnTable(m, s)
  <2>1. TAKE s \in Seats(mode)
  <2>2. CASE s # m.turn
    BY <1>2, <1>3, <1>9, <1>12, <2>2
  <2>3. CASE s = m.turn
    <3>1. Len(p.hands[m.turn]) = Len(m.hands[m.turn]) - 1 /\ Len(m.hands[m.turn]) \in Nat
      BY <1>2, <1>3, <1>9
    <3>2. Len(p.hands[m.turn]) + OnTable(p, m.turn) = Len(m.hands[m.turn]) + OnTable(m, m.turn)
      BY <1>10, <1>11, <3>1
    <3> QED BY <2>3, <3>2
  <2> QED BY <2>2, <2>3
<1>14. Laid(m, p, card)
  BY <1>1, <1>9, <1>13 DEF Laid, table, cell
<1> QED BY <1>8, <1>9, <1>14 DEF Same

\* With the last card every seat has laid one.
LEMMA TrickIsFull ==
  ASSUME NEW mode \in Modes, NEW m \in Match(mode), TableInOrder(m),
         NEW card, NEW p, Laid(m, p, card), Len(m.table) + 1 = Players(mode)
  PROVE  \A s \in Seats(mode) : OnTable(p, s) = 1
<1> DEFINE k == Len(m.table)
           seat(i) == m.table[i].seat
           cell == [seat |-> m.turn, card |-> card]
<1>1. m.mode = mode /\ m.table \in Cells /\ p.table = Append(m.table, cell)
  BY RowTypes DEF Laid
<1>2. k \in Nat /\ DOMAIN m.table = 1..k
  BY <1>1, LenProperties DEF Cells
<1>3. /\ m.turn \in Seats(mode) /\ k + 1 = Players(mode)
      /\ \A i \in 1..k : seat(i) \in Seats(mode) /\ (seat(i) + k + 1 - i) % Players(mode) = m.turn
  BY <1>1, <1>2 DEF TableInOrder
<1>4. /\ DOMAIN p.table = 1 .. k + 1 /\ p.table[k + 1].seat = m.turn
      /\ \A i \in 1..k : p.table[i].seat = seat(i)
  <2>1. m.turn \in 0..3
    BY RowTypes
  <2>2. /\ Len(Append(m.table, cell)) = k + 1 /\ Append(m.table, cell)[k + 1] = cell
        /\ \A i \in 1..k : Append(m.table, cell)[i] = m.table[i]
    BY <1>1, <1>2, AppendProperties
  <2>3. DOMAIN Append(m.table, cell) = 1 .. Len(Append(m.table, cell))
    BY <1>1
  <2> QED BY <1>1, <2>2, <2>3
<1> HIDE DEF k, seat, cell
<1>5. \A s \in Seats(mode) : s = m.turn \/ \E i \in 1..k : seat(i) = s
  <2>1. CASE mode = "1v1"
    <3>1. Seats(mode) = 0..1 /\ Players(mode) = 2
      BY <2>1 DEF Seats, Players
    <3> QED BY <1>2, <1>3, <3>1
  <2>2. CASE mode = "2v2"
    <3>1. Seats(mode) = 0..3 /\ Players(mode) = 4
      BY <2>2 DEF Seats, Players
    <3>2. k = 3 /\ m.turn \in 0..3
      BY <1>2, <1>3, <3>1
    <3>3. seat(1) \in 0..3 /\ seat(2) \in 0..3 /\ seat(3) \in 0..3
      BY <1>3, <3>1, <3>2
    <3>4. (seat(1) + 3 + 1 - 1) % 4 = m.turn /\ (seat(2) + 3 + 1 - 2) % 4 = m.turn /\ (seat(3) + 3 + 1 - 3) % 4 = m.turn
      BY <1>3, <3>1, <3>2
    <3>5. (seat(1) + 3) % 4 = m.turn /\ (seat(2) + 2) % 4 = m.turn /\ (seat(3) + 1) % 4 = m.turn
      BY <3>3, <3>4
    <3>6. \A s \in 0..3 : s = m.turn \/ s = seat(1) \/ s = seat(2) \/ s = seat(3)
      BY <3>2, <3>3, <3>5
    <3> QED BY <3>1, <3>2, <3>6
  <2> QED BY <2>1, <2>2, TwoModes
<1>6. \A s \in Seats(mode) : \E i \in DOMAIN p.table : p.table[i].seat = s
  BY <1>2, <1>4, <1>5
<1> QED BY <1>6 DEF OnTable

\* The next seat is to play.
LEMMA TurnPasses ==
  ASSUME NEW mode \in Modes, NEW m \in Match(mode), Live(mode, m), m.phase = "play",
         NEW card, NEW p \in Match(mode), Laid(m, p, card),
         p.status = m.status, p.settled = m.settled, p.winner = m.winner,
         p.score = m.score, p.value = m.value, p.phase = m.phase, p.dark = m.dark,
         p.raise = m.raise, p.tricks = m.tricks, Same(m, p),
         Len(p.table) # Players(mode),
         NEW n, n = [p EXCEPT !.turn = (m.turn + 1) % Players(mode)]
  PROVE  Live(mode, n) /\ Same(m, n) /\ n.phase = "play"
<1> DEFINE turn == (m.turn + 1) % Players(mode)
           cell == [seat |-> m.turn, card |-> card]
           k == Len(m.table)
           seat(i) == m.table[i].seat
<1>1. m.mode = mode /\ p.mode = mode /\ m.table \in Cells /\ p.table = Append(m.table, cell)
      /\ m.turn \in 0..3 /\ m.turn \in Seats(mode) /\ Players(mode) \in {2, 4} /\ k < Players(mode)
  <2>1. m.turn \in Seats(m.mode) /\ k < Players(m.mode)
    BY DEF Live, TableInOrder
  <2> QED BY <2>1, RowTypes DEF Laid, Players
<1>2. turn \in Seats(mode) /\ turn \in 0..3
  <2>1. mode = "1v1" => Seats(mode) = 0..1 /\ Players(mode) = 2
    BY DEF Seats, Players
  <2>2. mode = "2v2" => Seats(mode) = 0..3 /\ Players(mode) = 4
    BY DEF Seats, Players
  <2> QED BY <1>1, <2>1, <2>2, TwoModes
<1> HIDE DEF turn
<1>3. n \in Match(mode)
  BY <1>2, OneField DEF turn
<1>4. /\ n.mode = p.mode /\ n.status = m.status /\ n.settled = m.settled /\ n.winner = m.winner
      /\ n.score = m.score /\ n.value = m.value /\ n.phase = m.phase /\ n.dark = m.dark
      /\ n.raise = m.raise /\ n.tricks = m.tricks /\ n.turn = turn /\ Same(m, n)
      /\ n.hands = p.hands /\ n.table = p.table
  <2> n = [p EXCEPT !.turn = turn]
    BY DEF turn
  <2> QED BY DEF Match, Same
<1>5. k \in Nat /\ DOMAIN m.table = 1..k
  BY <1>1, LenProperties DEF Cells
<1>6. \A i \in 1..k : seat(i) \in Seats(mode) /\ (seat(i) + k + 1 - i) % Players(mode) = m.turn
  BY <1>1, <1>5 DEF Live, TableInOrder
<1>7. /\ Len(p.table) = k + 1 /\ p.table[k + 1].seat = m.turn
      /\ DOMAIN p.table = 1 .. k + 1
      /\ \A i \in 1..k : p.table[i].seat = seat(i)
  <2>1. /\ Len(Append(m.table, cell)) = k + 1 /\ Append(m.table, cell)[k + 1] = cell
        /\ \A i \in 1..k : Append(m.table, cell)[i] = m.table[i]
    BY <1>1, <1>5, AppendProperties
  <2>2. DOMAIN Append(m.table, cell) = 1 .. Len(Append(m.table, cell))
    BY <1>1
  <2> QED BY <1>1, <2>1, <2>2
<1> HIDE DEF k, seat, cell
<1>8. TableInOrder(n)
  <2>1. Len(n.table) < Players(mode)
    BY <1>1, <1>4, <1>5, <1>7
  <2>2. ASSUME NEW i \in 1 .. k + 1
        PROVE  /\ p.table[i].seat \in Seats(mode)
               /\ (p.table[i].seat + (k + 1) + 1 - i) % Players(mode) = turn
    <3>1. CASE i = k + 1
      <4>1. p.table[i].seat = m.turn /\ m.turn + (k + 1) + 1 - i = m.turn + 1
        BY <1>1, <1>5, <1>7, <3>1
      <4> QED BY <1>1, <4>1 DEF turn
    <3>2. CASE i \in 1..k
      <4>1. p.table[i].seat = seat(i) /\ seat(i) \in 0..3 /\ seat(i) \in Seats(mode)
        BY <1>6, <1>7, <3>2 DEF Seats
      <4> DEFINE x == seat(i) + k + 1 - i
      <4>2. x \in Int /\ x % Players(mode) = m.turn /\ seat(i) + (k + 1) + 1 - i = x + 1
        BY <1>5, <1>6, <3>2, <4>1
      <4> HIDE DEF x
      <4>3. (x + 1) % Players(mode) = (m.turn + 1) % Players(mode)
        BY <1>1, <4>2
      <4> QED BY <4>1, <4>2, <4>3 DEF turn
    <3> QED BY <1>5, <3>1, <3>2
  <2>3. n.mode = mode /\ n.turn = turn /\ n.turn \in Seats(n.mode) /\ Len(n.table) = k + 1
    BY <1>1, <1>2, <1>4, <1>7
  <2>4. n.table = p.table /\ DOMAIN n.table = 1 .. k + 1
    BY <1>4, <1>7
  <2>5. \A i \in DOMAIN n.table :
          /\ n.table[i].seat \in Seats(n.mode)
          /\ (n.table[i].seat + Len(n.table) + 1 - i) % Players(n.mode) = n.turn
    BY <2>2, <2>3, <2>4
  <2> QED BY <2>1, <2>3, <2>5 DEF TableInOrder
<1>9. HandsAreWhole(n)
  <2>1. \A s : OnTable(n, s) = OnTable(p, s)
    BY <1>4 DEF OnTable
  <2>2. \A s \in Seats(mode) : Len(n.hands[s]) + OnTable(n, s) = Len(m.hands[s]) + OnTable(m, s)
    BY <1>1, <1>4, <2>1 DEF Laid
  <2>3. HandsAreWhole(m)
    BY DEF Live
  <2> QED BY <1>1, <1>4, <2>2, <2>3 DEF HandsAreWhole
<1>10. ValueFits(n)
  BY <1>4 DEF Live, ValueFits
<1> QED BY <1>3, <1>4, <1>8, <1>9, <1>10 DEF Live

\* A trick is taken: its team wins the hand, or leads the next trick.
LEMMA TrickIsTaken ==
  ASSUME NEW mode \in Modes, NEW m \in Match(mode), Live(mode, m), m.phase = "play",
         NEW card, NEW p \in Match(mode), Laid(m, p, card),
         p.status = m.status, p.settled = m.settled, p.winner = m.winner,
         p.score = m.score, p.value = m.value, p.phase = m.phase, p.dark = m.dark,
         p.raise = m.raise, p.tricks = m.tricks, Same(m, p),
         \A i \in DOMAIN p.table : p.table[i].seat \in Seats(mode),
         Len(p.table) = Players(mode),
         NEW n \in ResolveTrick(p)
  PROVE  Becomes(mode, m, n) /\ (n.status = "playing" => n.phase \in {"play", "eleven"})
<1> DEFINE seat == p.table[Best(p.table)].seat
           team == TeamOf(seat)
           tricks == [p.tricks EXCEPT ![team] = @ + 1]
           t == [p EXCEPT !.tricks = tricks, !.table = <<>>, !.turn = seat]
<1>1. /\ m.mode = mode /\ p.mode = mode /\ p.table \in Cells /\ p.tricks \in [Teams -> 0..2]
      /\ p.hands \in [Seats(mode) -> Seq(Cards)] /\ Players(mode) \in {2, 4} /\ m.table \in Cells
      /\ p.score \in [Teams -> 0..12] /\ p.value \in {1, 3, 6, 9, 12}
  BY RowTypes DEF Players
<1>2. seat \in Seats(mode) /\ seat \in 0..3
  <2>1. Best(p.table) \in DOMAIN p.table
    BY <1>1, BestIsOnTable
  <2>2. Seats(mode) \subseteq 0..3
    BY DEF Seats
  <2> QED BY <2>1, <2>2
<1>3. team \in Teams
  BY DEF TeamOf, Teams
<1>4. n \in IF HandOver(t.tricks) THEN FinishHand(t, team) ELSE {t}
  BY DEF ResolveTrick
<1> HIDE DEF seat, team
<1>5. p.tricks["us"] \in 0..1 /\ p.tricks["them"] \in 0..1
  BY <1>1 DEF Live, HandsAreWhole, Teams
<1>6. /\ tricks \in [Teams -> 0..2] /\ tricks["us"] + tricks["them"] = p.tricks["us"] + p.tricks["them"] + 1
  BY <1>1, <1>3, <1>5 DEF Teams
<1> HIDE DEF tricks
<1>7. t \in Match(mode)
  <2> DEFINE m1 == [p EXCEPT !.tricks = tricks]
             m2 == [m1 EXCEPT !.table = <<>>]
             m3 == [m2 EXCEPT !.turn = seat]
  <2>0. t = m3
    OBVIOUS
  <2> HIDE DEF m1, m2, m3
  <2>1. m1 \in Match(mode)
    BY <1>6, OneField DEF m1
  <2>2. m2 \in Match(mode)
    <3>1. <<>> \in Cells
      BY DEF Cells
    <3> QED BY <2>1, <3>1, OneField DEF m2
  <2>3. m3 \in Match(mode)
    BY <1>2, <2>2, OneField DEF m3
  <2> QED BY <2>0, <2>3
<1>8. /\ t.mode = mode /\ t.status = m.status /\ t.settled = m.settled /\ t.winner = m.winner
      /\ t.score = m.score /\ t.value = m.value /\ t.phase = m.phase /\ t.dark = m.dark
      /\ t.raise = m.raise /\ t.tricks = tricks /\ t.turn = seat /\ Same(m, t)
      /\ t.hands = p.hands /\ t.table = <<>>
  BY <1>1 DEF Match, Same
<1> HIDE DEF t
<1>9. Len(m.table) + 1 = Players(mode)
  <2>1. m.turn \in 0..3
    BY RowTypes
  <2>2. Len(p.table) = Len(m.table) + 1
    BY <1>1, <2>1, AppendProperties DEF Laid, Cells
  <2> QED BY <2>2
<1>10. \A s \in Seats(mode) : Len(t.hands[s]) + tricks["us"] + tricks["them"] = HandSize
  <2>1. \A s \in Seats(mode) : OnTable(p, s) = 1
    BY <1>9, TrickIsFull DEF Live
  <2>2. \A s \in Seats(mode) : Len(p.hands[s]) + 1 = Len(m.hands[s]) + OnTable(m, s)
    BY <1>1, <2>1 DEF Laid
  <2>3. \A s \in Seats(mode) : Len(m.hands[s]) + OnTable(m, s) + m.tricks["us"] + m.tricks["them"] = HandSize
    BY <1>1 DEF Live, HandsAreWhole
  <2>4. \A s \in Seats(mode) : Len(p.hands[s]) \in Nat /\ Len(m.hands[s]) \in Nat /\ OnTable(m, s) \in {0, 1}
    <3>1. m.hands \in [Seats(mode) -> Seq(Cards)]
      BY RowTypes
    <3> QED BY <1>1, <3>1, LenProperties DEF OnTable
  <2> DEFINE a == p.tricks["us"]
             b == p.tricks["them"]
             c == tricks["us"]
             d == tricks["them"]
  <2>5. a \in 0..1 /\ b \in 0..1 /\ c \in 0..2 /\ d \in 0..2 /\ c + d = a + b + 1
    BY <1>5, <1>6 DEF Teams
  <2>6. \A s \in Seats(mode) : Len(m.hands[s]) + OnTable(m, s) + a + b = 3
    BY <2>3 DEF HandSize
  <2> HIDE DEF a, b, c, d
  <2>7. \A s \in Seats(mode) : Len(p.hands[s]) + c + d = 3
    BY <2>2, <2>4, <2>5, <2>6
  <2> QED BY <1>8, <2>7 DEF HandSize, c, d
<1>11. \A s \in Seats(mode) : Len(t.hands[s]) <= HandSize
  <2>1. \A s \in Seats(mode) : Len(t.hands[s]) \in Nat
    BY <1>1, <1>8, LenProperties
  <2>2. tricks["us"] \in Nat /\ tricks["them"] \in Nat
    BY <1>6 DEF Teams
  <2> QED BY <1>10, <2>1, <2>2 DEF HandSize
<1>12. CASE HandOver(t.tricks)
  <2> DEFINE s == Scored(t, team, t.value)
  <2>1. n \in IF s.score[team] >= 12 THEN {Settle(s, s.target)} ELSE NewHands([s EXCEPT !.value = 1])
    BY <1>4, <1>12 DEF FinishHand
  <2> HIDE DEF s
  <2>2. s = Scored(t, team, t.value) /\ t.value \in 1..12 /\ Len(t.table) <= 3
        /\ t.score["us"] < 12 /\ t.score["them"] < 12
        /\ t.status = "playing" /\ t.settled = FALSE /\ t.winner = Nobody
    BY <1>1, <1>8 DEF s, Live, ValueFits
  <2>3. Becomes(mode, t, n) /\ (n.status = "playing" => Fresh(n))
    BY <1>3, <1>7, <1>11, <2>1, <2>2, HandFinishes
  <2> QED BY <1>8, <2>3 DEF Becomes, Same, Fresh
<1>13. CASE ~HandOver(t.tricks)
  <2>1. n = t
    BY <1>4, <1>13
  <2>2. tricks["us"] <= 1 /\ tricks["them"] <= 1
    BY <1>6, <1>8, <1>13 DEF HandOver, Teams
  <2>3. \A s : OnTable(t, s) = 0
    BY <1>8 DEF OnTable
  <2>4. HandsAreWhole(t)
    <3>1. \A s \in Seats(mode) : Len(t.hands[s]) \in Nat
      BY <1>1, <1>8, LenProperties
    <3>2. \A s \in Seats(mode) : Len(t.hands[s]) + OnTable(t, s) + tricks["us"] + tricks["them"] = HandSize
      BY <1>10, <2>3, <3>1
    <3> QED BY <1>8, <2>2, <3>2 DEF HandsAreWhole
  <2>5. TableInOrder(t)
    BY <1>1, <1>2, <1>8 DEF TableInOrder
  <2>6. ValueFits(t)
    BY <1>8 DEF Live, ValueFits
  <2>7. Live(mode, t)
    BY <1>7, <1>8, <2>4, <2>5, <2>6 DEF Live
  <2> QED BY <1>8, <2>1, <2>7 DEF Becomes
<1> QED BY <1>12, <1>13

\* Playing a card keeps the match in order or ends it.
LEMMA CardPlayed ==
  ASSUME NEW mode \in Modes, NEW m, Live(mode, m), m.phase = "play",
         NEW place \in DOMAIN m.hands[m.turn], NEW n \in PlayCard(m, m.turn, place)
  PROVE  Becomes(mode, m, n) /\ (n.status = "playing" => n.phase \in {"play", "eleven"})
<1>1. m \in Match(mode) /\ TableInOrder(m) /\ HandsAreWhole(m) /\ m.mode = mode
  BY RowTypes DEF Live
<1>2. Cardinality(Seats(mode)) = Players(mode)
  BY TwoModes DEF Players
<1>3. PICK card : card = m.hands[m.turn][place]
  OBVIOUS
<1>4. PICK q : q = WithCardLaid(m, place, card)
  OBVIOUS
<1>5. /\ q \in Match(mode) /\ Laid(m, q, card)
      /\ q.mode = m.mode /\ q.status = m.status /\ q.settled = m.settled /\ q.winner = m.winner
      /\ q.score = m.score /\ q.value = m.value /\ q.phase = m.phase /\ q.dark = m.dark
      /\ q.raise = m.raise /\ q.tricks = m.tricks /\ Same(m, q)
  BY <1>1, <1>3, <1>4, CardIsLaid
<1>6. n \in IF Len(q.table) = Players(mode) THEN ResolveTrick(q)
            ELSE {[q EXCEPT !.turn = (m.turn + 1) % Players(mode)]}
  BY <1>1, <1>2, <1>3, <1>4, Zenon DEF PlayCard, WithCardLaid
<1>7. CASE Len(q.table) # Players(mode)
  <2>1. n = [q EXCEPT !.turn = (m.turn + 1) % Players(mode)]
    BY <1>6, <1>7
  <2>2. Live(mode, n) /\ Same(m, n) /\ n.phase = "play"
    BY <1>1, <1>5, <1>7, <2>1, TurnPasses
  <2> QED BY <2>2 DEF Becomes
<1>8. CASE Len(q.table) = Players(mode)
  <2>1. n \in ResolveTrick(q)
    BY <1>6, <1>8
  <2>2. \A i \in DOMAIN q.table : q.table[i].seat \in Seats(mode)
    <3>1. m.table \in Cells /\ m.turn \in 0..3 /\ m.turn \in Seats(mode)
      BY <1>1, RowTypes DEF TableInOrder
    <3>2. DOMAIN m.table = 1 .. Len(m.table) /\ Len(m.table) \in Nat
      BY <3>1, LenProperties DEF Cells
    <3>3. \A i \in 1 .. Len(m.table) : m.table[i].seat \in Seats(mode)
      BY <1>1, <3>2 DEF TableInOrder
    <3> DEFINE cell == [seat |-> m.turn, card |-> card]
    <3>4. q.table = Append(m.table, cell) /\ cell.seat \in Seats(mode)
      BY <1>5, <3>1 DEF Laid
    <3> HIDE DEF cell
    <3>5. /\ Len(Append(m.table, cell)) = Len(m.table) + 1 /\ Append(m.table, cell)[Len(m.table) + 1] = cell
          /\ \A i \in 1 .. Len(m.table) : Append(m.table, cell)[i] = m.table[i]
      BY <3>1, AppendProperties DEF Cells
    <3>6. DOMAIN Append(m.table, cell) = 1 .. Len(m.table) + 1
      BY <3>1, <3>5 DEF Cells
    <3> QED BY <3>2, <3>3, <3>4, <3>5, <3>6
  <2>3. Becomes(mode, m, n) /\ (n.status = "playing" => n.phase \in {"play", "eleven"})
    BY <1>1, <1>5, <1>8, <2>1, <2>2, TrickIsTaken
  <2> QED BY <2>3
<1> QED BY <1>7, <1>8

-----------------------------------------------------------------------------
(* The other moves.                                                        *)

\* Cards that nobody moves stay in order.
LEMMA CardsUnmoved ==
  ASSUME NEW m, NEW n, TableInOrder(m), HandsAreWhole(m),
         n.mode = m.mode, n.turn = m.turn, n.table = m.table, n.hands = m.hands, n.tricks = m.tricks
  PROVE  TableInOrder(n) /\ HandsAreWhole(n)
<1>1. TableInOrder(n)
  BY Zenon DEF TableInOrder
<1>2. \A s : OnTable(n, s) = OnTable(m, s)
  BY Zenon DEF OnTable
<1>3. HandsAreWhole(n)
  BY <1>2, Zenon DEF HandsAreWhole
<1> QED BY <1>1, <1>3

\* A raise asked leaves the hand as it is.
LEMMA RaiseAsked ==
  ASSUME NEW mode \in Modes, NEW m, Live(mode, m), NEW from \in Teams, MayRaise(m, from),
         NEW n, n = RequestRaise(m, from)
  PROVE  Live(mode, n) /\ Same(m, n) /\ n.phase = "raise" /\ n.raise.to = Rival(from)
<1> DEFINE value == NextValue[IF m.phase = "raise" THEN m.raise.value ELSE m.value]
           raise == [to |-> Rival(from), value |-> value]
<1>1. m \in Match(mode)
  BY DEF Live
<1>2. m.value \in {1, 3, 6, 9, 12} /\ m.raise \in [to : Teams, value : {0, 3, 6, 9, 12}]
      /\ m.phase \in {"play", "raise", "eleven"} /\ m.dark \in BOOLEAN
  BY <1>1, RowTypes
<1>3. ValueFits(m)
  BY DEF Live
<1>4. \A v \in {1, 3, 6, 9} : NextValue[v] \in {3, 6, 9, 12}
  BY DEF NextValue
<1>5. value \in {3, 6, 9, 12}
  <2>1. CASE m.phase = "raise"
    <3>1. m.raise.value \in {3, 6, 9}
      BY <1>2, <1>3, <2>1 DEF ValueFits, MayRaise
    <3> QED BY <1>4, <2>1, <3>1
  <2>2. CASE m.phase # "raise"
    <3>1. m.value \in {1, 3, 6, 9}
      BY <1>2, <2>2 DEF MayRaise
    <3> QED BY <1>4, <2>2, <3>1
  <2> QED BY <2>1, <2>2
<1>6. m.dark = FALSE /\ m.phase # "eleven"
  BY <1>2, <1>3 DEF ValueFits, MayRaise
<1> HIDE DEF value
<1>7. raise \in [to : Teams, value : {0, 3, 6, 9, 12}] /\ raise.value >= 3 /\ raise.to = Rival(from)
  BY <1>5 DEF Rival, Teams
<1>8. n = [m EXCEPT !.phase = "raise", !.raise = raise]
  BY DEF RequestRaise, Raised, value
<1> HIDE DEF raise
<1>9. n \in Match(mode)
  <2> DEFINE m1 == [m EXCEPT !.phase = "raise"]
             m2 == [m1 EXCEPT !.raise = raise]
  <2>0. n = m2
    BY <1>8
  <2> HIDE DEF m1, m2
  <2>1. m1 \in Match(mode)
    BY <1>1, OneField DEF m1
  <2>2. m2 \in Match(mode)
    BY <1>7, <2>1, OneField DEF m2
  <2> QED BY <2>0, <2>2
<1>10. /\ n.mode = m.mode /\ n.status = m.status /\ n.settled = m.settled /\ n.winner = m.winner
       /\ n.score = m.score /\ n.value = m.value /\ n.phase = "raise" /\ n.dark = m.dark
       /\ n.raise = raise /\ n.tricks = m.tricks /\ n.turn = m.turn /\ n.host = m.host
       /\ n.target = m.target /\ n.hands = m.hands /\ n.table = m.table
  BY <1>1, <1>8 DEF Match
<1>11. TableInOrder(n) /\ HandsAreWhole(n)
  BY <1>10, CardsUnmoved DEF Live
<1>12. ValueFits(n)
  BY <1>3, <1>6, <1>7, <1>10 DEF ValueFits
<1> QED BY <1>7, <1>9, <1>10, <1>11, <1>12 DEF Live, Same

\* A hand played for more goes on.
LEMMA ValueSet ==
  ASSUME NEW mode \in Modes, NEW m, Live(mode, m), NEW value \in {3, 6, 9, 12},
         NEW raise \in [to : Teams, value : {0, 3, 6, 9, 12}], m.dark = FALSE,
         NEW n, n = [m EXCEPT !.value = value, !.phase = "play", !.raise = raise]
  PROVE  Live(mode, n) /\ Same(m, n)
<1>1. m \in Match(mode)
  BY DEF Live
<1>2. n \in Match(mode)
  <2> DEFINE m1 == [m EXCEPT !.value = value]
             m2 == [m1 EXCEPT !.phase = "play"]
             m3 == [m2 EXCEPT !.raise = raise]
  <2>0. n = m3
    OBVIOUS
  <2> HIDE DEF m1, m2, m3
  <2>1. m1 \in Match(mode)
    BY <1>1, OneField DEF m1
  <2>2. m2 \in Match(mode)
    BY <2>1, OneField DEF m2
  <2>3. m3 \in Match(mode)
    BY <2>2, OneField DEF m3
  <2> QED BY <2>0, <2>3
<1>3. /\ n.mode = m.mode /\ n.status = m.status /\ n.settled = m.settled /\ n.winner = m.winner
      /\ n.score = m.score /\ n.value = value /\ n.phase = "play" /\ n.dark = m.dark
      /\ n.raise = raise /\ n.tricks = m.tricks /\ n.turn = m.turn /\ n.host = m.host
      /\ n.target = m.target /\ n.hands = m.hands /\ n.table = m.table
  BY <1>1 DEF Match
<1>4. TableInOrder(n) /\ HandsAreWhole(n)
  <2>1. TableInOrder(m) /\ HandsAreWhole(m)
    BY DEF Live
  <2>2. n.mode = m.mode /\ n.turn = m.turn /\ n.table = m.table /\ n.hands = m.hands /\ n.tricks = m.tricks
    BY <1>3
  <2> QED BY <2>1, <2>2, CardsUnmoved
<1>5. ValueFits(n)
  <2>1. ValueFits(m)
    BY DEF Live
  <2> QED BY <1>3, <2>1 DEF ValueFits
<1> QED BY <1>2, <1>3, <1>4, <1>5 DEF Live, Same

\* What a match in play is.
LEMMA LiveFacts ==
  ASSUME NEW mode \in Modes, NEW m, Live(mode, m)
  PROVE  /\ m \in Match(mode) /\ m.mode = mode /\ m.score["us"] < 12 /\ m.score["them"] < 12
         /\ m.status = "playing" /\ m.settled = FALSE /\ m.winner = Nobody
         /\ Len(m.table) <= 3 /\ \A s \in Seats(mode) : Len(m.hands[s]) <= HandSize
         /\ m.turn \in Seats(mode) /\ m.hands[m.turn] # <<>>
         /\ m.phase # "play" => m.dark = FALSE
<1>1. m \in Match(mode) /\ TableInOrder(m) /\ HandsAreWhole(m) /\ ValueFits(m)
  BY DEF Live
<1>2. m.mode = mode /\ m.dark \in BOOLEAN
  BY <1>1, RowTypes
<1> QED BY <1>1, <1>2, TurnHasCard DEF Live, ValueFits

\* Accepting a raise or running from it.
LEMMA RaiseAnswered ==
  ASSUME NEW mode \in Modes, NEW m, Live(mode, m), m.phase = "raise",
         NEW n \in {Accepted(m)} \cup RanAway(m)
  PROVE  Becomes(mode, m, n)
         /\ (n \in RanAway(m) /\ n.status = "playing" => Fresh(n))
<1>1. m \in Match(mode) /\ ValueFits(m)
  BY DEF Live
<1>2. m.value \in {1, 3, 6, 9, 12} /\ m.raise \in [to : Teams, value : {0, 3, 6, 9, 12}]
      /\ m.turn \in 0..3
  BY <1>1, RowTypes
<1>3. NoRaise \in [to : Teams, value : {0, 3, 6, 9, 12}]
  BY DEF NoRaise, Teams
<1>4. ASSUME n = Accepted(m) PROVE Becomes(mode, m, n)
  <2>1. m.raise.value \in {3, 6, 9, 12}
    BY <1>1, <1>2 DEF ValueFits
  <2>2. m.dark = FALSE
    BY LiveFacts
  <2>3. Live(mode, n) /\ Same(m, n)
    BY <1>3, <1>4, <2>1, <2>2, ValueSet DEF Accepted
  <2> QED BY <2>3 DEF Becomes
<1>5. ASSUME n \in RanAway(m) PROVE Becomes(mode, m, n) /\ (n.status = "playing" => Fresh(n))
  <2> DEFINE r == [m EXCEPT !.phase = "play", !.raise = NoRaise]
             team == Rival(m.raise.to)
             s == Scored(r, team, r.value)
  <2>1. n \in IF s.score[team] >= 12 THEN {Settle(s, s.target)} ELSE NewHands([s EXCEPT !.value = 1])
    BY <1>5 DEF RanAway, FinishHand
  <2>2. team \in Teams
    BY DEF Rival, Teams
  <2>3. r \in Match(mode)
    <3> DEFINE m1 == [m EXCEPT !.phase = "play"]
               m2 == [m1 EXCEPT !.raise = NoRaise]
    <3>0. r = m2
      OBVIOUS
    <3> HIDE DEF m1, m2
    <3>1. m1 \in Match(mode)
      BY <1>1, OneField DEF m1
    <3>2. m2 \in Match(mode)
      BY <1>3, <3>1, OneField DEF m2
    <3> QED BY <3>0, <3>2
  <2>4. /\ r.status = m.status /\ r.settled = m.settled /\ r.winner = m.winner /\ Same(m, r)
        /\ r.score = m.score /\ r.value = m.value /\ r.table = m.table /\ r.hands = m.hands
    BY <1>1 DEF Match, Same
  <2> HIDE DEF r
  <2>5. /\ r.status = "playing" /\ r.settled = FALSE /\ r.winner = Nobody
        /\ r.score["us"] < 12 /\ r.score["them"] < 12
        /\ Len(r.table) <= 3 /\ \A x \in Seats(mode) : Len(r.hands[x]) <= HandSize
        /\ r.value \in 1..12
    <3>1. /\ m.status = "playing" /\ m.settled = FALSE /\ m.winner = Nobody
          /\ m.score["us"] < 12 /\ m.score["them"] < 12
          /\ Len(m.table) <= 3 /\ \A x \in Seats(mode) : Len(m.hands[x]) <= HandSize
      BY LiveFacts
    <3> QED BY <1>2, <2>4, <3>1
  <2>6. s = Scored(r, team, r.value)
    OBVIOUS
  <2> HIDE DEF s, team
  <2>7. Becomes(mode, r, n) /\ (n.status = "playing" => Fresh(n))
    BY <2>1, <2>2, <2>3, <2>5, <2>6, HandFinishes
  <2> QED BY <2>4, <2>7 DEF Becomes, Same
<1> QED BY <1>4, <1>5

\* Playing the hand with 11 points or giving a point.
LEMMA ElevenDecided ==
  ASSUME NEW mode \in Modes, NEW m, Live(mode, m), m.phase = "eleven",
         NEW s, s = Scored(m, "them", 1),
         NEW n \in {[m EXCEPT !.value = 3, !.phase = "play"]}
                     \cup (IF s.score["them"] >= 12 THEN {Settle(s, s.target)}
                           ELSE NewHands([s EXCEPT !.value = 1]))
  PROVE  Becomes(mode, m, n)
<1>1. m \in Match(mode)
  BY DEF Live
<1>2. ASSUME n = [m EXCEPT !.value = 3, !.phase = "play"] PROVE Becomes(mode, m, n)
  <2>1. m.raise \in [to : Teams, value : {0, 3, 6, 9, 12}]
    BY <1>1, RowTypes
  <2>2. [m EXCEPT !.raise = m.raise] = m
    BY <1>1 DEF Match
  <2>3. n = [m EXCEPT !.value = 3, !.phase = "play", !.raise = m.raise]
    BY <1>1, <1>2 DEF Match
  <2>4. m.dark = FALSE
    BY LiveFacts
  <2>5. Live(mode, n) /\ Same(m, n)
    BY <2>1, <2>3, <2>4, ValueSet
  <2> QED BY <2>5 DEF Becomes
<1>3. ASSUME n \in IF s.score["them"] >= 12 THEN {Settle(s, s.target)} ELSE NewHands([s EXCEPT !.value = 1])
      PROVE  Becomes(mode, m, n)
  <2>1. "them" \in Teams /\ 1 \in 1..12
    BY DEF Teams
  <2> DEFINE team == "them"
             points == 1
  <2>2. /\ team \in Teams /\ points \in 1..12 /\ s = Scored(m, team, points)
        /\ n \in IF s.score[team] >= 12 THEN {Settle(s, s.target)} ELSE NewHands([s EXCEPT !.value = 1])
    BY <1>3, <2>1
  <2> HIDE DEF team, points
  <2>3. /\ m.status = "playing" /\ m.settled = FALSE /\ m.winner = Nobody
        /\ m.score["us"] < 12 /\ m.score["them"] < 12
        /\ Len(m.table) <= 3 /\ \A x \in Seats(mode) : Len(m.hands[x]) <= HandSize
    BY LiveFacts
  <2> QED BY <1>1, <2>2, <2>3, HandFinishes
<1> QED BY <1>2, <1>3

-----------------------------------------------------------------------------
(* Money.                                                                  *)

\* An entry is the stake, in two parts.
LEMMA EntryTypes ==
  ASSUME NEW u \in Users
  PROVE  /\ Opening[u].balance \in Nat /\ Opening[u].bonus \in Nat /\ Stake \in Nat
         /\ EntryOf(u).balance \in Nat /\ EntryOf(u).bonus \in Nat
         /\ EntryOf(u) = [balance |-> EntryOf(u).balance, bonus |-> EntryOf(u).bonus]
         /\ EntryOf(u).balance <= Opening[u].balance
         /\ Opening[u].balance + Opening[u].bonus >= Stake => EntryOf(u).bonus <= Opening[u].bonus
<1>1. Opening[u] \in [balance : Nat, bonus : Nat] /\ Stake \in Nat
  BY TrucoAssumption
<1> DEFINE b == Opening[u].balance
           m == Min({b, Stake})
<1>2. EntryOf(u) = [balance |-> m, bonus |-> Stake - m]
  BY DEF EntryOf
<1>3. m = IF b <= Stake THEN b ELSE Stake
  BY <1>1, MinOfTwo
<1> HIDE DEF m
<1> QED BY <1>1, <1>2, <1>3

\* The winners have their entry back where it came from, and a stake more.
LEMMA PayoutReturnsEntry ==
  ASSUME NEW u \in Users, split[u] = EntryOf(u),
         users[u] = [balance |-> Opening[u].balance - EntryOf(u).balance,
                     bonus |-> Opening[u].bonus - EntryOf(u).bonus]
  PROVE  Payout(u) = [balance |-> Opening[u].balance + Stake, bonus |-> Opening[u].bonus]
<1> DEFINE a == EntryOf(u).balance
           b == EntryOf(u).bonus
           x == Opening[u].balance
           y == Opening[u].bonus
<1>1. a \in Nat /\ b \in Nat /\ x \in Nat /\ y \in Nat /\ Stake \in Nat
  BY EntryTypes
<1>2. users[u].balance = x - a /\ users[u].bonus = y - b /\ split[u].balance = a /\ split[u].bonus = b
  OBVIOUS
<1>3. Payout(u) = [balance |-> x - a + a + Stake, bonus |-> y - b + b]
  BY <1>2 DEF Payout
<1> HIDE DEF a, b, x, y
<1>4. x - a + a + Stake = x + Stake /\ y - b + b = y
  BY <1>1
<1> QED BY <1>3, <1>4 DEF x, y

-----------------------------------------------------------------------------
(* Steps of a match in play.                                               *)

\* A match in play is live.
LEMMA InPlayIsLive ==
  ASSUME IInv, match.status = "playing"
  PROVE  match.mode \in Modes /\ Live(match.mode, match)
<1>1. match.mode \in Modes /\ match \in Match(match.mode)
  BY DEF IInv, SeatsInv, TypeOK
<1>2. match.settled = FALSE
  <2>1. match.settled \in BOOLEAN
    BY <1>1, RowTypes
  <2> QED BY <2>1 DEF IInv, EntriesInv
<1>3. match.winner = Nobody
  BY DEF IInv, EntriesInv
<1> QED BY <1>1, <1>2, <1>3 DEF IInv, Live

\* The wallets agree with what the match becomes.
LEMMA MoneyFollows ==
  ASSUME IInv, match.status = "playing", NEW n, Become(n), Becomes(match.mode, match, n)
  PROVE  users' \in [Users -> [balance : Nat, bonus : Nat]] /\ WalletAgreesWithMatch'
<1>1. match' = n /\ seats' = seats /\ split' = split
      /\ users' = IF ~match.settled /\ n.settled /\ n.winner = "us"
                  THEN [u \in Users |-> IF u \in Humans(seats) THEN Payout(u) ELSE users[u]]
                  ELSE users
  BY DEF Become
<1>2. match.settled = FALSE /\ match.winner = Nobody
  BY InPlayIsLive DEF Live
<1>3. users \in [Users -> [balance : Nat, bonus : Nat]]
  BY DEF IInv, TypeOK
<1>4. ASSUME NEW u \in Users
      PROVE  users[u] = IF u \notin Humans(seats) THEN Opening[u]
                        ELSE [balance |-> Opening[u].balance - EntryOf(u).balance,
                              bonus |-> Opening[u].bonus - EntryOf(u).bonus]
  <2>1. InPlay /\ match.winner # "us"
    BY <1>2 DEF InPlay, Nobody
  <2> QED BY <2>1, Zenon DEF IInv, WalletAgreesWithMatch
<1>5. \A u \in Users : u \in Humans(seats) => split[u] = EntryOf(u)
  BY DEF IInv, EntriesInv
<1>6. InPlay' /\ Humans(seats)' = Humans(seats)
  BY <1>1 DEF InPlay, Humans, Becomes, Live, Ended
<1>7. CASE n.settled /\ n.winner = "us"
  <2>1. users' = [u \in Users |-> IF u \in Humans(seats) THEN Payout(u) ELSE users[u]]
    BY <1>1, <1>2, <1>7
  <2>2. ASSUME NEW u \in Users
        PROVE  users'[u] = IF u \notin Humans(seats) THEN Opening[u]
                           ELSE [balance |-> Opening[u].balance + Stake, bonus |-> Opening[u].bonus]
    <3>1. CASE u \in Humans(seats)
      <4>1. Payout(u) = [balance |-> Opening[u].balance + Stake, bonus |-> Opening[u].bonus]
        BY <1>4, <1>5, <3>1, PayoutReturnsEntry
      <4> QED BY <2>1, <3>1, <4>1
    <3>2. CASE u \notin Humans(seats)
      BY <1>4, <2>1, <3>2
    <3> QED BY <3>1, <3>2
  <2>3. users' \in [Users -> [balance : Nat, bonus : Nat]]
    <3>1. \A u \in Users : users'[u] \in [balance : Nat, bonus : Nat]
      <4>1. \A u \in Users : Opening[u] \in [balance : Nat, bonus : Nat]
                               /\ [balance |-> Opening[u].balance + Stake, bonus |-> Opening[u].bonus]
                                    \in [balance : Nat, bonus : Nat]
        BY TrucoAssumption
      <4> QED BY <2>2, <4>1
    <3> QED BY <2>1, <3>1
  <2>4. WalletAgreesWithMatch'
    BY <1>1, <1>6, <1>7, <2>2, Zenon DEF WalletAgreesWithMatch
  <2> QED BY <2>3, <2>4
<1>8. CASE ~(n.settled /\ n.winner = "us")
  <2>1. users' = users
    BY <1>1, <1>8
  <2>2. n.winner # "us"
    BY <1>8 DEF Becomes, Live, Ended, Nobody
  <2>3. WalletAgreesWithMatch'
    BY <1>1, <1>4, <1>6, <2>1, <2>2, Zenon DEF WalletAgreesWithMatch
  <2> QED BY <1>3, <2>1, <2>3
<1> QED BY <1>7, <1>8

\* A step of a match in play keeps everything else.
LEMMA MatchGoesOn ==
  ASSUME IInv, match.status = "playing", NEW n, Become(n), Becomes(match.mode, match, n),
         page' = page, ghosts' \in BOOLEAN, ghosts' => n.status = "playing", NoGhostIsWaitedFor'
  PROVE  IInv'
<1>1. match' = n /\ seats' = seats /\ split' = split
  BY DEF Become
<1>2. match.mode \in Modes /\ match.status = "playing"
  BY DEF IInv, SeatsInv
<1>3. users' \in [Users -> [balance : Nat, bonus : Nat]] /\ WalletAgreesWithMatch'
  BY MoneyFollows
<1>4. n \in Match(match.mode) /\ n.mode = match.mode
  BY RowTypes DEF Becomes, Live, Ended
<1>5. Len(n.table) <= 3 /\ \A s \in Seats(match.mode) : Len(n.hands[s]) <= HandSize
  BY <1>2, LiveFacts DEF Becomes, Ended
<1>6. TypeOK'
  <2>1. n.mode \in {"1v1", "2v2"}
    BY <1>4 DEF IInv, TypeOK
  <2>2. /\ seats' \in [0..3 -> Users \cup {Nobody, Ghost}]
        /\ split' \in [Users -> [balance : Nat, bonus : Nat]]
        /\ page' \in [Pages -> {"idle", "start"}]
    BY <1>1 DEF IInv, TypeOK
  <2> QED BY <1>1, <1>3, <1>4, <1>5, <2>1, <2>2 DEF TypeOK
<1>7. SeatsInv'
  <2>1. n.host = match.host /\ n.status \in {"playing", "finished"}
    BY DEF Becomes, Same, Live, Ended
  <2>2. SeatsInv
    BY DEF IInv
  <2> QED BY <1>1, <1>2, <1>4, <2>1, <2>2 DEF SeatsInv, InPlay
<1>8. EntriesInv'
  <2>1. \A u \in Humans(seats) : split[u] = EntryOf(u)
    BY <1>2 DEF IInv, EntriesInv
  <2>2. Humans(seats') = Humans(seats)
    BY <1>1
  <2>3. Nobody \notin Teams
    BY DEF Nobody, Teams
  <2>4. (n.settled <=> n.status = "finished") /\ (n.winner = Nobody <=> n.status # "finished")
    BY <2>3 DEF Becomes, Live, Ended
  <2> QED BY <1>1, <2>1, <2>2, <2>4 DEF EntriesInv
<1>9. n.status = "playing" => TableInOrder(n) /\ HandsAreWhole(n) /\ ValueFits(n)
  BY DEF Becomes, Live, Ended
<1>10. DrawDecides'
  BY <1>1 DEF DrawDecides, Becomes, Live, Ended
<1> QED BY <1>1, <1>3, <1>6, <1>7, <1>8, <1>9, <1>10 DEF IInv

\* Every seat of a match in play is taken, the first by the host.
LEMMA SeatsTaken ==
  ASSUME IInv, match.status = "playing"
  PROVE  /\ seats[0] \in Users /\ \A s \in Seats(match.mode) : seats[s] \in Users \cup {Ghost}
         /\ seats[1] = Ghost /\ (match.mode = "2v2" => seats[3] = Ghost)
<1>1. match.mode \in Modes /\ seats \in [0..3 -> Users \cup {Nobody, Ghost}]
  BY DEF IInv, SeatsInv, TypeOK
<1>2. /\ seats[0] = Host /\ seats[1] = Ghost /\ (match.mode = "2v2" => seats[3] = Ghost /\ seats[2] # Nobody)
  BY DEF IInv, SeatsInv, InPlay
<1>3. Host \in Users
  BY TrucoAssumption
<1>4. Nobody # Ghost
  BY DEF Nobody, Ghost
<1>5. ASSUME NEW s \in Seats(match.mode) PROVE seats[s] \in Users \cup {Ghost}
  <2>1. CASE match.mode = "1v1"
    <3>1. s \in {0, 1}
      BY <2>1 DEF Seats
    <3> QED BY <1>2, <1>3, <3>1
  <2>2. CASE match.mode = "2v2"
    <3>1. s \in {0, 1, 2, 3}
      BY <2>2 DEF Seats
    <3> QED BY <1>1, <1>2, <1>3, <2>2, <3>1
  <2> QED BY <1>1, <2>1, <2>2, TwoModes
<1> QED BY <1>2, <1>3, <1>5

\* If no ghost is called it is for a player to move.
LEMMA GhostsReply ==
  ASSUME IInv, match.status = "playing", NEW n, Becomes(match.mode, match, n),
         match' = n, seats' = seats, ghosts' = GhostToMove(n, seats)
  PROVE  ghosts' \in BOOLEAN /\ (ghosts' => n.status = "playing") /\ NoGhostIsWaitedFor'
<1>1. ghosts' \in BOOLEAN /\ (ghosts' => n.status = "playing")
  BY Zenon DEF GhostToMove
<1>2. ASSUME n.status = "playing", ~ghosts'
      PROVE  \/ n.phase = "eleven"
             \/ n.phase = "raise" /\ n.raise.to = "us"
             \/ n.phase = "play" /\ seats[n.turn] \in Users
  <2>1. Live(match.mode, n) /\ match.mode \in Modes
    BY <1>2, InPlayIsLive DEF Becomes, Ended
  <2>2. n \in Match(match.mode) /\ n.turn \in Seats(match.mode) /\ n.hands[n.turn] # <<>>
    BY <2>1, LiveFacts
  <2>3. n.phase \in {"play", "raise", "eleven"} /\ n.raise.to \in Teams
    BY <2>2, RowTypes
  <2>4. ~GhostAnswers(n) /\ ~GhostPlays(n, seats)
    BY <1>2, Zenon DEF GhostToMove
  <2>5. n.phase = "raise" => n.raise.to = "us"
    BY <2>3, <2>4 DEF GhostAnswers, Teams
  <2>6. n.phase = "play" => seats[n.turn] \in Users
    <3>1. n.phase = "play" => seats[n.turn] # Ghost
      BY <2>2, <2>4 DEF GhostPlays
    <3> QED BY <2>2, <3>1, SeatsTaken
  <2> QED BY <2>3, <2>5, <2>6
<1>3. NoGhostIsWaitedFor'
  BY <1>2, Zenon DEF NoGhostIsWaitedFor
<1> QED BY <1>1, <1>3

\* The deadline of a match does not disturb it.
LEMMA DeadlineMoves ==
  ASSUME NEW mode, NEW m, NEW k, Becomes(mode, m, k), NEW d \in {"none", "ahead", "over"},
         NEW n, n = [k EXCEPT !.deadline = d]
  PROVE  /\ Becomes(mode, m, n) /\ n.status = k.status /\ n.phase = k.phase /\ n.turn = k.turn
         /\ n.raise = k.raise
<1>1. k \in Match(mode)
  BY DEF Becomes, Live, Ended
<1>2. n \in Match(mode)
  BY <1>1, OneField
<1>3. /\ n.mode = k.mode /\ n.status = k.status /\ n.settled = k.settled /\ n.winner = k.winner
      /\ n.score = k.score /\ n.value = k.value /\ n.phase = k.phase /\ n.dark = k.dark
      /\ n.raise = k.raise /\ n.tricks = k.tricks /\ n.turn = k.turn /\ n.host = k.host
      /\ n.target = k.target /\ n.hands = k.hands /\ n.table = k.table
  BY <1>1 DEF Match
<1>4. Live(mode, k) => Live(mode, n)
  <2> SUFFICES ASSUME Live(mode, k) PROVE Live(mode, n)
    OBVIOUS
  <2>1. TableInOrder(n) /\ HandsAreWhole(n)
    BY <1>3, CardsUnmoved DEF Live
  <2>2. ValueFits(n)
    BY <1>3 DEF Live, ValueFits
  <2> QED BY <1>2, <1>3, <2>1, <2>2 DEF Live
<1>5. Ended(mode, k) => Ended(mode, n)
  BY <1>2, <1>3 DEF Ended
<1> QED BY <1>3, <1>4, <1>5 DEF Becomes, Same

\* A player's action on the match in play, whatever it makes of it.
LEMMA ActStep ==
  ASSUME IInv, NEW p \in Pages, NEW results, Act(p, results),
         match.status = "playing" => \A m \in results : Becomes(match.mode, match, m)
  PROVE  IInv'
<1>1. match.status = "playing" /\ page' = page
  BY DEF Act
<1>2. PICK m \in results : /\ Become([m EXCEPT !.deadline = IF m.status = "playing" THEN "ahead" ELSE "none"])
                           /\ ghosts' = GhostToMove(m, seats)
  BY DEF Act
<1>3. PICK d \in {"none", "ahead", "over"} : d = IF m.status = "playing" THEN "ahead" ELSE "none"
  OBVIOUS
<1>4. PICK n : n = [m EXCEPT !.deadline = d]
  OBVIOUS
<1>5. Become(n)
  BY <1>2, <1>3, <1>4
<1>6. Becomes(match.mode, match, m)
  BY <1>1
<1>7. Becomes(match.mode, match, n) /\ n.status = m.status /\ n.phase = m.phase /\ n.turn = m.turn /\ n.raise = m.raise
  BY <1>4, <1>6, DeadlineMoves
<1>8. n.hands = m.hands
  <2>1. m \in Match(match.mode)
    BY <1>6 DEF Becomes, Live, Ended
  <2> QED BY <1>4, <2>1 DEF Match
<1>9. ghosts' = GhostToMove(n, seats)
  <2>1. GhostToMove(n, seats) = GhostToMove(m, seats)
    BY <1>7, <1>8, Zenon DEF GhostToMove, GhostAnswers, GhostPlays
  <2> QED BY <1>2, <2>1, Zenon
<1>10. match' = n /\ seats' = seats
  BY <1>5 DEF Become
<1>11. ghosts' \in BOOLEAN /\ (ghosts' => n.status = "playing") /\ NoGhostIsWaitedFor'
  BY <1>1, <1>7, <1>9, <1>10, GhostsReply
<1> QED BY <1>1, <1>5, <1>7, <1>11, MatchGoesOn

LEMMA ActPlayStep ==
  ASSUME IInv, NEW p \in Pages, ActPlay(p)
  PROVE  IInv'
<1> DEFINE results == IF match.phase = "play" /\ seats[match.turn] = Owner[p]
                      THEN UNION {PlayCard(match, match.turn, i) : i \in DOMAIN match.hands[match.turn]}
                      ELSE {}
<1>1. ASSUME match.status = "playing", NEW m \in results
      PROVE  Becomes(match.mode, match, m)
  <2>1. match.phase = "play" /\ \E i \in DOMAIN match.hands[match.turn] : m \in PlayCard(match, match.turn, i)
    BY <1>1
  <2>2. match.mode \in Modes /\ Live(match.mode, match)
    BY <1>1, InPlayIsLive
  <2> QED BY <2>1, <2>2, CardPlayed
<1>2. Act(p, results)
  BY DEF ActPlay
<1> HIDE DEF results
<1> QED BY <1>1, <1>2, ActStep

LEMMA ActRaiseStep ==
  ASSUME IInv, NEW p \in Pages, ActRaise(p)
  PROVE  IInv'
<1> DEFINE results == IF MayRaise(match, "us") THEN {RequestRaise(match, "us")} ELSE {}
<1>1. ASSUME match.status = "playing", NEW m \in results
      PROVE  Becomes(match.mode, match, m)
  <2>1. match.mode \in Modes /\ Live(match.mode, match)
    BY <1>1, InPlayIsLive
  <2>2. MayRaise(match, "us") /\ m = RequestRaise(match, "us") /\ "us" \in Teams
    BY <1>1 DEF Teams
  <2>3. Live(match.mode, m) /\ Same(match, m)
    BY <2>1, <2>2, RaiseAsked
  <2> QED BY <2>3 DEF Becomes
<1>2. Act(p, results)
  BY DEF ActRaise
<1> HIDE DEF results
<1> QED BY <1>1, <1>2, ActStep

LEMMA ActAnswerStep ==
  ASSUME IInv, NEW p \in Pages, ActAnswer(p)
  PROVE  IInv'
<1> DEFINE results == IF match.phase = "raise" /\ match.raise.to = "us"
                      THEN {Accepted(match)} \cup RanAway(match)
                      ELSE {}
<1>1. ASSUME match.status = "playing", NEW m \in results
      PROVE  Becomes(match.mode, match, m)
  <2>1. match.mode \in Modes /\ Live(match.mode, match)
    BY <1>1, InPlayIsLive
  <2>2. match.phase = "raise" /\ m \in {Accepted(match)} \cup RanAway(match)
    BY <1>1
  <2> QED BY <2>1, <2>2, RaiseAnswered
<1>2. Act(p, results)
  BY DEF ActAnswer
<1> HIDE DEF results
<1> QED BY <1>1, <1>2, ActStep

LEMMA ActElevenStep ==
  ASSUME IInv, NEW p \in Pages, ActEleven(p)
  PROVE  IInv'
<1> DEFINE s == Scored(match, "them", 1)
           results == IF match.phase = "eleven"
                      THEN {[match EXCEPT !.value = 3, !.phase = "play"]}
                             \cup (IF s.score["them"] >= 12 THEN {Settle(s, s.target)}
                                   ELSE NewHands([s EXCEPT !.value = 1]))
                      ELSE {}
<1>1. ASSUME match.status = "playing", NEW m \in results
      PROVE  Becomes(match.mode, match, m)
  <2>1. match.mode \in Modes /\ Live(match.mode, match)
    BY <1>1, InPlayIsLive
  <2>2. match.phase = "eleven"
    BY <1>1
  <2>3. m \in {[match EXCEPT !.value = 3, !.phase = "play"]}
                \cup (IF s.score["them"] >= 12 THEN {Settle(s, s.target)}
                      ELSE NewHands([s EXCEPT !.value = 1]))
    BY <1>1, <2>2
  <2> HIDE DEF results
  <2>4. s = Scored(match, "them", 1)
    OBVIOUS
  <2> HIDE DEF s
  <2> QED BY <2>1, <2>2, <2>3, <2>4, ElevenDecided
<1>2. Act(p, results)
  BY Zenon DEF ActEleven
<1> HIDE DEF results
<1> QED BY <1>1, <1>2, ActStep

-----------------------------------------------------------------------------
(* The ghosts' steps.                                                      *)

LEMMA GhostAnswerStep ==
  ASSUME IInv, GhostAnswer
  PROVE  IInv'
<1>1. match.status = "playing" /\ match.phase = "raise"
  BY DEF GhostAnswer, GhostAnswers, IInv, SeatsInv
<1>2. match.mode \in Modes /\ Live(match.mode, match)
  BY <1>1, InPlayIsLive
<1>3. PICK m \in {Accepted(match)} \cup RanAway(match) : Become(m) /\ ghosts' = GhostToMove(m, seats)
  BY DEF GhostAnswer
<1>4. Becomes(match.mode, match, m)
  BY <1>1, <1>2, RaiseAnswered
<1>5. match' = m /\ seats' = seats /\ page' = page
  BY <1>3 DEF Become, GhostAnswer
<1>6. ghosts' \in BOOLEAN /\ (ghosts' => m.status = "playing") /\ NoGhostIsWaitedFor'
  BY <1>1, <1>3, <1>4, <1>5, GhostsReply
<1> QED BY <1>1, <1>3, <1>4, <1>5, <1>6, MatchGoesOn

\* A raise by a ghost is answered by a player, or was made by his partner.
LEMMA GhostRaiseSteps ==
  ASSUME IInv, GhostRaisesBack \/ GhostRaise
  PROVE  IInv'
<1>1. match.status = "playing"
  BY DEF GhostRaisesBack, GhostRaise, IInv, SeatsInv
<1>2. match.mode \in Modes /\ Live(match.mode, match)
  BY <1>1, InPlayIsLive
<1>3. PICK from \in Teams :
        /\ MayRaise(match, from) /\ Become(RequestRaise(match, from))
        /\ from = "us" => seats[2] = Ghost
  <2>1. CASE GhostRaisesBack
    <3>1. "them" \in Teams /\ "them" # "us"
      BY DEF Teams
    <3> QED BY <2>1, <3>1 DEF GhostRaisesBack
  <2>2. CASE GhostRaise
    <3>1. TeamOf(match.turn) \in Teams
      BY DEF TeamOf, Teams
    <3>2. seats[match.turn] = Ghost
      BY <2>2 DEF GhostRaise, GhostPlays
    <3>3. match.turn # 0
      <4>1. seats[0] \in Users /\ Ghost \notin Users
        BY <1>1, SeatsTaken, TrucoAssumption
      <4> QED BY <3>2, <4>1
    <3>4. TeamOf(match.turn) = "us" => match.turn = 2
      BY <3>3 DEF TeamOf
    <3> QED BY <2>2, <3>1, <3>2, <3>4 DEF GhostRaise
  <2> QED BY <2>1, <2>2
<1>4. PICK n : n = RequestRaise(match, from)
  OBVIOUS
<1>5. Live(match.mode, n) /\ Same(match, n) /\ n.phase = "raise" /\ n.raise.to = Rival(from)
  BY <1>2, <1>3, <1>4, RaiseAsked
<1>6. Become(n) /\ match' = n /\ seats' = seats
  BY <1>3, <1>4 DEF Become
<1>7. ghosts' = FALSE /\ page' = page
  BY DEF GhostRaisesBack, GhostRaise
<1>8. NoGhostIsWaitedFor'
  <2>1. CASE from = "us"
    BY <1>3, <1>5, <1>6, <2>1 DEF NoGhostIsWaitedFor
  <2>2. CASE from = "them"
    BY <1>5, <1>6, <2>2 DEF NoGhostIsWaitedFor, Rival
  <2> QED BY <2>1, <2>2 DEF Teams
<1>9. Becomes(match.mode, match, n)
  BY <1>5 DEF Becomes
<1> QED BY <1>1, <1>6, <1>7, <1>8, <1>9, MatchGoesOn

LEMMA GhostCardStep ==
  ASSUME IInv, GhostCard
  PROVE  IInv'
<1>1. match.status = "playing" /\ match.phase = "play" /\ page' = page
  BY DEF GhostCard, GhostPlays, IInv, SeatsInv
<1>2. match.mode \in Modes /\ Live(match.mode, match)
  BY <1>1, InPlayIsLive
<1>0. PICK place \in PickGhostCard(match) :
        \E m \in PlayCard(match, match.turn, place) : Become(m) /\ ghosts' = GhostToMove(m, seats)
  BY DEF GhostCard
<1>3. PICK m \in PlayCard(match, match.turn, place) : Become(m) /\ ghosts' = GhostToMove(m, seats)
  BY <1>0
<1>4. place \in DOMAIN match.hands[match.turn]
  <2>1. /\ match \in Match(match.mode) /\ match.turn \in Seats(match.mode) /\ match.hands[match.turn] # <<>>
        /\ \A s \in Seats(match.mode) : Len(match.hands[s]) <= HandSize
    BY <1>2, LiveFacts
  <2>2. match.hands \in [Seats(match.mode) -> Seq(Cards)]
    BY <2>1, RowTypes
  <2>3. match.hands[match.turn] \in Seq(Cards) /\ Len(match.hands[match.turn]) <= HandSize
    BY <2>1, <2>2
  <2> QED BY <1>3, <2>1, <2>3, GhostCardInHand
<1>5. Becomes(match.mode, match, m)
  BY <1>1, <1>2, <1>4, CardPlayed
<1>6. match' = m /\ seats' = seats
  BY <1>3 DEF Become
<1>7. ghosts' \in BOOLEAN /\ (ghosts' => m.status = "playing") /\ NoGhostIsWaitedFor'
  BY <1>1, <1>3, <1>5, <1>6, GhostsReply
<1> QED BY <1>1, <1>3, <1>5, <1>6, <1>7, MatchGoesOn

-----------------------------------------------------------------------------
(* Time runs out, players leave.                                           *)

\* A match may be settled for the house at any time.
LEMMA HouseTakes ==
  ASSUME IInv, match.status = "playing"
  PROVE  Becomes(match.mode, match, Settle(match, "them")) /\ Settle(match, "them").status = "finished"
<1>1. match.mode \in Modes /\ Live(match.mode, match)
  BY InPlayIsLive
<1>2. /\ match \in Match(match.mode) /\ match.settled = FALSE /\ match.score["us"] < 12
      /\ Len(match.table) <= 3 /\ \A s \in Seats(match.mode) : Len(match.hands[s]) <= HandSize
  BY <1>1, LiveFacts
<1>3. "them" \in Teams
  BY DEF Teams
<1>4. Ended(match.mode, Settle(match, "them")) /\ Same(match, Settle(match, "them"))
  BY <1>2, <1>3, SettleEnds
<1> QED BY <1>4 DEF Becomes, Ended

\* What the clock makes of a match in play while nobody moves.
LEMMA ClockStep ==
  ASSUME IInv, match.status = "playing", ghosts = FALSE, ghosts' = ghosts, page' = page,
         NEW n, Become(n), Becomes(match.mode, match, n),
         n.status = "playing" =>
           Fresh(n) \/ (n.phase = match.phase /\ n.turn = match.turn /\ n.raise = match.raise)
  PROVE  IInv'
<1>1. match' = n /\ seats' = seats
  BY DEF Become
<1>2. NoGhostIsWaitedFor'
  <2>1. seats[0] \in Users
    BY SeatsTaken
  <2>2. NoGhostIsWaitedFor
    BY DEF IInv
  <2> QED BY <1>1, <2>1, <2>2 DEF NoGhostIsWaitedFor, Fresh
<1> QED BY <1>2, MatchGoesOn

LEMMA TurnRunsOutStep ==
  ASSUME IInv, TurnRunsOut
  PROVE  IInv'
<1>1. match.status = "playing" /\ ghosts = FALSE /\ page' = page /\ ghosts' = ghosts
  BY DEF TurnRunsOut, IInv, TypeOK
<1>2. match.mode \in Modes /\ Live(match.mode, match)
  BY <1>1, InPlayIsLive
<1>3. PICK d \in {"none", "ahead", "over"} : d = "over"
  OBVIOUS
<1>4. PICK n : n = [match EXCEPT !.deadline = d]
  OBVIOUS
<1>5. Becomes(match.mode, match, match)
  BY <1>2 DEF Becomes, Same
<1>6. Becomes(match.mode, match, n) /\ n.status = match.status /\ n.phase = match.phase
      /\ n.turn = match.turn /\ n.raise = match.raise
  BY <1>4, <1>5, DeadlineMoves
<1>7. n.winner # "us"
  <2>1. match.winner = Nobody /\ match \in Match(match.mode)
    BY <1>2, LiveFacts
  <2>2. n.winner = match.winner
    BY <1>4, <2>1 DEF Match
  <2> QED BY <2>1, <2>2 DEF Nobody
<1>8. Become(n)
  BY <1>3, <1>4, <1>7 DEF TurnRunsOut, Become
<1> QED BY <1>1, <1>6, <1>8, ClockStep

LEMMA ExpireStep ==
  ASSUME IInv, Expire
  PROVE  IInv'
<1>1. match.status = "playing" /\ ghosts = FALSE /\ page' = page /\ ghosts' = ghosts
  BY DEF Expire, IInv, TypeOK
<1>2. match.mode \in Modes /\ Live(match.mode, match)
  BY <1>1, InPlayIsLive
<1>3. PICK m \in IF match.phase = "raise" THEN RanAway(match) ELSE {Settle(match, "them")} : Become(m)
  BY DEF Expire
<1>4. Becomes(match.mode, match, m) /\ (m.status = "playing" => Fresh(m))
  <2>1. CASE match.phase = "raise"
    <3>1. m \in RanAway(match)
      BY <1>3, <2>1
    <3> QED BY <1>2, <2>1, <3>1, RaiseAnswered
  <2>2. CASE match.phase # "raise"
    <3>1. m = Settle(match, "them")
      BY <1>3, <2>2
    <3> QED BY <1>1, <3>1, HouseTakes
  <2> QED BY <2>1, <2>2
<1> QED BY <1>1, <1>3, <1>4, ClockStep

-----------------------------------------------------------------------------
(* Opening a match.                                                        *)

\* Before the match is played nobody has paid.
LEMMA NobodyHasPaid ==
  ASSUME IInv, ~InPlay
  PROVE  /\ \A u \in Users : users[u] = Opening[u]
         /\ ghosts = FALSE /\ match.settled = FALSE /\ match.winner = Nobody
         /\ match.mode \in Modes /\ match \in Match(match.mode)
<1>1. match.mode \in Modes /\ match \in Match(match.mode)
  BY DEF IInv, SeatsInv, TypeOK
<1>2. ghosts = FALSE /\ match.settled = FALSE /\ match.winner = Nobody
  <2>1. match.settled \in BOOLEAN /\ ghosts \in BOOLEAN
    BY <1>1, RowTypes DEF IInv, TypeOK
  <2> QED BY <2>1 DEF IInv, SeatsInv, EntriesInv, InPlay
<1>3. \A u \in Users : users[u] = Opening[u]
  BY DEF IInv, WalletAgreesWithMatch
<1> QED BY <1>1, <1>2, <1>3

\* A room changes while nobody has paid.
LEMMA RoomStep ==
  ASSUME IInv, ~InPlay, ~InPlay', UNCHANGED <<split, users, ghosts>>,
         NEW status \in {"none", "waiting", "playing", "finished", "cancelled"},
         match' = [match EXCEPT !.status = status],
         seats' \in [0..3 -> Users \cup {Nobody, Ghost}],
         page' \in [Pages -> {"idle", "start"}],
         SeatsInv'
  PROVE  IInv'
<1>1. /\ \A u \in Users : users[u] = Opening[u]
      /\ ghosts = FALSE /\ match.settled = FALSE /\ match.winner = Nobody
      /\ match.mode \in Modes /\ match \in Match(match.mode)
  BY NobodyHasPaid
<1>2. match' \in Match(match.mode)
  BY <1>1, OneField
<1>3. /\ match'.mode = match.mode /\ match'.settled = match.settled /\ match'.winner = match.winner
      /\ match'.table = match.table /\ match'.hands = match.hands /\ match'.status = status
  BY <1>1 DEF Match
<1>4. status \notin {"playing", "finished"}
  BY <1>3 DEF InPlay
<1>5. TypeOK'
  BY <1>2, <1>3 DEF IInv, TypeOK
<1>6. EntriesInv'
  BY <1>1, <1>3, <1>4 DEF EntriesInv
<1>7. WalletAgreesWithMatch'
  BY <1>1 DEF WalletAgreesWithMatch
<1>8. DrawDecides' /\ NoGhostIsWaitedFor'
  BY <1>3, <1>4 DEF DrawDecides, NoGhostIsWaitedFor
<1> QED BY <1>3, <1>4, <1>5, <1>6, <1>7, <1>8 DEF IInv

LEMMA Create2v2RoomStep ==
  ASSUME IInv, NEW p \in Pages, Create2v2Room(p)
  PROVE  IInv'
<1>1. /\ match.status = "none" /\ match.mode = "2v2" /\ match' = [match EXCEPT !.status = "waiting"]
      /\ seats' = [seats EXCEPT ![0] = match.host, ![1] = Ghost, ![3] = Ghost]
      /\ UNCHANGED <<split, users, ghosts, page>>
  BY DEF Create2v2Room
<1>2. match.mode \in Modes /\ match \in Match(match.mode) /\ ghosts = FALSE
  BY <1>1, NobodyHasPaid DEF InPlay
<1>3. match'.mode = match.mode /\ match'.host = match.host /\ match'.status = "waiting"
  BY <1>1, <1>2 DEF Match
<1>4. /\ seats \in [0..3 -> Users \cup {Nobody, Ghost}] /\ match.host = Host /\ Host \in Users
      /\ \A s \in 0..3 : seats[s] = Nobody
  BY <1>1, TrucoAssumption DEF IInv, SeatsInv, TypeOK
<1>5. /\ seats' \in [0..3 -> Users \cup {Nobody, Ghost}]
      /\ seats'[0] = Host /\ seats'[1] = Ghost /\ seats'[2] = Nobody /\ seats'[3] = Ghost
  BY <1>1, <1>4
<1>6. Nobody # Host /\ Nobody # Ghost
  BY TrucoAssumption DEF Nobody, Ghost
<1>7. \A q \in Pages : page[q] # "start"
  BY <1>1 DEF IInv, SeatsInv
<1>8. SeatsInv'
  BY <1>1, <1>2, <1>3, <1>4, <1>5, <1>6, <1>7 DEF SeatsInv, InPlay
<1>9. page' \in [Pages -> {"idle", "start"}]
  BY <1>1 DEF IInv, TypeOK
<1>10. ~InPlay /\ ~InPlay'
  BY <1>1, <1>3 DEF InPlay
<1> DEFINE status == "waiting"
<1>11. status \in {"none", "waiting", "playing", "finished", "cancelled"} /\ match' = [match EXCEPT !.status = status]
  BY <1>1
<1> HIDE DEF status
<1> QED BY <1>1, <1>5, <1>8, <1>9, <1>10, <1>11, RoomStep

LEMMA Join2v2RoomStep ==
  ASSUME IInv, NEW p \in Pages, Join2v2Room(p)
  PROVE  IInv'
<1>1. /\ match.status = "waiting" /\ match' = match /\ Owner[p] # match.host
      /\ seats' = [seats EXCEPT ![2] = Owner[p]]
      /\ UNCHANGED <<split, users, ghosts, page>>
  BY DEF Join2v2Room
<1>2. match.mode \in Modes /\ match \in Match(match.mode) /\ ghosts = FALSE
  BY <1>1, NobodyHasPaid DEF InPlay
<1>3. /\ seats \in [0..3 -> Users \cup {Nobody, Ghost}] /\ match.host = Host /\ Owner[p] \in Users
      /\ Owner[p] # Ghost
  BY TrucoAssumption DEF IInv, SeatsInv, TypeOK
<1>4. /\ seats' \in [0..3 -> Users \cup {Nobody, Ghost}] /\ seats'[2] = Owner[p]
      /\ seats'[0] = seats[0] /\ seats'[1] = seats[1] /\ seats'[3] = seats[3]
  BY <1>1, <1>3
<1>5. SeatsInv
  BY DEF IInv
<1>6. SeatsInv'
  BY <1>1, <1>2, <1>3, <1>4, <1>5 DEF SeatsInv, InPlay
<1>7. page' \in [Pages -> {"idle", "start"}]
  BY <1>1 DEF IInv, TypeOK
<1>8. ~InPlay /\ ~InPlay'
  BY <1>1 DEF InPlay
<1>9. match.status \in {"none", "waiting", "playing", "finished", "cancelled"}
      /\ match' = [match EXCEPT !.status = match.status]
  BY <1>1, <1>2 DEF Match
<1> QED BY <1>1, <1>4, <1>6, <1>7, <1>8, <1>9, RoomStep

\* A start request arrives, or is refused.
LEMMA RequestSteps ==
  ASSUME IInv, NEW p \in Pages, StartRequest(p) \/ StartRefused(p)
  PROVE  IInv'
<1>1. match' = match /\ seats' = seats /\ UNCHANGED <<split, users, ghosts>>
  BY DEF StartRequest, StartRefused
<1>2. match.status = "waiting" /\ match.host = Host
      /\ page \in [Pages -> {"idle", "start"}] /\ seats \in [0..3 -> Users \cup {Nobody, Ghost}]
  BY DEF StartRequest, StartRefused, IInv, SeatsInv, TypeOK
<1>3. match.mode \in Modes /\ match \in Match(match.mode)
  BY <1>2, NobodyHasPaid DEF InPlay
<1>4. page' \in [Pages -> {"idle", "start"}]
      /\ \A q \in Pages : page'[q] = "start" => page[q] = "start" \/ Owner[q] = Host
  BY <1>2 DEF StartRequest, StartRefused
<1>5. SeatsInv'
  <2>1. SeatsInv
    BY DEF IInv
  <2> QED BY <1>1, <1>2, <1>4, <2>1 DEF SeatsInv, InPlay
<1>6. ~InPlay /\ ~InPlay'
  BY <1>1, <1>2 DEF InPlay
<1>7. match.status \in {"none", "waiting", "playing", "finished", "cancelled"}
      /\ match' = [match EXCEPT !.status = match.status]
  BY <1>1, <1>3 DEF Match
<1>8. seats' \in [0..3 -> Users \cup {Nobody, Ghost}]
  BY <1>1, <1>2
<1> QED BY <1>1, <1>4, <1>5, <1>6, <1>7, <1>8, RoomStep

LEMMA ForfeitStep ==
  ASSUME IInv, OneHostPage, NEW p \in Pages, Forfeit(p)
  PROVE  IInv'
<1>1. ghosts' = ghosts /\ page' = page /\ ghosts = FALSE /\ page[p] = "idle"
  BY DEF Forfeit, Idle, IInv, TypeOK
<1>2. /\ seats \in [0..3 -> Users \cup {Nobody, Ghost}] /\ page \in [Pages -> {"idle", "start"}]
      /\ SeatsInv
  BY DEF IInv, TypeOK
<1>3. CASE /\ match.status = "waiting" /\ Owner[p] = match.host
           /\ match' = [match EXCEPT !.status = "cancelled"]
           /\ UNCHANGED <<seats, split, users>>
  <2>1. match.mode \in Modes /\ match \in Match(match.mode)
    BY <1>3, NobodyHasPaid DEF InPlay
  <2>2. match'.mode = match.mode /\ match'.host = match.host /\ match'.status = "cancelled"
    BY <1>3, <2>1 DEF Match
  <2>3. \A q \in Pages : page[q] # "start"
    <3>1. \A q \in Pages : page[q] = "start" => Owner[q] = Host
      BY <1>2 DEF SeatsInv
    <3>2. Owner[p] = Host
      BY <1>2, <1>3 DEF SeatsInv
    <3> QED BY <1>1, <3>1, <3>2 DEF OneHostPage
  <2>4. SeatsInv'
    BY <1>1, <1>2, <1>3, <2>2, <2>3 DEF SeatsInv, InPlay
  <2>5. ~InPlay /\ ~InPlay'
    BY <1>3, <2>2 DEF InPlay
  <2> DEFINE status == "cancelled"
  <2>6. status \in {"none", "waiting", "playing", "finished", "cancelled"} /\ match' = [match EXCEPT !.status = status]
    BY <1>3
  <2> HIDE DEF status
  <2>7. seats' \in [0..3 -> Users \cup {Nobody, Ghost}] /\ page' \in [Pages -> {"idle", "start"}]
        /\ UNCHANGED <<split, users, ghosts>>
    BY <1>1, <1>2, <1>3
  <2> QED BY <2>4, <2>5, <2>6, <2>7, RoomStep
<1>4. CASE /\ match.status = "waiting" /\ Owner[p] # match.host
           /\ seats' = [seats EXCEPT ![2] = Nobody]
           /\ UNCHANGED <<match, split, users>>
  <2>1. match.mode \in Modes /\ match \in Match(match.mode)
    BY <1>4, NobodyHasPaid DEF InPlay
  <2>2. Nobody # Host /\ Nobody # Ghost
    BY TrucoAssumption DEF Nobody, Ghost
  <2>3. /\ seats' \in [0..3 -> Users \cup {Nobody, Ghost}] /\ seats'[2] = Nobody
        /\ seats'[0] = seats[0] /\ seats'[1] = seats[1] /\ seats'[3] = seats[3]
    BY <1>2, <1>4
  <2>4. SeatsInv'
    BY <1>1, <1>2, <1>4, <2>2, <2>3 DEF SeatsInv, InPlay
  <2>5. ~InPlay /\ ~InPlay'
    BY <1>4 DEF InPlay
  <2>6. match.status \in {"none", "waiting", "playing", "finished", "cancelled"}
        /\ match' = [match EXCEPT !.status = match.status]
    BY <1>4, <2>1 DEF Match
  <2>7. page' \in [Pages -> {"idle", "start"}] /\ UNCHANGED <<split, users, ghosts>>
    BY <1>1, <1>2, <1>4
  <2> QED BY <2>3, <2>4, <2>5, <2>6, <2>7, RoomStep
<1>5. CASE match.status = "playing" /\ Become(Settle(match, "them"))
  <2>1. PICK n : n = Settle(match, "them")
    OBVIOUS
  <2>2. Become(n) /\ Becomes(match.mode, match, n) /\ n.status = "finished"
    BY <1>5, <2>1, HouseTakes
  <2> QED BY <1>1, <1>5, <2>2, ClockStep
<1> QED BY <1>3, <1>4, <1>5 DEF Forfeit

-----------------------------------------------------------------------------
(* The match starts.                                                       *)

\* A match drawn is live, with seat 0 to play or to decide.
LEMMA DrawnMatch ==
  ASSUME IInv, ~InPlay, NEW m \in Drawn(match)
  PROVE  Live(match.mode, m) /\ Fresh(m) /\ m.host = match.host /\ m.mode = match.mode
<1>1. match.settled = FALSE /\ match.winner = Nobody /\ match.mode \in Modes /\ match \in Match(match.mode)
  BY NobodyHasPaid
<1> DEFINE score == [t \in Teams |-> 0]
           r == [match EXCEPT !.score = score, !.value = 1, !.winner = Nobody]
<1>0. PICK n \in NewHands(r) : m \in {[n EXCEPT !.target = t, !.status = "playing"] : t \in Teams}
  BY DEF Drawn
<1>2. PICK t \in Teams : m = [n EXCEPT !.target = t, !.status = "playing"]
  BY <1>0
<1>3. score \in [Teams -> 0..12] /\ score["us"] = 0 /\ score["them"] = 0
  BY DEF Teams
<1> HIDE DEF score
<1>4. r \in Match(match.mode)
  <2> DEFINE m1 == [match EXCEPT !.score = score]
             m2 == [m1 EXCEPT !.value = 1]
             m3 == [m2 EXCEPT !.winner = Nobody]
  <2>0. r = m3
    OBVIOUS
  <2> HIDE DEF m1, m2, m3
  <2>1. m1 \in Match(match.mode)
    BY <1>1, <1>3, OneField DEF m1
  <2>2. m2 \in Match(match.mode)
    BY <2>1, OneField DEF m2
  <2>3. m3 \in Match(match.mode)
    BY <2>2, OneField DEF m3
  <2> QED BY <2>0, <2>3
<1>5. r.score = score /\ r.settled = FALSE /\ r.winner = Nobody /\ r.host = match.host
  BY <1>1 DEF Match
<1> HIDE DEF r
<1>6. r.score["us"] < 12 /\ r.score["them"] < 12
  BY <1>3, <1>5
<1>7. /\ n \in Match(match.mode) /\ TableInOrder(n) /\ HandsAreWhole(n) /\ ValueFits(n) /\ Fresh(n)
      /\ n.settled = FALSE /\ n.winner = Nobody /\ n.host = match.host
  BY <1>1, <1>4, <1>5, <1>6, NewHandsDeal DEF Same
<1>8. m \in Match(match.mode)
  <2> DEFINE m1 == [n EXCEPT !.target = t]
             m2 == [m1 EXCEPT !.status = "playing"]
  <2>0. m = m2
    BY <1>2
  <2> HIDE DEF m1, m2
  <2>1. m1 \in Match(match.mode)
    BY <1>7, OneField DEF m1
  <2>2. m2 \in Match(match.mode)
    BY <2>1, OneField DEF m2
  <2> QED BY <2>0, <2>2
<1>9. /\ m.mode = n.mode /\ m.status = "playing" /\ m.settled = n.settled /\ m.winner = n.winner
      /\ m.score = n.score /\ m.value = n.value /\ m.phase = n.phase /\ m.dark = n.dark
      /\ m.raise = n.raise /\ m.tricks = n.tricks /\ m.turn = n.turn /\ m.host = n.host
      /\ m.hands = n.hands /\ m.table = n.table /\ n.mode = match.mode
  BY <1>2, <1>7 DEF Match
<1>10. TableInOrder(m) /\ HandsAreWhole(m)
  BY <1>7, <1>9, CardsUnmoved
<1>11. ValueFits(m)
  BY <1>7, <1>9 DEF ValueFits
<1> QED BY <1>7, <1>8, <1>9, <1>10, <1>11 DEF Live, Fresh

\* Each player pays the entry.
LEMMA EntriesPaid ==
  ASSUME IInv, ~InPlay, NEW players, DebitHumans(players)
  PROVE  /\ split' \in [Users -> [balance : Nat, bonus : Nat]]
         /\ users' \in [Users -> [balance : Nat, bonus : Nat]]
         /\ \A u \in Users :
              /\ u \in players => split'[u] = EntryOf(u)
              /\ users'[u] = IF u \notin players THEN Opening[u]
                             ELSE [balance |-> Opening[u].balance - EntryOf(u).balance,
                                   bonus |-> Opening[u].bonus - EntryOf(u).bonus]
<1>1. \A u \in Users : users[u] = Opening[u]
  BY NobodyHasPaid
<1>2. \A u \in Users : EntrySplit(u) = EntryOf(u)
  BY <1>1 DEF EntrySplit, EntryOf
<1>3. split' = [u \in Users |-> IF u \in players THEN EntrySplit(u) ELSE split[u]]
  BY DEF DebitHumans
<1>4. users' = [u \in Users |-> IF u \in players
                                THEN [balance |-> users[u].balance - EntrySplit(u).balance,
                                      bonus |-> users[u].bonus - EntrySplit(u).bonus]
                                ELSE users[u]]
  BY DEF DebitHumans
<1>5. ASSUME NEW u \in Users
      PROVE  /\ u \in players => split'[u] = EntryOf(u)
             /\ users'[u] = IF u \notin players THEN Opening[u]
                            ELSE [balance |-> Opening[u].balance - EntryOf(u).balance,
                                  bonus |-> Opening[u].bonus - EntryOf(u).bonus]
  BY <1>1, <1>2, <1>3, <1>4
<1>6. split' \in [Users -> [balance : Nat, bonus : Nat]]
  <2>1. split \in [Users -> [balance : Nat, bonus : Nat]]
    BY DEF IInv, TypeOK
  <2>2. \A u \in Users : EntryOf(u) \in [balance : Nat, bonus : Nat]
    BY EntryTypes
  <2> QED BY <1>2, <1>3, <2>1, <2>2
<1>7. users' \in [Users -> [balance : Nat, bonus : Nat]]
  <2>1. ASSUME NEW u \in Users PROVE users'[u] \in [balance : Nat, bonus : Nat]
    <3>1. Opening[u] \in [balance : Nat, bonus : Nat]
      BY TrucoAssumption
    <3>2. CASE u \in players
      <4>1. Opening[u].balance + Opening[u].bonus >= Stake
        BY <1>1, <3>2 DEF DebitHumans, Affordable
      <4> DEFINE x == Opening[u].balance - EntryOf(u).balance
                 y == Opening[u].bonus - EntryOf(u).bonus
      <4>2. x \in Nat /\ y \in Nat
        BY <4>1, EntryTypes
      <4>3. users'[u] = [balance |-> x, bonus |-> y]
        BY <1>5, <3>2
      <4> HIDE DEF x, y
      <4> QED BY <4>2, <4>3
    <3> QED BY <1>5, <3>1, <3>2
  <2> QED BY <1>4, <2>1
<1> QED BY <1>5, <1>6, <1>7

\* The match starts when its players have paid.
LEMMA StartStep ==
  ASSUME IInv, ~InPlay, NEW m \in Drawn(match), match' = m,
         NEW players, DebitHumans(players),
         seats' \in [0..3 -> Users \cup {Nobody, Ghost}], Humans(seats') = players,
         seats'[0] = Host, seats'[1] = Ghost, seats'[2] # Host,
         seats'[3] = IF match.mode = "1v1" THEN Nobody ELSE Ghost,
         match.mode = "1v1" => seats'[2] = Nobody,
         match.mode = "2v2" => seats'[2] # Nobody,
         page' \in [Pages -> {"idle", "start"}], \A q \in Pages : page'[q] # "start",
         ghosts' = ghosts
  PROVE  IInv'
<1>1. Live(match.mode, m) /\ Fresh(m) /\ m.host = match.host /\ m.mode = match.mode
  BY DrawnMatch
<1>2. match.mode \in Modes /\ ghosts = FALSE
  BY NobodyHasPaid
<1>3. /\ split' \in [Users -> [balance : Nat, bonus : Nat]]
      /\ users' \in [Users -> [balance : Nat, bonus : Nat]]
      /\ \A u \in Users : u \in players => split'[u] = EntryOf(u)
  BY EntriesPaid
<1>4. /\ m.status = "playing" /\ m.settled = FALSE /\ m.winner = Nobody /\ m \in Match(match.mode)
      /\ Len(m.table) <= 3 /\ \A s \in Seats(match.mode) : Len(m.hands[s]) <= HandSize
  BY <1>1, <1>2, LiveFacts
<1>5. TypeOK'
  BY <1>1, <1>2, <1>3, <1>4 DEF TypeOK, IInv
<1>6. SeatsInv'
  BY <1>1, <1>2, <1>4 DEF SeatsInv, IInv, InPlay
<1>7. EntriesInv'
  <2>1. \A u \in Humans(seats') : u \in Users /\ split'[u] = EntryOf(u)
    BY <1>3 DEF Humans
  <2> QED BY <1>4, <2>1 DEF EntriesInv
<1>8. WalletAgreesWithMatch'
  <2>1. InPlay' /\ match'.winner # "us"
    BY <1>4 DEF InPlay, Nobody
  <2>2. \A u \in Users : users'[u] = IF u \notin players THEN Opening[u]
                                     ELSE [balance |-> Opening[u].balance - EntryOf(u).balance,
                                           bonus |-> Opening[u].bonus - EntryOf(u).bonus]
    BY EntriesPaid
  <2> QED BY <2>1, <2>2, Zenon DEF WalletAgreesWithMatch
<1>9. DrawDecides' /\ NoGhostIsWaitedFor'
  <2>1. Host \in Users
    BY TrucoAssumption
  <2> QED BY <1>1, <1>4, <2>1 DEF DrawDecides, NoGhostIsWaitedFor, Fresh
<1> QED BY <1>1, <1>5, <1>6, <1>7, <1>8, <1>9 DEF IInv, Live

LEMMA Start1v1Step ==
  ASSUME IInv, NEW p \in Pages, Start1v1(p)
  PROVE  IInv'
<1>1. /\ match.status = "none" /\ match.mode = "1v1" /\ DebitHumans({match.host})
      /\ seats' = [seats EXCEPT ![0] = match.host, ![1] = Ghost]
      /\ ghosts' = ghosts /\ page' = page
  BY DEF Start1v1
<1>2. PICK m \in Drawn(match) : match' = m
  BY DEF Start1v1
<1>3. /\ match.host = Host /\ Host \in Users /\ Nobody \notin Users /\ Ghost \notin Users
      /\ seats \in [0..3 -> Users \cup {Nobody, Ghost}] /\ \A s \in 0..3 : seats[s] = Nobody
      /\ page \in [Pages -> {"idle", "start"}] /\ \A q \in Pages : page[q] # "start"
  BY <1>1, TrucoAssumption DEF IInv, SeatsInv, TypeOK
<1>4. /\ seats' \in [0..3 -> Users \cup {Nobody, Ghost}]
      /\ seats'[0] = Host /\ seats'[1] = Ghost /\ seats'[2] = Nobody /\ seats'[3] = Nobody
  BY <1>1, <1>3
<1>5. Humans(seats') = {match.host}
  BY <1>3, <1>4 DEF Humans
<1>6. ~InPlay /\ Nobody # Host
  BY <1>1, <1>3 DEF InPlay
<1>7. match.mode # "2v2"
  BY <1>1
<1> QED BY <1>1, <1>2, <1>3, <1>4, <1>5, <1>6, <1>7, StartStep

LEMMA Start2v2Step ==
  ASSUME IInv, OneHostPage, NEW p \in Pages, Start2v2(p)
  PROVE  IInv'
<1>1. /\ page[p] = "start" /\ DebitHumans(Humans(seats))
      /\ seats' = [seats EXCEPT ![2] = IF @ = Nobody THEN Ghost ELSE @]
      /\ ghosts' = ghosts /\ page' = [page EXCEPT ![p] = "idle"]
  BY DEF Start2v2
<1>2. PICK m \in Drawn(match) : match' = m
  BY DEF Start2v2
<1>3. /\ seats \in [0..3 -> Users \cup {Nobody, Ghost}] /\ page \in [Pages -> {"idle", "start"}]
      /\ Nobody \notin Users /\ Ghost \notin Users /\ Host \in Users /\ Nobody # Ghost
  BY TrucoAssumption DEF IInv, TypeOK, Nobody, Ghost
<1>4. match.status = "waiting" /\ match.mode = "2v2" /\ Owner[p] = Host
      /\ seats[0] = Host /\ seats[1] = Ghost /\ seats[2] # Host /\ seats[3] = Ghost
  BY <1>1 DEF IInv, SeatsInv
<1>5. page' \in [Pages -> {"idle", "start"}] /\ \A q \in Pages : page'[q] # "start"
  <2>1. \A q \in Pages : page[q] = "start" => Owner[q] = Host
    BY DEF IInv, SeatsInv
  <2>2. \A q \in Pages : page[q] = "start" => q = p
    BY <1>4, <2>1 DEF OneHostPage
  <2> QED BY <1>1, <1>3, <2>2
<1>6. /\ seats' \in [0..3 -> Users \cup {Nobody, Ghost}]
      /\ seats'[0] = Host /\ seats'[1] = Ghost /\ seats'[3] = Ghost
      /\ seats'[2] = IF seats[2] = Nobody THEN Ghost ELSE seats[2]
  BY <1>1, <1>3, <1>4
<1>7. seats'[2] # Host /\ seats'[2] # Nobody
  BY <1>3, <1>4, <1>6
<1>8. Humans(seats') = Humans(seats)
  BY <1>3, <1>4, <1>6 DEF Humans
<1>9. ~InPlay /\ match.mode # "1v1"
  BY <1>4 DEF InPlay
<1> QED BY <1>1, <1>2, <1>4, <1>5, <1>6, <1>7, <1>8, <1>9, StartStep

-----------------------------------------------------------------------------
(* The invariant.                                                          *)

\* Before the match is opened the invariant holds.
LEMMA InitHolds ==
  ASSUME Init
  PROVE  IInv
<1>1. PICK mode \in Modes :
        match = [mode |-> mode, status |-> "none", host |-> Host,
                 score |-> [t \in Teams |-> 0], value |-> 1,
                 target |-> "them", winner |-> Nobody, settled |-> FALSE,
                 deadline |-> "none", phase |-> "play", turn |-> 0,
                 raise |-> NoRaise, dark |-> FALSE,
                 tricks |-> [t \in Teams |-> 0],
                 hands |-> [s \in Seats(mode) |-> <<>>], table |-> <<>>]
  BY DEF Init
<1>2. /\ mode \in {"1v1", "2v2"} /\ Host \in Users /\ Opening \in [Users -> [balance : Nat, bonus : Nat]]
  BY TrucoAssumption
<1>3. /\ seats = [s \in 0..3 |-> Nobody] /\ split = [u \in Users |-> NoSplit] /\ users = Opening
      /\ ghosts = FALSE /\ page = [p \in Pages |-> "idle"]
  BY DEF Init
<1>4. match.mode = mode /\ match \in Match(mode)
  BY <1>1, <1>2 DEF Match, Teams, NoRaise
<1>5. TypeOK
  <2>1. Len(match.table) <= 3 /\ \A s \in Seats(mode) : Len(match.hands[s]) <= HandSize
    BY <1>1 DEF HandSize
  <2> QED BY <1>2, <1>3, <1>4, <2>1 DEF TypeOK, NoSplit
<1>6. match.status = "none" /\ match.host = Host /\ match.settled = FALSE /\ match.winner = Nobody
  BY <1>1
<1>7. SeatsInv
  BY <1>3, <1>4, <1>6 DEF SeatsInv, InPlay
<1>8. EntriesInv /\ WalletAgreesWithMatch /\ DrawDecides /\ NoGhostIsWaitedFor
  BY <1>3, <1>6 DEF EntriesInv, WalletAgreesWithMatch, InPlay, DrawDecides, NoGhostIsWaitedFor
<1> QED BY <1>5, <1>6, <1>7, <1>8 DEF IInv

\* Every step keeps the invariant.
LEMMA StepHolds ==
  ASSUME IInv, OneHostPage, [Next]_vars
  PROVE  IInv'
<1>1. ASSUME NEW p \in Pages,
             \/ Start1v1(p) \/ Create2v2Room(p) \/ Join2v2Room(p)
             \/ StartRequest(p) \/ Start2v2(p) \/ StartRefused(p)
             \/ ActPlay(p) \/ ActRaise(p) \/ ActAnswer(p) \/ ActEleven(p)
             \/ Forfeit(p)
      PROVE  IInv'
  <2>1. CASE Start1v1(p)
    BY <2>1, Start1v1Step
  <2>2. CASE Create2v2Room(p)
    BY <2>2, Create2v2RoomStep
  <2>3. CASE Join2v2Room(p)
    BY <2>3, Join2v2RoomStep
  <2>4. CASE StartRequest(p) \/ StartRefused(p)
    BY <2>4, RequestSteps
  <2>5. CASE Start2v2(p)
    BY <2>5, Start2v2Step
  <2>6. CASE ActPlay(p)
    BY <2>6, ActPlayStep
  <2>7. CASE ActRaise(p)
    BY <2>7, ActRaiseStep
  <2>8. CASE ActAnswer(p)
    BY <2>8, ActAnswerStep
  <2>9. CASE ActEleven(p)
    BY <2>9, ActElevenStep
  <2>10. CASE Forfeit(p)
    BY <2>10, ForfeitStep
  <2> QED BY <1>1, <2>1, <2>2, <2>3, <2>4, <2>5, <2>6, <2>7, <2>8, <2>9, <2>10
<1>2. CASE GhostTick
  BY <1>2, GhostAnswerStep, GhostRaiseSteps, GhostCardStep DEF GhostTick
<1>3. CASE TurnRunsOut
  BY <1>3, TurnRunsOutStep
<1>4. CASE Expire
  BY <1>4, ExpireStep
<1>5. CASE Over \/ UNCHANGED vars
  <2>1. /\ match' = match /\ seats' = seats /\ split' = split /\ users' = users
        /\ ghosts' = ghosts /\ page' = page
    BY <1>5 DEF Over, vars
  <2>2. TypeOK' /\ SeatsInv'
    BY <2>1 DEF IInv, TypeOK, SeatsInv, InPlay
  <2>3. EntriesInv' /\ WalletAgreesWithMatch'
    BY <2>1 DEF IInv, EntriesInv, WalletAgreesWithMatch, InPlay
  <2>4. DrawDecides' /\ NoGhostIsWaitedFor'
    BY <2>1 DEF IInv, DrawDecides, NoGhostIsWaitedFor
  <2>5. match'.status = "playing" => TableInOrder(match') /\ HandsAreWhole(match') /\ ValueFits(match')
    BY <2>1, Zenon DEF IInv
  <2> QED BY <2>2, <2>3, <2>4, <2>5 DEF IInv
<1> QED BY <1>1, <1>2, <1>3, <1>4, <1>5 DEF Next

\* Where the host has one page, so that no second start request can be
\* under way, the invariant holds of every behaviour.
THEOREM InvariantHolds ==
  ASSUME OneHostPage
  PROVE  Spec => []IInv
<1>1. Init => IInv
  BY InitHolds
<1>2. IInv /\ [Next]_vars => IInv'
  BY StepHolds
<1> QED BY <1>1, <1>2, PTL DEF Spec

\* No card is lost or played twice.
LEMMA HandsStayInStep ==
  ASSUME IInv
  PROVE  HandsInStep
<1> SUFFICES ASSUME match.status = "playing"
             PROVE  /\ match.hands[match.turn] # <<>>
                    /\ \A s \in Seats(match.mode) :
                         Len(match.hands[s])
                           + Cardinality({i \in DOMAIN match.table : match.table[i].seat = s})
                           + match.tricks["us"] + match.tricks["them"] = HandSize
  BY Zenon DEF HandsInStep
<1>1. match.mode \in Modes /\ Live(match.mode, match)
  BY InPlayIsLive
<1>2. match \in Match(match.mode) /\ match.hands[match.turn] # <<>>
  BY <1>1, LiveFacts
<1>3. ASSUME NEW s \in Seats(match.mode)
      PROVE  Cardinality({i \in DOMAIN match.table : match.table[i].seat = s}) = OnTable(match, s)
  <2> DEFINE places == {i \in DOMAIN match.table : match.table[i].seat = s}
  <2>1. \A i, j \in DOMAIN match.table : match.table[i].seat = match.table[j].seat => i = j
    BY <1>1, <1>2, SeatsBeforeTurn DEF Live
  <2>2. CASE \E i \in DOMAIN match.table : match.table[i].seat = s
    <3>1. PICK i \in DOMAIN match.table : match.table[i].seat = s
      BY <2>2
    <3>2. places = {i}
      BY <2>1, <3>1
    <3>3. Cardinality({i}) = 1
      BY FS_Singleton
    <3> QED BY <2>2, <3>2, <3>3 DEF OnTable
  <2>3. CASE ~\E i \in DOMAIN match.table : match.table[i].seat = s
    <3>1. places = {}
      BY <2>3
    <3>2. Cardinality({}) = 0
      BY FS_EmptySet
    <3> QED BY <2>3, <3>1, <3>2 DEF OnTable
  <2> QED BY <2>2, <2>3
<1>4. \A s \in Seats(match.mode) :
        Len(match.hands[s]) + OnTable(match, s) + match.tricks["us"] + match.tricks["them"] = HandSize
  BY <1>1 DEF Live, HandsAreWhole
<1>5. \A s \in Seats(match.mode) :
        Len(match.hands[s])
          + Cardinality({i \in DOMAIN match.table : match.table[i].seat = s})
          + match.tricks["us"] + match.tricks["them"] = HandSize
  BY <1>3, <1>4
<1> QED BY <1>2, <1>5

\* The wallets agree with the match: each player has paid one stake, the
\* winners have it back with as much again, and nobody else's money has
\* moved (Truco's StakesAgree).
THEOREM StakesAlwaysAgree ==
  ASSUME OneHostPage
  PROVE  Spec => []StakesAgree
<1>1. IInv => StakesAgree
  BY DEF IInv, StakesAgree
<1> QED BY <1>1, InvariantHolds, PTL

\* The game played is Truco and the draw of the match is kept (Truco's
\* RulesKept): hands stay in step with tricks and table, eleven points make
\* the hand worth three, and only a match drawn for the players pays them.
THEOREM RulesAlwaysKept ==
  ASSUME OneHostPage
  PROVE  Spec => []RulesKept
<1>1. IInv => ElevenIsWorthThree
  <2> SUFFICES ASSUME IInv, match.status = "playing" PROVE ElevenIsWorthThree
    BY DEF ElevenIsWorthThree
  <2>1. match.mode \in Modes /\ Live(match.mode, match)
    BY InPlayIsLive
  <2>2. ValueFits(match)
    BY <2>1 DEF Live
  <2>3. match.phase # "eleven" /\ 11 \in {match.score[t] : t \in Teams} => match.value >= 3
    BY <2>2 DEF ValueFits, Teams
  <2>4. match.dark => match.value = 3 /\ match.phase = "play"
    BY <2>2 DEF ValueFits
  <2> QED BY <2>3, <2>4 DEF ElevenIsWorthThree
<1>2. IInv => RulesKept
  BY <1>1, HandsStayInStep DEF IInv, RulesKept
<1> QED BY <1>2, InvariantHolds, PTL

\* When a request has been answered it is for a player to move (Truco's
\* NoGhostIsWaitedFor), but for the raise of a ghost partner.
THEOREM NoGhostIsEverWaitedFor ==
  ASSUME OneHostPage
  PROVE  Spec => []NoGhostIsWaitedFor
<1>1. IInv => NoGhostIsWaitedFor
  BY DEF IInv
<1> QED BY <1>1, InvariantHolds, PTL
=============================================================================
