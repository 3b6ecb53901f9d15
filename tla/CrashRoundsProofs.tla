------------------------- MODULE CrashRoundsProofs -------------------------
(***************************************************************************)
(* Theorems about CrashRounds, for every set of users, stakes, crash       *)
(* points and house maxima, every curve and any number of polls and calls. *)
(***************************************************************************)
EXTENDS CrashRounds, SumTheorems, SequenceTheorems, TLAPS

-----------------------------------------------------------------------------
(* Numbers.                                                                *)

\* The smaller and the larger of two numbers.
LEMMA MinMaxOfTwo ==
  ASSUME NEW a \in Int, NEW b \in Int
  PROVE  /\ Min({a, b}) = IF a <= b THEN a ELSE b
         /\ Max({a, b}) = IF a >= b THEN a ELSE b
<1> DEFINE lo == IF a <= b THEN a ELSE b
           hi == IF a >= b THEN a ELSE b
<1>1. lo \in {a, b} /\ \A y \in {a, b} : lo <= y
  OBVIOUS
<1>2. hi \in {a, b} /\ \A y \in {a, b} : hi >= y
  OBVIOUS
<1>3. \A x \in {a, b} : (\A y \in {a, b} : x <= y) => x = lo
  OBVIOUS
<1>4. \A x \in {a, b} : (\A y \in {a, b} : x >= y) => x = hi
  OBVIOUS
<1> HIDE DEF lo, hi
<1>5. Min({a, b}) = lo
  BY <1>1, <1>3 DEF Min
<1>6. Max({a, b}) = hi
  BY <1>2, <1>4 DEF Max
<1> QED BY <1>5, <1>6 DEF lo, hi

\* The largest of finitely many numbers is one of them.
LEMMA MaxInSet ==
  ASSUME NEW S \in SUBSET Int, S # {}, IsFiniteSet(S)
  PROVE  Max(S) \in S
<1>1. PICK m \in S : \A x \in S : m >= x
  <2> DEFINE B == {T \in SUBSET S :
                     T # {} /\ \A m \in T : \E x \in T : ~(m >= x)}
  <2> SUFFICES B = {}
    OBVIOUS
  <2>1. SUFFICES ASSUME B # {} PROVE FALSE
    OBVIOUS
  <2>2. PICK T \in B : \A x \in T : T \ {x} \notin B
    <3>1. B \in SUBSET (SUBSET S)
      OBVIOUS
    <3> HIDE DEF B
    <3> QED BY <2>1, <3>1, SmallestSet
  <2>3. PICK y \in T : TRUE
    OBVIOUS
  <2>4. PICK x \in T : ~(y >= x)
    OBVIOUS
  <2>5. y \in Int /\ x \in Int /\ x \in T \ {y} /\ T \ {y} \in SUBSET S
    BY <2>4
  <2>6. PICK m \in T \ {y} : \A z \in T \ {y} : m >= z
    BY <2>2, <2>5
  <2>7. PICK z \in T : ~(m >= z)
    BY <2>6
  <2>8. z = y /\ m >= x /\ m \in Int
    BY <2>5, <2>6, <2>7
  <2> QED BY <2>4, <2>5, <2>7, <2>8
<1> QED BY <1>1 DEF Max

\* A multiplier of at least 1.00 pays back the stake.
LEMMA PayoutCoversStake ==
  ASSUME NEW a \in Nat, NEW m \in Nat, m >= 100
  PROVE  /\ (a * m + 50) \div 100 \in Nat
         /\ a <= (a * m + 50) \div 100
<1>1. a * m = a * 100 + a * (m - 100) /\ a * (m - 100) \in Nat
  OBVIOUS
<1> DEFINE p == a * m
<1>2. p \in Nat /\ p >= a * 100
  BY <1>1
<1> HIDE DEF p
<1>3. (p + 50) \div 100 \in Nat /\ a <= (p + 50) \div 100
  BY <1>2
<1> QED BY <1>3 DEF p

-----------------------------------------------------------------------------
(* Rounds.                                                                 *)

\* The open round, if there is one, is the last.
LEMMA OpenRoundIsLast ==
  ASSUME TypeOK, RoundsInv
  PROVE  /\ OpenRound = 0 \/ OpenRound = Len(rounds)
         /\ OpenRound # 0 => /\ OpenRound \in DOMAIN rounds
                             /\ rounds[OpenRound].status # "CRASHED"
         /\ OpenRound = 0 => \A n \in DOMAIN rounds :
                               rounds[n].status = "CRASHED"
<1> DEFINE open == {n \in DOMAIN rounds : rounds[n].status # "CRASHED"}
           l == Len(rounds)
<1>1. DOMAIN rounds = 1 .. l /\ l \in Nat
  BY LenProperties DEF TypeOK
<1>2. \A n \in open : n = l
  BY DEF RoundsInv
<1>3. CASE open = {}
  BY <1>3 DEF OpenRound
<1>4. CASE open # {}
  <2>1. open = {l}
    BY <1>2, <1>4
  <2>2. l >= l
    BY <1>1
  <2>3. Max({l}) = l
    BY <2>2 DEF Max
  <2>4. OpenRound = l
    <3> HIDE DEF l
    <3> QED BY <2>1, <2>3 DEF OpenRound
  <2>5. l \in open
    BY <2>1
  <2> QED BY <1>1, <2>4, <2>5
<1> QED BY <1>3, <1>4

\* The type of a round, and what its clock may show.
LEMMA RoundType ==
  ASSUME TypeOK, RoundsInv, NEW n \in DOMAIN rounds
  PROVE  /\ rounds[n] \in Round
         /\ rounds[n].status \in {"WAITING", "RUNNING", "CRASHED"}
         /\ rounds[n].crash \in Nat /\ rounds[n].drawn \in Nat
         /\ rounds[n].age \in Nat
         /\ rounds[n].crash <= rounds[n].drawn
         /\ rounds[n].status = "RUNNING" => rounds[n].age \in 0 .. MaxAge
         /\ maxMult \in Nat /\ maxMult >= 200
         /\ n \in 1 .. MaxRounds
<1>1. rounds[n] \in Round
  BY LenProperties DEF TypeOK
<1>2. /\ rounds[n].crash <= rounds[n].drawn
      /\ rounds[n].age <= Horizon(rounds[n].status)
  BY DEF RoundsInv
<1>3. maxMult \in Nat /\ maxMult >= 200
  BY CrashRoundsAssumption DEF TypeOK
<1>4. rounds[n].status = "RUNNING" => rounds[n].age \in 0 .. MaxAge
  BY <1>1, <1>2, CrashRoundsAssumption DEF Round, Horizon
<1>5. n \in 1 .. MaxRounds
  BY LenProperties, CrashRoundsAssumption DEF TypeOK
<1> QED BY <1>1, <1>2, <1>3, <1>4, <1>5 DEF Round

\* A round crashes at a number that its seed allows.
LEMMA EffectiveType ==
  ASSUME TypeOK, RoundsInv, NEW n \in DOMAIN rounds
  PROVE  /\ EffectiveCrashPoint(n) \in Nat
         /\ EffectiveCrashPoint(n) <= rounds[n].crash
BY RoundType, MinMaxOfTwo DEF EffectiveCrashPoint

\* In flight the multiplier is at least 1.00.
LEMMA MultiplierType ==
  ASSUME TypeOK, RoundsInv, NEW n \in DOMAIN rounds, Flying(n)
  PROVE  MultiplierAfterStart(n) \in Nat /\ MultiplierAfterStart(n) >= 100
<1>1. CASE BettingOver(n)
  BY <1>1 DEF MultiplierAfterStart
<1>2. CASE ~BettingOver(n)
  <2>1. rounds[n].age \in 0 .. MaxAge /\ maxMult \in Nat /\ maxMult >= 200
    BY <1>2, RoundType DEF Flying
  <2>2. Curve[rounds[n].age] \in Nat /\ Curve[rounds[n].age] >= 100
    <3>1. 0 \in 0 .. MaxAge /\ 0 <= rounds[n].age
      BY <2>1, CrashRoundsAssumption
    <3>2. Curve[0] <= Curve[rounds[n].age]
      BY <2>1, <3>1, CrashRoundsAssumption
    <3> QED BY <2>1, <3>1, <3>2, CrashRoundsAssumption
  <2>3. CurrentMultiplier(n) \in Nat /\ CurrentMultiplier(n) >= 100
    BY <2>1, <2>2, MinMaxOfTwo DEF CurrentMultiplier
  <2> QED BY <1>2, <2>3 DEF MultiplierAfterStart
<1> QED BY <1>1, <1>2

\* What a step may do to the table of rounds: the clock ticks, a waiting round
\* whose time is over starts, a round in flight crashes, or the next one is
\* created.
RoundsStep ==
  \/ rounds' = rounds
  \/ Tick
  \/ \E n \in DOMAIN rounds :
       BettingOver(n) /\ rounds' = Started(n)
  \/ \E n \in DOMAIN rounds : Flying(n) /\ rounds' = Crashed(n)
  \/ /\ OpenRound = 0
     /\ Len(rounds) < MaxRounds
     /\ \E drawn \in CrashPoints :
          rounds' = Append(rounds, NewRound(Min({drawn, maxMult})))

\* Every step is one of these (the conditional updates of CrashEngine, and
\* the second look under the advisory lock).
LEMMA NextRounds ==
  ASSUME IInv, Next
  PROVE  RoundsStep
<1>1. TypeOK /\ RoundsInv /\ ReadInv /\ BetsInv
  BY DEF IInv
<1>2. OpenRound # 0 => /\ OpenRound \in DOMAIN rounds
                       /\ rounds[OpenRound].status # "CRASHED"
  BY <1>1, OpenRoundIsLast
<1>3. ASSUME NEW n \in DOMAIN rounds, rounds' = StartedIfDue(n)
      PROVE  RoundsStep
  BY <1>3 DEF StartedIfDue, RoundsStep
<1>4. ASSUME NEW p \in Pollers, PollStep(p) \/ Die(p)
      PROVE  RoundsStep
  <2>1. CASE PollStart(p)
    BY <1>1, <2>1 DEF PollStart, ReadInv, BettingOver, RoundsStep
  <2>2. CASE PollCrash(p)
    BY <1>1, <2>2 DEF PollCrash, ReadInv, Flying, RoundsStep
  <2>3. CASE WriteAdvance(p)
    <3>1. CASE OpenRound = 0
      BY <2>3, <3>1 DEF WriteAdvance, RoundsStep
    <3>2. CASE OpenRound # 0 /\ MustCrash(OpenRound)
      BY <1>2, <2>3, <3>2 DEF WriteAdvance, MustCrash, RoundsStep
    <3>3. CASE OpenRound # 0 /\ ~MustCrash(OpenRound)
      BY <1>2, <1>3, <2>3, <3>3 DEF WriteAdvance
    <3> QED BY <3>1, <3>2, <3>3
  <2>4. CASE CreateRound(p)
    BY <2>4 DEF CreateRound, ExistingRound, RoundsStep
  <2>5. CASE Poll(p) \/ PollLose(p) \/ Die(p)
    BY <2>5 DEF Poll, PollLose, Die, RoundsStep
  <2> QED BY <1>4, <2>1, <2>2, <2>3, <2>4, <2>5 DEF PollStep
<1>5. ASSUME NEW c \in Calls, CallStep(c) \/ Arrive(c)
      PROVE  RoundsStep
  <2>1. CASE BetCreatesRound(c)
    <3>1. Len(rounds) \in Nat
      BY <1>1, LenProperties DEF TypeOK
    <3>2. Len(rounds) + 1 <= MaxRounds => Len(rounds) < MaxRounds
      BY <3>1, CrashRoundsAssumption
    <3> QED BY <2>1, <3>2 DEF BetCreatesRound, ExistingRound, RoundsStep
  <2>2. CASE Settle(c)
    <3>1. call[c].row \in DOMAIN bets
      BY <1>1, <2>2 DEF Settle, ReadInv
    <3>2. bets[call[c].row].round \in DOMAIN rounds
      BY <1>1, <3>1 DEF BetsInv
    <3> QED BY <1>3, <2>2, <3>2 DEF Settle, RoundsStep
  <2>3. CASE InsertBet(c) \/ Return(c) \/ Arrive(c)
    BY <2>3 DEF InsertBet, Return, Arrive, PlaceBet, Cashout, RoundsStep
  <2> QED BY <1>5, <2>1, <2>2, <2>3 DEF CallStep
<1>6. CASE Tick \/ SetMaxMultiplier
  BY <1>6 DEF SetMaxMultiplier, RoundsStep
<1> QED BY <1>4, <1>5, <1>6 DEF Next

\* A table of as many rounds is one.
LEMMA SameLength ==
  ASSUME NEW S, NEW s \in Seq(S), NEW t, t \in [1 .. Len(s) -> S]
  PROVE  t \in Seq(S) /\ Len(t) = Len(s)
<1>1. Len(s) \in Nat
  BY LenProperties
<1>2. t \in Seq(S)
  BY <1>1, SeqDef
<1>3. DOMAIN t = 1 .. Len(s) /\ DOMAIN t = 1 .. Len(t) /\ Len(t) \in Nat
  BY <1>2, LenProperties
<1> QED BY <1>1, <1>2, <1>3

\* Rewriting the rounds one by one keeps the table, given that each is a
\* round that may stand where it stands.
LEMMA RoundsRewritten ==
  ASSUME TypeOK, RoundsInv, NEW f, rounds' = f, DOMAIN f = DOMAIN rounds,
         \A n \in DOMAIN rounds :
           /\ f[n] \in Round
           /\ f[n].crash <= f[n].drawn
           /\ f[n].age <= Horizon(f[n].status)
           /\ n # Len(rounds) => f[n].status = "CRASHED"
           /\ f[n].drawn = rounds[n].drawn
           /\ rounds[n].status = "CRASHED" =>
                f[n].status = "CRASHED" /\ f[n].crash = rounds[n].crash,
         f = [n \in DOMAIN rounds |-> f[n]]
  PROVE  /\ rounds' \in Seq(Round) /\ Len(rounds') = Len(rounds)
         /\ RoundsInv'
<1>1. f \in [1 .. Len(rounds) -> Round] /\ rounds \in Seq(Round)
  BY LenProperties DEF TypeOK
<1>2. f \in Seq(Round) /\ Len(f) = Len(rounds)
  BY <1>1, SameLength
<1>3. RoundsInv'
  BY <1>2 DEF RoundsInv, Horizon
<1> QED BY <1>2, <1>3

\* What holds of the rounds that are there before and after a step: their
\* seed, all that was published once they had crashed, and how long they have
\* waited at least.
RoundsLast ==
  \A n \in DOMAIN rounds :
    /\ n \in DOMAIN rounds'
    /\ rounds'[n].drawn = rounds[n].drawn
    /\ rounds[n].status = "CRASHED" =>
         /\ rounds'[n].status = "CRASHED"
         /\ rounds'[n].crash = rounds[n].crash
    /\ rounds'[n].status = "WAITING" =>
         /\ rounds[n].status = "WAITING"
         /\ rounds[n].age <= rounds'[n].age

\* No step breaks the table of rounds or changes a crashed round.
LEMMA RoundsKept ==
  ASSUME TypeOK, RoundsInv, RoundsStep
  PROVE  /\ rounds' \in Seq(Round) /\ Len(rounds') <= MaxRounds
         /\ RoundsInv'
         /\ RoundsLast
<1>1. rounds \in Seq(Round) /\ Len(rounds) <= MaxRounds
  BY DEF TypeOK
<1>2. /\ BettingTime \in Nat \ {0} /\ MaxAge \in Nat /\ PauseTime \in Nat \ {0}
  BY CrashRoundsAssumption
<1>3. CASE rounds' = rounds
  BY <1>1, <1>3, RoundType DEF RoundsInv, RoundsLast
<1>4. CASE Tick
  <2> DEFINE f == [n \in DOMAIN rounds |->
                     [rounds[n] EXCEPT
                        !.age = Min({@ + 1, Horizon(rounds[n].status)})]]
  <2>1. ASSUME NEW n \in DOMAIN rounds
        PROVE  /\ f[n] \in Round
               /\ f[n].crash <= f[n].drawn
               /\ f[n].age <= Horizon(f[n].status)
               /\ f[n].status = rounds[n].status
               /\ f[n].drawn = rounds[n].drawn
               /\ f[n].crash = rounds[n].crash
               /\ rounds[n].age <= f[n].age
    <3>1. rounds[n] \in Round /\ rounds[n].age \in Nat
      BY RoundType
    <3>2. Horizon(rounds[n].status) \in Nat
      BY <1>2, RoundType DEF Horizon
    <3> DEFINE a == Min({rounds[n].age + 1, Horizon(rounds[n].status)})
    <3>3. /\ a \in Nat /\ a <= Horizon(rounds[n].status)
          /\ rounds[n].age <= a
      BY <3>1, <3>2, MinMaxOfTwo DEF RoundsInv
    <3>4. f[n] = [rounds[n] EXCEPT !.age = a]
      OBVIOUS
    <3> HIDE DEF a, f
    <3> QED BY <3>1, <3>3, <3>4, RoundType DEF Round
  <2>2. rounds' = f
    BY <1>4 DEF Tick
  <2>3. DOMAIN f = DOMAIN rounds /\ f = [n \in DOMAIN rounds |-> f[n]]
    OBVIOUS
  <2> HIDE DEF f
  <2>4. \A n \in DOMAIN rounds :
          n # Len(rounds) => f[n].status = "CRASHED"
    BY <2>1 DEF RoundsInv
  <2>5. rounds' \in Seq(Round) /\ Len(rounds') = Len(rounds) /\ RoundsInv'
    BY <2>1, <2>2, <2>3, <2>4, RoundsRewritten
  <2> QED BY <1>1, <2>1, <2>2, <2>3, <2>5 DEF RoundsLast
<1>5. ASSUME NEW n \in DOMAIN rounds, rounds[n].status # "CRASHED",
             NEW r \in Round, r.status # "WAITING",
             r.drawn = rounds[n].drawn, r.age = 0,
             r.crash <= rounds[n].crash,
             rounds' = [rounds EXCEPT ![n] = r]
      PROVE  /\ rounds' \in Seq(Round) /\ Len(rounds') = Len(rounds)
             /\ RoundsInv' /\ RoundsLast
  <2> DEFINE f == [rounds EXCEPT ![n] = r]
  <2>1. /\ DOMAIN f = DOMAIN rounds /\ f = [m \in DOMAIN rounds |-> f[m]]
        /\ f[n] = r /\ \A m \in DOMAIN rounds \ {n} : f[m] = rounds[m]
    BY <1>1, LenProperties
  <2>2. n = Len(rounds)
    BY <1>5 DEF RoundsInv
  <2>3. Horizon(r.status) \in Nat
    BY <1>2, <1>5 DEF Horizon, Round
  <2>4. r.crash <= r.drawn /\ r.age <= Horizon(r.status)
    <3>1. /\ rounds[n].crash <= rounds[n].drawn /\ rounds[n].crash \in Nat
          /\ rounds[n].drawn \in Nat
      BY RoundType
    <3>2. r.crash \in Nat
      BY <1>5 DEF Round
    <3> QED BY <1>5, <2>3, <3>1, <3>2
  <2>5. \A m \in DOMAIN rounds :
          /\ rounds[m] \in Round
          /\ rounds[m].crash <= rounds[m].drawn
          /\ rounds[m].age <= Horizon(rounds[m].status)
          /\ m # Len(rounds) => rounds[m].status = "CRASHED"
    BY RoundType DEF RoundsInv
  <2>6. rounds' = f
    BY <1>5
  <2> HIDE DEF f
  <2>7. \A m \in DOMAIN rounds :
           /\ f[m] \in Round
           /\ f[m].crash <= f[m].drawn
           /\ f[m].age <= Horizon(f[m].status)
           /\ m # Len(rounds) => f[m].status = "CRASHED"
           /\ f[m].drawn = rounds[m].drawn
           /\ rounds[m].status = "CRASHED" =>
                f[m].status = "CRASHED" /\ f[m].crash = rounds[m].crash
    BY <1>5, <2>1, <2>2, <2>4, <2>5
  <2>8. rounds' \in Seq(Round) /\ Len(rounds') = Len(rounds) /\ RoundsInv'
    BY <2>1, <2>6, <2>7, RoundsRewritten
  <2>9. \A m \in DOMAIN rounds :
          f[m].status = "WAITING" => rounds[m].status = "WAITING"
                                       /\ rounds[m].age <= f[m].age
    BY <1>5, <2>1, RoundType
  <2> QED BY <2>1, <2>6, <2>7, <2>8, <2>9 DEF RoundsLast
<1>6. ASSUME NEW n \in DOMAIN rounds, rounds[n].status = "WAITING",
             rounds' = Started(n)
      PROVE  /\ rounds' \in Seq(Round) /\ Len(rounds') = Len(rounds)
             /\ RoundsInv' /\ RoundsLast
  <2> DEFINE r == [rounds[n] EXCEPT !.status = "RUNNING", !.age = 0]
  <2>1. /\ r \in Round /\ r.drawn = rounds[n].drawn /\ r.age = 0
        /\ r.status # "WAITING"
        /\ r.crash = rounds[n].crash /\ r.crash <= rounds[n].crash
    <3>1. rounds[n] \in Round /\ rounds[n].crash \in Nat
      BY RoundType
    <3>2. /\ r \in Round /\ r.drawn = rounds[n].drawn /\ r.age = 0
          /\ r.crash = rounds[n].crash /\ r.status # "WAITING"
      BY <3>1 DEF Round
    <3> HIDE DEF r
    <3> QED BY <3>1, <3>2
  <2>2. rounds' = [rounds EXCEPT ![n] = r]
    BY <1>6 DEF Started
  <2> HIDE DEF r
  <2> QED BY <1>5, <1>6, <2>1, <2>2
<1>7. ASSUME NEW n \in DOMAIN rounds, rounds[n].status # "CRASHED",
             rounds' = Crashed(n)
      PROVE  /\ rounds' \in Seq(Round) /\ Len(rounds') = Len(rounds)
             /\ RoundsInv' /\ RoundsLast
  <2> DEFINE e == EffectiveCrashPoint(n)
             r == [rounds[n] EXCEPT !.status = "CRASHED", !.age = 0,
                                    !.crash = e]
  <2>1. e \in Nat /\ e <= rounds[n].crash
    BY EffectiveType
  <2>2. rounds' = [rounds EXCEPT ![n] = r]
    BY <1>7 DEF Crashed
  <2> HIDE DEF e
  <2>3. /\ r \in Round /\ r.drawn = rounds[n].drawn /\ r.age = 0
        /\ r.crash = e /\ r.status # "WAITING"
    BY <2>1, RoundType DEF Round
  <2> HIDE DEF r
  <2> QED BY <1>5, <1>7, <2>1, <2>2, <2>3
<1>8. ASSUME OpenRound = 0, Len(rounds) < MaxRounds, NEW drawn \in CrashPoints,
             rounds' = Append(rounds, NewRound(Min({drawn, maxMult})))
      PROVE  /\ rounds' \in Seq(Round) /\ Len(rounds') <= MaxRounds
             /\ RoundsInv' /\ RoundsLast
  <2> DEFINE r == NewRound(Min({drawn, maxMult}))
             l == Len(rounds)
  <2>1. /\ r \in Round /\ r.crash <= r.drawn /\ r.age = 0
        /\ r.status = "WAITING"
    <3>1. drawn \in Nat /\ maxMult \in Nat
      BY CrashRoundsAssumption DEF TypeOK
    <3>2. Min({drawn, maxMult}) \in Nat
      BY <3>1, MinMaxOfTwo
    <3> QED BY <3>2 DEF NewRound, Round
  <2>2. /\ rounds' \in Seq(Round) /\ Len(rounds') = l + 1 /\ l \in Nat
        /\ \A n \in 1 .. l : rounds'[n] = rounds[n]
        /\ rounds'[l + 1] = r
        /\ DOMAIN rounds = 1 .. l /\ DOMAIN rounds' = 1 .. l + 1
    <3> HIDE DEF r
    <3> QED BY <1>1, <1>8, <2>1, AppendProperties, LenProperties DEF r
  <2>3. l + 1 <= MaxRounds
    BY <1>8, <2>2, CrashRoundsAssumption
  <2>4. \A n \in DOMAIN rounds : rounds[n].status = "CRASHED"
    BY <1>8, OpenRoundIsLast
  <2>5. \A n \in DOMAIN rounds :
          /\ rounds[n].crash <= rounds[n].drawn
          /\ rounds[n].age <= Horizon(rounds[n].status)
    BY DEF RoundsInv
  <2>6. r.age <= Horizon(r.status)
    BY <1>2, <2>1 DEF Horizon
  <2> HIDE DEF r, l
  <2>7. ASSUME NEW n \in DOMAIN rounds'
        PROVE  /\ n # Len(rounds') => rounds'[n].status = "CRASHED"
               /\ rounds'[n].crash <= rounds'[n].drawn
               /\ rounds'[n].age <= Horizon(rounds'[n].status)
    <3>1. CASE n = l + 1
      BY <2>1, <2>2, <2>6, <3>1
    <3>2. CASE n # l + 1
      <4>1. n \in 1 .. l
        BY <2>2, <3>2
      <4> QED BY <2>2, <2>4, <2>5, <4>1
    <3> QED BY <3>1, <3>2
  <2>8. RoundsInv'
    BY <2>7 DEF RoundsInv, Horizon
  <2> QED BY <2>2, <2>3, <2>8, RoundType DEF RoundsLast
<1>9. ASSUME NEW n \in DOMAIN rounds, Flying(n)
      PROVE  rounds[n].status # "CRASHED"
  BY <1>9 DEF Flying, BettingOver
<1> QED BY <1>1, <1>3, <1>4, <1>6, <1>7, <1>8, <1>9
        DEF RoundsStep, BettingOver

-----------------------------------------------------------------------------
(* Bets and money.                                                         *)

Active == {i \in DOMAIN bets : bets[i].status = "ACTIVE"}

\* A bet joins a round that is waiting, or the one that its call has read.
JoinedInTime(n) ==
  \/ rounds'[n].status = "WAITING"
  \/ rounds' = rounds /\ \E c \in Calls : pc[c] = "insert" /\ call[c].row = n

\* What a step may do to bets and money: the active bets of a crashed round
\* are lost, active bets are cashed out below the crash point of their round,
\* or a bet is taken that its player can pay.
MoneyStep ==
  \/ UNCHANGED <<bets, users>>
  \/ \E n \in DOMAIN rounds :
       /\ rounds'[n].status = "CRASHED"
       /\ bets' = LostWith(n)
       /\ UNCHANGED users
  \/ \E S \in SUBSET Active : \E at :
       /\ \A i \in S : /\ at[i] \in Nat /\ at[i] >= 100
                       /\ at[i] < rounds[bets[i].round].drawn
       /\ CashOut(S, at)
  \/ \E k \in Call, n \in DOMAIN rounds' :
       /\ k.auto \in {0} \cup AutoTargets
       /\ Acceptable(k, n)
       /\ TakeBet(k, n)
       /\ JoinedInTime(n)

\* Below the crash point is below what the seed commits to.
LEMMA BelowCrash ==
  ASSUME TypeOK, RoundsInv, NEW n \in DOMAIN rounds, Flying(n), ~MustCrash(n)
  PROVE  /\ MultiplierAfterStart(n) \in Nat /\ MultiplierAfterStart(n) >= 100
         /\ MultiplierAfterStart(n) < rounds[n].drawn
<1>1. MultiplierAfterStart(n) < EffectiveCrashPoint(n)
  BY MultiplierType, EffectiveType DEF MustCrash
<1> QED BY <1>1, MultiplierType, EffectiveType, RoundType

\* What a call asks for has the type of a call.
LEMMA CallArguments ==
  ASSUME NEW u \in Users, NEW s \in Slots, NEW amount \in Stakes,
         NEW auto \in AutoTargets
  PROVE  /\ [user |-> u, slot |-> s, amount |-> amount, auto |-> auto,
             row |-> 0] \in Call
         /\ [user |-> u, slot |-> s, amount |-> amount, auto |-> auto,
             row |-> 0].auto \in {0} \cup AutoTargets
BY CrashRoundsAssumption DEF Call

\* Crashing a round crashes it.
LEMMA CrashedStatus ==
  ASSUME TypeOK, NEW n \in DOMAIN rounds
  PROVE  Crashed(n)[n].status = "CRASHED"
<1>1. rounds[n] \in Round
  BY LenProperties DEF TypeOK
<1> DEFINE e == EffectiveCrashPoint(n)
<1> HIDE DEF e
<1>2. [rounds[n] EXCEPT !.status = "CRASHED", !.age = 0,
                        !.crash = e].status = "CRASHED"
  BY <1>1 DEF Round
<1> QED BY <1>2 DEF Crashed, e

\* Every step is one of these (PollLose after the crash, the two ways to cash
\* out, and the three to place a bet).
LEMMA NextMoney ==
  ASSUME IInv, Next
  PROVE  MoneyStep
<1>1. TypeOK /\ RoundsInv /\ ReadInv /\ BetsInv
  BY DEF IInv
<1>2. OpenRound # 0 => OpenRound \in DOMAIN rounds
  BY <1>1, OpenRoundIsLast
<1>3. RoundsLast
  BY <1>1, NextRounds, RoundsKept
<1>4. ASSUME NEW p \in Pollers, PollStep(p) \/ Die(p)
      PROVE  MoneyStep
  <2>1. CASE PollLose(p)
    <3>1. seen[p] \in DOMAIN rounds /\ rounds[seen[p]].status = "CRASHED"
      BY <1>1, <2>1 DEF PollLose, ReadInv
    <3>2. rounds'[seen[p]].status = "CRASHED"
      BY <1>3, <3>1 DEF RoundsLast
    <3> QED BY <2>1, <3>1, <3>2 DEF PollLose, MoneyStep
  <2>2. CASE WriteAdvance(p)
    <3> DEFINE n == OpenRound
    <3>1. CASE n = 0
      BY <2>2, <3>1 DEF WriteAdvance, MoneyStep
    <3>2. CASE n # 0 /\ MustCrash(n)
      <4>1. rounds'[n].status = "CRASHED"
        <5>1. n \in DOMAIN rounds /\ rounds' = Crashed(n)
          BY <1>2, <2>2, <3>2 DEF WriteAdvance
        <5> HIDE DEF n
        <5> QED BY <1>1, <5>1, CrashedStatus
      <4> QED BY <1>2, <2>2, <3>2, <4>1 DEF WriteAdvance, MoneyStep
    <3>3. CASE n # 0 /\ ~MustCrash(n) /\ Flying(n)
      <4> DEFINE at == [i \in DOMAIN bets |-> bets[i].auto]
      <4>1. CashOut(AutoDue(n), at)
        BY <2>2, <3>3 DEF WriteAdvance
      <4>2. AutoDue(n) \in SUBSET Active
        BY DEF AutoDue, Active
      <4>3. ASSUME NEW i \in AutoDue(n)
            PROVE  /\ at[i] \in Nat /\ at[i] >= 100
                   /\ at[i] < rounds[bets[i].round].drawn
        <5>1. /\ i \in DOMAIN bets /\ bets[i].round = n /\ bets[i].auto # 0
              /\ bets[i].auto <= MultiplierAfterStart(n)
          BY DEF AutoDue
        <5>2. bets[i].auto \in Nat /\ bets[i].auto >= 101
          <6>1. bets[i].auto \in {0} \cup AutoTargets
            BY <1>1, <5>1 DEF BetsInv
          <6>2. \A t \in AutoTargets : t = 0 \/ (t \in Nat /\ t >= 101)
            BY CrashRoundsAssumption
          <6> QED BY <5>1, <6>1, <6>2
        <5>3. /\ MultiplierAfterStart(n) \in Nat
              /\ MultiplierAfterStart(n) < rounds[n].drawn
              /\ rounds[n].drawn \in Nat
          BY <1>1, <1>2, <3>3, BelowCrash, RoundType
        <5> QED BY <5>1, <5>2, <5>3
      <4> HIDE DEF at
      <4> QED BY <4>1, <4>2, <4>3 DEF MoneyStep
    <3>4. CASE n # 0 /\ ~MustCrash(n) /\ ~Flying(n)
      BY <2>2, <3>4 DEF WriteAdvance, MoneyStep
    <3> QED BY <3>1, <3>2, <3>3, <3>4
  <2>3. CASE Poll(p) \/ PollStart(p) \/ PollCrash(p) \/ CreateRound(p) \/ Die(p)
    BY <2>3 DEF Poll, PollStart, PollCrash, CreateRound, Die, MoneyStep
  <2> QED BY <1>4, <2>1, <2>2, <2>3 DEF PollStep
<1>5. ASSUME NEW c \in Calls, CallStep(c) \/ Arrive(c)
      PROVE  MoneyStep
  <2>1. call[c] \in Call /\ call[c].auto \in {0} \cup AutoTargets
    BY <1>1 DEF TypeOK, ReadInv
  <2>2. CASE BetCreatesRound(c)
    <3> DEFINE n == Len(rounds) + 1
    <3>1. CASE UNCHANGED <<bets, users>>
      BY <3>1 DEF MoneyStep
    <3>2. CASE /\ Acceptable(call[c], n)
               /\ \E drawn \in CrashPoints :
                    rounds' = Append(rounds, NewRound(Min({drawn, maxMult})))
               /\ TakeBet(call[c], n)
      <4>1. rounds' \in Seq(Round)
        BY <1>1, NextRounds, RoundsKept
      <4>2. PICK r : rounds' = Append(rounds, r)
        BY <3>2
      <4>3. Len(Append(rounds, r)) = Len(rounds) + 1 /\ Len(rounds) \in Nat
        BY <1>1 DEF TypeOK
      <4>4. n \in DOMAIN rounds'
        BY <4>1, <4>2, <4>3, LenProperties
      <4>5. rounds'[n].status = "WAITING"
        BY <1>1, <3>2, AppendProperties DEF TypeOK, NewRound
      <4> QED BY <2>1, <3>2, <4>4, <4>5 DEF MoneyStep, JoinedInTime
    <3> QED BY <2>2, <3>1, <3>2 DEF BetCreatesRound
  <2>3. CASE InsertBet(c)
    <3>1. call[c].row \in DOMAIN rounds'
      BY <1>1, <1>3, <2>3 DEF InsertBet, ReadInv, RoundsLast
    <3> QED BY <2>1, <2>3, <3>1 DEF InsertBet, MoneyStep, JoinedInTime
  <2>4. CASE Settle(c)
    <3> DEFINE i == call[c].row
               n == bets[i].round
               at == [j \in {i} |-> MultiplierAfterStart(n)]
    <3>1. CASE UNCHANGED <<bets, users>>
      BY <3>1 DEF MoneyStep
    <3>2. CASE /\ StillActive(i) /\ Flying(n) /\ ~MustCrash(n)
               /\ CashOut({i}, at)
      <4>1. i \in DOMAIN bets /\ n \in DOMAIN rounds
        BY <1>1, <2>4 DEF Settle, ReadInv, BetsInv
      <4>2. {i} \in SUBSET Active
        BY <3>2, <4>1 DEF StillActive, Active
      <4>3. \A j \in {i} : /\ at[j] \in Nat /\ at[j] >= 100
                           /\ at[j] < rounds[bets[j].round].drawn
        BY <1>1, <3>2, <4>1, BelowCrash
      <4> HIDE DEF at, i, n
      <4> QED BY <3>2, <4>2, <4>3 DEF MoneyStep
    <3> QED BY <2>4, <3>1, <3>2 DEF Settle
  <2>5. CASE Return(c)
    BY <2>5 DEF Return, MoneyStep
  <2>6. CASE Arrive(c)
    <3>1. ASSUME NEW u \in Users, NEW s \in Slots, Cashout(c, u, s)
          PROVE  MoneyStep
      BY <3>1 DEF Cashout, MoneyStep
    <3>2. ASSUME NEW k \in Call, k.auto \in {0} \cup AutoTargets,
                 PlaceBet(c, k)
          PROVE  MoneyStep
      <4>1. CASE UNCHANGED <<bets, users>>
        BY <4>1 DEF MoneyStep
      <4>2. CASE /\ OpenRound # 0 /\ ~Flying(OpenRound)
                 /\ Acceptable(k, OpenRound) /\ TakeBet(k, OpenRound)
        <5>1. OpenRound \in DOMAIN rounds'
          BY <1>2, <1>3, <4>2 DEF RoundsLast
        <5>2. rounds'[OpenRound].status = "WAITING"
          BY <1>1, <3>2, <4>2, OpenRoundIsLast, RoundType
             DEF PlaceBet, Flying
        <5> QED BY <3>2, <4>2, <5>1, <5>2 DEF MoneyStep, JoinedInTime
      <4> QED BY <3>2, <4>1, <4>2 DEF PlaceBet
    <3> QED BY <2>6, <3>1, <3>2, CallArguments DEF Arrive
  <2> QED BY <1>5, <2>2, <2>3, <2>4, <2>5, <2>6 DEF CallStep
<1>6. CASE Tick \/ SetMaxMultiplier
  BY <1>6 DEF Tick, SetMaxMultiplier, MoneyStep
<1> QED BY <1>4, <1>5, <1>6 DEF Next

-----------------------------------------------------------------------------
(* The money of a table of bets, as sums over the set of its rows.         *)

Profits(b) == [i \in DOMAIN b |-> b[i].payout - b[i].amount]
Tied(b) == [i \in DOMAIN b |-> b[i].fromBonus]
Owned(b, u) == {i \in DOMAIN b : b[i].user = u}
Pending(b, u) == {i \in Owned(b, u) : b[i].status # "CASHED_OUT"}

\* What MoneyAgreesWithBets says of user u, in sums that SumTheorems knows.
MoneyOf(b, w, u) ==
  /\ w.balance + w.bonus
       = Opening[u].balance + Opening[u].bonus + Sum(Profits(b), Owned(b, u))
  /\ w.bonus + Sum(Tied(b), Pending(b, u)) = Opening[u].bonus

\* The type of a bet.
LEMMA BetType ==
  ASSUME NEW b \in Seq(Bet), NEW i \in DOMAIN b
  PROVE  /\ b[i] \in Bet
         /\ b[i].user \in Users /\ b[i].round \in 1 .. MaxRounds
         /\ b[i].slot \in Slots /\ b[i].amount \in Nat
         /\ b[i].fromBalance \in Nat /\ b[i].fromBonus \in Nat
         /\ b[i].auto \in Nat /\ b[i].at \in Nat /\ b[i].payout \in Nat
         /\ b[i].status \in {"ACTIVE", "CASHED_OUT", "LOST"}
<1>1. b[i] \in Bet
  BY LenProperties
<1> QED BY <1>1 DEF Bet

\* The sets of bets that the sums range over are finite, and their values are
\* numbers.
LEMMA BetSums ==
  ASSUME NEW b \in Seq(Bet), NEW u
  PROVE  /\ IsFiniteSet(DOMAIN b)
         /\ IsFiniteSet(Owned(b, u)) /\ IsFiniteSet(Pending(b, u))
         /\ Owned(b, u) \subseteq DOMAIN b /\ Pending(b, u) \subseteq DOMAIN b
         /\ \A i \in DOMAIN b : Profits(b)[i] \in Int /\ Tied(b)[i] \in Int
         /\ Sum(Profits(b), Owned(b, u)) \in Int
         /\ Sum(Tied(b), Pending(b, u)) \in Int
<1>1. DOMAIN b = 1 .. Len(b) /\ Len(b) \in Nat
  BY LenProperties
<1>2. IsFiniteSet(DOMAIN b)
  BY <1>1, FS_Interval
<1>3. Owned(b, u) \subseteq DOMAIN b /\ Pending(b, u) \subseteq DOMAIN b
  BY DEF Owned, Pending
<1>4. IsFiniteSet(Owned(b, u)) /\ IsFiniteSet(Pending(b, u))
  BY <1>2, <1>3, FS_Subset
<1>5. \A i \in DOMAIN b : Profits(b)[i] \in Int /\ Tied(b)[i] \in Int
  BY BetType DEF Profits, Tied
<1>6. IsIntOn(Profits(b), Owned(b, u)) /\ IsIntOn(Tied(b), Pending(b, u))
  BY <1>3, <1>5 DEF IsIntOn
<1> QED BY <1>2, <1>3, <1>4, <1>5, <1>6, SumType

\* The two forms of the property's sums agree.
LEMMA MoneyAsSums ==
  ASSUME NEW b \in Seq(Bet), NEW u
  PROVE  /\ SumFunction([i \in Owned(b, u) |-> b[i].payout - b[i].amount])
              = Sum(Profits(b), Owned(b, u))
         /\ SumFunction([i \in Pending(b, u) |-> b[i].fromBonus])
              = Sum(Tied(b), Pending(b, u))
<1> DEFINE f == [i \in Owned(b, u) |-> b[i].payout - b[i].amount]
           g == [i \in Pending(b, u) |-> b[i].fromBonus]
<1>1. /\ SumFunction(f) = Sum(f, Owned(b, u))
      /\ SumFunction(g) = Sum(g, Pending(b, u))
  BY DEF SumFunction, Sum
<1>2. /\ \A i \in Owned(b, u) : f[i] = Profits(b)[i]
      /\ \A i \in Pending(b, u) : g[i] = Tied(b)[i]
  BY DEF Profits, Tied, Owned, Pending
<1>3. IsIntOn(Profits(b), Owned(b, u)) /\ IsIntOn(Tied(b), Pending(b, u))
  BY BetSums DEF IsIntOn
<1>4. IsFiniteSet(Owned(b, u)) /\ IsFiniteSet(Pending(b, u))
  BY BetSums
<1> HIDE DEF f, g
<1> QED BY <1>1, <1>2, <1>3, <1>4, SumCongruence DEF f, g

\* The invariant about money, user by user, before and after a step.
LEMMA MoneyByUser ==
  /\ bets \in Seq(Bet) =>
       (MoneyAgreesWithBets <=> \A u \in Users : MoneyOf(bets, users[u], u))
  /\ bets' \in Seq(Bet) =>
       (MoneyAgreesWithBets' <=>
          \A u \in Users : MoneyOf(bets', users'[u], u))
<1>1. ASSUME bets \in Seq(Bet)
      PROVE  MoneyAgreesWithBets <=>
               \A u \in Users : MoneyOf(bets, users[u], u)
  <2>1. \A u : Owned(bets, u) = BetsOf(u) /\ Pending(bets, u) = NotCashedOut(u)
    BY DEF Owned, Pending, BetsOf, NotCashedOut
  <2> QED BY <1>1, <2>1, MoneyAsSums
          DEF MoneyAgreesWithBets, WalletAgreesWithBets, StakeReturnsToSource,
              MoneyOf
<1>2. ASSUME bets' \in Seq(Bet)
      PROVE  MoneyAgreesWithBets' <=>
               \A u \in Users : MoneyOf(bets', users'[u], u)
  <2>1. \A u : /\ Owned(bets', u) = BetsOf(u)'
               /\ Pending(bets', u) = NotCashedOut(u)'
    BY DEF Owned, Pending, BetsOf, NotCashedOut
  <2> QED BY <1>2, <2>1, MoneyAsSums
          DEF MoneyAgreesWithBets, WalletAgreesWithBets, StakeReturnsToSource,
              MoneyOf
<1> QED BY <1>1, <1>2

\* The type of a user.
LEMMA UserType ==
  ASSUME NEW w \in User
  PROVE  /\ w.balance \in Nat /\ w.bonus \in Nat
         /\ w.required \in Nat /\ w.progress \in Nat
BY DEF User

\* What a step must keep of bets and money.
MoneyKept ==
  /\ bets' \in Seq(Bet) /\ Len(bets) <= Len(bets')
  /\ users' \in [Users -> User]
  /\ BetsInv'
  /\ BetsFitTheirRound'
  /\ MoneyAgreesWithBets'

\* It keeps them when it touches neither, and the rounds last.
LEMMA NothingPaid ==
  ASSUME IInv, RoundsLast, UNCHANGED <<bets, users>>
  PROVE  MoneyKept
<1>1. /\ bets \in Seq(Bet) /\ users \in [Users -> User] /\ Len(bets) \in Nat
  BY LenProperties DEF IInv, TypeOK
<1>2. BetsInv'
  BY DEF IInv, BetsInv, RoundsLast
<1>3. BetsFitTheirRound'
  BY DEF IInv, BetsInv, BetsFitTheirRound, CashedOutBelowDrawn,
         LostOnlyAfterCrash, RoundsLast
<1>4. MoneyAgreesWithBets'
  BY <1>1, MoneyByUser DEF IInv
<1> QED BY <1>1, <1>2, <1>3, <1>4 DEF MoneyKept

\* Losing the bets of a crashed round moves no money.
LEMMA LosingKeeps ==
  ASSUME IInv, RoundsLast, NEW n \in DOMAIN rounds,
         rounds'[n].status = "CRASHED", bets' = LostWith(n), UNCHANGED users
  PROVE  MoneyKept
<1>1. /\ bets \in Seq(Bet) /\ users \in [Users -> User] /\ Len(bets) \in Nat
      /\ DOMAIN bets = 1 .. Len(bets)
  BY LenProperties DEF IInv, TypeOK
<1>2. ASSUME NEW i \in DOMAIN bets
      PROVE  /\ bets'[i] \in Bet
             /\ \/ bets'[i] = bets[i]
                \/ /\ bets[i].round = n /\ bets[i].status = "ACTIVE"
                   /\ bets'[i] = [bets[i] EXCEPT !.status = "LOST"]
  <2>1. bets[i] \in Bet
    BY <1>1, BetType
  <2>2. CASE bets[i].round = n /\ bets[i].status = "ACTIVE"
    <3>1. bets'[i] = [bets[i] EXCEPT !.status = "LOST"]
      BY <2>2 DEF LostWith
    <3>2. [bets[i] EXCEPT !.status = "LOST"] \in Bet
      BY <2>1 DEF Bet
    <3> QED BY <2>2, <3>1, <3>2
  <2>3. CASE ~(bets[i].round = n /\ bets[i].status = "ACTIVE")
    <3>1. bets'[i] = bets[i]
      BY <2>3 DEF LostWith
    <3> QED BY <2>1, <3>1
  <2> QED BY <2>2, <2>3
<1>3. bets' \in [1 .. Len(bets) -> Bet]
  BY <1>1, <1>2 DEF LostWith
<1>4. bets' \in Seq(Bet) /\ Len(bets') = Len(bets) /\ DOMAIN bets' = DOMAIN bets
  BY <1>1, <1>3, SameLength
<1>5. ASSUME NEW i \in DOMAIN bets
      PROVE  /\ bets'[i].user = bets[i].user
             /\ bets'[i].round = bets[i].round
             /\ bets'[i].auto = bets[i].auto
             /\ bets'[i].amount = bets[i].amount
             /\ bets'[i].fromBalance = bets[i].fromBalance
             /\ bets'[i].fromBonus = bets[i].fromBonus
             /\ bets'[i].at = bets[i].at
             /\ bets'[i].payout = bets[i].payout
             /\ bets'[i].status = "CASHED_OUT" <=> bets[i].status = "CASHED_OUT"
             /\ bets'[i].status = "LOST" =>
                  bets[i].status = "LOST" \/ bets[i].round = n
  <2>1. bets[i] \in Bet
    BY <1>1, BetType
  <2>2. CASE bets'[i] = bets[i]
    BY <2>2
  <2>3. CASE /\ bets[i].round = n /\ bets[i].status = "ACTIVE"
             /\ bets'[i] = [bets[i] EXCEPT !.status = "LOST"]
    BY <2>1, <2>3 DEF Bet
  <2> QED BY <1>2, <2>2, <2>3
<1>6. BetsInv'
  BY <1>4, <1>5 DEF IInv, BetsInv, RoundsLast
<1>7. BetsFitTheirRound'
  BY <1>4, <1>5 DEF IInv, BetsInv, BetsFitTheirRound, CashedOutBelowDrawn,
                    LostOnlyAfterCrash, RoundsLast
<1>8. /\ Profits(bets') = Profits(bets) /\ Tied(bets') = Tied(bets)
      /\ \A u : Owned(bets', u) = Owned(bets, u)
      /\ \A u : Pending(bets', u) = Pending(bets, u)
  BY <1>4, <1>5 DEF Profits, Tied, Owned, Pending
<1>9. MoneyAgreesWithBets'
  BY <1>1, <1>4, <1>8, MoneyByUser DEF IInv, MoneyOf
<1> QED BY <1>1, <1>4, <1>6, <1>7, <1>9 DEF MoneyKept

\* Cashing out active bets below the crash points of their rounds pays every
\* bet once: what its owner gets is what the bet says it paid out.
LEMMA CashingOutKeeps ==
  ASSUME IInv, RoundsLast, NEW S \in SUBSET Active, NEW at,
         \A i \in S : /\ at[i] \in Nat /\ at[i] >= 100
                      /\ at[i] < rounds[bets[i].round].drawn,
         CashOut(S, at)
  PROVE  MoneyKept
<1>1. /\ bets \in Seq(Bet) /\ users \in [Users -> User] /\ Len(bets) \in Nat
      /\ DOMAIN bets = 1 .. Len(bets)
  BY LenProperties DEF IInv, TypeOK
<1>2. /\ S \subseteq DOMAIN bets
      /\ \A i \in S : bets[i].status = "ACTIVE" /\ bets[i].payout = 0
  BY DEF Active, IInv, BetsInv
<1>3. ASSUME NEW i \in S
      PROVE  /\ Payout(i, at[i]) \in Nat
             /\ ToBalance(i, at[i]) \in Nat /\ ToBonus(i) \in Nat
             /\ ToBalance(i, at[i]) + ToBonus(i) = Payout(i, at[i])
  <2> DEFINE p == Payout(i, at[i])
  <2>1. /\ bets[i].amount \in Nat /\ bets[i].fromBalance \in Nat
        /\ bets[i].fromBonus \in Nat
        /\ bets[i].fromBalance + bets[i].fromBonus = bets[i].amount
    BY <1>1, <1>2, BetType DEF IInv, BetsInv
  <2>2. p \in Nat /\ bets[i].amount <= p
    BY <2>1, PayoutCoversStake DEF Payout
  <2> HIDE DEF p
  <2>3. Max({0, p - bets[i].amount}) = p - bets[i].amount
    <3> DEFINE q == p - bets[i].amount
    <3>1. 0 \in Int /\ q \in Nat
      BY <2>1, <2>2
    <3> HIDE DEF q
    <3>2. Max({0, q}) = IF 0 >= q THEN 0 ELSE q
      <4>1. q \in Int
        BY <3>1
      <4> QED BY <3>1, <4>1, MinMaxOfTwo
    <3>3. Max({0, q}) = q
      BY <3>1, <3>2
    <3> QED BY <3>3 DEF q
  <2>4. ToBalance(i, at[i]) = bets[i].fromBalance + (p - bets[i].amount)
    BY <2>3 DEF ToBalance, p
  <2>5. p \in Nat /\ ToBonus(i) = bets[i].fromBonus
    BY <2>2 DEF ToBonus
  <2>6. ToBalance(i, at[i]) \in Nat /\ ToBalance(i, at[i]) + ToBonus(i) = p
    BY <2>1, <2>2, <2>4, <2>5
  <2> QED BY <2>1, <2>2, <2>5, <2>6 DEF p
<1>4. ASSUME NEW i \in DOMAIN bets
      PROVE  bets'[i] = IF i \in S
                        THEN [bets[i] EXCEPT !.status = "CASHED_OUT",
                                             !.at = at[i],
                                             !.payout = Payout(i, at[i])]
                        ELSE bets[i]
  BY DEF CashOut
<1>5. ASSUME NEW i \in DOMAIN bets
      PROVE  /\ bets'[i] \in Bet
             /\ bets'[i].user = bets[i].user
             /\ bets'[i].round = bets[i].round
             /\ bets'[i].auto = bets[i].auto
             /\ bets'[i].amount = bets[i].amount
             /\ bets'[i].fromBalance = bets[i].fromBalance
             /\ bets'[i].fromBonus = bets[i].fromBonus
             /\ i \in S => /\ bets'[i].status = "CASHED_OUT"
                           /\ bets'[i].at = at[i]
                           /\ bets'[i].payout = Payout(i, at[i])
             /\ i \notin S => bets'[i] = bets[i]
  <2>1. bets[i] \in Bet
    BY <1>1, BetType
  <2>2. CASE i \in S
    <3> DEFINE p == Payout(i, at[i])
    <3>1. p \in Nat /\ at[i] \in Nat
      BY <1>3, <2>2
    <3>2. bets'[i] = [bets[i] EXCEPT !.status = "CASHED_OUT", !.at = at[i],
                                     !.payout = p]
      BY <1>4, <2>2
    <3> HIDE DEF p
    <3>3. /\ bets'[i] \in Bet
          /\ bets'[i].user = bets[i].user
          /\ bets'[i].round = bets[i].round
          /\ bets'[i].auto = bets[i].auto
          /\ bets'[i].amount = bets[i].amount
          /\ bets'[i].fromBalance = bets[i].fromBalance
          /\ bets'[i].fromBonus = bets[i].fromBonus
          /\ bets'[i].status = "CASHED_OUT"
          /\ bets'[i].at = at[i]
          /\ bets'[i].payout = p
      BY <2>1, <3>1, <3>2 DEF Bet
    <3> QED BY <2>2, <3>3 DEF p
  <2>3. CASE i \notin S
    BY <1>4, <2>1, <2>3
  <2> QED BY <2>2, <2>3
<1>6. bets' \in [1 .. Len(bets) -> Bet]
  BY <1>1, <1>5 DEF CashOut
<1>7. bets' \in Seq(Bet) /\ Len(bets') = Len(bets) /\ DOMAIN bets' = DOMAIN bets
  BY <1>1, <1>6, SameLength
<1>8. BetsInv'
  <2>1. ASSUME NEW i \in DOMAIN bets
        PROVE  /\ bets'[i].round \in DOMAIN rounds'
               /\ bets'[i].auto \in {0} \cup AutoTargets
               /\ bets'[i].fromBalance + bets'[i].fromBonus = bets'[i].amount
               /\ bets'[i].status # "CASHED_OUT" => bets'[i].payout = 0
    BY <1>5 DEF IInv, BetsInv, RoundsLast
  <2> QED BY <1>7, <2>1 DEF BetsInv
<1>9. BetsFitTheirRound'
  <2>1. ASSUME NEW i \in DOMAIN bets
        PROVE  /\ bets'[i].status = "CASHED_OUT" =>
                    bets'[i].at < rounds'[bets'[i].round].drawn
               /\ bets'[i].status = "LOST" =>
                    rounds'[bets'[i].round].status = "CRASHED"
    BY <1>5 DEF IInv, BetsInv, BetsFitTheirRound, CashedOutBelowDrawn,
                LostOnlyAfterCrash, RoundsLast
  <2> QED BY <1>7, <2>1 DEF BetsFitTheirRound, CashedOutBelowDrawn,
                            LostOnlyAfterCrash
<1>10. ASSUME NEW u \in Users
       PROVE  users'[u] \in User /\ MoneyOf(bets', users'[u], u)
  <2> DEFINE mine == {i \in S : bets[i].user = u}
             B == [i \in mine |-> ToBalance(i, at[i])]
             N == [i \in mine |-> ToBonus(i)]
             G == [i \in mine |-> Payout(i, at[i])]
             own == Owned(bets, u)
             due == Pending(bets, u)
  <2>1. /\ Owned(bets', u) = own
        /\ mine \subseteq own /\ mine \subseteq due
        /\ Pending(bets', u) = due \ mine
    <3>1. Owned(bets', u) = Owned(bets, u)
      BY <1>5, <1>7 DEF Owned
    <3>2. mine \subseteq Owned(bets, u) /\ mine \subseteq Pending(bets, u)
      BY <1>2 DEF Owned, Pending
    <3>3. \A i \in Owned(bets, u) :
            bets'[i].status = "CASHED_OUT" <=>
              i \in mine \/ bets[i].status = "CASHED_OUT"
      BY <1>5 DEF Owned
    <3> QED BY <3>1, <3>2, <3>3 DEF Pending
  <2>2. /\ \A i \in mine : i \in S /\ i \in DOMAIN bets
        /\ \A i \in own \ mine : i \in DOMAIN bets /\ i \notin S
        /\ own \subseteq DOMAIN bets /\ due \subseteq DOMAIN bets
    BY <1>2 DEF Owned, Pending
  <2>3. /\ IsFiniteSet(own) /\ IsFiniteSet(due) /\ IsFiniteSet(DOMAIN bets)
        /\ IsFiniteSet(mine) /\ IsFiniteSet(own \ mine)
        /\ IsFiniteSet(due \ mine)
    <3>1. IsFiniteSet(own) /\ IsFiniteSet(due) /\ IsFiniteSet(DOMAIN bets)
      BY <1>1, BetSums
    <3> HIDE DEF own, due, mine
    <3> QED BY <2>1, <3>1, FS_Subset
  <2>4. \A i \in mine : B[i] \in Nat /\ N[i] \in Nat /\ G[i] = B[i] + N[i]
    BY <1>3
  <2>5. \A i \in mine : G[i] = Payout(i, at[i]) /\ N[i] = bets[i].fromBonus
    BY DEF ToBonus
  <2>6. users'[u] = [users[u] EXCEPT !.balance = @ + Sum(B, mine),
                                     !.bonus = @ + Sum(N, mine)]
    <3>1. SumFunction(B) = Sum(B, mine) /\ SumFunction(N) = Sum(N, mine)
      BY DEF SumFunction, Sum
    <3> QED BY <3>1 DEF CashOut
  <2> HIDE DEF mine, B, N, G, own, due
  <2>7. \A i \in mine : /\ Profits(bets')[i] = Profits(bets)[i] + G[i]
                        /\ N[i] = Tied(bets)[i]
    <3>1. ASSUME NEW i \in mine
          PROVE  /\ Profits(bets')[i] = Profits(bets)[i] + G[i]
                 /\ N[i] = Tied(bets)[i]
      <4>1. i \in DOMAIN bets /\ i \in S /\ bets[i].payout = 0
        BY <1>2, <2>2
      <4>2. /\ bets'[i].payout = Payout(i, at[i])
            /\ bets'[i].amount = bets[i].amount
            /\ bets[i].amount \in Nat /\ Payout(i, at[i]) \in Nat
        BY <1>1, <1>3, <1>5, <4>1, BetType
      <4>3. /\ Profits(bets')[i] = Payout(i, at[i]) - bets[i].amount
            /\ Profits(bets)[i] = 0 - bets[i].amount
            /\ Tied(bets)[i] = bets[i].fromBonus
        BY <1>7, <4>1, <4>2 DEF Profits, Tied
      <4>4. G[i] = Payout(i, at[i]) /\ N[i] = bets[i].fromBonus
        BY <2>5
      <4> QED BY <4>2, <4>3, <4>4
    <3> QED BY <3>1
  <2>8. /\ \A i \in own \ mine : Profits(bets')[i] = Profits(bets)[i]
        /\ \A i \in due \ mine : Tied(bets')[i] = Tied(bets)[i]
    BY <1>5, <1>7, <2>2 DEF Profits, Tied
  <2>9. /\ IsIntOn(Profits(bets), own) /\ IsIntOn(Profits(bets'), own)
        /\ IsIntOn(Tied(bets), due)
    BY <1>1, <1>7, <2>2, BetSums DEF IsIntOn
  <2>10. /\ IsIntOn(Profits(bets), mine) /\ IsIntOn(Profits(bets), own \ mine)
         /\ IsIntOn(Tied(bets), mine) /\ IsIntOn(Tied(bets), due \ mine)
         /\ IsIntOn(B, mine) /\ IsIntOn(N, mine) /\ IsIntOn(G, mine)
    BY <2>1, <2>4, <2>9 DEF IsIntOn
  <2>11. /\ Sum(Profits(bets), own)
              = Sum(Profits(bets), mine) + Sum(Profits(bets), own \ mine)
         /\ Sum(Profits(bets'), own)
              = Sum(Profits(bets'), mine) + Sum(Profits(bets'), own \ mine)
         /\ Sum(Profits(bets), mine) \in Int
         /\ Sum(Profits(bets), own \ mine) \in Int
    BY <2>1, <2>3, <2>9, SumSplit
  <2>12. /\ Sum(Profits(bets'), own \ mine) = Sum(Profits(bets), own \ mine)
         /\ Sum(Profits(bets'), mine) = Sum(Profits(bets), mine) + Sum(G, mine)
         /\ Sum(G, mine) = Sum(B, mine) + Sum(N, mine)
    <3>1. Sum(Profits(bets'), own \ mine) = Sum(Profits(bets), own \ mine)
      BY <2>3, <2>8, <2>10, SumCongruence
    <3>2. Sum(Profits(bets'), mine) = Sum(Profits(bets), mine) + Sum(G, mine)
      BY <2>3, <2>7, <2>10, SumPlus
    <3>3. Sum(G, mine) = Sum(B, mine) + Sum(N, mine)
      BY <2>3, <2>4, <2>10, SumPlus
    <3> QED BY <3>1, <3>2, <3>3
  <2>13. /\ Sum(Tied(bets), due)
              = Sum(N, mine) + Sum(Tied(bets), due \ mine)
         /\ Sum(Tied(bets'), Pending(bets', u)) = Sum(Tied(bets), due \ mine)
         /\ Sum(Tied(bets), due \ mine) \in Int
    <3>1. /\ Sum(Tied(bets), due)
               = Sum(Tied(bets), mine) + Sum(Tied(bets), due \ mine)
          /\ Sum(Tied(bets), due \ mine) \in Int
      BY <2>1, <2>3, <2>9, SumSplit
    <3>2. Sum(N, mine) = Sum(Tied(bets), mine)
      BY <2>3, <2>7, <2>10, SumCongruence
    <3>3. Sum(Tied(bets'), due \ mine) = Sum(Tied(bets), due \ mine)
      BY <2>3, <2>8, <2>10, SumCongruence
    <3> QED BY <2>1, <3>1, <3>2, <3>3
  <2> DEFINE b == Sum(B, mine)
             n == Sum(N, mine)
  <2>14. b \in Nat /\ n \in Nat
    BY <2>3, <2>4, SumNat
  <2>15. users[u] \in User /\ MoneyOf(bets, users[u], u)
    BY <1>1, MoneyByUser DEF IInv
  <2>16. users'[u] = [users[u] EXCEPT !.balance = @ + b, !.bonus = @ + n]
    BY <2>6
  <2> HIDE DEF b, n
  <2>17. /\ users[u].balance \in Nat /\ users[u].bonus \in Nat
         /\ users'[u] \in User
         /\ users'[u].balance = users[u].balance + b
         /\ users'[u].bonus = users[u].bonus + n
    <3> DEFINE x == users[u].balance + b
               y == users[u].bonus + n
    <3>1. users[u].balance \in Nat /\ users[u].bonus \in Nat
      BY <2>15, UserType
    <3>2. x \in Nat /\ y \in Nat
      BY <2>14, <3>1
    <3>3. users'[u] = [users[u] EXCEPT !.balance = x, !.bonus = y]
      BY <2>16
    <3> HIDE DEF x, y
    <3>4. users'[u] \in User /\ users'[u].balance = x /\ users'[u].bonus = y
      <4> DEFINE w == users[u]
                 v == users'[u]
      <4>1. w \in User /\ v = [w EXCEPT !.balance = x, !.bonus = y]
        BY <2>15, <3>3
      <4> HIDE DEF v, w
      <4> QED BY <3>2, <4>1 DEF User, v
    <3> QED BY <3>1, <3>4 DEF x, y
  <2>18. Opening[u].balance \in Nat /\ Opening[u].bonus \in Nat
    BY CrashRoundsAssumption
  <2>19. /\ users[u].balance + users[u].bonus
              = Opening[u].balance + Opening[u].bonus + Sum(Profits(bets), own)
         /\ users[u].bonus + Sum(Tied(bets), due) = Opening[u].bonus
    BY <2>15 DEF MoneyOf, own, due
  <2>20. /\ Sum(Profits(bets'), Owned(bets', u))
              = Sum(Profits(bets), own) + b + n
         /\ Sum(Tied(bets), due)
              = n + Sum(Tied(bets'), Pending(bets', u))
         /\ Sum(Profits(bets), own) \in Int
         /\ Sum(Tied(bets'), Pending(bets', u)) \in Int
    <3>1. /\ Sum(Profits(bets'), Owned(bets', u))
               = (Sum(Profits(bets), mine) + (b + n))
                   + Sum(Profits(bets), own \ mine)
      BY <2>1, <2>11, <2>12 DEF b, n
    <3> QED BY <2>11, <2>13, <2>14, <3>1 DEF n
  <2>21. MoneyOf(bets', users'[u], u)
    BY <2>14, <2>17, <2>18, <2>19, <2>20 DEF MoneyOf
  <2> QED BY <2>17, <2>21
<1>11. users' \in [Users -> User]
  BY <1>1, <1>10 DEF CashOut
<1>12. MoneyAgreesWithBets'
  BY <1>7, <1>10, MoneyByUser
<1> QED BY <1>1, <1>7, <1>8, <1>9, <1>11, <1>12 DEF MoneyKept

\* The sums of u's bets in c are those in b, or have the bet x more.
SumsKept(b, c, u) ==
  /\ Sum(Profits(c), Owned(c, u)) = Sum(Profits(b), Owned(b, u))
  /\ Sum(Tied(c), Pending(c, u)) = Sum(Tied(b), Pending(b, u))
SumsMoved(b, c, u, x) ==
  /\ Sum(Profits(c), Owned(c, u)) = Sum(Profits(b), Owned(b, u)) - x.amount
  /\ Sum(Tied(c), Pending(c, u)) = Sum(Tied(b), Pending(b, u)) + x.fromBonus

\* A new bet adds its stake to what its player has at stake, and nothing to
\* anybody else's.
LEMMA AppendedSums ==
  ASSUME NEW b \in Seq(Bet), NEW x \in Bet, x.status = "ACTIVE", x.payout = 0,
         NEW u, NEW c, c = Append(b, x)
  PROVE  /\ u = x.user => SumsMoved(b, c, u, x)
         /\ u # x.user => SumsKept(b, c, u)
<1> DEFINE l == Len(b) + 1
<1>1. /\ c \in Seq(Bet) /\ Len(b) \in Nat /\ DOMAIN b = 1 .. Len(b)
      /\ DOMAIN c = DOMAIN b \cup {l} /\ l \notin DOMAIN b
      /\ c[l] = x /\ \A i \in DOMAIN b : c[i] = b[i]
  <2>1. /\ c \in Seq(Bet) /\ Len(c) = Len(b) + 1 /\ Len(b) \in Nat
        /\ c[Len(b) + 1] = x /\ \A i \in 1 .. Len(b) : c[i] = b[i]
    BY AppendProperties, LenProperties
  <2>2. DOMAIN b = 1 .. Len(b) /\ DOMAIN c = 1 .. Len(b) + 1
    BY <2>1, LenProperties
  <2> QED BY <2>1, <2>2
<1> HIDE DEF l
<1>2. x.amount \in Nat /\ x.fromBonus \in Nat
  BY DEF Bet
<1>3. /\ Profits(c)[l] = 0 - x.amount /\ Tied(c)[l] = x.fromBonus
      /\ \A i \in DOMAIN b : /\ Profits(c)[i] = Profits(b)[i]
                             /\ Tied(c)[i] = Tied(b)[i]
  BY <1>1 DEF Profits, Tied
<1>4. /\ IsFiniteSet(Owned(b, u)) /\ IsFiniteSet(Pending(b, u))
      /\ l \notin Owned(b, u) /\ l \notin Pending(b, u)
      /\ Owned(b, u) \subseteq DOMAIN b /\ Pending(b, u) \subseteq DOMAIN b
      /\ IsIntOn(Profits(b), Owned(b, u)) /\ IsIntOn(Tied(b), Pending(b, u))
      /\ IsIntOn(Profits(c), Owned(b, u) \cup {l})
      /\ IsIntOn(Tied(c), Pending(b, u) \cup {l})
      /\ IsIntOn(Profits(c), Owned(b, u)) /\ IsIntOn(Tied(c), Pending(b, u))
  <2>1. /\ Owned(b, u) \subseteq DOMAIN b /\ Pending(b, u) \subseteq DOMAIN b
        /\ \A i \in DOMAIN c : Profits(c)[i] \in Int /\ Tied(c)[i] \in Int
        /\ \A i \in DOMAIN b : Profits(b)[i] \in Int /\ Tied(b)[i] \in Int
    BY <1>1, BetSums
  <2>2. IsFiniteSet(Owned(b, u)) /\ IsFiniteSet(Pending(b, u))
    BY BetSums
  <2> QED BY <1>1, <2>1, <2>2 DEF IsIntOn
<1>5. /\ Sum(Profits(c), Owned(b, u)) = Sum(Profits(b), Owned(b, u))
      /\ Sum(Tied(c), Pending(b, u)) = Sum(Tied(b), Pending(b, u))
  BY <1>3, <1>4, SumCongruence
<1>6. CASE u = x.user
  <2>1. Owned(c, u) = Owned(b, u) \cup {l}
    BY <1>1, <1>6 DEF Owned
  <2>2. Pending(c, u) = Pending(b, u) \cup {l}
    BY <1>1, <2>1, <1>4 DEF Pending
  <2>3. /\ Sum(Profits(c), Owned(c, u))
             = Sum(Profits(b), Owned(b, u)) + (0 - x.amount)
        /\ Sum(Tied(c), Pending(c, u))
             = Sum(Tied(b), Pending(b, u)) + x.fromBonus
    <3> DEFINE O == Owned(b, u)
               P == Pending(b, u)
    <3>1. /\ IsFiniteSet(O) /\ l \notin O /\ IsIntOn(Profits(c), O \cup {l})
          /\ IsFiniteSet(P) /\ l \notin P /\ IsIntOn(Tied(c), P \cup {l})
      BY <1>4
    <3>2. Sum(Profits(c), Owned(c, u)) = Sum(Profits(c), O \cup {l})
      BY <2>1
    <3>3. Sum(Tied(c), Pending(c, u)) = Sum(Tied(c), P \cup {l})
      BY <2>2
    <3> HIDE DEF O, P
    <3>4. Sum(Profits(c), O \cup {l}) = Sum(Profits(c), O) + Profits(c)[l]
      BY <3>1, SumAdd
    <3>5. Sum(Tied(c), P \cup {l}) = Sum(Tied(c), P) + Tied(c)[l]
      BY <3>1, SumAdd
    <3> QED BY <1>3, <1>5, <3>2, <3>3, <3>4, <3>5 DEF O, P
  <2>4. Sum(Profits(b), Owned(b, u)) \in Int
    BY BetSums
  <2> QED BY <1>2, <1>6, <2>3, <2>4 DEF SumsMoved
<1>7. CASE u # x.user
  <2>1. Owned(c, u) = Owned(b, u)
    BY <1>1, <1>7 DEF Owned
  <2>2. Pending(c, u) = Pending(b, u)
    BY <1>1, <2>1, <1>4 DEF Pending
  <2> QED BY <1>5, <1>7, <2>1, <2>2 DEF SumsKept
<1> QED BY <1>6, <1>7

\* Taking an acceptable bet charges its stake once, and nobody is charged more
\* than he has.
LEMMA TakingKeeps ==
  ASSUME IInv, RoundsLast, NEW k \in Call, k.auto \in {0} \cup AutoTargets,
         NEW n \in 1 .. MaxRounds, n \in DOMAIN rounds',
         Acceptable(k, n), TakeBet(k, n)
  PROVE  MoneyKept
<1> DEFINE p == k.user
           u == users[p]
           fromBalance == Min({u.balance, k.amount})
           fromBonus == k.amount - fromBalance
           x == u.balance - fromBalance
           y == u.bonus - fromBonus
           z == Min({u.required, u.progress + k.amount})
           b == [user |-> p, round |-> n, slot |-> k.slot,
                 amount |-> k.amount, fromBalance |-> fromBalance,
                 fromBonus |-> fromBonus, auto |-> k.auto,
                 status |-> "ACTIVE", at |-> 0, payout |-> 0]
<1>1. /\ bets \in Seq(Bet) /\ users \in [Users -> User] /\ Len(bets) \in Nat
      /\ DOMAIN bets = 1 .. Len(bets)
  BY LenProperties DEF IInv, TypeOK
<1>2. /\ p \in Users /\ k.slot \in Slots /\ k.amount \in Nat /\ k.auto \in Nat
  BY DEF Call
<1>3. /\ u \in User /\ u.balance \in Nat /\ u.bonus \in Nat
      /\ u.required \in Nat /\ u.progress \in Nat
  BY <1>1, <1>2, UserType
<1>4. u.balance + u.bonus >= k.amount
  BY DEF Acceptable
<1>5. /\ fromBalance \in Nat /\ fromBalance <= u.balance
      /\ fromBalance <= k.amount
      /\ fromBalance = u.balance \/ fromBalance = k.amount
  BY <1>2, <1>3, MinMaxOfTwo
<1>6. z \in Nat
  BY <1>2, <1>3, MinMaxOfTwo
<1>7. /\ users' = [users EXCEPT ![p] = [u EXCEPT !.balance = x, !.bonus = y,
                                                 !.progress = z]]
      /\ bets' = Append(bets, b)
  BY DEF TakeBet
<1> HIDE DEF fromBalance, z, u
<1>8. /\ fromBonus \in Nat /\ x \in Nat /\ y \in Nat
      /\ fromBalance + fromBonus = k.amount
      /\ x = u.balance - fromBalance /\ y = u.bonus - fromBonus
  BY <1>2, <1>3, <1>4, <1>5
<1> HIDE DEF fromBonus, x, y
<1>9. /\ b \in Bet /\ b.user = p /\ b.round = n /\ b.auto = k.auto
      /\ b.amount = k.amount /\ b.fromBalance = fromBalance
      /\ b.fromBonus = fromBonus /\ b.status = "ACTIVE" /\ b.payout = 0
  BY <1>2, <1>5, <1>8 DEF Bet
<1> HIDE DEF b, p
<1>10. /\ bets' \in Seq(Bet) /\ Len(bets') = Len(bets) + 1
       /\ DOMAIN bets' = 1 .. Len(bets) + 1
       /\ bets'[Len(bets) + 1] = b
       /\ \A i \in DOMAIN bets : bets'[i] = bets[i]
  <2>1. /\ bets' \in Seq(Bet) /\ Len(bets') = Len(bets) + 1
        /\ bets'[Len(bets) + 1] = b
        /\ \A i \in 1 .. Len(bets) : bets'[i] = bets[i]
    BY <1>1, <1>7, <1>9, AppendProperties
  <2> QED BY <1>1, <2>1, LenProperties
<1>11. /\ users'[p] \in User /\ users'[p].balance = x /\ users'[p].bonus = y
       /\ \A v \in Users \ {p} : users'[v] = users[v]
       /\ users' \in [Users -> User]
  <2> DEFINE w == [u EXCEPT !.balance = x, !.bonus = y, !.progress = z]
  <2>2. w \in User /\ w.balance = x /\ w.bonus = y
    <3>1. u \in User /\ x \in Nat /\ y \in Nat /\ z \in Nat
      BY <1>3, <1>6, <1>8
    <3>2. w = [u EXCEPT !.balance = x, !.bonus = y, !.progress = z]
      OBVIOUS
    <3> HIDE DEF w
    <3> QED BY <3>1, <3>2 DEF User
  <2>3. users' = [users EXCEPT ![p] = w]
    BY <1>7
  <2> HIDE DEF w
  <2> QED BY <1>1, <1>2, <2>2, <2>3 DEF p
<1>12. BetsInv'
  <2>1. ASSUME NEW i \in DOMAIN bets'
        PROVE  /\ bets'[i].round \in DOMAIN rounds'
               /\ bets'[i].auto \in {0} \cup AutoTargets
               /\ bets'[i].fromBalance + bets'[i].fromBonus = bets'[i].amount
               /\ bets'[i].status # "CASHED_OUT" => bets'[i].payout = 0
    <3>1. CASE i = Len(bets) + 1
      BY <1>8, <1>9, <1>10, <3>1
    <3>2. CASE i # Len(bets) + 1
      <4>1. i \in DOMAIN bets /\ bets'[i] = bets[i]
        BY <1>1, <1>10, <3>2
      <4> QED BY <4>1 DEF IInv, BetsInv, RoundsLast
    <3> QED BY <3>1, <3>2
  <2> QED BY <2>1 DEF BetsInv
<1>13. BetsFitTheirRound'
  <2>1. ASSUME NEW i \in DOMAIN bets'
        PROVE  /\ bets'[i].status = "CASHED_OUT" =>
                    bets'[i].at < rounds'[bets'[i].round].drawn
               /\ bets'[i].status = "LOST" =>
                    rounds'[bets'[i].round].status = "CRASHED"
    <3>1. CASE i = Len(bets) + 1
      BY <1>9, <1>10, <3>1
    <3>2. CASE i # Len(bets) + 1
      <4>1. i \in DOMAIN bets /\ bets'[i] = bets[i]
        BY <1>1, <1>10, <3>2
      <4> QED BY <4>1 DEF IInv, BetsInv, BetsFitTheirRound,
                          CashedOutBelowDrawn, LostOnlyAfterCrash, RoundsLast
    <3> QED BY <3>1, <3>2
  <2> QED BY <2>1 DEF BetsFitTheirRound, CashedOutBelowDrawn,
                      LostOnlyAfterCrash
<1>14. ASSUME NEW v \in Users
       PROVE  MoneyOf(bets', users'[v], v)
  <2>1. MoneyOf(bets, users[v], v)
    BY <1>1, MoneyByUser DEF IInv
  <2>2. CASE v # p
    <3>1. /\ Sum(Profits(bets'), Owned(bets', v))
               = Sum(Profits(bets), Owned(bets, v))
          /\ Sum(Tied(bets'), Pending(bets', v))
               = Sum(Tied(bets), Pending(bets, v))
      <4>1. /\ bets \in Seq(Bet) /\ b \in Bet /\ b.status = "ACTIVE"
            /\ b.payout = 0 /\ bets' = Append(bets, b) /\ v # b.user
        BY <1>1, <1>7, <1>9, <2>2
      <4>2. SumsKept(bets, bets', v)
        BY <4>1, AppendedSums
      <4> QED BY <4>2 DEF SumsKept
    <3> QED BY <1>11, <2>1, <2>2, <3>1 DEF MoneyOf
  <2>3. CASE v = p
    <3>1. /\ Sum(Profits(bets'), Owned(bets', p))
               = Sum(Profits(bets), Owned(bets, p)) - k.amount
          /\ Sum(Tied(bets'), Pending(bets', p))
               = Sum(Tied(bets), Pending(bets, p)) + fromBonus
      <4>1. /\ bets \in Seq(Bet) /\ b \in Bet /\ b.status = "ACTIVE"
            /\ b.payout = 0 /\ bets' = Append(bets, b) /\ p = b.user
        BY <1>1, <1>7, <1>9
      <4>2. /\ Sum(Profits(bets'), Owned(bets', p))
                 = Sum(Profits(bets), Owned(bets, p)) - b.amount
            /\ Sum(Tied(bets'), Pending(bets', p))
                 = Sum(Tied(bets), Pending(bets, p)) + b.fromBonus
        <5>1. SumsMoved(bets, bets', p, b)
          BY <4>1, AppendedSums
        <5> QED BY <5>1 DEF SumsMoved
      <4> QED BY <1>9, <4>2
    <3>2. /\ Sum(Profits(bets), Owned(bets, p)) \in Int
          /\ Sum(Tied(bets), Pending(bets, p)) \in Int
      BY <1>1, BetSums
    <3>3. Opening[p].balance \in Nat /\ Opening[p].bonus \in Nat
      BY <2>3, CrashRoundsAssumption
    <3>4. /\ u.balance + u.bonus
               = Opening[p].balance + Opening[p].bonus
                   + Sum(Profits(bets), Owned(bets, p))
          /\ u.bonus + Sum(Tied(bets), Pending(bets, p)) = Opening[p].bonus
      BY <2>1, <2>3 DEF MoneyOf, u
    <3>5. /\ x + y = Opening[p].balance + Opening[p].bonus
                       + (Sum(Profits(bets), Owned(bets, p)) - k.amount)
          /\ y + (Sum(Tied(bets), Pending(bets, p)) + fromBonus)
               = Opening[p].bonus
      <4>1. PICK B \in Nat, W \in Nat, OB \in Nat, OW \in Nat,
                 pr \in Int, ti \in Int, m \in Nat :
              /\ B = u.balance /\ W = u.bonus /\ m = k.amount
              /\ OB = Opening[p].balance /\ OW = Opening[p].bonus
              /\ pr = Sum(Profits(bets), Owned(bets, p))
              /\ ti = Sum(Tied(bets), Pending(bets, p))
        BY <1>2, <1>3, <3>2, <3>3
      <4>2. B + W = OB + OW + pr /\ W + ti = OW
        BY <3>4, <4>1
      <4>3. /\ fromBalance + fromBonus = m /\ x = B - fromBalance
            /\ y = W - fromBonus
        BY <1>8, <4>1
      <4>4. x + y = OB + OW + (pr - m) /\ y + (ti + fromBonus) = OW
        BY <1>5, <1>8, <4>2, <4>3
      <4> QED BY <4>1, <4>4
    <3> QED BY <1>11, <2>3, <3>1, <3>5 DEF MoneyOf
  <2> QED BY <2>2, <2>3
<1>15. MoneyAgreesWithBets'
  BY <1>10, <1>14, MoneyByUser
<1> QED BY <1>1, <1>10, <1>11, <1>12, <1>13, <1>15 DEF MoneyKept

\* Whatever a step does, it makes or loses no money, and what the bets say
\* fits their rounds.
LEMMA NextMoneyKept ==
  ASSUME IInv, Next
  PROVE  MoneyKept
<1>1. /\ MoneyStep /\ RoundsLast
      /\ rounds' \in Seq(Round) /\ Len(rounds') <= MaxRounds
  BY NextMoney, NextRounds, RoundsKept DEF IInv
<1>2. \A n \in DOMAIN rounds' : n \in 1 .. MaxRounds
  BY <1>1, LenProperties, CrashRoundsAssumption
<1>3. CASE UNCHANGED <<bets, users>>
  BY <1>1, <1>3, NothingPaid
<1>4. ASSUME NEW n \in DOMAIN rounds, rounds'[n].status = "CRASHED",
             bets' = LostWith(n), UNCHANGED users
      PROVE  MoneyKept
  BY <1>1, <1>4, LosingKeeps
<1>5. ASSUME NEW S \in SUBSET Active, NEW at,
             \A i \in S : /\ at[i] \in Nat /\ at[i] >= 100
                          /\ at[i] < rounds[bets[i].round].drawn,
             CashOut(S, at)
      PROVE  MoneyKept
  BY <1>1, <1>5, CashingOutKeeps
<1>6. ASSUME NEW k \in Call, NEW n \in DOMAIN rounds',
             k.auto \in {0} \cup AutoTargets, Acceptable(k, n), TakeBet(k, n)
      PROVE  MoneyKept
  BY <1>1, <1>2, <1>6, TakingKeeps
<1> QED BY <1>1, <1>3, <1>4, <1>5, <1>6 DEF MoneyStep

-----------------------------------------------------------------------------
(* Processes.                                                              *)

Labels == {"idle", "start", "crash", "lose", "write", "create", "insert",
           "settle", "closed"}

\* What a step must keep of the processes.
ControlKept ==
  /\ maxMult' \in MaxMultipliers
  /\ pc' \in [Pollers \cup Calls -> Labels]
  /\ seen' \in [Pollers -> 0 .. MaxRounds]
  /\ call' \in [Calls -> Call]
  /\ ReadInv'

\* The rows that were there are still there.
RowsStay ==
  /\ RoundsLast /\ rounds' \in Seq(Round)
  /\ \A i \in DOMAIN bets : i \in DOMAIN bets'

\* The types of what the processes keep.
LEMMA ControlType ==
  ASSUME IInv
  PROVE  /\ maxMult \in MaxMultipliers
         /\ pc \in [Pollers \cup Calls -> Labels]
         /\ seen \in [Pollers -> 0 .. MaxRounds]
         /\ call \in [Calls -> Call]
         /\ ReadInv
BY DEF IInv, TypeOK, Labels

\* What a poll has read stays good while the poll stays where it is.
LEMMA WaitsOn ==
  ASSUME IInv, RowsStay, NEW q \in Pollers,
         pc'[q] = pc[q], seen'[q] = seen[q]
  PROVE  /\ pc'[q] \in {"start", "crash", "lose"} =>
              seen'[q] \in DOMAIN rounds'
         /\ pc'[q] = "start" /\ rounds'[seen'[q]].status = "WAITING" =>
              rounds'[seen'[q]].age >= BettingTime
         /\ pc'[q] = "lose" => rounds'[seen'[q]].status = "CRASHED"
<1>1. ReadInv /\ RoundsLast
  BY DEF IInv, RowsStay
<1>2. /\ pc'[q] \in {"start", "crash", "lose"} =>
           seen'[q] \in DOMAIN rounds'
      /\ pc'[q] = "lose" => rounds'[seen'[q]].status = "CRASHED"
  BY <1>1 DEF ReadInv, RoundsLast
<1>3. ASSUME pc'[q] = "start", rounds'[seen'[q]].status = "WAITING"
      PROVE  rounds'[seen'[q]].age >= BettingTime
  <2> DEFINE n == seen[q]
  <2>1. n \in DOMAIN rounds
    BY <1>1, <1>3 DEF ReadInv
  <2>2. rounds[n].status = "WAITING" /\ rounds[n].age <= rounds'[n].age
    BY <1>1, <1>3, <2>1 DEF RoundsLast
  <2>3. rounds[n].age >= BettingTime
    BY <1>1, <1>3, <2>2 DEF ReadInv
  <2>4. /\ rounds[n].age \in Nat /\ rounds'[n].age \in Nat
        /\ BettingTime \in Nat
    <3>1. rounds[n].age \in Nat
      BY <2>1, RoundType DEF IInv
    <3>2. BettingTime \in Nat
      BY CrashRoundsAssumption
    <3>3. rounds'[n] \in Round
      BY <1>1, <2>1, LenProperties DEF RoundsLast, RowsStay
    <3> QED BY <3>1, <3>2, <3>3 DEF Round
  <2> QED BY <2>2, <2>3, <2>4
<1> QED BY <1>2, <1>3

\* A poll goes on with a round that is there, or forgets it.
LEMMA PollGoesOn ==
  ASSUME IInv, RowsStay, NEW p \in Pollers, NEW step \in Labels,
         NEW n \in 0 .. MaxRounds, Continue(p, step, n),
         step \in {"start", "crash", "lose"} => n \in DOMAIN rounds,
         step = "lose" => rounds'[n].status = "CRASHED",
         step = "start" => rounds' = rounds /\ BettingOver(n),
         UNCHANGED <<maxMult, call>>
  PROVE  ControlKept
<1>1. /\ maxMult \in MaxMultipliers
      /\ pc \in [Pollers \cup Calls -> Labels]
      /\ seen \in [Pollers -> 0 .. MaxRounds]
      /\ call \in [Calls -> Call]
      /\ ReadInv
  BY ControlType
<1>2. /\ pc' = [pc EXCEPT ![p] = step]
      /\ seen' = [seen EXCEPT ![p] = IF step = "idle" THEN 0 ELSE n]
  BY DEF Continue, Goto
<1>3. pc' \in [Pollers \cup Calls -> Labels]
  BY <1>1, <1>2
<1>4. (IF step = "idle" THEN 0 ELSE n) \in 0 .. MaxRounds
  BY CrashRoundsAssumption
<1>5. seen' \in [Pollers -> 0 .. MaxRounds]
  BY <1>1, <1>2, <1>4
<1>6. ASSUME NEW q \in Pollers
      PROVE  /\ pc'[q] \in {"start", "crash", "lose"} =>
                  seen'[q] \in DOMAIN rounds'
             /\ pc'[q] = "start" /\ rounds'[seen'[q]].status = "WAITING" =>
                  rounds'[seen'[q]].age >= BettingTime
             /\ pc'[q] = "lose" => rounds'[seen'[q]].status = "CRASHED"
  <2>1. CASE q = p
    <3>1. pc'[q] = step /\ (step # "idle" => seen'[q] = n)
      BY <1>1, <1>2, <2>1
    <3> QED BY <3>1 DEF RowsStay, RoundsLast, BettingOver
  <2>2. CASE q # p
    <3>1. pc'[q] = pc[q] /\ seen'[q] = seen[q]
      BY <1>1, <1>2, <2>2
    <3> QED BY <3>1, WaitsOn
  <2> QED BY <2>1, <2>2
<1>7. ASSUME NEW c \in Calls
      PROVE  /\ pc'[c] = "insert" => call'[c].row \in DOMAIN rounds'
             /\ pc'[c] = "settle" => call'[c].row \in DOMAIN bets'
             /\ call'[c].auto \in {0} \cup AutoTargets
  <2>1. pc'[c] = pc[c] /\ call'[c] = call[c]
    BY <1>1, <1>2, CrashRoundsAssumption
  <2> QED BY <1>1, <2>1 DEF ReadInv, RowsStay, RoundsLast
<1>8. ReadInv'
  BY <1>6, <1>7 DEF ReadInv
<1> QED BY <1>1, <1>3, <1>5, <1>8 DEF ControlKept

\* A call goes on with arguments that are in order, and with a row that is
\* there.
LEMMA CallGoesOn ==
  ASSUME IInv, RowsStay, NEW c \in Calls, NEW step \in Labels, NEW k \in Call,
         k.auto \in {0} \cup AutoTargets,
         step = "insert" => k.row \in DOMAIN rounds,
         step = "settle" => k.row \in DOMAIN bets,
         pc' = [pc EXCEPT ![c] = step], call' = [call EXCEPT ![c] = k],
         UNCHANGED <<maxMult, seen>>
  PROVE  ControlKept
<1>1. /\ maxMult \in MaxMultipliers
      /\ pc \in [Pollers \cup Calls -> Labels]
      /\ seen \in [Pollers -> 0 .. MaxRounds]
      /\ call \in [Calls -> Call]
      /\ ReadInv
  BY ControlType
<1>2. /\ pc' \in [Pollers \cup Calls -> Labels]
      /\ call' \in [Calls -> Call]
  BY <1>1
<1>3. ASSUME NEW q \in Pollers
      PROVE  /\ pc'[q] \in {"start", "crash", "lose"} =>
                  seen'[q] \in DOMAIN rounds'
             /\ pc'[q] = "start" /\ rounds'[seen'[q]].status = "WAITING" =>
                  rounds'[seen'[q]].age >= BettingTime
             /\ pc'[q] = "lose" => rounds'[seen'[q]].status = "CRASHED"
  <2>1. pc'[q] = pc[q] /\ seen'[q] = seen[q]
    BY <1>1, CrashRoundsAssumption
  <2> QED BY <2>1, WaitsOn
<1>4. ASSUME NEW d \in Calls
      PROVE  /\ pc'[d] = "insert" => call'[d].row \in DOMAIN rounds'
             /\ pc'[d] = "settle" => call'[d].row \in DOMAIN bets'
             /\ call'[d].auto \in {0} \cup AutoTargets
  <2>1. CASE d = c
    <3>1. pc'[d] = step /\ call'[d] = k
      BY <1>1, <2>1
    <3> QED BY <3>1 DEF RowsStay, RoundsLast
  <2>2. CASE d # c
    <3>1. pc'[d] = pc[d] /\ call'[d] = call[d]
      BY <1>1, <2>2
    <3> QED BY <1>1, <3>1 DEF ReadInv, RowsStay, RoundsLast
  <2> QED BY <2>1, <2>2
<1>5. ReadInv'
  BY <1>3, <1>4 DEF ReadInv
<1> QED BY <1>1, <1>2, <1>5 DEF ControlKept

\* The processes stay where they are.
LEMMA NobodyMoves ==
  ASSUME IInv, RowsStay, maxMult' \in MaxMultipliers,
         UNCHANGED <<pc, seen, call>>
  PROVE  ControlKept
<1>1. /\ pc \in [Pollers \cup Calls -> Labels]
      /\ seen \in [Pollers -> 0 .. MaxRounds]
      /\ call \in [Calls -> Call]
      /\ ReadInv
  BY ControlType
<1>2. ReadInv'
  BY <1>1, WaitsOn DEF ReadInv, RowsStay, RoundsLast
<1> QED BY <1>1, <1>2 DEF ControlKept

\* The arguments of no call have the type of a call.
LEMMA NoCallType == NoCall \in Call /\ NoCall.auto = 0
<1>1. (CHOOSE u \in Users : TRUE) \in Users
  BY CrashRoundsAssumption
<1>2. (CHOOSE s \in Slots : TRUE) \in Slots
  BY CrashRoundsAssumption
<1> QED BY <1>1, <1>2 DEF NoCall, Call

\* Every step leaves the processes with rows that are there (what a poll or a
\* call has read is never deleted, and a crashed round stays crashed).
LEMMA NextControl ==
  ASSUME IInv, Next
  PROVE  ControlKept
<1>1. /\ TypeOK /\ RoundsInv /\ RoundsLast /\ MoneyKept
      /\ rounds' \in Seq(Round)
  BY NextRounds, RoundsKept, NextMoneyKept DEF IInv
<1>2. RowsStay
  <2>1. bets \in Seq(Bet) /\ bets' \in Seq(Bet) /\ Len(bets) <= Len(bets')
    BY <1>1 DEF TypeOK, MoneyKept
  <2>2. \A i \in DOMAIN bets : i \in DOMAIN bets'
    BY <2>1, LenProperties
  <2> QED BY <1>1, <2>2 DEF RowsStay
<1>3. /\ maxMult \in MaxMultipliers
      /\ pc \in [Pollers \cup Calls -> Labels]
      /\ seen \in [Pollers -> 0 .. MaxRounds]
      /\ call \in [Calls -> Call]
      /\ ReadInv
  BY ControlType
<1>4. /\ OpenRound # 0 => OpenRound \in DOMAIN rounds
      /\ OpenRound \in Nat /\ OpenRound \in 0 .. MaxRounds
  <2>1. /\ DOMAIN rounds = 1 .. Len(rounds) /\ Len(rounds) \in Nat
        /\ Len(rounds) <= MaxRounds
    BY <1>1, LenProperties DEF TypeOK
  <2> QED BY <1>1, <2>1, OpenRoundIsLast, CrashRoundsAssumption
<1>5. 0 \in 0 .. MaxRounds
  BY CrashRoundsAssumption
<1>6. ASSUME NEW p \in Pollers, PollStep(p) \/ Die(p)
      PROVE  ControlKept
  <2>1. /\ seen[p] \in 0 .. MaxRounds
        /\ pc[p] \in {"start", "crash", "lose"} => seen[p] \in DOMAIN rounds
    BY <1>3 DEF ReadInv
  <2>2. ASSUME NEW step \in {"idle", "write", "create"}, Continue(p, step, 0),
               UNCHANGED <<maxMult, call>>
        PROVE  ControlKept
    BY <1>2, <1>5, <2>2, PollGoesOn DEF Labels
  <2>3. CASE Poll(p)
    <3>1. CASE OpenRound = 0
      BY <2>2, <2>3, <3>1 DEF Poll
    <3>2. CASE OpenRound # 0
      <4>1. PICK step \in {"start", "crash"} :
              /\ Continue(p, step, OpenRound)
              /\ step = "start" => BettingOver(OpenRound)
        BY <2>3, <3>2 DEF Poll
      <4>2. /\ step \in Labels /\ step # "lose"
            /\ UNCHANGED <<rounds, maxMult, call>>
        BY <2>3 DEF Labels, Poll
      <4> QED BY <1>2, <1>4, <3>2, <4>1, <4>2, PollGoesOn
    <3> QED BY <3>1, <3>2
  <2>4. CASE PollStart(p)
    <3>1. PICK step \in {"idle", "crash"} : Continue(p, step, seen[p])
      BY <2>4 DEF PollStart
    <3>2. /\ step \in Labels /\ step # "lose" /\ UNCHANGED <<maxMult, call>>
          /\ seen[p] \in DOMAIN rounds
      BY <2>1, <2>4 DEF Labels, PollStart
    <3> QED BY <1>2, <2>1, <3>1, <3>2, PollGoesOn
  <2>5. CASE PollCrash(p)
    <3>1. seen[p] \in DOMAIN rounds /\ UNCHANGED <<maxMult, call>>
      BY <2>1, <2>5 DEF PollCrash
    <3>2. CASE rounds[seen[p]].status = "RUNNING"
      <4>1. Continue(p, "lose", seen[p]) /\ rounds' = Crashed(seen[p])
        BY <2>5, <3>2 DEF PollCrash
      <4>2. rounds'[seen[p]].status = "CRASHED"
        BY <1>1, <3>1, <4>1, CrashedStatus
      <4> QED BY <1>2, <2>1, <3>1, <4>1, <4>2, PollGoesOn DEF Labels
    <3>3. CASE rounds[seen[p]].status # "RUNNING"
      <4>1. Continue(p, "idle", seen[p])
        BY <2>5, <3>3 DEF PollCrash
      <4> QED BY <1>2, <2>1, <3>1, <4>1, PollGoesOn DEF Labels
    <3> QED BY <3>2, <3>3
  <2>6. CASE PollLose(p) \/ CreateRound(p) \/ Die(p)
    BY <2>2, <2>6 DEF PollLose, CreateRound, Die
  <2>7. CASE WriteAdvance(p)
    <3>1. \E step \in {"idle", "create"} : Continue(p, step, 0)
      BY <2>7 DEF WriteAdvance
    <3> QED BY <2>2, <2>7, <3>1 DEF WriteAdvance
  <2> QED BY <1>6, <2>3, <2>4, <2>5, <2>6, <2>7 DEF PollStep
<1>7. ASSUME NEW c \in Calls, CallStep(c) \/ Arrive(c)
      PROVE  ControlKept
  <2>1. /\ call[c] \in Call /\ call[c].auto \in {0} \cup AutoTargets
        /\ call = [call EXCEPT ![c] = call[c]]
    BY <1>3 DEF ReadInv
  <2>2. ASSUME EndCall(c), UNCHANGED <<maxMult, seen>>
        PROVE  ControlKept
    BY <1>2, <2>2, NoCallType, CallGoesOn DEF EndCall, Goto, Labels
  <2>3. CASE BetCreatesRound(c)
    <3>1. CASE EndCall(c)
      BY <2>2, <2>3, <3>1 DEF BetCreatesRound
    <3>2. CASE ~EndCall(c)
      <4> DEFINE k == [call[c] EXCEPT !.row = OpenRound]
      <4>1. /\ OpenRound # 0
            /\ Goto(c, "insert") /\ call' = [call EXCEPT ![c] = k]
            /\ UNCHANGED <<maxMult, seen>>
        BY <2>3, <3>2 DEF BetCreatesRound, ExistingRound
      <4>2. k \in Call /\ k.auto = call[c].auto /\ k.row = OpenRound
        BY <1>4, <2>1 DEF Call
      <4> HIDE DEF k
      <4> QED BY <1>2, <1>4, <2>1, <4>1, <4>2, CallGoesOn DEF Goto, Labels
    <3> QED BY <3>1, <3>2
  <2>4. CASE InsertBet(c) \/ Settle(c)
    BY <2>2, <2>4 DEF InsertBet, Settle
  <2>5. CASE Return(c)
    BY <1>2, <2>1, <2>5, CallGoesOn DEF Return, Goto, Labels
  <2>6. CASE Arrive(c)
    <3>1. ASSUME NEW u \in Users, NEW s \in Slots, Cashout(c, u, s)
          PROVE  ControlKept
      <4> DEFINE active == {i \in DOMAIN bets : /\ bets[i].user = u
                                                /\ bets[i].slot = s
                                                /\ bets[i].status = "ACTIVE"}
                 m == Max(active)
                 k == [call[c] EXCEPT !.user = u, !.slot = s, !.row = m]
      <4>1. /\ active # {} /\ Goto(c, "settle")
            /\ call' = [call EXCEPT ![c] = k] /\ UNCHANGED <<maxMult, seen>>
        BY <3>1 DEF Cashout
      <4>2. active \subseteq DOMAIN bets
        OBVIOUS
      <4>3. m \in DOMAIN bets /\ m \in Nat
        <5>1. /\ DOMAIN bets = 1 .. Len(bets) /\ Len(bets) \in Nat
              /\ IsFiniteSet(DOMAIN bets)
          BY <1>1, LenProperties, FS_Interval DEF TypeOK
        <5> HIDE DEF active
        <5>2. active \in SUBSET Int /\ active # {} /\ IsFiniteSet(active)
          BY <4>1, <4>2, <5>1, FS_Subset
        <5>3. m \in active
          BY <5>2, MaxInSet
        <5> QED BY <4>2, <5>1, <5>3
      <4> HIDE DEF active, m
      <4>4. k \in Call /\ k.auto = call[c].auto /\ k.row = m
        BY <2>1, <4>3 DEF Call
      <4> HIDE DEF k
      <4> QED BY <1>2, <2>1, <4>1, <4>3, <4>4, CallGoesOn DEF Goto, Labels
    <3>2. ASSUME NEW k \in Call, k.auto \in {0} \cup AutoTargets,
                 PlaceBet(c, k)
          PROVE  ControlKept
      <4>1. UNCHANGED <<maxMult, seen>>
        BY <3>2 DEF PlaceBet
      <4>2. CASE UNCHANGED <<pc, call>>
        BY <1>2, <1>3, <4>1, <4>2, NobodyMoves
      <4>3. CASE Goto(c, "closed") /\ UNCHANGED call
        BY <1>2, <2>1, <4>1, <4>3, CallGoesOn DEF Goto, Labels
      <4>4. CASE Goto(c, "create") /\ call' = [call EXCEPT ![c] = k]
        BY <1>2, <3>2, <4>1, <4>4, CallGoesOn DEF Goto, Labels
      <4> QED BY <3>2, <4>2, <4>3, <4>4 DEF PlaceBet
    <3> QED BY <2>6, <3>1, <3>2, CallArguments DEF Arrive
  <2> QED BY <1>7, <2>3, <2>4, <2>5, <2>6 DEF CallStep
<1>8. CASE Tick \/ SetMaxMultiplier
  BY <1>2, <1>3, <1>8, NobodyMoves DEF Tick, SetMaxMultiplier
<1> QED BY <1>6, <1>7, <1>8 DEF Next

-----------------------------------------------------------------------------
(* The theorems.                                                           *)

\* Every step preserves the invariant.
LEMMA NextIInv ==
  ASSUME IInv, Next
  PROVE  IInv'
<1>1. /\ rounds' \in Seq(Round) /\ Len(rounds') <= MaxRounds /\ RoundsInv'
  BY NextRounds, RoundsKept DEF IInv
<1>2. MoneyKept
  BY NextMoneyKept
<1>3. ControlKept
  BY NextControl
<1>4. TypeOK'
  BY <1>1, <1>2, <1>3 DEF TypeOK, MoneyKept, ControlKept, Labels
<1> QED BY <1>1, <1>2, <1>3, <1>4 DEF IInv, MoneyKept, ControlKept

\* A step that changes nothing does, too.
LEMMA StutterIInv ==
  ASSUME IInv, UNCHANGED vars
  PROVE  IInv'
<1>1. RoundsLast
  BY RoundType DEF RoundsLast, vars, IInv
<1>2. MoneyKept
  BY <1>1, NothingPaid DEF vars
<1>3. RowsStay
  BY <1>1 DEF RowsStay, vars, IInv, TypeOK
<1>4. ControlKept
  BY <1>3, ControlType, NobodyMoves DEF vars
<1>5. RoundsInv'
  BY DEF vars, IInv, RoundsInv, Horizon
<1>6. TypeOK'
  BY <1>2, <1>4 DEF vars, IInv, TypeOK, MoneyKept, ControlKept, Labels
<1> QED BY <1>2, <1>4, <1>5, <1>6 DEF IInv, MoneyKept, ControlKept

\* It holds at the start: no rounds, no bets, and the opening money.
LEMMA InitIInv ==
  ASSUME Init
  PROVE  IInv
<1>1. /\ rounds = <<>> /\ bets = <<>> /\ Len(rounds) = 0
      /\ DOMAIN rounds = {} /\ DOMAIN bets = {}
  BY DEF Init
<1>2. /\ rounds \in Seq(Round) /\ bets \in Seq(Bet) /\ Len(rounds) <= MaxRounds
  BY <1>1, CrashRoundsAssumption
<1>3. ASSUME NEW u \in Users
      PROVE  /\ users[u] \in User
             /\ users[u].balance = Opening[u].balance
             /\ users[u].bonus = Opening[u].bonus
             /\ Opening[u].balance \in Nat /\ Opening[u].bonus \in Nat
  BY CrashRoundsAssumption DEF Init, User
<1>4. users \in [Users -> User]
  BY <1>3 DEF Init
<1>5. /\ pc \in [Pollers \cup Calls -> Labels]
      /\ \A p \in Pollers \cup Calls : pc[p] = "idle"
      /\ seen \in [Pollers -> 0 .. MaxRounds]
      /\ maxMult \in MaxMultipliers
  BY CrashRoundsAssumption DEF Init, Labels
<1>6. /\ call \in [Calls -> Call]
      /\ \A c \in Calls : call[c].auto = 0
  BY NoCallType DEF Init
<1>7. TypeOK
  BY <1>2, <1>4, <1>5, <1>6 DEF TypeOK, Labels
<1>8. RoundsInv /\ BetsInv /\ BetsFitTheirRound
  BY <1>1 DEF RoundsInv, BetsInv, BetsFitTheirRound, CashedOutBelowDrawn,
              LostOnlyAfterCrash
<1>9. ReadInv
  BY <1>5, <1>6 DEF ReadInv
<1>10. ASSUME NEW u \in Users
       PROVE  MoneyOf(bets, users[u], u)
  <2>1. Owned(bets, u) = {} /\ Pending(bets, u) = {}
    BY <1>1 DEF Owned, Pending
  <2>2. /\ Sum(Profits(bets), Owned(bets, u)) = 0
        /\ Sum(Tied(bets), Pending(bets, u)) = 0
    BY <2>1, SumEmpty
  <2> QED BY <1>3, <2>2 DEF MoneyOf
<1>11. MoneyAgreesWithBets
  BY <1>2, <1>10, MoneyByUser
<1> QED BY <1>7, <1>8, <1>9, <1>11 DEF IInv

\* The invariant is one.
THEOREM Invariance == Spec => []IInv
<1>1. Init => IInv
  BY InitIInv
<1>2. IInv /\ [Next]_vars => IInv'
  BY NextIInv, StutterIInv
<1> QED BY <1>1, <1>2, PTL DEF Spec

\* Money stays in whole cents and never falls below zero, and at most one
\* round is open, however many polls and bets race to create the next
\* (CrashEngine::createRound under its advisory lock).
THEOREM RoundsStayConsistent == Spec => []RoundsConsistent
<1>1. IInv => RoundsConsistent
  <2>1. ASSUME IInv, NEW n \in DOMAIN rounds, NEW o \in DOMAIN rounds,
               rounds[n].status # "CRASHED", rounds[o].status # "CRASHED"
        PROVE  n = o
    <3>1. n = Len(rounds) /\ o = Len(rounds)
      BY <2>1 DEF IInv, RoundsInv
    <3> QED BY <3>1
  <2> QED BY <2>1 DEF IInv, RoundsConsistent, OneOpenRound
<1> QED BY <1>1, Invariance, PTL

\* No stake is lost or charged twice, no win is paid twice, and no bonus money
\* becomes real money but by winning (placeBet, settleCashout,
\* processAutoCashouts, and polls that die between their statements).
THEOREM MoneyIsKept == Spec => []MoneyAgreesWithBets
<1>1. IInv => MoneyAgreesWithBets
  BY DEF IInv
<1> QED BY <1>1, Invariance, PTL

\* No bet is cashed out at or above what the round's seed commits to, and none
\* is lost before its own round has crashed.
THEOREM BetsAlwaysFit == Spec => []BetsFitTheirRound
<1>1. IInv => BetsFitTheirRound
  BY DEF IInv
<1> QED BY <1>1, Invariance, PTL

\* A crashed round and its published crash point never change.
THEOREM CrashIsFinal == Spec => PublishedCrashIsFinal
<1> DEFINE Final ==
      \A n \in DOMAIN rounds :
        rounds[n].status = "CRASHED" =>
          /\ rounds'[n].status = "CRASHED"
          /\ rounds'[n].crash = rounds[n].crash
<1>1. IInv /\ [Next]_vars => [Final]_vars
  <2>1. ASSUME IInv, Next PROVE Final
    <3>1. RoundsLast
      BY <2>1, NextRounds, RoundsKept DEF IInv
    <3> QED BY <3>1 DEF RoundsLast
  <2> HIDE DEF Final
  <2> QED BY <2>1
<1>2. Spec => [][Final]_vars
  BY <1>1, Invariance, PTL DEF Spec
<1> QED BY <1>2 DEF PublishedCrashIsFinal

-----------------------------------------------------------------------------
(* Bets that come late.                                                    *)

\* How a call comes to hold a bet that it has checked and not placed: it finds
\* no open round, or, later, one that is waiting.
LEMMA BecomesLate ==
  ASSUME IInv, Next, NEW c \in Calls, pc'[c] \in {"create", "insert"}
  PROVE  \/ pc'[c] = pc[c] /\ call'[c] = call[c]
         \/ pc'[c] = "create" /\ OpenRound = 0 /\ rounds' = rounds
         \/ /\ pc'[c] = "insert" /\ pc[c] = "create" /\ rounds' = rounds
            /\ rounds[call'[c].row].status = "WAITING"
<1>1. /\ pc \in [Pollers \cup Calls -> Labels]
      /\ call \in [Calls -> Call]
      /\ Pollers \cap Calls = {}
  BY ControlType, CrashRoundsAssumption
<1>2. CASE UNCHANGED <<pc, call>>
  BY <1>2
<1>3. ASSUME NEW p \in Pollers, NEW step, NEW n, Continue(p, step, n),
             UNCHANGED call
      PROVE  pc'[c] = pc[c] /\ call'[c] = call[c]
  BY <1>1, <1>3 DEF Continue, Goto
<1>4. ASSUME NEW p \in Pollers, PollStep(p) \/ Die(p)
      PROVE  pc'[c] = pc[c] /\ call'[c] = call[c]
  <2>1. UNCHANGED call /\ \E step, n : Continue(p, step, n)
    BY <1>4 DEF PollStep, Poll, PollStart, PollCrash, PollLose, WriteAdvance,
                CreateRound, Die
  <2> QED BY <1>3, <2>1
<1>5. ASSUME NEW d \in Calls, d # c, NEW step, NEW k, Goto(d, step),
             call' = [call EXCEPT ![d] = k] \/ UNCHANGED call
      PROVE  pc'[c] = pc[c] /\ call'[c] = call[c]
  BY <1>1, <1>5 DEF Goto
<1>6. ASSUME NEW d \in Calls, CallStep(d) \/ Arrive(d), d # c
      PROVE  pc'[c] = pc[c] /\ call'[c] = call[c]
  <2>1. \/ UNCHANGED <<pc, call>>
        \/ \E step, k : /\ Goto(d, step)
                        /\ call' = [call EXCEPT ![d] = k] \/ UNCHANGED call
    <3>1. CASE BetCreatesRound(d)
      BY <3>1 DEF BetCreatesRound, EndCall
    <3>2. CASE InsertBet(d) \/ Settle(d) \/ Return(d)
      BY <3>2 DEF InsertBet, Settle, Return, EndCall
    <3>3. ASSUME NEW u, NEW s, Cashout(d, u, s)
          PROVE  \E step, k : /\ Goto(d, step)
                              /\ call' = [call EXCEPT ![d] = k]
      BY <3>3 DEF Cashout
    <3>4. ASSUME NEW k, PlaceBet(d, k)
          PROVE  \/ UNCHANGED <<pc, call>>
                 \/ \E step : /\ Goto(d, step)
                              /\ \/ call' = [call EXCEPT ![d] = k]
                                 \/ UNCHANGED call
      BY <3>4 DEF PlaceBet
    <3> QED BY <1>6, <3>1, <3>2, <3>3, <3>4 DEF CallStep, Arrive
  <2> QED BY <1>5, <1>6, <2>1
<1>7. ASSUME CallStep(c) \/ Arrive(c), ~UNCHANGED <<pc, call>>
      PROVE  \/ pc'[c] = "create" /\ OpenRound = 0 /\ rounds' = rounds
             \/ /\ pc'[c] = "insert" /\ pc[c] = "create" /\ rounds' = rounds
                /\ rounds[call'[c].row].status = "WAITING"
  <2>1. ASSUME NEW step, Goto(c, step)
        PROVE  step \in {"create", "insert"}
    BY <1>1, <2>1 DEF Goto
  <2>2. CASE BetCreatesRound(c)
    <3>1. ~EndCall(c)
      BY <2>1 DEF EndCall
    <3>2. /\ pc[c] = "create" /\ rounds' = rounds
          /\ rounds[OpenRound].status = "WAITING"
          /\ Goto(c, "insert")
          /\ call' = [call EXCEPT ![c].row = OpenRound]
      BY <2>2, <3>1 DEF BetCreatesRound
    <3>3. call'[c].row = OpenRound /\ pc'[c] = "insert"
      BY <1>1, <3>2 DEF Goto, Call
    <3> QED BY <3>2, <3>3
  <2>3. ~(InsertBet(c) \/ Settle(c) \/ Return(c))
    BY <2>1 DEF InsertBet, Settle, Return, EndCall
  <2>4. ASSUME NEW u, NEW s, Cashout(c, u, s)
        PROVE  FALSE
    BY <2>1, <2>4 DEF Cashout
  <2>5. ASSUME NEW k, PlaceBet(c, k)
        PROVE  pc'[c] = "create" /\ OpenRound = 0 /\ rounds' = rounds
    <3>1. ~Goto(c, "closed")
      BY <2>1
    <3>2. OpenRound = 0 /\ Goto(c, "create") /\ rounds' = rounds
      BY <1>7, <2>5, <3>1 DEF PlaceBet
    <3> QED BY <1>1, <3>2 DEF Goto
  <2> QED BY <1>7, <2>2, <2>3, <2>4, <2>5 DEF CallStep, Arrive
<1>8. CASE Tick \/ SetMaxMultiplier
  BY <1>2, <1>8 DEF Tick, SetMaxMultiplier
<1> QED BY <1>2, <1>4, <1>6, <1>7, <1>8 DEF Next

\* While a checked bet is pending, time stands still and the rounds do not
\* change, but that the next one is created.
LEMMA LateRounds ==
  ASSUME IInv, LateInv, Next, ~Stalls, LateBetPending
  PROVE  /\ \A n \in DOMAIN rounds' :
              rounds'[n].status # "CRASHED" =>
                rounds'[n].status = "WAITING" /\ rounds'[n].age = 0
         /\ \A n \in DOMAIN rounds :
              rounds[n].status = "WAITING" => rounds'[n].status = "WAITING"
<1>1. /\ RoundsStep /\ TypeOK /\ RoundsInv
      /\ DOMAIN rounds = 1 .. Len(rounds) /\ Len(rounds) \in Nat
  BY NextRounds, LenProperties DEF IInv, TypeOK
<1>2. /\ ~Tick
      /\ \A n \in DOMAIN rounds : ~BettingOver(n) /\ ~Flying(n)
  <2>1. ~Tick
    BY DEF Tick
  <2>2. ASSUME NEW n \in DOMAIN rounds
        PROVE  ~BettingOver(n) /\ ~Flying(n)
    <3>1. rounds[n].status # "CRASHED" =>
            rounds[n].status = "WAITING" /\ rounds[n].age = 0
      BY DEF LateInv
    <3>2. BettingTime \in Nat \ {0}
      BY CrashRoundsAssumption
    <3> QED BY <3>1, <3>2 DEF BettingOver, Flying
  <2> QED BY <2>1, <2>2
<1>3. CASE rounds' = rounds
  BY <1>3 DEF LateInv
<1>4. CASE \E drawn \in CrashPoints :
             rounds' = Append(rounds, NewRound(Min({drawn, maxMult})))
  <2>1. PICK drawn : rounds' = Append(rounds, NewRound(Min({drawn, maxMult})))
    BY <1>4
  <2> DEFINE r == NewRound(Min({drawn, maxMult}))
             l == Len(rounds)
  <2>2. r.status = "WAITING" /\ r.age = 0
    BY DEF NewRound
  <2> HIDE DEF r
  <2>3. /\ \A n \in DOMAIN rounds : rounds'[n] = rounds[n]
        /\ rounds'[l + 1] = r /\ DOMAIN rounds' = DOMAIN rounds \cup {l + 1}
    <3>1. rounds' = Append(rounds, r)
      BY <2>1 DEF r
    <3> QED BY <1>1, <3>1, AppendProperties DEF TypeOK
  <2>4. \A n \in DOMAIN rounds :
          rounds[n].status # "CRASHED" =>
            rounds[n].status = "WAITING" /\ rounds[n].age = 0
    BY DEF LateInv
  <2> QED BY <2>2, <2>3, <2>4
<1> QED BY <1>1, <1>2, <1>3, <1>4 DEF RoundsStep

\* Every step preserves what is known while a checked bet is pending.
LEMMA NextLate ==
  ASSUME IInv, LateInv, Next
  PROVE  LateInv'
<1> SUFFICES ASSUME ~Stalls PROVE LateInv'
  BY DEF LateInv
<1>1. ASSUME LateBetPending', NEW n \in DOMAIN rounds',
             rounds'[n].status # "CRASHED"
      PROVE  rounds'[n].status = "WAITING" /\ rounds'[n].age = 0
  <2>1. CASE LateBetPending
    BY <1>1, <2>1, LateRounds
  <2>2. CASE ~LateBetPending
    <3>1. PICK c \in Calls : pc'[c] \in {"create", "insert"}
      BY <1>1 DEF LateBetPending
    <3>2. OpenRound = 0 /\ rounds' = rounds
      BY <2>2, <3>1, BecomesLate DEF LateBetPending
    <3> QED BY <1>1, <3>2, OpenRoundIsLast DEF IInv
  <2> QED BY <2>1, <2>2
<1>2. ASSUME NEW c \in Calls, pc'[c] = "insert"
      PROVE  rounds'[call'[c].row].status = "WAITING"
  <2>1. CASE pc'[c] = pc[c] /\ call'[c] = call[c]
    <3>1. /\ call[c].row \in DOMAIN rounds
          /\ rounds[call[c].row].status = "WAITING"
      BY <1>2, <2>1 DEF IInv, ReadInv, LateInv
    <3>2. LateBetPending
      BY <1>2, <2>1 DEF LateBetPending
    <3> QED BY <2>1, <3>1, <3>2, LateRounds
  <2>2. CASE ~(pc'[c] = pc[c] /\ call'[c] = call[c])
    BY <1>2, <2>2, BecomesLate
  <2> QED BY <2>1, <2>2
<1> QED BY <1>1, <1>2 DEF LateInv

\* A bet that is placed joins a round that is waiting.
LEMMA JoinsWaiting ==
  ASSUME IInv, LateInv, Next, ~Stalls, NEW i \in DOMAIN bets' \ DOMAIN bets
  PROVE  rounds'[bets'[i].round].status = "WAITING"
<1>1. MoneyStep /\ bets \in Seq(Bet)
  BY NextMoney DEF IInv, TypeOK
<1>2. ASSUME NEW k \in Call, NEW n \in DOMAIN rounds', TakeBet(k, n),
             JoinedInTime(n)
      PROVE  rounds'[bets'[i].round].status = "WAITING"
  <2>1. PICK b : b.round = n /\ bets' = Append(bets, b)
    BY <1>2 DEF TakeBet
  <2>2. DOMAIN bets' = DOMAIN bets \cup {Len(bets) + 1}
    BY <1>1, <2>1, LenProperties, AppendProperties
  <2>3. i = Len(bets) + 1
    BY <2>2
  <2>4. bets'[i] = b
    BY <1>1, <2>1, <2>3, AppendProperties
  <2>5. rounds'[n].status = "WAITING"
    BY <1>2 DEF JoinedInTime, LateInv
  <2> QED BY <2>1, <2>4, <2>5
<1>3. DOMAIN bets' # DOMAIN bets
  OBVIOUS
<1>4. ~UNCHANGED <<bets, users>>
  BY <1>3
<1>5. ~\E n : bets' = LostWith(n)
  BY <1>3 DEF LostWith
<1>6. ~\E S, at : CashOut(S, at)
  BY <1>3 DEF CashOut
<1> QED BY <1>1, <1>2, <1>4, <1>5, <1>6 DEF MoneyStep

\* Where no bet takes longer than the betting time, bets join only rounds that
\* wait for them, although the round a late bet has read is not locked.
THEOREM LateBetsRefused ==
  ASSUME ~Stalls
  PROVE  Spec => BetsOnlyWhileWaiting
<1> DEFINE InTime ==
      \A i \in DOMAIN bets' \ DOMAIN bets :
        rounds'[bets'[i].round].status = "WAITING"
<1>1. Init => LateInv
  BY CrashRoundsAssumption DEF Init, LateInv, LateBetPending
<1>2. IInv /\ LateInv /\ [Next]_vars => LateInv'
  <2>1. ASSUME LateInv, UNCHANGED vars PROVE LateInv'
    BY <2>1 DEF LateInv, LateBetPending, vars
  <2> QED BY <2>1, NextLate
<1>3. IInv /\ LateInv /\ [Next]_vars => [InTime]_vars
  <2>1. ASSUME IInv, LateInv, Next PROVE InTime
    BY <2>1, JoinsWaiting
  <2> HIDE DEF InTime
  <2> QED BY <2>1
<1>4. Spec => [][InTime]_vars
  BY <1>1, <1>2, <1>3, Invariance, PTL DEF Spec
<1> QED BY <1>4 DEF BetsOnlyWhileWaiting
=============================================================================
