---------------------------- MODULE CrashRounds ----------------------------
(***************************************************************************)
(* The crash game of the platform: app/Services/CrashEngine.php with the   *)
(* parts of WalletService and WageringService it calls.                    *)
(*                                                                         *)
(* There is no game server: a round advances only when somebody's request  *)
(* finds that it should.  Pollers (GET state, sent by every open page once *)
(* a second) run unlocked reads and conditional updates outside any        *)
(* transaction.  Calls (place a bet, cash out) run in one transaction each *)
(* and lock round, bet and user in that order, so that what such a         *)
(* transaction does between its first row lock and its end is one step     *)
(* here; what it reads before that lock is a step of its own.              *)
(*                                                                         *)
(* Money is in cents, multipliers in hundredths.  Calls that are refused   *)
(* and change nothing are left out, except the bet that comes too late.    *)
(* Statistics (OpsMetricsService), the cache of past rounds and the ghost  *)
(* feed are left out.                                                      *)
(***************************************************************************)
EXTENDS Integers, Sequences, FiniteSets, FiniteSetsExt, Functions

CONSTANTS
  Users,
  Opening,         \* [Users -> balance, bonus, required]: users at the start
  Slots,           \* the bet panels, 1 and 2
  Stakes,          \* stakes within the betting limits
  AutoTargets,     \* auto cash-out multipliers; 0 stands for none
  CrashPoints,     \* crash points the server seed may yield, uncapped
  MaxMultipliers,  \* values of the setting max_multiplier
  Curve,           \* Curve[a]: the multiplier a ticks after take-off
  MaxAge,          \* where the curve ends and ages stop counting
  BettingTime,     \* BETTING_SECONDS, in ticks
  PauseTime,       \* the pause after a crash, in ticks
  MaxRounds,       \* bounds the number of rounds
  Pollers,         \* processes answering polls
  Calls,           \* processes answering bets and cash-outs
  MayDie,          \* a poll may die between two of its statements
  Stalls           \* a bet may take longer than the betting time

ASSUME CrashRoundsAssumption ==
  /\ Users # {}
  /\ Slots # {}
  /\ Opening \in [Users -> [balance : Nat, bonus : Nat, required : Nat]]
  /\ Slots \subseteq 1..2
  /\ Stakes \subseteq Nat \ {0}
  /\ AutoTargets \subseteq {0} \cup {t \in Nat : t >= 101}
  /\ CrashPoints \subseteq {c \in Nat : c >= 100}
  /\ MaxMultipliers \subseteq {x \in Nat : x >= 200}
  /\ MaxMultipliers # {}
  /\ MaxAge \in Nat
  /\ Curve \in [0..MaxAge -> Nat]
  /\ Curve[0] = 100
  /\ \A a, b \in 0..MaxAge : a <= b => Curve[a] <= Curve[b]
  /\ \A x \in MaxMultipliers : x <= Curve[MaxAge]
  /\ BettingTime \in Nat \ {0}
  /\ PauseTime \in Nat \ {0}
  /\ MaxRounds \in Nat \ {0}
  /\ Pollers \cap Calls = {}
  /\ MayDie \in BOOLEAN
  /\ Stalls \in BOOLEAN

VARIABLES
  rounds,   \* table crash_rounds, oldest first
  bets,     \* table crash_bets, in order of insertion
  users,    \* money and wagering columns of table users
  maxMult,  \* setting max_multiplier
  pc,       \* what each process does next
  seen,     \* the round a poll has read
  call      \* the arguments of a call, and the round or bet it has read

vars == <<rounds, bets, users, maxMult, pc, seen, call>>

Round == [status : {"WAITING", "RUNNING", "CRASHED"},
          crash : Nat,  \* crash_point
          drawn : Nat,  \* the crash point that server_seed commits to
          age : Nat]    \* ticks since the status last changed
Bet == [user : Users, round : 1..MaxRounds, slot : Slots, amount : Nat,
        fromBalance : Nat, fromBonus : Nat, auto : Nat,
        status : {"ACTIVE", "CASHED_OUT", "LOST"},
        at : Nat, payout : Nat]
User == [balance : Nat, bonus : Nat, required : Nat, progress : Nat]
Call == [user : Users, slot : Slots, amount : Nat, auto : Nat, row : Nat]

TypeOK ==
  /\ rounds \in Seq(Round) /\ Len(rounds) <= MaxRounds
  /\ bets \in Seq(Bet)
  /\ users \in [Users -> User]
  /\ maxMult \in MaxMultipliers
  /\ pc \in [Pollers \cup Calls ->
               {"idle", "start", "crash", "lose", "write", "create",
                "insert", "settle", "closed"}]
  /\ seen \in [Pollers -> 0..MaxRounds]
  /\ call \in [Calls -> Call]

NoCall == [user |-> CHOOSE u \in Users : TRUE,
           slot |-> CHOOSE s \in Slots : TRUE,
           amount |-> 0, auto |-> 0, row |-> 0]

Init ==
  /\ rounds = <<>>
  /\ bets = <<>>
  /\ users = [u \in Users |-> [balance |-> Opening[u].balance,
                               bonus |-> Opening[u].bonus,
                               required |-> Opening[u].required,
                               progress |-> 0]]
  /\ maxMult \in MaxMultipliers
  /\ pc = [p \in Pollers \cup Calls |-> "idle"]
  /\ seen = [p \in Pollers |-> 0]
  /\ call = [c \in Calls |-> NoCall]

-----------------------------------------------------------------------------
(* Reading a round.                                                        *)

\* Of the rounds that are waiting or running, the one with the highest id.
OpenRound ==
  LET open == {n \in DOMAIN rounds : rounds[n].status # "CRASHED"}
  IN  IF open = {} THEN 0 ELSE Max(open)

\* Variant with a bug: nobody looks for a round again under the lock.
NoOpenRound == 0

\* The open round found once the advisory lock is held.
ExistingRound == OpenRound

\* The last round crashed too recently for the next one to be created.
Pausing ==
  /\ rounds # <<>>
  /\ rounds[Len(rounds)].age < PauseTime

\* A waiting round whose betting time is over.
BettingOver(n) ==
  rounds[n].status = "WAITING" /\ rounds[n].age >= BettingTime

\* Variant with a bug: the cap is forgotten.
UncappedCrashPoint(n) == rounds[n].crash

\* Where a round crashes, capped by the house maximum of now.
EffectiveCrashPoint(n) == Min({rounds[n].crash, maxMult})

\* The multiplier of a round in flight.
CurrentMultiplier(n) == Min({maxMult, Curve[rounds[n].age]})

\* The multiplier once the round has been started, if it is due to start.
MultiplierAfterStart(n) ==
  IF BettingOver(n) THEN 100 ELSE CurrentMultiplier(n)

Flying(n) == rounds[n].status = "RUNNING" \/ BettingOver(n)

\* Variant with a bug: the multiplier must exceed the crash point.
MustCrashLater(n) ==
  Flying(n) /\ MultiplierAfterStart(n) > EffectiveCrashPoint(n)

\* The multiplier has reached the crash point.
MustCrash(n) ==
  Flying(n) /\ MultiplierAfterStart(n) >= EffectiveCrashPoint(n)

-----------------------------------------------------------------------------
(* Writing rounds and bets.                                                *)

Started(n) ==
  [rounds EXCEPT ![n].status = "RUNNING", ![n].age = 0]

Crashed(n) ==
  [rounds EXCEPT ![n].status = "CRASHED", ![n].age = 0,
                 ![n].crash = EffectiveCrashPoint(n)]

StartedIfDue(n) == IF BettingOver(n) THEN Started(n) ELSE rounds

NewRound(drawn) ==
  [status |-> "WAITING", crash |-> drawn, drawn |-> drawn, age |-> 0]

\* The bets of round n that are still active are lost.
LostWith(n) ==
  [i \in DOMAIN bets |->
     IF bets[i].round = n /\ bets[i].status = "ACTIVE"
     THEN [bets[i] EXCEPT !.status = "LOST"] ELSE bets[i]]

\* Amount times multiplier, to the nearest cent.
Payout(i, multiplier) == (bets[i].amount * multiplier + 50) \div 100

\* What a cash-out credits to the balance: the part of the stake that came
\* from there, and the profit.
ToBalance(i, multiplier) ==
  bets[i].fromBalance
    + Max({0, Payout(i, multiplier) - bets[i].amount})

\* What a cash-out credits to the bonus.
ToBonus(i) == bets[i].fromBonus

\* Cash out the bets in S, bet i at multiplier at[i], and pay their owners.
CashOut(S, at) ==
  /\ bets' = [i \in DOMAIN bets |->
                IF i \in S
                THEN [bets[i] EXCEPT !.status = "CASHED_OUT", !.at = at[i],
                                     !.payout = Payout(i, at[i])]
                ELSE bets[i]]
  /\ users' =
       [u \in Users |->
          LET mine == {i \in S : bets[i].user = u}
          IN  [users[u] EXCEPT
                 !.balance = @ + SumFunction([i \in mine |->
                                                ToBalance(i, at[i])]),
                 !.bonus = @ + SumFunction([i \in mine |-> ToBonus(i)])]]

-----------------------------------------------------------------------------
(* The clock and the house setting.                                        *)

Horizon(status) == CASE status = "WAITING" -> BettingTime
                     [] status = "RUNNING" -> MaxAge
                     [] status = "CRASHED" -> PauseTime

\* A bet has been checked against the state of a round it has not locked.
LateBetPending == \E c \in Calls : pc[c] \in {"create", "insert"}

Tick ==
  /\ \E n \in DOMAIN rounds : rounds[n].age < Horizon(rounds[n].status)
  /\ Stalls \/ ~LateBetPending
  /\ rounds' = [n \in DOMAIN rounds |->
                  [rounds[n] EXCEPT
                     !.age = Min({@ + 1, Horizon(rounds[n].status)})]]
  /\ UNCHANGED <<bets, users, maxMult, pc, seen, call>>

SetMaxMultiplier ==
  /\ maxMult' \in MaxMultipliers \ {maxMult}
  /\ UNCHANGED <<rounds, bets, users, pc, seen, call>>

-----------------------------------------------------------------------------
(* Polls.                                                                  *)

Goto(p, step) == pc' = [pc EXCEPT ![p] = step]

\* Go on with the round that was read, or answer and forget it.
Continue(p, step, n) ==
  /\ Goto(p, step)
  /\ seen' = [seen EXCEPT ![p] = IF step = "idle" THEN 0 ELSE n]

Poll(p) ==
  /\ pc[p] = "idle"
  /\ IF OpenRound = 0
       THEN ~Pausing /\ Len(rounds) < MaxRounds /\ Continue(p, "write", 0)
       ELSE \/ /\ BettingOver(OpenRound)
               /\ Continue(p, "start", OpenRound)
            \/ /\ ~BettingOver(OpenRound) /\ MustCrash(OpenRound)
               /\ Continue(p, "crash", OpenRound)
  /\ UNCHANGED <<rounds, bets, users, maxMult, call>>

\* UPDATE ... SET running WHERE waiting, and the round read again.
PollStart(p) ==
  LET n == seen[p]
      waiting == rounds[n].status = "WAITING"
      mustCrash == IF waiting
                   THEN 100 >= EffectiveCrashPoint(n)
                   ELSE rounds[n].status = "RUNNING" /\ MustCrash(n)
  IN  /\ pc[p] = "start"
      /\ rounds' = IF waiting THEN Started(n) ELSE rounds
      /\ Continue(p, IF mustCrash THEN "crash" ELSE "idle", n)
      /\ UNCHANGED <<bets, users, maxMult, call>>

\* Variant with a bug: the update does not ask for a running round.
PollCrashAgain(p) ==
  /\ pc[p] = "crash"
  /\ rounds' = Crashed(seen[p])
  /\ Continue(p, "lose", seen[p])
  /\ UNCHANGED <<bets, users, maxMult, call>>

\* UPDATE ... SET crashed WHERE running.
PollCrash(p) ==
  LET n == seen[p]
  IN  /\ pc[p] = "crash"
      /\ IF rounds[n].status = "RUNNING"
           THEN rounds' = Crashed(n) /\ Continue(p, "lose", n)
           ELSE rounds' = rounds /\ Continue(p, "idle", n)
      /\ UNCHANGED <<bets, users, maxMult, call>>

PollLose(p) ==
  /\ pc[p] = "lose"
  /\ bets' = LostWith(seen[p])
  /\ Continue(p, "idle", 0)
  /\ UNCHANGED <<rounds, users, maxMult, call>>

\* The process dies; the statements it has executed stay.
Die(p) ==
  /\ MayDie
  /\ pc[p] # "idle"
  /\ Continue(p, "idle", 0)
  /\ UNCHANGED <<rounds, bets, users, maxMult, call>>

\* Active bets of round n whose target has been reached in flight.
AutoDue(n) ==
  {i \in DOMAIN bets :
     /\ bets[i].round = n
     /\ bets[i].status = "ACTIVE"
     /\ bets[i].auto # 0
     /\ bets[i].auto <= MultiplierAfterStart(n)}

\* A poll that saw no open round runs the write path, which looks again.
WriteAdvance(p) ==
  LET n == OpenRound
  IN  /\ pc[p] = "write"
      /\ IF n = 0
           THEN /\ Continue(p, IF Pausing THEN "idle" ELSE "create", 0)
                /\ UNCHANGED <<rounds, bets, users>>
           ELSE /\ Continue(p, "idle", 0)
                /\ IF MustCrash(n)
                     THEN /\ rounds' = Crashed(n)
                          /\ bets' = LostWith(n)
                          /\ UNCHANGED users
                     ELSE /\ rounds' = StartedIfDue(n)
                          /\ IF Flying(n)
                               THEN CashOut(AutoDue(n),
                                            [i \in DOMAIN bets |->
                                               bets[i].auto])
                               ELSE UNCHANGED <<bets, users>>
      /\ UNCHANGED <<maxMult, call>>

\* Under the advisory lock: unless a round has appeared, create the next.
CreateRound(p) ==
  /\ pc[p] = "create"
  /\ \/ ExistingRound # 0 /\ rounds' = rounds
     \/ /\ ExistingRound = 0
        /\ Len(rounds) < MaxRounds
        /\ \E drawn \in CrashPoints :
             rounds' = Append(rounds, NewRound(Min({drawn, maxMult})))
  /\ Continue(p, "idle", 0)
  /\ UNCHANGED <<bets, users, maxMult, call>>

-----------------------------------------------------------------------------
(* Placing a bet.                                                          *)

\* With the user locked: funds, a free panel and a target the house allows.
Acceptable(k, n) ==
  /\ users[k.user].balance + users[k.user].bonus >= k.amount
  /\ \A i \in DOMAIN bets :
       ~(bets[i].round = n /\ bets[i].user = k.user /\ bets[i].slot = k.slot)
  /\ k.auto <= maxMult

\* Balance pays first, then bonus; the stake counts for wagering.
TakeBet(k, n) ==
  LET u == users[k.user]
      fromBalance == Min({u.balance, k.amount})
      fromBonus == k.amount - fromBalance
  IN  /\ users' = [users EXCEPT
                     ![k.user].balance = @ - fromBalance,
                     ![k.user].bonus = @ - fromBonus,
                     ![k.user].progress =
                        Min({u.required, @ + k.amount})]
      /\ bets' = Append(bets,
                   [user |-> k.user, round |-> n, slot |-> k.slot,
                    amount |-> k.amount, fromBalance |-> fromBalance,
                    fromBonus |-> fromBonus, auto |-> k.auto,
                    status |-> "ACTIVE", at |-> 0, payout |-> 0])

\* Variant with a bug: the status the write path returns is not looked at.
PlaceBetAnytime(c, k) ==
  /\ pc[c] = "idle"
  /\ OpenRound # 0
  /\ Acceptable(k, OpenRound)
  /\ TakeBet(k, OpenRound)
  /\ UNCHANGED <<rounds, maxMult, pc, seen, call>>

\* The write path locks the open round.  If it is in flight, or due to be,
\* the call fails, and what the write path did is rolled back with it.
PlaceBet(c, k) ==
  LET n == OpenRound
  IN  /\ pc[c] = "idle"
      /\ \/ /\ n # 0 /\ ~Flying(n) /\ Acceptable(k, n)
            /\ TakeBet(k, n)
            /\ UNCHANGED <<pc, call>>
         \/ /\ n # 0 /\ Flying(n)
            /\ Goto(c, "closed")
            /\ UNCHANGED <<bets, users, call>>
         \/ /\ n = 0 /\ ~Pausing /\ Len(rounds) < MaxRounds
            /\ Goto(c, "create")
            /\ call' = [call EXCEPT ![c] = k]
            /\ UNCHANGED <<bets, users>>
      /\ UNCHANGED <<rounds, maxMult, seen>>

\* The caller has its answer.
Return(c) ==
  /\ pc[c] = "closed"
  /\ Goto(c, "idle")
  /\ UNCHANGED <<rounds, bets, users, maxMult, seen, call>>

EndCall(c) == Goto(c, "idle") /\ call' = [call EXCEPT ![c] = NoCall]

\* Under the advisory lock: a round that has appeared is taken as it is read,
\* unlocked; otherwise round and bet are created in this transaction.
BetCreatesRound(c) ==
  LET n == Len(rounds) + 1
  IN  /\ pc[c] = "create"
      /\ \/ /\ ExistingRound # 0
            /\ IF rounds[OpenRound].status = "WAITING"
                 THEN /\ Goto(c, "insert")
                      /\ call' = [call EXCEPT ![c].row = OpenRound]
                 ELSE EndCall(c)
            /\ UNCHANGED <<rounds, bets, users>>
         \/ /\ ExistingRound = 0
            /\ EndCall(c)
            /\ IF Acceptable(call[c], n) /\ n <= MaxRounds
                 THEN /\ \E drawn \in CrashPoints :
                           rounds' = Append(rounds,
                                       NewRound(Min({drawn, maxMult})))
                      /\ TakeBet(call[c], n)
                 ELSE UNCHANGED <<rounds, bets, users>>
      /\ UNCHANGED <<maxMult, seen>>

\* The user is locked and the bet goes into the round read before.
InsertBet(c) ==
  /\ pc[c] = "insert"
  /\ IF Acceptable(call[c], call[c].row)
       THEN TakeBet(call[c], call[c].row)
       ELSE UNCHANGED <<bets, users>>
  /\ EndCall(c)
  /\ UNCHANGED <<rounds, maxMult, seen>>

-----------------------------------------------------------------------------
(* Cashing out.                                                            *)

\* The player's latest active bet on the panel, read without a lock.
Cashout(c, u, s) ==
  LET active == {i \in DOMAIN bets : /\ bets[i].user = u
                                     /\ bets[i].slot = s
                                     /\ bets[i].status = "ACTIVE"}
  IN  /\ pc[c] = "idle"
      /\ active # {}
      /\ Goto(c, "settle")
      /\ call' = [call EXCEPT ![c].user = u, ![c].slot = s,
                              ![c].row = Max(active)]
      /\ UNCHANGED <<rounds, bets, users, maxMult, seen>>

\* Variant with a bug: the status is not read again under the lock.
ReadActive(i) == TRUE

\* The bet, locked, is still active.
StillActive(i) == bets[i].status = "ACTIVE"

\* Round and bet are locked.  Of the refusals, those that find or make the
\* round crashed write first, and the exception rolls that back.
Settle(c) ==
  LET i == call[c].row
      n == bets[i].round
  IN  /\ pc[c] = "settle"
      /\ IF StillActive(i) /\ Flying(n) /\ ~MustCrash(n)
           THEN /\ rounds' = StartedIfDue(n)
                /\ CashOut({i}, [j \in {i} |-> MultiplierAfterStart(n)])
           ELSE UNCHANGED <<rounds, bets, users>>
      /\ EndCall(c)
      /\ UNCHANGED <<maxMult, seen>>

-----------------------------------------------------------------------------
PollStep(p) == \/ Poll(p) \/ PollStart(p) \/ PollCrash(p) \/ PollLose(p)
               \/ WriteAdvance(p) \/ CreateRound(p)

CallStep(c) == \/ BetCreatesRound(c) \/ InsertBet(c) \/ Settle(c)
               \/ Return(c)

Arrive(c) ==
  \E u \in Users, s \in Slots :
    \/ \E amount \in Stakes, auto \in AutoTargets :
         PlaceBet(c, [user |-> u, slot |-> s, amount |-> amount,
                      auto |-> auto, row |-> 0])
    \/ Cashout(c, u, s)

Next == \/ Tick
        \/ SetMaxMultiplier
        \/ \E p \in Pollers : PollStep(p) \/ Die(p)
        \/ \E c \in Calls : CallStep(c) \/ Arrive(c)

Spec == Init /\ [][Next]_vars

\* Time passes, open pages keep polling, and a request that has begun runs on.
Fairness == /\ WF_vars(Tick)
            /\ \A p \in Pollers : WF_vars(PollStep(p))
            /\ \A c \in Calls : WF_vars(CallStep(c))

FairSpec == Spec /\ Fairness

-----------------------------------------------------------------------------
(* What must hold.                                                         *)

\* At most one round is open: however many polls and bets find none, the
\* advisory lock and the second look let one of them create it (L482-491).
OneOpenRound ==
  \A n, o \in DOMAIN rounds :
    rounds[n].status # "CRASHED" /\ rounds[o].status # "CRASHED" => n = o

BetsOf(u) == {i \in DOMAIN bets : bets[i].user = u}
NotCashedOut(u) == {i \in BetsOf(u) : bets[i].status # "CASHED_OUT"}

\* Money is in whole cents, never negative, and one round at most is open.
RoundsConsistent == TypeOK /\ OneOpenRound

\* A user's money is what he began with, less his stakes, plus the payouts
\* of his cashed-out bets: none is paid twice, and none is charged or paid
\* without its bet.
WalletAgreesWithBets ==
  \A u \in Users :
    users[u].balance + users[u].bonus =
      Opening[u].balance + Opening[u].bonus
        + SumFunction([i \in BetsOf(u) |-> bets[i].payout - bets[i].amount])

\* "Return stake to its source, profit goes to real balance": bonus money
\* becomes real money only by being won with; what is missing from the bonus
\* is exactly the bonus part of the bets not cashed out.
StakeReturnsToSource ==
  \A u \in Users :
    users[u].bonus + SumFunction([i \in NotCashedOut(u) |->
                                    bets[i].fromBonus])
      = Opening[u].bonus

\* No poll, call or crash between them makes or loses money.
MoneyAgreesWithBets == WalletAgreesWithBets /\ StakeReturnsToSource

\* No bet is cashed out at or above the crash point the round's seed commits
\* to, although max_multiplier changes in flight and requests race the crash.
CashedOutBelowDrawn ==
  \A i \in DOMAIN bets :
    bets[i].status = "CASHED_OUT" => bets[i].at < rounds[bets[i].round].drawn

\* A bet is lost only with its own round, even when the poll that crashed
\* the round marks its bets after the next round has begun.
LostOnlyAfterCrash ==
  \A i \in DOMAIN bets :
    bets[i].status = "LOST" => rounds[bets[i].round].status = "CRASHED"

\* What a bet became fits what its own round drew and became.
BetsFitTheirRound == CashedOutBelowDrawn /\ LostOnlyAfterCrash

\* A crashed round, its published crash point included, never changes: the
\* slower of two polls may not crash it again under another maximum.
PublishedCrashIsFinal ==
  [][\A n \in DOMAIN rounds :
       rounds[n].status = "CRASHED" =>
         /\ rounds'[n].status = "CRASHED"
         /\ rounds'[n].crash = rounds[n].crash]_vars

\* Bets join a round only while it is waiting (L201: "Apostas fechadas").
BetsOnlyWhileWaiting ==
  [][\A i \in DOMAIN bets' \ DOMAIN bets :
       rounds'[bets'[i].round].status = "WAITING"]_vars

\* Every round crashes, also when max_multiplier is lowered in flight (the
\* comment at L454).
EveryRoundCrashes ==
  \A n \in 1..MaxRounds :
    Len(rounds) >= n ~> Len(rounds) >= n /\ rounds[n].status = "CRASHED"

\* Every bet is won or lost in the end, given that no poll dies half-way and
\* that no bet outlasts the betting time.
EveryBetSettled ==
  \A i \in 1..(MaxRounds * Cardinality(Users \X Slots)) :
    Len(bets) >= i ~> Len(bets) >= i /\ bets[i].status # "ACTIVE"

\* Neither a round nor a bet stays open for ever.
EverythingEnds == EveryRoundCrashes /\ EveryBetSettled
-----------------------------------------------------------------------------
(* The inductive invariant from which CrashRoundsProofs derives the        *)
(* properties.                                                             *)

\* Every round but the last has crashed; no round crashes above what its seed
\* commits to, and its age stays within what its status lasts.
RoundsInv ==
  /\ \A n \in DOMAIN rounds : n # Len(rounds) => rounds[n].status = "CRASHED"
  /\ \A n \in DOMAIN rounds :
       /\ rounds[n].crash <= rounds[n].drawn
       /\ rounds[n].age <= Horizon(rounds[n].status)

\* What a poll or a call has read is still there; a round about to be started
\* is due, or started already; and a round whose bets are about to be lost has
\* crashed.
ReadInv ==
  /\ \A p \in Pollers :
       /\ pc[p] \in {"start", "crash", "lose"} => seen[p] \in DOMAIN rounds
       /\ pc[p] = "start" /\ rounds[seen[p]].status = "WAITING" =>
            rounds[seen[p]].age >= BettingTime
       /\ pc[p] = "lose" => rounds[seen[p]].status = "CRASHED"
  /\ \A c \in Calls :
       /\ pc[c] = "insert" => call[c].row \in DOMAIN rounds
       /\ pc[c] = "settle" => call[c].row \in DOMAIN bets
       /\ call[c].auto \in {0} \cup AutoTargets

\* A bet belongs to a round, is paid from balance and bonus together, and has
\* paid nothing out before it is cashed out.
BetsInv ==
  \A i \in DOMAIN bets :
    /\ bets[i].round \in DOMAIN rounds
    /\ bets[i].auto \in {0} \cup AutoTargets
    /\ bets[i].fromBalance + bets[i].fromBonus = bets[i].amount
    /\ bets[i].status # "CASHED_OUT" => bets[i].payout = 0

IInv ==
  /\ TypeOK
  /\ RoundsInv
  /\ ReadInv
  /\ BetsInv
  /\ BetsFitTheirRound
  /\ MoneyAgreesWithBets

\* If no bet outlasts the betting time: while one is checked and not placed,
\* an open round is new, and the round it is to join is open for bets.
LateInv ==
  ~Stalls =>
    /\ LateBetPending =>
         \A n \in DOMAIN rounds :
           rounds[n].status # "CRASHED" =>
             rounds[n].status = "WAITING" /\ rounds[n].age = 0
    /\ \A c \in Calls :
         pc[c] = "insert" => rounds[call[c].row].status = "WAITING"
=============================================================================
