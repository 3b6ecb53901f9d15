---------------------------- MODULE CrashEngine ----------------------------
(***************************************************************************)
(* The crash game of the Go platform (internal/core/usecase/games with its *)
(* repositories).  A manager goroutine serves three channels and a ticker; *)
(* every game has a loop goroutine that ticks and crashes it too, and all  *)
(* of them work on the one pointer currentGame.  Odds are in hundredths.   *)
(***************************************************************************)
EXTENDS Tax, Sequences, FiniteSetsExt

CONSTANTS
  Users, Opening,   \* the players, and what their wallets open with
  Bets, UserOf, Amount,  \* the bet requests, which name the bets too
  Cashouts, Wanted, \* the cash-out requests, and the bet each names
  Starters,         \* the callers of StartGame
  Impatient,        \* the callers that may give up waiting
  CallSets,         \* the sets of requests made together
  Capacity,         \* of commandChan
  Draws,            \* what the MAC of a round may give: <<slot, r>>
  Modulus,          \* 2^52 in the code
  MaxRounds, MaxAge \* bounds: games started, seconds a game's clock runs

EngineRequests == Bets \cup Cashouts \cup Starters
Rounds == 1 .. MaxRounds
Procs == 0 .. MaxRounds  \* the manager (0) and the loop of each game

ASSUME CrashEngineAssumption ==
  /\ Opening \in [Users -> Nat] /\ UserOf \in [Bets -> Users]
  /\ Amount \in [Bets -> Nat] /\ Wanted \in [Cashouts -> Bets]
  /\ Capacity \in Nat \ {0} /\ MaxRounds \in Nat \ {0} /\ MaxAge \in Nat
  /\ CallSets \subseteq SUBSET EngineRequests
  /\ IsFiniteSet(Bets) /\ Modulus \in Nat
  /\ Bets \cap Cashouts = {} /\ Bets \cap Starters = {} /\ Cashouts \cap Starters = {}
  /\ Draws \subseteq (0 .. 99) \X (0 .. Modulus - 1)

VARIABLES
  current,   \* currentGame: a game's number, or 0 for nil
  round,     \* roundNumber
  cancel,    \* gameCancel: the game it cancels, or 0 for nil
  cancelled, \* the games whose context has been cancelled
  games,     \* the games: in memory (status, crash, age) and in the table (row)
  shown,     \* latestState: the game shown as running, or 0
  proc,      \* where each goroutine is, with the game, request and odds it read
  due,       \* the loops whose ticker has fired
  up,        \* FALSE once a goroutine has panicked: the process is gone
  commands, betChan, cashChan,  \* the channels
  bets,      \* the table game_bets
  balance,   \* the column of wallets
  reply      \* what each caller has been told

pointers == <<current, round, cancel, cancelled, games, shown>>
channels == <<commands, betChan, cashChan>>
store == <<bets, balance>>
engineVars == <<pointers, proc, due, up, channels, store, reply>>

-----------------------------------------------------------------------------
HouseEdgePercent == 3
MaxCrash == 1000000
BetLimits == 1000 .. 1000000

\* CalculateCrashPoint, from the last bytes (slot) and the first (r) of the MAC.
CrashPoint(slot, r) ==
  IF slot < HouseEdgePercent THEN 100
  ELSE IF r = 0 THEN MaxCrash
  ELSE Min({MaxCrash, Max({100, (Modulus * 100) \div r})})

Odds(g) == 100 + 10 * games[g].age
Running(g) == g # 0 /\ games[g].status = "RUNNING"

\* Variant with a bug: the crash point is scaled the other way.
NeverReached(g) == Odds(g) >= 100 * games[g].crash
\* tick() compares the odds with CrashPoint / 100, the loop with CrashPoint.
Reached(g) == 100 * Odds(g) >= games[g].crash
ShouldCrash(point) == ~Running(current) \/ Odds(current) >= point

NoBet == [game |-> 0, auto |-> 0, status |-> "NONE", at |-> 0, payout |-> 0]
NoGame == [status |-> "NONE", row |-> "NONE", crash |-> 0, age |-> 0]
Idle == [at |-> "none", game |-> 0, req |-> "none", odds |-> 0]
Answer(r, a) == reply' = [reply EXCEPT ![r] = IF @ = "waiting" THEN a ELSE @]
\* A loop keeps the crash point it read (odds); the manager keeps nothing.
Goto(p, at) ==
  proc' = [proc EXCEPT ![p] = [Idle EXCEPT !.at = at,
                                           !.odds = IF p = 0 THEN 0 ELSE proc[p].odds]]

GetActiveByGame(g) == {b \in Bets : bets[b].game = g /\ bets[b].status = "ACTIVE"}

\* checkAutoCashouts with AtomicAutoCashoutWithCredit.  handlePlaceBet leaves
\* cashout_at empty (auto = 0), so in this program the set is always empty.
AutoCashouts(g) ==
  {b \in GetActiveByGame(g) : bets[b].auto # 0 /\ Odds(g) >= bets[b].auto}

NetPayout(b) ==
  PayoutBreakdown("KE", (Amount[b] * bets[b].auto) \div 100, Amount[b]).net

CreditAuto(g) ==
  /\ bets' = [b \in Bets |-> IF b \in AutoCashouts(g)
                THEN [bets[b] EXCEPT !.status = "CASHED_OUT", !.at = bets[b].auto,
                                     !.payout = NetPayout(b)]
                ELSE bets[b]]
  /\ balance' = [u \in Users |-> balance[u] + SumFunction(
                    [b \in {d \in AutoCashouts(g) : UserOf[d] = u} |-> NetPayout(b)])]

EngineInit ==
  /\ current = 0 /\ round = 0 /\ cancel = 0 /\ cancelled = {} /\ shown = 0
  /\ games = [g \in Rounds |-> NoGame]
  /\ proc = [p \in Procs |-> IF p = 0 THEN [Idle EXCEPT !.at = "select"] ELSE Idle]
  /\ due = {} /\ up = TRUE
  /\ commands = <<>> /\ betChan = <<>> /\ cashChan = <<>>
  /\ bets = [b \in Bets |-> NoBet] /\ balance = Opening
  /\ \E calls \in CallSets :
       reply = [r \in EngineRequests |-> IF r \in calls THEN "idle" ELSE "none"]

-----------------------------------------------------------------------------
(* The callers: StartGame, PlaceBet and Cashout.                           *)

StartGame(s) ==
  /\ reply[s] = "idle"
  /\ reply' = [reply EXCEPT ![s] = IF Running(current) THEN "refused" ELSE "waiting"]
  /\ UNCHANGED <<pointers, proc, due, up, channels, store>>

SendStart(s) ==
  /\ reply[s] = "waiting" /\ Len(commands) < Capacity
  /\ commands' = Append(commands, "START") /\ Answer(s, "ok")
  /\ UNCHANGED <<pointers, proc, due, up, betChan, cashChan, store>>

PlaceBet(b) ==
  /\ reply[b] = "idle"
  /\ IF Amount[b] \in BetLimits
     THEN /\ betChan' = Append(betChan, b)
          /\ reply' = [reply EXCEPT ![b] = "waiting"]
     ELSE /\ reply' = [reply EXCEPT ![b] = "refused"] /\ UNCHANGED betChan
  /\ UNCHANGED <<pointers, proc, due, up, commands, cashChan, store>>

Cashout(c) ==
  /\ reply[c] = "idle"
  /\ cashChan' = Append(cashChan, c)
  /\ reply' = [reply EXCEPT ![c] = "waiting"]
  /\ UNCHANGED <<pointers, proc, due, up, commands, betChan, store>>

\* Five seconds pass, or the caller's context ends: the request stays queued.
Timeout(r) ==
  /\ r \in Impatient /\ reply[r] = "waiting" /\ Answer(r, "timeout")
  /\ UNCHANGED <<pointers, proc, due, up, channels, store>>

-----------------------------------------------------------------------------
(* The manager's requests.                                                 *)

AtSelect == proc[0].at = "select"

TakesBet ==
  /\ AtSelect /\ betChan # <<>>
  /\ betChan' = Tail(betChan)
  /\ LET b == Head(betChan)
     IN  IF Running(current)
         THEN /\ proc' = [proc EXCEPT ![0] =
                   [at |-> "bet", game |-> current, req |-> b, odds |-> 0]]
              /\ UNCHANGED reply
         ELSE Answer(b, "refused") /\ UNCHANGED proc
  /\ UNCHANGED <<pointers, due, up, commands, cashChan, store>>

\* Variant with a bug: the debit is not of the transaction that inserts the bet.
InsertBetApart ==
  LET b == proc[0].req
  IN  /\ proc[0].at = "bet" /\ Goto(0, "select")
      /\ balance[UserOf[b]] >= Amount[b]
      /\ balance' = [balance EXCEPT ![UserOf[b]] = @ - Amount[b]]
      /\ \/ /\ bets' = [bets EXCEPT ![b] =
                          [NoBet EXCEPT !.game = proc[0].game, !.status = "ACTIVE"]]
            /\ Answer(b, "ok")
         \/ Answer(b, "failed") /\ UNCHANGED bets
      /\ UNCHANGED <<pointers, due, up, channels>>

\* CreateBetWithWalletUpdate: one transaction.  When it fails nothing is stored, unless
\* it is the answer of its commit that was lost: the caller cannot tell.
InsertBet ==
  LET b == proc[0].req
  IN  /\ proc[0].at = "bet" /\ Goto(0, "select")
      /\ \/ /\ balance[UserOf[b]] >= Amount[b]
            /\ balance' = [balance EXCEPT ![UserOf[b]] = @ - Amount[b]]
            /\ bets' = [bets EXCEPT ![b] =
                          [NoBet EXCEPT !.game = proc[0].game, !.status = "ACTIVE"]]
            /\ \E answer \in {"ok", "failed"} : Answer(b, answer)
         \/ Answer(b, "failed") /\ UNCHANGED store
      /\ UNCHANGED <<pointers, due, up, channels>>

TakesCashout ==
  /\ AtSelect /\ cashChan # <<>>
  /\ cashChan' = Tail(cashChan)
  /\ LET c == Head(cashChan)
     IN  IF current # 0
         THEN /\ proc' = [proc EXCEPT ![0] = [Idle EXCEPT !.at = "odds", !.req = c]]
              /\ UNCHANGED reply
         ELSE Answer(c, "refused") /\ UNCHANGED proc
  /\ UNCHANGED <<pointers, due, up, commands, betChan, store>>

\* getCurrentOdds reads currentGame again (nil: odds of 1), then GetByID, which may fail.
ReadOdds ==
  LET c == proc[0].req
      now == IF current = 0 THEN 100 ELSE Odds(current)
  IN  /\ proc[0].at = "odds"
      /\ \/ Answer(c, "refused") /\ Goto(0, "select")
         \/ /\ bets[Wanted[c]].status # "NONE"
            /\ proc' = [proc EXCEPT ![0].at = "cash", ![0].odds = now]
            /\ UNCHANGED reply
      /\ UNCHANGED <<pointers, due, up, channels, store>>

\* Variant with a bug: UpdateCashout, which does not look at the status.
CashoutAgain ==
  LET c == proc[0].req
      b == Wanted[c]
  IN  /\ proc[0].at = "cash" /\ Goto(0, "select")
      /\ bets' = [bets EXCEPT ![b].status = "CASHED_OUT", ![b].at = proc[0].odds,
                              ![b].payout = (Amount[b] * proc[0].odds) \div 100]
      /\ Answer(c, "ok")
      /\ UNCHANGED <<pointers, due, up, channels, balance>>

\* It records the payout; nothing in this path credits the wallet.  The UPDATE commits
\* by itself, and its answer may be lost.
AtomicCashout ==
  LET c == proc[0].req
      b == Wanted[c]
  IN  /\ proc[0].at = "cash" /\ Goto(0, "select")
      /\ \/ /\ bets[b].status = "ACTIVE"
            /\ bets' = [bets EXCEPT ![b].status = "CASHED_OUT", ![b].at = proc[0].odds,
                                    ![b].payout = (Amount[b] * proc[0].odds) \div 100]
            /\ \E answer \in {"ok", "failed"} : Answer(c, answer)
         \/ bets[b].status # "ACTIVE" /\ Answer(c, "refused") /\ UNCHANGED bets
         \/ Answer(c, "failed") /\ UNCHANGED bets
      /\ UNCHANGED <<pointers, due, up, channels, balance>>

\* startGameInternal and createGame, whose insert may fail after the old game
\* has been cancelled and the round counted.
TakesStart ==
  /\ AtSelect /\ commands # <<>> /\ Head(commands) = "START" /\ round < MaxRounds
  /\ commands' = Tail(commands)
  /\ round' = round + 1
  /\ cancelled' = cancelled \cup ({cancel} \ {0})
  /\ \/ \E d \in Draws :
          /\ games' = [games EXCEPT ![round'] = [status |-> "RUNNING",
                         row |-> "RUNNING", crash |-> CrashPoint(d[1], d[2]), age |-> 0]]
          /\ current' = round' /\ cancel' = round' /\ shown' = round'
          /\ Goto(round', "start")
     \/ UNCHANGED <<games, current, cancel, shown, proc>>
  /\ UNCHANGED <<due, up, betChan, cashChan, store, reply>>

TakesCrash ==
  /\ AtSelect /\ commands # <<>> /\ Head(commands) = "CRASH"
  /\ commands' = Tail(commands)
  /\ Goto(0, IF current = 0 THEN "select" ELSE "mark")
  /\ UNCHANGED <<pointers, due, up, betChan, cashChan, store, reply>>

\* After crashGame: settleBets and the rest of crashGameInternal.
Settle ==
  /\ proc[0].at = "settle" /\ Goto(0, "select")
  /\ bets' = [b \in Bets |-> IF current # 0 /\ b \in GetActiveByGame(current)
                THEN [bets[b] EXCEPT !.status = "LOST"] ELSE bets[b]]
  /\ current' = 0 /\ shown' = 0 /\ cancel' = 0
  /\ cancelled' = cancelled \cup ({cancel} \ {0})
  /\ UNCHANGED <<round, games, due, up, channels, balance, reply>>

-----------------------------------------------------------------------------
(* What the manager and the loops share: tick and crashGame.               *)

\* The manager's ticker is a case of its select that wins when no other is ready.
MayTick(p) ==
  IF p = 0 THEN AtSelect /\ commands = <<>> /\ betChan = <<>> /\ cashChan = <<>>
  ELSE p \in due /\ proc[p].at = "wait"

AfterTick(p) == Goto(p, IF p = 0 THEN "select" ELSE "check")

Tick(p) ==
  /\ MayTick(p) /\ due' = due \ {p}
  /\ IF ~Running(current) THEN AfterTick(p) /\ UNCHANGED <<shown, store>>
     ELSE IF Reached(current) THEN Goto(p, "send") /\ UNCHANGED <<shown, store>>
     ELSE CreditAuto(current) /\ shown' = current /\ AfterTick(p)
  /\ UNCHANGED <<current, round, cancel, cancelled, games, up, channels, reply>>

\* Blocks while the channel is full.
SendCrash(p) ==
  /\ proc[p].at = "send" /\ Len(commands) < Capacity
  /\ commands' = Append(commands, "CRASH") /\ AfterTick(p)
  /\ UNCHANGED <<pointers, due, up, betChan, cashChan, store, reply>>

AfterCrash(p) == Goto(p, IF p = 0 THEN "settle" ELSE "done")

CrashMark(p) ==
  /\ proc[p].at = "mark"
  /\ IF current = 0 THEN AfterCrash(p) /\ UNCHANGED games
     ELSE /\ games' = [games EXCEPT ![current].status = "CRASHED"]
          /\ proc' = [proc EXCEPT ![p].at = "row", ![p].game = current]
  /\ UNCHANGED <<current, round, cancel, cancelled, shown, due, up, channels, store, reply>>

\* The update fails with the database, and with the context of the loop.
CrashRow(p) ==
  /\ proc[p].at = "row" /\ proc' = [proc EXCEPT ![p].at = "nil"]
  /\ \/ p \notin cancelled /\ games' = [games EXCEPT ![proc[p].game].row = "CRASHED"]
     \/ UNCHANGED games
  /\ UNCHANGED <<current, round, cancel, cancelled, shown, due, up, channels, store, reply>>

CrashNil(p) ==
  /\ proc[p].at = "nil" /\ current' = 0 /\ AfterCrash(p)
  /\ UNCHANGED <<round, cancel, cancelled, games, shown, due, up, channels, store, reply>>

-----------------------------------------------------------------------------
(* The loop of game g.                                                     *)

\* It reads the crash point of whatever game is current, and panics on nil.
LoopStart(g) ==
  /\ proc[g].at = "start"
  /\ IF current = 0 THEN up' = FALSE /\ UNCHANGED proc
     ELSE /\ proc' = [proc EXCEPT ![g].at = "wait", ![g].odds = games[current].crash]
          /\ UNCHANGED up
  /\ UNCHANGED <<pointers, due, channels, store, reply>>

LoopCancelled(g) ==
  /\ proc[g].at = "wait" /\ g \in cancelled /\ Goto(g, "done")
  /\ UNCHANGED <<pointers, due, up, channels, store, reply>>

LoopCheck(g) ==
  /\ proc[g].at = "check"
  /\ proc' = [proc EXCEPT ![g].at = IF ShouldCrash(proc[g].odds) THEN "mark" ELSE "wait"]
  /\ UNCHANGED <<pointers, due, up, channels, store, reply>>

-----------------------------------------------------------------------------
\* A second: the ticker of every loop fires, wherever the goroutines are.
Pass ==
  /\ due' = {g \in Rounds : proc[g].at \notin {"none", "done"}}
  /\ games' = [g \in Rounds |->
       IF games[g].status = "RUNNING" /\ games[g].age < MaxAge
       THEN [games[g] EXCEPT !.age = @ + 1] ELSE games[g]]
  /\ UNCHANGED <<current, round, cancel, cancelled, shown, proc, up, channels, store, reply>>

Manager == TakesBet \/ InsertBet \/ TakesCashout \/ ReadOdds \/ AtomicCashout
             \/ TakesStart \/ TakesCrash \/ Settle
Shared(p) == Tick(p) \/ SendCrash(p) \/ CrashMark(p) \/ CrashRow(p) \/ CrashNil(p)
Loop(g) == LoopStart(g) \/ LoopCancelled(g) \/ LoopCheck(g) \/ Shared(g)
Caller(r) ==
  \/ r \in Starters /\ (StartGame(r) \/ SendStart(r))
  \/ r \in Bets /\ PlaceBet(r)
  \/ r \in Cashouts /\ Cashout(r)
  \/ Timeout(r)

EngineNext ==
  /\ up
  /\ \/ Manager \/ Shared(0) \/ Pass
     \/ \E g \in Rounds : Loop(g)
     \/ \E r \in EngineRequests : Caller(r)

EngineSpec == EngineInit /\ [][EngineNext]_engineVars

\* The goroutines are scheduled and the clock runs; nobody has to call.
EngineFairness ==
  /\ WF_engineVars(up /\ (Manager \/ Shared(0))) /\ WF_engineVars(up /\ Pass)
  /\ \A g \in Rounds : WF_engineVars(up /\ Loop(g))

-----------------------------------------------------------------------------
Placed(b) == bets[b].status # "NONE"
Credited(b) == IF bets[b].auto # 0 THEN bets[b].payout ELSE 0
BetsOf(u) == {b \in Bets : Placed(b) /\ UserOf[b] = u}
StakesOf(u) == SumFunction([b \in BetsOf(u) |-> Amount[b]])
CreditsOf(u) == SumFunction([b \in BetsOf(u) |-> Credited(b)])

\* Whatever its caller was told -- success, an error whose commit went through, nothing
\* in five seconds -- a stored bet has taken its stake once, a bet not stored has taken
\* none, and the wallet is never negative; success means stored, and a bet refused for
\* its amount or for want of a running game is never stored.
StakesTaken ==
  /\ \A u \in Users :
       balance[u] >= 0 /\ balance[u] = Opening[u] - StakesOf(u) + CreditsOf(u)
  /\ \A b \in Bets : /\ reply[b] = "ok" => Placed(b)
                     /\ reply[b] = "refused" => ~Placed(b)

\* A cashed-out bet keeps its odds and payout whatever arrives later
\* (AtomicCashout's condition on the status), and one caller at most is told so.
CashedOutIsFinal ==
  /\ [][\A b \in Bets : bets[b].status = "CASHED_OUT" => bets'[b] = bets[b]]_engineVars
  /\ [](\A c, d \in Cashouts :
          reply[c] = "ok" /\ reply[d] = "ok" /\ Wanted[c] = Wanted[d] => c = d)

\* The manager has found the game's crash point reached and waits to tell itself, in the
\* channel that it alone empties, which the loops have filled meanwhile.
Jammed == proc[0].at = "send" /\ Len(commands) = Capacity

\* No game stays current for ever: it crashes, is replaced, is cleared by the loop of
\* another game, or a loop's panic takes the process down (gameLoop reading a nil
\* currentGame).  The one way to stall is the manager's own send into a full channel
\* (tick); requests, starts and crashes that meet a full channel never stall it.
EveryGameEnds == \A g \in Rounds : current = g ~> (current # g \/ ~up \/ Jammed)

-----------------------------------------------------------------------------
(* The inductive invariant from which ServicesProofs derives the above.  *)

BetRow ==
  [game : Procs, auto : {0}, status : {"NONE", "ACTIVE", "CASHED_OUT", "LOST"},
   at : Int, payout : Int]
GameStatuses == {"NONE", "RUNNING", "CRASHED"}
Game == [status : GameStatuses, row : GameStatuses, crash : Int, age : Nat]
Places == {"none", "select", "bet", "odds", "cash", "settle", "send", "check", "wait",
           "mark", "row", "nil", "start", "done"}
Goroutine == [at : Places, game : Procs, req : EngineRequests \cup {"none"}, odds : Int]

Replies == {"none", "idle", "waiting", "timeout", "ok", "refused", "failed"}

EngineTypes ==
  /\ current \in Procs /\ round \in Procs
  /\ games \in [Rounds -> Game]
  /\ proc \in [Procs -> Goroutine]
  /\ betChan \in Seq(Bets) /\ cashChan \in Seq(Cashouts)
  /\ bets \in [Bets -> BetRow] /\ balance \in [Users -> Int]
  /\ reply \in [EngineRequests -> Replies]

\* A bet waits in the channel once, and it or the one in hand has no row and no answer yet.
Pending(b) == ~Placed(b) /\ reply[b] \in {"waiting", "timeout"}
QueueInv ==
  /\ \A i, j \in DOMAIN betChan : betChan[i] = betChan[j] => i = j
  /\ \A i \in DOMAIN betChan : Pending(betChan[i])
  /\ proc[0].at = "bet" =>
       /\ proc[0].req \in Bets /\ Pending(proc[0].req)
       /\ \A i \in DOMAIN betChan : betChan[i] # proc[0].req
  /\ proc[0].at \in {"odds", "cash"} => proc[0].req \in Cashouts
  /\ \A b \in Bets : reply[b] \in {"none", "idle"} => ~Placed(b)

\* Who was told of a cash-out has cashed out a bet nobody else was told of.
CashoutsInv ==
  /\ \A c \in Cashouts : reply[c] = "ok" => bets[Wanted[c]].status = "CASHED_OUT"
  /\ \A c, d \in Cashouts :
       reply[c] = "ok" /\ reply[d] = "ok" /\ Wanted[c] = Wanted[d] => c = d

EngineInv == EngineTypes /\ QueueInv /\ CashoutsInv /\ StakesTaken
=============================================================================
