------------------------------- MODULE Wallet -------------------------------
(***************************************************************************)
(* The wallet service (internal/core/usecase/wallet) and the PlaceBet use  *)
(* case that runs two of its movements and the bet insert in one database  *)
(* transaction (internal/core/usecase/place_bet.go).                       *)
(*                                                                         *)
(* A request is one call of Credit, Debit or PlaceBet and owns one         *)
(* PostgreSQL transaction at READ COMMITTED.  Its statements are separate  *)
(* steps, so that the statements of several requests interleave; a         *)
(* statement reads the request's own uncommitted row if it wrote one and   *)
(* the committed row otherwise, and takes or waits for the row lock as     *)
(* PostgreSQL does.                                                        *)
(***************************************************************************)
EXTENDS Integers, Sequences, Tax

CONSTANTS
  Users,           \* users that requests name
  Owners,          \* the users that have a wallet row
  Eligible,        \* the users for whom User.CanPlaceBet holds
  InitialBalance,  \* [Owners -> Nat]: balances when the system starts
  Requests,        \* bounds the number of requests
  Amounts,         \* amounts passed to Credit and Debit, zero included
  Stakes,          \* stakes passed to PlaceBet
  MinStake,        \* PlaceBetUseCase.minStake
  MaxStake,        \* PlaceBetUseCase.maxStake
  NoRequest        \* the lock value of an unlocked row

ASSUME WalletAssumption ==
  /\ Users # {}
  /\ Owners \subseteq Users
  /\ InitialBalance \in [Owners -> Nat]
  /\ Amounts \subseteq Nat
  /\ Stakes \subseteq Nat
  /\ MinStake \in Nat \ {0}
  /\ NoRequest \notin Requests

VARIABLES
  wallets,       \* committed rows of table wallets
  transactions,  \* committed rows of table transactions, per wallet
  bets,          \* requests whose bet row is committed
  lock,          \* which request's transaction holds the wallet's row lock
  pc,            \* the statement each request executes next
  user,          \* the user each request is about
  stake,         \* gross stake of the bet the request inserts, 0 if none
  todo,          \* movements the request has still to apply
  read,          \* the row scanned by the last SELECT ... FOR UPDATE
  view,          \* the wallet row as the request's transaction sees it
  rows,          \* audit rows inserted and not yet committed
  reply          \* what the caller was told

store == <<wallets, transactions, bets>>
call  == <<user, stake>>
vars  == <<wallets, transactions, bets, lock, pc, user, stake, todo, read,
           view, rows, reply>>

MovementType == {"DEPOSIT", "WITHDRAWAL", "BET_PLACED", "TAX_DEDUCTION"}
Movement == [amount : Int, type : MovementType]
Row == [balance : Int, version : Nat]
AuditRow == [ref : Requests, type : MovementType, amount : Nat,
             before : Int, after : Int]

InTx == {"select", "update", "insert", "bet", "commit"}
Replies == {"none", "ok", "invalid", "not found", "insufficient",
            "conflict", "ineligible", "tax", "error"}

Abs(n) == IF n < 0 THEN -n ELSE n
NoRow == [balance |-> 0, version |-> 0]

TypeOK ==
  /\ wallets \in [Owners -> Row]
  /\ transactions \in [Owners -> Seq(AuditRow)]
  /\ bets \subseteq Requests
  /\ lock \in [Owners -> Requests \cup {NoRequest}]
  /\ pc \in [Requests -> InTx \cup {"idle", "done"}]
  /\ user \in [Requests -> Users]
  /\ stake \in [Requests -> Nat]
  /\ todo \in [Requests -> Seq(Movement)]
  /\ read \in [Requests -> Row]
  /\ view \in [Requests -> Row]
  /\ rows \in [Requests -> Seq(AuditRow)]
  /\ reply \in [Requests -> Replies]

Init ==
  /\ wallets = [u \in Owners |->
                  [balance |-> InitialBalance[u], version |-> 1]]
  /\ transactions = [u \in Owners |-> <<>>]
  /\ bets = {}
  /\ lock = [u \in Owners |-> NoRequest]
  /\ pc = [r \in Requests |-> "idle"]
  /\ user = [r \in Requests |-> CHOOSE u \in Users : TRUE]
  /\ stake = [r \in Requests |-> 0]
  /\ todo = [r \in Requests |-> <<>>]
  /\ read = [r \in Requests |-> NoRow]
  /\ view = [r \in Requests |-> NoRow]
  /\ rows = [r \in Requests |-> <<>>]
  /\ reply = [r \in Requests |-> "none"]

-----------------------------------------------------------------------------
(* The transaction as the database runs it.                                *)

\* Variant with a bug: a later statement reads the committed row again.
CommittedRow(r) == wallets[user[r]]

\* The row a statement of r sees: the one its transaction wrote, if it did.
Current(r) == IF view[r].version > 0 THEN view[r] ELSE wallets[user[r]]

\* The row lock can be taken, or is already held, by r.
Lockable(r) == lock[user[r]] \in {NoRequest, r}

TakeLock(r) ==
  /\ Lockable(r)
  /\ lock' = [lock EXCEPT ![user[r]] = r]

\* Variant with a bug: the transaction is left open and keeps its row lock.
NothingReleased(r) == lock

\* Commit, and the rollback deferred by Apply and Execute, release the lock.
Released(r) == [u \in Owners |-> IF lock[u] = r THEN NoRequest ELSE lock[u]]

Finish(r, answer) ==
  /\ pc' = [pc EXCEPT ![r] = "done"]
  /\ reply' = [reply EXCEPT ![r] = answer]
  /\ lock' = Released(r)
  /\ todo' = [todo EXCEPT ![r] = <<>>]
  /\ read' = [read EXCEPT ![r] = NoRow]
  /\ view' = [view EXCEPT ![r] = NoRow]
  /\ rows' = [rows EXCEPT ![r] = <<>>]
  /\ UNCHANGED call

Rollback(r, answer) == Finish(r, answer) /\ UNCHANGED store

-----------------------------------------------------------------------------
(* The calls.  Each is refused at once or opens a transaction.             *)

Refuse(r, u, answer) ==
  /\ user' = [user EXCEPT ![r] = u]
  /\ pc' = [pc EXCEPT ![r] = "done"]
  /\ reply' = [reply EXCEPT ![r] = answer]
  /\ UNCHANGED <<store, lock, stake, todo, read, view, rows>>

Open(r, u, movements, gross) ==
  /\ user' = [user EXCEPT ![r] = u]
  /\ stake' = [stake EXCEPT ![r] = gross]
  /\ todo' = [todo EXCEPT ![r] = movements]
  /\ pc' = [pc EXCEPT ![r] = "select"]
  /\ UNCHANGED <<store, lock, read, view, rows, reply>>

Credit(r, u, amount) ==
  /\ pc[r] = "idle"
  /\ IF amount = 0
     THEN Refuse(r, u, "invalid")
     ELSE Open(r, u, <<[amount |-> amount, type |-> "DEPOSIT"]>>, 0)

Debit(r, u, amount) ==
  /\ pc[r] = "idle"
  /\ IF amount = 0
     THEN Refuse(r, u, "invalid")
     ELSE Open(r, u, <<[amount |-> -amount, type |-> "WITHDRAWAL"]>>, 0)

\* Steps 1 to 3 of Execute: why the bet is refused before any statement.
BetRefusal(u, country, gross) ==
  IF u \notin Eligible THEN "ineligible"
  ELSE IF gross < MinStake \/ gross > MaxStake THEN "invalid"
  ELSE IF StakeTaxRefused(country, gross) THEN "tax"
  ELSE "none"

StakeMovements(b) ==
  LET bet  == [amount |-> -b.net, type |-> "BET_PLACED"]
      levy == [amount |-> -b.tax, type |-> "TAX_DEDUCTION"]
  IN  IF b.tax > 0 THEN <<bet, levy>> ELSE <<bet>>

PlaceBet(r, u, country, gross) ==
  /\ pc[r] = "idle"
  /\ LET refusal == BetRefusal(u, country, gross)
     IN  IF refusal # "none"
         THEN Refuse(r, u, refusal)
         ELSE Open(r, u, StakeMovements(StakeBreakdown(country, gross)), gross)

-----------------------------------------------------------------------------
(* ApplyTx, statement by statement, for the first movement in todo[r].     *)

Amount(r) == Head(todo[r]).amount

\* Variant with a bug: the funds are checked against the committed balance, so the
\* second movement of a bet does not see what the first one took.
CommittedCovers(r) == wallets[user[r]].balance + Amount(r) >= 0

Covers(r) == Current(r).balance + Amount(r) >= 0

\* Variant with a bug: a plain SELECT.
NoLock(r) == Lockable(r) /\ UNCHANGED lock

\* The FOR UPDATE of the SELECT.
ForUpdate(r) == TakeLock(r)

SelectForUpdate(r) ==
  /\ pc[r] = "select"
  /\ IF Amount(r) = 0
     THEN Rollback(r, "invalid")
     ELSE IF user[r] \notin Owners
     THEN Rollback(r, "not found")
     ELSE IF Covers(r)
     THEN /\ ForUpdate(r)
          /\ read' = [read EXCEPT ![r] = Current(r)]
          /\ pc' = [pc EXCEPT ![r] = "update"]
          /\ UNCHANGED <<store, call, todo, view, rows, reply>>
     ELSE Lockable(r) /\ Rollback(r, "insufficient")

NewRow(r) == [balance |-> read[r].balance + Amount(r),
              version |-> read[r].version + 1]

\* UPDATE wallets ... WHERE id = $3 AND version = $4.
UpdateWallet(r) ==
  /\ pc[r] = "update"
  /\ IF Current(r).version = read[r].version
     THEN /\ TakeLock(r)
          /\ view' = [view EXCEPT ![r] = NewRow(r)]
          /\ pc' = [pc EXCEPT ![r] = "insert"]
          /\ UNCHANGED <<store, call, todo, read, rows, reply>>
     ELSE Lockable(r) /\ Rollback(r, "conflict")

\* createTransactionRecord: the amount loses its sign.
Record(r) ==
  [ref |-> r, type |-> Head(todo[r]).type, amount |-> Abs(Amount(r)),
   before |-> read[r].balance, after |-> read[r].balance + Amount(r)]

InsertTransaction(r) ==
  /\ pc[r] = "insert"
  /\ rows' = [rows EXCEPT ![r] = Append(@, Record(r))]
  /\ todo' = [todo EXCEPT ![r] = Tail(@)]
  /\ pc' = [pc EXCEPT ![r] =
              IF Len(todo[r]) > 1 THEN "select"
              ELSE IF stake[r] > 0 THEN "bet" ELSE "commit"]
  /\ UNCHANGED <<store, call, lock, read, view, reply>>

\* bets.InsertTx; the row becomes visible at commit.
InsertBet(r) ==
  /\ pc[r] = "bet"
  /\ pc' = [pc EXCEPT ![r] = "commit"]
  /\ UNCHANGED <<store, call, lock, todo, read, view, rows, reply>>

PostRows(r) ==
  /\ wallets' = [wallets EXCEPT ![user[r]] = view[r]]
  /\ transactions' = [transactions EXCEPT ![user[r]] = @ \o rows[r]]

\* COMMIT.  The caller is told "ok", or "error" when the connection is lost
\* after the server committed.
Commit(r) ==
  /\ pc[r] = "commit"
  /\ PostRows(r)
  /\ bets' = IF stake[r] > 0 THEN bets \cup {r} ELSE bets
  /\ \E answer \in {"ok", "error"} : Finish(r, answer)

\* Variant with a bug: the movements ran on the handle instead of the transaction,
\* so they are already durable when a later statement fails.
FailHalfway(r) ==
  /\ pc[r] \in InTx
  /\ IF rows[r] # <<>> THEN PostRows(r) ELSE UNCHANGED <<wallets, transactions>>
  /\ UNCHANGED bets
  /\ Finish(r, "error")

\* A statement fails, the context is cancelled or the process dies.
Fail(r) ==
  /\ pc[r] \in InTx
  /\ Rollback(r, "error")

AllDone ==
  /\ \A r \in Requests : pc[r] = "done"
  /\ UNCHANGED vars

Step(r) ==
  \/ SelectForUpdate(r)
  \/ UpdateWallet(r)
  \/ InsertTransaction(r)
  \/ InsertBet(r)
  \/ Commit(r)

Call(r) ==
  \E u \in Users :
    \/ \E amount \in Amounts : Credit(r, u, amount)
    \/ \E amount \in Amounts : Debit(r, u, amount)
    \/ \E country \in Countries, gross \in Stakes :
         PlaceBet(r, u, country, gross)

Next ==
  \/ \E r \in Requests : Call(r)
  \/ \E r \in Requests : Step(r)
  \/ \E r \in Requests : Fail(r)
  \/ AllDone

Spec == Init /\ [][Next]_vars

\* The database executes the statement it was given and a request never
\* stops between statements without the connection failing.
Fairness == \A r \in Requests : WF_vars(Step(r))

FairSpec == Spec /\ Fairness

-----------------------------------------------------------------------------
(* Properties.                                                             *)

Promise ==
  INSTANCE Ledger WITH balance <- [u \in Owners |-> wallets[u].balance],
                       entries <- transactions

\* The service implements the atomic ledger of its package comment, whatever
\* statements of other requests run in between and wherever a request fails.
ImplementsLedger == Promise!LedgerSpec

\* The audit rows of a wallet form one unbroken trail from the balance it
\* started with to the balance it has, so no committed movement was lost or
\* overwritten by a concurrent one (ApplyTx's BalanceBefore / BalanceAfter).
AuditTrail ==
  \A u \in Owners :
    /\ Promise!Continues(InitialBalance[u], transactions[u])
    /\ wallets[u].balance =
         IF transactions[u] = <<>> THEN InitialBalance[u]
         ELSE transactions[u][Len(transactions[u])].after

\* No interleaving of debits, nor the two debits of one bet, overdraws a
\* wallet (the newBalance.IsNegative check of ApplyTx), and every variable
\* keeps its type.
NeverOverdrawn == TypeOK /\ \A u \in Owners : wallets[u].balance >= 0

\* The version column counts the movements of the wallet, which is what a
\* reader that compares versions relies on.
VersionCountsMovements ==
  \A u \in Owners : wallets[u].version = 1 + Len(transactions[u])

\* While every writer of the table locks the row first, the guard on the
\* version never fires: ErrOptimisticConflict is unreachable.
LockMakesGuardRedundant == \A r \in Requests : reply[r] # "conflict"

RowsOf(r) ==
  IF user[r] \in Owners
  THEN {i \in 1 .. Len(transactions[user[r]]) :
          transactions[user[r]][i].ref = r}
  ELSE {}

\* A bet row exists exactly when the player was debited its gross stake, in
\* consecutive audit rows, and a bet that failed anywhere took nothing
\* (the comment on PlaceBetUseCase).
BetIffPaid ==
  \A r \in Requests :
    IF r \in bets
    THEN \E i, j \in RowsOf(r) :
           /\ RowsOf(r) = i .. j
           /\ transactions[user[r]][i].before - transactions[user[r]][j].after
                = stake[r]
    ELSE stake[r] > 0 => RowsOf(r) = {}

\* The answer a caller gets is true: "ok" means durable, every refusal (all
\* answers but "ok" and "error") means that the wallet is untouched, and what
\* was paid for a bet is never without its row.
AnswersAreTrue ==
  /\ BetIffPaid
  /\ \A r \in Requests :
       /\ reply[r] = "ok" => RowsOf(r) # {}
       /\ reply[r] \notin {"ok", "error"} => RowsOf(r) = {}

\* Every call that opened a transaction is answered: no request waits for a
\* row lock for ever, although failures may happen at any statement.
EveryCallAnswered ==
  \A r \in Requests : (pc[r] \in InTx) ~> (pc[r] = "done")
-----------------------------------------------------------------------------
(* The inductive invariant from which WalletProofs derives the properties. *)

\* Where the rows a transaction has written so far leave the balance.
End(b, s) == IF s = <<>> THEN b ELSE s[Len(s)].after

\* The wallet row after the movements r has recorded.
Standing(r) == [balance |-> End(wallets[user[r]].balance, rows[r]),
                version |-> wallets[user[r]].version + Len(rows[r])]

\* From the first movement it has read until it ends, a transaction on a
\* wallet holds that wallet's row lock.
LockHeldBy(r) ==
  \/ pc[r] \in {"update", "insert", "bet", "commit"}
  \/ pc[r] = "select" /\ rows[r] # <<>>
  => user[r] \in Owners /\ lock[user[r]] = r

\* What a transaction has read and written agrees with the committed wallet
\* followed by its own movements.
Agrees(r) ==
  pc[r] \in InTx /\ user[r] \in Owners =>
    /\ Promise!Continues(wallets[user[r]].balance, rows[r])
    /\ pc[r] # "insert" => Current(r) = Standing(r)
    /\ pc[r] \in {"update", "insert"} =>
         read[r] = Standing(r) /\ NewRow(r).balance >= 0 /\ Amount(r) # 0
    /\ pc[r] = "insert" => view[r] = NewRow(r)
    /\ rows[r] # <<>> => view[r].version > 0
    /\ rows[r] = <<>> /\ pc[r] = "select" => view[r].version = 0

\* A transaction stands at a movement, or has applied them all.
TodoAgrees ==
  \A r \in Requests :
    /\ pc[r] \in {"select", "update", "insert"} => todo[r] # <<>>
    /\ pc[r] \in {"bet", "commit"} => rows[r] # <<>>
    /\ pc[r] \notin InTx => view[r] = NoRow /\ rows[r] = <<>>

IInv ==
  /\ TypeOK
  /\ TodoAgrees
  /\ \A r \in Requests : LockHeldBy(r) /\ Agrees(r)
  /\ AuditTrail
  /\ VersionCountsMovements
  /\ LockMakesGuardRedundant

\* No table holds anything of r.
NoTrace(r) ==
  /\ r \notin bets
  /\ \A u \in Owners : \A i \in 1 .. Len(transactions[u]) :
       transactions[u][i].ref # r

\* The tables hold all of r: consecutive rows, and with them the bet they paid.
Posted(r) ==
  /\ user[r] \in Owners
  /\ r \in bets <=> stake[r] > 0
  /\ \E i, j \in RowsOf(r) :
       /\ RowsOf(r) = i .. j
       /\ r \in bets =>
            transactions[user[r]][i].before - transactions[user[r]][j].after
              = stake[r]

\* All or nothing of r is in the tables, and r was told which, or "error".
Told(r) ==
  \/ NoTrace(r) /\ reply[r] # "ok"
  \/ Posted(r) /\ pc[r] = "done" /\ reply[r] \in {"ok", "error"}

\* What the rows of a transaction have taken from the wallet, and what the
\* movements still to come will take.
Taken(s) == IF s = <<>> THEN 0 ELSE s[1].before - s[Len(s)].after
Owed(t) == IF t = <<>> THEN 0
           ELSE IF Len(t) = 1 THEN -t[1].amount
           ELSE -(t[1].amount + t[2].amount)

\* The transaction of a bet takes the gross stake, in rows of its own.
Paying(r) ==
  pc[r] \in InTx =>
    /\ \A i \in 1 .. Len(rows[r]) : rows[r][i].ref = r
    /\ pc[r] \in {"bet", "commit"} => todo[r] = <<>>
    /\ stake[r] > 0 =>
         Len(todo[r]) <= 2 /\ Taken(rows[r]) + Owed(todo[r]) = stake[r]

AnswersInv == \A r \in Requests : Told(r) /\ Paying(r)
=============================================================================
