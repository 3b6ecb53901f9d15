---------------------------- MODULE WalletProofs ----------------------------
(***************************************************************************)
(* Theorems about Wallet, for every set of users, requests, amounts,       *)
(* stakes and tax regimes.                                                 *)
(***************************************************************************)
EXTENDS Wallet, SequenceTheorems, TLAPS

USE DEF InTx, Replies, store, call

-----------------------------------------------------------------------------
(* The audit trail as a sequence.                                          *)

\* An audit row that starts where a trail ends continues that trail
\* (createTransactionRecord after the rows of earlier movements).
LEMMA ContinuesAppend ==
  ASSUME NEW b \in Int, NEW s \in Seq(AuditRow), NEW e \in AuditRow,
         Promise!Continues(b, s),
         e.before = End(b, s), e.amount > 0, e.after >= 0,
         e.after = e.before + e.amount \/ e.after = e.before - e.amount
  PROVE  Promise!Continues(b, Append(s, e)) /\ End(b, Append(s, e)) = e.after
<1> DEFINE t == Append(s, e)
<1>1. /\ Len(t) = Len(s) + 1 /\ Len(s) \in Nat
      /\ \A i \in 1 .. Len(s) : t[i] = s[i]
      /\ t[Len(t)] = e /\ t # <<>>
  OBVIOUS
<1>2. t[Len(t)].before = (IF Len(t) = 1 THEN b ELSE t[Len(t) - 1].after)
  BY <1>1 DEF End
<1>3. \A i \in 1 .. Len(t) :
        /\ t[i].before = (IF i = 1 THEN b ELSE t[i - 1].after)
        /\ \/ t[i].after = t[i].before + t[i].amount
           \/ t[i].after = t[i].before - t[i].amount
        /\ t[i].amount > 0
        /\ t[i].after >= 0
  <2> SUFFICES ASSUME NEW i \in 1 .. Len(t)
               PROVE  /\ t[i].before = (IF i = 1 THEN b ELSE t[i - 1].after)
                      /\ \/ t[i].after = t[i].before + t[i].amount
                         \/ t[i].after = t[i].before - t[i].amount
                      /\ t[i].amount > 0
                      /\ t[i].after >= 0
    OBVIOUS
  <2>1. CASE i = Len(t)
    BY <1>1, <1>2, <2>1
  <2>2. CASE i # Len(t)
    <3> HIDE DEF t
    <3>1. i \in 1 .. Len(s) /\ (i # 1 => i - 1 \in 1 .. Len(s))
      BY <1>1, <2>2
    <3> QED BY <3>1, <1>1 DEF Promise!Continues
  <2> QED BY <2>1, <2>2
<1>4. Promise!Continues(b, t)
  BY <1>3 DEF Promise!Continues
<1>5. End(b, t) = e.after
  BY <1>1 DEF End
<1> QED BY <1>4, <1>5

\* A trail that starts where another one ends continues it (COMMIT appends a
\* request's rows to the wallet's).
LEMMA ContinuesConcat ==
  ASSUME NEW b \in Int, NEW s \in Seq(AuditRow), NEW t \in Seq(AuditRow),
         Promise!Continues(b, s), Promise!Continues(End(b, s), t)
  PROVE  Promise!Continues(b, s \o t) /\ End(b, s \o t) = End(End(b, s), t)
<1> DEFINE st == s \o t
<1>1. /\ Len(s) \in Nat /\ Len(t) \in Nat /\ Len(st) = Len(s) + Len(t)
      /\ \A i \in 1 .. Len(st) : st[i] = IF i <= Len(s) THEN s[i]
                                         ELSE t[i - Len(s)]
      /\ st = <<>> <=> Len(st) = 0
      /\ s = <<>> <=> Len(s) = 0
      /\ t = <<>> <=> Len(t) = 0
  OBVIOUS
<1> HIDE DEF st
<1>2. ASSUME NEW i \in 1 .. Len(st)
      PROVE  /\ st[i].before = (IF i = 1 THEN b ELSE st[i - 1].after)
             /\ \/ st[i].after = st[i].before + st[i].amount
                \/ st[i].after = st[i].before - st[i].amount
             /\ st[i].amount > 0
             /\ st[i].after >= 0
  <2>1. CASE i <= Len(s)
    <3>1. i \in 1 .. Len(s) /\ st[i] = s[i]
      BY <1>1, <2>1
    <3>2. i # 1 => st[i - 1] = s[i - 1]
      BY <1>1, <2>1
    <3> QED BY <3>1, <3>2 DEF Promise!Continues
  <2>2. CASE i > Len(s)
    <3> DEFINE j == i - Len(s)
    <3>1. j \in 1 .. Len(t) /\ st[i] = t[j]
      BY <1>1, <2>2
    <3>2. st[i].before = (IF i = 1 THEN b ELSE st[i - 1].after)
      <4>1. CASE j = 1
        <5>1. t[1].before = End(b, s)
          BY <3>1, <4>1 DEF Promise!Continues
        <5>2. i = Len(s) + 1
          BY <1>1, <2>2, <4>1
        <5>3. CASE Len(s) = 0
          BY <1>1, <3>1, <4>1, <5>1, <5>2, <5>3 DEF End
        <5>4. CASE Len(s) # 0
          <6>1. i # 1 /\ st[i - 1] = s[Len(s)]
            BY <1>1, <5>2, <5>4
          <6> QED BY <1>1, <3>1, <4>1, <5>1, <5>4, <6>1 DEF End
        <5> QED BY <5>3, <5>4
      <4>2. CASE j # 1
        <5>1. i - 1 \in 1 .. Len(st) /\ st[i - 1] = t[j - 1] /\ i # 1
          <6>1. /\ i - 1 \in 1 .. Len(st) /\ i # 1 /\ ~(i - 1 <= Len(s))
                /\ (i - 1) - Len(s) = j - 1
            BY <1>1, <2>2, <3>1, <4>2
          <6>2. st[i - 1] = t[(i - 1) - Len(s)]
            BY <1>1, <6>1
          <6> QED BY <6>1, <6>2
        <5>2. j - 1 \in 1 .. Len(t) /\ j \in 1 .. Len(t)
          BY <1>1, <2>2, <3>1, <4>2
        <5> HIDE DEF j
        <5> QED BY <3>1, <4>2, <5>1, <5>2 DEF Promise!Continues
      <4> QED BY <4>1, <4>2
    <3> QED BY <3>1, <3>2 DEF Promise!Continues
  <2> QED BY <1>1, <2>1, <2>2
<1>3. Promise!Continues(b, st)
  BY <1>2 DEF Promise!Continues
<1>4. End(b, st) = End(End(b, s), t)
  BY <1>1 DEF End
<1> QED BY <1>3, <1>4 DEF st
-----------------------------------------------------------------------------
(* Types.                                                                  *)

\* The two debits of a bet are movements (ApplyStakeTax returns integers).
LEMMA StakeMovementsType ==
  ASSUME NEW country, NEW gross \in Nat, ~StakeTaxRefused(country, gross)
  PROVE  /\ StakeMovements(StakeBreakdown(country, gross)) \in Seq(Movement)
         /\ StakeMovements(StakeBreakdown(country, gross)) # <<>>
<1>1. Regimes[country].stakeRate \in Nat
  BY RegimesAssumption DEF StakeTaxRefused, Configured, ValidRegime, Regime
<1> DEFINE tax == TaxOn(gross, Regimes[country].stakeRate)
<1>2. tax \in Int
  BY <1>1 DEF TaxOn, Basis
<1>3. /\ [amount |-> -(gross - tax), type |-> "BET_PLACED"] \in Movement
      /\ [amount |-> -tax, type |-> "TAX_DEDUCTION"] \in Movement
  <2> HIDE DEF tax
  <2> QED BY <1>2 DEF Movement, MovementType
<1> QED BY <1>3 DEF StakeMovements, StakeBreakdown

\* What the typing of a step needs besides the types.
TypeInv == TypeOK /\ TodoAgrees

\* What is left of a non-empty list of movements.
LEMMA HeadTail ==
  ASSUME NEW S, NEW s \in Seq(S), s # <<>>
  PROVE  /\ Head(s) \in S
         /\ Tail(s) \in Seq(S)
         /\ Len(s) > 1 => Tail(s) # <<>>
<1>1. Head(s) \in S /\ Tail(s) \in Seq(S) /\ Len(Tail(s)) = Len(s) - 1
  BY HeadTailProperties
<1>2. Len(s) > 1 => Tail(s) # <<>>
  BY <1>1
<1> QED BY <1>1, <1>2

\* The cleared row has the type of a row.
LEMMA NoRowType == NoRow \in Row
BY DEF NoRow, Row

\* A refused call keeps the types (ErrInvalidAmount and its like).
LEMMA RefuseType ==
  ASSUME TypeInv, NEW r \in Requests, NEW u \in Users, NEW answer \in Replies,
         pc[r] = "idle", Refuse(r, u, answer)
  PROVE  TypeInv'
BY DEF TypeInv, TypeOK, TodoAgrees, Refuse

\* Opening a transaction keeps the types.
LEMMA OpenType ==
  ASSUME TypeInv, NEW r \in Requests, NEW u \in Users,
         NEW movements \in Seq(Movement), movements # <<>>, NEW gross \in Nat,
         pc[r] = "idle", Open(r, u, movements, gross)
  PROVE  TypeInv'
BY DEF TypeInv, TypeOK, TodoAgrees, Open

\* Rolling back keeps the types.
LEMMA RollbackType ==
  ASSUME TypeInv, NEW r \in Requests, NEW answer \in Replies,
         Rollback(r, answer)
  PROVE  TypeInv'
<1>1. NoRow \in Row /\ <<>> \in Seq(AuditRow) /\ <<>> \in Seq(Movement)
  BY NoRowType, EmptySeq
<1>2. TypeOK'
  BY <1>1 DEF TypeInv, TypeOK, Rollback, Finish, Released
<1>3. TodoAgrees'
  BY DEF TypeInv, TypeOK, TodoAgrees, Rollback, Finish
<1> QED BY <1>2, <1>3 DEF TypeInv

\* Every call keeps the types.
LEMMA CallType ==
  ASSUME TypeInv, NEW r \in Requests, Call(r)
  PROVE  TypeInv'
<1>1. ASSUME NEW u \in Users, NEW amount \in Amounts, Credit(r, u, amount)
      PROVE  TypeInv'
  <2>1. CASE amount = 0
    BY <1>1, <2>1, RefuseType DEF Credit
  <2>2. CASE amount # 0
    <3>1. <<[amount |-> amount, type |-> "DEPOSIT"]>> \in Seq(Movement)
      BY WalletAssumption DEF Movement, MovementType
    <3> QED BY <1>1, <2>2, <3>1, OpenType DEF Credit
  <2> QED BY <2>1, <2>2
<1>2. ASSUME NEW u \in Users, NEW amount \in Amounts, Debit(r, u, amount)
      PROVE  TypeInv'
  <2>1. CASE amount = 0
    BY <1>2, <2>1, RefuseType DEF Debit
  <2>2. CASE amount # 0
    <3>1. <<[amount |-> -amount, type |-> "WITHDRAWAL"]>> \in Seq(Movement)
      BY WalletAssumption DEF Movement, MovementType
    <3> QED BY <1>2, <2>2, <3>1, OpenType DEF Debit
  <2> QED BY <2>1, <2>2
<1>3. ASSUME NEW u \in Users, NEW country \in Countries, NEW gross \in Stakes,
             PlaceBet(r, u, country, gross)
      PROVE  TypeInv'
  <2> DEFINE refusal == BetRefusal(u, country, gross)
  <2>1. refusal \in Replies
    BY DEF BetRefusal
  <2>2. CASE refusal # "none"
    BY <1>3, <2>1, <2>2, RefuseType DEF PlaceBet
  <2>3. CASE refusal = "none"
    <3>1. gross \in Nat /\ ~StakeTaxRefused(country, gross)
      BY <2>3, WalletAssumption DEF BetRefusal
    <3> QED BY <1>3, <2>3, <3>1, StakeMovementsType, OpenType DEF PlaceBet
  <2> QED BY <2>2, <2>3
<1> QED BY <1>1, <1>2, <1>3 DEF Call

\* The audit row of a movement is one (createTransactionRecord).
LEMMA RecordType ==
  ASSUME TypeInv, NEW r \in Requests, pc[r] = "insert"
  PROVE  Record(r) \in AuditRow
<1>1. Head(todo[r]) \in Movement /\ read[r] \in Row
  BY HeadTail DEF TypeInv, TypeOK, TodoAgrees
<1>2. Amount(r) \in Int
  BY <1>1 DEF Amount, Movement
<1>3. /\ Abs(Amount(r)) \in Nat
      /\ Head(todo[r]).type \in MovementType
      /\ read[r].balance \in Int
      /\ read[r].balance + Amount(r) \in Int
  BY <1>1, <1>2 DEF Abs, Movement, Row
<1> QED BY <1>3 DEF Record, AuditRow

\* Every statement, and every failure, keeps the types.
LEMMA StepType ==
  ASSUME TypeInv, NEW r \in Requests, Step(r) \/ Fail(r)
  PROVE  TypeInv'
<1>1. todo[r] \in Seq(Movement) /\ rows[r] \in Seq(AuditRow)
  BY DEF TypeInv, TypeOK
<1>2. pc[r] \in {"select", "update", "insert"} =>
        Head(todo[r]) \in Movement /\ Amount(r) \in Int
  <2> HAVE pc[r] \in {"select", "update", "insert"}
  <2>1. Head(todo[r]) \in Movement
    BY <1>1, HeadTail DEF TypeInv, TodoAgrees
  <2> QED BY <2>1 DEF Amount, Movement
<1>3. user[r] \in Owners => Current(r) \in Row
  BY DEF TypeInv, TypeOK, Current
<1>4. CASE SelectForUpdate(r)
  <2>1. ASSUME NEW answer \in Replies, Rollback(r, answer)
        PROVE  TypeInv'
    BY <2>1, RollbackType
  <2>2. CASE user[r] \in Owners /\ ForUpdate(r)
             /\ read' = [read EXCEPT ![r] = Current(r)]
             /\ pc' = [pc EXCEPT ![r] = "update"]
             /\ UNCHANGED <<store, call, todo, view, rows, reply>>
    BY <1>3, <1>4, <2>2
    DEF SelectForUpdate, ForUpdate, TakeLock, TypeInv, TypeOK, TodoAgrees
  <2> QED BY <1>4, <2>1, <2>2 DEF SelectForUpdate
<1>5. CASE UpdateWallet(r)
  <2>1. ASSUME NEW answer \in Replies, Rollback(r, answer)
        PROVE  TypeInv'
    BY <2>1, RollbackType
  <2>2. CASE TakeLock(r)
             /\ view' = [view EXCEPT ![r] = NewRow(r)]
             /\ pc' = [pc EXCEPT ![r] = "insert"]
             /\ UNCHANGED <<store, call, todo, read, rows, reply>>
    <3>1. read[r] \in Row /\ Amount(r) \in Int
      BY <1>2, <1>5 DEF UpdateWallet, TypeInv, TypeOK
    <3>2. NewRow(r) \in Row
      BY <3>1 DEF NewRow, Row
    <3> QED BY <1>5, <2>2, <3>2
            DEF UpdateWallet, TakeLock, TypeInv, TypeOK, TodoAgrees
  <2> QED BY <1>5, <2>1, <2>2 DEF UpdateWallet
<1>6. CASE InsertTransaction(r)
  <2>1. Record(r) \in AuditRow
    BY <1>6, RecordType DEF InsertTransaction
  <2>2. /\ Append(rows[r], Record(r)) \in Seq(AuditRow)
        /\ Append(rows[r], Record(r)) # <<>>
    BY <1>1, <2>1
  <2>3. /\ Tail(todo[r]) \in Seq(Movement)
        /\ Len(todo[r]) > 1 => Tail(todo[r]) # <<>>
    BY <1>1, <1>6, HeadTail DEF InsertTransaction, TypeInv, TodoAgrees
  <2>4. TypeOK'
    BY <1>6, <2>2, <2>3 DEF InsertTransaction, TypeInv, TypeOK
  <2>5. TodoAgrees'
    BY <1>6, <2>2, <2>3 DEF InsertTransaction, TypeInv, TypeOK, TodoAgrees
  <2> QED BY <2>4, <2>5 DEF TypeInv
<1>7. CASE InsertBet(r)
  BY <1>7 DEF InsertBet, TypeInv, TypeOK, TodoAgrees
<1>8. CASE Commit(r)
  <2>1. PICK answer \in {"ok", "error"} : Finish(r, answer)
    BY <1>8 DEF Commit
  <2>2. NoRow \in Row /\ <<>> \in Seq(AuditRow) /\ <<>> \in Seq(Movement)
    BY NoRowType, EmptySeq
  <2>3. wallets' \in [Owners -> Row] /\ bets' \subseteq Requests
    BY <1>8 DEF Commit, PostRows, TypeInv, TypeOK
  <2>4. transactions' \in [Owners -> Seq(AuditRow)]
    <3>1. \A u \in Owners : transactions[u] \o rows[r] \in Seq(AuditRow)
      BY <1>1, ConcatProperties DEF TypeInv, TypeOK
    <3> QED BY <1>8, <3>1 DEF Commit, PostRows, TypeInv, TypeOK
  <2> QED BY <1>8, <2>1, <2>2, <2>3, <2>4
          DEF Commit, Finish, Released, TypeInv, TypeOK, TodoAgrees
<1>9. CASE Fail(r)
  BY <1>9, RollbackType DEF Fail
<1> QED BY <1>4, <1>5, <1>6, <1>7, <1>8, <1>9 DEF Step

\* Every variable keeps its type, for every value of the constants.
THEOREM TypeCorrect == Spec => []TypeOK
<1>1. Init => TypeInv
  BY WalletAssumption DEF Init, TypeInv, TypeOK, TodoAgrees, NoRow, Row
<1>2. TypeInv /\ [Next]_vars => TypeInv'
  <2>1. TypeInv /\ UNCHANGED vars => TypeInv'
    BY DEF vars, TypeInv, TypeOK, TodoAgrees
  <2> QED BY <2>1, CallType, StepType DEF Next, AllDone
<1>3. TypeInv => TypeOK
  BY DEF TypeInv
<1> QED BY <1>1, <1>2, <1>3, PTL DEF Spec
-----------------------------------------------------------------------------
(* The inductive invariant.                                                *)

\* A step of r that leaves the tables and the other requests alone, and their
\* locks with them, only has to preserve what the invariant says of r.
LEMMA LocalStep ==
  ASSUME IInv, TypeInv', NEW r \in Requests, UNCHANGED store,
         \A s \in Requests \ {r} :
           /\ pc'[s] = pc[s] /\ user'[s] = user[s] /\ todo'[s] = todo[s]
           /\ read'[s] = read[s] /\ view'[s] = view[s] /\ rows'[s] = rows[s]
           /\ reply'[s] = reply[s]
           /\ \A u \in Owners : lock[u] = s => lock'[u] = s,
         LockHeldBy(r)', Agrees(r)', reply'[r] # "conflict"
  PROVE  IInv'
<1>1. \A s \in Requests \ {r} : LockHeldBy(s)'
  BY DEF IInv, LockHeldBy
<1>2. ASSUME NEW s \in Requests \ {r}
      PROVE  Agrees(s)'
  <2>1. /\ Current(s)' = Current(s) /\ Standing(s)' = Standing(s)
        /\ NewRow(s)' = NewRow(s) /\ Amount(s)' = Amount(s)
    BY DEF Current, Standing, NewRow, Amount
  <2>2. Agrees(s)
    BY DEF IInv
  <2> QED BY <2>1, <2>2 DEF Agrees
<1>3. AuditTrail' /\ VersionCountsMovements' /\ LockMakesGuardRedundant'
  BY DEF IInv, AuditTrail, VersionCountsMovements, LockMakesGuardRedundant
<1> QED BY <1>1, <1>2, <1>3 DEF IInv, TypeInv

\* Rolling back changes no table and releases only the request's own locks.
LEMMA RollbackIInv ==
  ASSUME IInv, TypeInv', NEW r \in Requests, NEW answer \in Replies,
         answer # "conflict", Rollback(r, answer)
  PROVE  IInv'
<1>1. TypeOK
  BY DEF IInv
<1>2. pc'[r] = "done" /\ reply'[r] = answer
  BY <1>1 DEF Rollback, Finish, TypeOK
<1>3. LockHeldBy(r)' /\ Agrees(r)'
  BY <1>2 DEF LockHeldBy, Agrees
<1>4. \A s \in Requests \ {r} :
        /\ pc'[s] = pc[s] /\ user'[s] = user[s] /\ todo'[s] = todo[s]
        /\ read'[s] = read[s] /\ view'[s] = view[s] /\ rows'[s] = rows[s]
        /\ reply'[s] = reply[s]
        /\ \A u \in Owners : lock[u] = s => lock'[u] = s
  BY <1>1 DEF Rollback, Finish, Released, TypeOK
<1> QED BY <1>2, <1>3, <1>4, LocalStep DEF Rollback
\* A transaction without rows of its own stands where the wallet stands.
LEMMA EmptyTrail ==
  ASSUME NEW w \in Row
  PROVE  /\ [balance |-> End(w.balance, <<>>),
             version |-> w.version + Len(<<>>)] = w
         /\ Promise!Continues(w.balance, <<>>)
<1>1. Len(<<>>) = 0
  BY EmptySeq
<1>2. Promise!Continues(w.balance, <<>>)
  BY <1>1 DEF Promise!Continues
<1> QED BY <1>1, <1>2 DEF End, Row

\* A call is refused, or opens a transaction that has read nothing yet.
LEMMA CallIInv ==
  ASSUME IInv, TypeInv', NEW r \in Requests, Call(r)
  PROVE  IInv'
<1>1. TypeOK /\ TodoAgrees
  BY DEF IInv
<1>2. ASSUME NEW u \in Users, NEW answer \in Replies, answer # "conflict",
             pc[r] = "idle", Refuse(r, u, answer)
      PROVE  IInv'
  <2>1. pc'[r] = "done" /\ reply'[r] = answer
    BY <1>1, <1>2 DEF Refuse, TypeOK
  <2>2. LockHeldBy(r)' /\ Agrees(r)'
    BY <2>1 DEF LockHeldBy, Agrees
  <2> QED BY <1>1, <1>2, <2>1, <2>2, LocalStep DEF Refuse, TypeOK
<1>3. ASSUME NEW u \in Users, NEW movements, NEW gross,
             pc[r] = "idle", Open(r, u, movements, gross)
      PROVE  IInv'
  <2>1. pc'[r] = "select" /\ user'[r] = u /\ reply'[r] = reply[r]
    BY <1>1, <1>3 DEF Open, TypeOK
  <2>2. rows'[r] = <<>> /\ view'[r] = NoRow /\ view'[r].version = 0
    BY <1>1, <1>3 DEF Open, TodoAgrees, NoRow
  <2>3. LockHeldBy(r)'
    BY <2>1, <2>2 DEF LockHeldBy
  <2>4. Agrees(r)'
    <3>1. user'[r] \in Owners =>
            /\ Standing(r)' = wallets'[user'[r]]
            /\ Promise!Continues(wallets'[user'[r]].balance, rows'[r])
      BY <2>2, EmptyTrail DEF Standing, TypeInv, TypeOK
    <3>2. Current(r)' = wallets'[user'[r]]
      BY <2>2 DEF Current, NoRow
    <3> QED BY <2>1, <2>2, <3>1, <3>2 DEF Agrees, TypeInv
  <2>5. reply'[r] # "conflict"
    BY <2>1 DEF IInv, LockMakesGuardRedundant
  <2> QED BY <1>1, <1>3, <2>3, <2>4, <2>5, LocalStep DEF Open, TypeOK
<1>4. ASSUME NEW u \in Users, NEW amount \in Amounts,
             Credit(r, u, amount) \/ Debit(r, u, amount)
      PROVE  IInv'
  BY <1>2, <1>3, <1>4 DEF Credit, Debit
<1>5. ASSUME NEW u \in Users, NEW country \in Countries, NEW gross \in Stakes,
             PlaceBet(r, u, country, gross)
      PROVE  IInv'
  <2>1. BetRefusal(u, country, gross) \in Replies \ {"conflict"}
    BY DEF BetRefusal
  <2> QED BY <1>2, <1>3, <1>5, <2>1 DEF PlaceBet
<1> QED BY <1>4, <1>5 DEF Call

\* The SELECT ... FOR UPDATE reads the row the transaction stands at.
LEMMA SelectIInv ==
  ASSUME IInv, TypeInv', NEW r \in Requests, SelectForUpdate(r)
  PROVE  IInv'
<1>1. TypeOK /\ TodoAgrees /\ Agrees(r)
  BY DEF IInv
<1>2. ASSUME NEW answer \in Replies, answer # "conflict", Rollback(r, answer)
      PROVE  IInv'
  BY <1>2, RollbackIInv
<1>3. ASSUME user[r] \in Owners, Covers(r), Amount(r) # 0, ForUpdate(r),
             read' = [read EXCEPT ![r] = Current(r)],
             pc' = [pc EXCEPT ![r] = "update"],
             UNCHANGED <<store, call, todo, view, rows, reply>>
      PROVE  IInv'
  <2>1. /\ pc[r] = "select" /\ pc'[r] = "update"
        /\ read'[r] = Current(r) /\ lock'[user[r]] = r
    BY <1>1, <1>3 DEF SelectForUpdate, ForUpdate, TakeLock, TypeOK
  <2>2. LockHeldBy(r)'
    BY <1>3, <2>1 DEF LockHeldBy
  <2>3. Agrees(r)'
    <3>1. Current(r)' = Current(r) /\ Standing(r)' = Standing(r)
          /\ Amount(r)' = Amount(r)
      BY <1>3 DEF Current, Standing, Amount
    <3>2. NewRow(r)'.balance >= 0
      BY <1>3, <2>1, <3>1 DEF NewRow, Covers
    <3> QED BY <1>1, <1>3, <2>1, <3>1, <3>2 DEF Agrees
  <2>4. \A s \in Requests \ {r}, u \in Owners : lock[u] = s => lock'[u] = s
    BY <1>1, <1>3, WalletAssumption DEF ForUpdate, TakeLock, Lockable, TypeOK
  <2>5. reply'[r] # "conflict"
    BY <1>3 DEF IInv, LockMakesGuardRedundant
  <2> QED BY <1>1, <1>3, <2>2, <2>3, <2>4, <2>5, LocalStep DEF TypeOK
<1> QED BY <1>2, <1>3 DEF SelectForUpdate
\* The guard on the version holds, and the row written is the next one.
LEMMA UpdateIInv ==
  ASSUME IInv, TypeInv', NEW r \in Requests, UpdateWallet(r)
  PROVE  IInv'
<1>1. /\ TypeOK /\ TodoAgrees /\ Agrees(r)
      /\ pc[r] = "update" /\ user[r] \in Owners /\ lock[user[r]] = r
  BY DEF IInv, LockHeldBy, UpdateWallet
<1>2. Current(r).version = read[r].version
  BY <1>1 DEF Agrees
<1>3. /\ view' = [view EXCEPT ![r] = NewRow(r)]
      /\ pc' = [pc EXCEPT ![r] = "insert"]
      /\ lock' = lock
      /\ UNCHANGED <<store, call, todo, read, rows, reply>>
  <2>1. [lock EXCEPT ![user[r]] = r] = lock
    BY <1>1 DEF TypeOK
  <2> QED BY <1>1, <1>2, <2>1 DEF UpdateWallet, TakeLock
<1>4. LockHeldBy(r)'
  BY <1>1, <1>3 DEF LockHeldBy
<1>5. Agrees(r)'
  <2>1. pc'[r] = "insert" /\ view'[r] = NewRow(r) /\ NewRow(r).version > 0
    <3>1. pc'[r] = "insert" /\ view'[r] = NewRow(r)
      BY <1>1, <1>3 DEF TypeOK
    <3>2. read[r].version \in Nat
      BY <1>1 DEF TypeOK, Row
    <3> QED BY <3>1, <3>2 DEF NewRow
  <2>2. /\ Standing(r)' = Standing(r) /\ Amount(r)' = Amount(r)
        /\ NewRow(r)' = NewRow(r)
    BY <1>3 DEF Standing, NewRow, Amount
  <2> QED BY <1>1, <1>3, <2>1, <2>2 DEF Agrees
<1>6. reply'[r] # "conflict"
  BY <1>3 DEF IInv, LockMakesGuardRedundant
<1> QED BY <1>1, <1>3, <1>4, <1>5, <1>6, LocalStep DEF TypeOK

\* The audit row continues the trail of the transaction.
LEMMA InsertIInv ==
  ASSUME IInv, TypeInv', NEW r \in Requests, InsertTransaction(r)
  PROVE  IInv'
<1> DEFINE w == wallets[user[r]]
           e == Record(r)
<1>1. /\ TypeOK /\ TodoAgrees /\ Agrees(r)
      /\ pc[r] = "insert" /\ user[r] \in Owners /\ lock[user[r]] = r
  BY DEF IInv, LockHeldBy, InsertTransaction
<1>2. w \in Row /\ read[r] \in Row /\ rows[r] \in Seq(AuditRow)
  BY <1>1 DEF TypeOK
<1>3. Amount(r) \in Int /\ Amount(r) # 0
  <2>1. Head(todo[r]) \in Movement
    BY <1>1, HeadTail DEF TypeOK, TodoAgrees
  <2> QED BY <1>1, <2>1 DEF Amount, Movement, Agrees
<1>4. read[r] = Standing(r) /\ view[r] = NewRow(r) /\ NewRow(r).balance >= 0
  BY <1>1 DEF Agrees
<1>5. /\ rows' = [rows EXCEPT ![r] = Append(rows[r], e)]
      /\ rows'[r] = Append(rows[r], e)
      /\ view'[r] = view[r]
      /\ pc'[r] \in {"select", "bet", "commit"}
      /\ UNCHANGED <<store, call, lock, read, view, reply>>
  BY <1>1 DEF InsertTransaction, TypeOK
<1>6. /\ Promise!Continues(w.balance, rows'[r])
      /\ End(w.balance, rows'[r]) = e.after
      /\ Len(rows'[r]) = Len(rows[r]) + 1 /\ rows'[r] # <<>>
  <2>1. Promise!Continues(w.balance, rows[r]) /\ w.balance \in Int
    BY <1>1, <1>2 DEF Agrees, Row
  <2>2. /\ e.before = End(w.balance, rows[r])
        /\ e.after = read[r].balance + Amount(r)
        /\ e.amount = Abs(Amount(r))
        /\ e.before = read[r].balance
    BY <1>4 DEF Record, Standing
  <2>3. e.after >= 0
    BY <1>4, <2>2 DEF NewRow
  <2>4. /\ e.amount > 0
        /\ e.after = e.before + e.amount \/ e.after = e.before - e.amount
    BY <1>2, <1>3, <2>2 DEF Abs, Row
  <2>5. e \in AuditRow
    BY <1>1, RecordType DEF TypeInv
  <2> HIDE DEF e, w
  <2>6. /\ Len(Append(rows[r], e)) = Len(rows[r]) + 1
        /\ Append(rows[r], e) # <<>>
    BY <1>2, <2>5, AppendProperties
  <2> QED BY <1>2, <1>5, <2>1, <2>2, <2>3, <2>4, <2>5, <2>6, ContinuesAppend
<1>7. LockHeldBy(r)'
  BY <1>1, <1>5 DEF LockHeldBy
<1>8. Agrees(r)'
  <2>1. view[r].balance = e.after
    BY <1>4 DEF NewRow, Record
  <2>2. view[r].version = w.version + (Len(rows[r]) + 1) /\ view[r].version > 0
    BY <1>2, <1>4 DEF NewRow, Standing, Row
  <2>3. view[r] \in Row
    BY <1>1 DEF TypeOK
  <2>4. view[r] = [balance |-> e.after,
                   version |-> w.version + (Len(rows[r]) + 1)]
    BY <2>1, <2>2, <2>3 DEF Row
  <2>5. Standing(r)' = view[r] /\ Current(r)' = view[r]
    BY <1>5, <1>6, <2>2, <2>4 DEF Standing, Current
  <2> QED BY <1>5, <1>6, <2>2, <2>5 DEF Agrees
<1>9. \A s \in Requests \ {r} :
        pc'[s] = pc[s] /\ todo'[s] = todo[s] /\ rows'[s] = rows[s]
  BY <1>1 DEF InsertTransaction, TypeOK
<1>10. reply'[r] # "conflict"
  BY <1>5 DEF IInv, LockMakesGuardRedundant
<1> QED BY <1>5, <1>7, <1>8, <1>9, <1>10, LocalStep
\* COMMIT appends the trail of the transaction to that of the wallet, while no
\* other request has read that wallet.
LEMMA CommitIInv ==
  ASSUME IInv, TypeInv', NEW r \in Requests, Commit(r)
  PROVE  IInv'
<1> DEFINE o == user[r]
<1>1. /\ TypeOK /\ TodoAgrees /\ Agrees(r) /\ pc[r] = "commit"
      /\ o \in Owners /\ lock[o] = r /\ rows[r] # <<>>
  BY DEF IInv, LockHeldBy, TodoAgrees, Commit
<1>2. /\ view[r] = Standing(r)
      /\ Promise!Continues(wallets[o].balance, rows[r])
  BY <1>1 DEF Agrees, Current
<1>3. PICK answer \in {"ok", "error"} : Finish(r, answer)
  BY DEF Commit
<1>4. /\ wallets' = [wallets EXCEPT ![o] = view[r]]
      /\ transactions' = [transactions EXCEPT ![o] = @ \o rows[r]]
  BY DEF Commit, PostRows
<1>5. /\ wallets'[o] = view[r] /\ transactions'[o] = transactions[o] \o rows[r]
      /\ \A u \in Owners \ {o} : /\ wallets'[u] = wallets[u]
                                 /\ transactions'[u] = transactions[u]
  <2>1. /\ wallets \in [Owners -> Row]
        /\ transactions \in [Owners -> Seq(AuditRow)]
    BY <1>1 DEF TypeOK
  <2> QED BY <1>1, <1>4, <2>1
<1>6. /\ transactions[o] \in Seq(AuditRow) /\ rows[r] \in Seq(AuditRow)
      /\ InitialBalance[o] \in Int
  <2>1. transactions[o] \in Seq(AuditRow) /\ rows[r] \in Seq(AuditRow)
    BY <1>1 DEF TypeOK
  <2>2. InitialBalance[o] \in Nat
    BY <1>1, WalletAssumption
  <2> QED BY <2>1, <2>2
<1>7. AuditTrail'
  <2>1. /\ Promise!Continues(InitialBalance[o], transactions[o])
        /\ wallets[o].balance = End(InitialBalance[o], transactions[o])
    BY <1>1 DEF IInv, AuditTrail, End
  <2>2. /\ Promise!Continues(InitialBalance[o], transactions'[o])
        /\ End(InitialBalance[o], transactions'[o]) = End(wallets[o].balance, rows[r])
    BY <1>2, <1>5, <1>6, <2>1, ContinuesConcat
  <2>3. wallets'[o].balance = End(InitialBalance[o], transactions'[o])
    BY <1>2, <1>5, <2>2 DEF Standing
  <2> QED BY <1>5, <2>2, <2>3 DEF IInv, AuditTrail, End
<1>8. VersionCountsMovements'
  <2>1. Len(transactions'[o]) = Len(transactions[o]) + Len(rows[r])
    BY <1>5, <1>6, ConcatProperties
  <2>2. Len(transactions[o]) \in Nat /\ Len(rows[r]) \in Nat
    BY <1>6, LenProperties
  <2>3. wallets'[o].version = 1 + Len(transactions'[o])
    <3>1. wallets'[o].version = wallets[o].version + Len(rows[r])
      BY <1>2, <1>5 DEF Standing
    <3>2. wallets[o].version = 1 + Len(transactions[o])
      BY <1>1 DEF IInv, VersionCountsMovements
    <3>3. \A m, n \in Nat : 1 + (m + n) = (1 + m) + n
      OBVIOUS
    <3> QED BY <2>1, <2>2, <3>1, <3>2, <3>3, Zenon
  <2> QED BY <1>5, <2>3 DEF IInv, VersionCountsMovements
<1>9. /\ pc'[r] = "done" /\ user' = user /\ reply'[r] # "conflict"
      /\ \A s \in Requests \ {r} :
           /\ pc'[s] = pc[s] /\ todo'[s] = todo[s] /\ read'[s] = read[s]
           /\ view'[s] = view[s] /\ rows'[s] = rows[s] /\ reply'[s] = reply[s]
           /\ \A u \in Owners : lock[u] = s => lock'[u] = s
  BY <1>1, <1>3 DEF Finish, Released, TypeOK
<1>10. LockMakesGuardRedundant'
  BY <1>9 DEF IInv, LockMakesGuardRedundant
<1>11. LockHeldBy(r)' /\ Agrees(r)'
  BY <1>9 DEF LockHeldBy, Agrees
<1>12. ASSUME NEW s \in Requests \ {r}
       PROVE  LockHeldBy(s)' /\ Agrees(s)'
  <2>1. LockHeldBy(s) /\ Agrees(s)
    BY DEF IInv
  <2>2. /\ pc'[s] = pc[s] /\ user'[s] = user[s] /\ todo'[s] = todo[s]
        /\ read'[s] = read[s] /\ view'[s] = view[s] /\ rows'[s] = rows[s]
        /\ user[s] \in Owners => (lock[user[s]] = s => lock'[user[s]] = s)
    BY <1>9
  <2>3. LockHeldBy(s)'
    BY <2>1, <2>2 DEF LockHeldBy
  <2>4. CASE user[s] \in Owners /\ user[s] # o
    <3>1. /\ Current(s)' = Current(s) /\ Standing(s)' = Standing(s)
          /\ NewRow(s)' = NewRow(s) /\ Amount(s)' = Amount(s)
          /\ wallets'[user[s]] = wallets[user[s]]
      BY <1>5, <2>2, <2>4 DEF Current, Standing, NewRow, Amount
    <3> QED BY <2>1, <2>2, <2>3, <3>1 DEF Agrees
  <2>5. CASE user[s] = o /\ pc[s] \in InTx
    <3>1. pc[s] = "select" /\ rows[s] = <<>> /\ view[s].version = 0
      BY <1>1, <2>1, <2>5 DEF LockHeldBy, Agrees
    <3>2. Current(s)' = wallets'[o]
      BY <2>2, <2>5, <3>1 DEF Current
    <3>3. wallets'[o] \in Row
      BY <1>1 DEF TypeInv, TypeOK
    <3>4. /\ Standing(s)' = wallets'[o]
          /\ Promise!Continues(wallets'[o].balance, rows'[s])
      BY <2>2, <2>5, <3>1, <3>3, EmptyTrail DEF Standing
    <3> QED BY <2>2, <2>3, <2>5, <3>1, <3>2, <3>4 DEF Agrees
  <2>6. CASE user[s] \notin Owners \/ pc[s] \notin InTx
    <3>1. ~(pc'[s] \in InTx /\ user'[s] \in Owners)
      BY <2>2, <2>6
    <3> QED BY <2>3, <3>1 DEF Agrees
  <2> QED BY <2>3, <2>4, <2>5, <2>6
<1> QED BY <1>7, <1>8, <1>10, <1>11, <1>12 DEF IInv, TypeInv

\* The bet row changes nothing the wallet invariant speaks of.
LEMMA InsertBetIInv ==
  ASSUME IInv, TypeInv', NEW r \in Requests, InsertBet(r)
  PROVE  IInv'
<1>1. TypeOK /\ TodoAgrees /\ Agrees(r) /\ LockHeldBy(r)
      /\ pc[r] = "bet" /\ pc'[r] = "commit"
  BY DEF IInv, InsertBet, TypeOK
<1>2. LockHeldBy(r)'
  BY <1>1 DEF LockHeldBy, InsertBet
<1>3. Agrees(r)'
  BY <1>1 DEF Agrees, InsertBet, Current, Standing
<1>4. reply'[r] # "conflict"
  BY DEF IInv, LockMakesGuardRedundant, InsertBet
<1> QED BY <1>1, <1>2, <1>3, <1>4, LocalStep DEF InsertBet, TypeOK

\* No wallet is locked and no audit row exists when the service starts.
LEMMA InitIInv == Init => TypeInv /\ IInv
<1> SUFFICES ASSUME Init PROVE TypeInv /\ IInv
  OBVIOUS
<1>1. TypeOK /\ TodoAgrees
  BY WalletAssumption DEF Init, TypeOK, TodoAgrees, NoRow, Row
<1>2. \A r \in Requests : LockHeldBy(r) /\ Agrees(r)
  BY DEF Init, LockHeldBy, Agrees
<1>3. AuditTrail
  <2>1. Len(<<>>) = 0
    BY EmptySeq
  <2> QED BY <2>1 DEF Init, AuditTrail, Promise!Continues
<1>4. VersionCountsMovements
  BY EmptySeq DEF Init, VersionCountsMovements
<1>5. LockMakesGuardRedundant
  BY DEF Init, LockMakesGuardRedundant
<1> QED BY <1>1, <1>2, <1>3, <1>4, <1>5 DEF IInv, TypeInv

\* Every statement of every request preserves the invariant.
LEMMA NextIInv == IInv /\ [Next]_vars => IInv'
<1> SUFFICES ASSUME IInv, [Next]_vars PROVE IInv'
  OBVIOUS
<1>1. TypeInv
  BY DEF IInv, TypeInv
<1>2. ASSUME NEW r \in Requests, Call(r) PROVE IInv'
  BY <1>1, <1>2, CallType, CallIInv
<1>3. ASSUME NEW r \in Requests, Step(r) PROVE IInv'
  <2>1. TypeInv'
    BY <1>1, <1>3, StepType
  <2> QED BY <1>3, <2>1, SelectIInv, UpdateIInv, InsertIInv, InsertBetIInv,
             CommitIInv DEF Step
<1>4. ASSUME NEW r \in Requests, Fail(r) PROVE IInv'
  BY <1>1, <1>4, StepType, RollbackIInv DEF Fail
<1>5. CASE UNCHANGED vars
  BY <1>5 DEF vars, IInv, TypeOK, TodoAgrees, LockHeldBy, Agrees, AuditTrail,
     VersionCountsMovements, LockMakesGuardRedundant, Current, Standing,
     NewRow, Amount
<1> QED BY <1>2, <1>3, <1>4, <1>5 DEF Next, AllDone

\* The invariant holds of every behaviour.
LEMMA Invariance == Spec => []IInv
BY InitIInv, NextIInv, PTL DEF Spec, TypeInv
-----------------------------------------------------------------------------
(* What the invariant says of the tables.                                  *)

\* No committed movement is lost or overwritten: the rows of each wallet are
\* one unbroken trail from its first balance to its present one (ApplyTx).
THEOREM TrailUnbroken == Spec => []AuditTrail
<1>1. IInv => AuditTrail
  BY DEF IInv
<1> QED BY <1>1, Invariance, PTL

\* No interleaving of requests overdraws a wallet (ErrInsufficientFunds), and every
\* variable keeps its type.
THEOREM SolventWallets == Spec => []NeverOverdrawn
<1>1. ASSUME IInv, NEW u \in Owners
      PROVE  wallets[u].balance >= 0
  <2>1. /\ transactions[u] \in Seq(AuditRow) /\ InitialBalance[u] \in Nat
        /\ Promise!Continues(InitialBalance[u], transactions[u])
        /\ wallets[u].balance = End(InitialBalance[u], transactions[u])
    BY <1>1, WalletAssumption DEF IInv, TypeOK, AuditTrail, End
  <2>2. CASE transactions[u] = <<>>
    BY <2>1, <2>2 DEF End
  <2>3. CASE transactions[u] # <<>>
    <3>1. Len(transactions[u]) \in 1 .. Len(transactions[u])
      BY <2>1, <2>3, EmptySeq
    <3> QED BY <2>1, <2>3, <3>1 DEF End, Promise!Continues
  <2> QED BY <2>2, <2>3
<1>2. IInv => NeverOverdrawn
  BY <1>1 DEF IInv, NeverOverdrawn
<1> QED BY <1>2, Invariance, PTL

\* The version column counts the movements (version = version + 1).
THEOREM VersionsCount == Spec => []VersionCountsMovements
<1>1. IInv => VersionCountsMovements
  BY DEF IInv
<1> QED BY <1>1, Invariance, PTL

\* While every writer takes the row lock, ErrOptimisticConflict is never
\* returned.
THEOREM NoConflict == Spec => []LockMakesGuardRedundant
<1>1. IInv => LockMakesGuardRedundant
  BY DEF IInv
<1> QED BY <1>1, Invariance, PTL

\* Two transactions that have both read or written a wallet never coexist:
\* the isolation that ApplyTx's SELECT ... FOR UPDATE is there to give.
THEOREM WalletIsolation ==
  Spec => [](\A r, s \in Requests :
               /\ r # s
               /\ pc[r] \in {"update", "insert", "bet", "commit"}
               /\ pc[s] \in {"update", "insert", "bet", "commit"}
               => user[r] # user[s])
<1>1. IInv => \A r, s \in Requests :
                /\ r # s
                /\ pc[r] \in {"update", "insert", "bet", "commit"}
                /\ pc[s] \in {"update", "insert", "bet", "commit"}
                => user[r] # user[s]
  BY DEF IInv, LockHeldBy
<1> QED BY <1>1, Invariance, PTL
-----------------------------------------------------------------------------
(* What callers are told.                                                  *)

\* A step of r that leaves the tables and the other requests alone only has
\* to preserve what r itself was told and has paid.
LEMMA LocalAnswers ==
  ASSUME TypeOK, AnswersInv, NEW r \in Requests, UNCHANGED store,
         \A s \in Requests \ {r} :
           /\ pc'[s] = pc[s] /\ user'[s] = user[s] /\ stake'[s] = stake[s]
           /\ todo'[s] = todo[s] /\ rows'[s] = rows[s] /\ reply'[s] = reply[s],
         Told(r)', Paying(r)'
  PROVE  AnswersInv'
<1> SUFFICES ASSUME NEW s \in Requests \ {r}
             PROVE  Told(s)' /\ Paying(s)'
  BY DEF AnswersInv
<1>1. Told(s) /\ Paying(s)
  BY DEF AnswersInv
<1>2. RowsOf(s)' = RowsOf(s)
  BY DEF RowsOf
<1>3. (NoTrace(s)' <=> NoTrace(s)) /\ (Posted(s)' <=> Posted(s))
  BY <1>2 DEF NoTrace, Posted
<1>4. Paying(s)'
  BY <1>1 DEF Paying
<1> QED BY <1>1, <1>3, <1>4 DEF Told

\* A request that is not done has left no trace, and keeps it so while the
\* tables do not change.
LEMMA NoTraceKept ==
  ASSUME NEW r \in Requests, Told(r), pc[r] # "done", UNCHANGED store
  PROVE  NoTrace(r) /\ NoTrace(r)'
BY DEF Told, NoTrace

\* Rolling back leaves no trace, whatever the caller is told.
LEMMA RollbackAnswers ==
  ASSUME TypeOK, AnswersInv, NEW r \in Requests, pc[r] # "done",
         NEW answer \in Replies, answer # "ok", Rollback(r, answer)
  PROVE  AnswersInv'
<1>1. Told(r)
  BY DEF AnswersInv
<1>2. pc'[r] = "done" /\ reply'[r] = answer
  BY DEF Rollback, Finish, TypeOK
<1>3. Told(r)'
  BY <1>1, <1>2, NoTraceKept DEF Rollback, Told
<1>4. Paying(r)'
  BY <1>2 DEF Paying
<1> QED BY <1>3, <1>4, LocalAnswers DEF Rollback, Finish, TypeOK

\* The two debits of a bet add up to its gross stake (ApplyStakeTax: net is
\* gross minus tax, and no tax is negative).
LEMMA StakeMovementsOwed ==
  ASSUME NEW country, NEW gross \in Nat, ~StakeTaxRefused(country, gross)
  PROVE  /\ Len(StakeMovements(StakeBreakdown(country, gross))) <= 2
         /\ Owed(StakeMovements(StakeBreakdown(country, gross))) = gross
<1>1. Regimes[country].stakeRate \in Nat
  BY RegimesAssumption DEF StakeTaxRefused, Configured, ValidRegime, Regime
<1> DEFINE tax == TaxOn(gross, Regimes[country].stakeRate)
<1>2. tax \in Nat
  <2>1. gross * Regimes[country].stakeRate \in Nat
    BY <1>1
  <2>2. \A n \in Nat : (n + Basis \div 2) \div Basis \in Nat
    BY DEF Basis
  <2> QED BY <2>1, <2>2 DEF TaxOn
<1> HIDE DEF tax
<1> DEFINE bet  == [amount |-> -(gross - tax), type |-> "BET_PLACED"]
           levy == [amount |-> -tax, type |-> "TAX_DEDUCTION"]
<1>3. StakeMovements(StakeBreakdown(country, gross))
        = IF tax > 0 THEN <<bet, levy>> ELSE <<bet>>
  BY DEF StakeMovements, StakeBreakdown, tax
<1>4. /\ Len(<<bet, levy>>) = 2 /\ Len(<<bet>>) = 1
      /\ <<bet, levy>> # <<>> /\ <<bet>> # <<>>
      /\ <<bet, levy>>[1] = bet /\ <<bet, levy>>[2] = levy /\ <<bet>>[1] = bet
  OBVIOUS
<1>5. Owed(<<bet, levy>>) = gross
  BY <1>2, <1>4 DEF Owed
<1>6. tax = 0 => Owed(<<bet>>) = gross
  BY <1>2, <1>4 DEF Owed
<1> QED BY <1>2, <1>3, <1>4, <1>5, <1>6

\* A call is refused before any statement, or opens a transaction that owes
\* the whole of its stake.
LEMMA CallAnswers ==
  ASSUME IInv, AnswersInv, NEW r \in Requests, Call(r)
  PROVE  AnswersInv'
<1>1. TypeOK /\ TodoAgrees /\ Told(r)
  BY DEF IInv, AnswersInv
<1>2. ASSUME NEW u \in Users, NEW answer \in Replies, answer # "ok",
             pc[r] = "idle", Refuse(r, u, answer)
      PROVE  AnswersInv'
  <2>1. pc'[r] = "done" /\ reply'[r] = answer
    BY <1>1, <1>2 DEF Refuse, TypeOK
  <2>2. Told(r)'
    BY <1>1, <1>2, <2>1, NoTraceKept DEF Refuse, Told
  <2>3. Paying(r)'
    BY <2>1 DEF Paying
  <2> QED BY <1>1, <1>2, <2>2, <2>3, LocalAnswers DEF Refuse, TypeOK
<1>3. ASSUME NEW u \in Users, NEW movements, NEW gross,
             gross > 0 => Len(movements) <= 2 /\ Owed(movements) = gross,
             gross \in Nat, pc[r] = "idle", Open(r, u, movements, gross)
      PROVE  AnswersInv'
  <2>1. /\ pc'[r] = "select" /\ reply'[r] = reply[r] /\ rows'[r] = <<>>
        /\ stake'[r] = gross /\ todo'[r] = movements
    BY <1>1, <1>3 DEF Open, TypeOK, TodoAgrees
  <2>2. Told(r)'
    BY <1>1, <1>3, <2>1, NoTraceKept DEF Open, Told
  <2>3. Paying(r)'
    <3>1. Taken(rows'[r]) = 0 /\ Len(rows'[r]) = 0
      BY <2>1 DEF Taken
    <3> QED BY <1>3, <2>1, <3>1 DEF Paying
  <2> QED BY <1>1, <1>3, <2>2, <2>3, LocalAnswers DEF Open, TypeOK
<1>4. ASSUME NEW u \in Users, NEW amount \in Amounts,
             Credit(r, u, amount) \/ Debit(r, u, amount)
      PROVE  AnswersInv'
  <2>1. 0 \in Nat /\ ~(0 > 0)
    OBVIOUS
  <2>2. \A movements : Open(r, u, movements, 0) /\ pc[r] = "idle" => AnswersInv'
    BY <1>3, <2>1, Zenon
  <2> QED BY <1>2, <1>4, <2>2 DEF Credit, Debit
<1>5. ASSUME NEW u \in Users, NEW country \in Countries, NEW gross \in Stakes,
             PlaceBet(r, u, country, gross)
      PROVE  AnswersInv'
  <2>1. BetRefusal(u, country, gross) \in Replies \ {"ok"}
    BY DEF BetRefusal
  <2>2. BetRefusal(u, country, gross) = "none" =>
          ~StakeTaxRefused(country, gross)
    BY DEF BetRefusal
  <2>3. gross \in Nat
    BY WalletAssumption
  <2> QED BY <1>2, <1>3, <1>5, <2>1, <2>2, <2>3, StakeMovementsOwed
          DEF PlaceBet
<1> QED BY <1>4, <1>5 DEF Call

\* Applying the first movement leaves the others owed.
LEMMA OwedTail ==
  ASSUME NEW t \in Seq(Movement), t # <<>>, Len(t) <= 2
  PROVE  /\ Owed(t) \in Int /\ t[1].amount \in Int
         /\ Owed(Tail(t)) = Owed(t) + t[1].amount
         /\ Len(Tail(t)) <= 2
<1>1. /\ Len(t) \in Nat \ {0}
      /\ Len(Tail(t)) = Len(t) - 1
      /\ \A i \in 1 .. Len(Tail(t)) : Tail(t)[i] = t[i + 1]
      /\ Tail(t) = <<>> <=> Len(Tail(t)) = 0
  <2>1. Len(t) \in Nat \ {0}
    BY EmptySeq
  <2>2. /\ Tail(t) \in Seq(Movement) /\ Len(Tail(t)) = Len(t) - 1
        /\ \A i \in 1 .. Len(Tail(t)) : Tail(t)[i] = t[i + 1]
    BY HeadTailProperties
  <2>3. Tail(t) = <<>> <=> Len(Tail(t)) = 0
    BY <2>2
  <2> QED BY <2>1, <2>2, <2>3
<1>2. \A i \in 1 .. Len(t) : t[i].amount \in Int
  <2> SUFFICES ASSUME NEW i \in 1 .. Len(t) PROVE t[i].amount \in Int
    OBVIOUS
  <2>1. t[i] \in Movement
    BY ElementOfSeq
  <2> QED BY <2>1 DEF Movement
<1> DEFINE a == t[1].amount
           b == t[2].amount
<1>3. /\ a \in Int
      /\ Len(t) = 2 => b \in Int /\ Tail(t)[1].amount = b
  BY <1>1, <1>2
<1>4. Len(t) = 1 \/ Len(t) = 2
  BY <1>1
<1>5. CASE Len(t) = 1
  <2>1. Tail(t) = <<>> /\ Len(Tail(t)) = 0
    BY <1>1, <1>5
  <2>2. Owed(t) = -a /\ Owed(Tail(t)) = 0
    BY <1>5, <2>1 DEF Owed
  <2> HIDE DEF a
  <2> QED BY <1>3, <2>1, <2>2 DEF a
<1>6. CASE Len(t) = 2
  <2>1. Tail(t) # <<>> /\ Len(Tail(t)) = 1
    BY <1>1, <1>6
  <2>2. Owed(t) = -(a + b) /\ Owed(Tail(t)) = -b
    BY <1>3, <1>6, <2>1 DEF Owed
  <2> HIDE DEF a, b
  <2>3. Owed(t) \in Int /\ Owed(Tail(t)) = Owed(t) + a
    BY <1>3, <1>6, <2>2
  <2> QED BY <1>3, <2>1, <2>3 DEF a
<1> QED BY <1>4, <1>5, <1>6

\* The rows a transaction has written and the movements it has still to apply
\* go on adding up to the stake as createTransactionRecord adds one to the
\* other.
LEMMA InsertAnswers ==
  ASSUME IInv, AnswersInv, NEW r \in Requests, InsertTransaction(r)
  PROVE  AnswersInv'
<1> DEFINE e == Record(r)
           t == todo[r]
<1>1. /\ TypeOK /\ TodoAgrees /\ Agrees(r) /\ LockHeldBy(r)
      /\ Told(r) /\ Paying(r) /\ pc[r] = "insert"
  BY DEF IInv, AnswersInv, InsertTransaction
<1>2. /\ read[r] = Standing(r) /\ user[r] \in Owners
      /\ read[r] \in Row /\ rows[r] \in Seq(AuditRow)
      /\ t \in Seq(Movement) /\ t # <<>> /\ stake[r] \in Nat
      /\ e \in AuditRow
  <2>1. e \in AuditRow
    BY <1>1, RecordType DEF TypeInv
  <2> QED BY <1>1, <2>1 DEF LockHeldBy, Agrees, TypeOK, TodoAgrees
<1>3. /\ rows'[r] = Append(rows[r], e) /\ todo'[r] = Tail(t)
      /\ stake'[r] = stake[r] /\ reply'[r] = reply[r] /\ UNCHANGED store
      /\ pc'[r] = IF Len(t) > 1 THEN "select"
                  ELSE IF stake[r] > 0 THEN "bet" ELSE "commit"
  BY <1>1 DEF InsertTransaction, TypeOK
<1>4. /\ e.ref = r /\ e.before = End(wallets[user[r]].balance, rows[r])
      /\ e.after = e.before + t[1].amount
      /\ e.before \in Int /\ t[1].amount \in Int
  <2>1. Head(t) \in Movement /\ Head(t) = t[1]
    BY <1>2, HeadTail
  <2>2. t[1].amount \in Int
    BY <2>1 DEF Movement
  <2> QED BY <1>2, <2>1, <2>2 DEF Record, Amount, Standing, Row
<1> HIDE DEF e, t
<1>5. /\ Len(rows'[r]) = Len(rows[r]) + 1 /\ rows'[r] # <<>>
      /\ Len(rows[r]) \in Nat
      /\ \A i \in 1 .. Len(rows[r]) : rows'[r][i] = rows[r][i]
      /\ rows'[r][Len(rows[r]) + 1] = e
      /\ rows[r] = <<>> <=> Len(rows[r]) = 0
  BY <1>2, <1>3, AppendProperties
<1>6. \A i \in 1 .. Len(rows'[r]) : rows'[r][i].ref = r
  <2>1. \A i \in 1 .. Len(rows[r]) : rows[r][i].ref = r
    BY <1>1 DEF Paying
  <2> QED BY <1>4, <1>5, <2>1
<1>7. Taken(rows'[r]) = Taken(rows[r]) - t[1].amount /\ Taken(rows[r]) \in Int
  <2>1. CASE rows[r] = <<>>
    BY <1>4, <1>5, <2>1 DEF Taken
  <2>2. CASE rows[r] # <<>>
    <3>1. 1 \in 1 .. Len(rows[r]) /\ Len(rows[r]) \in 1 .. Len(rows[r])
      BY <1>5, <2>2
    <3>2. rows[r][1].before \in Int /\ rows[r][Len(rows[r])].after \in Int
      <4>1. rows[r][1] \in AuditRow /\ rows[r][Len(rows[r])] \in AuditRow
        BY <1>2, <3>1, ElementOfSeq
      <4> QED BY <4>1 DEF AuditRow
    <3>3. e.before = rows[r][Len(rows[r])].after
      BY <1>4, <2>2 DEF End
    <3>4. /\ rows'[r][1] = rows[r][1]
          /\ rows'[r][Len(rows'[r])] = e
      BY <1>5, <3>1
    <3> QED BY <1>4, <1>5, <2>2, <3>2, <3>3, <3>4 DEF Taken
  <2> QED BY <2>1, <2>2
<1>8. Len(t) <= 2 => /\ Owed(Tail(t)) = Owed(t) + t[1].amount
                     /\ Owed(t) \in Int /\ Len(Tail(t)) <= 2
  BY <1>2, OwedTail
<1>9. Len(t) > 1 \/ Tail(t) = <<>>
  BY <1>2
<1>10. Paying(r)'
  <2>1. stake[r] > 0 => Len(t) <= 2 /\ Taken(rows[r]) + Owed(t) = stake[r]
    BY <1>1 DEF Paying, t
  <2>2. pc'[r] \in {"bet", "commit"} => todo'[r] = <<>>
    BY <1>3, <1>9
  <2>3. stake'[r] > 0 => /\ Len(todo'[r]) <= 2
                         /\ Taken(rows'[r]) + Owed(todo'[r]) = stake'[r]
    BY <1>2, <1>3, <1>4, <1>7, <1>8, <2>1
  <2> QED BY <1>6, <2>2, <2>3 DEF Paying
<1>11. Told(r)'
  BY <1>1, <1>3, NoTraceKept DEF Told
<1> QED BY <1>1, <1>10, <1>11, LocalAnswers DEF InsertTransaction, TypeOK

\* What a concatenation adds to a sequence.
LEMMA ConcatSuffix ==
  ASSUME NEW S, NEW s \in Seq(S), NEW t \in Seq(S)
  PROVE  SubSeq(s \o t, Len(s) + 1, Len(s \o t)) = t
<1> DEFINE c == s \o t
           m == Len(s)
           n == Len(t)
           lo == m + 1
           hi == m + n
           sub == SubSeq(c, lo, hi)
<1>1. /\ c \in Seq(S) /\ Len(c) = m + n /\ m \in Nat /\ n \in Nat
      /\ \A i \in 1 .. m + n : c[i] = IF i <= m THEN s[i] ELSE t[i - m]
  BY ConcatProperties, LenProperties
<1> HIDE DEF c, m, n
<1>2. \A i \in lo .. hi : c[i] \in S
  <2>1. \A i \in 1 .. m + n : c[i] \in S
    BY <1>1, ElementOfSeq
  <2> QED BY <1>1, <2>1
<1>3. lo \in Int /\ hi \in Int
  BY <1>1
<1> HIDE DEF lo, hi
<1>4. /\ sub \in Seq(S)
      /\ Len(sub) = IF lo <= hi THEN hi - lo + 1 ELSE 0
      /\ \A i \in 1 .. hi - lo + 1 : sub[i] = c[lo + i - 1]
  BY <1>2, <1>3, SubSeqProperties
<1> HIDE DEF sub
<1>5. Len(sub) = n
  BY <1>1, <1>4 DEF lo, hi
<1>6. ASSUME NEW i \in 1 .. n PROVE sub[i] = t[i]
  <2>1. /\ i \in 1 .. hi - lo + 1 /\ lo + i - 1 = m + i
        /\ m + i \in 1 .. m + n /\ ~(m + i <= m) /\ (m + i) - m = i
    BY <1>1 DEF lo, hi
  <2> QED BY <1>1, <1>4, <2>1
<1>7. sub = t
  BY <1>4, <1>5, <1>6, SeqEqual DEF n
<1> QED BY <1>1, <1>7 DEF sub, c, m, lo, hi

\* COMMIT makes all of the request durable, at once.
LEMMA CommitPosts ==
  ASSUME IInv, AnswersInv, NEW r \in Requests, Commit(r)
  PROVE  /\ Posted(r)'
         /\ Promise!Post(user[r], r)
<1> DEFINE o == user[r]
           old == transactions[o]
           new == rows[r]
           m == Len(old)
           n == Len(new)
<1>1. /\ TypeOK /\ TodoAgrees /\ Agrees(r) /\ Told(r) /\ Paying(r)
      /\ pc[r] = "commit" /\ o \in Owners /\ new # <<>>
  BY DEF IInv, AnswersInv, LockHeldBy, TodoAgrees, Commit
<1>2. /\ old \in Seq(AuditRow) /\ new \in Seq(AuditRow)
      /\ m \in Nat /\ n \in Nat \ {0} /\ wallets[o] \in Row
      /\ wallets \in [Owners -> Row]
      /\ transactions \in [Owners -> Seq(AuditRow)]
      /\ stake[r] \in Nat
  <2>1. old \in Seq(AuditRow) /\ new \in Seq(AuditRow)
    BY <1>1 DEF TypeOK
  <2> QED BY <1>1, <2>1, EmptySeq, LenProperties DEF TypeOK
<1>3. /\ wallets' = [wallets EXCEPT ![o] = view[r]]
      /\ transactions' = [transactions EXCEPT ![o] = old \o new]
      /\ transactions'[o] = old \o new
      /\ bets' = IF stake[r] > 0 THEN bets \cup {r} ELSE bets
      /\ user' = user /\ stake' = stake
  BY <1>1, <1>2 DEF Commit, PostRows, Finish
<1>4. /\ old \o new \in Seq(AuditRow)
      /\ Len(old \o new) = m + n
      /\ \A i \in 1 .. m : (old \o new)[i] = old[i]
      /\ \A i \in 1 .. n : (old \o new)[m + i] = new[i]
      /\ \A i \in m + 1 .. m + n : (old \o new)[i] = new[i - m]
  <2>1. /\ old \o new \in Seq(AuditRow)
        /\ Len(old \o new) = m + n
        /\ \A i \in 1 .. m + n :
             (old \o new)[i] = IF i <= m THEN old[i] ELSE new[i - m]
    BY <1>2, ConcatProperties
  <2> HIDE DEF old, new, m, n
  <2>2. ASSUME NEW i \in 1 .. n PROVE (old \o new)[m + i] = new[i]
    <3>1. m + i \in 1 .. m + n /\ ~(m + i <= m) /\ (m + i) - m = i
      BY <1>2
    <3> QED BY <2>1, <3>1
  <2>3. \A i \in 1 .. m : (old \o new)[i] = old[i]
    BY <1>2, <2>1
  <2>4. \A i \in m + 1 .. m + n : (old \o new)[i] = new[i - m]
    BY <1>2, <2>1
  <2> QED BY <2>1, <2>2, <2>3, <2>4
<1>5. NoTrace(r)
  BY <1>1 DEF Told
<1>6. /\ \A i \in 1 .. m : old[i].ref # r
      /\ \A i \in 1 .. n : new[i].ref = r
  BY <1>1, <1>5 DEF NoTrace, Paying
<1>7. Promise!Continues(wallets[o].balance, new)
  BY <1>1 DEF Agrees
<1>8. view[r].balance = new[n].after
  <2>1. view[r] = Standing(r)
    BY <1>1 DEF Agrees, Current
  <2> QED BY <1>1, <2>1 DEF Standing, End
<1>9. RowsOf(r)' = m + 1 .. m + n
  <2> HIDE DEF old, new, m, n
  <2>1. ASSUME NEW i \in 1 .. m + n
        PROVE  (old \o new)[i].ref = r <=> i \in m + 1 .. m + n
    <3>1. CASE i \in 1 .. m
      BY <1>2, <1>4, <1>6, <3>1
    <3>2. CASE i \in m + 1 .. m + n
      <4>1. i - m \in 1 .. n /\ (old \o new)[i] = new[i - m]
        BY <1>2, <1>4, <3>2
      <4> QED BY <1>6, <3>2, <4>1
    <3>3. i \in 1 .. m \/ i \in m + 1 .. m + n
      BY <1>2
    <3> QED BY <3>1, <3>2, <3>3
  <2>2. 1 .. Len(transactions'[o]) = 1 .. m + n
    BY <1>3, <1>4
  <2>3. RowsOf(r)' = {i \in 1 .. m + n : (old \o new)[i].ref = r}
    BY <1>1, <1>3, <1>4 DEF RowsOf
  <2>4. m + 1 .. m + n \subseteq 1 .. m + n
    BY <1>2
  <2> QED BY <2>1, <2>3, <2>4
<1>10. stake[r] > 0 => new[1].before - new[n].after = stake[r]
  <2>1. stake[r] > 0 => Taken(new) + Owed(todo[r]) = stake[r]
    BY <1>1 DEF Paying
  <2>2. Owed(todo[r]) = 0
    BY <1>1 DEF Paying, Owed
  <2>3. new[1].before \in Int /\ new[n].after \in Int
    <3>1. new[1] \in AuditRow /\ new[n] \in AuditRow
      <4>1. 1 \in 1 .. n /\ n \in 1 .. n
        BY <1>2
      <4> QED BY <1>2, <4>1, ElementOfSeq
    <3> QED BY <3>1 DEF AuditRow
  <2> QED BY <1>1, <2>1, <2>2, <2>3 DEF Taken
<1>11. Posted(r)'
  <2> HIDE DEF old, new, m, n
  <2>1. m + 1 \in m + 1 .. m + n /\ m + n \in m + 1 .. m + n
    BY <1>2
  <2>2. /\ transactions'[o][m + 1] = new[1]
        /\ transactions'[o][m + n] = new[n]
    <3>1. 1 \in 1 .. n /\ n \in 1 .. n
      BY <1>2
    <3> QED BY <1>3, <1>4, <3>1
  <2>3. r \in bets' <=> stake'[r] > 0
    BY <1>3, <1>5 DEF NoTrace
  <2> QED BY <1>1, <1>3, <1>9, <1>10, <2>1, <2>2, <2>3 DEF Posted
<1>12. Promise!Post(o, r)
  <2> DEFINE seg == SubSeq(transactions'[o], m + 1, Len(transactions'[o]))
             bal == [u \in Owners |-> wallets[u].balance]
  <2>1. seg = new
    BY <1>2, <1>3, ConcatSuffix
  <2>2. bal' = [bal EXCEPT ![o] = new[n].after]
    BY <1>1, <1>2, <1>3, <1>8
  <2>3. bets' \in {bets, bets \cup {r}}
    BY <1>3
  <2>4. bal[o] = wallets[o].balance
    BY <1>1
  <2> QED BY <1>1, <1>3, <1>6, <1>7, <2>1, <2>2, <2>3, <2>4 DEF Promise!Post
<1> QED BY <1>11, <1>12

\* COMMIT tells its caller "ok", or "error" when the answer is lost, and
\* leaves what the other requests were told true.
LEMMA CommitAnswers ==
  ASSUME IInv, AnswersInv, NEW r \in Requests, Commit(r)
  PROVE  AnswersInv'
<1> DEFINE o == user[r]
           old == transactions[o]
           new == rows[r]
<1>1. /\ TypeOK /\ Paying(r) /\ pc[r] = "commit" /\ o \in Owners
      /\ transactions \in [Owners -> Seq(AuditRow)]
      /\ old \in Seq(AuditRow) /\ new \in Seq(AuditRow)
  BY DEF IInv, AnswersInv, LockHeldBy, TypeOK, Commit
<1>2. PICK answer \in {"ok", "error"} : Finish(r, answer)
  BY DEF Commit
<1>3. /\ pc'[r] = "done" /\ reply'[r] = answer /\ user' = user
      /\ stake' = stake
      /\ \A s \in Requests \ {r} :
           /\ pc'[s] = pc[s] /\ todo'[s] = todo[s] /\ rows'[s] = rows[s]
           /\ reply'[s] = reply[s]
  BY <1>1, <1>2 DEF Finish, TypeOK
<1>4. /\ transactions' = [transactions EXCEPT ![o] = old \o new]
      /\ bets' = IF stake[r] > 0 THEN bets \cup {r} ELSE bets
  BY <1>1 DEF Commit, PostRows
<1>5. Told(r)' /\ Paying(r)'
  <2>1. Posted(r)'
    BY CommitPosts
  <2> QED BY <1>3, <2>1 DEF Told, Paying
<1>6. ASSUME NEW s \in Requests \ {r}
      PROVE  /\ \A u \in Owners :
                  {i \in 1 .. Len(transactions'[u]) :
                     transactions'[u][i].ref = s}
                  = {i \in 1 .. Len(transactions[u]) :
                       transactions[u][i].ref = s}
             /\ \A u \in Owners : \A i \in 1 .. Len(transactions'[u]) :
                  transactions'[u][i].ref = s =>
                    /\ i \in 1 .. Len(transactions[u])
                    /\ transactions'[u][i] = transactions[u][i]
             /\ \A u \in Owners : \A i \in 1 .. Len(transactions[u]) :
                  transactions'[u][i] = transactions[u][i]
  <2>1. ASSUME NEW u \in Owners
        PROVE  /\ Len(transactions[u]) \in Nat /\ Len(transactions'[u]) \in Nat
               /\ Len(transactions[u]) <= Len(transactions'[u])
               /\ \A i \in 1 .. Len(transactions[u]) :
                    transactions'[u][i] = transactions[u][i]
               /\ \A i \in 1 .. Len(transactions'[u]) :
                    transactions'[u][i].ref = s => i \in 1 .. Len(transactions[u])
    <3>1. CASE u = o
      <4> DEFINE m == Len(old)
                 n == Len(new)
      <4>0. old \in Seq(AuditRow) /\ new \in Seq(AuditRow)
        BY <1>1
      <4>1. /\ Len(old \o new) = m + n /\ m \in Nat /\ n \in Nat
            /\ \A i \in 1 .. m + n :
                 (old \o new)[i] = IF i <= m THEN old[i] ELSE new[i - m]
        <5> HIDE DEF old, new
        <5> QED BY <4>0, ConcatProperties, LenProperties
      <4>2. transactions'[u] = old \o new /\ transactions[u] = old
        BY <1>1, <1>4, <3>1
      <4>3. \A i \in 1 .. n : new[i].ref = r
        BY <1>1 DEF Paying
      <4> HIDE DEF old, new, m, n
      <4>4. ASSUME NEW i \in 1 .. m + n, (old \o new)[i].ref = s
            PROVE  i \in 1 .. m
        <5>1. CASE i <= m
          BY <4>1, <5>1
        <5>2. CASE ~(i <= m)
          <6>1. i - m \in 1 .. n /\ (old \o new)[i] = new[i - m]
            BY <4>1, <5>2
          <6> QED BY <4>3, <4>4, <6>1
        <5> QED BY <5>1, <5>2
      <4> QED BY <4>1, <4>2, <4>4 DEF m
    <3>2. CASE u # o
      <4>1. transactions'[u] = transactions[u]
        BY <1>1, <1>4, <3>2
      <4>2. Len(transactions[u]) \in Nat
        BY <1>1, LenProperties
      <4> QED BY <4>1, <4>2
    <3> QED BY <3>1, <3>2
  <2> QED BY <2>1
<1>7. ASSUME NEW s \in Requests \ {r}
      PROVE  Told(s)' /\ Paying(s)'
  <2>1. Told(s) /\ Paying(s)
    BY DEF AnswersInv
  <2>2. s \in bets' <=> s \in bets
    BY <1>4
  <2>3. NoTrace(s) => NoTrace(s)'
    BY <1>6, <2>2 DEF NoTrace
  <2>4. Posted(s) => Posted(s)'
    <3>1. RowsOf(s)' = RowsOf(s)
      BY <1>3, <1>6 DEF RowsOf
    <3>2. user[s] \in Owners => \A i \in RowsOf(s) :
            transactions'[user[s]][i] = transactions[user[s]][i]
      BY <1>6 DEF RowsOf
    <3> QED BY <1>3, <2>2, <3>1, <3>2 DEF Posted
  <2>5. Paying(s)'
    BY <1>3, <2>1 DEF Paying
  <2> QED BY <1>3, <2>1, <2>3, <2>4, <2>5 DEF Told
<1> QED BY <1>5, <1>7 DEF AnswersInv

\* The statements that only read, write the wallet row or write the bet row
\* leave the request as it was told and as it has paid.
LEMMA StatementAnswers ==
  ASSUME IInv, AnswersInv, NEW r \in Requests,
         SelectForUpdate(r) \/ UpdateWallet(r) \/ InsertBet(r)
  PROVE  AnswersInv'
<1>1. TypeOK /\ Told(r) /\ Paying(r) /\ pc[r] \in InTx
  BY DEF IInv, AnswersInv, SelectForUpdate, UpdateWallet, InsertBet
<1>2. ASSUME NEW answer \in Replies, answer # "ok", Rollback(r, answer)
      PROVE  AnswersInv'
  BY <1>1, <1>2, RollbackAnswers
<1>3. ASSUME NEW p \in {"update", "insert"}, pc' = [pc EXCEPT ![r] = p],
             UNCHANGED <<store, call, todo, rows, reply>>
      PROVE  AnswersInv'
  <2>1. pc'[r] = p
    BY <1>1, <1>3 DEF TypeOK
  <2>2. Told(r)' /\ Paying(r)'
    BY <1>1, <1>3, <2>1, NoTraceKept DEF Told, Paying
  <2> QED BY <1>1, <1>3, <2>2, LocalAnswers DEF TypeOK
<1>4. CASE InsertBet(r)
  <2>1. pc[r] = "bet" /\ pc'[r] = "commit"
    BY <1>1, <1>4 DEF InsertBet, TypeOK
  <2>2. Told(r)' /\ Paying(r)'
    BY <1>1, <1>4, <2>1, NoTraceKept DEF InsertBet, Told, Paying
  <2> QED BY <1>1, <1>4, <2>2, LocalAnswers DEF InsertBet, TypeOK
<1> QED BY <1>2, <1>3, <1>4 DEF SelectForUpdate, UpdateWallet

\* No step of any request makes an answer untrue.
LEMMA NextAnswers == IInv /\ AnswersInv /\ [Next]_vars => AnswersInv'
<1> SUFFICES ASSUME IInv, AnswersInv, [Next]_vars PROVE AnswersInv'
  OBVIOUS
<1>1. ASSUME NEW r \in Requests, Step(r) PROVE AnswersInv'
  BY <1>1, StatementAnswers, InsertAnswers, CommitAnswers DEF Step
<1>2. ASSUME NEW r \in Requests, Fail(r) PROVE AnswersInv'
  <2>1. TypeOK /\ pc[r] # "done"
    BY <1>2 DEF IInv, Fail
  <2> QED BY <1>2, <2>1, RollbackAnswers DEF Fail
<1>3. CASE UNCHANGED vars
  <2> SUFFICES ASSUME NEW r \in Requests PROVE Told(r)' /\ Paying(r)'
    BY DEF AnswersInv
  <2>1. Told(r) /\ Paying(r)
    BY DEF AnswersInv
  <2>2. RowsOf(r)' = RowsOf(r)
    BY <1>3 DEF vars, RowsOf
  <2>3. Told(r)'
    BY <1>3, <2>1, <2>2 DEF vars, Told, NoTrace, Posted
  <2>4. Paying(r)'
    BY <1>3, <2>1 DEF vars, Paying
  <2> QED BY <2>3, <2>4
<1> QED BY <1>1, <1>2, <1>3, CallAnswers DEF Next, AllDone

\* Nothing has been asked and nothing answered when the service starts.
LEMMA InitAnswers == Init => AnswersInv
<1> SUFFICES ASSUME Init, NEW r \in Requests PROVE Told(r) /\ Paying(r)
  BY DEF AnswersInv
<1>1. \A u \in Owners : Len(transactions[u]) = 0
  BY EmptySeq DEF Init
<1>2. NoTrace(r) /\ reply[r] # "ok"
  BY <1>1 DEF Init, NoTrace
<1> QED BY <1>2 DEF Init, Told, Paying

\* The answers go with the invariant of the wallet.
LEMMA AnswersInvariance == Spec => [](IInv /\ AnswersInv)
<1>1. Init => IInv
  BY InitIInv
<1> QED BY <1>1, InitAnswers, NextIInv, NextAnswers, PTL DEF Spec

\* "ok" means durable, a refusal means that the wallet is untouched, and a bet
\* row exists exactly when the gross stake was taken, in consecutive audit
\* rows: no bet is half paid (the comment on PlaceBetUseCase).
THEOREM TrueAnswers == Spec => []AnswersAreTrue
<1>1. ASSUME AnswersInv, NEW r \in Requests
      PROVE  /\ IF r \in bets
                THEN \E i, j \in RowsOf(r) :
                       /\ RowsOf(r) = i .. j
                       /\ transactions[user[r]][i].before
                            - transactions[user[r]][j].after = stake[r]
                ELSE stake[r] > 0 => RowsOf(r) = {}
             /\ reply[r] = "ok" => RowsOf(r) # {}
             /\ reply[r] \notin {"ok", "error"} => RowsOf(r) = {}
  <2>1. Told(r)
    BY <1>1 DEF AnswersInv
  <2>2. CASE NoTrace(r) /\ reply[r] # "ok"
    <3>1. RowsOf(r) = {}
      BY <2>2 DEF RowsOf, NoTrace
    <3> QED BY <2>2, <3>1 DEF NoTrace
  <2>3. CASE Posted(r) /\ reply[r] \in {"ok", "error"}
    BY <2>3 DEF Posted
  <2> QED BY <2>1, <2>2, <2>3 DEF Told
<1>2. AnswersInv => AnswersAreTrue
  BY <1>1 DEF AnswersAreTrue, BetIffPaid
<1> QED BY <1>2, AnswersInvariance, PTL

\* The statements of all requests, in any interleaving and with a failure at
\* any of them, implement the ledger of atomic postings: COMMIT is the posting
\* of its request and every other statement changes nothing of the ledger.
THEOREM LedgerImplemented == Spec => ImplementsLedger
<1>1. Init => Promise!LedgerInit
  <2> SUFFICES ASSUME Init PROVE Promise!LedgerInit
    OBVIOUS
  <2>1. [u \in Owners |-> wallets[u].balance] = InitialBalance
    BY WalletAssumption DEF Init
  <2> QED BY <2>1 DEF Init, Promise!LedgerInit
<1>2. IInv /\ AnswersInv /\ [Next]_vars
        => [Promise!LedgerNext]_(Promise!ledgerVars)
  <2> SUFFICES ASSUME IInv, AnswersInv, [Next]_vars
               PROVE  Promise!LedgerNext \/ UNCHANGED store
    BY DEF Promise!ledgerVars
  <2>1. ASSUME NEW r \in Requests, Commit(r) PROVE Promise!LedgerNext
    <3>1. user[r] \in Owners
      BY <2>1 DEF IInv, LockHeldBy, Commit
    <3> QED BY <2>1, <3>1, CommitPosts DEF Promise!LedgerNext
  <2>2. ASSUME NEW r \in Requests, Call(r) PROVE UNCHANGED store
    BY <2>2 DEF Call, Credit, Debit, PlaceBet, Refuse, Open
  <2>3. ASSUME NEW r \in Requests, Step(r), ~Commit(r) PROVE UNCHANGED store
    BY <2>3 DEF Step, SelectForUpdate, UpdateWallet, InsertTransaction,
       InsertBet, Rollback
  <2>4. ASSUME NEW r \in Requests, Fail(r) PROVE UNCHANGED store
    BY <2>4 DEF Fail, Rollback
  <2>5. CASE UNCHANGED vars
    BY <2>5 DEF vars
  <2> QED BY <2>1, <2>2, <2>3, <2>4, <2>5 DEF Next, AllDone
<1> QED BY <1>1, <1>2, AnswersInvariance, PTL
        DEF Spec, ImplementsLedger, Promise!LedgerSpec
=============================================================================
