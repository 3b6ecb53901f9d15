---------------------------- MODULE Withdrawals ----------------------------
(***************************************************************************)
(* Withdrawals of the platform: players' requests, affiliates'             *)
(* commissions, which are paid as withdrawals too, and their payment by    *)
(* PIX transfers of the provider Asaas (app/Services/                      *)
(* WithdrawalPayoutService.php and AffiliateCommissionService.php).        *)
(*                                                                         *)
(* A payment is three steps of a payer: a transaction that marks the       *)
(* withdrawal, the call of the provider, and a transaction that records    *)
(* the answer.  A notice of the provider, or its question whether a        *)
(* transfer may go out, is read without a lock and applied in a second     *)
(* step; the provider may repeat and reorder them.                         *)
(* Confirming commissions previews them first and then locks them.         *)
(*                                                                         *)
(* Every other operation is one transaction that locks the row it decides  *)
(* on, hence one action.  Refused calls, which change nothing, notes,      *)
(* payloads and the admin log are left out.                                *)
(***************************************************************************)
EXTENDS Integers, Sequences, FiniteSets, FiniteSetsExt, Functions

CONSTANTS
  Players,
  Opening,         \* [Players -> Nat]: real balances at the start
  Amounts,         \* amounts players ask for
  Affiliates,
  Deposits,        \* deposits of players that an affiliate brought
  Affiliate,       \* [Deposits -> Affiliates]
  Commission,      \* [Deposits -> Nat]: commission on each deposit
  Payers,          \* processes of administrators paying withdrawals
  Hooks,           \* processes receiving notices and questions of the provider
  Confirmers,      \* processes confirming commissions
  Faults,          \* what may go wrong, a subset of FaultKinds
  MaxWithdrawals,  \* bounds the number of withdrawals
  MaxTransfers,    \* bounds the number of transfers
  MaxBalance       \* where balances stop counting

\* refused: the provider creates no transfer and says so
\* lost:    the provider creates a transfer and its answer is lost
\* died:    a payer ends after the provider has been called
\* failed:  a transfer fails after it has been created
\* early:   a notice arrives before the payer has recorded its transfer
FaultKinds == {"refused", "lost", "died", "failed", "early"}

ASSUME WithdrawalsAssumption ==
  /\ MaxWithdrawals \in Nat /\ MaxTransfers \in Nat /\ MaxBalance \in Nat
  /\ Affiliates # {} /\ Players \cap Affiliates = {}
  /\ IsFiniteSet(Deposits)
  /\ Opening \in [Players -> 0..MaxBalance]
  /\ Amounts \subseteq Nat \ {0}
  /\ Affiliate \in [Deposits -> Affiliates]
  /\ Commission \in [Deposits -> Nat \ {0}]
  /\ Faults \subseteq FaultKinds

VARIABLES
  balance,      \* users.balance of players
  withdrawals,  \* table withdrawals, oldest first
  commissions,  \* what is known of each deposit's commission
  transfers,    \* the provider's transfers, oldest first
  pay,          \* the payment each payer is making
  notice,       \* the notice or question each hook is applying
  form          \* the preview each confirmer is confirming

vars == <<balance, withdrawals, commissions, transfers, pay, notice, form>>

Statuses == {"PENDING", "APPROVED", "PAID", "REJECTED"}

Withdrawal ==
  [owner : Players \cup Affiliates,
   amount : Nat,
   status : Statuses,
   transfer : 0..MaxTransfers,  \* asaas_transfer_id
   booked : 0..2]               \* its rows in the finance ledger

Transfer == [withdrawal : 1..MaxWithdrawals,
             status : {"PENDING", "DONE", "FAILED"}]

Idle == [step |-> "idle"]
NoPreview == [step |-> "idle", affiliate |-> CHOOSE a \in Affiliates : TRUE,
              open |-> {}, missing |-> {}]

TypeOK ==
  /\ balance \in [Players -> Nat]
  /\ withdrawals \in Seq(Withdrawal)
  /\ transfers \in Seq(Transfer)
  /\ commissions \in
       [Deposits -> [status : {"UNPAID", "NONE", "OPEN", "RESERVED", "PAID"},
                     withdrawal : 0..MaxWithdrawals]]
  /\ pay \in [Payers ->
       {Idle} \cup [step : {"call", "failed"}, w : 1..MaxWithdrawals]
              \cup [step : {"record"}, w : 1..MaxWithdrawals,
                    t : 1..MaxTransfers, status : {"PENDING", "DONE"}]]
  /\ notice \in [Hooks ->
       {Idle} \cup [step : {"paid", "reopen"}, w : 1..MaxWithdrawals]
              \cup [step : {"link"}, w : 1..MaxWithdrawals,
                    t : 1..MaxTransfers, read : Statuses]]
  /\ form \in [Confirmers ->
       [step : {"idle", "reserve"}, affiliate : Affiliates,
        open : SUBSET Deposits, missing : SUBSET Deposits]]

Init ==
  /\ balance = Opening
  /\ withdrawals = <<>>
  /\ commissions = [d \in Deposits |-> [status |-> "UNPAID", withdrawal |-> 0]]
  /\ transfers = <<>>
  /\ pay = [a \in Payers |-> Idle]
  /\ notice = [h \in Hooks |-> Idle]
  /\ form = [c \in Confirmers |-> NoPreview]

IsCommission(w) == withdrawals[w].owner \in Affiliates
Status(w) == withdrawals[w].status

NewWithdrawal(owner, amount) ==
  [owner |-> owner, amount |-> amount, status |-> "PENDING",
   transfer |-> 0, booked |-> 0]

SetStatus(w, status) ==
  withdrawals' = [withdrawals EXCEPT ![w].status = status]

\* A player's amount goes back to the balance; a commission never left one.
Refund(w) ==
  balance' = IF IsCommission(w) THEN balance
             ELSE [balance EXCEPT ![withdrawals[w].owner] =
                     Min({@ + withdrawals[w].amount, MaxBalance})]

\* The commissions that w holds reserved.
ReservedBy(w) == {d \in Deposits : /\ commissions[d].withdrawal = w
                                   /\ commissions[d].status = "RESERVED"}

\* What the commissions of the deposits in D come to.
CommissionOn(D) == SumFunction([d \in D |-> Commission[d]])

Moved(D, status, w) ==
  [d \in Deposits |-> IF d \in D THEN [status |-> status, withdrawal |-> w]
                      ELSE commissions[d]]

-----------------------------------------------------------------------------
(* Players.                                                                *)

Funds(p, amount) == balance[p] >= amount

\* Rollover, fraud flag and identity checks only refuse.
Store(p, amount) ==
  /\ Len(withdrawals) < MaxWithdrawals
  /\ Funds(p, amount)
  /\ balance' = [balance EXCEPT ![p] = @ - amount]
  /\ withdrawals' = Append(withdrawals, NewWithdrawal(p, amount))
  /\ UNCHANGED <<commissions, transfers, pay, notice, form>>

-----------------------------------------------------------------------------
(* Commissions.                                                            *)

\* A deposit is settled, which creates its row; or there is none yet, when
\* the player had no active affiliate then.
DepositPaid(d) ==
  /\ commissions[d].status = "UNPAID"
  /\ \E status \in {"NONE", "OPEN"} :
       commissions' = [commissions EXCEPT ![d].status = status]
  /\ UNCHANGED <<balance, withdrawals, transfers, pay, notice, form>>

\* Looking at a period creates the missing rows.
Preview(d) ==
  /\ commissions[d].status = "NONE"
  /\ commissions' = [commissions EXCEPT ![d].status = "OPEN"]
  /\ UNCHANGED <<balance, withdrawals, transfers, pay, notice, form>>

EarnedBy(a, status) ==
  {d \in Deposits : Affiliate[d] = a /\ commissions[d].status = status}

\* Confirming starts with a preview inside the transaction.
Confirm(c, a) ==
  /\ form[c].step = "idle"
  /\ EarnedBy(a, "OPEN") \cup EarnedBy(a, "NONE") # {}
  /\ form' = [form EXCEPT ![c] = [step |-> "reserve", affiliate |-> a,
                                  open |-> EarnedBy(a, "OPEN"),
                                  missing |-> EarnedBy(a, "NONE")]]
  /\ UNCHANGED <<balance, withdrawals, commissions, transfers, pay, notice>>

\* The previewed rows, locked, are all still open; no row that the preview
\* had to create has been created by another transaction.
StillOpen(f) ==
  /\ \A d \in f.open : commissions[d].status = "OPEN"
  /\ \A d \in f.missing : commissions[d].status = "NONE"

Reserve(c) ==
  LET f == form[c]
      D == f.open \cup f.missing
      total == CommissionOn(D)
  IN  /\ f.step = "reserve"
      /\ form' = [form EXCEPT ![c] = NoPreview]
      /\ IF StillOpen(f) /\ Len(withdrawals) < MaxWithdrawals
           THEN /\ withdrawals' = Append(withdrawals,
                                         NewWithdrawal(f.affiliate, total))
                /\ commissions' = Moved(D, "RESERVED", Len(withdrawals) + 1)
           ELSE UNCHANGED <<withdrawals, commissions>>
      /\ UNCHANGED <<balance, transfers, pay, notice>>

-----------------------------------------------------------------------------
(* Administrators.                                                         *)

\* Variant with a bug: any withdrawal may be rejected.
RejectAny(w) == Status(w) # "REJECTED"

Rejectable(w) == Status(w) = "PENDING"

Reject(w) ==
  /\ Rejectable(w)
  /\ Refund(w)
  /\ commissions' = Moved(ReservedBy(w), "OPEN", 0)
  /\ SetStatus(w, "REJECTED")
  /\ UNCHANGED <<transfers, pay, notice, form>>

\* Variant with a bug: a transfer already linked is not looked at.
PayableAgain(w) == Status(w) \in {"PENDING", "APPROVED"}

\* Variant with a bug: the status is not looked at.
PayableClosed(w) == withdrawals[w].transfer = 0

Payable(w) ==
  /\ Status(w) \in {"PENDING", "APPROVED"}
  /\ withdrawals[w].transfer = 0

PayViaPix(a, w) ==
  /\ pay[a] = Idle
  /\ Payable(w)
  /\ SetStatus(w, "APPROVED")
  /\ pay' = [pay EXCEPT ![a] = [step |-> "call", w |-> w]]
  /\ UNCHANGED <<balance, commissions, transfers, notice, form>>

\* The provider creates the transfer, which may be done at once.
CreateTransfer(a) ==
  LET w == pay[a].w
  IN  /\ pay[a].step = "call"
      /\ Len(transfers) < MaxTransfers
      /\ \E status \in {"PENDING", "DONE"} :
           /\ transfers' = Append(transfers,
                             [withdrawal |-> w, status |-> status])
           /\ \/ pay' = [pay EXCEPT ![a] =
                           [step |-> "record", w |-> w,
                            t |-> Len(transfers) + 1, status |-> status]]
              \/ /\ "lost" \in Faults
                 /\ pay' = [pay EXCEPT ![a] = [step |-> "failed", w |-> w]]
      /\ UNCHANGED <<balance, withdrawals, commissions, notice, form>>

TransferRefused(a) ==
  /\ pay[a].step = "call"
  /\ "refused" \in Faults \/ Len(transfers) = MaxTransfers
  /\ pay' = [pay EXCEPT ![a] = [step |-> "failed", w |-> pay[a].w]]
  /\ UNCHANGED <<balance, withdrawals, commissions, transfers, notice, form>>

\* Whatever the withdrawal has become meanwhile, it is pending again.
PayFailed(a) ==
  /\ pay[a].step = "failed"
  /\ SetStatus(pay[a].w, "PENDING")
  /\ pay' = [pay EXCEPT ![a] = Idle]
  /\ UNCHANGED <<balance, commissions, transfers, notice, form>>

Unpaid(w) == Status(w) # "PAID"

\* Pay w and write its ledger row; two rows stand for any larger number.
Paid(ws, w) ==
  [ws EXCEPT ![w].status = "PAID", ![w].booked = Min({@ + 1, 2})]

\* Pay w, its commissions and the ledger, unless that is done already.
MarkPaid(w) ==
  IF Unpaid(w)
  THEN /\ withdrawals' = Paid(withdrawals, w)
       /\ commissions' = Moved(ReservedBy(w), "PAID", w)
  ELSE UNCHANGED <<withdrawals, commissions>>

\* Whatever the withdrawal has become meanwhile, it is approved; and paid if
\* the provider's answer says that the transfer is done.
PayRecord(a) ==
  LET w == pay[a].w
      approved == [withdrawals EXCEPT ![w].status = "APPROVED",
                                      ![w].transfer = pay[a].t]
  IN  /\ pay[a].step = "record"
      /\ IF pay[a].status = "DONE"
           THEN /\ withdrawals' = Paid(approved, w)
                /\ commissions' = Moved(ReservedBy(w), "PAID", w)
           ELSE /\ withdrawals' = approved
                /\ UNCHANGED commissions
      /\ pay' = [pay EXCEPT ![a] = Idle]
      /\ UNCHANGED <<balance, transfers, notice, form>>

PayerDies(a) ==
  /\ "died" \in Faults
  /\ pay[a].step \in {"record", "failed"}
  /\ pay' = [pay EXCEPT ![a] = Idle]
  /\ UNCHANGED <<balance, withdrawals, commissions, transfers, notice, form>>

-----------------------------------------------------------------------------
(* The provider.                                                           *)

\* The payer that asked for t has not recorded it yet.
Unrecorded(t) ==
  \E a \in Payers : pay[a].step = "record" /\ pay[a].t = t

\* The answer to the provider's question: a refusal fails t.
AnswerFor(t, status) ==
  transfers' = IF status = "REJECTED" /\ transfers[t].status = "PENDING"
               THEN [transfers EXCEPT ![t].status = "FAILED"]
               ELSE transfers

\* The provider asks whether t may go out: the withdrawal is read without a
\* lock, and answered for by the status it had then; with no transfer linked,
\* t is linked first, in a second step.
ValidateTransfer(h, t) ==
  LET w == transfers[t].withdrawal
  IN  /\ notice[h] = Idle
      /\ transfers[t].status = "PENDING"
      /\ IF withdrawals[w].transfer = 0
           THEN /\ notice' = [notice EXCEPT ![h] =
                     [step |-> "link", w |-> w, t |-> t, read |-> Status(w)]]
                /\ UNCHANGED transfers
           ELSE AnswerFor(t, Status(w)) /\ UNCHANGED notice
      /\ UNCHANGED <<balance, withdrawals, commissions, pay, form>>

\* Whatever has been linked meanwhile, t is; the other columns are not saved.
LinkTransfer(h) ==
  LET n == notice[h]
  IN  /\ n.step = "link"
      /\ withdrawals' = [withdrawals EXCEPT ![n.w].transfer = n.t]
      /\ AnswerFor(n.t, n.read)
      /\ notice' = [notice EXCEPT ![h] = Idle]
      /\ UNCHANGED <<balance, commissions, pay, form>>

FinishTransfer(t) ==
  /\ transfers[t].status = "PENDING"
  /\ \E status \in {"DONE"} \cup (IF "failed" \in Faults THEN {"FAILED"}
                                  ELSE {}) :
       transfers' = [transfers EXCEPT ![t].status = status]
  /\ UNCHANGED <<balance, withdrawals, commissions, pay, notice, form>>

\* Variant with a bug: a notice is matched by the recorded transfer only.
LinkedTo(t) == {w \in DOMAIN withdrawals : withdrawals[w].transfer = t}

\* The withdrawal a notice of t is about: by transfer id, else by reference.
FoundBy(t) == {transfers[t].withdrawal}

\* A notice of the status t has reached, read with its withdrawal.
HandleWebhook(h, t) ==
  /\ notice[h] = Idle
  /\ "early" \in Faults \/ ~Unrecorded(t)
  /\ \E w \in FoundBy(t) :
       \/ /\ transfers[t].status = "DONE"
          /\ Status(w) # "PAID"
          /\ notice' = [notice EXCEPT ![h] = [step |-> "paid", w |-> w]]
       \/ /\ transfers[t].status = "FAILED"
          /\ Status(w) = "APPROVED"
          /\ notice' = [notice EXCEPT ![h] = [step |-> "reopen", w |-> w]]
  /\ UNCHANGED <<balance, withdrawals, commissions, transfers, pay, form>>

WebhookPaid(h) ==
  /\ notice[h].step = "paid"
  /\ MarkPaid(notice[h].w)
  /\ notice' = [notice EXCEPT ![h] = Idle]
  /\ UNCHANGED <<balance, transfers, pay, form>>

\* Refund the player and open the withdrawal for another payment.
WebhookReopen(h) ==
  LET w == notice[h].w
  IN  /\ notice[h].step = "reopen"
      /\ IF Status(w) = "APPROVED"
           THEN /\ Refund(w)
                /\ withdrawals' = [withdrawals EXCEPT
                                     ![w].status = "PENDING",
                                     ![w].transfer = 0]
           ELSE UNCHANGED <<balance, withdrawals>>
      /\ notice' = [notice EXCEPT ![h] = Idle]
      /\ UNCHANGED <<commissions, transfers, pay, form>>

-----------------------------------------------------------------------------
PayerStep(a) == \/ CreateTransfer(a) \/ TransferRefused(a)
                \/ PayFailed(a) \/ PayRecord(a)

Notify(h) ==
  \E t \in DOMAIN transfers : HandleWebhook(h, t) \/ ValidateTransfer(h, t)

HookStep(h) == WebhookPaid(h) \/ WebhookReopen(h) \/ LinkTransfer(h)

Next ==
  \/ \E p \in Players, amount \in Amounts : Store(p, amount)
  \/ \E d \in Deposits : DepositPaid(d) \/ Preview(d)
  \/ \E c \in Confirmers : Reserve(c) \/ \E a \in Affiliates : Confirm(c, a)
  \/ \E w \in DOMAIN withdrawals :
       Reject(w) \/ \E a \in Payers : PayViaPix(a, w)
  \/ \E a \in Payers : PayerStep(a) \/ PayerDies(a)
  \/ \E t \in DOMAIN transfers : FinishTransfer(t)
  \/ \E h \in Hooks : Notify(h) \/ HookStep(h)

Spec == Init /\ [][Next]_vars

\* Payments that have begun go on, and the provider repeats its notices until
\* they are received.
Fairness ==
  /\ \A a \in Payers : WF_vars(PayerStep(a))
  /\ \A h \in Hooks :
       /\ WF_vars(HookStep(h))
       /\ \A t \in 1..MaxTransfers :
            SF_vars(t \in DOMAIN transfers /\ HandleWebhook(h, t))

FairSpec == Spec /\ Fairness

-----------------------------------------------------------------------------
(* What must hold.                                                         *)

AmountOf(w) == withdrawals[w].amount
SumOf(S) == SumFunction([w \in S |-> AmountOf(w)])

WithdrawalsOf(p, statuses) ==
  {w \in DOMAIN withdrawals : /\ withdrawals[w].owner = p
                              /\ withdrawals[w].status \in statuses}

\* A player's money is in the balance or in withdrawals that are not
\* rejected: requests, payments, refusals of the provider and rejections
\* neither create nor lose any.
HeldOrReturned ==
  \A p \in Players :
    balance[p] + SumOf(WithdrawalsOf(p, {"PENDING", "APPROVED", "PAID"}))
      = Opening[p]

\* A withdrawal of commissions is for exactly the deposits reserved for it,
\* and a commission is reserved or paid as its withdrawal is: two
\* confirmations of one period never pay a deposit twice.
CommissionsFollowWithdrawal ==
  /\ \A d \in Deposits :
       LET s == commissions[d].status  w == commissions[d].withdrawal
       IN  /\ (s \in {"UNPAID", "NONE", "OPEN"}) <=> (w = 0)
           /\ s = "RESERVED" => Status(w) \in {"PENDING", "APPROVED"}
           /\ s = "PAID" => Status(w) = "PAID"
  /\ \A w \in DOMAIN withdrawals :
       IsCommission(w) /\ Status(w) # "REJECTED" =>
         AmountOf(w) = CommissionOn({d \in Deposits :
                                       commissions[d].withdrawal = w})

\* Balances, withdrawals and commissions agree, and no balance is negative.
MoneyIsHeld == TypeOK /\ HeldOrReturned /\ CommissionsFollowWithdrawal

\* The ledger has one row for a paid withdrawal and none for any other,
\* however often the provider repeats that the transfer is done.
BookedOnce ==
  \A w \in DOMAIN withdrawals :
    withdrawals[w].booked = IF Status(w) = "PAID" THEN 1 ELSE 0

\* No withdrawal is sent twice (L38: "Já existe uma transferência Asaas
\* vinculada a este saque").
OneTransfer ==
  \A t, u \in DOMAIN transfers :
    /\ transfers[t].withdrawal = transfers[u].withdrawal
    /\ transfers[t].status # "FAILED"
    /\ transfers[u].status # "FAILED"
    => t = u

\* A withdrawal leaves the house once, at the provider and in the ledger.
SentAndBookedOnce == BookedOnce /\ OneTransfer

\* What is paid or rejected stays so: no late answer or repeated notice opens
\* a withdrawal again whose money is with the player.
ClosedIsFinal ==
  [][\A w \in DOMAIN withdrawals :
       Status(w) \in {"PAID", "REJECTED"} =>
         withdrawals'[w].status = Status(w)]_vars

\* Nobody is paid more than the real balance had ("Saldo real insuficiente").
PaidFromBalance ==
  \A p \in Players :
    balance[p] + SumOf(WithdrawalsOf(p, {"PAID"})) <= Opening[p]

\* A transfer that is done is booked in the end, also when the answer that
\* named it was lost.
EveryTransferBooked ==
  \A t \in 1..MaxTransfers :
    t \in DOMAIN transfers /\ transfers[t].status = "DONE"
      ~> t \in DOMAIN transfers
           /\ withdrawals[transfers[t].withdrawal].booked > 0
-----------------------------------------------------------------------------
(* The inductive invariant from which WithdrawalsProofs derives the        *)
(* properties, given one payer and a provider that may only refuse.        *)

Orderly == (\A a, b \in Payers : a = b) /\ Faults \subseteq {"refused"}

TablesInv ==
  /\ Len(withdrawals) <= MaxWithdrawals
  /\ Len(transfers) <= MaxTransfers
  /\ \A d \in Deposits :
       commissions[d].withdrawal # 0 =>
         commissions[d].withdrawal \in DOMAIN withdrawals

\* A withdrawal has one transfer at most; while there is one, it is approved or
\* paid, and the transfer is linked to it or its payer is about to link it.
TransfersInv ==
  /\ \A t \in DOMAIN transfers :
       LET w == transfers[t].withdrawal
       IN  /\ w \in DOMAIN withdrawals
           /\ transfers[t].status # "FAILED"
           /\ Status(w) \in {"APPROVED", "PAID"}
           /\ Unrecorded(t) \/ withdrawals[w].transfer = t
  /\ \A t, u \in DOMAIN transfers :
       transfers[t].withdrawal = transfers[u].withdrawal => t = u
  /\ \A w \in DOMAIN withdrawals :
       LET t == withdrawals[w].transfer
       IN  t # 0 => t \in DOMAIN transfers /\ transfers[t].withdrawal = w

\* What a payer works on stays approved, and is not sent before it is sent.
PaymentsInv ==
  \A a \in Payers :
    LET w == pay[a].w
    IN  pay[a].step # "idle" =>
          /\ w \in DOMAIN withdrawals
          /\ Status(w) = "APPROVED"
          /\ pay[a].step \in {"call", "failed"} =>
               \A t \in DOMAIN transfers : transfers[t].withdrawal # w
          /\ pay[a].step = "record" =>
               /\ pay[a].t \in DOMAIN transfers
               /\ transfers[pay[a].t].withdrawal = w

\* A notice being applied is about a transfer that its payer has recorded; a
\* transfer being linked is its withdrawal's, which was not rejected when read.
NoticesInv ==
  \A h \in Hooks :
    LET n == notice[h]
    IN  n.step # "idle" =>
          \/ /\ n.step = "paid"
             /\ \E t \in DOMAIN transfers :
                  transfers[t].withdrawal = n.w /\ ~Unrecorded(t)
          \/ /\ n.step = "link" /\ n.read # "REJECTED"
             /\ n.t \in DOMAIN transfers
             /\ transfers[n.t].withdrawal = n.w

IInv ==
  /\ MoneyIsHeld
  /\ BookedOnce
  /\ TablesInv
  /\ TransfersInv
  /\ PaymentsInv
  /\ NoticesInv
=============================================================================
