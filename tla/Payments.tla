------------------------------ MODULE Payments ------------------------------
(***************************************************************************)
(* Deposits and withdrawals over M-Pesa (tenant/ke, http/mpesa_handlers)   *)
(* and Flutterwave (tenant/ng, tenant/gh), with the deposit repositories.  *)
(* Providers, the callers of the clients and the network are external: a   *)
(* push is stored with the checkout id it answered; calls may be lost, late*)
(* or repeated.  Amounts are in hundredths.                                *)
(***************************************************************************)
EXTENDS Naturals, FiniteSets

CONSTANTS
  Pushes,     \* the deposits asked for
  Calls,      \* the callbacks the provider makes
  Sums        \* bound: the amounts

ASSUME PaymentsAssumption == Sums \subseteq Nat \ {0} /\ IsFiniteSet(Calls)

VARIABLES
  push,       \* each deposit: where the client is, its amount, what the phone paid
  deposit,    \* mpesa_deposits: the status of each row
  callback,   \* each callback: where its handler is, its deposit, result and answer
  credited,   \* how often the wallet was credited for each deposit
  paidOut,     \* the withdrawal: "none", "sent", "failed"; its results are only noted
  charge      \* what the last call that changes nothing gave, and a Flutterwave deposit's row

paymentVars == <<push, deposit, callback, credited, paidOut, charge>>

PaymentInit ==
  /\ push = [d \in Pushes |-> [at |-> "new", sum |-> 0, paid |-> 0]]
  /\ deposit = [d \in Pushes |-> "none"]
  /\ callback = [c \in Calls |-> [at |-> "new", push |-> "none", ok |-> FALSE, answer |-> "none"]]
  /\ credited = [d \in Pushes |-> 0]
  /\ paidOut = "none" /\ charge = [call |-> "none", row |-> "none"]

-----------------------------------------------------------------------------
(* The M-Pesa client: every call first fetches a token.                    *)

GetAccessToken == {"ok", "error"}
\* What a request to the provider gives: an answer, or an error after which the
\* provider may have acted all the same.
Sent == {"ok", "error", "lost"}

\* Amount.StringFixed(0): the phone pays whole units, rounded half away from zero.
StringFixed0(sum) == ((sum + 50) \div 100) * 100

InitiateDeposit(d) ==
  /\ push[d].at = "new"
  /\ \E sum \in Sums, token \in GetAccessToken, sent \in Sent :
       LET prompted == token = "ok" /\ sent # "error"
       IN  push' = [push EXCEPT ![d] =
             [at |-> IF ~prompted THEN "failed" ELSE IF sent = "ok" THEN "store" ELSE "prompted",
              sum |-> sum, paid |-> 0]]
  /\ UNCHANGED <<deposit, callback, credited, paidOut, charge>>

\* Create: the row can only be stored once the push has answered.
CreateDeposit(d) ==
  /\ push[d].at = "store"
  /\ \/ deposit' = [deposit EXCEPT ![d] = "PENDING"] \/ UNCHANGED deposit
  /\ push' = [push EXCEPT ![d].at = "prompted"]
  /\ UNCHANGED <<callback, credited, paidOut, charge>>

Pays(d) ==
  /\ push[d].at \in {"store", "prompted"} /\ push[d].paid = 0
  /\ push' = [push EXCEPT ![d].paid = StringFixed0(push[d].sum)]
  /\ UNCHANGED <<deposit, callback, credited, paidOut, charge>>

ProcessWithdrawal ==
  /\ paidOut = "none"
  /\ \E token \in GetAccessToken, sent \in Sent :
       paidOut' = IF token = "ok" /\ sent = "ok" THEN "sent" ELSE "failed"
  /\ UNCHANGED <<push, deposit, callback, credited, charge>>

\* b2cResult and b2cTimeout acknowledge any body and change nothing.
b2cResult == paidOut = "sent" /\ UNCHANGED paymentVars

\* The calls that ask: a token, a request, an answer that decodes or none.
CheckTransactionStatus == GetAccessToken
GetAccountBalance == GetAccessToken
\* The listings: one user's deposits, and the pending ones older than a moment.
Some(rows) == IF rows = {} THEN {"not found", "error"} ELSE {"ok", "error"}
DepositsByUserID == Some({d \in Pushes : deposit[d] # "none"})
GetPendingDeposits(older) == Some({d \in older : deposit[d] = "PENDING"})
AskMpesa ==
  /\ \E older \in SUBSET Pushes :
       \E outcome \in CheckTransactionStatus \cup GetAccountBalance \cup DepositsByUserID
                      \cup GetPendingDeposits(older) :
         charge' = [charge EXCEPT !.call = outcome]
  /\ UNCHANGED <<push, deposit, callback, credited, paidOut>>

-----------------------------------------------------------------------------
(* stkCallback.  The URL sent to the provider ends in /callback, which no  *)
(* route matches: it is handled only where a proxy rewrites it.            *)

Answers(c, what) == callback' = [callback EXCEPT ![c].at = "done", ![c].answer = what]

Deliver(c) ==
  /\ callback[c].at = "new"
  /\ \E d \in Pushes, rewritten \in BOOLEAN :
       LET ok == push[d].paid > 0
           at == IF ~rewritten THEN "done" ELSE IF ok THEN "find" ELSE "fail"
       IN  /\ push[d].at \in {"store", "prompted"}
           /\ callback' = [callback EXCEPT ![c] =
                [at |-> at, push |-> d, ok |-> ok, answer |-> IF rewritten THEN "none" ELSE "404"]]
  /\ UNCHANGED <<push, deposit, credited, paidOut, charge>>

\* Undecodable bodies and those without a checkout id are refused.
Malformed(c) ==
  callback[c].at = "new" /\ Answers(c, "400") /\ UNCHANGED <<push, deposit, credited, paidOut, charge>>

\* UpdateDeposit looks at no status; an error of it is only logged.
UpdateDeposit(d, status) ==
  \/ deposit' = [deposit EXCEPT ![d] = IF @ = "none" THEN @ ELSE status]
  \/ UNCHANGED deposit

MarkFailed(c) ==
  /\ callback[c].at = "fail" /\ UpdateDeposit(callback[c].push, "FAILED") /\ Answers(c, "noted")
  /\ UNCHANGED <<push, credited, paidOut, charge>>

FindByCheckoutID(c) ==
  /\ callback[c].at = "find"
  /\ \/ deposit[callback[c].push] # "none" /\ callback' = [callback EXCEPT ![c].at = "credit"]
     \/ Answers(c, "ignored")
  /\ UNCHANGED <<push, deposit, credited, paidOut, charge>>

\* The reference is a fresh uuid: the wallet cannot tell a repeat.  An error may be the
\* answer of a commit that was lost: the credit stands, and the row is not marked.
CreditDeposit(c) ==
  /\ callback[c].at = "credit"
  /\ \/ /\ credited' = [credited EXCEPT ![callback[c].push] = @ + 1]
        /\ callback' = [callback EXCEPT ![c].at = "mark"] \/ Answers(c, "uncredited")
     \/ Answers(c, "uncredited") /\ UNCHANGED credited
  /\ UNCHANGED <<push, deposit, paidOut, charge>>

MarkCompleted(c) ==
  /\ callback[c].at = "mark" /\ UpdateDeposit(callback[c].push, "COMPLETED") /\ Answers(c, "accepted")
  /\ UNCHANGED <<push, credited, paidOut, charge>>

-----------------------------------------------------------------------------
(* The Flutterwave adapters: an error, an answer, or a panic when a field  *)
(* is missing or of another type (type assertions, RequireFromString).     *)

makeRequest == {"ok", "error"}
CreatePaymentNg == makeRequest \cup {"panic"}
VerifyPaymentNg == makeRequest \cup {"panic"}
ProcessRefund == makeRequest \cup {"panic"}
CreatePaymentGh == makeRequest \cup {"panic"}
VerifyPaymentGh == makeRequest \cup {"panic"}
ProcessMobileMoneyPayment == makeRequest
ProcessPayout == makeRequest

\* FlutterwaveDepositRepository: its updates look at no status, and touch no row when
\* there is none; a lookup answers the row's status, or that there is none.
DepositStatuses == {"PENDING", "COMPLETED", "FAILED", "CANCELLED"}
Updated(row, status) == IF row = "none" THEN "none" ELSE status
FlutterwaveCreate == {status \in DepositStatuses : charge.row = "none"}
FlutterwaveUpdateStatus == {Updated(charge.row, status) : status \in DepositStatuses}
FlutterwaveMarkCompleted == {Updated(charge.row, "COMPLETED")}
FlutterwaveMarkFailed == {Updated(charge.row, "FAILED")}
FlutterwaveDelete == {"none"}
Found(row) == IF row = "none" THEN {"not found", "error"} ELSE {row, "error"}
FlutterwaveGetByID == Found(charge.row)
FlutterwaveGetByDepositID == Found(charge.row)
FlutterwaveGetByTransactionID == Found(charge.row)

Store ==
  /\ \E row \in FlutterwaveCreate \cup FlutterwaveUpdateStatus \cup FlutterwaveMarkCompleted
               \cup FlutterwaveMarkFailed \cup FlutterwaveDelete :
       charge' = [call |-> "ok", row |-> row]
  /\ UNCHANGED <<push, deposit, callback, credited, paidOut>>

Charge ==
  /\ \E outcome \in CreatePaymentNg \cup VerifyPaymentNg \cup ProcessRefund
        \cup CreatePaymentGh \cup VerifyPaymentGh \cup ProcessMobileMoneyPayment \cup ProcessPayout
        \cup FlutterwaveGetByID \cup FlutterwaveGetByDepositID \cup FlutterwaveGetByTransactionID :
       charge' = [charge EXCEPT !.call = outcome]
  /\ UNCHANGED <<push, deposit, callback, credited, paidOut>>

Push(d) == InitiateDeposit(d) \/ CreateDeposit(d) \/ Pays(d)
stkCallback(c) ==
  Deliver(c) \/ Malformed(c) \/ MarkFailed(c) \/ FindByCheckoutID(c) \/ CreditDeposit(c) \/ MarkCompleted(c)
PaymentNext ==
  \/ \E d \in Pushes : Push(d)
  \/ \E c \in Calls : stkCallback(c)
  \/ ProcessWithdrawal \/ AskMpesa \/ b2cResult \/ Charge \/ Store
PaymentSpec == PaymentInit /\ [][PaymentNext]_paymentVars

-----------------------------------------------------------------------------
\* The callbacks of a deposit that know their credit went through, and those that may
\* have credited it.
Crediting(d) == {c \in Calls : callback[c].push = d /\
  (callback[c].at = "mark" \/ callback[c].answer = "accepted")}
MayHaveCredited(d) == Crediting(d) \cup
  {c \in Calls : callback[c].push = d /\ callback[c].answer = "uncredited"}

\* A deposit is credited once for each callback that knows of its credit, and at most
\* once more for each whose credit answered with an error; a row is COMPLETED only when
\* credited; and what is credited is of a stored deposit the phone paid, by an amount
\* within half a unit of what the phone paid.  So a payment is credited no more often
\* than it is reported.  That it is credited once is not promised: a second callback of
\* it credits it again, and one before its row is stored never does.
CreditedAsReported ==
  \A d \in Pushes :
    /\ Cardinality(Crediting(d)) <= credited[d]
    /\ credited[d] <= Cardinality(MayHaveCredited(d))
    /\ deposit[d] = "COMPLETED" => credited[d] > 0
    /\ credited[d] > 0 =>
         /\ push[d].paid > 0 /\ deposit[d] # "none"
         /\ push[d].sum <= push[d].paid + 50 /\ push[d].paid <= push[d].sum + 50
=============================================================================
