----------------------------- MODULE WalletRows -----------------------------
(***************************************************************************)
(* The wallet's repository (wallet_repository.go): a caller reads the row, *)
(* computes the balance and hands it to UpdateBalance, which selects the   *)
(* version in a transaction of its own and updates the row if it is still  *)
(* the same.                                                               *)
(***************************************************************************)
EXTENDS Integers

CONSTANTS
  Savers,     \* the calls that change the balance
  Increments  \* what they add to it

ASSUME WalletRowsAssumption == Increments \subseteq Int

VARIABLES
  walletRow,  \* the row: balance and version, or none
  saver,      \* each call: where it is, what it adds, what it read, the version it
              \* selected and how far the balance had moved by then
  added,      \* what the updates that were made added, whatever their callers were told
  unseen      \* what had come between the reads and the SELECTs of those updates

rowVars == <<walletRow, saver, added, unseen>>

NoWallet == [balance |-> 0, version |-> 0]
NoSaver == [at |-> "new", adds |-> 0, read |-> NoWallet, version |-> 0, moved |-> 0]

RowsInit ==
  /\ walletRow = NoWallet /\ saver = [c \in Savers |-> NoSaver]
  /\ added = 0 /\ unseen = 0

CreateWallet ==
  /\ walletRow = NoWallet
  /\ walletRow' = [balance |-> 0, version |-> 1]
  /\ UNCHANGED <<saver, added, unseen>>

GetWallet(c) ==
  /\ saver[c].at = "new" /\ walletRow # NoWallet
  /\ \E n \in Increments :
       saver' = [saver EXCEPT ![c] =
         [at |-> "select", adds |-> n, read |-> walletRow, version |-> 0, moved |-> 0]]
  /\ UNCHANGED <<walletRow, added, unseen>>

\* The balance alone serves as well: UpdateBalance is given no version.
GetBalance(c) == GetWallet(c)

\* The lock of SELECT ... FOR UPDATE ends with the statement.
SelectVersion(c) ==
  /\ saver[c].at = "select"
  /\ saver' = [saver EXCEPT ![c].at = "update", ![c].version = walletRow.version,
                            ![c].moved = walletRow.balance - saver[c].read.balance]
  /\ UNCHANGED <<walletRow, added, unseen>>

\* Variant with a bug: WHERE does not ask for the version.
AnyVersion(c) == saver[c].at = "update"
SameVersion(c) == saver[c].version = walletRow.version

\* The UPDATE commits by itself: the caller may be told of an error (its own, or of
\* RowsAffected) after the row was written.
UpdateBalance(c) ==
  /\ saver[c].at = "update"
  /\ IF SameVersion(c)
     THEN /\ walletRow' = [balance |-> saver[c].read.balance + saver[c].adds, version |-> walletRow.version + 1]
          /\ \E answer \in {"saved", "failed"} : saver' = [saver EXCEPT ![c].at = answer]
          /\ added' = added + saver[c].adds
          /\ unseen' = unseen + saver[c].moved
     ELSE saver' = [saver EXCEPT ![c].at = "conflict"] /\ UNCHANGED <<walletRow, added, unseen>>

\* The movement is recorded apart from the balance, or not at all.
CreateTransaction(c) ==
  /\ saver[c].at = "saved" /\ saver' = [saver EXCEPT ![c].at = "recorded"]
  /\ UNCHANGED <<walletRow, added, unseen>>

GetTransactionsByUserID(c) ==
  saver[c].at = "new" /\ saver' = [saver EXCEPT ![c].at = "listed"] /\ UNCHANGED <<walletRow, added, unseen>>

\* A statement fails and changes nothing.
SaverFails(c) ==
  /\ saver[c].at \in {"new", "select", "update", "saved"}
  /\ saver' = [saver EXCEPT ![c].at = "failed"]
  /\ UNCHANGED <<walletRow, added, unseen>>

\* transactions has no column updated_at: a status is never written.
UpdateTransactionStatus(c) ==
  saver[c].at = "new" /\ saver' = [saver EXCEPT ![c].at = "failed"] /\ UNCHANGED <<walletRow, added, unseen>>

RowsNext ==
  \/ CreateWallet
  \/ \E c \in Savers : \/ GetWallet(c) \/ GetBalance(c) \/ SelectVersion(c) \/ UpdateBalance(c) \/ CreateTransaction(c)
                       \/ GetTransactionsByUserID(c) \/ UpdateTransactionStatus(c) \/ SaverFails(c)
RowsSpec == RowsInit /\ [][RowsNext]_rowVars

-----------------------------------------------------------------------------
\* The balance is what every update that was made added, its answer lost or not, less
\* what other updates brought between the read of a call and its SELECT: from the SELECT
\* on, the version in WHERE lets no update of another call be overwritten.  Before it
\* nothing does, and the balance is then less than what was added.
BalanceAddsUp == walletRow.balance = added - unseen
=============================================================================
