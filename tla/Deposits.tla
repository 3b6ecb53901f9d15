------------------------------ MODULE Deposits ------------------------------
(***************************************************************************)
(* Deposits by PIX on the platform and the bonuses that come with them:    *)
(* DepositController, AsaasWebhookController, DepositSettlementService,    *)
(* PendingDepositCleanupService and PlayerBonusService, with the calls     *)
(* they make to WalletService, WageringService and                         *)
(* AffiliateCommissionService.                                             *)
(*                                                                         *)
(* A deposit is settled by whoever first hears that its charge is paid: a  *)
(* notice of the provider, the player who asks for a check, or the job     *)
(* (and every look at the deposit's page) that expires old deposits.       *)
(* These processes read the deposit without a lock, ask the provider, and  *)
(* then act.  A settlement locks deposit, player and typed code, in that   *)
(* order, and reads the campaigns without a lock: it is two steps, at its  *)
(* locks and at its commit.                                                *)
(*                                                                         *)
(* The provider is Asaas; amounts are in the smallest unit that matters.   *)
(* Gateway fees, statistics and the limit of deposits per address are left *)
(* out, and so is confirm(), which exists only where no provider does.     *)
(***************************************************************************)
EXTENDS Integers, FiniteSets, FiniteSetsExt

CONSTANTS
  Users,
  Deposits,    \* deposits that may be asked for
  UserOf,      \* [Deposits -> Users]
  Amount,      \* [Deposits -> Nat]
  Codes,       \* bonus codes players type
  Fixed,       \* those that may be redeemed without a deposit
  CodeOf,      \* [Deposits -> Codes \cup {NoCode}]
  NoCode,
  Reward,      \* [Codes \cup Campaigns -> Nat]: the bonus granted
  MaxUses,     \* [Codes \cup Campaigns -> Nat]: max_uses
  Active,      \* the campaigns that are running
  Referred,    \* players who came with an affiliate
  Multiplier,  \* setting wagering_multiplier
  Hooks,       \* processes receiving the provider's notices
  Checkers,    \* processes answering "check my payment"
  Expirers,    \* processes expiring a deposit
  MaxNotices,  \* notices the provider sends of a payment
  Failing,     \* processes whose calls to the provider may fail
  Overlap      \* deposits whose expiry may overlap with other work on them

Campaigns == {"first", "reload", "signup"}
Bonuses == Codes \cup Campaigns
Procs == Hooks \cup Checkers \cup Expirers

ASSUME DepositsAssumption ==
  /\ IsFiniteSet(Deposits) /\ Deposits # {}
  /\ UserOf \in [Deposits -> Users]
  /\ Amount \in [Deposits -> Nat \ {0}]
  /\ NoCode \notin Codes
  /\ Codes \cap Campaigns = {}
  /\ Fixed \subseteq Codes
  /\ CodeOf \in [Deposits -> Codes \cup {NoCode}]
  /\ Reward \in [Bonuses -> Nat]
  /\ MaxUses \in [Bonuses -> Nat]
  /\ Active \subseteq Campaigns
  /\ Referred \subseteq Users
  /\ Multiplier \in Nat
  /\ MaxNotices \in Nat
  /\ Failing \subseteq Procs
  /\ Overlap \subseteq Deposits

VARIABLES
  deposits,     \* table deposits
  charges,      \* external: the provider's charge of each deposit
  notices,      \* external: notices of a payment still to be delivered
  users,        \* money columns of table users
  redemptions,  \* table bonus_code_redemptions
  uses,         \* uses_count of codes and campaigns
  booked,       \* how often a deposit is in the finance ledger
  commissions,  \* deposits with a row in affiliate_commissions
  pc,           \* what each process does next
  on,           \* the deposit each process works on
  plan          \* the bonuses a settlement has decided to grant

tables == <<deposits, users, redemptions, uses, booked, commissions>>
vars == <<tables, charges, notices, pc, on, plan>>

Deposit == [status : {"none", "pending", "paid", "expired"},
            known : BOOLEAN,  \* the provider's id is on the row
            old : BOOLEAN]    \* older than deposit_pix_ttl_seconds
Redemption == [user : Users, code : Bonuses,
               period : {"once"} \cup Deposits]
Labels == {"idle", "fetch", "settle", "commit",
           "askExpired", "delete", "expire"}

TypeOK ==
  /\ deposits \in [Deposits -> Deposit]
  /\ charges \in [Deposits -> {"none", "open", "paid", "deleted"}]
  /\ notices \in [Deposits -> 0..MaxNotices]
  /\ users \in [Users -> [balance : Nat, bonus : Nat, required : Nat]]
  /\ redemptions \subseteq Redemption
  /\ uses \in [Bonuses -> Nat]
  /\ booked \in [Deposits -> Nat]
  /\ commissions \subseteq Deposits
  /\ pc \in [Procs -> Labels]
  /\ on \in [Procs -> Deposits]
  /\ plan \in [Procs -> SUBSET Redemption]

Init ==
  /\ deposits = [d \in Deposits |->
                   [status |-> "none", known |-> FALSE, old |-> FALSE]]
  /\ charges = [d \in Deposits |-> "none"]
  /\ notices = [d \in Deposits |-> 0]
  /\ users = [u \in Users |-> [balance |-> 0, bonus |-> 0, required |-> 0]]
  /\ redemptions = {}
  /\ uses = [b \in Bonuses |-> 0]
  /\ booked = [d \in Deposits |-> 0]
  /\ commissions = {}
  /\ pc = [p \in Procs |-> "idle"]
  /\ on = [p \in Procs |-> CHOOSE d \in Deposits : TRUE]
  /\ plan = [p \in Procs |-> {}]

-----------------------------------------------------------------------------
(* Processes and locks.                                                    *)

Goto(p, label) == pc' = [pc EXCEPT ![p] = label]

Committing(p) == pc[p] = "commit"

\* What a settlement has locked until it commits: the deposit, the player
\* and the code typed.
RowFree(d) == ~\E p \in Procs : Committing(p) /\ on[p] = d
PlayerFree(u) == ~\E p \in Procs : Committing(p) /\ UserOf[on[p]] = u

\* Variant with a bug: codes are read without a lock.
CodeUnlocked(c) == c \in Codes \cup {NoCode}

CodeFree(c) ==
  c # NoCode => ~\E p \in Procs : Committing(p) /\ CodeOf[on[p]] = c

\* Unless its expiry may overlap, nobody else works on a deposit being expired.
Apart(p, d) ==
  \/ d \in Overlap
  \/ ~\E q \in Procs \ {p} :
        /\ pc[q] # "idle" /\ on[q] = d
        /\ p \in Expirers \/ q \in Expirers

-----------------------------------------------------------------------------
(* Bonuses.                                                                *)

Usable(b) == uses[b] < MaxUses[b]

Grant(u, code, period) == [user |-> u, code |-> code, period |-> period]
Running(c) == c \in Active /\ Usable(c)
PaidBefore(d) ==
  \E o \in Deposits \ {d} :
    UserOf[o] = UserOf[d] /\ deposits[o].status = "paid"

\* A typed code keeps the campaigns away.  Otherwise the first deposit and,
\* after some time without one, a later deposit have their campaigns.
DepositBonuses(d) ==
  LET u == UserOf[d] IN
  IF CodeOf[d] # NoCode
  THEN {{g \in {Grant(u, CodeOf[d], "once")} :
           Usable(CodeOf[d]) /\ g \notin redemptions}}
  ELSE IF ~PaidBefore(d)
  THEN {{g \in {Grant(u, "first", "once")} :
           Running("first") /\ g \notin redemptions}}
  ELSE {{}, {g \in {Grant(u, "reload", d)} :
               Running("reload") /\ g \notin redemptions}}

\* One more for players who came with an affiliate, on their first deposit;
\* whether they had it is left to the unique index.
SignupBonus(d) ==
  {g \in {Grant(UserOf[d], "signup", "once")} :
     ~PaidBefore(d) /\ UserOf[d] \in Referred /\ Running("signup")}

RewardOf(grants) == SumFunction([g \in grants |-> Reward[g.code]])

UsesWith(grants) ==
  [b \in Bonuses |-> uses[b] + Cardinality({g \in grants : g.code = b})]

\* Variant with a bug: what is given need not be wagered.
CreditUnwagered(row, amount, bonus) ==
  [balance |-> row.balance + amount, bonus |-> row.bonus + bonus,
   required |-> row.required + Multiplier * amount]

\* Both what is deposited and what is given must be wagered Multiplier times.
Credit(row, amount, bonus) ==
  [balance |-> row.balance + amount,
   bonus |-> row.bonus + bonus,
   required |-> row.required + Multiplier * (amount + bonus)]

\* A player redeems a fixed code without a deposit (BonusController.store).
RedeemFixedCode(u, code) ==
  /\ PlayerFree(u) /\ CodeFree(code)
  /\ code \in Fixed
  /\ Usable(code)
  /\ Grant(u, code, "once") \notin redemptions
  /\ redemptions' = redemptions \cup {Grant(u, code, "once")}
  /\ users' = [users EXCEPT ![u] = Credit(@, 0, Reward[code])]
  /\ uses' = [uses EXCEPT ![code] = @ + 1]
  /\ UNCHANGED <<deposits, booked, commissions, charges, notices,
                 pc, on, plan>>

-----------------------------------------------------------------------------
(* Asking for a deposit, and paying it.                                    *)

Store(d) ==
  /\ deposits[d].status = "none"
  /\ charges[d] = "none"
  /\ CodeOf[d] # NoCode =>
       /\ Usable(CodeOf[d])
       /\ Grant(UserOf[d], CodeOf[d], "once") \notin redemptions
  /\ deposits' = [deposits EXCEPT ![d].status = "pending"]
  /\ UNCHANGED <<users, redemptions, uses, booked, commissions, charges,
                 notices, pc, on, plan>>

\* The provider answers with the charge; its id is put on the row as it is.
CreatePix(d) ==
  /\ deposits[d].status # "none"
  /\ charges[d] = "none"
  /\ RowFree(d)
  /\ charges' = [charges EXCEPT ![d] = "open"]
  /\ deposits' = [deposits EXCEPT ![d].known = TRUE]
  /\ UNCHANGED <<users, redemptions, uses, booked, commissions, notices,
                 pc, on, plan>>

\* The provider refuses, or its answer or QR code cannot be had of a charge that stays
\* open: the row is deleted.
CreatePixFails(d) ==
  /\ deposits[d].status # "none"
  /\ charges[d] = "none"
  /\ \E charge \in {"deleted", "open"} : charges' = [charges EXCEPT ![d] = charge]
  /\ deposits' = [deposits EXCEPT
                    ![d] = [status |-> "none", known |-> FALSE, old |-> @.old]]
  /\ UNCHANGED <<users, redemptions, uses, booked, commissions, notices,
                 pc, on, plan>>

\* External: the player pays an open charge, and the provider tells.
Pay(d) ==
  /\ charges[d] = "open"
  /\ charges' = [charges EXCEPT ![d] = "paid"]
  /\ notices' = [notices EXCEPT ![d] = MaxNotices]
  /\ UNCHANGED <<tables, pc, on, plan>>

\* Time passes: a deposit outlives its time to be paid.
GrowOld(d) ==
  /\ deposits[d].status = "pending"
  /\ ~deposits[d].old
  /\ deposits' = [deposits EXCEPT ![d].old = TRUE]
  /\ UNCHANGED <<users, redemptions, uses, booked, commissions, charges,
                 notices, pc, on, plan>>

-----------------------------------------------------------------------------
(* Hearing of a payment.                                                   *)

\* A notice is answered with 200 even if the provider cannot be asked, so it
\* is not repeated; so is one whose deposit is not found.
Webhook(p, d) ==
  /\ pc[p] = "idle" /\ p \in Hooks
  /\ notices[d] > 0
  /\ deposits[d].known \/ RowFree(d)
  /\ Apart(p, d)
  /\ notices' = [notices EXCEPT ![d] = @ - 1]
  /\ IF deposits[d].status = "none"
     THEN UNCHANGED <<deposits, on, pc>>
     ELSE /\ on' = [on EXCEPT ![p] = d]
          /\ Goto(p, "fetch")
          /\ deposits' = [deposits EXCEPT ![d].known = TRUE]
  /\ UNCHANGED <<users, redemptions, uses, booked, commissions, charges, plan>>

Verify(p, d) ==
  /\ pc[p] = "idle" /\ p \in Checkers
  /\ deposits[d].status = "pending" /\ deposits[d].known
  /\ Apart(p, d)
  /\ on' = [on EXCEPT ![p] = d]
  /\ Goto(p, "fetch")
  /\ UNCHANGED <<tables, charges, notices, plan>>

\* Variant with a bug: the provider is not asked what has become of the charge.
FetchNothing(p) ==
  /\ pc[p] = "fetch"
  /\ Goto(p, "settle")
  /\ UNCHANGED <<tables, charges, notices, on, plan>>

Fetch(p) ==
  /\ pc[p] = "fetch"
  /\ \/ Goto(p, IF charges[on[p]] = "paid" THEN "settle" ELSE "idle")
     \/ p \in Failing /\ Goto(p, "idle")
  /\ UNCHANGED <<tables, charges, notices, on, plan>>

-----------------------------------------------------------------------------
(* Settling a deposit (settlePaid).                                        *)

\* Variant with a bug: a deposit that has expired is not settled any more.
SettleablePending(d) == deposits[d].status = "pending"

\* Variant with a bug: the lock is taken but the status not read again.
SettleableAlways(d) == deposits[d].status # "none"

Settleable(d) == deposits[d].status \in {"pending", "expired"}

\* The locks are taken and everything that decides the bonuses is read.
SettleLock(p) ==
  LET d == on[p] IN
  /\ pc[p] = "settle"
  /\ RowFree(d) /\ PlayerFree(UserOf[d]) /\ CodeFree(CodeOf[d])
  /\ IF Settleable(d)
     THEN /\ \E grants \in DepositBonuses(d) :
               plan' = [plan EXCEPT ![p] = grants \cup SignupBonus(d)]
          /\ Goto(p, "commit")
     ELSE Goto(p, "idle") /\ UNCHANGED plan
  /\ UNCHANGED <<tables, charges, notices, on>>

Commit(p) ==
  LET d == on[p]
      u == UserOf[d]
  IN
  /\ Committing(p)
  /\ plan[p] \cap redemptions = {}
  /\ deposits' = [deposits EXCEPT ![d].status = "paid"]
  /\ users' = [users EXCEPT ![u] = Credit(@, Amount[d], RewardOf(plan[p]))]
  /\ redemptions' = redemptions \cup plan[p]
  /\ uses' = UsesWith(plan[p])
  /\ booked' = [booked EXCEPT ![d] = @ + 1]
  /\ commissions' = IF u \in Referred THEN commissions \cup {d}
                    ELSE commissions
  /\ plan' = [plan EXCEPT ![p] = {}]
  /\ Goto(p, "idle")
  /\ UNCHANGED <<charges, notices, on>>

\* A redemption that exists already: the unique index makes the insertion
\* fail, and with it, on PostgreSQL, the transaction.  The notice is answered
\* with 500, so it is repeated.
Abort(p) ==
  /\ Committing(p)
  /\ plan[p] \cap redemptions # {}
  /\ plan' = [plan EXCEPT ![p] = {}]
  /\ Goto(p, "idle")
  /\ notices' = [d \in Deposits |->
                   IF p \in Hooks /\ on[p] = d /\ notices[d] < MaxNotices
                   THEN notices[d] + 1 ELSE notices[d]]
  /\ UNCHANGED <<tables, charges, on>>

-----------------------------------------------------------------------------
(* Expiring a deposit (expireOne).                                         *)

Due(d) == deposits[d].status = "pending" /\ deposits[d].old

ExpireOne(p, d) ==
  /\ pc[p] = "idle" /\ p \in Expirers
  /\ Due(d)
  /\ Apart(p, d)
  /\ on' = [on EXCEPT ![p] = d]
  /\ Goto(p, IF deposits[d].known THEN "askExpired" ELSE "expire")
  /\ UNCHANGED <<tables, charges, notices, plan>>

\* A paid charge is settled instead; a failure to ask expires the deposit.
AskExpired(p) ==
  /\ pc[p] = "askExpired"
  /\ \/ Goto(p, IF charges[on[p]] = "paid" THEN "settle" ELSE "delete")
     \/ p \in Failing /\ Goto(p, "expire")
  /\ UNCHANGED <<tables, charges, notices, on, plan>>

\* External: an open charge is deleted; a paid one is not, which the service
\* takes for deleted already (400).  A failure is logged.
DeletePayment(p) ==
  /\ pc[p] = "delete"
  /\ \/ charges' = [charges EXCEPT
                     ![on[p]] = IF @ = "open" THEN "deleted" ELSE @]
     \/ p \in Failing /\ UNCHANGED charges
  /\ Goto(p, "expire")
  /\ UNCHANGED <<tables, notices, on, plan>>

\* Only the changed columns are written, whatever the row has become.
SaveExpired(p) ==
  LET d == on[p] IN
  /\ pc[p] = "expire"
  /\ RowFree(d)
  /\ deposits' = [deposits EXCEPT
                    ![d].status = IF @ = "none" THEN @ ELSE "expired"]
  /\ Goto(p, "idle")
  /\ UNCHANGED <<users, redemptions, uses, booked, commissions, charges,
                 notices, on, plan>>

-----------------------------------------------------------------------------
Work(p) ==
  \/ Fetch(p) \/ SettleLock(p) \/ Commit(p) \/ Abort(p)
  \/ AskExpired(p) \/ DeletePayment(p) \/ SaveExpired(p)

Next ==
  \/ \E d \in Deposits :
       \/ Store(d) \/ CreatePix(d) \/ CreatePixFails(d)
       \/ Pay(d) \/ GrowOld(d)
       \/ \E p \in Procs : Webhook(p, d) \/ Verify(p, d) \/ ExpireOne(p, d)
  \/ \E u \in Users, code \in Codes : RedeemFixedCode(u, code)
  \/ \E p \in Procs : Work(p)

Spec == Init /\ [][Next]_vars

\* Requests go on until they are answered, and notices arrive.
Fairness ==
  /\ \A p \in Procs : WF_vars(Work(p))
  /\ \A d \in Deposits : SF_vars(\E p \in Hooks : Webhook(p, d))

FairSpec == Spec /\ Fairness

-----------------------------------------------------------------------------
(* Properties.                                                             *)

\* However many hear of a payment, it is credited once, unless its expiry
\* overlaps with hearing of it, and no deposit is credited that the provider
\* has not been paid.
CreditedOnceApart ==
  /\ \A d \in Deposits \ Overlap : booked[d] <= 1
  /\ \A d \in Deposits : booked[d] > 0 => charges[d] = "paid"

\* DepositController L199, L252 tell the player "Este depósito já foi
\* creditado." instead of crediting again: a payment is credited once.
CreditedOnce == \A d \in Deposits : booked[d] <= 1

\* A player's money is what the ledger and the redemptions say, and all of
\* it has its wagering requirement.
Deposited(u) ==
  SumFunction([d \in {o \in Deposits : UserOf[o] = u} |-> booked[d] * Amount[d]])
Given(u) == RewardOf({g \in redemptions : g.user = u})
MoneyIsAccountedFor ==
  \A u \in Users :
    users[u] = [balance |-> Deposited(u), bonus |-> Given(u),
                required |-> Multiplier * (Deposited(u) + Given(u))]

\* The tables keep their types, and every cent in them has its reason.
TablesAgree == TypeOK /\ MoneyIsAccountedFor

\* No typed code is used more often than max_uses, and uses_count counts its
\* redemptions.  (Campaigns, read without a lock, can exceed theirs.)
CodesWithinLimit ==
  \A b \in Bonuses :
    /\ uses[b] = Cardinality({g \in redemptions : g.code = b})
    /\ b \in Codes => uses[b] <= MaxUses[b]

\* "Permite creditar se o PIX chegou depois do cancelamento local"
\* (DepositSettlementService L34): what has been paid is credited, expired or
\* not, as long as those who get the notices can ask the provider.  (A player
\* one of whose other deposits went from paid to expired counts as a first
\* depositor again, and the signup bonus aborts every settlement.  A charge whose row
\* was deleted, its QR code not to be had, may be paid and has nothing to be credited to.)
PaidIsCredited ==
  \A d \in Deposits :
    (\A o \in Overlap \ {d} : UserOf[o] # UserOf[d])
      => (charges[d] = "paid" /\ deposits[d].status # "none" ~> booked[d] > 0)

\* Whatever reads, waits and fails in between, money moves as Crediting says:
\* a settlement credits its deposit, bonuses, ledger entry and commission in
\* one piece or not at all, and for a charge that is paid.
Promise ==
  INSTANCE Crediting WITH paid <- {d \in Deposits : charges[d] = "paid"},
                          Repeatable <- Overlap, Worth <- RewardOf
ImplementsCrediting == Promise!CreditingSpec

-----------------------------------------------------------------------------
(* The inductive invariant from which DepositsProofs derives the above.    *)

\* What a settlement is about to grant is its player's, one grant of a bonus,
\* and of the typed code only, which is usable as long as it is locked.
PlansInv ==
  /\ IsFiniteSet(redemptions)
  /\ \A p \in Procs :
       /\ IsFiniteSet(plan[p])
       /\ ~Committing(p) => plan[p] = {}
       /\ \A g \in plan[p] :
            /\ g.user = UserOf[on[p]]
            /\ g.code \in Codes => g.code = CodeOf[on[p]] /\ Usable(g.code)
       /\ \A g, h \in plan[p] : g.code = h.code => g = h

\* Two settlements lock different deposits and different codes.
LocksInv ==
  \A p, q \in Procs :
    Committing(p) /\ Committing(q) /\ p # q =>
      /\ on[p] # on[q]
      /\ CodeOf[on[p]] # NoCode => CodeOf[on[p]] # CodeOf[on[q]]

\* Who settles has heard of a payment, and its deposit is still to be settled.
SettlingInv ==
  \A p \in Procs :
    /\ pc[p] \in {"settle", "commit"} => charges[on[p]] = "paid"
    /\ Committing(p) => deposits[on[p]].status \in {"pending", "expired"}

\* Apart from overlap, who expires a deposit is alone with it and finds it unpaid.
ExpiringInv ==
  /\ \A p \in Procs :
       pc[p] \in {"askExpired", "delete", "expire"} =>
         /\ p \in Expirers
         /\ on[p] \notin Overlap => deposits[on[p]].status # "paid"
  /\ \A p \in Procs, q \in Expirers :
       pc[p] # "idle" /\ pc[q] # "idle" /\ p # q /\ on[p] = on[q] => on[q] \in Overlap

\* Only paid charges are booked, and apart from overlap what is booked is settled.
BookedInv ==
  \A d \in Deposits :
    /\ booked[d] > 0 => charges[d] = "paid"
    /\ d \notin Overlap => booked[d] = 0 \/ (booked[d] = 1 /\ deposits[d].status = "paid")

IInv ==
  /\ TypeOK /\ MoneyIsAccountedFor /\ CodesWithinLimit /\ PlansInv
  /\ LocksInv /\ SettlingInv /\ ExpiringInv /\ BookedInv
=============================================================================
