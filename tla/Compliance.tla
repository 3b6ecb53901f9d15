----------------------------- MODULE Compliance -----------------------------
(***************************************************************************)
(* ValidateBetPlacement and the other checks of internal/compliance/bclb   *)
(* for one bettor.  The rows it reads and the placing of a bet whose check *)
(* passed belong to its callers; the local time is counted in half days.   *)
(***************************************************************************)
EXTENDS Naturals, Functions

CONSTANTS
  Checks,                  \* the calls of the service
  Wagers,                  \* bound: the amounts
  MaxBetPerEvent, Limits,  \* the configuration: Limits has day, week and month
  RequiredKYCLevel,
  Zone,                    \* how far the local clock is ahead of UTC
  WeekDays, MonthDays, Halves  \* bounds: a short calendar

ASSUME ComplianceAssumption ==
  /\ {WeekDays, MonthDays, MaxBetPerEvent} \subseteq Nat \ {0} /\ Halves \in Nat /\ Wagers \subseteq Nat
  /\ Limits \in [{"day", "week", "month"} -> Nat]
  /\ Zone \in {0, 1} /\ RequiredKYCLevel \in {"ENHANCED", "STANDARD", "BASIC"}

VARIABLES
  person,  \* the bettor's rows: KYC level, age and self-exclusion
  staked,  \* what was staked in each half day
  check,   \* the calls
  half     \* the time

complianceVars == <<person, staked, check, half>>

\* The levels that meet each requirement; a status that is not VERIFIED has none.
KYCLevels ==
  [ENHANCED |-> {"ENHANCED"}, STANDARD |-> {"STANDARD", "ENHANCED"}, BASIC |-> {"BASIC", "STANDARD", "ENHANCED"}]
NoCheck == [at |-> "new", amount |-> 0, refused |-> FALSE, blind |-> FALSE, alone |-> TRUE, kind |-> "bet"]
InFlight(c) == check[c].at \notin {"new", "passed", "refused", "placed"}

ComplianceInit ==
  /\ person = [kyc |-> "STANDARD", adult |-> TRUE, excluded |-> "none"]
  /\ staked = [h \in 0 .. Halves |-> 0]
  /\ check = [c \in Checks |-> NoCheck]
  /\ half = 0

Midnight(days) == LET day == half \div 2 IN 2 * (day - (day % days))
UTCMidnight == IF half < Zone THEN 0 ELSE Zone + 2 * ((half - Zone) \div 2)
\* The day begins at midnight UTC (Truncate), the month at the local one, and the week on
\* Sunday at this time of the day.
Begins(period) ==
  CASE period = "day" -> UTCMidnight
    [] period = "week" -> Midnight(WeekDays) + (half % 2)
    [] period = "month" -> Midnight(MonthDays)
StakedSince(h) == SumFunctionOnSet(staked, {i \in 0 .. Halves : i >= h})

WouldExceed(period, amount) == StakedSince(Begins(period)) + amount > Limits[period]

\* The answer of a read which may fail: failing is closed for KYC and age, and
\* open for the stakes, the exclusion and the cooling off.
Reads(c, at, next, bad, open) ==
  /\ check[c].at = at
  /\ \E failed \in BOOLEAN :
       check' = [check EXCEPT ![c].at = next, ![c].blind = @ \/ (failed /\ open),
                              ![c].refused = @ \/ (IF failed THEN ~open ELSE bad)]
  /\ UNCHANGED <<person, staked, half>>

StartCheck(c) ==
  /\ check[c].at = "new"
  /\ \E a \in Wagers, refused \in BOOLEAN, k \in {"bet", "status"} :
       LET others == {d \in Checks : InFlight(d) \/ check[d].at = "passed"}
       IN  /\ k = "status" => ~refused
           /\ k = "bet" => a > 0
           /\ check' = [d \in Checks |->
                IF d = c THEN [at |-> IF k = "bet" THEN "day" ELSE "age", amount |-> a, kind |-> k,
                               refused |-> refused \/ a > MaxBetPerEvent, blind |-> FALSE,
                               alone |-> others = {}]
                ELSE [check[d] EXCEPT !.alone = @ /\ d \notin others]]
  /\ UNCHANGED <<person, staked, half>>

ReadStakes(c) ==
  \/ Reads(c, "day", "week", WouldExceed("day", check[c].amount), TRUE)
  \/ Reads(c, "week", "month", WouldExceed("week", check[c].amount), TRUE)
  \/ Reads(c, "month", "kyc", WouldExceed("month", check[c].amount), TRUE)

\* A status check looks at the age before the KYC status, a bet's after it.
OfBet(c) == check[c].kind = "bet"
isKYCCompliant == person.kyc \in KYCLevels[RequiredKYCLevel]
ReadKYC(c) == Reads(c, "kyc", IF OfBet(c) THEN "age" ELSE "exclusion", ~isKYCCompliant, FALSE)
isAgeVerified(c) == Reads(c, "age", IF OfBet(c) THEN "exclusion" ELSE "kyc", ~person.adult, FALSE)

isSelfExcluded(c) ==
  IF person.excluded = "over" THEN Reads(c, "exclusion", "expire", FALSE, TRUE)
  ELSE Reads(c, "exclusion", "cooling", person.excluded = "running", TRUE)

\* The exclusion of the row is overwritten, whatever it is by now.
ExpireExclusion(c) ==
  /\ check[c].at = "expire"
  /\ \E failed \in BOOLEAN : person' = IF failed THEN person ELSE [person EXCEPT !.excluded = "none"]
  /\ check' = [check EXCEPT ![c].at = "cooling"]
  /\ UNCHANGED <<staked, half>>

isInCoolingOffPeriod == {"yes", "no", "error"}
\* A status check ends with the limits' warnings, which refuse nothing.
EndCheck(c) ==
  /\ check[c].at = "cooling"
  /\ \E cooling \in isInCoolingOffPeriod :
       LET no == check[c].refused \/ (cooling = "yes" /\ OfBet(c))
       IN  check' = [check EXCEPT ![c].refused = no, ![c].at =
             IF no THEN "refused" ELSE IF OfBet(c) THEN "passed" ELSE "placed"]
  /\ UNCHANGED <<person, staked, half>>

\* The reports on transactions: a large one, one of a risky type (their KYC level adds
\* a violation to the one they have), one the repository finds suspicious or too
\* frequent: an error counts as no.
isSuspiciousTransaction == {"yes", "no", "error"}
exceedsTransactionFrequency == {"yes", "no", "error"}
ValidateLargeTransaction(large) == large
ValidateHighRiskTransaction(risky) == risky
ValidateTransaction(suspicious, frequent) == "yes" \in {suspicious, frequent}
Report(c) ==
  /\ check[c].at = "new"
  /\ \E large, risky \in BOOLEAN, suspicious \in isSuspiciousTransaction, frequent \in exceedsTransactionFrequency :
     \E violated \in {ValidateLargeTransaction(large), ValidateHighRiskTransaction(risky),
                      ValidateTransaction(suspicious, frequent)} :
       check' = [check EXCEPT ![c].at = IF violated THEN "refused" ELSE "placed", ![c].kind = "report"]
  /\ UNCHANGED <<person, staked, half>>

\* These three publish an event and store nothing.
UpdateUserLimits == UNCHANGED complianceVars
SetSelfExclusion == UNCHANGED complianceVars
RemoveSelfExclusion == UNCHANGED complianceVars

\* The caller places the bet that passed.
PlaceChecked(c) ==
  /\ check[c].at = "passed"
  /\ check' = [check EXCEPT ![c].at = "placed"]
  /\ staked' = [staked EXCEPT ![half] = @ + check[c].amount]
  /\ UNCHANGED <<person, half>>

\* Other services write the bettor's rows, and a verification of the age expires.
RowsChange ==
  /\ \/ \E level \in {"BASIC", RequiredKYCLevel} : person' = [person EXCEPT !.kyc = level]
     \/ person' = [person EXCEPT !.adult = ~@]
     \/ person' = [person EXCEPT !.excluded = "running"]
     \/ person.excluded = "running" /\ person' = [person EXCEPT !.excluded = "over"]
  /\ UNCHANGED <<staked, check, half>>

TimeGoesBy ==
  /\ half < Halves
  /\ half' = half + 1
  /\ check' = [c \in Checks |-> [check[c] EXCEPT !.alone = @ /\ ~InFlight(c) /\ check[c].at # "passed"]]
  /\ UNCHANGED <<person, staked>>

ComplianceNext ==
  \/ \E c \in Checks : StartCheck(c) \/ ReadStakes(c) \/ ReadKYC(c) \/ isAgeVerified(c) \/ isSelfExcluded(c)
                         \/ ExpireExclusion(c) \/ EndCheck(c) \/ Report(c) \/ PlaceChecked(c)
  \/ UpdateUserLimits \/ SetSelfExclusion \/ RemoveSelfExclusion
  \/ RowsChange \/ TimeGoesBy
ComplianceSpec == ComplianceInit /\ [][ComplianceNext]_complianceVars

-----------------------------------------------------------------------------
\* When no two checks overlapped, no clock moved within one and no read was swallowed,
\* the stakes of the day and of the month stay within their limits.
LimitHeldApart ==
  (\A c \in Checks : OfBet(c) => check[c].alone /\ ~check[c].blind) =>
    /\ StakedSince(Begins("day")) <= Limits["day"]
    /\ StakedSince(Begins("month")) <= Limits["month"]
=============================================================================
