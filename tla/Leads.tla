------------------------------- MODULE Leads -------------------------------
(***************************************************************************)
(* The landing page's leads (cmd/leads).  A number is a phone written with *)
(* or without the country's 55; Digits are those of the national number.   *)
(***************************************************************************)
EXTENDS Naturals, FiniteSets

CONSTANTS
  Phones, Digits,  \* the phones and the length of their national number
  Callers          \* the requests to register

ASSUME LeadsAssumption == Digits \in [Phones -> Nat]

VARIABLES
  leads,  \* the column whatsapp of landing_leads, which is unique
  call    \* each request: where it is, its number, and the requests accepted before its check

leadsVars == <<leads, call>>

Numbers == [phone : Phones, intl : BOOLEAN]
Length(n) == Digits[n.phone] + (IF n.intl THEN 2 ELSE 0)
Other(n) == [n EXCEPT !.intl = ~n.intl]

\* Variant with a bug: a number written with 55 is not looked for without it.
AddsPrefixOnly(n) == IF ~n.intl /\ Length(n) \in 10 .. 11 THEN {n, Other(n)} ELSE {n}
\* A 12-digit number with 55 is left as it is: only longer ones lose the prefix.
phoneVariants(n) ==
  IF (n.intl /\ Length(n) > 12) \/ (~n.intl /\ Length(n) \in 10 .. 11) THEN {n, Other(n)} ELSE {n}

phoneExists(n) == leads \cap phoneVariants(n) # {}

NoCall == [at |-> "new", number |-> [phone |-> CHOOSE p \in Phones : TRUE, intl |-> FALSE],
           before |-> {}]
Accepted == {c \in Callers : call[c].at = "created"}

LeadsInit == leads = {} /\ call = [c \in Callers |-> NoCall]

Ends(c, answer) == call' = [call EXCEPT ![c].at = answer]

\* Any failure of the database, and a number too short, ends the call.
CheckPhone(c) ==
  /\ call[c].at = "new"
  /\ \E n \in Numbers :
       call' = [call EXCEPT ![c] = [number |-> n, before |-> Accepted,
         at |-> IF Length(n) < 10 THEN "bad" ELSE IF phoneExists(n) THEN "conflict" ELSE "insert"]]
  /\ UNCHANGED leads

\* /api/leads/check only says whether the number is there.
AskPhone(c) ==
  /\ call[c].at = "new"
  /\ \E n \in Numbers :
       call' = [call EXCEPT ![c] = [number |-> n, before |-> {},
         at |-> IF Length(n) < 10 THEN "bad" ELSE IF phoneExists(n) THEN "exists" ELSE "free"]]
  /\ UNCHANGED leads

\* The unique index refuses a number written exactly alike (23505).
InsertLead(c) ==
  /\ call[c].at = "insert"
  /\ IF call[c].number \in leads THEN Ends(c, "conflict") /\ UNCHANGED leads
     ELSE Ends(c, "created") /\ leads' = leads \cup {call[c].number}

DatabaseFails(c) == call[c].at \in {"new", "insert"} /\ Ends(c, "failed") /\ UNCHANGED leads

LeadsNext == \E c \in Callers : AskPhone(c) \/ CheckPhone(c) \/ InsertLead(c) \/ DatabaseFails(c)
LeadsSpec == LeadsInit /\ [][LeadsNext]_leadsVars

-----------------------------------------------------------------------------
\* Two leads of one 11-digit phone come only from requests that checked before
\* either was saved; a 10-digit phone is registered twice when its plain form comes
\* first.  An accepted request has its row, and who was told so finds the number.
TwiceOnlyTogether ==
  /\ \A c \in Accepted : call[c].number \in leads
  /\ \A c \in Callers : call[c].at = "exists" => phoneExists(call[c].number)
  /\ \A c, d \in Accepted :
       LET n == call[c].number
           o == call[d].number
       IN  c # d /\ n.phone = o.phone /\ Digits[n.phone] = 11 =>
             n # o /\ c \notin call[d].before /\ d \notin call[c].before
=============================================================================
