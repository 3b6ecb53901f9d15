------------------------------ MODULE Accounts ------------------------------
(***************************************************************************)
(* The users' rows (user_repository.go), the verification of an identity   *)
(* (http/kyc_handlers.go, kyc/smileid.go) and the tokens (auth/jwt.go).    *)
(* Who edits a row or asks for a token is outside src.                     *)
(***************************************************************************)
EXTENDS Naturals, FiniteSets

CONSTANTS
  Users,                      \* the users
  Desks,                      \* the calls
  AccessHours, RefreshHours,  \* the lives of the two tokens
  Hours                       \* bound: the time

ASSUME AccountsAssumption == {AccessHours, RefreshHours, Hours} \subseteq Nat /\ Users # {}

VARIABLES
  users,   \* the rows
  desk,    \* each call: what it does, where it is, its user and the row it read
  tokens,  \* the tokens given out: user, claim IsVerified and expiry
  said,    \* the users the provider verified, those whose row was so marked, those whom
           \* a caller wrote as verified, and those whom an edit may have unmarked
  hour     \* the time

accountVars == <<users, desk, tokens, said, hour>>

Absent == [verified |-> FALSE, status |-> "absent", excluded |-> "no"]
NoDesk == [at |-> "idle", user |-> CHOOSE u \in Users : TRUE, row |-> Absent]

AccountsInit ==
  /\ users = [u \in Users |-> Absent]
  /\ desk = [d \in Desks |-> NoDesk]
  /\ tokens = {} /\ said = [provider |-> {}, marked |-> {}, given |-> {}, raced |-> {}] /\ hour = 0

\* is_verified is written as the caller gives it: not the provider's word.
CallerWrites(u, read, written) ==
  said' = [said EXCEPT !.given = IF written /\ ~read THEN @ \cup {u} ELSE @,
                       !.raced = IF read /\ ~written THEN @ \cup {u} ELSE @]

CreateUser(u) ==
  /\ users[u] = Absent
  /\ \E v \in BOOLEAN :
       /\ users' = [users EXCEPT ![u] = [verified |-> v, status |-> "PENDING_VERIFICATION", excluded |-> "no"]]
       /\ CallerWrites(u, FALSE, v)
  /\ UNCHANGED <<desk, tokens, hour>>

At(d, where) == desk' = [desk EXCEPT ![d].at = where]
Answers400 == {"400", "422"}

\* A body that does not decode, an empty field and a user not found end verifyUser.
ReadUser(d) ==
  /\ desk[d].at = "idle"
  /\ \E u \in Users :
       IF users[u] = Absent THEN At(d, "404")
       ELSE desk' = [desk EXCEPT ![d] = [at |-> "provider", user |-> u, row |-> Absent]]
  /\ UNCHANGED <<users, tokens, said, hour>>
Refuse(d) == desk[d].at = "idle" /\ (\E a \in Answers400 : At(d, a)) /\ UNCHANGED <<users, tokens, said, hour>>

Failing(d) == At(d, "502") /\ UNCHANGED said
Says(d) == At(d, "mark") /\ said' = [said EXCEPT !.provider = @ \cup {desk[d].user}]
\* Variant with a bug: the answer's Verified is not looked at.
NotLookedAt(d) ==
  /\ desk[d].at = "provider" /\ (Failing(d) \/ Says(d) \/ (At(d, "mark") /\ UNCHANGED said))
  /\ UNCHANGED <<users, tokens, hour>>
VerifyUser(d) ==
  /\ desk[d].at = "provider" /\ (Failing(d) \/ Says(d) \/ (At(d, "200") /\ UNCHANGED said))
  /\ UNCHANGED <<users, tokens, hour>>

\* verifyID asks the provider and stores nothing.
VerifyID == {"verified", "failed", "error"}
verifyID(d) ==
  /\ desk[d].at = "idle"
  /\ \E result \in VerifyID : At(d, IF result = "error" THEN "502" ELSE "200")
  /\ UNCHANGED <<users, tokens, said, hour>>

Editing(u) == {d \in Desks : desk[d].at = "edit" /\ desk[d].user = u}
\* The answer is 200 also when the row could not be marked.
UpdateVerificationStatus(d) ==
  LET u == desk[d].user
  IN  /\ desk[d].at = "mark" /\ At(d, "200")
      /\ \/ UNCHANGED <<users, said>>
         \/ /\ users' = [users EXCEPT ![u].verified = TRUE]
            /\ said' = [said EXCEPT !.marked = @ \cup {u},
                          !.raced = IF Editing(u) = {} THEN @ ELSE @ \cup {u}]
      /\ UNCHANGED <<tokens, hour>>

\* An edit reads the row, changes its copy and writes all of it.
GetUser(d) ==
  /\ desk[d].at = "idle"
  /\ \E u \in Users : users[u] # Absent /\ desk' = [desk EXCEPT ![d] = [at |-> "edit", user |-> u, row |-> users[u]]]
  /\ UNCHANGED <<users, tokens, said, hour>>
GetByEmail(d) == GetUser(d)
Update(d) ==
  /\ desk[d].at = "edit" /\ At(d, "updated")
  /\ \E v \in BOOLEAN, s \in {"ACTIVE", "SUSPENDED"}, x \in {"no", "dated", "undated"} :
       /\ users' = [users EXCEPT ![desk[d].user] = [verified |-> v, status |-> s, excluded |-> x]]
       /\ CallerWrites(desk[d].user, desk[d].row.verified, v)
  /\ UNCHANGED <<tokens, hour>>

\* An exclusion with no end date does not keep the user from betting.
CanPlaceBet(u) == users[u].status = "ACTIVE" /\ users[u].excluded # "dated" /\ users[u].verified

Token(u, verified, hours) == [user |-> u, verified |-> verified, until |-> hour + hours]
GenerateAccessToken(u) == tokens' = tokens \cup {Token(u, users[u].verified, AccessHours)}
GenerateRefreshToken(u) == tokens' = tokens \cup {Token(u, users[u].verified, RefreshHours)}
ValidateToken(t) == hour < t.until
SignIn(u) ==
  /\ users[u] # Absent /\ (GenerateAccessToken(u) \/ GenerateRefreshToken(u))
  /\ UNCHANGED <<users, desk, said, hour>>

\* Any valid token renews itself, with its own claims.
RefreshAccessToken(t) ==
  /\ ValidateToken(t)
  /\ tokens' = tokens \cup {Token(t.user, t.verified, AccessHours)}
  /\ UNCHANGED <<users, desk, said, hour>>

\* What a token is asked for: its user, whether it expired, how long it lasts.
ExtractUserID(t) == {u \in Users : ValidateToken(t) /\ u = t.user}
IsTokenExpired(t) == ~ValidateToken(t)
GetTokenRemainingTime(t) == IF ValidateToken(t) THEN t.until - hour ELSE 0
AskToken(d, t) ==
  /\ desk[d].at = "idle"
  /\ At(d, IF IsTokenExpired(t) \/ ExtractUserID(t) = {} \/ GetTokenRemainingTime(t) = 0 THEN "expired" ELSE "valid")
  /\ UNCHANGED <<users, tokens, said, hour>>

HourPasses == hour < Hours /\ hour' = hour + 1 /\ UNCHANGED <<users, desk, tokens, said>>

AccountsNext ==
  \/ \E u \in Users : CreateUser(u) \/ SignIn(u)
  \/ \E d \in Desks : \/ ReadUser(d) \/ Refuse(d) \/ VerifyUser(d) \/ verifyID(d)
                      \/ UpdateVerificationStatus(d) \/ GetUser(d) \/ GetByEmail(d) \/ Update(d)
                      \/ \E t \in tokens : AskToken(d, t)
  \/ \E t \in tokens : RefreshAccessToken(t)
  \/ HourPasses
AccountsSpec == AccountsInit /\ [][AccountsNext]_accountVars

-----------------------------------------------------------------------------
\* A row, a token and a bet call someone verified only if the provider did, or a caller
\* that wrote the row; who was marked stays so unless an edit had read the row before, or
\* wrote the opposite.
VerifiedByProvider ==
  /\ \A u \in Users :
       /\ users[u].verified => u \in said.provider \cup said.given
       /\ u \in said.marked \ said.raced => users[u].verified
       /\ CanPlaceBet(u) => u \in said.marked \cup said.given
  /\ \A t \in tokens : t.verified => t.user \in said.provider \cup said.given
=============================================================================
