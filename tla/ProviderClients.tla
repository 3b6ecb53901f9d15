--------------------------- MODULE ProviderClients ---------------------------
(***************************************************************************)
(* The clients of the odds feeds (internal/odds/sportradar and genius) and *)
(* of the messaging service (internal/communications/africastalking): the  *)
(* token bucket each asks before every request, and what a request ends in.*)
(***************************************************************************)
EXTENDS Naturals, Integers, FiniteSetsExt, Functions

CONSTANTS
  Askers,     \* the goroutines that call a client
  MaxTokens,  \* RateLimit, the size of a bucket
  Interval,   \* the interval of a bucket: a minute, a second for the messages
  Ticks       \* bound: the time

ASSUME ProviderAssumption == {MaxTokens, Interval} \subseteq Nat \ {0} /\ Ticks \in Nat

VARIABLES
  vendor,    \* the provider the callers use
  bucket,    \* its client's tokens and lastRefill
  asker,     \* each caller: where it is, the bucket it saw, its timer
  granted,   \* the requests let through at each time
  raced,     \* whether a caller began a try in the middle of another's
  tick       \* the time

providerVars == <<vendor, bucket, asker, granted, raced, tick>>

\* A request: the statuses it takes, and whether the body says success.
Endpoint(provider, accepts, flagged) == [provider |-> provider, accepts |-> accepts, flagged |-> flagged]
Statuses == {200, 204, 404, 500}
Radar(flagged) == Endpoint("sportradar", {200}, flagged)
GetSports == Radar(FALSE)
GetTournaments == Radar(FALSE)
GetMatchOdds == Radar(FALSE)
GetMatches == Radar(TRUE)
RadarLiveMatches == Radar(TRUE)
GetUpcomingMatches == Radar(TRUE)
GeniusSports == Endpoint("genius", {200}, FALSE)
GeniusLeagues == Endpoint("genius", {200}, FALSE)
GeniusMatches == Endpoint("genius", {200}, FALSE)
GeniusOdds == Endpoint("genius", {200}, FALSE)
Below400(provider) == Endpoint(provider, {s \in Statuses : s < 400}, FALSE)
SendSMS == Below400("africastalking")
SendOTP == Below400("africastalking")
VerifyOTP == Below400("africastalking")
SendUSSD == Below400("africastalking")
Endpoints ==
  {GetSports, GetTournaments, GetMatchOdds, GetMatches, RadarLiveMatches, GetUpcomingMatches, GeniusSports,
   GeniusLeagues, GeniusMatches, GeniusOdds, SendSMS, SendOTP, VerifyOTP, SendUSSD}

Providers == {e.provider : e \in Endpoints}
Guarded == vendor = "sportradar"
\* The sleep between two tries.
Pause == IF vendor = "africastalking" THEN Interval ELSE Interval \div MaxTokens

NewRateLimiter == [tokens |-> MaxTokens, last |-> 0]
NoAsk == [at |-> "idle", saw |-> NewRateLimiter, timer |-> 0]
ProviderInit ==
  /\ vendor = "none" /\ bucket = NewRateLimiter
  /\ asker = [c \in Askers |-> NoAsk]
  /\ granted = [t \in 0 .. Ticks |-> 0]
  /\ raced = FALSE /\ tick = 0

\* One token for every whole interval since the last refill.
Refilled(b) ==
  LET add == (tick - b.last) \div Interval
  IN  IF add > 0 THEN [tokens |-> Min({MaxTokens, b.tokens + add}), last |-> tick] ELSE b

Call(c) ==
  /\ asker[c].at \in {"idle", "error"}
  /\ vendor' \in IF vendor = "none" THEN Providers ELSE {vendor}
  /\ asker' = [asker EXCEPT ![c] = [NoAsk EXCEPT !.at = "try"]]
  /\ UNCHANGED <<bucket, granted, raced, tick>>

Sleeps(c) == asker' = [asker EXCEPT ![c] = [NoAsk EXCEPT !.at = "sleep", !.timer = tick + Pause]]
Grants(c) ==
  /\ asker' = [asker EXCEPT ![c] = [NoAsk EXCEPT !.at = "request"]]
  /\ granted' = [granted EXCEPT ![tick] = @ + 1]

\* With the mutex a try is one step.
tryConsume(c) ==
  LET b == Refilled(bucket)
  IN  /\ asker[c].at = "try" /\ Guarded
      /\ IF b.tokens > 0 THEN bucket' = [b EXCEPT !.tokens = @ - 1] /\ Grants(c)
         ELSE bucket' = b /\ Sleeps(c) /\ UNCHANGED granted
      /\ UNCHANGED <<vendor, raced, tick>>

\* Without it the bucket is read, refilled, looked at and taken from in turn: what is
\* written may rest on what was read before.
StartTry(c) ==
  /\ asker[c].at = "try" /\ ~Guarded
  /\ asker' = [asker EXCEPT ![c].at = "refill", ![c].saw = bucket]
  /\ raced' = (raced \/ \E d \in Askers \ {c} : asker[d].at \in {"refill", "take"})
  /\ UNCHANGED <<vendor, bucket, granted, tick>>

SeeTokens(c) ==
  /\ asker[c].at = "refill"
  /\ \E n \in {bucket.tokens, asker[c].saw.tokens} :
       LET b == Refilled([asker[c].saw EXCEPT !.tokens = n])
       IN  bucket' = IF b.last = asker[c].saw.last THEN bucket ELSE b
  /\ IF bucket'.tokens > 0 THEN asker' = [asker EXCEPT ![c].at = "take", ![c].saw = bucket'] ELSE Sleeps(c)
  /\ UNCHANGED <<vendor, granted, raced, tick>>

TakeToken(c) ==
  /\ asker[c].at = "take"
  /\ \E n \in {bucket.tokens, asker[c].saw.tokens} : bucket' = [bucket EXCEPT !.tokens = n - 1]
  /\ Grants(c)
  /\ UNCHANGED <<vendor, raced, tick>>

TryAgain(c) ==
  /\ asker[c].at = "sleep" /\ tick >= asker[c].timer
  /\ asker' = [asker EXCEPT ![c].at = "try", ![c].timer = 0]
  /\ UNCHANGED <<vendor, bucket, granted, raced, tick>>

Fails(e, status, success) == status \notin e.accepts \/ (e.flagged /\ ~success)
\* The context ends a sleep; a request ends in an error, where the transport or the
\* decoding breaks or the answer is not accepted, or in its data.
AskEnds(c) ==
  /\ \/ asker[c].at = "sleep" /\ asker' = [asker EXCEPT ![c] = [NoAsk EXCEPT !.at = "error"]]
     \/ /\ asker[c].at = "request"
        /\ \E e \in Endpoints, s \in Statuses, broken, success \in BOOLEAN :
             /\ e.provider = vendor
             /\ asker' = [asker EXCEPT ![c].at = IF broken \/ Fails(e, s, success) THEN "error" ELSE "idle"]
  /\ UNCHANGED <<vendor, bucket, granted, raced, tick>>

Tick == tick < Ticks /\ tick' = tick + 1 /\ UNCHANGED <<vendor, bucket, asker, granted, raced>>

ProviderNext ==
  \/ \E c \in Askers : Call(c) \/ tryConsume(c) \/ StartTry(c) \/ SeeTokens(c) \/ TakeToken(c) \/ TryAgain(c) \/ AskEnds(c)
  \/ Tick
ProviderSpec == ProviderInit /\ [][ProviderNext]_providerVars

-----------------------------------------------------------------------------
GrantedIn(from, to) == SumFunctionOnSet(granted, from .. to)

\* No interval, wherever it begins, lets through more than a full bucket and the one
\* token refilled within it, whatever the callers of the locked bucket do, and
\* those of the others as long as no two tries overlap.
PaceKept ==
  ~raced => \A t \in 0 .. tick : GrantedIn(t, Min({t + Interval - 1, Ticks})) <= MaxTokens + 1
=============================================================================
