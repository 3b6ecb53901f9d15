----------------------------- MODULE OddsQuotes -----------------------------
(***************************************************************************)
(* The odds engine (internal/core/usecase/odds) with its cache: the sync   *)
(* of the live odds and the quotes for bet slips.  A price is the time it  *)
(* was read from the provider, which is all that is asked of it here.      *)
(***************************************************************************)
EXTENDS Naturals, FiniteSetsExt

CONSTANTS
  Fixtures,           \* the matches of the provider
  QuoteCalls,         \* the calls for a quote
  OddsTTL,            \* how long an entry of the engine's cache lives
  Lag,                \* bound: the time a sync takes
  Ages                \* bound: the time

ASSUME OddsAssumption == OddsTTL \in Nat \ {0} /\ {Lag, Ages} \subseteq Nat

VARIABLES
  cache,    \* of each match: when its odds were read and until when they live
  sync,     \* the sync: the matches it still has to store, when it read them, if it runs
  quote,    \* each call: where it is, the selections left and priced, the age of the
            \* oldest price
  age       \* the time

oddsVars == <<cache, sync, quote, age>>

NoEntry == [read |-> 0, until |-> 0]
SlipSets == SUBSET Fixtures \ {{}}
NoQuote == [at |-> "new", left |-> {}, priced |-> {}, oldest |-> 0]

OddsInit ==
  /\ cache = [x \in Fixtures |-> NoEntry]
  /\ sync = [left |-> {}, read |-> 0, on |-> FALSE]
  /\ quote = [q \in QuoteCalls |-> NoQuote]
  /\ age = 0

\* The entries of the provider's matches are read at once and stored one by one.
GetLiveOdds ==
  /\ ~sync.on
  /\ \E live \in SUBSET Fixtures : sync' = [left |-> live, read |-> age, on |-> TRUE]
  /\ UNCHANGED <<cache, quote, age>>

\* Variant with a bug: the entry never expires.
StoredForGood(x) == cache' = [cache EXCEPT ![x] = [read |-> sync.read, until |-> Ages + 1]]
\* An entry lives for its time from when it is stored, not from when it was read.
Stored(x) == cache' = [cache EXCEPT ![x] = [read |-> sync.read, until |-> age + OddsTTL]]

SyncMatch ==
  /\ sync.on
  /\ \E x \in sync.left, failed \in BOOLEAN :
       /\ IF failed THEN UNCHANGED cache ELSE Stored(x)
       /\ sync' = [sync EXCEPT !.left = @ \ {x}]
  /\ UNCHANGED <<quote, age>>

PublishUpdated ==
  /\ sync.on /\ sync.left = {}
  /\ sync' = [left |-> {}, read |-> 0, on |-> FALSE]
  /\ UNCHANGED <<cache, quote, age>>
syncOdds == GetLiveOdds \/ SyncMatch \/ PublishUpdated

AskQuote(q) ==
  /\ quote[q].at = "new"
  /\ \E s \in SlipSets : quote' = [quote EXCEPT ![q] = [NoQuote EXCEPT !.at = "price", !.left = s]]
  /\ UNCHANGED <<cache, sync, age>>

\* When the odds of a match were read: the cache's, or the provider's when it misses or fails.
getMatchOdds(x) ==
  {age} \cup (IF cache[x].until > age THEN {cache[x].read} ELSE {})

\* A selection with no match or no odds is left out; the market's status is not looked at.
PriceSelection(q, x) ==
  /\ quote[q].at = "price" /\ x \in quote[q].left
  /\ \/ quote' = [quote EXCEPT ![q].left = @ \ {x}]
     \/ \E read \in getMatchOdds(x) :
          quote' = [quote EXCEPT ![q].left = @ \ {x}, ![q].priced = @ \cup {x},
                                 ![q].oldest = Max({@, age - read})]
  /\ UNCHANGED <<cache, sync, age>>

CalculateBetOdds(q) ==
  /\ quote[q].at = "price" /\ quote[q].left = {}
  /\ quote' = [quote EXCEPT ![q].at = IF quote[q].priced = {} THEN "ErrNoValidSelections" ELSE "quoted"]
  /\ UNCHANGED <<cache, sync, age>>

Aging ==
  /\ age < Ages
  /\ sync.on => age < sync.read + Lag
  /\ age' = age + 1
  /\ UNCHANGED <<cache, sync, quote>>

OddsNext ==
  \/ syncOdds \/ Aging
  \/ \E q \in QuoteCalls : \/ AskQuote(q) \/ CalculateBetOdds(q)
                           \/ \E x \in Fixtures : PriceSelection(q, x)
OddsSpec == OddsInit /\ [][OddsNext]_oddsVars

-----------------------------------------------------------------------------
\* A price of a quote was the provider's less than OddsTTL and the time of a sync
\* before it was used, however the syncs and the quotes interleave.
QuotesAreRecent == \A q \in QuoteCalls : quote[q].oldest < OddsTTL + Lag
=============================================================================
