---------------------------- MODULE LivePrices ----------------------------
(***************************************************************************)
(* UpdateLiveOdds (internal/sports/live/odds.go): the match is found under *)
(* the read lock and its outcome written without any, so calls interleave. *)
(***************************************************************************)
EXTENDS Naturals, FiniteSets

CONSTANTS
  Priced, Asked, \* the matches in liveMatches, among those asked for
  Prices,          \* bound: the odds
  Updates          \* the calls

ASSUME LivePricesAssumption ==
  Priced \subseteq Asked /\ Prices \subseteq Nat \ {0} /\ Prices # {} /\ IsFiniteSet(Updates)

VARIABLES
  price,    \* the outcome of a match: odds, previous odds and count of changes
  update,   \* each call
  sent      \* of each match: odds last published, updates ended, whether the last of them
            \* was published, and whether none overlapped

priceVars == <<price, update, sent>>
FirstPrice == CHOOSE p \in Prices : TRUE

PriceInit ==
  /\ price = [x \in Priced |-> [odds |-> FirstPrice, previous |-> FirstPrice, count |-> 0]]
  /\ update = [u \in Updates |-> [at |-> "new", match |-> "none", odds |-> 0, count |-> 0]]
  /\ sent = [x \in Priced |-> [odds |-> FirstPrice, apart |-> TRUE, ended |-> 0, lost |-> FALSE]]

Writing(u) == update[u].at \in {"current", "count", "publish"}
Racing(u, x) == {v \in Updates \ {u} : Writing(v) /\ update[v].match = x}

FindOutcome(u) ==
  /\ update[u].at = "new"
  /\ \E x \in Asked, p \in Prices :
       IF x \in Priced
       THEN /\ update' = [update EXCEPT ![u] = [at |-> "current", match |-> x, odds |-> p, count |-> 0]]
            /\ price' = [price EXCEPT ![x].previous = price[x].odds]
            /\ sent' = [sent EXCEPT ![x].apart = @ /\ Racing(u, x) = {}]
       ELSE update' = [update EXCEPT ![u].at = "missing"] /\ UNCHANGED <<price, sent>>

SetCurrent(u) ==
  LET x == update[u].match
  IN  /\ update[u].at = "current"
      /\ price' = [price EXCEPT ![x].odds = update[u].odds]
      /\ update' = [update EXCEPT ![u].at = "count", ![u].count = price[x].count]
      /\ UNCHANGED sent

WriteCount(u) ==
  /\ update[u].at = "count"
  /\ price' = [price EXCEPT ![update[u].match].count = update[u].count + 1]
  /\ update' = [update EXCEPT ![u].at = "publish"]
  /\ UNCHANGED sent

\* An error of Publish is logged and no more: the call succeeds, and the subscribers
\* keep the odds of an earlier one.
PublishOdds(u) ==
  LET x == update[u].match
  IN  /\ update[u].at = "publish"
      /\ update' = [update EXCEPT ![u].at = "done"]
      /\ \E published \in BOOLEAN :
           sent' = [sent EXCEPT ![x].ended = @ + 1, ![x].lost = ~published,
                                ![x].odds = IF published THEN update[u].odds ELSE @]
      /\ UNCHANGED price

UpdateLiveOdds(u) == FindOutcome(u) \/ SetCurrent(u) \/ WriteCount(u) \/ PublishOdds(u)
PriceNext == \E u \in Updates : UpdateLiveOdds(u)
PriceSpec == PriceInit /\ [][PriceNext]_priceVars

-----------------------------------------------------------------------------
\* Whatever updates overlap, a match counts no more changes than it had updates.  When
\* its updates came one after the other and none is under way, the count is their number,
\* and the odds last published are the outcome's unless the last Publish failed.  Of
\* updates that overlap the odds in force may be one's and those published another's,
\* and after a failed Publish nothing says the odds until the next update.
PricesPublishedApart ==
  \A x \in Priced :
    /\ price[x].count <= Cardinality({u \in Updates : update[u].match = x})
    /\ sent[x].apart /\ (\A u \in Updates : ~(Writing(u) /\ update[u].match = x)) =>
         /\ price[x].count = sent[x].ended
         /\ ~sent[x].lost => price[x].odds = sent[x].odds
=============================================================================
