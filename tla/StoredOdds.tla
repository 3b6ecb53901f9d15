----------------------------- MODULE StoredOdds -----------------------------
(***************************************************************************)
(* The odds cache of package storage (storage.OddsCache over RedisCache),  *)
(* which nothing connects to the odds engine.  It takes lists and quotes,  *)
(* but the one thing it ever gives back is an empty list.                  *)
(***************************************************************************)

VARIABLE
  shelf  \* what the keys of a match, of the live list and of a quote hold, and what
         \* the last read answered

ShelfInit == shelf = [match |-> "none", live |-> "none", quote |-> "none", answer |-> "none"]

\* Get has decoded the JSON already, and %v writes JSON again only of an empty list:
\* no match's odds and no quote are ever read back.
Decoded(value) ==
  IF value = "none" THEN "not found" ELSE IF value = "empty" THEN "ok" ELSE "undecodable"

Read(value) == shelf' = [shelf EXCEPT !.answer = Decoded(value)]

CacheMatchOdds == shelf' = [shelf EXCEPT !.match = "full"]
GetCachedMatchOdds == Read(shelf.match)
InvalidateMatchOdds == shelf' = [shelf EXCEPT !.match = "none"]
CacheLiveMatches == \E list \in {"full", "empty"} : shelf' = [shelf EXCEPT !.live = list]
GetCachedLiveMatches == Read(shelf.live)
InvalidateLiveMatches == shelf' = [shelf EXCEPT !.live = "none"]
CacheCalculatedOdds == shelf' = [shelf EXCEPT !.quote = "full"]
GetCalculatedOdds == Read(shelf.quote)
KeysExpire == shelf' = [shelf EXCEPT !.match = "none", !.live = "none", !.quote = "none"]

ShelfNext ==
  \/ CacheMatchOdds \/ GetCachedMatchOdds \/ InvalidateMatchOdds
  \/ CacheLiveMatches \/ GetCachedLiveMatches \/ InvalidateLiveMatches
  \/ CacheCalculatedOdds \/ GetCalculatedOdds \/ KeysExpire

ShelfSpec == ShelfInit /\ [][ShelfNext]_shelf
=============================================================================
