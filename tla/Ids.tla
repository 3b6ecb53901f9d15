-------------------------------- MODULE Ids --------------------------------
(***************************************************************************)
(* SnowflakeGenerator (internal/infrastructure/id): second, worker and     *)
(* sequence make an id.  A call holds the generator's mutex, also while it *)
(* waits for the next second, so it is one step, or two when it waits.     *)
(***************************************************************************)
EXTENDS Naturals, Sequences

CONSTANTS
  Generators, WorkerOf,  \* the generators and their worker numbers
  SequenceCount,            \* how many sequence numbers there are (1024)
  Seconds, MaxIds        \* bounds: seconds of the clock, ids per generator

ASSUME IdsAssumption ==
  /\ WorkerOf \in [Generators -> Nat] /\ SequenceCount \in Nat \ {0}
  /\ Seconds \in Nat /\ MaxIds \in Nat

VARIABLES
  clock,    \* the wall clock, which may be set back
  gen,      \* lastTime and sequence of each generator, and the second a wait began in
  issued    \* the ids each generator has returned, in order

idsVars == <<clock, gen, issued>>

\* The worker numbers ServiceTypeGenerator gives: "edit", "virtualsports" and
\* "http" are not in its table and share the default.
ServiceWorker(type) ==
  CASE type = "wallet" -> 5000 [] type = "betting" -> 6000 [] type = "jackpot" -> 7000
    [] type = "payment" -> 8000 [] type = "compliance" -> 9000 [] OTHER -> 9998

IdsInit ==
  /\ clock = 1 /\ issued = [g \in Generators |-> <<>>]
  /\ gen = [g \in Generators |-> [last |-> 0, sequence |-> 0, waits |-> 0]]

Issue(g, second, sequence) ==
  issued' = [issued EXCEPT ![g] =
               Append(@, [second |-> second, worker |-> WorkerOf[g], sequence |-> sequence])]

\* Variant with a bug: a clock set back is taken for a new second.
BackwardsIgnored(g) == FALSE
\* The call panics: the generator is left as it was, and returns nothing.
Backwards(g) == clock < gen[g].last

GenerateID(g) ==
  LET next == (gen[g].sequence + 1) % SequenceCount
  IN  /\ gen[g].waits = 0 /\ Len(issued[g]) < MaxIds /\ ~Backwards(g)
      /\ IF clock # gen[g].last
         THEN /\ gen' = [gen EXCEPT ![g].last = clock, ![g].sequence = 0]
              /\ Issue(g, clock, 0)
         ELSE IF next = 0
         THEN gen' = [gen EXCEPT ![g].sequence = 0, ![g].waits = clock] /\ UNCHANGED issued
         ELSE gen' = [gen EXCEPT ![g].sequence = next] /\ Issue(g, clock, next)
      /\ UNCHANGED clock

\* The wait is over: the time kept is the new second, the one printed is the old.
waitNextSecond(g) ==
  /\ gen[g].waits > 0 /\ clock > gen[g].last
  /\ gen' = [gen EXCEPT ![g].last = clock, ![g].waits = 0]
  /\ Issue(g, gen[g].waits, 0)
  /\ UNCHANGED clock

SetClock == clock' \in 1 .. Seconds /\ clock' # clock /\ UNCHANGED <<gen, issued>>

IdsNext == SetClock \/ \E g \in Generators : GenerateID(g) \/ waitNextSecond(g)
IdsSpec == IdsInit /\ [][IdsNext]_idsVars

-----------------------------------------------------------------------------
\* A generator's ids never go back in time, whatever the clock does; within a
\* second the sequence grows, and only the id that ended a wait repeats an earlier
\* one, the second's first.
IdsInOrder ==
  \A g \in Generators : \A i, j \in DOMAIN issued[g] : i < j =>
    LET a == issued[g][i]
        b == issued[g][j]
    IN  /\ a.second <= b.second
        /\ a.second = b.second => a.sequence < b.sequence \/ b.sequence = 0
=============================================================================
