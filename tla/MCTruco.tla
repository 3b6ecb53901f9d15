------------------------------ MODULE MCTruco ------------------------------
(* Small instances of Truco for TLC.                                       *)
EXTENDS Truco, TLC

CONSTANTS ana, bia, caio, a1, a2, b1, c1

MCOwner == [p \in Pages |-> IF p = b1 THEN bia
                          ELSE IF p = c1 THEN caio ELSE ana]

\* A stake of 5 takes all of ana's real balance and some of her bonus; caio
\* cannot pay it.
MCOpening ==
  [u \in Users |-> IF u = ana THEN [balance |-> 3, bonus |-> 8]
                   ELSE IF u = bia THEN [balance |-> 6, bonus |-> 0]
                   ELSE [balance |-> 4, bonus |-> 0]]

\* Two of three tricks for each side, with equal cards and a trick lost.
MCDeals ==
  [m \in {"1v1", "2v2"} |->
     IF m = "1v1"
     THEN {(0 :> <<1, 2, 3>> @@ 1 :> <<1, 2, 2>>),
           (0 :> <<1, 1, 2>> @@ 1 :> <<1, 3, 3>>)}
     ELSE {(0 :> <<1, 1, 3>> @@ 1 :> <<1, 1, 2>>
              @@ 2 :> <<1, 1, 1>> @@ 3 :> <<1, 1, 1>>),
           (0 :> <<1, 1, 1>> @@ 1 :> <<1, 1, 1>>
              @@ 2 :> <<1, 1, 2>> @@ 3 :> <<1, 3, 3>>)}]
=============================================================================
