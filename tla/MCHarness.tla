------------------------------- MODULE MCHarness -------------------------------
(* Three rows, two queries whose true scores tie once, and encodings that cost *)
(* every row the same, one row more, or some rows nothing; and corpora of two  *)
(* seeds with tied scores.                                                     *)
EXTENDS Oracle, TLC

Error(p, r) == [primary |-> p, refined |-> r]
MCTruths == {(0 :> 0 @@ 1 :> 1 @@ 2 :> 1), (0 :> 1 @@ 1 :> 0 @@ 2 :> -1)}
MCEncodings == {[r \in Rows |-> Error(1, 0)],
                (0 :> Error(0, 0) @@ 1 :> Error(2, 1) @@ 2 :> Error(1, 0))}
MCBudgets == {<<>>, <<1, 2, 5>>, <<2, 0>>}

MCRowScores == (1 :> <<<<0, 1>>, <<1, 1>>, <<1, 0>>, <<2, 1>>>>) @@
               (2 :> <<<<1, 1>>, <<1, 2>>, <<0, 2>>, <<1, 1>>>>)
MCSources == {[seed |-> 1, count |-> 3], [seed |-> 1, count |-> 2], [seed |-> 2, count |-> 4]}
Of(seed, places) == [i \in DOMAIN places |-> [seed |-> seed, at |-> places[i]]]
MCCallerChunks == {<<>>, Of(1, <<1, 2, 3, 4>>), Of(2, <<1, 2, 4>>), Of(1, <<3>>),
                   Append(Of(1, <<4>>), Invalid), Of(2, <<3, 1, 2, 1, 4>>)}
MCMergeOrders == {<<0, 1, 2, 3, 4, 5, 6, 7>>, <<7, 6, 5, 4, 3, 2, 1, 0>>, <<2, 5, 0, 7, 1, 4, 3, 6>>}
===============================================================================
