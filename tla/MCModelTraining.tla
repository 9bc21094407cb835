---- MODULE MCModelTraining ----
(* Five rows of three values, one of them the zero with a sign; hash orders   *)
(* that keep and that mix them; a set of residuals on which a cluster empties *)
(* while its rows still have errors; segments of one and of two rows, near    *)
(* the training rows and far from them.                                       *)
EXTENDS Drift, TLC
Scale == 60   \* every cluster size up to six divides it
MCTrainingRows == [1..5 -> {NegZero, Scale, 7 * Scale}]
MCHashOrders == {<<3, 5, 1, 4, 2>>}
MCResidualSets ==
    {<<0, Scale, Scale, 5 * Scale, 6 * Scale, 9 * Scale>>, <<0, Scale>>,
     <<-Scale, 0, -Scale, NegZero, 3 * Scale>>, <<Scale, Scale, NegZero, 0, Scale>>}
MCPushedSegments == {<<Scale>>, <<9 * Scale, NegZero>>, <<4 * Scale, Scale>>}
MCPriorities == {(0 :> 3 @@ 1 :> 1 @@ 2 :> 2 @@ 3 :> 0), (0 :> 0 @@ 1 :> 0 @@ 2 :> 1 @@ 3 :> 2)}
====
