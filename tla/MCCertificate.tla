----------------------------- MODULE MCCertificate -----------------------------
(* Unit vectors of length 25 in the plane, moved by at most 1 by the transform; *)
(* a quantizer that fits the first kind of rows, one that does not, and row     *)
(* lists with every fault from_rows looks for.                                  *)
EXTENDS DotProduct

MCPrimaryVector == [m1 |-> [near |-> <<8, 22>>, far |-> <<24, -6>>],
                    m2 |-> [near |-> <<6, 26>>, far |-> <<-21, 13>>]]
MCResidualVector == [m1 |-> [none |-> <<0, 0>>, some |-> <<-1, 3>>],
                     m2 |-> [none |-> <<0, 0>>, some |-> <<5, -9>>]]

Stored(row, original, transformed, primary, residual) ==
    [row |-> row, original |-> original, transformed |-> transformed,
     primary |-> primary, residual |-> residual]

Good(row) == Stored(row, <<7, 24>>, <<7, 25>>, "near", "some")
Fair(row) == Stored(row, <<15, 20>>, <<15, 19>>, "near", "none")
Zero(row) == Stored(row, <<0, 0>>, <<0, 0>>, "near", "none")
Bad(row) == Stored(row, <<-24, -7>>, <<-24, -7>>, "far", "some")

MCRowLists == {<<>>, <<Good(0)>>, <<Bad(0)>>, <<Zero(0)>>, <<Good(1), Bad(0)>>, <<Fair(1), Good(0)>>,
               <<Good(0), Bad(0)>>, <<Fair(1), Fair(1)>>, <<Good(0), Bad(2)>>}
MCQueries == {[original |-> <<0, 0>>, transformed |-> <<0, 0>>],
              [original |-> <<24, 7>>, transformed |-> <<24, 8>>],
              [original |-> <<-7, 24>>, transformed |-> <<-7, 24>>]}
===============================================================================
