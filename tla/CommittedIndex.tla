--------------------------- MODULE CommittedIndex ---------------------------
(***************************************************************************)
(* What an index on disk promises to the processes that use it, without    *)
(* files: a generation is published whole, extends the one before it, and  *)
(* once a commit is acknowledged no crash takes it back.  A generation is  *)
(* its number and its rows; the RowId of a row is its position.            *)
(***************************************************************************)
EXTENDS Integers, Sequences

VARIABLES published,    \* the generation a reader would open
          recoverable,  \* the generations a crash may leave
          promised      \* the last generation a commit acknowledged

vars == <<published, recoverable, promised>>

Absent == [generation |-> 0, rows |-> <<>>]

\* A later generation of the same index: more rows, after the same rows.
Extends(new, old) ==
    /\ new.generation = old.generation + 1
    /\ Len(new.rows) > Len(old.rows)
    /\ SubSeq(new.rows, 1, Len(old.rows)) = old.rows

Init ==
    /\ published = Absent
    /\ recoverable = {Absent}
    /\ promised = Absent

\* A commit's rename.  Nothing else is pending when it happens.
Publish ==
    /\ recoverable = {published}
    /\ Extends(published', published)
    /\ recoverable' = {published, published'}
    /\ UNCHANGED promised

\* The published generation becomes the only one a crash can leave.
Settle ==
    /\ recoverable' = {published}
    /\ UNCHANGED <<published, promised>>

\* commit returns Ok.
Acknowledge ==
    /\ recoverable = {published}
    /\ promised' = published
    /\ UNCHANGED <<published, recoverable>>

Crash ==
    /\ published' \in recoverable
    /\ recoverable' = {published'}
    /\ UNCHANGED promised

Next == Publish \/ Settle \/ Acknowledge \/ Crash

Spec == Init /\ [][Next]_vars

\* What is promised is never taken back: any generation a crash leaves holds
\* the promised rows under the same RowIds.
Kept(g) ==
    /\ g.generation >= promised.generation
    /\ SubSeq(g.rows, 1, Len(promised.rows)) = promised.rows

PromiseKept == \A g \in recoverable : Kept(g)
=============================================================================
