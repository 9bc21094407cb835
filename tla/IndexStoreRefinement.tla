------------------------ MODULE IndexStoreRefinement ------------------------
(***************************************************************************)
(* IndexStore implements CommittedIndex.  The mapping reads the directory  *)
(* as Index::open would: a manifest whose files are not all there and      *)
(* whole stands for no generation at all, and CommittedIndex has none such.*)
(***************************************************************************)
EXTENDS IndexStore
Seqs == INSTANCE SequencesExt

\* Standing for what open would report as corrupt.
Unreadable == [generation |-> -1, rows |-> <<>>]

RowsOf(m) == Seqs!FlattenSeq([i \in DOMAIN m.segments |->
                            segments[m.segments[i].id]])

Generation(h, present) ==
    IF h = NoHash THEN [generation |-> 0, rows |-> <<>>]
    ELSE IF h \notin DOMAIN manifests \/ ~ FilesOf(h) \subseteq present
    THEN Unreadable
    ELSE [generation |-> manifests[h].generation, rows |-> RowsOf(manifests[h])]

Promise == INSTANCE CommittedIndex WITH
    published   <- Generation(current, live \ torn),
    recoverable <- {Generation(h, sure \ (torn \cup unsynced)) : h \in survivors},
    promised    <- Generation(acked, live \ torn)

\* The store keeps the promise of CommittedIndex, step by step.
ImplementsPromise == Promise!Spec

\* The promise itself, read off the directory: every generation a crash may
\* leave holds the acknowledged rows, each under the RowId push gave it.
PromiseKept == Promise!PromiseKept

\* The manifest a commit is about to publish lists exactly the rows of the
\* generation it extends, then every row for which push has returned a RowId
\* since, in RowId order, and no row whose push failed.
PublishesPushedRows ==
    \A p \in Builders :
        builder[p].pc \in {"swapWrite", "swapSync", "swapRename"} =>
            RowsOf(builder[p].draft) =
                Generation(builder[p].draft.previous, live).rows
                    \o builder[p].pushed
=============================================================================
