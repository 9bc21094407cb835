------------------------------ MODULE MCOpenIndex ------------------------------
(* The edits of open_tests.rs: an entry that no longer fits its files, files   *)
(* rewritten together, one of them alone, replaced by another segment's, cut   *)
(* or lost; with a manifest that fits what became of them, or does not.        *)
EXTENDS OpenIndex

CONSTANT Magnitudes     \* what a rewritten file's magnitudes may be

Fit(s) == [s EXCEPT !.entry = EntryFor(@.id, @.rows, s.primary, s.residual)]

Entries(s, ids) ==
    {[s EXCEPT !.entry.id = id] : id \in ids}
    \cup {[s EXCEPT !.entry.primaryLen = @ + 1], [s EXCEPT !.entry.residualHash = Absent]}
    \cup {[s EXCEPT !.entry.rows = n] : n \in RowCounts}

Together(s) ==
    {[s EXCEPT !.primary[f] = "other", !.residual[f] = "other"] :
        f \in {"collection", "segment", "identity"}}

Primaries(s) ==
    {[s EXCEPT !.primary[f] = t] : f \in {"primaryTerms", "refinedTerms"},
                                   t \in {"foreign", "undecodable"}}
    \cup {[s EXCEPT !.primary.magnitudes = m] : m \in Magnitudes}
    \cup {[s EXCEPT !.primary.whole = FALSE, !.primary.len = 10]}

Residuals(s) ==
    {[s EXCEPT !.residual[f] = "other"] : f \in {"collection", "segment", "identity"}}
    \cup {[s EXCEPT !.residual = File("Residual", s.entry.id, n)] : n \in RowCounts}
    \cup {[s EXCEPT !.residual.whole = FALSE]}

Exchanged(s, t) ==
    {[s EXCEPT !.residual = t.residual],
     [s EXCEPT !.primary = t.primary, !.residual = t.residual],
     [s EXCEPT !.primary = s.residual, !.residual = s.primary]}

Lost(s) == {[s EXCEPT !.primary = Absent], [s EXCEPT !.residual = Absent]}

AsStaged(s) == s = Staged(s.entry.id, s.entry.rows)

\* An index is edited once.
MCEdits(segments, i) ==
    LET s == segments[i]
        changed == Together(s) \cup Primaries(s) \cup Residuals(s)
                   \cup UNION {Exchanged(s, segments[j]) : j \in DOMAIN segments}
    IN  IF \A j \in DOMAIN segments : AsStaged(segments[j])
        THEN Entries(s, IdsOf(segments)) \cup Lost(s) \cup changed
             \cup {Fit(t) : t \in changed}
        ELSE {}
===============================================================================
