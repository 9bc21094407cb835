-------------------------------- MODULE Files --------------------------------
(* Everything that is read back from disk: a segment file, or a manifest and  *)
(* a CURRENT.  One of the two is at work, while the other has not begun.      *)
EXTENDS SegmentReader

CONSTANTS MaxSegmentRows, MaxSegments, MaxRows, MaxRow64, MaxPayload,
          DamageValues, MaxDamage,
          EntryIds, EntryFirsts, EntryCounts, Totals, Generations

VARIABLES m, disk, written, damage

M == INSTANCE ManifestFile WITH U64Max <- MaxRow64

\* Row numbers are of a wider type than the rows of an index need; the largest
\* manifest fits a container, and so does a CURRENT.
ASSUME FilesAssumption ==
    /\ MaxSegmentRows \in Nat \ {0} /\ MaxSegments \in Nat \ {0}
    /\ MaxRows \in Nat \ {0} /\ MaxRow64 \in Nat /\ MaxRows <= MaxRow64
    /\ MaxPayload \in Nat /\ MaxPayload >= M!HeadLen + MaxSegments * M!EntryLen
    /\ DamageValues \subseteq Nat /\ MaxDamage \in Nat
    /\ EntryIds \subseteq Nat /\ EntryCounts \subseteq Nat /\ Totals \subseteq Nat
    /\ EntryFirsts \subseteq 0 .. MaxRow64 /\ Generations \subseteq Nat

manifestVars == <<m, disk, written, damage>>

One == CHOOSE f \in Originals : TRUE

FilesInit == Init /\ M!Init /\ (m = M!Empty \/ file = One)

\* A file is read any number of times.
ReadAgain == written # M!NoFile /\ UNCHANGED <<vars, manifestVars>>

ReadSegment == m = M!Empty /\ written = M!NoFile /\ Next /\ UNCHANGED manifestVars

ReadManifest ==
    /\ file = One /\ rewrites = 0 /\ asked = "none"
    /\ M!Next /\ UNCHANGED vars

FilesNext == ReadSegment \/ ReadManifest \/ ReadAgain

FilesSpec == FilesInit /\ [][FilesNext]_<<vars, manifestVars>>

\* Manifest::validate accepts the partitions of the rows below the total.
AcceptsPartitions == M!AcceptsPartitions

\* What container.rs and manifest.rs accept of a file is all of the file.
ReadsExactlyTheFile == M!ReadsExactlyTheFile
===============================================================================
