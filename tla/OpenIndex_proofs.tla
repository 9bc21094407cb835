---------------------------- MODULE OpenIndex_proofs ----------------------------
(* Proofs about opening an index, for every number of segments, every limit on *)
(* descriptors and every edit of a committed index.                            *)
EXTENDS OpenIndex, SegmentFormat_proofs, WellFoundedInduction, TLAPS

-------------------------------------------------------------------------------
(* The inductive invariant.                                                    *)

ASeq(s) == \E S : s \in Seq(S)

ShapesOK ==
    /\ ASeq(index) /\ ASeq(draft) /\ ASeq(loaded) /\ ASeq(bound)
    /\ session \in {"none", "opening", "open", "verifying", "building"}
    /\ phase \in {"files", "checks", "rows"}
    /\ at \in Nat \ {0}

\* Nothing is held or kept when no index is open or being opened.
Idle ==
    /\ loaded = <<>> /\ bound = <<>> /\ held = 0 /\ phase = "files"
    /\ session # "verifying" => at = 1

\* The loop of open: a descriptor for the lock and one for each segment behind
\* it, two more for the segment it is at.
Opening ==
    /\ Len(index) + 1 + Reserved <= Descriptors
    /\ at <= Len(index) + 1 /\ Len(loaded) = at - 1 /\ Len(bound) <= Len(loaded)
    /\ held = at + (IF phase = "files" THEN 0 ELSE 2)
    /\ phase # "files" => at <= Len(index)
    /\ phase = "rows" => OpenError(index[at]) = "none"
    /\ bound # <<>> => at = Len(index) + 1

Opened ==
    /\ held = Len(index) + 1 /\ phase = "files"
    /\ Len(loaded) = Len(index) /\ Len(bound) = Len(index)

PhasesOK ==
    /\ session = "opening" => Opening
    /\ session = "open" => Opened
    /\ session \notin {"opening", "open"} => Idle

\* What is loaded has passed the checks, and what is bound is loaded.
LoadedOK ==
    /\ session \in {"opening", "open"} => ManifestOK(index)
    /\ \A i \in 1..Len(loaded) :
          i \in DOMAIN index /\ loaded[i] = Loaded(i) /\ OpenError(index[i]) = "none"
    /\ \A i \in 1..Len(bound) : i <= Len(loaded) /\ bound[i] = Bound(i)

IInv == ShapesOK /\ PhasesOK /\ LoadedOK

-------------------------------------------------------------------------------
(* Sequences and checks.                                                       *)

LEMMA EmptySeq == ASeq(<<>>) /\ Len(<<>>) = 0
  <1>1. <<>> \in Seq({})
    OBVIOUS
  <1>2. QED
    BY <1>1 DEF ASeq

LEMMA SeqFacts ==
    ASSUME NEW s, ASeq(s)
    PROVE  Len(s) \in Nat /\ DOMAIN s = 1..Len(s) /\ (s # <<>> <=> Len(s) > 0)
  BY DEF ASeq

LEMMA AppendSeq ==
    ASSUME NEW s, ASeq(s), NEW x
    PROVE  /\ ASeq(Append(s, x)) /\ Len(Append(s, x)) = Len(s) + 1
           /\ \A i \in 1..Len(s) : Append(s, x)[i] = s[i]
           /\ Append(s, x)[Len(s) + 1] = x
           /\ Append(s, x) # <<>>
  <1>1. PICK S : s \in Seq(S)
    BY DEF ASeq
  <1>2. s \in Seq(S \cup {x}) /\ x \in S \cup {x}
    BY <1>1
  <1>3. Append(s, x) \in Seq(S \cup {x})
    BY <1>2
  <1>4. QED
    BY <1>2, <1>3 DEF ASeq

LEMMA ConcatSeq ==
    ASSUME NEW s, ASeq(s), NEW t, ASeq(t)
    PROVE  ASeq(s \o t)
  <1>1. PICK S, T : s \in Seq(S) /\ t \in Seq(T)
    BY DEF ASeq
  <1>2. s \in Seq(S \cup T) /\ t \in Seq(S \cup T)
    BY <1>1
  <1>3. s \o t \in Seq(S \cup T)
    BY <1>2
  <1>4. QED
    BY <1>3 DEF ASeq

LEMMA ExceptSeq ==
    ASSUME NEW s, ASeq(s), NEW i \in DOMAIN s, NEW x
    PROVE  ASeq([s EXCEPT ![i] = x])
  <1>1. PICK S : s \in Seq(S)
    BY DEF ASeq
  <1>2. s \in Seq(S \cup {x}) /\ x \in S \cup {x}
    BY <1>1
  <1>3. [s EXCEPT ![i] = x] \in Seq(S \cup {x})
    BY <1>2
  <1>4. QED
    BY <1>3 DEF ASeq

\* A list of checks finds nothing only if each of them finds nothing.
LEMMA NoError ==
    ASSUME NEW a, NEW b, (a ?? b) = "none"
    PROVE  a = "none" /\ b = "none"
  BY DEF ??

LEMMA CheckPasses ==
    ASSUME NEW fails \in BOOLEAN, NEW error, error # "none",
           Check(fails, error) = "none"
    PROVE  ~ fails
  BY DEF Check

\* Files that passed both have the name and the rows of their entry.
LEMMA OpenMatches ==
    ASSUME NEW s, OpenError(s) = "none"
    PROVE  Matches(s.primary, s.entry) /\ Matches(s.residual, s.entry)
  <1> DEFINE fails == \/ HashesDiffer(s) \/ ~ Matches(s.primary, s.entry)
                      \/ ~ Matches(s.residual, s.entry)
  <1>1. Check(fails, "IdentityMismatch") = "none"
    <2>1. (LengthError(s) ?? ReadersError(s) ?? Check(fails, "IdentityMismatch")) = "none"
      BY NoError DEF OpenError
    <2>2. QED
      BY <2>1, NoError
  <1>2. fails \in BOOLEAN
    BY DEF HashesDiffer, Matches
  <1> HIDE DEF fails
  <1>3. ~ fails
    BY <1>1, <1>2, CheckPasses
  <1>4. QED
    BY <1>3 DEF fails

-------------------------------------------------------------------------------
LEMMA InitInv == Init => IInv
  <1> SUFFICES ASSUME Init PROVE IInv
    OBVIOUS
  <1>1. ShapesOK
    BY EmptySeq DEF Init, ShapesOK
  <1>2. PhasesOK
    BY DEF Init, PhasesOK, Idle
  <1>3. LoadedOK
    BY EmptySeq DEF Init, LoadedOK
  <1>4. QED
    BY <1>1, <1>2, <1>3 DEF IInv

\* A call that fails leaves nothing open.
LEMMA FailsKeeps ==
    ASSUME IInv, NEW call, NEW error, Fails(call, error)
    PROVE  IInv'
  <1>1. /\ session' = "none" /\ at' = 1 /\ phase' = "files" /\ held' = 0
        /\ loaded' = <<>> /\ bound' = <<>> /\ draft' = <<>>
        /\ UNCHANGED index
    BY DEF Fails
  <1>2. ShapesOK'
    BY <1>1, EmptySeq DEF IInv, ShapesOK
  <1>3. PhasesOK'
    BY <1>1 DEF PhasesOK, Idle
  <1>4. LoadedOK'
    BY <1>1, EmptySeq DEF LoadedOK
  <1>5. QED
    BY <1>2, <1>3, <1>4 DEF IInv

\* A step that neither begins nor ends in open, and keeps the place.
LEMMA AwayKeeps ==
    ASSUME IInv, session \notin {"opening", "open"},
           session' \in {"none", "verifying", "building"},
           at' \in Nat \ {0}, session' # "verifying" => at' = 1,
           UNCHANGED <<phase, loaded, bound, held>>,
           ASeq(index'), ASeq(draft')
    PROVE  IInv'
  <1>1. Idle
    BY DEF IInv, PhasesOK
  <1>2. ShapesOK'
    BY DEF IInv, ShapesOK
  <1>3. PhasesOK'
    BY <1>1 DEF PhasesOK, Idle
  <1>4. LoadedOK'
    BY <1>1, EmptySeq DEF LoadedOK, Idle
  <1>5. QED
    BY <1>2, <1>3, <1>4 DEF IInv

LEMMA StartOpenKeeps ==
    ASSUME IInv, StartOpen
    PROVE  IInv'
  <1>1. /\ session = "none" /\ session' = "opening" /\ held' = 1
        /\ ManifestOK(index) /\ Len(index) + 1 + Reserved <= Descriptors
        /\ UNCHANGED <<index, at, phase, loaded, bound, draft>>
    BY DEF StartOpen
  <1>2. /\ loaded = <<>> /\ bound = <<>> /\ phase = "files" /\ at = 1
        /\ Len(index) \in Nat
    BY <1>1, SeqFacts DEF IInv, ShapesOK, PhasesOK, Idle
  <1>3. ShapesOK'
    BY <1>1 DEF IInv, ShapesOK
  <1>4. PhasesOK'
    <2>1. Opening'
      BY <1>1, <1>2, EmptySeq DEF Opening
    <2>2. QED
      BY <1>1, <2>1 DEF PhasesOK
  <1>5. LoadedOK'
    BY <1>1, <1>2, EmptySeq DEF LoadedOK, ManifestOK
  <1>6. QED
    BY <1>3, <1>4, <1>5 DEF IInv

\* What the steps of open's loop leave as it was.
LEMMA LoopKeeps ==
    ASSUME IInv, session = "opening", session' = "opening",
           UNCHANGED <<index, draft, loaded, bound>>,
           at' \in Nat \ {0}, phase' \in {"files", "checks", "rows"},
           Opening'
    PROVE  IInv'
  <1>1. ShapesOK'
    BY DEF IInv, ShapesOK
  <1>2. PhasesOK'
    BY DEF PhasesOK
  <1>3. LoadedOK'
    BY DEF IInv, LoadedOK, ManifestOK, Loaded, Bound
  <1>4. QED
    BY <1>1, <1>2, <1>3 DEF IInv

LEMMA OpenFilesKeeps ==
    ASSUME IInv, OpenFiles
    PROVE  IInv'
  <1>1. CASE Missing(index[at])
    BY <1>1, FailsKeeps DEF OpenFiles
  <1>2. CASE ~ Missing(index[at])
    <2>1. /\ session = "opening" /\ at <= Len(index) /\ phase = "files"
          /\ phase' = "checks" /\ held' = held + 2
          /\ UNCHANGED <<index, session, at, loaded, bound, draft>>
      BY <1>2 DEF OpenFiles
    <2>2. Opening /\ at \in Nat \ {0}
      BY <2>1 DEF IInv, PhasesOK, ShapesOK
    <2>3. Opening'
      BY <2>1, <2>2 DEF Opening
    <2>4. QED
      BY <2>1, <2>2, <2>3, LoopKeeps
  <1>3. QED
    BY <1>1, <1>2

LEMMA CheckFilesKeeps ==
    ASSUME IInv, CheckFiles
    PROVE  IInv'
  <1>1. CASE OpenError(index[at]) # "none"
    BY <1>1, FailsKeeps DEF CheckFiles
  <1>2. CASE OpenError(index[at]) = "none"
    <2>1. /\ session = "opening" /\ phase = "checks" /\ phase' = "rows"
          /\ UNCHANGED <<index, session, at, loaded, bound, held, draft>>
      BY <1>2 DEF CheckFiles
    <2>2. Opening /\ at \in Nat \ {0}
      BY <2>1 DEF IInv, PhasesOK, ShapesOK
    <2>3. (OpenError(index[at]) = "none")'
      BY <1>2, <2>1
    <2>4. Opening'
      BY <2>1, <2>2, <2>3 DEF Opening
    <2>5. QED
      BY <2>1, <2>2, <2>4, LoopKeeps
  <1>3. QED
    BY <1>1, <1>2

LEMMA LoadRowsKeeps ==
    ASSUME IInv, LoadRows
    PROVE  IInv'
  <1>1. CASE RowsError(index[at]) # "none"
    BY <1>1, FailsKeeps DEF LoadRows
  <1>2. CASE RowsError(index[at]) = "none"
    <2>1. /\ session = "opening" /\ phase = "rows" /\ phase' = "files"
          /\ loaded' = Append(loaded, Loaded(at))
          /\ at' = at + 1 /\ held' = held - 1
          /\ UNCHANGED <<index, session, bound, draft>>
      BY <1>2 DEF LoadRows
    <2>2. /\ Opening /\ at \in Nat \ {0}
          /\ ASeq(index) /\ ASeq(loaded) /\ ASeq(bound)
          /\ Len(index) \in Nat /\ DOMAIN index = 1..Len(index)
          /\ Len(loaded) \in Nat /\ Len(bound) \in Nat
      BY <2>1, SeqFacts DEF IInv, PhasesOK, ShapesOK
    <2>3. /\ at \in DOMAIN index /\ Len(loaded) = at - 1
          /\ OpenError(index[at]) = "none" /\ bound = <<>>
      BY <2>1, <2>2 DEF Opening
    <2>4. /\ ASeq(loaded') /\ Len(loaded') = at /\ loaded'[at] = Loaded(at)
          /\ \A i \in 1..(at - 1) : loaded'[i] = loaded[i]
      BY <2>1, <2>2, <2>3, AppendSeq
    <2>5. ShapesOK'
      BY <2>1, <2>2, <2>4 DEF IInv, ShapesOK
    <2>6. Opening'
      BY <2>1, <2>2, <2>3, <2>4, EmptySeq DEF Opening
    <2>7. PhasesOK'
      BY <2>1, <2>6 DEF PhasesOK
    <2>8. LoadedOK'
      <3>1. ASSUME NEW i \in 1..Len(loaded')
            PROVE  /\ i \in DOMAIN index' /\ OpenError(index[i])' = "none"
                   /\ loaded'[i] = Loaded(i)'
        <4>1. CASE i = at
          <5>1. Loaded(i)' = Loaded(i) /\ OpenError(index[i])' = OpenError(index[i])
            BY <2>1 DEF Loaded
          <5>2. QED
            BY <2>1, <2>3, <2>4, <4>1, <5>1
        <4>2. CASE i # at
          <5>1. i \in 1..(at - 1)
            BY <2>2, <2>4, <4>2
          <5>2. i \in DOMAIN index /\ loaded[i] = Loaded(i) /\ OpenError(index[i]) = "none"
            BY <2>3, <5>1 DEF IInv, LoadedOK
          <5>3. Loaded(i)' = Loaded(i) /\ OpenError(index[i])' = OpenError(index[i])
            BY <2>1 DEF Loaded
          <5>4. QED
            BY <2>1, <2>4, <5>1, <5>2, <5>3
        <4>3. QED
          BY <4>1, <4>2
      <3>2. Len(bound') = 0
        BY <2>1, <2>3, EmptySeq
      <3>3. ManifestOK(index')
        BY <2>1 DEF IInv, LoadedOK
      <3>4. QED
        BY <3>1, <3>2, <3>3 DEF LoadedOK
    <2>9. QED
      BY <2>5, <2>7, <2>8 DEF IInv
  <1>3. QED
    BY <1>1, <1>2

LEMMA BindKeeps ==
    ASSUME IInv, Bind
    PROVE  IInv'
  <1> DEFINE k == Len(bound) + 1
  <1>1. CASE BindError(index[k]) # "none"
    <2>1. Fails("open", BindError(index[k]))
      BY <1>1 DEF Bind
    <2>2. QED
      BY <2>1, FailsKeeps
  <1>2. CASE BindError(index[k]) = "none"
    <2>1. /\ session = "opening" /\ at > Len(index) /\ Len(bound) < Len(index)
          /\ bound' = Append(bound, Bound(k))
          /\ UNCHANGED <<index, session, at, phase, loaded, held, draft>>
      BY <1>2 DEF Bind
    <2>2. /\ Opening /\ at \in Nat \ {0} /\ ASeq(bound)
          /\ Len(index) \in Nat /\ Len(loaded) \in Nat /\ Len(bound) \in Nat
      BY <2>1, SeqFacts DEF IInv, PhasesOK, ShapesOK
    <2>3. /\ ASeq(bound') /\ Len(bound') = k /\ bound'[k] = Bound(k)
          /\ \A i \in 1..Len(bound) : bound'[i] = bound[i]
          /\ bound' # <<>>
      BY <2>1, <2>2, AppendSeq
    <2>4. at = Len(index) + 1 /\ Len(loaded) = Len(index) /\ phase = "files"
      BY <2>1, <2>2 DEF Opening, ShapesOK, IInv
    <2>5. ShapesOK'
      BY <2>1, <2>3 DEF IInv, ShapesOK
    <2>6. Opening'
      <3>1. k <= Len(loaded)
        BY <2>1, <2>2, <2>4
      <3>2. QED
        BY <2>1, <2>2, <2>3, <2>4, <3>1 DEF Opening
    <2>7. PhasesOK'
      BY <2>1, <2>6 DEF PhasesOK
    <2>8. LoadedOK'
      <3>1. ASSUME NEW i \in 1..Len(bound')
            PROVE  i <= Len(loaded') /\ bound'[i] = Bound(i)'
        <4>1. Bound(i)' = Bound(i)
          BY <2>1 DEF Bound
        <4>2. CASE i = k
          BY <2>1, <2>2, <2>3, <2>4, <4>1, <4>2
        <4>3. CASE i # k
          <5>1. i \in 1..Len(bound)
            BY <2>2, <2>3, <4>3
          <5>2. i <= Len(loaded) /\ bound[i] = Bound(i)
            BY <5>1 DEF IInv, LoadedOK
          <5>3. QED
            BY <2>1, <2>3, <4>1, <5>1, <5>2
        <4>4. QED
          BY <4>2, <4>3
      <3>2. ASSUME NEW i \in 1..Len(loaded')
            PROVE  /\ i \in DOMAIN index' /\ OpenError(index[i])' = "none"
                   /\ loaded'[i] = Loaded(i)'
        BY <2>1 DEF IInv, LoadedOK, Loaded
      <3>3. ManifestOK(index')
        BY <2>1 DEF IInv, LoadedOK
      <3>4. QED
        BY <3>1, <3>2, <3>3 DEF LoadedOK
    <2>9. QED
      BY <2>5, <2>7, <2>8 DEF IInv
  <1>3. QED
    BY <1>1, <1>2

LEMMA FinishOpenKeeps ==
    ASSUME IInv, FinishOpen
    PROVE  IInv'
  <1>1. CASE Fails("open", "Io")
    BY <1>1, FailsKeeps
  <1>2. CASE ~ Fails("open", "Io")
    <2>1. /\ session = "opening" /\ at > Len(index) /\ Len(bound) = Len(index)
          /\ session' = "open"
          /\ UNCHANGED <<index, at, phase, loaded, bound, held, draft>>
      BY <1>2 DEF FinishOpen
    <2>2. /\ Opening /\ at \in Nat \ {0} /\ Len(index) \in Nat /\ Len(loaded) \in Nat
          /\ phase \in {"files", "checks", "rows"}
      BY <2>1, SeqFacts DEF IInv, PhasesOK, ShapesOK
    <2>3. Opened'
      BY <2>1, <2>2 DEF Opening, Opened
    <2>4. ShapesOK'
      BY <2>1 DEF IInv, ShapesOK
    <2>5. LoadedOK'
      BY <2>1 DEF IInv, LoadedOK, Loaded, Bound, ManifestOK
    <2>6. QED
      BY <2>1, <2>3, <2>4, <2>5 DEF IInv, PhasesOK
  <1>3. QED
    BY <1>1, <1>2

LEMMA CloseIndexKeeps ==
    ASSUME IInv, CloseIndex
    PROVE  IInv'
  <1>1. /\ session = "open" /\ session' = "none" /\ at' = 1 /\ held' = 0
        /\ loaded' = <<>> /\ bound' = <<>>
        /\ UNCHANGED <<index, phase, draft>>
    BY DEF CloseIndex
  <1>2. phase = "files"
    BY <1>1 DEF IInv, PhasesOK, Opened
  <1>3. ShapesOK'
    BY <1>1, EmptySeq DEF IInv, ShapesOK
  <1>4. PhasesOK'
    BY <1>1, <1>2 DEF PhasesOK, Idle
  <1>5. LoadedOK'
    BY <1>1, EmptySeq DEF LoadedOK
  <1>6. QED
    BY <1>3, <1>4, <1>5 DEF IInv

-------------------------------------------------------------------------------
(* The builder, and edits.                                                     *)

LEMMA BuilderKeeps ==
    ASSUME IInv,
           \/ Create \/ StartAppend \/ VerifySegment \/ StartBuilding
           \/ \E id \in Ids, rows \in RowCounts : StageSegment(id, rows)
           \/ Commit \/ DropBuilder \/ Edit
    PROVE  IInv'
  <1>1. /\ ASeq(index) /\ ASeq(draft) /\ at \in Nat \ {0}
        /\ session \in {"none", "building"} => at = 1
    BY DEF IInv, ShapesOK, PhasesOK, Idle
  <1>2. CASE Create
    BY <1>1, <1>2, AwayKeeps DEF Create
  <1>3. CASE StartAppend
    <2>1. CASE \E error : Fails("append", error)
      BY <2>1, FailsKeeps
    <2>2. CASE ~ \E error : Fails("append", error)
      BY <1>1, <1>3, <2>2, AwayKeeps DEF StartAppend
    <2>3. QED
      BY <2>1, <2>2
  <1>4. CASE VerifySegment
    <2>1. CASE \E error : Fails("append", error)
      BY <2>1, FailsKeeps
    <2>2. CASE ~ \E error : Fails("append", error)
      <3>1. /\ session = "verifying" /\ at' = at + 1
            /\ UNCHANGED <<index, session, phase, loaded, bound, held, draft>>
        BY <1>4, <2>2 DEF VerifySegment
      <3>2. QED
        BY <1>1, <3>1, AwayKeeps
    <2>3. QED
      BY <2>1, <2>2
  <1>5. CASE StartBuilding
    <2>1. CASE Fails("append", "Io")
      BY <2>1, FailsKeeps
    <2>2. CASE ~ Fails("append", "Io")
      BY <1>1, <1>5, <2>2, AwayKeeps DEF StartBuilding
    <2>3. QED
      BY <2>1, <2>2
  <1>6. ASSUME NEW id \in Ids, NEW rows \in RowCounts, StageSegment(id, rows)
        PROVE  IInv'
    <2>1. ASeq(draft')
      BY <1>1, <1>6, AppendSeq DEF StageSegment
    <2>2. QED
      BY <1>1, <1>6, <2>1, AwayKeeps DEF StageSegment
  <1>7. CASE Commit
    <2>1. ASeq(index')
      BY <1>1, <1>7, ConcatSeq DEF Commit
    <2>2. QED
      BY <1>1, <1>7, <2>1, EmptySeq, AwayKeeps DEF Commit
  <1>8. CASE DropBuilder
    BY <1>1, <1>8, EmptySeq, AwayKeeps DEF DropBuilder
  <1>9. CASE Edit
    <2>1. PICK i \in DOMAIN index, s \in UNION {Edits(index, j) : j \in DOMAIN index} :
             index' = [index EXCEPT ![i] = s]
      BY <1>9 DEF Edit
    <2>2. ASeq(index')
      BY <1>1, <2>1, ExceptSeq
    <2>3. QED
      BY <1>1, <1>9, <2>2, AwayKeeps DEF Edit
  <1>10. QED
    BY <1>2, <1>3, <1>4, <1>5, <1>6, <1>7, <1>8, <1>9

LEMMA StepKeeps ==
    ASSUME IInv, [Next]_vars
    PROVE  IInv'
  <1>1. CASE OpenRefused
    BY <1>1, FailsKeeps DEF OpenRefused
  <1>2. CASE UNCHANGED vars
    BY <1>2 DEF vars, IInv, ShapesOK, PhasesOK, Idle, Opening, Opened, LoadedOK,
                Loaded, Bound, ManifestOK
  <1>3. CASE Next /\ ~ OpenRefused
    BY <1>3, StartOpenKeeps, OpenFilesKeeps, CheckFilesKeeps, LoadRowsKeeps, BindKeeps,
       FinishOpenKeeps, CloseIndexKeeps, BuilderKeeps DEF Next
  <1>4. QED
    BY <1>1, <1>2, <1>3

-------------------------------------------------------------------------------
(* What it says of descriptors and of certificates.                            *)

LEMMA CountsDescriptors ==
    ASSUME IInv
    PROVE  DescriptorsBounded
  <1>1. /\ Len(index) \in Nat /\ at \in Nat /\ Descriptors \in Nat
        /\ phase \in {"files", "checks", "rows"}
    BY SeqFacts, OpenAssumption DEF IInv, ShapesOK
  <1>2. CASE session = "opening"
    <2>1. Opening
      BY <1>2 DEF IInv, PhasesOK
    <2>2. held <= Len(index) + 2
      BY <1>1, <2>1 DEF Opening
    <2>3. held < Descriptors - (Reserved - 2)
      BY <1>1, <2>1, <2>2 DEF Opening, Reserved
    <2>4. QED
      BY <1>2, <2>3 DEF DescriptorsBounded
  <1>3. CASE session # "opening"
    BY <1>3 DEF IInv, PhasesOK, Idle, Opened, DescriptorsBounded
  <1>4. QED
    BY <1>2, <1>3

LEMMA LoadedFields ==
    ASSUME NEW i, loaded[i] = Loaded(i)
    PROVE  /\ loaded[i].id = index[i].entry.id /\ loaded[i].rows = index[i].entry.rows
           /\ loaded[i].primary = index[i].primary
           /\ loaded[i].residual = index[i].residual
  BY DEF Loaded

LEMMA BindsWhatIsLoaded ==
    ASSUME IInv
    PROVE  BoundToTheirFiles
  <1>1. /\ Len(index) \in Nat /\ Len(loaded) \in Nat /\ Len(bound) \in Nat
        /\ DOMAIN bound = 1..Len(bound) /\ (bound # <<>> => Len(bound) > 0)
        /\ DOMAIN index = 1..Len(index) /\ at \in Nat
    BY SeqFacts DEF IInv, ShapesOK
  <1>2. ASSUME bound # <<>>
        PROVE  Len(loaded) = Len(index) /\ ManifestOK(index)
    <2>1. session \in {"opening", "open"}
      BY <1>2 DEF IInv, PhasesOK, Idle
    <2>2. CASE session = "opening"
      <3>1. Opening
        BY <2>2 DEF IInv, PhasesOK
      <3>2. at = Len(index) + 1 /\ Len(loaded) = at - 1
        BY <1>2, <3>1 DEF Opening
      <3>3. Len(loaded) = Len(index)
        BY <1>1, <3>2
      <3>4. QED
        BY <2>1, <3>3 DEF IInv, LoadedOK
    <2>3. CASE session = "open"
      BY <2>3 DEF IInv, PhasesOK, LoadedOK, Opened
    <2>4. QED
      BY <2>1, <2>2, <2>3
  <1>3. ASSUME NEW i \in DOMAIN bound
        PROVE  /\ bound[i] = Bound(i) /\ i \in DOMAIN index
               /\ loaded[i] = Loaded(i)
               /\ Matches(index[i].primary, index[i].entry)
               /\ Matches(index[i].residual, index[i].entry)
    <2>1. i <= Len(loaded) /\ bound[i] = Bound(i)
      BY <1>1 DEF IInv, LoadedOK
    <2>2. i \in DOMAIN index /\ loaded[i] = Loaded(i) /\ OpenError(index[i]) = "none"
      BY <1>1, <2>1 DEF IInv, LoadedOK
    <2>3. QED
      BY <2>1, <2>2, OpenMatches
  <1>4. ASSUME NEW i \in DOMAIN bound
        PROVE  LET s == loaded[bound[i].segment] IN
               /\ bound[i].id = s.id /\ bound[i].of = s.residual.segment
               /\ bound[i].rows = s.residual.rows /\ s.primary.rows = s.residual.rows
    <2>1. /\ bound[i].segment = i /\ bound[i].id = loaded[i].id
          /\ bound[i].rows = loaded[i].rows /\ bound[i].of = loaded[i].primary.segment
      BY <1>3 DEF Bound
    <2>2. /\ loaded[i].id = index[i].entry.id /\ loaded[i].rows = index[i].entry.rows
          /\ loaded[i].primary = index[i].primary /\ loaded[i].residual = index[i].residual
      BY <1>3, LoadedFields
    <2>3. /\ index[i].primary.segment = index[i].entry.id
          /\ index[i].residual.segment = index[i].entry.id
          /\ index[i].primary.rows = index[i].entry.rows
          /\ index[i].residual.rows = index[i].entry.rows
      BY <1>3 DEF Matches
    <2>4. QED
      BY <2>1, <2>2, <2>3
  <1>5. ASSUME NEW i \in DOMAIN bound, NEW j \in DOMAIN bound, i # j
        PROVE  loaded[i].residual.segment # loaded[j].residual.segment
    <2>1. ManifestOK(index)
      BY <1>1, <1>2, <1>5
    <2>2. index[i].entry.id # index[j].entry.id
      BY <1>3, <1>5, <2>1 DEF ManifestOK
    <2>3. /\ loaded[i].residual = index[i].residual
          /\ loaded[j].residual = index[j].residual
      BY <1>3, <1>5, LoadedFields
    <2>4. /\ index[i].residual.segment = index[i].entry.id
          /\ index[j].residual.segment = index[j].entry.id
      BY <1>3, <1>5 DEF Matches
    <2>5. QED
      BY <2>2, <2>3, <2>4
  <1>6. QED
    BY <1>2, <1>4, <1>5 DEF BoundToTheirFiles

-------------------------------------------------------------------------------
(* The theorems.                                                               *)

\* The loop of Index::open: what it has loaded has passed every check of the
\* files, in the order of the manifest, and what it holds open is the lock, a
\* file for each of these segments, and at most two more.
THEOREM Inductive == Spec => []IInv
  <1>1. Init => IInv
    BY InitInv
  <1>2. IInv /\ [Next]_vars => IInv'
    BY StepKeeps
  <1>3. QED
    BY <1>1, <1>2, PTL DEF Spec

\* The descriptors open.rs asks for before it starts are enough, and a failed
\* or closed index leaves none open.
THEOREM DescriptorsSuffice == Spec => []DescriptorsBounded
  <1>1. IInv => DescriptorsBounded
    BY CountsDescriptors
  <1>2. QED
    BY <1>1, Inductive, PTL

\* No certificate is bound before the files of every segment have passed, and
\* none to the rows of another segment's residual file (certified.rs, bind).
THEOREM CertificatesBelong == Spec => []BoundToTheirFiles
  <1>1. IInv => BoundToTheirFiles
    BY BindsWhatIsLoaded
  <1>2. QED
    BY <1>1, Inductive, PTL

-------------------------------------------------------------------------------
(* What open and append check of a segment.                                    *)

\* A list of checks finds nothing if each of them finds nothing.
LEMMA ChecksPass ==
    ASSUME NEW a, NEW b
    PROVE  (a ?? b) = "none" <=> a = "none" /\ b = "none"
  BY DEF ??

\* A check finds nothing if it does not fail.
LEMMA CheckHolds ==
    ASSUME NEW fails \in BOOLEAN, NEW error, error # "none"
    PROVE  Check(fails, error) = "none" <=> ~ fails
  BY DEF Check

\* All that open checks of two files until they are paired.
LEMMA OpenPasses ==
    ASSUME NEW s
    PROVE  OpenError(s) = "none" <=>
              /\ LengthError(s) = "none" /\ ReadersError(s) = "none"
              /\ ~ HashesDiffer(s)
              /\ Matches(s.primary, s.entry) /\ Matches(s.residual, s.entry)
              /\ PairError(s) = "none"
  <1> DEFINE fails == \/ HashesDiffer(s) \/ ~ Matches(s.primary, s.entry)
                      \/ ~ Matches(s.residual, s.entry)
  <1>1. fails \in BOOLEAN
    BY DEF HashesDiffer, Matches
  <1>2. OpenError(s) = "none" <=>
           /\ LengthError(s) = "none" /\ ReadersError(s) = "none"
           /\ Check(fails, "IdentityMismatch") = "none" /\ PairError(s) = "none"
    <2> DEFINE a == LengthError(s)
               b == ReadersError(s)
               c == Check(fails, "IdentityMismatch")
               d == PairError(s)
    <2>1. OpenError(s) = (((a ?? b) ?? c) ?? d)
      BY DEF OpenError
    <2> HIDE DEF a, b, c, d
    <2>2. OpenError(s) = "none" <=> a = "none" /\ b = "none" /\ c = "none" /\ d = "none"
      BY <2>1, ChecksPass
    <2>3. QED
      BY <2>2 DEF a, b, c, d
  <1> HIDE DEF fails
  <1>3. Check(fails, "IdentityMismatch") = "none" <=> ~ fails
    BY <1>1, CheckHolds
  <1>4. QED
    BY <1>2, <1>3 DEF fails

\* All that append checks of a segment.
LEMMA VerifyPasses ==
    ASSUME NEW s
    PROVE  VerifyError(s) = "none" <=>
              /\ SizeError(s) = "none"
              /\ LengthError(s) = "none" /\ ReadersError(s) = "none"
              /\ ~ HashesDiffer(s) /\ Matches(s.primary, s.entry)
              /\ Decoded(s.primary.primaryTerms) = "none"
              /\ Certified(s.primary.primaryTerms) = "none"
              /\ Decoded(s.primary.refinedTerms) = "none"
              /\ Certified(s.primary.refinedTerms) = "none"
              /\ PairError(s) = "none"
  <1> DEFINE fails == HashesDiffer(s) \/ ~ Matches(s.primary, s.entry)
             a == SizeError(s)
             b == LengthError(s)
             c == ReadersError(s)
             d == Check(fails, "IdentityMismatch")
             e == Decoded(s.primary.primaryTerms)
             f == Certified(s.primary.primaryTerms)
             g == Decoded(s.primary.refinedTerms)
             h == Certified(s.primary.refinedTerms)
             i == PairError(s)
  <1>1. fails \in BOOLEAN
    BY DEF HashesDiffer, Matches
  <1>2. VerifyError(s) = ((((((((a ?? b) ?? c) ?? d) ?? e) ?? f) ?? g) ?? h) ?? i)
    BY DEF VerifyError
  <1> HIDE DEF fails
  <1>3. d = "none" <=> ~ fails
    BY <1>1, CheckHolds
  <1> HIDE DEF a, b, c, d, e, f, g, h, i
  <1>4. VerifyError(s) = "none" <=>
           /\ a = "none" /\ b = "none" /\ c = "none" /\ d = "none" /\ e = "none"
           /\ f = "none" /\ g = "none" /\ h = "none" /\ i = "none"
    BY <1>2, ChecksPass
  <1>5. QED
    BY <1>3, <1>4 DEF a, b, c, e, f, g, h, i, fails

\* A segment that open takes, and one that append takes.
Passes(s) ==
    ~ Missing(s) /\ OpenError(s) = "none" /\ RowsError(s) = "none" /\ BindError(s) = "none"

Verified(s) == ~ Missing(s) /\ VerifyError(s) = "none"

\* All that open checks when it reads the rows and binds the certificates.
LEMMA RowsAndBindPass ==
    ASSUME NEW s
    PROVE  /\ RowsError(s) = "none" <=>
                 /\ s.primary.magnitudes = "finite"
                 /\ Decoded(s.primary.primaryTerms) = "none"
                 /\ Decoded(s.primary.refinedTerms) = "none"
           /\ BindError(s) = "none" <=>
                 /\ Certified(s.primary.primaryTerms) = "none"
                 /\ Certified(s.primary.refinedTerms) = "none"
  <1> DEFINE fails == s.primary.magnitudes # "finite"
             a == Check(fails, "Corrupt")
             b == Decoded(s.primary.primaryTerms)
             c == Decoded(s.primary.refinedTerms)
  <1>1. a = "none" <=> ~ fails
    BY CheckHolds
  <1>2. RowsError(s) = ((a ?? b) ?? c)
    BY DEF RowsError
  <1>3. BindError(s) = (Certified(s.primary.primaryTerms) ?? Certified(s.primary.refinedTerms))
    BY DEF BindError
  <1> HIDE DEF a, b, c
  <1>4. RowsError(s) = "none" <=> a = "none" /\ b = "none" /\ c = "none"
    BY <1>2, ChecksPass
  <1>5. QED
    BY <1>1, <1>3, <1>4, ChecksPass DEF b, c

\* What append leaves to the pairing is what open asks of the residual file.
LEMMA VerifiedPasses ==
    ASSUME NEW s, Verified(s), s.primary.magnitudes = "finite"
    PROVE  Passes(s)
  <1>1. ~ Missing(s) /\ VerifyError(s) = "none"
    BY DEF Verified
  <1>2. /\ Matches(s.primary, s.entry) /\ PairError(s) = "none"
        /\ LengthError(s) = "none" /\ ReadersError(s) = "none" /\ ~ HashesDiffer(s)
        /\ RowsError(s) = "none" /\ BindError(s) = "none"
    BY <1>1, VerifyPasses, RowsAndBindPass
  <1>3. /\ s.primary.collection = s.residual.collection
        /\ s.primary.segment = s.residual.segment
        /\ s.primary.rows = s.residual.rows
    BY <1>2, CheckHolds DEF PairError
  <1>4. Matches(s.residual, s.entry)
    BY <1>2, <1>3 DEF Matches
  <1>5. QED
    BY <1>1, <1>2, <1>4, OpenPasses DEF Passes

\* Of what open takes, append could only find the files too large.
LEMMA PassesVerified ==
    ASSUME NEW s, Passes(s), SizeError(s) = "none"
    PROVE  Verified(s)
  BY OpenPasses, VerifyPasses, RowsAndBindPass DEF Passes, Verified

\* What a builder stages passes.
LEMMA StagedPasses ==
    ASSUME NEW id, NEW rows
    PROVE  LET s == Staged(id, rows)
           IN  Passes(s) /\ s.entry.id = id
  <1> DEFINE s == Staged(id, rows)
             P == File("Primary", id, rows)
             R == File("Residual", id, rows)
  <1>1. /\ s.primary = P /\ s.residual = R /\ s.entry.id = id
        /\ s.entry.rows = rows /\ s.entry.primaryLen = P.len
        /\ s.entry.residualLen = R.len
        /\ s.entry.primaryHash = P /\ s.entry.residualHash = R
    BY DEF Staged, EntryFor
  <1>2. /\ P.kind = "Primary" /\ P.whole = TRUE /\ P.identity = "model"
        /\ P.collection = "index" /\ P.segment = id /\ P.rows = rows
        /\ P.primaryTerms = "valid" /\ P.refinedTerms = "valid" /\ P.magnitudes = "finite"
    BY DEF File
  <1>3. /\ R.kind = "Residual" /\ R.whole = TRUE /\ R.identity = "model"
        /\ R.collection = "index" /\ R.segment = id /\ R.rows = rows
    BY DEF File
  <1> HIDE DEF s, P, R
  <1>4. ~ Missing(s)
    BY <1>1, <1>2, <1>3 DEF Missing, Absent
  <1>5. LengthError(s) = "none" /\ ~ HashesDiffer(s)
    BY <1>1 DEF LengthError, Check, HashesDiffer
  <1>6. ReadersError(s) = "none"
    BY <1>1, <1>2, <1>3 DEF ReadersError, ReaderError, Check, ??
  <1>7. Matches(s.primary, s.entry) /\ Matches(s.residual, s.entry)
    BY <1>1, <1>2, <1>3 DEF Matches
  <1>8. PairError(s) = "none"
    BY <1>1, <1>2, <1>3 DEF PairError, Check
  <1>9. RowsError(s) = "none" /\ BindError(s) = "none"
    BY <1>1, <1>2 DEF RowsError, BindError, Check, Decoded, Certified, ??
  <1>10. QED
    BY <1>1, <1>4, <1>5, <1>6, <1>7, <1>8, <1>9, OpenPasses DEF Passes, s

-------------------------------------------------------------------------------
(* A committed generation opens.                                               *)

\* No magnitude of the committed segments was rewritten.
MagnitudesFinite ==
    \A i \in DOMAIN index :
        ~ Missing(index[i]) => index[i].primary.magnitudes = "finite"

\* Until a file is rewritten every committed segment passes; a builder's old
\* segments have passed its own checks, its new ones are as it staged them.
CommittedOK ==
    ~ history.rewritten =>
        ManifestOK(index) /\ \A i \in DOMAIN index : Passes(index[i])

BuilderOK ==
    session \in {"verifying", "building"} =>
        /\ ManifestOK(index)
        /\ \A i \in DOMAIN index : session = "building" \/ i < at => Verified(index[i])

DraftOK ==
    /\ session # "building" => draft = <<>>
    /\ \A i \in DOMAIN draft : Passes(draft[i])
    /\ ManifestOK(draft)
    /\ \A i \in DOMAIN index, j \in DOMAIN draft : index[i].entry.id # draft[j].entry.id

\* The history is three facts.
HistoryOK == history \in [rewritten : BOOLEAN, opened : BOOLEAN, refused : BOOLEAN]

FreshInv == CommittedOK /\ BuilderOK /\ DraftOK /\ HistoryOK /\ FreshGenerationOpens

\* A builder that has staged nothing.
LEMMA EmptyDraft ==
    ASSUME draft = <<>>
    PROVE  /\ \A i \in DOMAIN draft : Passes(draft[i])
           /\ ManifestOK(draft)
           /\ \A i \in DOMAIN index, j \in DOMAIN draft :
                 index[i].entry.id # draft[j].entry.id
  <1>1. DOMAIN draft = {}
    OBVIOUS
  <1>2. QED
    BY <1>1 DEF ManifestOK

\* There is nothing to open at first.
LEMMA FreshInit == Init => FreshInv
  <1> SUFFICES ASSUME Init PROVE FreshInv
    OBVIOUS
  <1>1. index = <<>> /\ draft = <<>> /\ session = "none"
    BY DEF Init
  <1>2. DOMAIN index = {}
    BY <1>1
  <1>3. CommittedOK /\ BuilderOK
    BY <1>1, <1>2 DEF CommittedOK, BuilderOK, ManifestOK
  <1>4. DraftOK
    BY <1>1, EmptyDraft DEF DraftOK
  <1>5. HistoryOK
    BY DEF Init, Unseen, HistoryOK
  <1>6. FreshGenerationOpens
    BY DEF Init, Ok, FreshGenerationOpens
  <1>7. QED
    BY <1>3, <1>4, <1>5, <1>6 DEF FreshInv

\* A step that leaves the index and ends with no builder under way.
LEMMA RestKeeps ==
    ASSUME FreshInv, index' = index, draft' = <<>>,
           session' \notin {"verifying", "building"},
           HistoryOK', history'.rewritten = history.rewritten,
           FreshGenerationOpens'
    PROVE  FreshInv'
  <1>1. CommittedOK'
    BY DEF FreshInv, CommittedOK, ManifestOK
  <1>2. BuilderOK'
    BY DEF BuilderOK
  <1>3. DraftOK'
    <2>1. DOMAIN draft' = {}
      OBVIOUS
    <2>2. QED
      BY <2>1 DEF DraftOK, ManifestOK
  <1>4. QED
    BY <1>1, <1>2, <1>3 DEF FreshInv

\* A call that fails does not blame files that nobody rewrote.
LEMMA FailsFresh ==
    ASSUME FreshInv, NEW call, NEW error, Fails(call, error),
           HistoryOK', history'.rewritten = history.rewritten,
           call = "open" /\ error \in Unreadable => history.rewritten
    PROVE  FreshInv'
  <1>1. /\ index' = index /\ draft' = <<>> /\ session' = "none"
        /\ outcome'.call = call /\ outcome'.error = error
    BY DEF Fails, Error
  <1>2. FreshGenerationOpens'
    BY <1>1 DEF FreshGenerationOpens, Unreadable
  <1>3. QED
    BY <1>1, <1>2, RestKeeps

\* Open finds nothing to refuse in files that pass.
LEMMA OpenFresh ==
    ASSUME IInv, FreshInv,
           OpenRefused \/ StartOpen \/ OpenFiles \/ CheckFiles \/ LoadRows
           \/ Bind \/ FinishOpen \/ CloseIndex
    PROVE  FreshInv'
  <1> DEFINE k == Len(bound) + 1
  <1>1. HistoryOK
    BY DEF FreshInv
  <1>2. ASSUME ~ history.rewritten
        PROVE  ManifestOK(index) /\ \A i \in DOMAIN index : Passes(index[i])
    BY <1>2 DEF FreshInv, CommittedOK
  <1>3. /\ DOMAIN index = 1 .. Len(index) /\ Len(index) \in Nat
        /\ Len(bound) \in Nat /\ at \in Nat \ {0}
    BY SeqFacts DEF IInv, ShapesOK
  <1>4. session = "opening" => Opening
    BY DEF IInv, PhasesOK
  \* Each of the steps fails as its guard says, or goes on.
  <1>5. ASSUME session' \notin {"verifying", "building"}, session # "building",
               UNCHANGED <<index, draft>>,
               HistoryOK', history'.rewritten = history.rewritten,
               outcome' = outcome \/ outcome' = Ok("open")
        PROVE  FreshInv'
    <2>1. draft' = <<>>
      BY <1>5 DEF FreshInv, DraftOK
    <2>2. FreshGenerationOpens'
      BY <1>5 DEF FreshInv, FreshGenerationOpens, Ok, Unreadable
    <2>3. QED
      BY <1>5, <2>1, <2>2, RestKeeps
  <1>6. ASSUME UNCHANGED history
        PROVE  HistoryOK' /\ history'.rewritten = history.rewritten
    BY <1>1, <1>6 DEF HistoryOK
  <1>7. CASE OpenRefused
    <2>1. PICK error : /\ Fails("open", error)
                       /\ error \in Unreadable => ~ ManifestOK(index)
      BY <1>7 DEF OpenRefused, Unreadable
    <2>2. UNCHANGED history
      BY <1>7 DEF OpenRefused
    <2>3. error \in Unreadable => history.rewritten
      BY <1>1, <1>2, <2>1 DEF HistoryOK
    <2>4. QED
      BY <1>6, <2>1, <2>2, <2>3, FailsFresh
  <1>8. CASE StartOpen
    BY <1>5, <1>6, <1>8 DEF StartOpen
  <1>9. CASE OpenFiles
    <2>1. UNCHANGED history /\ session = "opening"
      BY <1>9 DEF OpenFiles
    <2>2. CASE Missing(index[at])
      <3>1. Fails("open", "Io") /\ "Io" \notin Unreadable
        BY <1>9, <2>2 DEF OpenFiles, Unreadable
      <3>2. QED
        BY <1>6, <2>1, <3>1, FailsFresh
    <2>3. CASE ~ Missing(index[at])
      BY <1>5, <1>6, <1>9, <2>1, <2>3 DEF OpenFiles
    <2>4. QED
      BY <2>2, <2>3
  <1>10. CASE CheckFiles
    <2>1. UNCHANGED history /\ session = "opening" /\ phase = "checks"
      BY <1>10 DEF CheckFiles
    <2>2. CASE OpenError(index[at]) # "none"
      <3>1. Fails("open", OpenError(index[at]))
        BY <1>10, <2>2 DEF CheckFiles
      <3>2. at \in DOMAIN index
        BY <1>3, <1>4, <2>1 DEF Opening
      <3>3. history.rewritten
        BY <1>1, <1>2, <2>2, <3>2 DEF HistoryOK, Passes
      <3>4. QED
        BY <1>6, <2>1, <3>1, <3>3, FailsFresh
    <2>3. CASE OpenError(index[at]) = "none"
      BY <1>5, <1>6, <1>10, <2>1, <2>3 DEF CheckFiles
    <2>4. QED
      BY <2>2, <2>3
  <1>11. CASE LoadRows
    <2>1. UNCHANGED history /\ session = "opening" /\ phase = "rows"
      BY <1>11 DEF LoadRows
    <2>2. CASE RowsError(index[at]) # "none"
      <3>1. Fails("open", RowsError(index[at]))
        BY <1>11, <2>2 DEF LoadRows
      <3>2. at \in DOMAIN index
        BY <1>3, <1>4, <2>1 DEF Opening
      <3>3. history.rewritten
        BY <1>1, <1>2, <2>2, <3>2 DEF HistoryOK, Passes
      <3>4. QED
        BY <1>6, <2>1, <3>1, <3>3, FailsFresh
    <2>3. CASE RowsError(index[at]) = "none"
      BY <1>5, <1>6, <1>11, <2>1, <2>3 DEF LoadRows
    <2>4. QED
      BY <2>2, <2>3
  <1>12. CASE Bind
    <2>1. /\ UNCHANGED history /\ session = "opening"
          /\ k \in DOMAIN index
      BY <1>3, <1>12 DEF Bind
    <2>2. CASE BindError(index[k]) # "none"
      <3>1. Fails("open", BindError(index[k]))
        BY <1>12, <2>2 DEF Bind
      <3>2. history.rewritten
        BY <1>1, <1>2, <2>1, <2>2 DEF HistoryOK, Passes
      <3>3. QED
        BY <1>6, <2>1, <3>1, <3>2, FailsFresh
    <2>3. CASE BindError(index[k]) = "none"
      BY <1>5, <1>6, <1>12, <2>1, <2>3 DEF Bind
    <2>4. QED
      BY <2>2, <2>3
  <1>13. CASE FinishOpen
    <2>1. /\ session = "opening" /\ history' = [history EXCEPT !.opened = TRUE]
      BY <1>13 DEF FinishOpen
    <2>2. HistoryOK' /\ history'.rewritten = history.rewritten
      BY <1>1, <2>1 DEF HistoryOK
    <2>3. CASE Fails("open", "Io")
      BY <2>2, <2>3, FailsFresh DEF Unreadable
    <2>4. CASE ~ Fails("open", "Io")
      BY <1>5, <1>13, <2>1, <2>2, <2>4 DEF FinishOpen
    <2>5. QED
      BY <2>3, <2>4
  <1>14. CASE CloseIndex
    BY <1>5, <1>6, <1>14 DEF CloseIndex
  <1>15. QED
    BY <1>7, <1>8, <1>9, <1>10, <1>11, <1>12, <1>13, <1>14

\* Append goes through the segments one after the other.
LEMMA VerifyFresh ==
    ASSUME IInv, FreshInv, Create \/ StartAppend \/ VerifySegment \/ StartBuilding
    PROVE  FreshInv'
  <1>1. HistoryOK /\ CommittedOK /\ FreshGenerationOpens /\ BuilderOK /\ DraftOK
    BY DEF FreshInv
  <1>2. /\ DOMAIN index = 1 .. Len(index) /\ Len(index) \in Nat /\ at \in Nat \ {0}
        /\ session = "none" => at = 1
    BY SeqFacts DEF IInv, ShapesOK, PhasesOK, Idle
  <1>3. \A call : call = "append" => call # "open"
    OBVIOUS
  \* A builder goes on with what it has verified.
  <1>4. ASSUME UNCHANGED <<index, draft, history>>, session # "building",
               BuilderOK', outcome' = outcome \/ outcome' = Ok("append")
        PROVE  FreshInv'
    <2>1. CommittedOK' /\ HistoryOK'
      BY <1>1, <1>4 DEF CommittedOK, HistoryOK, ManifestOK
    <2>2. draft = <<>> /\ draft' = <<>>
      BY <1>1, <1>4 DEF DraftOK
    <2>3. DraftOK'
      BY <1>1, <1>4, <2>2 DEF DraftOK, ManifestOK
    <2>4. FreshGenerationOpens'
      BY <1>1, <1>4 DEF FreshGenerationOpens, Ok
    <2>5. QED
      BY <1>4, <2>1, <2>3, <2>4 DEF FreshInv
  <1>5. ASSUME NEW error, Fails("append", error), HistoryOK',
               history'.rewritten = history.rewritten
        PROVE  FreshInv'
    <2>1. QED
      BY <1>3, <1>5, FailsFresh
  <1>6. CASE Create
    <2>1. DOMAIN index = {} /\ DOMAIN index' = {}
      BY <1>6 DEF Create
    <2>2. BuilderOK'
      BY <2>1 DEF BuilderOK, ManifestOK
    <2>3. QED
      BY <1>4, <1>6, <2>2 DEF Create
  <1>7. CASE StartAppend
    <2>1. UNCHANGED history
      BY <1>7 DEF StartAppend
    <2>2. CASE \E error : Fails("append", error)
      BY <1>1, <1>5, <2>1, <2>2 DEF HistoryOK
    <2>3. CASE ~ \E error : Fails("append", error)
      <3>1. /\ ManifestOK(index) /\ session' = "verifying" /\ session = "none"
            /\ UNCHANGED <<index, draft, history, outcome, at>>
        BY <1>7, <2>3 DEF StartAppend
      <3>2. ManifestOK(index)' /\ \A i \in DOMAIN index' : ~ (i < at')
        BY <1>2, <3>1 DEF ManifestOK
      <3>3. BuilderOK'
        BY <3>1, <3>2 DEF BuilderOK
      <3>4. QED
        BY <1>4, <3>1, <3>3
    <2>4. QED
      BY <2>2, <2>3
  <1>8. CASE VerifySegment
    <2> DEFINE error == IF Missing(index[at]) THEN "Io" ELSE VerifyError(index[at])
    <2>1. session = "verifying" /\ at <= Len(index)
      BY <1>8 DEF VerifySegment
    <2>2. CASE error # "none"
      <3>1. Fails("append", error) /\ history' = [history EXCEPT !.refused = TRUE]
        BY <1>8, <2>2 DEF VerifySegment
      <3>2. HistoryOK' /\ history'.rewritten = history.rewritten
        BY <1>1, <3>1 DEF HistoryOK
      <3>3. QED
        BY <1>5, <3>1, <3>2
    <2>3. CASE error = "none"
      <3>1. /\ at' = at + 1
            /\ UNCHANGED <<index, session, draft, outcome, history>>
        BY <1>8, <2>3 DEF VerifySegment
      <3>2. Verified(index[at])
        BY <2>3 DEF Verified
      <3>3. ManifestOK(index)' /\ \A i \in DOMAIN index : i < at => Verified(index[i])
        BY <1>1, <2>1, <3>1 DEF BuilderOK, ManifestOK
      <3>4. \A i \in DOMAIN index : i < at + 1 => Verified(index[i])
        BY <1>2, <3>2, <3>3
      <3>5. BuilderOK'
        BY <2>1, <3>1, <3>3, <3>4 DEF BuilderOK, Verified
      <3>6. QED
        BY <1>4, <2>1, <3>1, <3>5
    <2>4. QED
      BY <2>2, <2>3
  <1>9. CASE StartBuilding
    <2>1. session = "verifying" /\ at > Len(index) /\ UNCHANGED history
      BY <1>9 DEF StartBuilding
    <2>2. CASE Fails("append", "Io")
      BY <1>1, <1>5, <2>1, <2>2 DEF HistoryOK
    <2>3. CASE ~ Fails("append", "Io")
      <3>1. outcome' = Ok("append") /\ UNCHANGED <<index, draft>>
        BY <1>9, <2>3 DEF StartBuilding
      <3>2. ManifestOK(index)' /\ \A i \in DOMAIN index : i < at => Verified(index[i])
        BY <1>1, <2>1, <3>1 DEF BuilderOK, ManifestOK
      <3>3. \A i \in DOMAIN index : i < at
        BY <1>2, <2>1
      <3>4. BuilderOK'
        BY <3>1, <3>2, <3>3 DEF BuilderOK, Verified
      <3>5. QED
        BY <1>4, <2>1, <3>1, <3>4
    <2>4. QED
      BY <2>2, <2>3
  <1>10. QED
    BY <1>6, <1>7, <1>8, <1>9

\* A staged segment passes, under a name of its own.
LEMMA StageFresh ==
    ASSUME IInv, FreshInv, NEW id, NEW rows, StageSegment(id, rows)
    PROVE  FreshInv'
  <1> DEFINE s == Staged(id, rows)
             n == Len(draft)
  <1>1. /\ HistoryOK /\ CommittedOK /\ FreshGenerationOpens /\ BuilderOK /\ DraftOK
        /\ ASeq(draft)
    BY DEF FreshInv, IInv, ShapesOK
  <1>2. /\ session = "building" /\ id \notin IdsOf(index) \cup IdsOf(draft)
        /\ draft' = Append(draft, s)
        /\ UNCHANGED <<index, session, at, history, outcome>>
    BY DEF StageSegment
  <1>3. Passes(s) /\ s.entry.id = id
    BY StagedPasses
  <1> HIDE DEF s
  <1>4. /\ n \in Nat /\ DOMAIN draft = 1 .. n /\ DOMAIN draft' = 1 .. n + 1
        /\ \A i \in 1 .. n : draft'[i] = draft[i]
        /\ draft'[n + 1] = s
    <2>1. ASeq(draft') /\ Len(draft') = n + 1
      BY <1>1, <1>2, AppendSeq
    <2>2. QED
      BY <1>1, <1>2, <2>1, AppendSeq, SeqFacts
  <1> HIDE DEF n
  <1>5. /\ \A i \in DOMAIN index : index[i].entry.id # id
        /\ \A i \in 1 .. n : draft[i].entry.id # id
    BY <1>2, <1>4 DEF IdsOf
  <1>6. ASSUME NEW i \in DOMAIN draft'
        PROVE  (i \in 1 .. n /\ draft'[i] = draft[i]) \/ (i = n + 1 /\ draft'[i] = s)
    BY <1>4
  <1>7. DraftOK'
    <2>1. \A i \in DOMAIN draft' : Passes(draft'[i])
      BY <1>1, <1>3, <1>4, <1>6 DEF DraftOK
    <2>2. ManifestOK(draft')
      <3>1. ASSUME NEW i \in DOMAIN draft', NEW j \in DOMAIN draft', i # j
            PROVE  draft'[i].entry.id # draft'[j].entry.id
        <4>1. ASSUME i \in 1 .. n, j \in 1 .. n
              PROVE  draft'[i].entry.id # draft'[j].entry.id
          BY <1>1, <1>4, <3>1, <4>1 DEF DraftOK, ManifestOK
        <4>2. ASSUME i \in 1 .. n, j = n + 1
              PROVE  draft'[i].entry.id # draft'[j].entry.id
          BY <1>3, <1>4, <1>5, <4>2
        <4>3. ASSUME i = n + 1, j \in 1 .. n
              PROVE  draft'[i].entry.id # draft'[j].entry.id
          BY <1>3, <1>4, <1>5, <4>3
        <4>4. QED
          BY <1>6, <3>1, <4>1, <4>2, <4>3
      <3>2. QED
        BY <3>1 DEF ManifestOK
    <2>3. ASSUME NEW i \in DOMAIN index, NEW j \in DOMAIN draft'
          PROVE  index[i].entry.id # draft'[j].entry.id
      BY <1>1, <1>3, <1>4, <1>5, <1>6 DEF DraftOK
    <2>4. QED
      BY <1>2, <2>1, <2>2, <2>3 DEF DraftOK, Passes, ManifestOK
  <1>8. CommittedOK' /\ HistoryOK' /\ BuilderOK' /\ FreshGenerationOpens'
    <2>1. CommittedOK' /\ HistoryOK'
      BY <1>1, <1>2 DEF CommittedOK, HistoryOK, ManifestOK
    <2>2. BuilderOK'
      BY <1>1, <1>2 DEF BuilderOK, ManifestOK
    <2>3. FreshGenerationOpens'
      BY <1>1, <1>2 DEF FreshGenerationOpens
    <2>4. QED
      BY <2>1, <2>2, <2>3
  <1>9. QED
    BY <1>7, <1>8 DEF FreshInv

\* A commit joins segments that were verified and segments that pass.
LEMMA CommitFresh ==
    ASSUME IInv, FreshInv, MagnitudesFinite, Commit
    PROVE  FreshInv'
  <1> DEFINE m == Len(index)
             n == Len(draft)
  <1>1. HistoryOK /\ BuilderOK /\ DraftOK /\ ASeq(index) /\ ASeq(draft)
    BY DEF FreshInv, IInv, ShapesOK
  <1>2. /\ session = "building" /\ index' = index \o draft
        /\ draft' = <<>> /\ session' = "none" /\ outcome' = Ok("commit")
        /\ history' = Unseen(FALSE)
    BY DEF Commit
  <1>3. /\ m \in Nat /\ n \in Nat /\ DOMAIN index = 1 .. m /\ DOMAIN draft = 1 .. n
        /\ DOMAIN index' = 1 .. m + n
        /\ \A i \in 1 .. m : index'[i] = index[i]
        /\ \A i \in m + 1 .. m + n : i - m \in 1 .. n /\ index'[i] = draft[i - m]
    <2>1. PICK S, T : index \in Seq(S) /\ draft \in Seq(T)
      BY <1>1 DEF ASeq
    <2>2. index \in Seq(S \cup T) /\ draft \in Seq(S \cup T)
      BY <2>1
    <2>3. QED
      BY <1>2, <2>2
  <1> HIDE DEF m, n
  <1>4. \A i \in 1 .. m : Passes(index[i])
    <2>1. ASSUME NEW i \in 1 .. m PROVE Passes(index[i])
      <3>1. Verified(index[i])
        BY <1>1, <1>2, <1>3 DEF BuilderOK
      <3>2. index[i].primary.magnitudes = "finite"
        BY <1>3, <3>1 DEF MagnitudesFinite, Verified
      <3>3. QED
        BY <3>1, <3>2, VerifiedPasses
    <2>2. QED
      BY <2>1
  <1>5. \A i \in 1 .. m + n :
           i \in 1 .. m \/ i \in m + 1 .. m + n
    BY <1>3
  <1>6. \A i \in DOMAIN index' : Passes(index'[i])
    BY <1>1, <1>3, <1>4, <1>5 DEF DraftOK
  <1>7. ManifestOK(index')
    <2>1. ASSUME NEW i \in DOMAIN index', NEW j \in DOMAIN index', i # j
          PROVE  index'[i].entry.id # index'[j].entry.id
      <3>1. ASSUME i \in 1 .. m, j \in 1 .. m
            PROVE  index'[i].entry.id # index'[j].entry.id
        BY <1>1, <1>2, <1>3, <2>1, <3>1 DEF BuilderOK, ManifestOK
      <3>2. ASSUME i \in m + 1 .. m + n, j \in m + 1 .. m + n
            PROVE  index'[i].entry.id # index'[j].entry.id
        <4>1. i - m \in DOMAIN draft /\ j - m \in DOMAIN draft /\ i - m # j - m
          BY <1>3, <2>1, <3>2
        <4>2. draft[i - m].entry.id # draft[j - m].entry.id
          BY <1>1, <4>1 DEF DraftOK, ManifestOK
        <4>3. QED
          BY <1>3, <3>2, <4>2
      <3>3. ASSUME NEW x \in 1 .. m, NEW y \in m + 1 .. m + n
            PROVE  index'[x].entry.id # index'[y].entry.id
        BY <1>1, <1>3, <3>3 DEF DraftOK
      <3>4. QED
        BY <1>3, <1>5, <3>1, <3>2, <3>3
    <2>2. QED
      BY <2>1 DEF ManifestOK
  <1>8. CommittedOK'
    BY <1>6, <1>7 DEF CommittedOK, ManifestOK, Passes
  <1>9. BuilderOK' /\ HistoryOK' /\ FreshGenerationOpens'
    BY <1>2 DEF BuilderOK, HistoryOK, Unseen, FreshGenerationOpens, Ok
  <1>10. DraftOK'
    <2>1. DOMAIN draft' = {}
      BY <1>2
    <2>2. QED
      BY <1>2, <2>1 DEF DraftOK, ManifestOK
  <1>11. QED
    BY <1>8, <1>9, <1>10 DEF FreshInv

\* An edit is remembered.
LEMMA EditFresh ==
    ASSUME FreshInv, DropBuilder \/ Edit
    PROVE  FreshInv'
  <1>1. /\ HistoryOK /\ CommittedOK /\ DraftOK /\ FreshGenerationOpens
    BY DEF FreshInv
  <1>2. session' = "none" /\ draft' = <<>>
    BY <1>1 DEF DropBuilder, Edit, DraftOK
  <1>3. BuilderOK' /\ DraftOK'
    <2>1. DOMAIN draft' = {}
      BY <1>2
    <2>2. QED
      BY <1>2, <2>1 DEF BuilderOK, DraftOK, ManifestOK
  <1>4. CASE DropBuilder
    <2>1. UNCHANGED <<index, outcome, history>>
      BY <1>4 DEF DropBuilder
    <2>2. CommittedOK' /\ HistoryOK' /\ FreshGenerationOpens'
      BY <1>1, <2>1 DEF CommittedOK, HistoryOK, FreshGenerationOpens, ManifestOK
    <2>3. QED
      BY <1>3, <2>2 DEF FreshInv
  <1>5. CASE Edit
    <2>1. history' = Unseen(TRUE)
      BY <1>5 DEF Edit
    <2>2. CommittedOK' /\ HistoryOK' /\ FreshGenerationOpens'
      BY <2>1 DEF CommittedOK, HistoryOK, FreshGenerationOpens, Unseen
    <2>3. QED
      BY <1>3, <2>2 DEF FreshInv
  <1>6. QED
    BY <1>4, <1>5

\* Every step keeps the invariant, as long as the magnitudes are finite.
LEMMA StepFresh ==
    ASSUME IInv, FreshInv, MagnitudesFinite, [Next]_vars
    PROVE  FreshInv'
  <1>1. CASE UNCHANGED vars
    BY <1>1 DEF vars, FreshInv, CommittedOK, BuilderOK, DraftOK, HistoryOK,
                FreshGenerationOpens, ManifestOK, Passes, Verified
  <1>2. CASE \E id \in Ids, rows \in RowCounts : StageSegment(id, rows)
    BY <1>2, StageFresh
  <1>3. CASE Next /\ ~ \E id \in Ids, rows \in RowCounts : StageSegment(id, rows)
    BY <1>3, OpenFresh, VerifyFresh, CommitFresh, EditFresh DEF Next
  <1>4. QED
    BY <1>1, <1>2, <1>3

-------------------------------------------------------------------------------
(* Append takes what open takes.                                               *)

\* What open has loaded and bound has passed; what it opened passes, and what
\* append refused does not verify, until the index changes.
SeenOK ==
    /\ \A i \in DOMAIN loaded : RowsError(index[i]) = "none"
    /\ \A i \in DOMAIN bound : BindError(index[i]) = "none"
    /\ history.opened => \A i \in DOMAIN index : Passes(index[i])
    /\ history.refused => \E i \in DOMAIN index : ~ Verified(index[i])

AgreeInv == SeenOK /\ HistoryOK

\* A file that was read is there.
LEMMA OpenedIsThere ==
    ASSUME NEW s, OpenError(s) = "none"
    PROVE  ~ Missing(s)
  <1>1. ReadersError(s) = "none"
    BY OpenPasses
  <1>2. ReaderError(s.primary, "Primary") = "none"
        /\ ReaderError(s.residual, "Residual") = "none"
    BY <1>1, ChecksPass DEF ReadersError
  <1>3. /\ Check(s.primary.kind # "Primary", "Corrupt") = "none"
        /\ Check(s.residual.kind # "Residual", "Corrupt") = "none"
    BY <1>2, ChecksPass DEF ReaderError
  <1>4. s.primary.kind = "Primary" /\ s.residual.kind = "Residual"
    BY <1>3 DEF Check
  <1>5. QED
    BY <1>4 DEF Missing, Absent

\* A step that leaves the index and drops what was loaded, or keeps it.
LEMMA SeenKeeps ==
    ASSUME AgreeInv, index' = index,
           \/ UNCHANGED <<loaded, bound>>
           \/ loaded' = <<>> /\ bound' = <<>>,
           HistoryOK',
           history'.opened => history.opened \/ \A i \in DOMAIN index : Passes(index[i]),
           history'.refused =>
               history.refused \/ \E i \in DOMAIN index : ~ Verified(index[i])
    PROVE  AgreeInv'
  <1>1. /\ \A i \in DOMAIN loaded' : RowsError(index'[i]) = "none"
        /\ \A i \in DOMAIN bound' : BindError(index'[i]) = "none"
    <2>1. CASE UNCHANGED <<loaded, bound>>
      BY <2>1 DEF AgreeInv, SeenOK
    <2>2. CASE loaded' = <<>> /\ bound' = <<>>
      <3>1. DOMAIN loaded' = {} /\ DOMAIN bound' = {}
        BY <2>2
      <3>2. QED
        BY <3>1
    <2>3. QED
      BY <2>1, <2>2
  <1>2. /\ history'.opened => \A i \in DOMAIN index' : Passes(index'[i])
        /\ history'.refused => \E i \in DOMAIN index' : ~ Verified(index'[i])
    BY DEF AgreeInv, SeenOK
  <1>3. SeenOK'
    BY <1>1, <1>2 DEF SeenOK, RowsError, BindError, Passes, Verified
  <1>4. QED
    BY <1>3 DEF AgreeInv

\* A step that writes nothing down.
LEMMA QuietKeeps ==
    ASSUME AgreeInv, UNCHANGED <<index, history>>,
           \/ UNCHANGED <<loaded, bound>>
           \/ loaded' = <<>> /\ bound' = <<>>
    PROVE  AgreeInv'
  <1>1. HistoryOK'
    BY DEF AgreeInv, HistoryOK
  <1>2. QED
    BY <1>1, SeenKeeps

\* What open goes on with has passed one more check.
LEMMA LoadAgrees ==
    ASSUME IInv, AgreeInv, LoadRows \/ Bind
    PROVE  AgreeInv'
  <1>1. /\ ASeq(loaded) /\ ASeq(bound) /\ HistoryOK
        /\ Len(loaded) \in Nat /\ Len(bound) \in Nat /\ at \in Nat
        /\ session = "opening" => Len(loaded) = at - 1
    BY SeqFacts DEF IInv, ShapesOK, PhasesOK, Opening, AgreeInv
  <1>2. /\ history.opened => \A i \in DOMAIN index : Passes(index[i])
        /\ history.refused => \E i \in DOMAIN index : ~ Verified(index[i])
        /\ \A i \in DOMAIN loaded : RowsError(index[i]) = "none"
        /\ \A i \in DOMAIN bound : BindError(index[i]) = "none"
    BY DEF AgreeInv, SeenOK
  <1>3. CASE LoadRows
    <2>1. session = "opening" /\ UNCHANGED history
      BY <1>3 DEF LoadRows
    <2>2. CASE RowsError(index[at]) # "none"
      BY <1>3, <2>1, <2>2, QuietKeeps DEF LoadRows, Fails
    <2>3. CASE RowsError(index[at]) = "none"
      <3>1. loaded' = Append(loaded, Loaded(at)) /\ UNCHANGED <<index, bound>>
        BY <1>3, <2>3 DEF LoadRows
      <3>2. DOMAIN loaded' = 1 .. at /\ DOMAIN loaded = 1 .. at - 1
        <4>1. ASeq(loaded') /\ Len(loaded') = at
          BY <1>1, <2>1, <3>1, AppendSeq
        <4>2. QED
          BY <1>1, <2>1, <4>1, SeqFacts
      <3>3. \A i \in DOMAIN loaded' : RowsError(index'[i]) = "none"
        BY <1>1, <1>2, <2>3, <3>1, <3>2
      <3>4. /\ \A i \in DOMAIN bound' : BindError(index'[i]) = "none"
            /\ history'.opened => \A i \in DOMAIN index' : Passes(index'[i])
            /\ history'.refused => \E i \in DOMAIN index' : ~ Verified(index'[i])
        BY <1>2, <2>1, <3>1
      <3>5. SeenOK'
        BY <3>3, <3>4 DEF SeenOK, RowsError, BindError, Passes, Verified
      <3>6. QED
        BY <1>1, <2>1, <3>5 DEF AgreeInv, HistoryOK
    <2>4. QED
      BY <2>2, <2>3
  <1>4. CASE Bind
    <2> DEFINE k == Len(bound) + 1
    <2>1. session = "opening" /\ UNCHANGED history
      BY <1>4 DEF Bind
    <2>2. CASE BindError(index[k]) # "none"
      BY <1>4, <2>1, <2>2, QuietKeeps DEF Bind, Fails
    <2>3. CASE BindError(index[k]) = "none"
      <3>1. bound' = Append(bound, Bound(k)) /\ UNCHANGED <<index, loaded>>
        BY <1>4, <2>3 DEF Bind
      <3>2. DOMAIN bound' = 1 .. k /\ DOMAIN bound = 1 .. k - 1
        <4>1. ASeq(bound') /\ Len(bound') = k
          BY <1>1, <3>1, AppendSeq
        <4>2. QED
          BY <1>1, <4>1, SeqFacts
      <3>3. \A i \in DOMAIN bound' : BindError(index'[i]) = "none"
        BY <1>1, <1>2, <2>3, <3>1, <3>2
      <3>4. /\ \A i \in DOMAIN loaded' : RowsError(index'[i]) = "none"
            /\ history'.opened => \A i \in DOMAIN index' : Passes(index'[i])
            /\ history'.refused => \E i \in DOMAIN index' : ~ Verified(index'[i])
        BY <1>2, <2>1, <3>1
      <3>5. SeenOK'
        BY <3>3, <3>4 DEF SeenOK, RowsError, BindError, Passes, Verified
      <3>6. QED
        BY <1>1, <2>1, <3>5 DEF AgreeInv, HistoryOK
    <2>4. QED
      BY <2>2, <2>3
  <1>5. QED
    BY <1>3, <1>4

\* Every segment of an index that opens has passed.
LEMMA FinishAgrees ==
    ASSUME IInv, AgreeInv, FinishOpen
    PROVE  AgreeInv'
  <1>1. /\ session = "opening" /\ at > Len(index) /\ Len(bound) = Len(index)
        /\ history' = [history EXCEPT !.opened = TRUE] /\ index' = index
        /\ \/ UNCHANGED <<loaded, bound>>
           \/ loaded' = <<>> /\ bound' = <<>>
    BY DEF FinishOpen, Fails
  <1>2. HistoryOK' /\ history'.refused = history.refused
    BY <1>1 DEF AgreeInv, HistoryOK
  <1>3. /\ DOMAIN index = 1 .. Len(index) /\ DOMAIN bound = 1 .. Len(bound)
        /\ DOMAIN loaded = 1 .. Len(loaded)
        /\ Len(bound) <= Len(loaded) /\ Len(bound) \in Nat /\ Len(loaded) \in Nat
    BY <1>1, SeqFacts DEF IInv, ShapesOK, PhasesOK, Opening
  <1>4. ASSUME NEW i \in DOMAIN index
        PROVE  Passes(index[i])
    <2>1. i \in DOMAIN bound /\ i \in DOMAIN loaded
      BY <1>1, <1>3
    <2>2. RowsError(index[i]) = "none" /\ BindError(index[i]) = "none"
      BY <2>1 DEF AgreeInv, SeenOK
    <2>3. OpenError(index[i]) = "none"
      BY <1>3, <2>1 DEF IInv, LoadedOK
    <2>4. QED
      BY <2>2, <2>3, OpenedIsThere DEF Passes
  <1>5. QED
    BY <1>1, <1>2, <1>4, SeenKeeps

\* A new index has been neither opened nor refused.
LEMMA UnseenAgrees ==
    ASSUME NEW rewritten \in BOOLEAN, history' = Unseen(rewritten),
           loaded' = <<>>, bound' = <<>>
    PROVE  AgreeInv'
  <1>1. DOMAIN loaded' = {} /\ DOMAIN bound' = {}
    OBVIOUS
  <1>2. history'.opened = FALSE /\ history'.refused = FALSE /\ HistoryOK'
    BY DEF Unseen, HistoryOK
  <1>3. QED
    BY <1>1, <1>2 DEF AgreeInv, SeenOK

\* Every step keeps what was seen.
LEMMA StepAgrees ==
    ASSUME IInv, AgreeInv, [Next]_vars
    PROVE  AgreeInv'
  <1>1. CASE \/ OpenRefused \/ StartOpen \/ OpenFiles \/ CheckFiles \/ CloseIndex
             \/ Create \/ StartAppend \/ StartBuilding \/ DropBuilder
             \/ \E id \in Ids, rows \in RowCounts : StageSegment(id, rows)
             \/ UNCHANGED vars
    <2>1. /\ UNCHANGED <<index, history>>
          /\ \/ UNCHANGED <<loaded, bound>>
             \/ loaded' = <<>> /\ bound' = <<>>
      BY <1>1 DEF OpenRefused, StartOpen, OpenFiles, CheckFiles, CloseIndex, Create,
                  StartAppend, StartBuilding, DropBuilder, StageSegment, Fails, vars
    <2>2. QED
      BY <2>1, QuietKeeps
  <1>2. CASE VerifySegment
    <2> DEFINE error == IF Missing(index[at]) THEN "Io" ELSE VerifyError(index[at])
    <2>1. session = "verifying" /\ at \in DOMAIN index
      BY <1>2, SeqFacts DEF VerifySegment, IInv, ShapesOK
    <2>2. CASE error # "none"
      <3>1. /\ index' = index /\ loaded' = <<>> /\ bound' = <<>>
            /\ history' = [history EXCEPT !.refused = TRUE]
        BY <1>2, <2>2 DEF VerifySegment, Fails
      <3>2. HistoryOK' /\ history'.opened = history.opened
        BY <3>1 DEF AgreeInv, HistoryOK
      <3>3. ~ Verified(index[at])
        BY <2>2 DEF Verified
      <3>4. QED
        BY <2>1, <3>1, <3>2, <3>3, SeenKeeps
    <2>3. CASE error = "none"
      BY <1>2, <2>3, QuietKeeps DEF VerifySegment
    <2>4. QED
      BY <2>2, <2>3
  <1>3. CASE Commit \/ Edit
    <2>1. loaded = <<>> /\ bound = <<>>
      BY <1>3 DEF Commit, Edit, IInv, PhasesOK, Idle
    <2>2. QED
      BY <1>3, <2>1, UnseenAgrees DEF Commit, Edit
  <1>4. QED
    BY <1>1, <1>2, <1>3, LoadAgrees, FinishAgrees DEF Next

\* Nothing was seen at first.
LEMMA AgreeInit == Init => AgreeInv
  <1> SUFFICES ASSUME Init PROVE AgreeInv
    OBVIOUS
  <1>1. DOMAIN loaded = {} /\ DOMAIN bound = {}
    BY DEF Init
  <1>2. history.opened = FALSE /\ history.refused = FALSE /\ HistoryOK
    BY DEF Init, Unseen, HistoryOK
  <1>3. QED
    BY <1>1, <1>2 DEF AgreeInv, SeenOK

-------------------------------------------------------------------------------
(* The length of a segment file.                                               *)

LEMMA InRange ==
    ASSUME NEW n \in Nat, NEW r \in 1 .. n
    PROVE  r \in Nat /\ r <= n
  BY SMT

LEMMA SegmentRowsNatural == SegmentRows \in Nat
  BY SMT DEF SegmentRows

LEMMA MostRows == SegmentRows = 65536
  BY SMT DEF SegmentRows

LEMMA RowsBounded ==
    ASSUME NEW rows \in Nat, rows <= SegmentRows
    PROVE  rows <= 65536
  BY MostRows, SMT

LEMMA LargestFile == MaxFile = 41943040
  BY SMT DEF MaxFile

\* A file of as many rows as a segment may have is no longer than append reads.
LEMMA EncodeFits ==
    ASSUME NEW rows \in Nat, rows <= SegmentRows
    PROVE  /\ Encode("Primary", rows, "model").len \in Nat
           /\ Encode("Primary", rows, "model").len <= MaxFile
           /\ Encode("Residual", rows, "model").len \in Nat
           /\ Encode("Residual", rows, "model").len <= MaxFile
  <1> DEFINE l(i) == LengthOf("Primary", rows, i)
             r(i) == LengthOf("Residual", rows, i)
  <1>1. rows \in Nat /\ rows <= 65536 /\ MaxFile = 41943040
    BY RowsBounded, LargestFile, SMT
  <1>2. /\ l(1) \in Nat /\ l(1) <= 2621440 /\ l(2) \in Nat /\ l(2) <= 262144
        /\ l(3) \in Nat /\ l(3) <= 25165824 /\ l(4) \in Nat /\ l(4) = 49152
        /\ l(5) \in Nat /\ l(5) = 40 /\ l(6) \in Nat /\ l(6) = 40
    <2>1. CeilDiv(rows, 32) \in Nat /\ CeilDiv(rows, 32) <= 2048
      BY <1>1 DEF CeilDiv
    <2>2. l(3) = CeilDiv(rows, 32) * 12288
      BY <1>1, PrimaryLengths
    <2>3. l(3) \in Nat /\ l(3) <= 25165824
      BY <2>1, <2>2, SMT
    <2>4. QED
      BY <1>1, <2>3, PrimaryLengths, SMT
  <1>3. /\ r(1) \in Nat /\ r(1) <= 6291456 /\ r(2) \in Nat /\ r(2) = 786432
    BY <1>1, ResidualLengths, SMT
  <1>4. /\ l(7) = CrcTableLen(l(1)) /\ l(8) = CrcTableLen(l(2)) /\ l(9) = CrcTableLen(l(3))
        /\ l(10) = CrcTableLen(l(4)) /\ l(11) = CrcTableLen(l(5)) /\ l(12) = CrcTableLen(l(6))
    BY <1>1, PrimaryLengths
  <1>5. r(3) = CrcTableLen(r(1)) /\ r(4) = CrcTableLen(r(2))
    BY <1>1, ResidualLengths
  <1>6. Len(DataSections("Primary")) = 6 /\ Len(DataSections("Residual")) = 2
    BY <1>1, PrimaryLengths, ResidualLengths
  <1> HIDE DEF l, r
  <1>7. /\ \A i \in 7 .. 12 : l(i) \in Nat
        /\ l(7) <= 2600 /\ l(8) <= 300 /\ l(9) <= 24600
        /\ l(10) <= 100 /\ l(11) <= 4 /\ l(12) <= 4
    <2>1. /\ l(7) \in Nat /\ 1024 * l(7) <= l(1) + 4095
          /\ l(8) \in Nat /\ 1024 * l(8) <= l(2) + 4095
          /\ l(9) \in Nat /\ 1024 * l(9) <= l(3) + 4095
          /\ l(10) \in Nat /\ 1024 * l(10) <= l(4) + 4095
          /\ l(11) \in Nat /\ 1024 * l(11) <= l(5) + 4095
          /\ l(12) \in Nat /\ 1024 * l(12) <= l(6) + 4095
      BY <1>2, <1>4, CrcTableBounds
    <2>2. QED
      BY <1>2, <2>1, SMT
  <1>8. r(3) \in Nat /\ r(3) <= 6200 /\ r(4) \in Nat /\ r(4) <= 800
    <2>1. /\ r(3) \in Nat /\ 1024 * r(3) <= r(1) + 4095
          /\ r(4) \in Nat /\ 1024 * r(4) <= r(2) + 4095
      BY <1>3, <1>5, CrcTableBounds
    <2>2. QED
      BY <1>3, <2>1, SMT
  <1>9. /\ Encode("Primary", rows, "model").len \in Nat
        /\ Encode("Primary", rows, "model").len <= MaxFile
    <2>1. \A i \in 1 .. 12 : LengthOf("Primary", rows, i) \in Nat
      <3>1. \A i \in 1 .. 12 : l(i) \in Nat
        BY <1>2, <1>7
      <3>2. QED
        BY <3>1 DEF l
    <2>2. PICK f : LaidOut(f, "Primary", rows, 12)
      <3>1. 6 \in Nat \ {0} /\ 12 \in Nat /\ 12 = 2 * 6
        OBVIOUS
      <3>2. QED
        BY <1>6, <2>1, <3>1, Layout, Zenon
    <2>3. /\ f \in [1 .. 12 -> Nat]
          /\ Encode("Primary", rows, "model").len = f[12] + l(12)
          /\ f[1] <= 240 + 72 * 12 + 63
          /\ \A i \in 2 .. 12 : f[i] <= f[i - 1] + l(i - 1) + 63
      <3>1. Encode("Primary", rows, "model") = FileAt(f, "Primary", rows, "model")
        BY <2>2 DEF LaidOut
      <3>2. 2 * Len(DataSections("Primary")) = 12
        <4>1. 2 * 6 = 12
          OBVIOUS
        <4>2. QED
          BY <1>6, <4>1, Zenon
      <3>3. FileAt(f, "Primary", rows, "model").len = f[12] + l(12)
        <4>1. FileAt(f, "Primary", rows, "model").len
                 = f[2 * Len(DataSections("Primary"))]
                   + LengthOf("Primary", rows, 2 * Len(DataSections("Primary")))
          BY DEF FileAt
        <4>2. QED
          BY <3>2, <4>1, Zenon DEF l
      <3>4. QED
        BY <2>2, <3>1, <3>3 DEF LaidOut, l
    <2>4. /\ f[1] <= 1167 /\ f[2] <= f[1] + l(1) + 63 /\ f[3] <= f[2] + l(2) + 63
          /\ f[4] <= f[3] + l(3) + 63 /\ f[5] <= f[4] + l(4) + 63
          /\ f[6] <= f[5] + l(5) + 63 /\ f[7] <= f[6] + l(6) + 63
          /\ f[8] <= f[7] + l(7) + 63 /\ f[9] <= f[8] + l(8) + 63
          /\ f[10] <= f[9] + l(9) + 63 /\ f[11] <= f[10] + l(10) + 63
          /\ f[12] <= f[11] + l(11) + 63
      BY <2>3
    <2>5. \A i \in 1 .. 12 : f[i] \in Nat
      BY <2>3
    <2>6. f[12] + l(12) \in Nat /\ f[12] + l(12) <= 41943040
      BY <1>2, <1>7, <2>4, <2>5, SMT
    <2>7. QED
      BY <1>1, <2>3, <2>6, SMT
  <1>10. /\ Encode("Residual", rows, "model").len \in Nat
        /\ Encode("Residual", rows, "model").len <= MaxFile
    <2>1. \A i \in 1 .. 4 : LengthOf("Residual", rows, i) \in Nat
      <3>1. \A i \in 1 .. 4 : r(i) \in Nat
        BY <1>3, <1>8
      <3>2. QED
        BY <3>1 DEF r
    <2>2. PICK f : LaidOut(f, "Residual", rows, 4)
      <3>1. 2 \in Nat \ {0} /\ 4 \in Nat /\ 4 = 2 * 2
        OBVIOUS
      <3>2. QED
        BY <1>6, <2>1, <3>1, Layout, Zenon
    <2>3. /\ f \in [1 .. 4 -> Nat]
          /\ Encode("Residual", rows, "model").len = f[4] + r(4)
          /\ f[1] <= 240 + 72 * 4 + 63
          /\ \A i \in 2 .. 4 : f[i] <= f[i - 1] + r(i - 1) + 63
      <3>1. Encode("Residual", rows, "model") = FileAt(f, "Residual", rows, "model")
        BY <2>2 DEF LaidOut
      <3>2. 2 * Len(DataSections("Residual")) = 4
        <4>1. 2 * 2 = 4
          OBVIOUS
        <4>2. QED
          BY <1>6, <4>1, Zenon
      <3>3. FileAt(f, "Residual", rows, "model").len = f[4] + r(4)
        <4>1. FileAt(f, "Residual", rows, "model").len
                 = f[2 * Len(DataSections("Residual"))]
                   + LengthOf("Residual", rows, 2 * Len(DataSections("Residual")))
          BY DEF FileAt
        <4>2. QED
          BY <3>2, <4>1, Zenon DEF r
      <3>4. QED
        BY <2>2, <3>1, <3>3 DEF LaidOut, r
    <2>4. /\ f[1] <= 591 /\ f[2] <= f[1] + r(1) + 63 /\ f[3] <= f[2] + r(2) + 63
          /\ f[4] <= f[3] + r(3) + 63
      BY <2>3
    <2>5. \A i \in 1 .. 4 : f[i] \in Nat
      BY <2>3
    <2>6. f[4] + r(4) \in Nat /\ f[4] + r(4) <= 41943040
      BY <1>3, <1>8, <2>4, <2>5, SMT
    <2>7. QED
      BY <1>1, <2>3, <2>6, SMT
  <1>11. QED
    BY <1>9, <1>10

-------------------------------------------------------------------------------
(* Sizes, and the theorems about append.                                       *)

\* A file that its reader takes is no longer than append reads.
Fits(file) == file # Absent /\ file.whole => file.len \in 0 .. MaxFile

FilesFit(s) == Fits(s.primary) /\ Fits(s.residual)

\* The files of an index and of a draft.
FilesFitInv ==
    /\ \A i \in DOMAIN index : FilesFit(index[i])
    /\ \A i \in DOMAIN draft : FilesFit(draft[i])

\* An edit makes no file too large: what others put in place of files that are
\* within the bound is within it, too.
EditsFit ==
    \A segments : \A i \in DOMAIN segments :
        (\A j \in DOMAIN segments : FilesFit(segments[j]))
        => \A s \in Edits(segments, i) : FilesFit(s)

\* Neither file of a staged segment is too large.
LEMMA StagedFits ==
    ASSUME NEW id, NEW rows \in RowCounts
    PROVE  FilesFit(Staged(id, rows))
  <1>1. rows \in Nat /\ rows <= SegmentRows
    <2>1. rows \in 1 .. SegmentRows
      BY OpenAssumption, Zenon
    <2>2. QED
      BY <2>1, SegmentRowsNatural, InRange, Zenon
  <1>2. /\ Encode("Primary", rows, "model").len \in 0 .. MaxFile
        /\ Encode("Residual", rows, "model").len \in 0 .. MaxFile
    <2>1. MaxFile \in Nat
      BY SMT DEF MaxFile
    <2>2. QED
      BY <1>1, <2>1, EncodeFits, SMT
  <1>3. /\ FileLen["Primary"][rows] = Encode("Primary", rows, "model").len
        /\ FileLen["Residual"][rows] = Encode("Residual", rows, "model").len
    BY DEF FileLen, FileKinds
  <1>4. /\ Staged(id, rows).primary.len = FileLen["Primary"][rows]
        /\ Staged(id, rows).residual.len = FileLen["Residual"][rows]
    BY DEF Staged, File
  <1>5. QED
    BY <1>2, <1>3, <1>4 DEF FilesFit, Fits

\* There is no file at first.
LEMMA FitInit == Init => FilesFitInv
  <1> SUFFICES ASSUME Init PROVE FilesFitInv
    OBVIOUS
  <1>1. DOMAIN index = {} /\ DOMAIN draft = {}
    BY DEF Init
  <1>2. QED
    BY <1>1 DEF FilesFitInv

\* Every step keeps the files within the bound.
LEMMA FitStep ==
    ASSUME EditsFit, IInv, FilesFitInv, [Next]_vars
    PROVE  FilesFitInv'
  <1>1. /\ ASeq(index) /\ ASeq(draft)
        /\ \A i \in DOMAIN index : FilesFit(index[i])
        /\ \A i \in DOMAIN draft : FilesFit(draft[i])
    BY DEF IInv, ShapesOK, FilesFitInv
  <1>2. ASSUME \A i \in DOMAIN index' : FilesFit(index'[i]),
               \A i \in DOMAIN draft' : FilesFit(draft'[i])
        PROVE  FilesFitInv'
    BY <1>2 DEF FilesFitInv, FilesFit, Fits
  <1>3. ASSUME index' = index, draft' = draft \/ draft' = <<>>
        PROVE  FilesFitInv'
    <2>1. DOMAIN <<>> = {}
      OBVIOUS
    <2>2. QED
      BY <1>1, <1>2, <1>3, <2>1
  <1>4. CASE \/ OpenRefused \/ StartOpen \/ OpenFiles \/ CheckFiles \/ LoadRows
             \/ Bind \/ FinishOpen \/ CloseIndex
             \/ Create \/ StartAppend \/ VerifySegment \/ StartBuilding \/ DropBuilder
             \/ UNCHANGED vars
    <2>1. index' = index /\ (draft' = draft \/ draft' = <<>>)
      BY <1>4 DEF OpenRefused, StartOpen, OpenFiles, CheckFiles, LoadRows, Bind,
                  FinishOpen, CloseIndex, Create, StartAppend, VerifySegment,
                  StartBuilding, DropBuilder, Fails, vars
    <2>2. QED
      BY <1>3, <2>1
  <1>5. ASSUME NEW id \in Ids, NEW rows \in RowCounts, StageSegment(id, rows)
        PROVE  FilesFitInv'
    <2>1. index' = index /\ draft' = Append(draft, Staged(id, rows))
      BY <1>5 DEF StageSegment
    <2>2. FilesFit(Staged(id, rows))
      BY StagedFits
    <2>3. /\ DOMAIN draft' = 1 .. Len(draft) + 1 /\ DOMAIN draft = 1 .. Len(draft)
          /\ Len(draft) \in Nat
      <3>1. ASeq(draft') /\ Len(draft') = Len(draft) + 1
        BY <1>1, <2>1, AppendSeq
      <3>2. QED
        BY <1>1, <3>1, SeqFacts
    <2>4. ASSUME NEW i \in DOMAIN draft' PROVE FilesFit(draft'[i])
      <3>1. CASE i = Len(draft) + 1
        BY <1>1, <2>1, <2>2, <3>1, AppendSeq
      <3>2. CASE i # Len(draft) + 1
        <4>1. i \in 1 .. Len(draft)
          BY <2>3, <3>2
        <4>2. QED
          BY <1>1, <2>1, <2>3, <4>1, AppendSeq
      <3>3. QED
        BY <3>1, <3>2
    <2>5. QED
      BY <1>1, <1>2, <2>1, <2>4
  <1>6. CASE Commit
    <2>1. index' = index \o draft /\ draft' = <<>>
      BY <1>6 DEF Commit
    <2>2. ASSUME NEW i \in DOMAIN index' PROVE FilesFit(index'[i])
      <3>1. PICK S, T : index \in Seq(S) /\ draft \in Seq(T)
        BY <1>1 DEF ASeq
      <3>2. index \in Seq(S \cup T) /\ draft \in Seq(S \cup T)
        BY <3>1
      <3>3. \/ i \in DOMAIN index /\ index'[i] = index[i]
            \/ i - Len(index) \in DOMAIN draft /\ index'[i] = draft[i - Len(index)]
        BY <2>1, <3>2
      <3>4. QED
        BY <1>1, <3>3
    <2>3. DOMAIN draft' = {}
      BY <2>1
    <2>4. QED
      BY <1>2, <2>2, <2>3
  <1>7. CASE Edit
    <2>1. PICK i \in DOMAIN index :
             /\ \E s \in Edits(index, i) : index' = [index EXCEPT ![i] = s]
             /\ draft' = draft
      BY <1>7 DEF Edit
    <2>2. PICK s \in Edits(index, i) : index' = [index EXCEPT ![i] = s]
      BY <2>1
    <2>3. FilesFit(s)
      BY <1>1, <2>1, <2>2 DEF EditsFit
    <2>4. \A j \in DOMAIN index' : FilesFit(index'[j])
      BY <1>1, <2>2, <2>3
    <2>5. QED
      BY <1>1, <1>2, <2>1, <2>4
  <1>8. QED
    BY <1>4, <1>5, <1>6, <1>7 DEF Next

\* Files that fit are small enough for append.
LEMMA FitsReads ==
    ASSUME NEW s, Passes(s), FilesFit(s)
    PROVE  SizeError(s) = "none"
  <1>1. ~ Missing(s) /\ ReadersError(s) = "none"
    BY OpenPasses DEF Passes
  <1>2. /\ ReaderError(s.primary, "Primary") = "none"
        /\ ReaderError(s.residual, "Residual") = "none"
    BY <1>1, ChecksPass DEF ReadersError
  <1>3. /\ Check(~ s.primary.whole, "Corrupt") = "none"
        /\ Check(~ s.residual.whole, "Corrupt") = "none"
    BY <1>2, ChecksPass DEF ReaderError
  <1>4. s.primary.whole /\ s.residual.whole
    BY <1>3 DEF Check
  <1>5. s.primary.len \in 0 .. MaxFile /\ s.residual.len \in 0 .. MaxFile
    BY <1>1, <1>4 DEF FilesFit, Fits, Missing
  <1>6. ~ (s.primary.len > MaxFile) /\ ~ (s.residual.len > MaxFile)
    <2>1. MaxFile \in Nat
      BY DEF MaxFile
    <2>2. QED
      BY <1>5, <2>1
  <1>7. QED
    BY <1>6 DEF SizeError, Check

\* An index that opened has no segment that append refuses.
LEMMA SeenAgree ==
    ASSUME AgreeInv, FilesFitInv
    PROVE  AppendsWhatOpens
  <1> SUFFICES ASSUME history.opened, history.refused
               PROVE  FALSE
    BY DEF AppendsWhatOpens
  <1>1. PICK i \in DOMAIN index : ~ Verified(index[i])
    BY DEF AgreeInv, SeenOK
  <1>2. Passes(index[i])
    BY DEF AgreeInv, SeenOK
  <1>3. SizeError(index[i]) = "none"
    BY <1>2, FitsReads DEF FilesFitInv
  <1>4. QED
    BY <1>1, <1>2, <1>3, PassesVerified

-------------------------------------------------------------------------------
(* The theorems about fresh generations.                                       *)

\* What open finds corrupt was rewritten after the last commit: appending never
\* turns committed corruption into a fresh generation (builder.rs:172), whatever
\* the files were rewritten to in between, as long as no magnitude was; append
\* does not look at those, and the run append_magnitudes shows what follows.
THEOREM CorruptionStaysVisible ==
    Spec /\ []MagnitudesFinite => []FreshGenerationOpens
  <1>1. Init => FreshInv
    BY FreshInit
  <1>2. IInv /\ FreshInv /\ MagnitudesFinite /\ [Next]_vars => FreshInv'
    BY StepFresh
  <1>3. FreshInv => FreshGenerationOpens
    BY DEF FreshInv
  <1>4. QED
    BY <1>1, <1>2, <1>3, Inductive, PTL DEF Spec

\* Neither the bound on the size of a file nor the checks of append stand in the
\* way of an index that opens: a segment of any number of rows that a builder
\* stages is within the bound (builder.rs:434), and append asks nothing else that
\* open does not.  EditsFit is about files that others write: no reader bounds the
\* gaps between sections, so that one padded beyond the bound opens.
THEOREM AppendTakesWhatOpens ==
    ASSUME EditsFit
    PROVE  Spec => []AppendsWhatOpens
  <1>1. Init => AgreeInv /\ FilesFitInv
    BY AgreeInit, FitInit
  <1>2. IInv /\ AgreeInv /\ FilesFitInv /\ [Next]_vars => AgreeInv' /\ FilesFitInv'
    BY StepAgrees, FitStep
  <1>3. AgreeInv /\ FilesFitInv => AppendsWhatOpens
    BY SeenAgree
  <1>4. QED
    BY <1>1, <1>2, <1>3, Inductive, PTL DEF Spec
===============================================================================
