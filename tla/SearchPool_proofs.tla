-------------------------- MODULE SearchPool_proofs --------------------------
(***************************************************************************)
(* Proofs about the pool, for every number of callers, workers and         *)
(* segments, every query and every number of panics: a search that returns *)
(* leaves no work behind, one that lost a job fails and leaves the others  *)
(* alone, and one that succeeds returns the exact ranking of the best rows *)
(* of the whole index, as many as its budget says.                         *)
(*                                                                         *)
(* The first part is about the jobs and where they are.  The second is     *)
(* about the operators of a search: the folds behind sums, scans and       *)
(* merges, the partition of the rows into tiles, sorting, and the bounded  *)
(* heap.  The third is about the states of a search: every eligible row of *)
(* a call is in one place at most, and a best row is in one.               *)
(***************************************************************************)
EXTENDS SearchPool, TLAPS, FiniteSetTheorems, WellFoundedInduction

-----------------------------------------------------------------------------
(* The jobs of one call: where they wait, and who runs one. *)

Matching(q, c, n) == {i \in DOMAIN q : q[i].caller = c /\ q[i].call = n}

RunningFor(f, c, n) ==
    {w \in Workers : f[w].pc = "running" /\ f[w].job.caller = c
                                         /\ f[w].job.call = n}

Load(q, f, c, n) == Cardinality(Matching(q, c, n)) + Cardinality(RunningFor(f, c, n))

DeadOnes(f) == {w \in Workers : f[w].pc = "dead"}

\* What c's current call still has to receive.
Pending(c) == Len(inbox[c]) + Load(queue, worker, c, caller[c].call)

-----------------------------------------------------------------------------
(* The inductive invariant. *)

Fields == {"pc", "call", "query", "begin", "waiting", "heap", "lost", "answer"}

ASeq(s) == \E S : s \in Seq(S)

ShapesOK ==
    /\ pool \in {"opening", "open", "closing", "closed"}
    /\ ASeq(queue)
    /\ DOMAIN worker = Workers
    /\ \A w \in Workers : worker[w].pc \in {"unspawned", "idle", "running", "dead"}
    /\ DOMAIN inbox = Callers
    /\ \A c \in Callers : ASeq(inbox[c])
    /\ panics \in Nat

CallerOK(record) ==
    /\ DOMAIN record = Fields
    /\ record.pc \in {"idle", "submit", "collect"}
    /\ record.call \in Nat /\ record.waiting \in Nat
    /\ record.lost \in BOOLEAN

CallersOK ==
    /\ DOMAIN caller = Callers
    /\ \A c \in Callers : CallerOK(caller[c])

JobsOK ==
    /\ \A i \in DOMAIN queue : queue[i].caller \in Callers
    /\ \A w \in Workers : worker[w].pc = "running" => worker[w].job.caller \in Callers

\* A search holds the pool open; between searches nothing is kept.
SearchesInside ==
    \A c \in Callers :
       IF caller[c].pc = "idle" THEN caller[c].waiting = 0 /\ inbox[c] = <<>>
                                ELSE pool = "open"

\* Until the pool closes every dead worker has panicked, and the queue does
\* not outlive the last of them.
PoolSound ==
    /\ pool = "open" => \A w \in Workers : worker[w].pc # "unspawned"
    /\ pool \in {"opening", "open"} => panics = Cardinality(DeadOnes(worker))
    /\ panics <= Cardinality(DeadOnes(worker))
    /\ ReceiverGone => queue = <<>>

\* A call waits for exactly the replies that are there or under way, and for
\* more if a job of it was lost.
CountsRight ==
    \A c \in Callers :
       /\ Pending(c) <= caller[c].waiting
       /\ ~ caller[c].lost => caller[c].waiting <= Pending(c)
       /\ caller[c].pc # "idle" /\ caller[c].lost => Pending(c) < caller[c].waiting

\* What CorruptForCause says of a caller, with this many panics.
Caused(record, count) ==
    /\ record.pc = "idle" /\ record.lost => record.answer.status = "Corrupt"
    /\ record.answer.status = "Corrupt" =>
          record.lost \/ count = Cardinality(Workers) \/ ~ record.query.prepares

IInv ==
    /\ ShapesOK /\ CallersOK /\ JobsOK /\ SearchesInside /\ PoolSound
    /\ CountsRight /\ NoWorkAfterAnswer /\ CorruptForCause

-----------------------------------------------------------------------------
(* Sequences and counts. *)

LEMMA AppendSeq ==
    ASSUME NEW s, ASeq(s), NEW x
    PROVE  /\ ASeq(Append(s, x))
           /\ Len(s) \in Nat /\ Len(Append(s, x)) = Len(s) + 1
           /\ DOMAIN s = 1..Len(s) /\ DOMAIN Append(s, x) = 1..(Len(s) + 1)
           /\ \A i \in 1..Len(s) : Append(s, x)[i] = s[i]
           /\ Append(s, x)[Len(s) + 1] = x
  <1>1. PICK S : s \in Seq(S)
    BY DEF ASeq
  <1>2. s \in Seq(S \cup {x}) /\ x \in S \cup {x}
    BY <1>1
  <1>3. Append(s, x) \in Seq(S \cup {x})
    BY <1>2
  <1>4. QED
    BY <1>2, <1>3 DEF ASeq

LEMMA TailSeq ==
    ASSUME NEW s, ASeq(s), s # <<>>
    PROVE  /\ ASeq(Tail(s))
           /\ Len(s) \in Nat \ {0} /\ Len(Tail(s)) = Len(s) - 1
           /\ DOMAIN s = 1..Len(s) /\ DOMAIN Tail(s) = 1..(Len(s) - 1)
           /\ \A i \in 1..(Len(s) - 1) : Tail(s)[i] = s[i + 1]
           /\ Head(s) = s[1]
  <1>1. PICK S : s \in Seq(S)
    BY DEF ASeq
  <1>2. Tail(s) \in Seq(S)
    BY <1>1
  <1>3. QED
    BY <1>1, <1>2 DEF ASeq

LEMMA MatchFinite ==
    ASSUME NEW s, ASeq(s), NEW c, NEW n
    PROVE  IsFiniteSet(Matching(s, c, n)) /\ Cardinality(Matching(s, c, n)) \in Nat
  <1>1. DOMAIN s = 1..Len(s) /\ Len(s) \in Nat
    BY DEF ASeq
  <1>2. IsFiniteSet(1..Len(s))
    BY <1>1, FS_Interval
  <1>3. Matching(s, c, n) \subseteq 1..Len(s)
    BY <1>1 DEF Matching
  <1>4. QED
    BY <1>2, <1>3, FS_Subset, FS_CardinalityType

LEMMA MatchAppend ==
    ASSUME NEW s, ASeq(s), NEW x, NEW c, NEW n
    PROVE  Cardinality(Matching(Append(s, x), c, n)) =
               Cardinality(Matching(s, c, n))
               + IF x.caller = c /\ x.call = n THEN 1 ELSE 0
  <1>1. CASE x.caller = c /\ x.call = n
    <2>1. Matching(Append(s, x), c, n) = Matching(s, c, n) \cup {Len(s) + 1}
      BY <1>1, AppendSeq DEF Matching
    <2>2. Len(s) + 1 \notin Matching(s, c, n)
      BY AppendSeq DEF Matching
    <2>3. QED
      BY <1>1, <2>1, <2>2, MatchFinite, FS_AddElement
  <1>2. CASE ~ (x.caller = c /\ x.call = n)
    <2>1. Matching(Append(s, x), c, n) = Matching(s, c, n)
      BY <1>2, AppendSeq DEF Matching
    <2>2. QED
      BY <1>2, <2>1, MatchFinite
  <1>3. QED
    BY <1>1, <1>2

LEMMA MatchTail ==
    ASSUME NEW s, ASeq(s), s # <<>>, NEW c, NEW n
    PROVE  Cardinality(Matching(s, c, n)) =
               Cardinality(Matching(Tail(s), c, n))
               + IF Head(s).caller = c /\ Head(s).call = n THEN 1 ELSE 0
  <1> DEFINE T == Matching(Tail(s), c, n)
             U == Matching(s, c, n) \ {1}
             f == [i \in T |-> i + 1]
  <1>1. IsFiniteSet(T) /\ Cardinality(T) \in Nat
    BY TailSeq, MatchFinite
  <1>2. f \in Bijection(T, U)
    <2>1. T \subseteq Nat
      BY TailSeq DEF Matching
    <2>2. \A i \in T : i + 1 \in U
      BY TailSeq DEF Matching
    <2>3. \A i \in T, j \in T : i # j => f[i] # f[j]
      BY <2>1
    <2>4. \A j \in U : \E i \in T : f[i] = j
      <3>1. TAKE j \in U
      <3>2. j - 1 \in T /\ (j - 1) + 1 = j
        BY TailSeq DEF Matching
      <3>3. QED
        BY <3>2
    <2>5. QED
      BY <2>2, <2>3, <2>4 DEF Bijection, Injection, Surjection, IsInjective
  <1>3. 1 \in DOMAIN s /\ s[1] = Head(s)
    BY TailSeq
  <1> HIDE DEF T, U, f
  <1>4. IsFiniteSet(U) /\ Cardinality(U) = Cardinality(T)
    <2>1. ExistsBijection(T, U)
      BY <1>2 DEF ExistsBijection
    <2>2. QED
      BY <1>1, <2>1, FS_Bijection
  <1>5. CASE Head(s).caller = c /\ Head(s).call = n
    <2>1. Matching(s, c, n) = U \cup {1} /\ 1 \notin U
      BY <1>3, <1>5 DEF Matching, U
    <2>2. Cardinality(U \cup {1}) = Cardinality(U) + 1
      BY <1>4, <2>1, FS_AddElement
    <2>3. QED
      BY <1>4, <1>5, <2>1, <2>2 DEF T
  <1>6. CASE ~ (Head(s).caller = c /\ Head(s).call = n)
    <2>1. Matching(s, c, n) = U
      BY <1>3, <1>6 DEF Matching, U
    <2>2. QED
      BY <1>1, <1>4, <1>6, <2>1 DEF T
  <1>7. QED
    BY <1>5, <1>6

\* Nothing waits in an empty queue.
LEMMA MatchEmpty ==
    ASSUME NEW c, NEW n
    PROVE  Cardinality(Matching(<<>>, c, n)) = 0
  <1>1. Matching(<<>>, c, n) = {}
    BY DEF Matching
  <1>2. QED
    BY <1>1, FS_EmptySet

LEMMA WorkersFinite ==
    ASSUME NEW S, S \subseteq Workers
    PROVE  IsFiniteSet(S) /\ Cardinality(S) \in Nat
  BY FS_Subset, FS_CardinalityType, SearchAssumption

LEMMA RunningFinite ==
    ASSUME NEW f, NEW c, NEW n
    PROVE  Cardinality(RunningFor(f, c, n)) \in Nat
  BY WorkersFinite DEF RunningFor

\* One worker takes up, or lays down, a job of a call.
LEMMA RunningStarts ==
    ASSUME NEW f, NEW g, NEW w \in Workers, NEW c, NEW n,
           \A v \in Workers \ {w} : g[v] = f[v],
           f[w].pc # "running",
           g[w].pc = "running"
    PROVE  Cardinality(RunningFor(g, c, n)) =
               Cardinality(RunningFor(f, c, n))
               + IF g[w].job.caller = c /\ g[w].job.call = n THEN 1 ELSE 0
  <1>1. w \notin RunningFor(f, c, n)
    BY DEF RunningFor
  <1>2. IsFiniteSet(RunningFor(f, c, n))
    BY WorkersFinite DEF RunningFor
  <1>3. CASE g[w].job.caller = c /\ g[w].job.call = n
    <2>1. RunningFor(g, c, n) = RunningFor(f, c, n) \cup {w}
      BY <1>3 DEF RunningFor
    <2>2. Cardinality(RunningFor(f, c, n) \cup {w}) = Cardinality(RunningFor(f, c, n)) + 1
      BY <1>1, <1>2, FS_AddElement
    <2>3. QED
      BY <1>3, <2>1, <2>2
  <1>4. CASE ~ (g[w].job.caller = c /\ g[w].job.call = n)
    <2>1. RunningFor(g, c, n) = RunningFor(f, c, n)
      BY <1>4 DEF RunningFor
    <2>2. QED
      BY <1>4, <2>1, RunningFinite
  <1>5. QED
    BY <1>3, <1>4

\* No worker starts or ends a job.
LEMMA RunningStays ==
    ASSUME NEW f, NEW g, NEW w \in Workers, NEW c, NEW n,
           \A v \in Workers \ {w} : g[v] = f[v],
           f[w].pc # "running", g[w].pc # "running"
    PROVE  RunningFor(g, c, n) = RunningFor(f, c, n)
  BY DEF RunningFor

\* The dead only grow.
LEMMA OneDies ==
    ASSUME NEW f, NEW g, NEW w \in Workers,
           \A v \in Workers \ {w} : g[v] = f[v],
           f[w].pc # "dead", g[w].pc = "dead"
    PROVE  Cardinality(DeadOnes(g)) = Cardinality(DeadOnes(f)) + 1
  <1>1. DeadOnes(g) = DeadOnes(f) \cup {w} /\ w \notin DeadOnes(f)
    BY DEF DeadOnes
  <1>2. IsFiniteSet(DeadOnes(f))
    BY WorkersFinite DEF DeadOnes
  <1>3. QED
    BY <1>1, <1>2, FS_AddElement

LEMMA NobodyDies ==
    ASSUME NEW f, NEW g, NEW w \in Workers,
           \A v \in Workers \ {w} : g[v] = f[v],
           f[w].pc # "dead", g[w].pc # "dead"
    PROVE  DeadOnes(g) = DeadOnes(f)
  BY DEF DeadOnes

LEMMA AllDead ==
    ASSUME NEW f, Cardinality(Workers) <= Cardinality(DeadOnes(f))
    PROVE  \A w \in Workers : f[w].pc = "dead"
  <1>1. DeadOnes(f) \subseteq Workers /\ IsFiniteSet(Workers)
    BY SearchAssumption DEF DeadOnes
  <1>2. /\ Cardinality(DeadOnes(f)) \in Nat /\ Cardinality(Workers) \in Nat
        /\ Cardinality(DeadOnes(f)) <= Cardinality(Workers)
        /\ (Cardinality(DeadOnes(f)) = Cardinality(Workers) => DeadOnes(f) = Workers)
    BY <1>1, FS_Subset, FS_CardinalityType
  <1>3. DeadOnes(f) = Workers
    BY <1>2
  <1>4. QED
    BY <1>3 DEF DeadOnes

\* A job that is finished or lost.
LEMMA RunningEnds ==
    ASSUME NEW f, NEW g, NEW w \in Workers, NEW c, NEW n,
           \A v \in Workers \ {w} : g[v] = f[v],
           f[w].pc = "running",
           g[w].pc # "running"
    PROVE  Cardinality(RunningFor(f, c, n)) =
               Cardinality(RunningFor(g, c, n))
               + IF f[w].job.caller = c /\ f[w].job.call = n THEN 1 ELSE 0
  <1>1. \A v \in Workers \ {w} : f[v] = g[v]
    OBVIOUS
  <1>2. QED
    BY <1>1, RunningStarts

-----------------------------------------------------------------------------
(* What the invariant says of counts. *)

LEMMA PendingNat ==
    ASSUME IInv, NEW c \in Callers
    PROVE  /\ Len(inbox[c]) \in Nat
           /\ Cardinality(Matching(queue, c, caller[c].call)) \in Nat
           /\ Cardinality(RunningFor(worker, c, caller[c].call)) \in Nat
           /\ caller[c].waiting \in Nat
           /\ Pending(c) \in Nat
  <1>1. ASeq(inbox[c]) /\ ASeq(queue) /\ caller[c].waiting \in Nat
    BY DEF IInv, ShapesOK, CallersOK, CallerOK
  <1>2. Len(inbox[c]) \in Nat
    BY <1>1 DEF ASeq
  <1>3. QED
    BY <1>1, <1>2, MatchFinite, RunningFinite DEF Pending, Load

\* A call that waits for nothing has nothing under way.
LEMMA NothingPending ==
    ASSUME IInv, NEW c \in Callers, caller[c].waiting = 0
    PROVE  /\ inbox[c] = <<>>
           /\ Matching(queue, c, caller[c].call) = {}
           /\ RunningFor(worker, c, caller[c].call) = {}
  <1>1. Pending(c) <= 0
    BY DEF IInv, CountsRight
  <1>2. /\ Len(inbox[c]) = 0
        /\ Cardinality(Matching(queue, c, caller[c].call)) = 0
        /\ Cardinality(RunningFor(worker, c, caller[c].call)) = 0
    BY <1>1, PendingNat DEF Pending, Load
  <1>3. ASeq(inbox[c]) /\ ASeq(queue)
    BY DEF IInv, ShapesOK
  <1>4. inbox[c] = <<>>
    BY <1>2, <1>3 DEF ASeq
  <1>5. IsFiniteSet(Matching(queue, c, caller[c].call))
        /\ IsFiniteSet(RunningFor(worker, c, caller[c].call))
    BY <1>3, MatchFinite, WorkersFinite DEF RunningFor
  <1>6. QED
    BY <1>2, <1>4, <1>5, FS_EmptySet

\* A call that lost a job never comes to wait for nothing.
LEMMA NoneLost ==
    ASSUME IInv, NEW c \in Callers, caller[c].pc # "idle", caller[c].waiting = 0
    PROVE  ~ caller[c].lost
  <1>1. SUFFICES ASSUME caller[c].lost PROVE FALSE
    OBVIOUS
  <1>2. Pending(c) < 0
    BY <1>1 DEF IInv, CountsRight
  <1>3. QED
    BY <1>2, PendingNat

\* All jobs of a caller are of the call it is in.
LEMMA JobsOfCall ==
    ASSUME IInv
    PROVE  /\ \A i \in DOMAIN queue :
                 /\ queue[i].caller \in Callers
                 /\ queue[i].call = caller[queue[i].caller].call
                 /\ caller[queue[i].caller].pc # "idle"
           /\ \A w \in Workers : worker[w].pc = "running" =>
                 /\ worker[w].job.caller \in Callers
                 /\ worker[w].job.call = caller[worker[w].job.caller].call
                 /\ caller[worker[w].job.caller].pc # "idle"
  BY DEF IInv, JobsOK, NoWorkAfterAnswer, Waiting, Belongs

\* A caller with nothing queued and nothing running owns no job at all.
LEMMA NoJobs ==
    ASSUME IInv, NEW c \in Callers,
           \/ caller[c].pc = "idle"
           \/ /\ Matching(queue, c, caller[c].call) = {}
              /\ RunningFor(worker, c, caller[c].call) = {}
    PROVE  /\ \A i \in DOMAIN queue : queue[i].caller # c
           /\ \A w \in Workers : worker[w].pc = "running" => worker[w].job.caller # c
  BY JobsOfCall DEF Matching, RunningFor

-----------------------------------------------------------------------------
LEMMA InitInv == Init => IInv
  <1> SUFFICES ASSUME Init PROVE IInv
    OBVIOUS
  <1> USE DEF Init
  <1>1. ASeq(<<>>)
    <2>1. <<>> \in Seq({})
      OBVIOUS
    <2>2. QED
      BY <2>1 DEF ASeq
  <1>2. ShapesOK
    BY <1>1 DEF ShapesOK, Unspawned
  <1>3. CallersOK
    BY DEF CallersOK, CallerOK, NewCaller, Fields
  <1>4. JobsOK /\ NoWorkAfterAnswer
    BY DEF JobsOK, NoWorkAfterAnswer, Unspawned
  <1>5. SearchesInside
    BY DEF SearchesInside, NewCaller
  <1>6. PoolSound
    <2>1. DeadOnes(worker) = {}
      BY DEF DeadOnes, Unspawned
    <2>2. Cardinality(DeadOnes(worker)) = 0
      BY <2>1, FS_EmptySet
    <2>3. QED
      BY <2>2 DEF PoolSound
  <1>7. CountsRight
    <2>1. ASSUME NEW c \in Callers
          PROVE  Pending(c) = 0
      <3>1. RunningFor(worker, c, caller[c].call) = {}
        BY DEF RunningFor, Unspawned
      <3>2. Len(inbox[c]) = 0
        OBVIOUS
      <3>3. Cardinality(RunningFor(worker, c, caller[c].call)) = 0
        BY <3>1, FS_EmptySet
      <3>4. Cardinality(Matching(queue, c, caller[c].call)) = 0
        BY MatchEmpty
      <3>5. QED
        BY <3>2, <3>3, <3>4 DEF Pending, Load
    <2>2. QED
      BY <2>1 DEF CountsRight, NewCaller
  <1>8. CorruptForCause
    BY DEF CorruptForCause, NewCaller, NoAnswer
  <1>9. QED
    BY <1>2, <1>3, <1>4, <1>5, <1>6, <1>7, <1>8 DEF IInv

-----------------------------------------------------------------------------
(* Opening and closing the pool. *)

LEMMA SpawnKeeps ==
    ASSUME IInv, NEW w \in Workers, Spawn(w)
    PROVE  IInv'
  <1>1. /\ worker[w].pc = "unspawned" /\ worker'[w].pc = "idle"
        /\ \A v \in Workers \ {w} : worker'[v] = worker[v]
        /\ DOMAIN worker' = Workers
        /\ pool = "opening" /\ pool' \in {"opening", "open"}
        /\ pool' = "open" => \A v \in Workers \ {w} : worker[v].pc # "unspawned"
        /\ UNCHANGED <<queue, caller, inbox, panics>>
    BY DEF IInv, ShapesOK, Spawn, Idle
  <1>2. ShapesOK'
    BY <1>1 DEF IInv, ShapesOK
  <1>3. CallersOK' /\ CorruptForCause'
    BY <1>1 DEF IInv, CallersOK, CorruptForCause
  <1>4. JobsOK' /\ NoWorkAfterAnswer'
    BY <1>1 DEF IInv, JobsOK, NoWorkAfterAnswer, Waiting, Belongs
  <1>5. SearchesInside'
    BY <1>1 DEF IInv, SearchesInside
  <1>6. PoolSound'
    <2>1. DeadOnes(worker') = DeadOnes(worker)
      BY <1>1, NobodyDies
    <2>2. ~ ReceiverGone'
      BY <1>1 DEF ReceiverGone, Alive
    <2>3. pool' = "open" => \A v \in Workers : worker'[v].pc # "unspawned"
      BY <1>1
    <2>4. QED
      BY <1>1, <2>1, <2>2, <2>3 DEF IInv, PoolSound
  <1>7. CountsRight'
    <2>1. ASSUME NEW c \in Callers
          PROVE  Pending(c)' = Pending(c)
      <3>1. RunningFor(worker', c, caller[c].call) = RunningFor(worker, c, caller[c].call)
        BY <1>1, RunningStays
      <3>2. QED
        BY <1>1, <3>1 DEF Pending, Load
    <2>2. QED
      BY <1>1, <2>1 DEF IInv, CountsRight
  <1>8. QED
    BY <1>2, <1>3, <1>4, <1>5, <1>6, <1>7 DEF IInv

LEMMA PoolKeeps ==
    ASSUME IInv, SpawnFails \/ DropPool \/ Join
    PROVE  IInv'
  <1>1. UNCHANGED <<queue, worker, caller, inbox, panics>>
    BY DEF SpawnFails, DropPool, Join
  <1>2. pool' \in {"closing", "closed"} /\ \A c \in Callers : caller[c].pc = "idle"
    BY DEF SpawnFails, DropPool, Join, IInv, SearchesInside
  <1>3. ShapesOK'
    BY <1>1, <1>2 DEF IInv, ShapesOK
  <1>4. CallersOK' /\ CorruptForCause'
    BY <1>1 DEF IInv, CallersOK, CorruptForCause
  <1>5. JobsOK' /\ NoWorkAfterAnswer'
    BY <1>1 DEF IInv, JobsOK, NoWorkAfterAnswer, Waiting, Belongs
  <1>6. SearchesInside'
    BY <1>1, <1>2 DEF IInv, SearchesInside
  <1>7. PoolSound'
    BY <1>1, <1>2 DEF IInv, PoolSound, ReceiverGone, Alive
  <1>8. CountsRight'
    BY <1>1 DEF IInv, CountsRight, Pending
  <1>9. QED
    BY <1>3, <1>4, <1>5, <1>6, <1>7, <1>8 DEF IInv

-----------------------------------------------------------------------------
(* The worker threads. *)

LEMMA TakeKeeps ==
    ASSUME IInv, NEW w \in Workers, Take(w)
    PROVE  IInv'
  <1>1. /\ worker[w].pc = "idle"
        /\ worker'[w].pc = "running" /\ worker'[w].job = Head(queue)
        /\ \A v \in Workers \ {w} : worker'[v] = worker[v]
        /\ DOMAIN worker' = Workers
    BY DEF IInv, ShapesOK, Take, Running
  <1>2. /\ ASeq(queue) /\ queue # <<>> /\ queue' = Tail(queue)
        /\ UNCHANGED <<pool, caller, inbox, panics>>
    BY DEF IInv, ShapesOK, Take
  <1>3. /\ 1 \in DOMAIN queue /\ Head(queue) = queue[1]
        /\ \A i \in DOMAIN queue' : i + 1 \in DOMAIN queue /\ queue'[i] = queue[i + 1]
    BY <1>2, TailSeq
  <1>4. ShapesOK'
    <2>1. ASeq(queue')
      BY <1>2, TailSeq
    <2>2. QED
      BY <1>1, <1>2, <2>1 DEF IInv, ShapesOK
  <1>5. CallersOK' /\ CorruptForCause' /\ SearchesInside'
    BY <1>2 DEF IInv, CallersOK, CorruptForCause, SearchesInside
  <1>6. JobsOK'
    BY <1>1, <1>3 DEF IInv, JobsOK
  <1>7. NoWorkAfterAnswer'
    BY <1>1, <1>2, <1>3 DEF IInv, NoWorkAfterAnswer, Waiting, Belongs
  <1>8. PoolSound'
    <2>1. DeadOnes(worker') = DeadOnes(worker)
      BY <1>1, NobodyDies
    <2>2. ~ ReceiverGone'
      BY <1>1 DEF ReceiverGone, Alive
    <2>3. \A v \in Workers : worker[v].pc # "unspawned" => worker'[v].pc # "unspawned"
      BY <1>1
    <2>4. QED
      BY <1>2, <2>1, <2>2, <2>3 DEF IInv, PoolSound
  <1>9. CountsRight'
    <2>1. ASSUME NEW c \in Callers
          PROVE  Pending(c)' = Pending(c)
      <3> DEFINE n == caller[c].call
                 one == IF Head(queue).caller = c /\ Head(queue).call = n THEN 1 ELSE 0
      <3>1. Cardinality(Matching(queue, c, n)) = Cardinality(Matching(queue', c, n)) + one
        BY <1>2, MatchTail
      <3>2. Cardinality(RunningFor(worker', c, n)) = Cardinality(RunningFor(worker, c, n)) + one
        <4> HIDE DEF n, one
        <4>1. worker[w].pc # "running" /\ worker'[w].pc = "running"
          BY <1>1
        <4>2. Cardinality(RunningFor(worker', c, n)) =
                  Cardinality(RunningFor(worker, c, n))
                  + IF worker'[w].job.caller = c /\ worker'[w].job.call = n THEN 1 ELSE 0
          BY <1>1, <4>1, RunningStarts
        <4>3. QED
          BY <1>1, <4>2 DEF one
      <3>3. Cardinality(Matching(queue', c, n)) \in Nat
            /\ Cardinality(RunningFor(worker, c, n)) \in Nat /\ one \in {0, 1}
        BY <1>4, MatchFinite, RunningFinite DEF ShapesOK
      <3> HIDE DEF one
      <3>4. Load(queue', worker', c, n) = Load(queue, worker, c, n)
        BY <3>1, <3>2, <3>3 DEF Load
      <3>5. QED
        BY <1>2, <3>4 DEF Pending
    <2>2. QED
      BY <1>2, <2>1 DEF IInv, CountsRight
  <1>10. QED
    BY <1>4, <1>5, <1>6, <1>7, <1>8, <1>9 DEF IInv

LEMMA ExitKeeps ==
    ASSUME IInv, NEW w \in Workers, Exit(w)
    PROVE  IInv'
  <1>1. /\ worker[w].pc = "idle" /\ worker'[w].pc = "dead"
        /\ \A v \in Workers \ {w} : worker'[v] = worker[v]
        /\ DOMAIN worker' = Workers
    BY DEF IInv, ShapesOK, Exit, Dead
  <1>2. /\ pool \in {"closing", "closed"} /\ queue = <<>>
        /\ UNCHANGED <<pool, queue, caller, inbox, panics>>
    BY DEF Exit, Disconnected
  <1>3. ShapesOK'
    BY <1>1, <1>2 DEF IInv, ShapesOK
  <1>4. CallersOK' /\ CorruptForCause' /\ SearchesInside'
    BY <1>2 DEF IInv, CallersOK, CorruptForCause, SearchesInside
  <1>5. JobsOK' /\ NoWorkAfterAnswer'
    BY <1>1, <1>2 DEF IInv, JobsOK, NoWorkAfterAnswer, Waiting, Belongs
  <1>6. PoolSound'
    <2>1. Cardinality(DeadOnes(worker')) = Cardinality(DeadOnes(worker)) + 1
      BY <1>1, OneDies
    <2>2. Cardinality(DeadOnes(worker)) \in Nat /\ panics \in Nat
      BY WorkersFinite DEF DeadOnes, IInv, ShapesOK
    <2>3. panics' <= Cardinality(DeadOnes(worker'))
      BY <1>2, <2>1, <2>2 DEF IInv, PoolSound
    <2>4. QED
      BY <1>2, <2>3 DEF PoolSound
  <1>7. CountsRight'
    <2>1. ASSUME NEW c \in Callers
          PROVE  Pending(c)' = Pending(c)
      <3>1. RunningFor(worker', c, caller[c].call) = RunningFor(worker, c, caller[c].call)
        BY <1>1, RunningStays
      <3>2. QED
        BY <1>2, <3>1 DEF Pending, Load
    <2>2. QED
      BY <1>2, <2>1 DEF IInv, CountsRight
  <1>8. QED
    BY <1>3, <1>4, <1>5, <1>6, <1>7 DEF IInv

LEMMA ReplyKeeps ==
    ASSUME IInv, NEW w \in Workers, Reply(w)
    PROVE  IInv'
  <1> DEFINE job == worker[w].job
             m == job.caller
  <1>1. /\ worker[w].pc = "running" /\ worker'[w].pc = "idle"
        /\ \A v \in Workers \ {w} : worker'[v] = worker[v]
        /\ DOMAIN worker' = Workers
        /\ UNCHANGED <<pool, queue, caller, panics>>
    BY DEF IInv, ShapesOK, Reply, Idle
  <1>2. m \in Callers /\ job.call = caller[m].call /\ caller[m].pc # "idle"
    BY <1>1, JobsOfCall
  <1>3. \E reply : inbox' = [inbox EXCEPT ![m] = Append(@, reply)]
    <2>1. Waiting(job)
      BY <1>2 DEF Waiting, Belongs
    <2>2. QED
      BY <2>1 DEF Reply
  <1>4. PICK reply : inbox' = [inbox EXCEPT ![m] = Append(@, reply)]
    BY <1>3
  <1>5. /\ \A c \in Callers : ASeq(inbox[c])
        /\ DOMAIN inbox = Callers
    BY DEF IInv, ShapesOK
  <1> HIDE DEF m
  <1>6. /\ inbox'[m] = Append(inbox[m], reply)
        /\ \A c \in Callers \ {m} : inbox'[c] = inbox[c]
        /\ DOMAIN inbox' = Callers
    BY <1>2, <1>4, <1>5
  <1>7. ASeq(inbox'[m]) /\ Len(inbox[m]) \in Nat /\ Len(inbox'[m]) = Len(inbox[m]) + 1
    BY <1>2, <1>5, <1>6, AppendSeq
  <1>8. ShapesOK'
    <2>1. \A c \in Callers : ASeq(inbox'[c])
      BY <1>5, <1>6, <1>7
    <2>2. QED
      BY <1>1, <1>6, <2>1 DEF IInv, ShapesOK
  <1>9. CallersOK' /\ CorruptForCause'
    BY <1>1 DEF IInv, CallersOK, CorruptForCause
  <1>10. JobsOK' /\ NoWorkAfterAnswer'
    BY <1>1 DEF IInv, JobsOK, NoWorkAfterAnswer, Waiting, Belongs
  <1>11. SearchesInside'
    BY <1>1, <1>2, <1>6 DEF IInv, SearchesInside
  <1>12. PoolSound'
    <2>1. DeadOnes(worker') = DeadOnes(worker)
      BY <1>1, NobodyDies
    <2>2. ~ ReceiverGone'
      BY <1>1 DEF ReceiverGone, Alive
    <2>3. QED
      BY <1>1, <2>1, <2>2 DEF IInv, PoolSound
  <1>13. CountsRight'
    <2>1. ASSUME NEW c \in Callers
          PROVE  Pending(c)' = Pending(c)
      <3> DEFINE n == caller[c].call
                 one == IF worker[w].job.caller = c /\ worker[w].job.call = n THEN 1 ELSE 0
      <3>1. one = IF c = m THEN 1 ELSE 0
        BY <1>2 DEF m
      <3> HIDE DEF n, one
      <3>2. Cardinality(RunningFor(worker, c, n)) =
                Cardinality(RunningFor(worker', c, n)) + one
        <4>1. worker[w].pc = "running" /\ worker'[w].pc # "running"
          BY <1>1
        <4>2. QED
          BY <1>1, <4>1, RunningEnds DEF one
      <3>3. /\ Cardinality(RunningFor(worker', c, n)) \in Nat
            /\ Cardinality(Matching(queue, c, n)) \in Nat
            /\ Len(inbox[c]) \in Nat
        BY RunningFinite, MatchFinite, AppendSeq, <1>5 DEF IInv, ShapesOK
      <3>4. Len(inbox'[c]) = Len(inbox[c]) + one
        <4>1. CASE c = m
          BY <1>7, <3>1, <4>1
        <4>2. CASE c # m
          BY <1>6, <3>1, <3>3, <4>2
        <4>3. QED
          BY <4>1, <4>2
      <3>5. Len(inbox'[c]) + Load(queue, worker', c, n) = Len(inbox[c]) + Load(queue, worker, c, n)
        <4>1. one \in Nat
          BY <3>1
        <4>2. /\ Load(queue, worker', c, n) =
                     Cardinality(Matching(queue, c, n)) + Cardinality(RunningFor(worker', c, n))
              /\ Load(queue, worker, c, n) =
                     Cardinality(Matching(queue, c, n)) + Cardinality(RunningFor(worker, c, n))
          BY DEF Load
        <4>3. QED
          BY <3>2, <3>3, <3>4, <4>1, <4>2
      <3>6. QED
        BY <1>1, <3>5 DEF Pending, n
    <2>2. QED
      BY <1>1, <2>1 DEF IInv, CountsRight
  <1>14. QED
    BY <1>8, <1>9, <1>10, <1>11, <1>12, <1>13 DEF IInv

\* A panic takes a job, and the queue if no other worker can take from it: the
\* calls of these jobs are marked, the others still wait for what is there.
LEMMA PanicKeeps ==
    ASSUME IInv, NEW w \in Workers, Panic(w)
    PROVE  IInv'
  <1> DEFINE last == \A v \in Workers \ {w} : ~ Alive(v)
             Lost(c) == \/ Belongs(worker[w].job, c)
                        \/ last /\ \E i \in DOMAIN queue : Belongs(queue[i], c)
  <1>1. /\ worker[w].pc = "running" /\ worker'[w].pc = "dead"
        /\ \A v \in Workers \ {w} : worker'[v] = worker[v]
        /\ DOMAIN worker' = Workers
        /\ panics' = panics + 1 /\ panics \in Nat
        /\ UNCHANGED <<pool, inbox>>
    BY DEF IInv, ShapesOK, Panic, Dead
  <1>2. IF last THEN queue' = <<>> ELSE queue' = queue
    BY DEF Panic
  <1>3. /\ DOMAIN caller' = Callers
        /\ \A c \in Callers :
              /\ DOMAIN caller'[c] = Fields
              /\ \A field \in Fields \ {"lost"} : caller'[c][field] = caller[c][field]
              /\ caller'[c].lost = (caller[c].lost \/ Lost(c))
    <2>1. DOMAIN caller = Callers /\ \A c \in Callers : DOMAIN caller[c] = Fields
      BY DEF IInv, CallersOK, CallerOK
    <2>2. caller' = [c \in Callers |->
             [caller[c] EXCEPT !.lost = @ \/ \E job \in {worker[w].job}
                  \cup IF last THEN {queue[i] : i \in DOMAIN queue} ELSE {} : Belongs(job, c)]]
      BY DEF Panic
    <2>3. ASSUME NEW c \in Callers
          PROVE  (\E job \in {worker[w].job}
                  \cup IF last THEN {queue[i] : i \in DOMAIN queue} ELSE {} : Belongs(job, c))
                 <=> Lost(c)
      OBVIOUS
    <2> HIDE DEF last, Lost
    <2>4. QED
      BY <2>1, <2>2, <2>3, Zenon DEF Fields
  <1> HIDE DEF last, Lost
  <1>4. ASSUME NEW c \in Callers
        PROVE  /\ caller'[c].pc = caller[c].pc /\ caller'[c].call = caller[c].call
               /\ caller'[c].waiting = caller[c].waiting
               /\ caller'[c].answer = caller[c].answer
               /\ caller'[c].query = caller[c].query
               /\ caller'[c].lost = (caller[c].lost \/ Lost(c))
    BY <1>3 DEF Fields
  <1>5. ASeq(queue) /\ ASeq(queue')
    <2>1. ASeq(<<>>)
      <3>1. <<>> \in Seq({})
        OBVIOUS
      <3>2. QED
        BY <3>1 DEF ASeq
    <2>2. QED
      BY <1>2, <2>1 DEF IInv, ShapesOK
  <1>6. ShapesOK'
    BY <1>1, <1>5 DEF IInv, ShapesOK
  <1>7. CallersOK'
    BY <1>3, <1>4 DEF IInv, CallersOK, CallerOK
  <1>8. JobsOK'
    BY <1>1, <1>2 DEF IInv, JobsOK
  <1>9. NoWorkAfterAnswer'
    <2>1. ASSUME NEW i \in DOMAIN queue'
          PROVE  queue' = queue /\ i \in DOMAIN queue
      BY <1>2
    <2>2. ASSUME NEW job, job.caller \in Callers, Waiting(job)
          PROVE  Waiting(job)'
      BY <2>2, <1>4 DEF Waiting, Belongs
    <2>3. QED
      BY <1>1, <2>1, <2>2, JobsOfCall DEF IInv, NoWorkAfterAnswer
  <1>10. SearchesInside'
    BY <1>1, <1>4 DEF IInv, SearchesInside
  <1>11. Cardinality(DeadOnes(worker')) = Cardinality(DeadOnes(worker)) + 1
         /\ Cardinality(DeadOnes(worker)) \in Nat
    BY <1>1, OneDies, WorkersFinite DEF DeadOnes
  <1>12. PoolSound'
    <2>1. ReceiverGone' => queue' = <<>>
      BY <1>1, <1>2 DEF ReceiverGone, Alive, last
    <2>2. QED
      BY <1>1, <1>11, <2>1 DEF IInv, PoolSound
  <1>13. CountsRight'
    <2> SUFFICES ASSUME NEW c \in Callers
                 PROVE  /\ Pending(c)' <= caller'[c].waiting
                        /\ ~ caller'[c].lost => caller'[c].waiting <= Pending(c)'
                        /\ caller'[c].pc # "idle" /\ caller'[c].lost =>
                              Pending(c)' < caller'[c].waiting
      BY DEF CountsRight
    <2> DEFINE n == caller[c].call
               M == Cardinality(Matching(queue, c, n))
               N == Cardinality(Matching(queue', c, n))
               R == Cardinality(RunningFor(worker, c, n))
               Q == Cardinality(RunningFor(worker', c, n))
               one == IF worker[w].job.caller = c /\ worker[w].job.call = n THEN 1 ELSE 0
    <2>1. R = Q + one
      <3>1. worker[w].pc = "running" /\ worker'[w].pc # "running"
        BY <1>1
      <3> HIDE DEF n
      <3>2. QED
        BY <1>1, <3>1, RunningEnds
    <2>2. N = M \/ (last /\ N = 0)
      BY <1>2, MatchEmpty
    <2>3. ~ Lost(c) => one = 0
      BY DEF Lost, Belongs
    <2>4. ~ Lost(c) => N = M
      <3> SUFFICES ASSUME ~ Lost(c), last PROVE N = M
        BY <1>2
      <3>1. Matching(queue, c, n) = {}
        BY DEF Lost, Belongs, Matching
      <3>2. M = 0
        BY <3>1, FS_EmptySet
      <3>3. QED
        BY <1>2, <3>2, MatchEmpty
    <2>5. /\ M \in Nat /\ N \in Nat /\ Q \in Nat /\ R \in Nat /\ one \in {0, 1}
          /\ Len(inbox[c]) \in Nat /\ caller[c].waiting \in Nat
      BY <1>5, MatchFinite, RunningFinite, PendingNat
    <2>6. Pending(c) = Len(inbox[c]) + (M + R)
      BY DEF Pending, Load
    <2>7. Pending(c)' = Len(inbox[c]) + (N + Q)
      BY <1>1, <1>4 DEF Pending, Load
    <2>8. /\ Pending(c) <= caller[c].waiting
          /\ ~ caller[c].lost => caller[c].waiting <= Pending(c)
          /\ caller[c].pc # "idle" /\ caller[c].lost => Pending(c) < caller[c].waiting
      BY DEF IInv, CountsRight
    <2>9. Lost(c) => one = 1 \/ (N = 0 /\ M # 0)
      <3> SUFFICES ASSUME Lost(c), one # 1
                   PROVE  N = 0 /\ M # 0
        OBVIOUS
      <3>1. last /\ \E i \in DOMAIN queue : Belongs(queue[i], c)
        BY DEF Lost, Belongs
      <3>2. Matching(queue, c, n) # {} /\ IsFiniteSet(Matching(queue, c, n))
        BY <1>5, <3>1, MatchFinite DEF Belongs, Matching
      <3>3. QED
        BY <1>2, <3>1, <3>2, MatchEmpty, FS_EmptySet
    <2> HIDE DEF M, N, Q, R, one, n
    <2>10. N <= M
      BY <2>2, <2>5
    <2>11. Pending(c)' <= Pending(c)
      BY <2>1, <2>5, <2>6, <2>7, <2>10
    <2>12. ~ Lost(c) => Pending(c)' = Pending(c)
      BY <2>1, <2>3, <2>4, <2>5, <2>6, <2>7
    <2>13. Pending(c) \in Nat /\ Pending(c)' \in Nat
      <3> DEFINE L == Len(inbox[c])
      <3>1. L \in Nat
        BY <2>5
      <3>2. Pending(c) = L + (M + R) /\ Pending(c)' = L + (N + Q)
        BY <2>6, <2>7
      <3> HIDE DEF L
      <3>3. L + (M + R) \in Nat /\ L + (N + Q) \in Nat
        BY <2>5, <3>1
      <3>4. QED
        BY <3>2, <3>3
    <2>14. Pending(c)' <= caller'[c].waiting
      BY <1>4, <2>5, <2>8, <2>11, <2>13
    <2>15. ASSUME ~ caller'[c].lost
           PROVE  caller'[c].waiting <= Pending(c)'
      <3>1. ~ caller[c].lost /\ ~ Lost(c)
        BY <1>4, <2>15
      <3>2. QED
        BY <1>4, <2>8, <2>12, <3>1
    <2>16. ASSUME caller'[c].pc # "idle", caller'[c].lost
           PROVE  Pending(c)' < caller'[c].waiting
      <3>1. CASE caller[c].lost
        <4>1. Pending(c) < caller[c].waiting
          BY <1>4, <2>8, <2>16, <3>1
        <4>2. QED
          BY <1>4, <2>5, <2>11, <2>13, <4>1
      <3>2. CASE Lost(c)
        <4>1. M + R > N + Q
          BY <2>1, <2>5, <2>10, <2>9, <3>2
        <4>2. Pending(c)' < Pending(c)
          <5> DEFINE L == Len(inbox[c])
          <5>1. L \in Nat
            BY <2>5
          <5>2. Pending(c) = L + (M + R) /\ Pending(c)' = L + (N + Q)
            BY <2>6, <2>7
          <5> HIDE DEF L
          <5>3. L + (N + Q) < L + (M + R)
            BY <2>5, <4>1, <5>1
          <5>4. QED
            BY <5>2, <5>3
        <4>3. QED
          BY <1>4, <2>5, <2>8, <2>13, <4>2
      <3>3. QED
        BY <1>4, <2>16, <3>1, <3>2, Zenon
    <2>17. QED
      BY <2>14, <2>15, <2>16
  <1>14. CorruptForCause'
    <2>1. panics # Cardinality(Workers)
      <3> SUFFICES ASSUME panics = Cardinality(Workers) PROVE FALSE
        OBVIOUS
      <3>1. Cardinality(Workers) <= Cardinality(DeadOnes(worker))
        BY DEF IInv, PoolSound
      <3>2. worker[w].pc = "dead"
        BY <3>1, AllDead
      <3>3. QED
        BY <1>1, <3>2
    <2>2. ASSUME NEW c \in Callers, Lost(c)
          PROVE  caller[c].pc # "idle"
      <3>1. CASE Belongs(worker[w].job, c)
        BY <1>1, <3>1 DEF IInv, NoWorkAfterAnswer, Waiting, Belongs
      <3>2. CASE \E i \in DOMAIN queue : Belongs(queue[i], c)
        BY <3>2 DEF IInv, NoWorkAfterAnswer, Waiting, Belongs
      <3>3. QED
        BY <2>2, <3>1, <3>2 DEF Lost
    <2>3. ASSUME NEW c \in Callers
          PROVE  Caused(caller'[c], panics')
      <3>1. Caused(caller[c], panics)
        BY DEF IInv, CorruptForCause, Caused
      <3>2. QED
        BY <1>4, <2>1, <2>2, <3>1, Zenon DEF Caused
    <2>4. QED
      BY <2>3 DEF CorruptForCause, Caused
  <1>15. QED
    BY <1>6, <1>7, <1>8, <1>9, <1>10, <1>12, <1>13, <1>14 DEF IInv

-----------------------------------------------------------------------------
(* The callers. *)

\* A caller moves to record and keeps box as its inbox; it goes on with its
\* call, or owns no job.
LEMMA CallerMove ==
    ASSUME IInv, NEW c \in Callers, NEW record, NEW box,
           UNCHANGED <<pool, queue, worker, panics>>,
           DOMAIN caller' = Callers, DOMAIN inbox' = Callers,
           \A d \in Callers \ {c} : caller'[d] = caller[d] /\ inbox'[d] = inbox[d],
           caller'[c] = record, inbox'[c] = box,
           CallerOK(record), ASeq(box),
           \/ record.pc # "idle" /\ record.call = caller[c].call
           \/ /\ \A i \in DOMAIN queue : queue[i].caller # c
              /\ \A w \in Workers : worker[w].pc = "running" => worker[w].job.caller # c,
           IF record.pc = "idle" THEN record.waiting = 0 /\ box = <<>>
                                 ELSE pool = "open",
           Len(box) + Load(queue, worker, c, record.call) <= record.waiting,
           ~ record.lost => record.waiting <= Len(box) + Load(queue, worker, c, record.call),
           record.pc # "idle" /\ record.lost =>
               Len(box) + Load(queue, worker, c, record.call) < record.waiting,
           Caused(record, panics)
    PROVE  IInv'
  <1>1. ShapesOK'
    BY DEF IInv, ShapesOK
  <1>2. CallersOK'
    BY DEF IInv, CallersOK
  <1>3. JobsOK'
    BY DEF IInv, JobsOK
  <1>4. SearchesInside'
    BY DEF IInv, SearchesInside
  <1>5. PoolSound'
    BY DEF IInv, PoolSound, ReceiverGone, Alive
  <1>6. NoWorkAfterAnswer'
    <2>1. ASSUME NEW job, job.caller \in Callers, Waiting(job),
                 job.caller # c \/ (record.pc # "idle" /\ record.call = caller[c].call)
          PROVE  Waiting(job)'
      <3>1. CASE job.caller # c
        BY <2>1, <3>1 DEF Waiting, Belongs
      <3>2. CASE job.caller = c /\ record.pc # "idle" /\ record.call = caller[c].call
        BY <2>1, <3>2 DEF Waiting, Belongs
      <3>3. QED
        BY <2>1, <3>1, <3>2
    <2>2. ASSUME NEW i \in DOMAIN queue
          PROVE  Waiting(queue[i])'
      <3>1. PICK job : job = queue[i]
        OBVIOUS
      <3>2. job.caller \in Callers /\ Waiting(job)
        BY <3>1 DEF IInv, JobsOK, NoWorkAfterAnswer
      <3>3. Waiting(job)'
        <4>1. job.caller # c \/ (record.pc # "idle" /\ record.call = caller[c].call)
          BY <3>1
        <4>2. QED
          BY <2>1, <3>2, <4>1
      <3>4. QED
        BY <3>1, <3>3 DEF Waiting, Belongs
    <2>3. ASSUME NEW w \in Workers, worker[w].pc = "running"
          PROVE  Waiting(worker[w].job)'
      <3>1. PICK job : job = worker[w].job
        OBVIOUS
      <3>2. job.caller \in Callers /\ Waiting(job)
        BY <2>3, <3>1 DEF IInv, JobsOK, NoWorkAfterAnswer
      <3>3. Waiting(job)'
        <4>1. job.caller # c \/ (record.pc # "idle" /\ record.call = caller[c].call)
          BY <2>3, <3>1
        <4>2. QED
          BY <2>1, <3>2, <4>1
      <3>4. QED
        BY <3>1, <3>3 DEF Waiting, Belongs
    <2>4. QED
      BY <2>2, <2>3 DEF NoWorkAfterAnswer
  <1>7. CountsRight'
    <2>1. ASSUME NEW d \in Callers \ {c}
          PROVE  Pending(d)' = Pending(d)
      BY DEF Pending
    <2>2. Pending(c)' = Len(box) + Load(queue, worker, c, record.call)
      BY DEF Pending
    <2>3. ASSUME NEW d \in Callers
          PROVE  /\ Pending(d)' <= caller'[d].waiting
                 /\ ~ caller'[d].lost => caller'[d].waiting <= Pending(d)'
                 /\ caller'[d].pc # "idle" /\ caller'[d].lost =>
                       Pending(d)' < caller'[d].waiting
      <3>1. CASE d = c
        BY <2>2, <3>1
      <3>2. CASE d # c
        BY <2>1, <3>2 DEF IInv, CountsRight
      <3>3. QED
        BY <3>1, <3>2
    <2>4. QED
      BY <2>3 DEF CountsRight
  <1>8. CorruptForCause'
    <2>1. \A d \in Callers : Caused(caller'[d], panics)
      BY DEF IInv, CorruptForCause, Caused
    <2>2. QED
      BY <2>1 DEF CorruptForCause, Caused
  <1>9. QED
    BY <1>1, <1>2, <1>3, <1>4, <1>5, <1>6, <1>7, <1>8 DEF IInv

LEMMA EmptyBox == ASeq(<<>>) /\ Len(<<>>) = 0
  <1>1. <<>> \in Seq({})
    OBVIOUS
  <1>2. QED
    BY <1>1 DEF ASeq

\* A caller that owns no job, whatever the number of its call, is owed none.
LEMMA NoLoad ==
    ASSUME NEW c, NEW n,
           \A i \in DOMAIN queue : queue[i].caller # c,
           \A w \in Workers : worker[w].pc = "running" => worker[w].job.caller # c
    PROVE  Load(queue, worker, c, n) = 0
  <1>1. Matching(queue, c, n) = {} /\ RunningFor(worker, c, n) = {}
    BY DEF Matching, RunningFor
  <1>2. QED
    BY <1>1, FS_EmptySet DEF Load

LEMMA SearchKeeps ==
    ASSUME IInv, NEW c \in Callers, NEW q, Search(c, q)
    PROVE  IInv'
  <1> DEFINE record == [Accepted(q) EXCEPT !.call = caller[c].call + 1]
  <1>1. /\ pool = "open" /\ caller[c].pc = "idle"
        /\ caller' = [caller EXCEPT ![c] = record]
        /\ UNCHANGED <<pool, queue, worker, inbox, panics>>
    BY DEF Search
  <1>2. /\ DOMAIN caller = Callers /\ DOMAIN inbox = Callers
        /\ caller[c].call \in Nat
        /\ inbox[c] = <<>>
    BY <1>1 DEF IInv, ShapesOK, CallersOK, CallerOK, SearchesInside
  <1>3. /\ DOMAIN record = Fields
        /\ record.pc \in {"idle", "submit"} /\ record.waiting = 0
        /\ record.call = caller[c].call + 1 /\ record.lost = FALSE
        /\ record.answer.status = "Corrupt" => ~ record.query.prepares
    BY DEF Accepted, NewCaller, NoAnswer, Refusal, Fields
  <1>4. Load(queue, worker, c, record.call) = 0
    BY <1>1, NoJobs, NoLoad
  <1>5. /\ DOMAIN caller' = Callers /\ DOMAIN inbox' = Callers
        /\ \A d \in Callers \ {c} : caller'[d] = caller[d] /\ inbox'[d] = inbox[d]
        /\ caller'[c] = record /\ inbox'[c] = <<>>
    BY <1>1, <1>2
  <1> HIDE DEF record
  <1>6. CallerOK(record)
    <2>1. record.call \in Nat /\ record.waiting \in Nat
      BY <1>2, <1>3
    <2>2. record.lost \in BOOLEAN
      BY <1>3, Zenon
    <2>3. QED
      BY <1>3, <2>1, <2>2, Zenon DEF CallerOK
  <1>7. /\ \A i \in DOMAIN queue : queue[i].caller # c
        /\ \A w \in Workers : worker[w].pc = "running" => worker[w].job.caller # c
    BY <1>1, NoJobs
  <1>8. /\ Len(<<>>) + Load(queue, worker, c, record.call) <= record.waiting
        /\ record.waiting <= Len(<<>>) + Load(queue, worker, c, record.call)
    BY <1>3, <1>4, EmptyBox
  <1>9. IF record.pc = "idle" THEN record.waiting = 0 /\ <<>> = <<>> ELSE pool = "open"
    BY <1>1, <1>3
  <1>10. Caused(record, panics)
    BY <1>3 DEF Caused
  <1>11. QED
    BY <1>1, <1>3, <1>5, <1>6, <1>7, <1>8, <1>9, <1>10, EmptyBox, CallerMove

\* A call gives its answer, with nothing of it queued, running or received.
LEMMA CallerAnswers ==
    ASSUME IInv, NEW c \in Callers, NEW answer,
           UNCHANGED <<pool, queue, worker, panics>>,
           caller' = [caller EXCEPT ![c] = Answered(c, answer)],
           DOMAIN inbox' = Callers, inbox'[c] = <<>>,
           \A d \in Callers \ {c} : inbox'[d] = inbox[d],
           \A i \in DOMAIN queue : queue[i].caller # c,
           \A w \in Workers : worker[w].pc = "running" => worker[w].job.caller # c,
           caller[c].lost => answer.status = "Corrupt",
           answer.status = "Corrupt" => caller[c].lost \/ panics = Cardinality(Workers)
    PROVE  IInv'
  <1> DEFINE record == Answered(c, answer)
  <1>1. /\ DOMAIN caller = Callers /\ DOMAIN inbox = Callers
        /\ DOMAIN caller[c] = Fields
        /\ caller[c].call \in Nat /\ caller[c].lost \in BOOLEAN
    BY DEF IInv, ShapesOK, CallersOK, CallerOK
  <1>2. /\ DOMAIN record = Fields
        /\ record.pc = "idle" /\ record.waiting = 0
        /\ record.call = caller[c].call /\ record.lost = caller[c].lost
        /\ record.answer = answer
    BY <1>1 DEF Answered, Fields
  <1>3. /\ DOMAIN caller' = Callers /\ DOMAIN inbox' = Callers
        /\ \A d \in Callers \ {c} : caller'[d] = caller[d] /\ inbox'[d] = inbox[d]
        /\ caller'[c] = record /\ inbox'[c] = <<>>
    BY <1>1
  <1> HIDE DEF record
  <1>4. CallerOK(record)
    BY <1>1, <1>2 DEF CallerOK
  <1>5. Load(queue, worker, c, record.call) = 0
    BY NoLoad
  <1>6. /\ Len(<<>>) + Load(queue, worker, c, record.call) <= record.waiting
        /\ record.waiting <= Len(<<>>) + Load(queue, worker, c, record.call)
    BY <1>2, <1>5, EmptyBox
  <1>7. Caused(record, panics)
    BY <1>2, Zenon DEF Caused
  <1>8. QED
    BY <1>2, <1>3, <1>4, <1>6, <1>7, EmptyBox, CallerMove

\* A call that waits for nothing answers: it lost no job, and none is left.
LEMMA NothingLeft ==
    ASSUME IInv, NEW c \in Callers, NEW answer,
           caller[c].pc # "idle", caller[c].waiting = 0, answer.status # "Corrupt",
           UNCHANGED <<pool, queue, worker, panics>>,
           caller' = [caller EXCEPT ![c] = Answered(c, answer)],
           DOMAIN inbox' = Callers, inbox'[c] = <<>>,
           \A d \in Callers \ {c} : inbox'[d] = inbox[d]
    PROVE  IInv'
  <1>1. /\ \A i \in DOMAIN queue : queue[i].caller # c
        /\ \A w \in Workers : worker[w].pc = "running" => worker[w].job.caller # c
    BY NothingPending, NoJobs
  <1>2. ~ caller[c].lost
    BY NoneLost
  <1>3. QED
    BY <1>1, <1>2, CallerAnswers

LEMMA RefineKeeps ==
    ASSUME IInv, NEW c \in Callers, Refine(c)
    PROVE  IInv'
  <1>1. /\ caller[c].pc = "collect" /\ caller[c].waiting = 0
        /\ UNCHANGED <<pool, queue, worker, inbox, panics>>
    BY DEF Refine
  <1>2. \E answer : /\ answer.status # "Corrupt"
                    /\ caller' = [caller EXCEPT ![c] = Answered(c, answer)]
    <2> DEFINE q == caller[c].query
               hits == Ranked(q, caller[c].heap)
               refused == Range(hits) \cap q.uncertified # {}
               right == [status |-> "Ok", limit |-> Limit(q),
                         refined |-> Cardinality(caller[c].heap), hits |-> hits]
    <2>1. caller' = [caller EXCEPT ![c] = Answered(c,
              IF refused THEN Refusal("CertificateInvalid") ELSE right)]
      BY DEF Refine
    <2>2. right.status # "Corrupt" /\ Refusal("CertificateInvalid").status # "Corrupt"
      BY DEF Refusal, NoAnswer
    <2> HIDE DEF right, refused
    <2>3. QED
      BY <2>1, <2>2
  <1>3. PICK answer : /\ answer.status # "Corrupt"
                      /\ caller' = [caller EXCEPT ![c] = Answered(c, answer)]
    BY <1>2
  <1>4. /\ DOMAIN inbox' = Callers /\ inbox'[c] = <<>>
        /\ \A d \in Callers \ {c} : inbox'[d] = inbox[d]
    BY <1>1, NothingPending DEF IInv, ShapesOK
  <1>5. QED
    BY <1>1, <1>3, <1>4, NothingLeft

LEMMA ReadFailsKeeps ==
    ASSUME IInv, NEW c \in Callers, ReadFails(c)
    PROVE  IInv'
  <1>1. /\ caller[c].pc = "collect" /\ caller[c].waiting = 0
        /\ caller' = [caller EXCEPT ![c] = Answered(c, Refusal("Io"))]
        /\ DOMAIN inbox' = Callers /\ inbox'[c] = <<>>
        /\ \A d \in Callers \ {c} : inbox'[d] = inbox[d]
        /\ UNCHANGED <<pool, queue, worker, panics>>
    BY DEF ReadFails, Fails, IInv, ShapesOK
  <1>2. Refusal("Io").status # "Corrupt"
    BY DEF Refusal, NoAnswer
  <1>3. QED
    BY <1>1, <1>2, NothingLeft

\* The send fails when no thread holds the receiver: all have panicked.
LEMMA SubmitFailsKeeps ==
    ASSUME IInv, NEW c \in Callers, SubmitFails(c)
    PROVE  IInv'
  <1>1. /\ caller[c].pc # "idle" /\ ReceiverGone
        /\ caller' = [caller EXCEPT ![c] = Answered(c, Refusal("Corrupt"))]
        /\ DOMAIN inbox' = Callers /\ inbox'[c] = <<>>
        /\ \A d \in Callers \ {c} : inbox'[d] = inbox[d]
        /\ UNCHANGED <<pool, queue, worker, panics>>
    BY DEF SubmitFails, Fails, IInv, ShapesOK
  <1>2. pool = "open"
    BY <1>1 DEF IInv, SearchesInside
  <1>3. \A w \in Workers : worker[w].pc = "dead"
    BY <1>1, <1>2 DEF IInv, ShapesOK, PoolSound, ReceiverGone, Alive
  <1>4. panics = Cardinality(Workers)
    <2>1. DeadOnes(worker) = Workers
      BY <1>3 DEF DeadOnes
    <2>2. QED
      BY <1>2, <2>1 DEF IInv, PoolSound
  <1>5. queue = <<>>
    BY <1>1 DEF IInv, PoolSound
  <1>6. /\ \A i \in DOMAIN queue : queue[i].caller # c
        /\ \A w \in Workers : worker[w].pc = "running" => worker[w].job.caller # c
    BY <1>3, <1>5
  <1>7. Refusal("Corrupt").status = "Corrupt"
    BY DEF Refusal, NoAnswer
  <1>8. QED
    BY <1>1, <1>4, <1>6, <1>7, CallerAnswers

\* The receive fails when the call is owed a reply and nobody can send one: a
\* job of it was lost.
LEMMA ReceiveFailsKeeps ==
    ASSUME IInv, NEW c \in Callers, ReceiveFails(c)
    PROVE  IInv'
  <1>1. /\ caller[c].waiting > 0 /\ inbox[c] = <<>> /\ ~ SenderLeft(c)
        /\ caller' = [caller EXCEPT ![c] = Answered(c, Refusal("Corrupt"))]
        /\ DOMAIN inbox' = Callers /\ inbox'[c] = <<>>
        /\ \A d \in Callers \ {c} : inbox'[d] = inbox[d]
        /\ UNCHANGED <<pool, queue, worker, panics>>
    BY DEF ReceiveFails, Fails, IInv, ShapesOK
  <1>2. /\ Matching(queue, c, caller[c].call) = {}
        /\ RunningFor(worker, c, caller[c].call) = {}
    BY <1>1 DEF SenderLeft, Belongs, Matching, RunningFor
  <1>3. /\ \A i \in DOMAIN queue : queue[i].caller # c
        /\ \A w \in Workers : worker[w].pc = "running" => worker[w].job.caller # c
    BY <1>2, NoJobs
  <1>4. caller[c].lost
    <2>1. Pending(c) = 0
      BY <1>1, <1>2, EmptyBox, FS_EmptySet DEF Pending, Load
    <2>2. ~ caller[c].lost => caller[c].waiting <= 0
      BY <2>1 DEF IInv, CountsRight
    <2>3. caller[c].waiting \in Nat /\ caller[c].lost \in BOOLEAN
      BY DEF IInv, CallersOK, CallerOK
    <2>4. QED
      BY <1>1, <2>2, <2>3
  <1>5. Refusal("Corrupt").status = "Corrupt"
    BY DEF Refusal, NoAnswer
  <1>6. QED
    BY <1>1, <1>3, <1>4, <1>5, CallerAnswers

LEMMA ReceiveKeeps ==
    ASSUME IInv, NEW c \in Callers, Receive(c)
    PROVE  IInv'
  <1>1. /\ caller[c].pc = "collect" /\ caller[c].waiting > 0 /\ inbox[c] # <<>>
        /\ inbox' = [inbox EXCEPT ![c] = Tail(@)]
        /\ UNCHANGED <<pool, queue, worker, panics>>
    BY DEF Receive
  <1>2. /\ DOMAIN caller = Callers /\ DOMAIN inbox = Callers /\ ASeq(inbox[c])
        /\ DOMAIN caller[c] = Fields
        /\ caller[c].waiting \in Nat /\ caller[c].call \in Nat
        /\ caller[c].lost \in BOOLEAN
    BY DEF IInv, ShapesOK, CallersOK, CallerOK
  <1>3. /\ DOMAIN caller' = Callers
        /\ \A d \in Callers \ {c} : caller'[d] = caller[d]
        /\ DOMAIN caller'[c] = Fields
        /\ caller'[c].pc = caller[c].pc /\ caller'[c].call = caller[c].call
        /\ caller'[c].lost = caller[c].lost /\ caller'[c].answer = caller[c].answer
        /\ caller'[c].query = caller[c].query
        /\ caller'[c].waiting = caller[c].waiting - 1
    BY <1>2 DEF Receive, Fields
  <1>4. PICK record, box : record = caller'[c] /\ box = Tail(inbox[c])
    OBVIOUS
  <1>5. /\ DOMAIN inbox' = Callers /\ inbox'[c] = box
        /\ \A d \in Callers \ {c} : inbox'[d] = inbox[d]
    BY <1>1, <1>2, <1>4
  <1>6. ASeq(box) /\ Len(inbox[c]) \in Nat \ {0} /\ Len(box) = Len(inbox[c]) - 1
    BY <1>1, <1>2, <1>4, TailSeq
  <1>7. /\ DOMAIN record = Fields /\ record.pc = "collect"
        /\ record.call = caller[c].call /\ record.lost = caller[c].lost
        /\ record.answer = caller[c].answer /\ record.query = caller[c].query
        /\ record.waiting = caller[c].waiting - 1
    BY <1>1, <1>3, <1>4
  <1>8. CallerOK(record)
    <2>1. record.waiting \in Nat
      BY <1>1, <1>2, <1>7
    <2>2. record.lost \in BOOLEAN
      BY <1>2, <1>7, Zenon
    <2>3. QED
      BY <1>2, <1>7, <2>1, <2>2, Zenon DEF CallerOK
  <1>9. pool = "open"
    BY <1>1 DEF IInv, SearchesInside
  <1>10. /\ Len(box) + Load(queue, worker, c, record.call) <= record.waiting
         /\ ~ record.lost =>
                record.waiting <= Len(box) + Load(queue, worker, c, record.call)
         /\ record.lost =>
                Len(box) + Load(queue, worker, c, record.call) < record.waiting
    <2> DEFINE load == Load(queue, worker, c, caller[c].call)
               wait == caller[c].waiting
               len == Len(inbox[c])
    <2>1. load \in Nat /\ wait \in Nat /\ len \in Nat
      BY PendingNat DEF Load
    <2>2. /\ len + load <= wait
          /\ ~ caller[c].lost => wait <= len + load
          /\ caller[c].lost => len + load < wait
      BY <1>1 DEF IInv, CountsRight, Pending
    <2>3. Len(box) = len - 1 /\ record.waiting = wait - 1
      BY <1>6, <1>7
    <2>4. record.lost = caller[c].lost /\ Load(queue, worker, c, record.call) = load
      BY <1>7
    <2> HIDE DEF load, wait, len
    <2>5. Len(box) + load <= record.waiting
      BY <2>1, <2>2, <2>3
    <2>6. wait <= len + load => record.waiting <= Len(box) + load
      BY <2>1, <2>3
    <2>7. ~ record.lost => wait <= len + load
      BY <2>2, <2>4, Zenon
    <2>8. len + load < wait => Len(box) + load < record.waiting
      BY <2>1, <2>3
    <2>9. record.lost => len + load < wait
      BY <2>2, <2>4, Zenon
    <2>10. QED
      BY <2>4, <2>5, <2>6, <2>7, <2>8, <2>9, Zenon
  <1>11. Caused(record, panics)
    <2>1. Caused(caller[c], panics)
      BY DEF IInv, CorruptForCause, Caused
    <2>2. QED
      BY <1>7, <2>1, Zenon DEF Caused
  <1>12. /\ record.pc # "idle"
         /\ caller'[c] = record
         /\ \A d \in Callers \ {c} : caller'[d] = caller[d] /\ inbox'[d] = inbox[d]
    BY <1>3, <1>4, <1>5, <1>7
  <1>13. IF record.pc = "idle" THEN record.waiting = 0 /\ box = <<>> ELSE pool = "open"
    BY <1>9, <1>12
  <1>14. QED
    BY <1>1, <1>3, <1>5, <1>6, <1>7, <1>8, <1>10, <1>11, <1>12, <1>13, CallerMove

\* A job is queued while some thread can take it, and the call waits for one
\* reply more.
LEMMA SubmitKeeps ==
    ASSUME IInv, NEW c \in Callers, Submit(c)
    PROVE  IInv'
  <1>1. /\ caller[c].pc = "submit" /\ ~ ReceiverGone
        /\ UNCHANGED <<pool, worker, inbox, panics>>
    BY DEF Submit
  <1>2. \E job : /\ queue' = Append(queue, job)
                 /\ job.caller = c /\ job.call = caller[c].call
    BY DEF Submit
  <1>3. PICK job : /\ queue' = Append(queue, job)
                   /\ job.caller = c /\ job.call = caller[c].call
    BY <1>2
  <1>4. /\ DOMAIN caller = Callers /\ DOMAIN caller[c] = Fields /\ ASeq(queue)
        /\ caller[c].waiting \in Nat /\ caller[c].call \in Nat
        /\ caller[c].lost \in BOOLEAN
    BY DEF IInv, ShapesOK, CallersOK, CallerOK
  <1>5. /\ DOMAIN caller' = Callers
        /\ \A d \in Callers \ {c} : caller'[d] = caller[d]
        /\ DOMAIN caller'[c] = Fields
        /\ caller'[c].pc \in {"submit", "collect"}
        /\ caller'[c].call = caller[c].call
        /\ caller'[c].lost = caller[c].lost /\ caller'[c].answer = caller[c].answer
        /\ caller'[c].query = caller[c].query
        /\ caller'[c].waiting = caller[c].waiting + 1
    BY <1>4 DEF Submit, Fields
  <1>6. /\ ASeq(queue')
        /\ DOMAIN queue' = 1..(Len(queue) + 1) /\ DOMAIN queue = 1..Len(queue)
        /\ Len(queue) \in Nat
        /\ \A i \in 1..Len(queue) : queue'[i] = queue[i]
        /\ queue'[Len(queue) + 1] = job
    BY <1>3, <1>4, AppendSeq
  <1>7. \A i \in DOMAIN queue' : (i \in DOMAIN queue /\ queue'[i] = queue[i]) \/ queue'[i] = job
    BY <1>6
  <1>8. ShapesOK'
    BY <1>1, <1>6 DEF IInv, ShapesOK
  <1>9. CallersOK'
    <2>1. CallerOK(caller'[c])
      <3>1. caller'[c].waiting \in Nat
        BY <1>4, <1>5
      <3>2. caller'[c].lost \in BOOLEAN
        BY <1>4, <1>5, Zenon
      <3>3. caller'[c].pc \in {"idle", "submit", "collect"}
        BY <1>5
      <3>4. QED
        BY <1>4, <1>5, <3>1, <3>2, <3>3, Zenon DEF CallerOK
    <2>2. QED
      BY <1>5, <2>1 DEF IInv, CallersOK
  <1>10. JobsOK'
    BY <1>1, <1>3, <1>7 DEF IInv, JobsOK
  <1>11. SearchesInside'
    BY <1>1, <1>5 DEF IInv, SearchesInside
  <1>12. PoolSound'
    BY <1>1 DEF IInv, PoolSound, ReceiverGone, Alive
  <1>13. CorruptForCause'
    <2>1. \A d \in Callers : Caused(caller[d], panics)
      BY DEF IInv, CorruptForCause, Caused
    <2>2. Caused(caller'[c], panics)
      <3>1. caller'[c].pc # "idle"
        BY <1>5
      <3>2. QED
        BY <1>5, <2>1, <3>1, Zenon DEF Caused
    <2>3. QED
      BY <1>1, <1>5, <2>1, <2>2 DEF CorruptForCause, Caused
  <1>14. NoWorkAfterAnswer'
    <2>1. ASSUME NEW other, other.caller \in Callers, Waiting(other)
          PROVE  Waiting(other)'
      <3>1. caller'[other.caller].call = caller[other.caller].call
        BY <1>5, <2>1
      <3>2. caller'[other.caller].pc # "idle"
        BY <1>5, <2>1 DEF Waiting
      <3>3. QED
        BY <2>1, <3>1, <3>2 DEF Waiting, Belongs
    <2>2. ASSUME NEW i \in DOMAIN queue'
          PROVE  Waiting(queue[i])'
      <3>1. PICK other : other = queue'[i]
        OBVIOUS
      <3>2. other.caller \in Callers /\ Waiting(other)
        <4>1. CASE i \in DOMAIN queue /\ queue'[i] = queue[i]
          BY <3>1, <4>1 DEF IInv, JobsOK, NoWorkAfterAnswer
        <4>2. CASE queue'[i] = job
          BY <1>1, <1>3, <3>1, <4>2 DEF Waiting, Belongs
        <4>3. QED
          BY <1>7, <4>1, <4>2
      <3>3. Waiting(other)'
        BY <2>1, <3>2
      <3>4. QED
        BY <3>1, <3>3 DEF Waiting, Belongs
    <2>3. ASSUME NEW w \in Workers, worker'[w].pc = "running"
          PROVE  Waiting(worker[w].job)'
      <3>1. PICK other : other = worker[w].job
        OBVIOUS
      <3>2. other.caller \in Callers /\ Waiting(other)
        BY <1>1, <2>3, <3>1 DEF IInv, JobsOK, NoWorkAfterAnswer
      <3>3. Waiting(other)'
        BY <2>1, <3>2
      <3>4. QED
        BY <1>1, <3>1, <3>3 DEF Waiting, Belongs
    <2>4. QED
      BY <2>2, <2>3 DEF NoWorkAfterAnswer
  <1>15. CountsRight'
    <2> SUFFICES ASSUME NEW d \in Callers
                 PROVE  /\ Pending(d)' <= caller'[d].waiting
                        /\ ~ caller'[d].lost => caller'[d].waiting <= Pending(d)'
                        /\ caller'[d].pc # "idle" /\ caller'[d].lost =>
                              Pending(d)' < caller'[d].waiting
      BY DEF CountsRight
    <2> DEFINE n == caller[d].call
               one == IF d = c THEN 1 ELSE 0
               M == Cardinality(Matching(queue, d, n))
               R == Cardinality(RunningFor(worker, d, n))
               len == Len(inbox[d])
               wait == caller[d].waiting
    <2>1. Cardinality(Matching(queue', d, n)) = M + one
      <3>1. Cardinality(Matching(Append(queue, job), d, n)) =
                M + IF job.caller = d /\ job.call = n THEN 1 ELSE 0
        BY <1>4, MatchAppend
      <3>2. (IF job.caller = d /\ job.call = n THEN 1 ELSE 0) = one
        BY <1>3
      <3>3. QED
        BY <1>3, <3>1, <3>2
    <2>2. M \in Nat /\ R \in Nat /\ len \in Nat /\ wait \in Nat /\ one \in {0, 1}
      BY PendingNat
    <2>3. Pending(d) = len + (M + R)
      BY DEF Pending, Load
    <2>4. caller'[d].call = n /\ caller'[d].lost = caller[d].lost
      BY <1>5
    <2>5. caller'[d].waiting = wait + one
      BY <1>5, <2>2
    <2>6. Pending(d)' = len + (Cardinality(Matching(queue', d, n)) + R)
      BY <1>1, <2>4 DEF Pending, Load
    <2>7. /\ Pending(d) <= wait
          /\ ~ caller[d].lost => wait <= Pending(d)
          /\ caller[d].pc # "idle" /\ caller[d].lost => Pending(d) < wait
      BY DEF IInv, CountsRight
    <2>8. caller'[d].pc # "idle" => caller[d].pc # "idle"
      BY <1>1, <1>5
    <2> HIDE DEF n, one, M, R, len, wait
    <2>9. Pending(d)' = Pending(d) + one /\ Pending(d) \in Nat
      BY <2>1, <2>2, <2>3, <2>6
    <2>10. Pending(d)' <= caller'[d].waiting
      BY <2>2, <2>5, <2>7, <2>9
    <2>11. wait <= Pending(d) => caller'[d].waiting <= Pending(d)'
      BY <2>2, <2>5, <2>9
    <2>12. ~ caller'[d].lost => wait <= Pending(d)
      BY <2>4, <2>7, Zenon
    <2>13. Pending(d) < wait => Pending(d)' < caller'[d].waiting
      BY <2>2, <2>5, <2>9
    <2>14. caller'[d].pc # "idle" /\ caller'[d].lost => Pending(d) < wait
      BY <2>4, <2>7, <2>8, Zenon
    <2>15. QED
      BY <2>10, <2>11, <2>12, <2>13, <2>14, Zenon
  <1>16. QED
    BY <1>8, <1>9, <1>10, <1>11, <1>12, <1>13, <1>14, <1>15 DEF IInv

-----------------------------------------------------------------------------
(* The theorems. *)

LEMMA StepKeeps ==
    ASSUME IInv, [Next]_vars
    PROVE  IInv'
  <1>1. CASE UNCHANGED vars
    BY <1>1 DEF vars, IInv, ShapesOK, CallersOK, JobsOK, SearchesInside, PoolSound,
               ReceiverGone, Alive, CountsRight, Pending, NoWorkAfterAnswer, Waiting,
               Belongs, CorruptForCause
  <1>2. ASSUME NEW w \in Workers, Spawn(w) \/ WorkerStep(w) \/ Panic(w)
        PROVE  IInv'
    BY <1>2, SpawnKeeps, TakeKeeps, ReplyKeeps, ExitKeeps, PanicKeeps DEF WorkerStep
  <1>3. ASSUME NEW c \in Callers, CallerStep(c)
        PROVE  IInv'
    BY <1>3, SubmitKeeps, SubmitFailsKeeps, ReceiveKeeps, ReceiveFailsKeeps, RefineKeeps,
       ReadFailsKeeps DEF CallerStep
  <1>4. ASSUME NEW c \in Callers, NEW q \in Queries, Search(c, q)
        PROVE  IInv'
    BY <1>4, SearchKeeps
  <1>5. ASSUME SpawnFails \/ DropPool \/ Join
        PROVE  IInv'
    BY <1>5, PoolKeeps
  <1>6. CASE Done
    BY <1>1, <1>6 DEF Done
  <1>7. QED
    BY <1>1, <1>2, <1>3, <1>4, <1>5, <1>6 DEF Next

\* Counting replies: a call of select waits for exactly the replies that are
\* there, queued or being computed, unless a panicking scan took one of its
\* jobs; then it waits for more (search.rs, submit and the receive loop).
THEOREM Inductive == Spec => []IInv
  <1>1. Init => IInv
    BY InitInv
  <1>2. IInv /\ [Next]_vars => IInv'
    BY StepKeeps
  <1>3. QED
    BY <1>1, <1>2, PTL DEF Spec

\* A search that has returned, with hits or with an error, has no job queued
\* or running: the receive loop of select ends only when every reply arrived or
\* no sender of the call is left.
THEOREM LeavesNoWork == Spec => []NoWorkAfterAnswer
  <1>1. IInv => NoWorkAfterAnswer
    BY DEF IInv
  <1>2. QED
    BY <1>1, Inductive, PTL

\* A panic spoils its own search: select reports the index corrupt when the
\* pool lost one of the call's jobs, and otherwise only when the pool has no
\* thread left or prepare_query refused the vector before the first job.
THEOREM CorruptWithCause == Spec => []CorruptForCause
  <1>1. IInv => CorruptForCause
    BY DEF IInv
  <1>2. QED
    BY <1>1, Inductive, PTL

-----------------------------------------------------------------------------
(* Folds over a finite set, which the community modules define as recursive *)
(* functions on its subsets.                                                *)

\* A property that passes from a subset without one element to the subset holds
\* of all of them: a smallest one without it would be the next.
LEMMA SubsetsReached ==
    ASSUME NEW S, IsFiniteSet(S), NEW Good, {} \in Good,
           \A s \in SUBSET S : s # {} =>
               \E x \in s : s \ {x} \in Good => s \in Good
    PROVE  \A s \in SUBSET S : s \in Good
  <1> DEFINE Bad == {s \in SUBSET S : s \notin Good}
             R == StrictSubsetOrdering(S)
  <1>1. SUFFICES ASSUME Bad # {} PROVE FALSE
    OBVIOUS
  <1>2. IsWellFoundedOn(R, SUBSET S)
    BY FS_StrictSubsetOrderingWellFounded, FS_FiniteSubsetsOfFinite
  <1> HIDE DEF R
  <1>3. PICK s \in Bad : \A t \in Bad : ~ (<<t, s>> \in R)
    BY <1>1, <1>2, WFMin
  <1>4. PICK x \in s : s \ {x} \in Good => s \in Good
    BY <1>3
  <1>5. s \ {x} \in Bad
    BY <1>3, <1>4
  <1>6. <<s \ {x}, s>> \in R
    BY <1>3, <1>4 DEF R, StrictSubsetOrdering
  <1>7. QED
    BY <1>3, <1>5, <1>6

\* A set of naturals that is not empty has a least element.
LEMMA LeastNatural ==
    ASSUME NEW T, T \subseteq Nat, T # {}
    PROVE  \E x \in T : \A y \in T : ~ (y < x)
  <1> DEFINE R == {ss \in Nat \X Nat : ss[1] < ss[2]}
  <1>0. IsWellFoundedOn(R, Nat)
    BY NatLessThanWellFounded DEF OpToRel
  <1> HIDE DEF R
  <1>1. PICK x \in T : \A y \in T : ~ (<<y, x>> \in R)
    BY <1>0, WFMin
  <1>2. ASSUME NEW y \in T, y < x PROVE <<y, x>> \in R
    BY <1>2 DEF R
  <1>3. QED
    BY <1>1, <1>2

\* f folds the subsets of S up to size n, with the next element by pick.
FoldsTo(f, S, V, base, pick, step, n) ==
    /\ f \in [SUBSET S -> V]
    /\ \A s \in SUBSET S : Cardinality(s) <= n =>
          f[s] = IF s = {} THEN base ELSE step[<<pick[s], f[s \ {pick[s]}]>>]

IsFold(f, S, V, base, pick, step) ==
    /\ f \in [SUBSET S -> V]
    /\ \A s \in SUBSET S :
          f[s] = IF s = {} THEN base ELSE step[<<pick[s], f[s \ {pick[s]}]>>]

\* Such a recursion has a solution.
LEMMA FoldExists ==
    ASSUME NEW S, IsFiniteSet(S), NEW V, NEW base \in V, NEW pick, NEW step,
           \A s \in SUBSET S : s # {} => pick[s] \in s,
           \A x \in S, v \in V : step[<<x, v>>] \in V
    PROVE  \E f : IsFold(f, S, V, base, pick, step)
  <1> DEFINE N == Cardinality(S)
             Without == {n \in 0 .. N : ~ \E f : FoldsTo(f, S, V, base, pick, step, n)}
  <1>1. N \in Nat /\ \A s \in SUBSET S : IsFiniteSet(s) /\ Cardinality(s) \in 0 .. N
    BY FS_Subset, FS_CardinalityType
  <1> HIDE DEF N
  <1>2. Without = {}
    <2>1. SUFFICES ASSUME Without # {} PROVE FALSE
      OBVIOUS
    <2>2. PICK k \in Without : \A y \in Without : ~ (y < k)
      <3>1. Without \subseteq Nat
        BY SMT
      <3> HIDE DEF Without
      <3>2. QED
        BY <2>1, <3>1, LeastNatural
    <2>3. k \in 0 .. N /\ ~ \E f : FoldsTo(f, S, V, base, pick, step, k)
      BY <2>2
    <2>4. CASE k = 0
      <3> DEFINE f == [s \in SUBSET S |-> base]
      <3>1. \A s \in SUBSET S : Cardinality(s) <= 0 => s = {}
        BY <1>1, FS_EmptySet
      <3>2. FoldsTo(f, S, V, base, pick, step, 0)
        BY <3>1 DEF FoldsTo
      <3>3. QED
        BY <2>3, <2>4, <3>2
    <2>5. CASE k # 0
      <3>1. k - 1 \in 0 .. N /\ k - 1 < k
        BY <1>1, <2>3, <2>5
      <3>2. PICK g : FoldsTo(g, S, V, base, pick, step, k - 1)
        BY <2>2, <3>1
      <3> DEFINE f == [s \in SUBSET S |->
                         IF s = {} THEN base ELSE step[<<pick[s], g[s \ {pick[s]}]>>]]
      <3>3. f \in [SUBSET S -> V]
        <4>1. \A s \in SUBSET S : s # {} =>
                 step[<<pick[s], g[s \ {pick[s]}]>>] \in V
          BY <3>2 DEF FoldsTo
        <4>2. QED
          BY <4>1
      <3>4. ASSUME NEW s \in SUBSET S, Cardinality(s) <= k - 1
            PROVE  f[s] = g[s]
        BY <3>2, <3>4 DEF FoldsTo
      <3>5. ASSUME NEW s \in SUBSET S, Cardinality(s) <= k, s # {}
            PROVE  f[s \ {pick[s]}] = g[s \ {pick[s]}]
        <4>1. pick[s] \in s /\ IsFiniteSet(s) /\ Cardinality(s) \in Nat /\ k \in Nat
          BY <1>1, <2>3, <3>5
        <4>2. Cardinality(s \ {pick[s]}) = Cardinality(s) - 1
          BY <4>1, FS_RemoveElement
        <4>3. Cardinality(s \ {pick[s]}) <= k - 1
          BY <3>5, <4>1, <4>2
        <4>4. s \ {pick[s]} \in SUBSET S
          OBVIOUS
        <4> HIDE DEF f
        <4>5. QED
          BY <3>4, <4>3, <4>4
      <3>6. FoldsTo(f, S, V, base, pick, step, k)
        <4>1. \A s \in SUBSET S : f[s] = IF s = {} THEN base
                                         ELSE step[<<pick[s], g[s \ {pick[s]}]>>]
          OBVIOUS
        <4> HIDE DEF f
        <4>2. QED
          BY <3>3, <3>5, <4>1 DEF FoldsTo
      <3>7. QED
        BY <2>3, <3>6
    <2>6. QED
      BY <2>4, <2>5
  <1>3. PICK f : FoldsTo(f, S, V, base, pick, step, N)
    BY <1>1, <1>2
  <1>4. \A s \in SUBSET S : f[s] = IF s = {} THEN base
                                   ELSE step[<<pick[s], f[s \ {pick[s]}]>>]
    BY <1>1, <1>3 DEF FoldsTo
  <1>5. f \in [SUBSET S -> V]
    BY <1>3 DEF FoldsTo
  <1>6. QED
    BY <1>4, <1>5 DEF IsFold

-----------------------------------------------------------------------------
(* FoldLeft takes the elements of a sequence from the first to the last.    *)

\* The greatest of a finite set of integers, the element a fold takes last.
LEMMA MaxIs ==
    ASSUME NEW n \in Nat, NEW d \in SUBSET (1 .. n), d # {}
    PROVE  Max(d) \in d /\ \A y \in d : Max(d) >= y
  <1> DEFINE T == {n - x : x \in d}
  <1>1. T \subseteq Nat /\ T # {}
    <2>1. \A x \in d : n - x \in Nat
      BY SMT
    <2>2. QED
      BY <2>1
  <1> HIDE DEF T
  <1>2. PICK k \in T : \A y \in T : ~ (y < k)
    BY <1>1, LeastNatural
  <1>3. PICK x \in d : k = n - x
    BY DEF T
  <1>4. \A y \in d : x >= y
    <2>1. TAKE y \in d
    <2>2. n - y \in T
      BY DEF T
    <2>3. ~ (n - y < n - x)
      BY <1>2, <1>3, <2>2
    <2>4. QED
      BY <2>3
  <1>5. QED
    BY <1>4 DEF Max

\* A fold over 1 .. n takes n last.
LEMMA MaxOfInterval ==
    ASSUME NEW n \in Nat \ {0}
    PROVE  Max(1 .. n) = n /\ (1 .. n) \ {n} = 1 .. (n - 1)
  <1>1. 1 .. n # {} /\ n \in 1 .. n
    OBVIOUS
  <1>2. Max(1 .. n) \in 1 .. n /\ Max(1 .. n) >= n
    BY <1>1, MaxIs
  <1>3. QED
    BY <1>2

-----------------------------------------------------------------------------
(* Sums of row counts and tile counts. *)

\* f adds up the elements of s at the positions in each subset of D.
Adds(f, s, D) ==
    f = [d \in SUBSET D |->
           IF d = {} THEN 0 ELSE f[d \ {Max(d)}] + s[Max(d)]]

\* A sum is the value of a recursion over the subsets of the positions.
LEMMA SumIs ==
    ASSUME NEW s
    PROVE  SumOf(s) = (CHOOSE f : Adds(f, s, DOMAIN s))[DOMAIN s]
  BY DEF SumOf, FoldLeft, MapThenFoldSet, Adds

\* The recursion of a sum has a solution, with a natural number everywhere.
LEMMA SumExists ==
    ASSUME NEW s \in Seq(Nat)
    PROVE  /\ Adds((CHOOSE f : Adds(f, s, DOMAIN s)), s, DOMAIN s)
           /\ (CHOOSE f : Adds(f, s, DOMAIN s)) \in [SUBSET DOMAIN s -> Nat]
  <1> DEFINE D == 1 .. Len(s)
             pick == [d \in SUBSET D |-> Max(d)]
             step == [z \in D \X Nat |-> z[2] + s[z[1]]]
  <1>1. DOMAIN s = D /\ IsFiniteSet(D) /\ Len(s) \in Nat /\ \A x \in D : s[x] \in Nat
    <2>1. DOMAIN s = D /\ Len(s) \in Nat /\ \A x \in D : s[x] \in Nat
      OBVIOUS
    <2>2. IsFiniteSet(D)
      BY <2>1, FS_Interval
    <2>3. QED
      BY <2>1, <2>2
  <1>2. \A d \in SUBSET D : d # {} => pick[d] \in d /\ pick[d] = Max(d)
    BY <1>1, MaxIs
  <1>3. \A x \in D, v \in Nat : step[<<x, v>>] = v + s[x] /\ step[<<x, v>>] \in Nat
    BY <1>1
  <1> HIDE DEF pick, step, D
  <1>4. PICK f : IsFold(f, D, Nat, 0, pick, step)
    <2>1. \A d \in SUBSET D : d # {} => pick[d] \in d
      BY <1>2
    <2>2. \A x \in D, v \in Nat : step[<<x, v>>] \in Nat
      BY <1>3
    <2>3. IsFiniteSet(D) /\ 0 \in Nat
      BY <1>1
    <2>4. QED
      BY <2>1, <2>2, <2>3, FoldExists, Zenon
  <1>5. \A d \in SUBSET D : f[d] = IF d = {} THEN 0 ELSE f[d \ {Max(d)}] + s[Max(d)]
    <2>1. TAKE d \in SUBSET D
    <2>2. f[d] = IF d = {} THEN 0 ELSE step[<<pick[d], f[d \ {pick[d]}]>>]
      BY <1>4 DEF IsFold
    <2>3. CASE d = {}
      BY <2>2, <2>3
    <2>4. CASE d # {}
      <3>1. pick[d] \in D /\ f[d \ {pick[d]}] \in Nat /\ pick[d] = Max(d)
        BY <1>2, <1>4, <2>4 DEF IsFold
      <3>2. QED
        BY <1>3, <2>2, <2>4, <3>1
    <2>5. QED
      BY <2>3, <2>4
  <1>6. Adds(f, s, D)
    <2> DEFINE g == [d \in SUBSET D |->
                       IF d = {} THEN 0 ELSE f[d \ {Max(d)}] + s[Max(d)]]
    <2>1. \A d \in SUBSET D : g[d] = f[d]
      BY <1>5
    <2>2. f = g
      BY <1>4, <2>1 DEF IsFold
    <2>3. QED
      BY <2>2 DEF Adds
  <1>7. PICK h : h = CHOOSE ff : Adds(ff, s, D)
    OBVIOUS
  <1>8. Adds(h, s, D)
    BY <1>6, <1>7
  <1>9. h \in [SUBSET D -> Nat]
    <2> DEFINE Good == {d \in SUBSET D : h[d] \in Nat}
    <2>1. \A d \in SUBSET D : h[d] = IF d = {} THEN 0 ELSE h[d \ {Max(d)}] + s[Max(d)]
      BY <1>8 DEF Adds
    <2>2. {} \in Good
      <3>1. {} \in SUBSET D /\ h[{}] = 0
        BY <2>1
      <3>2. QED
        BY <3>1
    <2>3. \A d \in SUBSET D : d # {} => \E x \in d : d \ {x} \in Good => d \in Good
      <3>1. SUFFICES ASSUME NEW d \in SUBSET D, d # {}, d \ {Max(d)} \in Good
                     PROVE  d \in Good
        BY <1>2
      <3>2. Max(d) \in D
        BY <1>2, <3>1
      <3>3. h[d] = h[d \ {Max(d)}] + s[Max(d)]
        BY <2>1, <3>1
      <3>4. h[d \ {Max(d)}] \in Nat /\ s[Max(d)] \in Nat
        BY <1>1, <3>1, <3>2
      <3>5. QED
        BY <3>1, <3>3, <3>4
    <2> HIDE DEF Good
    <2>4. \A d \in SUBSET D : d \in Good
      BY <1>1, <2>2, <2>3, SubsetsReached
    <2>5. \A d \in SUBSET D : h[d] \in Nat
      BY <2>4 DEF Good
    <2>6. h = [d \in SUBSET D |-> h[d]]
      BY <1>8 DEF Adds
    <2>7. QED
      BY <2>5, <2>6
  <1>10. QED
    BY <1>1, <1>7, <1>8, <1>9

\* What a sum is: nothing, or the sum of what comes before and the last.
LEMMA SumUnfolds ==
    ASSUME NEW s \in Seq(Nat)
    PROVE  /\ SumOf(s) \in Nat
           /\ Len(s) = 0 => SumOf(s) = 0
           /\ \A t \in Seq(Nat) :
                 Len(t) = Len(s) + 1 /\ (\A i \in 1 .. Len(s) : t[i] = s[i])
                    => SumOf(t) = SumOf(s) + t[Len(t)]
  <1> DEFINE D == 1 .. Len(s)
  <1>1. DOMAIN s = D /\ Len(s) \in Nat /\ D \in SUBSET D /\ IsFiniteSet(D)
    BY FS_Interval
  <1>2. PICK f : f = CHOOSE ff : Adds(ff, s, D)
    OBVIOUS
  <1>3. Adds(f, s, D) /\ f \in [SUBSET D -> Nat] /\ SumOf(s) = f[D]
    BY <1>1, <1>2, SumExists, SumIs
  <1>4. \A d \in SUBSET D : f[d] = IF d = {} THEN 0 ELSE f[d \ {Max(d)}] + s[Max(d)]
    BY <1>3 DEF Adds
  <1>5. SumOf(s) \in Nat
    BY <1>1, <1>3
  <1>6. Len(s) = 0 => SumOf(s) = 0
    <2>1. SUFFICES ASSUME Len(s) = 0 PROVE SumOf(s) = 0
      OBVIOUS
    <2>2. D = {}
      BY <1>1, <2>1
    <2>3. QED
      BY <1>1, <1>3, <1>4, <2>2
  <1>7. ASSUME NEW t \in Seq(Nat), Len(t) = Len(s) + 1, \A i \in 1 .. Len(s) : t[i] = s[i]
        PROVE  SumOf(t) = SumOf(s) + t[Len(t)]
    <2> DEFINE E == 1 .. Len(t)
    <2>1. DOMAIN t = E /\ E \in SUBSET E /\ Len(t) \in Nat \ {0} /\ D \subseteq E /\ E # {}
      BY <1>1, <1>7
    <2>2. PICK g : g = CHOOSE ff : Adds(ff, t, E)
      OBVIOUS
    <2>3. Adds(g, t, E) /\ SumOf(t) = g[E]
      BY <2>1, <2>2, SumExists, SumIs
    <2>4. \A d \in SUBSET E : g[d] = IF d = {} THEN 0 ELSE g[d \ {Max(d)}] + t[Max(d)]
      BY <2>3 DEF Adds
    <2>5. Max(E) = Len(t) /\ E \ {Len(t)} = D
      <3>1. Len(t) - 1 = Len(s)
        BY <1>1, <1>7
      <3>2. QED
        BY <2>1, <3>1, MaxOfInterval
    <2>6. g[E] = g[D] + t[Len(t)]
      BY <2>1, <2>4, <2>5
    <2> DEFINE Good == {d \in SUBSET D : g[d] = f[d]}
    <2>7. {} \in Good
      BY <1>4, <2>4
    <2>8. \A d \in SUBSET D : d # {} => \E x \in d : d \ {x} \in Good => d \in Good
      <3>1. TAKE d \in SUBSET D
      <3>2. SUFFICES ASSUME d # {} PROVE \E x \in d : d \ {x} \in Good => d \in Good
        OBVIOUS
      <3>3. Max(d) \in d
        BY <1>1, <3>2, MaxIs
      <3>4. ASSUME d \ {Max(d)} \in Good PROVE d \in Good
        <4>1. d \in SUBSET E /\ Max(d) \in D
          BY <2>1, <3>3
        <4>2. t[Max(d)] = s[Max(d)]
          BY <1>7, <4>1
        <4>3. g[d] = g[d \ {Max(d)}] + t[Max(d)]
          BY <2>4, <3>2, <4>1
        <4>4. f[d] = f[d \ {Max(d)}] + s[Max(d)]
          BY <1>4, <3>2
        <4>5. QED
          BY <3>4, <4>2, <4>3, <4>4
      <3>5. QED
        BY <3>3, <3>4
    <2> HIDE DEF Good, D, E
    <2>9. \A d \in SUBSET D : d \in Good
      BY <1>1, <2>7, <2>8, SubsetsReached
    <2>10. g[D] = f[D]
      BY <1>1, <2>9 DEF Good
    <2>11. QED
      BY <1>3, <2>3, <2>6, <2>10
  <1>8. QED
    BY <1>5, <1>6, <1>7

-----------------------------------------------------------------------------
(* Segments and tiles: every row is in one tile of one segment. *)

\* A sequence that never falls from one element to the next is ordered.
LEMMA StepsGrow ==
    ASSUME NEW n \in Nat, NEW f \in [1 .. n -> Nat],
           \A i \in 1 .. n - 1 : f[i] <= f[i + 1]
    PROVE  \A i, j \in 1 .. n : i <= j => f[i] <= f[j]
  <1> SUFFICES ASSUME NEW i \in 1 .. n PROVE \A j \in 1 .. n : i <= j => f[i] <= f[j]
    OBVIOUS
  <1> DEFINE T == {j \in 1 .. n : i <= j /\ ~ (f[i] <= f[j])}
  <1>1. SUFFICES ASSUME T # {} PROVE FALSE
    OBVIOUS
  <1>2. T \subseteq Nat
    BY SMT
  <1> HIDE DEF T
  <1>3. PICK j \in T : \A k \in T : ~ (k < j)
    BY <1>1, <1>2, LeastNatural
  <1>4. j \in 1 .. n /\ i <= j /\ ~ (f[i] <= f[j])
    BY <1>3 DEF T
  <1>5. i # j
    BY <1>4
  <1>6. j - 1 \in 1 .. n /\ j - 1 \in 1 .. n - 1 /\ i <= j - 1 /\ j - 1 < j /\ (j - 1) + 1 = j
    BY <1>4, <1>5
  <1>7. f[j - 1] <= f[j]
    BY <1>6
  <1>8. ~ (f[i] <= f[j - 1])
    BY <1>4, <1>6, <1>7
  <1>9. j - 1 \in T
    BY <1>6, <1>8 DEF T
  <1>10. QED
    BY <1>3, <1>6, <1>9

\* n rows need one tile more than the whole tiles before the last row.
LEMMA TilesCover ==
    ASSUME NEW n \in Nat \ {0}, NEW x \in 0 .. n - 1
    PROVE  /\ x \div TileRows \in Nat
           /\ (n + TileRows - 1) \div TileRows \in Nat
           /\ x \div TileRows < (n + TileRows - 1) \div TileRows
  <1>1. TileRows \in Nat \ {0}
    BY SearchAssumption
  <1> DEFINE a == x \div TileRows
             m == n + TileRows - 1
             b == m \div TileRows
  <1>2. m \in Nat /\ x \in Nat
    BY <1>1
  <1> HIDE DEF m
  <1>3. a \in Nat /\ b \in Nat
    BY <1>1, <1>2
  <1>4. a * TileRows <= x
    BY <1>1, <1>2
  <1>5. m < (b + 1) * TileRows
    BY <1>1, <1>2
  <1>6. x + TileRows <= m
    BY <1>1 DEF m
  <1> HIDE DEF a, b
  <1>7. (a + 1) * TileRows < (b + 1) * TileRows
    <2>1. (a + 1) * TileRows = a * TileRows + TileRows
      BY <1>1, <1>3
    <2>2. a * TileRows \in Nat /\ (b + 1) * TileRows \in Nat
      BY <1>1, <1>3
    <2>3. QED
      BY <1>1, <1>2, <1>4, <1>5, <1>6, <2>1, <2>2
  <1>8. a < b
    <2> SUFFICES ASSUME b <= a PROVE FALSE
      BY <1>3
    <2>1. (b + 1) * TileRows <= (a + 1) * TileRows
      BY <1>1, <1>3
    <2>2. (b + 1) * TileRows \in Nat /\ (a + 1) * TileRows \in Nat
      BY <1>1, <1>3
    <2>3. QED
      BY <1>7, <2>1, <2>2
  <1>9. QED
    BY <1>3, <1>8 DEF a, b, m

\* The number of segments.
Segments == Len(RowCounts)

\* The segments lie one after the other from row 0 to the last.
LEMMA FirstRows ==
    /\ Segments \in Nat \ {0} /\ DOMAIN RowCounts = 1 .. Segments
    /\ \A s \in 1 .. Segments : RowCounts[s] \in Nat \ {0}
    /\ \A s \in 1 .. Segments + 1 : FirstRow(s) \in Nat
    /\ FirstRow(1) = 0
    /\ \A s \in 1 .. Segments : FirstRow(s + 1) = FirstRow(s) + RowCounts[s]
    /\ FirstRow(Segments + 1) = RowTotal
  <1>1. RowCounts \in Seq(Nat \ {0}) /\ RowCounts # <<>>
    BY SearchAssumption
  <1>2. /\ Segments \in Nat \ {0} /\ DOMAIN RowCounts = 1 .. Segments
        /\ \A s \in 1 .. Segments : RowCounts[s] \in Nat \ {0}
    BY <1>1 DEF Segments
  <1>3. RowCounts \in Seq(Nat)
    BY <1>1
  <1> DEFINE P(s) == SubSeq(RowCounts, 1, s - 1)
  <1>4. ASSUME NEW s \in 1 .. Segments + 1
        PROVE  /\ P(s) \in Seq(Nat) /\ Len(P(s)) = s - 1
               /\ \A i \in 1 .. s - 1 : P(s)[i] = RowCounts[i]
    BY <1>2, <1>3 DEF Segments
  <1> HIDE DEF P
  <1>5. \A s \in 1 .. Segments + 1 : FirstRow(s) = SumOf(P(s))
    BY DEF FirstRow, P
  <1>6. \A s \in 1 .. Segments + 1 : FirstRow(s) \in Nat
    BY <1>4, <1>5, SumUnfolds
  <1>7. FirstRow(1) = 0
    <2>1. 1 \in 1 .. Segments + 1
      BY <1>2
    <2>2. P(1) \in Seq(Nat) /\ Len(P(1)) = 0
      BY <1>4, <2>1
    <2>3. QED
      BY <1>5, <2>1, <2>2, SumUnfolds
  <1>8. ASSUME NEW s \in 1 .. Segments
        PROVE  FirstRow(s + 1) = FirstRow(s) + RowCounts[s]
    <2>1. s \in 1 .. Segments + 1 /\ s + 1 \in 1 .. Segments + 1 /\ (s + 1) - 1 = s
      BY <1>2
    <2>2. P(s) \in Seq(Nat) /\ Len(P(s)) = s - 1
          /\ \A i \in 1 .. s - 1 : P(s)[i] = RowCounts[i]
      BY <1>4, <2>1
    <2>3. P(s + 1) \in Seq(Nat) /\ Len(P(s + 1)) = s
          /\ \A i \in 1 .. s : P(s + 1)[i] = RowCounts[i]
      BY <1>4, <2>1
    <2>4. Len(P(s + 1)) = Len(P(s)) + 1
      BY <2>2, <2>3
    <2>5. \A i \in 1 .. Len(P(s)) : P(s + 1)[i] = P(s)[i]
      BY <2>2, <2>3
    <2>6. SumOf(P(s + 1)) = SumOf(P(s)) + P(s + 1)[Len(P(s + 1))]
      BY <2>2, <2>3, <2>4, <2>5, SumUnfolds
    <2>7. P(s + 1)[Len(P(s + 1))] = RowCounts[s]
      BY <2>3
    <2>8. QED
      BY <1>5, <2>1, <2>6, <2>7
  <1>9. FirstRow(Segments + 1) = RowTotal
    <2>1. Segments + 1 \in 1 .. Segments + 1 /\ (Segments + 1) - 1 = Segments
      BY <1>2
    <2>2. P(Segments + 1) = RowCounts
      BY <1>2, <1>3, <2>1 DEF Segments, P
    <2>3. QED
      BY <1>5, <2>1, <2>2 DEF RowTotal
  <1>10. QED
    BY <1>2, <1>6, <1>7, <1>8, <1>9

\* The rows of the index are finitely many naturals.
LEMMA RowsKnown == RowTotal \in Nat /\ Rows \subseteq Nat /\ IsFiniteSet(Rows)
                   /\ Cardinality(Rows) = RowTotal
  <1>1. RowTotal \in Nat
    <2>1. Segments + 1 \in 1 .. Segments + 1
      BY FirstRows
    <2>2. QED
      BY <2>1, FirstRows
  <1>2. Rows \subseteq Nat
    BY <1>1 DEF Rows
  <1>3. QED
    BY <1>1, <1>2, FS_Interval DEF Rows

\* The tiles of the segments lie one after the other, one or more of each.
LEMMA TileStarts ==
    /\ \A s \in 1 .. Segments + 1 : TileStart(s) \in Nat
    /\ TileStart(1) = 0
    /\ \A s \in 1 .. Segments : TileCount(s) \in Nat \ {0}
    /\ \A s \in 1 .. Segments : TileStart(s + 1) = TileStart(s) + TileCount(s)
    /\ Tiles = TileStart(Segments + 1)
  <1> DEFINE P(s) == [i \in 1 .. s - 1 |-> TileCount(i)]
  <1>1. ASSUME NEW s \in 1 .. Segments PROVE TileCount(s) \in Nat \ {0}
    <2>1. RowCounts[s] \in Nat \ {0} /\ 0 \in 0 .. RowCounts[s] - 1
      BY FirstRows
    <2>2. QED
      BY <2>1, TilesCover DEF TileCount
  <1>2. Segments \in Nat
    BY FirstRows
  <1>3. ASSUME NEW s \in 1 .. Segments + 1
        PROVE  /\ P(s) \in Seq(Nat) /\ Len(P(s)) = s - 1
               /\ \A i \in 1 .. s - 1 : P(s)[i] = TileCount(i)
    <2>1. s - 1 \in Nat /\ \A i \in 1 .. s - 1 : i \in 1 .. Segments
      BY <1>2
    <2>2. P(s) \in [1 .. s - 1 -> Nat]
      BY <1>1, <2>1
    <2>3. QED
      BY <2>1, <2>2
  <1> HIDE DEF P
  <1>4. \A s \in 1 .. Segments + 1 : TileStart(s) = SumOf(P(s))
    BY DEF TileStart, P
  <1>5. \A s \in 1 .. Segments + 1 : TileStart(s) \in Nat
    BY <1>3, <1>4, SumUnfolds
  <1>6. TileStart(1) = 0
    <2>1. 1 \in 1 .. Segments + 1
      BY <1>2
    <2>2. P(1) \in Seq(Nat) /\ Len(P(1)) = 0
      BY <1>3, <2>1
    <2>3. QED
      BY <1>4, <2>1, <2>2, SumUnfolds
  <1>7. ASSUME NEW s \in 1 .. Segments
        PROVE  TileStart(s + 1) = TileStart(s) + TileCount(s)
    <2>1. s \in 1 .. Segments + 1 /\ s + 1 \in 1 .. Segments + 1 /\ (s + 1) - 1 = s
      BY <1>2
    <2>2. P(s) \in Seq(Nat) /\ Len(P(s)) = s - 1
          /\ \A i \in 1 .. s - 1 : P(s)[i] = TileCount(i)
      BY <1>3, <2>1
    <2>3. P(s + 1) \in Seq(Nat) /\ Len(P(s + 1)) = s
          /\ \A i \in 1 .. s : P(s + 1)[i] = TileCount(i)
      BY <1>3, <2>1
    <2>4. Len(P(s + 1)) = Len(P(s)) + 1
      BY <2>2, <2>3
    <2>5. \A i \in 1 .. Len(P(s)) : P(s + 1)[i] = P(s)[i]
      BY <2>2, <2>3
    <2>6. SumOf(P(s + 1)) = SumOf(P(s)) + P(s + 1)[Len(P(s + 1))]
      BY <2>2, <2>3, <2>4, <2>5, SumUnfolds
    <2>7. P(s + 1)[Len(P(s + 1))] = TileCount(s)
      BY <2>3
    <2>8. QED
      BY <1>4, <2>1, <2>6, <2>7
  <1>8. QED
    BY <1>1, <1>5, <1>6, <1>7 DEF Tiles, Segments

\* A later segment starts at a later row and a later tile.
LEMMA StartsOrdered ==
    /\ \A s, t \in 1 .. Segments + 1 : s <= t => FirstRow(s) <= FirstRow(t)
    /\ \A s, t \in 1 .. Segments + 1 : s <= t => TileStart(s) <= TileStart(t)
  <1>1. Segments \in Nat /\ Segments + 1 \in Nat /\ (Segments + 1) - 1 = Segments
    BY FirstRows
  <1>2. \A s, t \in 1 .. Segments + 1 : s <= t => FirstRow(s) <= FirstRow(t)
    <2> DEFINE f == [s \in 1 .. Segments + 1 |-> FirstRow(s)]
    <2>1. f \in [1 .. Segments + 1 -> Nat]
      BY FirstRows
    <2>2. \A i \in 1 .. (Segments + 1) - 1 : f[i] <= f[i + 1]
      <3>1. TAKE i \in 1 .. (Segments + 1) - 1
      <3>2. i \in 1 .. Segments /\ i \in 1 .. Segments + 1 /\ i + 1 \in 1 .. Segments + 1
        BY <1>1
      <3>3. QED
        BY <3>2, FirstRows
    <2>3. \A s \in 1 .. Segments + 1 : f[s] = FirstRow(s)
      OBVIOUS
    <2> HIDE DEF f
    <2>4. \A s, t \in 1 .. Segments + 1 : s <= t => f[s] <= f[t]
      BY <1>1, <2>1, <2>2, StepsGrow
    <2>5. QED
      BY <2>3, <2>4
  <1>3. \A s, t \in 1 .. Segments + 1 : s <= t => TileStart(s) <= TileStart(t)
    <2> DEFINE f == [s \in 1 .. Segments + 1 |-> TileStart(s)]
    <2>1. f \in [1 .. Segments + 1 -> Nat]
      BY TileStarts
    <2>2. \A i \in 1 .. (Segments + 1) - 1 : f[i] <= f[i + 1]
      <3>1. TAKE i \in 1 .. (Segments + 1) - 1
      <3>2. i \in 1 .. Segments /\ i \in 1 .. Segments + 1 /\ i + 1 \in 1 .. Segments + 1
        BY <1>1
      <3>3. QED
        BY <3>2, TileStarts
    <2>3. \A s \in 1 .. Segments + 1 : f[s] = TileStart(s)
      OBVIOUS
    <2> HIDE DEF f
    <2>4. \A s, t \in 1 .. Segments + 1 : s <= t => f[s] <= f[t]
      BY <1>1, <2>1, <2>2, StepsGrow
    <2>5. QED
      BY <2>3, <2>4
  <1>4. QED
    BY <1>2, <1>3

\* The rows of a segment, and the tile of one of them.
RowsIn(s) == FirstRow(s) .. FirstRow(s) + RowCounts[s] - 1
TileOf(s, r) == TileStart(s) + (r - FirstRow(s)) \div TileRows

\* A row of a segment is a row of the index, in a tile of it, and of no other.
LEMMA RowPlaced ==
    ASSUME NEW s \in 1 .. Segments, NEW r \in RowsIn(s)
    PROVE  /\ r \in Rows
           /\ TileOf(s, r) \in 0 .. Tiles - 1
           /\ \A t \in 1 .. Segments : r \in RowsIn(t) => t = s
  <1>1. /\ s \in 1 .. Segments + 1 /\ s + 1 \in 1 .. Segments + 1 /\ Segments + 1 \in 1 .. Segments + 1
        /\ s + 1 <= Segments + 1
    BY FirstRows
  <1>2. /\ FirstRow(s) \in Nat /\ RowCounts[s] \in Nat \ {0}
        /\ FirstRow(s) + RowCounts[s] <= RowTotal /\ RowTotal \in Nat
    <2>1. FirstRow(s + 1) <= FirstRow(Segments + 1)
      BY <1>1, StartsOrdered
    <2>2. QED
      BY <1>1, <2>1, FirstRows
  <1>3. r \in Rows
    BY <1>2 DEF RowsIn, Rows
  <1>4. TileOf(s, r) \in 0 .. Tiles - 1
    <2>1. r - FirstRow(s) \in 0 .. RowCounts[s] - 1
      BY <1>2 DEF RowsIn
    <2>2. /\ (r - FirstRow(s)) \div TileRows \in Nat
          /\ TileCount(s) \in Nat
          /\ (r - FirstRow(s)) \div TileRows < TileCount(s)
      BY <1>2, <2>1, TilesCover DEF TileCount
    <2>3. /\ TileStart(s) \in Nat /\ TileStart(s) + TileCount(s) <= Tiles /\ Tiles \in Nat
      <3>1. TileStart(s + 1) <= TileStart(Segments + 1)
        BY <1>1, StartsOrdered
      <3>2. QED
        BY <1>1, <3>1, TileStarts
    <2>4. QED
      BY <2>2, <2>3 DEF TileOf
  <1>5. ASSUME NEW t \in 1 .. Segments, r \in RowsIn(t), t # s PROVE FALSE
    <2>1. /\ t \in 1 .. Segments + 1 /\ t + 1 \in 1 .. Segments + 1 /\ Segments \in Nat
      BY FirstRows
    <2>2. /\ FirstRow(t) \in Nat /\ RowCounts[t] \in Nat
          /\ FirstRow(t + 1) = FirstRow(t) + RowCounts[t]
          /\ FirstRow(s + 1) = FirstRow(s) + RowCounts[s]
      BY <2>1, FirstRows
    <2>3. CASE s < t
      <3>1. FirstRow(s + 1) <= FirstRow(t)
        BY <1>1, <2>1, <2>3, StartsOrdered
      <3>2. QED
        BY <1>2, <1>5, <2>2, <3>1 DEF RowsIn
    <2>4. CASE t < s
      <3>1. FirstRow(t + 1) <= FirstRow(s)
        BY <1>1, <2>1, <2>4, StartsOrdered
      <3>2. QED
        BY <1>2, <1>5, <2>2, <3>1 DEF RowsIn
    <2>5. QED
      BY <1>5, <2>1, <2>3, <2>4
  <1>6. QED
    BY <1>3, <1>4, <1>5

\* Every row of the index is in a segment.
LEMMA SegmentFound ==
    ASSUME NEW r \in Rows
    PROVE  \E s \in 1 .. Segments : r \in RowsIn(s)
  <1> DEFINE T == {t \in 1 .. Segments + 1 : r < FirstRow(t)}
  <1>1. Segments + 1 \in T
    BY FirstRows, RowsKnown DEF Rows
  <1>2. T \subseteq Nat
    BY FirstRows
  <1> HIDE DEF T
  <1>3. PICK t \in T : \A y \in T : ~ (y < t)
    BY <1>1, <1>2, LeastNatural
  <1>4. t \in 1 .. Segments + 1 /\ r < FirstRow(t) /\ Segments \in Nat /\ r \in Nat
    BY <1>3, FirstRows, RowsKnown DEF T
  <1>5. t # 1
    BY <1>4, FirstRows
  <1>6. t - 1 \in 1 .. Segments /\ t - 1 \in 1 .. Segments + 1 /\ t - 1 < t /\ (t - 1) + 1 = t
    BY <1>4, <1>5
  <1>7. FirstRow(t - 1) <= r
    <2>1. t - 1 \notin T
      BY <1>3, <1>6
    <2>2. ~ (r < FirstRow(t - 1)) /\ FirstRow(t - 1) \in Nat
      BY <1>6, <2>1, FirstRows DEF T
    <2>3. QED
      BY <1>4, <2>2
  <1>8. FirstRow(t) = FirstRow(t - 1) + RowCounts[t - 1]
    BY <1>6, FirstRows
  <1>9. FirstRow(t - 1) \in Nat /\ RowCounts[t - 1] \in Nat
    BY <1>6, FirstRows
  <1>10. r \in RowsIn(t - 1)
    BY <1>4, <1>7, <1>8, <1>9 DEF RowsIn
  <1>11. QED
    BY <1>6, <1>10

\* A range of tiles has the rows whose tile is in the range.
LEMMA TileRange ==
    ASSUME NEW b \in Int, NEW e \in Int, NEW r
    PROVE  r \in RowsOfTiles(b, e) <=>
               \E s \in 1 .. Segments : r \in RowsIn(s) /\ TileOf(s, r) \in b .. e - 1
  <1>1. DOMAIN RowCounts = 1 .. Segments
    BY FirstRows
  <1> DEFINE part(s) == {x \in RowsIn(s) : TileOf(s, x) \in b .. e - 1}
  <1>2. RowsOfTiles(b, e) = UNION {part(s) : s \in 1 .. Segments}
    BY <1>1, Zenon DEF RowsOfTiles, RowsIn, TileOf
  <1>3. \A s : r \in part(s) <=> r \in RowsIn(s) /\ TileOf(s, r) \in b .. e - 1
    BY Zenon
  <1> HIDE DEF part
  <1>4. r \in RowsOfTiles(b, e) <=> \E s \in 1 .. Segments : r \in part(s)
    BY <1>2
  <1>5. QED
    BY <1>3, <1>4, Zenon

\* How a range of tiles divides the rows.
LEMMA TilesSplit ==
    /\ \A b, e \in Int : RowsOfTiles(b, e) \subseteq Rows
    /\ \A b, e \in Int : b >= e => RowsOfTiles(b, e) = {}
    /\ \A b, m, e \in Int : b <= m /\ m <= e =>
          /\ RowsOfTiles(b, e) = RowsOfTiles(b, m) \cup RowsOfTiles(m, e)
          /\ RowsOfTiles(b, m) \cap RowsOfTiles(m, e) = {}
    /\ RowsOfTiles(0, Tiles) = Rows
    /\ Tiles \in Nat \ {0}
  <1>0. Tiles \in Nat \ {0}
    <2>1. /\ 1 \in 1 .. Segments /\ 2 \in 1 .. Segments + 1 /\ 2 <= Segments + 1
          /\ 1 + 1 = 2 /\ 1 \in 1 .. Segments + 1 /\ Segments + 1 \in 1 .. Segments + 1
      BY FirstRows
    <2>2. TileStart(2) = TileStart(1) + TileCount(1) /\ TileStart(2) <= TileStart(Segments + 1)
      BY <2>1, TileStarts, StartsOrdered
    <2>3. TileStart(1) = 0 /\ TileCount(1) \in Nat \ {0} /\ TileStart(Segments + 1) \in Nat
      BY <2>1, TileStarts
    <2>4. QED
      BY <2>2, <2>3, TileStarts
  <1>1. ASSUME NEW b \in Int, NEW e \in Int PROVE RowsOfTiles(b, e) \subseteq Rows
    BY TileRange, RowPlaced
  <1>2. ASSUME NEW b \in Int, NEW e \in Int, b >= e PROVE RowsOfTiles(b, e) = {}
    <2>1. b .. e - 1 = {}
      BY <1>2
    <2>2. QED
      BY <2>1, TileRange
  <1>3. ASSUME NEW b \in Int, NEW m \in Int, NEW e \in Int, b <= m, m <= e
        PROVE  /\ RowsOfTiles(b, e) = RowsOfTiles(b, m) \cup RowsOfTiles(m, e)
               /\ RowsOfTiles(b, m) \cap RowsOfTiles(m, e) = {}
    <2>1. /\ b .. e - 1 = (b .. m - 1) \cup (m .. e - 1)
          /\ (b .. m - 1) \cap (m .. e - 1) = {}
      BY <1>3
    <2>2. ASSUME NEW r
          PROVE  r \in RowsOfTiles(b, e) <=> r \in RowsOfTiles(b, m) \/ r \in RowsOfTiles(m, e)
      <3>1. /\ r \in RowsOfTiles(b, e) <=>
                  \E s \in 1 .. Segments : r \in RowsIn(s) /\ TileOf(s, r) \in b .. e - 1
            /\ r \in RowsOfTiles(b, m) <=>
                  \E s \in 1 .. Segments : r \in RowsIn(s) /\ TileOf(s, r) \in b .. m - 1
            /\ r \in RowsOfTiles(m, e) <=>
                  \E s \in 1 .. Segments : r \in RowsIn(s) /\ TileOf(s, r) \in m .. e - 1
        BY TileRange
      <3>2. \A x : x \in b .. e - 1 <=> x \in b .. m - 1 \/ x \in m .. e - 1
        BY <2>1, Zenon
      <3>3. QED
        BY <3>1, <3>2, Zenon
    <2>3. ASSUME NEW r, r \in RowsOfTiles(b, m), r \in RowsOfTiles(m, e)
          PROVE  FALSE
      <3>1. PICK s \in 1 .. Segments : r \in RowsIn(s) /\ TileOf(s, r) \in b .. m - 1
        BY <2>3, TileRange
      <3>2. PICK t \in 1 .. Segments : r \in RowsIn(t) /\ TileOf(t, r) \in m .. e - 1
        BY <2>3, TileRange
      <3>3. t = s
        BY <3>1, <3>2, RowPlaced
      <3>4. TileOf(s, r) \in (b .. m - 1) \cap (m .. e - 1)
        BY <3>1, <3>2, <3>3, Zenon
      <3>5. QED
        BY <2>1, <3>4, Zenon
    <2>4. QED
      BY <2>2, <2>3
  <1>4. RowsOfTiles(0, Tiles) = Rows
    <2>1. ASSUME NEW r \in Rows PROVE r \in RowsOfTiles(0, Tiles)
      <3>1. PICK s \in 1 .. Segments : r \in RowsIn(s)
        BY SegmentFound
      <3>2. TileOf(s, r) \in 0 .. Tiles - 1
        BY <3>1, RowPlaced
      <3>3. 0 \in Int /\ Tiles \in Int
        BY <1>0
      <3>4. QED
        BY <3>1, <3>2, <3>3, TileRange
    <2>2. QED
      BY <1>0, <1>1, <2>1
  <1>5. QED
    BY <1>0, <1>1, <1>2, <1>3, <1>4

-----------------------------------------------------------------------------
(* Sorting. *)

\* R orders S, and no two of its elements alike.
Orders(R, S) ==
    /\ \A x \in S : <<x, x>> \notin R
    /\ \A x, y \in S : x # y => <<x, y>> \in R \/ <<y, x>> \in R
    /\ \A x, y, z \in S : <<x, y>> \in R /\ <<y, z>> \in R => <<x, z>> \in R

\* The elements of S that come before x.
Before(R, S, x) == {y \in S : <<y, x>> \in R}

InOrder(order, R, S) ==
    /\ order \in [1 .. Cardinality(S) -> S]
    /\ \A i, j \in 1 .. Cardinality(S) : i < j => <<order[i], order[j]>> \in R

\* In an order, a later element has more before it.
LEMMA BeforeCounts ==
    ASSUME NEW S, IsFiniteSet(S), NEW R, Orders(R, S)
    PROVE  /\ Cardinality(S) \in Nat
           /\ \A x \in S : /\ Cardinality(Before(R, S, x)) \in Nat
                           /\ Cardinality(Before(R, S, x)) < Cardinality(S)
           /\ \A x, y \in S : <<x, y>> \in R =>
                 Cardinality(Before(R, S, x)) < Cardinality(Before(R, S, y))
  <1>1. Cardinality(S) \in Nat
    BY FS_CardinalityType
  <1>2. ASSUME NEW U, NEW T, U \subseteq T, U # T, T \subseteq S
        PROVE  /\ Cardinality(U) \in Nat /\ Cardinality(U) < Cardinality(T)
               /\ Cardinality(T) \in Nat
    <2>1. IsFiniteSet(T) /\ IsFiniteSet(U)
      BY <1>2, FS_Subset
    <2>2. Cardinality(T) \in Nat /\ Cardinality(U) \in Nat
      BY <2>1, FS_CardinalityType
    <2>3. Cardinality(U) <= Cardinality(T) /\ (Cardinality(T) = Cardinality(U) => T = U)
      BY <1>2, <2>1, FS_Subset
    <2>4. QED
      BY <1>2, <2>2, <2>3
  <1>3. ASSUME NEW x \in S
        PROVE  /\ Cardinality(Before(R, S, x)) \in Nat
               /\ Cardinality(Before(R, S, x)) < Cardinality(S)
    <2>1. Before(R, S, x) \subseteq S /\ x \notin Before(R, S, x)
      BY DEF Before, Orders
    <2>2. QED
      BY <1>2, <2>1
  <1>4. ASSUME NEW x \in S, NEW y \in S, <<x, y>> \in R
        PROVE  Cardinality(Before(R, S, x)) < Cardinality(Before(R, S, y))
    <2>1. Before(R, S, x) \subseteq Before(R, S, y)
      BY <1>4 DEF Before, Orders
    <2>2. x \in Before(R, S, y) /\ x \notin Before(R, S, x) /\ Before(R, S, y) \subseteq S
      BY <1>4 DEF Before, Orders
    <2>3. QED
      BY <1>2, <2>1, <2>2
  <1>5. QED
    BY <1>1, <1>3, <1>4

\* A finite set can be put in order.
LEMMA SortExists ==
    ASSUME NEW S, IsFiniteSet(S), NEW R, Orders(R, S)
    PROVE  \E order : InOrder(order, R, S)
  <1> DEFINE n == Cardinality(S)
             rank == [x \in S |-> Cardinality(Before(R, S, x)) + 1]
             order == [i \in 1 .. n |-> CHOOSE x \in S : rank[x] = i]
  <1>1. n \in Nat /\ \A x \in S : rank[x] \in 1 .. n
    BY BeforeCounts
  <1>2. \A x, y \in S : <<x, y>> \in R => rank[x] < rank[y]
    BY BeforeCounts
  <1> HIDE DEF n, rank
  <1>3. \A x, y \in S : x # y => rank[x] # rank[y]
    <2>1. TAKE x \in S, y \in S
    <2>2. SUFFICES ASSUME x # y PROVE rank[x] # rank[y]
      OBVIOUS
    <2>3. rank[x] < rank[y] \/ rank[y] < rank[x]
      BY <1>2, <2>2 DEF Orders
    <2>4. rank[x] \in Nat /\ rank[y] \in Nat
      BY <1>1
    <2>5. QED
      BY <2>3, <2>4
  <1>4. rank \in Injection(S, 1 .. n)
    <2>1. rank \in [S -> 1 .. n]
      BY <1>1 DEF rank
    <2>2. QED
      BY <1>3, <2>1 DEF Injection, IsInjective
  <1>5. IsFiniteSet(1 .. n) /\ Cardinality(1 .. n) = n
    <2>1. 1 \in Int /\ n \in Int
      BY <1>1
    <2>2. IsFiniteSet(1 .. n) /\ Cardinality(1 .. n) = IF 1 > n THEN 0 ELSE n - 1 + 1
      BY <2>1, FS_Interval
    <2>3. QED
      BY <1>1, <2>2
  <1>6. rank \in Surjection(S, 1 .. n)
    BY <1>4, <1>5, FS_Injection DEF n
  <1>7. \A i \in 1 .. n : \E x \in S : rank[x] = i
    BY <1>6 DEF Surjection
  <1>8. \A i \in 1 .. n : order[i] \in S /\ rank[order[i]] = i
    BY <1>7
  <1>9. order \in [1 .. n -> S]
    BY <1>8
  <1> HIDE DEF order
  <1>10. ASSUME NEW i \in 1 .. n, NEW j \in 1 .. n, i < j
         PROVE  <<order[i], order[j]>> \in R
    <2>1. rank[order[i]] = i /\ rank[order[j]] = j
      BY <1>8
    <2>2. order[i] # order[j] /\ ~ (rank[order[j]] < rank[order[i]])
      BY <1>10, <2>1
    <2>3. order[i] \in S /\ order[j] \in S
      BY <1>8
    <2>4. QED
      BY <1>2, <2>2, <2>3 DEF Orders
  <1>11. InOrder(order, R, S)
    BY <1>9, <1>10 DEF InOrder, n
  <1>12. QED
    BY <1>11

\* A set in order: each element once, after as many as its place says.
LEMMA SortedPlaces ==
    ASSUME NEW S, IsFiniteSet(S), NEW R, Orders(R, S), NEW order, InOrder(order, R, S)
    PROVE  /\ Cardinality(S) \in Nat
           /\ \A i \in 1 .. Cardinality(S) : order[i] \in S
           /\ \A x \in S : \E i \in 1 .. Cardinality(S) : order[i] = x
           /\ \A i, j \in 1 .. Cardinality(S) : i # j => order[i] # order[j]
           /\ \A i \in 1 .. Cardinality(S) :
                 Cardinality(Before(R, S, order[i])) = i - 1
  <1> DEFINE n == Cardinality(S)
  <1>1. n \in Nat
    BY FS_CardinalityType
  <1>2. order \in [1 .. n -> S] /\ \A i, j \in 1 .. n : i < j => <<order[i], order[j]>> \in R
    BY DEF InOrder
  <1>3. IsFiniteSet(1 .. n) /\ Cardinality(1 .. n) = n
    <2>1. 1 \in Int /\ n \in Int
      BY <1>1
    <2>2. IsFiniteSet(1 .. n) /\ Cardinality(1 .. n) = IF 1 > n THEN 0 ELSE n - 1 + 1
      BY <2>1, FS_Interval
    <2>3. QED
      BY <1>1, <2>2
  <1> HIDE DEF n
  <1>4. \A i, j \in 1 .. n : i # j => order[i] # order[j]
    <2>1. TAKE i \in 1 .. n, j \in 1 .. n
    <2>2. SUFFICES ASSUME i # j PROVE order[i] # order[j]
      OBVIOUS
    <2>3. i < j \/ j < i
      BY <1>1, <2>2
    <2>4. order[i] \in S /\ order[j] \in S
      BY <1>2
    <2>5. QED
      BY <1>2, <2>3, <2>4 DEF Orders
  <1>5. order \in Injection(1 .. n, S)
    BY <1>2, <1>4 DEF Injection, IsInjective
  <1>6. order \in Surjection(1 .. n, S)
    BY <1>3, <1>5, FS_Injection DEF n
  <1>7. \A x \in S : \E i \in 1 .. n : order[i] = x
    BY <1>6 DEF Surjection
  <1>8. ASSUME NEW i \in 1 .. n
        PROVE  Cardinality(Before(R, S, order[i])) = i - 1
    <2> DEFINE m == i - 1
               T == Before(R, S, order[i])
               g == [j \in 1 .. m |-> order[j]]
    <2>1. m \in Nat /\ \A j \in 1 .. m : j \in 1 .. n /\ j < i
      BY <1>1
    <2>2. IsFiniteSet(1 .. m) /\ Cardinality(1 .. m) = m
      <3>1. 1 \in Int /\ m \in Int
        BY <2>1
      <3>2. IsFiniteSet(1 .. m) /\ Cardinality(1 .. m) = IF 1 > m THEN 0 ELSE m - 1 + 1
        BY <3>1, FS_Interval
      <3>3. QED
        BY <2>1, <3>2
    <2>3. \A j \in 1 .. m : g[j] \in T /\ g[j] = order[j]
      BY <1>2, <2>1 DEF Before
    <2>4. \A x \in T : \E j \in 1 .. m : g[j] = x
      <3>1. TAKE x \in T
      <3>2. x \in S /\ <<x, order[i]>> \in R
        BY DEF Before
      <3>3. PICK j \in 1 .. n : order[j] = x
        BY <1>7, <3>2
      <3>4. j # i
        BY <3>2, <3>3 DEF Orders
      <3>5. ~ (i < j)
        <4>1. SUFFICES ASSUME i < j PROVE FALSE
          OBVIOUS
        <4>2. <<order[i], x>> \in R /\ order[i] \in S
          BY <1>2, <3>3, <4>1
        <4>3. QED
          BY <3>2, <4>2 DEF Orders
      <3>6. j \in 1 .. m
        BY <1>1, <3>3, <3>4, <3>5
      <3>7. QED
        BY <3>3, <3>6
    <2>5. \A j, k \in 1 .. m : j # k => g[j] # g[k]
      BY <1>4, <2>1
    <2>6. g \in [1 .. m -> T]
      BY <2>3
    <2> HIDE DEF g, T, m
    <2>7. g \in Bijection(1 .. m, T)
      BY <2>4, <2>5, <2>6 DEF Bijection, Injection, Surjection, IsInjective
    <2>8. ExistsBijection(1 .. m, T)
      BY <2>7 DEF ExistsBijection
    <2>9. Cardinality(T) = m
      BY <2>2, <2>8, FS_Bijection
    <2>10. QED
      BY <2>9 DEF T, m
  <1>9. QED
    BY <1>1, <1>2, <1>4, <1>7, <1>8 DEF n

-----------------------------------------------------------------------------
(* The bounded heap. *)

\* The rows a search ranks, and those of S that beat a row.
Eligible(q) == Rows \ {q.excluded}

Above(q, S, r) == {s \in S : Beats(q, s, r)}

\* The rows that the whole index would give to a heap of this size.
Best(q) == {r \in Eligible(q) : Cardinality(Above(q, Eligible(q), r)) < Limit(q)}

\* A search that select starts.
Accepts(q) == q \in Queries /\ ~ OptionError(q)

\* A heap into which the rows of S went lacks none of the best.
Kept(q, S, heap) ==
    /\ heap \subseteq S
    /\ Cardinality(heap) <= Limit(q)
    /\ \A r \in S \ heap : r \notin Best(q)

\* Any set of rows is finite.
LEMMA EligibleFinite ==
    ASSUME NEW q
    PROVE  /\ Eligible(q) \subseteq Rows /\ Eligible(q) \subseteq Nat
           /\ \A S \in SUBSET Rows : IsFiniteSet(S) /\ Cardinality(S) \in Nat
           /\ \A S \in SUBSET Eligible(q) : IsFiniteSet(S) /\ Cardinality(S) \in Nat
  <1>1. Eligible(q) \subseteq Rows /\ Eligible(q) \subseteq Nat
    BY RowsKnown DEF Eligible
  <1>2. \A S \in SUBSET Rows : IsFiniteSet(S) /\ Cardinality(S) \in Nat
    BY RowsKnown, FS_Subset, FS_CardinalityType
  <1>3. QED
    BY <1>1, <1>2

\* The effective budget is no more than the rows there are.
LEMMA LimitFits ==
    ASSUME NEW q, Accepts(q)
    PROVE  /\ Limit(q) \in Nat
           /\ Limit(q) <= Cardinality(Eligible(q))
           /\ Cardinality(Eligible(q)) \in Nat
           /\ q.k \in Nat \ {0}
  <1>1. /\ q.k \in 0 .. UsizeMax /\ q.budget \in {None} \cup 0 .. UsizeMax
        /\ q.excluded \in {None} \cup Nat
    BY QueriesAssumption DEF Accepts
  <1>2. UsizeMax \in Nat /\ MinBudget \in Nat
    BY SearchAssumption
  <1>3. q.k \in Nat \ {0} /\ (q.excluded # None => q.excluded < RowTotal)
    BY <1>1, <1>2, RowsKnown DEF Accepts, OptionError, None
  <1>4. Wanted(q) \in Nat
    BY <1>1, <1>2 DEF Wanted, None
  <1>5. Cardinality(Eligible(q)) = IF q.excluded = None THEN RowTotal ELSE RowTotal - 1
    <2>1. CASE q.excluded = None
      <3>1. Eligible(q) = Rows
        BY <2>1, RowsKnown DEF Eligible, None
      <3>2. QED
        BY <2>1, <3>1, RowsKnown
    <2>2. CASE q.excluded # None
      <3>1. q.excluded \in Rows
        BY <1>1, <1>3, <2>2, RowsKnown DEF Rows, None
      <3>2. Cardinality(Rows \ {q.excluded}) = RowTotal - 1
        BY <3>1, RowsKnown, FS_RemoveElement
      <3>3. QED
        BY <2>2, <3>2 DEF Eligible
    <2>3. QED
      BY <2>1, <2>2
  <1>6. Cardinality(Eligible(q)) \in Nat
    BY EligibleFinite
  <1>7. Limit(q) = IF Wanted(q) < Cardinality(Eligible(q)) THEN Wanted(q)
                   ELSE Cardinality(Eligible(q))
    BY <1>5, Zenon DEF Limit
  <1>8. QED
    BY <1>3, <1>4, <1>6, <1>7

\* Keys are integers, so any two candidates compare.
LEMMA KeysAreNumbers ==
    ASSUME NEW q \in Queries, NEW r \in Rows
    PROVE  Key(q, r) \in Int /\ RefinedKey(q, r) \in Int
  <1>1. q.primary[r] \in Int /\ q.refined[r] \in Int
    BY QueriesAssumption
  <1>2. Units[r] \in Nat
    BY SearchAssumption
  <1>3. QED
    BY <1>1, <1>2 DEF Key, RefinedKey

\* Beats is a strict total order of the rows.
LEMMA BeatsOrders ==
    ASSUME NEW q \in Queries, NEW r \in Rows, NEW s \in Rows
    PROVE  /\ ~ Beats(q, r, r)
           /\ r # s => Beats(q, r, s) \/ Beats(q, s, r)
           /\ \A t \in Rows : Beats(q, r, s) /\ Beats(q, s, t) => Beats(q, r, t)
  <1>1. Key(q, r) \in Int /\ Key(q, s) \in Int /\ r \in Nat /\ s \in Nat
    BY KeysAreNumbers, RowsKnown
  <1>2. ASSUME NEW t \in Rows, Beats(q, r, s), Beats(q, s, t) PROVE Beats(q, r, t)
    <2>1. Key(q, t) \in Int /\ t \in Nat
      BY KeysAreNumbers, RowsKnown
    <2>2. QED
      BY <1>1, <1>2, <2>1 DEF Beats
  <1>3. ~ Beats(q, r, r)
    BY <1>1 DEF Beats
  <1>4. r # s => Beats(q, r, s) \/ Beats(q, s, r)
    BY <1>1 DEF Beats
  <1>5. QED
    BY <1>2, <1>3, <1>4

\* The worst of a heap is one of its rows, and every other beats it.
LEMMA WorstIs ==
    ASSUME NEW q \in Queries, NEW heap \in SUBSET Rows, heap # {}
    PROVE  /\ Worst(q, heap) \in heap
           /\ \A s \in heap : s # Worst(q, heap) => Beats(q, s, Worst(q, heap))
  <1> DEFINE Good == {S \in SUBSET heap :
                        S = {} \/ \E r \in S : \A s \in S : ~ Beats(q, r, s)}
  <1>1. {} \in Good
    OBVIOUS
  <1>2. ASSUME NEW S \in SUBSET heap, S # {}
        PROVE  \E x \in S : S \ {x} \in Good => S \in Good
    <2>1. PICK x \in S : TRUE
      BY <1>2
    <2>2. SUFFICES ASSUME S \ {x} \in Good PROVE S \in Good
      BY <2>1
    <2>3. CASE S \ {x} = {}
      <3>1. \A s \in S : ~ Beats(q, x, s)
        <4>1. \A s \in S : s = x
          BY <2>3
        <4>2. x \in Rows
          BY <1>2
        <4>3. QED
          BY <4>1, <4>2, BeatsOrders
      <3>2. QED
        BY <2>1, <3>1
    <2>4. CASE S \ {x} # {}
      <3>1. PICK r \in S \ {x} : \A s \in S \ {x} : ~ Beats(q, r, s)
        BY <2>2, <2>4
      <3>2. CASE ~ Beats(q, r, x)
        <4>1. \A s \in S : ~ Beats(q, r, s)
          BY <3>1, <3>2
        <4>2. QED
          BY <3>1, <4>1
      <3>3. CASE Beats(q, r, x)
        <4>1. ASSUME NEW s \in S PROVE ~ Beats(q, x, s)
          <5>1. r \in Rows /\ x \in Rows /\ s \in Rows
            BY <3>1
          <5>2. CASE s = x
            BY <5>1, <5>2, BeatsOrders
          <5>3. CASE s # x
            <6>1. ~ Beats(q, r, s)
              BY <3>1, <5>3
            <6>2. QED
              BY <3>3, <5>1, <6>1, BeatsOrders
          <5>4. QED
            BY <5>2, <5>3
        <4>2. QED
          BY <2>1, <4>1
      <3>4. QED
        BY <3>2, <3>3
    <2>5. QED
      BY <2>3, <2>4
  <1>3. IsFiniteSet(heap)
    BY EligibleFinite
  <1> HIDE DEF Good
  <1>4. heap \in Good
    <2>1. \A S \in SUBSET heap : S \in Good
      BY <1>1, <1>2, <1>3, SubsetsReached
    <2>2. QED
      BY <2>1
  <1>5. \E r \in heap : \A s \in heap : ~ Beats(q, r, s)
    BY <1>4 DEF Good
  <1>6. /\ Worst(q, heap) \in heap
        /\ \A s \in heap : ~ Beats(q, Worst(q, heap), s)
    BY <1>5 DEF Worst
  <1>7. QED
    BY <1>6, BeatsOrders

\* A row with a full heap before it is not among the best.
LEMMA Outranked ==
    ASSUME NEW q, Accepts(q), NEW heap \in SUBSET Eligible(q),
           Cardinality(heap) = Limit(q), NEW x,
           \A s \in heap : Beats(q, s, x)
    PROVE  x \notin Best(q)
  <1>1. heap \in SUBSET Above(q, Eligible(q), x)
    BY DEF Above
  <1>2. IsFiniteSet(Above(q, Eligible(q), x)) /\ Cardinality(Above(q, Eligible(q), x)) \in Nat
    <2>1. Above(q, Eligible(q), x) \in SUBSET Eligible(q)
      BY DEF Above
    <2>2. QED
      BY <2>1, EligibleFinite
  <1>3. Cardinality(heap) <= Cardinality(Above(q, Eligible(q), x))
    BY <1>1, <1>2, FS_Subset
  <1>4. QED
    BY <1>2, <1>3, LimitFits DEF Best

\* A heap of rows stays a heap of rows.
LEMMA AdmitType ==
    ASSUME NEW q \in Queries, NEW heap \in SUBSET Rows, NEW r \in Rows
    PROVE  Admit(q, heap, r) \in SUBSET Rows
  BY DEF Admit

\* One more row.
LEMMA AdmitKeeps ==
    ASSUME NEW q, Accepts(q), NEW S \in SUBSET Eligible(q), NEW r \in Eligible(q) \ S,
           NEW heap, Kept(q, S, heap)
    PROVE  Kept(q, S \cup {r}, Admit(q, heap, r))
  <1>1. q \in Queries /\ Limit(q) \in Nat
    BY LimitFits DEF Accepts
  <1>2. /\ heap \subseteq S /\ Cardinality(heap) <= Limit(q)
        /\ \A x \in S \ heap : x \notin Best(q)
    BY DEF Kept
  <1>3. /\ heap \in SUBSET Eligible(q) /\ heap \in SUBSET Rows
        /\ IsFiniteSet(heap) /\ Cardinality(heap) \in Nat
        /\ r \notin heap /\ r \in Rows
    BY <1>2, EligibleFinite
  <1>4. CASE Cardinality(heap) < Limit(q)
    <2>1. Admit(q, heap, r) = heap \cup {r}
      BY <1>4 DEF Admit
    <2>2. Cardinality(heap \cup {r}) = Cardinality(heap) + 1
      BY <1>3, FS_AddElement
    <2>3. Cardinality(heap \cup {r}) <= Limit(q)
      BY <1>1, <1>3, <1>4, <2>2
    <2>4. QED
      BY <1>2, <2>1, <2>3 DEF Kept
  <1>5. CASE ~ (Cardinality(heap) < Limit(q)) /\ heap = {}
    <2>1. Admit(q, heap, r) = heap
      BY <1>5 DEF Admit
    <2>2. Cardinality(heap) = Limit(q)
      BY <1>1, <1>2, <1>3, <1>5
    <2>3. r \notin Best(q)
      BY <1>3, <1>5, <2>2, Outranked
    <2>4. QED
      BY <1>2, <2>1, <2>3 DEF Kept
  <1>6. CASE ~ (Cardinality(heap) < Limit(q)) /\ heap # {}
    <2> DEFINE w == Worst(q, heap)
    <2>1. w \in heap /\ \A s \in heap : s # w => Beats(q, s, w)
      BY <1>1, <1>3, <1>6, WorstIs
    <2> HIDE DEF w
    <2>2. Cardinality(heap) = Limit(q)
      BY <1>1, <1>2, <1>3, <1>6
    <2>3. CASE Beats(q, r, w)
      <3> DEFINE new == (heap \ {w}) \cup {r}
      <3>1. Admit(q, heap, r) = new
        BY <1>6, <2>3 DEF Admit, w
      <3>2. Cardinality(new) = Limit(q)
        <4>1. IsFiniteSet(heap \ {w}) /\ Cardinality(heap \ {w}) = Cardinality(heap) - 1
          BY <1>3, <2>1, FS_RemoveElement
        <4>2. r \notin heap \ {w}
          BY <1>3
        <4>3. Cardinality(new) = Cardinality(heap \ {w}) + 1
          BY <4>1, <4>2, FS_AddElement
        <4>4. QED
          BY <1>3, <2>2, <4>1, <4>3
      <3>3. new \in SUBSET Eligible(q) /\ \A s \in new : Beats(q, s, w)
        BY <1>3, <2>1, <2>3
      <3> HIDE DEF new
      <3>4. w \notin Best(q)
        BY <3>2, <3>3, Outranked
      <3>5. new \subseteq S \cup {r}
        BY <1>2 DEF new
      <3>6. \A x \in (S \cup {r}) \ new : x \notin Best(q)
        BY <1>2, <3>4 DEF new
      <3>7. Cardinality(new) <= Limit(q)
        BY <1>1, <3>2
      <3>8. QED
        BY <3>1, <3>5, <3>6, <3>7 DEF Kept
    <2>4. CASE ~ Beats(q, r, w)
      <3>1. Admit(q, heap, r) = heap
        BY <1>6, <2>4 DEF Admit, w
      <3>2. w \in Rows /\ r # w
        BY <1>3, <2>1
      <3>3. Beats(q, w, r)
        BY <1>1, <1>3, <2>4, <3>2, BeatsOrders
      <3>4. \A s \in heap : Beats(q, s, r)
        <4>1. TAKE s \in heap
        <4>2. s \in Rows
          BY <1>3
        <4>3. s = w \/ Beats(q, s, w)
          BY <2>1
        <4>4. QED
          BY <1>1, <1>3, <3>2, <3>3, <4>2, <4>3, BeatsOrders
      <3>5. r \notin Best(q)
        BY <1>3, <2>2, <3>4, Outranked
      <3>6. QED
        BY <1>2, <3>1, <3>5 DEF Kept
    <2>5. QED
      BY <2>3, <2>4
  <1>7. QED
    BY <1>4, <1>5, <1>6

-----------------------------------------------------------------------------
(* A job, the merging of its reply, and the final order. *)

\* f is the heap after the rows at each subset of the positions D.
ScanFold(f, q, order, D) ==
    f = [d \in SUBSET D |->
           IF d = {} THEN {} ELSE Admit(q, f[d \ {Max(d)}], order[Max(d)])]

\* The rows a job looks at.
Visited(q, begin, end) == RowsOfTiles(begin, end) \ {q.excluded}

\* What can be put in order, Sorted puts in order.
LEMMA SortedIs ==
    ASSUME NEW S, NEW R, IsFiniteSet(S), Orders(R, S)
    PROVE  InOrder(Sorted(S, R), R, S)
  <1> DEFINE n == Cardinality(S)
  <1>1. Sorted(S, R) = CHOOSE list \in [1 .. n -> S] :
                           \A i, j \in 1 .. n : i < j => <<list[i], list[j]>> \in R
    BY DEF Sorted
  <1>2. \E list : InOrder(list, R, S)
    BY SortExists
  <1>3. \E list \in [1 .. n -> S] :
           \A i, j \in 1 .. n : i < j => <<list[i], list[j]>> \in R
    BY <1>2 DEF InOrder
  <1>4. /\ Sorted(S, R) \in [1 .. n -> S]
        /\ \A i, j \in 1 .. n : i < j => <<Sorted(S, R)[i], Sorted(S, R)[j]>> \in R
    BY <1>1, <1>3, Zenon
  <1>5. QED
    BY <1>4 DEF InOrder

\* A job folds Admit over the rows it visits.
LEMMA ScanIs ==
    ASSUME NEW q, NEW b, NEW e
    PROVE  Scan(q, b, e) =
               (CHOOSE f : ScanFold(f, q, Sorted(Visited(q, b, e), Ascending),
                                    DOMAIN Sorted(Visited(q, b, e), Ascending)))
                   [DOMAIN Sorted(Visited(q, b, e), Ascending)]
  BY DEF Scan, FoldLeft, MapThenFoldSet, ScanFold, Visited

\* The rows of a job, in ascending order.
LEMMA VisitedInOrder ==
    ASSUME NEW q, NEW b \in Int, NEW e \in Int
    PROVE  LET S == Visited(q, b, e)
               order == Sorted(S, Ascending)
           IN  /\ S \in SUBSET Eligible(q) /\ IsFiniteSet(S) /\ Cardinality(S) \in Nat
               /\ DOMAIN order = 1 .. Cardinality(S)
               /\ \A i \in 1 .. Cardinality(S) : order[i] \in S
               /\ \A x \in S : \E i \in 1 .. Cardinality(S) : order[i] = x
               /\ \A i, j \in 1 .. Cardinality(S) : i # j => order[i] # order[j]
  <1> DEFINE S == Visited(q, b, e)
             n == Cardinality(S)
             order == Sorted(S, Ascending)
  <1>1. S \in SUBSET Eligible(q) /\ S \in SUBSET Rows
    BY TilesSplit DEF Visited, Eligible
  <1>2. IsFiniteSet(S) /\ n \in Nat
    BY <1>1, EligibleFinite
  <1> HIDE DEF S, order, n
  <1>3. Orders(Ascending, S)
    <2>1. \A x \in S : x \in Rows /\ x \in Nat
      BY <1>1, RowsKnown
    <2>2. \A x, y \in S : <<x, y>> \in Ascending <=> x < y
      BY <2>1 DEF Ascending
    <2>3. QED
      BY <2>1, <2>2 DEF Orders
  <1>4. InOrder(order, Ascending, S)
    BY <1>2, <1>3, SortedIs DEF order
  <1>5. /\ \A i \in 1 .. n : order[i] \in S
        /\ \A x \in S : \E i \in 1 .. n : order[i] = x
        /\ \A i, j \in 1 .. n : i # j => order[i] # order[j]
    BY <1>2, <1>3, <1>4, SortedPlaces DEF n
  <1>6. DOMAIN order = 1 .. n
    BY <1>4 DEF InOrder, n
  <1>7. QED
    BY <1>1, <1>2, <1>5, <1>6 DEF S, order, n

\* The recursion of a scan has a solution.
LEMMA ScanFoldExists ==
    ASSUME NEW q \in Queries, NEW n \in Nat, NEW order,
           \A i \in 1 .. n : order[i] \in Rows
    PROVE  \E f : ScanFold(f, q, order, 1 .. n)
  <1> DEFINE D == 1 .. n
             V == SUBSET Rows
             pick == [d \in SUBSET D |-> Max(d)]
             step == [z \in D \X V |-> Admit(q, z[2], order[z[1]])]
  <1>1. IsFiniteSet(D)
    BY FS_Interval
  <1>2. \A d \in SUBSET D : d # {} => pick[d] \in d /\ pick[d] = Max(d)
    BY MaxIs
  <1>3. \A x \in D, v \in V : step[<<x, v>>] = Admit(q, v, order[x]) /\ step[<<x, v>>] \in V
    <2>1. TAKE x \in D, v \in V
    <2>2. step[<<x, v>>] = Admit(q, v, order[x])
      OBVIOUS
    <2>3. Admit(q, v, order[x]) \in V
      BY AdmitType
    <2>4. QED
      BY <2>2, <2>3
  <1>4. {} \in V
    OBVIOUS
  <1> HIDE DEF pick, step, D, V
  <1>5. PICK f : IsFold(f, D, V, {}, pick, step)
    <2>1. \A d \in SUBSET D : d # {} => pick[d] \in d
      BY <1>2
    <2>2. \A x \in D, v \in V : step[<<x, v>>] \in V
      BY <1>3
    <2>3. QED
      BY <1>1, <1>4, <2>1, <2>2, FoldExists, Zenon
  <1>6. \A d \in SUBSET D :
           f[d] = IF d = {} THEN {} ELSE Admit(q, f[d \ {Max(d)}], order[Max(d)])
    <2>1. TAKE d \in SUBSET D
    <2>2. f[d] = IF d = {} THEN {} ELSE step[<<pick[d], f[d \ {pick[d]}]>>]
      BY <1>5 DEF IsFold
    <2>3. CASE d = {}
      BY <2>2, <2>3
    <2>4. CASE d # {}
      <3>1. pick[d] \in D /\ f[d \ {pick[d]}] \in V /\ pick[d] = Max(d)
        BY <1>2, <1>5, <2>4 DEF IsFold
      <3>2. QED
        BY <1>3, <2>2, <2>4, <3>1
    <2>5. QED
      BY <2>3, <2>4
  <1>7. ScanFold(f, q, order, D)
    <2> DEFINE g == [d \in SUBSET D |->
                       IF d = {} THEN {} ELSE Admit(q, f[d \ {Max(d)}], order[Max(d)])]
    <2>1. \A d \in SUBSET D : g[d] = f[d]
      BY <1>6
    <2>2. DOMAIN f = SUBSET D /\ f \in [SUBSET D -> V]
      BY <1>5 DEF IsFold
    <2>3. f = g
      BY <2>1, <2>2
    <2>4. QED
      BY <2>3 DEF ScanFold
  <1>8. QED
    BY <1>7 DEF D

\* What a job sends back lacks none of the best among its rows.
LEMMA ScanKeeps ==
    ASSUME NEW q, Accepts(q), NEW b \in Int, NEW e \in Int
    PROVE  Kept(q, Visited(q, b, e), Scan(q, b, e))
  <1> DEFINE S == Visited(q, b, e)
             order == Sorted(S, Ascending)
             n == Cardinality(S)
             D == 1 .. n
             f == CHOOSE g : ScanFold(g, q, order, D)
             Image(d) == {order[i] : i \in d}
  <1>1. /\ S \in SUBSET Eligible(q) /\ n \in Nat /\ DOMAIN order = D
        /\ \A i \in D : order[i] \in S
        /\ \A x \in S : \E i \in D : order[i] = x
        /\ \A i, j \in D : i # j => order[i] # order[j]
    BY VisitedInOrder
  <1>2. Scan(q, b, e) = f[D]
    BY <1>1, ScanIs, Zenon
  <1> HIDE DEF order, f, S, n
  <1>3. ScanFold(f, q, order, D)
    <2>1. q \in Queries /\ \A i \in D : order[i] \in Rows
      BY <1>1, EligibleFinite DEF Accepts
    <2>2. \E g : ScanFold(g, q, order, D)
      BY <1>1, <2>1, ScanFoldExists
    <2>3. QED
      BY <2>2 DEF f
  <1>4. \A d \in SUBSET D :
           f[d] = IF d = {} THEN {} ELSE Admit(q, f[d \ {Max(d)}], order[Max(d)])
    BY <1>3 DEF ScanFold
  <1> DEFINE Good == {d \in SUBSET D : Kept(q, Image(d), f[d])}
  <1>5. {} \in Good
    <2>1. f[{}] = {} /\ Image({}) = {}
      BY <1>4
    <2>2. Kept(q, {}, {})
      BY FS_EmptySet, LimitFits DEF Kept
    <2>3. QED
      BY <2>1, <2>2
  <1>6. ASSUME NEW d \in SUBSET D, d # {}
        PROVE  \E x \in d : d \ {x} \in Good => d \in Good
    <2> DEFINE m == Max(d)
    <2>1. m \in d /\ m \in D
      BY <1>1, <1>6, MaxIs
    <2> HIDE DEF m
    <2>2. SUFFICES ASSUME d \ {m} \in Good PROVE d \in Good
      BY <2>1
    <2>3. Kept(q, Image(d \ {m}), f[d \ {m}])
      BY <2>2
    <2>4. /\ Image(d \ {m}) \in SUBSET Eligible(q)
          /\ order[m] \in Eligible(q) \ Image(d \ {m})
          /\ Image(d) = Image(d \ {m}) \cup {order[m]}
      <3>1. Image(d \ {m}) \in SUBSET Eligible(q) /\ order[m] \in Eligible(q)
        BY <1>1, <2>1
      <3>2. order[m] \notin Image(d \ {m})
        BY <1>1, <2>1
      <3>3. Image(d) = Image(d \ {m}) \cup {order[m]}
        BY <2>1
      <3>4. QED
        BY <3>1, <3>2, <3>3
    <2> HIDE DEF Image
    <2>5. Kept(q, Image(d \ {m}) \cup {order[m]}, Admit(q, f[d \ {m}], order[m]))
      BY <2>3, <2>4, AdmitKeeps
    <2>6. f[d] = Admit(q, f[d \ {m}], order[m])
      BY <1>4, <1>6 DEF m
    <2>7. QED
      BY <2>4, <2>5, <2>6
  <1>7. IsFiniteSet(D)
    BY <1>1, FS_Interval
  <1>8. Image(D) = S
    BY <1>1
  <1> HIDE DEF Image, D
  <1>9. \A d \in SUBSET D : d \in Good
    <2> HIDE DEF Good
    <2>1. QED
      BY <1>5, <1>6, <1>7, SubsetsReached
  <1>10. Kept(q, Image(D), f[D])
    BY <1>9
  <1>11. QED
    BY <1>2, <1>8, <1>10 DEF S

\* f is the heap after each subset of the reply.
MergeFold(f, q, heap, reply) ==
    f = [d \in SUBSET reply |->
           IF d = {} THEN heap
           ELSE Admit(q, f[d \ {CHOOSE x \in d : TRUE}], CHOOSE x \in d : TRUE)]

\* A merge is the value of a recursion over the subsets of the reply.
LEMMA MergeIs ==
    ASSUME NEW q, NEW heap, NEW reply
    PROVE  Merge(q, heap, reply) =
               (CHOOSE f : MergeFold(f, q, heap, reply))[reply]
  BY DEF Merge, FoldSet, MapThenFoldSet, MergeFold

\* The recursion of a merge has a solution.
LEMMA MergeFoldExists ==
    ASSUME NEW q \in Queries, NEW heap \in SUBSET Rows, NEW reply \in SUBSET Rows
    PROVE  \E f : MergeFold(f, q, heap, reply)
  <1> DEFINE V == SUBSET Rows
             pick == [d \in SUBSET reply |-> CHOOSE x \in d : TRUE]
             step == [z \in reply \X V |-> Admit(q, z[2], z[1])]
  <1>1. IsFiniteSet(reply)
    BY EligibleFinite
  <1>2. \A d \in SUBSET reply : d # {} => pick[d] \in d /\ pick[d] = CHOOSE x \in d : TRUE
    OBVIOUS
  <1>3. \A x \in reply, v \in V : step[<<x, v>>] = Admit(q, v, x) /\ step[<<x, v>>] \in V
    <2>1. TAKE x \in reply, v \in V
    <2>2. step[<<x, v>>] = Admit(q, v, x)
      OBVIOUS
    <2>3. Admit(q, v, x) \in V
      BY AdmitType
    <2>4. QED
      BY <2>2, <2>3
  <1>4. heap \in V
    OBVIOUS
  <1> HIDE DEF pick, step, V
  <1>5. PICK f : IsFold(f, reply, V, heap, pick, step)
    <2>1. \A d \in SUBSET reply : d # {} => pick[d] \in d
      BY <1>2
    <2>2. \A x \in reply, v \in V : step[<<x, v>>] \in V
      BY <1>3
    <2>3. QED
      BY <1>1, <1>4, <2>1, <2>2, FoldExists, Zenon
  <1>6. \A d \in SUBSET reply :
           f[d] = IF d = {} THEN heap
                  ELSE Admit(q, f[d \ {CHOOSE x \in d : TRUE}], CHOOSE x \in d : TRUE)
    <2>1. TAKE d \in SUBSET reply
    <2>2. f[d] = IF d = {} THEN heap ELSE step[<<pick[d], f[d \ {pick[d]}]>>]
      BY <1>5 DEF IsFold
    <2>3. CASE d = {}
      BY <2>2, <2>3
    <2>4. CASE d # {}
      <3>1. /\ pick[d] \in reply /\ f[d \ {pick[d]}] \in V
            /\ pick[d] = CHOOSE x \in d : TRUE
        BY <1>2, <1>5, <2>4 DEF IsFold
      <3>2. f[d] = Admit(q, f[d \ {pick[d]}], pick[d])
        BY <1>3, <2>2, <2>4, <3>1
      <3>3. QED
        BY <2>4, <3>1, <3>2
    <2>5. QED
      BY <2>3, <2>4
  <1>7. MergeFold(f, q, heap, reply)
    <2> DEFINE g == [d \in SUBSET reply |->
                       IF d = {} THEN heap
                       ELSE Admit(q, f[d \ {CHOOSE x \in d : TRUE}], CHOOSE x \in d : TRUE)]
    <2>1. \A d \in SUBSET reply : g[d] = f[d]
      BY <1>6
    <2>2. DOMAIN f = SUBSET reply /\ f \in [SUBSET reply -> V]
      BY <1>5 DEF IsFold
    <2>3. f = g
      BY <2>1, <2>2
    <2>4. QED
      BY <2>3 DEF MergeFold
  <1>8. QED
    BY <1>7

\* Merging a reply loses none of the best in it or in the heap.
LEMMA MergeKeeps ==
    ASSUME NEW q, Accepts(q), NEW heap \in SUBSET Eligible(q),
           Cardinality(heap) <= Limit(q),
           NEW reply \in SUBSET Eligible(q), heap \cap reply = {}
    PROVE  Kept(q, heap \cup reply, Merge(q, heap, reply))
  <1> DEFINE f == CHOOSE g : MergeFold(g, q, heap, reply)
             pick(d) == CHOOSE x \in d : TRUE
  <1>1. q \in Queries /\ heap \in SUBSET Rows /\ reply \in SUBSET Rows
    BY EligibleFinite DEF Accepts
  <1>2. Merge(q, heap, reply) = f[reply]
    BY MergeIs
  <1>3. MergeFold(f, q, heap, reply)
    <2>1. \E g : MergeFold(g, q, heap, reply)
      BY <1>1, MergeFoldExists
    <2>2. QED
      BY <2>1
  <1> HIDE DEF f
  <1>4. \A d \in SUBSET reply :
           f[d] = IF d = {} THEN heap ELSE Admit(q, f[d \ {pick(d)}], pick(d))
    BY <1>3 DEF MergeFold
  <1> DEFINE Good == {d \in SUBSET reply : Kept(q, heap \cup d, f[d])}
  <1>5. {} \in Good
    <2>1. f[{}] = heap /\ heap \cup {} = heap
      BY <1>4
    <2>2. Kept(q, heap, heap)
      BY DEF Kept
    <2>3. QED
      BY <2>1, <2>2
  <1>6. ASSUME NEW d \in SUBSET reply, d # {}
        PROVE  \E x \in d : d \ {x} \in Good => d \in Good
    <2> DEFINE m == pick(d)
    <2>1. m \in d
      BY <1>6
    <2>2. f[d] = Admit(q, f[d \ {m}], m)
      BY <1>4, <1>6
    <2> HIDE DEF m
    <2>3. SUFFICES ASSUME d \ {m} \in Good PROVE d \in Good
      BY <2>1
    <2>4. Kept(q, heap \cup (d \ {m}), f[d \ {m}])
      BY <2>3
    <2>5. /\ heap \cup (d \ {m}) \in SUBSET Eligible(q)
          /\ m \in Eligible(q) \ (heap \cup (d \ {m}))
          /\ (heap \cup (d \ {m})) \cup {m} = heap \cup d
      BY <2>1
    <2>6. Kept(q, (heap \cup (d \ {m})) \cup {m}, Admit(q, f[d \ {m}], m))
      BY <2>4, <2>5, AdmitKeeps
    <2>7. QED
      BY <2>2, <2>5, <2>6
  <1>7. IsFiniteSet(reply)
    BY EligibleFinite
  <1>8. \A d \in SUBSET reply : d \in Good
    <2> HIDE DEF Good
    <2>1. QED
      BY <1>5, <1>6, <1>7, SubsetsReached
  <1>9. QED
    BY <1>2, <1>8

\* What comes before a row in the final order.
Ahead(q, S, r) ==
    {s \in S : \/ RefinedKey(q, s) > RefinedKey(q, r)
               \/ RefinedKey(q, s) = RefinedKey(q, r) /\ s < r}

\* The hits are the k first rows of the heap, each at its rank.
LEMMA RankedIs ==
    ASSUME NEW q, Accepts(q), NEW heap \in SUBSET Rows
    PROVE  LET hits == Ranked(q, heap)
           IN  /\ Range(hits) = {r \in heap : Cardinality(Ahead(q, heap, r)) < q.k}
               /\ \A i \in DOMAIN hits : Cardinality(Ahead(q, heap, hits[i])) = i - 1
  <1> DEFINE n == Cardinality(heap)
             R == RefinedOrder(q)
             order == Sorted(heap, R)
             m == IF Len(order) < q.k THEN Len(order) ELSE q.k
  <1>1. Ranked(q, heap) = SubSeq(order, 1, m)
    BY DEF Ranked
  <1>2. IsFiniteSet(heap) /\ n \in Nat /\ q \in Queries /\ q.k \in Nat \ {0}
    BY EligibleFinite, LimitFits DEF Accepts
  <1> HIDE DEF order, n
  <1>3. \A x, y \in heap : <<x, y>> \in R <=>
            \/ RefinedKey(q, x) > RefinedKey(q, y)
            \/ RefinedKey(q, x) = RefinedKey(q, y) /\ x < y
    BY DEF RefinedOrder
  <1> HIDE DEF R
  <1>4. Orders(R, heap)
    <2>1. \A x \in heap : x \in Nat /\ RefinedKey(q, x) \in Int
      BY <1>2, KeysAreNumbers, RowsKnown
    <2>2. QED
      BY <1>3, <2>1 DEF Orders
  <1>5. InOrder(order, R, heap)
    BY <1>2, <1>4, SortedIs DEF order
  <1>6. /\ order \in [1 .. n -> heap]
        /\ \A x \in heap : \E i \in 1 .. n : order[i] = x
        /\ \A i \in 1 .. n : Cardinality(Before(R, heap, order[i])) = i - 1
    <2>1. order \in [1 .. n -> heap]
      BY <1>5 DEF InOrder, n
    <2>2. QED
      BY <1>2, <1>4, <1>5, <2>1, SortedPlaces DEF n
  <1>7. ASSUME NEW r \in heap PROVE Before(R, heap, r) = Ahead(q, heap, r)
    <2>1. ASSUME NEW s \in heap
          PROVE  s \in Before(R, heap, r) <=> s \in Ahead(q, heap, r)
      BY <1>3, <1>7, <2>1 DEF Before, Ahead
    <2>2. Before(R, heap, r) \subseteq heap /\ Ahead(q, heap, r) \subseteq heap
      BY DEF Before, Ahead
    <2>3. QED
      BY <2>1, <2>2
  <1>8. \A i \in 1 .. n : order[i] \in heap /\ Cardinality(Ahead(q, heap, order[i])) = i - 1
    BY <1>6, <1>7
  <1>9. order \in Seq(heap) /\ Len(order) = n
    BY <1>2, <1>6
  <1>10. m \in 0 .. n /\ m <= q.k /\ (m = n \/ m = q.k)
    BY <1>2, <1>9
  <1> HIDE DEF m
  <1> DEFINE hits == SubSeq(order, 1, m)
  <1>11. DOMAIN hits = 1 .. m /\ \A i \in 1 .. m : hits[i] = order[i] /\ i \in 1 .. n
    BY <1>2, <1>9, <1>10
  <1> HIDE DEF hits
  <1>12. \A i \in DOMAIN hits : Cardinality(Ahead(q, heap, hits[i])) = i - 1
    BY <1>8, <1>11
  <1>13. ASSUME NEW r
         PROVE  r \in Range(hits) <=> r \in heap /\ Cardinality(Ahead(q, heap, r)) < q.k
    <2>1. r \in Range(hits) <=> \E i \in 1 .. m : r = order[i]
      BY <1>11 DEF Range
    <2>2. ASSUME NEW i \in 1 .. m, r = order[i]
          PROVE  r \in heap /\ Cardinality(Ahead(q, heap, r)) < q.k
      <3>1. i \in 1 .. n /\ i - 1 < q.k
        BY <1>2, <1>10
      <3>2. QED
        BY <1>8, <2>2, <3>1
    <2>3. ASSUME r \in heap, Cardinality(Ahead(q, heap, r)) < q.k
          PROVE  \E i \in 1 .. m : r = order[i]
      <3>1. PICK i \in 1 .. n : order[i] = r
        BY <1>6, <2>3
      <3>2. i - 1 < q.k
        BY <1>8, <2>3, <3>1
      <3>3. i \in 1 .. m
        BY <1>2, <1>10, <3>2
      <3>4. QED
        BY <3>1, <3>3
    <2>4. QED
      BY <2>1, <2>2, <2>3
  <1>14. Range(hits) = {r \in heap : Cardinality(Ahead(q, heap, r)) < q.k}
    BY <1>13
  <1>15. QED
    BY <1>1, <1>12, <1>14 DEF hits

-----------------------------------------------------------------------------
(* What a heap that lacks none of the best must be. *)

\* Beats as a relation, to sort by.
Dominance(q) == {ss \in Rows \X Rows : Beats(q, ss[1], ss[2])}

\* As many rows are among the best as the effective budget says.
LEMMA BestCount ==
    ASSUME NEW q, Accepts(q)
    PROVE  Best(q) \in SUBSET Eligible(q) /\ Cardinality(Best(q)) = Limit(q)
  <1> DEFINE S == Eligible(q)
             n == Cardinality(S)
             m == Limit(q)
             R == Dominance(q)
  <1>1. /\ q \in Queries /\ S \subseteq Rows /\ IsFiniteSet(S)
        /\ n \in Nat /\ m \in Nat /\ m <= n
    BY EligibleFinite, LimitFits DEF Accepts
  <1>2. \A x, y \in S : <<x, y>> \in R <=> Beats(q, x, y)
    BY <1>1 DEF Dominance
  <1> HIDE DEF S, n, m, R
  <1>3. Orders(R, S)
    <2>1. \A x \in S : x \in Rows
      BY <1>1
    <2>2. \A x \in S : ~ Beats(q, x, x)
      BY <1>1, <2>1, BeatsOrders
    <2>3. \A x, y \in S : x # y => Beats(q, x, y) \/ Beats(q, y, x)
      BY <1>1, <2>1, BeatsOrders
    <2>4. \A x, y, z \in S : Beats(q, x, y) /\ Beats(q, y, z) => Beats(q, x, z)
      BY <1>1, <2>1, BeatsOrders
    <2>5. QED
      BY <1>2, <2>2, <2>3, <2>4, Zenon DEF Orders
  <1>4. PICK order : InOrder(order, R, S)
    BY <1>1, <1>3, SortExists
  <1>5. /\ \A i \in 1 .. n : order[i] \in S
        /\ \A x \in S : \E i \in 1 .. n : order[i] = x
        /\ \A i, j \in 1 .. n : i # j => order[i] # order[j]
        /\ \A i \in 1 .. n : Cardinality(Before(R, S, order[i])) = i - 1
    BY <1>1, <1>3, <1>4, SortedPlaces DEF n
  <1>6. \A r \in S : Before(R, S, r) = Above(q, S, r)
    <2>1. TAKE r \in S
    <2>2. \A s \in S : s \in Before(R, S, r) <=> s \in Above(q, S, r)
      BY <1>2 DEF Before, Above
    <2>3. Before(R, S, r) \subseteq S /\ Above(q, S, r) \subseteq S
      BY DEF Before, Above
    <2>4. QED
      BY <2>2, <2>3
  <1>7. \A r : r \in Best(q) <=> r \in S /\ Cardinality(Before(R, S, r)) < m
    BY <1>6 DEF Best, S, m
  <1> DEFINE B == Best(q)
             g == [i \in 1 .. m |-> order[i]]
  <1>8. \A i \in 1 .. m : i \in 1 .. n /\ i - 1 < m
    BY <1>1
  <1>9. \A i \in 1 .. m : g[i] = order[i] /\ g[i] \in B
    BY <1>5, <1>7, <1>8
  <1>10. \A r \in B : \E i \in 1 .. m : g[i] = r
    <2>1. TAKE r \in B
    <2>2. PICK i \in 1 .. n : order[i] = r
      BY <1>5, <1>7
    <2>3. i - 1 < m
      BY <1>5, <1>7, <2>2
    <2>4. i \in 1 .. m
      BY <1>1, <2>3
    <2>5. QED
      BY <2>2, <2>4
  <1>11. \A i, j \in 1 .. m : i # j => g[i] # g[j]
    BY <1>5, <1>8
  <1>12. g \in [1 .. m -> B]
    BY <1>9
  <1> HIDE DEF g, B
  <1>13. g \in Bijection(1 .. m, B)
    BY <1>10, <1>11, <1>12 DEF Bijection, Injection, Surjection, IsInjective
  <1>14. IsFiniteSet(1 .. m) /\ Cardinality(1 .. m) = m
    <2>1. 1 \in Int /\ m \in Int
      BY <1>1
    <2>2. IsFiniteSet(1 .. m) /\ Cardinality(1 .. m) = IF 1 > m THEN 0 ELSE m - 1 + 1
      BY <2>1, FS_Interval
    <2>3. QED
      BY <1>1, <2>2
  <1>15. ExistsBijection(1 .. m, B)
    BY <1>13 DEF ExistsBijection
  <1>16. Cardinality(B) = m
    BY <1>14, <1>15, FS_Bijection
  <1>17. QED
    BY <1>7, <1>16 DEF B, S, m

\* A heap within its bound that lacks none of the best holds just the best.
LEMMA HeapIsBest ==
    ASSUME NEW q, Accepts(q), NEW heap \in SUBSET Eligible(q),
           Cardinality(heap) <= Limit(q), Best(q) \subseteq heap
    PROVE  heap = Best(q) /\ Cardinality(heap) = Limit(q)
  <1>1. IsFiniteSet(heap) /\ Cardinality(heap) \in Nat
    BY EligibleFinite
  <1>2. Cardinality(Best(q)) = Limit(q) /\ Limit(q) \in Nat
    BY BestCount, LimitFits
  <1>3. /\ Cardinality(Best(q)) <= Cardinality(heap)
        /\ (Cardinality(Best(q)) = Cardinality(heap) => Best(q) = heap)
    BY <1>1, FS_Subset
  <1>4. QED
    BY <1>1, <1>2, <1>3

\* The hits an exact search returns: the best by the primary score, reranked.
RightHits(q, hits) ==
    /\ Range(hits) = {r \in Best(q) : Cardinality(Ahead(q, Best(q), r)) < q.k}
    /\ \A i \in DOMAIN hits : Cardinality(Ahead(q, Best(q), hits[i])) = i - 1

\* The property, in the terms of these proofs.
LEMMA ExactMeans ==
    ASSUME \A c \in Callers : Succeeded(c) =>
              RightHits(caller[c].query, caller[c].answer.hits)
    PROVE  ExactAnswer
  BY DEF ExactAnswer, RankIn, RightHits, Best, Above, Ahead, Beats, Eligible

\* Ranking a heap that lacks none of the best gives the answer.
LEMMA RefinesRight ==
    ASSUME NEW q, Accepts(q), NEW heap \in SUBSET Eligible(q),
           Cardinality(heap) <= Limit(q), Best(q) \subseteq heap
    PROVE  RightHits(q, Ranked(q, heap)) /\ Cardinality(heap) = Limit(q)
  <1>1. heap = Best(q) /\ Cardinality(heap) = Limit(q)
    BY HeapIsBest
  <1>2. heap \in SUBSET Rows
    BY EligibleFinite
  <1>3. QED
    BY <1>1, <1>2, RankedIs DEF RightHits

-----------------------------------------------------------------------------
(* Where the rows of a call are. *)

\* The row is in the caller's heap, among the tiles it has not submitted, in a
\* reply it has not received, in a queued job, or in one that runs.
Found(record, box, jobs, threads, c, kind, n, r) ==
    \/ kind = "heap" /\ n = 0 /\ r \in record.heap
    \/ kind = "rest" /\ n = 0 /\ r \in Visited(record.query, record.begin, Tiles)
    \/ kind = "inbox" /\ n \in DOMAIN box /\ r \in box[n]
    \/ /\ kind = "queue" /\ n \in DOMAIN jobs /\ jobs[n].caller = c
       /\ r \in Visited(jobs[n].query, jobs[n].begin, jobs[n].end)
    \/ /\ kind = "run" /\ n \in Workers
       /\ threads[n].pc = "running" /\ threads[n].job.caller = c
       /\ r \in Visited(threads[n].job.query, threads[n].job.begin, threads[n].job.end)

\* Each row is in one place at most, and while no job is lost none of the best
\* is in no place.
Gathered(record, box, jobs, threads, c) ==
    /\ \A i \in DOMAIN box : box[i] \in SUBSET Eligible(record.query)
    /\ \A k1, k2, n1, n2, r :
          /\ Found(record, box, jobs, threads, c, k1, n1, r)
          /\ Found(record, box, jobs, threads, c, k2, n2, r)
          => k1 = k2 /\ n1 = n2
    /\ ~ record.lost => \A r \in Best(record.query) :
          \E k, n : Found(record, box, jobs, threads, c, k, n, r)

\* A caller in select: its options passed, its heap is within its bound, and it
\* receives only when every tile is submitted.
InSearch(record) ==
    /\ Accepts(record.query)
    /\ record.begin \in Nat /\ (record.pc = "collect" => record.begin >= Tiles)
    /\ record.heap \in SUBSET Eligible(record.query)
    /\ Cardinality(record.heap) <= Limit(record.query)
    /\ record.answer.status = "none"

\* An answer is exact and as large as the budget it reports.
OutcomeOK(record) ==
    record.answer.status = "Ok" =>
        /\ RightHits(record.query, record.answer.hits)
        /\ record.answer.refined = record.answer.limit

\* A job asks the query its caller asks.
JobOK(job, who) ==
    job.query = who[job.caller].query /\ job.begin \in Int /\ job.end \in Int

\* The inductive invariant, to be used with that of the pool.
RankInv ==
    /\ \A c \in Callers : caller[c].pc # "idle" =>
          InSearch(caller[c]) /\ Gathered(caller[c], inbox[c], queue, worker, c)
    /\ \A c \in Callers : OutcomeOK(caller[c])
    /\ \A i \in DOMAIN queue : JobOK(queue[i], caller)
    /\ \A w \in Workers : worker[w].pc = "running" => JobOK(worker[w].job, caller)

-----------------------------------------------------------------------------
\* At first no search is under way and nothing has been answered.
LEMMA RankInit == Init => RankInv
  <1> SUFFICES ASSUME Init PROVE RankInv
    OBVIOUS
  <1>1. \A c \in Callers : caller[c].pc = "idle" /\ caller[c].answer.status = "none"
    BY DEF Init, NewCaller, NoAnswer
  <1>2. queue = <<>> /\ \A w \in Workers : worker[w].pc = "unspawned"
    BY DEF Init, Unspawned
  <1>3. QED
    BY <1>1, <1>2 DEF RankInv, OutcomeOK

\* Jobs that move without a row of the call changing place.
LEMMA SamePlaces ==
    ASSUME NEW record, NEW box, NEW jobs, NEW threads, NEW c, NEW jobs2, NEW threads2,
           Gathered(record, box, jobs, threads, c),
           \A k, n, r : Found(record, box, jobs2, threads2, c, k, n, r)
                        <=> Found(record, box, jobs, threads, c, k, n, r)
    PROVE  Gathered(record, box, jobs2, threads2, c)
  <1>1. \A i \in DOMAIN box : box[i] \in SUBSET Eligible(record.query)
    BY DEF Gathered
  <1>2. \A k1, k2, n1, n2, r :
          /\ Found(record, box, jobs2, threads2, c, k1, n1, r)
          /\ Found(record, box, jobs2, threads2, c, k2, n2, r)
          => k1 = k2 /\ n1 = n2
    BY DEF Gathered
  <1>3. ~ record.lost => \A r \in Best(record.query) :
          \E k, n : Found(record, box, jobs2, threads2, c, k, n, r)
    BY DEF Gathered
  <1>4. QED
    BY <1>1, <1>2, <1>3, Zenon DEF Gathered

\* Threads that start or end without a job.
LEMMA RankIdle ==
    ASSUME RankInv, UNCHANGED <<queue, caller, inbox>>,
           \A w \in Workers :
              /\ worker'[w].pc = "running" <=> worker[w].pc = "running"
              /\ worker[w].pc = "running" => worker'[w] = worker[w]
    PROVE  RankInv'
  <1>1. ASSUME NEW c, NEW k, NEW n, NEW r
        PROVE  Found(caller[c], inbox[c], queue, worker', c, k, n, r)
               <=> Found(caller[c], inbox[c], queue, worker, c, k, n, r)
    BY DEF Found
  <1>2. ASSUME NEW c \in Callers, caller[c].pc # "idle"
        PROVE  InSearch(caller[c]) /\ Gathered(caller[c], inbox[c], queue, worker', c)
    <2>1. InSearch(caller[c]) /\ Gathered(caller[c], inbox[c], queue, worker, c)
      BY <1>2 DEF RankInv
    <2>2. QED
      BY <1>1, <2>1, SamePlaces
  <1>3. \A w \in Workers : worker'[w].pc = "running" => JobOK(worker'[w].job, caller)
    BY DEF RankInv
  <1>4. /\ \A c \in Callers : OutcomeOK(caller[c])
        /\ \A i \in DOMAIN queue : JobOK(queue[i], caller)
    BY DEF RankInv
  <1>5. queue' = queue /\ caller' = caller /\ inbox' = inbox
    OBVIOUS
  <1>6. QED
    BY <1>2, <1>3, <1>4, <1>5 DEF RankInv

\* A caller moves; the jobs that wait and run stay.
LEMMA RankCaller ==
    ASSUME RankInv, IInv, NEW c \in Callers,
           UNCHANGED <<queue, worker>>,
           \A d \in Callers \ {c} : caller'[d] = caller[d] /\ inbox'[d] = inbox[d],
           \/ caller'[c].query = caller[c].query
           \/ /\ \A i \in DOMAIN queue : queue[i].caller # c
              /\ \A w \in Workers : worker[w].pc = "running" => worker[w].job.caller # c,
           caller'[c].pc # "idle" =>
              /\ InSearch(caller'[c])
              /\ Gathered(caller'[c], inbox'[c], queue, worker, c),
           OutcomeOK(caller'[c])
    PROVE  RankInv'
  <1>1. ASSUME NEW job, job.caller \in Callers, JobOK(job, caller),
               job.caller # c \/ caller'[c].query = caller[c].query
        PROVE  JobOK(job, caller')
    BY <1>1 DEF JobOK
  <1>2. \A i \in DOMAIN queue : JobOK(queue[i], caller')
    <2>1. TAKE i \in DOMAIN queue
    <2>2. PICK job : job = queue[i]
      OBVIOUS
    <2>3. job.caller \in Callers /\ JobOK(job, caller)
      BY <2>2 DEF IInv, JobsOK, RankInv
    <2>4. job.caller # c \/ caller'[c].query = caller[c].query
      BY <2>2
    <2>5. QED
      BY <1>1, <2>2, <2>3, <2>4
  <1>3. \A w \in Workers : worker[w].pc = "running" => JobOK(worker[w].job, caller')
    <2>1. SUFFICES ASSUME NEW w \in Workers, worker[w].pc = "running"
                   PROVE  JobOK(worker[w].job, caller')
      OBVIOUS
    <2>2. PICK job : job = worker[w].job
      OBVIOUS
    <2>3. job.caller \in Callers /\ JobOK(job, caller)
      BY <2>1, <2>2 DEF IInv, JobsOK, RankInv
    <2>4. job.caller # c \/ caller'[c].query = caller[c].query
      BY <2>1, <2>2
    <2>5. QED
      BY <1>1, <2>2, <2>3, <2>4
  <1>4. ASSUME NEW d \in Callers, caller'[d].pc # "idle"
        PROVE  InSearch(caller'[d]) /\ Gathered(caller'[d], inbox'[d], queue, worker, d)
    <2>1. CASE d = c
      BY <1>4, <2>1
    <2>2. CASE d # c
      BY <1>4, <2>2 DEF RankInv
    <2>3. QED
      BY <2>1, <2>2
  <1>5. \A d \in Callers : OutcomeOK(caller'[d])
    <2>1. \A d \in Callers \ {c} : OutcomeOK(caller'[d])
      BY DEF RankInv
    <2>2. QED
      BY <2>1
  <1>6. QED
    BY <1>2, <1>3, <1>4, <1>5 DEF RankInv

\* A search starts with every row still to submit.
LEMMA RankSearch ==
    ASSUME RankInv, IInv, NEW c \in Callers, NEW q \in Queries, Search(c, q)
    PROVE  RankInv'
  <1> DEFINE record == [Accepted(q) EXCEPT !.call = caller[c].call + 1]
  <1>1. /\ caller[c].pc = "idle"
        /\ caller' = [caller EXCEPT ![c] = record]
        /\ UNCHANGED <<queue, worker, inbox>>
    BY DEF Search
  <1>2. /\ DOMAIN caller = Callers /\ inbox[c] = <<>>
        /\ \A i \in DOMAIN queue : queue[i].caller # c
        /\ \A w \in Workers : worker[w].pc = "running" => worker[w].job.caller # c
    BY <1>1, NoJobs DEF IInv, ShapesOK, CallersOK, SearchesInside
  <1>3. caller'[c] = record /\ \A d \in Callers \ {c} : caller'[d] = caller[d]
    BY <1>1, <1>2
  <1>4. /\ record.answer.status # "Ok"
        /\ record.pc # "idle" =>
              /\ record.pc = "submit" /\ record.query = q /\ ~ OptionError(q)
              /\ record.begin = 0 /\ record.heap = {} /\ record.answer.status = "none"
    BY DEF Accepted, NewCaller, NoAnswer, Refusal
  <1> HIDE DEF record
  <1>5. OutcomeOK(record)
    BY <1>4 DEF OutcomeOK
  <1>6. ASSUME record.pc # "idle"
        PROVE  InSearch(record) /\ Gathered(record, <<>>, queue, worker, c)
    <2>1. /\ record.pc = "submit" /\ record.query = q /\ Accepts(q)
          /\ record.begin = 0 /\ record.heap = {} /\ record.answer.status = "none"
      BY <1>4, <1>6 DEF Accepts
    <2>2. Cardinality({}) <= Limit(q)
      BY <2>1, LimitFits, FS_EmptySet
    <2>3. InSearch(record)
      BY <2>1, <2>2 DEF InSearch
    <2>4. Visited(q, 0, Tiles) = Eligible(q)
      BY TilesSplit DEF Visited, Eligible
    <2>5. \A k, n, r : Found(record, <<>>, queue, worker, c, k, n, r)
                       <=> k = "rest" /\ n = 0 /\ r \in Eligible(q)
      BY <1>2, <2>1, <2>4 DEF Found
    <2>6. Best(q) \subseteq Eligible(q)
      BY DEF Best
    <2>7. Gathered(record, <<>>, queue, worker, c)
      <3> DEFINE New(k, n, r) == Found(record, <<>>, queue, worker, c, k, n, r)
      <3>1. \A k1, k2, n1, n2, r : New(k1, n1, r) /\ New(k2, n2, r) => k1 = k2 /\ n1 = n2
        BY <2>5
      <3>2. \A r \in Best(record.query) : \E k, n : New(k, n, r)
        <4>1. TAKE r \in Best(record.query)
        <4>2. New("rest", 0, r)
          BY <2>1, <2>5, <2>6
        <4>3. QED
          BY <4>2
      <3>3. \A i \in DOMAIN <<>> : <<>>[i] \in SUBSET Eligible(record.query)
        OBVIOUS
      <3> HIDE DEF New
      <3>4. QED
        BY <3>1, <3>2, <3>3 DEF Gathered, New
    <2>8. QED
      BY <2>3, <2>7
  <1>7. QED
    BY <1>1, <1>2, <1>3, <1>5, <1>6, RankCaller

\* A search that gives up.
LEMMA RankFails ==
    ASSUME RankInv, IInv, NEW c \in Callers, NEW status, status # "Ok", Fails(c, status)
    PROVE  RankInv'
  <1>1. /\ caller' = [caller EXCEPT ![c] = Answered(c, Refusal(status))]
        /\ inbox' = [inbox EXCEPT ![c] = <<>>]
        /\ UNCHANGED <<queue, worker>>
    BY DEF Fails
  <1>2. DOMAIN caller = Callers /\ DOMAIN inbox = Callers /\ DOMAIN caller[c] = Fields
    BY DEF IInv, ShapesOK, CallersOK, CallerOK
  <1>3. /\ caller'[c].pc = "idle" /\ caller'[c].query = caller[c].query
        /\ caller'[c].answer = Refusal(status)
        /\ \A d \in Callers \ {c} : caller'[d] = caller[d] /\ inbox'[d] = inbox[d]
    BY <1>1, <1>2 DEF Answered, Fields
  <1>4. OutcomeOK(caller'[c])
    BY <1>3 DEF OutcomeOK, Refusal, NoAnswer
  <1>5. QED
    BY <1>1, <1>3, <1>4, RankCaller

\* With every reply merged and no job lost, the heap holds the best.
LEMMA HeapComplete ==
    ASSUME RankInv, IInv, NEW c \in Callers, caller[c].pc = "collect",
           caller[c].waiting = 0
    PROVE  /\ InSearch(caller[c]) /\ Best(caller[c].query) \subseteq caller[c].heap
  <1> DEFINE q == caller[c].query
  <1>1. InSearch(caller[c]) /\ Gathered(caller[c], inbox[c], queue, worker, c)
    BY DEF RankInv
  <1>2. ~ caller[c].lost
    BY NoneLost
  <1>3. /\ inbox[c] = <<>>
        /\ \A i \in DOMAIN queue : queue[i].caller # c
        /\ \A w \in Workers : worker[w].pc = "running" => worker[w].job.caller # c
    BY NothingPending, NoJobs
  <1>4. Visited(q, caller[c].begin, Tiles) = {}
    <2>1. /\ caller[c].begin \in Int /\ Tiles \in Int /\ caller[c].begin >= Tiles
      BY <1>1, TilesSplit DEF InSearch
    <2>2. RowsOfTiles(caller[c].begin, Tiles) = {}
      BY <2>1, TilesSplit
    <2>3. QED
      BY <2>2 DEF Visited
  <1>5. \A k, n, r : Found(caller[c], inbox[c], queue, worker, c, k, n, r)
                     => r \in caller[c].heap
    BY <1>3, <1>4 DEF Found
  <1>6. \A r \in Best(q) : r \in caller[c].heap
    BY <1>1, <1>2, <1>5 DEF Gathered
  <1>7. QED
    BY <1>1, <1>6

\* A search that refines its heap answers right, if it answers.
LEMMA RankRefine ==
    ASSUME RankInv, IInv, NEW c \in Callers, Refine(c)
    PROVE  RankInv'
  <1> DEFINE q == caller[c].query
             heap == caller[c].heap
             right == [status |-> "Ok", limit |-> Limit(q),
                       refined |-> Cardinality(heap), hits |-> Ranked(q, heap)]
             answer == IF Range(Ranked(q, heap)) \cap q.uncertified # {}
                       THEN Refusal("CertificateInvalid") ELSE right
  <1>1. /\ caller[c].pc = "collect" /\ caller[c].waiting = 0
        /\ caller' = [caller EXCEPT ![c] = Answered(c, answer)]
        /\ UNCHANGED <<queue, worker, inbox>>
    BY DEF Refine
  <1>2. DOMAIN caller = Callers /\ DOMAIN caller[c] = Fields
    BY DEF IInv, CallersOK, CallerOK
  <1>3. /\ RightHits(q, Ranked(q, heap)) /\ Cardinality(heap) = Limit(q)
    <2>1. InSearch(caller[c]) /\ Best(q) \subseteq heap
      BY <1>1, HeapComplete
    <2>2. QED
      BY <2>1, RefinesRight DEF InSearch
  <1>4. /\ right.hits = Ranked(q, heap) /\ right.refined = right.limit
        /\ answer = right \/ answer.status # "Ok"
    <2>1. Refusal("CertificateInvalid").status # "Ok"
      BY DEF Refusal, NoAnswer
    <2>2. QED
      BY <1>3, <2>1
  <1> HIDE DEF answer, right
  <1>5. /\ caller'[c].pc = "idle" /\ caller'[c].query = q
        /\ caller'[c].answer = answer
        /\ \A d \in Callers \ {c} : caller'[d] = caller[d]
    BY <1>1, <1>2 DEF Answered, Fields
  <1>6. OutcomeOK(caller'[c])
    BY <1>3, <1>4, <1>5 DEF OutcomeOK
  <1>7. QED
    BY <1>1, <1>5, <1>6, RankCaller

\* A job leaves the queue for a thread.
LEMMA RankTake ==
    ASSUME RankInv, IInv, NEW w \in Workers, Take(w)
    PROVE  RankInv'
  <1>1. /\ worker[w].pc = "idle"
        /\ worker'[w].pc = "running" /\ worker'[w].job = Head(queue)
        /\ \A v \in Workers \ {w} : worker'[v] = worker[v]
    BY DEF IInv, ShapesOK, Take, Running
  <1>2. /\ ASeq(queue) /\ queue # <<>> /\ queue' = Tail(queue)
        /\ UNCHANGED <<caller, inbox>>
    BY DEF IInv, ShapesOK, Take
  <1>3. /\ Len(queue) \in Nat \ {0}
        /\ DOMAIN queue = 1 .. Len(queue) /\ DOMAIN queue' = 1 .. Len(queue) - 1
        /\ \A i \in 1 .. Len(queue) - 1 : queue'[i] = queue[i + 1]
        /\ worker'[w].job = queue[1]
    BY <1>1, <1>2, TailSeq
  <1>4. ASSUME NEW c \in Callers, caller[c].pc # "idle"
        PROVE  InSearch(caller[c]) /\ Gathered(caller[c], inbox[c], queue', worker', c)
    <2> DEFINE Old(k, n, r) == Found(caller[c], inbox[c], queue, worker, c, k, n, r)
               New(k, n, r) == Found(caller[c], inbox[c], queue', worker', c, k, n, r)
    <2>1. InSearch(caller[c]) /\ Gathered(caller[c], inbox[c], queue, worker, c)
      BY <1>4 DEF RankInv
    <2>2. ASSUME NEW k, NEW n, NEW r
          PROVE  New(k, n, r) <=>
                    \/ k \in {"heap", "rest", "inbox"} /\ Old(k, n, r)
                    \/ k = "queue" /\ n \in Nat \ {0} /\ Old("queue", n + 1, r)
                    \/ k = "run" /\ n # w /\ Old("run", n, r)
                    \/ k = "run" /\ n = w /\ Old("queue", 1, r)
      <3>1. CASE k \notin {"queue", "run"}
        BY <3>1 DEF Found
      <3>2. CASE k = "queue"
        <4>1. n \in DOMAIN queue' <=> n \in Nat \ {0} /\ n + 1 \in DOMAIN queue
          BY <1>3
        <4>2. n \in DOMAIN queue' => queue'[n] = queue[n + 1]
          BY <1>3
        <4>3. QED
          BY <3>2, <4>1, <4>2 DEF Found
      <3>3. CASE k = "run"
        <4>1. 1 \in DOMAIN queue
          BY <1>3
        <4>2. QED
          BY <1>1, <1>3, <3>3, <4>1 DEF Found
      <3>4. QED
        BY <3>1, <3>2, <3>3
    <2>3. ASSUME NEW k, NEW n, NEW r, Old(k, n, r)
          PROVE  \/ k \in {"heap", "rest", "inbox"}
                 \/ k = "queue" /\ n \in Nat \ {0}
                 \/ k = "run" /\ n # w
      BY <1>1, <1>3, <2>3 DEF Found
    <2>4. \A i \in DOMAIN inbox[c] : inbox[c][i] \in SUBSET Eligible(caller[c].query)
      BY <2>1 DEF Gathered
    <2>5. \A k1, k2, n1, n2, r : Old(k1, n1, r) /\ Old(k2, n2, r) => k1 = k2 /\ n1 = n2
      BY <2>1 DEF Gathered
    <2>6. ~ caller[c].lost => \A r \in Best(caller[c].query) : \E k, n : Old(k, n, r)
      BY <2>1 DEF Gathered
    <2> HIDE DEF Old, New
    <2>7. ASSUME NEW k1, NEW k2, NEW n1, NEW n2, NEW r, New(k1, n1, r), New(k2, n2, r)
          PROVE  k1 = k2 /\ n1 = n2
      <3>1. /\ n1 \in Nat /\ n2 \in Nat /\ n1 + 1 = n2 + 1 => n1 = n2
            /\ n1 \in Nat \ {0} => n1 + 1 # 1
            /\ n2 \in Nat \ {0} => n2 + 1 # 1
        OBVIOUS
      <3>2. QED
        BY <2>2, <2>5, <2>7, <3>1
    <2>8. ASSUME ~ caller[c].lost, NEW r \in Best(caller[c].query)
          PROVE  \E k, n : New(k, n, r)
      <3>1. PICK k, n : Old(k, n, r)
        BY <2>6, <2>8
      <3>2. CASE k = "queue" /\ n \in Nat \ {0} /\ n # 1
        <4>1. n - 1 \in Nat \ {0} /\ (n - 1) + 1 = n
          BY <3>2
        <4>2. New("queue", n - 1, r)
          BY <2>2, <3>1, <3>2, <4>1
        <4>3. QED
          BY <4>2
      <3>3. CASE k = "queue" /\ n = 1
        <4>1. New("run", w, r)
          BY <2>2, <3>1, <3>3
        <4>2. QED
          BY <4>1
      <3>4. CASE k \in {"heap", "rest", "inbox"} \/ (k = "run" /\ n # w)
        <4>1. New(k, n, r)
          BY <2>2, <3>1, <3>4
        <4>2. QED
          BY <4>1
      <3>5. QED
        BY <2>3, <3>1, <3>2, <3>3, <3>4
    <2>9. Gathered(caller[c], inbox[c], queue', worker', c)
      BY <2>4, <2>7, <2>8 DEF Gathered, New
    <2>10. QED
      BY <2>1, <2>9
  <1>5. ASSUME NEW i \in DOMAIN queue'
        PROVE  JobOK(queue'[i], caller)
    <2>1. i + 1 \in DOMAIN queue /\ queue'[i] = queue[i + 1]
      BY <1>3
    <2>2. QED
      BY <2>1 DEF RankInv
  <1>6. ASSUME NEW v \in Workers, worker'[v].pc = "running"
        PROVE  JobOK(worker'[v].job, caller)
    <2>1. CASE v = w
      <3>1. 1 \in DOMAIN queue
        BY <1>3
      <3>2. QED
        BY <1>3, <2>1, <3>1 DEF RankInv
    <2>2. CASE v # w
      BY <1>1, <1>6, <2>2 DEF RankInv
    <2>3. QED
      BY <2>1, <2>2
  <1>7. \A c \in Callers : OutcomeOK(caller[c])
    BY DEF RankInv
  <1>8. caller' = caller /\ inbox' = inbox
    BY <1>2
  <1>9. QED
    BY <1>4, <1>5, <1>6, <1>7, <1>8 DEF RankInv

\* The candidates of a job go to its caller.
LEMMA RankReply ==
    ASSUME RankInv, IInv, NEW w \in Workers, Reply(w)
    PROVE  RankInv'
  <1> DEFINE job == worker[w].job
             m == job.caller
             reply == Scan(job.query, job.begin, job.end)
  <1>1. /\ worker[w].pc = "running" /\ worker'[w].pc = "idle"
        /\ \A v \in Workers \ {w} : worker'[v] = worker[v]
        /\ UNCHANGED <<queue, caller>>
    BY DEF IInv, ShapesOK, Reply, Idle
  <1>2. m \in Callers /\ job.call = caller[m].call /\ caller[m].pc # "idle"
    BY <1>1, JobsOfCall
  <1>3. inbox' = [inbox EXCEPT ![m] = Append(@, reply)]
    <2>1. Waiting(job)
      BY <1>2 DEF Waiting, Belongs
    <2>2. QED
      BY <2>1 DEF Reply
  <1>4. DOMAIN inbox = Callers /\ \A c \in Callers : ASeq(inbox[c])
    BY DEF IInv, ShapesOK
  <1>5. job.query = caller[m].query /\ job.begin \in Int /\ job.end \in Int
    BY <1>1 DEF RankInv, JobOK
  <1>6. InSearch(caller[m]) /\ Gathered(caller[m], inbox[m], queue, worker, m)
    BY <1>2 DEF RankInv
  <1> DEFINE q == caller[m].query
             S == Visited(q, job.begin, job.end)
  <1>7. Kept(q, S, reply)
    BY <1>5, <1>6, ScanKeeps DEF InSearch
  <1>8. S \in SUBSET Eligible(q)
    BY <1>5, TilesSplit DEF Visited, Eligible
  <1> HIDE DEF reply, m
  <1>9. /\ inbox'[m] = Append(inbox[m], reply)
        /\ \A c \in Callers \ {m} : inbox'[c] = inbox[c]
    BY <1>2, <1>3, <1>4
  <1>10. /\ Len(inbox[m]) \in Nat
         /\ DOMAIN inbox[m] = 1 .. Len(inbox[m])
         /\ DOMAIN inbox'[m] = 1 .. (Len(inbox[m]) + 1)
         /\ \A i \in 1 .. Len(inbox[m]) : inbox'[m][i] = inbox[m][i]
         /\ inbox'[m][Len(inbox[m]) + 1] = reply
    BY <1>2, <1>4, <1>9, AppendSeq
  <1>11. ASSUME NEW c \in Callers, caller[c].pc # "idle", c # m
         PROVE  InSearch(caller[c]) /\ Gathered(caller[c], inbox'[c], queue, worker', c)
    <2>1. InSearch(caller[c]) /\ Gathered(caller[c], inbox[c], queue, worker, c)
      BY <1>11 DEF RankInv
    <2>2. ASSUME NEW k, NEW n, NEW r
          PROVE  Found(caller[c], inbox[c], queue, worker', c, k, n, r)
                 <=> Found(caller[c], inbox[c], queue, worker, c, k, n, r)
      BY <1>1, <1>11 DEF Found, m
    <2>3. Gathered(caller[c], inbox[c], queue, worker', c)
      BY <2>1, <2>2, SamePlaces
    <2>4. QED
      BY <1>9, <1>11, <2>1, <2>3
  <1>12. Gathered(caller[m], inbox'[m], queue, worker', m)
    <2> DEFINE Old(k, n, r) == Found(caller[m], inbox[m], queue, worker, m, k, n, r)
               New(k, n, r) == Found(caller[m], inbox'[m], queue, worker', m, k, n, r)
               L == Len(inbox[m])
    <2>1. /\ \A k1, k2, n1, n2, r : Old(k1, n1, r) /\ Old(k2, n2, r) => k1 = k2 /\ n1 = n2
          /\ ~ caller[m].lost => \A r \in Best(q) : \E k, n : Old(k, n, r)
          /\ \A i \in DOMAIN inbox[m] : inbox[m][i] \in SUBSET Eligible(q)
      BY <1>6 DEF Gathered
    <2>2. \A r : Old("run", w, r) <=> r \in S
      BY <1>1, <1>5 DEF Found, m
    <2>3. ASSUME NEW k, NEW n, NEW r
          PROVE  New(k, n, r) <=>
                    \/ k \in {"heap", "rest", "queue"} /\ Old(k, n, r)
                    \/ k = "run" /\ n # w /\ Old("run", n, r)
                    \/ k = "inbox" /\ n # L + 1 /\ Old("inbox", n, r)
                    \/ k = "inbox" /\ n = L + 1 /\ r \in reply
      <3>1. CASE k \notin {"inbox", "run"}
        BY <3>1 DEF Found
      <3>2. CASE k = "inbox"
        <4>1. /\ n \in DOMAIN inbox'[m] <=> n \in DOMAIN inbox[m] \/ n = L + 1
              /\ L + 1 \notin DOMAIN inbox[m]
          BY <1>10
        <4>2. n \in DOMAIN inbox[m] => inbox'[m][n] = inbox[m][n]
          BY <1>10
        <4>3. QED
          BY <1>10, <3>2, <4>1, <4>2 DEF Found
      <3>3. CASE k = "run"
        BY <1>1, <3>3 DEF Found
      <3>4. QED
        BY <3>1, <3>2, <3>3
    <2>4. ASSUME NEW k, NEW n, NEW r, Old(k, n, r)
          PROVE  \/ k \in {"heap", "rest", "queue"} \/ k = "run"
                 \/ k = "inbox" /\ n # L + 1
      BY <1>10, <2>4 DEF Found
    <2> HIDE DEF Old, New, L, S, q
    <2>5. reply \subseteq S /\ \A r \in Best(q) : r \in S => r \in reply
      BY <1>7 DEF Kept
    <2>6. ASSUME NEW k1, NEW k2, NEW n1, NEW n2, NEW r, New(k1, n1, r), New(k2, n2, r)
          PROVE  k1 = k2 /\ n1 = n2
      BY <2>1, <2>2, <2>3, <2>5, <2>6
    <2>7. ASSUME ~ caller[m].lost, NEW r \in Best(q)
          PROVE  \E k, n : New(k, n, r)
      <3>1. PICK k, n : Old(k, n, r)
        BY <2>1, <2>7
      <3>2. CASE k = "run" /\ n = w
        <4>1. New("inbox", L + 1, r)
          BY <2>2, <2>3, <2>5, <3>1, <3>2
        <4>2. QED
          BY <4>1
      <3>3. CASE ~ (k = "run" /\ n = w)
        <4>1. New(k, n, r)
          BY <2>3, <2>4, <3>1, <3>3
        <4>2. QED
          BY <4>1
      <3>4. QED
        BY <3>2, <3>3
    <2>8. \A i \in DOMAIN inbox'[m] : inbox'[m][i] \in SUBSET Eligible(q)
      <3>1. reply \in SUBSET Eligible(q)
        BY <1>8, <2>5
      <3>2. QED
        BY <1>10, <2>1, <3>1
    <2>9. QED
      BY <2>6, <2>7, <2>8 DEF Gathered, New, q
  <1>13. ASSUME NEW c \in Callers, caller[c].pc # "idle"
         PROVE  InSearch(caller[c]) /\ Gathered(caller[c], inbox'[c], queue, worker', c)
    BY <1>6, <1>11, <1>12, <1>13
  <1>14. ASSUME NEW v \in Workers, worker'[v].pc = "running"
         PROVE  JobOK(worker'[v].job, caller)
    BY <1>1, <1>14 DEF RankInv
  <1>15. /\ \A c \in Callers : OutcomeOK(caller[c])
         /\ \A i \in DOMAIN queue : JobOK(queue[i], caller)
    BY DEF RankInv
  <1>16. queue' = queue /\ caller' = caller
    BY <1>1
  <1>17. QED
    BY <1>13, <1>14, <1>15, <1>16 DEF RankInv

\* A reply joins the heap.
LEMMA RankReceive ==
    ASSUME RankInv, IInv, NEW c \in Callers, Receive(c)
    PROVE  RankInv'
  <1> DEFINE q == caller[c].query
             heap == caller[c].heap
             reply == Head(inbox[c])
             record == caller'[c]
  <1>1. /\ caller[c].pc = "collect" /\ inbox[c] # <<>>
        /\ inbox' = [inbox EXCEPT ![c] = Tail(@)]
        /\ UNCHANGED <<queue, worker>>
    BY DEF Receive
  <1>2. /\ DOMAIN caller = Callers /\ DOMAIN inbox = Callers /\ ASeq(inbox[c])
        /\ DOMAIN caller[c] = Fields
    BY DEF IInv, ShapesOK, CallersOK, CallerOK
  <1>3. /\ \A d \in Callers \ {c} : caller'[d] = caller[d] /\ inbox'[d] = inbox[d]
        /\ record.pc = "collect" /\ record.query = q
        /\ record.begin = caller[c].begin /\ record.lost = caller[c].lost
        /\ record.answer = caller[c].answer
        /\ record.heap = Merge(q, heap, reply)
        /\ inbox'[c] = Tail(inbox[c])
    BY <1>1, <1>2 DEF Receive, Fields
  <1>4. /\ Len(inbox[c]) \in Nat \ {0}
        /\ DOMAIN inbox[c] = 1 .. Len(inbox[c])
        /\ DOMAIN inbox'[c] = 1 .. (Len(inbox[c]) - 1)
        /\ \A i \in 1 .. (Len(inbox[c]) - 1) : inbox'[c][i] = inbox[c][i + 1]
        /\ reply = inbox[c][1]
    BY <1>1, <1>2, <1>3, TailSeq
  <1>5. InSearch(caller[c]) /\ Gathered(caller[c], inbox[c], queue, worker, c)
    BY <1>1 DEF RankInv
  <1> DEFINE Old(k, n, r) == Found(caller[c], inbox[c], queue, worker, c, k, n, r)
             New(k, n, r) == Found(record, inbox'[c], queue, worker, c, k, n, r)
  <1>6. /\ \A k1, k2, n1, n2, r : Old(k1, n1, r) /\ Old(k2, n2, r) => k1 = k2 /\ n1 = n2
        /\ ~ caller[c].lost => \A r \in Best(q) : \E k, n : Old(k, n, r)
        /\ \A i \in DOMAIN inbox[c] : inbox[c][i] \in SUBSET Eligible(q)
    BY <1>5 DEF Gathered
  <1>7. \A r : /\ Old("heap", 0, r) <=> r \in heap
               /\ Old("inbox", 1, r) <=> r \in reply
    <2>1. 1 \in DOMAIN inbox[c]
      BY <1>4
    <2>2. QED
      BY <1>4, <2>1 DEF Found
  <1> HIDE DEF reply, record
  <1>8. ASSUME NEW k, NEW n, NEW r
        PROVE  New(k, n, r) <=>
                  \/ k \in {"rest", "queue", "run"} /\ Old(k, n, r)
                  \/ k = "inbox" /\ n \in Nat \ {0} /\ Old("inbox", n + 1, r)
                  \/ k = "heap" /\ n = 0 /\ r \in record.heap
    <2>1. CASE k \notin {"inbox", "heap"}
      BY <1>3, <2>1 DEF Found
    <2>2. CASE k = "inbox"
      <3>1. n \in DOMAIN inbox'[c] <=> n \in Nat \ {0} /\ n + 1 \in DOMAIN inbox[c]
        BY <1>4
      <3>2. n \in DOMAIN inbox'[c] => inbox'[c][n] = inbox[c][n + 1]
        BY <1>4
      <3>3. QED
        BY <2>2, <3>1, <3>2 DEF Found
    <2>3. CASE k = "heap"
      BY <2>3 DEF Found
    <2>4. QED
      BY <2>1, <2>2, <2>3
  <1>9. ASSUME NEW k, NEW n, NEW r, Old(k, n, r)
        PROVE  \/ k \in {"rest", "queue", "run"}
               \/ k = "inbox" /\ n \in Nat \ {0}
               \/ k = "heap" /\ n = 0
    BY <1>4, <1>9 DEF Found
  <1> HIDE DEF Old, New
  <1>10. Kept(q, heap \cup reply, record.heap)
    <2>1. Accepts(q) /\ heap \in SUBSET Eligible(q) /\ Cardinality(heap) <= Limit(q)
      BY <1>5 DEF InSearch
    <2>2. reply \in SUBSET Eligible(q)
      BY <1>4, <1>6
    <2>3. heap \cap reply = {}
      BY <1>6, <1>7
    <2>4. QED
      BY <1>3, <2>1, <2>2, <2>3, MergeKeeps
  <1>11. /\ record.heap \subseteq heap \cup reply
         /\ Cardinality(record.heap) <= Limit(q)
         /\ \A r \in Best(q) : r \in heap \cup reply => r \in record.heap
    BY <1>10 DEF Kept
  <1>12. InSearch(record)
    <2>1. reply \in SUBSET Eligible(q)
      BY <1>4, <1>6
    <2>2. record.heap \in SUBSET Eligible(q)
      BY <1>5, <1>11, <2>1 DEF InSearch
    <2>3. QED
      BY <1>1, <1>3, <1>5, <1>11, <2>2 DEF InSearch
  <1>13. ASSUME NEW k1, NEW k2, NEW n1, NEW n2, NEW r, New(k1, n1, r), New(k2, n2, r)
         PROVE  k1 = k2 /\ n1 = n2
    <2>1. /\ n1 \in Nat /\ n2 \in Nat /\ n1 + 1 = n2 + 1 => n1 = n2
          /\ n1 \in Nat \ {0} => n1 + 1 # 1
          /\ n2 \in Nat \ {0} => n2 + 1 # 1
      OBVIOUS
    <2>2. r \in record.heap => Old("heap", 0, r) \/ Old("inbox", 1, r)
      BY <1>7, <1>11
    <2>3. QED
      BY <1>6, <1>8, <1>13, <2>1, <2>2
  <1>14. ASSUME ~ record.lost, NEW r \in Best(q)
         PROVE  \E k, n : New(k, n, r)
    <2>1. PICK k, n : Old(k, n, r)
      BY <1>3, <1>6, <1>14
    <2>2. CASE k \in {"rest", "queue", "run"}
      <3>1. New(k, n, r)
        BY <1>8, <2>1, <2>2
      <3>2. QED
        BY <3>1
    <2>3. CASE k = "inbox" /\ n \in Nat \ {0} /\ n # 1
      <3>1. n - 1 \in Nat \ {0} /\ (n - 1) + 1 = n
        BY <2>3
      <3>2. New("inbox", n - 1, r)
        BY <1>8, <2>1, <2>3, <3>1
      <3>3. QED
        BY <3>2
    <2>4. CASE (k = "heap" /\ n = 0) \/ (k = "inbox" /\ n = 1)
      <3>1. New("heap", 0, r)
        BY <1>7, <1>8, <1>11, <2>1, <2>4
      <3>2. QED
        BY <3>1
    <2>5. QED
      BY <1>9, <2>1, <2>2, <2>3, <2>4
  <1>15. \A i \in DOMAIN inbox'[c] : inbox'[c][i] \in SUBSET Eligible(q)
    <2>1. TAKE i \in DOMAIN inbox'[c]
    <2>2. i + 1 \in DOMAIN inbox[c] /\ inbox'[c][i] = inbox[c][i + 1]
      BY <1>4
    <2>3. QED
      BY <1>6, <2>2
  <1>16. Gathered(record, inbox'[c], queue, worker, c)
    BY <1>3, <1>13, <1>14, <1>15 DEF Gathered, New
  <1>17. OutcomeOK(record)
    BY <1>12 DEF InSearch, OutcomeOK
  <1>18. QED
    BY <1>1, <1>3, <1>12, <1>16, <1>17, RankCaller DEF record

\* A job takes the next tiles, and leaves the ones after it.
LEMMA NextTiles ==
    ASSUME NEW q, NEW b \in Nat
    PROVE  LET next == b + Width
               e == IF next < Tiles THEN next ELSE Tiles
           IN  /\ next \in Nat /\ e \in Int
               /\ Visited(q, b, Tiles) = Visited(q, b, e) \cup Visited(q, next, Tiles)
               /\ Visited(q, b, e) \cap Visited(q, next, Tiles) = {}
  <1> DEFINE next == b + Width
             e == IF next < Tiles THEN next ELSE Tiles
  <1>1. Jobs \in Nat \ {0} /\ Tiles \in Nat \ {0}
    <2>1. Cardinality(Workers) \in Nat /\ Cardinality(Workers) # 0
      BY SearchAssumption, FS_CardinalityType, FS_EmptySet
    <2>2. Tiles \in Nat \ {0}
      BY TilesSplit
    <2>3. QED
      BY <2>1, <2>2 DEF Jobs
  <1>2. Width \in Nat
    <2> DEFINE j == Jobs
               m == Tiles + j - 1
    <2>1. j \in Nat \ {0} /\ m \in Nat
      BY <1>1
    <2> HIDE DEF j, m
    <2>2. m \div j \in Nat
      BY <2>1
    <2>3. QED
      BY <2>2 DEF Width, j, m
  <1>3. next \in Nat /\ b <= next
    BY <1>2
  <1> HIDE DEF next
  <1>4. RowsOfTiles(b, Tiles) = RowsOfTiles(b, e) \cup RowsOfTiles(next, Tiles)
        /\ RowsOfTiles(b, e) \cap RowsOfTiles(next, Tiles) = {}
    <2>1. CASE next < Tiles
      <3>1. b \in Int /\ next \in Int /\ Tiles \in Int /\ b <= next /\ next <= Tiles
        BY <1>1, <1>3, <2>1
      <3>2. e = next
        BY <2>1
      <3>3. QED
        BY <3>1, <3>2, TilesSplit
    <2>2. CASE ~ (next < Tiles)
      <3>1. next \in Int /\ Tiles \in Int /\ next >= Tiles
        BY <1>1, <1>3, <2>2
      <3>2. e = Tiles /\ RowsOfTiles(next, Tiles) = {}
        BY <2>2, <3>1, TilesSplit
      <3>3. QED
        BY <3>2
    <2>3. QED
      BY <2>1, <2>2
  <1>5. e \in Int
    BY <1>1, <1>3
  <1> HIDE DEF e
  <1>6. QED
    BY <1>3, <1>4, <1>5 DEF Visited, next, e

\* The next job takes its rows from those not yet submitted.
LEMMA RankSubmit ==
    ASSUME RankInv, IInv, NEW c \in Callers, Submit(c)
    PROVE  RankInv'
  <1> DEFINE q == caller[c].query
             b == caller[c].begin
             next == b + Width
             e == IF next < Tiles THEN next ELSE Tiles
             job == [caller |-> c, call |-> caller[c].call, query |-> q,
                     begin |-> b, end |-> e]
             record == caller'[c]
             L == Len(queue)
  <1>1. /\ caller[c].pc = "submit"
        /\ queue' = Append(queue, job)
        /\ UNCHANGED <<worker, inbox>>
    BY DEF Submit
  <1>2. /\ DOMAIN caller = Callers /\ DOMAIN caller[c] = Fields /\ ASeq(queue)
    BY DEF IInv, ShapesOK, CallersOK, CallerOK
  <1>3. /\ \A d \in Callers \ {c} : caller'[d] = caller[d]
        /\ record.pc = IF next < Tiles THEN "submit" ELSE "collect"
        /\ record.query = q /\ record.heap = caller[c].heap
        /\ record.begin = next /\ record.lost = caller[c].lost
        /\ record.answer = caller[c].answer
    BY <1>2 DEF Submit, Fields
  <1>4. /\ DOMAIN queue' = 1 .. (L + 1) /\ DOMAIN queue = 1 .. L /\ L \in Nat
        /\ \A i \in 1 .. L : queue'[i] = queue[i]
        /\ queue'[L + 1] = job
    BY <1>1, <1>2, AppendSeq
  <1>5. /\ job.caller = c /\ job.query = q /\ job.begin = b /\ job.end = e
    OBVIOUS
  <1>6. InSearch(caller[c]) /\ Gathered(caller[c], inbox[c], queue, worker, c)
    BY <1>1 DEF RankInv
  <1>7. b \in Nat /\ Tiles \in Nat
    BY <1>6, TilesSplit DEF InSearch
  <1>8. /\ next \in Nat /\ e \in Int
        /\ Visited(q, b, Tiles) = Visited(q, b, e) \cup Visited(q, next, Tiles)
        /\ Visited(q, b, e) \cap Visited(q, next, Tiles) = {}
    BY <1>7, NextTiles, Zenon
  <1> HIDE DEF job, e
  <1>9. InSearch(record)
    <2>1. record.pc = "collect" => record.begin >= Tiles
      BY <1>3, <1>7, <1>8
    <2>2. record.begin \in Nat
      BY <1>3, <1>8
    <2>3. QED
      BY <1>3, <1>6, <2>1, <2>2, Zenon DEF InSearch
  <1> HIDE DEF next, record, L
  <1>10. \A n : /\ n \in DOMAIN queue' <=> n \in DOMAIN queue \/ n = L + 1
                /\ n \in DOMAIN queue => queue'[n] = queue[n]
                /\ L + 1 \notin DOMAIN queue
    BY <1>4
  <1>11. ASSUME NEW d \in Callers, caller[d].pc # "idle", d # c
         PROVE  InSearch(caller'[d]) /\ Gathered(caller'[d], inbox[d], queue', worker, d)
    <2>1. InSearch(caller[d]) /\ Gathered(caller[d], inbox[d], queue, worker, d)
      BY <1>11 DEF RankInv
    <2>2. ASSUME NEW k, NEW n, NEW r
          PROVE  Found(caller[d], inbox[d], queue', worker, d, k, n, r)
                 <=> Found(caller[d], inbox[d], queue, worker, d, k, n, r)
      BY <1>4, <1>5, <1>10, <1>11 DEF Found
    <2>3. Gathered(caller[d], inbox[d], queue', worker, d)
      BY <2>1, <2>2, SamePlaces
    <2>4. QED
      BY <1>3, <1>11, <2>1, <2>3
  <1>12. Gathered(record, inbox[c], queue', worker, c)
    <2> DEFINE Old(k, n, r) == Found(caller[c], inbox[c], queue, worker, c, k, n, r)
               New(k, n, r) == Found(record, inbox[c], queue', worker, c, k, n, r)
               Now == Visited(q, b, e)
               After == Visited(q, next, Tiles)
    <2>1. /\ \A k1, k2, n1, n2, r : Old(k1, n1, r) /\ Old(k2, n2, r) => k1 = k2 /\ n1 = n2
          /\ ~ caller[c].lost => \A r \in Best(q) : \E k, n : Old(k, n, r)
          /\ \A i \in DOMAIN inbox[c] : inbox[c][i] \in SUBSET Eligible(q)
      BY <1>6 DEF Gathered
    <2>2. \A r : Old("rest", 0, r) <=> r \in Now \/ r \in After
      BY <1>8 DEF Found
    <2>3. \A r : ~ (r \in Now /\ r \in After)
      BY <1>8
    <2> HIDE DEF Now, After
    <2>4. ASSUME NEW k, NEW n, NEW r
          PROVE  New(k, n, r) <=>
                    \/ k \in {"heap", "inbox", "run"} /\ Old(k, n, r)
                    \/ k = "rest" /\ n = 0 /\ r \in After
                    \/ k = "queue" /\ n # L + 1 /\ Old("queue", n, r)
                    \/ k = "queue" /\ n = L + 1 /\ r \in Now
      <3>1. CASE k \notin {"rest", "queue"}
        BY <1>3, <3>1 DEF Found
      <3>2. CASE k = "rest"
        BY <1>3, <3>2 DEF Found, After
      <3>3. CASE k = "queue"
        <4>1. CASE n = L + 1
          <5>1. n \in DOMAIN queue' /\ queue'[n] = job
            BY <1>4, <1>10, <4>1
          <5>2. QED
            BY <1>5, <3>3, <4>1, <5>1 DEF Found, Now
        <4>2. CASE n # L + 1
          BY <1>10, <3>3, <4>2 DEF Found
        <4>3. QED
          BY <4>1, <4>2
      <3>4. QED
        BY <3>1, <3>2, <3>3
    <2>5. ASSUME NEW k, NEW n, NEW r, Old(k, n, r)
          PROVE  \/ k \in {"heap", "inbox", "run"}
                 \/ k = "rest" /\ n = 0
                 \/ k = "queue" /\ n # L + 1
      BY <1>10, <2>5 DEF Found
    <2> HIDE DEF Old, New, q
    <2>6. ASSUME NEW k1, NEW k2, NEW n1, NEW n2, NEW r, New(k1, n1, r), New(k2, n2, r)
          PROVE  k1 = k2 /\ n1 = n2
      BY <2>1, <2>2, <2>3, <2>4, <2>6
    <2>7. ASSUME ~ caller[c].lost, NEW r \in Best(q)
          PROVE  \E k, n : New(k, n, r)
      <3>1. PICK k, n : Old(k, n, r)
        BY <2>1, <2>7
      <3>2. CASE k = "rest" /\ n = 0
        <4>1. r \in Now \/ r \in After
          BY <2>2, <3>1, <3>2
        <4>2. New("queue", L + 1, r) \/ New("rest", 0, r)
          BY <2>4, <4>1
        <4>3. QED
          BY <4>2
      <3>3. CASE ~ (k = "rest" /\ n = 0)
        <4>1. New(k, n, r)
          BY <2>4, <2>5, <3>1, <3>3
        <4>2. QED
          BY <4>1
      <3>4. QED
        BY <3>2, <3>3
    <2>8. QED
      BY <1>3, <2>1, <2>6, <2>7 DEF Gathered, New, q
  <1>13. ASSUME NEW other, other.caller \in Callers, JobOK(other, caller)
         PROVE  JobOK(other, caller')
    <2>1. caller'[other.caller].query = caller[other.caller].query
      BY <1>3, <1>13 DEF record
    <2>2. QED
      BY <1>13, <2>1 DEF JobOK
  <1>14. ASSUME NEW i \in DOMAIN queue'
         PROVE  JobOK(queue'[i], caller')
    <2>1. CASE i \in DOMAIN queue
      <3>1. PICK other : other = queue[i]
        OBVIOUS
      <3>2. other.caller \in Callers /\ JobOK(other, caller)
        BY <2>1, <3>1 DEF IInv, JobsOK, RankInv
      <3>3. QED
        BY <1>10, <1>13, <2>1, <3>1, <3>2
    <2>2. CASE i = L + 1
      <3>1. queue'[i] = job
        BY <1>4, <2>2
      <3>2. QED
        BY <1>3, <1>5, <1>7, <1>8, <3>1 DEF JobOK, record
    <2>3. QED
      BY <1>10, <2>1, <2>2
  <1>15. ASSUME NEW w \in Workers, worker[w].pc = "running"
         PROVE  JobOK(worker[w].job, caller')
    <2>1. PICK other : other = worker[w].job
      OBVIOUS
    <2>2. other.caller \in Callers /\ JobOK(other, caller)
      BY <1>15, <2>1 DEF IInv, JobsOK, RankInv
    <2>3. QED
      BY <1>13, <2>1, <2>2
  <1>16. ASSUME NEW d \in Callers, caller'[d].pc # "idle"
         PROVE  InSearch(caller'[d]) /\ Gathered(caller'[d], inbox[d], queue', worker, d)
    <2>1. CASE d = c
      BY <1>9, <1>12, <2>1 DEF record
    <2>2. CASE d # c
      BY <1>3, <1>11, <1>16, <2>2
    <2>3. QED
      BY <2>1, <2>2
  <1>17. \A d \in Callers : OutcomeOK(caller'[d])
    <2>1. OutcomeOK(record)
      BY <1>9 DEF InSearch, OutcomeOK
    <2>2. \A d \in Callers \ {c} : OutcomeOK(caller'[d])
      BY <1>3 DEF RankInv
    <2>3. QED
      BY <2>1, <2>2 DEF record
  <1>18. worker' = worker /\ inbox' = inbox
    BY <1>1
  <1>19. QED
    BY <1>14, <1>15, <1>16, <1>17, <1>18 DEF RankInv

\* A panic loses rows of the calls it marks, and of no other.
LEMMA RankPanic ==
    ASSUME RankInv, IInv, NEW w \in Workers, Panic(w)
    PROVE  RankInv'
  <1> DEFINE last == \A v \in Workers \ {w} : ~ Alive(v)
             gone == {worker[w].job}
                     \cup IF last THEN {queue[i] : i \in DOMAIN queue} ELSE {}
             Lost(c) == \E job \in gone : Belongs(job, c)
  <1>1. /\ worker[w].pc = "running" /\ worker'[w].pc = "dead"
        /\ \A v \in Workers \ {w} : worker'[v] = worker[v]
        /\ UNCHANGED inbox
    BY DEF IInv, ShapesOK, Panic, Dead
  <1>2. IF last THEN queue' = <<>> ELSE queue' = queue
    BY DEF Panic
  <1>3. \A c \in Callers :
           /\ DOMAIN caller'[c] = Fields
           /\ \A field \in Fields \ {"lost"} : caller'[c][field] = caller[c][field]
           /\ caller'[c].lost = (caller[c].lost \/ Lost(c))
    <2>1. DOMAIN caller = Callers /\ \A c \in Callers : DOMAIN caller[c] = Fields
      BY DEF IInv, CallersOK, CallerOK
    <2>2. caller' = [c \in Callers |-> [caller[c] EXCEPT !.lost = @ \/ Lost(c)]]
      BY DEF Panic
    <2> HIDE DEF Lost
    <2>3. QED
      BY <2>1, <2>2, Zenon DEF Fields
  <1>4. \A c \in Callers : ~ Lost(c) =>
           /\ worker[w].job.caller # c
           /\ last => \A i \in DOMAIN queue : queue[i].caller # c
    <2>1. SUFFICES ASSUME NEW c \in Callers, ~ Lost(c)
                   PROVE  /\ worker[w].job.caller # c
                          /\ last => \A i \in DOMAIN queue : queue[i].caller # c
      OBVIOUS
    <2>2. worker[w].job.caller # c
      BY <1>1, <2>1, JobsOfCall DEF Belongs
    <2>3. ASSUME last, NEW i \in DOMAIN queue
          PROVE  queue[i].caller # c
      BY <2>1, <2>3, JobsOfCall DEF Belongs
    <2>4. QED
      BY <2>2, <2>3
  <1> HIDE DEF last, gone, Lost
  <1>5. ASSUME NEW c \in Callers
        PROVE  /\ caller'[c].pc = caller[c].pc /\ caller'[c].query = caller[c].query
               /\ caller'[c].begin = caller[c].begin /\ caller'[c].heap = caller[c].heap
               /\ caller'[c].answer = caller[c].answer
               /\ caller'[c].lost = (caller[c].lost \/ Lost(c))
    BY <1>3 DEF Fields
  <1>6. ASSUME NEW c \in Callers, caller'[c].pc # "idle"
        PROVE  InSearch(caller'[c]) /\ Gathered(caller'[c], inbox[c], queue', worker', c)
    <2> DEFINE Old(k, n, r) == Found(caller[c], inbox[c], queue, worker, c, k, n, r)
               New(k, n, r) == Found(caller'[c], inbox[c], queue', worker', c, k, n, r)
               q == caller[c].query
    <2>1. InSearch(caller[c]) /\ Gathered(caller[c], inbox[c], queue, worker, c)
      BY <1>5, <1>6 DEF RankInv
    <2>2. InSearch(caller'[c])
      BY <1>5, <2>1 DEF InSearch
    <2>3. /\ \A k1, k2, n1, n2, r : Old(k1, n1, r) /\ Old(k2, n2, r) => k1 = k2 /\ n1 = n2
          /\ ~ caller[c].lost => \A r \in Best(q) : \E k, n : Old(k, n, r)
          /\ \A i \in DOMAIN inbox[c] : inbox[c][i] \in SUBSET Eligible(q)
      BY <2>1 DEF Gathered
    <2>4. ASSUME NEW k, NEW n, NEW r, New(k, n, r)
          PROVE  Old(k, n, r)
      <3>1. n \in DOMAIN queue' => n \in DOMAIN queue /\ queue' = queue
        BY <1>2
      <3>2. n \in Workers /\ worker'[n].pc = "running" => worker'[n] = worker[n]
        BY <1>1
      <3>3. QED
        BY <1>5, <2>4, <3>1, <3>2 DEF Found
    <2>5. ASSUME ~ Lost(c), NEW k, NEW n, NEW r, Old(k, n, r)
          PROVE  New(k, n, r)
      <3>1. CASE k = "queue"
        BY <1>2, <1>4, <2>5, <3>1 DEF Found
      <3>2. CASE k = "run"
        BY <1>1, <1>4, <2>5, <3>2 DEF Found
      <3>3. CASE k \notin {"queue", "run"}
        BY <1>5, <2>5, <3>3 DEF Found
      <3>4. QED
        BY <3>1, <3>2, <3>3
    <2> HIDE DEF Old, New
    <2>6. \A k1, k2, n1, n2, r : New(k1, n1, r) /\ New(k2, n2, r) => k1 = k2 /\ n1 = n2
      BY <2>3, <2>4
    <2>7. ASSUME ~ caller'[c].lost
          PROVE  \A r \in Best(q) : \E k, n : New(k, n, r)
      <3>1. ~ caller[c].lost /\ ~ Lost(c)
        BY <1>5, <2>7
      <3>2. QED
        BY <2>3, <2>5, <3>1
    <2>8. Gathered(caller'[c], inbox[c], queue', worker', c)
      BY <1>5, <2>3, <2>6, <2>7 DEF Gathered, New
    <2>9. QED
      BY <2>2, <2>8
  <1>7. ASSUME NEW job, job.caller \in Callers, JobOK(job, caller)
        PROVE  JobOK(job, caller')
    BY <1>5, <1>7 DEF JobOK
  <1>8. ASSUME NEW i \in DOMAIN queue'
        PROVE  JobOK(queue'[i], caller')
    <2>1. i \in DOMAIN queue /\ queue' = queue
      BY <1>2
    <2>2. PICK job : job = queue[i]
      OBVIOUS
    <2>3. job.caller \in Callers /\ JobOK(job, caller)
      BY <2>1, <2>2 DEF IInv, JobsOK, RankInv
    <2>4. QED
      BY <1>7, <2>1, <2>2, <2>3
  <1>9. ASSUME NEW v \in Workers, worker'[v].pc = "running"
        PROVE  JobOK(worker'[v].job, caller')
    <2>1. worker'[v] = worker[v]
      BY <1>1, <1>9
    <2>2. PICK job : job = worker[v].job
      OBVIOUS
    <2>3. job.caller \in Callers /\ JobOK(job, caller)
      BY <1>9, <2>1, <2>2 DEF IInv, JobsOK, RankInv
    <2>4. QED
      BY <1>7, <2>1, <2>2, <2>3
  <1>10. \A c \in Callers : OutcomeOK(caller'[c])
    BY <1>5 DEF RankInv, OutcomeOK
  <1>11. inbox' = inbox
    BY <1>1
  <1>12. QED
    BY <1>6, <1>8, <1>9, <1>10, <1>11 DEF RankInv

-----------------------------------------------------------------------------
\* Every step keeps the rows in their places.
LEMMA RankStep ==
    ASSUME RankInv, IInv, [Next]_vars
    PROVE  RankInv'
  <1>1. CASE UNCHANGED vars
    BY <1>1, RankIdle DEF vars
  <1>2. ASSUME NEW w \in Workers, Spawn(w) \/ Exit(w)
        PROVE  RankInv'
    <2>1. /\ worker[w].pc # "running" /\ worker'[w].pc # "running"
          /\ \A v \in Workers \ {w} : worker'[v] = worker[v]
          /\ UNCHANGED <<queue, caller, inbox>>
      BY <1>2 DEF Spawn, Exit, Idle, Dead, IInv, ShapesOK
    <2>2. QED
      BY <2>1, RankIdle
  <1>3. ASSUME NEW w \in Workers, WorkerStep(w) \/ Panic(w)
        PROVE  RankInv'
    BY <1>2, <1>3, RankTake, RankReply, RankPanic DEF WorkerStep
  <1>4. ASSUME NEW c \in Callers, CallerStep(c)
        PROVE  RankInv'
    <2>1. \/ Submit(c) \/ Receive(c) \/ Refine(c)
          \/ Fails(c, "Corrupt") \/ Fails(c, "Io")
      BY <1>4 DEF CallerStep, SubmitFails, ReceiveFails, ReadFails
    <2>2. QED
      BY <2>1, RankSubmit, RankReceive, RankRefine, RankFails
  <1>5. ASSUME NEW c \in Callers, NEW q \in Queries, Search(c, q)
        PROVE  RankInv'
    BY <1>5, RankSearch
  <1>6. CASE SpawnFails \/ DropPool \/ Join
    BY <1>6, RankIdle DEF SpawnFails, DropPool, Join
  <1>7. CASE Done
    BY <1>1, <1>7 DEF Done
  <1>8. QED
    BY <1>1, <1>2, <1>3, <1>4, <1>5, <1>6, <1>7 DEF Next

\* Where the rows of a call are: until select has answered, each eligible row is
\* in its heap, a reply, a job or the tiles left to submit, never in two of them,
\* and one of the best is missing only when a panic took a job of the call.
THEOREM RankInductive == Spec => []RankInv
  <1>1. Init => RankInv
    BY RankInit
  <1>2. RankInv /\ IInv /\ [Next]_vars => RankInv'
    BY RankStep
  <1>3. QED
    BY <1>1, <1>2, Inductive, PTL DEF Spec

\* A search that succeeds returns what a scan of the whole index would: however
\* select splits the tiles and in whatever order the workers reply, the bounded
\* heaps of the jobs and their merge lose no row that belongs in the answer, and
\* a lost reply is never taken for a complete one (search.rs, select and scan).
THEOREM AnswersExactly == Spec => []ExactAnswer
  <1>1. RankInv => ExactAnswer
    BY ExactMeans DEF RankInv, OutcomeOK, Succeeded
  <1>2. QED
    BY <1>1, RankInductive, PTL

\* The candidate budget in a result is the number of rows that were refined for
\* it: no bound on a heap, exclusion or short tile leaves the result with fewer
\* (search.rs,
\* candidate_budget and rows_refined of SearchResult).
THEOREM FillsBudget == Spec => []BudgetFilled
  <1>1. RankInv => BudgetFilled
    BY DEF BudgetFilled, RankInv, OutcomeOK, Succeeded
  <1>2. QED
    BY <1>1, RankInductive, PTL
=============================================================================
