----------------------------- MODULE SearchPool -----------------------------
(***************************************************************************)
(* Searching an open index (crates/spherra/src/search.rs): Index::select   *)
(* splits the tiles into jobs, the pool's worker threads scan them, and    *)
(* the caller merges what they send back, refines it and ranks it.         *)
(*                                                                         *)
(* Several threads may search one Index at a time.  Jobs wait in one       *)
(* bounded queue; each call has a reply channel of its own, known here by  *)
(* the caller and the serial number of its call.  A scan that panics takes *)
(* its worker thread with it.                                              *)
(*                                                                         *)
(* A score is an integer the query gives to each row.  Decoding, scoring   *)
(* and certificate intervals are pure functions of the row and the query:  *)
(* what they compute is left out, and where they can fail the query says   *)
(* whether they do.  The reads of refinement fail at any time.             *)
(***************************************************************************)
EXTENDS Integers, Sequences, FiniteSets, SequencesExt, FiniteSetsExt

CONSTANTS Callers,      \* threads that search the index
          Workers,      \* the threads WorkerPool::new asks for
          RowCounts,    \* rows of each segment of the open generation
          TileRows,     \* rows of a tile (32)
          Units,        \* Units[row]: the row's magnitude (dot_product.rs)
          Queries,      \* the searches a caller may ask for
          MinBudget,    \* the least default candidate budget (200)
          UsizeMax,     \* largest value of k and of a budget
          MaxCalls,     \* bound on the searches of each caller
          MaxPanics     \* bound on the scans that panic

SumOf(counts) == FoldLeft(LAMBDA a, b : a + b, 0, counts)

RowTotal == SumOf(RowCounts)
Rows == 0 .. RowTotal - 1

ASSUME SearchAssumption ==
    /\ RowCounts \in Seq(Nat \ {0}) /\ RowCounts # <<>>
    /\ IsFiniteSet(Workers) /\ Workers # {}
    /\ TileRows \in Nat \ {0}
    /\ Units \in [Rows -> Nat]
    /\ MinBudget \in Nat /\ UsizeMax \in Nat
    /\ MaxCalls \in Nat /\ MaxPanics \in Nat

\* A search: its options, whether its vector is valid and prepare_query makes
\* tables of it, the row it excludes (None if it excludes none), its ranking,
\* the scores of every row, and the rows whose certificates leave it no score
\* at all: an empty interval or, for a dot product, one that is not finite.
None == -1
ASSUME QueriesAssumption ==
    \A q \in Queries :
        /\ q.k \in 0 .. UsizeMax /\ q.budget \in {None} \cup 0 .. UsizeMax
        /\ q.excluded \in {None} \cup Nat
        /\ q.valid \in BOOLEAN /\ q.prepares \in BOOLEAN /\ q.dot \in BOOLEAN
        /\ q.primary \in [Rows -> Int] /\ q.refined \in [Rows -> Int]
        /\ q.uncertified \subseteq Rows

VARIABLES pool,     \* "opening", "open", "closing" or "closed"
          queue,    \* jobs sent to the workers and not yet taken
          worker,   \* the state of each worker thread
          caller,   \* the state of each caller
          inbox,    \* inbox[c]: replies to c's current call, not yet received
          panics    \* scans that panicked

vars == <<pool, queue, worker, caller, inbox, panics>>

-----------------------------------------------------------------------------
(* Tiles (open.rs): a segment's last tile may be short, and no tile spans   *)
(* two segments.                                                           *)

FirstRow(s) == SumOf(SubSeq(RowCounts, 1, s - 1))
TileCount(s) == (RowCounts[s] + TileRows - 1) \div TileRows
TileStart(s) == SumOf([i \in 1 .. s - 1 |-> TileCount(i)])
Tiles == TileStart(Len(RowCounts) + 1)

\* The rows scan visits for the tiles from begin to end - 1.
RowsOfTiles(begin, end) ==
    UNION {{r \in FirstRow(s) .. FirstRow(s) + RowCounts[s] - 1 :
               TileStart(s) + (r - FirstRow(s)) \div TileRows
                   \in begin .. end - 1} : s \in DOMAIN RowCounts}

-----------------------------------------------------------------------------
(* Options: what select checks before it starts a job, in its order. *)

Wanted(q) ==
    IF q.budget # None THEN q.budget
    ELSE IF 2 * q.k > MinBudget THEN 2 * q.k ELSE MinBudget

OptionError(q) ==
    \/ q.k = 0
    \/ q.budget = None /\ 2 * q.k > UsizeMax         \* checked_mul
    \/ Wanted(q) < q.k
    \/ q.excluded # None /\ q.excluded >= RowTotal

\* Seeded fault: the excluded row counts as eligible.
LimitWithExcluded(q) == IF Wanted(q) < RowTotal THEN Wanted(q) ELSE RowTotal

\* The effective budget, once the options have passed.
Limit(q) ==
    LET eligible == IF q.excluded = None THEN RowTotal ELSE RowTotal - 1
    IN  IF Wanted(q) < eligible THEN Wanted(q) ELSE eligible

-----------------------------------------------------------------------------
(* Ranking (Cosine, DotProduct) and the bounded heap of candidates. *)

Key(q, r) == IF q.dot THEN q.primary[r] * Units[r] ELSE q.primary[r]

RefinedKey(q, r) ==
    IF ~ q.dot THEN q.refined[r]
    ELSE IF Units[r] = 0 THEN 0 ELSE q.refined[r] * Units[r]

\* Seeded fault: candidates with equal keys are not ordered by row.
BeatsByKey(q, r, s) == Key(q, r) > Key(q, s)

\* Candidate's order: the higher key, then the lower row.
Beats(q, r, s) ==
    Key(q, r) > Key(q, s) \/ (Key(q, r) = Key(q, s) /\ r < s)

Worst(q, heap) == CHOOSE r \in heap : \A s \in heap : ~ Beats(q, r, s)

Admit(q, heap, r) ==
    IF Cardinality(heap) < Limit(q) THEN heap \cup {r}
    ELSE IF heap # {} /\ Beats(q, r, Worst(q, heap))
         THEN (heap \ {Worst(q, heap)}) \cup {r}
         ELSE heap

\* The elements of a finite set in an order, a relation, that has no equals.
Sorted(S, order) ==
    CHOOSE list \in [1 .. Cardinality(S) -> S] :
        \A i, j \in 1 .. Cardinality(S) : i < j => <<list[i], list[j]>> \in order

Ascending == {ss \in Rows \X Rows : ss[1] < ss[2]}

\* The final order: the higher refined key, then the lower row.
RefinedOrder(q) ==
    {ss \in Rows \X Rows :
        \/ RefinedKey(q, ss[1]) > RefinedKey(q, ss[2])
        \/ RefinedKey(q, ss[1]) = RefinedKey(q, ss[2]) /\ ss[1] < ss[2]}

\* scan: the candidates of one job, the rows visited in ascending order.
Scan(q, begin, end) ==
    FoldLeft(LAMBDA heap, r : Admit(q, heap, r), {},
             Sorted(RowsOfTiles(begin, end) \ {q.excluded}, Ascending))

\* A reply is merged in the arbitrary order of the job's heap.
Merge(q, heap, reply) ==
    FoldSet(LAMBDA r, h : Admit(q, h, r), heap, reply)

\* The refined candidates in final order, at most k of them.
Ranked(q, heap) ==
    LET list == Sorted(heap, RefinedOrder(q))
    IN  SubSeq(list, 1, IF Len(list) < q.k THEN Len(list) ELSE q.k)

-----------------------------------------------------------------------------
(* How the tiles are split into jobs. *)

Jobs == IF Cardinality(Workers) < Tiles THEN Cardinality(Workers) ELSE Tiles

Width == (Tiles + Jobs - 1) \div Jobs

-----------------------------------------------------------------------------
(* State. *)

\* limit is what the result reports both as its candidate budget and as the
\* number of rows refined; refined is how many were.
NoAnswer == [status |-> "none", limit |-> 0, refined |-> 0, hits |-> <<>>]
Refusal(status) == [NoAnswer EXCEPT !.status = status]

\* call numbers the caller's searches and query is the last one; begin is the
\* next tile to submit; lost is history: a panic took a job of this call.
NoQuery == [k |-> 0]
NewCaller == [pc |-> "idle", call |-> 0, query |-> NoQuery, begin |-> 0,
              waiting |-> 0, heap |-> {}, lost |-> FALSE, answer |-> NoAnswer]

Idle == [pc |-> "idle"]
Dead == [pc |-> "dead"]
Unspawned == [pc |-> "unspawned"]
Running(job) == [pc |-> "running", job |-> job]

\* A worker thread that runs holds a handle of the queue's receiving end.
Alive(w) == worker[w].pc \in {"idle", "running"}
ReceiverGone == \A w \in Workers : ~ Alive(w)

Belongs(job, c) == job.caller = c /\ job.call = caller[c].call

\* Seeded faults: the caller keeps its own sender while it receives; and it
\* gives up as soon as there is nothing to receive.
SenderKept(c) == TRUE
SenderForgotten(c) == FALSE

\* Somebody may still reply to c's current call.
SenderLeft(c) ==
    \/ \E i \in DOMAIN queue : Belongs(queue[i], c)
    \/ \E w \in Workers : worker[w].pc = "running" /\ Belongs(worker[w].job, c)

Init ==
    /\ pool = "opening"
    /\ queue = <<>>
    /\ worker = [w \in Workers |-> Unspawned]
    /\ caller = [c \in Callers |-> NewCaller]
    /\ inbox = [c \in Callers |-> <<>>]
    /\ panics = 0

-----------------------------------------------------------------------------
(* WorkerPool::new and its Drop. *)

Spawn(w) ==
    /\ pool = "opening"
    /\ worker[w].pc = "unspawned"
    /\ worker' = [worker EXCEPT ![w] = Idle]
    /\ pool' = IF \A v \in Workers \ {w} : worker[v].pc # "unspawned"
               THEN "open" ELSE pool
    /\ UNCHANGED <<queue, caller, inbox, panics>>

\* The operating system refuses a thread: new returns, and drops the pool.
SpawnFails ==
    /\ pool = "opening"
    /\ pool' = "closing"
    /\ UNCHANGED <<queue, worker, caller, inbox, panics>>

\* The Index, and its pool, is dropped when no search borrows it: the sender
\* goes first, then every worker is joined.
DropPool ==
    /\ pool = "open"
    /\ \A c \in Callers : caller[c].pc = "idle"
    /\ pool' = "closing"
    /\ UNCHANGED <<queue, worker, caller, inbox, panics>>

Join ==
    /\ pool = "closing"
    /\ \A w \in Workers : ~ Alive(w)
    /\ pool' = "closed"
    /\ UNCHANGED <<queue, worker, caller, inbox, panics>>

-----------------------------------------------------------------------------
(* A worker thread. *)

Take(w) ==
    /\ worker[w].pc = "idle"
    /\ queue # <<>>
    /\ worker' = [worker EXCEPT ![w] = Running(Head(queue))]
    /\ queue' = Tail(queue)
    /\ UNCHANGED <<pool, caller, inbox, panics>>

\* The search the job belongs to has not returned.
Waiting(job) == Belongs(job, job.caller) /\ caller[job.caller].pc # "idle"

\* The job's reply is dropped when its call has given up waiting for it.
Reply(w) ==
    LET job == worker[w].job IN
    /\ worker[w].pc = "running"
    /\ worker' = [worker EXCEPT ![w] = Idle]
    /\ IF Waiting(job)
       THEN inbox' = [inbox EXCEPT ![job.caller] =
                         Append(@, Scan(job.query, job.begin, job.end))]
       ELSE UNCHANGED inbox
    /\ UNCHANGED <<pool, queue, caller, panics>>

\* Seeded fault: a worker runs its job with the receiver locked, so a panic
\* poisons the lock and the workers that wait for it exit.
PanicPoisons(w) ==
    /\ worker[w].pc = "running"
    /\ panics < MaxPanics
    /\ panics' = panics + 1
    /\ worker' = [v \in Workers |->
                     IF v = w \/ worker[v].pc = "idle" THEN Dead ELSE worker[v]]
    /\ caller' = [c \in Callers |->
          [caller[c] EXCEPT !.lost = @ \/ Belongs(worker[w].job, c)]]
    /\ UNCHANGED <<pool, queue, inbox>>

\* The queue and the jobs in it go with the last thread that could take them.
Panic(w) ==
    /\ worker[w].pc = "running"
    /\ panics < MaxPanics
    /\ panics' = panics + 1
    /\ worker' = [worker EXCEPT ![w] = Dead]
    /\ LET last == \A v \in Workers \ {w} : ~ Alive(v)
           gone == {worker[w].job}
                   \cup IF last THEN {queue[i] : i \in DOMAIN queue} ELSE {}
       IN  /\ queue' = IF last THEN <<>> ELSE queue
           /\ caller' = [c \in Callers |->
                 [caller[c] EXCEPT !.lost =
                     @ \/ \E job \in gone : Belongs(job, c)]]
    /\ UNCHANGED <<pool, inbox>>

\* Seeded fault: drop joins the workers while it still holds the sender.
NeverDisconnected == FALSE

Disconnected == pool \in {"closing", "closed"}

\* recv reports the queue closed only when it is also empty.
Exit(w) ==
    /\ worker[w].pc = "idle"
    /\ queue = <<>> /\ Disconnected
    /\ worker' = [worker EXCEPT ![w] = Dead]
    /\ UNCHANGED <<pool, queue, caller, inbox, panics>>

-----------------------------------------------------------------------------
(* A caller in select. *)

Answered(c, answer) ==
    [caller[c] EXCEPT !.pc = "idle", !.begin = 0, !.waiting = 0,
                      !.heap = {}, !.answer = answer]

\* What select makes of a search before its first job.
Accepted(q) ==
    LET refused(status) ==
            [NewCaller EXCEPT !.query = q, !.answer = Refusal(status)]
    IN  IF OptionError(q) THEN refused("InvalidOptions")
        ELSE IF ~ q.valid THEN refused("InvalidVector")
        ELSE IF ~ q.prepares THEN refused("Corrupt")
        ELSE [NewCaller EXCEPT !.query = q, !.pc = "submit"]

Search(c, q) ==
    /\ pool = "open"
    /\ caller[c].pc = "idle" /\ caller[c].call < MaxCalls
    /\ caller' = [caller EXCEPT ![c] =
                     [Accepted(q) EXCEPT !.call = caller[c].call + 1]]
    /\ UNCHANGED <<pool, queue, worker, inbox, panics>>

Fails(c, status) ==
    /\ caller' = [caller EXCEPT ![c] = Answered(c, Refusal(status))]
    /\ inbox' = [inbox EXCEPT ![c] = <<>>]
    /\ UNCHANGED <<pool, queue, worker, panics>>

\* sync_channel(workers): a full queue blocks the caller.
Submit(c) ==
    LET b == caller[c].begin
        e == IF b + Width < Tiles THEN b + Width ELSE Tiles
    IN  /\ caller[c].pc = "submit"
        /\ ~ ReceiverGone
        /\ Len(queue) < Cardinality(Workers)
        /\ queue' = Append(queue, [caller |-> c, call |-> caller[c].call,
                                   query |-> caller[c].query,
                                   begin |-> b, end |-> e])
        /\ caller' = [caller EXCEPT ![c].begin = b + Width,
                                    ![c].waiting = @ + 1,
                                    ![c].pc = IF b + Width < Tiles
                                              THEN "submit" ELSE "collect"]
        /\ UNCHANGED <<pool, worker, inbox, panics>>

SubmitFails(c) ==
    /\ caller[c].pc = "submit"
    /\ ReceiverGone
    /\ Fails(c, "Corrupt")

Receive(c) ==
    /\ caller[c].pc = "collect" /\ caller[c].waiting > 0
    /\ inbox[c] # <<>>
    /\ caller' = [caller EXCEPT ![c].waiting = @ - 1,
                      ![c].heap = Merge(caller[c].query, @, Head(inbox[c]))]
    /\ inbox' = [inbox EXCEPT ![c] = Tail(@)]
    /\ UNCHANGED <<pool, queue, worker, panics>>

ReceiveFails(c) ==
    /\ caller[c].pc = "collect" /\ caller[c].waiting > 0
    /\ inbox[c] = <<>> /\ ~ SenderLeft(c)
    /\ Fails(c, "Corrupt")

\* Only the hits that are left after ranking are given intervals.
Refine(c) ==
    LET q == caller[c].query
        hits == Ranked(q, caller[c].heap)
    IN  /\ caller[c].pc = "collect" /\ caller[c].waiting = 0
        /\ caller' = [caller EXCEPT ![c] = Answered(c,
              IF Range(hits) \cap q.uncertified # {}
              THEN Refusal("CertificateInvalid")
              ELSE [status |-> "Ok", limit |-> Limit(q),
                    refined |-> Cardinality(caller[c].heap), hits |-> hits])]
        /\ UNCHANGED <<pool, queue, worker, inbox, panics>>

\* The read of a candidate's residual code fails.
ReadFails(c) ==
    /\ caller[c].pc = "collect" /\ caller[c].waiting = 0
    /\ caller[c].heap # {}
    /\ Fails(c, "Io")

-----------------------------------------------------------------------------
WorkerStep(w) == Take(w) \/ Reply(w) \/ Exit(w)

CallerStep(c) ==
    \/ Submit(c) \/ SubmitFails(c) \/ Receive(c) \/ ReceiveFails(c)
    \/ Refine(c) \/ ReadFails(c)

\* The pool is closed and nobody can search any more.
Done == pool = "closed" /\ UNCHANGED vars

Next ==
    \/ \E w \in Workers : Spawn(w) \/ WorkerStep(w) \/ Panic(w)
    \/ \E c \in Callers : CallerStep(c) \/ \E q \in Queries : Search(c, q)
    \/ SpawnFails \/ DropPool \/ Join \/ Done

Spec == Init /\ [][Next]_vars

\* A thread that can go on does; no scan has to panic, no caller to search.
FairSpec ==
    /\ Spec
    /\ \A w \in Workers : WF_vars(WorkerStep(w))
    /\ \A c \in Callers : WF_vars(CallerStep(c))
    /\ WF_vars(Join)

-----------------------------------------------------------------------------
(* Properties. *)

Succeeded(c) == caller[c].answer.status = "Ok"

\* The rank of a row among others: how many of them come before it.
RankIn(rows, r, before(_, _)) == Cardinality({s \in rows : before(s, r)})

\* However the tiles were split, and in whatever order the workers answered,
\* a search returns the k best by the refined score among the candidates that
\* are the best by the primary score, ties going to the lower row.
ExactAnswer ==
    \A c \in Callers : Succeeded(c) =>
        LET q == caller[c].query
            hits == caller[c].answer.hits
            first(r, s) == \/ Key(q, r) > Key(q, s)
                           \/ Key(q, r) = Key(q, s) /\ r < s
            last(r, s) == \/ RefinedKey(q, r) > RefinedKey(q, s)
                          \/ RefinedKey(q, r) = RefinedKey(q, s) /\ r < s
            rows == Rows \ {q.excluded}
            candidates == {r \in rows : RankIn(rows, r, first) < Limit(q)}
        IN  /\ Range(hits) = {r \in candidates : RankIn(candidates, r, last) < q.k}
            /\ \A i \in DOMAIN hits : RankIn(candidates, hits[i], last) = i - 1

\* The candidate budget a result reports is the number of rows that were
\* refined for it: no job, exclusion or merge leaves the heap short of it.
BudgetFilled ==
    \A c \in Callers : Succeeded(c) =>
        caller[c].answer.refined = caller[c].answer.limit

\* A scan that panics spoils its own search and no other.  A search that lost
\* a job ends as corrupt, never with an answer from the rest of the jobs; one
\* that lost none does so only if every worker has panicked or prepare_query
\* refused its vector.
CorruptForCause ==
    \A c \in Callers :
        LET me == caller[c]
            corrupt == me.answer.status = "Corrupt"
        IN  /\ me.pc = "idle" /\ me.lost => corrupt
            /\ corrupt => \/ me.lost
                          \/ panics = Cardinality(Workers)
                          \/ ~ me.query.prepares

\* A search that has returned leaves no work behind, even one that failed: no
\* job of it is queued or running, so dropping the index waits for nothing.
NoWorkAfterAnswer ==
    /\ \A i \in DOMAIN queue : Waiting(queue[i])
    /\ \A w \in Workers : worker[w].pc = "running" => Waiting(worker[w].job)

\* A search answers, whatever scans panic and however full the queue is.
Answers ==
    \A c \in Callers : caller[c].pc # "idle" ~> caller[c].pc = "idle"

\* Dropping the pool, even one whose threads were not all spawned or have
\* died, or whose queue holds jobs nobody waits for, joins every worker.
DropJoins == pool = "closing" ~> pool = "closed"
=============================================================================
