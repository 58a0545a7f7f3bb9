--------------------------- MODULE ParallelWriter ---------------------------
(***************************************************************************)
(* WriteFiles of parallelZipWriter (writer.go): a dispatcher goroutine     *)
(* feeds the files through the channel `tasks` to the workers, each worker *)
(* fills a pooled snapshot, compresses into a buffer and sends the result  *)
(* on the channel `results`, a closer goroutine closes `results` after the *)
(* last worker, and the caller's goroutine (the collector here) writes the *)
(* results into the archive: at once (StrategyPerformance) or, in the      *)
(* order of the files, parking early ones in `pending`.  A failure cancels *)
(* the context they all share; so may the caller, at any time.             *)
(*                                                                         *)
(* A file is its index.  A snapshot is an object of the pool that holds    *)
(* the file it was last filled for: the collector writes what the snapshot *)
(* says.  Any file may fail to open, to read or to be written.  sync.Pool  *)
(* may hand out any pooled object or a new one.                            *)
(***************************************************************************)
EXTENDS Integers, Sequences, FiniteSets

CONSTANTS
    N,            \* number of files
    Workers,
    InOrder,      \* StrategyOrdered if TRUE, StrategyPerformance if FALSE
    Empty,        \* files without data: directories and files of size 0
    Misjudged     \* files that may not have the size announced (ErrSizeMismatch)

Files == 1 .. N
Snaps == 1 .. N    \* a snapshot object is allocated at most once per file
NoFile == 0

ASSUME WriterAssumption ==
    /\ N \in Nat
    /\ IsFiniteSet(Workers) /\ Workers # {}
    /\ InOrder \in BOOLEAN
    /\ Empty \subseteq Files
    /\ Misjudged \subseteq Files \ Empty

VARIABLES
    sent,         \* files the dispatcher has put into tasks
    taken,        \* files the workers have received from tasks
    tasksClosed,
    wpc,          \* worker -> "receive", "compress", "encode", "send", "exited"
    job,          \* worker -> the zipResult it builds
    results,      \* the channel `results`
    resultsClosed,
    cpc,          \* the collector: "receive", "handle", "report", "returned"
    res,          \* the result it handles
    pending,      \* results parked until their turn
    nextIndex,
    errs,         \* errors: the file each names and the file it is about
    cancelled,    \* ctx.Err() # nil
    callerGaveUp, \* the caller cancelled ctx
    written,      \* files in the archive
    pool,         \* snapPool
    snapFile,     \* snapshot -> the file it was filled for
    buf           \* file -> "none", "held", "freed" or "lost"

dispatchVars == <<sent, tasksClosed>>
workerVars == <<taken, wpc, job>>
collectorVars == <<cpc, res, pending, nextIndex, errs, written>>
vars == <<dispatchVars, workerVars, results, resultsClosed, collectorVars,
          cancelled, callerGaveUp, pool, snapFile, buf>>

Result == [index : Files, snap : Snaps, err : BOOLEAN]
NoResult == [index |-> NoFile, snap |-> NoFile, err |-> FALSE]
Capacity == 2 * Cardinality(Workers)

\* mutant: the snapshot goes back to the pool, the buffer nowhere
ReleaseSnapOnly(r) == UNCHANGED buf /\ pool' = pool \cup {r.snap}

\* discardResult: cleanupBuf and snapPool.Put
Release(r) ==
    /\ buf' = [buf EXCEPT ![r.index] = IF @ = "held" THEN "freed" ELSE @]
    /\ pool' = pool \cup {r.snap}

Init ==
    /\ sent = 0 /\ taken = 0 /\ tasksClosed = FALSE
    /\ wpc = [w \in Workers |-> "receive"]
    /\ job = [w \in Workers |-> NoResult]
    /\ results = << >> /\ resultsClosed = FALSE
    /\ cpc = "receive" /\ res = NoResult /\ pending = {} /\ nextIndex = 1
    /\ errs = << >> /\ written = << >>
    /\ cancelled = FALSE /\ callerGaveUp = FALSE
    /\ pool = {} /\ snapFile = [s \in Snaps |-> NoFile]
    /\ buf = [f \in Files |-> "none"]

----------------------------------------------------------------------------
(* The dispatcher and the closer                                           *)

\* tasks has room for every file: the send never blocks
Dispatch ==
    /\ ~tasksClosed /\ sent < N
    /\ sent' = sent + 1
    /\ UNCHANGED <<tasksClosed, workerVars, results, resultsClosed, collectorVars,
                   cancelled, callerGaveUp, pool, snapFile, buf>>

\* all sent, or select saw ctx.Done: the deferred close
CloseTasks ==
    /\ ~tasksClosed /\ (sent = N \/ cancelled)
    /\ tasksClosed' = TRUE
    /\ UNCHANGED <<sent, workerVars, results, resultsClosed, collectorVars,
                   cancelled, callerGaveUp, pool, snapFile, buf>>

\* wg.Wait(); close(results)
CloseResults ==
    /\ ~resultsClosed
    /\ \A w \in Workers : wpc[w] = "exited"
    /\ resultsClosed' = TRUE
    /\ UNCHANGED <<dispatchVars, workerVars, results, collectorVars,
                   cancelled, callerGaveUp, pool, snapFile, buf>>

----------------------------------------------------------------------------
(* Workers                                                                 *)

\* snapPool.Get and FillSnapshot for the file just received
Take(w) ==
    /\ wpc[w] = "receive" /\ taken < sent /\ ~cancelled
    /\ taken' = taken + 1
    /\ \E s \in pool \cup {taken + 1} :
          /\ pool' = pool \ {s}
          /\ snapFile' = [snapFile EXCEPT ![s] = taken + 1]
          /\ job' = [job EXCEPT ![w] = [index |-> taken + 1, snap |-> s, err |-> FALSE]]
    /\ wpc' = [wpc EXCEPT ![w] = "compress"]
    /\ UNCHANGED <<dispatchVars, results, resultsClosed, collectorVars,
                   cancelled, callerGaveUp, buf>>

\* a file is received but ctx is done, or tasks is closed and drained
Exit(w) ==
    /\ wpc[w] = "receive"
    /\ \/ taken < sent /\ cancelled /\ taken' = taken + 1
       \/ taken = sent /\ tasksClosed /\ UNCHANGED taken
    /\ wpc' = [wpc EXCEPT ![w] = "exited"]
    /\ UNCHANGED <<dispatchVars, job, results, resultsClosed, collectorVars,
                   cancelled, callerGaveUp, pool, snapFile, buf>>

\* compressFile: nothing to do without data; a done context or a failing
\* os.CreateTemp is an error; otherwise a buffer is taken
Open(w) ==
    /\ wpc[w] = "compress"
    /\ LET f == job[w].index IN
       \/ /\ f \in Empty
          /\ wpc' = [wpc EXCEPT ![w] = "send"]
          /\ UNCHANGED <<job, buf>>
       \/ /\ f \notin Empty
          /\ wpc' = [wpc EXCEPT ![w] = "send"]
          /\ job' = [job EXCEPT ![w].err = TRUE]
          /\ UNCHANGED buf
       \/ /\ f \notin Empty /\ ~cancelled
          /\ wpc' = [wpc EXCEPT ![w] = "encode"]
          /\ buf' = [buf EXCEPT ![f] = "held"]
          /\ UNCHANGED job
    /\ UNCHANGED <<dispatchVars, taken, results, resultsClosed, collectorVars,
                   cancelled, callerGaveUp, pool, snapFile>>

\* compressFile: the data is encoded, or opening or encoding fails and the
\* buffer is cleaned up, or the size is wrong and the buffer is forgotten
Encode(w) ==
    /\ wpc[w] = "encode"
    /\ wpc' = [wpc EXCEPT ![w] = "send"]
    /\ LET f == job[w].index IN
       \/ UNCHANGED <<job, buf>>
       \/ /\ job' = [job EXCEPT ![w].err = TRUE]
          /\ buf' = [buf EXCEPT ![f] = "freed"]
       \/ /\ f \in Misjudged
          /\ job' = [job EXCEPT ![w].err = TRUE]
          /\ buf' = [buf EXCEPT ![f] = "lost"]
    /\ UNCHANGED <<dispatchVars, taken, results, resultsClosed, collectorVars,
                   cancelled, callerGaveUp, pool, snapFile>>

\* mutant: the worker puts its snapshot back as soon as the result is sent
SendReturnsSnap(w) ==
    /\ wpc[w] = "send" /\ Len(results) < Capacity
    /\ wpc' = [wpc EXCEPT ![w] = "receive"]
    /\ results' = Append(results, job[w])
    /\ pool' = pool \cup {job[w].snap}
    /\ UNCHANGED <<dispatchVars, taken, job, resultsClosed, collectorVars,
                   cancelled, callerGaveUp, snapFile, buf>>

\* the select at the end of the worker's loop; when both cases are ready
\* either may be taken
Send(w) ==
    /\ wpc[w] = "send"
    /\ wpc' = [wpc EXCEPT ![w] = "receive"]
    /\ \/ /\ Len(results) < Capacity
          /\ results' = Append(results, job[w])
          /\ UNCHANGED <<pool, buf>>
       \/ /\ cancelled
          /\ Release(job[w])
          /\ UNCHANGED results
    /\ UNCHANGED <<dispatchVars, taken, job, resultsClosed, collectorVars,
                   cancelled, callerGaveUp, snapFile>>

Worker(w) == Take(w) \/ Exit(w) \/ Open(w) \/ Encode(w) \/ Send(w)

----------------------------------------------------------------------------
(* The collector: the loop over results                                    *)

\* mutant: the loop stops receiving when ctx is done
DiscardNothing == FALSE

\* after ctx is done results are thrown away
Discard ==
    /\ cpc = "receive" /\ results # << >> /\ cancelled
    /\ results' = Tail(results)
    /\ Release(Head(results))
    /\ UNCHANGED <<dispatchVars, workerVars, resultsClosed, collectorVars,
                   cancelled, callerGaveUp, snapFile>>

\* a worker failed; its snapshot is left to the garbage collector
WorkerFailed ==
    /\ cpc = "receive" /\ results # << >> /\ ~cancelled
    /\ Head(results).err
    /\ results' = Tail(results)
    /\ errs' = Append(errs, [names |-> Head(results).index, about |-> Head(results).index])
    /\ cancelled' = TRUE
    /\ UNCHANGED <<dispatchVars, workerVars, resultsClosed, cpc, res, pending,
                   nextIndex, written, callerGaveUp, pool, snapFile, buf>>

\* mutant: the strategy is not looked at
AlwaysInTurn(r) == r.index = nextIndex

InTurn(r) == InOrder => r.index = nextIndex

Accept ==
    /\ cpc = "receive" /\ results # << >> /\ ~cancelled
    /\ ~Head(results).err
    /\ results' = Tail(results)
    /\ IF InTurn(Head(results))
       THEN cpc' = "handle" /\ res' = Head(results) /\ UNCHANGED pending
       ELSE pending' = pending \cup {Head(results)} /\ UNCHANGED <<cpc, res>>
    /\ UNCHANGED <<dispatchVars, workerVars, resultsClosed, nextIndex, errs, written,
                   cancelled, callerGaveUp, pool, snapFile, buf>>

\* mutant: the parked result whose turn it is is not looked up
HandleWithoutPending ==
    /\ cpc = "handle" /\ cpc' = "receive"
    /\ written' = Append(written, snapFile[res.snap])
    /\ Release(res)
    /\ nextIndex' = IF InOrder THEN nextIndex + 1 ELSE nextIndex
    /\ UNCHANGED <<dispatchVars, workerVars, results, resultsClosed, errs, res, pending,
                   cancelled, callerGaveUp, snapFile>>

\* handleResult succeeds: the file is in the archive, its result is released,
\* and the result whose turn is next is handled if it is parked
HandleOK ==
    /\ cpc = "handle"
    /\ written' = Append(written, snapFile[res.snap])
    /\ Release(res)
    /\ nextIndex' = IF InOrder THEN nextIndex + 1 ELSE nextIndex
    /\ LET due == {r \in pending : r.index = nextIndex'} IN
       IF InOrder /\ due # {}
       THEN /\ res' \in due
            /\ pending' = pending \ {res'}
            /\ UNCHANGED cpc
       ELSE /\ cpc' = "receive"
            /\ UNCHANGED <<res, pending>>
    /\ UNCHANGED <<dispatchVars, workerVars, results, resultsClosed, errs,
                   cancelled, callerGaveUp, snapFile>>

\* handleResult fails: it too releases the result before it returns
HandleFailed ==
    /\ cpc = "handle"
    /\ Release(res)
    /\ cpc' = "report"
    /\ UNCHANGED <<dispatchVars, workerVars, results, resultsClosed, res, pending,
                   nextIndex, errs, written, cancelled, callerGaveUp, snapFile>>

\* wrapErr("write", res.snap.file, err): the snapshot is read once more
Report ==
    /\ cpc = "report"
    /\ errs' = Append(errs, [names |-> snapFile[res.snap], about |-> res.index])
    /\ cancelled' = TRUE
    /\ cpc' = "receive"
    /\ UNCHANGED <<dispatchVars, workerVars, results, resultsClosed, res, pending,
                   nextIndex, written, callerGaveUp, pool, snapFile, buf>>

\* results is closed and drained: what is still parked goes out of scope
Return ==
    /\ cpc = "receive" /\ results = << >> /\ resultsClosed
    /\ cpc' = "returned"
    /\ buf' = [f \in Files |-> IF \E r \in pending : r.index = f /\ buf[f] = "held"
                               THEN "lost" ELSE buf[f]]
    /\ UNCHANGED <<dispatchVars, workerVars, results, resultsClosed, res, pending,
                   nextIndex, errs, written, cancelled, callerGaveUp, pool, snapFile>>

Collector == Discard \/ WorkerFailed \/ Accept \/ HandleOK \/ HandleFailed \/ Report \/ Return

\* the caller's context is cancelled
GiveUp ==
    /\ ~callerGaveUp /\ cpc # "returned"
    /\ callerGaveUp' = TRUE /\ cancelled' = TRUE
    /\ UNCHANGED <<dispatchVars, workerVars, results, resultsClosed, collectorVars,
                   pool, snapFile, buf>>

Next ==
    \/ Dispatch \/ CloseTasks \/ CloseResults
    \/ \E w \in Workers : Worker(w)
    \/ Collector
    \/ GiveUp

Spec == Init /\ [][Next]_vars

\* every goroutine that can run is run by the scheduler
FairSpec ==
    /\ Spec
    /\ WF_vars(Dispatch \/ CloseTasks)
    /\ WF_vars(CloseResults)
    /\ \A w \in Workers : WF_vars(Worker(w))
    /\ WF_vars(Collector)

----------------------------------------------------------------------------
(* Properties                                                              *)

TypeOK ==
    /\ sent \in 0 .. N /\ taken \in 0 .. sent /\ tasksClosed \in BOOLEAN
    /\ wpc \in [Workers -> {"receive", "compress", "encode", "send", "exited"}]
    /\ job \in [Workers -> Result \cup {NoResult}]
    /\ results \in Seq(Result) /\ Len(results) <= Capacity
    /\ resultsClosed \in BOOLEAN
    /\ cpc \in {"receive", "handle", "report", "returned"}
    /\ res \in Result \cup {NoResult}
    /\ pending \subseteq Result
    /\ nextIndex \in Nat
    /\ errs \in Seq([names : Files, about : Files])
    /\ cancelled \in BOOLEAN /\ callerGaveUp \in BOOLEAN
    /\ written \in Seq(Files)
    /\ pool \subseteq Snaps
    /\ snapFile \in [Snaps -> Files \cup {NoFile}]
    /\ buf \in [Files -> {"none", "held", "freed", "lost"}]

\* the workers that have a file in hand, and all results on their way
Busy == {w \in Workers : wpc[w] \in {"compress", "encode", "send"}}
Live ==
    {job[w] : w \in Busy} \cup {results[i] : i \in 1 .. Len(results)} \cup pending
        \cup (IF cpc = "handle" THEN {res} ELSE {})

\* Until a result is released its snapshot is its own: it still holds the file
\* the result is about, and neither the pool nor another result has it.  A
\* second Put of the same snapshot, or one too early, makes two files one.
SnapshotsExclusive ==
    /\ \A r \in Live : r.snap \notin pool /\ snapFile[r.snap] = r.index
    /\ \A r1, r2 \in Live : r1.snap = r2.snap => r1 = r2

\* The goroutines together do what BulkWrite promises, of whose two ways to go on
\* after an error they take the second: they give up.
Bulk == INSTANCE BulkWrite WITH
            failed <- errs # << >>, cancelled <- callerGaveUp, returned <- cpc = "returned"
ImplementsBulkWrite == Bulk!Spec

\* WriteFiles comes back and leaves no goroutine behind, whatever fails and
\* whenever the context is cancelled: no worker stays blocked on results.
Termination ==
    <>(cpc = "returned" /\ tasksClosed /\ \A w \in Workers : wpc[w] = "exited")

Held == {f \in Files : buf[f] = "held"}

\* When WriteFiles has returned every buffer and temporary file it took has been
\* freed ("discardResult frees resources if the result will not be processed"),
\* whatever failed and whenever the context was cancelled.
BuffersFreed == cpc = "returned" => \A f \in Files : buf[f] \in {"none", "freed"}

\* Without an order to keep, buffers exist only in the workers' hands, in the
\* channel and in the collector's hand.
PipelineBound == ~InOrder => Cardinality(Held) <= Cardinality(Workers) + Capacity + 1
=============================================================================
