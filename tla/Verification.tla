---------------------------- MODULE Verification ----------------------------
(***************************************************************************)
(* Zip.Verify (zip.go): the caller hands files to workers one by one over  *)
(* an unbuffered channel, every worker reads the files it is given to the  *)
(* end, and failures go to a channel that is read when all workers are     *)
(* gone.  Meanwhile the workers count what they do in shared counters      *)
(* (options.go statsCollector): every counter is atomic, a snapshot of     *)
(* them, which the progress callback gets, is not.                         *)
(*                                                                         *)
(* What a file's data is like is chosen at the start; what verification    *)
(* makes of it is the code's doing.  Left out: CurrentRead and the other   *)
(* figures of a single file, which every worker overwrites, and the        *)
(* counters of written bytes, which Verify does not move.                  *)
(***************************************************************************)
EXTENDS Naturals, Sequences, FiniteSets

CONSTANTS N,          \* number of files
          Workers,    \* the goroutines
          Archives,   \* what the data of the files may be like: file -> Condition
          Blocks      \* bound: reads it takes to read a file

VARIABLES data,       \* file -> its Condition
          sent,       \* files given to workers
          closed,     \* the caller has closed the channel of tasks
          wpc,        \* worker -> its next step
          job,        \* worker -> the file it has
          left,       \* worker -> blocks still to be read
          failed,     \* worker -> verification of its file failed
          snap,       \* worker, or 0 for the caller -> its last snapshot
          errChan,    \* files whose errors are in the channel
          stats,      \* the counters
          told,       \* file -> what OnFileDone was told of it, call by call
          pc,         \* the caller: "dispatch", "wait" or "returned"
          cancelled

hand == <<sent, closed, pc>>
worker == <<job, left, failed>>
counts == <<snap, stats>>
vars == <<data, hand, wpc, worker, counts, errChan, told, cancelled>>

Files == 1..N
Zero == [TotalRead |-> 0, ProcessedFiles |-> 0, Errors |-> 0]

(* A file's data: its encryption and compression as they matter here, and  *)
(* what is wrong with it.  "wrong" has the declared size and other bytes,  *)
(* "short" ends early and cleanly, "long" has a byte too many, "broken" is *)
(* not what the codec accepts, "sealed" cannot be opened.                  *)
Kinds == {"plain", "aes store", "aes deflate"}
Faults == {"none", "wrong", "short", "long", "broken", "sealed"}
Condition == [kind : Kinds, fault : Faults]

ASSUME VerificationAssumption ==
    /\ N \in Nat /\ Blocks \in Nat /\ IsFiniteSet(Workers) /\ Workers # {}
    /\ Archives \subseteq [Files -> Condition]

-----------------------------------------------------------------------------
(* verifySingleFile                                                        *)

Sealed(d) == d.fault = "sealed"

(* Reading to the end fails: codec, size, or the MAC that aesReader reads  *)
(* when the cipher text is at its end, where a Deflate stream never gets.  *)
ReadFails(d) ==
    \/ d.fault \in {"broken", "long"}
    \/ d.kind = "aes store" /\ d.fault \in {"wrong", "short"}

\* mutant: the error of Close is dropped
CloseUnread(d) == FALSE

(* checksumReader.Close compares nothing after a short read; a wrong       *)
(* checksum is no error for AES.                                           *)
CloseFails(d) == d.fault = "wrong" /\ d.kind = "plain"

-----------------------------------------------------------------------------
Init ==
    /\ data \in Archives
    /\ sent = 0 /\ closed = FALSE /\ pc = "dispatch" /\ cancelled = FALSE
    /\ wpc = [w \in Workers |-> "idle"]
    /\ job = [w \in Workers |-> 0] /\ left = [w \in Workers |-> 0] /\ failed = [w \in Workers |-> FALSE]
    /\ snap = [w \in Workers \cup {0} |-> Zero] /\ stats = Zero
    /\ errChan = <<>> /\ told = [f \in Files |-> <<>>]

At(w, step) == wpc[w] = step /\ UNCHANGED data
To(w, step) == wpc' = [wpc EXCEPT ![w] = step]

(* The channel is unbuffered: giving and taking a file is one step.        *)
Receive(w) ==
    /\ At(w, "idle") /\ pc = "dispatch" /\ sent < N
    /\ sent' = sent + 1 /\ job' = [job EXCEPT ![w] = sent + 1] /\ To(w, "given")
    /\ UNCHANGED <<closed, pc, left, failed, counts, errChan, told, cancelled>>

(* A file taken after a cancellation is dropped with the worker.           *)
Begin(w) ==
    /\ At(w, "given")
    /\ \/ cancelled /\ To(w, "gone") /\ UNCHANGED worker
       \/ /\ ~ cancelled /\ UNCHANGED job
          /\ failed' = [failed EXCEPT ![w] = Sealed(data[job[w]])]
          /\ left' = [left EXCEPT ![w] = Blocks]
          /\ To(w, IF Sealed(data[job[w]]) THEN "report" ELSE "read")
    /\ UNCHANGED <<hand, counts, errChan, told, cancelled>>

(* A block, the end of the data with the checks of Close, or an error.     *)
Read(w) ==
    /\ At(w, "read")
    /\ \/ left[w] > 0 /\ left' = [left EXCEPT ![w] = @ - 1] /\ To(w, "count") /\ UNCHANGED failed
       \/ /\ left[w] = 0 \/ ReadFails(data[job[w]])
          /\ failed' = [failed EXCEPT ![w] = ReadFails(data[job[w]]) \/ CloseFails(data[job[w]])]
          /\ To(w, "report") /\ UNCHANGED left
    /\ UNCHANGED <<hand, job, counts, errChan, told, cancelled>>

Add(counter) == stats' = [stats EXCEPT ![counter] = @ + 1]

(* OnRead counts a block; the snapshot it makes is like that of CountFile. *)
OnRead(w) ==
    /\ At(w, "count") /\ Add("TotalRead") /\ To(w, "read")
    /\ UNCHANGED <<hand, worker, snap, errChan, told, cancelled>>

\* mutant: room for the errors of as many files as there are workers
CapacityOfWorkers == Cardinality(Workers)

Capacity == N

\* mutant: a worker leaves between the two reports of a failure
ReportAndLeave(w) ==
    /\ At(w, "report")
    /\ IF failed[w] THEN Len(errChan) < Capacity /\ errChan' = Append(errChan, job[w]) ELSE UNCHANGED errChan
    /\ To(w, IF cancelled THEN "gone" ELSE "done")
    /\ UNCHANGED <<hand, worker, counts, told, cancelled>>

(* Failures go to the channel, which must have room for them.              *)
Report(w) ==
    /\ At(w, "report")
    /\ IF failed[w] THEN Len(errChan) < Capacity /\ errChan' = Append(errChan, job[w]) ELSE UNCHANGED errChan
    /\ To(w, "done")
    /\ UNCHANGED <<hand, worker, counts, told, cancelled>>

\* mutant: a failed file is counted as an error only
CountOnce(w) ==
    /\ At(w, "done") /\ (IF failed[w] THEN Add("Errors") ELSE Add("ProcessedFiles")) /\ To(w, "load total")
    /\ UNCHANGED <<hand, worker, snap, errChan, told, cancelled>>

(* OnFileDone counts the file, then its failure, and makes a snapshot.     *)
CountFile(w) ==
    /\ At(w, "done") /\ Add("ProcessedFiles")
    /\ To(w, IF failed[w] THEN "count error" ELSE "load total")
    /\ UNCHANGED <<hand, worker, snap, errChan, told, cancelled>>

CountError(w) ==
    /\ At(w, "count error") /\ Add("Errors") /\ To(w, "load total")
    /\ UNCHANGED <<hand, worker, snap, errChan, told, cancelled>>

(* snapshotStats loads one counter after the other; then the callback runs.*)
Load(w) ==
    /\ UNCHANGED data
    /\ \E step \in {<<"load total", "TotalRead", "load processed">>,
                    <<"load processed", "ProcessedFiles", "load errors">>,
                    <<"load errors", "Errors", "tell">>} :
         wpc[w] = step[1] /\ snap' = [snap EXCEPT ![w][step[2]] = stats[step[2]]] /\ To(w, step[3])
    /\ UNCHANGED <<hand, worker, stats, errChan, told, cancelled>>

(* The user's OnFileDone runs last; nothing of the file is kept.           *)
Tell(w) ==
    /\ At(w, "tell") /\ told' = [told EXCEPT ![job[w]] = Append(@, [by |-> w, failed |-> failed[w]])]
    /\ To(w, "idle") /\ snap' = [snap EXCEPT ![w] = Zero]
    /\ job' = [job EXCEPT ![w] = 0] /\ left' = [left EXCEPT ![w] = 0] /\ failed' = [failed EXCEPT ![w] = FALSE]
    /\ UNCHANGED <<hand, stats, errChan, cancelled>>

Leave(w) ==
    /\ At(w, "idle") /\ closed /\ To(w, "gone")
    /\ UNCHANGED <<hand, worker, counts, errChan, told, cancelled>>

Worker(w) == Receive(w) \/ Begin(w) \/ Read(w) \/ OnRead(w) \/ Report(w) \/ CountFile(w) \/ CountError(w)
             \/ Load(w) \/ Tell(w) \/ Leave(w)

(* All files are given, or the context is done: no more tasks.             *)
CloseTasks ==
    /\ pc = "dispatch" /\ (sent = N \/ cancelled)
    /\ closed' = TRUE /\ pc' = "wait"
    /\ UNCHANGED <<data, sent, wpc, worker, counts, errChan, told, cancelled>>

(* When the workers are gone, Finish makes the last snapshot; the errors   *)
(* in the channel and that of the context are returned.                    *)
Return ==
    /\ pc = "wait" /\ \A w \in Workers : wpc[w] = "gone"
    /\ pc' = "returned" /\ snap' = [snap EXCEPT ![0] = stats]
    /\ UNCHANGED <<data, sent, closed, wpc, worker, stats, errChan, told, cancelled>>

Cancel ==
    /\ pc # "returned" /\ ~ cancelled /\ cancelled' = TRUE
    /\ UNCHANGED <<data, hand, wpc, worker, counts, errChan, told>>

Next == CloseTasks \/ Return \/ Cancel \/ \E w \in Workers : Worker(w)
Spec == Init /\ [][Next]_vars
FairSpec == Spec /\ WF_vars(CloseTasks \/ Return) /\ \A w \in Workers : WF_vars(Worker(w))

-----------------------------------------------------------------------------
(* Properties                                                              *)

IsNil == pc = "returned" /\ errChan = <<>> /\ ~ cancelled

Steps == {"idle", "given", "read", "count", "report", "done", "count error",
          "load total", "load processed", "load errors", "tell", "gone"}

(* Steps and files are known, and the channel is within its capacity.      *)
TypeOK ==
    /\ data \in [Files -> Condition] /\ sent \in 0..N /\ closed \in BOOLEAN /\ cancelled \in BOOLEAN
    /\ pc \in {"dispatch", "wait", "returned"} /\ wpc \in [Workers -> Steps]
    /\ job \in [Workers -> 0..N] /\ left \in [Workers -> 0..Blocks] /\ failed \in [Workers -> BOOLEAN]
    /\ stats \in [DOMAIN Zero -> Nat] /\ snap \in [Workers \cup {0} -> [DOMAIN Zero -> Nat]]
    /\ errChan \in Seq(Files) /\ Len(errChan) <= Capacity
    /\ told \in [Files -> Seq([by : Workers, failed : BOOLEAN])]

(* What verification cannot see: data that ends early and cleanly, and a   *)
(* wrong plain text behind a MAC that is never read.                       *)
Invisible(d) == \/ d.fault = "short" /\ d.kind # "aes store"
                \/ d.fault = "wrong" /\ d.kind = "aes deflate"

(* Verify returns nil only if every file has been verified once, and with  *)
(* success, and no file is damaged, but for the two kinds of damage that   *)
(* checksumReader and aesReader do not notice (zip.go VerifyWithContext,   *)
(* verifySingleFile).                                                      *)
NilMeansVerified ==
    IsNil => \A f \in Files : Len(told[f]) = 1 /\ ~ told[f][1].failed /\ (data[f].fault = "none" \/ Invisible(data[f]))

(* Cancelled or not, the errors returned are those OnFileDone was told of, *)
(* one for one: no worker leaves between the two (zip.go                   *)
(* execParallelVerify).                                                    *)
ErrorsAreTold ==
    pc = "returned" =>
        \A f \in Files :
            /\ Len(told[f]) <= 1
            /\ Cardinality({i \in DOMAIN errChan : errChan[i] = f}) = Cardinality({i \in DOMAIN told[f] : told[f][i].failed})

(* Files some of the workers have told about, and those of them that failed*)
Processed(ws) == Cardinality({f \in Files : \E i \in DOMAIN told[f] : told[f][i].by \in ws})
Failed(ws) == Cardinality({f \in Files : \E i \in DOMAIN told[f] : told[f][i].by \in ws /\ told[f][i].failed})

(* The last event of the progress callback tells how many files were       *)
(* processed and how many of them failed (ProgressStats: "the total number *)
(* of files processed, including errors"), and the snapshot made for a file*)
(* counts this one and every file the same worker has done before, although*)
(* other workers count while it is made (options.go statsCollector).       *)
EventsTrue ==
    /\ pc = "returned" =>
         snap[0].ProcessedFiles = Processed(Workers) /\ snap[0].Errors = Failed(Workers)
    /\ \A w \in Workers :
         wpc[w] = "tell" =>
             /\ snap[w].ProcessedFiles >= Processed({w}) + 1
             /\ snap[w].Errors >= Failed({w}) + (IF failed[w] THEN 1 ELSE 0)
             /\ \A c \in DOMAIN Zero : snap[w][c] <= stats[c]

(* Verify comes back, cancelled or not, whatever fails.                    *)
Termination == <>(pc = "returned")

=============================================================================
