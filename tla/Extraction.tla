----------------------------- MODULE Extraction -----------------------------
(***************************************************************************)
(* ExtractToWithContext (zip.go): the selected entries are unpacked by the *)
(* caller's goroutine alone (execSequentialExtract) or, after a first pass *)
(* that checks all entries and makes the directories, by workers fed       *)
(* through the channel `tasks` (execParallelExtract).  All copies draw on  *)
(* one budget: secureWriter (options.go) adds a block to the counter,      *)
(* writes it if the sum is within MaxTotalSize, and otherwise takes it off *)
(* again, in separate steps.                                               *)
(*                                                                         *)
(* An entry is its index in alphabetical order; a byte is a pair of an     *)
(* entry and a position.  Directories are not nested: MkdirAll of one      *)
(* makes it and the destination.  The times and permissions restored at    *)
(* the end, and the limit on the ratio, are left out; the limit on one     *)
(* file in secureWriter cannot be reached, because the entry's declared    *)
(* size is checked first and cuts the copy.                                *)
(***************************************************************************)
EXTENDS Integers, Sequences, FiniteSets

CONSTANTS
    N,            \* number of entries selected
    Workers,      \* as many as getWorkers says
    Directories,  \* entries that are directories
    Folders,      \* the destination and the directories in it
    Destination,
    Folder,       \* entry -> the folder it is, or is in
    Beforehand,   \* sets of folders that may exist before the call
    Size,         \* entry -> uncompressed size in its header, Unknown if none
    Data,         \* entry -> bytes its source really yields
    Suspect,      \* entries that may be refused: path, symlink, encryption
    Faulty,       \* entries for which a call to the system or the source may fail
    Configs,      \* options: parallel (more than one worker) and the limits
                  \* maxTotalSize and maxFileSize, 0 for none
    BufferSize    \* bytes copied at a time, at most

Entries == 1 .. N
Files == Entries \ Directories
Unknown == -1

ASSUME ExtractionAssumption ==
    /\ N \in Nat
    /\ IsFiniteSet(Workers) /\ Workers # {}
    /\ Directories \subseteq Entries
    /\ Destination \in Folders /\ Beforehand \subseteq SUBSET Folders
    /\ Folder \in [Entries -> Folders]
    /\ Size \in [Entries -> Nat \cup {Unknown}] /\ Data \in [Entries -> Nat]
    /\ \A d \in Directories : Size[d] = 0 /\ Data[d] = 0
    /\ Configs \subseteq [parallel : BOOLEAN, maxTotalSize : Nat, maxFileSize : Nat]
    /\ \A c \in Configs : c.parallel => Cardinality(Workers) > 1
    /\ BufferSize \in Nat \ {0}

VARIABLES
    cfg,        \* the options of the call
    phase,      \* its goroutine: "check", "dispatch", "wait", "returned"
    todo,       \* entries the loop it is in has yet to come to
    tasks,      \* the channel `tasks`; closed from "wait" on
    wpc,        \* worker -> "receive", "start", "copy", "granted", "refused", "report", "exited"
    file,       \* worker -> the entry in its hands
    err,        \* worker -> why extractFile failed, or None
    chunk,      \* worker -> bytes read and added to the counter, not yet written
    copied,     \* entry -> bytes read from its source
    total,      \* globalWritten
    disk,       \* bytes in the files of the destination
    made,       \* folders that exist
    failure,    \* entry -> why it is in the returned error, or None
    told,       \* entry -> what OnFileDone was told: "nothing", "ok", "failed"
    cancelled   \* ctx.Err() # nil
copyVars == <<chunk, copied, total, disk>>
workerVars == <<wpc, file, err>>
reportVars == <<failure, told>>
vars == <<cfg, phase, todo, tasks, workerVars, copyVars, made, reportVars, cancelled>>

None == "none"
Reasons == {None, "rejected", "tooBig", "budget", "io", "noFolder", "cancelled"}
Bytes == Entries \X (Nat \ {0})
Capacity == 2 * Cardinality(Workers)

\* in a sequential extraction the caller's goroutine does the copying itself
Caller == CHOOSE w \in Workers : TRUE

TooBig(e) == cfg.maxFileSize > 0 /\ Size[e] > cfg.maxFileSize
AtMost(a, b) == IF a < b THEN a ELSE b

\* bytes the LimitReader lets through; nothing is copied without a size
Wanted(e) == IF Size[e] > 0 THEN AtMost(Size[e], Data[e]) ELSE 0

Init ==
    /\ cfg \in Configs
    /\ phase = IF cfg.parallel THEN "check" ELSE "dispatch"
    /\ todo = Entries
    /\ tasks = << >>
    /\ wpc = [w \in Workers |-> "receive"]
    /\ file = [w \in Workers |-> 0]
    /\ err = [w \in Workers |-> None]
    /\ chunk = [w \in Workers |-> {}]
    /\ copied = [e \in Entries |-> 0]
    /\ total = 0 /\ disk = {} /\ made \in Beforehand
    /\ failure = [e \in Entries |-> None]
    /\ told = [e \in Entries |-> "nothing"]
    /\ cancelled = FALSE

----------------------------------------------------------------------------
(* Steps of both loops                                                     *)

\* the loops go through the entries in order
IsNext(e) == \A o \in todo : e <= o

Fail(e, why) == failure' = [failure EXCEPT ![e] = why]
Tell(e, what) == told' = [told EXCEPT ![e] = what]

Reject(e) ==
    /\ e \in Suspect
    /\ Fail(e, "rejected") /\ Tell(e, "failed")
    /\ UNCHANGED made

MkdirAll(e) == made' = made \cup {Destination, Folder[e]}

MakeDirectory(e) ==
    /\ e \in Directories
    /\ \/ MkdirAll(e) /\ Tell(e, "ok") /\ UNCHANGED failure
       \/ e \in Faulty /\ Fail(e, "io") /\ Tell(e, "failed") /\ UNCHANGED made

----------------------------------------------------------------------------
(* execSequentialExtract                                                   *)

Idle == ~cfg.parallel /\ phase = "dispatch" /\ wpc[Caller] = "receive"

\* one turn of the loop that does not come to extractFile
SkipEntry ==
    /\ Idle /\ ~cancelled
    /\ \E e \in todo :
       /\ IsNext(e)
       /\ todo' = todo \ {e}
       /\ \/ Reject(e)
          \/ /\ TooBig(e)
             /\ Fail(e, "tooBig")
             /\ UNCHANGED <<made, told>>
          \/ MakeDirectory(e)
          \/ /\ e \in Files \cap Faulty /\ ~TooBig(e)
             /\ Fail(e, "io") /\ Tell(e, "failed")
             /\ UNCHANGED made
    /\ UNCHANGED <<cfg, phase, tasks, workerVars, copyVars, cancelled>>

\* the parent directory is there and extractFile begins
ExtractEntry ==
    /\ Idle /\ ~cancelled
    /\ \E e \in todo :
       /\ IsNext(e)
       /\ e \in Files /\ ~TooBig(e)
       /\ todo' = todo \ {e}
       /\ MkdirAll(e)
       /\ wpc' = [wpc EXCEPT ![Caller] = "start"]
       /\ file' = [file EXCEPT ![Caller] = e]
    /\ UNCHANGED <<cfg, phase, tasks, err, copyVars, reportVars, cancelled>>

\* extractFile is back; an error while ctx is done leaves the loop unreported
EntryDone ==
    /\ ~cfg.parallel /\ wpc[Caller] = "report"
    /\ wpc' = [wpc EXCEPT ![Caller] = "receive"]
    /\ LET e == file[Caller] IN
       \/ /\ err[Caller] = None
          /\ Tell(e, "ok")
          /\ UNCHANGED <<phase, failure>>
       \/ /\ err[Caller] # None /\ ~cancelled
          /\ Fail(e, err[Caller]) /\ Tell(e, "failed")
          /\ UNCHANGED phase
       \/ /\ err[Caller] # None /\ cancelled
          /\ phase' = "wait"
          /\ UNCHANGED reportVars
    /\ UNCHANGED <<cfg, todo, tasks, file, err, copyVars, made, cancelled>>

\* the end of the loop
LeaveLoop ==
    /\ Idle /\ (todo = {} \/ cancelled)
    /\ phase' = "wait"
    /\ UNCHANGED <<cfg, todo, tasks, workerVars, copyVars, made, reportVars, cancelled>>

----------------------------------------------------------------------------
(* execParallelExtract: the calling goroutine                              *)

\* the first pass does not look at ctx
Check ==
    /\ phase = "check"
    /\ \E e \in todo :
       /\ IsNext(e)
       /\ todo' = todo \ {e}
       /\ \/ Reject(e)
          \/ MakeDirectory(e)
          \/ e \in Files /\ UNCHANGED <<made, reportVars>>
    /\ UNCHANGED <<cfg, phase, tasks, workerVars, copyVars, cancelled>>

\* any error ends the call before a file is touched
EndCheck ==
    /\ phase = "check" /\ todo = {}
    /\ IF \E e \in Entries : failure[e] # None
       THEN phase' = "returned" /\ UNCHANGED todo
       ELSE phase' = "dispatch" /\ todo' = Files
    /\ UNCHANGED <<cfg, tasks, workerVars, copyVars, made, reportVars, cancelled>>

Dispatch ==
    /\ cfg.parallel /\ phase = "dispatch"
    /\ Len(tasks) < Capacity
    /\ \E e \in todo :
       /\ IsNext(e)
       /\ tasks' = Append(tasks, e)
       /\ todo' = todo \ {e}
    /\ UNCHANGED <<cfg, phase, workerVars, copyVars, made, reportVars, cancelled>>

\* all sent, or select saw ctx.Done
CloseTasks ==
    /\ cfg.parallel /\ phase = "dispatch" /\ (todo = {} \/ cancelled)
    /\ phase' = "wait"
    /\ UNCHANGED <<cfg, todo, tasks, workerVars, copyVars, made, reportVars, cancelled>>

\* wg.Wait, the errors are drained, ctx.Err is added to them
Return ==
    /\ phase = "wait"
    /\ cfg.parallel => \A w \in Workers : wpc[w] = "exited"
    /\ phase' = "returned"
    /\ UNCHANGED <<cfg, todo, tasks, workerVars, copyVars, made, reportVars, cancelled>>

----------------------------------------------------------------------------
(* execParallelExtract: the workers                                        *)

\* a file received after ctx is done is dropped, and the worker with it
Receive(w) ==
    /\ cfg.parallel /\ wpc[w] = "receive" /\ tasks # << >>
    /\ tasks' = Tail(tasks)
    /\ IF cancelled
       THEN wpc' = [wpc EXCEPT ![w] = "exited"] /\ UNCHANGED file
       ELSE /\ wpc' = [wpc EXCEPT ![w] = "start"]
            /\ file' = [file EXCEPT ![w] = Head(tasks)]
    /\ UNCHANGED <<cfg, phase, todo, err, copyVars, made, reportVars, cancelled>>

\* mutant: a worker leaves when tasks is closed, not when it is drained
ExitAtClose(w) ==
    /\ cfg.parallel /\ wpc[w] = "receive" /\ phase = "wait"
    /\ wpc' = [wpc EXCEPT ![w] = "exited"]
    /\ UNCHANGED <<cfg, phase, todo, tasks, file, err, copyVars, made, reportVars, cancelled>>

Exit(w) ==
    /\ cfg.parallel /\ wpc[w] = "receive" /\ tasks = << >> /\ phase = "wait"
    /\ wpc' = [wpc EXCEPT ![w] = "exited"]
    /\ UNCHANGED <<cfg, phase, todo, tasks, file, err, copyVars, made, reportVars, cancelled>>

\* mutant: errChan has room for one error only, and is read after wg.Wait
ReportToOne(w) ==
    /\ cfg.parallel /\ wpc[w] = "report"
    /\ err[w] # None /\ ~cancelled => \A e \in Files : failure[e] = None
    /\ wpc' = [wpc EXCEPT ![w] = "receive"]
    /\ Tell(file[w], IF err[w] = None THEN "ok" ELSE "failed")
    /\ IF err[w] # None /\ ~cancelled
       THEN Fail(file[w], err[w])
       ELSE UNCHANGED failure
    /\ UNCHANGED <<cfg, phase, todo, tasks, file, err, copyVars, made, cancelled>>

\* errors are sent to errChan, which has room for all, unless ctx is done
Report(w) ==
    /\ cfg.parallel /\ wpc[w] = "report"
    /\ wpc' = [wpc EXCEPT ![w] = "receive"]
    /\ Tell(file[w], IF err[w] = None THEN "ok" ELSE "failed")
    /\ IF err[w] # None /\ ~cancelled
       THEN Fail(file[w], err[w])
       ELSE UNCHANGED failure
    /\ UNCHANGED <<cfg, phase, todo, tasks, file, err, copyVars, made, cancelled>>

----------------------------------------------------------------------------
(* extractFile, secureWriter.Write                                         *)

Stop(w, why) ==
    /\ wpc' = [wpc EXCEPT ![w] = "report"]
    /\ err' = [err EXCEPT ![w] = why]

\* everything up to the copy; an entry without a size is done when its empty
\* file has been created
Begin(w) ==
    /\ wpc[w] = "start"
    /\ LET e == file[w] IN
       \/ cancelled /\ Stop(w, "cancelled")
       \/ ~cancelled /\ e \in Suspect /\ Stop(w, "rejected")
       \/ ~cancelled /\ e \in Faulty /\ Stop(w, "io")
       \/ ~cancelled /\ Folder[e] \notin made /\ Stop(w, "noFolder")
       \/ /\ ~cancelled /\ Folder[e] \in made
          /\ \/ TooBig(e) /\ Stop(w, "tooBig")
             \/ ~TooBig(e) /\ Size[e] <= 0 /\ Stop(w, None)
             \/ /\ ~TooBig(e) /\ Size[e] > 0
                /\ wpc' = [wpc EXCEPT ![w] = "copy"]
                /\ UNCHANGED err
    /\ UNCHANGED <<cfg, phase, todo, tasks, file, copyVars, made, reportVars, cancelled>>

\* no more to read, or nothing more is read
EndCopy(w) ==
    /\ wpc[w] = "copy"
    /\ \/ cancelled /\ Stop(w, "cancelled")
       \/ ~cancelled /\ file[w] \in Faulty /\ Stop(w, "io")
       \/ ~cancelled /\ copied[file[w]] = Wanted(file[w]) /\ Stop(w, None)
    /\ UNCHANGED <<cfg, phase, todo, tasks, file, copyVars, made, reportVars, cancelled>>

Block(e, n) == {e} \X (copied[e] + 1 .. copied[e] + n)

\* mutant: the limit itself is not allowed
WithinStrictly(t, n) == cfg.maxTotalSize = 0 \/ t + n < cfg.maxTotalSize

\* newTotal is within the limit
Within(t, n) == cfg.maxTotalSize = 0 \/ t + n <= cfg.maxTotalSize

\* a block is read and added to the counter, which tells whether it may be written
Reserve(w) ==
    /\ wpc[w] = "copy" /\ ~cancelled
    /\ LET e == file[w] IN
       \E n \in 1 .. AtMost(BufferSize, Wanted(e) - copied[e]) :
          /\ chunk' = [chunk EXCEPT ![w] = Block(e, n)]
          /\ copied' = [copied EXCEPT ![e] = @ + n]
          /\ total' = IF cfg.maxTotalSize = 0 THEN total ELSE total + n
          /\ wpc' = [wpc EXCEPT ![w] = IF Within(total, n) THEN "granted" ELSE "refused"]
    /\ UNCHANGED <<cfg, phase, todo, tasks, file, err, disk, made, reportVars, cancelled>>

\* the refused block is taken off the counter
GiveBack(w) ==
    /\ wpc[w] = "refused"
    /\ total' = total - Cardinality(chunk[w])
    /\ chunk' = [chunk EXCEPT ![w] = {}]
    /\ Stop(w, "budget")
    /\ UNCHANGED <<cfg, phase, todo, tasks, file, copied, disk, made, reportVars, cancelled>>

\* mutant: what could not be written is taken off the counter, all of it
WriteRefunds(w) ==
    /\ wpc[w] = "granted"
    /\ chunk' = [chunk EXCEPT ![w] = {}]
    /\ \/ /\ disk' = disk \cup chunk[w]
          /\ wpc' = [wpc EXCEPT ![w] = "copy"]
          /\ UNCHANGED <<err, total>>
       \/ /\ file[w] \in Faulty
          /\ \E part \in SUBSET chunk[w] : disk' = disk \cup part
          /\ total' = total - Cardinality(chunk[w])
          /\ Stop(w, "io")
    /\ UNCHANGED <<cfg, phase, todo, tasks, file, copied, made, reportVars, cancelled>>

\* mutant: a write of a part counts as a write
WriteShort(w) ==
    /\ wpc[w] = "granted"
    /\ chunk' = [chunk EXCEPT ![w] = {}]
    /\ file[w] \in Faulty
    /\ \E part \in SUBSET chunk[w] : disk' = disk \cup part
    /\ wpc' = [wpc EXCEPT ![w] = "copy"]
    /\ UNCHANGED <<cfg, phase, todo, tasks, file, err, copied, total, made, reportVars, cancelled>>

\* a write that fails has written a part; its block stays in the counter
Write(w) ==
    /\ wpc[w] = "granted"
    /\ chunk' = [chunk EXCEPT ![w] = {}]
    /\ \/ /\ disk' = disk \cup chunk[w]
          /\ wpc' = [wpc EXCEPT ![w] = "copy"]
          /\ UNCHANGED err
       \/ /\ file[w] \in Faulty
          /\ \E part \in SUBSET chunk[w] : disk' = disk \cup part
          /\ Stop(w, "io")
    /\ UNCHANGED <<cfg, phase, todo, tasks, file, copied, total, made, reportVars, cancelled>>

Copying(w) == Begin(w) \/ EndCopy(w) \/ Reserve(w) \/ GiveBack(w) \/ Write(w)

----------------------------------------------------------------------------

\* the goroutine that called ExtractToWithContext
Driver ==
    \/ SkipEntry \/ ExtractEntry \/ EntryDone \/ LeaveLoop
    \/ Check \/ EndCheck \/ Dispatch \/ CloseTasks \/ Return

Worker(w) == Receive(w) \/ Exit(w) \/ Report(w) \/ Copying(w)

Cancel ==
    /\ ~cancelled /\ phase # "returned"
    /\ cancelled' = TRUE
    /\ UNCHANGED <<cfg, phase, todo, tasks, workerVars, copyVars, made, reportVars>>

Next == Driver \/ (\E w \in Workers : Worker(w)) \/ Cancel

Spec == Init /\ [][Next]_vars

\* every goroutine that can run is run; in a sequential extraction the caller's
\* does the steps of extractFile as well
FairSpec == Spec /\ WF_vars(Driver) /\ \A w \in Workers : WF_vars(Worker(w))

----------------------------------------------------------------------------
(* Properties                                                              *)

TypeOK ==
    /\ cfg \in Configs
    /\ phase \in {"check", "dispatch", "wait", "returned"}
    /\ todo \subseteq Entries
    /\ tasks \in Seq(Files) /\ Len(tasks) <= Capacity
    /\ wpc \in [Workers -> {"receive", "start", "copy", "granted", "refused",
                             "report", "exited"}]
    /\ file \in [Workers -> Files \cup {0}]
    /\ err \in [Workers -> Reasons]
    /\ chunk \in [Workers -> SUBSET Bytes]
    /\ copied \in [Entries -> Nat]
    /\ total \in Nat
    /\ disk \subseteq Bytes
    /\ made \subseteq Folders
    /\ failure \in [Entries -> Reasons]
    /\ told \in [Entries -> {"nothing", "ok", "failed"}]
    /\ cancelled \in BOOLEAN

\* MaxTotalSize "is the maximum allowed bytes to write to disk for the whole
\* operation": no interleaving of the workers' additions, refusals and failing
\* writes lets more onto the disk.
BudgetKept == cfg.maxTotalSize > 0 => Cardinality(disk) <= cfg.maxTotalSize

\* The budget refuses nothing if there is no limit, or all selected files together
\* are within it: no byte is counted twice, however reservations and refusals overlap.
AllWanted == UNION {{e} \X (1 .. Wanted(e)) : e \in Files}
AllFits == cfg.maxTotalSize = 0 \/ Cardinality(AllWanted) <= cfg.maxTotalSize
NothingRefusedIfAllFits == AllFits => \A e \in Entries : failure[e] # "budget"

\* OnFileDone is told "ok" only of an entry that is whole on the disk, as far as
\* its header goes: each byte once and none of them left to a failed write.
ToldOkIsWhole ==
    \A e \in Entries : told[e] = "ok" =>
        IF e \in Directories THEN Folder[e] \in made
        ELSE {b \in disk : b[1] = e} = {e} \X (1 .. Wanted(e))

\* When the call returns no error every selected entry has been dealt with and
\* OnFileDone was told so, whichever worker had it and however the queue ended.
NilMeansAll ==
    phase = "returned" /\ ~cancelled /\ (\A e \in Entries : failure[e] = None)
        => \A e \in Entries : told[e] = "ok"

\* The call comes back and leaves no worker behind, whatever fails and whenever
\* ctx is cancelled.
Termination ==
    <>(phase = "returned" /\ \A w \in Workers : wpc[w] \in {"receive", "exited"})
=============================================================================
