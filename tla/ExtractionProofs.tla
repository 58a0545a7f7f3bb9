-------------------------- MODULE ExtractionProofs --------------------------
(***************************************************************************)
(* Proofs about Extraction, for any entries, workers, block sizes and      *)
(* options: the types; that the bytes on the disk never exceed the budget, *)
(* although it is reserved and given back in separate steps; that it       *)
(* refuses nothing if all files fit; that an error-free return means that  *)
(* every entry was dealt with; that an entry reported as extracted is      *)
(* whole on the disk.                                                      *)
(***************************************************************************)
EXTENDS Extraction, FiniteSetTheorems, TLAPS

(***************************************************************************)
(* The inductive invariant.  The counter covers all bytes that are on the  *)
(* disk or in a worker's hands; a grant saw them all within the limit, and *)
(* a refusal adds nothing to what may be written.                          *)
(***************************************************************************)
Held == disk \cup UNION {chunk[w] : w \in Workers}
Granters == {w \in Workers : wpc[w] = "granted"}
Granted == disk \cup UNION {chunk[w] : w \in Granters}

Finite == IsFiniteSet(disk) /\ \A w \in Workers : IsFiniteSet(chunk[w])

\* A worker has bytes in its hands only while it writes or is refused.
InHand ==
    \A w \in Workers :
        /\ wpc[w] \notin {"granted", "refused"} => chunk[w] = {}
        /\ wpc[w] = "refused" => cfg.maxTotalSize > 0

\* No byte is in two hands, or in one and on the disk.
Apart ==
    /\ \A w \in Workers : chunk[w] \cap disk = {}
    /\ \A v, w \in Workers : v # w => chunk[v] \cap chunk[w] = {}

\* What is held has been read: the next block is new.
Below == \A b \in Held : b[2] <= copied[b[1]]

Counted == cfg.maxTotalSize > 0 => Cardinality(Held) <= total
Bounded == cfg.maxTotalSize > 0 => Cardinality(Granted) <= cfg.maxTotalSize

\* A worker that copies has a file, and only files are in the queue.
AtWork ==
    /\ \A w \in Workers :
          wpc[w] \in {"start", "copy", "granted", "refused", "report"} => file[w] \in Files
    /\ cfg.parallel /\ phase = "dispatch" => todo \subseteq Files

IInv == TypeOK /\ AtWork /\ Finite /\ InHand /\ Apart /\ Below /\ Counted /\ Bounded

bytesVars == <<cfg, copyVars>>

\* The options of a call have their types.
LEMMA ConfigType ==
    ASSUME cfg \in Configs
    PROVE  cfg.parallel \in BOOLEAN /\ cfg.maxTotalSize \in Nat /\ cfg.maxFileSize \in Nat
BY ExtractionAssumption

\* The caller's goroutine is one of the workers.
LEMMA CallerIsWorker == Caller \in Workers
BY ExtractionAssumption DEF Caller

\* The queue has a capacity: there are finitely many workers.
LEMMA CapacityNat == Capacity \in Nat
BY ExtractionAssumption, FS_CardinalityType DEF Capacity

\* How many bytes an entry gives is a number.
LEMMA WantedNat == \A e \in Entries : Wanted(e) \in Nat
BY ExtractionAssumption DEF Wanted, AtMost, Unknown

\* What is held is finite.
LEMMA HeldFinite ==
    ASSUME Finite
    PROVE  IsFiniteSet(Held) /\ IsFiniteSet(Granted)
<1>1. ASSUME NEW W \in SUBSET Workers
      PROVE  IsFiniteSet(UNION {chunk[w] : w \in W})
  <2>1. IsFiniteSet(W)
    BY FS_Subset, ExtractionAssumption
  <2>2. IsFiniteSet({chunk[w] : w \in W})
    <3> DEFINE T == {chunk[w] : w \in W}
               f == [w \in W |-> chunk[w]]
    <3>1. f \in Surjection(W, T)
      BY DEF Surjection
    <3> QED BY <2>1, <3>1, FS_Surjection
  <2> QED BY <2>2, FS_UNION DEF Finite
<1>2. Granters \in SUBSET Workers
  BY DEF Granters
<1> QED BY <1>1, <1>2, FS_Union DEF Held, Granted, Finite

----------------------------------------------------------------------------
(* Steps that touch no bytes                                               *)

Ledger == Finite /\ InHand /\ Apart /\ Below /\ Counted /\ Bounded

\* A step that neither reads, writes nor changes the counter, and after which
\* the same workers hold a grant or a refusal, keeps the books as they are.
LEMMA QuietStep ==
    ASSUME IInv, UNCHANGED bytesVars,
           \A w \in Workers :
              \/ wpc'[w] = wpc[w]
              \/ wpc[w] \notin {"granted", "refused"} /\ wpc'[w] \notin {"granted", "refused"}
    PROVE  Ledger'
<1>1. cfg' = cfg /\ chunk' = chunk /\ copied' = copied /\ total' = total /\ disk' = disk
  BY DEF bytesVars, copyVars
<1>2. Granters' = Granters
  BY DEF Granters
<1>3. Held' = Held /\ Granted' = Granted
  BY <1>1, <1>2 DEF Held, Granted
<1>4. Finite' /\ Apart'
  BY <1>1 DEF IInv, Finite, Apart
<1>5. InHand'
  BY <1>1 DEF IInv, InHand
<1>6. Below' /\ Counted' /\ Bounded'
  BY <1>1, <1>3 DEF IInv, Below, Counted, Bounded
<1> QED BY <1>4, <1>5, <1>6 DEF Ledger

\* An entry that is skipped, refused or a directory changes only what is reported.
LEMMA SkipEntryIInv == IInv /\ SkipEntry => IInv'
<1> SUFFICES ASSUME IInv, SkipEntry PROVE IInv'
  OBVIOUS
<1> USE DEF IInv
<1>1. Ledger'
  BY QuietStep DEF SkipEntry, bytesVars, workerVars, copyVars
<1>2. PICK e \in todo :
         /\ todo' = todo \ {e}
         /\ \/ Reject(e)
            \/ TooBig(e) /\ Fail(e, "tooBig") /\ UNCHANGED <<made, told>>
            \/ MakeDirectory(e)
            \/ Fail(e, "io") /\ Tell(e, "failed") /\ UNCHANGED made
  BY DEF SkipEntry
<1>3. Folder[e] \in Folders /\ Destination \in Folders
  BY <1>2, ExtractionAssumption DEF TypeOK
<1>4. made' \subseteq Folders
  BY <1>2, <1>3 DEF TypeOK, Reject, MakeDirectory, MkdirAll
<1>5. failure' \in [Entries -> Reasons] /\ told' \in [Entries -> {"nothing", "ok", "failed"}]
  <2>1. failure \in [Entries -> Reasons] /\ told \in [Entries -> {"nothing", "ok", "failed"}]
    BY DEF TypeOK
  <2>2. failure' = failure \/ \E why \in Reasons : failure' = [failure EXCEPT ![e] = why]
    BY <1>2 DEF Reject, MakeDirectory, Fail, Reasons
  <2>3. told' = told \/ \E what \in {"ok", "failed"} : told' = [told EXCEPT ![e] = what]
    BY <1>2 DEF Reject, MakeDirectory, Tell
  <2>4. failure' \in [Entries -> Reasons]
    BY <2>1, <2>2
  <2> QED BY <2>1, <2>3, <2>4
<1>6. TypeOK'
  BY <1>2, <1>4, <1>5 DEF TypeOK, SkipEntry, workerVars, copyVars
<1>7. AtWork'
  BY <1>2 DEF AtWork, SkipEntry, workerVars, Idle
<1> QED BY <1>1, <1>6, <1>7 DEF Ledger

\* The caller's goroutine takes up a file.
LEMMA ExtractEntryIInv == IInv /\ ExtractEntry => IInv'
<1> SUFFICES ASSUME IInv, ExtractEntry PROVE IInv'
  OBVIOUS
<1> USE DEF IInv
<1>1. PICK e \in todo :
         /\ e \in Files
         /\ todo' = todo \ {e}
         /\ MkdirAll(e)
         /\ wpc' = [wpc EXCEPT ![Caller] = "start"]
         /\ file' = [file EXCEPT ![Caller] = e]
  BY DEF ExtractEntry
<1>2. Ledger'
  BY <1>1, QuietStep, CallerIsWorker DEF ExtractEntry, bytesVars, copyVars, Idle, TypeOK
<1>3. Folder[e] \in Folders /\ Destination \in Folders
  BY <1>1, ExtractionAssumption DEF Files
<1>4. TypeOK'
  BY <1>1, <1>3 DEF TypeOK, ExtractEntry, copyVars, reportVars, MkdirAll
<1>5. AtWork'
  BY <1>1, CallerIsWorker DEF TypeOK, AtWork, ExtractEntry, Idle
<1> QED BY <1>2, <1>4, <1>5 DEF Ledger

\* A file is done in a sequential extraction.
LEMMA EntryDoneIInv == IInv /\ EntryDone => IInv'
<1> SUFFICES ASSUME IInv, EntryDone PROVE IInv'
  OBVIOUS
<1> USE DEF IInv
<1>1. Ledger'
  BY QuietStep, CallerIsWorker DEF EntryDone, bytesVars, copyVars, TypeOK
<1>2. file[Caller] \in Entries /\ err[Caller] \in Reasons
  BY CallerIsWorker DEF AtWork, TypeOK, EntryDone, Files
<1>3. failure' \in [Entries -> Reasons] /\ told' \in [Entries -> {"nothing", "ok", "failed"}]
  BY <1>2 DEF TypeOK, EntryDone, Fail, Tell, reportVars
<1>4. TypeOK'
  BY <1>3 DEF TypeOK, EntryDone, copyVars
<1>5. AtWork'
  BY CallerIsWorker DEF TypeOK, AtWork, EntryDone
<1> QED BY <1>1, <1>4, <1>5 DEF Ledger

\* The sequential loop ends.
LEMMA LeaveLoopIInv == IInv /\ LeaveLoop => IInv'
<1> SUFFICES ASSUME IInv, LeaveLoop PROVE IInv'
  OBVIOUS
<1> USE DEF IInv
<1>1. Ledger'
  BY QuietStep DEF LeaveLoop, bytesVars, workerVars, copyVars
<1>2. TypeOK'
  BY DEF TypeOK, LeaveLoop, workerVars, copyVars, reportVars
<1>3. AtWork'
  BY DEF AtWork, LeaveLoop, workerVars
<1> QED BY <1>1, <1>2, <1>3 DEF Ledger

\* The first pass looks at an entry.
LEMMA CheckIInv == IInv /\ Check => IInv'
<1> SUFFICES ASSUME IInv, Check PROVE IInv'
  OBVIOUS
<1> USE DEF IInv
<1>1. Ledger'
  BY QuietStep DEF Check, bytesVars, workerVars, copyVars
<1>2. PICK e \in todo :
         /\ todo' = todo \ {e}
         /\ Reject(e) \/ MakeDirectory(e) \/ UNCHANGED <<made, reportVars>>
  BY DEF Check
<1>3. Folder[e] \in Folders /\ Destination \in Folders
  BY <1>2, ExtractionAssumption DEF TypeOK
<1>4. made' \subseteq Folders
  BY <1>2, <1>3 DEF TypeOK, Reject, MakeDirectory, MkdirAll
<1>5. failure' \in [Entries -> Reasons] /\ told' \in [Entries -> {"nothing", "ok", "failed"}]
  <2>1. failure \in [Entries -> Reasons] /\ told \in [Entries -> {"nothing", "ok", "failed"}]
    BY DEF TypeOK
  <2>2. failure' = failure \/ \E why \in Reasons : failure' = [failure EXCEPT ![e] = why]
    BY <1>2 DEF Reject, MakeDirectory, Fail, Reasons, reportVars
  <2>3. told' = told \/ \E what \in {"ok", "failed"} : told' = [told EXCEPT ![e] = what]
    BY <1>2 DEF Reject, MakeDirectory, Tell, reportVars
  <2>4. failure' \in [Entries -> Reasons]
    BY <2>1, <2>2
  <2> QED BY <2>1, <2>3, <2>4
<1>6. TypeOK'
  BY <1>2, <1>4, <1>5 DEF TypeOK, Check, workerVars, copyVars
<1>7. AtWork'
  BY DEF AtWork, Check, workerVars
<1> QED BY <1>1, <1>6, <1>7 DEF Ledger

\* The first pass ends; from then on only files are left to do.
LEMMA EndCheckIInv == IInv /\ EndCheck => IInv'
<1> SUFFICES ASSUME IInv, EndCheck PROVE IInv'
  OBVIOUS
<1> USE DEF IInv
<1>1. Ledger'
  BY QuietStep DEF EndCheck, bytesVars, workerVars, copyVars
<1>2. Files \subseteq Entries
  BY DEF Files
<1>3. TypeOK'
  BY <1>2 DEF TypeOK, EndCheck, workerVars, copyVars, reportVars
<1>4. AtWork'
  BY DEF AtWork, EndCheck, workerVars
<1> QED BY <1>1, <1>3, <1>4 DEF Ledger

\* A file is sent on the queue, within its capacity.
LEMMA DispatchIInv == IInv /\ Dispatch => IInv'
<1> SUFFICES ASSUME IInv, Dispatch PROVE IInv'
  OBVIOUS
<1> USE DEF IInv
<1>1. Ledger'
  BY QuietStep DEF Dispatch, bytesVars, workerVars, copyVars
<1>2. PICK e \in todo : tasks' = Append(tasks, e) /\ todo' = todo \ {e}
  BY DEF Dispatch
<1>3. e \in Files
  BY <1>2 DEF Dispatch, AtWork
<1>4. tasks' \in Seq(Files) /\ Len(tasks') <= Capacity
  BY <1>2, <1>3, CapacityNat DEF Dispatch, TypeOK
<1>5. TypeOK'
  BY <1>2, <1>4 DEF TypeOK, Dispatch, workerVars, copyVars, reportVars
<1>6. AtWork'
  BY <1>2 DEF AtWork, Dispatch, workerVars
<1> QED BY <1>1, <1>5, <1>6 DEF Ledger

\* The queue is closed.
LEMMA CloseTasksIInv == IInv /\ CloseTasks => IInv'
<1> SUFFICES ASSUME IInv, CloseTasks PROVE IInv'
  OBVIOUS
<1> USE DEF IInv
<1>1. Ledger'
  BY QuietStep DEF CloseTasks, bytesVars, workerVars, copyVars
<1>2. TypeOK'
  BY DEF TypeOK, CloseTasks, workerVars, copyVars, reportVars
<1>3. AtWork'
  BY DEF AtWork, CloseTasks, workerVars
<1> QED BY <1>1, <1>2, <1>3 DEF Ledger

\* The call returns.
LEMMA ReturnIInv == IInv /\ Return => IInv'
<1> SUFFICES ASSUME IInv, Return PROVE IInv'
  OBVIOUS
<1> USE DEF IInv
<1>1. Ledger'
  BY QuietStep DEF Return, bytesVars, workerVars, copyVars
<1>2. TypeOK'
  BY DEF TypeOK, Return, workerVars, copyVars, reportVars
<1>3. AtWork'
  BY DEF AtWork, Return, workerVars
<1> QED BY <1>1, <1>2, <1>3 DEF Ledger

\* The context is cancelled.
LEMMA CancelIInv == IInv /\ Cancel => IInv'
<1> SUFFICES ASSUME IInv, Cancel PROVE IInv'
  OBVIOUS
<1> USE DEF IInv
<1>1. Ledger'
  BY QuietStep DEF Cancel, bytesVars, workerVars, copyVars
<1>2. TypeOK'
  BY DEF TypeOK, Cancel, workerVars, copyVars, reportVars
<1>3. AtWork'
  BY DEF AtWork, Cancel, workerVars
<1> QED BY <1>1, <1>2, <1>3 DEF Ledger

\* A worker takes a file from the queue, or leaves.
LEMMA ReceiveIInv == ASSUME NEW w \in Workers PROVE IInv /\ Receive(w) => IInv'
<1> SUFFICES ASSUME IInv, Receive(w) PROVE IInv'
  OBVIOUS
<1> USE DEF IInv
<1>1. Ledger'
  BY QuietStep DEF Receive, bytesVars, copyVars, TypeOK
<1>2. Head(tasks) \in Files /\ Tail(tasks) \in Seq(Files) /\ Len(Tail(tasks)) <= Capacity
  BY CapacityNat DEF Receive, TypeOK
<1>3. TypeOK'
  BY <1>2 DEF TypeOK, Receive, copyVars, reportVars
<1>4. AtWork'
  BY <1>2 DEF TypeOK, AtWork, Receive
<1> QED BY <1>1, <1>3, <1>4 DEF Ledger

\* A worker leaves when the queue is drained.
LEMMA ExitIInv == ASSUME NEW w \in Workers PROVE IInv /\ Exit(w) => IInv'
<1> SUFFICES ASSUME IInv, Exit(w) PROVE IInv'
  OBVIOUS
<1> USE DEF IInv
<1>1. Ledger'
  BY QuietStep DEF Exit, bytesVars, copyVars, TypeOK
<1>2. TypeOK'
  BY DEF TypeOK, Exit, copyVars, reportVars
<1>3. AtWork'
  BY DEF TypeOK, AtWork, Exit
<1> QED BY <1>1, <1>2, <1>3 DEF Ledger

\* A worker reports a file.
LEMMA ReportIInv == ASSUME NEW w \in Workers PROVE IInv /\ Report(w) => IInv'
<1> SUFFICES ASSUME IInv, Report(w) PROVE IInv'
  OBVIOUS
<1> USE DEF IInv
<1>1. Ledger'
  BY QuietStep DEF Report, bytesVars, copyVars, TypeOK
<1>2. file[w] \in Entries /\ err[w] \in Reasons
  BY DEF AtWork, TypeOK, Report, Files
<1>3. failure' \in [Entries -> Reasons] /\ told' \in [Entries -> {"nothing", "ok", "failed"}]
  BY <1>2 DEF TypeOK, Report, Fail, Tell
<1>4. TypeOK'
  BY <1>3 DEF TypeOK, Report, copyVars
<1>5. AtWork'
  BY DEF TypeOK, AtWork, Report
<1> QED BY <1>1, <1>4, <1>5 DEF Ledger

\* The end of extractFile, with whatever reason.
LEMMA StopTypes ==
    ASSUME NEW w \in Workers, NEW why \in Reasons, TypeOK, Stop(w, why)
    PROVE  /\ err' \in [Workers -> Reasons]
           /\ wpc' \in [Workers -> {"receive", "start", "copy", "granted", "refused",
                                    "report", "exited"}]
           /\ \A v \in Workers : wpc'[v] = IF v = w THEN "report" ELSE wpc[v]
BY DEF TypeOK, Stop

\* extractFile begins, or fails before the copy.
LEMMA BeginIInv == ASSUME NEW w \in Workers PROVE IInv /\ Begin(w) => IInv'
<1> SUFFICES ASSUME IInv, Begin(w) PROVE IInv'
  OBVIOUS
<1> USE DEF IInv
<1>1. \/ \E why \in Reasons : Stop(w, why)
      \/ wpc' = [wpc EXCEPT ![w] = "copy"] /\ UNCHANGED err
  BY DEF Begin, Reasons, None
<1>2. /\ err' \in [Workers -> Reasons]
      /\ wpc' \in [Workers -> {"receive", "start", "copy", "granted", "refused",
                               "report", "exited"}]
      /\ \A v \in Workers : v # w => wpc'[v] = wpc[v]
      /\ wpc'[w] \in {"report", "copy"}
  BY <1>1, StopTypes DEF TypeOK
<1>3. Ledger'
  BY <1>2, QuietStep DEF Begin, bytesVars, copyVars
<1>4. TypeOK'
  BY <1>2 DEF TypeOK, Begin, copyVars, reportVars
<1>5. AtWork'
  BY <1>2 DEF AtWork, Begin
<1> QED BY <1>3, <1>4, <1>5 DEF Ledger

\* The copy ends, in success or not, with nothing in hand.
LEMMA EndCopyIInv == ASSUME NEW w \in Workers PROVE IInv /\ EndCopy(w) => IInv'
<1> SUFFICES ASSUME IInv, EndCopy(w) PROVE IInv'
  OBVIOUS
<1> USE DEF IInv
<1>1. \E why \in Reasons : Stop(w, why)
  BY DEF EndCopy, Reasons, None
<1>2. /\ err' \in [Workers -> Reasons]
      /\ wpc' \in [Workers -> {"receive", "start", "copy", "granted", "refused",
                               "report", "exited"}]
      /\ \A v \in Workers : v # w => wpc'[v] = wpc[v]
      /\ wpc'[w] = "report"
  BY <1>1, StopTypes
<1>3. Ledger'
  BY <1>2, QuietStep DEF EndCopy, bytesVars, copyVars
<1>4. TypeOK'
  BY <1>2 DEF TypeOK, EndCopy, copyVars, reportVars
<1>5. AtWork'
  BY <1>2 DEF AtWork, EndCopy
<1> QED BY <1>3, <1>4, <1>5 DEF Ledger

----------------------------------------------------------------------------
(* The steps on the budget                                                 *)

\* A block has as many bytes as were read, and they come after those read before.
LEMMA BlockFacts ==
    ASSUME NEW e \in Entries, NEW n \in Nat, copied \in [Entries -> Nat]
    PROVE  /\ Block(e, n) \subseteq Bytes
           /\ IsFiniteSet(Block(e, n)) /\ Cardinality(Block(e, n)) = n
           /\ \A b \in Block(e, n) : b[1] = e /\ b[2] > copied[e] /\ b[2] <= copied[e] + n
<1> DEFINE I == copied[e] + 1 .. copied[e] + n
<1>1. copied[e] \in Nat
  OBVIOUS
<1>2. IsFiniteSet(I) /\ Cardinality(I) = n
  <2>1. ASSUME NEW a \in Int, NEW b \in Int, b = a + n - 1
        PROVE  IsFiniteSet(a .. b) /\ Cardinality(a .. b) = n
    <3>1. Cardinality(a .. b) = IF a > b THEN 0 ELSE b - a + 1
      BY FS_Interval
    <3>2. IsFiniteSet(a .. b)
      BY FS_Interval
    <3> QED BY <2>1, <3>1, <3>2
  <2>2. copied[e] + 1 \in Int /\ copied[e] + n \in Int /\ copied[e] + n = copied[e] + 1 + n - 1
    BY <1>1
  <2> QED BY <2>1, <2>2
<1>3. IsFiniteSet({e}) /\ Cardinality({e}) = 1
  BY FS_Singleton
<1>4. IsFiniteSet({e} \X I) /\ Cardinality({e} \X I) = 1 * n
  <2> HIDE DEF I
  <2>1. IsFiniteSet({e} \X I) /\ Cardinality({e} \X I) = Cardinality({e}) * Cardinality(I)
    BY <1>2, <1>3, FS_Product
  <2> QED BY <1>2, <1>3, <2>1
<1>5. Block(e, n) = {e} \X I
  BY DEF Block
<1>6. \A b \in {e} \X I : b[1] = e /\ b[2] \in I
  OBVIOUS
<1>7. {e} \X I \subseteq Bytes
  BY <1>1 DEF Bytes
<1>8. \A b \in {e} \X I : b[1] = e /\ b[2] > copied[e] /\ b[2] <= copied[e] + n
  BY <1>1, <1>6
<1>9. Cardinality({e} \X I) = n
  BY <1>4
<1> QED BY <1>4, <1>5, <1>7, <1>8, <1>9

\* A block is read and counted: it is new, so the counter grows by as much as what is
\* held; if it is granted, all that is held was within the limit.
LEMMA ReserveIInv == ASSUME NEW w \in Workers PROVE IInv /\ Reserve(w) => IInv'
<1> SUFFICES ASSUME IInv, Reserve(w) PROVE IInv'
  OBVIOUS
<1> USE DEF IInv
<1> DEFINE e == file[w]
<1>1. e \in Files /\ e \in Entries
  BY DEF AtWork, Reserve, Files
<1>2. PICK n \in Nat :
         /\ chunk' = [chunk EXCEPT ![w] = Block(e, n)]
         /\ copied' = [copied EXCEPT ![e] = @ + n]
         /\ total' = IF cfg.maxTotalSize = 0 THEN total ELSE total + n
         /\ wpc' = [wpc EXCEPT ![w] = IF Within(total, n) THEN "granted" ELSE "refused"]
  <2>1. PICK n \in 1 .. AtMost(BufferSize, Wanted(e) - copied[e]) :
           /\ chunk' = [chunk EXCEPT ![w] = Block(e, n)]
           /\ copied' = [copied EXCEPT ![e] = @ + n]
           /\ total' = IF cfg.maxTotalSize = 0 THEN total ELSE total + n
           /\ wpc' = [wpc EXCEPT ![w] = IF Within(total, n) THEN "granted" ELSE "refused"]
    BY DEF Reserve
  <2>2. AtMost(BufferSize, Wanted(e) - copied[e]) \in Int
    BY <1>1, WantedNat, ExtractionAssumption DEF AtMost, TypeOK
  <2>3. n \in Nat
    BY <2>2
  <2> QED BY <2>1, <2>3
<1>3. cfg.maxTotalSize \in Nat /\ cfg' = cfg /\ disk' = disk /\ total \in Nat
  BY ConfigType DEF Reserve, TypeOK
<1>4. /\ copied \in [Entries -> Nat] /\ chunk \in [Workers -> SUBSET Bytes]
      /\ wpc \in [Workers -> {"receive", "start", "copy", "granted", "refused",
                              "report", "exited"}]
  BY DEF TypeOK
<1> DEFINE B == Block(e, n)
<1>5. /\ B \subseteq Bytes
      /\ IsFiniteSet(B) /\ Cardinality(B) = n
      /\ \A b \in B : b[1] = e /\ b[2] > copied[e] /\ b[2] <= copied[e] + n
  BY <1>1, <1>4, BlockFacts
<1>6. chunk[w] = {}
  BY DEF InHand, Reserve
<1>7. B \cap Held = {}
  <2>1. \A b \in Held : b \in Bytes
    BY <1>4 DEF Held, TypeOK
  <2>2. \A b \in Held : b[1] = e => b[2] <= copied[e]
    BY DEF Below
  <2>3. \A b \in Bytes : b[2] \in Nat
    BY DEF Bytes
  <2>4. copied[e] \in Nat
    BY <1>1, <1>4
  <2> QED BY <2>1, <2>2, <2>3, <2>4, <1>5
<1>8. Held' = Held \cup B
  BY <1>2, <1>3, <1>4, <1>6 DEF Held
<1>9. IsFiniteSet(Held) /\ IsFiniteSet(Granted)
  BY HeldFinite
<1>10. Cardinality(Held') = Cardinality(Held) + n
  <2> HIDE DEF B
  <2>1. Cardinality(Held \cup B) = Cardinality(Held) + Cardinality(B) - Cardinality(Held \cap B)
    BY <1>5, <1>9, FS_Union
  <2>2. Cardinality(Held \cap B) = 0
    <3>1. Held \cap B = {}
      BY <1>7
    <3> QED BY <3>1, FS_EmptySet
  <2>3. Cardinality(Held) \in Nat
    BY <1>9, FS_CardinalityType
  <2>4. Cardinality(Held') = Cardinality(Held \cup B)
    BY <1>8
  <2>5. Cardinality(B) = n
    BY <1>5
  <2> QED BY <2>1, <2>2, <2>3, <2>4, <2>5
<1>11. Finite'
  BY <1>2, <1>3, <1>4, <1>5 DEF Finite
<1>12. InHand'
  BY <1>2, <1>3, <1>4 DEF InHand, Within
<1>13. Apart'
  <2>1. \A v \in Workers : chunk[v] \subseteq Held
    BY DEF Held
  <2>2. disk \subseteq Held
    BY DEF Held
  <2> QED BY <1>2, <1>3, <1>4, <1>7, <2>1, <2>2 DEF Apart
<1>14. Below'
  <2>1. \A b \in Held : b \in Bytes
    BY <1>4 DEF Held, TypeOK
  <2>2. \A b \in Held : b[2] <= copied'[b[1]]
    BY <1>1, <1>2, <1>4, <2>1 DEF Below, Bytes
  <2>3. \A b \in B : b[2] <= copied'[b[1]]
    BY <1>1, <1>2, <1>4, <1>5
  <2> QED BY <1>8, <2>2, <2>3 DEF Below
<1>15. Counted'
  <2>1. Cardinality(Held) \in Nat
    BY <1>9, FS_CardinalityType
  <2> QED BY <1>2, <1>3, <1>10, <2>1 DEF Counted
<1>16. Bounded'
  <2> SUFFICES ASSUME cfg.maxTotalSize > 0
               PROVE  Cardinality(Granted') <= cfg.maxTotalSize
    BY <1>3 DEF Bounded
  <2>1. CASE Within(total, n)
    <3>1. Granted' \subseteq Held'
      BY DEF Granted, Held, Granters
    <3>2. IsFiniteSet(Held')
      BY <1>5, <1>8, <1>9, FS_Union
    <3>3. Cardinality(Granted') <= Cardinality(Held')
      BY <3>1, <3>2, FS_Subset
    <3>4. Cardinality(Held') <= total + n /\ total + n <= cfg.maxTotalSize
      BY <1>2, <1>3, <1>15, <2>1 DEF Counted, Within
    <3>5. Cardinality(Granted') \in Nat /\ Cardinality(Held') \in Nat
      BY <3>1, <3>2, FS_Subset, FS_CardinalityType
    <3> QED BY <1>3, <3>3, <3>4, <3>5
  <2>2. CASE ~Within(total, n)
    <3>1. Granters' = Granters
      BY <1>2, <1>4, <2>2 DEF Granters, Reserve
    <3>2. w \notin Granters
      BY DEF Granters, Reserve
    <3>3. \A v \in Granters : chunk'[v] = chunk[v]
      BY <1>2, <1>4, <3>2 DEF Granters
    <3>4. Granted' = Granted
      BY <1>3, <3>1, <3>3 DEF Granted
    <3> QED BY <3>4 DEF Bounded
  <2> QED BY <2>1, <2>2
<1>17. TypeOK'
  <2>1. chunk' \in [Workers -> SUBSET Bytes]
    BY <1>2, <1>4, <1>5
  <2>2. copied' \in [Entries -> Nat] /\ total' \in Nat
    BY <1>1, <1>2, <1>3, <1>4
  <2>3. wpc' \in [Workers -> {"receive", "start", "copy", "granted", "refused",
                             "report", "exited"}]
    BY <1>2, <1>4
  <2> QED BY <2>1, <2>2, <2>3 DEF TypeOK, Reserve, reportVars
<1>18. AtWork'
  BY <1>1, <1>2, <1>4 DEF AtWork, Reserve
<1> QED BY <1>11, <1>12, <1>13, <1>14, <1>15, <1>16, <1>17, <1>18

\* A refused block leaves the counter and the hand together.
LEMMA GiveBackIInv == ASSUME NEW w \in Workers PROVE IInv /\ GiveBack(w) => IInv'
<1> SUFFICES ASSUME IInv, GiveBack(w) PROVE IInv'
  OBVIOUS
<1> USE DEF IInv
<1>1. /\ wpc[w] = "refused"
      /\ total' = total - Cardinality(chunk[w])
      /\ chunk' = [chunk EXCEPT ![w] = {}]
      /\ disk' = disk /\ copied' = copied /\ cfg' = cfg /\ file' = file
  BY DEF GiveBack
<1>2. Stop(w, "budget") /\ "budget" \in Reasons
  BY DEF GiveBack, Reasons
<1>3. /\ err' \in [Workers -> Reasons]
      /\ wpc' \in [Workers -> {"receive", "start", "copy", "granted", "refused",
                               "report", "exited"}]
      /\ \A v \in Workers : wpc'[v] = IF v = w THEN "report" ELSE wpc[v]
  BY <1>2, StopTypes
<1>4. chunk \in [Workers -> SUBSET Bytes] /\ total \in Nat /\ cfg.maxTotalSize \in Nat
  BY ConfigType DEF TypeOK
<1>5. cfg.maxTotalSize > 0
  BY <1>1 DEF InHand
<1>6. Held' = Held \ chunk[w]
  BY <1>1, <1>4 DEF Held, Apart
<1>7. chunk[w] \subseteq Held /\ IsFiniteSet(Held) /\ IsFiniteSet(chunk[w])
  BY HeldFinite DEF Held, Finite
<1>8. /\ Cardinality(Held') = Cardinality(Held) - Cardinality(chunk[w])
      /\ Cardinality(Held) \in Nat /\ Cardinality(chunk[w]) \in Nat
      /\ Cardinality(chunk[w]) <= Cardinality(Held)
  <2>1. Held \cap chunk[w] = chunk[w]
    BY <1>7
  <2>2. Cardinality(Held \ chunk[w]) = Cardinality(Held) - Cardinality(Held \cap chunk[w])
    BY <1>7, FS_Difference
  <2>3. Cardinality(Held') = Cardinality(Held) - Cardinality(chunk[w])
    BY <1>6, <2>1, <2>2
  <2>4. Cardinality(Held) \in Nat /\ Cardinality(chunk[w]) \in Nat
    BY <1>7, FS_CardinalityType
  <2>5. Cardinality(chunk[w]) <= Cardinality(Held)
    BY <1>7, FS_Subset
  <2> QED BY <2>3, <2>4, <2>5
<1>9. Cardinality(Held) <= total
  BY <1>5 DEF Counted
<1>10. total' \in Nat /\ Cardinality(Held') <= total'
  BY <1>1, <1>4, <1>8, <1>9
<1>11. Finite'
  BY <1>1, <1>4, FS_EmptySet DEF Finite
<1>12. InHand'
  BY <1>1, <1>3, <1>4 DEF InHand
<1>13. Apart'
  BY <1>1, <1>4 DEF Apart
<1>14. Below'
  BY <1>1, <1>6 DEF Below
<1>15. Counted'
  BY <1>10 DEF Counted
<1>16. Bounded'
  <2>1. Granters' = Granters
    BY <1>1, <1>3 DEF Granters
  <2>2. \A v \in Granters : chunk'[v] = chunk[v]
    BY <1>1, <1>4 DEF Granters
  <2>3. Granted' = Granted
    BY <1>1, <2>1, <2>2 DEF Granted
  <2> QED BY <1>1, <2>3 DEF Bounded
<1>17. TypeOK'
  <2>1. chunk' \in [Workers -> SUBSET Bytes]
    BY <1>1, <1>4
  <2> QED BY <1>1, <1>3, <1>10, <2>1 DEF TypeOK, GiveBack, reportVars
<1>18. AtWork'
  BY <1>1, <1>3 DEF AtWork, GiveBack
<1> QED BY <1>11, <1>12, <1>13, <1>14, <1>15, <1>16, <1>17, <1>18

\* Bytes move from the hand to the disk, or are lost: what is held never grows.
LEMMA WriteIInv == ASSUME NEW w \in Workers PROVE IInv /\ Write(w) => IInv'
<1> SUFFICES ASSUME IInv, Write(w) PROVE IInv'
  OBVIOUS
<1> USE DEF IInv
<1>1. /\ wpc[w] = "granted"
      /\ chunk' = [chunk EXCEPT ![w] = {}]
      /\ total' = total /\ copied' = copied /\ cfg' = cfg /\ file' = file
  BY DEF Write
<1>2. PICK part \in SUBSET chunk[w] : disk' = disk \cup part
  BY DEF Write
<1>3. /\ err' \in [Workers -> Reasons]
      /\ wpc' \in [Workers -> {"receive", "start", "copy", "granted", "refused",
                               "report", "exited"}]
      /\ \A v \in Workers : v # w => wpc'[v] = wpc[v]
      /\ wpc'[w] \in {"copy", "report"}
  <2>1. CASE wpc' = [wpc EXCEPT ![w] = "copy"] /\ UNCHANGED err
    BY <2>1 DEF TypeOK
  <2>2. CASE Stop(w, "io")
    BY <2>2, StopTypes DEF Reasons
  <2> QED BY <2>1, <2>2 DEF Write
<1>4. /\ chunk \in [Workers -> SUBSET Bytes] /\ total \in Nat /\ disk \subseteq Bytes
      /\ cfg.maxTotalSize \in Nat
  BY ConfigType DEF TypeOK
<1>5. Held' \subseteq Held
  BY <1>1, <1>2, <1>4 DEF Held
<1>6. Granted' \subseteq Granted
  <2>1. w \in Granters /\ Granters' \subseteq Granters
    BY <1>1, <1>3 DEF Granters
  <2>2. disk' \subseteq Granted
    BY <1>2, <2>1 DEF Granted
  <2>3. \A v \in Workers : chunk'[v] \subseteq chunk[v]
    BY <1>1, <1>4
  <2>4. Granters \subseteq Workers
    BY DEF Granters
  <2> QED BY <2>1, <2>2, <2>3, <2>4 DEF Granted
<1>7. /\ Cardinality(Held') <= Cardinality(Held)
      /\ Cardinality(Held') \in Nat /\ Cardinality(Held) \in Nat
  BY <1>5, HeldFinite, FS_Subset, FS_CardinalityType
<1>8. /\ Cardinality(Granted') <= Cardinality(Granted)
      /\ Cardinality(Granted') \in Nat /\ Cardinality(Granted) \in Nat
  BY <1>6, HeldFinite, FS_Subset, FS_CardinalityType
<1>9. Finite'
  <2>1. IsFiniteSet(part)
    BY FS_Subset DEF Finite
  <2>2. IsFiniteSet(disk')
    BY <1>2, <2>1, FS_Union DEF Finite
  <2> QED BY <1>1, <1>4, <2>2, FS_EmptySet DEF Finite
<1>10. InHand'
  BY <1>1, <1>3, <1>4 DEF InHand
<1>11. Apart'
  BY <1>1, <1>2, <1>4 DEF Apart
<1>12. Below'
  BY <1>1, <1>5 DEF Below
<1>13. Counted'
  BY <1>1, <1>4, <1>7 DEF Counted
<1>14. Bounded'
  BY <1>1, <1>4, <1>8 DEF Bounded
<1>15. TypeOK'
  <2>1. chunk' \in [Workers -> SUBSET Bytes] /\ disk' \subseteq Bytes
    BY <1>1, <1>2, <1>4
  <2> QED BY <1>1, <1>3, <2>1 DEF TypeOK, Write, reportVars
<1>16. AtWork'
  BY <1>1, <1>3 DEF AtWork, Write
<1> QED BY <1>9, <1>10, <1>11, <1>12, <1>13, <1>14, <1>15, <1>16

----------------------------------------------------------------------------
(* The theorems                                                            *)

\* At the start nothing is held.
LEMMA InitIInv == Init => IInv
<1> SUFFICES ASSUME Init PROVE IInv
  OBVIOUS
<1>1. cfg \in Configs /\ cfg.maxTotalSize \in Nat /\ cfg.parallel \in BOOLEAN
  BY ConfigType DEF Init
<1>2. TypeOK
  <2>1. << >> \in Seq(Files) /\ Len(<< >>) <= Capacity
    BY CapacityNat
  <2>2. made \subseteq Folders
    BY ExtractionAssumption DEF Init
  <2> QED BY <1>1, <2>1, <2>2 DEF Init, TypeOK, Reasons, None
<1>3. AtWork
  BY DEF Init, AtWork
<1>4. Held = {} /\ Granted = {}
  BY DEF Init, Held, Granted, Granters
<1>5. Finite /\ InHand /\ Apart
  BY FS_EmptySet DEF Init, Finite, InHand, Apart
<1>6. Below
  BY <1>4 DEF Below
<1>7. Counted /\ Bounded
  <2>1. Cardinality(Held) = 0 /\ Cardinality(Granted) = 0
    BY <1>4, FS_EmptySet
  <2> QED BY <1>1, <2>1 DEF Init, Counted, Bounded
<1> QED BY <1>2, <1>3, <1>5, <1>6, <1>7 DEF IInv

\* A step of others changes nothing.
LEMMA StutterIInv == IInv /\ UNCHANGED vars => IInv'
<1> SUFFICES ASSUME IInv, UNCHANGED vars PROVE IInv'
  OBVIOUS
<1> USE DEF IInv
<1>1. Ledger'
  BY QuietStep DEF vars, bytesVars, workerVars
<1>2. TypeOK' /\ AtWork'
  BY DEF TypeOK, AtWork, vars, workerVars, copyVars, reportVars
<1> QED BY <1>1, <1>2 DEF Ledger

\* Every step keeps the books: what is counted covers what is on the disk and
\* in the workers' hands, and what may be written is within the limit.
THEOREM Invariance == Spec => []IInv
<1>1. IInv /\ [Next]_vars => IInv'
  <2> SUFFICES ASSUME IInv, [Next]_vars PROVE IInv'
    OBVIOUS
  <2>1. CASE UNCHANGED vars
    BY <2>1, StutterIInv
  <2>2. CASE Driver
    BY <2>2, SkipEntryIInv, ExtractEntryIInv, EntryDoneIInv, LeaveLoopIInv, CheckIInv,
       EndCheckIInv, DispatchIInv, CloseTasksIInv, ReturnIInv DEF Driver
  <2>3. ASSUME NEW w \in Workers, Worker(w) PROVE IInv'
    BY <2>3, ReceiveIInv, ExitIInv, ReportIInv, BeginIInv, EndCopyIInv, ReserveIInv,
       GiveBackIInv, WriteIInv DEF Worker, Copying
  <2>4. CASE Cancel
    BY <2>4, CancelIInv
  <2> QED BY <2>1, <2>2, <2>3, <2>4 DEF Next
<1> QED BY InitIInv, <1>1, PTL DEF Spec

\* Every variable of an extraction keeps its type; the counter is never
\* negative and the queue never holds more than its capacity.
THEOREM TypeCorrect == Spec => []TypeOK
BY Invariance, PTL DEF IInv

\* MaxTotalSize is the most that ever comes to the disk, for any number of
\* workers and files and blocks of any size.
THEOREM BudgetIsKept == Spec => []BudgetKept
<1>1. IInv => BudgetKept
  <2> SUFFICES ASSUME IInv, cfg.maxTotalSize > 0
               PROVE  Cardinality(disk) <= cfg.maxTotalSize
    BY DEF BudgetKept
  <2>1. disk \subseteq Granted /\ IsFiniteSet(Granted)
    BY HeldFinite DEF Granted, IInv
  <2>2. /\ Cardinality(disk) <= Cardinality(Granted)
        /\ Cardinality(disk) \in Nat /\ Cardinality(Granted) \in Nat
    BY <2>1, FS_Subset, FS_CardinalityType
  <2>3. Cardinality(Granted) <= cfg.maxTotalSize /\ cfg.maxTotalSize \in Nat
    BY ConfigType DEF IInv, Bounded, TypeOK
  <2> QED BY <2>2, <2>3
<1> QED BY Invariance, <1>1, PTL

----------------------------------------------------------------------------
(* Nothing is refused that fits                                            *)

(***************************************************************************)
(* The other side of the budget.  The counter is never above the bytes     *)
(* read, of which no entry yields more than is wanted of it: whoever asks  *)
(* for a block while all files fit finds room for it.  What is counted and *)
(* lost to a failed write has been read as well.                           *)
(***************************************************************************)
ReadBytes == UNION {{e} \X (1 .. copied[e]) : e \in Files}

Measured == \A e \in Entries : copied[e] <= Wanted(e)
Covered == total <= Cardinality(ReadBytes)

Unrefused ==
    AllFits => /\ \A w \in Workers : wpc[w] # "refused" /\ err[w] # "budget"
               /\ \A e \in Entries : failure[e] # "budget"

RInv == Measured /\ Covered /\ Unrefused

\* As many bytes of every file as a function tells are finitely many.
LEMMA PairsFinite ==
    ASSUME NEW f, \A e \in Files : f[e] \in Nat
    PROVE  IsFiniteSet(UNION {{e} \X (1 .. f[e]) : e \in Files})
<1> DEFINE row(e) == {e} \X (1 .. f[e])
           T == {row(e) : e \in Files}
           g == [e \in Files |-> row(e)]
<1>1. IsFiniteSet(Files)
  <2>1. IsFiniteSet(1 .. N)
    BY ExtractionAssumption, FS_Interval
  <2> QED BY <2>1, FS_Subset DEF Files, Entries
<1>2. \A e \in Files : IsFiniteSet(row(e))
  <2> SUFFICES ASSUME NEW e \in Files PROVE IsFiniteSet(row(e))
    OBVIOUS
  <2>1. 1 \in Int /\ f[e] \in Int
    OBVIOUS
  <2>2. IsFiniteSet(1 .. f[e])
    BY <2>1, FS_Interval
  <2>3. IsFiniteSet({e})
    BY FS_Singleton
  <2> QED BY <2>2, <2>3, FS_Product
<1>3. g \in Surjection(Files, T)
  BY DEF Surjection
<1>4. IsFiniteSet(T)
  BY <1>1, <1>3, FS_Surjection
<1>5. \A t \in T : IsFiniteSet(t)
  BY <1>2
<1>6. IsFiniteSet(UNION T)
  <2> HIDE DEF T
  <2> QED BY <1>4, <1>5, FS_UNION
<1> QED BY <1>6

\* What is wanted of all files, and what has been read, are finitely many bytes.
LEMMA WantedFinite ==
    ASSUME TypeOK, Measured
    PROVE  /\ IsFiniteSet(AllWanted) /\ IsFiniteSet(ReadBytes)
           /\ ReadBytes \subseteq AllWanted
<1>1. Files \subseteq Entries
  BY DEF Files
<1>2. IsFiniteSet(ReadBytes)
  BY <1>1, PairsFinite DEF ReadBytes, TypeOK
<1>3. IsFiniteSet(AllWanted)
  <2> DEFINE f == [e \in Files |-> Wanted(e)]
  <2>1. \A e \in Files : f[e] \in Nat
    BY <1>1, WantedNat
  <2>2. IsFiniteSet(UNION {{e} \X (1 .. f[e]) : e \in Files})
    <3> HIDE DEF f
    <3> QED BY <2>1, PairsFinite
  <2>3. \A e \in Files : f[e] = Wanted(e)
    OBVIOUS
  <2>4. {{e} \X (1 .. f[e]) : e \in Files} = {{e} \X (1 .. Wanted(e)) : e \in Files}
    BY <2>3
  <2> QED BY <2>2, <2>4 DEF AllWanted
<1>4. ReadBytes \subseteq AllWanted
  <2> SUFFICES ASSUME NEW e \in Files, NEW b \in {e} \X (1 .. copied[e])
               PROVE  b \in {e} \X (1 .. Wanted(e))
    BY DEF ReadBytes, AllWanted
  <2>1. copied[e] \in Nat /\ Wanted(e) \in Nat /\ copied[e] <= Wanted(e)
    BY <1>1, WantedNat DEF TypeOK, Measured
  <2> QED BY <2>1
<1> QED BY <1>2, <1>3, <1>4

\* Nothing has been read when the call starts.
LEMMA InitRInv == Init => RInv
<1> SUFFICES ASSUME Init PROVE RInv
  OBVIOUS
<1>1. Measured
  BY WantedNat DEF Init, Measured
<1>2. TypeOK
  BY InitIInv DEF IInv
<1>3. Cardinality(ReadBytes) \in Nat
  BY <1>1, <1>2, WantedFinite, FS_CardinalityType
<1>4. Covered
  BY <1>3 DEF Init, Covered
<1>5. Unrefused
  BY DEF Init, Unrefused, None
<1> QED BY <1>1, <1>4, <1>5 DEF RInv

\* A step that reads nothing adds nothing to the counter and refuses nothing.
LEMMA IdleRInv ==
    ASSUME IInv, RInv, cfg' = cfg, copied' = copied, total' \in Nat, total' <= total,
           AllFits => /\ \A w \in Workers : wpc'[w] # "refused" /\ err'[w] # "budget"
                      /\ \A e \in Entries : failure'[e] # "budget"
    PROVE  RInv'
<1>1. Measured'
  BY DEF RInv, Measured
<1>2. ReadBytes' = ReadBytes
  BY DEF ReadBytes
<1>3. Cardinality(ReadBytes) \in Nat
  BY WantedFinite, FS_CardinalityType DEF IInv, RInv
<1>4. Covered'
  BY <1>2, <1>3 DEF RInv, Covered, IInv, TypeOK
<1>5. AllFits' <=> AllFits
  BY DEF AllFits
<1>6. Unrefused'
  BY <1>5 DEF Unrefused
<1> QED BY <1>1, <1>4, <1>6 DEF RInv

\* A block is read while all files fit: with all that was read before it is
\* within what is wanted, so it is granted.
LEMMA ReserveRInv == ASSUME IInv, RInv, NEW w \in Workers, Reserve(w) PROVE RInv'
<1> DEFINE e == file[w]
<1>1. e \in Files /\ e \in Entries
  BY DEF IInv, AtWork, Reserve, Files
<1>2. /\ copied \in [Entries -> Nat] /\ total \in Nat /\ copied[e] \in Nat
      /\ wpc \in [Workers -> {"receive", "start", "copy", "granted", "refused",
                              "report", "exited"}]
  BY <1>1 DEF IInv, TypeOK
<1>3. Wanted(e) \in Nat /\ copied[e] <= Wanted(e)
  BY <1>1, WantedNat DEF RInv, Measured
<1>4. PICK n \in Nat :
         /\ n <= Wanted(e) - copied[e]
         /\ copied' = [copied EXCEPT ![e] = @ + n]
         /\ total' = IF cfg.maxTotalSize = 0 THEN total ELSE total + n
         /\ wpc' = [wpc EXCEPT ![w] = IF Within(total, n) THEN "granted" ELSE "refused"]
  <2>1. PICK n \in 1 .. AtMost(BufferSize, Wanted(e) - copied[e]) :
           /\ copied' = [copied EXCEPT ![e] = @ + n]
           /\ total' = IF cfg.maxTotalSize = 0 THEN total ELSE total + n
           /\ wpc' = [wpc EXCEPT ![w] = IF Within(total, n) THEN "granted" ELSE "refused"]
    BY DEF Reserve
  <2>2. Wanted(e) - copied[e] \in Int
    BY <1>2, <1>3
  <2>3. n \in Nat /\ n <= Wanted(e) - copied[e]
    BY <2>2, ExtractionAssumption DEF AtMost
  <2> QED BY <2>1, <2>3
<1>5. cfg' = cfg /\ err' = err /\ failure' = failure
  BY DEF Reserve, reportVars
<1>6. Measured'
  <2> SUFFICES ASSUME NEW d \in Entries PROVE copied'[d] <= Wanted(d)
    BY DEF Measured, Wanted
  <2>1. CASE d = e
    BY <1>1, <1>2, <1>3, <1>4, <2>1
  <2>2. CASE d # e
    BY <1>2, <1>4, <2>2 DEF RInv, Measured
  <2> QED BY <2>1, <2>2
<1>7. TypeOK'
  BY ReserveIInv DEF IInv
<1>8. /\ IsFiniteSet(ReadBytes') /\ IsFiniteSet(ReadBytes) /\ IsFiniteSet(AllWanted)
      /\ ReadBytes' \subseteq AllWanted
  <2>1. IsFiniteSet(ReadBytes) /\ IsFiniteSet(AllWanted)
    BY WantedFinite DEF IInv, RInv
  <2>2. \A d \in Files : copied'[d] \in Nat
    BY <1>7 DEF TypeOK, Files
  <2>3. IsFiniteSet(ReadBytes')
    BY <2>2, PairsFinite DEF ReadBytes
  <2>4. ReadBytes' \subseteq AllWanted
    <3> SUFFICES ASSUME NEW d \in Files, NEW b \in {d} \X (1 .. copied'[d])
                 PROVE  b \in {d} \X (1 .. Wanted(d))
      BY DEF ReadBytes, AllWanted
    <3>1. Wanted(d) \in Nat /\ copied'[d] <= Wanted(d) /\ copied'[d] \in Nat
      BY <1>6, <2>2, WantedNat DEF Measured, Files, Wanted
    <3> QED BY <3>1
  <2> QED BY <2>1, <2>3, <2>4
<1> DEFINE B == Block(e, n)
<1>9. /\ IsFiniteSet(B) /\ Cardinality(B) = n
      /\ \A b \in B : b[1] = e /\ b[2] > copied[e]
  BY <1>1, <1>2, BlockFacts
<1>10. B \cap ReadBytes = {}
  <2> SUFFICES ASSUME NEW b \in B, NEW d \in Files, b \in {d} \X (1 .. copied[d]) PROVE FALSE
    BY DEF ReadBytes
  <2>1. d = e /\ b[2] \in 1 .. copied[e]
    BY <1>9
  <2>2. b[2] > copied[e]
    BY <1>9
  <2> QED BY <1>2, <2>1, <2>2
<1>11. B \cup ReadBytes \subseteq ReadBytes'
  <2>1. ASSUME NEW d \in Files PROVE {d} \X (1 .. copied[d]) \subseteq {d} \X (1 .. copied'[d])
    <3>1. d \in Entries /\ copied[d] \in Nat /\ copied'[d] \in Nat /\ copied[d] <= copied'[d]
      BY <1>1, <1>2, <1>4 DEF Files
    <3> QED BY <3>1
  <2>2. B \subseteq {e} \X (1 .. copied'[e])
    <3>1. copied'[e] = copied[e] + n
      BY <1>1, <1>2, <1>4
    <3> QED BY <1>2, <3>1 DEF Block
  <2> QED BY <1>1, <2>1, <2>2 DEF ReadBytes
<1>12. /\ Cardinality(ReadBytes) + n <= Cardinality(ReadBytes')
       /\ Cardinality(ReadBytes') <= Cardinality(AllWanted)
       /\ Cardinality(ReadBytes) \in Nat /\ Cardinality(ReadBytes') \in Nat
       /\ Cardinality(AllWanted) \in Nat
  <2> HIDE DEF B
  <2>1. IsFiniteSet(B \cup ReadBytes)
    BY <1>8, <1>9, FS_Union
  <2>2. Cardinality(B \cup ReadBytes) = n + Cardinality(ReadBytes)
    <3>1. Cardinality(B \cup ReadBytes) = Cardinality(B) + Cardinality(ReadBytes) - Cardinality(B \cap ReadBytes)
      BY <1>8, <1>9, FS_Union
    <3>2. Cardinality(B \cap ReadBytes) = 0
      BY <1>10, FS_EmptySet
    <3>3. Cardinality(ReadBytes) \in Nat
      BY <1>8, FS_CardinalityType
    <3> QED BY <1>9, <3>1, <3>2, <3>3
  <2>3. Cardinality(B \cup ReadBytes) <= Cardinality(ReadBytes')
    BY <1>8, <1>11, FS_Subset
  <2>4. Cardinality(ReadBytes') <= Cardinality(AllWanted)
    BY <1>8, FS_Subset
  <2>5. /\ Cardinality(ReadBytes) \in Nat /\ Cardinality(ReadBytes') \in Nat
        /\ Cardinality(AllWanted) \in Nat
    BY <1>8, FS_CardinalityType
  <2> QED BY <2>2, <2>3, <2>4, <2>5
<1>13. Covered'
  BY <1>2, <1>4, <1>12 DEF RInv, Covered
<1>14. AllFits => Within(total, n)
  BY <1>2, <1>12, ConfigType DEF RInv, Covered, AllFits, Within, IInv, TypeOK
<1>15. Unrefused'
  <2>1. AllFits' <=> AllFits
    BY <1>5 DEF AllFits
  <2> QED BY <1>2, <1>4, <1>5, <1>14, <2>1 DEF RInv, Unrefused
<1> QED BY <1>6, <1>13, <1>15 DEF RInv

\* Every other step leaves the reasons of failure what they were, or adds another one.
LEMMA OtherRInv ==
    ASSUME IInv, RInv, IInv', [Next]_vars, ~ \E w \in Workers : Reserve(w)
    PROVE  RInv'
<1>1. total \in Nat /\ total' \in Nat
  BY DEF IInv, TypeOK
<1>2. /\ err \in [Workers -> Reasons] /\ failure \in [Entries -> Reasons]
      /\ wpc \in [Workers -> {"receive", "start", "copy", "granted", "refused",
                              "report", "exited"}]
  BY DEF IInv, TypeOK
<1>3. AllFits => /\ \A w \in Workers : wpc[w] # "refused" /\ err[w] # "budget"
                 /\ \A e \in Entries : failure[e] # "budget"
  BY DEF RInv, Unrefused
<1>4. CASE UNCHANGED vars
  BY <1>1, <1>3, <1>4, IdleRInv DEF vars, workerVars, copyVars, reportVars
<1>5. CASE SkipEntry \/ Check
  BY <1>1, <1>2, <1>3, <1>5, IdleRInv
     DEF SkipEntry, Check, Reject, MakeDirectory, MkdirAll, Fail, Tell, copyVars, workerVars, reportVars
<1>6. CASE ExtractEntry \/ LeaveLoop \/ EndCheck \/ Dispatch \/ CloseTasks \/ Return \/ Cancel
  BY <1>1, <1>2, <1>3, <1>6, IdleRInv
     DEF ExtractEntry, LeaveLoop, EndCheck, Dispatch, CloseTasks, Return, Cancel,
         copyVars, workerVars, reportVars
<1>7. CASE EntryDone
  BY <1>1, <1>2, <1>3, <1>7, IdleRInv, CallerIsWorker
     DEF EntryDone, Fail, Tell, copyVars, workerVars, reportVars
<1>8. ASSUME NEW w \in Workers, Receive(w) \/ Exit(w) \/ Report(w) PROVE RInv'
  BY <1>1, <1>2, <1>3, <1>8, IdleRInv
     DEF Receive, Exit, Report, Fail, Tell, copyVars, workerVars, reportVars
<1>9. ASSUME NEW w \in Workers, Begin(w) \/ EndCopy(w) PROVE RInv'
  BY <1>1, <1>2, <1>3, <1>9, IdleRInv
     DEF Begin, EndCopy, Stop, None, copyVars, workerVars, reportVars
<1>10. ASSUME NEW w \in Workers, Write(w) PROVE RInv'
  BY <1>1, <1>2, <1>3, <1>10, IdleRInv DEF Write, Stop, reportVars
<1>11. ASSUME NEW w \in Workers, GiveBack(w) PROVE RInv'
  <2>1. Cardinality(chunk[w]) \in Nat
    BY FS_CardinalityType DEF IInv, Finite
  <2>2. total' <= total
    BY <1>1, <1>11, <2>1 DEF GiveBack
  <2>3. ~ AllFits
    BY <1>3, <1>11 DEF GiveBack
  <2> QED BY <1>1, <1>11, <2>2, <2>3, IdleRInv DEF GiveBack
<1> QED BY <1>4, <1>5, <1>6, <1>7, <1>8, <1>9, <1>10, <1>11
        DEF Next, Driver, Worker, Copying

\* The counter never runs ahead of what has been read, for any number of workers.
THEOREM CounterIsCovered == Spec => []RInv
<1>1. IInv /\ RInv /\ IInv' /\ [Next]_vars => RInv'
  BY ReserveRInv, OtherRInv
<1> QED BY <1>1, InitRInv, Invariance, PTL DEF Spec

\* If the limit is not below what all files are to give, the budget refuses nothing,
\* whatever the workers' reservations, failures and order.
THEOREM NothingIsRefused == Spec => []NothingRefusedIfAllFits
<1>1. RInv => NothingRefusedIfAllFits
  BY DEF RInv, Unrefused, NothingRefusedIfAllFits
<1> QED BY <1>1, CounterIsCovered, PTL

----------------------------------------------------------------------------
(* What an extraction reports                                               *)


Active == {w \in Workers : wpc[w] \in {"start", "copy", "granted", "refused", "report"}}

Queued(e) == \E i \in 1 .. Len(tasks) : tasks[i] = e
Worked(e) == \E w \in Active : file[w] = e

----------------------------------------------------------------------------
(* Nothing is forgotten                                                    *)

(***************************************************************************)
(* As long as nothing failed and nobody cancelled, an entry that was not   *)
(* reported is still ahead of somebody: of the loop, of the queue or of a  *)
(* worker.  The first pass puts files off to the second.                   *)
(***************************************************************************)
Smooth == ~cancelled /\ \A e \in Entries : failure[e] = None

Ahead(e) ==
    \/ e \in todo
    \/ phase = "check" /\ e \in Files
    \/ Queued(e)
    \/ Worked(e)

Accounted ==
    Smooth => \A e \in Entries : told[e] = "ok" \/ (phase # "returned" /\ Ahead(e))

\* A loop ends, and a worker leaves, only when there is nothing left to take.
Drained ==
    ~cancelled =>
        /\ phase \in {"wait", "returned"} => todo = {}
        /\ \A w \in Workers :
              wpc[w] = "exited" => tasks = << >> /\ phase \in {"wait", "returned"}

\* In a sequential extraction only the caller's goroutine works, in its loop.
Alone ==
    ~cfg.parallel =>
        /\ tasks = << >> /\ phase # "check"
        /\ \A w \in Workers : wpc[w] # "receive" =>
              w = Caller /\ w \in Active /\ phase = "dispatch"

CInv == Accounted /\ Drained /\ Alone

\* The call starts with everything still to do.
LEMMA InitCInv == Init => CInv
BY ConfigType DEF Init, CInv, Accounted, Ahead, Drained, Alone

\* A failure stays in the report, so a smooth state comes from a smooth one.
LEMMA SmoothBefore ==
    ASSUME IInv, [Next]_vars, Smooth'
    PROVE  Smooth
<1>1. ~cancelled
  BY DEF Smooth, Next, vars, Driver, Worker, Copying, SkipEntry, ExtractEntry, EntryDone,
     LeaveLoop, Check, EndCheck, Dispatch, CloseTasks, Return, Receive, Exit, Report,
     Begin, EndCopy, Reserve, GiveBack, Write, Cancel
<1>2. failure \in [Entries -> Reasons]
  BY DEF IInv, TypeOK
<1>3. \/ failure' = failure
      \/ \E e \in Entries, why \in Reasons \ {None} : Fail(e, why)
  <2>1. CASE UNCHANGED vars \/ Cancel \/ ExtractEntry \/ LeaveLoop \/ EndCheck \/ Dispatch
             \/ CloseTasks \/ Return
    BY <2>1 DEF vars, Cancel, ExtractEntry, LeaveLoop, EndCheck, Dispatch, CloseTasks,
       Return, reportVars
  <2>2. CASE SkipEntry \/ Check
    <3>1. \E e \in Entries :
             \/ failure' = failure
             \/ \E why \in {"rejected", "tooBig", "io"} : Fail(e, why)
      BY <2>2 DEF SkipEntry, Check, Reject, MakeDirectory, reportVars, IInv, TypeOK
    <3> QED BY <3>1 DEF Reasons, None
  <2>3. CASE EntryDone
    BY <2>3, CallerIsWorker DEF EntryDone, reportVars, IInv, TypeOK, AtWork, Files
  <2>4. ASSUME NEW w \in Workers, Report(w)
        PROVE  failure' = failure \/ \E e \in Entries, why \in Reasons \ {None} : Fail(e, why)
    BY <2>4 DEF Report, IInv, TypeOK, AtWork, Files
  <2>5. ASSUME NEW w \in Workers, Receive(w) \/ Exit(w) \/ Copying(w)
        PROVE  failure' = failure
    BY <2>5 DEF Receive, Exit, Copying, Begin, EndCopy, Reserve, GiveBack, Write, reportVars
  <2> QED BY <2>1, <2>2, <2>3, <2>4, <2>5 DEF Next, Driver, Worker
<1> QED BY <1>1, <1>2, <1>3 DEF Smooth, Fail

\* A step that leaves what is reported and ahead alone keeps everything accounted for.
LEMMA AccountedStep ==
    ASSUME IInv, CInv, [Next]_vars, phase' # "returned",
           Smooth' => \A e \in Entries :
              /\ told[e] = "ok" => told'[e] = "ok"
              /\ Ahead(e) => Ahead(e)' \/ told'[e] = "ok"
    PROVE  Accounted'
BY SmoothBefore DEF CInv, Accounted

\* The sequential loop and the first pass report every directory and put off every file.
LEMMA LoopCInv ==
    ASSUME IInv, CInv, [Next]_vars, SkipEntry \/ Check
    PROVE  CInv'
<1>1. PICK e \in todo :
         /\ todo' = todo \ {e}
         /\ \/ \E why \in Reasons \ {None} : Fail(e, why)
            \/ Tell(e, "ok")
            \/ phase = "check" /\ e \in Files /\ UNCHANGED reportVars
  BY DEF SkipEntry, Check, Reject, MakeDirectory, Reasons, None
<1>2. /\ UNCHANGED <<cfg, phase, tasks, wpc, file, err, cancelled>>
      /\ phase \in {"check", "dispatch"} /\ Active' = Active
  BY DEF SkipEntry, Check, Idle, workerVars, Active
<1>3. /\ e \in Entries /\ failure \in [Entries -> Reasons]
      /\ told \in [Entries -> {"nothing", "ok", "failed"}]
  BY DEF IInv, TypeOK
<1>4. Smooth' => \A o \in Entries :
         /\ told[o] = "ok" => told'[o] = "ok"
         /\ Ahead(o) => Ahead(o)' \/ told'[o] = "ok"
  <2> SUFFICES ASSUME Smooth', NEW o \in Entries
               PROVE  /\ told[o] = "ok" => told'[o] = "ok"
                      /\ Ahead(o) => Ahead(o)' \/ told'[o] = "ok"
    OBVIOUS
  <2>1. Tell(e, "ok") \/ (phase = "check" /\ e \in Files /\ UNCHANGED reportVars)
    BY <1>1, <1>3 DEF Smooth, Fail
  <2>2. told[o] = "ok" => told'[o] = "ok"
    BY <1>3, <2>1 DEF Tell, reportVars
  <2>3. CASE o = e
    <3>1. CASE Tell(e, "ok")
      BY <1>3, <2>2, <2>3, <3>1 DEF Tell
    <3>2. CASE phase = "check" /\ e \in Files
      BY <1>2, <2>2, <2>3, <3>2 DEF Ahead
    <3> QED BY <2>1, <3>1, <3>2
  <2>4. CASE o # e
    <3>1. o \in todo => o \in todo'
      BY <1>1, <2>4
    <3>2. (Queued(o) => Queued(o)') /\ (Worked(o) => Worked(o)') /\ phase' = phase
      BY <1>2 DEF Queued, Worked
    <3> QED BY <2>2, <3>1, <3>2 DEF Ahead
  <2> QED BY <2>2, <2>3, <2>4
<1>5. Accounted'
  BY <1>2, <1>4, AccountedStep
<1> QED BY <1>1, <1>2, <1>5 DEF CInv, Drained, Alone

\* A file goes from the loop into the caller's hands, or into the queue.
LEMMA HandOverCInv ==
    ASSUME IInv, CInv, [Next]_vars, ExtractEntry \/ Dispatch
    PROVE  CInv'
<1>0. /\ phase = "dispatch" /\ ~(cancelled' /\ ~cancelled)
      /\ UNCHANGED <<cfg, phase, told, failure, cancelled>>
  BY DEF ExtractEntry, Dispatch, Idle, reportVars
<1>1. /\ wpc \in [Workers -> {"receive", "start", "copy", "granted", "refused", "report",
                              "exited"}]
      /\ file \in [Workers -> Files \cup {0}] /\ tasks \in Seq(Files)
  BY DEF IInv, TypeOK
<1>2. CASE ExtractEntry
  <2>1. PICK e \in todo :
           /\ todo' = todo \ {e}
           /\ wpc' = [wpc EXCEPT ![Caller] = "start"]
           /\ file' = [file EXCEPT ![Caller] = e]
    BY <1>2 DEF ExtractEntry
  <2>2. tasks' = tasks /\ wpc[Caller] = "receive" /\ ~cfg.parallel
    BY <1>2 DEF ExtractEntry, Idle
  <2>3. /\ Active' = Active \cup {Caller} /\ Caller \notin Active /\ file'[Caller] = e
        /\ \A w \in Active : file'[w] = file[w]
    BY <1>1, <2>1, <2>2, CallerIsWorker DEF Active
  <2>4. \A o : Ahead(o) => Ahead(o)'
    BY <1>0, <2>1, <2>2, <2>3 DEF Ahead, Queued, Worked
  <2>5. Accounted'
    BY <1>0, <2>4, AccountedStep
  <2>6. Drained'
    BY <1>0, <1>1, <2>1, <2>2 DEF CInv, Drained
  <2>7. Alone'
    BY <1>0, <1>1, <2>1, <2>2, <2>3 DEF CInv, Alone
  <2> QED BY <2>5, <2>6, <2>7 DEF CInv
<1>3. CASE Dispatch
  <2>1. PICK e \in todo : tasks' = Append(tasks, e) /\ todo' = todo \ {e}
    BY <1>3 DEF Dispatch
  <2>2. wpc' = wpc /\ file' = file /\ Active' = Active /\ cfg.parallel
    BY <1>3 DEF Dispatch, workerVars, Active
  <2>3. /\ Len(tasks') = Len(tasks) + 1 /\ Len(tasks) \in Nat
        /\ \A i \in 1 .. Len(tasks) : tasks'[i] = tasks[i]
        /\ tasks'[Len(tasks) + 1] = e
    BY <1>1, <2>1
  <2>4. \A o : Queued(o) => Queued(o)'
    BY <2>3 DEF Queued
  <2>5. Queued(e)'
    BY <2>3 DEF Queued
  <2>6. \A o : Ahead(o) => Ahead(o)'
    BY <1>0, <2>1, <2>2, <2>4, <2>5 DEF Ahead, Worked
  <2>7. Accounted'
    BY <1>0, <2>6, AccountedStep
  <2> QED BY <1>0, <2>2, <2>7 DEF CInv, Drained, Alone
<1> QED BY <1>2, <1>3

\* A file leaves a worker's hands with a report: it is told to be done, or its
\* failure is in the error.
LEMMA ReportCInv ==
    ASSUME IInv, CInv, [Next]_vars, NEW w \in Workers, Report(w) \/ (w = Caller /\ EntryDone)
    PROVE  CInv'
<1>0. /\ wpc[w] = "report" /\ wpc' = [wpc EXCEPT ![w] = "receive"]
      /\ UNCHANGED <<cfg, todo, tasks, file, cancelled>>
      /\ phase' = phase \/ (phase' = "wait" /\ cancelled)
      /\ ~cancelled => \/ err[w] = None /\ Tell(file[w], "ok") /\ failure' = failure
                       \/ err[w] # None /\ Fail(file[w], err[w])
  BY DEF Report, EntryDone
<1>1. /\ wpc \in [Workers -> {"receive", "start", "copy", "granted", "refused", "report",
                              "exited"}]
      /\ failure \in [Entries -> Reasons] /\ file[w] \in Entries
      /\ told \in [Entries -> {"nothing", "ok", "failed"}]
  BY <1>0 DEF IInv, TypeOK, AtWork, Files
<1>2. Active' = Active \ {w} /\ w \in Active
  BY <1>0, <1>1 DEF Active
<1>3. Accounted'
  <2> SUFFICES ASSUME Smooth', NEW e \in Entries
               PROVE  told'[e] = "ok" \/ (phase' # "returned" /\ Ahead(e)')
    BY DEF Accounted
  <2>1. ~cancelled /\ Tell(file[w], "ok") /\ phase' = phase
    BY <1>0, <1>1 DEF Smooth, Fail
  <2>2. told[e] = "ok" \/ (phase # "returned" /\ Ahead(e))
    BY SmoothBefore DEF CInv, Accounted
  <2>3. CASE e = file[w] \/ told[e] = "ok"
    BY <1>1, <2>1, <2>3 DEF Tell
  <2>4. CASE e # file[w] /\ phase # "returned" /\ Ahead(e)
    BY <1>0, <1>2, <2>1, <2>4 DEF Ahead, Queued, Worked
  <2> QED BY <2>2, <2>3, <2>4
<1>4. Drained'
  BY <1>0, <1>1 DEF CInv, Drained
<1>5. Alone'
  BY <1>0, <1>1, <1>2 DEF CInv, Alone
<1> QED BY <1>3, <1>4, <1>5 DEF CInv

\* A worker takes a file from the queue; after a cancellation it may drop it.
LEMMA ReceiveCInv ==
    ASSUME IInv, CInv, [Next]_vars, NEW w \in Workers, Receive(w)
    PROVE  CInv'
<1>0. /\ cfg.parallel /\ wpc[w] = "receive" /\ tasks # << >> /\ tasks' = Tail(tasks)
      /\ UNCHANGED <<cfg, phase, todo, told, failure, cancelled>>
  BY DEF Receive, reportVars
<1>1. /\ wpc \in [Workers -> {"receive", "start", "copy", "granted", "refused", "report",
                              "exited"}]
      /\ file \in [Workers -> Files \cup {0}] /\ tasks \in Seq(Files)
  BY DEF IInv, TypeOK
<1>2. \A e : Queued(e) => e = Head(tasks) \/ Queued(e)'
  <2>1. /\ Len(tasks') = Len(tasks) - 1 /\ Len(tasks) \in Nat /\ Head(tasks) = tasks[1]
        /\ \A i \in 1 .. Len(tasks') : tasks'[i] = tasks[i + 1]
    BY <1>0, <1>1
  <2>2. \A i \in 1 .. Len(tasks) : i = 1 \/ (i - 1 \in 1 .. Len(tasks') /\ tasks'[i - 1] = tasks[i])
    BY <2>1
  <2> QED BY <2>1, <2>2 DEF Queued
<1>3. ~cancelled =>
         /\ Active' = Active \cup {w} /\ w \notin Active /\ file'[w] = Head(tasks)
         /\ \A v \in Active : file'[v] = file[v]
         /\ \A v \in Workers : wpc'[v] = "exited" => wpc[v] = "exited"
  BY <1>0, <1>1 DEF Receive, Active
<1>4. Accounted'
  <2> SUFFICES ASSUME Smooth', NEW e \in Entries
               PROVE  told'[e] = "ok" \/ (phase' # "returned" /\ Ahead(e)')
    BY DEF Accounted
  <2>1. ~cancelled
    BY <1>0 DEF Smooth
  <2>2. Ahead(e) => Ahead(e)'
    BY <1>0, <1>2, <1>3, <2>1 DEF Ahead, Worked
  <2> QED BY <1>0, <2>2, SmoothBefore DEF CInv, Accounted
<1>5. Drained' /\ Alone'
  BY <1>0, <1>3 DEF CInv, Drained, Alone
<1> QED BY <1>4, <1>5 DEF CInv

\* extractFile keeps its file in hand until the report.
LEMMA CopyingCInv ==
    ASSUME IInv, CInv, [Next]_vars, NEW w \in Workers, Copying(w)
    PROVE  CInv'
<1>0. /\ wpc[w] \in {"start", "copy", "granted", "refused"}
      /\ UNCHANGED <<cfg, phase, todo, tasks, file, told, failure, cancelled>>
      /\ \E to \in {"copy", "granted", "refused", "report"} : wpc' = [wpc EXCEPT ![w] = to]
  BY DEF Copying, Begin, EndCopy, Reserve, GiveBack, Write, Stop, reportVars
<1>1. wpc \in [Workers -> {"receive", "start", "copy", "granted", "refused", "report", "exited"}]
  BY DEF IInv, TypeOK
<1>2. /\ Active' = Active
      /\ \A v \in Workers : /\ wpc'[v] = "exited" => wpc[v] = "exited"
                            /\ wpc'[v] # "receive" => wpc[v] # "receive"
  BY <1>0, <1>1 DEF Active
<1>3. \A e : Ahead(e) => Ahead(e)'
  BY <1>0, <1>2 DEF Ahead, Queued, Worked
<1>4. Accounted'
  BY <1>0, <1>3, SmoothBefore DEF CInv, Accounted
<1> QED BY <1>0, <1>2, <1>4 DEF CInv, Drained, Alone

\* The loops end, and workers leave, when there is nothing left; the call returns
\* when nobody has anything in hand.
LEMMA EndingCInv ==
    ASSUME IInv, CInv, [Next]_vars,
           \/ LeaveLoop \/ EndCheck \/ CloseTasks \/ Return \/ Cancel \/ UNCHANGED vars
           \/ \E w \in Workers : Exit(w)
    PROVE  CInv'
<1>1. CASE UNCHANGED vars \/ Cancel
  <2>1. /\ UNCHANGED <<cfg, phase, todo, tasks, wpc, file, told, failure>>
        /\ Active' = Active /\ (cancelled => cancelled')
    BY <1>1 DEF vars, Cancel, workerVars, reportVars, Active
  <2>2. \A e : Ahead(e) => Ahead(e)'
    BY <2>1 DEF Ahead, Queued, Worked
  <2> QED BY <2>1, <2>2, SmoothBefore DEF CInv, Accounted, Drained, Alone
<1>2. CASE LeaveLoop \/ CloseTasks
  <2>1. /\ phase = "dispatch" /\ phase' = "wait" /\ (todo = {} \/ cancelled)
        /\ ~cfg.parallel => wpc[Caller] = "receive"
        /\ UNCHANGED <<cfg, todo, tasks, wpc, file, told, failure, cancelled>>
        /\ Active' = Active
    BY <1>2 DEF LeaveLoop, CloseTasks, Idle, workerVars, reportVars, Active
  <2>2. \A e : Ahead(e) => Ahead(e)'
    BY <2>1 DEF Ahead, Queued, Worked
  <2> QED BY <2>1, <2>2, SmoothBefore DEF CInv, Accounted, Drained, Alone
<1>3. CASE EndCheck
  <2>1. /\ phase = "check" /\ todo = {} /\ cfg.parallel
        /\ IF \E e \in Entries : failure[e] # None
           THEN phase' = "returned" /\ UNCHANGED todo
           ELSE phase' = "dispatch" /\ todo' = Files
        /\ UNCHANGED <<cfg, tasks, wpc, file, told, failure, cancelled>>
        /\ Active' = Active
    BY <1>3, ConfigType DEF EndCheck, workerVars, reportVars, Active, CInv, Alone, IInv, TypeOK
  <2>2. \A e : Ahead(e) => e \in Files \/ Queued(e) \/ Worked(e)
    BY <2>1 DEF Ahead
  <2>3. Accounted'
    <3> SUFFICES ASSUME Smooth', NEW e \in Entries
                 PROVE  told'[e] = "ok" \/ (phase' # "returned" /\ Ahead(e)')
      BY DEF Accounted
    <3>1. Smooth
      BY SmoothBefore
    <3>2. phase' = "dispatch" /\ todo' = Files
      BY <2>1, <3>1 DEF Smooth
    <3>3. Ahead(e) => Ahead(e)'
      BY <2>1, <2>2, <3>2 DEF Ahead, Queued, Worked
    <3> QED BY <2>1, <3>1, <3>2, <3>3 DEF CInv, Accounted
  <2>4. Drained'
    BY <2>1 DEF CInv, Drained
  <2> QED BY <2>1, <2>3, <2>4 DEF CInv, Alone
<1>4. CASE Return
  <2>1. /\ phase = "wait" /\ phase' = "returned"
        /\ cfg.parallel => \A w \in Workers : wpc[w] = "exited"
        /\ UNCHANGED <<cfg, todo, tasks, wpc, file, told, failure, cancelled>>
        /\ Active' = Active
    BY <1>4 DEF Return, workerVars, reportVars, Active
  <2>2. Smooth => \A e \in Entries : ~Ahead(e)
    <3> SUFFICES ASSUME Smooth PROVE \A e \in Entries : ~Ahead(e)
      OBVIOUS
    <3>1. todo = {}
      BY <2>1 DEF Smooth, CInv, Drained
    <3>2. Active = {} /\ tasks = << >>
      BY <2>1, CallerIsWorker, ConfigType DEF Smooth, CInv, Drained, Alone, Active, IInv, TypeOK
    <3> QED BY <2>1, <3>1, <3>2 DEF Ahead, Queued, Worked
  <2>3. Accounted'
    BY <2>1, <2>2, SmoothBefore DEF CInv, Accounted
  <2> QED BY <2>1, <2>3 DEF CInv, Drained, Alone
<1>5. ASSUME NEW w \in Workers, Exit(w) PROVE CInv'
  <2>1. /\ cfg.parallel /\ wpc[w] = "receive" /\ tasks = << >> /\ phase = "wait"
        /\ wpc' = [wpc EXCEPT ![w] = "exited"]
        /\ UNCHANGED <<cfg, phase, todo, tasks, file, told, failure, cancelled>>
    BY <1>5 DEF Exit, reportVars
  <2>2. Active' = Active
    BY <2>1 DEF Active, IInv, TypeOK
  <2>3. \A e : Ahead(e) => Ahead(e)'
    BY <2>1, <2>2 DEF Ahead, Queued, Worked
  <2>4. Drained' /\ Alone'
    BY <2>1 DEF CInv, Drained, Alone, IInv, TypeOK
  <2> QED BY <2>1, <2>3, <2>4, SmoothBefore DEF CInv, Accounted
<1> QED BY <1>1, <1>2, <1>3, <1>4, <1>5

\* Every entry is accounted for in every reachable state.
THEOREM NothingForgotten == Spec => []CInv
<1>1. IInv /\ CInv /\ [Next]_vars => CInv'
  <2> SUFFICES ASSUME IInv, CInv, [Next]_vars PROVE CInv'
    OBVIOUS
  <2>1. ASSUME NEW w \in Workers, Worker(w) PROVE CInv'
    BY <2>1, ReceiveCInv, ReportCInv, CopyingCInv, EndingCInv DEF Worker
  <2>2. CASE Driver
    BY <2>2, LoopCInv, HandOverCInv, ReportCInv, EndingCInv, CallerIsWorker DEF Driver
  <2>3. CASE Cancel \/ UNCHANGED vars
    BY <2>3, EndingCInv
  <2> QED BY <2>1, <2>2, <2>3 DEF Next
<1> QED BY InitCInv, Invariance, <1>1, PTL DEF Spec

\* A return without an error means that every entry was extracted and reported,
\* whatever the number of workers, the length of the queue and the way it ended.
THEOREM NilIsAll == Spec => []NilMeansAll
<1>1. CInv => NilMeansAll
  BY DEF CInv, Accounted, Smooth, NilMeansAll
<1> QED BY NothingForgotten, <1>1, PTL

----------------------------------------------------------------------------
(* What is reported is whole                                               *)

(***************************************************************************)
(* A file is in one place at a time, and before a worker has it there is   *)
(* nothing of it on the disk.  While it is copied the bytes on the disk    *)
(* and in the worker's hands are those read so far, without a gap.         *)
(***************************************************************************)
OnDisk(e) == {b \in disk : b[1] = e}
UpTo(e, n) == {e} \X (1 .. n)

Untouched(e) == copied[e] = 0 /\ OnDisk(e) = {} /\ told[e] # "ok"

Waiting ==
    /\ \A e \in todo \cap Files : Untouched(e) /\ ~Queued(e) /\ ~Worked(e)
    /\ \A e \in Files : Queued(e) => Untouched(e) /\ ~Worked(e)
    /\ \A i, j \in 1 .. Len(tasks) : tasks[i] = tasks[j] => i = j
    /\ phase = "check" =>
          /\ tasks = << >> /\ Active = {}
          /\ \A e \in Files : Untouched(e)

OneEach == \A v, w \in Active : file[v] = file[w] => v = w

\* how far worker w has come with its file
Gapless(w) ==
    /\ told[file[w]] # "ok"
    /\ \A b \in chunk[w] : b[1] = file[w]
    /\ wpc[w] = "start" => Untouched(file[w])
    /\ wpc[w] \in {"copy", "granted"} =>
          OnDisk(file[w]) \cup chunk[w] = UpTo(file[w], copied[file[w]])
    /\ wpc[w] = "report" /\ err[w] = None =>
          OnDisk(file[w]) = UpTo(file[w], Wanted(file[w]))

Whole ==
    /\ \A e \in Files : told[e] = "ok" => OnDisk(e) = UpTo(e, Wanted(e))
    /\ \A d \in Directories : told[d] = "ok" => Folder[d] \in made

WInv ==
    /\ Waiting
    /\ OneEach
    /\ \A w \in Active : Gapless(w)
    /\ Whole

\* Nothing is on the disk and nobody works when the call starts.
LEMMA InitWInv == Init => WInv
<1> SUFFICES ASSUME Init PROVE WInv
  OBVIOUS
<1>1. Active = {} /\ tasks = << >> /\ \A e : ~Queued(e) /\ ~Worked(e)
  BY DEF Init, Active, Queued, Worked
<1>2. \A e \in Entries : Untouched(e) /\ told[e] # "ok"
  BY DEF Init, Untouched, OnDisk
<1>3. Waiting
  BY <1>1, <1>2 DEF Init, Waiting, Files
<1>4. OneEach /\ Whole /\ \A w \in Active : Gapless(w)
  BY <1>1, <1>2, ExtractionAssumption DEF OneEach, Whole, Files
<1> QED BY <1>3, <1>4 DEF WInv

\* The entries in the workers' hands are files; those on the queue too.
LEMMA PlacesAreFiles ==
    ASSUME IInv
    PROVE  /\ \A w \in Active : w \in Workers /\ file[w] \in Files
           /\ \A i \in 1 .. Len(tasks) : tasks[i] \in Files
           /\ \A e \in Files : e \in Entries /\ e \notin Directories
BY DEF IInv, AtWork, TypeOK, Active, Files

\* A step that leaves the data and what is reported alone, and moves no file, keeps
\* everything whole.
LEMMA StillWInv ==
    ASSUME IInv, WInv,
           UNCHANGED <<cfg, tasks, wpc, file, err, chunk, copied, disk, made, told>>,
           phase' = "check" => phase = "check",
           \/ todo' \subseteq todo
           \/ phase = "check" /\ phase' # "check" /\ todo' = Files
    PROVE  WInv'
<1>1. /\ Active' = Active
      /\ \A e : (Untouched(e)' <=> Untouched(e)) /\ OnDisk(e)' = OnDisk(e)
      /\ \A e : (Queued(e)' <=> Queued(e)) /\ (Worked(e)' <=> Worked(e))
  BY DEF Active, Untouched, OnDisk, Queued, Worked
<1>2. \A e \in todo' \cap Files : Untouched(e) /\ ~Queued(e) /\ ~Worked(e)
  <2>1. CASE todo' \subseteq todo
    BY <2>1 DEF WInv, Waiting
  <2>2. CASE phase = "check"
    BY <2>2 DEF WInv, Waiting, Queued, Worked
  <2> QED BY <2>1, <2>2
<1>3. Waiting'
  BY <1>1, <1>2 DEF WInv, Waiting
<1>4. \A e : Wanted(e)' = Wanted(e)
  BY DEF Wanted
<1>5. OneEach' /\ Whole' /\ \A w \in Active' : Gapless(w)'
  BY <1>1, <1>4 DEF WInv, OneEach, Whole, Gapless
<1> QED BY <1>3, <1>5 DEF WInv

\* The steps of the loops that report an entry, or put it off.
LEMMA LoopWInv == ASSUME IInv, WInv, SkipEntry \/ Check PROVE WInv'
<1>1. PICK e \in todo :
         /\ todo' = todo \ {e}
         /\ \/ Tell(e, "failed") /\ UNCHANGED made
            \/ UNCHANGED <<made, told>>
            \/ e \in Directories /\ Tell(e, "failed")
            \/ e \in Directories /\ Tell(e, "ok") /\ MkdirAll(e)
  BY DEF SkipEntry, Check, Reject, MakeDirectory, reportVars
<1>2. UNCHANGED <<cfg, phase, tasks, wpc, file, err, chunk, copied, disk>>
  BY DEF SkipEntry, Check, workerVars, copyVars
<1>3. /\ told \in [Entries -> {"nothing", "ok", "failed"}] /\ e \in Entries
      /\ made \subseteq made'
  BY <1>1 DEF IInv, TypeOK, SkipEntry, Check, Reject, MakeDirectory, MkdirAll
<1>4. /\ Active' = Active
      /\ \A o : OnDisk(o)' = OnDisk(o)
      /\ \A o : (Queued(o)' <=> Queued(o)) /\ (Worked(o)' <=> Worked(o))
  BY <1>2 DEF Active, OnDisk, Queued, Worked
<1>5. \A o \in Files : told'[o] = "ok" => told[o] = "ok"
  BY <1>1, <1>3, PlacesAreFiles DEF Tell
<1>6. \A o \in Files : Untouched(o) => Untouched(o)'
  BY <1>2, <1>4, <1>5 DEF Untouched
<1>7. Waiting'
  BY <1>1, <1>2, <1>4, <1>6, PlacesAreFiles DEF WInv, Waiting
<1>8. OneEach'
  BY <1>2, <1>4 DEF WInv, OneEach
<1>9. \A w \in Active' : Gapless(w)'
  BY <1>2, <1>4, <1>5, <1>6, PlacesAreFiles DEF WInv, Gapless, UpTo, Wanted
<1>10. Whole'
  <2>1. \A o \in Files : told'[o] = "ok" => OnDisk(o)' = UpTo(o, Wanted(o))'
    BY <1>4, <1>5 DEF WInv, Whole, UpTo, Wanted
  <2>2. \A d \in Directories : told'[d] = "ok" => Folder[d] \in made'
    <3> SUFFICES ASSUME NEW d \in Directories, told'[d] = "ok" PROVE Folder[d] \in made'
      OBVIOUS
    <3>1. CASE d = e /\ MkdirAll(e)
      BY <3>1 DEF MkdirAll
    <3>2. CASE ~(d = e /\ MkdirAll(e))
      <4>1. d \in Entries
        BY ExtractionAssumption
      <4>2. told[d] = "ok"
        BY <1>1, <1>3, <3>2, <4>1 DEF Tell
      <4> QED BY <1>3, <4>2 DEF WInv, Whole
    <3> QED BY <3>1, <3>2
  <2> QED BY <2>1, <2>2 DEF Whole
<1> QED BY <1>7, <1>8, <1>9, <1>10 DEF WInv

\* A file comes into a worker's hands untouched, and leaves the place it came from.
LEMMA TakeUpWInv ==
    ASSUME IInv, WInv, NEW w \in Workers, NEW e \in Files,
           wpc[w] = "receive", phase # "check",
           Untouched(e), ~Worked(e), e \notin todo', ~Queued(e)',
           todo' \subseteq todo,
           \/ tasks' = tasks
           \/ tasks # << >> /\ tasks' = Tail(tasks),
           wpc' = [wpc EXCEPT ![w] = "start"],
           file' = [file EXCEPT ![w] = e],
           made \subseteq made',
           UNCHANGED <<cfg, phase, err, chunk, copied, disk, told>>
    PROVE  WInv'
<1>1. /\ wpc \in [Workers -> {"receive", "start", "copy", "granted", "refused", "report",
                              "exited"}]
      /\ file \in [Workers -> Files \cup {0}] /\ tasks \in Seq(Files)
  BY DEF IInv, TypeOK
<1>2. /\ Active' = Active \cup {w} /\ w \notin Active /\ file'[w] = e /\ wpc'[w] = "start"
      /\ \A v \in Active : file'[v] = file[v] /\ wpc'[v] = wpc[v] /\ v # w
  BY <1>1 DEF Active
<1>3. /\ \A o : (Untouched(o)' <=> Untouched(o)) /\ OnDisk(o)' = OnDisk(o)
      /\ \A o : Wanted(o)' = Wanted(o)
  BY DEF Untouched, OnDisk, Wanted
<1>4. \A o : Worked(o)' => o = e \/ Worked(o)
  BY <1>2 DEF Worked
<1>5. /\ \A o : Queued(o)' => Queued(o)
      /\ \A i, j \in 1 .. Len(tasks') : tasks'[i] = tasks'[j] => i = j
  <2>1. CASE tasks' = tasks
    BY <2>1 DEF WInv, Waiting, Queued
  <2>2. CASE tasks # << >> /\ tasks' = Tail(tasks)
    <3>1. /\ Len(tasks') = Len(tasks) - 1 /\ Len(tasks) \in Nat
          /\ \A i \in 1 .. Len(tasks') : i + 1 \in 1 .. Len(tasks) /\ tasks'[i] = tasks[i + 1]
      BY <1>1, <2>2
    <3>2. \A i, j \in 1 .. Len(tasks') : tasks'[i] = tasks'[j] => i = j
      <4> SUFFICES ASSUME NEW i \in 1 .. Len(tasks'), NEW j \in 1 .. Len(tasks'),
                          tasks'[i] = tasks'[j]
                   PROVE  i = j
        OBVIOUS
      <4>1. i + 1 = j + 1
        BY <3>1 DEF WInv, Waiting
      <4> QED BY <4>1
    <3> QED BY <3>1, <3>2 DEF Queued
  <2> QED BY <2>1, <2>2
<1>6. Waiting'
  <2>1. \A o \in todo' \cap Files : Untouched(o)' /\ ~Queued(o)' /\ ~Worked(o)'
    BY <1>3, <1>4, <1>5 DEF WInv, Waiting
  <2>2. \A o \in Files : Queued(o)' => Untouched(o)' /\ ~Worked(o)'
    BY <1>3, <1>4, <1>5 DEF WInv, Waiting
  <2> QED BY <1>5, <2>1, <2>2 DEF Waiting
<1>7. OneEach'
  BY <1>2 DEF WInv, OneEach, Worked
<1>8. \A v \in Active' : Gapless(v)'
  <2>1. Gapless(w)'
    <3>1. chunk[w] = {}
      BY DEF IInv, InHand
    <3> QED BY <1>2, <1>3, <3>1 DEF Gapless, Untouched
  <2>2. ASSUME NEW v \in Active PROVE Gapless(v)'
    BY <1>2, <1>3 DEF WInv, Gapless
  <2> QED BY <1>2, <2>1, <2>2
<1>9. Whole'
  BY <1>3 DEF WInv, Whole
<1> QED BY <1>6, <1>7, <1>8, <1>9 DEF WInv

\* The caller's goroutine takes a file from its loop.
LEMMA ExtractEntryWInv == ASSUME IInv, WInv, ExtractEntry PROVE WInv'
<1>1. PICK e \in todo :
         /\ e \in Files /\ todo' = todo \ {e} /\ MkdirAll(e)
         /\ wpc' = [wpc EXCEPT ![Caller] = "start"]
         /\ file' = [file EXCEPT ![Caller] = e]
  BY DEF ExtractEntry
<1>2. /\ UNCHANGED <<cfg, phase, tasks, err, chunk, copied, disk, told>>
      /\ wpc[Caller] = "receive" /\ phase # "check"
  BY DEF ExtractEntry, Idle, copyVars, reportVars
<1>3. Untouched(e) /\ ~Worked(e) /\ ~Queued(e)'
  BY <1>1, <1>2 DEF WInv, Waiting, Queued
<1> QED BY <1>1, <1>2, <1>3, CallerIsWorker, TakeUpWInv DEF MkdirAll

\* A worker takes a file from the queue, or drops it and leaves.
LEMMA ReceiveWInv == ASSUME IInv, WInv, NEW w \in Workers, Receive(w) PROVE WInv'
<1>0. /\ wpc[w] = "receive" /\ tasks # << >> /\ tasks' = Tail(tasks)
      /\ UNCHANGED <<cfg, phase, todo, err, chunk, copied, disk, made, told>>
  BY DEF Receive, copyVars, reportVars
<1>1. /\ tasks \in Seq(Files) /\ Len(tasks') = Len(tasks) - 1 /\ Len(tasks) \in Nat
      /\ 1 \in 1 .. Len(tasks) /\ Head(tasks) = tasks[1]
      /\ \A i \in 1 .. Len(tasks') : i + 1 \in 1 .. Len(tasks) /\ tasks'[i] = tasks[i + 1]
  BY <1>0 DEF IInv, TypeOK
<1>2. PICK h \in Files : h = Head(tasks) /\ Queued(h)
  BY <1>1 DEF Queued
<1>3. phase # "check" /\ Untouched(h) /\ ~Worked(h) /\ h \notin todo' /\ ~Queued(h)'
  <2>1. \A i \in 1 .. Len(tasks') : i + 1 # 1
    BY <1>1
  <2>2. \A i \in 1 .. Len(tasks') : tasks'[i] # h
    BY <1>1, <1>2, <2>1 DEF WInv, Waiting
  <2> QED BY <1>0, <1>2, <2>2 DEF WInv, Waiting, Queued
<1>4. CASE ~cancelled
  <2>1. wpc' = [wpc EXCEPT ![w] = "start"] /\ file' = [file EXCEPT ![w] = h]
    BY <1>2, <1>4 DEF Receive
  <2> QED BY <1>0, <1>3, <2>1, TakeUpWInv
<1>5. CASE cancelled
  <2>1. /\ wpc' = [wpc EXCEPT ![w] = "exited"] /\ file' = file
    BY <1>5 DEF Receive
  <2>2. /\ Active' = Active /\ \A v \in Active : wpc'[v] = wpc[v]
    BY <1>0, <2>1 DEF Active, IInv, TypeOK
  <2>3. /\ \A o : (Untouched(o)' <=> Untouched(o)) /\ OnDisk(o)' = OnDisk(o)
        /\ \A o : (Worked(o)' <=> Worked(o)) /\ Wanted(o)' = Wanted(o)
    BY <1>0, <2>1, <2>2 DEF Untouched, OnDisk, Worked, Wanted
  <2>4. \A o : Queued(o)' => Queued(o)
    BY <1>1 DEF Queued
  <2>5. \A i, j \in 1 .. Len(tasks') : tasks'[i] = tasks'[j] => i = j
    <3> SUFFICES ASSUME NEW i \in 1 .. Len(tasks'), NEW j \in 1 .. Len(tasks'),
                        tasks'[i] = tasks'[j]
                 PROVE  i = j
      OBVIOUS
    <3>1. i + 1 = j + 1
      BY <1>1 DEF WInv, Waiting
    <3> QED BY <3>1
  <2>6. Waiting'
    BY <1>0, <1>3, <2>3, <2>4, <2>5 DEF WInv, Waiting
  <2>7. OneEach' /\ Whole' /\ \A v \in Active' : Gapless(v)'
    BY <1>0, <2>1, <2>2, <2>3 DEF WInv, OneEach, Whole, Gapless
  <2> QED BY <2>6, <2>7 DEF WInv
<1> QED BY <1>4, <1>5

\* A file goes from the loop to the end of the queue.
LEMMA DispatchWInv == ASSUME IInv, WInv, Dispatch PROVE WInv'
<1>1. PICK e \in todo : tasks' = Append(tasks, e) /\ todo' = todo \ {e}
  BY DEF Dispatch
<1>2. /\ phase = "dispatch" /\ cfg.parallel
      /\ UNCHANGED <<cfg, phase, wpc, file, err, chunk, copied, disk, made, told>>
  BY DEF Dispatch, workerVars, copyVars, reportVars
<1>3. e \in Files
  BY <1>2 DEF IInv, AtWork
<1>4. /\ Len(tasks') = Len(tasks) + 1 /\ Len(tasks) \in Nat
      /\ \A i \in 1 .. Len(tasks) : tasks'[i] = tasks[i]
      /\ tasks'[Len(tasks) + 1] = e
      /\ \A i \in 1 .. Len(tasks') : i \in 1 .. Len(tasks) \/ i = Len(tasks) + 1
  BY <1>1, <1>3 DEF IInv, TypeOK
<1>5. /\ Active' = Active
      /\ \A o : (Untouched(o)' <=> Untouched(o)) /\ OnDisk(o)' = OnDisk(o)
      /\ \A o : (Worked(o)' <=> Worked(o)) /\ Wanted(o)' = Wanted(o)
  BY <1>2 DEF Active, Untouched, OnDisk, Worked, Wanted
<1>6. \A o : Queued(o)' => Queued(o) \/ o = e
  BY <1>4 DEF Queued
<1>7. Untouched(e) /\ ~Worked(e) /\ ~Queued(e)
  BY <1>1, <1>3 DEF WInv, Waiting
<1>8. Waiting'
  <2>1. \A o \in todo' \cap Files : Untouched(o)' /\ ~Queued(o)' /\ ~Worked(o)'
    BY <1>1, <1>5, <1>6 DEF WInv, Waiting
  <2>2. \A o \in Files : Queued(o)' => Untouched(o)' /\ ~Worked(o)'
    BY <1>5, <1>6, <1>7 DEF WInv, Waiting
  <2>3. \A i, j \in 1 .. Len(tasks') : tasks'[i] = tasks'[j] => i = j
    BY <1>4, <1>7 DEF WInv, Waiting, Queued
  <2> QED BY <1>2, <2>1, <2>2, <2>3 DEF Waiting
<1>9. OneEach' /\ Whole' /\ \A v \in Active' : Gapless(v)'
  BY <1>2, <1>5 DEF WInv, OneEach, Whole, Gapless
<1> QED BY <1>8, <1>9 DEF WInv

\* One worker's step leaves what the others have in hand alone: they have other files.
LEMMA OthersGapless ==
    ASSUME IInv, WInv, NEW w \in Workers, w \in Active,
           NEW v \in Active, v # w,
           UNCHANGED <<cfg, file>>,
           wpc'[v] = wpc[v], err'[v] = err[v], chunk'[v] = chunk[v],
           \A e \in Files : e # file[w] =>
              copied'[e] = copied[e] /\ told'[e] = told[e] /\ OnDisk(e)' = OnDisk(e)
    PROVE  Gapless(v)'
<1>1. PICK f \in Files : f = file[v] /\ f # file[w] /\ f = file'[v]
  BY PlacesAreFiles DEF WInv, OneEach
<1>2. Gapless(v)
  BY DEF WInv
<1>3. Untouched(f) => Untouched(f)'
  BY <1>1 DEF Untouched
<1>4. Wanted(f)' = Wanted(f)
  BY DEF Wanted
<1> QED BY <1>1, <1>2, <1>3, <1>4 DEF Gapless, Untouched, Wanted, UpTo

\* What waits is not in a worker's hands, and a worker's step does not touch it.
LEMMA OthersWait ==
    ASSUME IInv, WInv, NEW w \in Workers, w \in Active,
           Active' \subseteq Active,
           UNCHANGED <<todo, tasks, file>>, phase' = "check" => phase = "check",
           \A e \in Files : e # file[w] =>
              copied'[e] = copied[e] /\ told'[e] = told[e] /\ OnDisk(e)' = OnDisk(e)
    PROVE  Waiting' /\ OneEach'
<1>1. phase # "check" /\ phase' # "check"
  BY DEF WInv, Waiting
<1>2. \A e \in Files : Untouched(e) /\ ~Worked(e) => Untouched(e)' /\ ~Worked(e)'
  BY DEF Untouched, Worked
<1>3. \A e : Queued(e)' <=> Queued(e)
  BY DEF Queued
<1>4. Waiting'
  BY <1>1, <1>2, <1>3 DEF WInv, Waiting
<1>5. OneEach'
  BY DEF WInv, OneEach
<1> QED BY <1>4, <1>5

\* A report says "ok" only of a file without an error, and then it is whole.
LEMMA ReportWInv ==
    ASSUME IInv, WInv, NEW w \in Workers, Report(w) \/ (w = Caller /\ EntryDone)
    PROVE  WInv'
<1>0. /\ wpc[w] = "report" /\ wpc' = [wpc EXCEPT ![w] = "receive"]
      /\ UNCHANGED <<cfg, todo, tasks, file, err, chunk, copied, disk, made>>
      /\ phase' = phase \/ phase' = "wait"
      /\ \/ err[w] = None /\ Tell(file[w], "ok")
         \/ Tell(file[w], "failed")
         \/ told' = told
  BY DEF Report, EntryDone, copyVars, reportVars
<1>1. /\ wpc \in [Workers -> {"receive", "start", "copy", "granted", "refused", "report",
                              "exited"}]
      /\ told \in [Entries -> {"nothing", "ok", "failed"}]
  BY DEF IInv, TypeOK
<1>2. w \in Active /\ Active' = Active \ {w}
  BY <1>0, <1>1 DEF Active
<1>3. PICK f \in Files : f = file[w] /\ f \in Entries /\ f \notin Directories
  BY <1>2, PlacesAreFiles
<1>4. \A e : OnDisk(e)' = OnDisk(e) /\ Wanted(e)' = Wanted(e)
  BY <1>0 DEF OnDisk, Wanted
<1>5. \A e \in Entries : e # f => told'[e] = told[e]
  BY <1>0, <1>1, <1>3 DEF Tell
<1>6. Waiting' /\ OneEach'
  <2>1. \A e \in Files : e # file[w] =>
              copied'[e] = copied[e] /\ told'[e] = told[e] /\ OnDisk(e)' = OnDisk(e)
    BY <1>0, <1>3, <1>4, <1>5, PlacesAreFiles
  <2> QED BY <1>0, <1>2, <2>1, OthersWait
<1>7. \A v \in Active' : Gapless(v)'
  <2> SUFFICES ASSUME NEW v \in Active' PROVE Gapless(v)'
    OBVIOUS
  <2>1. v \in Active /\ v # w /\ wpc'[v] = wpc[v]
    BY <1>0, <1>1, <1>2 DEF Active
  <2> QED BY <1>0, <1>2, <1>3, <1>4, <1>5, <2>1, PlacesAreFiles, OthersGapless
<1>8. Whole'
  <2>1. ASSUME NEW e \in Files, told'[e] = "ok" PROVE OnDisk(e)' = UpTo(e, Wanted(e))'
    <3>1. e \in Entries
      BY PlacesAreFiles
    <3>2. CASE e # f
      BY <1>4, <1>5, <2>1, <3>1, <3>2 DEF WInv, Whole, UpTo
    <3>3. CASE e = f
      <4>1. told[f] # "ok" /\ Gapless(w)
        BY <1>2, <1>3 DEF WInv, Gapless
      <4>2. err[w] = None
        BY <1>0, <1>1, <1>3, <2>1, <3>3, <4>1 DEF Tell
      <4>3. OnDisk(f) = UpTo(f, Wanted(f))
        BY <1>0, <1>3, <4>1, <4>2 DEF Gapless
      <4> QED BY <1>4, <3>3, <4>3 DEF UpTo
    <3> QED BY <3>2, <3>3
  <2>2. ASSUME NEW d \in Directories, told'[d] = "ok" PROVE Folder[d] \in made'
    <3>1. d \in Entries /\ d # f
      BY <1>3, ExtractionAssumption
    <3> QED BY <1>0, <1>5, <2>2, <3>1 DEF WInv, Whole
  <2> QED BY <2>1, <2>2 DEF Whole
<1> QED BY <1>6, <1>7, <1>8 DEF WInv

\* extractFile changes only its own file, so what was reported stays true.
LEMMA CopyingKeepsOthers ==
    ASSUME IInv, WInv, NEW w \in Workers, Copying(w)
    PROVE  /\ w \in Active /\ Active' = Active /\ w \in Active'
           /\ file[w] \in Files /\ told[file[w]] # "ok"
           /\ UNCHANGED <<cfg, phase, todo, tasks, file, made, told>>
           /\ \A e \in Files : e # file[w] =>
                 copied'[e] = copied[e] /\ told'[e] = told[e] /\ OnDisk(e)' = OnDisk(e)
           /\ \A v \in Active : v # w =>
                 wpc'[v] = wpc[v] /\ err'[v] = err[v] /\ chunk'[v] = chunk[v]
<1>0. /\ wpc[w] \in {"start", "copy", "granted", "refused"}
      /\ UNCHANGED <<cfg, phase, todo, tasks, file, made, told>>
      /\ \E to \in {"copy", "granted", "refused", "report"} : wpc' = [wpc EXCEPT ![w] = to]
      /\ err' = err \/ \E why : err' = [err EXCEPT ![w] = why]
  BY DEF Copying, Begin, EndCopy, Reserve, GiveBack, Write, Stop, copyVars, reportVars
<1>1. /\ wpc \in [Workers -> {"receive", "start", "copy", "granted", "refused", "report",
                              "exited"}]
      /\ err \in [Workers -> Reasons] /\ chunk \in [Workers -> SUBSET Bytes]
      /\ copied \in [Entries -> Nat]
  BY DEF IInv, TypeOK
<1>2. w \in Active /\ Active' = Active
  BY <1>0, <1>1 DEF Active
<1>3. file[w] \in Files /\ Gapless(w)
  BY <1>2, PlacesAreFiles DEF WInv
<1>4. \A e \in Files : e # file[w] => copied'[e] = copied[e]
  <2>1. copied' = copied \/ \E n : copied' = [copied EXCEPT ![file[w]] = n]
    BY DEF Copying, Begin, EndCopy, Reserve, GiveBack, Write, copyVars
  <2> QED BY <1>1, <2>1, PlacesAreFiles
<1>5. \A e \in Files : e # file[w] => OnDisk(e)' = OnDisk(e)
  <2>1. disk' = disk \/ \E part \in SUBSET chunk[w] : disk' = disk \cup part
    BY DEF Copying, Begin, EndCopy, Reserve, GiveBack, Write, copyVars
  <2>2. \A b \in chunk[w] : b[1] = file[w]
    BY <1>3 DEF Gapless
  <2> QED BY <2>1, <2>2 DEF OnDisk
<1>6. \A v \in Active : v # w => chunk'[v] = chunk[v]
  <2>1. chunk' = chunk \/ \E c : chunk' = [chunk EXCEPT ![w] = c]
    BY DEF Copying, Begin, EndCopy, Reserve, GiveBack, Write, copyVars
  <2> QED BY <1>1, <2>1 DEF Active
<1>7. \A v \in Active : v # w => wpc'[v] = wpc[v] /\ err'[v] = err[v]
  BY <1>0, <1>1 DEF Active
<1> QED BY <1>0, <1>2, <1>3, <1>4, <1>5, <1>6, <1>7 DEF Gapless

\* extractFile goes from one gapless state to the next: what it has read is on the disk
\* or in its hands until an error, and all of it is on the disk when it ends well.
LEMMA CopyingGapless == ASSUME IInv, WInv, NEW w \in Workers, Copying(w) PROVE Gapless(w)'
<1>0. /\ w \in Active /\ file' = file /\ told' = told /\ cfg' = cfg /\ Gapless(w)
      /\ told[file[w]] # "ok"
  BY CopyingKeepsOthers DEF WInv
<1>1. PICK f \in Files : f = file[w] /\ f = file'[w] /\ f \in Entries
  BY <1>0, PlacesAreFiles
<1>2. /\ wpc \in [Workers -> {"receive", "start", "copy", "granted", "refused", "report",
                              "exited"}]
      /\ err \in [Workers -> Reasons] /\ chunk \in [Workers -> SUBSET Bytes]
      /\ copied \in [Entries -> Nat]
  BY DEF IInv, TypeOK
<1>3. Wanted(f)' = Wanted(f) /\ Wanted(f) \in Nat
  BY <1>1, WantedNat DEF Wanted
<1>4. wpc[w] \notin {"granted", "refused"} => chunk[w] = {}
  BY DEF IInv, InHand
<1>5. CASE Begin(w)
  <2>1. /\ wpc[w] = "start" /\ UNCHANGED <<chunk, copied, disk>>
        /\ \/ wpc'[w] = "report" /\ err'[w] # None
           \/ wpc'[w] = "report" /\ Size[f] <= 0
           \/ wpc'[w] = "copy"
    BY <1>1, <1>2, <1>5 DEF Begin, Stop, None, copyVars
  <2>2. copied[f] = 0 /\ OnDisk(f) = {} /\ chunk[w] = {} /\ OnDisk(f)' = {}
    BY <1>0, <1>1, <1>4, <2>1 DEF Gapless, Untouched, OnDisk
  <2>3. Size[f] <= 0 => Wanted(f) = 0
    BY <1>1, ExtractionAssumption DEF Wanted, Unknown
  <2>4. UpTo(f, 0) = {}
    BY DEF UpTo
  <2> QED BY <1>0, <1>1, <1>3, <2>1, <2>2, <2>3, <2>4 DEF Gapless, UpTo
<1>6. CASE EndCopy(w)
  <2>1. /\ wpc[w] = "copy" /\ wpc'[w] = "report" /\ UNCHANGED <<chunk, copied, disk>>
        /\ err'[w] # None \/ copied[f] = Wanted(f)
    BY <1>1, <1>2, <1>6 DEF EndCopy, Stop, None, copyVars
  <2>2. OnDisk(f) = UpTo(f, copied[f]) /\ chunk[w] = {} /\ OnDisk(f)' = OnDisk(f)
    BY <1>0, <1>1, <1>4, <2>1 DEF Gapless, OnDisk
  <2> QED BY <1>0, <1>1, <1>3, <2>1, <2>2 DEF Gapless, UpTo
<1>7. CASE Reserve(w)
  <2>1. PICK n \in Nat : /\ chunk' = [chunk EXCEPT ![w] = Block(f, n)]
                         /\ copied' = [copied EXCEPT ![f] = @ + n]
    <3>1. PICK n \in 1 .. AtMost(BufferSize, Wanted(f) - copied[f]) :
             /\ chunk' = [chunk EXCEPT ![w] = Block(f, n)]
             /\ copied' = [copied EXCEPT ![f] = @ + n]
      BY <1>1, <1>7 DEF Reserve
    <3>2. AtMost(BufferSize, Wanted(f) - copied[f]) \in Int
      BY <1>1, <1>2, <1>3, ExtractionAssumption DEF AtMost
    <3>3. n \in Nat
      BY <3>2
    <3> QED BY <3>1, <3>3
  <2>2. /\ wpc[w] = "copy" /\ wpc'[w] \in {"granted", "refused"} /\ disk' = disk
    BY <1>2, <1>7 DEF Reserve
  <2>3. copied[f] \in Nat /\ copied'[f] = copied[f] + n /\ chunk'[w] = Block(f, n)
    BY <1>1, <1>2, <2>1
  <2>4. OnDisk(f) = UpTo(f, copied[f]) /\ OnDisk(f)' = OnDisk(f)
    BY <1>0, <1>1, <1>4, <2>2 DEF Gapless, OnDisk
  <2>5. (1 .. copied[f]) \cup (copied[f] + 1 .. copied[f] + n) = 1 .. copied[f] + n
    BY <2>3
  <2>6. UpTo(f, copied[f]) \cup Block(f, n) = UpTo(f, copied[f] + n)
    BY <2>5 DEF UpTo, Block
  <2>7. \A b \in Block(f, n) : b[1] = f
    BY DEF Block
  <2> QED BY <1>0, <1>1, <2>2, <2>3, <2>4, <2>6, <2>7 DEF Gapless, UpTo
<1>8. CASE GiveBack(w)
  <2>1. wpc'[w] = "report" /\ err'[w] # None /\ chunk'[w] = {}
    BY <1>2, <1>8 DEF GiveBack, Stop, None
  <2> QED BY <1>0, <1>1, <2>1 DEF Gapless
<1>9. CASE Write(w)
  <2>1. wpc[w] = "granted" /\ chunk'[w] = {} /\ copied' = copied
    BY <1>2, <1>9 DEF Write
  <2>2. CASE wpc'[w] = "report" /\ err'[w] # None
    BY <1>0, <1>1, <2>1, <2>2 DEF Gapless
  <2>3. CASE wpc'[w] = "copy" /\ disk' = disk \cup chunk[w]
    <3>1. /\ OnDisk(f) \cup chunk[w] = UpTo(f, copied[f])
          /\ \A b \in chunk[w] : b[1] = f
      BY <1>0, <1>1, <2>1 DEF Gapless
    <3>2. OnDisk(f)' = OnDisk(f) \cup chunk[w]
      BY <2>3, <3>1 DEF OnDisk
    <3> QED BY <1>0, <1>1, <2>1, <2>3, <3>1, <3>2 DEF Gapless, UpTo
  <2> QED BY <1>2, <1>9, <2>2, <2>3 DEF Write, Stop, None
<1> QED BY <1>5, <1>6, <1>7, <1>8, <1>9 DEF Copying

\* extractFile keeps everything whole.
LEMMA CopyingWInv == ASSUME IInv, WInv, NEW w \in Workers, Copying(w) PROVE WInv'
<1>1. Waiting' /\ OneEach'
  BY CopyingKeepsOthers, OthersWait
<1>2. \A v \in Active' : Gapless(v)'
  BY CopyingKeepsOthers, CopyingGapless, OthersGapless
<1>3. \A e : Wanted(e)' = Wanted(e)
  BY CopyingKeepsOthers DEF Wanted
<1>4. Whole'
  <2>1. told' = told /\ made' = made /\ told[file[w]] # "ok"
    BY CopyingKeepsOthers
  <2>2. \A e \in Files : told[e] = "ok" => OnDisk(e)' = OnDisk(e)
    BY <2>1, CopyingKeepsOthers
  <2> QED BY <1>3, <2>1, <2>2 DEF WInv, Whole, UpTo
<1> QED BY <1>1, <1>2, <1>4 DEF WInv

\* The end of a loop, a return, a cancellation and a worker that leaves move no file.
LEMMA EndingWInv ==
    ASSUME IInv, WInv,
           \/ LeaveLoop \/ EndCheck \/ CloseTasks \/ Return \/ Cancel \/ UNCHANGED vars
           \/ \E w \in Workers : Exit(w)
    PROVE  WInv'
<1>1. CASE LeaveLoop \/ EndCheck \/ CloseTasks \/ Return \/ Cancel \/ UNCHANGED vars
  <2>1. /\ UNCHANGED <<cfg, tasks, wpc, file, err, chunk, copied, disk, made, told>>
        /\ phase' = "check" => phase = "check"
        /\ todo' = todo \/ (phase = "check" /\ phase' # "check" /\ todo' = Files)
    BY <1>1 DEF LeaveLoop, EndCheck, CloseTasks, Return, Cancel, vars, workerVars, copyVars,
       reportVars
  <2> QED BY <2>1, StillWInv
<1>2. ASSUME NEW w \in Workers, Exit(w) PROVE WInv'
  <2>1. /\ wpc[w] = "receive" /\ wpc' = [wpc EXCEPT ![w] = "exited"]
        /\ UNCHANGED <<cfg, phase, todo, tasks, file, err, chunk, copied, disk, made, told>>
    BY <1>2 DEF Exit, copyVars, reportVars
  <2>2. Active' = Active /\ \A v \in Active : wpc'[v] = wpc[v]
    BY <2>1 DEF Active, IInv, TypeOK
  <2>3. /\ \A o : (Untouched(o)' <=> Untouched(o)) /\ OnDisk(o)' = OnDisk(o)
        /\ \A o : (Queued(o)' <=> Queued(o)) /\ (Worked(o)' <=> Worked(o))
        /\ \A o : Wanted(o)' = Wanted(o)
    BY <2>1, <2>2 DEF Untouched, OnDisk, Queued, Worked, Wanted
  <2>4. Waiting'
    BY <2>1, <2>2, <2>3 DEF WInv, Waiting
  <2>5. OneEach' /\ Whole' /\ \A v \in Active' : Gapless(v)'
    BY <2>1, <2>2, <2>3 DEF WInv, OneEach, Whole, Gapless
  <2> QED BY <2>4, <2>5 DEF WInv
<1> QED BY <1>1, <1>2

\* In every reachable state the files are apart and what is read is on its way or on
\* the disk.
THEOREM NothingTorn == Spec => []WInv
<1>1. IInv /\ WInv /\ [Next]_vars => WInv'
  <2> SUFFICES ASSUME IInv, WInv, [Next]_vars PROVE WInv'
    OBVIOUS
  <2>1. ASSUME NEW w \in Workers, Worker(w) PROVE WInv'
    BY <2>1, ReceiveWInv, ReportWInv, CopyingWInv, EndingWInv DEF Worker
  <2>2. CASE Driver
    BY <2>2, LoopWInv, ExtractEntryWInv, DispatchWInv, ReportWInv, EndingWInv,
       CallerIsWorker DEF Driver
  <2>3. CASE Cancel \/ UNCHANGED vars
    BY <2>3, EndingWInv
  <2> QED BY <2>1, <2>2, <2>3 DEF Next
<1> QED BY InitWInv, Invariance, <1>1, PTL DEF Spec

\* An entry reported as extracted is whole on the disk and stays so: every byte its
\* header promises and its source has, once, and none of another file's.
THEOREM OkIsWhole == Spec => []ToldOkIsWhole
<1>1. WInv => ToldOkIsWhole
  BY DEF WInv, Whole, ToldOkIsWhole, OnDisk, UpTo, Files
<1> QED BY NothingTorn, <1>1, PTL
=============================================================================
