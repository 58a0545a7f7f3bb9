------------------------ MODULE ParallelWriterProofs ------------------------
(***************************************************************************)
(* Proofs about ParallelWriter, for any number of files and workers and    *)
(* both strategies: the types, the exclusive use of snapshots, that the    *)
(* goroutines together implement BulkWrite, and how many buffers are held. *)
(***************************************************************************)
EXTENDS ParallelWriter, FiniteSetTheorems, TLAPS

(***************************************************************************)
(* The inductive invariant.  A result that is on its way owns its          *)
(* snapshot; owning is what makes the collector write the right file.      *)
(***************************************************************************)
InArchive(f) == \E i \in 1 .. Len(written) : written[i] = f

Owns(r) ==
    /\ r \in Result
    /\ r.snap \notin pool /\ snapFile[r.snap] = r.index
    /\ r.index <= taken /\ r.snap <= taken
    /\ ~InArchive(r.index)

Owned ==
    /\ \A w \in Busy : Owns(job[w])
    /\ \A i \in 1 .. Len(results) : Owns(results[i])
    /\ \A r \in pending : Owns(r)
    /\ cpc = "handle" => Owns(res)

\* No two results are about one file, wherever they are.
Apart ==
    /\ \A w, v \in Busy : job[w].index = job[v].index => w = v
    /\ \A i, j \in 1 .. Len(results) : results[i].index = results[j].index => i = j
    /\ \A q, r \in pending : q.index = r.index => q = r
    /\ \A w \in Busy, i \in 1 .. Len(results) : job[w].index # results[i].index
    /\ \A w \in Busy, r \in pending : job[w].index # r.index
    /\ \A i \in 1 .. Len(results), r \in pending : results[i].index # r.index
    /\ cpc = "handle" =>
          /\ \A w \in Busy : res.index # job[w].index
          /\ \A i \in 1 .. Len(results) : res.index # results[i].index
          /\ \A r \in pending : res.index # r.index

\* What has been touched is no more than what has been received.
Known ==
    /\ pool \subseteq 1 .. taken
    /\ \A i \in 1 .. Len(written) : written[i] <= taken
    /\ cpc = "report" => res \in Result /\ snapFile[res.snap] \in Files

\* An error ends the collecting.
Failing ==
    /\ errs # << >> => cancelled
    /\ cancelled => errs # << >> \/ callerGaveUp
    /\ cpc \in {"handle", "report"} => errs = << >>

\* The turn of a file comes when those before it are written.
Turns ==
    /\ InOrder => nextIndex = Len(written) + 1
    /\ InOrder => \A i \in 1 .. Len(written) : written[i] = i
    /\ ~InOrder => pending = {}
    /\ InOrder /\ cpc = "handle" => res.index = nextIndex
    /\ InOrder /\ cpc \in {"receive", "report"} => \A r \in pending : r.index # nextIndex

\* As long as nothing fails no file is dropped, and a worker leaves only when
\* there is nothing left to do.
Somewhere(f) ==
    \/ InArchive(f)
    \/ \E w \in Busy : job[w].index = f
    \/ \E i \in 1 .. Len(results) : results[i].index = f
    \/ \E r \in pending : r.index = f
    \/ cpc = "handle" /\ res.index = f

Complete ==
    /\ ~cancelled /\ cpc # "report" => \A f \in 1 .. taken : Somewhere(f)
    /\ tasksClosed => sent = N \/ cancelled
    /\ \A w \in Workers : wpc[w] = "exited" => cancelled \/ (tasksClosed /\ taken = N)
    /\ resultsClosed => \A w \in Workers : wpc[w] = "exited"

IInv == TypeOK /\ Owned /\ Apart /\ Known /\ Failing /\ Turns /\ Complete

\* The channel of results has a capacity: there are finitely many workers.
LEMMA CapacityNat == Capacity \in Nat
BY WriterAssumption, FS_CardinalityType DEF Capacity

\* WriteFiles starts in the invariant.
LEMMA InitIInv == Init => IInv
<1> SUFFICES ASSUME Init PROVE IInv
  OBVIOUS
<1>1. Busy = {}
  BY DEF Init, Busy
<1>2. TypeOK
  <2>1. 0 <= Capacity /\ N \in Nat
    BY WriterAssumption, CapacityNat
  <2>2. results \in Seq(Result) /\ Len(results) = 0
    BY DEF Init
  <2>3. errs \in Seq([names : Files, about : Files]) /\ written \in Seq(Files)
    BY DEF Init
  <2>4. job \in [Workers -> Result \cup {NoResult}] /\ res = NoResult
    BY DEF Init
  <2>5. sent \in 0 .. N /\ taken \in 0 .. sent /\ nextIndex \in Nat
    <3>1. sent = 0 /\ taken = 0 /\ nextIndex = 1
      BY DEF Init
    <3> QED
      BY <2>1, <3>1
  <2>7. /\ tasksClosed \in BOOLEAN /\ resultsClosed \in BOOLEAN
        /\ cancelled \in BOOLEAN /\ callerGaveUp \in BOOLEAN
    BY DEF Init
  <2>6. /\ snapFile \in [Snaps -> Files \cup {NoFile}]
        /\ buf \in [Files -> {"none", "held", "freed", "lost"}]
        /\ wpc \in [Workers -> {"receive", "compress", "encode", "send", "exited"}]
        /\ cpc \in {"receive", "handle", "report", "returned"}
        /\ pending \subseteq Result /\ pool \subseteq Snaps
    BY DEF Init
  <2> QED
    BY <2>1, <2>2, <2>3, <2>4, <2>5, <2>6, <2>7 DEF TypeOK
<1>3. Owned /\ Apart /\ Known /\ Failing
  BY <1>1 DEF Init, Owned, Apart, Known, Failing
<1>4. Turns /\ Complete
  BY WriterAssumption DEF Init, Turns, Complete
<1> QED
  BY <1>2, <1>3, <1>4 DEF IInv

(***************************************************************************)
(* Two results on their way hold different snapshots, because the snapshot *)
(* of each holds its file.                                                 *)
(***************************************************************************)
LEMMA DistinctSnaps ==
    ASSUME NEW q, NEW r, Owns(q), Owns(r), q.index # r.index
    PROVE  q.snap # r.snap
BY DEF Owns

\* What is written are files, which are numbers.
LEMMA WrittenNat == ASSUME TypeOK PROVE \A i \in 1 .. Len(written) : written[i] \in Nat
<1>1. written \in Seq(Files)
  BY DEF TypeOK
<1>2. \A i \in 1 .. Len(written) : written[i] \in Files
  BY <1>1
<1> QED BY <1>2 DEF Files

(***************************************************************************)
(* Steps of a worker.                                                      *)
(***************************************************************************)
\* A worker that receives a file keeps the invariant: the snapshot it gets is
\* in nobody else's hands.
LEMMA TakeIInv == ASSUME IInv, NEW w \in Workers, Take(w) PROVE IInv'
<1> DEFINE f == taken + 1
<1>0. /\ wpc[w] = "receive" /\ w \notin Busy /\ taken < sent /\ ~cancelled
      /\ taken' = f /\ f \in Files /\ N \in Nat /\ taken \in Nat
      /\ Busy' = Busy \cup {w}
      /\ UNCHANGED <<sent, tasksClosed, results, resultsClosed, cpc, res, pending,
                     nextIndex, errs, written, cancelled, callerGaveUp, buf>>
  BY WriterAssumption
     DEF Take, IInv, TypeOK, Busy, Files, dispatchVars, collectorVars
<1>1. PICK s \in pool \cup {f} :
        /\ pool' = pool \ {s}
        /\ snapFile' = [snapFile EXCEPT ![s] = f]
        /\ job' = [job EXCEPT ![w] = [index |-> f, snap |-> s, err |-> FALSE]]
  BY DEF Take
<1>2. s \in Snaps /\ s <= f
  BY <1>0 DEF IInv, TypeOK, Known, Snaps, Files
<1>3. snapFile'[s] = f /\ \A x \in Snaps : x # s => snapFile'[x] = snapFile[x]
  BY <1>1, <1>2 DEF IInv, TypeOK
<1>4. /\ job'[w] = [index |-> f, snap |-> s, err |-> FALSE]
      /\ \A v \in Workers : v # w => job'[v] = job[v]
  BY <1>1 DEF IInv, TypeOK
<1>5. \A r : Owns(r) => r.index # f /\ Owns(r)'
  <2> SUFFICES ASSUME NEW r, Owns(r) PROVE r.index # f /\ Owns(r)'
    OBVIOUS
  <2>1. /\ r.snap \in Snaps /\ r.snap # s /\ r.index # f
        /\ r.snap \in Nat /\ r.index \in Nat
    BY <1>0, <1>1 DEF Owns, Result, Snaps, Files
  <2> QED
    BY <1>0, <1>1, <1>3, <2>1 DEF Owns, InArchive
<1>6. Owns(job[w])'
  BY <1>0, <1>1, <1>2, <1>3, <1>4 DEF Owns, InArchive, Result, IInv, Known, TypeOK, Files
<1>7. TypeOK'
  <2>1. wpc' \in [Workers -> {"receive", "compress", "encode", "send", "exited"}]
    BY DEF Take, IInv, TypeOK
  <2>2. job' \in [Workers -> Result \cup {NoResult}]
    BY <1>0, <1>1, <1>2 DEF IInv, TypeOK, Result
  <2>3. snapFile' \in [Snaps -> Files \cup {NoFile}] /\ pool' \subseteq Snaps
    BY <1>0, <1>1, <1>2 DEF IInv, TypeOK
  <2>4. taken' \in 0 .. sent'
    BY <1>0 DEF IInv, TypeOK
  <2> QED
    BY <1>0, <2>1, <2>2, <2>3, <2>4 DEF IInv, TypeOK
<1>8. Owned'
  <2>1. \A v \in Busy' : Owns(job[v])'
    BY <1>0, <1>4, <1>5, <1>6 DEF IInv, Owned, Busy
  <2> QED
    BY <1>0, <1>5, <2>1 DEF IInv, Owned
<1>9. Apart'
  <2>1. \A v \in Busy : job'[v] = job[v] /\ job[v].index # f /\ v # w
    BY <1>0, <1>4, <1>5 DEF IInv, Owned, Busy
  <2>2. \A i \in 1 .. Len(results) : results[i].index # f
    BY <1>5 DEF IInv, Owned
  <2>3. \A r \in pending : r.index # f
    BY <1>5 DEF IInv, Owned
  <2>4. cpc = "handle" => res.index # f
    BY <1>5 DEF IInv, Owned
  <2>5. job'[w].index = f
    BY <1>4
  <2> QED
    BY <1>0, <2>1, <2>2, <2>3, <2>4, <2>5 DEF IInv, Apart
<1>10. Known'
  <2>1. pool' \subseteq 1 .. taken'
    BY <1>0, <1>1 DEF IInv, Known
  <2>2. cpc = "report" => res \in Result /\ snapFile'[res.snap] \in Files
    BY <1>0, <1>3 DEF IInv, Known, Result
  <2>3. \A i \in 1 .. Len(written') : written'[i] <= taken'
    <3>1. \A i \in 1 .. Len(written) : written[i] \in Nat
      BY WrittenNat DEF IInv
    <3>2. \A i \in 1 .. Len(written) : written[i] <= taken
      BY DEF IInv, Known
    <3> QED BY <1>0, <3>1, <3>2
  <2> QED
    BY <1>0, <2>1, <2>2, <2>3 DEF Known
<1>11. Failing' /\ Turns'
  BY <1>0 DEF IInv, Failing, Turns
<1>12. Complete'
  <2>1. cpc # "report" => \A g \in 1 .. taken' : Somewhere(g)'
    <3> SUFFICES ASSUME cpc # "report", NEW g \in 1 .. taken' PROVE Somewhere(g)'
      OBVIOUS
    <3>1. CASE g = f
      BY <1>0, <1>4, <3>1 DEF Somewhere
    <3>2. CASE g # f
      <4>1. Somewhere(g)
        BY <1>0, <3>2 DEF IInv, Complete
      <4>2. \A v \in Busy : job'[v] = job[v]
        BY <1>0, <1>4 DEF Busy
      <4> QED
        BY <1>0, <4>1, <4>2 DEF Somewhere, InArchive
    <3> QED
      BY <3>1, <3>2
  <2>2. \A v \in Workers : wpc'[v] = "exited" => wpc[v] = "exited"
    BY DEF Take, IInv, TypeOK
  <2>3. \A v \in Workers : wpc[v] # "exited"
    BY <1>0 DEF IInv, Complete, TypeOK
  <2> QED
    BY <1>0, <2>1, <2>2, <2>3 DEF IInv, Complete
<1> QED
  BY <1>7, <1>8, <1>9, <1>10, <1>11, <1>12 DEF IInv

\* A worker that ends keeps the invariant: it ends with every file taken or
\* after a cancellation.
LEMMA ExitIInv == ASSUME IInv, NEW w \in Workers, Exit(w) PROVE IInv'
<1>0. /\ wpc[w] = "receive" /\ w \notin Busy
      /\ taken' = taken \/ (cancelled /\ taken < sent /\ taken' = taken + 1)
      /\ cancelled \/ (tasksClosed /\ taken = sent /\ taken' = taken)
      /\ N \in Nat /\ taken \in Nat /\ taken <= taken'
      /\ UNCHANGED <<sent, tasksClosed, job, results, resultsClosed, cpc, res, pending,
                     nextIndex, errs, written, cancelled, callerGaveUp, pool, snapFile, buf>>
  BY WriterAssumption
     DEF Exit, IInv, TypeOK, Busy, dispatchVars, collectorVars
<1>1. Busy' = Busy
  BY DEF Exit, Busy, IInv, TypeOK
<1>2. TypeOK'
  <2>1. wpc' \in [Workers -> {"receive", "compress", "encode", "send", "exited"}]
    BY DEF Exit, IInv, TypeOK
  <2> QED
    BY <1>0, <2>1 DEF IInv, TypeOK
<1>3. \A r : Owns(r) => Owns(r)'
  BY <1>0 DEF Owns, InArchive, IInv, TypeOK, Result, Files, Snaps
<1>4. Owned'
  BY <1>0, <1>1, <1>3 DEF IInv, Owned
<1>5. Apart'
  BY <1>0, <1>1 DEF IInv, Apart
<1>6. Known' /\ Failing' /\ Turns'
  <2>1. \A i \in 1 .. Len(written) : written[i] \in Nat
    BY WrittenNat DEF IInv
  <2>2. \A i \in 1 .. Len(written) : written[i] <= taken'
    <3>1. \A i \in 1 .. Len(written) : written[i] <= taken
      BY DEF IInv, Known
    <3> QED BY <1>0, <2>1, <3>1
  <2>3. 1 .. taken \subseteq 1 .. taken'
    BY <1>0
  <2>4. Known'
    BY <1>0, <2>2, <2>3 DEF IInv, Known
  <2>5. Failing' /\ Turns'
    BY <1>0 DEF IInv, Failing, Turns
  <2> QED BY <2>4, <2>5
<1>7. Complete'
  <2>1. \A f : Somewhere(f) => Somewhere(f)'
    BY <1>0, <1>1 DEF Somewhere, InArchive
  <2>2. \A v \in Workers : v # w => wpc'[v] = wpc[v]
    BY DEF Exit, IInv, TypeOK
  <2> QED
    BY <1>0, <2>1, <2>2 DEF IInv, Complete, TypeOK
<1> QED
  BY <1>2, <1>4, <1>5, <1>6, <1>7 DEF IInv

\* compressFile up to its buffer keeps the invariant.
LEMMA OpenIInv == ASSUME IInv, NEW w \in Workers, Open(w) PROVE IInv'
<1>0. /\ w \in Busy /\ Busy' = Busy
      /\ wpc' \in [Workers -> {"receive", "compress", "encode", "send", "exited"}]
      /\ \A v \in Workers : wpc'[v] = "exited" <=> wpc[v] = "exited"
      /\ buf' \in [Files -> {"none", "held", "freed", "lost"}]
      /\ job' = job \/ job' = [job EXCEPT ![w].err = TRUE]
      /\ UNCHANGED <<taken, sent, tasksClosed, results, resultsClosed, cpc, res, pending,
                     nextIndex, errs, written, cancelled, callerGaveUp, pool, snapFile>>
  BY DEF Open, IInv, TypeOK, Busy, dispatchVars, collectorVars
<1>1. job[w] \in Result
  BY <1>0 DEF IInv, Owned, Owns
<1>2. /\ job' \in [Workers -> Result \cup {NoResult}]
      /\ \A v \in Workers : job'[v].index = job[v].index /\ job'[v].snap = job[v].snap
      /\ \A v \in Busy : job[v] \in Result => job'[v] \in Result
  <2>1. CASE job' = job
    BY <2>1 DEF IInv, TypeOK
  <2>2. CASE job' = [job EXCEPT ![w].err = TRUE]
    <3>1. job'[w] = [index |-> job[w].index, snap |-> job[w].snap, err |-> TRUE]
      BY <1>1, <2>2 DEF IInv, TypeOK, Result
    <3>2. \A v \in Workers : v # w => job'[v] = job[v]
      BY <2>2 DEF IInv, TypeOK
    <3> QED
      BY <1>1, <2>2, <3>1, <3>2 DEF IInv, TypeOK, Result, Busy
  <2> QED
    BY <1>0, <2>1, <2>2
<1>3. TypeOK'
  BY <1>0, <1>2 DEF IInv, TypeOK
<1>4. Owned'
  <2>1. \A r : Owns(r) => Owns(r)'
    BY <1>0 DEF Owns, InArchive
  <2>2. \A v \in Busy : Owns(job[v])'
    BY <1>0, <1>2 DEF IInv, Owned, Owns, InArchive, Busy
  <2> QED
    BY <1>0, <2>1, <2>2 DEF IInv, Owned
<1>5. Apart'
  BY <1>0, <1>2 DEF IInv, Apart, Busy
<1>6. Known' /\ Failing' /\ Turns'
  BY <1>0 DEF IInv, Known, Failing, Turns
<1>7. Complete'
  <2>1. \A f : Somewhere(f) => Somewhere(f)'
    BY <1>0, <1>2 DEF Somewhere, InArchive, Busy
  <2> QED
    BY <1>0, <2>1 DEF IInv, Complete
<1> QED
  BY <1>3, <1>4, <1>5, <1>6, <1>7 DEF IInv

\* compressFile from its buffer on keeps the invariant.
LEMMA EncodeIInv == ASSUME IInv, NEW w \in Workers, Encode(w) PROVE IInv'
<1>0. /\ w \in Busy /\ Busy' = Busy
      /\ wpc' \in [Workers -> {"receive", "compress", "encode", "send", "exited"}]
      /\ \A v \in Workers : wpc'[v] = "exited" <=> wpc[v] = "exited"
      /\ buf' \in [Files -> {"none", "held", "freed", "lost"}]
      /\ job' = job \/ job' = [job EXCEPT ![w].err = TRUE]
      /\ UNCHANGED <<taken, sent, tasksClosed, results, resultsClosed, cpc, res, pending,
                     nextIndex, errs, written, cancelled, callerGaveUp, pool, snapFile>>
  BY DEF Encode, IInv, TypeOK, Busy, dispatchVars, collectorVars
<1>1. job[w] \in Result
  BY <1>0 DEF IInv, Owned, Owns
<1>2. /\ job' \in [Workers -> Result \cup {NoResult}]
      /\ \A v \in Workers : job'[v].index = job[v].index /\ job'[v].snap = job[v].snap
      /\ \A v \in Busy : job[v] \in Result => job'[v] \in Result
  <2>1. CASE job' = job
    BY <2>1 DEF IInv, TypeOK
  <2>2. CASE job' = [job EXCEPT ![w].err = TRUE]
    <3>1. job'[w] = [index |-> job[w].index, snap |-> job[w].snap, err |-> TRUE]
      BY <1>1, <2>2 DEF IInv, TypeOK, Result
    <3>2. \A v \in Workers : v # w => job'[v] = job[v]
      BY <2>2 DEF IInv, TypeOK
    <3> QED
      BY <1>1, <2>2, <3>1, <3>2 DEF IInv, TypeOK, Result, Busy
  <2> QED
    BY <1>0, <2>1, <2>2
<1>3. TypeOK'
  BY <1>0, <1>2 DEF IInv, TypeOK
<1>4. Owned'
  <2>1. \A r : Owns(r) => Owns(r)'
    BY <1>0 DEF Owns, InArchive
  <2>2. \A v \in Busy : Owns(job[v])'
    BY <1>0, <1>2 DEF IInv, Owned, Owns, InArchive, Busy
  <2> QED
    BY <1>0, <2>1, <2>2 DEF IInv, Owned
<1>5. Apart'
  BY <1>0, <1>2 DEF IInv, Apart, Busy
<1>6. Known' /\ Failing' /\ Turns'
  BY <1>0 DEF IInv, Known, Failing, Turns
<1>7. Complete'
  <2>1. \A f : Somewhere(f) => Somewhere(f)'
    BY <1>0, <1>2 DEF Somewhere, InArchive, Busy
  <2> QED
    BY <1>0, <2>1 DEF IInv, Complete
<1> QED
  BY <1>3, <1>4, <1>5, <1>6, <1>7 DEF IInv

\* A worker that sends or discards its result keeps the invariant: the
\* result changes hands, and on a discard its snapshot becomes free.
LEMMA SendIInv == ASSUME IInv, NEW w \in Workers, Send(w) PROVE IInv'
<1>0. /\ w \in Busy /\ Busy' = Busy \ {w}
      /\ wpc' \in [Workers -> {"receive", "compress", "encode", "send", "exited"}]
      /\ \A v \in Workers : wpc'[v] = "exited" <=> wpc[v] = "exited"
      /\ UNCHANGED <<taken, sent, tasksClosed, job, resultsClosed, cpc, res, pending,
                     nextIndex, errs, written, cancelled, callerGaveUp, snapFile>>
  BY DEF Send, IInv, TypeOK, Busy, dispatchVars, collectorVars
<1>1. Owns(job[w]) /\ job[w] \in Result
  BY <1>0 DEF IInv, Owned, Owns
<1>2. CASE Len(results) < Capacity /\ results' = Append(results, job[w]) /\ UNCHANGED <<pool, buf>>
  <2>1. /\ results' \in Seq(Result) /\ Len(results') = Len(results) + 1
        /\ Len(results') <= Capacity
        /\ \A i \in 1 .. Len(results) : results'[i] = results[i]
        /\ results'[Len(results) + 1] = job[w]
    BY <1>1, <1>2, CapacityNat DEF IInv, TypeOK
  <2>2. Len(results) \in Nat
    BY DEF IInv, TypeOK
  <2>3. \A i \in 1 .. Len(results') : i \in 1 .. Len(results) \/ i = Len(results) + 1
    BY <2>1, <2>2
  <2>4. TypeOK'
    BY <1>0, <1>2, <2>1 DEF IInv, TypeOK
  <2>5. Owned'
    <3>1. \A r : Owns(r) => Owns(r)'
      BY <1>0, <1>2 DEF Owns, InArchive
    <3> QED
      BY <1>0, <1>1, <2>1, <2>3, <3>1 DEF IInv, Owned
  <2>6. Apart'
    <3>1. /\ \A v \in Busy, i \in 1 .. Len(results) : job[v].index # results[i].index
          /\ \A i, j \in 1 .. Len(results) : results[i].index = results[j].index => i = j
          /\ \A v \in Busy : job[w].index = job[v].index => w = v
      BY <1>0 DEF IInv, Apart
    <3>2. /\ \A i, j \in 1 .. Len(results') : results'[i].index = results'[j].index => i = j
          /\ \A v \in Busy', i \in 1 .. Len(results') : job[v].index # results'[i].index
      BY <1>0, <2>1, <2>2, <2>3, <3>1
    <3>3. /\ \A i \in 1 .. Len(results'), r \in pending : results'[i].index # r.index
          /\ cpc = "handle" => \A i \in 1 .. Len(results') : res.index # results'[i].index
      BY <1>0, <2>1, <2>3 DEF IInv, Apart
    <3> QED BY <1>0, <3>2, <3>3 DEF IInv, Apart
  <2>7. Known' /\ Failing' /\ Turns'
    BY <1>0, <1>2 DEF IInv, Known, Failing, Turns
  <2>8. Complete'
    <3>1. \A f : Somewhere(f) => Somewhere(f)'
      BY <1>0, <2>1, <2>2 DEF Somewhere, InArchive
    <3> QED
      BY <1>0, <3>1 DEF IInv, Complete
  <2> QED
    BY <2>4, <2>5, <2>6, <2>7, <2>8 DEF IInv
<1>3. CASE cancelled /\ Release(job[w]) /\ UNCHANGED results
  <2>1. /\ pool' = pool \cup {job[w].snap}
        /\ buf' \in [Files -> {"none", "held", "freed", "lost"}]
    BY <1>3 DEF Release, IInv, TypeOK
  <2>2. job[w].snap \in Snaps /\ job[w].snap \in 1 .. taken
    BY <1>1 DEF Owns, Result, Snaps, IInv, TypeOK
  <2>3. TypeOK'
    BY <1>0, <1>3, <2>1, <2>2 DEF IInv, TypeOK
  <2>4. Owned'
    <3>1. \A r : Owns(r) /\ r.index # job[w].index => Owns(r)'
      BY <1>0, <1>1, <2>1, DistinctSnaps DEF Owns, InArchive
    <3> QED
      BY <1>0, <1>3, <3>1 DEF IInv, Owned, Apart
  <2>5. Apart'
    BY <1>0, <1>3 DEF IInv, Apart
  <2>6. Known' /\ Failing' /\ Turns'
    BY <1>0, <1>3, <2>1, <2>2 DEF IInv, Known, Failing, Turns
  <2>7. Complete'
    BY <1>0, <1>3 DEF IInv, Complete
  <2> QED
    BY <2>3, <2>4, <2>5, <2>6, <2>7 DEF IInv
<1> QED
  BY <1>2, <1>3 DEF Send

(***************************************************************************)
(* Steps of the dispatcher, the closer and the caller.                     *)
(***************************************************************************)
\* Putting a file into tasks keeps the invariant.
LEMMA DispatchIInv == ASSUME IInv, Dispatch PROVE IInv'
<1>0. /\ sent' = sent + 1 /\ sent < N /\ ~tasksClosed /\ N \in Nat
      /\ UNCHANGED <<tasksClosed, taken, wpc, job, results, resultsClosed, cpc, res, pending,
                     nextIndex, errs, written, cancelled, callerGaveUp, pool, snapFile, buf>>
  BY WriterAssumption DEF Dispatch, workerVars, collectorVars
<1>1. TypeOK'
  BY <1>0 DEF IInv, TypeOK
<1>2. Owned' /\ Apart' /\ Known' /\ Failing' /\ Turns'
  BY <1>0 DEF IInv, Owned, Owns, InArchive, Busy, Apart, Known, Failing, Turns
<1>3. Complete'
  BY <1>0 DEF IInv, Complete, Somewhere, InArchive, Busy
<1> QED
  BY <1>1, <1>2, <1>3 DEF IInv

\* Closing tasks keeps the invariant.
LEMMA CloseTasksIInv == ASSUME IInv, CloseTasks PROVE IInv'
<1>0. /\ tasksClosed' = TRUE /\ (sent = N \/ cancelled) /\ ~tasksClosed
      /\ UNCHANGED <<sent, taken, wpc, job, results, resultsClosed, cpc, res, pending,
                     nextIndex, errs, written, cancelled, callerGaveUp, pool, snapFile, buf>>
  BY DEF CloseTasks, workerVars, collectorVars
<1>1. TypeOK'
  BY <1>0 DEF IInv, TypeOK
<1>2. Owned' /\ Apart' /\ Known' /\ Failing' /\ Turns'
  BY <1>0 DEF IInv, Owned, Owns, InArchive, Busy, Apart, Known, Failing, Turns
<1>3. Complete'
  BY <1>0 DEF IInv, Complete, Somewhere, InArchive, Busy
<1> QED
  BY <1>1, <1>2, <1>3 DEF IInv

\* Closing results keeps the invariant.
LEMMA CloseResultsIInv == ASSUME IInv, CloseResults PROVE IInv'
<1>0. /\ resultsClosed' = TRUE /\ \A w \in Workers : wpc[w] = "exited"
      /\ UNCHANGED <<sent, tasksClosed, taken, wpc, job, results, cpc, res, pending,
                     nextIndex, errs, written, cancelled, callerGaveUp, pool, snapFile, buf>>
  BY DEF CloseResults, dispatchVars, workerVars, collectorVars
<1>1. TypeOK'
  BY <1>0 DEF IInv, TypeOK
<1>2. Owned' /\ Apart' /\ Known' /\ Failing' /\ Turns'
  BY <1>0 DEF IInv, Owned, Owns, InArchive, Busy, Apart, Known, Failing, Turns
<1>3. Complete'
  BY <1>0 DEF IInv, Complete, Somewhere, InArchive, Busy
<1> QED
  BY <1>1, <1>2, <1>3 DEF IInv

\* The caller's cancellation keeps the invariant, at any time.
LEMMA GiveUpIInv == ASSUME IInv, GiveUp PROVE IInv'
<1>0. /\ callerGaveUp' = TRUE /\ cancelled' = TRUE
      /\ UNCHANGED <<sent, tasksClosed, taken, wpc, job, results, resultsClosed, cpc, res,
                     pending, nextIndex, errs, written, pool, snapFile, buf>>
  BY DEF GiveUp, dispatchVars, workerVars, collectorVars
<1>1. TypeOK'
  BY <1>0 DEF IInv, TypeOK
<1>2. Owned' /\ Apart' /\ Known' /\ Failing' /\ Turns'
  BY <1>0 DEF IInv, Owned, Owns, InArchive, Busy, Apart, Known, Failing, Turns
<1>3. Complete'
  BY <1>0 DEF IInv, Complete
<1> QED
  BY <1>1, <1>2, <1>3 DEF IInv

(***************************************************************************)
(* Steps of the collector.                                                 *)
(***************************************************************************)

\* Receiving takes the first result and moves the others up.
LEMMA Received ==
    ASSUME IInv, results # << >>, results' = Tail(results)
    PROVE  /\ 1 \in 1 .. Len(results) /\ Head(results) = results[1]
           /\ Head(results) \in Result /\ Owns(Head(results))
           /\ results' \in Seq(Result) /\ Len(results') = Len(results) - 1
           /\ Len(results') <= Capacity
           /\ \A i \in 1 .. Len(results') :
                  i + 1 \in 1 .. Len(results) /\ results'[i] = results[i + 1]
           /\ \A i \in 1 .. Len(results) :
                  i = 1 \/ (i - 1 \in 1 .. Len(results') /\ results'[i - 1] = results[i])
<1>1. results \in Seq(Result) /\ Len(results) <= Capacity
  BY DEF IInv, TypeOK
<1>2. /\ 1 \in 1 .. Len(results) /\ Head(results) = results[1]
      /\ Head(results) \in Result
      /\ results' \in Seq(Result) /\ Len(results') = Len(results) - 1
      /\ \A i \in 1 .. Len(results') :
                  i + 1 \in 1 .. Len(results) /\ results'[i] = results[i + 1]
  BY <1>1
<1>3. Len(results) \in Nat
  BY <1>1
<1>4. Owns(Head(results))
  BY <1>2 DEF IInv, Owned
<1>5. \A i \in 1 .. Len(results) :
                  i = 1 \/ (i - 1 \in 1 .. Len(results') /\ results'[i - 1] = results[i])
  BY <1>2, <1>3
<1> QED
  BY <1>1, <1>2, <1>3, <1>4, <1>5, CapacityNat

\* The results left in the channel are apart from each other and from the rest.
LEMMA ReceivedApart ==
    ASSUME IInv, results # << >>, results' = Tail(results)
    PROVE  /\ \A i, j \in 1 .. Len(results') : results'[i].index = results'[j].index => i = j
           /\ \A i \in 1 .. Len(results') :
                 /\ results'[i].index # Head(results).index
                 /\ Owns(results'[i])
                 /\ \A w \in Busy : job[w].index # results'[i].index
                 /\ \A r \in pending : results'[i].index # r.index
           /\ \A w \in Busy : job[w].index # Head(results).index
           /\ \A r \in pending : Head(results).index # r.index
<1>1. \A i \in 1 .. Len(results') :
          i + 1 \in 1 .. Len(results) /\ i + 1 # 1 /\ results'[i] = results[i + 1]
  <2>1. Len(results) \in Nat /\ Len(results') = Len(results) - 1
    BY Received DEF IInv, TypeOK
  <2> QED
    BY <2>1, Received
<1>2. /\ 1 \in 1 .. Len(results) /\ Head(results) = results[1]
      /\ \A i \in 1 .. Len(results) : Owns(results[i])
  BY Received DEF IInv, Owned
<1>3. Apart
  BY DEF IInv
<1>4. ASSUME NEW i \in 1 .. Len(results'), NEW j \in 1 .. Len(results'),
             results'[i].index = results'[j].index
      PROVE  i = j
  <2>1. i + 1 = j + 1
    BY <1>1, <1>3, <1>4 DEF Apart
  <2> QED
    BY <2>1
<1>5. ASSUME NEW i \in 1 .. Len(results')
      PROVE  /\ results'[i].index # Head(results).index
             /\ Owns(results'[i])
             /\ \A w \in Busy : job[w].index # results'[i].index
             /\ \A r \in pending : results'[i].index # r.index
  BY <1>1, <1>2, <1>3 DEF Apart
<1> QED
  BY <1>2, <1>3, <1>4, <1>5 DEF Apart

\* Throwing a result away keeps the invariant.
LEMMA DiscardIInv == ASSUME IInv, Discard PROVE IInv'
<1>0. /\ cpc = "receive" /\ cancelled /\ results # << >> /\ results' = Tail(results)
      /\ pool' = pool \cup {Head(results).snap}
      /\ buf' \in [Files -> {"none", "held", "freed", "lost"}]
      /\ UNCHANGED <<sent, tasksClosed, taken, wpc, job, resultsClosed, cpc, res, pending,
                     nextIndex, errs, written, cancelled, callerGaveUp, snapFile>>
  BY DEF Discard, Release, IInv, TypeOK, dispatchVars, workerVars, collectorVars
<1>1. Busy' = Busy
  BY <1>0 DEF Busy
<1>2. Head(results).snap \in Snaps /\ Head(results).snap \in 1 .. taken
  BY <1>0, Received DEF Owns, Result, Snaps, IInv, TypeOK
<1>3. TypeOK'
  BY <1>0, <1>2, Received DEF IInv, TypeOK
<1>4. Owned'
  <2>1. \A r : Owns(r) /\ r.index # Head(results).index => Owns(r)'
    BY <1>0, Received, DistinctSnaps DEF Owns, InArchive
  <2> QED
    BY <1>0, <1>1, <2>1, ReceivedApart DEF IInv, Owned
<1>5. Apart'
  BY <1>0, <1>1, ReceivedApart DEF IInv, Apart
<1>6. Known' /\ Failing' /\ Turns'
  BY <1>0, <1>2 DEF IInv, Known, Failing, Turns
<1>7. Complete'
  BY <1>0 DEF IInv, Complete
<1> QED
  BY <1>3, <1>4, <1>5, <1>6, <1>7 DEF IInv

\* Recording a worker's failure keeps the invariant.
LEMMA WorkerFailedIInv == ASSUME IInv, WorkerFailed PROVE IInv'
<1>0. /\ cpc = "receive" /\ results # << >> /\ results' = Tail(results) /\ cancelled' = TRUE
      /\ errs' = Append(errs, [names |-> Head(results).index, about |-> Head(results).index])
      /\ UNCHANGED <<sent, tasksClosed, taken, wpc, job, resultsClosed, cpc, res, pending,
                     nextIndex, written, callerGaveUp, pool, snapFile, buf>>
  BY DEF WorkerFailed, dispatchVars, workerVars
<1>1. Busy' = Busy
  BY <1>0 DEF Busy
<1>2. errs' \in Seq([names : Files, about : Files]) /\ errs' # << >>
  <2>1. Head(results).index \in Files
    BY <1>0, Received DEF Result
  <2>2. errs \in Seq([names : Files, about : Files])
    BY DEF IInv, TypeOK
  <2> QED
    BY <1>0, <2>1, <2>2
<1>3. TypeOK'
  BY <1>0, <1>2, Received DEF IInv, TypeOK
<1>4. Owned'
  <2>1. \A r : Owns(r) => Owns(r)'
    BY <1>0 DEF Owns, InArchive
  <2> QED
    BY <1>0, <1>1, <2>1, ReceivedApart DEF IInv, Owned
<1>5. Apart'
  BY <1>0, <1>1, ReceivedApart DEF IInv, Apart
<1>6. Known' /\ Failing' /\ Turns'
  BY <1>0, <1>2 DEF IInv, Known, Failing, Turns
<1>7. Complete'
  BY <1>0 DEF IInv, Complete
<1> QED
  BY <1>3, <1>4, <1>5, <1>6, <1>7 DEF IInv

\* Taking a result to write it or to park it keeps the invariant.
LEMMA AcceptIInv == ASSUME IInv, Accept PROVE IInv'
<1> DEFINE h == Head(results)
<1>0. /\ cpc = "receive" /\ results # << >> /\ results' = Tail(results) /\ ~cancelled
      /\ UNCHANGED <<sent, tasksClosed, taken, wpc, job, resultsClosed, nextIndex, errs,
                     written, cancelled, callerGaveUp, pool, snapFile, buf>>
  BY DEF Accept, dispatchVars, workerVars
<1>1. Busy' = Busy
  BY <1>0 DEF Busy
<1>2. \A r : Owns(r) => Owns(r)'
  BY <1>0 DEF Owns, InArchive
<1>3. Owns(h) /\ h \in Result
  BY <1>0, Received
<1>4. errs = << >>
  BY <1>0 DEF IInv, Failing
<1>5. \A f :
         f # h.index /\ (\E i \in 1 .. Len(results) : results[i].index = f)
            => \E i \in 1 .. Len(results') : results'[i].index = f
  <2> SUFFICES ASSUME NEW f, f # h.index,
                      NEW i \in 1 .. Len(results), results[i].index = f
               PROVE  \E k \in 1 .. Len(results') : results'[k].index = f
    OBVIOUS
  <2>1. h = results[1]
    BY <1>0, Received
  <2>2. i - 1 \in 1 .. Len(results') /\ results'[i - 1] = results[i]
    BY <1>0, <2>1, Received
  <2> QED
    BY <2>2
<1>6. CASE InTurn(h) /\ cpc' = "handle" /\ res' = h /\ UNCHANGED pending
  <2>1. TypeOK'
    BY <1>0, <1>3, <1>6, Received DEF IInv, TypeOK
  <2>2. Owned'
    BY <1>0, <1>1, <1>2, <1>3, <1>6, ReceivedApart DEF IInv, Owned
  <2>3. Apart'
    BY <1>0, <1>1, <1>6, ReceivedApart DEF IInv, Apart
  <2>4. Known' /\ Failing'
    BY <1>0, <1>4, <1>6 DEF IInv, Known, Failing
  <2>5. Turns'
    BY <1>0, <1>6 DEF IInv, Turns, InTurn
  <2>6. Complete'
    <3>1. \A f \in 1 .. taken : Somewhere(f) => Somewhere(f)'
      BY <1>0, <1>1, <1>5, <1>6 DEF Somewhere, InArchive
    <3> QED
      BY <1>0, <3>1 DEF IInv, Complete
  <2> QED
    BY <2>1, <2>2, <2>3, <2>4, <2>5, <2>6 DEF IInv
<1>7. CASE ~InTurn(h) /\ pending' = pending \cup {h} /\ UNCHANGED <<cpc, res>>
  <2>1. TypeOK'
    BY <1>0, <1>3, <1>7, Received DEF IInv, TypeOK
  <2>2. Owned'
    BY <1>0, <1>1, <1>2, <1>3, <1>7, ReceivedApart DEF IInv, Owned
  <2>3. Apart'
    BY <1>0, <1>1, <1>7, ReceivedApart DEF IInv, Apart
  <2>4. Known' /\ Failing'
    BY <1>0, <1>4, <1>7 DEF IInv, Known, Failing
  <2>5. Turns'
    BY <1>0, <1>7 DEF IInv, Turns, InTurn
  <2>6. Complete'
    <3>1. \A f \in 1 .. taken : Somewhere(f) => Somewhere(f)'
      BY <1>0, <1>1, <1>5, <1>7 DEF Somewhere, InArchive
    <3> QED
      BY <1>0, <1>7, <3>1 DEF IInv, Complete
  <2> QED
    BY <2>1, <2>2, <2>3, <2>4, <2>5, <2>6 DEF IInv
<1> QED
  BY <1>6, <1>7 DEF Accept

\* A failing write keeps the invariant.
LEMMA HandleFailedIInv == ASSUME IInv, HandleFailed PROVE IInv'
<1>0. /\ cpc = "handle" /\ cpc' = "report"
      /\ pool' = pool \cup {res.snap}
      /\ buf' \in [Files -> {"none", "held", "freed", "lost"}]
      /\ UNCHANGED <<sent, tasksClosed, taken, wpc, job, results, resultsClosed, res, pending,
                     nextIndex, errs, written, cancelled, callerGaveUp, snapFile>>
  BY DEF HandleFailed, Release, IInv, TypeOK, dispatchVars, workerVars
<1>1. Busy' = Busy
  BY <1>0 DEF Busy
<1>2. Owns(res) /\ res \in Result
  BY <1>0 DEF IInv, Owned, Owns
<1>3. /\ res.snap \in Snaps /\ res.snap \in 1 .. taken
      /\ snapFile[res.snap] \in Files
  BY <1>2 DEF Owns, Result, Snaps, IInv, TypeOK
<1>4. TypeOK'
  BY <1>0, <1>3 DEF IInv, TypeOK
<1>5. Owned'
  <2>1. \A r : Owns(r) /\ r.index # res.index => Owns(r)'
    BY <1>0, <1>2, DistinctSnaps DEF Owns, InArchive
  <2> QED
    BY <1>0, <1>1, <2>1 DEF IInv, Owned, Apart
<1>6. Apart'
  BY <1>0, <1>1 DEF IInv, Apart
<1>7. Known' /\ Failing'
  BY <1>0, <1>2, <1>3 DEF IInv, Known, Failing
<1>8. Turns'
  BY <1>0 DEF IInv, Turns, Apart
<1>9. Complete'
  BY <1>0 DEF IInv, Complete
<1> QED
  BY <1>4, <1>5, <1>6, <1>7, <1>8, <1>9 DEF IInv

\* Recording a failed write keeps the invariant.
LEMMA ReportIInv == ASSUME IInv, Report PROVE IInv'
<1>0. /\ cpc = "report" /\ cpc' = "receive" /\ cancelled' = TRUE
      /\ errs' = Append(errs, [names |-> snapFile[res.snap], about |-> res.index])
      /\ UNCHANGED <<sent, tasksClosed, taken, wpc, job, results, resultsClosed, res, pending,
                     nextIndex, written, callerGaveUp, pool, snapFile, buf>>
  BY DEF Report, dispatchVars, workerVars
<1>1. Busy' = Busy
  BY <1>0 DEF Busy
<1>2. errs' \in Seq([names : Files, about : Files]) /\ errs' # << >>
  <2>1. res.index \in Files /\ snapFile[res.snap] \in Files
    BY <1>0 DEF IInv, Known, Result
  <2>2. errs \in Seq([names : Files, about : Files])
    BY DEF IInv, TypeOK
  <2> QED
    BY <1>0, <2>1, <2>2
<1>3. TypeOK'
  BY <1>0, <1>2 DEF IInv, TypeOK
<1>4. Owned'
  BY <1>0, <1>1 DEF IInv, Owned, Owns, InArchive
<1>5. Apart'
  BY <1>0, <1>1 DEF IInv, Apart
<1>6. Known' /\ Failing' /\ Turns'
  BY <1>0, <1>2 DEF IInv, Known, Failing, Turns
<1>7. Complete'
  BY <1>0 DEF IInv, Complete
<1> QED
  BY <1>3, <1>4, <1>5, <1>6, <1>7 DEF IInv

\* Returning keeps the invariant.
LEMMA ReturnIInv == ASSUME IInv, Return PROVE IInv'
<1>0. /\ cpc = "receive" /\ cpc' = "returned"
      /\ buf' \in [Files -> {"none", "held", "freed", "lost"}]
      /\ UNCHANGED <<sent, tasksClosed, taken, wpc, job, results, resultsClosed, res, pending,
                     nextIndex, errs, written, cancelled, callerGaveUp, pool, snapFile>>
  BY DEF Return, IInv, TypeOK, dispatchVars, workerVars
<1>1. Busy' = Busy
  BY <1>0 DEF Busy
<1>2. TypeOK'
  BY <1>0 DEF IInv, TypeOK
<1>3. Owned' /\ Apart'
  BY <1>0, <1>1 DEF IInv, Owned, Owns, InArchive, Apart
<1>4. Known' /\ Failing' /\ Turns'
  BY <1>0 DEF IInv, Known, Failing, Turns
<1>5. Complete'
  BY <1>0, <1>1 DEF IInv, Complete, Somewhere, InArchive
<1> QED
  BY <1>2, <1>3, <1>4, <1>5 DEF IInv

\* The collector writes the file of the result it handles.
LEMMA HandleWrites ==
    ASSUME IInv, HandleOK
    PROVE  /\ Owns(res) /\ res \in Result
           /\ written' = Append(written, res.index)
           /\ written' \in Seq(Files) /\ Len(written) \in Nat
           /\ Len(written') = Len(written) + 1
           /\ \A i \in 1 .. Len(written) : written'[i] = written[i]
           /\ written'[Len(written) + 1] = res.index
<1>1. Owns(res) /\ res \in Result
  BY DEF HandleOK, IInv, Owned, Owns
<1>2. written' = Append(written, res.index)
  BY <1>1 DEF HandleOK, Owns
<1>3. written \in Seq(Files) /\ res.index \in Files
  BY <1>1 DEF IInv, TypeOK, Result
<1> QED
  BY <1>1, <1>2, <1>3

\* A write adds the file of the result that is handled, and nothing else.
LEMMA ArchiveGrows ==
    ASSUME IInv, HandleOK
    PROVE  \A g : InArchive(g)' <=> InArchive(g) \/ g = res.index
<1>1. /\ Len(written) \in Nat /\ Len(written') = Len(written) + 1
      /\ \A i \in 1 .. Len(written) : written'[i] = written[i]
      /\ written'[Len(written) + 1] = res.index
  BY HandleWrites
<1>2. \A i : i \in 1 .. Len(written') <=> i \in 1 .. Len(written) \/ i = Len(written) + 1
  BY <1>1
<1> QED
  BY <1>1, <1>2 DEF InArchive

\* A write that succeeds keeps the invariant: the turn goes to the next file,
\* which is handled at once if it is parked.
LEMMA HandleOKIInv == ASSUME IInv, HandleOK PROVE IInv'
<1>0. /\ cpc = "handle"
      /\ pool' = pool \cup {res.snap}
      /\ buf' \in [Files -> {"none", "held", "freed", "lost"}]
      /\ nextIndex' = IF InOrder THEN nextIndex + 1 ELSE nextIndex
      /\ UNCHANGED <<sent, tasksClosed, taken, wpc, job, results, resultsClosed,
                     errs, cancelled, callerGaveUp, snapFile>>
  BY DEF HandleOK, Release, IInv, TypeOK, dispatchVars, workerVars
<1>1. Busy' = Busy
  BY <1>0 DEF Busy
<1>2. /\ Owns(res) /\ res \in Result
      /\ written' \in Seq(Files) /\ Len(written) \in Nat
      /\ Len(written') = Len(written) + 1
      /\ \A i \in 1 .. Len(written) : written'[i] = written[i]
      /\ written'[Len(written) + 1] = res.index
  BY HandleWrites
<1>3. res.snap \in Snaps /\ res.snap \in 1 .. taken /\ res.index \in 1 .. taken
  BY <1>2 DEF Owns, Result, Snaps, Files, IInv, TypeOK
<1>4. \A r : Owns(r) /\ r.index # res.index => Owns(r)'
  BY <1>0, <1>2, ArchiveGrows, DistinctSnaps DEF Owns
<1>5. Known'
  <2>1. \A i \in 1 .. Len(written') : written'[i] <= taken
    <3> SUFFICES ASSUME NEW i \in 1 .. Len(written') PROVE written'[i] <= taken
      OBVIOUS
    <3>1. CASE i \in 1 .. Len(written)
      BY <1>2, <3>1 DEF IInv, Known
    <3>2. CASE i = Len(written) + 1
      BY <1>2, <1>3, <3>2
    <3> QED
      BY <1>2, <3>1, <3>2
  <2>2. cpc' # "report"
    BY <1>0 DEF HandleOK
  <2> QED
    BY <1>0, <1>3, <2>1, <2>2 DEF IInv, Known
<1>6. Failing'
  BY <1>0 DEF IInv, Failing
<1>7. InOrder => \A i \in 1 .. Len(written') : written'[i] = i
  <2> SUFFICES ASSUME InOrder, NEW i \in 1 .. Len(written') PROVE written'[i] = i
    OBVIOUS
  <2>1. CASE i \in 1 .. Len(written)
    BY <1>2, <2>1 DEF IInv, Turns
  <2>2. CASE i = Len(written) + 1
    BY <1>0, <1>2, <2>2 DEF IInv, Turns
  <2> QED
    BY <1>2, <2>1, <2>2
<1>8. \A g \in 1 .. taken : Somewhere(g) =>
          \/ InArchive(g)'
          \/ (\E w \in Busy : job[w].index = g)
          \/ (\E i \in 1 .. Len(results) : results[i].index = g)
          \/ (\E r \in pending : r.index = g)
  BY ArchiveGrows DEF Somewhere
<1>9. \A r : Owns(r) => Owns(r)' \/ r.index = res.index
  BY <1>4
<1>10. CASE /\ InOrder /\ res' \in pending /\ res'.index = nextIndex'
            /\ pending' = pending \ {res'} /\ UNCHANGED cpc
  <2>1. res' \in Result /\ Owns(res') /\ res'.index # res.index
    BY <1>0, <1>10 DEF IInv, Owned, Owns, Apart
  <2>2. TypeOK'
    BY <1>0, <1>2, <1>3, <1>10, <2>1 DEF IInv, TypeOK
  <2>3. Owned'
    <3>1. \A w \in Busy : Owns(job[w]) /\ job[w].index # res.index
      BY <1>0 DEF IInv, Owned, Apart
    <3>2. \A i \in 1 .. Len(results) : Owns(results[i]) /\ results[i].index # res.index
      BY <1>0 DEF IInv, Owned, Apart
    <3>3. \A r \in pending : Owns(r) /\ r.index # res.index
      BY <1>0 DEF IInv, Owned, Apart
    <3>4. (\A w \in Busy : Owns(job[w]))'
      BY <1>0, <1>1, <1>4, <3>1
    <3>5. (\A i \in 1 .. Len(results) : Owns(results[i]))'
      BY <1>0, <1>4, <3>2
    <3>6. (\A r \in pending : Owns(r))' /\ Owns(res)'
      BY <1>4, <1>10, <3>3
    <3> QED
      BY <3>4, <3>5, <3>6 DEF Owned
  <2>4. Apart'
    BY <1>0, <1>1, <1>10 DEF IInv, Apart
  <2>5. Turns'
    BY <1>0, <1>2, <1>7, <1>10 DEF IInv, Turns
  <2>6. Complete'
    <3>1. \A g \in 1 .. taken : Somewhere(g) => Somewhere(g)'
      BY <1>0, <1>1, <1>8, <1>10 DEF Somewhere
    <3> QED
      BY <1>0, <1>10, <3>1 DEF IInv, Complete
  <2> QED
    BY <1>5, <1>6, <2>2, <2>3, <2>4, <2>5, <2>6 DEF IInv
<1>11. CASE /\ ~(InOrder /\ \E r \in pending : r.index = nextIndex')
            /\ cpc' = "receive" /\ UNCHANGED <<res, pending>>
  <2>1. TypeOK'
    BY <1>0, <1>2, <1>3, <1>11 DEF IInv, TypeOK
  <2>2. Owned'
    <3>1. \A w \in Busy : Owns(job[w]) /\ job[w].index # res.index
      BY <1>0 DEF IInv, Owned, Apart
    <3>2. \A i \in 1 .. Len(results) : Owns(results[i]) /\ results[i].index # res.index
      BY <1>0 DEF IInv, Owned, Apart
    <3>3. \A r \in pending : Owns(r) /\ r.index # res.index
      BY <1>0 DEF IInv, Owned, Apart
    <3>4. (\A w \in Busy : Owns(job[w]))'
      BY <1>0, <1>1, <1>4, <3>1
    <3>5. (\A i \in 1 .. Len(results) : Owns(results[i]))'
      BY <1>0, <1>4, <3>2
    <3>6. (\A r \in pending : Owns(r))'
      BY <1>4, <1>11, <3>3
    <3> QED
      BY <1>11, <3>4, <3>5, <3>6 DEF Owned
  <2>3. Apart'
    BY <1>0, <1>1, <1>11 DEF IInv, Apart
  <2>4. Turns'
    BY <1>0, <1>2, <1>7, <1>11 DEF IInv, Turns
  <2>5. Complete'
    <3>1. \A g \in 1 .. taken : Somewhere(g) => Somewhere(g)'
      BY <1>0, <1>1, <1>8, <1>11 DEF Somewhere
    <3> QED
      BY <1>0, <3>1 DEF IInv, Complete
  <2> QED
    BY <1>5, <1>6, <2>1, <2>2, <2>3, <2>4, <2>5 DEF IInv
<1> QED
  BY <1>10, <1>11 DEF HandleOK

(***************************************************************************)
(* Every reachable state satisfies the invariant.                          *)
(***************************************************************************)
LEMMA NextIInv == IInv /\ [Next]_vars => IInv'
<1> SUFFICES ASSUME IInv, [Next]_vars PROVE IInv'
  OBVIOUS
<1>1. CASE Dispatch \/ CloseTasks \/ CloseResults
  BY <1>1, DispatchIInv, CloseTasksIInv, CloseResultsIInv
<1>2. ASSUME NEW w \in Workers, Worker(w) PROVE IInv'
  BY <1>2, TakeIInv, ExitIInv, OpenIInv, EncodeIInv, SendIInv DEF Worker
<1>3. CASE Collector
  BY <1>3, DiscardIInv, WorkerFailedIInv, AcceptIInv, HandleOKIInv, HandleFailedIInv,
     ReportIInv, ReturnIInv DEF Collector
<1>4. CASE GiveUp
  BY <1>4, GiveUpIInv
<1>5. CASE UNCHANGED vars
  <2>1. UNCHANGED <<sent, tasksClosed, taken, wpc, job, results, resultsClosed, cpc, res,
                    pending, nextIndex, errs, written, cancelled, callerGaveUp, pool,
                    snapFile, buf>>
    BY <1>5 DEF vars, dispatchVars, workerVars, collectorVars
  <2>2. TypeOK'
    BY <2>1 DEF IInv, TypeOK
  <2>3. Owned' /\ Apart' /\ Known' /\ Failing' /\ Turns'
    BY <2>1 DEF IInv, Owned, Owns, InArchive, Busy, Apart, Known, Failing, Turns
  <2>4. Complete'
    BY <2>1 DEF IInv, Complete, Somewhere, InArchive, Busy
  <2> QED
    BY <2>2, <2>3, <2>4 DEF IInv
<1> QED
  BY <1>1, <1>2, <1>3, <1>4, <1>5 DEF Next

\* Every reachable state satisfies the invariant.
THEOREM Invariance == Spec => []IInv
BY InitIInv, NextIInv, PTL DEF Spec

\* In every state of every execution each variable has its type.
THEOREM TypeCorrect == Spec => []TypeOK
<1>1. IInv => TypeOK
  BY DEF IInv
<1> QED
  BY <1>1, Invariance, PTL

\* For any number of files and workers, until a result is released nobody else
\* has its snapshot.
THEOREM SnapshotsAreExclusive == Spec => []SnapshotsExclusive
<1>1. ASSUME IInv PROVE SnapshotsExclusive
  <2>1. \A r \in Live : Owns(r)
    BY <1>1 DEF IInv, Owned, Live
  <2>2. \A q, r \in Live : q.index = r.index => q = r
    BY <1>1 DEF IInv, Apart, Live
  <2> QED
    BY <2>1, <2>2 DEF SnapshotsExclusive, Owns
<1> QED
  BY <1>1, Invariance, PTL

(***************************************************************************)
(* The goroutines implement BulkWrite: writing a result is Write, the      *)
(* first error is Fail, and everything else is a step BulkWrite does not   *)
(* see.                                                                    *)
(***************************************************************************)

\* When the collector returns and nothing went wrong, every file is written:
\* the workers have drained tasks, results is empty, and no result can be left
\* in pending because the one whose turn it is would be neither written nor on
\* its way.
LEMMA ReturnIsComplete ==
    ASSUME IInv, Return, errs = << >>, ~callerGaveUp
    PROVE  \A f \in 1 .. N : Bulk!InArchive(f)
<1>1. /\ cpc = "receive" /\ results = << >> /\ resultsClosed
      /\ ~cancelled /\ N \in Nat
  BY WriterAssumption DEF Return, IInv, Failing
<1>2. \A w \in Workers : wpc[w] = "exited"
  BY <1>1 DEF IInv, Complete
<1>3. taken = N
  BY <1>1, <1>2, WriterAssumption DEF IInv, Complete
<1>4. Busy = {} /\ Len(results) = 0
  BY <1>1, <1>2 DEF Busy
<1>5. \A f \in 1 .. N : InArchive(f) \/ \E r \in pending : r.index = f
  BY <1>1, <1>3, <1>4 DEF IInv, Complete, Somewhere
<1>6. \A f \in 1 .. N : InArchive(f)
  <2>1. CASE ~InOrder
    BY <1>5, <2>1 DEF IInv, Turns
  <2>2. CASE InOrder
    <3>1. nextIndex = Len(written) + 1 /\ \A i \in 1 .. Len(written) : written[i] = i
      BY <2>2 DEF IInv, Turns
    <3>2. nextIndex \notin 1 .. N
      <4>1. \A r \in pending : r.index # nextIndex
        BY <1>1, <2>2 DEF IInv, Turns
      <4>2. Len(written) \in Nat
        BY DEF IInv, TypeOK
      <4>3. ~InArchive(nextIndex)
        BY <3>1, <4>2 DEF InArchive
      <4> QED
        BY <1>5, <4>1, <4>3
    <3>3. Len(written) \in Nat
      BY DEF IInv, TypeOK
    <3> QED
      BY <1>1, <3>1, <3>2, <3>3 DEF InArchive
  <2> QED
    BY <2>1, <2>2
<1> QED
  BY <1>6 DEF InArchive, Bulk!InArchive

\* Every step of the goroutines is a step of BulkWrite or changes nothing
\* that BulkWrite sees.
LEMMA StepSimulates ==
    ASSUME IInv, [Next]_vars
    PROVE  [Bulk!Next]_(Bulk!vars)
<1> DEFINE seen == <<written, errs, callerGaveUp, cpc>>
<1>1. CASE Dispatch \/ CloseTasks \/ CloseResults
  <2>1. UNCHANGED seen
    BY <1>1 DEF Dispatch, CloseTasks, CloseResults, collectorVars
  <2> QED
    BY <2>1 DEF Bulk!vars
<1>2. ASSUME NEW w \in Workers, Worker(w) PROVE UNCHANGED Bulk!vars
  <2>1. UNCHANGED seen
    BY <1>2 DEF Worker, Take, Exit, Open, Encode, Send, collectorVars
  <2> QED
    BY <2>1 DEF Bulk!vars
<1>3. CASE Discard \/ Accept \/ HandleFailed
  <2>1. /\ UNCHANGED <<written, errs, callerGaveUp>>
        /\ cpc # "returned" /\ cpc' # "returned"
    BY <1>3 DEF Discard, Accept, HandleFailed, collectorVars
  <2> QED
    BY <2>1 DEF Bulk!vars
<1>4. CASE WorkerFailed
  <2>1. /\ cpc # "returned" /\ cpc' = cpc /\ errs = << >> /\ errs' # << >>
        /\ UNCHANGED <<written, callerGaveUp>>
    <3>1. ~cancelled /\ errs' = Append(errs, [names |-> Head(results).index,
                                              about |-> Head(results).index])
      BY <1>4 DEF WorkerFailed
    <3>2. errs = << >>
      BY <3>1 DEF IInv, Failing
    <3> QED
      BY <1>4, <3>1, <3>2 DEF WorkerFailed
  <2>2. Bulk!Fail
    BY <2>1 DEF Bulk!Fail
  <2> QED
    BY <2>2 DEF Bulk!Next
<1>5. CASE Report
  <2>1. /\ cpc # "returned" /\ cpc' # "returned" /\ errs = << >> /\ errs' # << >>
        /\ UNCHANGED <<written, callerGaveUp>>
    <3>1. errs = << >>
      BY <1>5 DEF Report, IInv, Failing
    <3>2. errs' = Append(errs, [names |-> snapFile[res.snap], about |-> res.index])
      BY <1>5 DEF Report
    <3> QED
      BY <1>5, <3>1, <3>2 DEF Report
  <2>2. Bulk!Fail
    BY <2>1 DEF Bulk!Fail
  <2> QED
    BY <2>2 DEF Bulk!Next
<1>6. CASE HandleOK
  <2>1. /\ cpc # "returned" /\ cpc' # "returned" /\ errs = << >>
        /\ UNCHANGED <<errs, callerGaveUp>>
    BY <1>6 DEF HandleOK, IInv, Failing
  <2>2. /\ res.index \in 1 .. N
        /\ written' = Append(written, res.index)
        /\ ~InArchive(res.index)
    BY <1>6, HandleWrites DEF Result, Files, Owns
  <2>3. InOrder => res.index = Len(written) + 1 /\ \A i \in 1 .. Len(written) : written[i] < res.index
    <3>1. InOrder => res.index = Len(written) + 1 /\ \A i \in 1 .. Len(written) : written[i] = i
      BY <1>6 DEF HandleOK, IInv, Turns
    <3>2. Len(written) \in Nat
      BY DEF IInv, TypeOK
    <3> QED BY <3>1, <3>2
  <2>4. Bulk!Write(res.index)
    BY <2>1, <2>2, <2>3 DEF Bulk!Write, Bulk!InArchive, InArchive
  <2> QED
    BY <2>2, <2>4 DEF Bulk!Next
<1>7. CASE Return
  <2>1. /\ cpc' = "returned" /\ UNCHANGED <<written, errs, callerGaveUp>>
    BY <1>7 DEF Return
  <2>2. errs # << >> \/ callerGaveUp \/ \A f \in 1 .. N : Bulk!InArchive(f)
    BY <1>7, ReturnIsComplete
  <2>3. Bulk!Return
    BY <2>1, <2>2 DEF Bulk!Return
  <2> QED
    BY <2>3 DEF Bulk!Next
<1>8. CASE GiveUp
  <2>1. callerGaveUp' = TRUE /\ UNCHANGED <<written, errs, cpc>>
    BY <1>8 DEF GiveUp, collectorVars
  <2>2. Bulk!Cancel
    BY <2>1 DEF Bulk!Cancel
  <2> QED
    BY <2>2 DEF Bulk!Next
<1>9. CASE UNCHANGED vars
  BY <1>9 DEF vars, collectorVars, Bulk!vars
<1> QED
  BY <1>1, <1>2, <1>3, <1>4, <1>5, <1>6, <1>7, <1>8, <1>9 DEF Next, Collector

\* For any number of files and workers and either strategy: files are written
\* once each, in their order if it is to be kept, and the call comes back with a
\* file missing only after an error or a cancellation.
THEOREM Implementation == Spec => ImplementsBulkWrite
<1>1. Init => Bulk!Init
  BY DEF Init, Bulk!Init
<1>2. IInv /\ [Next]_vars => [Bulk!Next]_(Bulk!vars)
  BY StepSimulates
<1> QED
  BY <1>1, <1>2, Invariance, PTL DEF Spec, Bulk!Spec, ImplementsBulkWrite

-----------------------------------------------------------------------------
(* Buffers: one is held only by a result that is on its way, so there are  *)
(* no more of them than places for results, and none is left at the return.*)

(***************************************************************************)
(* The strengthening of IInv.  Who holds a buffer is read off the places a *)
(* result passes through; a result with an error holds none, which is why  *)
(* the collector may drop it without a cleanup.                            *)
(***************************************************************************)
CarriedByWorker(f) == \E w \in Busy : job[w].index = f /\ ~job[w].err

CarriedByChannel(f) ==
    \E i \in 1 .. Len(results) : results[i].index = f /\ ~results[i].err

Parked(f) == \E r \in pending : r.index = f

InHand(f) == cpc = "handle" /\ res.index = f

Carried(f) == CarriedByWorker(f) \/ CarriedByChannel(f) \/ Parked(f) \/ InHand(f)

Fresh ==
    /\ \A f \in Files : f > taken => buf[f] # "held"
    /\ \A w \in Workers :
          wpc[w] = "compress" => buf[job[w].index] # "held" /\ ~job[w].err

HeldIsCarried == \A f \in Files : buf[f] = "held" => Carried(f)

NothingLost == ~InOrder /\ Misjudged = {} => \A f \in Files : buf[f] # "lost"

BInv ==
    /\ Fresh
    /\ HeldIsCarried
    /\ NothingLost
    /\ cpc = "returned" => resultsClosed /\ results = << >>

\* WriteFiles starts without buffers.
LEMMA InitBInv == Init => BInv
BY DEF Init, BInv, Fresh, HeldIsCarried, NothingLost

\* Releasing a result frees its buffer and touches no other.
LEMMA ReleaseFrees ==
    ASSUME IInv, NEW r \in Result, Release(r)
    PROVE  /\ buf'[r.index] # "held"
           /\ \A f \in Files : f # r.index => buf'[f] = buf[f]
           /\ \A f \in Files : buf'[f] = "held" => buf[f] = "held"
           /\ \A f \in Files : buf'[f] = "lost" => buf[f] = "lost"
BY DEF Release, IInv, TypeOK, Result

(***************************************************************************)
(* Steps of a worker.                                                      *)
(***************************************************************************)
\* The file a worker receives has no buffer yet.
LEMMA TakeBInv == ASSUME IInv, BInv, NEW w \in Workers, Take(w) PROVE BInv'
<1> DEFINE f == taken + 1
<1>0. /\ wpc[w] = "receive" /\ taken < sent /\ w \notin Busy
      /\ taken' = f /\ f \in Files /\ taken \in Nat /\ N \in Nat
      /\ Busy' = Busy \cup {w} /\ job'[w].index = f /\ ~job'[w].err
      /\ \A v \in Workers : v # w => job'[v] = job[v] /\ wpc'[v] = wpc[v]
      /\ UNCHANGED <<results, resultsClosed, cpc, res, pending, buf>>
  BY WriterAssumption DEF Take, IInv, TypeOK, Busy, Files, dispatchVars, collectorVars
<1>1. Fresh'
  <2>1. \A g \in Files : g > taken' => buf'[g] # "held"
    BY <1>0 DEF BInv, Fresh, Files
  <2>2. buf[f] # "held"
    BY <1>0 DEF BInv, Fresh
  <2> QED
    BY <1>0, <2>1, <2>2 DEF BInv, Fresh
<1>2. \A g : Carried(g) => Carried(g)'
  BY <1>0 DEF Carried, CarriedByWorker, CarriedByChannel, Parked, InHand, Busy
<1> QED
  BY <1>0, <1>1, <1>2 DEF BInv, HeldIsCarried, NothingLost

\* A worker that ends had no file.
LEMMA ExitBInv == ASSUME IInv, BInv, NEW w \in Workers, Exit(w) PROVE BInv'
<1>0. /\ wpc[w] = "receive" /\ taken \in Nat /\ taken' \in Nat /\ taken <= taken'
      /\ wpc' = [wpc EXCEPT ![w] = "exited"]
      /\ UNCHANGED <<job, results, resultsClosed, cpc, res, pending, buf>>
  BY DEF Exit, IInv, TypeOK, collectorVars
<1>1. Busy' = Busy /\ \A v \in Workers : wpc'[v] = "compress" => wpc[v] = "compress"
  BY <1>0 DEF Busy, IInv, TypeOK
<1>2. Fresh'
  BY <1>0, <1>1, WriterAssumption DEF BInv, Fresh, Files
<1>3. \A g : Carried(g) => Carried(g)'
  BY <1>0, <1>1 DEF Carried, CarriedByWorker, CarriedByChannel, Parked, InHand
<1> QED
  BY <1>0, <1>2, <1>3 DEF BInv, HeldIsCarried, NothingLost

\* A buffer is taken for the worker's own file; without one the file had none.
LEMMA OpenBInv == ASSUME IInv, BInv, NEW w \in Workers, Open(w) PROVE BInv'
<1>0. /\ wpc[w] = "compress" /\ w \in Busy /\ Busy' = Busy
      /\ wpc'[w] \in {"send", "encode"}
      /\ \A v \in Workers : v # w => wpc'[v] = wpc[v] /\ job'[v] = job[v]
      /\ UNCHANGED <<taken, results, resultsClosed, cpc, res, pending>>
  BY DEF Open, IInv, TypeOK, Busy, dispatchVars, collectorVars
<1>1. PICK f \in Files : f = job[w].index /\ f <= taken /\ taken \in Nat /\ f \in Nat
  BY <1>0, WriterAssumption DEF IInv, Owned, Owns, Result, TypeOK, Files
<1>2. \A v \in Busy : v # w => job[v].index # f
  BY <1>0, <1>1 DEF IInv, Apart
<1>3. \A g \in Files : g # f => buf'[g] = buf[g]
  BY <1>1 DEF Open, IInv, TypeOK
<1>4. buf[f] # "held"
  BY <1>0, <1>1 DEF BInv, Fresh
<1>5. Fresh'
  <2>1. \A g \in Files : g > taken' => buf'[g] # "held"
    BY <1>0, <1>1, <1>3 DEF BInv, Fresh
  <2>2. ASSUME NEW v \in Workers, wpc'[v] = "compress" PROVE buf'[job'[v].index] # "held" /\ ~job'[v].err
    <3>1. v # w /\ v \in Busy /\ job'[v] = job[v] /\ wpc[v] = "compress"
      BY <1>0, <2>2 DEF Busy
    <3>2. job[v].index \in Files /\ job[v].index # f
      BY <1>2, <3>1 DEF IInv, Owned, Owns, Result
    <3> QED
      BY <1>3, <3>1, <3>2 DEF BInv, Fresh
  <2> QED
    BY <2>1, <2>2 DEF Fresh
<1>6. \A g : g # f /\ Carried(g) => Carried(g)'
  BY <1>0, <1>1 DEF Carried, CarriedByWorker, CarriedByChannel, Parked, InHand, Busy
<1>7. buf'[f] = "held" => Carried(f)'
  <2> SUFFICES ASSUME buf'[f] = "held" PROVE Carried(f)'
    OBVIOUS
  <2>1. job' = job
    BY <1>1, <1>4 DEF Open
  <2>2. ~job[w].err
    BY <1>0 DEF BInv, Fresh
  <2> QED
    BY <1>0, <1>1, <2>1, <2>2 DEF Carried, CarriedByWorker
<1>8. \A g \in Files : buf'[g] = "lost" => buf[g] = "lost"
  BY <1>1 DEF Open, IInv, TypeOK
<1>9. HeldIsCarried'
  <2> SUFFICES ASSUME NEW g \in Files, buf'[g] = "held" PROVE Carried(g)'
    BY DEF HeldIsCarried
  <2>1. CASE g = f
    BY <1>7, <2>1
  <2>2. CASE g # f
    BY <1>3, <1>6, <2>2 DEF BInv, HeldIsCarried
  <2> QED
    BY <2>1, <2>2
<1>10. NothingLost'
  BY <1>8 DEF BInv, NothingLost
<1> QED
  BY <1>0, <1>5, <1>9, <1>10 DEF BInv

\* Only success leaves the buffer with the worker; an error comes without one.
LEMMA EncodeBInv == ASSUME IInv, BInv, NEW w \in Workers, Encode(w) PROVE BInv'
<1> DEFINE f == job[w].index
<1>0. /\ wpc[w] = "encode" /\ w \in Busy /\ Busy' = Busy /\ wpc'[w] = "send"
      /\ \A v \in Workers : v # w => wpc'[v] = wpc[v] /\ job'[v] = job[v]
      /\ UNCHANGED <<taken, results, resultsClosed, cpc, res, pending>>
  BY DEF Encode, IInv, TypeOK, Busy, dispatchVars, collectorVars
<1>1. f \in Files
  BY <1>0 DEF IInv, Owned, Owns, Result
<1>2. /\ \A g \in Files : g # f => buf'[g] = buf[g]
      /\ \A g \in Files : buf'[g] = "held" => buf[g] = "held" /\ (g = f => job' = job)
      /\ f \notin Misjudged /\ buf'[f] = "lost" => buf[f] = "lost"
  BY <1>1 DEF Encode, IInv, TypeOK
<1>3. Fresh'
  <2>1. ASSUME NEW v \in Workers, wpc'[v] = "compress"
        PROVE  buf'[job'[v].index] # "held" /\ ~job'[v].err
    <3>1. v # w /\ v \in Busy /\ job'[v] = job[v] /\ wpc[v] = "compress"
      BY <1>0, <2>1 DEF Busy
    <3>2. job[v].index \in Files
      BY <3>1 DEF IInv, Owned, Owns, Result
    <3> QED
      BY <1>2, <3>1, <3>2 DEF BInv, Fresh
  <2> QED
    BY <1>0, <1>2, <2>1 DEF BInv, Fresh
<1>4. \A g : (g # f \/ job' = job) /\ Carried(g) => Carried(g)'
  BY <1>0 DEF Carried, CarriedByWorker, CarriedByChannel, Parked, InHand, Busy
<1>5. HeldIsCarried'
  BY <1>2, <1>4 DEF BInv, HeldIsCarried
<1>6. NothingLost'
  BY <1>1, <1>2 DEF BInv, NothingLost
<1> QED
  BY <1>0, <1>3, <1>5, <1>6 DEF BInv

\* A result takes its buffer into the channel, or is released.
LEMMA SendBInv == ASSUME IInv, BInv, NEW w \in Workers, Send(w) PROVE BInv'
<1>0. /\ w \in Busy /\ Busy' = Busy \ {w}
      /\ \A v \in Workers : wpc'[v] = "compress" => wpc[v] = "compress" /\ v \in Busy
      /\ UNCHANGED <<taken, job, resultsClosed, cpc, res, pending>>
  BY DEF Send, IInv, TypeOK, Busy, dispatchVars, collectorVars
<1>1. job[w] \in Result /\ \A v \in Busy : job[v].index \in Files
  BY <1>0 DEF IInv, Owned, Owns, Result
<1>2. cpc # "returned"
  <2>1. wpc[w] # "exited"
    BY <1>0 DEF Busy
  <2> QED
    BY <2>1 DEF BInv, IInv, Complete
<1>3. CASE Len(results) < Capacity /\ results' = Append(results, job[w]) /\ UNCHANGED <<pool, buf>>
  <2>1. /\ Len(results') = Len(results) + 1 /\ Len(results) \in Nat
        /\ \A i \in 1 .. Len(results) : results'[i] = results[i]
        /\ results'[Len(results) + 1] = job[w]
    BY <1>1, <1>3 DEF IInv, TypeOK
  <2>2. \A g : CarriedByWorker(g) => CarriedByWorker(g)' \/ CarriedByChannel(g)'
    BY <1>0, <2>1 DEF CarriedByWorker, CarriedByChannel
  <2>3. \A g : CarriedByChannel(g) => CarriedByChannel(g)'
    BY <2>1 DEF CarriedByChannel
  <2>4. \A g : Carried(g) => Carried(g)'
    BY <1>0, <2>2, <2>3 DEF Carried, Parked, InHand
  <2> QED
    BY <1>0, <1>2, <1>3, <2>4 DEF BInv, Fresh, HeldIsCarried, NothingLost
<1>4. CASE cancelled /\ Release(job[w]) /\ UNCHANGED results
  <2>1. \A g : g # job[w].index /\ Carried(g) => Carried(g)'
    BY <1>0, <1>4 DEF Carried, CarriedByWorker, CarriedByChannel, Parked, InHand
  <2>2. HeldIsCarried'
    BY <1>1, <1>4, <2>1, ReleaseFrees DEF BInv, HeldIsCarried
  <2>3. Fresh' /\ NothingLost'
    BY <1>0, <1>1, <1>4, ReleaseFrees DEF BInv, Fresh, NothingLost
  <2> QED
    BY <1>0, <1>2, <2>2, <2>3 DEF BInv
<1> QED
  BY <1>3, <1>4 DEF Send

(***************************************************************************)
(* Steps of the collector.                                                 *)
(***************************************************************************)
\* Whatever the channel holds beyond its first result stays there.
LEMMA ChannelMovesUp ==
    ASSUME IInv, results # << >>, results' = Tail(results), NEW g, CarriedByChannel(g)
    PROVE  CarriedByChannel(g)' \/ (Head(results).index = g /\ ~Head(results).err)
BY Received DEF CarriedByChannel

\* A result thrown away is released.
LEMMA DiscardBInv == ASSUME IInv, BInv, Discard PROVE BInv'
<1>0. /\ cpc = "receive" /\ results # << >> /\ results' = Tail(results)
      /\ Release(Head(results))
      /\ UNCHANGED <<taken, wpc, job, resultsClosed, cpc, res, pending>>
  BY DEF Discard, dispatchVars, workerVars, collectorVars
<1>1. Head(results) \in Result /\ \A v \in Busy : job[v].index \in Files
  BY <1>0, Received DEF IInv, Owned, Owns, Result
<1>2. \A g : g # Head(results).index /\ Carried(g) => Carried(g)'
  BY <1>0, ChannelMovesUp DEF Carried, CarriedByWorker, Parked, InHand, Busy
<1>3. HeldIsCarried'
  BY <1>0, <1>1, <1>2, ReleaseFrees DEF BInv, HeldIsCarried
<1>4. Fresh' /\ NothingLost'
  BY <1>0, <1>1, ReleaseFrees DEF BInv, Fresh, NothingLost, Busy
<1> QED
  BY <1>0, <1>3, <1>4 DEF BInv

\* A result with an error may be dropped: it holds no buffer.
LEMMA WorkerFailedBInv == ASSUME IInv, BInv, WorkerFailed PROVE BInv'
<1>0. /\ cpc = "receive" /\ results # << >> /\ results' = Tail(results)
      /\ Head(results).err
      /\ UNCHANGED <<taken, wpc, job, resultsClosed, cpc, res, pending, buf>>
  BY DEF WorkerFailed, dispatchVars, workerVars
<1>1. \A g : Carried(g) => Carried(g)'
  BY <1>0, ChannelMovesUp DEF Carried, CarriedByWorker, Parked, InHand, Busy
<1> QED
  BY <1>0, <1>1 DEF BInv, Fresh, HeldIsCarried, NothingLost

\* A good result is in the collector's hand or parked.
LEMMA AcceptBInv == ASSUME IInv, BInv, Accept PROVE BInv'
<1>0. /\ cpc = "receive" /\ results # << >> /\ results' = Tail(results)
      /\ \/ cpc' = "handle" /\ res' = Head(results) /\ UNCHANGED pending
         \/ pending' = pending \cup {Head(results)} /\ UNCHANGED <<cpc, res>>
      /\ UNCHANGED <<taken, wpc, job, resultsClosed, buf>>
  BY DEF Accept, dispatchVars, workerVars
<1>1. \A g : Carried(g) => Carried(g)'
  <2>1. \A g : CarriedByWorker(g) => CarriedByWorker(g)'
    BY <1>0 DEF CarriedByWorker, Busy
  <2>2. \A g : CarriedByChannel(g) => CarriedByChannel(g)' \/ Parked(g)' \/ InHand(g)'
    BY <1>0, ChannelMovesUp DEF Parked, InHand
  <2>3. \A g : (Parked(g) => Parked(g)') /\ ~InHand(g)
    BY <1>0 DEF Parked, InHand
  <2> QED
    BY <2>1, <2>2, <2>3 DEF Carried
<1> QED
  BY <1>0, <1>1 DEF BInv, Fresh, HeldIsCarried, NothingLost

\* A result that is written is released; one whose turn comes is in hand.
LEMMA HandleOKBInv == ASSUME IInv, BInv, HandleOK PROVE BInv'
<1>0. /\ cpc = "handle" /\ Release(res)
      /\ \/ res' \in pending /\ pending' = pending \ {res'} /\ cpc' = cpc
         \/ cpc' = "receive" /\ UNCHANGED <<res, pending>>
      /\ UNCHANGED <<taken, wpc, job, results, resultsClosed>>
  BY DEF HandleOK, dispatchVars, workerVars
<1>1. res \in Result /\ \A v \in Busy : job[v].index \in Files
  BY <1>0 DEF IInv, Owned, Owns, Result
<1>2. \A g : g # res.index /\ Carried(g) => Carried(g)'
  BY <1>0 DEF Carried, CarriedByWorker, CarriedByChannel, Parked, InHand, Busy
<1>3. HeldIsCarried'
  BY <1>0, <1>1, <1>2, ReleaseFrees DEF BInv, HeldIsCarried
<1>4. Fresh' /\ NothingLost'
  BY <1>0, <1>1, ReleaseFrees DEF BInv, Fresh, NothingLost, Busy
<1> QED
  BY <1>0, <1>3, <1>4 DEF BInv

\* A result that could not be written is released before the error is told.
LEMMA HandleFailedBInv == ASSUME IInv, BInv, HandleFailed PROVE BInv'
<1>0. /\ cpc = "handle" /\ cpc' = "report" /\ Release(res)
      /\ UNCHANGED <<taken, wpc, job, results, resultsClosed, res, pending>>
  BY DEF HandleFailed, dispatchVars, workerVars
<1>1. res \in Result /\ \A v \in Busy : job[v].index \in Files
  BY <1>0 DEF IInv, Owned, Owns, Result
<1>2. \A g : g # res.index /\ Carried(g) => Carried(g)'
  BY <1>0 DEF Carried, CarriedByWorker, CarriedByChannel, Parked, InHand, Busy
<1>3. HeldIsCarried'
  BY <1>0, <1>1, <1>2, ReleaseFrees DEF BInv, HeldIsCarried
<1>4. Fresh' /\ NothingLost'
  BY <1>0, <1>1, ReleaseFrees DEF BInv, Fresh, NothingLost, Busy
<1> QED
  BY <1>0, <1>3, <1>4 DEF BInv

\* The results parked at the return lose their buffers; without an order to
\* keep there are none.
LEMMA ReturnBInv == ASSUME IInv, BInv, Return PROVE BInv'
<1>0. /\ cpc = "receive" /\ results = << >> /\ resultsClosed /\ cpc' = "returned"
      /\ buf' = [f \in Files |-> IF \E r \in pending : r.index = f /\ buf[f] = "held"
                                 THEN "lost" ELSE buf[f]]
      /\ UNCHANGED <<taken, wpc, job, results, resultsClosed, res, pending>>
  BY DEF Return, dispatchVars, workerVars
<1>1. \A f \in Files : buf'[f] = "held" => buf[f] = "held"
  BY <1>0
<1>2. \A f \in Files : ~InOrder => buf'[f] = buf[f]
  BY <1>0 DEF IInv, Turns
<1>3. \A v \in Workers : wpc[v] # "compress"
  BY <1>0 DEF IInv, Complete
<1>4. \A g : Carried(g) => Carried(g)'
  BY <1>0 DEF Carried, CarriedByWorker, CarriedByChannel, Parked, InHand, Busy
<1> QED
  BY <1>0, <1>1, <1>2, <1>3, <1>4 DEF BInv, Fresh, HeldIsCarried, NothingLost

(***************************************************************************)
(* Every reachable state satisfies the invariant.                          *)
(***************************************************************************)
\* The dispatcher, the closer, the caller and a cancellation touch no buffer.
LEMMA OthersBInv ==
    ASSUME IInv, BInv,
           Dispatch \/ CloseTasks \/ CloseResults \/ Report \/ GiveUp \/ UNCHANGED vars
    PROVE  BInv'
<1>0. /\ UNCHANGED <<taken, wpc, job, results, res, pending, buf>>
      /\ resultsClosed => resultsClosed'
      /\ cpc' = cpc \/ (cpc = "report" /\ cpc' = "receive")
  BY DEF Dispatch, CloseTasks, CloseResults, Report, GiveUp, vars, dispatchVars,
         workerVars, collectorVars
<1>1. \A g : Carried(g) => Carried(g)'
  BY <1>0 DEF Carried, CarriedByWorker, CarriedByChannel, Parked, InHand, Busy
<1> QED
  BY <1>0, <1>1 DEF BInv, Fresh, HeldIsCarried, NothingLost

\* No step breaks the invariant.
LEMMA NextBInv == IInv /\ BInv /\ [Next]_vars => BInv'
<1> SUFFICES ASSUME IInv, BInv, [Next]_vars PROVE BInv'
  OBVIOUS
<1>1. ASSUME NEW w \in Workers, Worker(w) PROVE BInv'
  BY <1>1, TakeBInv, ExitBInv, OpenBInv, EncodeBInv, SendBInv DEF Worker
<1>2. CASE Collector
  BY <1>2, DiscardBInv, WorkerFailedBInv, AcceptBInv, HandleOKBInv, HandleFailedBInv,
     ReturnBInv, OthersBInv DEF Collector
<1>3. CASE Dispatch \/ CloseTasks \/ CloseResults \/ GiveUp \/ UNCHANGED vars
  BY <1>3, OthersBInv
<1> QED
  BY <1>1, <1>2, <1>3 DEF Next

\* Every buffer that is held is held by a result that is on its way.
THEOREM BuffersCarried == Spec => []BInv
BY InitBInv, NextBInv, Invariance, PTL DEF Spec

\* Without an order to keep and without a file of the wrong size, WriteFiles
\* returns with every buffer freed, whatever failed and whenever the context was
\* cancelled: for any number of files and workers.
THEOREM BuffersAreFreed ==
    ASSUME ~InOrder, Misjudged = {}
    PROVE  Spec => []BuffersFreed
<1>1. ASSUME IInv, BInv PROVE BuffersFreed
  <2> SUFFICES ASSUME cpc = "returned", NEW f \in Files PROVE buf[f] \in {"none", "freed"}
    BY DEF BuffersFreed
  <2>1. Busy = {} /\ results = << >> /\ pending = {}
    BY <1>1 DEF BInv, IInv, Complete, Turns, Busy
  <2>2. ~Carried(f)
    BY <2>1 DEF Carried, CarriedByWorker, CarriedByChannel, Parked, InHand
  <2> QED
    BY <1>1, <2>2 DEF BInv, HeldIsCarried, NothingLost, IInv, TypeOK
<1> QED
  BY <1>1, BuffersCarried, Invariance, PTL

\* Without an order to keep there are never more buffers than workers, places in
\* the channel and the collector's one hand: for any number of files and workers.
THEOREM PipelineIsBounded == Spec => []PipelineBound
<1>1. ASSUME IInv, BInv PROVE PipelineBound
  <2> SUFFICES ASSUME ~InOrder
               PROVE  Cardinality(Held) <= Cardinality(Workers) + Capacity + 1
    BY DEF PipelineBound
  <2> DEFINE n == Len(results)
             ByWorker == [w \in Workers |-> job[w].index]
             ByPlace == [i \in 1 .. n |-> results[i].index]
             W == {ByWorker[w] : w \in Workers}
             P == {ByPlace[i] : i \in 1 .. n}
  <2>1. n \in Nat /\ n <= Capacity /\ Capacity \in Nat
    BY <1>1, CapacityNat DEF IInv, TypeOK
  <2>2. Held \subseteq (W \cup P) \cup {res.index}
    <3> SUFFICES ASSUME NEW f \in Files, buf[f] = "held"
                 PROVE  f \in W \/ f \in P \/ f = res.index
      BY DEF Held
    <3>1. Carried(f) /\ ~Parked(f)
      BY <1>1 DEF BInv, HeldIsCarried, IInv, Turns, Parked
    <3> QED
      BY <3>1 DEF Carried, CarriedByWorker, CarriedByChannel, InHand, Busy
  <2>3. IsFiniteSet(W) /\ Cardinality(W) <= Cardinality(Workers)
    <3>1. ByWorker \in Surjection(Workers, W)
      BY DEF Surjection
    <3> QED
      BY <3>1, WriterAssumption, FS_Surjection
  <2>4. IsFiniteSet(P) /\ Cardinality(P) <= n
    <3>1. ByPlace \in Surjection(1 .. n, P)
      BY DEF Surjection
    <3>2. IsFiniteSet(1 .. n) /\ Cardinality(1 .. n) = n
      <4> HIDE DEF n
      <4>1. /\ IsFiniteSet(1 .. n)
            /\ Cardinality(1 .. n) = IF 1 > n THEN 0 ELSE n - 1 + 1
        BY <2>1, FS_Interval
      <4> QED
        BY <2>1, <4>1
    <3> QED
      BY <3>1, <3>2, FS_Surjection
  <2>5. /\ Cardinality(W) \in Nat /\ Cardinality(P) \in Nat
        /\ Cardinality(Workers) \in Nat
    BY <2>3, <2>4, WriterAssumption, FS_CardinalityType
  <2>6. IsFiniteSet(W \cup P) /\ Cardinality(W \cup P) <= Cardinality(W) + Cardinality(P)
    <3> HIDE DEF W, P
    <3>1. IsFiniteSet(W \cup P) /\ IsFiniteSet(W \cap P)
      BY <2>3, <2>4, FS_Union, FS_Intersection
    <3>2. Cardinality(W \cap P) \in Nat
      BY <3>1, FS_CardinalityType
    <3>3. Cardinality(W \cup P) = Cardinality(W) + Cardinality(P) - Cardinality(W \cap P)
      BY <2>3, <2>4, FS_Union
    <3> QED
      BY <2>5, <3>1, <3>2, <3>3
  <2> DEFINE All == (W \cup P) \cup {res.index}
  <2>7. IsFiniteSet(All) /\ Cardinality(All) <= Cardinality(W \cup P) + 1
    <3> HIDE DEF W, P
    <3> QED
      BY <2>6, FS_AddElement, FS_CardinalityType
  <2>8. Cardinality(Held) <= Cardinality(All)
    BY <2>2, <2>7, FS_Subset
  <2>9. /\ Cardinality(Held) \in Nat /\ Cardinality(All) \in Nat
        /\ Cardinality(W \cup P) \in Nat
    <3> HIDE DEF W, P
    <3>1. IsFiniteSet(Held)
      BY <2>2, <2>7, FS_Subset
    <3> QED
      BY <2>6, <2>7, <3>1, FS_CardinalityType
  <2> HIDE DEF W, P, All, n
  <2> QED
    BY <2>1, <2>3, <2>4, <2>5, <2>6, <2>7, <2>8, <2>9
<1> QED
  BY <1>1, BuffersCarried, Invariance, PTL
=============================================================================
