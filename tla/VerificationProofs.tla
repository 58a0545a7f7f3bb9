------------------------- MODULE VerificationProofs -------------------------
(***************************************************************************)
(* Zip.Verify with any number of files and workers: nil means verified,    *)
(* errors and callbacks agree, and no worker waits to report its error.    *)
(***************************************************************************)
EXTENDS Verification, FiniteSetTheorems, TLAPS

HasFile == Steps \ {"idle", "gone"}
Reported == {"done", "count error", "load total", "load processed", "load errors", "tell"}

InHand(f) == \E w \in Workers : job[w] = f
InErrors(f) == \E i \in DOMAIN errChan : errChan[i] = f
Passes(d) == d.fault = "none" \/ Invisible(d)

(* A worker's file is its own and nothing has been told of it; its error   *)
(* is in the channel if it failed and has reported.                        *)
Owner(w) ==
    /\ job[w] <= sent
    /\ wpc[w] = "idle" => job[w] = 0
    /\ wpc[w] \in HasFile => job[w] # 0
    /\ wpc[w] = "gone" /\ job[w] # 0 => cancelled
    /\ wpc[w] \in {"read", "count"} => ~ Sealed(data[job[w]])
    /\ wpc[w] \in Reported \cup {"report"} /\ ~ failed[w] => Passes(data[job[w]])
    /\ job[w] # 0 =>
         /\ told[job[w]] = <<>>
         /\ InErrors(job[w]) <=> failed[w] /\ wpc[w] \in Reported

Apart == \A w, v \in Workers : job[w] # 0 /\ job[w] = job[v] => w = v

(* A file that is in no hand has not been given yet, or has been told of   *)
(* once, in agreement with the channel.                                    *)
Laid(f) ==
    /\ told[f] = <<>> \/ Len(told[f]) = 1
    /\ f > sent => told[f] = <<>> /\ ~ InErrors(f)
    /\ f <= sent /\ ~ InHand(f) => told[f] # <<>>
    /\ ~ InHand(f) => (InErrors(f) <=> told[f] # <<>> /\ told[f][1].failed)
    /\ told[f] # <<>> /\ ~ told[f][1].failed => Passes(data[f])

Once == \A i, j \in DOMAIN errChan : errChan[i] = errChan[j] => i = j

Caller ==
    /\ closed <=> pc # "dispatch"
    /\ closed => sent = N \/ cancelled
    /\ pc = "returned" => \A w \in Workers : wpc[w] = "gone"

IInv == /\ TypeOK /\ Apart /\ Once /\ Caller
        /\ \A w \in Workers : Owner(w)
        /\ \A f \in Files : Laid(f)

(* File 0 is none.                                                        *)
LEMMA FilesNat == Files \subseteq Nat /\ Files = 1..N /\ N \in Nat /\ 0 \notin Files
BY VerificationAssumption DEF Files

(* The steps at which a worker has a file, and has reported it.            *)
LEMMA StepsApart ==
    /\ \A step \in Reported : step \in HasFile
    /\ \A step \in HasFile : step \in Steps /\ step # "idle" /\ step # "gone"
    /\ \A step \in {"given", "read", "count", "report"} : step \in HasFile /\ step \in Steps /\ step \notin Reported
    /\ \A step \in {"idle", "gone"} : step \in Steps /\ step \notin Reported
    /\ {"done", "count error", "load total", "load processed", "load errors", "tell"} \subseteq Reported
BY DEF Reported, HasFile, Steps

(* The invariant holds at the start: nothing is in a hand, nothing is told.*)
LEMMA InitIInv == Init => IInv
<1> SUFFICES ASSUME Init PROVE IInv
    OBVIOUS
<1>1. TypeOK
    <2>1. /\ data \in [Files -> Condition] /\ N \in Nat /\ Blocks \in Nat
          /\ job \in [Workers -> 0..N] /\ left \in [Workers -> 0..Blocks] /\ sent \in 0..N
        BY VerificationAssumption DEF Init
    <2>2. errChan \in Seq(Files) /\ Len(errChan) <= Capacity
        BY <2>1 DEF Init, Capacity
    <2>3. told \in [Files -> Seq([by : Workers, failed : BOOLEAN])]
        BY DEF Init
    <2>4. stats \in [DOMAIN Zero -> Nat] /\ snap \in [Workers \cup {0} -> [DOMAIN Zero -> Nat]]
        BY DEF Init, Zero
    <2>5. /\ closed \in BOOLEAN /\ cancelled \in BOOLEAN /\ pc \in {"dispatch", "wait", "returned"}
          /\ wpc \in [Workers -> Steps] /\ failed \in [Workers -> BOOLEAN]
        BY DEF Init, Steps
    <2> QED BY <2>1, <2>2, <2>3, <2>4, <2>5 DEF TypeOK
<1>2. Apart /\ Once /\ Caller
    BY DEF Init, Apart, Once, Caller
<1>3. ASSUME NEW w \in Workers PROVE Owner(w)
    BY FilesNat DEF Init, Owner, HasFile, Reported
<1>4. ASSUME NEW f \in Files PROVE Laid(f)
    BY FilesNat DEF Init, Laid, InHand, InErrors
<1> QED BY <1>1, <1>2, <1>3, <1>4 DEF IInv

(* Steps of a worker that touch no file but its own, and no list.          *)
LEMMA OwnStep ==
    ASSUME IInv, NEW w \in Workers, TypeOK', Owner(w)', wpc[w] # "gone",
           data' = data, hand' = hand, job' = job, errChan' = errChan, told' = told, cancelled' = cancelled,
           \A v \in Workers \ {w} : wpc'[v] = wpc[v] /\ failed'[v] = failed[v]
    PROVE  IInv'
<1>1. sent' = sent /\ closed' = closed /\ pc' = pc
    BY DEF hand
<1>2. Apart' /\ Once'
    BY DEF IInv, Apart, Once
<1>3. Caller'
    BY <1>1 DEF IInv, Caller
<1>4. ASSUME NEW v \in Workers PROVE Owner(v)'
    BY <1>1 DEF IInv, Owner, InErrors
<1>5. ASSUME NEW f \in Files PROVE Laid(f)'
    BY <1>1 DEF IInv, Laid, InErrors, InHand
<1> QED BY <1>2, <1>3, <1>4, <1>5 DEF IInv

(* A file is opened, or dropped for the cancellation.                      *)
LEMMA BeginIInv == ASSUME NEW w \in Workers, IInv, Begin(w) PROVE IInv'
<1>1. TypeOK'
    <2>1. wpc' \in [Workers -> Steps]
        BY DEF IInv, TypeOK, Begin, At, To, Steps
    <2>2. left' \in [Workers -> 0..Blocks]
        <3>1. Blocks \in 0..Blocks
            BY VerificationAssumption
        <3>2. left' = left \/ left' = [left EXCEPT ![w] = Blocks]
            BY DEF Begin, worker
        <3> QED BY <3>1, <3>2 DEF IInv, TypeOK
    <2>3. failed' \in [Workers -> BOOLEAN]
        <3>1. Sealed(data[job[w]]) \in BOOLEAN
            BY DEF Sealed
        <3> QED BY <3>1 DEF IInv, TypeOK, Begin, worker
    <2> QED BY <2>1, <2>2, <2>3 DEF IInv, TypeOK, Begin, At, hand, counts, worker
<1>2. Owner(w)'
    <2>1. /\ wpc[w] = "given" /\ Owner(w) /\ job' = job /\ sent' = sent /\ data' = data
          /\ told' = told /\ errChan' = errChan /\ cancelled' = cancelled
        BY DEF IInv, Begin, At, hand, worker
    <2>2. job[w] # 0 /\ job[w] <= sent /\ told[job[w]] = <<>> /\ ~ InErrors(job[w])
        BY <2>1, StepsApart DEF Owner
    <2>3. \/ cancelled /\ wpc'[w] = "gone"
          \/ wpc'[w] = "report" /\ failed'[w]
          \/ wpc'[w] = "read" /\ ~ Sealed(data[job[w]])
        BY DEF IInv, TypeOK, Begin, To, Sealed
    <2>4. wpc'[w] \notin Reported /\ InErrors(job[w])' = InErrors(job[w])
        BY <2>1, <2>3, StepsApart DEF InErrors
    <2> QED BY <2>1, <2>2, <2>3, <2>4, StepsApart DEF Owner
<1> QED BY <1>1, <1>2, OwnStep DEF IInv, TypeOK, Begin, At, To, hand, worker

(* What passes the reading and the closing is whole or its damage cannot   *)
(* be seen.                                                                *)
LEMMA ReadJudges ==
    ASSUME NEW d \in Condition, ~ Sealed(d), ~ ReadFails(d), ~ CloseFails(d)
    PROVE  Passes(d)
BY DEF Condition, Kinds, Faults, Sealed, ReadFails, CloseFails, Passes, Invisible

(* A block is read, or the file judged.                                   *)
LEMMA ReadIInv == ASSUME NEW w \in Workers, IInv, Read(w) PROVE IInv'
<1> DEFINE d == data[job[w]]
<1>1. job[w] \in Files /\ d \in Condition /\ ~ Sealed(d) /\ wpc[w] = "read"
    <2>1. wpc[w] = "read" /\ Owner(w)
        BY DEF IInv, Read, At
    <2>2. job[w] # 0 /\ ~ Sealed(d)
        BY <2>1, StepsApart DEF Owner
    <2>3. job[w] \in Files
        BY <2>2, FilesNat DEF IInv, TypeOK
    <2> QED BY <2>1, <2>2, <2>3 DEF IInv, TypeOK
<1>2. TypeOK'
    <2>1. wpc' \in [Workers -> Steps]
        BY DEF IInv, TypeOK, Read, At, To, Steps
    <2>2. left' \in [Workers -> 0..Blocks]
        <3>1. left' = left \/ (left[w] > 0 /\ left' = [left EXCEPT ![w] = @ - 1])
            BY DEF Read
        <3>2. left \in [Workers -> 0..Blocks] /\ (left[w] > 0 => left[w] - 1 \in 0..Blocks)
            BY VerificationAssumption DEF IInv, TypeOK
        <3> QED BY <3>1, <3>2
    <2>3. failed' \in [Workers -> BOOLEAN]
        <3>1. (ReadFails(d) \/ CloseFails(d)) \in BOOLEAN
            OBVIOUS
        <3> QED BY <3>1 DEF IInv, TypeOK, Read
    <2> QED BY <2>1, <2>2, <2>3 DEF IInv, TypeOK, Read, At, hand, counts
<1>3. Owner(w)'
    <2>1. ASSUME To(w, "count"), UNCHANGED failed PROVE Owner(w)'
        BY <1>1, <2>1 DEF IInv, TypeOK, Owner, InErrors, Read, At, To, hand, counts, HasFile, Reported
    <2>2. ASSUME To(w, "report"), failed' = [failed EXCEPT ![w] = ReadFails(d) \/ CloseFails(d)] PROVE Owner(w)'
        <3>1. failed'[w] = (ReadFails(d) \/ CloseFails(d))
            BY <2>2 DEF IInv, TypeOK
        <3>2. ~ failed'[w] => Passes(d)
            BY <1>1, <3>1, ReadJudges
        <3>3. wpc'[w] = "report" /\ data' = data /\ job' = job /\ told' = told /\ errChan' = errChan /\ sent' = sent
            BY <2>2 DEF IInv, TypeOK, Read, At, To, hand
        <3>4. Owner(w) /\ InErrors(job[w])' = InErrors(job[w])
            BY <3>3 DEF IInv, InErrors
        <3> QED BY <1>1, <3>2, <3>3, <3>4, StepsApart DEF Owner
    <2> QED BY <2>1, <2>2 DEF Read
<1> QED BY <1>2, <1>3, OwnStep DEF IInv, TypeOK, Read, At, To, hand

(* What a count or a load of the snapshot does.                            *)
LEMMA CountSteps ==
    ASSUME NEW w \in Workers, TypeOK, OnRead(w) \/ CountFile(w) \/ CountError(w) \/ Load(w)
    PROVE  /\ UNCHANGED <<data, hand, worker, errChan, told, cancelled>>
           /\ stats' = stats \/ \E c \in DOMAIN Zero : stats' = [stats EXCEPT ![c] = @ + 1]
           /\ snap' = snap \/ \E c \in DOMAIN Zero : snap' = [snap EXCEPT ![w][c] = stats[c]]
           /\ \/ wpc[w] = "count" /\ To(w, "read")
              \/ wpc[w] \in Reported /\ \E s \in Reported : To(w, s)
<1>1. CASE OnRead(w)
    BY <1>1 DEF OnRead, At, Add, Zero
<1>2. CASE CountFile(w)
    BY <1>2 DEF CountFile, At, Add, Zero, Reported
<1>3. CASE CountError(w)
    BY <1>3 DEF CountError, At, Add, Zero, Reported
<1>4. CASE Load(w)
    <2>1. PICK step \in {<<"load total", "TotalRead", "load processed">>,
                         <<"load processed", "ProcessedFiles", "load errors">>,
                         <<"load errors", "Errors", "tell">>} :
             wpc[w] = step[1] /\ snap' = [snap EXCEPT ![w][step[2]] = stats[step[2]]] /\ To(w, step[3])
        BY <1>4 DEF Load
    <2>2. \/ step[1] = "load total" /\ step[2] = "TotalRead" /\ step[3] = "load processed"
          \/ step[1] = "load processed" /\ step[2] = "ProcessedFiles" /\ step[3] = "load errors"
          \/ step[1] = "load errors" /\ step[2] = "Errors" /\ step[3] = "tell"
        <3>1. CASE step = <<"load total", "TotalRead", "load processed">>
            BY <3>1
        <3>2. CASE step = <<"load processed", "ProcessedFiles", "load errors">>
            BY <3>2
        <3>3. CASE step = <<"load errors", "Errors", "tell">>
            BY <3>3
        <3> QED BY <3>1, <3>2, <3>3
    <2>3. step[2] \in DOMAIN Zero
        BY <2>2 DEF Zero
    <2>4. step[1] \in Reported /\ step[3] \in Reported
        BY <2>2, StepsApart
    <2> QED BY <1>4, <2>1, <2>3, <2>4 DEF Load
<1> QED BY <1>1, <1>2, <1>3, <1>4

(* Counting and the snapshot.                                              *)
LEMMA CountIInv ==
    ASSUME NEW w \in Workers, IInv, OnRead(w) \/ CountFile(w) \/ CountError(w) \/ Load(w)
    PROVE  IInv'
<1>1. TypeOK /\ Owner(w)
    BY DEF IInv
<1>0. /\ stats \in [DOMAIN Zero -> Nat] /\ snap \in [Workers \cup {0} -> [DOMAIN Zero -> Nat]]
      /\ \A c \in DOMAIN Zero : stats[c] + 1 \in Nat
    BY <1>1 DEF TypeOK
<1>2. stats' \in [DOMAIN Zero -> Nat]
    <2>1. stats' = stats \/ \E c \in DOMAIN Zero : stats' = [stats EXCEPT ![c] = @ + 1]
        BY <1>1, CountSteps
    <2> QED BY <1>0, <2>1
<1>3. snap' \in [Workers \cup {0} -> [DOMAIN Zero -> Nat]]
    <2>1. snap' = snap \/ \E c \in DOMAIN Zero : snap' = [snap EXCEPT ![w][c] = stats[c]]
        BY <1>1, CountSteps
    <2> QED BY <1>0, <2>1
<1>4. wpc' \in [Workers -> Steps] /\ wpc[w] # "gone"
    BY <1>1, CountSteps DEF TypeOK, To, Steps, Reported
<1>5. TypeOK'
    BY <1>1, <1>2, <1>3, <1>4, CountSteps DEF TypeOK, hand, worker
<1>6. /\ data' = data /\ sent' = sent /\ job' = job /\ failed' = failed /\ told' = told /\ errChan' = errChan
      /\ \/ wpc[w] = "count" /\ wpc'[w] = "read"
         \/ wpc[w] \in Reported /\ wpc'[w] \in Reported
    <2>1. /\ UNCHANGED <<data, hand, worker, errChan, told, cancelled>>
          /\ \/ wpc[w] = "count" /\ To(w, "read")
             \/ wpc[w] \in Reported /\ \E s \in Reported : To(w, s)
        BY <1>1, CountSteps
    <2>2. \A s : To(w, s) => wpc'[w] = s
        BY <1>1 DEF TypeOK, To
    <2> QED BY <2>1, <2>2 DEF hand, worker
<1>7. Owner(w)'
    BY <1>1, <1>6, StepsApart DEF Owner, InErrors
<1>8. \A v \in Workers \ {w} : wpc'[v] = wpc[v]
    BY <1>1, CountSteps DEF TypeOK, To
<1> QED BY <1>1, <1>4, <1>5, <1>6, <1>7, <1>8, CountSteps, OwnStep DEF hand

(* A worker leaves.                                                       *)
LEMMA LeaveIInv == ASSUME NEW w \in Workers, IInv, Leave(w) PROVE IInv'
<1>1. TypeOK'
    BY DEF IInv, TypeOK, Leave, At, To, Steps, hand, worker, counts
<1>2. Owner(w)'
    BY DEF IInv, TypeOK, Owner, InErrors, Leave, At, To, hand, worker, HasFile, Reported
<1> QED BY <1>1, <1>2, OwnStep DEF IInv, TypeOK, Leave, At, To, hand, worker

(* Giving a file to a worker: the file was nowhere.                        *)
LEMMA ReceiveIInv == ASSUME NEW w \in Workers, IInv, Receive(w) PROVE IInv'
<1>1. /\ wpc[w] = "idle" /\ job[w] = 0 /\ sent \in 0..N /\ sent + 1 \in Files
      /\ \A v \in Workers : job[v] \in 0..N /\ job[v] <= sent
    BY FilesNat DEF IInv, TypeOK, Receive, At, Owner
<1>2. ~ InErrors(sent + 1) /\ told[sent + 1] = <<>>
    BY <1>1, FilesNat DEF IInv, Laid
<1>3. /\ data' = data /\ sent' = sent + 1 /\ failed' = failed /\ told' = told /\ errChan' = errChan
      /\ closed' = closed /\ pc' = pc /\ cancelled' = cancelled /\ left' = left /\ stats' = stats /\ snap' = snap
      /\ job' = [job EXCEPT ![w] = sent + 1] /\ wpc' = [wpc EXCEPT ![w] = "given"] /\ pc = "dispatch"
    BY DEF Receive, At, To, counts
<1>4. TypeOK'
    <2>1. wpc' \in [Workers -> Steps] /\ job' \in [Workers -> 0..N] /\ sent' \in 0..N
        <3>1. "given" \in Steps
            BY StepsApart
        <3>2. sent + 1 \in 0..N
            BY <1>1, FilesNat
        <3> QED BY <1>3, <3>1, <3>2 DEF IInv, TypeOK
    <2> QED BY <1>3, <2>1 DEF IInv, TypeOK
<1>5. Apart'
    BY <1>1, <1>3, FilesNat DEF IInv, TypeOK, Apart
<1>6. Once' /\ Caller'
    BY <1>3 DEF IInv, Once, Caller
<1>7. ASSUME NEW v \in Workers, v # w PROVE Owner(v)'
    <2>1. job'[v] = job[v] /\ wpc'[v] = wpc[v] /\ failed'[v] = failed[v] /\ Owner(v)
        BY <1>3, <1>7 DEF IInv, TypeOK
    <2>2. job[v] <= sent'
        BY <1>1, <1>3
    <2> QED BY <1>3, <2>1, <2>2 DEF Owner, InErrors
<1>8. Owner(w)'
    <2>1. job'[w] = sent + 1 /\ wpc'[w] = "given" /\ failed'[w] = failed[w]
        BY <1>3 DEF IInv, TypeOK
    <2>2. told'[sent + 1] = <<>> /\ ~ InErrors(job[w])'
        BY <1>2, <1>3, <2>1 DEF InErrors
    <2>3. sent + 1 <= sent' /\ sent + 1 # 0
        BY <1>1, <1>3
    <2>4. "given" \notin Reported
        BY StepsApart
    <2> QED BY <1>3, <2>1, <2>2, <2>3, <2>4 DEF Owner, InErrors
<1>9. ASSUME NEW f \in Files PROVE Laid(f)'
    <2>1. Laid(f) /\ InErrors(f)' = InErrors(f)
        BY <1>3 DEF IInv, InErrors
    <2>2. f # sent + 1 => InHand(f)' = InHand(f)
        BY <1>1, <1>3, FilesNat DEF IInv, TypeOK, InHand
    <2>3. f = sent + 1 => InHand(f)'
        BY <1>3 DEF IInv, TypeOK, InHand
    <2> QED BY <1>1, <1>2, <1>3, <2>1, <2>2, <2>3, FilesNat DEF Laid
<1> QED BY <1>4, <1>5, <1>6, <1>7, <1>8, <1>9 DEF IInv

(* A worker about to report has a file that no error is about.             *)
LEMMA Reporting ==
    ASSUME NEW w \in Workers, IInv, wpc[w] = "report"
    PROVE  job[w] \in Files /\ ~ InErrors(job[w])
<1>1. Owner(w) /\ job[w] \in 0..N
    BY DEF IInv, TypeOK
<1>2. "report" \in HasFile /\ "report" \notin Reported
    BY StepsApart
<1> QED BY <1>1, <1>2, FilesNat DEF Owner

(* The errors in the channel are about different files, none of which is   *)
(* that of a worker about to report: there is room for one more.           *)
LEMMA Room ==
    ASSUME NEW w \in Workers, IInv, wpc[w] = "report"
    PROVE  Len(errChan) < Capacity
<1> DEFINE Others == Files \ {job[w]}
<1>1. job[w] \in Files /\ ~ InErrors(job[w]) /\ errChan \in Seq(Files)
    BY Reporting DEF IInv, TypeOK
<1>2. IsFiniteSet(Others) /\ Cardinality(Others) = N - 1
    <2>1. IsFiniteSet(Files) /\ Cardinality(Files) = N
        BY FilesNat, FS_Interval
    <2> QED BY <1>1, <2>1, FS_RemoveElement
<1>3. Len(errChan) \in Nat /\ IsFiniteSet(1..Len(errChan)) /\ Cardinality(1..Len(errChan)) = Len(errChan)
    <2>1. Len(errChan) \in Nat
        BY <1>1
    <2>2. \A n \in Nat : IsFiniteSet(1..n) /\ Cardinality(1..n) = n
        <3> SUFFICES ASSUME NEW n \in Nat PROVE IsFiniteSet(1..n) /\ Cardinality(1..n) = n
            OBVIOUS
        <3>1. Cardinality(1..n) = IF 1 > n THEN 0 ELSE n - 1 + 1
            BY FS_Interval
        <3> QED BY <3>1, FS_Interval
    <2> QED BY <2>1, <2>2
<1>4. errChan \in [1..Len(errChan) -> Others]
    BY <1>1 DEF InErrors
<1>5. \A x, y \in 1..Len(errChan) : errChan[x] = errChan[y] => x = y
    BY <1>1 DEF IInv, Once
<1>6. ~ (N - 1 < Len(errChan))
    <2> SUFFICES ASSUME N - 1 < Len(errChan) PROVE FALSE
        OBVIOUS
    <2> HIDE DEF Others
    <2>1. \E x, y \in 1..Len(errChan) : x # y /\ errChan[x] = errChan[y]
        BY <1>2, <1>3, <1>4, FS_PigeonHole
    <2> QED BY <1>5, <2>1
<1> QED BY <1>3, <1>6, FilesNat DEF Capacity

(* A failure goes to the channel.                                          *)
LEMMA ReportIInv == ASSUME NEW w \in Workers, IInv, Report(w) PROVE IInv'
<1>1. /\ data' = data /\ sent' = sent /\ closed' = closed /\ pc' = pc /\ cancelled' = cancelled
      /\ job' = job /\ left' = left /\ failed' = failed /\ stats' = stats /\ snap' = snap /\ told' = told
      /\ wpc' = [wpc EXCEPT ![w] = "done"] /\ wpc[w] = "report"
    BY DEF Report, At, To, hand, worker, counts
<1>2. job[w] \in Files /\ ~ InErrors(job[w]) /\ errChan \in Seq(Files) /\ Owner(w)
    BY <1>1, Reporting DEF IInv, TypeOK
<1>3. IF failed[w] THEN Len(errChan) < Capacity /\ errChan' = Append(errChan, job[w]) ELSE errChan' = errChan
    BY DEF Report
<1>4. "done" \in Reported /\ "done" \in Steps /\ "done" \in HasFile /\ "done" # "gone" /\ "done" # "idle"
    BY StepsApart
<1>5. errChan' \in Seq(Files) /\ Len(errChan') <= Capacity
    <2>1. N \in Nat /\ Len(errChan) \in Nat /\ Len(errChan) <= Capacity
        BY <1>2, FilesNat DEF IInv, TypeOK
    <2>2. CASE failed[w]
        <3>1. errChan' \in Seq(Files) /\ Len(errChan') = Len(errChan) + 1
            BY <1>2, <1>3, <2>2
        <3> QED BY <1>3, <2>1, <2>2, <3>1 DEF Capacity
    <2>3. CASE ~ failed[w]
        BY <1>2, <1>3, <2>1, <2>3
    <2> QED BY <2>2, <2>3
<1>6. TypeOK'
    BY <1>1, <1>4, <1>5 DEF IInv, TypeOK, Capacity
<1>7. \A f : InErrors(f)' <=> InErrors(f) \/ (failed[w] /\ f = job[w])
    <2>1. CASE failed[w]
        <3>1. /\ Len(errChan') = Len(errChan) + 1 /\ errChan'[Len(errChan) + 1] = job[w]
              /\ \A i \in 1..Len(errChan) : errChan'[i] = errChan[i]
            BY <1>2, <1>3, <2>1
        <3> QED BY <1>2, <1>5, <2>1, <3>1 DEF InErrors
    <2>2. CASE ~ failed[w]
        BY <1>3, <2>2 DEF InErrors
    <2> QED BY <2>1, <2>2
<1>8. Once'
    <2>1. CASE failed[w]
        <3>1. /\ Len(errChan') = Len(errChan) + 1 /\ errChan'[Len(errChan) + 1] = job[w]
              /\ \A i \in 1..Len(errChan) : errChan'[i] = errChan[i] /\ errChan[i] # job[w]
            BY <1>2, <1>3, <2>1 DEF InErrors
        <3> QED BY <1>2, <1>5, <3>1 DEF IInv, Once
    <2>2. CASE ~ failed[w]
        BY <1>3, <2>2 DEF IInv, Once
    <2> QED BY <2>1, <2>2
<1>9. Apart' /\ Caller'
    <2>1. pc # "returned"
        BY <1>1 DEF IInv, Caller
    <2> QED BY <1>1, <2>1 DEF IInv, Apart, Caller
<1>10. ASSUME NEW v \in Workers, v # w PROVE Owner(v)'
    <2>1. wpc'[v] = wpc[v] /\ Owner(v) /\ (job[v] # 0 => job[v] # job[w])
        BY <1>1, <1>10 DEF IInv, TypeOK, Apart
    <2> QED BY <1>1, <1>7, <2>1 DEF Owner
<1>11. Owner(w)'
    <2>1. wpc'[w] = "done"
        BY <1>1 DEF IInv, TypeOK
    <2>2. failed'[w] = failed[w] /\ job'[w] = job[w] /\ data' = data /\ told' = told /\ sent' = sent
        BY <1>1
    <2>3. job[w] <= sent /\ job[w] # 0 /\ told[job[w]] = <<>> /\ (~ failed[w] => Passes(data[job[w]]))
        BY <1>1, <1>2, FilesNat DEF Owner
    <2>4. InErrors(job[w])' <=> failed[w]
        BY <1>1, <1>2, <1>7
    <2> QED BY <1>4, <2>1, <2>2, <2>3, <2>4 DEF Owner
<1>12. ASSUME NEW f \in Files PROVE Laid(f)'
    <2>1. InHand(job[w]) /\ Laid(f) /\ InHand(f)' = InHand(f)
        BY <1>1 DEF IInv, InHand
    <2>2. job[w] <= sent
        BY <1>2 DEF Owner
    <2>3. job[w] \in Nat /\ f \in Nat /\ sent \in Nat
        BY <1>2, FilesNat DEF IInv, TypeOK
    <2>4. CASE f = job[w]
        BY <1>1, <2>1, <2>2, <2>3, <2>4 DEF Laid
    <2>5. CASE f # job[w]
        <3>1. InErrors(f)' <=> InErrors(f)
            BY <1>7, <2>5
        <3> QED BY <1>1, <2>1, <3>1 DEF Laid
    <2> QED BY <2>4, <2>5
<1> QED BY <1>6, <1>8, <1>9, <1>10, <1>11, <1>12 DEF IInv

(* The callback runs: the file leaves the hand and is laid.                *)
LEMMA TellIInv == ASSUME NEW w \in Workers, IInv, Tell(w) PROVE IInv'
<1> DEFINE mine == job[w]
           event == [by |-> w, failed |-> failed[w]]
<1>1. /\ data' = data /\ sent' = sent /\ closed' = closed /\ pc' = pc /\ cancelled' = cancelled
      /\ stats' = stats /\ errChan' = errChan /\ wpc[w] = "tell" /\ wpc' = [wpc EXCEPT ![w] = "idle"]
      /\ told' = [told EXCEPT ![mine] = Append(@, event)] /\ snap' = [snap EXCEPT ![w] = Zero]
      /\ job' = [job EXCEPT ![w] = 0] /\ left' = [left EXCEPT ![w] = 0]
      /\ failed' = [failed EXCEPT ![w] = FALSE]
    BY DEF Tell, At, To, hand
<1>2. "tell" \in HasFile /\ "tell" \in Reported /\ "idle" \in Steps /\ "idle" \notin Reported
    BY StepsApart
<1>3. mine \in Files /\ mine # 0 /\ Owner(w) /\ mine <= sent
    BY <1>1, <1>2, FilesNat DEF IInv, TypeOK, Owner
<1>4. told[mine] = <<>> /\ (InErrors(mine) <=> failed[w]) /\ (~ failed[w] => Passes(data[mine]))
    BY <1>1, <1>2, <1>3 DEF Owner
<1>5. told'[mine] = <<event>> /\ \A f \in Files \ {mine} : told'[f] = told[f]
    BY <1>1, <1>3, <1>4 DEF IInv, TypeOK
<1>6. TypeOK'
    <2>1. told' \in [Files -> Seq([by : Workers, failed : BOOLEAN])]
        <3>1. event \in [by : Workers, failed : BOOLEAN]
            BY DEF IInv, TypeOK
        <3>2. <<event>> \in Seq([by : Workers, failed : BOOLEAN])
            BY <3>1
        <3>3. told' = [told EXCEPT ![mine] = <<event>>]
            BY <1>1, <1>3, <1>4 DEF IInv, TypeOK
        <3> HIDE DEF event, mine
        <3> QED BY <3>2, <3>3 DEF IInv, TypeOK
    <2>2. job' \in [Workers -> 0..N] /\ left' \in [Workers -> 0..Blocks] /\ failed' \in [Workers -> BOOLEAN]
        <3>1. 0 \in 0..N /\ 0 \in 0..Blocks
            BY VerificationAssumption
        <3> QED BY <1>1, <3>1 DEF IInv, TypeOK
    <2>3. snap' \in [Workers \cup {0} -> [DOMAIN Zero -> Nat]] /\ wpc' \in [Workers -> Steps]
        <3>1. Zero \in [DOMAIN Zero -> Nat]
            BY DEF Zero
        <3> QED BY <1>1, <1>2, <3>1 DEF IInv, TypeOK
    <2> QED BY <1>1, <2>1, <2>2, <2>3 DEF IInv, TypeOK
<1>7. Apart' /\ Once' /\ Caller'
    <2>1. pc # "returned"
        BY <1>1 DEF IInv, Caller
    <2>2. \A v \in Workers : job'[v] # 0 => job'[v] = job[v]
        BY <1>1 DEF IInv, TypeOK
    <2> QED BY <1>1, <2>1, <2>2 DEF IInv, Apart, Once, Caller
<1>8. ASSUME NEW v \in Workers, v # w PROVE Owner(v)'
    <2>1. /\ wpc'[v] = wpc[v] /\ job'[v] = job[v] /\ failed'[v] = failed[v] /\ Owner(v)
          /\ job[v] # 0 => job[v] # mine /\ job[v] \in Files
        BY <1>1, <1>3, <1>8, FilesNat DEF IInv, TypeOK, Apart
    <2>2. job[v] # 0 => told'[job[v]] = told[job[v]]
        BY <1>5, <2>1
    <2> QED BY <1>1, <2>1, <2>2 DEF Owner, InErrors
<1>9. Owner(w)'
    <2>1. wpc'[w] = "idle" /\ job'[w] = 0 /\ 0 <= sent
        BY <1>1, FilesNat DEF IInv, TypeOK
    <2> QED BY <1>1, <1>2, <2>1, StepsApart DEF Owner
<1>10. ASSUME NEW f \in Files PROVE Laid(f)'
    <2>1. Laid(f) /\ (InErrors(f)' <=> InErrors(f)) /\ f \in Nat /\ sent \in Nat
        BY <1>1, FilesNat DEF IInv, TypeOK, InErrors
    <2>2. CASE f = mine
        <3>1. told'[f] = <<event>>
            BY <1>5, <2>2
        <3>2. Len(told'[f]) = 1 /\ told'[f][1].failed = failed[w] /\ told'[f] # <<>>
            BY <3>1
        <3> QED BY <1>1, <1>3, <1>4, <2>1, <2>2, <3>2 DEF Laid
    <2>3. CASE f # mine
        <3>1. told'[f] = told[f]
            BY <1>5, <2>3
        <3>2. InHand(f)' <=> InHand(f)
            BY <1>1, <1>3, <2>3, FilesNat DEF IInv, TypeOK, InHand
        <3> QED BY <1>1, <2>1, <3>1, <3>2 DEF Laid
    <2> QED BY <2>2, <2>3
<1> QED BY <1>6, <1>7, <1>8, <1>9, <1>10 DEF IInv

(* The caller, and the context.                                            *)
LEMMA CallerIInv == ASSUME IInv, CloseTasks \/ Return \/ Cancel \/ UNCHANGED vars PROVE IInv'
<1>1. /\ data' = data /\ sent' = sent /\ wpc' = wpc /\ job' = job /\ left' = left /\ failed' = failed
      /\ stats' = stats /\ errChan' = errChan /\ told' = told /\ (cancelled => cancelled')
    BY DEF CloseTasks, Return, Cancel, vars, hand, worker, counts
<1>2. /\ closed' \in BOOLEAN /\ pc' \in {"dispatch", "wait", "returned"} /\ cancelled' \in BOOLEAN
      /\ Caller'
    <2>1. CASE CloseTasks
        BY <2>1 DEF IInv, TypeOK, Caller, CloseTasks
    <2>2. CASE Return
        BY <2>2 DEF IInv, TypeOK, Caller, Return
    <2>3. CASE Cancel
        BY <2>3 DEF IInv, TypeOK, Caller, Cancel, hand
    <2>4. CASE UNCHANGED vars
        BY <2>4 DEF IInv, TypeOK, Caller, vars, hand
    <2> QED BY <2>1, <2>2, <2>3, <2>4
<1>3. snap' \in [Workers \cup {0} -> [DOMAIN Zero -> Nat]]
    BY DEF IInv, TypeOK, CloseTasks, Return, Cancel, vars, counts
<1>4. TypeOK'
    BY <1>1, <1>2, <1>3 DEF IInv, TypeOK
<1>5. ASSUME NEW w \in Workers PROVE Owner(w)'
    BY <1>1 DEF IInv, Owner, InErrors
<1>6. ASSUME NEW f \in Files PROVE Laid(f)'
    BY <1>1 DEF IInv, Laid, InErrors, InHand
<1>7. Apart' /\ Once'
    BY <1>1 DEF IInv, Apart, Once
<1> QED BY <1>2, <1>4, <1>5, <1>6, <1>7 DEF IInv

(* Every step keeps the invariant.                                         *)
THEOREM Invariance == Spec => []IInv
<1>1. IInv /\ [Next]_vars => IInv'
    <2> SUFFICES ASSUME IInv, [Next]_vars PROVE IInv'
        OBVIOUS
    <2>1. ASSUME NEW w \in Workers, Worker(w) PROVE IInv'
        BY <2>1, ReceiveIInv, BeginIInv, ReadIInv, CountIInv, ReportIInv, TellIInv, LeaveIInv DEF Worker
    <2> QED BY <2>1, CallerIInv DEF Next
<1> QED BY InitIInv, <1>1, PTL DEF Spec

(* Every variable has its type; the channel of errors holds no more than   *)
(* it has room for.                                                        *)
THEOREM TypeCorrect == Spec => []TypeOK
<1>1. IInv => TypeOK
    BY DEF IInv
<1> QED BY <1>1, Invariance, PTL

(* A worker with an error always finds room for it: no number of failures  *)
(* blocks the pool before the caller reads the channel.                    *)
THEOREM ErrorsFindRoom == Spec => [](\A w \in Workers : wpc[w] = "report" => Len(errChan) < Capacity)
<1>1. IInv => \A w \in Workers : wpc[w] = "report" => Len(errChan) < Capacity
    BY Room
<1> QED BY <1>1, Invariance, PTL

(* When the call comes back, the files no worker has told of are those     *)
(* never given, or dropped by a worker that saw the cancellation.          *)
LEMMA AtReturn ==
    ASSUME IInv, pc = "returned", NEW f \in Files
    PROVE  /\ InErrors(f) <=> told[f] # <<>> /\ told[f][1].failed
           /\ ~ cancelled => told[f] # <<>>
<1>1. \A w \in Workers : wpc[w] = "gone" /\ Owner(w)
    BY DEF IInv, Caller
<1>2. "gone" \notin Reported
    BY StepsApart
<1>3. CASE InHand(f)
    <2>1. PICK w \in Workers : job[w] = f
        BY <1>3 DEF InHand
    <2> QED BY <1>1, <1>2, <2>1, FilesNat DEF Owner
<1>4. CASE ~ InHand(f)
    <2>1. Laid(f) /\ f \in Nat /\ f <= N /\ (~ cancelled => sent = N)
        BY FilesNat DEF IInv, Caller
    <2> QED BY <1>4, <2>1 DEF Laid
<1> QED BY <1>3, <1>4

LEMMA AtMostOne ==
    ASSUME NEW S, NEW s \in Seq(S), s = <<>> \/ Len(s) = 1
    PROVE  Len(s) <= 1
<1>1. CASE s = <<>>
    <2>1. Len(s) = 0
        BY <1>1
    <2> QED BY <2>1
<1>2. CASE Len(s) = 1
    BY <1>2
<1> QED BY <1>1, <1>2

(* For any number of files and workers: a nil error means that every file  *)
(* was verified once and passed, and is whole but for what the readers     *)
(* cannot see.                                                             *)
THEOREM NilIsVerified == Spec => []NilMeansVerified
<1>1. ASSUME IInv PROVE NilMeansVerified
    <2> SUFFICES ASSUME IsNil, NEW f \in Files
                 PROVE  Len(told[f]) = 1 /\ ~ told[f][1].failed /\ Passes(data[f])
        BY DEF NilMeansVerified, Passes
    <2>1. told[f] # <<>> /\ ~ InErrors(f)
        <3>1. ~ InErrors(f)
            BY DEF IsNil, InErrors
        <3> QED BY <1>1, <3>1, AtReturn DEF IsNil
    <2>2. ~ told[f][1].failed /\ Laid(f)
        BY <1>1, <2>1, AtReturn DEF IsNil, IInv
    <2>3. told[f] \in Seq([by : Workers, failed : BOOLEAN])
        BY <1>1 DEF IInv, TypeOK
    <2>4. Len(told[f]) = 1
        BY <2>1, <2>2, <2>3 DEF Laid
    <2> QED BY <2>1, <2>2, <2>4 DEF Laid
<1> QED BY <1>1, Invariance, PTL

(* For any number of files and workers, cancelled or not: an error is      *)
(* returned for a file exactly once, and exactly if OnFileDone was told of *)
(* its failure.                                                            *)
THEOREM ErrorsAgree == Spec => []ErrorsAreTold
<1>1. ASSUME IInv PROVE ErrorsAreTold
    <2> SUFFICES ASSUME pc = "returned", NEW f \in Files
                 PROVE  /\ Len(told[f]) <= 1
                        /\ Cardinality({i \in DOMAIN errChan : errChan[i] = f})
                             = Cardinality({i \in DOMAIN told[f] : told[f][i].failed})
        BY DEF ErrorsAreTold
    <2> DEFINE E == {i \in DOMAIN errChan : errChan[i] = f}
               T == {i \in DOMAIN told[f] : told[f][i].failed}
    <2>1. Len(told[f]) <= 1 /\ told[f] \in Seq([by : Workers, failed : BOOLEAN])
        <3>1. told[f] = <<>> \/ Len(told[f]) = 1
            BY <1>1 DEF IInv, Laid
        <3>2. told[f] \in Seq([by : Workers, failed : BOOLEAN])
            BY <1>1 DEF IInv, TypeOK
        <3> QED BY <3>1, <3>2, AtMostOne
    <2>2. InErrors(f) <=> told[f] # <<>> /\ told[f][1].failed
        BY <1>1, AtReturn
    <2>3. CASE InErrors(f)
        <3>1. PICK i \in DOMAIN errChan : errChan[i] = f
            BY <2>3 DEF InErrors
        <3>2. E = {i}
            BY <1>1, <3>1 DEF IInv, Once
        <3>3. T = {1}
            BY <2>1, <2>2, <2>3
        <3> QED BY <2>1, <3>2, <3>3, FS_Singleton
    <2>4. CASE ~ InErrors(f)
        <3>1. E = {}
            BY <2>4 DEF InErrors
        <3>2. T = {}
            BY <2>1, <2>2, <2>4
        <3> QED BY <2>1, <3>1, <3>2
    <2> QED BY <2>3, <2>4
<1> QED BY <1>1, Invariance, PTL

----------------------------------------------------------------------------
(* The counters.  What they count is a set of files: those that have been  *)
(* told of, and those a worker has counted and is about to tell of.  So a  *)
(* counter that is loaded while others count is never behind what the      *)
(* worker that loads it has done itself.                                   *)

Registered == {"load total", "load processed", "load errors", "tell"}
Counted == {"count error"} \cup Registered

MetFiles == {f \in Files : told[f] # <<>> \/ \E w \in Workers : wpc[w] \in Counted /\ job[w] = f}
MissedFiles ==
    {f \in Files : \/ \E i \in DOMAIN told[f] : told[f][i].failed
                   \/ \E w \in Workers : wpc[w] \in Registered /\ job[w] = f /\ failed[w]}

\* the files a worker has told of, and the one it has
Mine(w) == {f \in Files : f = job[w] \/ \E i \in DOMAIN told[f] : told[f][i].by = w}
MyFailed(w) ==
    {f \in Files : (f = job[w] /\ failed[w]) \/ \E i \in DOMAIN told[f] : told[f][i].by = w /\ told[f][i].failed}

Totals == stats.ProcessedFiles = Cardinality(MetFiles) /\ stats.Errors = Cardinality(MissedFiles)

Seen(w) ==
    /\ wpc[w] = "count error" => failed[w]
    /\ \A c \in DOMAIN Zero : snap[w][c] <= stats[c]
    /\ wpc[w] \in {"load errors", "tell"} => snap[w].ProcessedFiles >= Cardinality(Mine(w))
    /\ wpc[w] = "tell" => snap[w].Errors >= Cardinality(MyFailed(w))

CInv == Totals /\ (\A w \in Workers : Seen(w)) /\ (pc = "returned" => snap[0] = stats)

(* Files are finitely many, and so are those that have been counted.       *)
LEMMA FiniteFiles == \A S \in SUBSET Files : IsFiniteSet(S) /\ Cardinality(S) \in Nat
<1>1. IsFiniteSet(Files)
    BY FilesNat, FS_Interval
<1> QED BY <1>1, FS_Subset, FS_CardinalityType

LEMMA InitCInv == Init => CInv
<1> SUFFICES ASSUME Init PROVE CInv
    OBVIOUS
<1>1. MetFiles = {} /\ MissedFiles = {}
    BY DEF Init, MetFiles, MissedFiles, Counted, Registered
<1>2. stats.ProcessedFiles = 0 /\ stats.Errors = 0
    BY DEF Init, Zero
<1>3. Totals
    BY <1>1, <1>2, FS_EmptySet DEF Totals
<1>4. ASSUME NEW w \in Workers PROVE Seen(w)
    <2>1. \A c \in DOMAIN Zero : snap[w][c] <= stats[c]
        BY DEF Init, Zero
    <2> QED BY <2>1 DEF Init, Seen
<1> QED BY <1>3, <1>4 DEF Init, CInv

(* What a worker has counted, all have counted.                            *)
LEMMA MineCounted ==
    ASSUME NEW w \in Workers
    PROVE  /\ wpc[w] \in Counted => Mine(w) \subseteq MetFiles
           /\ wpc[w] \in Registered => MyFailed(w) \subseteq MissedFiles
BY DEF Mine, MyFailed, MetFiles, MissedFiles

(* A step of one worker that tells nothing and counts no file.             *)
LEMMA CountKept ==
    ASSUME NEW w \in Workers, told' = told,
           \A v \in Workers \ {w} : wpc'[v] = wpc[v] /\ job'[v] = job[v] /\ failed'[v] = failed[v],
           wpc[w] \in Counted \/ wpc'[w] \in Counted =>
               /\ wpc[w] \in Registered /\ wpc'[w] \in Registered
               /\ job'[w] = job[w] /\ failed'[w] = failed[w]
    PROVE  MetFiles' = MetFiles /\ MissedFiles' = MissedFiles
<1>1. ASSUME NEW f PROVE (\E v \in Workers : wpc'[v] \in Counted /\ job'[v] = f)
                         <=> (\E v \in Workers : wpc[v] \in Counted /\ job[v] = f)
    BY DEF Counted
<1>2. ASSUME NEW f PROVE (\E v \in Workers : wpc'[v] \in Registered /\ job'[v] = f /\ failed'[v])
                         <=> (\E v \in Workers : wpc[v] \in Registered /\ job[v] = f /\ failed[v])
    BY DEF Counted
<1> QED BY <1>1, <1>2 DEF MetFiles, MissedFiles

LEMMA OthersSeen ==
    ASSUME NEW w \in Workers, Seen(w), told' = told, wpc'[w] = wpc[w], job'[w] = job[w], failed'[w] = failed[w],
           snap'[w] = snap[w], \A c \in DOMAIN Zero : stats[c] \in Nat /\ stats'[c] \in Nat /\ stats[c] <= stats'[c],
           snap[w] \in [DOMAIN Zero -> Nat]
    PROVE  Seen(w)'
<1>1. Mine(w)' = Mine(w) /\ MyFailed(w)' = MyFailed(w)
    BY DEF Mine, MyFailed
<1>2. \A c \in DOMAIN Zero : snap'[w][c] <= stats'[c]
    <2>1. \A c \in DOMAIN Zero : snap[w][c] \in Nat /\ snap[w][c] <= stats[c]
        BY DEF Seen
    <2> QED BY <2>1
<1> QED BY <1>1, <1>2 DEF Seen

(* Steps before a file is counted, and the count of a block.               *)
LEMMA QuietCInv ==
    ASSUME NEW w \in Workers, IInv, CInv, told' = told, pc' = pc, snap' = snap, IInv',
           stats' = stats \/ stats' = [stats EXCEPT !.TotalRead = @ + 1],
           \A v \in Workers \ {w} : wpc'[v] = wpc[v] /\ job'[v] = job[v] /\ failed'[v] = failed[v],
           wpc[w] \notin Counted \cup {"gone"}, wpc'[w] \notin Counted
    PROVE  CInv'
<1>1. MetFiles' = MetFiles /\ MissedFiles' = MissedFiles
    BY CountKept
<1>2. stats \in [DOMAIN Zero -> Nat] /\ snap \in [Workers \cup {0} -> [DOMAIN Zero -> Nat]]
    BY DEF IInv, TypeOK
<1>3. DOMAIN Zero = {"TotalRead", "ProcessedFiles", "Errors"}
    BY DEF Zero
<1>4. stats'.ProcessedFiles = stats.ProcessedFiles /\ stats'.Errors = stats.Errors
    BY <1>2, <1>3
<1>5. \A c \in DOMAIN Zero : stats[c] \in Nat /\ stats'[c] \in Nat /\ stats[c] <= stats'[c]
    BY <1>2, <1>3
<1>6. ASSUME NEW v \in Workers PROVE Seen(v)'
    <2>1. CASE v = w
        <3>1. \A c \in DOMAIN Zero : snap'[v][c] <= stats'[c]
            <4>1. \A c \in DOMAIN Zero : snap[v][c] \in Nat /\ snap[v][c] <= stats[c]
                BY <1>2 DEF CInv, Seen
            <4> QED BY <1>5, <4>1
        <3> QED BY <2>1, <3>1 DEF Seen, Counted, Registered
    <2>2. CASE v # w
        BY <1>2, <1>5, <2>2, OthersSeen DEF CInv
    <2> QED BY <2>1, <2>2
<1>7. pc # "returned"
    BY DEF IInv, Caller
<1> QED BY <1>1, <1>4, <1>6, <1>7 DEF CInv, Totals

LEMMA BeforeCountCInv ==
    ASSUME NEW w \in Workers, IInv, IInv', CInv,
           Receive(w) \/ Begin(w) \/ Read(w) \/ OnRead(w) \/ Report(w) \/ Leave(w)
    PROVE  CInv'
<1>1. wpc \in [Workers -> Steps] /\ job \in [Workers -> 0..N] /\ failed \in [Workers -> BOOLEAN]
    BY DEF IInv, TypeOK
<1>2. /\ told' = told /\ pc' = pc /\ snap' = snap
      /\ stats' = stats \/ stats' = [stats EXCEPT !.TotalRead = @ + 1]
    BY DEF Receive, Begin, Read, OnRead, Report, Leave, Add, hand, counts
<1>3. wpc[w] \in {"idle", "given", "read", "count", "report"} /\ wpc'[w] \in {"given", "gone", "report", "read", "count", "done"}
    BY <1>1 DEF Receive, Begin, Read, OnRead, Report, Leave, At, To
<1>4. \A v \in Workers \ {w} : wpc'[v] = wpc[v] /\ job'[v] = job[v] /\ failed'[v] = failed[v]
    BY <1>1 DEF Receive, Begin, Read, OnRead, Report, Leave, To, worker
<1> QED BY <1>2, <1>3, <1>4, QuietCInv DEF Counted, Registered

(* A worker's file, when it is counted, has not been counted by anyone.    *)
LEMMA NewFile ==
    ASSUME NEW w \in Workers, IInv, wpc[w] \in Reported
    PROVE  /\ job[w] \in Files /\ told[job[w]] = <<>>
           /\ \A v \in Workers \ {w} : job[v] # job[w]
<1>1. Owner(w) /\ wpc[w] \in HasFile
    BY StepsApart DEF IInv
<1>2. job[w] # 0 /\ job[w] \in Files
    BY <1>1, FilesNat DEF IInv, TypeOK, Owner
<1> QED BY <1>1, <1>2 DEF Owner, IInv, Apart

(* The counters of the file and of its failure.                            *)
LEMMA CountCInv ==
    ASSUME NEW w \in Workers, IInv, IInv', CInv, CountFile(w) \/ CountError(w)
    PROVE  CInv'
<1>1. /\ told' = told /\ snap' = snap /\ job' = job /\ failed' = failed /\ pc' = pc
      /\ \/ wpc[w] = "done" /\ Add("ProcessedFiles") /\ To(w, IF failed[w] THEN "count error" ELSE "load total")
         \/ wpc[w] = "count error" /\ Add("Errors") /\ To(w, "load total")
    BY DEF CountFile, CountError, At, hand, worker
<1>2. wpc \in [Workers -> Steps] /\ stats \in [DOMAIN Zero -> Nat] /\ snap \in [Workers \cup {0} -> [DOMAIN Zero -> Nat]]
    BY DEF IInv, TypeOK
<1>3. DOMAIN Zero = {"TotalRead", "ProcessedFiles", "Errors"}
    BY DEF Zero
<1>4. /\ job[w] \in Files /\ told[job[w]] = <<>>
      /\ \A v \in Workers \ {w} : job[v] # job[w] /\ wpc'[v] = wpc[v]
    BY <1>1, <1>2, NewFile DEF To, Reported
<1>5. \A c \in DOMAIN Zero : stats[c] \in Nat /\ stats'[c] \in Nat /\ stats[c] <= stats'[c]
    <2>1. stats' = [stats EXCEPT !.ProcessedFiles = @ + 1] \/ stats' = [stats EXCEPT !.Errors = @ + 1]
        BY <1>1 DEF Add
    <2>2. stats \in [DOMAIN Zero -> Nat]
        BY <1>2
    <2> QED BY <1>3, <2>1, <2>2
<1>6. Totals'
    <2>1. CASE wpc[w] = "done"
        <3>1. wpc'[w] = IF failed[w] THEN "count error" ELSE "load total"
            BY <1>1, <1>2, <2>1 DEF To
        <3>2. MetFiles' = MetFiles \cup {job[w]} /\ job[w] \notin MetFiles
            BY <1>1, <1>4, <2>1, <3>1 DEF MetFiles, Counted, Registered
        <3>3. MissedFiles' = MissedFiles
            BY <1>1, <1>4, <2>1, <3>1 DEF MissedFiles, Registered
        <3>4. Cardinality(MetFiles') = Cardinality(MetFiles) + 1
            BY <3>2, FiniteFiles, FS_AddElement DEF MetFiles
        <3>5. stats'.ProcessedFiles = stats.ProcessedFiles + 1 /\ stats'.Errors = stats.Errors
            BY <1>1, <1>2, <1>3, <2>1 DEF Add
        <3> QED BY <3>3, <3>4, <3>5 DEF CInv, Totals
    <2>2. CASE wpc[w] = "count error"
        <3>1. wpc'[w] = "load total" /\ failed[w]
            BY <1>1, <1>2, <2>2 DEF To, CInv, Seen
        <3>2. MetFiles' = MetFiles
            BY <1>1, <1>4, <2>2, <3>1 DEF MetFiles, Counted, Registered
        <3>3. MissedFiles' = MissedFiles \cup {job[w]} /\ job[w] \notin MissedFiles
            <4>1. wpc'[w] \in Registered /\ wpc[w] \notin Registered
                BY <2>2, <3>1 DEF Registered
            <4>2. DOMAIN told[job[w]] = {}
                BY <1>4
            <4>3. job[w] \notin MissedFiles
                BY <1>4, <4>1, <4>2 DEF MissedFiles
            <4>4. job[w] \in MissedFiles'
                BY <1>1, <1>4, <3>1, <4>1 DEF MissedFiles
            <4>5. ASSUME NEW f \in Files, f # job[w] PROVE f \in MissedFiles' <=> f \in MissedFiles
                BY <1>1, <1>4, <4>5 DEF MissedFiles
            <4> QED BY <4>3, <4>4, <4>5 DEF MissedFiles
        <3>4. Cardinality(MissedFiles') = Cardinality(MissedFiles) + 1
            <4>1. MissedFiles \in SUBSET Files
                BY DEF MissedFiles
            <4>2. IsFiniteSet(MissedFiles)
                BY <4>1, FiniteFiles
            <4> QED BY <3>3, <4>2, FS_AddElement
        <3>5. stats'.ProcessedFiles = stats.ProcessedFiles /\ stats'.Errors = stats.Errors + 1
            BY <1>1, <1>2, <1>3, <2>2 DEF Add
        <3> QED BY <3>2, <3>4, <3>5 DEF CInv, Totals
    <2> QED BY <1>1, <2>1, <2>2
<1>7. ASSUME NEW v \in Workers PROVE Seen(v)'
    <2>1. CASE v = w
        <3>1. \A c \in DOMAIN Zero : snap'[v][c] <= stats'[c]
            <4>1. \A c \in DOMAIN Zero : snap[v][c] \in Nat /\ snap[v][c] <= stats[c]
                BY <1>2 DEF CInv, Seen
            <4>2. snap' = snap
                BY <1>1
            <4> QED BY <1>5, <2>1, <4>1, <4>2
        <3>2. (wpc'[w] = "count error" /\ failed[w]) \/ wpc'[w] = "load total"
            BY <1>1, <1>2 DEF To
        <3> QED BY <1>1, <2>1, <3>1, <3>2 DEF Seen
    <2>2. CASE v # w
        BY <1>1, <1>2, <1>4, <1>5, <2>2, OthersSeen DEF CInv
    <2> QED BY <2>1, <2>2
<1>8. pc # "returned"
    BY <1>1 DEF IInv, Caller
<1> QED BY <1>1, <1>6, <1>7, <1>8 DEF CInv

(* Loading a counter: it counts at least what the worker has done.         *)
LEMMA LoadCInv == ASSUME NEW w \in Workers, IInv, IInv', CInv, Load(w) PROVE CInv'
<1>1. /\ told' = told /\ job' = job /\ failed' = failed /\ pc' = pc /\ stats' = stats
      /\ \/ wpc[w] = "load total" /\ To(w, "load processed") /\ snap' = [snap EXCEPT ![w].TotalRead = stats.TotalRead]
         \/ wpc[w] = "load processed" /\ To(w, "load errors") /\ snap' = [snap EXCEPT ![w].ProcessedFiles = stats.ProcessedFiles]
         \/ wpc[w] = "load errors" /\ To(w, "tell") /\ snap' = [snap EXCEPT ![w].Errors = stats.Errors]
    <2>1. PICK step \in {<<"load total", "TotalRead", "load processed">>,
                         <<"load processed", "ProcessedFiles", "load errors">>,
                         <<"load errors", "Errors", "tell">>} :
             wpc[w] = step[1] /\ snap' = [snap EXCEPT ![w][step[2]] = stats[step[2]]] /\ To(w, step[3])
        BY DEF Load
    <2>2. CASE step = <<"load total", "TotalRead", "load processed">>
        BY <2>1, <2>2 DEF Load, hand, worker
    <2>3. CASE step = <<"load processed", "ProcessedFiles", "load errors">>
        BY <2>1, <2>3 DEF Load, hand, worker
    <2>4. CASE step = <<"load errors", "Errors", "tell">>
        BY <2>1, <2>4 DEF Load, hand, worker
    <2> QED BY <2>2, <2>3, <2>4
<1>2. wpc \in [Workers -> Steps] /\ stats \in [DOMAIN Zero -> Nat] /\ snap \in [Workers \cup {0} -> [DOMAIN Zero -> Nat]]
    BY DEF IInv, TypeOK
<1>3. DOMAIN Zero = {"TotalRead", "ProcessedFiles", "Errors"}
    BY DEF Zero
<1>4. /\ \A v \in Workers \ {w} : wpc'[v] = wpc[v] /\ snap'[v] = snap[v]
      /\ wpc[w] \in Registered /\ wpc'[w] \in Registered
    BY <1>1, <1>2 DEF To, Registered
<1>5. MetFiles' = MetFiles /\ MissedFiles' = MissedFiles
    BY <1>1, <1>4, CountKept
<1>6. Seen(w)'
    <2>1. Mine(w)' = Mine(w) /\ MyFailed(w)' = MyFailed(w)
        BY <1>1 DEF Mine, MyFailed
    <2>2. /\ Cardinality(Mine(w)) \in Nat /\ Cardinality(Mine(w)) <= stats.ProcessedFiles
          /\ Cardinality(MyFailed(w)) \in Nat /\ Cardinality(MyFailed(w)) <= stats.Errors
        <3>1. Mine(w) \subseteq MetFiles /\ MyFailed(w) \subseteq MissedFiles
            BY <1>4, MineCounted DEF Counted
        <3>2. MetFiles \subseteq Files /\ MissedFiles \subseteq Files
            BY DEF MetFiles, MissedFiles
        <3> QED BY <3>1, <3>2, FiniteFiles, FS_Subset DEF CInv, Totals
    <2>3. \A c \in DOMAIN Zero : snap[w][c] \in Nat /\ stats[c] \in Nat /\ snap[w][c] <= stats[c]
        BY <1>2 DEF CInv, Seen
    <2>4. \A c \in DOMAIN Zero : snap'[w][c] \in {snap[w][c], stats[c]}
        <3>1. \E c \in DOMAIN Zero : snap' = [snap EXCEPT ![w][c] = stats[c]]
            BY <1>1, <1>3
        <3>2. snap \in [Workers \cup {0} -> [DOMAIN Zero -> Nat]]
            BY <1>2
        <3> QED BY <3>1, <3>2
    <2>5. \A c \in DOMAIN Zero : snap'[w][c] <= stats'[c]
        <3>1. stats' = stats
            BY <1>1
        <3> QED BY <2>3, <2>4, <3>1
    <2>6. CASE wpc[w] = "load total"
        <3>1. wpc'[w] = "load processed"
            BY <1>1, <1>2, <2>6 DEF To
        <3> QED BY <2>5, <3>1 DEF Seen
    <2>7. CASE wpc[w] = "load processed"
        <3>1. wpc'[w] = "load errors" /\ snap'[w].ProcessedFiles = stats.ProcessedFiles
            BY <1>1, <1>2, <1>3, <2>7 DEF To
        <3> QED BY <2>1, <2>2, <2>5, <3>1 DEF Seen
    <2>8. CASE wpc[w] = "load errors"
        <3>1. wpc'[w] = "tell" /\ snap'[w].Errors = stats.Errors /\ snap'[w].ProcessedFiles = snap[w].ProcessedFiles
            <4>1. To(w, "tell") /\ snap' = [snap EXCEPT ![w].Errors = stats.Errors]
                BY <1>1, <2>8
            <4> QED BY <1>2, <1>3, <4>1 DEF To
        <3>2. snap[w].ProcessedFiles >= Cardinality(Mine(w))
            BY <2>8 DEF CInv, Seen
        <3> QED BY <2>1, <2>2, <2>5, <3>1, <3>2 DEF Seen
    <2> QED BY <1>1, <2>6, <2>7, <2>8
<1>7. ASSUME NEW v \in Workers, v # w PROVE Seen(v)'
    <2>1. \A c \in DOMAIN Zero : stats[c] \in Nat /\ stats'[c] \in Nat /\ stats[c] <= stats'[c]
        <3>1. stats' = stats /\ \A c \in DOMAIN Zero : stats[c] \in Nat
            BY <1>1, <1>2
        <3> HIDE <1>1, <1>2
        <3> QED BY <3>1
    <2> QED BY <1>1, <1>2, <1>4, <1>7, <2>1, OthersSeen DEF CInv
<1>8. pc # "returned"
    BY <1>1 DEF IInv, Caller
<1> QED BY <1>1, <1>5, <1>6, <1>7, <1>8 DEF CInv, Totals

(* Telling: the file was counted, and stays counted.                       *)
LEMMA TellCInv == ASSUME NEW w \in Workers, IInv, IInv', CInv, Tell(w) PROVE CInv'
<1> DEFINE mine == job[w]
           event == [by |-> w, failed |-> failed[w]]
<1>1. /\ pc' = pc /\ stats' = stats /\ wpc[w] = "tell" /\ wpc' = [wpc EXCEPT ![w] = "idle"]
      /\ told' = [told EXCEPT ![mine] = Append(@, event)] /\ snap' = [snap EXCEPT ![w] = Zero]
      /\ job' = [job EXCEPT ![w] = 0] /\ failed' = [failed EXCEPT ![w] = FALSE]
    BY DEF Tell, At, To, hand
<1>2. /\ mine \in Files /\ told[mine] = <<>> /\ \A v \in Workers \ {w} : job[v] # mine
    BY <1>1, NewFile DEF Reported
<1>3. /\ wpc \in [Workers -> Steps] /\ stats \in [DOMAIN Zero -> Nat] /\ snap \in [Workers \cup {0} -> [DOMAIN Zero -> Nat]]
      /\ job \in [Workers -> 0..N] /\ failed \in [Workers -> BOOLEAN] /\ DOMAIN told = Files
    BY DEF IInv, TypeOK
<1>4. told'[mine] = <<event>> /\ \A f \in Files \ {mine} : told'[f] = told[f]
    BY <1>1, <1>2, <1>3
<1>5. \A v \in Workers \ {w} : wpc'[v] = wpc[v] /\ job'[v] = job[v] /\ failed'[v] = failed[v] /\ snap'[v] = snap[v]
    BY <1>1, <1>3
<1>6. /\ DOMAIN told[mine] = {} /\ DOMAIN told'[mine] = {1} /\ told'[mine] # <<>>
      /\ told'[mine][1].by = w /\ told'[mine][1].failed = failed[w]
    BY <1>2, <1>4
<1>7. wpc'[w] = "idle" /\ "idle" \notin Counted /\ "idle" \notin Registered /\ wpc[w] \in Counted /\ wpc[w] \in Registered
    BY <1>1, <1>3 DEF Counted, Registered
<1> HIDE DEF event, mine
<1>8. MetFiles' = MetFiles
    <2>1. mine \in MetFiles /\ mine \in MetFiles'
        BY <1>2, <1>6, <1>7 DEF MetFiles, mine
    <2>2. ASSUME NEW f \in Files, f # mine PROVE f \in MetFiles' <=> f \in MetFiles
        BY <1>4, <1>5, <1>7, <2>2 DEF MetFiles, mine
    <2> QED BY <2>1, <2>2 DEF MetFiles
<1>9. MissedFiles' = MissedFiles
    <2>1. mine \in MissedFiles <=> failed[w]
        BY <1>2, <1>6, <1>7 DEF MissedFiles, mine
    <2>2. mine \in MissedFiles' <=> failed[w]
        BY <1>2, <1>5, <1>6, <1>7 DEF MissedFiles, mine
    <2>3. ASSUME NEW f \in Files, f # mine PROVE f \in MissedFiles' <=> f \in MissedFiles
        BY <1>4, <1>5, <1>7, <2>3 DEF MissedFiles, mine
    <2> QED BY <2>1, <2>2, <2>3 DEF MissedFiles
<1>10. ASSUME NEW v \in Workers, v # w PROVE Seen(v)'
    <2>1. Mine(v)' = Mine(v) /\ MyFailed(v)' = MyFailed(v)
        <3>1. mine \notin Mine(v) /\ mine \notin Mine(v)' /\ mine \notin MyFailed(v) /\ mine \notin MyFailed(v)'
            BY <1>2, <1>5, <1>6, <1>10 DEF Mine, MyFailed
        <3>2. ASSUME NEW f \in Files, f # mine PROVE (f \in Mine(v)' <=> f \in Mine(v)) /\ (f \in MyFailed(v)' <=> f \in MyFailed(v))
            BY <1>4, <1>5, <1>10, <3>2 DEF Mine, MyFailed
        <3> QED BY <3>1, <3>2 DEF Mine, MyFailed
    <2> QED BY <1>1, <1>5, <1>10, <2>1 DEF CInv, Seen
<1>11. Seen(w)'
    <2>1. snap'[w] = Zero
        BY <1>1, <1>3
    <2>2. \A c \in DOMAIN Zero : stats[c] \in Nat /\ Zero[c] = 0
        BY <1>3 DEF Zero
    <2>3. \A c \in DOMAIN Zero : snap'[w][c] <= stats'[c]
        BY <1>1, <2>1, <2>2
    <2> QED BY <1>7, <2>3 DEF Seen
<1>12. pc # "returned"
    BY <1>1 DEF IInv, Caller
<1> QED BY <1>1, <1>8, <1>9, <1>10, <1>11, <1>12 DEF CInv, Totals

(* The caller: the last snapshot is made when no worker counts any more.   *)
LEMMA CallerCInv == ASSUME IInv, CInv, CloseTasks \/ Return \/ Cancel \/ UNCHANGED vars PROVE CInv'
<1>1. /\ wpc' = wpc /\ job' = job /\ failed' = failed /\ stats' = stats /\ told' = told
      /\ \/ snap' = snap /\ (pc' = "returned" => pc = "returned")
         \/ snap' = [snap EXCEPT ![0] = stats]
    BY DEF CloseTasks, Return, Cancel, vars, hand, worker, counts
<1>2. stats \in [DOMAIN Zero -> Nat] /\ snap \in [Workers \cup {0} -> [DOMAIN Zero -> Nat]]
    BY DEF IInv, TypeOK
<1>3. MetFiles' = MetFiles /\ MissedFiles' = MissedFiles
    BY <1>1 DEF MetFiles, MissedFiles
<1>4. ASSUME NEW w \in Workers PROVE Seen(w)'
    <2>1. Mine(w)' = Mine(w) /\ MyFailed(w)' = MyFailed(w)
        BY <1>1 DEF Mine, MyFailed
    <2>2. CASE snap'[w] = snap[w]
        BY <1>1, <2>1, <2>2 DEF CInv, Seen
    <2>3. CASE snap'[w] # snap[w]
        <3>1. snap'[w] = stats /\ wpc[w] = "gone"
            <4>1. snap' = [snap EXCEPT ![0] = stats] /\ w = 0
                BY <1>1, <1>2, <2>3
            <4>2. Return
                BY <2>3 DEF CloseTasks, Return, Cancel, vars, counts
            <4> QED BY <1>2, <4>1, <4>2 DEF Return
        <3>2. \A c \in DOMAIN Zero : snap'[w][c] <= stats'[c]
            <4>1. snap'[w] = stats /\ stats' = stats /\ \A c \in DOMAIN Zero : stats[c] \in Nat
                BY <1>1, <1>2, <3>1
            <4> HIDE <1>1, <1>2, <3>1
            <4> QED BY <4>1
        <3> QED BY <1>1, <3>1, <3>2 DEF Seen
    <2> QED BY <2>2, <2>3
<1>5. pc' = "returned" => snap'[0] = stats'
    BY <1>1, <1>2 DEF CInv
<1> QED BY <1>1, <1>3, <1>4, <1>5 DEF CInv, Totals

(* The files some workers have told of, and the one a worker has not yet.  *)
LEMMA ToldOfMine ==
    ASSUME NEW w \in Workers, IInv, wpc[w] = "tell"
    PROVE  /\ Cardinality(Mine(w)) = Processed({w}) + 1
           /\ Cardinality(MyFailed(w)) = Failed({w}) + (IF failed[w] THEN 1 ELSE 0)
<1> DEFINE P == {f \in Files : \E i \in DOMAIN told[f] : told[f][i].by \in {w}}
           F == {f \in Files : \E i \in DOMAIN told[f] : told[f][i].by \in {w} /\ told[f][i].failed}
<1>1. job[w] \in Files /\ DOMAIN told[job[w]] = {}
    <2>1. wpc[w] \in Reported
        BY DEF Reported
    <2>2. job[w] \in Files /\ told[job[w]] = <<>>
        BY <2>1, NewFile
    <2> QED BY <2>2
<1>2. Mine(w) = P \cup {job[w]} /\ job[w] \notin P
    BY <1>1 DEF Mine
<1>3. MyFailed(w) = (IF failed[w] THEN F \cup {job[w]} ELSE F) /\ job[w] \notin F
    BY <1>1 DEF MyFailed
<1>4. IsFiniteSet(P) /\ IsFiniteSet(F) /\ Cardinality(P) \in Nat /\ Cardinality(F) \in Nat
    BY FiniteFiles
<1>5. Processed({w}) = Cardinality(P) /\ Failed({w}) = Cardinality(F)
    BY DEF Processed, Failed
<1> HIDE DEF P, F
<1>6. Cardinality(Mine(w)) = Cardinality(P) + 1
    BY <1>2, <1>4, FS_AddElement
<1>7. CASE failed[w]
    <2>1. Cardinality(MyFailed(w)) = Cardinality(F) + 1
        BY <1>3, <1>4, <1>7, FS_AddElement
    <2> QED BY <1>5, <1>6, <1>7, <2>1
<1>8. CASE ~ failed[w]
    <2>1. Cardinality(MyFailed(w)) = Cardinality(F) + 0
        BY <1>3, <1>4, <1>8
    <2> QED BY <1>5, <1>6, <1>8, <2>1
<1> QED BY <1>7, <1>8

(* For any number of files and workers: the last progress event counts the *)
(* files and the failures OnFileDone was told of, and no snapshot made for *)
(* a file is behind what its worker has done, or ahead of the counters.    *)
THEOREM EventsAreTrue == Spec => []EventsTrue
<1>1. IInv /\ CInv /\ IInv' /\ [Next]_vars => CInv'
    <2> SUFFICES ASSUME IInv, CInv, IInv', [Next]_vars PROVE CInv'
        OBVIOUS
    <2>1. ASSUME NEW w \in Workers, Worker(w) PROVE CInv'
        BY <2>1, BeforeCountCInv, CountCInv, LoadCInv, TellCInv DEF Worker
    <2> QED BY <2>1, CallerCInv DEF Next
<1>2. ASSUME IInv, CInv PROVE EventsTrue
    <2>1. ASSUME pc = "returned"
          PROVE  snap[0].ProcessedFiles = Processed(Workers) /\ snap[0].Errors = Failed(Workers)
        <3>1. \A w \in Workers : wpc[w] \notin Counted /\ wpc[w] \notin Registered
            BY <1>2, <2>1 DEF IInv, Caller, Counted, Registered
        <3>2. ASSUME NEW f \in Files
              PROVE  /\ told[f] # <<>> <=> \E i \in DOMAIN told[f] : told[f][i].by \in Workers
                     /\ \A i \in DOMAIN told[f] : told[f][i].by \in Workers
            <4>1. told[f] \in Seq([by : Workers, failed : BOOLEAN]) /\ (told[f] = <<>> \/ Len(told[f]) = 1)
                BY <1>2 DEF IInv, TypeOK, Laid
            <4>2. CASE told[f] = <<>>
                BY <4>2
            <4>3. CASE Len(told[f]) = 1
                <5>1. told[f] # <<>>
                    <6>1. Len(<<>>) = 0
                        OBVIOUS
                    <6> QED BY <4>3, <6>1
                <5>2. DOMAIN told[f] = {1} /\ told[f][1].by \in Workers
                    <6> DEFINE E == [by : Workers, failed : BOOLEAN]
                    <6>1. told[f] \in Seq(E)
                        BY <4>1
                    <6>2. told[f][1] \in E /\ DOMAIN told[f] = 1 .. 1
                        <7> HIDE DEF E
                        <7> QED BY <4>3, <6>1
                    <6>3. 1 .. 1 = {1}
                        OBVIOUS
                    <6> QED BY <6>2, <6>3
                <5> QED BY <5>1, <5>2
            <4> QED BY <4>1, <4>2, <4>3
        <3>3. MetFiles = {f \in Files : \E i \in DOMAIN told[f] : told[f][i].by \in Workers}
            BY <3>1, <3>2 DEF MetFiles
        <3>4. MissedFiles = {f \in Files : \E i \in DOMAIN told[f] : told[f][i].by \in Workers /\ told[f][i].failed}
            BY <3>1, <3>2 DEF MissedFiles
        <3>5. snap[0] = stats /\ stats.ProcessedFiles = Cardinality(MetFiles) /\ stats.Errors = Cardinality(MissedFiles)
            BY <1>2, <2>1 DEF CInv, Totals
        <3> QED BY <3>3, <3>4, <3>5 DEF Processed, Failed
    <2>2. ASSUME NEW w \in Workers, wpc[w] = "tell"
          PROVE  /\ snap[w].ProcessedFiles >= Processed({w}) + 1
                 /\ snap[w].Errors >= Failed({w}) + (IF failed[w] THEN 1 ELSE 0)
                 /\ \A c \in DOMAIN Zero : snap[w][c] <= stats[c]
        <3>1. Seen(w)
            BY <1>2 DEF CInv
        <3>2. snap[w].ProcessedFiles >= Cardinality(Mine(w)) /\ snap[w].Errors >= Cardinality(MyFailed(w))
            BY <2>2, <3>1 DEF Seen
        <3>3. /\ Cardinality(Mine(w)) = Processed({w}) + 1
              /\ Cardinality(MyFailed(w)) = Failed({w}) + (IF failed[w] THEN 1 ELSE 0)
            BY <1>2, <2>2, ToldOfMine
        <3>4. \A c \in DOMAIN Zero : snap[w][c] <= stats[c]
            BY <3>1 DEF Seen
        <3> QED BY <3>2, <3>3, <3>4
    <2> QED BY <2>1, <2>2 DEF EventsTrue
<1> QED BY <1>1, <1>2, InitIInv, InitCInv, Invariance, PTL DEF Spec

=============================================================================
