--------------------------- MODULE ArchiverProofs ---------------------------
(***************************************************************************)
(* Proofs about Archiver, for any archives, sources, sinks and number of   *)
(* calls: the types, what is left open when a call returns, why a call may *)
(* fail, what a call that returns nil has delivered, and that a            *)
(* destination is not touched before all sources are loaded.               *)
(***************************************************************************)
EXTENDS Archiver, TLAPS

\* Groups of variables are always looked into.
USE DEF begun, notes, handles

----------------------------------------------------------------------------
(* The inductive invariant                                                 *)

(***************************************************************************)
(* Which calls come to which steps, with which source in use.              *)
(***************************************************************************)
OnCourse ==
    /\ pc # "idle" =>
         /\ op \in Operations /\ (sources = <<>> <=> op = "ArchiveFiles")
         /\ op # "ArchiveFiles" => at \in DOMAIN sources
         /\ op # "Merge" => at = 1
    /\ pc \in {"open", "load", "closeSource"} => op # "ArchiveFiles"
    /\ pc = "add" => op = "ArchiveFiles"
    /\ pc = "transform" => op = "Transform"
    /\ pc = "pick" => op = "UnzipFile"
    /\ pc = "collect" => op = "UnzipToMap"
    /\ pc \in {"create", "write", "closeSink", "await"} => op # "UnzipToMap"
    /\ pc = "await" => sink.kind = "url"

NoErrorYet == pc \in {"idle", "add", "open", "load", "transform", "pick", "create"} => ~ err

Course == OnCourse /\ NoErrorYet /\ todo \subseteq DOMAIN archive

(***************************************************************************)
(* A file is open only for the source in use, from its opening to its      *)
(* closing; an upload runs only while its sink is written and awaited, and *)
(* the channel holds its result for as long.                               *)
(***************************************************************************)
InUse == pc \notin {"idle", "open", "return", "panic"} /\ (op = "Merge" => pc \in {"load", "closeSource"})
AtSink == sink.kind = "url" /\ pc \in {"write", "closeSink", "await"}

FilesInUse ==
    /\ \A i \in DOMAIN sources : file[i] = "open" => Source(i).kind = "path" /\ i = at /\ InUse
    /\ InUse /\ op # "ArchiveFiles" => Readable(at)

Uploading ==
    /\ ~ AtSink \/ pc = "await" => pipe.put = Nothing \/ pipe.eof
    /\ Waiting => sink.kind = "url" /\ pc \in {"write", "closeSink"}
    /\ sink.kind = "url" /\ pc \in {"write", "closeSink"} => ~ pipe.eof
    /\ uploader = "doing" => AtSink /\ errCh = ""
    /\ uploader = "closing" => Bad(answer)
    /\ AtSink /\ answer = "" => uploader = "doing"
    /\ AtSink /\ ~ pipe.reader => answer # ""
    /\ AtSink /\ answer = "ok" => pipe.eof
    /\ errCh # "" => AtSink /\ errCh = IF Bad(answer) THEN "error" ELSE "nil"

(***************************************************************************)
(* Why a call fails.  What is stored where nothing is written is what was  *)
(* there at first.                                                         *)
(***************************************************************************)
Others == {p \in Places : ~ (sink.kind = "path" /\ p = sink.place)}

Excuse ==
    \/ cause \/ Unsupported \/ StreamAgain \/ WriterAgain \/ ReadAfterClose \/ ReadTwice \/ skipped \/ InPlace
    \/ sink.kind = "url" /\ answer \notin {"", "ok"} /\ pc \in {"write", "closeSink", "await", "closeSource", "return"}

Untouched == \A p \in Others : stored[p] = Archived(p) /\ before[p] = Archived(p)

Causes == err => Excuse

(***************************************************************************)
(* What has been loaded and written.  Before the sink is created all is as *)
(* it was when the call began.                                             *)
(***************************************************************************)
Early == \/ pc \in {"open", "load", "add", "transform", "pick", "collect", "create"}
         \/ pc = "closeSource" /\ op = "Merge"

(***************************************************************************)
(* What was spent was spent before the call until it reads its stream, or  *)
(* closes its writer.  A stream that is not spent has all its entries.     *)
(***************************************************************************)
Spending ==
    /\ pc \in {"open", "load"} \/ (op = "Merge" /\ Early) => spent \subseteq again
    /\ Early \/ pc \in {"write", "closeSink"} => (0 \in spent => 0 \in again)
    /\ pc \in {"pick", "collect"} => RandomAccess(at) \/ at \in spent
    /\ \A i \in DOMAIN sources : i \notin spent => ahead[i] = Original[Source(i).place]

\* source i gives all its entries
Complete(i) == RandomAccess(i) \/ (~ StreamAgain /\ ~ InPlace)

\* the first k sources are loaded, the last that has a name winning
Covers(k) ==
    /\ \A i \in 1 .. k : Complete(i) => Names(Source(i).place) \subseteq DOMAIN archive
    /\ \A n \in DOMAIN archive :
         /\ archive[n] \in 1 .. k /\ n \in Names(Source(archive[n]).place)
         /\ \A i \in 1 .. k : n \in Names(Source(i).place) => i <= archive[n]

\* every entry to be written comes from where it must come from
Settled ==
    /\ \A i \in Used : Complete(i) => AllLoaded(i)
    /\ \A n \in DOMAIN archive :
         \/ archive[n] = 0 /\ op \in {"Transform", "ArchiveFiles"}
         \/ archive[n] \in Used /\ Source(archive[n]).place \in Origin(n)

Loaded ==
    /\ pc = "idle" => archive = NoEntries /\ todo = {} /\ got = {}
    /\ pc \in {"open", "load"} => Covers(at - 1)
    /\ pc \in {"open", "load"} \/ op = "Merge" => got = {}
    /\ pc \in {"transform", "pick", "collect"} => Covers(1)
    /\ pc = "closeSource" /\ op = "Merge" /\ ~ err => Covers(at)
    /\ pc \in {"create", "write", "closeSink", "await"} => Settled
    /\ pc \in {"closeSource", "return"} /\ ~ err /\ op \notin {"Merge", "UnzipToMap"} => Settled
    /\ pc = "return" /\ ~ err /\ op = "Merge" => Settled
    /\ Early => stored = before
    /\ Early /\ op \in Archives => todo = DOMAIN archive

Good(thing) ==
    /\ \A e \in thing.has : e.from \in Origin(e.name)
    /\ op \in Archives => DOMAIN archive = {e.name : e \in thing.has} \cup todo

Collected ==
    ~ err /\ ~ InPlace /\ op = "UnzipToMap" /\ ~ RandomAccess(1) /\ ~ StreamAgain =>
        /\ pc = "collect" => got \cup todo = Names(Source(1).place)
        /\ pc \in {"closeSource", "return"} => got = Names(Source(1).place)

Taken == (Good(stored[sink.place]) /\ stored[sink.place].whole) \/ answer \in {"moved", "early"}

Written ==
    ~ err /\ ~ InPlace /\ ~ Behind =>
        /\ pc \in {"write", "closeSink", "await"} => Good(Out)
        /\ pc \in {"closeSink", "await"} => Out.whole /\ todo = {}
        /\ pc = "await" /\ answer = "ok" => stored[sink.place] = Out
        /\ pc = "closeSource" /\ op \notin {"Merge", "UnzipToMap"} => todo = {} /\ Taken
        /\ pc = "return" /\ op # "UnzipToMap" => todo = {} /\ Taken

Delivered == Collected /\ Written

IInv == TypeOK /\ Course /\ FilesInUse /\ Uploading /\ Untouched /\ Spending /\ Causes /\ Loaded /\ Delivered

----------------------------------------------------------------------------
(* Types                                                                   *)

\* What an archive of the caller holds is a thing that can be stored.
LEMMA ThingTypes ==
    /\ Nothing \in Things
    /\ \A p \in Places : Archived(p) \in Things
BY DEF Nothing, Archived, Things, Entry, Files

\* The sink is one of four kinds, and its place can hold something.
LEMMA SinkType ==
    ASSUME GivenType
    PROVE  /\ sink.kind \in {"path", "writer", "closer", "url"} /\ sink.place \in Stores
           /\ sink.kind = "path" => sink.place \in Places
           /\ WriterSink => sink.place = Memory
           /\ sink.kind = "url" => sink.place = Remote
<1>1. \/ sink \in [kind : {"path"}, place : Places]
      \/ sink \in [kind : {"writer", "closer"}, place : {Memory}]
      \/ sink = [kind |-> "url", place |-> Remote]
  BY ArchiverAssumption DEF GivenType
<1> QED BY <1>1 DEF Stores, WriterSink

\* A source is one of three kinds, and there is an archive in its place.
LEMMA ListedSource ==
    ASSUME sources \in SourceLists, NEW i \in DOMAIN sources
    PROVE  /\ Source(i).kind \in {"path", "file", "stream"} /\ Source(i).place \in Places
           /\ DOMAIN sources = 1 .. Len(sources) /\ Len(sources) \in Nat /\ i \in Nat /\ i > 0
<1> DEFINE S == [kind : {"path", "file", "stream"}, place : Places]
<1>1. sources \in Seq(S)
  BY ArchiverAssumption
<1>2. sources[i] \in S /\ DOMAIN sources = 1 .. Len(sources) /\ Len(sources) \in Nat /\ i \in 1 .. Len(sources)
  <2> HIDE DEF S
  <2> QED BY <1>1
<1> QED BY <1>2 DEF Source

LEMMA SourceType ==
    ASSUME GivenType, NEW i \in DOMAIN sources
    PROVE  /\ Source(i).kind \in {"path", "file", "stream"} /\ Source(i).place \in Places
           /\ DOMAIN sources = 1 .. Len(sources) /\ Len(sources) \in Nat /\ i \in Nat /\ i > 0
BY ListedSource DEF GivenType

LEMMA InitTypeOK == Init => TypeOK
<1> SUFFICES ASSUME Init PROVE TypeOK
  OBVIOUS
<1>1. StoredType
  BY ThingTypes DEF Init, Stores, StoredType
<1>2. UploadType
  BY ThingTypes DEF Init, NewPipe, UploadType
<1>3. EntriesType
  BY DEF Init, NoEntries, EntriesType
<1>4. CallType
  <2>1. at \in Nat \ {0} /\ calls \in Nat
    <3>1. at = 1 /\ calls = 0
      BY DEF Init
    <3> QED BY <3>1
  <2>2. op = "" /\ pc = "idle" /\ err \in BOOLEAN /\ cause \in BOOLEAN /\ skipped \in BOOLEAN
    BY DEF Init
  <2> QED BY <2>1, <2>2 DEF CallType
<1>5. GivenType
  <2>1. \A i \in DOMAIN sources : Source(i).place \in Places
    BY ListedSource DEF Init
  <2>2. \A i \in DOMAIN sources : Original[Source(i).place] \subseteq Files
    BY <2>1 DEF Files
  <2> QED BY <2>2 DEF Init, GivenType
<1> QED BY <1>1, <1>2, <1>3, <1>4, <1>5 DEF TypeOK

\* What was given stays; a file is opened or forgotten; a stream is read on.
LEMMA StepGivenType == ASSUME TypeOK, Course, [Next]_vars PROVE GivenType' /\ UNCHANGED given
<1> USE DEF TypeOK, GivenType, given
<1>0. at \in DOMAIN sources => 0 # at
  BY SourceType
<1>1. CASE OpenSource
  BY <1>1 DEF OpenSource, Opened, Course
<1>2. CASE CloseSource
  BY <1>2 DEF CloseSource, ClosedSource, Course
<1>3. CASE Load
  BY <1>3 DEF Load, Course, OnCourse
<1>4. CASE Pick \/ CollectEnds
  <2>1. UNCHANGED <<given, file, spent>> /\ \E rest \in SUBSET Files : Leave(rest)
    BY <1>4 DEF Pick, CollectEnds, EntriesType
  <2>2. ahead' \in [DOMAIN sources -> SUBSET Files]
    BY <2>1 DEF Leave
  <2> QED BY <2>1, <2>2
<1>5. CASE CloseSink
  BY <1>5 DEF CloseSink
<1>6. CASE UNCHANGED <<given, handles>>
  BY <1>6
<1> QED BY <1>1, <1>2, <1>3, <1>4, <1>5, <1>6
        DEF Next, Caller, Uploader, Transport, vars, Start, NewContent, NoContent, Collect, CreateSink, WriteEntry, Finish,
            WriteFails, AwaitAnswer, Return, Cancel, SendResult, CloseReader, ReadBody, Answer, BodyClosed

\* Where a call goes on when its source is loaded.
LEMMA AfterLoadSteps ==
    ASSUME TypeOK, Course, pc = "load"
    PROVE  \/ op = "Merge" /\ AfterLoad = "closeSource"
           \/ op = "Clone" /\ AfterLoad = "create"
           \/ op = "Transform" /\ AfterLoad = "transform"
           \/ op = "UnzipFile" /\ AfterLoad = "pick"
           \/ op = "UnzipToMap" /\ AfterLoad = "collect"
<1>1. op \in {"Merge", "Clone", "Transform", "UnzipFile", "UnzipToMap"}
  BY ArchiverAssumption DEF Course, OnCourse, Archives
<1> QED BY <1>1 DEF AfterLoad

LEMMA StepCallType == ASSUME TypeOK, Course, [Next]_vars PROVE CallType'
<1>0. at \in Nat /\ at # 0 /\ calls \in Nat
  BY DEF TypeOK, CallType
<1>1. CASE Start
  <2>1. op' \in Operations /\ pc' \in {"add", "open"} /\ UNCHANGED <<err, cause, skipped>>
    BY <1>1 DEF TypeOK, CallType, Start
  <2>2. at' = 1 /\ calls' = calls + 1
    BY <1>1 DEF TypeOK, CallType, Start
  <2>3. at' \in Nat \ {0} /\ calls' \in Nat
    BY <1>0, <2>2
  <2> QED BY <2>1, <2>3 DEF TypeOK, CallType
<1>8. CASE OpenSource
  BY <1>8 DEF TypeOK, CallType, OpenSource, Go, Fault, call
<1>2. CASE Load
  <2>1. pc' \in {"idle", "add", "open", "load", "transform", "pick", "collect", "closeSource",
               "create", "write", "closeSink", "await", "return", "panic"}
    BY <1>2, AfterLoadSteps DEF TypeOK, CallType, Load, Go, Fail, Fault
  <2> QED BY <1>2, <2>1 DEF TypeOK, CallType, Load, Go, Fail, Fault
<1>3. CASE NewContent \/ NoContent \/ Pick \/ Collect \/ CollectEnds
  BY <1>3 DEF TypeOK, CallType, NewContent, NoContent, Pick, Collect, CollectEnds, Go, Fail, Fault, Outer, call
<1>4. CASE CloseSource
  <2>1. at' = at \/ at' = at + 1
    BY <1>4 DEF TypeOK, CallType, CloseSource
  <2>2. at' \in Nat \ {0}
    BY <1>0, <2>1
  <2>3. /\ pc' \in {"open", "create", "return"} /\ err' \in BOOLEAN /\ cause' \in BOOLEAN
        /\ UNCHANGED <<op, calls, skipped>>
    BY <1>4 DEF TypeOK, CallType, CloseSource, Go, Fault
  <2> QED BY <2>2, <2>3 DEF TypeOK, CallType
<1>5. CASE CreateSink \/ WriteEntry \/ Finish \/ WriteFails \/ Cancel
  BY <1>5 DEF TypeOK, CallType, CreateSink, WriteEntry, Finish, WriteFails, Cancel, Go, Fail, Fault, Outer, call
<1>6. CASE CloseSink \/ AwaitAnswer \/ Return
  BY <1>6 DEF TypeOK, CallType, CloseSink, AwaitAnswer, Return, Go, Fail, Fault, Outer, call
<1>7. CASE UNCHANGED vars \/ SendResult \/ CloseReader \/ ReadBody \/ Answer \/ BodyClosed
  BY <1>7 DEF TypeOK, CallType, vars, SendResult, CloseReader, ReadBody, Answer, BodyClosed, call
<1> QED BY <1>1, <1>2, <1>3, <1>4, <1>5, <1>6, <1>7, <1>8 DEF Next, Caller, Uploader, Transport

\* A source holds entries of the archives there were at first.
LEMMA HoldsType == ASSUME TypeOK, NEW i \in DOMAIN sources PROVE Holds(i) \subseteq Files
<1>1. stored[Source(i).place] \in Things
  BY SourceType DEF Stores, TypeOK, StoredType
<1>2. stored[Source(i).place].has \in SUBSET [name : Files, from : Places \cup {"new", "cut"}]
  BY <1>1 DEF Things
<1> DEFINE E == [name : Files, from : Places \cup {"new", "cut"}]
<1>3. \A e \in E : e.name \in Files
  OBVIOUS
<1>4. \A e \in stored[Source(i).place].has : e.name \in Files
  BY <1>2, <1>3
<1> QED BY <1>4 DEF Holds

LEMMA OffersType ==
    ASSUME TypeOK, NEW i \in DOMAIN sources, NEW offered \in Offers(i)
    PROVE  offered \subseteq Holds(i) /\ offered \subseteq Files
BY HoldsType DEF Offers

LEMMA StepEntriesType == ASSUME TypeOK, Course, [Next]_vars PROVE EntriesType'
<1> USE DEF TypeOK, EntriesType
<1>1. sources' = sources
  BY StepGivenType DEF given
<1>2. CASE Start
  BY <1>1, <1>2 DEF Start, GivenType
<1>3. CASE Load
  <2>1. UNCHANGED <<got, dropped, again>>
    BY <1>3 DEF Load
  <2>2. CASE UNCHANGED <<archive, todo>>
    BY <1>1, <2>1, <2>2
  <2>3. CASE ~ UNCHANGED <<archive, todo>>
    <3>1. PICK offered \in Offers(at) :
            archive' = [n \in DOMAIN archive \cup offered |-> IF n \in offered THEN at ELSE archive[n]]
      BY <1>3, <2>3 DEF Load
    <3>2. todo' = DOMAIN archive'
      BY <1>3, <2>3 DEF Load
    <3>3. at \in DOMAIN sources
      BY <1>3 DEF Load, Course, OnCourse
    <3>4. offered \subseteq Files
      BY <3>1, <3>3, OffersType
    <3> QED BY <1>1, <2>1, <3>1, <3>2, <3>3, <3>4
  <2> QED BY <2>2, <2>3
<1>4. CASE NewContent
  <2>1. UNCHANGED <<got, again>> /\ todo' = DOMAIN archive'
    BY <1>4 DEF NewContent
  <2>2. DOMAIN archive' \subseteq Files /\ dropped' \subseteq Files
        /\ \A n \in DOMAIN archive' : archive'[n] \in DOMAIN sources \cup {0}
    BY <1>4 DEF NewContent, Files
  <2> QED BY <1>1, <2>1, <2>2
<1>5. CASE Return
  BY <1>1, <1>5 DEF Return, NoEntries
<1>6. CASE CollectEnds
  BY <1>1, <1>6, HoldsType DEF CollectEnds, Course, OnCourse
<1>7. CASE Pick \/ Collect \/ WriteEntry \/ Cancel
  BY <1>1, <1>7 DEF Pick, Collect, WriteEntry, Cancel
<1>8. CASE UNCHANGED <<archive, todo, got, dropped, again>>
  BY <1>1, <1>8
<1> QED BY <1>2, <1>3, <1>4, <1>5, <1>6, <1>7, <1>8
        DEF Next, Caller, Uploader, Transport, vars, call, OpenSource, CloseSource, NoContent, CreateSink,
            Finish, WriteFails, CloseSink, AwaitAnswer, SendResult, CloseReader, ReadBody, Answer, BodyClosed

\* What an entry's source gives is an entry.
LEMMA GivenEntry ==
    ASSUME TypeOK, NEW n \in DOMAIN archive, NEW e \in Given(n)
    PROVE  e \in [name : Files, from : Places \cup {"new", "cut"}]
<1>1. n \in Files /\ archive[n] \in DOMAIN sources \cup {0}
  BY DEF TypeOK, EntriesType
<1>2. archive[n] # 0 => Source(archive[n]).place \in Places
  BY <1>1, SourceType DEF TypeOK
<1>3. e \in {Entry(n, "new"), Entry(n, Source(archive[n]).place), Entry(n, "cut")}
      /\ (e = Entry(n, Source(archive[n]).place) => archive[n] # 0 \/ e = Entry(n, "new"))
  BY DEF Given
<1> QED BY <1>1, <1>2, <1>3 DEF Entry

\* What is written to a sink is stored in its place, or goes into the pipe.
LEMMA PutType ==
    ASSUME TypeOK, NEW thing \in Things, Put(thing)
    PROVE  stored' \in [Stores -> Things] /\ UploadType'
<1>1. sink.place \in Stores
  BY SinkType DEF TypeOK
<1>2. stored' \in [Stores -> Things]
  BY <1>1 DEF TypeOK, StoredType, Put, upload
<1>3. pipe' \in [put : Things, sent : Things, eof : BOOLEAN, reader : BOOLEAN] /\ UNCHANGED <<uploader, answer, errCh>>
  BY DEF TypeOK, UploadType, Put, upload
<1> QED BY <1>2, <1>3 DEF TypeOK, UploadType

LEMMA StepStoredType == ASSUME TypeOK, Course, [Next]_vars PROVE StoredType' /\ UploadType'
<1> USE DEF TypeOK
<1>1. CASE UNCHANGED <<stored, before, upload>>
  BY <1>1 DEF StoredType, UploadType, upload
<1>2. CASE Start
  BY <1>2 DEF Start, StoredType, UploadType, upload
<1>3. CASE CreateSink
  <2>1. stored' \in [Stores -> Things] /\ before' = before
    BY <1>3, SinkType, ThingTypes DEF CreateSink, StoredType, call
  <2>2. UploadType'
    <3>1. NewPipe \in [put : Things, sent : Things, eof : BOOLEAN, reader : BOOLEAN]
      BY ThingTypes DEF NewPipe
    <3> QED BY <1>3, <3>1 DEF CreateSink, UploadType, upload
  <2> QED BY <2>1, <2>2 DEF StoredType
<1>4. CASE WriteEntry
  <2>1. PICK n \in todo :
           \/ \E e \in Given(n) : Put([has |-> Out.has \cup {e}, whole |-> FALSE])
           \/ UNCHANGED <<stored, upload>>
    BY <1>4 DEF WriteEntry
  <2>2. before' = before
    BY <1>4 DEF WriteEntry
  <2>3. ASSUME NEW e \in Given(n), Put([has |-> Out.has \cup {e}, whole |-> FALSE]) PROVE StoredType' /\ UploadType'
    <3>1. Out \in Things
      BY SinkType DEF Out, StoredType, UploadType
    <3>2. e \in [name : Files, from : Places \cup {"new", "cut"}]
      BY GivenEntry DEF Course
    <3>3. [has |-> Out.has \cup {e}, whole |-> FALSE] \in Things
      BY <3>1, <3>2 DEF Things
    <3> QED BY <2>2, <2>3, <3>3, PutType DEF StoredType
  <2> QED BY <1>1, <2>1, <2>2, <2>3 DEF upload
<1>5. CASE Finish
  <2>1. Out \in Things
    BY SinkType DEF Out, StoredType, UploadType
  <2>2. [Out EXCEPT !.whole = (op \in Archives \/ ~ err) /\ ~ Behind] \in Things
    BY <2>1 DEF Things
  <2>3. before' = before
    BY <1>5 DEF Finish, call
  <2>4. CASE Put([Out EXCEPT !.whole = (op \in Archives \/ ~ err) /\ ~ Behind])
    BY <2>2, <2>3, <2>4, PutType DEF StoredType
  <2> QED BY <1>1, <1>5, <2>3, <2>4 DEF Finish, upload
<1>6. CASE WriteFails \/ CloseSink \/ AwaitAnswer
  BY <1>6 DEF WriteFails, CloseSink, AwaitAnswer, StoredType, UploadType, upload, call
<1>7. CASE Answer
  BY <1>7 DEF Answer, StoredType, UploadType, upload, call, Stores
<1>8. CASE ReadBody \/ BodyClosed \/ SendResult \/ CloseReader
  BY <1>8 DEF ReadBody, BodyClosed, SendResult, CloseReader, StoredType, UploadType, upload, call
<1>9. CASE OpenSource \/ Load \/ NewContent \/ NoContent \/ Pick \/ Collect \/ CollectEnds \/ CloseSource
           \/ Cancel \/ Return \/ UNCHANGED vars
  BY <1>1, <1>9 DEF OpenSource, Load, NewContent, NoContent, Pick, Collect, CollectEnds, CloseSource,
     Cancel, Return, vars, call, upload
<1> QED BY <1>2, <1>3, <1>4, <1>5, <1>6, <1>7, <1>8, <1>9 DEF Next, Caller, Uploader, Transport

LEMMA StepTypeOK == ASSUME TypeOK, Course, [Next]_vars PROVE TypeOK'
BY StepGivenType, StepCallType, StepEntriesType, StepStoredType DEF TypeOK

----------------------------------------------------------------------------
(* The course of the calls                                                 *)

\* Where a step may lead: to the next one of its call, or past the rest of it.
LEMMA StepOnCourse == ASSUME TypeOK, Course, [Next]_vars PROVE OnCourse'
<1> USE DEF Course, OnCourse
<1>0. /\ UNCHANGED given /\ sources' = sources /\ sink' = sink
      /\ op \in Archives \cup {"UnzipFile", "UnzipToMap", ""}
  BY StepGivenType, ArchiverAssumption DEF given, TypeOK, CallType
<1>1. CASE Start
  <2>1. sources # <<>> => 1 \in DOMAIN sources
    <3>1. sources \in Seq([kind : {"path", "file", "stream"}, place : Places])
      BY ArchiverAssumption DEF TypeOK, GivenType
    <3> QED BY <3>1
  <2> QED BY <1>0, <1>1, <2>1 DEF Start
<1>2. CASE OpenSource \/ NewContent \/ NoContent \/ Pick \/ Collect \/ CollectEnds
  BY <1>0, <1>2 DEF OpenSource, NewContent, NoContent, Pick, Collect, CollectEnds, Go, Fail, Fault, Outer, call
<1>3. CASE Load
  BY <1>0, <1>3, AfterLoadSteps DEF Load, Go, Fail, Fault
<1>4. CASE CloseSource
  <2>1. at < Len(sources) => at + 1 \in DOMAIN sources
    BY <1>4, SourceType DEF CloseSource, TypeOK
  <2> QED BY <1>0, <1>4, <2>1 DEF CloseSource, Go, Fault
<1>5. CASE CreateSink \/ WriteEntry \/ Finish \/ WriteFails \/ Cancel \/ CloseSink \/ AwaitAnswer \/ Return
  BY <1>0, <1>5 DEF CreateSink, WriteEntry, Finish, WriteFails, Cancel, CloseSink, AwaitAnswer, Return, Go, Fail, Fault, Outer, call
<1>6. CASE UNCHANGED vars \/ SendResult \/ CloseReader \/ ReadBody \/ Answer \/ BodyClosed
  BY <1>0, <1>6 DEF vars, SendResult, CloseReader, ReadBody, Answer, BodyClosed, call
<1> QED BY <1>1, <1>2, <1>3, <1>4, <1>5, <1>6 DEF Next, Caller, Uploader, Transport

LEMMA StepNoErrorYet == ASSUME TypeOK, Course, [Next]_vars PROVE NoErrorYet'
<1> USE DEF Course, NoErrorYet
<1>1. CASE Start \/ OpenSource \/ NewContent \/ NoContent \/ Pick \/ Collect \/ CollectEnds
  BY <1>1 DEF Start, OpenSource, NewContent, NoContent, Pick, Collect, CollectEnds, Go, Fail, Fault, Outer
<1>2. CASE Load
  BY <1>2, AfterLoadSteps DEF Load, Go, Fail, Fault
<1>3. CASE CloseSource
  BY <1>3 DEF CloseSource, Go, Fault
<1>4. CASE CreateSink \/ WriteEntry \/ Finish \/ WriteFails \/ Cancel \/ CloseSink \/ AwaitAnswer \/ Return
  BY <1>4 DEF CreateSink, WriteEntry, Finish, WriteFails, Cancel, CloseSink, AwaitAnswer, Return, Go, Fail, Fault, Outer
<1>5. CASE UNCHANGED vars \/ SendResult \/ CloseReader \/ ReadBody \/ Answer \/ BodyClosed
  BY <1>5 DEF vars, SendResult, CloseReader, ReadBody, Answer, BodyClosed
<1> QED BY <1>1, <1>2, <1>3, <1>4, <1>5 DEF Next, Caller, Uploader, Transport

LEMMA StepCourse == ASSUME TypeOK, Course, [Next]_vars PROVE Course'
<1>1. (todo \subseteq DOMAIN archive)'
  <2> USE DEF Course
  <2>1. CASE UNCHANGED <<archive, todo>>
    BY <2>1
  <2>2. CASE Load \/ NewContent \/ Pick \/ Collect \/ WriteEntry \/ Cancel \/ Return
    BY <2>2 DEF Load, NewContent, Pick, Collect, WriteEntry, Cancel, Return
  <2> QED BY <2>1, <2>2
          DEF Next, Caller, Uploader, Transport, vars, call, Start, OpenSource, CloseSource, CollectEnds, NoContent, CreateSink,
              Finish, WriteFails, CloseSink, AwaitAnswer, SendResult, CloseReader, ReadBody, Answer, BodyClosed
<1> QED BY <1>1, StepOnCourse, StepNoErrorYet DEF Course

LEMMA InitCourse == Init => Course
BY DEF Init, Course, OnCourse, NoErrorYet, NoEntries

----------------------------------------------------------------------------
(* What is open                                                            *)

\* Files: one is opened for the source in use, and closed with it.
LEMMA InitFilesInUse == Init => FilesInUse
BY DEF Init, FilesInUse, InUse

LEMMA FilesKept ==
    ASSUME FilesInUse, UNCHANGED <<sources, file, op, at>>, op = "ArchiveFiles" => sources = <<>>,
           op # "ArchiveFiles" => (InUse' <=> InUse)
    PROVE  FilesInUse'
<1>1. Readable(at)' <=> Readable(at)
  BY DEF Readable, Source
<1>2. op = "ArchiveFiles" => DOMAIN sources = {}
  OBVIOUS
<1> QED BY <1>1, <1>2 DEF FilesInUse, Source

LEMMA StepFilesInUse == ASSUME TypeOK, Course, FilesInUse, [Next]_vars PROVE FilesInUse'
<1>0. /\ sources' = sources /\ file \in [DOMAIN sources -> {"none", "open", "left"}]
      /\ op \in Archives \cup {"UnzipFile", "UnzipToMap", ""} /\ OnCourse
  BY StepGivenType, ArchiverAssumption DEF given, TypeOK, CallType, GivenType, Course
<1>1. CASE Start
  BY <1>0, <1>1 DEF Start, FilesInUse, InUse, Readable, Source
<1>2. CASE OpenSource
  BY <1>0, <1>2 DEF OpenSource, Opened, Go, Fault, call, OnCourse, FilesInUse, InUse, Readable, Source
<1>3. CASE NewContent \/ NoContent \/ Pick \/ Collect \/ CollectEnds
  <2>1. UNCHANGED <<file, op, at>> /\ (op # "ArchiveFiles" => (InUse' <=> InUse))
    BY <1>0, <1>3 DEF NewContent, NoContent, Pick, Collect, CollectEnds, Go, Fail, Fault, Outer, call, OnCourse, InUse
  <2>2. op = "ArchiveFiles" => sources = <<>>
    BY <1>0, <1>3 DEF NewContent, NoContent, Pick, Collect, CollectEnds, OnCourse
  <2> QED BY <1>0, <2>1, <2>2, FilesKept
<1>4. CASE Load
  <2>1. UNCHANGED <<file, op, at>> /\ op # "ArchiveFiles"
    BY <1>0, <1>4 DEF Load, OnCourse
  <2>2. InUse' <=> InUse
    BY <1>4, <2>1, AfterLoadSteps DEF Load, Go, Fail, Fault, InUse
  <2> QED BY <1>0, <2>1, <2>2, FilesKept
<1>5. CASE CloseSource
  BY <1>0, <1>5 DEF CloseSource, ClosedSource, Go, Fault, OnCourse, FilesInUse, InUse, Readable, Source
<1>6. CASE CreateSink \/ WriteEntry \/ Finish \/ WriteFails \/ Cancel \/ CloseSink \/ AwaitAnswer
  <2>1. UNCHANGED <<file, op, at>> /\ (op # "ArchiveFiles" => (InUse' <=> InUse))
    BY <1>0, <1>6 DEF CreateSink, WriteEntry, Finish, WriteFails, Cancel, CloseSink, AwaitAnswer, Go, Fail, Fault, Outer, call, InUse
  <2>2. op = "ArchiveFiles" => sources = <<>>
    BY <1>0, <1>6 DEF CreateSink, WriteEntry, Finish, WriteFails, Cancel, CloseSink, AwaitAnswer, OnCourse
  <2> QED BY <1>0, <2>1, <2>2, FilesKept
<1>7. CASE Return
  BY <1>0, <1>7 DEF Return, FilesInUse, InUse, Source
<1>8. CASE UNCHANGED vars \/ SendResult \/ CloseReader \/ ReadBody \/ Answer \/ BodyClosed
  <2>1. UNCHANGED <<file, op, at, pc>>
    BY <1>8 DEF vars, SendResult, CloseReader, ReadBody, Answer, BodyClosed, call
  <2> QED BY <1>0, <2>1 DEF FilesInUse, InUse, Readable, Source
<1> QED BY <1>1, <1>2, <1>3, <1>4, <1>5, <1>6, <1>7, <1>8 DEF Next, Caller, Uploader, Transport

\* The upload: it runs, and its result waits, only while the sink is written and awaited.
LEMMA NewPipeFacts == NewPipe.put = Nothing /\ NewPipe.sent = Nothing /\ NewPipe.eof = FALSE /\ NewPipe.reader = TRUE
BY DEF NewPipe

LEMMA InitUploading == Init => Uploading
<1> SUFFICES ASSUME Init PROVE Uploading
  OBVIOUS
<1>1. pipe.put = Nothing /\ pipe.sent = Nothing
  BY NewPipeFacts DEF Init
<1>2. pc = "idle" /\ uploader = "none" /\ errCh = ""
  BY DEF Init
<1> QED BY <1>1, <1>2 DEF Uploading, AtSink, Waiting

LEMMA StepUploading == ASSUME TypeOK, Course, Uploading, [Next]_vars PROVE Uploading'
<1> USE DEF Uploading, AtSink, Waiting
<1>0. sink' = sink /\ OnCourse
  BY StepGivenType DEF given, Course
<1>1. CASE /\ UNCHANGED <<pipe, uploader, answer, errCh>>
           /\ pc \notin {"write", "closeSink", "await"} /\ pc' \notin {"write", "closeSink", "await"}
  BY <1>0, <1>1
<1>2. CASE Start \/ OpenSource \/ NewContent \/ NoContent \/ Pick \/ Collect \/ CollectEnds \/ CloseSource \/ Return
  BY <1>1, <1>2 DEF Start, OpenSource, NewContent, NoContent, Pick, Collect, CollectEnds, CloseSource, Return,
     Go, Fail, Fault, Outer, upload
<1>3. CASE Load
  BY <1>1, <1>3, AfterLoadSteps DEF Load, Go, Fail, Fault, upload
<1>4. CASE CreateSink
  <2>1. CASE sink.kind # "url"
    <3>1. pc' \in {"write", "closeSource", "return"} /\ UNCHANGED <<pipe, uploader, answer, errCh>>
      BY <1>4, <2>1 DEF CreateSink, WriterSink, Go, Fail, Fault, Outer, upload
    <3> QED BY <1>0, <1>4, <2>1, <3>1 DEF CreateSink
  <2>2. CASE sink.kind = "url"
    <3>1. /\ pc' = "write" /\ uploader' = "doing" /\ answer' = "" /\ errCh' = errCh
          /\ pipe'.put = Nothing /\ pipe'.sent = Nothing /\ pipe'.eof = FALSE /\ pipe'.reader = TRUE
      BY <1>4, <2>2, NewPipeFacts DEF CreateSink, WriterSink, Go
    <3> QED BY <1>0, <1>4, <2>2, <3>1 DEF CreateSink
  <2> QED BY <2>1, <2>2
<1>5. CASE WriteEntry \/ Finish \/ Cancel
  <2>1. /\ pc = "write" /\ pc' \in {"write", "closeSink"} /\ UNCHANGED <<uploader, answer, errCh>>
        /\ pipe'.eof = pipe.eof /\ pipe'.reader = pipe.reader /\ (sink.kind # "url" => pipe' = pipe)
    BY <1>5 DEF WriteEntry, Finish, Cancel, Go, Fail, Fault, Put, upload, TypeOK, UploadType
  <2> QED BY <1>0, <2>1
<1>10. CASE WriteFails \/ ReadBody
  <2>1. /\ Waiting /\ pc' = pc /\ UNCHANGED <<uploader, answer, errCh>>
        /\ pipe'.eof = pipe.eof /\ pipe'.reader = pipe.reader /\ pipe'.put = pipe'.sent
    BY <1>10 DEF WriteFails, ReadBody, Fail, TypeOK, UploadType
  <2> QED BY <1>0, <2>1
<1>6. CASE CloseSink
  <2>1. CASE sink.kind # "url"
    <3>1. pc' \in {"closeSource", "return"} /\ UNCHANGED <<pipe, uploader, answer, errCh>>
      BY <1>6, <2>1 DEF CloseSink, Go, Fail, Fault, Outer, upload
    <3> QED BY <1>0, <1>6, <2>1, <3>1 DEF CloseSink
  <2>2. CASE sink.kind = "url"
    <3>1. /\ pc' = "await" /\ UNCHANGED <<uploader, answer, errCh>> /\ pipe'.eof = TRUE /\ pipe'.reader = pipe.reader
          /\ pipe'.put = pipe.put /\ pipe'.sent = pipe.sent /\ ~ Waiting
      BY <1>6, <2>2 DEF CloseSink, Shut, Go, TypeOK, UploadType
    <3> QED BY <1>0, <1>6, <2>2, <3>1 DEF CloseSink
  <2> QED BY <2>1, <2>2
<1>7. CASE AwaitAnswer
  BY <1>0, <1>7 DEF AwaitAnswer, Go, Fail, Outer, OnCourse
<1>8. CASE UNCHANGED vars \/ Answer \/ BodyClosed
  BY <1>0, <1>8 DEF vars, upload, Answer, BodyClosed, Bad, TypeOK, UploadType
<1>9. CASE SendResult \/ CloseReader
  BY <1>0, <1>9 DEF SendResult, CloseReader, Bad, TypeOK, UploadType
<1> QED BY <1>2, <1>3, <1>4, <1>5, <1>6, <1>7, <1>8, <1>9, <1>10 DEF Next, Caller, Uploader, Transport

\* What a call leaves at its return is closed.
LEMMA ClosedAtReturn == TypeOK /\ FilesInUse /\ Uploading => NothingLeftOpen
<1> SUFFICES ASSUME TypeOK, FilesInUse, Uploading, pc = "return"
             PROVE  /\ \A i \in DOMAIN sources : file[i] # "open"
                    /\ pipe.put # Nothing => pipe.eof
                    /\ ~ Waiting /\ uploader # "doing"
  BY DEF NothingLeftOpen
<1>1. \A i \in DOMAIN sources : file[i] # "open"
  BY DEF FilesInUse, InUse
<1>2. (pipe.put # Nothing => pipe.eof) /\ ~ Waiting /\ uploader # "doing"
  BY DEF Uploading, AtSink
<1> QED BY <1>1, <1>2

----------------------------------------------------------------------------
(* Why a call fails                                                        *)

LEMMA InitCauses == Init => Untouched /\ Causes
<1> SUFFICES ASSUME Init PROVE Untouched /\ Causes
  OBVIOUS
<1>1. \A p \in Places : stored[p] = Archived(p) /\ before[p] = Archived(p)
  BY DEF Init, Stores
<1>2. err = FALSE
  BY DEF Init
<1> QED BY <1>1, <1>2 DEF Causes, Untouched, Others

\* Nothing but the sink's place is written.
LEMMA OnlySinkWritten ==
    ASSUME TypeOK, Uploading, [Next]_vars, NEW p \in Stores, p # sink.place
    PROVE  stored'[p] = stored[p]
<1>1. stored \in [Stores -> Things] /\ sink.place \in Stores /\ (sink.kind = "url" => sink.place = Remote)
  BY SinkType DEF TypeOK, StoredType
<1>2. CASE UNCHANGED stored
  BY <1>2
<1>3. CASE CreateSink
  BY <1>1, <1>3 DEF CreateSink
<1>4. CASE WriteEntry \/ Finish
  BY <1>1, <1>4 DEF WriteEntry, Finish, Put, upload
<1>5. CASE Answer
  BY <1>1, <1>5 DEF Answer, Uploading, AtSink
<1> QED BY <1>2, <1>3, <1>4, <1>5
        DEF Next, Caller, Uploader, Transport, vars, Start, OpenSource, Load, NewContent, NoContent, Pick, Collect, CollectEnds,
            CloseSource, WriteFails, CloseSink, AwaitAnswer, Return, Cancel, SendResult, CloseReader, ReadBody, BodyClosed

\* During a call the operation, its source and sink, and what was stored before are the same.
LEMMA CallKept ==
    ASSUME TypeOK, Course, [Next]_vars, ~ Start
    PROVE  /\ UNCHANGED <<sources, sink, op, before, again>>
           /\ Used' = Used /\ InPlace' = InPlace /\ Unsupported' = Unsupported /\ ReadAfterClose' = ReadAfterClose
           /\ StreamAgain' = StreamAgain /\ WriterAgain' = WriterAgain /\ ReadTwice' = ReadTwice /\ Behind' = Behind
           /\ \A i : Complete(i)' = Complete(i)
           /\ \A p : Names(p)' = Names(p)
           /\ \A n : Origin(n)' = Origin(n)
<1>1. UNCHANGED <<sources, sink>>
  BY StepGivenType DEF given
<1>2. UNCHANGED <<op, before, again>>
  BY DEF Next, Caller, Uploader, Transport, vars, call, OpenSource, Load, NewContent, NoContent, Pick, Collect, CollectEnds,
     CloseSource, CreateSink, WriteEntry, Finish, WriteFails, Cancel, CloseSink, AwaitAnswer, Return, SendResult,
     CloseReader, ReadBody, Answer, BodyClosed
<1>3. Used' = Used
  BY <1>1, <1>2 DEF Used
<1>4. InPlace' = InPlace /\ StreamAgain' = StreamAgain
  BY <1>1, <1>2 DEF InPlace, StreamAgain, ReadBefore, RandomAccess, Source
<1>5. Unsupported' = Unsupported /\ ReadAfterClose' = ReadAfterClose
  BY <1>1, <1>2, <1>3 DEF Unsupported, ReadAfterClose, Source
<1>6. WriterAgain' = WriterAgain /\ ReadTwice' = ReadTwice /\ Behind' = Behind
  BY <1>1, <1>2 DEF WriterAgain, ReadTwice, Behind, WriterSink, RandomAccess, Source
<1>7. \A i : Complete(i)' = Complete(i)
  BY <1>1, <1>4 DEF Complete, RandomAccess, Source
<1>8. \A p : Names(p)' = Names(p)
  BY <1>2 DEF Names
<1>9. \A n : Origin(n)' = Origin(n)
  BY <1>1, <1>2, <1>3, <1>8 DEF Origin, Source
<1> QED BY <1>1, <1>2, <1>3, <1>4, <1>5, <1>6, <1>7, <1>8, <1>9

\* Archives in the places that are not written are as they were at first.
LEMMA StepUntouched == ASSUME TypeOK, Course, Uploading, Untouched, [Next]_vars PROVE Untouched'
<1> SUFFICES ASSUME NEW p \in Others' PROVE stored'[p] = Archived(p) /\ before'[p] = Archived(p)
  BY DEF Untouched, Archived
<1>1. sink' = sink /\ p \in Others /\ p \in Places
  BY StepGivenType DEF given, Others
<1>2. p \in Stores /\ p # sink.place
  BY <1>1, SinkType, ArchiverAssumption DEF TypeOK, Others, Stores, WriterSink
<1>3. stored'[p] = Archived(p)
  BY <1>1, <1>2, OnlySinkWritten DEF Untouched
<1>4. before' = before \/ before' = stored
  BY CallKept DEF Start
<1> QED BY <1>1, <1>3, <1>4 DEF Untouched

\* A source that is not written is whole, and what it holds is what it held before.
LEMMA SourceKept ==
    ASSUME TypeOK, Untouched, ~ InPlace, NEW i \in DOMAIN sources
    PROVE  /\ stored[Source(i).place] = before[Source(i).place]
           /\ stored[Source(i).place].whole /\ Holds(i) = Names(Source(i).place)
           /\ Names(Source(i).place) = Original[Source(i).place]
<1>1. Source(i).place \in Others
  BY SourceType DEF TypeOK, InPlace, Others
<1>2. stored[Source(i).place] = Archived(Source(i).place) /\ before[Source(i).place] = Archived(Source(i).place)
  BY <1>1 DEF Untouched
<1>3. /\ Archived(Source(i).place).whole
      /\ {e.name : e \in Archived(Source(i).place).has} = Original[Source(i).place]
  <2> DEFINE P == Source(i).place
  <2>1. /\ \A n \in Original[P] : Entry(n, P).name = n
        /\ \A e \in {Entry(n, P) : n \in Original[P]} : e.name \in Original[P]
    BY DEF Entry
  <2>2. {e.name : e \in {Entry(n, P) : n \in Original[P]}} = Original[P]
    <3> HIDE DEF P
    <3> QED BY <2>1
  <2> QED BY <2>2 DEF Archived
<1> QED BY <1>2, <1>3 DEF Holds, Names

\* Loading fails by itself only for a stream, or if the destination is its own source.
LEMMA LoadCauses ==
    ASSUME TypeOK, Course, FilesInUse, Untouched, Load, ~ cause', ~ err, err'
    PROVE  Unsupported \/ InPlace
<1>1. ~ Readable(at) \/ ~ stored[Source(at).place].whole \/ (~ RandomAccess(at) /\ op \in Archives)
  BY DEF Load, Go, Fault
<1>2. op # "ArchiveFiles" /\ at \in DOMAIN sources /\ pc = "load" /\ (op # "Merge" => at = 1)
  BY DEF Load, Course, OnCourse
<1>3. Readable(at)
  BY <1>2 DEF FilesInUse, InUse
<1>4. CASE ~ stored[Source(at).place].whole
  BY <1>2, <1>4, SourceKept
<1>5. CASE ~ RandomAccess(at) /\ op \in Archives
  BY <1>2, <1>5 DEF RandomAccess, Unsupported, Used
<1> QED BY <1>1, <1>3, <1>4, <1>5

\* Writing an entry fails by itself only if its source is closed or overwritten, or the
\* caller's writer is closed.
LEMMA WriteCauses ==
    ASSUME TypeOK, Course, FilesInUse, Untouched, Loaded, WriteEntry, ~ cause', ~ err, err'
    PROVE  ReadAfterClose \/ InPlace \/ Shut
<1> SUFFICES ASSUME ~ InPlace, ~ Shut, NEW n \in todo, Given(n) = {} \/ Damaged(n)
             PROVE  ReadAfterClose
  BY DEF WriteEntry, Go, Fault
<1> DEFINE i == archive[n]
<1>1. n \in DOMAIN archive /\ i \in DOMAIN sources \cup {0} /\ pc = "write"
  BY DEF WriteEntry, Course, TypeOK, EntriesType
<1>2. i # 0
  <2>1. i = 0 => Given(n) = {Entry(n, "new")}
    BY DEF Given
  <2>2. Entry(n, "new") # Entry(n, "cut")
    BY DEF Entry
  <2> QED BY <2>1, <2>2 DEF Damaged
<1>3. i \in DOMAIN sources /\ stored[Source(i).place] = before[Source(i).place] /\ Source(i).place \in Places
  BY <1>1, <1>2, SourceKept, SourceType DEF TypeOK
<1>4. ~ Readable(i)
  <2>1. Readable(i) => Given(n) = {Entry(n, Source(i).place)}
    BY <1>2, <1>3 DEF Given
  <2>2. Entry(n, Source(i).place) # Entry(n, "cut")
    BY <1>3, ArchiverAssumption DEF Entry
  <2> QED BY <2>1, <2>2 DEF Damaged
<1>5. Source(i).kind = "path"
  BY <1>4 DEF Readable
<1>6. op = "Merge"
  <2>1. sources # <<>> /\ op # "ArchiveFiles"
    BY <1>1, <1>3 DEF Course, OnCourse
  <2>2. i \in Used
    BY <1>1, <1>2 DEF Loaded, Settled
  <2>3. CASE op # "Merge"
    <3>1. i = 1 /\ at = 1
      BY <1>1, <2>1, <2>2, <2>3 DEF Course, OnCourse, Used
    <3>2. Readable(at)
      BY <1>1, <2>1, <2>3 DEF FilesInUse, InUse, Course, OnCourse
    <3> QED BY <1>4, <3>1, <3>2
  <2> QED BY <2>3
<1> QED BY <1>3, <1>5, <1>6 DEF ReadAfterClose, Used

\* What was spent before the call, and what the call spends.
LEMMA InitSpending == Init => Spending
BY DEF Init, Spending, Early

LEMMA StepSpending == ASSUME TypeOK, Course, Spending, [Next]_vars PROVE Spending'
<1>0. OnCourse /\ UNCHANGED sources
  BY StepGivenType DEF given, Course
<1>1. (\A i \in DOMAIN sources : i \notin spent => ahead[i] = Original[Source(i).place])'
  <2>1. CASE Pick \/ CollectEnds
    <3>1. UNCHANGED spent /\ (RandomAccess(at) \/ at \in spent) /\ \E rest \in SUBSET Files : Leave(rest)
      BY <2>1 DEF Pick, CollectEnds, Spending, TypeOK, EntriesType
    <3> QED BY <1>0, <3>1 DEF Spending, Leave, Source, TypeOK, GivenType
  <2>2. CASE UNCHANGED ahead /\ spent \subseteq spent'
    BY <1>0, <2>2 DEF Spending, Source
  <2> QED BY <2>1, <2>2
          DEF Next, Caller, Uploader, Transport, vars, Start, OpenSource, Load, NewContent, NoContent, Collect, CloseSource,
              CreateSink, WriteEntry, Finish, WriteFails, CloseSink, AwaitAnswer, Return, Cancel, SendResult,
              CloseReader, ReadBody, Answer, BodyClosed
<1> DEFINE Rest == /\ pc \in {"open", "load"} \/ (op = "Merge" /\ Early) => spent \subseteq again
                   /\ Early \/ pc \in {"write", "closeSink"} => (0 \in spent => 0 \in again)
                   /\ pc \in {"pick", "collect"} => RandomAccess(at) \/ at \in spent
<1>2. Rest'
  <2>0. Rest
    BY DEF Spending
  <2>1. CASE Start
    BY <2>1 DEF Start, Early
  <2>2. CASE Load
    <3>1. UNCHANGED <<again, op, at>> /\ pc = "load" /\ at # 0
      BY <2>2 DEF Load, TypeOK, CallType
    <3>2. \/ pc' = "closeSource" /\ spent' = spent
          \/ pc' = AfterLoad /\ spent' = IF RandomAccess(at) THEN spent ELSE spent \cup {at}
      BY <2>2 DEF Load, Go, Fail, Fault
    <3>3. op = "Merge" => spent' = spent
      BY <2>2 DEF Load, Archives
    <3> QED BY <1>0, <2>0, <3>1, <3>2, <3>3, AfterLoadSteps DEF Early, RandomAccess, Source
  <2>3. CASE OpenSource \/ NewContent \/ NoContent \/ Pick \/ Collect \/ CollectEnds \/ CloseSource
    <3>1. UNCHANGED <<again, spent, op>>
      BY <2>3 DEF OpenSource, NewContent, NoContent, Pick, Collect, CollectEnds, CloseSource, call
    <3>2. pc' \in {"pick", "collect"} => pc' = pc /\ at' = at
      BY <2>3 DEF OpenSource, NewContent, NoContent, Pick, Collect, CollectEnds, CloseSource, Go, Fail, Fault, Outer
    <3>3. Early' \/ pc' \in {"write", "closeSink"} => Early
      BY <1>0, <2>3 DEF OpenSource, NewContent, NoContent, Pick, Collect, CollectEnds, CloseSource, Go, Fail, Fault, Outer,
         Early, OnCourse
    <3>4. pc' \in {"open", "load"} => pc \in {"open", "load"} \/ op = "Merge"
      BY <2>3 DEF OpenSource, NewContent, NoContent, Pick, Collect, CollectEnds, CloseSource, Go, Fail, Fault, Outer
    <3> QED BY <1>0, <2>0, <3>1, <3>2, <3>3, <3>4 DEF Early, RandomAccess, Source
  <2>4. CASE CreateSink \/ WriteEntry \/ Finish \/ WriteFails \/ Cancel \/ CloseSink \/ AwaitAnswer
    <3>1. UNCHANGED <<again, op>> /\ pc' \in {"write", "closeSink", "await", Outer}
      BY <2>4 DEF CreateSink, WriteEntry, Finish, WriteFails, Cancel, CloseSink, AwaitAnswer, Go, Fail, Fault, call
    <3>2. Outer = "return" \/ (Outer = "closeSource" /\ op # "Merge")
      BY DEF Outer
    <3>3. pc' \in {"write", "closeSink"} => UNCHANGED spent /\ (Early \/ pc \in {"write", "closeSink"})
      BY <2>4, <3>2 DEF CreateSink, WriteEntry, Finish, WriteFails, Cancel, CloseSink, AwaitAnswer, Go, Fail, Fault, Early
    <3> QED BY <2>0, <3>1, <3>2, <3>3 DEF Early
  <2>5. CASE Return
    BY <2>5 DEF Return, Early
  <2>6. CASE UNCHANGED <<pc, again, op, at, spent>>
    BY <1>0, <2>0, <2>6 DEF Early, RandomAccess, Source
  <2> QED BY <2>1, <2>2, <2>3, <2>4, <2>5, <2>6
          DEF Next, Caller, Uploader, Transport, vars, call, SendResult, CloseReader, ReadBody, Answer, BodyClosed
<1> QED BY <1>1, <1>2 DEF Spending

\* An error has its cause when it happens, and keeps it until the call returns.
LEMMA StepCauses ==
    ASSUME TypeOK, Course, FilesInUse, Uploading, Untouched, Spending, Loaded, Causes, [Next]_vars
    PROVE  Causes'
<1> SUFFICES ASSUME err', ~ cause' PROVE Excuse'
  BY DEF Causes, Excuse
<1>0. OnCourse /\ NoErrorYet /\ ~ Start
  BY DEF Course, NoErrorYet, Start
<1>1. /\ UNCHANGED <<sources, sink, op>> /\ Unsupported' = Unsupported /\ ReadAfterClose' = ReadAfterClose
      /\ InPlace' = InPlace /\ StreamAgain' = StreamAgain /\ WriterAgain' = WriterAgain /\ ReadTwice' = ReadTwice
  BY <1>0, CallKept
<1> DEFINE Failed == {"write", "closeSink", "await", "closeSource", "return"}
<1>2. CASE err
  <2>1. ~ Return
    BY DEF Return
  <2>2. pc \notin {"idle", "add", "open", "load", "transform", "pick", "create"}
    BY <1>0, <1>2 DEF NoErrorYet
  <2>0. ~ NewContent /\ ~ NoContent
    BY <2>2 DEF NewContent, NoContent
  <2>3. (cause => cause') /\ (skipped => skipped')
    <3>1. cause' = cause \/ cause' = TRUE
      BY <2>0, <2>1 DEF Next, Caller, Uploader, Transport, vars, Start, OpenSource, Load, Pick, Collect, CollectEnds,
         CloseSource, CreateSink, WriteEntry, Finish, WriteFails, Cancel, CloseSink, AwaitAnswer, SendResult, CloseReader,
         ReadBody, Answer, BodyClosed, Go, Fail, Fault
    <3>2. skipped' = skipped
      BY <2>0, <2>1 DEF Next, Caller, Uploader, Transport, vars, call, Start, OpenSource, Load, Pick, Collect, CollectEnds,
         CloseSource, CreateSink, WriteEntry, Finish, WriteFails, Cancel, CloseSink, AwaitAnswer, SendResult, CloseReader,
         ReadBody, Answer, BodyClosed
    <3> QED BY <3>1, <3>2
  <2>4. pc \in Failed => pc' \in Failed
    BY <2>1, <2>2, <1>0, <1>2 DEF Next, Caller, Uploader, Transport, vars, Start, OpenSource, Load, NewContent, NoContent,
       Pick, Collect, CollectEnds, CloseSource, CreateSink, WriteEntry, Finish, WriteFails, Cancel, CloseSink, AwaitAnswer,
       SendResult, CloseReader, ReadBody, Answer, BodyClosed, Go, Fail, Fault, Outer
  <2>5. answer \notin {"", "ok"} => answer' = answer
    BY <2>2 DEF Next, Caller, Uploader, Transport, vars, Start, OpenSource, Load, NewContent, NoContent, Pick, Collect,
       CollectEnds, CloseSource, CreateSink, WriteEntry, Finish, WriteFails, Cancel, CloseSink, AwaitAnswer, Return,
       SendResult, CloseReader, ReadBody, Answer, BodyClosed, upload, Put
  <2> QED BY <1>1, <1>2, <2>3, <2>4, <2>5 DEF Causes, Excuse
<1>3. CASE ~ err
  <2>1. \/ Load \/ NoContent \/ Pick \/ CollectEnds \/ WriteEntry \/ Finish \/ WriteFails \/ CloseSink \/ AwaitAnswer
    BY <1>0, <1>3 DEF Next, Caller, Uploader, Transport, vars, OpenSource, NewContent, Collect, CloseSource, CreateSink,
       Cancel, Return, SendResult, CloseReader, ReadBody, Answer, BodyClosed, Go, Fail, Fault
  <2>2. CASE Load
    BY <1>1, <1>3, <2>2, LoadCauses DEF Excuse
  <2>3. CASE NoContent
    BY <1>3, <2>3 DEF NoContent, Fault, Excuse
  <2>4. CASE Pick \/ CollectEnds
    <3>1. at = 1 /\ op \in {"UnzipFile", "UnzipToMap"}
      BY <1>0, <2>4 DEF Pick, CollectEnds, OnCourse
    <3>2. ReadBefore(at) \/ (RandomAccess(at) /\ op = "UnzipToMap")
      BY <1>0, <1>3, <2>4 DEF Pick, CollectEnds, Go, Fail, Fault, OnCourse
    <3> QED BY <1>1, <3>1, <3>2 DEF Excuse, StreamAgain, ReadTwice
  <2>5. Shut /\ pc \in {"write", "closeSink"} => WriterAgain
    BY DEF Shut, WriterAgain, Spending
  <2>6. CASE WriteEntry
    <3>1. ReadAfterClose \/ InPlace \/ Shut
      BY <1>3, <2>6, WriteCauses
    <3>2. pc = "write"
      BY <2>6 DEF WriteEntry
    <3> QED BY <1>1, <2>5, <3>1, <3>2 DEF Excuse
  <2>7. CASE Finish \/ CloseSink
    <3>1. Shut /\ pc \in {"write", "closeSink"}
      BY <1>3, <2>7 DEF Finish, CloseSink, Go, Fail, Fault
    <3> QED BY <1>1, <2>5, <3>1 DEF Excuse
  <2>8. CASE WriteFails
    <3>1. pc' = pc /\ pc \in {"write", "closeSink"} /\ sink.kind = "url" /\ ~ pipe.reader /\ answer' = answer
      BY <2>8 DEF WriteFails, Fail, Uploading
    <3>2. answer \notin {"", "ok"}
      BY <3>1 DEF Uploading, AtSink
    <3> QED BY <1>1, <3>1, <3>2 DEF Excuse
  <2>9. CASE AwaitAnswer
    <3>1. pc = "await" /\ errCh = "error" /\ pc' = Outer /\ answer' = answer
      BY <1>3, <2>9 DEF AwaitAnswer, Go, Fail
    <3>2. Bad(answer) /\ sink.kind = "url"
      BY <3>1 DEF Uploading, AtSink
    <3> QED BY <1>1, <3>1, <3>2 DEF Excuse, Outer, Bad
  <2> QED BY <2>1, <2>2, <2>3, <2>4, <2>6, <2>7, <2>8, <2>9
<1> QED BY <1>2, <1>3

\* What excuses an error is what a failed call may have for a reason.
LEMMA CausesAtReturn == Causes => ErrorsHaveACause
BY DEF Causes, Excuse, ErrorsHaveACause

----------------------------------------------------------------------------
(* What is loaded                                                          *)

LEMMA InitLoaded == Init => Loaded
BY DEF Init, Loaded, Early

\* These say nothing of the pipe, the files or the step a call is at.
LEMMA LoadedKept ==
    ASSUME UNCHANGED <<given, op, before, again, archive>>
    PROVE  /\ \A k : Covers(k)' <=> Covers(k)
           /\ UNCHANGED dropped => (Settled' <=> Settled)
<1>1. \A p : Names(p)' = Names(p)
  BY DEF Names
<1>2. Used' = Used
  BY DEF Used, given
<1>3. \A n : Origin(n)' = Origin(n)
  BY <1>1, <1>2 DEF Origin, Source, given
<1>4. \A i : Complete(i)' = Complete(i)
  BY DEF Complete, RandomAccess, StreamAgain, ReadBefore, InPlace, Source, given
<1>5. \A k : Covers(k)' <=> Covers(k)
  BY <1>1, <1>4 DEF Covers, Source, given
<1>6. UNCHANGED dropped => \A i : AllLoaded(i)' <=> AllLoaded(i)
  BY <1>1 DEF AllLoaded, Source, given
<1>7. UNCHANGED dropped => (Settled' <=> Settled)
  BY <1>2, <1>3, <1>4, <1>6 DEF Settled, Source, given
<1> QED BY <1>5, <1>7

\* When all sources are loaded every name has its origin.
AllCovered == pc # "idle" /\ op # "ArchiveFiles" /\ IF op = "Merge" THEN Covers(Len(sources)) ELSE Covers(1)

LEMMA CoversSettles == TypeOK /\ Course /\ AllCovered => Settled
<1> SUFFICES ASSUME TypeOK, Course, AllCovered PROVE Settled
  OBVIOUS
<1> USE DEF AllCovered
<1>1. at \in DOMAIN sources
  BY DEF Course, OnCourse
<1>2. DOMAIN sources = 1 .. Len(sources) /\ Len(sources) \in Nat
  BY <1>1, SourceType DEF TypeOK
<1> DEFINE k == IF op = "Merge" THEN Len(sources) ELSE 1
<1>3. Used = 1 .. k
  <2>1. 1 .. 1 = {1}
    OBVIOUS
  <2>2. CASE op = "Merge"
    BY <1>2, <2>2 DEF Used
  <2>3. CASE op # "Merge"
    BY <2>1, <2>3 DEF Used
  <2> QED BY <2>2, <2>3
<1>4. Covers(k)
  OBVIOUS
<1> HIDE DEF k
<1>5. \A i \in Used : Complete(i) => AllLoaded(i)
  BY <1>3, <1>4 DEF Covers, AllLoaded
<1>6. ASSUME NEW n \in DOMAIN archive PROVE archive[n] \in Used /\ Source(archive[n]).place \in Origin(n)
  <2>1. /\ archive[n] \in Used /\ n \in Names(Source(archive[n]).place)
        /\ \A i \in Used : n \in Names(Source(i).place) => i <= archive[n]
    BY <1>3, <1>4 DEF Covers
  <2> QED BY <2>1 DEF Origin
<1> QED BY <1>5, <1>6 DEF Settled

\* What a source has to offer: all it holds, or the only source's rest.
LEMMA WhatIsOffered ==
    ASSUME TypeOK, Course, Untouched, Spending, Loaded, Load, NEW offered \in Offers(at), stored[Source(at).place].whole,
           RandomAccess(at) \/ op \notin Archives
    PROVE  /\ offered \subseteq Names(Source(at).place)
           /\ Complete(at) => offered = Names(Source(at).place)
           /\ offered = Names(Source(at).place) \/ DOMAIN archive = {}
<1>1. pc = "load" /\ at \in DOMAIN sources /\ (op # "Merge" => at = 1) /\ op \in Archives \cup {"UnzipFile", "UnzipToMap", ""}
      /\ op \in Operations
  BY ArchiverAssumption DEF Load, Course, OnCourse, TypeOK, CallType
<1>2. stored = before
  BY <1>1 DEF Loaded, Early
<1>3. Holds(at) = Names(Source(at).place)
  BY <1>2 DEF Holds, Names
<1>4. CASE RandomAccess(at)
  BY <1>3, <1>4 DEF Offers
<1>5. CASE ~ RandomAccess(at)
  <2>1. at = 1 /\ op \in {"UnzipFile", "UnzipToMap"}
    BY <1>1, <1>5, ArchiverAssumption DEF Archives
  <2>2. DOMAIN archive = {}
    <3>1. Covers(at - 1)
      BY <1>1 DEF Loaded
    <3>2. \A n \in DOMAIN archive : archive[n] \in 1 .. 0
      BY <2>1, <3>1 DEF Covers
    <3>3. 1 .. 0 = {}
      OBVIOUS
    <3> QED BY <3>2, <3>3
  <2>3. offered \subseteq Names(Source(at).place)
    BY <1>3, <1>5 DEF Offers
  <2>4. ASSUME Complete(at) PROVE offered = Names(Source(at).place)
    <3>1. ~ StreamAgain /\ ~ InPlace
      BY <1>5, <2>4 DEF Complete
    <3>2. at \notin spent
      BY <1>1, <1>5, <2>1, <3>1 DEF StreamAgain, ReadBefore, Spending
    <3>3. ahead[at] = Names(Source(at).place)
      BY <1>1, <3>1, <3>2, SourceKept DEF Spending
    <3> QED BY <1>3, <1>5, <3>2, <3>3 DEF Offers
  <2> QED BY <2>2, <2>3, <2>4
<1> QED BY <1>4, <1>5

\* A source that has been loaded is one more.
LEMMA LoadCovers ==
    ASSUME TypeOK, Course, Untouched, Spending, Loaded, Load, ~ err'
    PROVE  Covers(at)' /\ todo' = DOMAIN archive' /\ pc' = AfterLoad
<1>0. UNCHANGED <<given, sources, op, before, again, at, dropped>> /\ pc = "load"
  BY DEF Load, given
<1>1. /\ stored[Source(at).place].whole /\ todo' = DOMAIN archive' /\ pc' = AfterLoad
      /\ RandomAccess(at) \/ op \notin Archives
      /\ \E offered \in Offers(at) :
           archive' = [n \in DOMAIN archive \cup offered |-> IF n \in offered THEN at ELSE archive[n]]
  BY DEF Load, Go, Fail, Fault
<1>2. at \in DOMAIN sources
  BY <1>0 DEF Load, Course, OnCourse
<1>3. at \in Nat /\ at > 0
  BY <1>2, SourceType DEF TypeOK
<1>4. Covers(at - 1)
  BY <1>0 DEF Loaded
<1>5. PICK offered \in Offers(at) :
         archive' = [n \in DOMAIN archive \cup offered |-> IF n \in offered THEN at ELSE archive[n]]
  BY <1>1
<1> DEFINE held(i) == Names(Source(i).place)
<1>6. /\ offered \subseteq held(at) /\ (Complete(at) => offered = held(at))
      /\ offered = held(at) \/ DOMAIN archive = {}
  BY <1>1, <1>5, WhatIsOffered
<1>7. \A i \in 1 .. at : Complete(i) => held(i) \subseteq DOMAIN archive'
  <2>1. \A i \in 1 .. at : i = at \/ i \in 1 .. at - 1
    BY <1>3
  <2> QED BY <1>4, <1>5, <1>6, <2>1 DEF Covers
<1>8. ASSUME NEW n \in DOMAIN archive'
      PROVE  /\ archive'[n] \in 1 .. at /\ n \in held(archive'[n])
             /\ \A i \in 1 .. at : n \in held(i) => i <= archive'[n]
  <2>1. CASE n \in offered
    <3>1. archive'[n] = at
      BY <1>5, <2>1
    <3> QED BY <1>3, <1>6, <2>1, <3>1
  <2>2. CASE n \notin offered
    <3>1. n \in DOMAIN archive /\ archive'[n] = archive[n] /\ n \notin held(at)
      BY <1>5, <1>6, <2>2
    <3>2. /\ archive[n] \in 1 .. at - 1 /\ n \in held(archive[n])
          /\ \A i \in 1 .. at - 1 : n \in held(i) => i <= archive[n]
      BY <1>4, <3>1 DEF Covers
    <3> HIDE DEF held
    <3>3. \A i \in 1 .. at : n \in held(i) => i \in 1 .. at - 1
      BY <1>3, <3>1
    <3> QED BY <1>3, <3>1, <3>2, <3>3
  <2> QED BY <2>1, <2>2
<1>9. (\A i : Names(Source(i).place)' = held(i)) /\ (\A i : Complete(i)' = Complete(i))
  BY <1>0 DEF Names, Source, Complete, RandomAccess, StreamAgain, ReadBefore, InPlace, given
<1>10. Covers(at)'
  BY <1>0, <1>7, <1>8, <1>9 DEF Covers
<1> QED BY <1>1, <1>10

LEMMA StepLoaded ==
    ASSUME TypeOK, Course, Uploading, Untouched, Spending, Loaded, [Next]_vars
    PROVE  Loaded'
<1>0. OnCourse /\ NoErrorYet /\ op \in Archives \cup {"UnzipFile", "UnzipToMap", ""} /\ UNCHANGED <<sources, sink, given>>
  BY StepGivenType, ArchiverAssumption DEF given, TypeOK, CallType, Course
<1>k. UNCHANGED <<op, before, again, archive>> =>
        /\ \A k : Covers(k)' <=> Covers(k)
        /\ UNCHANGED dropped => (Settled' <=> Settled)
  BY <1>0, LoadedKept
<1>1. CASE Start
  <2>1. /\ pc = "idle" /\ pc' \in {"add", "open"} /\ at' = 1 /\ before' = stored /\ sources' = sources
        /\ UNCHANGED <<stored, archive, todo, got>>
    BY <1>0, <1>1 DEF Start
  <2>2. archive = NoEntries /\ todo = {} /\ got = {} /\ DOMAIN NoEntries = {}
    BY <2>1 DEF Loaded, NoEntries
  <2>3. 1 .. (at' - 1) = {}
    BY <2>1
  <2>4. Covers(at - 1)'
    BY <2>1, <2>2, <2>3 DEF Covers
  <2> QED BY <2>1, <2>2, <2>4 DEF Loaded, Early
<1>2. CASE OpenSource
  <2>1. /\ pc = "open" /\ (pc' = "load" \/ (pc' = "return" /\ err') \/ pc' = "panic")
        /\ UNCHANGED <<stored, op, at, archive, todo, got, before, again>>
    BY <1>2 DEF OpenSource, Go, Fault, call
  <2> QED BY <1>k, <2>1 DEF Loaded, Early
<1>3. CASE Load
  <2>1. pc = "load" /\ op # "ArchiveFiles" /\ (op # "Merge" => at = 1) /\ UNCHANGED <<stored, op, at, before, got>>
    BY <1>0, <1>3 DEF Load, OnCourse
  <2>2. CASE err'
    <3>1. pc' = "closeSource" /\ UNCHANGED <<archive, todo>>
      BY <1>0, <1>3, <2>2 DEF Load, Go, Fail, Fault, NoErrorYet
    <3> QED BY <2>1, <2>2, <3>1 DEF Loaded, Early
  <2>3. CASE ~ err'
    <3>1. Covers(at)' /\ todo' = DOMAIN archive' /\ pc' = AfterLoad
      BY <1>3, <2>3, LoadCovers
    <3>2. \/ op = "Merge" /\ pc' = "closeSource"
          \/ op = "Clone" /\ pc' = "create"
          \/ op = "Transform" /\ pc' = "transform"
          \/ op = "UnzipFile" /\ pc' = "pick"
          \/ op = "UnzipToMap" /\ pc' = "collect"
      BY <2>1, <3>1, AfterLoadSteps
    <3>3. op # "Merge" => Covers(1)'
      BY <2>1, <3>1
    <3>4. op = "Clone" => Settled'
      <4>1. TypeOK' /\ Course'
        BY StepTypeOK, StepCourse
      <4>2. op' = op /\ pc' # "idle"
        BY <2>1, <3>2
      <4>3. (TypeOK /\ Course /\ AllCovered => Settled)'
        BY CoversSettles, PTL
      <4> QED BY <3>3, <4>1, <4>2, <4>3 DEF AllCovered
    <3> QED BY <2>1, <3>1, <3>2, <3>3, <3>4 DEF Loaded, Early
  <2> QED BY <2>2, <2>3
<1>4. CASE NewContent
  <2>1. /\ pc \in {"transform", "add"} /\ pc' = "create" /\ todo' = DOMAIN archive'
        /\ UNCHANGED <<stored, op, at, before, got>>
    BY <1>4 DEF NewContent, Go
  <2>2. ASSUME pc = "transform" PROVE Settled'
    <3>1. /\ op = "Transform" /\ UNCHANGED <<before, again>>
          /\ DOMAIN archive' \subseteq DOMAIN archive /\ DOMAIN archive \subseteq DOMAIN archive' \cup dropped'
          /\ \A n \in DOMAIN archive' : archive'[n] = 0 \/ archive'[n] = archive[n]
      BY <1>0, <1>4, <2>2 DEF NewContent, OnCourse
    <3>2. Covers(1)
      BY <2>2 DEF Loaded
    <3>3. \A i \in Used : Complete(i) => Names(Source(i).place) \subseteq DOMAIN archive
      <4>1. Used = {1} /\ 1 \in 1 .. 1
        BY <3>1 DEF Used
      <4> QED BY <3>2, <4>1 DEF Covers
    <3>4. Settled
      BY <2>1, <2>2, <3>1, <3>2, CoversSettles DEF AllCovered
    <3>5. UNCHANGED <<sources, op>>
      BY <1>0, <2>1
    <3>6. /\ Used' = Used /\ (\A p : Names(p)' = Names(p)) /\ (\A n : Origin(n)' = Origin(n))
          /\ \A i : Complete(i)' = Complete(i)
      <4>1. ~ Start
        BY <2>2 DEF Start
      <4> QED BY <4>1, CallKept
    <3>7. (\A i \in Used : Complete(i) => AllLoaded(i))'
      BY <3>1, <3>3, <3>5, <3>6 DEF AllLoaded, Source
    <3> QED BY <3>1, <3>4, <3>5, <3>6, <3>7 DEF Settled, Source
  <2>3. ASSUME pc = "add" PROVE Settled'
    <3>1. op = "ArchiveFiles" /\ op' = op /\ \A n \in DOMAIN archive' : archive'[n] = 0
      BY <1>0, <1>4, <2>1, <2>3 DEF NewContent, OnCourse
    <3> QED BY <3>1 DEF Settled, Used
  <2>4. Settled'
    BY <2>1, <2>2, <2>3
  <2> QED BY <1>0, <2>1, <2>4 DEF Loaded, Early, OnCourse
<1>5. CASE NoContent
  <2>1. /\ pc \in {"transform", "add"} /\ pc' = Outer /\ err' /\ UNCHANGED <<stored, op, at, before, archive, todo, got>>
    BY <1>5 DEF NoContent, Fail, Fault
  <2> QED BY <1>0, <2>1 DEF Loaded, Early, OnCourse, Outer
<1>6. CASE Pick
  <2>1. /\ pc = "pick" /\ op = "UnzipFile" /\ (pc' = "create" \/ (pc' = "closeSource" /\ err'))
        /\ UNCHANGED <<stored, op, at, before, again, archive, dropped, got>>
    BY <1>0, <1>6 DEF Pick, Go, Fail, Fault, OnCourse
  <2>2. Settled
    BY <2>1, CoversSettles DEF Loaded, AllCovered
  <2> QED BY <1>k, <2>1, <2>2 DEF Loaded, Early, Archives
<1>7. CASE Collect \/ CollectEnds
  <2>1. /\ pc = "collect" /\ op = "UnzipToMap" /\ pc' \in {"collect", "closeSource"}
        /\ UNCHANGED <<stored, op, at, before, again, archive>>
    BY <1>0, <1>7 DEF Collect, CollectEnds, Go, Fail, Fault, OnCourse
  <2> QED BY <1>k, <2>1 DEF Loaded, Early, Archives
<1>8. CASE CloseSource
  <2>1. pc = "closeSource" /\ UNCHANGED <<stored, op, before, again, archive, dropped, todo, got>>
    BY <1>8 DEF CloseSource
  <2>2. CASE op = "Merge" /\ ~ err /\ ~ err'
    <3>1. Covers(at)
      BY <2>1, <2>2 DEF Loaded
    <3>2. CASE at < Len(sources)
      <4>1. at' = at + 1 /\ pc' = "open"
        BY <1>8, <2>2, <3>2 DEF CloseSource, Go, Fault
      <4>2. at' - 1 = at
        <5>1. at \in Nat
          BY DEF TypeOK, CallType
        <5> QED BY <4>1, <5>1
      <4>3. Covers(at - 1)'
        <5>1. \A k : Covers(k)' <=> Covers(k)
          BY <1>k, <2>1
        <5> QED BY <3>1, <4>2, <5>1
      <4> QED BY <2>1, <2>2, <4>1, <4>3 DEF Loaded, Early
    <3>3. CASE ~ at < Len(sources)
      <4>1. pc' = "create" /\ at' = at
        BY <1>8, <2>2, <3>3 DEF CloseSource, Go, Fault
      <4>2. at = Len(sources)
        <5>1. at \in DOMAIN sources
          BY <1>0, <2>1 DEF OnCourse
        <5> QED BY <3>3, <5>1, SourceType DEF TypeOK
      <4>3. Settled
        BY <2>1, <2>2, <3>1, <4>2, CoversSettles DEF AllCovered
      <4> QED BY <1>k, <2>1, <2>2, <4>1, <4>3 DEF Loaded, Early
    <3> QED BY <3>2, <3>3
  <2>3. CASE op # "Merge" \/ err \/ err'
    <3>1. pc' = "return" /\ (err => err')
      BY <1>8, <2>3 DEF CloseSource, Go, Fault
    <3> QED BY <1>k, <2>1, <2>3, <3>1 DEF Loaded, Early
  <2> QED BY <2>2, <2>3
<1>9. CASE CreateSink \/ WriteEntry \/ Finish \/ WriteFails \/ Cancel \/ CloseSink \/ AwaitAnswer
  <2>1. /\ pc \in {"create", "write", "closeSink", "await"} /\ op # "UnzipToMap"
        /\ pc' \in {"write", "closeSink", "await", Outer} /\ UNCHANGED <<op, before, again, archive, dropped, got>>
    BY <1>0, <1>9 DEF CreateSink, WriteEntry, Finish, WriteFails, Cancel, CloseSink, AwaitAnswer, Go, Fail, Fault, call, OnCourse, Outer
  <2>2. Outer = "return" \/ (Outer = "closeSource" /\ op # "Merge")
    BY DEF Outer
  <2>3. Settled'
    BY <1>k, <2>1 DEF Loaded
  <2>4. got' = got /\ (op' = "Merge" => got' = {})
    BY <2>1 DEF Loaded
  <2>5. ~ Early'
    BY <2>1, <2>2 DEF Early
  <2>6. pc' \notin {"idle", "open", "load", "transform", "pick", "collect"}
    BY <2>1, <2>2
  <2>7. ~ (pc' = "closeSource" /\ op' = "Merge")
    BY <2>1, <2>2
  <2> QED BY <2>3, <2>4, <2>5, <2>6, <2>7 DEF Loaded
<1>10. CASE Return
  BY <1>10 DEF Return, Loaded, Early
<1>11. CASE UNCHANGED vars \/ SendResult \/ CloseReader \/ ReadBody \/ Answer \/ BodyClosed
  <2>1. UNCHANGED <<pc, err, op, at, before, again, archive, dropped, todo, got>> /\ (stored' = stored \/ AtSink)
    BY <1>11 DEF vars, call, SendResult, CloseReader, ReadBody, Answer, BodyClosed, Uploading
  <2> QED BY <1>k, <2>1 DEF Loaded, Early, AtSink
<1> QED BY <1>1, <1>2, <1>3, <1>4, <1>5, <1>6, <1>7, <1>8, <1>9, <1>10, <1>11 DEF Next, Caller, Uploader, Transport

----------------------------------------------------------------------------
(* What is delivered                                                       *)

LEMMA InitDelivered == Init => Delivered
BY DEF Init, Delivered, Collected, Written

\* From a stream that is read for the first time every entry is collected, or the call fails.
LEMMA StepCollected ==
    ASSUME TypeOK, Course, Untouched, Spending, Loaded, Collected, [Next]_vars
    PROVE  Collected'
<1> SUFFICES ASSUME ~ err', ~ InPlace', op' = "UnzipToMap", ~ RandomAccess(1)', ~ StreamAgain',
                    pc' \in {"collect", "closeSource", "return"}
             PROVE  /\ pc' = "collect" => (got \cup todo)' = Names(Source(1).place)'
                    /\ pc' \in {"closeSource", "return"} => got' = Names(Source(1).place)'
  BY DEF Collected
<1>0. /\ OnCourse /\ ~ Start /\ ~ Return /\ UNCHANGED <<sources, op, before>> /\ \A p : Names(p)' = Names(p)
      /\ ~ InPlace /\ ~ StreamAgain /\ ~ RandomAccess(1) /\ Complete(1)'
  <2>1. ~ Start /\ ~ Return
    BY DEF Start, Return
  <2>2. UNCHANGED <<sources, op, before>> /\ (\A p : Names(p)' = Names(p)) /\ ~ InPlace /\ ~ StreamAgain
    BY <2>1, CallKept
  <2>3. ~ RandomAccess(1) /\ Complete(1)'
    BY <2>2 DEF RandomAccess, Source, Complete
  <2> QED BY <2>1, <2>2, <2>3 DEF Course
<1>p. UNCHANGED Source(1) /\ Names(Source(1).place)' = Names(Source(1).place)
  BY <1>0 DEF Source
<1>1. CASE Load
  <2>1. pc = "load" /\ op = "UnzipToMap" /\ at' = at /\ got' = got /\ got = {} /\ at = 1
    BY <1>0, <1>1 DEF Load, Loaded, OnCourse
  <2>2. Covers(at)' /\ todo' = DOMAIN archive' /\ pc' = "collect"
    BY <1>1, <2>1, LoadCovers DEF AfterLoad
  <2>3. DOMAIN archive' = Names(Source(1).place)'
    <3>1. 1 .. at' = {1} /\ at' = 1
      BY <2>1
    <3> QED BY <1>0, <2>2, <3>1 DEF Covers
  <2> QED BY <2>1, <2>2, <2>3
<1>2. CASE Collect \/ CollectEnds
  <2>1. pc = "collect" /\ ~ err /\ op = "UnzipToMap" /\ at = 1
    BY <1>0, <1>2 DEF Collect, CollectEnds, Go, Fail, Fault, OnCourse
  <2>2. got \cup todo = Names(Source(1).place)
    BY <1>0, <2>1 DEF Collected
  <2>3. ~ RandomAccess(at)
    BY <1>0, <2>1
  <2> QED BY <1>2, <1>p, <2>1, <2>2, <2>3 DEF Collect, CollectEnds, Go, Fail, Fault
<1>3. CASE CloseSource
  <2>1. pc = "closeSource" /\ ~ err /\ pc' = "return" /\ got' = got /\ op = "UnzipToMap"
    BY <1>0, <1>3 DEF CloseSource, Go, Fault
  <2> QED BY <1>0, <1>p, <2>1 DEF Collected
<1>4. CASE UNCHANGED <<pc, err, got, todo>>
  BY <1>0, <1>p, <1>4 DEF Collected
<1>5. CASE OpenSource \/ NewContent \/ NoContent \/ Pick
  BY <1>0, <1>5 DEF OpenSource, NewContent, NoContent, Pick, Go, Fail, Fault
<1>6. CASE CreateSink \/ WriteEntry \/ Finish \/ WriteFails \/ Cancel \/ CloseSink \/ AwaitAnswer
  BY <1>0, <1>6 DEF CreateSink, WriteEntry, Finish, WriteFails, Cancel, CloseSink, AwaitAnswer, OnCourse
<1> QED BY <1>0, <1>1, <1>2, <1>3, <1>4, <1>5, <1>6
        DEF Next, Caller, Uploader, Transport, vars, call, SendResult, CloseReader, ReadBody, Answer, BodyClosed

\* What is good stays good while nothing is written.
LEMMA GoodKept ==
    ASSUME TypeOK, Course, [Next]_vars, ~ Start, UNCHANGED <<archive, todo>>
    PROVE  \A thing : Good(thing)' <=> Good(thing)
BY CallKept DEF Good

\* What an entry's source gives is what the entry is to be, unless the source is overwritten.
LEMMA GivenOrigin ==
    ASSUME TypeOK, Untouched, ~ InPlace, Settled, NEW n \in DOMAIN archive, NEW e \in Given(n)
    PROVE  e.name = n /\ e.from \in Origin(n)
<1> DEFINE i == archive[n]
<1>1. CASE i = 0 /\ op \in {"Transform", "ArchiveFiles"}
  BY <1>1 DEF Given, Entry, Origin
<1>2. CASE i \in Used /\ Source(i).place \in Origin(n)
  <2>1. i \in DOMAIN sources \cup {0}
    BY DEF TypeOK, EntriesType
  <2>2. i # 0
    <3>1. i \in DOMAIN sources => i > 0
      BY SourceType DEF TypeOK
    <3>2. i \in DOMAIN sources \/ i = 1
      BY <1>2 DEF Used
    <3> QED BY <3>1, <3>2
  <2>3. stored[Source(i).place] = before[Source(i).place]
    BY <2>1, <2>2, SourceKept
  <2>4. e = Entry(n, Source(i).place)
    BY <2>2, <2>3 DEF Given
  <2> QED BY <1>2, <2>4 DEF Entry
<1> QED BY <1>1, <1>2 DEF Settled

\* The sink has what was put into it.
LEMMA PutOut ==
    ASSUME TypeOK, NEW thing, Put(thing), UNCHANGED sink
    PROVE  Out' = thing
<1>1. sink.place \in Stores /\ DOMAIN stored = Stores /\ pipe \in [put : Things, sent : Things, eof : BOOLEAN, reader : BOOLEAN]
  BY SinkType DEF TypeOK, StoredType, UploadType
<1>2. CASE sink.kind = "url"
  <2>1. pipe' = [pipe EXCEPT !.put = thing]
    BY <1>2 DEF Put
  <2> QED BY <1>1, <1>2, <2>1 DEF Out
<1>3. CASE sink.kind # "url"
  BY <1>1, <1>3 DEF Put, Out
<1> QED BY <1>2, <1>3

LEMMA OutType == ASSUME TypeOK PROVE Out \in Things
BY SinkType DEF TypeOK, StoredType, UploadType, Out

\* The entry that is written is the one that is no longer to be written.
LEMMA WriteEntryGood ==
    ASSUME TypeOK, Course, Untouched, Loaded, Written, WriteEntry, [Next]_vars, ~ err', ~ InPlace, ~ Behind
    PROVE  Good(Out)'
<1>n. PICK n \in todo : todo' = todo \ {n} /\ \E e \in Given(n) : Put([has |-> Out.has \cup {e}, whole |-> FALSE]) /\ Go("write")
  BY DEF WriteEntry, Fail, Fault
<1>1. ~ err /\ pc = "write" /\ archive' = archive /\ op' = op /\ ~ Start
  BY <1>n DEF WriteEntry, Go, Start
<1>2. PICK e \in Given(n) : Put([has |-> Out.has \cup {e}, whole |-> FALSE])
  BY <1>n
<1>3. n \in DOMAIN archive /\ Settled /\ Good(Out)
  BY <1>1, <1>2 DEF Course, Loaded, Written
<1>4. e.name = n /\ e.from \in Origin(n)
  BY <1>2, <1>3, GivenOrigin
<1>5. Out'.has = Out.has \cup {e}
  <2>1. Out' = [has |-> Out.has \cup {e}, whole |-> FALSE]
    BY <1>2, PutOut, StepGivenType DEF given
  <2> QED BY <2>1
<1>6. \A m : Origin(m)' = Origin(m)
  BY <1>1, CallKept
<1>7. \A x \in Out'.has : x.from \in Origin(x.name)'
  BY <1>3, <1>4, <1>5, <1>6 DEF Good
<1>8. op \in Archives => DOMAIN archive' = {x.name : x \in Out'.has} \cup todo'
  BY <1>1, <1>n, <1>3, <1>4, <1>5 DEF Good
<1> QED BY <1>1, <1>7, <1>8 DEF Good

\* The server's answer comes to the call: what it took is what was sent, unless it
\* did not look at it.
LEMMA AnswerTaken ==
    ASSUME TypeOK, Uploading, Written, pc = "await", sink.kind = "url", errCh # "", errCh # "error", ~ err, ~ InPlace, ~ Behind
    PROVE  todo = {} /\ Taken
<1>1. ~ Bad(answer) /\ answer # ""
  BY DEF Uploading, AtSink
<1>2. answer \in {"ok", "early", "moved"}
  BY <1>1 DEF Bad, TypeOK, UploadType
<1>3. Good(Out) /\ Out.whole /\ todo = {} /\ (answer = "ok" => stored[sink.place] = Out)
  BY DEF Written
<1>4. answer = "ok" => Good(stored[sink.place]) /\ stored[sink.place].whole
  BY <1>3
<1> QED BY <1>2, <1>3, <1>4 DEF Taken

LEMMA StepWritten ==
    ASSUME TypeOK, Course, Uploading, Untouched, Spending, Loaded, Written, [Next]_vars
    PROVE  Written'
<1> SUFFICES ASSUME ~ err', ~ InPlace', ~ Behind', pc' \in {"write", "closeSink", "await", "closeSource", "return"}
             PROVE  /\ pc' \in {"write", "closeSink", "await"} => Good(Out)'
                    /\ pc' \in {"closeSink", "await"} => Out'.whole /\ todo' = {}
                    /\ pc' = "await" /\ answer' = "ok" => stored'[sink'.place] = Out'
                    /\ pc' = "closeSource" /\ op' \notin {"Merge", "UnzipToMap"} => todo' = {} /\ Taken'
                    /\ pc' = "return" /\ op' # "UnzipToMap" => todo' = {} /\ Taken'
  BY DEF Written
<1>0. OnCourse /\ ~ Start /\ ~ Return /\ UNCHANGED <<sources, sink, op, before>> /\ ~ InPlace /\ ~ Behind
  <2>1. ~ Start /\ ~ Return
    BY DEF Start, Return
  <2> QED BY <2>1, CallKept DEF Course
<1>g. UNCHANGED <<archive, todo>> => \A thing : Good(thing)' <=> Good(thing)
  BY <1>0, GoodKept
<1>1. CASE OpenSource \/ NewContent \/ NoContent \/ Pick
  BY <1>0, <1>1 DEF OpenSource, NewContent, NoContent, Pick, Go, Fail, Fault
<1>2. CASE Load
  <2>1. pc' = "closeSource" => op = "Merge"
    BY <1>2, LoadCovers, AfterLoadSteps DEF Load
  <2>2. pc' \notin {"write", "closeSink", "await", "return"}
    BY <1>2, LoadCovers, AfterLoadSteps DEF Load
  <2> QED BY <1>0, <2>1, <2>2
<1>3. CASE Collect \/ CollectEnds
  BY <1>0, <1>3 DEF Collect, CollectEnds, Go, Fail, Fault, OnCourse
<1>4. CASE CloseSource
  <2>1. ~ err /\ pc = "closeSource" /\ UNCHANGED <<archive, todo, stored, answer>>
    BY <1>4 DEF CloseSource, Go, Fault, upload
  <2>2. pc' = "return" /\ op # "Merge"
    BY <1>0, <1>4, <2>1 DEF CloseSource, Go, Fault
  <2> QED BY <1>0, <1>g, <2>1, <2>2 DEF Written, Taken
<1>5. CASE CreateSink
  <2>1. pc = "create" /\ UNCHANGED <<archive, todo>> /\ pc' = "write"
    BY <1>5 DEF CreateSink, Go, Fault, call
  <2>2. Out' = Nothing
    <3>1. /\ sink.place \in Stores /\ DOMAIN stored = Stores
          /\ sink.kind \in {"path", "writer", "closer", "url"}
      BY SinkType DEF TypeOK, StoredType
    <3>2. CASE sink.kind = "path"
      BY <1>0, <1>5, <3>1, <3>2 DEF CreateSink, WriterSink, Go, Fault, Out
    <3>3. CASE WriterSink
      <4>1. stored[sink.place] = Nothing
        BY <1>0, <2>1, <3>3 DEF Loaded, Early, Behind
      <4> QED BY <1>0, <1>5, <3>3, <4>1 DEF CreateSink, WriterSink, Out
    <3>4. CASE sink.kind = "url"
      BY <1>0, <1>5, <3>4, NewPipeFacts DEF CreateSink, WriterSink, Go, Fault, Out
    <3> QED BY <3>1, <3>2, <3>3, <3>4 DEF WriterSink
  <2>3. op \in Archives => todo = DOMAIN archive
    BY <2>1 DEF Loaded, Early
  <2>4. Good(Out)'
    BY <1>0, <2>1, <2>2, <2>3 DEF Good, Nothing
  <2> QED BY <2>1, <2>4
<1>6. CASE WriteEntry
  BY <1>0, <1>6, WriteEntryGood DEF WriteEntry, Go, Fail, Fault
<1>7. CASE Finish
  <2>1. pc = "write" /\ ~ err /\ pc' = "closeSink" /\ UNCHANGED <<archive, todo>> /\ todo = {}
    BY <1>7 DEF Finish, Go, Fail, Fault, call
  <2>2. Out' = [Out EXCEPT !.whole = (op \in Archives \/ ~ err) /\ ~ Behind]
    BY <1>0, <1>7, PutOut DEF Finish, Go, Fail, Fault
  <2>3. Out'.has = Out.has /\ Out'.whole
    BY <1>0, <2>1, <2>2, OutType DEF Things
  <2>4. Good(Out)
    BY <1>0, <2>1 DEF Written
  <2>5. Good(Out)'
    BY <1>0, <2>1, <2>3, <2>4, CallKept DEF Good
  <2> QED BY <2>1, <2>3, <2>5
<1>8. CASE Cancel
  BY <1>8 DEF Cancel, Fault
<1>9. CASE CloseSink
  <2>1. pc = "closeSink" /\ ~ err /\ UNCHANGED <<archive, todo, stored, answer>>
    BY <1>9 DEF CloseSink, Go, Fail, Fault, call, upload
  <2>2. Good(Out) /\ Out.whole /\ todo = {}
    BY <1>0, <2>1 DEF Written
  <2>3. CASE sink.kind = "url"
    <3>1. pc' = "await" /\ pipe'.put = pipe.put
      BY <1>9, <2>1, <2>3 DEF CloseSink, Go, Fail, Fault, Shut, TypeOK, UploadType
    <3>2. Out' = Out
      BY <1>0, <2>3, <3>1 DEF Out
    <3>3. answer' # "ok"
      BY <2>1, <2>3 DEF Uploading, AtSink
    <3> QED BY <1>g, <2>1, <2>2, <3>1, <3>2, <3>3
  <2>4. CASE sink.kind # "url"
    <3>1. pc' = Outer /\ Out = stored[sink.place]
      BY <1>9, <2>1, <2>4 DEF CloseSink, Go, Fail, Fault, Out
    <3>2. Taken'
      BY <1>0, <1>g, <2>1, <2>2, <3>1 DEF Taken
    <3> QED BY <2>1, <2>2, <3>1, <3>2 DEF Outer
  <2> QED BY <2>3, <2>4
<1>10. CASE AwaitAnswer
  <2>1. pc = "await" /\ ~ err /\ errCh \notin {"", "error"} /\ pc' = Outer /\ UNCHANGED <<archive, todo, stored, answer>>
    BY <1>10 DEF AwaitAnswer, Go, Fail, call
  <2>2. todo = {} /\ Taken
    BY <1>0, <2>1, AnswerTaken DEF OnCourse
  <2>3. Taken'
    BY <1>0, <1>g, <2>1, <2>2 DEF Taken
  <2> QED BY <2>1, <2>2, <2>3 DEF Outer
<1>11. CASE Answer
  <2>1. UNCHANGED <<pc, err, archive, todo, pipe>> /\ AtSink
    BY <1>11 DEF Answer, call, Uploading
  <2>2. Out' = Out
    BY <1>0, <2>1 DEF Out, AtSink
  <2>3. answer' = "ok" => stored'[sink'.place] = Out' /\ pc' = "await"
    <3>1. sink.place = Remote /\ DOMAIN stored = Stores
      BY <2>1, SinkType DEF AtSink, TypeOK, StoredType
    <3>2. pipe.put = pipe.sent \/ answer' # "ok"
      BY <1>11 DEF Answer, Uploading, Waiting
    <3> QED BY <1>0, <1>11, <2>1, <2>2, <3>1, <3>2 DEF Answer, Out, AtSink, Uploading, Stores
  <2> QED BY <1>0, <1>g, <2>1, <2>2, <2>3 DEF Written, AtSink
<1>12. CASE UNCHANGED vars \/ SendResult \/ CloseReader \/ ReadBody \/ BodyClosed
  <2>1. UNCHANGED <<pc, err, archive, todo, stored, answer>> /\ pipe'.put = pipe.put
    BY <1>12 DEF vars, call, upload, SendResult, CloseReader, ReadBody, BodyClosed, TypeOK, UploadType
  <2>2. Out' = Out
    BY <1>0, <2>1 DEF Out
  <2> QED BY <1>0, <1>g, <2>1, <2>2 DEF Written, Taken
<1>13. CASE WriteFails
  BY <1>13 DEF WriteFails, Fail
<1> QED BY <1>0, <1>1, <1>2, <1>3, <1>4, <1>5, <1>6, <1>7, <1>8, <1>9, <1>10, <1>11, <1>12, <1>13
        DEF Next, Caller, Uploader, Transport

\* A call that returns nil has what its origins have, all of it.
LEMMA DeliveredAtReturn == Course /\ Loaded /\ Delivered => NilMeansDelivered
<1> SUFFICES ASSUME Course, Loaded, Delivered, pc = "return", ~ err, ~ InPlace
             PROVE  IF op = "UnzipToMap" THEN RandomAccess(1) \/ StreamAgain \/ got = Names(Source(1).place)
                    ELSE Behind \/ answer \in {"moved", "early"} \/ IsWhole(stored[sink.place])
  BY DEF NilMeansDelivered
<1>1. CASE op = "UnzipToMap"
  BY <1>1 DEF Delivered, Collected
<1>2. CASE op # "UnzipToMap" /\ ~ Behind
  <2>1. todo = {} /\ Taken /\ Settled
    BY <1>2 DEF Delivered, Written, Loaded
  <2>2. CASE Good(stored[sink.place]) /\ stored[sink.place].whole
    <3>1. \A i \in Used : op \in Archives => AllLoaded(i)
      BY <2>1 DEF Settled, Complete, StreamAgain, Archives
    <3>2. op \in Archives => {e.name : e \in stored[sink.place].has} = DOMAIN archive
      BY <2>1, <2>2 DEF Good
    <3>3. \A e \in stored[sink.place].has : e.from \in Origin(e.name)
      BY <2>2 DEF Good
    <3>4. IsWhole(stored[sink.place])
      BY <2>2, <3>1, <3>2, <3>3 DEF IsWhole
    <3> QED BY <1>2, <3>4
  <2> QED BY <1>2, <2>1, <2>2 DEF Taken
<1> QED BY <1>1, <1>2

----------------------------------------------------------------------------
(* The theorems                                                            *)

(***************************************************************************)
(* The invariant holds in every state.  It is inductive only as a whole:   *)
(* why a call fails and what it has delivered depend on which files are    *)
(* open, on the state of the upload and on what has been loaded.           *)
(***************************************************************************)
THEOREM Invariance == Spec => []IInv
<1>1. Init => IInv
  BY InitTypeOK, InitCourse, InitFilesInUse, InitUploading, InitSpending, InitCauses, InitLoaded, InitDelivered DEF IInv
<1>2. IInv /\ [Next]_vars => IInv'
  BY StepTypeOK, StepCourse, StepFilesInUse, StepUploading, StepUntouched, StepSpending, StepCauses, StepLoaded,
     StepCollected, StepWritten DEF IInv, Delivered
<1> QED BY <1>1, <1>2, PTL DEF Spec

(***************************************************************************)
(* Every variable has its type.                                            *)
(***************************************************************************)
THEOREM TypeCorrect == Spec => []TypeOK
<1>1. IInv => TypeOK
  BY DEF IInv
<1> QED BY <1>1, Invariance, PTL

(***************************************************************************)
(* When a call returns, the files opened by path are closed, the writing   *)
(* end of an upload's pipe is closed and its goroutine does not wait       *)
(* (UseSource, UseSink, httpSink.Create and Close).                        *)
(***************************************************************************)
THEOREM ReturnsClosed == Spec => []NothingLeftOpen
<1>1. IInv => NothingLeftOpen
  BY ClosedAtReturn DEF IInv
<1> QED BY <1>1, Invariance, PTL

(***************************************************************************)
(* A call fails only for a reason: something outside of this code, or one  *)
(* of the cases the property names.  Those of the code's own making are a  *)
(* stream that an earlier call read, a writer that an earlier call closed, *)
(* Merge of FromFilePath, UnzipToMap of a source with random access, the   *)
(* documented ErrSkip, and a destination that is its own source.  In all   *)
(* others sources and sinks can be used again, whatever earlier calls did  *)
(* (fileManager.Open and Close, httpSink.Create).                          *)
(***************************************************************************)
THEOREM ErrorsAreCaused == Spec => []ErrorsHaveACause
<1>1. IInv => ErrorsHaveACause
  BY CausesAtReturn DEF IInv
<1> QED BY <1>1, Invariance, PTL

(***************************************************************************)
(* A call that returns nil has delivered all it was asked for to its       *)
(* destination: every entry of every source, the last archive winning, in  *)
(* a finished archive (the calls of the facade, UseSource, UseSink and     *)
(* httpSink.Close).  Not so, as the property says, when the destination is *)
(* its own source, when a writer holds an earlier archive, when the server *)
(* redirects or answers early, for entries the output of Transform refused,*)
(* and for UnzipToMap of a stream that was read before or of a source with *)
(* random access.                                                          *)
(***************************************************************************)
THEOREM NilIsDelivered == Spec => []NilMeansDelivered
<1>1. IInv => NilMeansDelivered
  BY DeliveredAtReturn DEF IInv
<1> QED BY <1>1, Invariance, PTL

(***************************************************************************)
(* The destination is written only after all sources with random access    *)
(* are loaded, and first without an error (the order of UseSource, Load    *)
(* and UseSink in the calls of the facade).                                *)
(***************************************************************************)
THEOREM DestinationIsKept == Spec => DestinationKept
<1> DEFINE A == stored'[sink.place] # stored[sink.place] /\ sink.kind # "url" /\ pc # "idle" =>
                  /\ \A i \in Used : RandomAccess(i) => AllLoaded(i)
                  /\ pc = "create" => ~ err
<1>1. IInv /\ [Next]_vars => [A]_vars
  <2> SUFFICES ASSUME IInv, [Next]_vars, stored'[sink.place] # stored[sink.place], sink.kind # "url"
               PROVE  /\ \A i \in Used : RandomAccess(i) => AllLoaded(i)
                      /\ pc = "create" => ~ err
    OBVIOUS
  <2>1. ~ Answer
    BY DEF Answer, IInv, Uploading, AtSink
  <2>2. pc \in {"create", "write"}
    BY <2>1 DEF Next, Caller, Uploader, Transport, vars, Start, OpenSource, Load, NewContent, NoContent, Pick, Collect,
       CollectEnds, CloseSource, CreateSink, WriteEntry, Finish, WriteFails, CloseSink, AwaitAnswer, Return, Cancel, SendResult,
       CloseReader, ReadBody, BodyClosed
  <2>3. Settled
    BY <2>2 DEF IInv, Loaded
  <2> QED BY <2>3 DEF Settled, Complete, IInv, Course, NoErrorYet
<1> QED BY <1>1, Invariance, PTL DEF Spec, DestinationKept

=============================================================================
