------------------------------ MODULE Archiver ------------------------------
(***************************************************************************)
(* The calls of the Archiver facade (archiver.go) and the life cycle of    *)
(* the sources and sinks they are given: UseSource opens a source, runs a  *)
(* function and closes the source, UseSink does so with a destination, and *)
(* one function may run inside the other.  Entries are loaded lazily: what *)
(* is loaded from a source is read when the destination is written.  An    *)
(* upload is a sink of its own: the archive goes through a pipe, whose     *)
(* writes wait for the other end, to a goroutine that waits for the        *)
(* server's answer.                                                        *)
(*                                                                         *)
(* The same objects are used for several calls: a file is opened again, a  *)
(* stream goes on where it was left, a writer takes the next archive behind*)
(* the last.  A stored thing is the entries it has and whether it is       *)
(* finished; an entry is its name and the place its content comes from.    *)
(***************************************************************************)
EXTENDS Naturals, Sequences, FiniteSets

CONSTANTS Original,    \* place -> names of the entries of the archive there
          SourceLists, \* sequences of sources: place and kind, of
                       \* "path", "file", "stream": FromFilePath, FromFile, FromStream
          Sinks,       \* place and kind, "path", "writer", "closer", "url": ToFilePath,
                       \* ToFile or ToWriter, ToWriter of an io.Closer, ToURL
          Operations,  \* of the calls below
          MaxCalls     \* bound: calls made with the same sources and sink

Places == DOMAIN Original
Memory == "memory"
Remote == "remote"
Stores == Places \cup {Memory, Remote}
Archives == {"Merge", "Clone", "Transform", "ArchiveFiles"}

ASSUME ArchiverAssumption ==
    /\ Places \cap {Memory, Remote} = {} /\ {"new", "cut"} \cap Places = {}
    /\ SourceLists \subseteq Seq([kind : {"path", "file", "stream"}, place : Places])
    /\ Sinks \subseteq [kind : {"path"}, place : Places]
                     \cup [kind : {"writer", "closer"}, place : {Memory}]
                     \cup {[kind |-> "url", place |-> Remote]}
    /\ Operations \subseteq Archives \cup {"UnzipFile", "UnzipToMap"}

VARIABLES sources,     \* the sources: kind and place
          sink,        \* the sink: kind and place
          file,        \* source -> the state of the file it opened
          ahead,       \* source -> the names its stream has not come past
          spent,       \* the streams that were read from; 0: the caller's writer was closed
          stored,      \* place -> what is stored there
          op, pc, at,  \* the running call, its next step, the source in use
          archive,     \* name -> the source it was loaded from, 0 if it is new
          todo,        \* the names still to be written or collected
          got,         \* the entries UnzipToMap has collected
          dropped,     \* the names the output of Transform did not take
          skipped,     \* the function of Transform asked for an entry to be left out
          err,         \* the call will return an error
          cause,       \* something outside of this code went wrong
          before,      \* what was stored when the call began
          again,       \* what was spent when the call began
          pipe,        \* ToURL: what was put in, what the transport read of it, and the ends
          uploader,    \* ToURL: the goroutine
          answer,      \* ToURL: the server's answer
          errCh,       \* ToURL: the channel Close reads: "" or its one element, "nil" or "error"
          calls

begun == <<op, before, again, calls>>
notes == <<dropped, skipped>>
call == <<begun, at, archive, todo, got, notes>>
upload == <<pipe, uploader, answer, errCh>>
given == <<sources, sink>>
handles == <<file, ahead, spent>>
vars == <<given, handles, stored, pc, err, cause, call, upload>>

Entry(name, from) == [name |-> name, from |-> from]
Nothing == [has |-> {}, whole |-> FALSE]
Archived(p) == [has |-> {Entry(n, p) : n \in Original[p]}, whole |-> TRUE]
NoEntries == [n \in {} |-> 0]
NewPipe == [put |-> Nothing, sent |-> Nothing, eof |-> FALSE, reader |-> TRUE]

Source(i) == sources[i]
InPlace == sink.kind = "path" /\ \E i \in DOMAIN sources : Source(i).place = sink.place
RandomAccess(i) == Source(i).kind # "stream"

Init ==
    /\ sources \in SourceLists /\ sink \in Sinks
    /\ file = [i \in DOMAIN sources |-> "none"]
    /\ ahead = [i \in DOMAIN sources |-> Original[Source(i).place]] /\ spent = {} /\ again = {}
    /\ stored = [p \in Stores |-> IF p \in Places THEN Archived(p) ELSE Nothing]
    /\ op = "" /\ pc = "idle" /\ at = 1 /\ calls = 0
    /\ archive = NoEntries /\ todo = {} /\ got = {} /\ dropped = {} /\ skipped = FALSE
    /\ err = FALSE /\ cause = FALSE /\ before = stored
    /\ pipe = NewPipe /\ uploader = "none" /\ answer = "" /\ errCh = ""

-----------------------------------------------------------------------------
(* What happens between two steps: a step goes on, or fails.  A failure    *)
(* that is not this code's doing is remembered in cause.                   *)

Go(next) == pc' = next /\ UNCHANGED <<err, cause>>
Fail(next) == pc' = next /\ err' = TRUE /\ UNCHANGED cause
Fault(next) == pc' = next /\ err' = TRUE /\ cause' = TRUE

\* mutant: the source is closed only after a success
OuterIfNil == IF op \in {"Merge", "ArchiveFiles"} \/ err THEN "return" ELSE "closeSource"

(* UseSource closes the source around everything but the sink of Merge.    *)
Outer == IF op \in {"Merge", "ArchiveFiles"} THEN "return" ELSE "closeSource"

Start ==
    /\ pc = "idle" /\ calls < MaxCalls
    /\ \E o \in Operations :
         /\ (sources = <<>>) <=> (o = "ArchiveFiles")
         /\ op' = o /\ pc' = IF o = "ArchiveFiles" THEN "add" ELSE "open"
    /\ at' = 1 /\ before' = stored /\ again' = spent /\ calls' = calls + 1
    /\ UNCHANGED <<given, handles, stored, archive, todo, got, notes, err, cause, upload>>

-----------------------------------------------------------------------------
(* Sources                                                                 *)

(* fileManager.Open keeps the file it has, which a panic may have left, and*)
(* opens one otherwise.                                                    *)
Opened(i) == IF Source(i).kind = "path" /\ file[i] \in {"none", "left"} THEN "open" ELSE file[i]

(* A failing Stat has no FileInfo to ask for the size: the call ends in a  *)
(* panic, before UseSource has come to closing the source.                 *)
OpenSource ==
    /\ pc = "open"
    /\ \/ file' = [file EXCEPT ![at] = Opened(at)] /\ Go("load")
       \/ /\ Source(at).kind = "path" /\ file[at] = "none"
          /\ UNCHANGED file /\ Fault("return")
       \/ /\ Source(at).kind # "stream"
          /\ file' = [file EXCEPT ![at] = IF Opened(at) = "open" THEN "left" ELSE @] /\ Fault("panic")
    /\ UNCHANGED <<given, ahead, spent, stored, call, upload>>

(* The bytes behind source i can be read.                                  *)
Readable(i) == i = 0 \/ Source(i).kind # "path" \/ file[i] = "open"

Holds(i) == IF stored[Source(i).place].whole THEN {e.name : e \in stored[Source(i).place].has} ELSE {}

ReadBefore(i) == ~ RandomAccess(i) /\ i \in again

(* What there is to come to: all entries with random access.  A stream is  *)
(* read on from where it was left, which need not be the start of an entry:*)
(* then it may end at once, as it does when all of it was read.            *)
Offers(i) ==
    IF RandomAccess(i) THEN {Holds(i)}
    ELSE IF i \in spent THEN SUBSET (ahead[i] \cap Holds(i))
    ELSE {ahead[i] \cap Holds(i)}

AfterLoad == CASE op = "Merge" -> "closeSource"
               [] op = "Clone" -> "create"
               [] op = "Transform" -> "transform"
               [] op = "UnzipFile" -> "pick"
               [] op = "UnzipToMap" -> "collect"

(* LoadWithContext, or a new StreamReader for the calls that take a stream.*)
Load ==
    /\ pc = "load"
    /\ \/ /\ Readable(at) /\ stored[Source(at).place].whole
          /\ RandomAccess(at) \/ op \notin Archives
          /\ \E offered \in Offers(at) :
               archive' = [n \in DOMAIN archive \cup offered |-> IF n \in offered THEN at ELSE archive[n]]
          /\ todo' = DOMAIN archive'
          /\ spent' = IF RandomAccess(at) THEN spent ELSE spent \cup {at}
          /\ Go(AfterLoad)
       \/ /\ ~ Readable(at) \/ ~ stored[Source(at).place].whole \/ (~ RandomAccess(at) /\ op \in Archives)
          /\ UNCHANGED <<archive, todo, spent>> /\ Fail("closeSource")
       \/ UNCHANGED <<archive, todo, spent>> /\ Fault("closeSource")
    /\ UNCHANGED <<given, file, ahead, stored, upload, begun, at, got, notes>>

(* The function of Transform keeps an entry or gives it new content; an    *)
(* error of adding it to the output is not looked at.  ArchiveFiles gives  *)
(* every file of the caller a name.                                        *)
NewContent ==
    /\ \/ /\ pc = "transform"
          /\ \E changed \in SUBSET DOMAIN archive, refused \in SUBSET DOMAIN archive :
               /\ archive' = [n \in DOMAIN archive \ refused |-> IF n \in changed THEN 0 ELSE archive[n]]
               /\ dropped' = refused
       \/ /\ pc = "add" /\ UNCHANGED dropped
          /\ \E names \in SUBSET UNION {Original[p] : p \in Places} : archive' = [n \in names |-> 0]
    /\ todo' = DOMAIN archive' /\ Go("create")
    /\ UNCHANGED <<given, handles, stored, upload, begun, at, got, skipped>>

(* The function of Transform fails, or a file of the caller cannot be      *)
(* added.  Asking for an entry to be left out, with ErrSkip, is an error   *)
(* like any other.                                                         *)
NoContent ==
    /\ \/ pc \in {"transform", "add"} /\ Fault(Outer) /\ UNCHANGED skipped
       \/ pc = "transform" /\ Fail(Outer) /\ skipped' = TRUE
    /\ UNCHANGED <<given, handles, stored, begun, at, archive, todo, got, dropped, upload>>

(* A call stops reading source at: the stream is somewhere among the names *)
(* it has not come past, for the reader takes more of it than it needs.    *)
Leave(rest) ==
    IF RandomAccess(at) THEN UNCHANGED ahead
    ELSE \E left \in SUBSET rest : ahead' = [ahead EXCEPT ![at] = left]

(* UnzipFile opens the entry before it creates the destination.            *)
Pick ==
    /\ pc = "pick"
    /\ \/ \E n \in todo : todo' = {n} /\ Leave(todo \ {n}) /\ Go("create")
       \/ UNCHANGED todo /\ Leave(todo) /\ Fault("closeSource")
       \/ ReadBefore(at) /\ UNCHANGED todo /\ Leave(todo) /\ Fail("closeSource")
    /\ UNCHANGED <<given, file, spent, stored, upload, begun, at, archive, got, notes>>

(* UnzipToMap: the loop over loaded files returns with the first one.      *)
Collect ==
    /\ pc = "collect" /\ todo # {}
    /\ \E n \in todo :
         /\ todo' = todo \ {n}
         /\ \/ got' = got \cup {n} /\ Go(IF RandomAccess(at) THEN "closeSource" ELSE "collect")
            \/ UNCHANGED got /\ Fault("collect")
    /\ UNCHANGED <<given, handles, stored, upload, begun, at, archive, notes>>

(* The stream ends, or Next fails, as it may on one that was left in the   *)
(* middle.  With random access none could be read, and a stream reader     *)
(* starts on the same source.                                              *)
CollectEnds ==
    /\ pc = "collect" /\ Leave(todo)
    /\ \/ todo = {} /\ UNCHANGED got /\ Go("closeSource")
       \/ todo = {} /\ RandomAccess(at) /\ got' \in SUBSET Holds(at) /\ (Go("closeSource") \/ Fail("closeSource"))
       \/ ReadBefore(at) /\ UNCHANGED got /\ Fail("closeSource")
       \/ UNCHANGED got /\ Fault("closeSource")
    /\ UNCHANGED <<given, file, spent, stored, upload, begun, at, archive, todo, notes>>

\* mutant: the closed file is kept
ClosedKept(i) == IF Source(i).kind = "path" THEN "closed" ELSE file[i]

(* fileManager.Close forgets the file, so that Open opens another.         *)
ClosedSource(i) == IF Source(i).kind = "path" THEN "none" ELSE file[i]

\* mutant: Merge does not look at the error of a source
CloseSourceGoesOn ==
    /\ pc = "closeSource"
    /\ file' = [file EXCEPT ![at] = ClosedSource(at)]
    /\ \/ /\ op = "Merge"
          /\ IF at < Len(sources) THEN at' = at + 1 /\ Go("open") ELSE UNCHANGED at /\ Go("create")
       \/ op # "Merge" /\ UNCHANGED at /\ Go("return")
    /\ UNCHANGED <<given, ahead, spent, stored, upload, begun, archive, todo, got, notes>>

CloseSource ==
    /\ pc = "closeSource"
    /\ file' = [file EXCEPT ![at] = ClosedSource(at)]
    /\ \/ /\ op = "Merge" /\ ~ err
          /\ IF at < Len(sources) THEN at' = at + 1 /\ Go("open") ELSE UNCHANGED at /\ Go("create")
       \/ /\ op # "Merge" \/ err
          /\ UNCHANGED at /\ Go("return")
       \/ Source(at).kind = "path" /\ UNCHANGED at /\ Fault("return")
    /\ UNCHANGED <<given, ahead, spent, stored, upload, begun, archive, todo, got, notes>>

-----------------------------------------------------------------------------
(* Sinks                                                                   *)

WriterSink == sink.kind \in {"writer", "closer"}
Behind == WriterSink /\ before[sink.place] # Nothing
Shut == sink.kind = "closer" /\ 0 \in spent

(* fileManager.Create truncates; writerManager.Create is the same writer   *)
(* each time, with what it has already taken; httpSink.Create starts the   *)
(* upload.                                                                 *)
CreateSink ==
    /\ pc = "create"
    /\ \/ sink.kind = "path" /\ stored' = [stored EXCEPT ![sink.place] = Nothing] /\ Go("write") /\ UNCHANGED upload
       \/ sink.kind = "path" /\ Fault(Outer) /\ UNCHANGED <<stored, upload>>
       \/ WriterSink /\ Go("write") /\ UNCHANGED <<stored, upload>>
       \/ /\ sink.kind = "url" /\ UNCHANGED <<stored, errCh>>
          /\ Go("write") /\ pipe' = NewPipe /\ uploader' = "doing" /\ answer' = ""
    /\ UNCHANGED <<given, handles, call>>

(* A write to the sink.  Into a pipe it waits until it is read.            *)
Put(thing) ==
    IF sink.kind = "url"
    THEN pipe' = [pipe EXCEPT !.put = thing] /\ UNCHANGED <<stored, uploader, answer, errCh>>
    ELSE stored' = [stored EXCEPT ![sink.place] = thing] /\ UNCHANGED upload
Waiting == pipe.put # pipe.sent

Out == IF sink.kind = "url" THEN pipe.put ELSE stored[sink.place]

(* What an entry's source gives for it.  A source that has been truncated  *)
(* to write the destination may end at once: a raw copy takes this for an  *)
(* empty file.                                                             *)
Given(n) ==
    LET i == archive[n] IN
    CASE i = 0 -> {Entry(n, "new")}
      [] i # 0 /\ ~ Readable(i) -> {}
      [] i # 0 /\ Readable(i) /\ stored[Source(i).place] = before[Source(i).place] -> {Entry(n, Source(i).place)}
      [] OTHER -> {Entry(n, "cut")}
Damaged(n) == Given(n) = {Entry(n, "cut")}

WriteEntry ==
    /\ pc = "write" /\ todo # {} /\ ~ Waiting
    /\ \E n \in todo :
         /\ todo' = todo \ {n}
         /\ \/ \E e \in Given(n) : Put([has |-> Out.has \cup {e}, whole |-> FALSE]) /\ Go("write")
            \/ /\ ((Given(n) = {} \/ Damaged(n) \/ Shut) /\ Fail("write")) \/ Fault("write")
               /\ UNCHANGED <<stored, upload>>
    /\ UNCHANGED <<given, handles, begun, at, archive, got, notes>>

(* The end records, written whatever happened to the entries; UnzipFile    *)
(* has none.  An archive behind another one does not open: its offsets     *)
(* count from its own start.                                               *)
Finish ==
    /\ pc = "write" /\ todo = {} /\ ~ Waiting
    /\ \/ Put([Out EXCEPT !.whole = (op \in Archives \/ ~ err) /\ ~ Behind]) /\ Go("closeSink")
       \/ Shut /\ Fail("closeSink") /\ UNCHANGED <<stored, upload>>
       \/ Fault("closeSink") /\ UNCHANGED <<stored, upload>>
    /\ UNCHANGED <<given, handles, call>>

(* The reader of the pipe is closed: the write that waits fails.           *)
WriteFails ==
    /\ pc \in {"write", "closeSink"} /\ Waiting /\ ~ pipe.reader /\ Fail(pc)
    /\ pipe' = [pipe EXCEPT !.put = pipe.sent]
    /\ UNCHANGED <<given, handles, stored, call, uploader, answer, errCh>>

(* The caller's context ends the writing early; the request of an upload   *)
(* does not know the context.                                              *)
Cancel ==
    /\ pc = "write" /\ op \in Archives /\ todo # {} /\ ~ Waiting
    /\ todo' = {} /\ Fault("write")
    /\ UNCHANGED <<given, handles, stored, upload, begun, at, archive, got, notes>>

(* fileManager.Close has an error or none, and none for a file it was      *)
(* given; writerManager.Close closes a writer that can be closed, and one  *)
(* that is closed may say so; httpSink.Close ends the pipe.                *)
CloseSink ==
    /\ pc = "closeSink" /\ ~ Waiting
    /\ \/ sink.kind # "url" /\ Go(Outer) /\ UNCHANGED upload
       \/ sink.kind \in {"path", "closer"} /\ Fault(Outer) /\ UNCHANGED upload
       \/ Shut /\ Fail(Outer) /\ UNCHANGED upload
       \/ sink.kind = "url" /\ Go("await") /\ pipe' = [pipe EXCEPT !.eof = TRUE] /\ UNCHANGED <<uploader, answer, errCh>>
    /\ spent' = IF sink.kind = "closer" THEN spent \cup {0} ELSE spent
    /\ UNCHANGED <<given, file, ahead, stored, call>>

\* mutant: the answer is awaited and dropped
AwaitIgnored ==
    /\ pc = "await" /\ errCh # "" /\ errCh' = "" /\ Go(Outer)
    /\ UNCHANGED <<given, handles, stored, call, pipe, uploader, answer>>

(* Close waits for the answer and returns it unless there is an error.     *)
AwaitAnswer ==
    /\ pc = "await" /\ errCh # "" /\ errCh' = ""
    /\ IF errCh = "error" THEN Fail(Outer) ELSE Go(Outer)
    /\ UNCHANGED <<given, handles, stored, call, pipe, uploader, answer>>

(* The call returns, or ends in a panic its caller recovers from.          *)
Return ==
    /\ pc \in {"return", "panic"} /\ pc' = "idle"
    /\ archive' = NoEntries /\ todo' = {} /\ got' = {} /\ dropped' = {} /\ skipped' = FALSE
    /\ err' = FALSE /\ cause' = FALSE
    /\ UNCHANGED <<given, handles, stored, begun, at, upload>>

-----------------------------------------------------------------------------
(* Upload: client.Do and the server are not under this project's control.  *)

(* The transport reads the body, which lets the write go on.               *)
ReadBody ==
    /\ Waiting /\ pipe.reader /\ answer # "unmade"
    /\ pipe' = [pipe EXCEPT !.sent = pipe.put]
    /\ UNCHANGED <<given, handles, stored, pc, err, cause, call, uploader, answer, errCh>>

(* The server answers when it has everything, or before; with 2xx it keeps *)
(* what it was sent; a redirection is not followed with the body; "lost"   *)
(* is an error of Do, "unmade" one of NewRequest.                          *)
Answer ==
    /\ uploader = "doing" /\ answer = ""
    /\ \/ answer' = "ok" /\ pipe.eof /\ stored' = [stored EXCEPT ![Remote] = pipe.sent]
       \/ answer' = "early" /\ ~ pipe.eof /\ UNCHANGED stored
       \/ answer' = "unmade" /\ pipe.sent = Nothing /\ UNCHANGED stored
       \/ answer' \in {"moved", "refused", "lost"} /\ UNCHANGED stored
    /\ UNCHANGED <<given, handles, pc, err, cause, call, pipe, uploader, errCh>>

(* The transport closes the body when the exchange is over.                *)
BodyClosed ==
    /\ answer \notin {"", "unmade"} /\ pipe.reader /\ pipe' = [pipe EXCEPT !.reader = FALSE]
    /\ UNCHANGED <<given, handles, stored, pc, err, cause, call, uploader, answer, errCh>>

Bad(a) == a \in {"refused", "lost", "unmade"}

\* mutant: a failure leaves the reading end of the pipe open
SendAndLeave ==
    /\ uploader = "doing" /\ answer # "" /\ errCh = ""
    /\ errCh' = IF Bad(answer) THEN "error" ELSE "nil"
    /\ uploader' = "none"
    /\ UNCHANGED <<given, handles, stored, pc, err, cause, call, pipe, answer>>

(* The goroutine of Create: the result goes to the channel of one element, *)
(* then a failure closes the reader.                                       *)
SendResult ==
    /\ uploader = "doing" /\ answer # "" /\ errCh = ""
    /\ errCh' = IF Bad(answer) THEN "error" ELSE "nil"
    /\ uploader' = IF Bad(answer) THEN "closing" ELSE "none"
    /\ UNCHANGED <<given, handles, stored, pc, err, cause, call, pipe, answer>>

CloseReader ==
    /\ uploader = "closing" /\ uploader' = "none"
    /\ pipe' = [pipe EXCEPT !.reader = FALSE]
    /\ UNCHANGED <<given, handles, stored, pc, err, cause, call, answer, errCh>>

Caller == OpenSource \/ Load \/ NewContent \/ NoContent \/ Pick \/ Collect \/ CollectEnds \/ CloseSource
          \/ CreateSink \/ WriteEntry \/ Finish \/ WriteFails \/ CloseSink \/ AwaitAnswer \/ Return
Uploader == SendResult \/ CloseReader
Transport == ReadBody \/ Answer \/ BodyClosed
Next == Start \/ Caller \/ Cancel \/ Uploader \/ Transport

Spec == Init /\ [][Next]_vars

(* The goroutines are scheduled.  Of the other side: the body is read for  *)
(* as long as there is no answer, the server answers what has been read to *)
(* its end, and the body is closed after the exchange, as a RoundTripper   *)
(* has to.                                                                 *)
FairSpec == /\ Spec /\ WF_vars(Caller) /\ WF_vars(Uploader)
            /\ WF_vars(answer = "" /\ ReadBody) /\ WF_vars(pipe.eof /\ Answer) /\ WF_vars(BodyClosed)

-----------------------------------------------------------------------------
(* Properties                                                              *)

Files == UNION {Original[p] : p \in Places}
Things == [has : SUBSET [name : Files, from : Places \cup {"new", "cut"}], whole : BOOLEAN]

GivenType ==
    /\ sources \in SourceLists /\ sink \in Sinks /\ file \in [DOMAIN sources -> {"none", "open", "left"}]
    /\ ahead \in [DOMAIN sources -> SUBSET Files] /\ spent \subseteq DOMAIN sources \cup {0}
StoredType == stored \in [Stores -> Things] /\ before \in [Stores -> Things]
CallType ==
    /\ op \in Operations \cup {""} /\ at \in Nat \ {0} /\ calls \in Nat
    /\ err \in BOOLEAN /\ cause \in BOOLEAN /\ skipped \in BOOLEAN
    /\ pc \in {"idle", "add", "open", "load", "transform", "pick", "collect", "closeSource",
               "create", "write", "closeSink", "await", "return", "panic"}
EntriesType ==
    /\ DOMAIN archive \subseteq Files /\ \A n \in DOMAIN archive : archive[n] \in DOMAIN sources \cup {0}
    /\ todo \subseteq Files /\ got \subseteq Files /\ dropped \subseteq Files
    /\ again \subseteq DOMAIN sources \cup {0}
UploadType ==
    /\ pipe \in [put : Things, sent : Things, eof : BOOLEAN, reader : BOOLEAN]
    /\ uploader \in {"none", "doing", "closing"}
    /\ answer \in {"", "ok", "early", "moved", "refused", "lost", "unmade"} /\ errCh \in {"", "nil", "error"}

(* A type for every variable.                                              *)
TypeOK == GivenType /\ StoredType /\ CallType /\ EntriesType /\ UploadType

Used == IF op = "Merge" THEN DOMAIN sources ELSE IF op = "ArchiveFiles" THEN {} ELSE {1}
Names(p) == {e.name : e \in before[p].has}

(* Where the content of an entry of the result must come from: of several  *)
(* archives the last that has it, or the caller.                           *)
Origin(n) ==
    LET having == {i \in Used : n \in Names(Source(i).place)} IN
    {Source(i).place : i \in {j \in having : \A k \in having : k <= j}}
        \cup (IF op \in {"Transform", "ArchiveFiles"} THEN {"new"} ELSE {})

(* The entries of a source are all in the archive to be written, but for  *)
(* those the output of Transform did not take.                             *)
AllLoaded(i) == Names(Source(i).place) \subseteq DOMAIN archive \cup dropped

IsWhole(thing) ==
    /\ thing.whole
    /\ \A e \in thing.has : e.from \in Origin(e.name)
    /\ op \in Archives => {e.name : e \in thing.has} = DOMAIN archive
    /\ \A i \in Used : op \in Archives => AllLoaded(i)

StreamAgain == op \in {"UnzipFile", "UnzipToMap"} /\ ReadBefore(1)
WriterAgain == sink.kind = "closer" /\ 0 \in again

(* A call that returns nil has delivered everything it was asked for to    *)
(* its destination: every entry of every source, the last archive winning, *)
(* in a finished archive, which the server has too; UnzipToMap has every   *)
(* entry of a stream (UseSource, UseSink, httpSink.Close and the facade's  *)
(* calls).  Left out, and described in the README: a destination that is   *)
(* its own source, a writer that holds what an earlier call wrote, an      *)
(* answer that is a redirection or comes before the end of the upload,     *)
(* entries the output of Transform refused, UnzipToMap of a stream that was*)
(* read before and of a source with random access.                         *)
NilMeansDelivered ==
    pc = "return" /\ ~ err /\ ~ InPlace =>
        IF op = "UnzipToMap" THEN RandomAccess(1) \/ StreamAgain \/ got = Names(Source(1).place)
        ELSE Behind \/ answer \in {"moved", "early"} \/ IsWhole(stored[sink.place])

Unsupported == op \in Archives /\ \E i \in Used : Source(i).kind = "stream"
ReadAfterClose == op = "Merge" /\ \E i \in Used : Source(i).kind = "path"
ReadTwice == op = "UnzipToMap" /\ RandomAccess(1)

(* A call fails only for a reason: something went wrong outside, a stream  *)
(* was given to a call that needs random access, or the server did not     *)
(* take the upload.  In particular files, URLs and writers that are not    *)
(* closed can be used again, whatever earlier calls did and wherever they  *)
(* failed.  Left out, and described in the README: a stream that was read  *)
(* and a writer that was closed before, Merge of FromFilePath, which reads *)
(* entries of files that UseSource has closed, UnzipToMap of a source with *)
(* random access, which it reads a second time as a stream, ErrSkip of the *)
(* function of Transform, and a destination that is its own source.        *)
ErrorsHaveACause ==
    pc = "return" /\ err =>
        \/ cause \/ Unsupported \/ (sink.kind = "url" /\ answer \notin {"", "ok"})
        \/ StreamAgain \/ WriterAgain \/ ReadAfterClose \/ ReadTwice \/ skipped \/ InPlace

(* When a call returns, the files it opened by path are closed, the writing*)
(* end of an upload's pipe is closed, no write waits in it and its         *)
(* goroutine does not wait.  (A call that ends in a panic of Stat leaves a *)
(* file behind, for the next one that uses the source.)                    *)
NothingLeftOpen ==
    pc = "return" =>
        /\ \A i \in DOMAIN sources : file[i] # "open"
        /\ pipe.put # Nothing => pipe.eof
        /\ ~ Waiting /\ uploader # "doing"

(* The destination is touched only after everything the call reads from    *)
(* has been opened and loaded: until then a failure leaves what was there  *)
(* (the order of UseSource, Load, UseSink in every call of the facade).    *)
DestinationKept ==
    [][stored'[sink.place] # stored[sink.place] /\ sink.kind # "url" /\ pc # "idle" =>
        /\ \A i \in Used : RandomAccess(i) => AllLoaded(i)
        /\ pc = "create" => ~ err]_vars

(* Every call comes back: no write waits in the pipe for ever, whenever the*)
(* answer comes and whatever it is, and Close finds exactly one result.    *)
Termination == (pc # "idle") ~> (pc = "idle")

=============================================================================
