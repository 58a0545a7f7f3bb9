--------------------------- MODULE ArchiveWriter ---------------------------
(***************************************************************************)
(* WriteToWithContext (zip.go) and the zipWriter it drives (writer.go):    *)
(* entries one after the other, in one of four ways, then the central      *)
(* directory and the end records.  Every write to the destination, every   *)
(* read of a source and every temporary file may fail; a file that fails   *)
(* is reported and, by one goroutine, the next one is written all the      *)
(* same.  With several workers the data is encoded beforehand (module      *)
(* ParallelWriter has their interleavings) and a failure ends the writing. *)
(*                                                                         *)
(* The medium is a set of pieces with their place and length.  What is     *)
(* written over a part of a piece destroys it.                             *)
(***************************************************************************)
EXTENDS Records

CONSTANTS
    Sources,        \* the files an archive may be made of
    Archives,       \* sequences of them
    Options,        \* seekable: dest is an io.WriteSeeker; parallel: more
                    \* than one worker; implicitDirs: IncludeImplicitDirs
    SpillThreshold  \* of the buffer of the central directory

(* data: its length; declared: what the File says of it; bytes: its length *)
(* when encoded; was: what the File says of that; raw: it is copied.       *)
SourceFiles == [isDir : BOOLEAN, implicit : BOOLEAN, data : Nat, declared : Nat \cup {Unknown},
                bytes : Nat, was : Nat, method : Nat, crypt : {NotEncrypted, ZipCrypto, AES256},
                raw : BOOLEAN, loaded : BOOLEAN, extra : Seq(Nat \X Nat), precise : BOOLEAN,
                breaks : BOOLEAN]

(* Implicit files are directories, no encoder writes nothing, and what is  *)
(* copied was loaded from an archive that tells the truth about it.        *)
ASSUME WriterAssumption ==
    /\ Sources \subseteq SourceFiles
    /\ \A s \in Sources :
         /\ s.implicit => s.isDir
         /\ ~s.isDir /\ ~s.raw /\ s.method # Store => s.bytes > 0
         /\ s.raw => /\ s.declared = s.data /\ s.was = s.bytes
                     /\ s.method = Store /\ s.crypt = NotEncrypted => s.bytes = s.data
    /\ Archives \subseteq Seq(Sources)
    /\ Options \subseteq [seekable : BOOLEAN, parallel : BOOLEAN, implicitDirs : BOOLEAN]
    /\ SpillThreshold \in Nat

VARIABLES
    files, opts,
    pc,             \* what comes next: "next", "encode", "header", "body",
                    \* "tail", "central", "flush", "end"; "done", "panicked"
    at,             \* index of the file being written
    snap,           \* its snapshot
    medium,         \* disk: the pieces; pos: where the next write goes; end
    headerOffset,
    centralDir,     \* spillBuffer: the entries in it, each at its place;
    buffered,       \* the bytes in it,
    spilled,        \* in memory or on disk
    entriesNum, centralDirSize,
    errs,           \* files reported as failed
    finalErr,       \* the end of the archive could not be written
    gaveUp,         \* the context is cancelled
    listed,         \* snapshots of the entries of the central directory
    trouble         \* "dest", "stream", "spill": failures that spoil what follows

vars == <<files, opts, pc, at, snap, medium, headerOffset, centralDir, buffered,
          spilled, entriesNum, centralDirSize, errs, finalErr, gaveUp, listed, trouble>>
fixed == <<files, opts>>
central == <<centralDir, buffered, spilled, entriesNum, centralDirSize, listed>>

File == files[at]
HowWritten(s) ==
    CASE s.isDir -> "directory"
      [] ~s.isDir /\ opts.parallel -> "compressed"
      [] ~s.isDir /\ ~opts.parallel /\ s.crypt = NotEncrypted
            /\ (opts.seekable => s.declared # Unknown) -> "stream"
      [] OTHER -> "temp"
Way == HowWritten(File)

FillSnapshot(k) ==
    LET s == files[k]
    IN  [of |-> k, isDir |-> s.isDir, implicit |-> s.implicit, method |-> s.method,
         crypt |-> s.crypt, uncomp |-> s.declared, comp |-> s.was,
         crc |-> IF s.loaded /\ s.crypt # AES256 THEN k ELSE 0, offset |-> 0, dd |-> FALSE,
         precise |-> s.precise, extra |-> s.extra, rawExtra |-> s.loaded /\ s.extra # <<>>]

Prepared(k) ==
    LET s == FillSnapshot(k) IN IF s.uncomp = 0 THEN ResetEncodeOptions(s) ELSE s

(* Bytes the source's data takes on the medium.                            *)
EncodedLength == IF ~File.raw /\ snap.crypt = NotEncrypted /\ snap.method = Store
                 THEN File.data ELSE File.bytes

PutPieces(m, pieces, n) ==
    [disk |-> {p \in m.disk : p.at + p.len <= m.pos \/ p.at >= m.pos + n} \cup pieces,
     pos |-> m.pos + n, end |-> IF m.pos + n > m.end THEN m.pos + n ELSE m.end]
Put(m, what, n) ==
    PutPieces(m, IF n = 0 THEN {} ELSE {[at |-> m.pos, len |-> n, what |-> what]}, n)
Local(s) == [kind |-> "local", of |-> s.of, header |-> LocalHeader(s)]
Body == [kind |-> "data", of |-> at, plain |-> File.data,
         method |-> IF File.raw THEN File.method ELSE snap.method,
         crypt |-> IF File.raw THEN File.crypt ELSE snap.crypt]
Garbage == [kind |-> "garbage"]

-----------------------------------------------------------------------------
Init ==
    /\ files \in Archives /\ opts \in Options
    /\ pc = "next" /\ at = 1 /\ snap = <<>>
    /\ medium = [disk |-> {}, pos |-> 0, end |-> 0] /\ headerOffset = 0
    /\ centralDir = {} /\ buffered = 0 /\ spilled = FALSE /\ entriesNum = 0 /\ centralDirSize = 0
    /\ errs = {} /\ finalErr = FALSE /\ gaveUp = FALSE /\ listed = <<>> /\ trouble = {}

NextFile == at' = at + 1 /\ pc' = "next"

FailSilently(what) ==   \* a mutant: the error is lost
    /\ errs' = errs
    /\ trouble' = trouble \cup what
    /\ gaveUp' = gaveUp
    /\ NextFile
    /\ UNCHANGED <<fixed, snap, central, finalErr>>

(* An error ends the file; a parallel writer cancels what is left.         *)
Fail(what) ==
    /\ errs' = errs \cup {at}
    /\ trouble' = trouble \cup what
    /\ gaveUp' = (gaveUp \/ opts.parallel)
    /\ NextFile
    /\ UNCHANGED <<fixed, snap, central, finalErr>>

GiveUp ==
    /\ pc = "next" /\ ~gaveUp /\ gaveUp' = TRUE
    /\ UNCHANGED <<fixed, pc, at, snap, medium, headerOffset, central, errs, finalErr, trouble>>

(* The head of WriteFile and of the worker's loop.                         *)
StartFile ==
    /\ pc = "next" /\ ~gaveUp /\ at <= Len(files)
    /\ snap' = LET s == Prepared(at)
               IN  IF Way # "stream" THEN s
                   ELSE [s EXCEPT !.dd = ~opts.seekable,
                                  !.comp = IF s.method = Store THEN s.uncomp ELSE @]
    /\ pc' = CASE Way \in {"directory", "stream"} -> "header"
               [] Way = "compressed" /\ snap'.uncomp = 0 -> "header"
               [] OTHER -> "encode"
    /\ UNCHANGED <<fixed, at, medium, headerOffset, central, errs, finalErr, gaveUp, trouble>>

(* The snapshot once the source has been read to its end (encodeTo); raw   *)
(* data is copied and changes nothing.                                     *)
Encoded == IF File.raw THEN snap
           ELSE [snap EXCEPT !.uncomp = File.data, !.comp = EncodedLength,
                             !.crc = IF snap.crypt = AES256 THEN 0 ELSE at]
SizeMismatch == ~File.raw /\ snap.uncomp # Unknown /\ snap.uncomp # File.data
SourceFails == File.breaks \/ SizeMismatch

(* encodeToAndUpdate into a temporary file, or compressFile into a buffer. *)
EncodeToBuffer ==
    /\ pc = "encode"
    /\ UNCHANGED <<medium, headerOffset>>
    /\ \/ /\ ~SourceFails
          /\ snap' = Encoded /\ pc' = "header"
          /\ UNCHANGED <<fixed, at, central, errs, finalErr, gaveUp, trouble>>
       \/ SourceFails /\ Fail({})

(* An implicit directory is left out of the archive if so configured.      *)
Suppressed == snap.implicit /\ ~opts.implicitDirs

AfterHeader == CASE Way = "directory" -> "central"
                 [] Way = "compressed" /\ snap.uncomp = 0 -> "central"
                 [] OTHER -> "body"

writeFileHeader ==
    /\ pc = "header"
    /\ IF Suppressed
       THEN /\ pc' = AfterHeader
            /\ UNCHANGED <<fixed, at, snap, medium, headerOffset, central, errs, finalErr, gaveUp, trouble>>
       ELSE LET s == [snap EXCEPT !.offset = headerOffset]
                n == HeaderLength(LocalHeader(s))
            IN  \/ /\ snap' = s /\ pc' = AfterHeader
                   /\ medium' = Put(medium, Local(s), n)
                   /\ headerOffset' = headerOffset + n
                   /\ UNCHANGED <<fixed, at, central, errs, finalErr, gaveUp, trouble>>
                \/ \E k \in 0 .. n - 1 : medium' = Put(medium, Garbage, k)
                   /\ Fail({"dest"}) /\ UNCHANGED headerOffset

(* writeStream: encodeToAndUpdate straight into the destination.  An error *)
(* of the source is noticed with some or all of the data written.          *)
EncodeToDest ==
    /\ pc = "body" /\ Way = "stream"
    /\ \/ /\ ~SourceFails
          /\ snap' = Encoded
          /\ medium' = Put(medium, Body, EncodedLength)
          /\ headerOffset' = headerOffset + snap'.comp
          /\ pc' = "tail"
          /\ UNCHANGED <<fixed, at, central, errs, finalErr, gaveUp, trouble>>
       \/ /\ SourceFails
          /\ \E k \in (IF File.breaks THEN 0 ELSE EncodedLength) .. EncodedLength :
                medium' = Put(medium, Garbage, k)
          /\ Fail({"stream"}) /\ UNCHANGED headerOffset
       \/ /\ ~SourceFails
          /\ \E k \in 0 .. EncodedLength - 1 : medium' = Put(medium, Garbage, k)
          /\ Fail({"dest"}) /\ UNCHANGED headerOffset

(* The copy of writeTemp, which counts what the snapshot says, and of      *)
(* writeCompressedFile, which counts what was copied.                      *)
CopyToDest ==
    /\ pc = "body" /\ Way # "stream"
    /\ \/ /\ medium' = Put(medium, Body, EncodedLength)
          /\ headerOffset' = headerOffset + (IF Way = "temp" THEN snap.comp ELSE EncodedLength)
          /\ pc' = "central"
          /\ UNCHANGED <<fixed, at, snap, central, errs, finalErr, gaveUp, trouble>>
       \/ /\ \E k \in 0 .. EncodedLength - 1 : medium' = Put(medium, Garbage, k)
          /\ Fail({"dest"}) /\ UNCHANGED headerOffset

PatchedSizes(m) ==   \* a mutant: the checksum is left as it was
    LET sizes(what) == [what EXCEPT !.header = [@ EXCEPT !.comp = snap.comp, !.uncomp = snap.uncomp]]
    IN  [m EXCEPT !.disk = {IF p.at = snap.offset THEN [p EXCEPT !.what = sizes(@)] ELSE p : p \in m.disk}]

(* updateLocalHeader: seek back, put in CRC and sizes, seek to the end.  If *)
(* the offset is not that of the header, something else is spoiled.        *)
Patched(m) ==
    LET back == [m EXCEPT !.pos = snap.offset]
        new(what) == [what EXCEPT !.header = [@ EXCEPT !.crc = snap.crc,
                        !.comp = snap.comp % (Limit + 1), !.uncomp = snap.uncomp % (Limit + 1)]]
        here == {p \in m.disk : p.at = snap.offset /\ p.what.kind = "local"}
    IN  IF here = {} THEN [Put(back, Garbage, 1) EXCEPT !.pos = m.end]
        ELSE LET old == CHOOSE p \in here : TRUE
             IN  [Put(back, new(old.what), old.len) EXCEPT !.pos = m.end]

PatchHeader ==
    /\ pc = "tail" /\ opts.seekable
    /\ \/ /\ ~(snap.comp > Limit \/ snap.uncomp > Limit)
          /\ medium' = Patched(medium) /\ pc' = "central"
          /\ UNCHANGED <<fixed, at, snap, headerOffset, central, errs, finalErr, gaveUp, trouble>>
       \/ /\ snap.comp > Limit \/ snap.uncomp > Limit
          /\ Fail({}) /\ UNCHANGED <<medium, headerOffset>>
       \/ /\ medium' = [medium EXCEPT !.pos = snap.offset]
          /\ Fail({"dest"}) /\ UNCHANGED headerOffset

WriteDescriptorUncounted ==   \* a mutant: headerOffset leaves the descriptor out
    /\ pc = "tail" /\ ~opts.seekable
    /\ medium' = Put(medium, [kind |-> "descriptor", of |-> at], 1) /\ pc' = "central"
    /\ UNCHANGED <<fixed, at, snap, headerOffset, central, errs, finalErr, gaveUp, trouble>>

WriteDataDescriptor ==
    /\ pc = "tail" /\ ~opts.seekable
    /\ \/ /\ medium' = Put(medium, [kind |-> "descriptor", of |-> at], 1)
          /\ headerOffset' = headerOffset + 1 /\ pc' = "central"
          /\ UNCHANGED <<fixed, at, snap, central, errs, finalErr, gaveUp, trouble>>
       \/ Fail({"dest"}) /\ UNCHANGED <<medium, headerOffset>>

-----------------------------------------------------------------------------
(* spillBuffer.Write: past the threshold everything moves to a temporary   *)
(* file.  If the move breaks off, what it had taken from memory is lost;   *)
(* if the write to the file breaks off, a part of the entry stays in it.   *)
MustSpill(n) == ~spilled /\ buffered + n > SpillThreshold

Keep(e, n) ==
    /\ centralDir' = centralDir \cup {[at |-> buffered, entry |-> e]}
    /\ buffered' = buffered + n
    /\ spilled' = (spilled \/ MustSpill(n))

MoveFails(n) ==
    /\ MustSpill(n) /\ UNCHANGED spilled
    /\ \/ UNCHANGED <<centralDir, buffered, trouble>>
       \/ \E c \in 1 .. buffered :
             /\ centralDir' = {[x EXCEPT !.at = @ - c] : x \in {y \in centralDir : y.at >= c}}
             /\ buffered' = buffered - c
             /\ trouble' = trouble \cup {"spill"}

FileWriteFails(n) ==
    /\ spilled \/ MustSpill(n)
    /\ spilled' = TRUE /\ UNCHANGED centralDir
    /\ \/ UNCHANGED <<buffered, trouble>>
       \/ \E c \in 1 .. n - 1 : buffered' = buffered + c /\ trouble' = trouble \cup {"spill"}

addCentralDirEntry ==
    /\ pc = "central"
    /\ UNCHANGED <<medium, headerOffset>>
    /\ LET e == CentralDirectory(snap)
           n == HeaderLength(e)
       IN  \/ /\ Suppressed
              /\ NextFile
              /\ UNCHANGED <<fixed, snap, central, errs, finalErr, gaveUp, trouble>>
           \/ /\ ~Suppressed /\ StoresInNilMap(snap)
              /\ pc' = "panicked"
              /\ UNCHANGED <<fixed, at, snap, central, errs, finalErr, gaveUp, trouble>>
           \/ /\ ~Suppressed /\ ~StoresInNilMap(snap)
              /\ Keep(e, n)
              /\ entriesNum' = entriesNum + 1 /\ centralDirSize' = centralDirSize + n
              /\ listed' = Append(listed, snap)
              /\ NextFile
              /\ UNCHANGED <<fixed, snap, errs, finalErr, gaveUp, trouble>>
           \/ /\ ~Suppressed /\ ~StoresInNilMap(snap)
              /\ MoveFails(n) \/ FileWriteFails(n)
              /\ errs' = errs \cup {at} /\ gaveUp' = (gaveUp \/ opts.parallel)
              /\ NextFile
              /\ UNCHANGED <<fixed, snap, entriesNum, centralDirSize, listed, finalErr>>

StopWriting ==
    /\ pc = "next" /\ (gaveUp \/ at > Len(files))
    /\ pc' = "flush"
    /\ UNCHANGED <<fixed, at, snap, medium, headerOffset, central, errs, finalErr, gaveUp, trouble>>

(* The buffer is copied: its entries keep their distances.                 *)
PutDirectory(m) ==
    PutPieces(m,
        {[at |-> m.pos + x.at, len |-> HeaderLength(x.entry),
          what |-> [kind |-> "central", entry |-> x.entry]] : x \in centralDir},
        buffered)

Finalize(m, next) ==
    \/ medium' = m /\ pc' = next /\ UNCHANGED finalErr
    \/ UNCHANGED medium /\ pc' = "done" /\ finalErr' = TRUE

flushCentralDirectory ==
    /\ pc = "flush"
    /\ Finalize(PutDirectory(medium), "end")
    /\ UNCHANGED <<fixed, at, snap, headerOffset, central, errs, gaveUp, trouble>>

writeZip64EndRecords(m) ==
    Put(Put(m, EncodeZip64EOCDRecord(entriesNum, headerOffset), EndLength),
        EncodeZip64EOCDLocator(headerOffset + centralDirSize), EndLength)

WriteEndRecords ==
    /\ pc = "end"
    /\ Finalize(Put(IF requiresZip64(entriesNum, centralDirSize, headerOffset)
                    THEN writeZip64EndRecords(medium) ELSE medium,
                    EncodeEOCD(entriesNum, headerOffset), EndLength),
                "done")
    /\ UNCHANGED <<fixed, at, snap, headerOffset, central, errs, gaveUp, trouble>>

Next ==
    \/ GiveUp \/ StartFile \/ EncodeToBuffer \/ writeFileHeader \/ EncodeToDest \/ CopyToDest
    \/ PatchHeader \/ WriteDataDescriptor \/ addCentralDirEntry
    \/ StopWriting \/ flushCentralDirectory \/ WriteEndRecords

Spec == Init /\ [][Next]_vars
=============================================================================
