--------------------------- MODULE ArchiveProofs ---------------------------
(***************************************************************************)
(* Proofs about Archive, for any files, options, limits and failures: the  *)
(* writer knows where it is, local headers and central directory agree,    *)
(* and a nil error means a whole archive.                                  *)
(***************************************************************************)
EXTENDS Archive, TLAPS

----------------------------------------------------------------------------
(* The inductive invariant                                                 *)

Snapshots == [of : Nat, isDir : BOOLEAN, implicit : BOOLEAN, method : Nat, crypt : {NotEncrypted, ZipCrypto, AES256},
              uncomp : Int, comp : Int, crc : Nat, offset : Int, dd : BOOLEAN, precise : BOOLEAN,
              extra : Seq(Nat \X Nat), rawExtra : BOOLEAN]
Listings == [at : Nat, entry : {CentralDirectory(s) : s \in Snapshots}]

Busy == pc \in {"encode", "header", "body", "tail", "central"}

(***************************************************************************)
(* Every variable has its type; a file is being written only while there   *)
(* is one.                                                                 *)
(***************************************************************************)
IsMedium(m) ==
    /\ DOMAIN m = {"disk", "pos", "end"} /\ m.pos \in Int /\ m.end \in Int
    /\ \A p \in m.disk : p.at \in Int /\ p.len \in Nat \ {0}

FixedType == files \in Archives /\ opts \in Options

PcType ==
    /\ pc \in {"next", "encode", "header", "body", "tail", "central", "flush", "end", "done", "panicked"}
    /\ at \in 1 .. Len(files) + 1 /\ (Busy => at \in DOMAIN files /\ snap \in Snapshots)

CentralType ==
    /\ centralDir \subseteq Listings /\ buffered \in Nat /\ spilled \in BOOLEAN
    /\ centralDirSize \in Nat /\ entriesNum \in Nat /\ listed \in Seq(Snapshots)

TypeOK ==
    /\ FixedType /\ PcType /\ IsMedium(medium) /\ headerOffset \in Int /\ CentralType
    /\ errs \subseteq DOMAIN files /\ finalErr \in BOOLEAN /\ gaveUp \in BOOLEAN
    /\ trouble \subseteq {"dest", "stream", "spill"}

(***************************************************************************)
(* The snapshot is that of the file being written: its settings never      *)
(* change, its sizes when the data has been encoded.                       *)
(***************************************************************************)
Settled ==
    Busy => /\ snap.of = at /\ snap.isDir = File.isDir /\ snap.implicit = File.implicit
            /\ snap.method = Prepared(at).method /\ snap.crypt = Prepared(at).crypt
            /\ snap.dd = (Way = "stream" /\ ~opts.seekable)

Sizes ==
    /\ pc = "encode" => Way \in {"compressed", "temp"} /\ snap.uncomp = File.declared /\ snap.comp = File.was
    /\ pc \in {"header", "body"} /\ Way = "stream" =>
         snap.uncomp = File.declared /\ snap.comp = IF snap.method = Store THEN File.declared ELSE File.was
    /\ pc \in {"header", "body"} /\ Way = "temp" => snap.comp = EncodedLength
    /\ pc = "body" => Way # "directory"
    /\ pc = "tail" => Way = "stream"

(***************************************************************************)
(* The writer knows where it is, and there is nothing behind it.           *)
(***************************************************************************)
Clean == AllSound /\ trouble \cap {"dest", "stream"} = {}

Position ==
    Clean /\ (Busy \/ pc \in {"next", "flush"}) =>
        /\ headerOffset = medium.pos /\ medium.pos = medium.end
        /\ \A p \in medium.disk : p.at + p.len <= medium.end

(***************************************************************************)
(* The local headers of the entries listed, and that of the file being     *)
(* written, lie before what comes next.                                    *)
(***************************************************************************)
Agrees(p, s) ==
    LET h == p.what.header
        e == CentralDirectory(s)
    IN  /\ p.what.of = s.of /\ h.method = e.method /\ h.flags = e.flags
        /\ s.dd \/ (h.crc = e.crc /\ h.comp = e.comp /\ h.uncomp = e.uncomp)

Tells(p, s) == \E t \in Snapshots : /\ t.of = s.of /\ p.what = Local(t) 
                                    /\ CompressionMethod(t) = CompressionMethod(s) /\ FileBitFlag(t) = FileBitFlag(s)

HeaderWritten == pc \in {"body", "tail", "central"} /\ ~Suppressed

Begin == IF HeaderWritten THEN snap.offset ELSE medium.pos

ListedThere ==
    \A k \in DOMAIN listed :
        \E p \in Piece(medium, listed[k].offset, "local") : p.at + p.len <= Begin /\ Agrees(p, listed[k])

CurrentThere ==
    HeaderWritten =>
        /\ snap.offset <= medium.pos
        /\ \E p \in Piece(medium, snap.offset, "local") : pc = "central" => Agrees(p, snap)
        /\ pc = "body" => \A p \in medium.disk : p.at = snap.offset => p.what = Local(snap)
        /\ pc = "tail" => \A p \in medium.disk : p.at = snap.offset => Tells(p, snap)

Headers == Clean => ListedThere /\ CurrentThere

(***************************************************************************)
(* Unless a file has failed or the rest was given up, all files so far are *)
(* listed.                                                                 *)
(***************************************************************************)
Whole ==
    /\ errs = {} /\ ~gaveUp =>
         /\ trouble = {}
         /\ {listed[k].of : k \in DOMAIN listed} = {k \in 1 .. at - 1 : files[k].implicit => opts.implicitDirs}
    /\ pc \in {"flush", "end", "done"} /\ ~gaveUp => at = Len(files) + 1

IInv == TypeOK /\ Settled /\ Sizes /\ Position /\ Headers /\ Whole

----------------------------------------------------------------------------
(* The constants, the files and their snapshots                            *)

LEMMA Constants ==
    /\ Limit \in Nat /\ EndLength \in Nat \ {0} /\ SpillThreshold \in Nat
    /\ Archives \subseteq Seq(Sources) /\ Sources \subseteq SourceFiles
    /\ Options \subseteq [seekable : BOOLEAN, parallel : BOOLEAN, implicitDirs : BOOLEAN]
BY RecordsAssumption, WriterAssumption

LEMMA FilesType ==
    ASSUME FixedType
    PROVE  /\ files \in Seq(Sources) /\ Len(files) \in Nat /\ DOMAIN files = 1 .. Len(files)
           /\ \A k \in DOMAIN files : files[k] \in Sources /\ files[k] \in SourceFiles
BY Constants DEF FixedType

LEMMA SourceFacts ==
    ASSUME NEW s \in Sources
    PROVE  /\ s.implicit => s.isDir
           /\ ~s.isDir /\ ~s.raw /\ s.method # Store => s.bytes > 0
           /\ s.raw => s.declared = s.data /\ s.was = s.bytes
           /\ s.raw /\ s.method = Store /\ s.crypt = NotEncrypted => s.bytes = s.data
BY WriterAssumption

LEMMA Fields ==
    ASSUME NEW s \in SourceFiles
    PROVE  /\ s.isDir \in BOOLEAN /\ s.implicit \in BOOLEAN /\ s.data \in Nat /\ s.declared \in Int /\ s.bytes \in Nat
           /\ s.was \in Nat /\ s.method \in Nat /\ s.crypt \in {NotEncrypted, ZipCrypto, AES256} /\ s.raw \in BOOLEAN
           /\ s.loaded \in BOOLEAN /\ s.extra \in Seq(Nat \X Nat) /\ s.precise \in BOOLEAN
           /\ s.declared # Unknown => s.declared \in Nat
BY DEF SourceFiles, Unknown

\* The snapshot of a file.
LEMMA PreparedParts ==
    ASSUME FixedType, NEW k \in DOMAIN files
    PROVE  /\ Prepared(k) \in Snapshots /\ Prepared(k).of = k /\ Prepared(k).isDir = files[k].isDir
           /\ Prepared(k).implicit = files[k].implicit /\ Prepared(k).dd = FALSE
           /\ Prepared(k).uncomp = files[k].declared /\ Prepared(k).comp = files[k].was
           /\ files[k].declared # 0 => Prepared(k).method = files[k].method /\ Prepared(k).crypt = files[k].crypt
           /\ files[k].declared = 0 => Prepared(k).method = Store /\ Prepared(k).crypt = NotEncrypted
<1> DEFINE s == files[k]
           crc == IF s.loaded /\ s.crypt # AES256 THEN k ELSE 0
           rawExtra == s.loaded /\ s.extra # <<>>
           f == FillSnapshot(k)
<1>1. s \in SourceFiles /\ k \in Nat
  BY FilesType
<1>2. f = [of |-> k, isDir |-> s.isDir, implicit |-> s.implicit, method |-> s.method,
           crypt |-> s.crypt, uncomp |-> s.declared, comp |-> s.was,
           crc |-> crc, offset |-> 0, dd |-> FALSE,
           precise |-> s.precise, extra |-> s.extra, rawExtra |-> rawExtra]
  BY DEF FillSnapshot
<1>3. crc \in Nat /\ rawExtra \in BOOLEAN
  BY <1>1
<1>4. Prepared(k) = IF f.uncomp = 0 THEN [f EXCEPT !.method = Store, !.crypt = NotEncrypted] ELSE f
  BY DEF Prepared, ResetEncodeOptions
<1> HIDE DEF s, crc, rawExtra, f
<1>5. /\ f.of = k /\ f.isDir = s.isDir /\ f.implicit = s.implicit /\ f.dd = FALSE
      /\ f.uncomp = s.declared /\ f.comp = s.was /\ f.method = s.method /\ f.crypt = s.crypt
  BY <1>2
<1>6. f \in Snapshots
  <2> DEFINE isDir == s.isDir
             implicit == s.implicit
             method == s.method
             crypt == s.crypt
             uncomp == s.declared
             comp == s.was
             precise == s.precise
             extra == s.extra
  <2>1. /\ isDir \in BOOLEAN /\ implicit \in BOOLEAN /\ method \in Nat
        /\ crypt \in {NotEncrypted, ZipCrypto, AES256} /\ uncomp \in Int /\ comp \in Int
        /\ precise \in BOOLEAN /\ extra \in Seq(Nat \X Nat)
    BY <1>1, Fields
  <2>2. f = [of |-> k, isDir |-> isDir, implicit |-> implicit, method |-> method,
             crypt |-> crypt, uncomp |-> uncomp, comp |-> comp,
             crc |-> crc, offset |-> 0, dd |-> FALSE,
             precise |-> precise, extra |-> extra, rawExtra |-> rawExtra]
    BY <1>2
  <2> HIDE DEF isDir, implicit, method, crypt, uncomp, comp, precise, extra
  <2>3. k \in Nat /\ crc \in Nat /\ rawExtra \in BOOLEAN
    BY <1>1, <1>3
  <2> QED BY <2>1, <2>2, <2>3 DEF Snapshots
<1>7. Store \in Nat /\ NotEncrypted \in {NotEncrypted, ZipCrypto, AES256}
  BY DEF Store
<1>8. [f EXCEPT !.method = Store, !.crypt = NotEncrypted] \in Snapshots
  BY <1>6, <1>7 DEF Snapshots
<1>9. CASE s.declared = 0
  <2> DEFINE g == [f EXCEPT !.method = Store, !.crypt = NotEncrypted]
  <2>1. Prepared(k) = g
    BY <1>4, <1>5, <1>9
  <2>2. g.of = f.of /\ g.isDir = f.isDir /\ g.implicit = f.implicit /\ g.dd = f.dd /\ g.uncomp = f.uncomp /\ g.comp = f.comp
    OBVIOUS
  <2>3. g.method = Store /\ g.crypt = NotEncrypted
    BY <1>6 DEF Snapshots
  <2> HIDE DEF g
  <2> QED BY <1>5, <1>8, <1>9, <2>1, <2>2, <2>3 DEF s, g
<1>10. CASE s.declared # 0
  BY <1>4, <1>5, <1>6, <1>10 DEF s
<1> QED BY <1>9, <1>10

LEMMA HeaderLengthType == \A e : HeaderLength(e) \in {1, 2}
BY DEF HeaderLength

\* What the writing of a file depends on stays as it is.
LEMMA SameFile ==
    ASSUME UNCHANGED <<files, opts, at>>
    PROVE  /\ (Way = Way') /\ Prepared(at)' = Prepared(at) /\ File' = File
           /\ (AllSound <=> AllSound') /\ (FixedType <=> FixedType')
<1>1. Way = Way'
  BY DEF Way, HowWritten, File
<1>2. Prepared(at)' = Prepared(at)
  BY DEF Prepared, FillSnapshot
<1> QED BY <1>1, <1>2 DEF File, AllSound, FixedType

LEMMA WayFacts ==
    /\ Way \in {"directory", "compressed", "stream", "temp"} /\ (Way = "directory" <=> File.isDir)
    /\ Way = "stream" => /\ File.crypt = NotEncrypted /\ (opts.seekable => File.declared # Unknown)
BY DEF Way, HowWritten

LEMMA EncodedLengthType ==
    ASSUME FixedType, at \in DOMAIN files PROVE EncodedLength \in Nat /\ (File.raw => EncodedLength = File.bytes)
<1>1. File \in SourceFiles
  BY FilesType DEF File
<1> QED BY <1>1, Fields DEF EncodedLength

LEMMA SameLength ==
    ASSUME UNCHANGED <<files, at>>, snap'.crypt = snap.crypt, snap'.method = snap.method
    PROVE  EncodedLength' = EncodedLength
BY DEF EncodedLength, File

\* The snapshot once the data has been encoded.
LEMMA EncodedParts ==
    ASSUME FixedType, at \in DOMAIN files, snap \in Snapshots
    PROVE  /\ Encoded \in Snapshots
           /\ Encoded.of = snap.of /\ Encoded.isDir = snap.isDir /\ Encoded.implicit = snap.implicit
           /\ Encoded.method = snap.method /\ Encoded.crypt = snap.crypt /\ Encoded.dd = snap.dd
           /\ Encoded.offset = snap.offset
           /\ Encoded.uncomp = (IF File.raw THEN snap.uncomp ELSE File.data)
           /\ Encoded.comp = (IF File.raw THEN snap.comp ELSE EncodedLength)
<1> DEFINE n == EncodedLength
           crc == IF snap.crypt = AES256 THEN 0 ELSE at
           data == File.data
<1>1. n \in Int /\ crc \in Nat /\ data \in Int
  <2>1. File \in SourceFiles /\ at \in Nat
    BY FilesType DEF File
  <2> QED BY <2>1, EncodedLengthType, Fields
<1>2. Encoded = IF File.raw THEN snap ELSE [snap EXCEPT !.uncomp = data, !.comp = n, !.crc = crc]
  BY DEF Encoded
<1> HIDE DEF n, crc, data
<1>3. CASE File.raw
  BY <1>2, <1>3
<1>4. CASE ~ File.raw
  BY <1>1, <1>2, <1>4 DEF Snapshots, n, data
<1> QED BY <1>3, <1>4

\* Bytes are put at the end of the medium, or over others.
LEMMA PutParts ==
    ASSUME NEW m, IsMedium(m), NEW w, NEW n \in Nat
    PROVE  /\ IsMedium(Put(m, w, n)) /\ Put(m, w, n).pos = m.pos + n
           /\ Put(m, w, n).end = IF m.pos + n > m.end THEN m.pos + n ELSE m.end
           /\ \A p \in m.disk : p.at + p.len <= m.pos => p \in Put(m, w, n).disk
           /\ \A p \in Put(m, w, n).disk : p \in m.disk \/ p = [at |-> m.pos, len |-> n, what |-> w]
           /\ n > 0 => [at |-> m.pos, len |-> n, what |-> w] \in Put(m, w, n).disk
<1> DEFINE piece == [at |-> m.pos, len |-> n, what |-> w]
           kept == {p \in m.disk : p.at + p.len <= m.pos \/ p.at >= m.pos + n}
           disk == kept \cup (IF n = 0 THEN {} ELSE {piece})
           end == IF m.pos + n > m.end THEN m.pos + n ELSE m.end
<1>1. Put(m, w, n) = [disk |-> disk, pos |-> m.pos + n, end |-> end]
  BY DEF Put, PutPieces
<1>2. m.pos \in Int /\ m.end \in Int /\ m.pos + n \in Int /\ end \in Int
  BY DEF IsMedium
<1>3. piece.at = m.pos /\ piece.len = n
  OBVIOUS
<1>4. \A p \in disk : p.at \in Int /\ p.len \in Nat \ {0}
  <2>1. \A p \in kept : p.at \in Int /\ p.len \in Nat \ {0}
    BY DEF IsMedium
  <2> HIDE DEF kept, piece
  <2> QED BY <1>2, <1>3, <2>1
<1>5. /\ \A p \in m.disk : p.at + p.len <= m.pos => p \in disk
      /\ \A p \in disk : p \in m.disk \/ p = piece
      /\ n > 0 => piece \in disk
  <2> HIDE DEF piece
  <2> QED OBVIOUS
<1> HIDE DEF piece, disk, end
<1>6. /\ Put(m, w, n).disk = disk /\ Put(m, w, n).pos = m.pos + n /\ Put(m, w, n).end = end
      /\ DOMAIN Put(m, w, n) = {"disk", "pos", "end"}
  BY <1>1
<1>7. IsMedium(Put(m, w, n))
  BY <1>2, <1>4, <1>6 DEF IsMedium
<1> QED BY <1>5, <1>6, <1>7 DEF piece, end

\* Where the medium stands afterwards.
LEMMA PutPos == ASSUME NEW m, IsMedium(m), NEW w, NEW n \in Nat PROVE Put(m, w, n).pos = m.pos + n
BY PutParts

----------------------------------------------------------------------------
(* Every step keeps the invariant                                          *)

LEMMA InitIInv == Init => IInv
<1> SUFFICES ASSUME Init PROVE IInv
  OBVIOUS
<1>1. /\ files \in Archives /\ opts \in Options /\ pc = "next" /\ at = 1
      /\ medium = [disk |-> {}, pos |-> 0, end |-> 0] /\ headerOffset = 0
      /\ centralDir = {} /\ buffered = 0 /\ spilled = FALSE /\ entriesNum = 0 /\ centralDirSize = 0
      /\ errs = {} /\ finalErr = FALSE /\ gaveUp = FALSE /\ listed = <<>> /\ trouble = {}
  BY DEF Init
<1>2. IsMedium(medium) /\ medium.pos = 0 /\ medium.end = 0 /\ medium.disk = {}
  BY <1>1 DEF IsMedium
<1>3. FixedType /\ Len(files) \in Nat
  BY <1>1, FilesType DEF FixedType
<1>4. PcType
  BY <1>1, <1>3 DEF PcType, Busy
<1>5. CentralType
  <2>1. centralDir \subseteq Listings /\ listed \in Seq(Snapshots)
    BY <1>1
  <2> QED BY <1>1, <2>1 DEF CentralType
<1>6. TypeOK
  <2>1. errs \subseteq DOMAIN files /\ trouble \subseteq {"dest", "stream", "spill"}
    BY <1>1
  <2>2. headerOffset \in Int
    BY <1>1
  <2>3. finalErr \in BOOLEAN /\ gaveUp \in BOOLEAN
    BY <1>1
  <2> QED BY <1>2, <1>3, <1>4, <1>5, <2>1, <2>2, <2>3 DEF TypeOK
<1>7. Whole
  <2>1. {listed[k].of : k \in DOMAIN listed} = {}
    BY <1>1
  <2>2. 1 .. at - 1 = {}
    BY <1>1
  <2> QED BY <1>1, <2>1, <2>2 DEF Whole
<1>8. Headers
  <2>1. DOMAIN listed = {}
    BY <1>1
  <2> QED BY <1>1, <2>1 DEF Headers, ListedThere, CurrentThere, HeaderWritten
<1> QED BY <1>1, <1>2, <1>6, <1>7, <1>8 DEF IInv, Settled, Sizes, Position, Busy

\* The headers of what is listed, as the next state has them.
LEMMA ListedKept ==
    ASSUME IInv, Clean, listed' = listed, IsMedium(medium'),
           \A p \in medium.disk : p.at + p.len <= Begin => p \in medium'.disk, Begin <= Begin', Begin' \in Int
    PROVE  ListedThere'
<1>1. SUFFICES ASSUME NEW k \in DOMAIN listed
               PROVE  \E p \in Piece(medium', listed[k].offset, "local") : p.at + p.len <= Begin' /\ Agrees(p, listed[k])
  BY DEF ListedThere, Piece
<1>2. PICK p \in Piece(medium, listed[k].offset, "local") : p.at + p.len <= Begin /\ Agrees(p, listed[k])
  BY DEF IInv, Headers, ListedThere
<1>3. p \in medium.disk /\ p.at = listed[k].offset /\ p.what.kind = "local"
  BY <1>2 DEF Piece
<1>4. p \in Piece(medium', listed[k].offset, "local")
  BY <1>2, <1>3 DEF Piece
<1>5. Begin \in Int /\ p.at + p.len \in Int
  <2>1. p.at \in Int /\ p.len \in Nat /\ medium.pos \in Int
    BY <1>3 DEF IInv, TypeOK, IsMedium
  <2>2. HeaderWritten => snap.offset \in Int
    BY DEF HeaderWritten, IInv, TypeOK, PcType, Busy, Snapshots
  <2> QED BY <2>1, <2>2 DEF Begin
<1>6. p.at + p.len <= Begin'
  BY <1>2, <1>5
<1> QED BY <1>2, <1>4, <1>6

LEMMA BeginBefore == ASSUME IInv, Clean PROVE Begin <= medium.pos /\ Begin \in Int
<1>1. medium.pos \in Int
  BY DEF IInv, TypeOK, IsMedium
<1>2. HeaderWritten => snap.offset \in Int /\ snap.offset <= medium.pos
  BY DEF HeaderWritten, IInv, TypeOK, PcType, Busy, Snapshots, Headers, CurrentThere
<1> QED BY <1>1, <1>2 DEF Begin

\* A file fails; what follows is spoiled only if something was written.
LEMMA FailedIInv ==
    ASSUME IInv, Busy, pc' = "next", at' = at + 1, errs' = errs \cup {at}, IsMedium(medium'), headerOffset' \in Int,
           CentralType', gaveUp' \in BOOLEAN, trouble \subseteq trouble', trouble' \subseteq {"dest", "stream", "spill"},
           UNCHANGED <<files, opts, snap, listed, finalErr>>,
           trouble' \cap {"dest", "stream"} = {} => UNCHANGED <<medium, headerOffset>>
    PROVE  IInv'
<1>1. at \in DOMAIN files /\ DOMAIN files = 1 .. Len(files) /\ Len(files) \in Nat
  BY FilesType DEF IInv, TypeOK, PcType
<1>2. TypeOK'
  <2>1. FixedType'
    BY DEF IInv, TypeOK, FixedType
  <2>2. PcType'
    BY <1>1 DEF PcType, Busy
  <2> QED BY <1>1, <2>1, <2>2 DEF IInv, TypeOK
<1>3. AllSound' <=> AllSound
  BY DEF AllSound
<1>4. Position'
  BY <1>3 DEF IInv, Position, Clean, Busy
<1>5. Headers'
  <2>1. SUFFICES ASSUME Clean' PROVE ListedThere' /\ CurrentThere'
    BY DEF Headers
  <2>2. Clean /\ medium' = medium
    BY <1>3, <2>1 DEF Clean
  <2>3. Begin' = medium.pos
    BY <2>2 DEF Begin, HeaderWritten
  <2>4. Begin <= medium.pos /\ medium.pos \in Int
    BY <2>2, BeginBefore DEF IInv, TypeOK, IsMedium
  <2>5. ListedThere'
    BY <2>2, <2>3, <2>4, ListedKept
  <2> QED BY <2>5 DEF CurrentThere, HeaderWritten
<1>6. Whole' /\ Settled' /\ Sizes'
  BY DEF Whole, Settled, Sizes, Busy
<1> QED BY <1>2, <1>4, <1>5, <1>6 DEF IInv

LEMMA FailIInv ==
    ASSUME IInv, Busy, NEW w \in SUBSET {"dest", "stream", "spill"}, Fail(w), IsMedium(medium'), UNCHANGED headerOffset,
           w \cap {"dest", "stream"} = {} => UNCHANGED medium
    PROVE  IInv'
<1>1. /\ pc' = "next" /\ at' = at + 1 /\ errs' = errs \cup {at} /\ trouble' = trouble \cup w
      /\ gaveUp' = (gaveUp \/ opts.parallel)
      /\ UNCHANGED <<files, opts, snap, centralDir, buffered, spilled, entriesNum, centralDirSize, listed, finalErr>>
  BY DEF Fail, NextFile, fixed, central
<1>2. headerOffset' \in Int /\ trouble' \subseteq {"dest", "stream", "spill"}
  BY <1>1 DEF IInv, TypeOK
<1>3. CentralType'
  BY <1>1 DEF IInv, TypeOK, CentralType
<1>4. gaveUp' \in BOOLEAN
  BY <1>1
<1>5. trouble' \cap {"dest", "stream"} = {} => UNCHANGED <<medium, headerOffset>>
  BY <1>1
<1>6. trouble \subseteq trouble' /\ UNCHANGED <<files, opts, snap, listed, finalErr>>
  BY <1>1
<1> QED BY <1>1, <1>2, <1>3, <1>4, <1>5, <1>6, FailedIInv

\* The context is cancelled.
LEMMA GiveUpIInv == ASSUME IInv, GiveUp PROVE IInv'
<1>1. /\ pc = "next" /\ gaveUp' = TRUE
      /\ UNCHANGED <<files, opts, pc, at, snap, medium, headerOffset, centralDir, buffered, spilled, entriesNum, centralDirSize,
                     listed, errs, finalErr, trouble>>
  BY DEF GiveUp, fixed, central
<1>2. TypeOK'
  BY <1>1 DEF IInv, TypeOK, FixedType, PcType, Busy, CentralType
<1>3. Position' /\ Settled' /\ Sizes'
  BY <1>1 DEF IInv, Position, Settled, Sizes, Busy, Clean, AllSound
<1>4. Headers'
  BY <1>1 DEF IInv, Headers, ListedThere, CurrentThere, HeaderWritten, Begin, Piece, Clean, AllSound
<1>5. Whole'
  BY <1>1 DEF Whole
<1> QED BY <1>2, <1>3, <1>4, <1>5 DEF IInv

\* What leaves the medium and the list as they are, and writes no header.
LEMMA NothingPut ==
    ASSUME IInv, UNCHANGED <<files, opts, at, medium, headerOffset, listed, errs, gaveUp, trouble>>,
           Busy \/ pc = "next", pc' # "end", pc' # "done", pc' # "flush", ~ HeaderWritten'
    PROVE  Position' /\ Headers' /\ Whole'
<1>1. AllSound' <=> AllSound
  BY DEF AllSound
<1>2. Position'
  BY <1>1 DEF IInv, Position, Clean, Busy
<1>3. Headers'
  <2>1. SUFFICES ASSUME Clean PROVE ListedThere' /\ CurrentThere'
    BY <1>1 DEF Headers, Clean
  <2>2. Begin' = medium.pos /\ medium.pos \in Int /\ IsMedium(medium')
    BY DEF Begin, IInv, TypeOK, IsMedium
  <2>3. ListedThere'
    BY <2>1, <2>2, BeginBefore, ListedKept
  <2> QED BY <2>3 DEF CurrentThere
<1>4. Whole'
  BY DEF IInv, Whole
<1> QED BY <1>2, <1>3, <1>4

\* A file is begun.
LEMMA StartFileIInv == ASSUME IInv, StartFile PROVE IInv'
<1> DEFINE s == Prepared(at)
           comp == IF s.method = Store THEN s.uncomp ELSE s.comp
<1>1. /\ pc = "next" /\ at <= Len(files)
      /\ UNCHANGED <<files, opts, at, medium, headerOffset, centralDir, buffered, spilled, entriesNum, centralDirSize,
                     listed, errs, finalErr, gaveUp, trouble>>
  BY DEF StartFile, fixed, central
<1>2. snap' = IF Way # "stream" THEN s ELSE [s EXCEPT !.dd = ~opts.seekable, !.comp = comp]
  BY DEF StartFile
<1>3. pc' = CASE Way \in {"directory", "stream"} -> "header"
               [] Way = "compressed" /\ snap'.uncomp = 0 -> "header"
               [] OTHER -> "encode"
  BY DEF StartFile
<1>4. FixedType /\ at \in DOMAIN files
  BY <1>1, FilesType DEF IInv, TypeOK, PcType
<1>5. /\ s \in Snapshots /\ s.of = at /\ s.isDir = File.isDir /\ s.implicit = File.implicit /\ s.dd = FALSE
      /\ s.uncomp = File.declared /\ s.comp = File.was
  BY <1>4, PreparedParts DEF File
<1>6. opts.seekable \in BOOLEAN /\ comp \in Int
  BY <1>4, <1>5, Constants DEF FixedType, Snapshots
<1>7. Way' = Way /\ Prepared(at)' = s /\ File' = File /\ Way \in {"directory", "compressed", "stream", "temp"}
  BY <1>1, SameFile, WayFacts
<1> HIDE DEF s, comp
<1>8. /\ snap' \in Snapshots /\ snap'.of = at /\ snap'.isDir = File.isDir /\ snap'.implicit = File.implicit
      /\ snap'.method = s.method /\ snap'.crypt = s.crypt /\ snap'.uncomp = File.declared
      /\ snap'.dd = (Way = "stream" /\ ~opts.seekable)
      /\ snap'.comp = IF Way = "stream" THEN comp ELSE File.was
  <2>1. CASE Way = "stream"
    BY <1>2, <1>5, <1>6, <2>1 DEF Snapshots
  <2>2. CASE Way # "stream"
    BY <1>2, <1>5, <2>2
  <2> QED BY <2>1, <2>2
<1>9. TypeOK'
  <2>1. PcType'
    BY <1>1, <1>3, <1>4, <1>8 DEF IInv, TypeOK, PcType, Busy
  <2> QED BY <1>1, <2>1 DEF IInv, TypeOK, FixedType, CentralType
<1>10. Settled'
  BY <1>1, <1>5, <1>7, <1>8 DEF Settled, s
<1>11. Sizes'
  <2>1. pc' = "encode" => Way \in {"compressed", "temp"}
    BY <1>3, <1>7
  <2>2. pc' \in {"encode", "header"} /\ (pc' = "header" => Way # "temp")
    BY <1>3, <1>7
  <2>3. Way = "stream" => snap'.comp = IF snap'.method = Store THEN File.declared ELSE File.was
    BY <1>5, <1>8 DEF comp
  <2> QED BY <1>7, <1>8, <2>1, <2>2, <2>3 DEF Sizes
<1>12. Position' /\ Headers' /\ Whole'
  <2>1. pc' \in {"encode", "header"}
    BY <1>3
  <2> QED BY <1>1, <2>1, NothingPut DEF HeaderWritten
<1> QED BY <1>9, <1>10, <1>11, <1>12 DEF IInv

\* The data is encoded beforehand, or the file fails.
LEMMA EncodeToBufferIInv == ASSUME IInv, EncodeToBuffer PROVE IInv'
<1>1. pc = "encode" /\ UNCHANGED <<medium, headerOffset>>
  BY DEF EncodeToBuffer
<1>2. /\ FixedType /\ at \in DOMAIN files /\ snap \in Snapshots /\ IsMedium(medium)
      /\ Way \in {"compressed", "temp"} /\ snap.comp = File.was
  BY <1>1 DEF IInv, TypeOK, PcType, Busy, Sizes
<1>3. CASE /\ snap' = Encoded /\ pc' = "header"
           /\ UNCHANGED <<fixed, at, central, errs, finalErr, gaveUp, trouble>>
  <2>1. UNCHANGED <<files, opts, at, centralDir, buffered, spilled, entriesNum, centralDirSize, listed, errs, finalErr, gaveUp, trouble>>
    BY <1>3 DEF fixed, central
  <2>2. /\ snap' \in Snapshots /\ snap'.of = snap.of /\ snap'.isDir = snap.isDir /\ snap'.implicit = snap.implicit
        /\ snap'.method = snap.method /\ snap'.crypt = snap.crypt /\ snap'.dd = snap.dd
        /\ snap'.comp = IF File.raw THEN snap.comp ELSE EncodedLength
    BY <1>2, <1>3, EncodedParts
  <2>3. Way' = Way /\ Prepared(at)' = Prepared(at) /\ File' = File /\ EncodedLength' = EncodedLength
    BY <2>1, <2>2, SameFile, SameLength
  <2>4. TypeOK'
    <3>1. PcType'
      BY <1>2, <1>3, <2>1, <2>2 DEF IInv, TypeOK, PcType, Busy
    <3> QED BY <1>1, <2>1, <3>1 DEF IInv, TypeOK, FixedType, CentralType
  <2>5. Settled'
    BY <1>1, <2>1, <2>2, <2>3 DEF IInv, Settled, Busy
  <2>6. Sizes'
    <3>1. File.raw => File.was = EncodedLength
      <4>1. File \in Sources
        BY <1>2, FilesType DEF File
      <4> QED BY <1>2, <4>1, SourceFacts, EncodedLengthType
    <3> QED BY <1>2, <1>3, <2>2, <2>3, <3>1 DEF Sizes
  <2>7. Position' /\ Headers' /\ Whole'
    BY <1>1, <1>3, <2>1, NothingPut DEF HeaderWritten, Busy
  <2> QED BY <2>4, <2>5, <2>6, <2>7 DEF IInv
<1>4. CASE Fail({})
  BY <1>1, <1>2, <1>4, FailIInv DEF Busy
<1> QED BY <1>3, <1>4 DEF EncodeToBuffer

\* The writer still knows where it is when it has written and counted n bytes.
LEMMA PutPosition ==
    ASSUME IInv, Busy, NEW w, NEW n \in Nat, medium' = Put(medium, w, n), UNCHANGED <<files, trouble>>,
           Clean => headerOffset' = headerOffset + n
    PROVE  Position'
<1>1. SUFFICES ASSUME Clean
               PROVE  /\ headerOffset' = medium'.pos /\ medium'.pos = medium'.end
                      /\ \A p \in medium'.disk : p.at + p.len <= medium'.end
  BY DEF Position, Clean, AllSound
<1>2. /\ headerOffset = medium.pos /\ medium.pos = medium.end
      /\ \A p \in medium.disk : p.at + p.len <= medium.end
  BY <1>1 DEF IInv, Position
<1>3. IsMedium(medium)
  BY DEF IInv, TypeOK
<1>4. /\ medium'.pos = medium.pos + n
      /\ medium'.end = IF medium.pos + n > medium.end THEN medium.pos + n ELSE medium.end
      /\ \A p \in medium'.disk : p \in medium.disk \/ p = [at |-> medium.pos, len |-> n, what |-> w]
  BY <1>3, PutParts
<1>5. medium.pos \in Int
  BY <1>3 DEF IsMedium
<1>6. medium'.end = medium.pos + n
  BY <1>2, <1>4, <1>5
<1>7. ASSUME NEW p \in medium'.disk PROVE p.at + p.len <= medium'.end
  <2>1. CASE p \in medium.disk
    <3>1. p.at \in Int /\ p.len \in Nat /\ p.at + p.len <= medium.pos
      BY <1>2, <1>3, <2>1 DEF IsMedium
    <3> QED BY <1>5, <1>6, <3>1
  <2>2. CASE p = [at |-> medium.pos, len |-> n, what |-> w]
    <3>1. p.at = medium.pos /\ p.len = n
      BY <2>2
    <3> QED BY <1>5, <1>6, <3>1
  <2> QED BY <1>4, <2>1, <2>2
<1> QED BY <1>1, <1>2, <1>4, <1>6, <1>7

\* The pieces written so far stay when bytes are put at the end.
LEMMA PutKeeps ==
    ASSUME IInv, Clean, NEW w, NEW n \in Nat, medium' = Put(medium, w, n), listed' = listed,
           Begin' \in Int, medium.pos <= Begin' \/ Begin' = Begin
    PROVE  ListedThere'
<1>1. IsMedium(medium) /\ medium.pos \in Int
  BY DEF IInv, TypeOK, IsMedium
<1>2. IsMedium(medium') /\ \A p \in medium.disk : p.at + p.len <= medium.pos => p \in medium'.disk
  BY <1>1, PutParts
<1>3. Begin \in Int /\ Begin <= medium.pos
  BY BeginBefore
<1>4. ASSUME NEW p \in medium.disk, p.at + p.len <= Begin PROVE p \in medium'.disk
  <2>1. p.at + p.len \in Int
    BY <1>1 DEF IsMedium
  <2> QED BY <1>1, <1>2, <1>3, <1>4, <2>1
<1>5. Begin <= Begin'
  BY <1>1, <1>3
<1> QED BY <1>2, <1>4, <1>5, ListedKept

LEMMA LocalParts ==
    ASSUME NEW s
    PROVE  /\ Local(s).kind = "local" /\ Local(s).of = s.of /\ Local(s).header = LocalHeader(s)
           /\ LocalHeader(s).method = CompressionMethod(s) /\ LocalHeader(s).flags = FileBitFlag(s)
           /\ LocalHeader(s).crc = s.crc /\ LocalHeader(s).uncomp = Field32(s.uncomp) /\ LocalHeader(s).comp = Field32(s.comp)
BY DEF Local, LocalHeader, SharedEntry

LEMMA CentralParts ==
    ASSUME NEW s
    PROVE  /\ CentralDirectory(s).method = CompressionMethod(s) /\ CentralDirectory(s).flags = FileBitFlag(s)
           /\ CentralDirectory(s).crc = s.crc /\ CentralDirectory(s).uncomp = Field32(s.uncomp)
           /\ CentralDirectory(s).comp = Field32(s.comp)
BY DEF CentralDirectory, SharedEntry

\* A header that was written with the last values agrees.
LEMMA LocalAgrees == ASSUME NEW s, NEW p, p.what = Local(s) PROVE Agrees(p, s)
BY LocalParts, CentralParts DEF Agrees

\* The local header is written, or left out for an implicit directory.
LEMMA HeaderIInv == ASSUME IInv, writeFileHeader PROVE IInv'
<1>1. /\ pc = "header" /\ FixedType /\ at \in DOMAIN files /\ snap \in Snapshots /\ IsMedium(medium)
      /\ headerOffset \in Int /\ medium.pos \in Int
  BY DEF writeFileHeader, IInv, TypeOK, PcType, Busy, IsMedium
<1>2. CASE Suppressed
  <2>1. /\ pc' = AfterHeader
        /\ UNCHANGED <<files, opts, at, snap, medium, headerOffset, centralDir, buffered, spilled, entriesNum, centralDirSize,
                       listed, errs, finalErr, gaveUp, trouble>>
    BY <1>2 DEF writeFileHeader, fixed, central
  <2>2. Way = "directory"
    <3>1. File \in Sources /\ File.implicit
      BY <1>1, <1>2, FilesType DEF File, Suppressed, IInv, Settled, Busy
    <3> QED BY <3>1, SourceFacts, WayFacts
  <2>3. pc' = "central" /\ Suppressed'
    BY <1>2, <2>1, <2>2 DEF AfterHeader, Suppressed
  <2>4. TypeOK'
    BY <1>1, <2>1, <2>3 DEF IInv, TypeOK, FixedType, PcType, Busy, CentralType
  <2>5. Settled'
    BY <1>1, <2>1, SameFile DEF IInv, Settled, Busy
  <2>6. Sizes'
    BY <2>3 DEF Sizes
  <2>7. Position' /\ Headers' /\ Whole'
    BY <1>1, <2>1, <2>3, NothingPut DEF HeaderWritten, Busy
  <2> QED BY <2>4, <2>5, <2>6, <2>7 DEF IInv
<1>3. CASE ~ Suppressed
  <2> DEFINE s == [snap EXCEPT !.offset = headerOffset]
             n == HeaderLength(LocalHeader(s))
  <2>1. n \in Nat /\ n > 0
    BY HeaderLengthType
  <2>2. /\ s \in Snapshots /\ s.of = snap.of /\ s.isDir = snap.isDir /\ s.implicit = snap.implicit
        /\ s.method = snap.method /\ s.crypt = snap.crypt /\ s.dd = snap.dd /\ s.offset = headerOffset
        /\ s.uncomp = snap.uncomp /\ s.comp = snap.comp
    BY <1>1 DEF Snapshots
  <2>3. \/ /\ snap' = s /\ pc' = AfterHeader
           /\ medium' = Put(medium, Local(s), n)
           /\ headerOffset' = headerOffset + n
           /\ UNCHANGED <<fixed, at, central, errs, finalErr, gaveUp, trouble>>
        \/ \E k \in 0 .. n - 1 : medium' = Put(medium, Garbage, k)
           /\ Fail({"dest"}) /\ UNCHANGED headerOffset
    BY <1>3 DEF writeFileHeader
  <2> HIDE DEF s, n
  <2>4. CASE /\ snap' = s /\ pc' = AfterHeader
             /\ medium' = Put(medium, Local(s), n)
             /\ headerOffset' = headerOffset + n
             /\ UNCHANGED <<fixed, at, central, errs, finalErr, gaveUp, trouble>>
    <3>1. UNCHANGED <<files, opts, at, centralDir, buffered, spilled, entriesNum, centralDirSize, listed, errs, finalErr, gaveUp, trouble>>
      BY <2>4 DEF fixed, central
    <3>2. Way' = Way /\ Prepared(at)' = Prepared(at) /\ File' = File /\ EncodedLength' = EncodedLength
      BY <2>2, <2>4, <3>1, SameFile, SameLength
    <3>3. pc' \in {"central", "body"} /\ (pc' = "body" => Way # "directory") /\ ~ Suppressed'
      BY <1>3, <2>2, <2>4, <3>1 DEF AfterHeader, Suppressed
    <3>4. /\ IsMedium(medium') /\ medium'.pos = medium.pos + n
          /\ \A p \in medium'.disk : p \in medium.disk \/ p = [at |-> medium.pos, len |-> n, what |-> Local(s)]
          /\ [at |-> medium.pos, len |-> n, what |-> Local(s)] \in medium'.disk
      BY <1>1, <2>1, <2>4, PutParts
    <3>5. TypeOK'
      <4>1. PcType'
        BY <1>1, <2>2, <2>4, <3>1, <3>3 DEF IInv, TypeOK, PcType, Busy
      <4>2. headerOffset' \in Int
        BY <1>1, <2>1, <2>4
      <4> QED BY <3>1, <3>4, <4>1, <4>2 DEF IInv, TypeOK, FixedType, CentralType
    <3>6. Settled'
      BY <1>1, <2>2, <2>4, <3>1, <3>2 DEF IInv, Settled, Busy
    <3>7. Sizes'
      BY <1>1, <2>2, <2>4, <3>2, <3>3 DEF IInv, Sizes
    <3>8. Position'
      BY <1>1, <2>1, <2>4, <3>1, PutPosition DEF Busy
    <3>9. Headers'
      <4>1. SUFFICES ASSUME Clean PROVE ListedThere' /\ CurrentThere'
        BY <3>1 DEF Headers, Clean, AllSound
      <4>2. medium.pos = headerOffset /\ \A p \in medium.disk : p.at + p.len <= medium.pos
        BY <1>1, <4>1 DEF IInv, Position, Clean, Busy
      <4>3. snap'.offset = medium.pos /\ HeaderWritten' /\ Begin' = medium.pos
        BY <2>2, <2>4, <3>3, <4>2 DEF HeaderWritten, Begin
      <4>4. ListedThere'
        BY <1>1, <2>1, <2>4, <3>1, <4>1, <4>3, PutKeeps
      <4>5. snap'.offset <= medium'.pos
        BY <1>1, <2>1, <3>4, <4>3
      <4> DEFINE q == [at |-> medium.pos, len |-> n, what |-> Local(s)]
      <4>6. q.at = medium.pos /\ q.what = Local(s) /\ q \in medium'.disk
        BY <3>4
      <4> HIDE DEF q
      <4>7. q \in Piece(medium', snap'.offset, "local") /\ Agrees(q, snap')
        <5>1. q.what.kind = "local"
          BY <4>6, LocalParts
        <5> QED BY <2>4, <4>3, <4>6, <5>1, LocalAgrees DEF Piece
      <4>8. ASSUME NEW p \in medium'.disk, p.at = snap'.offset PROVE p.what = Local(snap')
        <5>1. CASE p \in medium.disk
          <6>1. p.at \in Int /\ p.len \in Nat \ {0} /\ p.at + p.len <= medium.pos /\ p.at = medium.pos
            BY <1>1, <4>2, <4>3, <4>8, <5>1 DEF IsMedium
          <6> QED BY <6>1
        <5>2. CASE p = [at |-> medium.pos, len |-> n, what |-> Local(s)]
          BY <2>4, <5>2
        <5> QED BY <3>4, <5>1, <5>2
      <4> QED BY <3>3, <4>3, <4>4, <4>5, <4>7, <4>8 DEF CurrentThere
    <3>10. Whole'
      BY <3>1, <3>3 DEF IInv, Whole
    <3> QED BY <3>5, <3>6, <3>7, <3>8, <3>9, <3>10 DEF IInv
  <2>5. CASE \E k \in 0 .. n - 1 : medium' = Put(medium, Garbage, k) /\ Fail({"dest"}) /\ UNCHANGED headerOffset
    <3>1. PICK k \in 0 .. n - 1 : medium' = Put(medium, Garbage, k) /\ Fail({"dest"}) /\ UNCHANGED headerOffset
      BY <2>5
    <3>2. IsMedium(medium')
      <4>1. k \in Nat
        BY <2>1, <3>1
      <4> QED BY <1>1, <3>1, <4>1, PutParts
    <3> QED BY <1>1, <3>1, <3>2, FailIInv DEF Busy
  <2> QED BY <2>3, <2>4, <2>5
<1> QED BY <1>2, <1>3

\* What a stream counts is what it writes.
LEMMA StreamCounts ==
    ASSUME IInv, pc = "body", Way = "stream", Sound(File) PROVE Encoded.comp = EncodedLength
<1>1. FixedType /\ at \in DOMAIN files /\ snap \in Snapshots
  BY DEF IInv, TypeOK, PcType, Busy
<1>2. File \in Sources /\ File \in SourceFiles /\ ~ File.isDir /\ File.crypt = NotEncrypted
  BY <1>1, FilesType, WayFacts DEF File
<1>3. Encoded.comp = (IF File.raw THEN snap.comp ELSE EncodedLength)
  BY <1>1, EncodedParts
<1>4. ASSUME File.raw PROVE snap.comp = EncodedLength
  <2>1. snap.comp = (IF snap.method = Store THEN File.declared ELSE File.was)
    BY DEF IInv, Sizes
  <2>2. /\ EncodedLength = File.bytes /\ File.declared = File.data /\ File.was = File.bytes
        /\ File.method = Store => File.bytes = File.data
    BY <1>1, <1>2, <1>4, SourceFacts, EncodedLengthType
  <2>3. CASE File.declared = 0
    <3>1. snap.method = Store
      BY <1>1, <2>3, PreparedParts DEF IInv, Settled, Busy, File
    <3>2. ~ (File.was > 0) /\ File.was \in Nat
      BY <1>2, <2>2, <2>3, Fields DEF Sound, EncodedEmpty
    <3>3. File.was = 0
      BY <3>2
    <3> QED BY <2>1, <2>2, <2>3, <3>1, <3>3
  <2>4. CASE File.declared # 0
    <3>1. snap.method = File.method
      BY <1>1, <2>4, PreparedParts DEF IInv, Settled, Busy, File
    <3> QED BY <2>1, <2>2, <3>1
  <2> QED BY <2>3, <2>4
<1> QED BY <1>3, <1>4

\* The header of a stream tells the method, whatever the source has given.
LEMMA StreamMethod ==
    ASSUME IInv, pc = "body", Way = "stream", Sound(File), ~ SourceFails
    PROVE  CompressionMethod(Encoded) = CompressionMethod(snap)
<1>1. FixedType /\ at \in DOMAIN files /\ snap \in Snapshots
  BY DEF IInv, TypeOK, PcType, Busy
<1>2. File \in Sources /\ File \in SourceFiles /\ ~ File.isDir /\ File.crypt = NotEncrypted
  BY <1>1, FilesType, WayFacts DEF File
<1>3. /\ Encoded.uncomp = (IF File.raw THEN snap.uncomp ELSE File.data)
      /\ Encoded.crypt = snap.crypt /\ Encoded.method = snap.method
  BY <1>1, EncodedParts
<1>4. snap.crypt = NotEncrypted /\ snap.uncomp = File.declared
      /\ (File.declared # 0 => snap.method = File.method)
  BY <1>1, <1>2, PreparedParts DEF IInv, Settled, Sizes, Busy, File
<1>5. CASE File.raw \/ snap.uncomp = File.data
  BY <1>3, <1>5 DEF CompressionMethod
<1>6. CASE ~ File.raw /\ snap.uncomp # File.data
  <2>1. File.declared = Unknown
    BY <1>4, <1>6 DEF SourceFails, SizeMismatch
  <2>2. File.data = 0 => snap.method = Store
    <3>1. File.data = 0 => ~ (File.bytes > 0)
      BY <1>2, <2>1 DEF Sound, EncodedEmpty
    <3> QED BY <1>2, <1>4, <1>6, <2>1, <3>1, SourceFacts DEF Unknown
  <2>3. snap.crypt # AES256
    BY <1>4 DEF NotEncrypted, AES256
  <2>4. snap.uncomp # 0
    BY <1>4, <2>1 DEF Unknown
  <2> QED BY <1>3, <1>6, <2>2, <2>3, <2>4 DEF CompressionMethod
<1> QED BY <1>5, <1>6

\* A piece of the header being written lies before the end.
LEMMA CurrentBefore ==
    ASSUME IInv, Clean, HeaderWritten, NEW p \in medium.disk, p.at = snap.offset
    PROVE  snap.offset < medium.pos /\ p.at + p.len <= medium.pos
<1>1. p.at \in Int /\ p.len \in Nat \ {0} /\ medium.pos \in Int
  BY DEF IInv, TypeOK, IsMedium
<1>2. medium.pos = medium.end /\ p.at + p.len <= medium.end
  BY DEF IInv, Position, Busy, HeaderWritten
<1> QED BY <1>1, <1>2

\* The data is encoded into the destination.
LEMMA EncodeToDestIInv == ASSUME IInv, EncodeToDest PROVE IInv'
<1> DEFINE n == EncodedLength
<1>1. /\ pc = "body" /\ FixedType /\ at \in DOMAIN files /\ snap \in Snapshots /\ IsMedium(medium)
      /\ headerOffset \in Int /\ medium.pos \in Int /\ Way = "stream"
  BY DEF EncodeToDest, IInv, TypeOK, PcType, Busy, IsMedium
<1>2. n \in Nat
  BY <1>1, EncodedLengthType
<1>3. CASE \/ /\ SourceFails
              /\ \E k \in (IF File.breaks THEN 0 ELSE n) .. n : medium' = Put(medium, Garbage, k)
              /\ Fail({"stream"}) /\ UNCHANGED headerOffset
           \/ /\ ~SourceFails
              /\ \E k \in 0 .. n - 1 : medium' = Put(medium, Garbage, k)
              /\ Fail({"dest"}) /\ UNCHANGED headerOffset
  <2> HIDE DEF n
  <2>1. \E k \in Nat : medium' = Put(medium, Garbage, k)
    <3>1. CASE \E k \in (IF File.breaks THEN 0 ELSE n) .. n : medium' = Put(medium, Garbage, k)
      <4>1. PICK k \in (IF File.breaks THEN 0 ELSE n) .. n : medium' = Put(medium, Garbage, k)
        BY <3>1
      <4>2. k \in Nat
        BY <1>2, <4>1
      <4> QED BY <4>1, <4>2
    <3>2. CASE \E k \in 0 .. n - 1 : medium' = Put(medium, Garbage, k)
      <4>1. PICK k \in 0 .. n - 1 : medium' = Put(medium, Garbage, k)
        BY <3>2
      <4>2. k \in Nat
        BY <1>2, <4>1
      <4> QED BY <4>1, <4>2
    <3> QED BY <1>3, <3>1, <3>2
  <2>2. IsMedium(medium')
    <3>1. PICK k \in Nat : medium' = Put(medium, Garbage, k)
      BY <2>1
    <3> QED BY <1>1, <3>1, PutParts
  <2>3. CASE Fail({"stream"}) /\ UNCHANGED headerOffset
    BY <1>1, <2>2, <2>3, FailIInv DEF Busy
  <2>4. CASE Fail({"dest"}) /\ UNCHANGED headerOffset
    BY <1>1, <2>2, <2>4, FailIInv DEF Busy
  <2> QED BY <1>3, <2>3, <2>4
<1>4. CASE /\ ~SourceFails
           /\ snap' = Encoded
           /\ medium' = Put(medium, Body, n)
           /\ headerOffset' = headerOffset + snap'.comp
           /\ pc' = "tail"
           /\ UNCHANGED <<fixed, at, central, errs, finalErr, gaveUp, trouble>>
  <2> HIDE DEF n
  <2>1. UNCHANGED <<files, opts, at, centralDir, buffered, spilled, entriesNum, centralDirSize, listed, errs, finalErr, gaveUp, trouble>>
    BY <1>4 DEF fixed, central
  <2>2. /\ snap' \in Snapshots /\ snap'.of = snap.of /\ snap'.isDir = snap.isDir /\ snap'.implicit = snap.implicit
        /\ snap'.method = snap.method /\ snap'.crypt = snap.crypt /\ snap'.dd = snap.dd /\ snap'.offset = snap.offset
    BY <1>1, <1>4, EncodedParts
  <2>3. Way' = Way /\ Prepared(at)' = Prepared(at) /\ File' = File
    BY <2>1, SameFile
  <2>4. IsMedium(medium') /\ medium'.pos = medium.pos + n
        /\ (\A p \in medium.disk : p.at + p.len <= medium.pos => p \in medium'.disk)
        /\ \A p \in medium'.disk : p \in medium.disk \/ p = [at |-> medium.pos, len |-> n, what |-> Body]
    BY <1>1, <1>2, <1>4, PutParts
  <2>5. TypeOK'
    <3>1. PcType'
      BY <1>1, <1>4, <2>1, <2>2 DEF IInv, TypeOK, PcType, Busy
    <3>2. headerOffset' \in Int
      <4>1. snap'.comp \in Int
        BY <2>2 DEF Snapshots
      <4> QED BY <1>1, <1>4, <4>1
    <3> QED BY <2>1, <2>4, <3>1, <3>2 DEF IInv, TypeOK, FixedType, CentralType
  <2>6. Settled' /\ Sizes'
    BY <1>1, <1>4, <2>1, <2>2, <2>3 DEF IInv, Settled, Sizes, Busy
  <2>7. Position'
    <3>1. AllSound => snap'.comp = n
      BY <1>1, <1>4, StreamCounts DEF Clean, AllSound, File, n
    <3> QED BY <1>1, <1>2, <1>4, <2>1, <3>1, PutPosition DEF Busy, Clean
  <2>8. Headers'
    <3>1. SUFFICES ASSUME Clean PROVE ListedThere' /\ CurrentThere'
      BY <2>1 DEF Headers, Clean, AllSound
    <3>2. HeaderWritten' <=> HeaderWritten
      BY <1>1, <1>4, <2>1, <2>2 DEF HeaderWritten, Suppressed
    <3>3. ListedThere'
      <4>1. Begin \in Int
        BY <3>1, BeginBefore
      <4>2. Begin' = Begin \/ Begin' = medium'.pos
        BY <2>2, <3>2 DEF Begin
      <4>3. medium.pos <= medium'.pos /\ medium'.pos \in Int
        BY <1>1, <1>2, <2>4
      <4> QED BY <1>1, <1>2, <1>4, <2>1, <3>1, <4>1, <4>2, <4>3, PutKeeps
    <3>4. ASSUME HeaderWritten PROVE CurrentThere'
      <4>1. /\ snap.offset <= medium.pos /\ \A p \in medium.disk : p.at = snap.offset => p.what = Local(snap)
        BY <1>1, <3>1, <3>4 DEF IInv, Headers, CurrentThere
      <4>2. PICK q \in Piece(medium, snap.offset, "local") : TRUE
        BY <1>1, <3>1, <3>4 DEF IInv, Headers, CurrentThere
      <4>3. q \in medium.disk /\ q.at = snap.offset /\ q.what.kind = "local"
        BY <4>2 DEF Piece
      <4>4. snap.offset < medium.pos /\ q.at + q.len <= medium.pos
        BY <3>1, <3>4, <4>3, CurrentBefore
      <4>5. q \in Piece(medium', snap'.offset, "local")
        BY <2>2, <2>4, <4>3, <4>4 DEF Piece
      <4>6. ASSUME NEW p \in medium'.disk, p.at = snap.offset PROVE Tells(p, snap')
        <5>1. p \in medium.disk
          <6>1. snap.offset \in Int
            BY <1>1 DEF Snapshots
          <6>2. snap.offset # medium.pos
            BY <1>1, <4>4, <6>1
          <6> QED BY <2>4, <4>6, <6>2
        <5>2. p.what = Local(snap)
          BY <4>1, <4>6, <5>1
        <5>3. CompressionMethod(snap) = CompressionMethod(snap')
          BY <1>1, <1>4, <3>1, StreamMethod DEF Clean, AllSound, File
        <5>4. FileBitFlag(snap) = FileBitFlag(snap')
          BY <2>2 DEF FileBitFlag
        <5> QED BY <1>1, <2>2, <5>2, <5>3, <5>4 DEF Tells
      <4>7. snap'.offset <= medium'.pos
        <5>1. snap.offset \in Int
          BY <1>1 DEF Snapshots
        <5> QED BY <1>1, <1>2, <2>2, <2>4, <4>1, <5>1
      <4> QED BY <1>4, <2>2, <4>5, <4>6, <4>7 DEF CurrentThere
    <3> QED BY <3>2, <3>3, <3>4 DEF CurrentThere
  <2>9. Whole'
    BY <1>1, <1>4, <2>1 DEF IInv, Whole
  <2> QED BY <2>5, <2>6, <2>7, <2>8, <2>9 DEF IInv
<1> QED BY <1>3, <1>4 DEF EncodeToDest

\* A header stays when something is put behind it.
LEMMA CurrentKept ==
    ASSUME IInv, Clean, HeaderWritten, NEW w, NEW n \in Nat, medium' = Put(medium, w, n),
           NEW q \in Piece(medium, snap.offset, "local")
    PROVE  q \in Piece(medium', snap.offset, "local")
<1>1. q \in medium.disk /\ q.at = snap.offset /\ q.what.kind = "local"
  BY DEF Piece
<1>2. q.at + q.len <= medium.pos
  BY <1>1, CurrentBefore
<1>3. q \in medium'.disk
  BY <1>1, <1>2, PutParts DEF IInv, TypeOK
<1> QED BY <1>1, <1>3 DEF Piece

\* The data is copied.
LEMMA CopyToDestIInv == ASSUME IInv, CopyToDest PROVE IInv'
<1> DEFINE n == EncodedLength
<1>1. /\ pc = "body" /\ FixedType /\ at \in DOMAIN files /\ snap \in Snapshots /\ IsMedium(medium)
      /\ headerOffset \in Int /\ medium.pos \in Int /\ Way # "stream"
  BY DEF CopyToDest, IInv, TypeOK, PcType, Busy, IsMedium
<1>2. n \in Nat /\ (Way = "temp" => snap.comp = n)
  BY <1>1, EncodedLengthType DEF IInv, Sizes
<1> HIDE DEF n
<1>3. CASE /\ \E k \in 0 .. n - 1 : medium' = Put(medium, Garbage, k)
           /\ Fail({"dest"}) /\ UNCHANGED headerOffset
  <2>1. PICK k \in 0 .. n - 1 : medium' = Put(medium, Garbage, k)
    BY <1>3
  <2>2. IsMedium(medium')
    <3>1. k \in Nat
      BY <1>2, <2>1
    <3> QED BY <1>1, <2>1, <3>1, PutParts
  <2> QED BY <1>1, <1>3, <2>2, FailIInv DEF Busy
<1>4. CASE /\ medium' = Put(medium, Body, n)
           /\ headerOffset' = headerOffset + (IF Way = "temp" THEN snap.comp ELSE n)
           /\ pc' = "central"
           /\ UNCHANGED <<fixed, at, snap, central, errs, finalErr, gaveUp, trouble>>
  <2>1. /\ UNCHANGED <<files, opts, at, snap, centralDir, buffered, spilled, entriesNum, centralDirSize, listed, errs, finalErr,
                       gaveUp, trouble>>
        /\ headerOffset' = headerOffset + n
    BY <1>2, <1>4 DEF fixed, central
  <2>2. IsMedium(medium') /\ medium'.pos = medium.pos + n
    BY <1>1, <1>2, <1>4, PutParts
  <2>3. TypeOK'
    <3>1. PcType'
      BY <1>1, <1>4, <2>1 DEF IInv, TypeOK, PcType, Busy
    <3>2. headerOffset' \in Int
      BY <1>1, <1>2, <2>1
    <3> QED BY <2>1, <2>2, <3>1, <3>2 DEF IInv, TypeOK, FixedType, CentralType
  <2>4. Settled' /\ Sizes'
    BY <1>1, <1>4, <2>1, SameFile DEF IInv, Settled, Sizes, Busy
  <2>5. Position'
    BY <1>1, <1>2, <1>4, <2>1, PutPosition DEF Busy
  <2>6. Headers'
    <3>1. SUFFICES ASSUME Clean PROVE ListedThere' /\ CurrentThere'
      BY <2>1 DEF Headers, Clean, AllSound
    <3>2. HeaderWritten' <=> HeaderWritten
      BY <1>1, <1>4, <2>1 DEF HeaderWritten, Suppressed
    <3>3. ListedThere'
      <4>1. Begin \in Int
        BY <3>1, BeginBefore
      <4>2. Begin' = Begin \/ Begin' = medium'.pos
        BY <2>1, <3>2 DEF Begin
      <4>3. medium.pos <= medium'.pos /\ medium'.pos \in Int
        BY <1>1, <1>2, <2>2
      <4> QED BY <1>1, <1>2, <1>4, <2>1, <3>1, <4>1, <4>2, <4>3, PutKeeps
    <3>4. ASSUME HeaderWritten PROVE CurrentThere'
      <4>1. /\ snap.offset <= medium.pos /\ \A p \in medium.disk : p.at = snap.offset => p.what = Local(snap)
        BY <1>1, <3>1, <3>4 DEF IInv, Headers, CurrentThere
      <4>2. PICK q \in Piece(medium, snap.offset, "local") : TRUE
        BY <1>1, <3>1, <3>4 DEF IInv, Headers, CurrentThere
      <4>3. q \in Piece(medium', snap'.offset, "local") /\ Agrees(q, snap')
        <5>1. q \in Piece(medium', snap.offset, "local")
          BY <1>2, <1>4, <3>1, <3>4, CurrentKept
        <5>2. Agrees(q, snap)
          BY <4>1, LocalAgrees DEF Piece
        <5> QED BY <2>1, <5>1, <5>2
      <4>4. snap'.offset <= medium'.pos
        <5>1. snap.offset \in Int
          BY <1>1 DEF Snapshots
        <5> QED BY <1>1, <1>2, <2>1, <2>2, <4>1, <5>1
      <4> QED BY <1>4, <4>3, <4>4 DEF CurrentThere
    <3> QED BY <3>2, <3>3, <3>4 DEF CurrentThere
  <2>7. Whole'
    BY <1>1, <1>4, <2>1 DEF IInv, Whole
  <2> QED BY <2>3, <2>4, <2>5, <2>6, <2>7 DEF IInv
<1> QED BY <1>3, <1>4 DEF CopyToDest, n

\* The data descriptor follows a stream that cannot be patched.
LEMMA DescriptorIInv == ASSUME IInv, WriteDataDescriptor PROVE IInv'
<1> DEFINE w == [kind |-> "descriptor", of |-> at]
<1>1. /\ pc = "tail" /\ FixedType /\ at \in DOMAIN files /\ snap \in Snapshots /\ IsMedium(medium)
      /\ headerOffset \in Int /\ medium.pos \in Int /\ Way = "stream" /\ snap.dd
  BY DEF WriteDataDescriptor, IInv, TypeOK, PcType, Busy, IsMedium, Settled, Sizes
<1> HIDE DEF w
<1>2. CASE Fail({"dest"}) /\ UNCHANGED <<medium, headerOffset>>
  BY <1>1, <1>2, FailIInv DEF Busy
<1>3. CASE /\ medium' = Put(medium, w, 1)
           /\ headerOffset' = headerOffset + 1 /\ pc' = "central"
           /\ UNCHANGED <<fixed, at, snap, central, errs, finalErr, gaveUp, trouble>>
  <2>1. UNCHANGED <<files, opts, at, snap, centralDir, buffered, spilled, entriesNum, centralDirSize, listed, errs, finalErr,
                    gaveUp, trouble>>
    BY <1>3 DEF fixed, central
  <2>2. IsMedium(medium') /\ medium'.pos = medium.pos + 1
    <3>1. 1 \in Nat
      OBVIOUS
    <3>2. medium' = Put(medium, w, 1) /\ IsMedium(medium)
      BY <1>1, <1>3
    <3>3. IsMedium(medium')
      BY <3>1, <3>2, PutParts
    <3>4. medium'.pos = medium.pos + 1
      BY <3>1, <3>2, PutPos
    <3> QED BY <3>3, <3>4
  <2>3. TypeOK'
    <3>1. PcType'
      BY <1>1, <1>3, <2>1 DEF IInv, TypeOK, PcType, Busy
    <3>2. headerOffset' \in Int
      BY <1>1, <1>3
    <3> QED BY <2>1, <2>2, <3>1, <3>2 DEF IInv, TypeOK, FixedType, CentralType
  <2>4. Settled' /\ Sizes'
    BY <1>1, <1>3, <2>1, SameFile DEF IInv, Settled, Sizes, Busy
  <2>5. Position'
    BY <1>1, <1>3, <2>1, PutPosition DEF Busy
  <2>6. Headers'
    <3>1. SUFFICES ASSUME Clean PROVE ListedThere' /\ CurrentThere'
      BY <2>1 DEF Headers, Clean, AllSound
    <3>2. HeaderWritten' <=> HeaderWritten
      BY <1>1, <1>3, <2>1 DEF HeaderWritten, Suppressed
    <3>3. ListedThere'
      <4>1. Begin \in Int
        BY <3>1, BeginBefore
      <4>2. Begin' = Begin \/ Begin' = medium'.pos
        BY <2>1, <3>2 DEF Begin
      <4>3. medium.pos <= medium'.pos /\ medium'.pos \in Int
        BY <1>1, <2>2
      <4> QED BY <1>1, <1>3, <2>1, <3>1, <4>1, <4>2, <4>3, PutKeeps
    <3>4. ASSUME HeaderWritten PROVE CurrentThere'
      <4>1. /\ snap.offset <= medium.pos /\ \A p \in medium.disk : p.at = snap.offset => Tells(p, snap)
        BY <1>1, <3>1, <3>4 DEF IInv, Headers, CurrentThere
      <4>2. PICK q \in Piece(medium, snap.offset, "local") : TRUE
        BY <1>1, <3>1, <3>4 DEF IInv, Headers, CurrentThere
      <4>3. q \in Piece(medium', snap'.offset, "local") /\ Agrees(q, snap')
        <5>1. q \in Piece(medium', snap.offset, "local")
          BY <1>3, <3>1, <3>4, CurrentKept
        <5>2. Tells(q, snap)
          BY <4>1 DEF Piece
        <5>3. Agrees(q, snap)
          BY <1>1, <5>2, LocalParts, CentralParts DEF Agrees, Tells
        <5> QED BY <2>1, <5>1, <5>3
      <4>4. snap'.offset <= medium'.pos
        <5>1. snap.offset \in Int
          BY <1>1 DEF Snapshots
        <5> QED BY <1>1, <2>1, <2>2, <4>1, <5>1
      <4> QED BY <1>3, <4>3, <4>4 DEF CurrentThere
    <3> QED BY <3>2, <3>3, <3>4 DEF CurrentThere
  <2>7. Whole'
    BY <1>1, <1>3, <2>1 DEF IInv, Whole
  <2> QED BY <2>3, <2>4, <2>5, <2>6, <2>7 DEF IInv
<1> QED BY <1>2, <1>3 DEF WriteDataDescriptor, w

\* What the patch of a header does.
LEMMA PatchedParts ==
    ASSUME IsMedium(medium), snap.offset \in Int
    PROVE  \E w : \E n \in Nat \ {0} :
             /\ \/ Piece(medium, snap.offset, "local") = {} /\ n = 1
                \/ \E old \in Piece(medium, snap.offset, "local") :
                     /\ n = old.len
                     /\ w = [old.what EXCEPT !.header = [@ EXCEPT !.crc = snap.crc,
                               !.comp = snap.comp % (Limit + 1), !.uncomp = snap.uncomp % (Limit + 1)]]
             /\ IsMedium(Patched(medium)) /\ Patched(medium).pos = medium.end
             /\ Patched(medium).end = IF snap.offset + n > medium.end THEN snap.offset + n ELSE medium.end
             /\ \A p \in medium.disk : p.at + p.len <= snap.offset => p \in Patched(medium).disk
             /\ \A p \in Patched(medium).disk : p \in medium.disk \/ p = [at |-> snap.offset, len |-> n, what |-> w]
             /\ [at |-> snap.offset, len |-> n, what |-> w] \in Patched(medium).disk
<1> DEFINE back == [medium EXCEPT !.pos = snap.offset]
           here == {p \in medium.disk : p.at = snap.offset /\ p.what.kind = "local"}
           new(what) == [what EXCEPT !.header = [@ EXCEPT !.crc = snap.crc,
                           !.comp = snap.comp % (Limit + 1), !.uncomp = snap.uncomp % (Limit + 1)]]
           old == CHOOSE p \in here : TRUE
           Goal(w, n) == 
             /\ IsMedium(Patched(medium)) /\ Patched(medium).pos = medium.end
             /\ Patched(medium).end = IF snap.offset + n > medium.end THEN snap.offset + n ELSE medium.end
             /\ \A p \in medium.disk : p.at + p.len <= snap.offset => p \in Patched(medium).disk
             /\ \A p \in Patched(medium).disk : p \in medium.disk \/ p = [at |-> snap.offset, len |-> n, what |-> w]
             /\ [at |-> snap.offset, len |-> n, what |-> w] \in Patched(medium).disk
<1>1. IsMedium(back) /\ back.pos = snap.offset /\ back.disk = medium.disk /\ back.end = medium.end
  BY DEF IsMedium
<1>2. Patched(medium) = IF here = {} THEN [Put(back, Garbage, 1) EXCEPT !.pos = medium.end]
                        ELSE [Put(back, new(old.what), old.len) EXCEPT !.pos = medium.end]
  BY DEF Patched
<1>3. here = Piece(medium, snap.offset, "local")
  BY DEF Piece
<1>4. here # {} => old \in here
  OBVIOUS
<1>5. medium.end \in Int
  BY DEF IsMedium
<1>6. ASSUME NEW w, NEW n \in Nat \ {0}, Patched(medium) = [Put(back, w, n) EXCEPT !.pos = medium.end]
      PROVE  Goal(w, n)
  <2> DEFINE m == Put(back, w, n)
  <2> HIDE DEF back
  <2>1. n \in Nat /\ n > 0
    OBVIOUS
  <2>2. /\ IsMedium(m)
        /\ m.end = IF snap.offset + n > medium.end THEN snap.offset + n ELSE medium.end
        /\ \A p \in medium.disk : p.at + p.len <= snap.offset => p \in m.disk
        /\ \A p \in m.disk : p \in medium.disk \/ p = [at |-> snap.offset, len |-> n, what |-> w]
        /\ [at |-> snap.offset, len |-> n, what |-> w] \in m.disk
    BY <1>1, <2>1, PutParts
  <2>3. Patched(medium) = [m EXCEPT !.pos = medium.end]
    BY <1>6
  <2> HIDE DEF m
  <2>4. /\ Patched(medium).pos = medium.end /\ Patched(medium).disk = m.disk /\ Patched(medium).end = m.end
        /\ DOMAIN Patched(medium) = DOMAIN m
    BY <2>2, <2>3 DEF IsMedium
  <2>5. IsMedium(Patched(medium))
    BY <1>5, <2>2, <2>4 DEF IsMedium
  <2> QED BY <2>2, <2>4, <2>5
<1>7. CASE here = {}
  <2>1. 1 \in Nat \ {0}
    OBVIOUS
  <2>2. Goal(Garbage, 1)
    <3> HIDE DEF Goal, back
    <3> QED BY <1>2, <1>6, <1>7, <2>1
  <2> HIDE DEF here
  <2> WITNESS Garbage
  <2> WITNESS 1 \in Nat \ {0}
  <2> QED BY <1>3, <1>7, <2>2
<1>8. CASE here # {}
  <2>1. old \in here /\ old.len \in Nat \ {0}
    BY <1>4, <1>8 DEF IsMedium
  <2> HIDE DEF here, old, back
  <2>2. Goal(new(old.what), old.len)
    <3> HIDE DEF Goal, new
    <3> QED BY <1>2, <1>6, <1>8, <2>1
  <2> old.len \in Nat \ {0}
    BY <2>1
  <2> WITNESS new(old.what)
  <2> WITNESS old.len \in Nat \ {0}
  <2> QED BY <1>3, <2>1, <2>2
<1> QED BY <1>7, <1>8

\* A header that is patched agrees.
LEMMA PatchedAgrees ==
    ASSUME IInv, snap \in Snapshots, ~ (snap.comp > Limit \/ snap.uncomp > Limit), NEW old, NEW p, Tells(old, snap),
           p.what = [old.what EXCEPT !.header = [@ EXCEPT !.crc = snap.crc,
                       !.comp = snap.comp % (Limit + 1), !.uncomp = snap.uncomp % (Limit + 1)]]
    PROVE  p.what.kind = "local" /\ Agrees(p, snap)
<1> DEFINE comp == snap.comp % (Limit + 1)
           uncomp == snap.uncomp % (Limit + 1)
<1>1. Field32(snap.comp) = comp /\ Field32(snap.uncomp) = uncomp
  <2>1. snap.comp \in Int /\ snap.uncomp \in Int /\ Limit \in Nat
    BY Constants DEF Snapshots
  <2>2. SmallerOf(Limit, snap.comp) = snap.comp /\ SmallerOf(Limit, snap.uncomp) = snap.uncomp
    <3>1. ASSUME NEW v \in Int, ~ (v > Limit) PROVE SmallerOf(Limit, v) = v
      BY <2>1, <3>1 DEF SmallerOf
    <3> QED BY <2>1, <3>1
  <2> QED BY <2>2 DEF Field32
<1> HIDE DEF comp, uncomp
<1>2. PICK t \in Snapshots : /\ t.of = snap.of /\ old.what = Local(t)
                             /\ CompressionMethod(t) = CompressionMethod(snap) /\ FileBitFlag(t) = FileBitFlag(snap)
  BY DEF Tells
<1> DEFINE h == LocalHeader(t)
           g == [h EXCEPT !.crc = snap.crc, !.comp = comp, !.uncomp = uncomp]
<1>3. g.method = CompressionMethod(snap) /\ g.flags = FileBitFlag(snap) /\ g.crc = snap.crc /\ g.comp = comp /\ g.uncomp = uncomp
  BY <1>2 DEF LocalHeader, SharedEntry
<1> HIDE DEF h, g
<1>4. old.what = [kind |-> "local", of |-> snap.of, header |-> h]
  BY <1>2 DEF Local, h
<1>5. p.what = [kind |-> "local", of |-> snap.of, header |-> g]
  <2>1. p.what = [old.what EXCEPT !.header = [@ EXCEPT !.crc = snap.crc, !.comp = comp, !.uncomp = uncomp]]
    BY DEF comp, uncomp
  <2> QED BY <1>4, <2>1 DEF g
<1>6. p.what.kind = "local" /\ p.what.of = snap.of /\ p.what.header = g
  BY <1>5
<1> QED BY <1>1, <1>3, <1>6, CentralParts DEF Agrees

\* A header is patched.
LEMMA PatchHeaderIInv == ASSUME IInv, PatchHeader PROVE IInv'
<1>1. /\ pc = "tail" /\ FixedType /\ at \in DOMAIN files /\ snap \in Snapshots /\ IsMedium(medium)
      /\ headerOffset \in Int /\ medium.pos \in Int /\ medium.end \in Int /\ Way = "stream" /\ snap.offset \in Int
  BY DEF PatchHeader, IInv, TypeOK, PcType, Busy, IsMedium, Sizes, Snapshots
<1>2. CASE Fail({}) /\ UNCHANGED <<medium, headerOffset>>
  BY <1>1, <1>2, FailIInv DEF Busy
<1>3. CASE medium' = [medium EXCEPT !.pos = snap.offset] /\ Fail({"dest"}) /\ UNCHANGED headerOffset
  <2>1. IsMedium(medium')
    BY <1>1, <1>3 DEF IsMedium
  <2> QED BY <1>1, <1>3, <2>1, FailIInv DEF Busy
<1>4. CASE /\ ~(snap.comp > Limit \/ snap.uncomp > Limit)
           /\ medium' = Patched(medium) /\ pc' = "central"
           /\ UNCHANGED <<fixed, at, snap, headerOffset, central, errs, finalErr, gaveUp, trouble>>
  <2>1. UNCHANGED <<files, opts, at, snap, headerOffset, centralDir, buffered, spilled, entriesNum, centralDirSize, listed,
                    errs, finalErr, gaveUp, trouble>>
    BY <1>4 DEF fixed, central
  <2>2. PICK w : \E n \in Nat \ {0} :
             /\ \/ Piece(medium, snap.offset, "local") = {} /\ n = 1
                \/ \E old \in Piece(medium, snap.offset, "local") :
                     /\ n = old.len
                     /\ w = [old.what EXCEPT !.header = [@ EXCEPT !.crc = snap.crc,
                               !.comp = snap.comp % (Limit + 1), !.uncomp = snap.uncomp % (Limit + 1)]]
             /\ IsMedium(medium') /\ medium'.pos = medium.end
             /\ medium'.end = IF snap.offset + n > medium.end THEN snap.offset + n ELSE medium.end
             /\ \A p \in medium.disk : p.at + p.len <= snap.offset => p \in medium'.disk
             /\ \A p \in medium'.disk : p \in medium.disk \/ p = [at |-> snap.offset, len |-> n, what |-> w]
             /\ [at |-> snap.offset, len |-> n, what |-> w] \in medium'.disk
    BY <1>1, <1>4, PatchedParts
  <2>3. PICK n \in Nat \ {0} :
             /\ \/ Piece(medium, snap.offset, "local") = {} /\ n = 1
                \/ \E old \in Piece(medium, snap.offset, "local") :
                     /\ n = old.len
                     /\ w = [old.what EXCEPT !.header = [@ EXCEPT !.crc = snap.crc,
                               !.comp = snap.comp % (Limit + 1), !.uncomp = snap.uncomp % (Limit + 1)]]
             /\ IsMedium(medium') /\ medium'.pos = medium.end
             /\ medium'.end = IF snap.offset + n > medium.end THEN snap.offset + n ELSE medium.end
             /\ \A p \in medium.disk : p.at + p.len <= snap.offset => p \in medium'.disk
             /\ \A p \in medium'.disk : p \in medium.disk \/ p = [at |-> snap.offset, len |-> n, what |-> w]
             /\ [at |-> snap.offset, len |-> n, what |-> w] \in medium'.disk
    BY <2>2
  <2>4. TypeOK'
    <3>1. PcType'
      BY <1>1, <1>4, <2>1 DEF IInv, TypeOK, PcType, Busy
    <3> QED BY <2>1, <2>3, <3>1 DEF IInv, TypeOK, FixedType, CentralType
  <2>5. Settled' /\ Sizes'
    BY <1>1, <1>4, <2>1, SameFile DEF IInv, Settled, Sizes, Busy
  <2>6. HeaderWritten /\ HeaderWritten'
    <3>1. ~ Suppressed
      <4>1. File \in Sources /\ ~ File.isDir /\ snap.implicit = File.implicit
        BY <1>1, FilesType, WayFacts DEF File, IInv, Settled, Busy
      <4> QED BY <4>1, SourceFacts DEF Suppressed
    <3> QED BY <1>1, <1>4, <2>1, <3>1 DEF HeaderWritten, Suppressed
  <2>7. ASSUME Clean
        PROVE  \E old \in Piece(medium, snap.offset, "local") :
                  /\ Tells(old, snap) /\ n = old.len /\ snap.offset + n <= medium.end
                  /\ w = [old.what EXCEPT !.header = [@ EXCEPT !.crc = snap.crc,
                            !.comp = snap.comp % (Limit + 1), !.uncomp = snap.uncomp % (Limit + 1)]]
    <3>1. /\ Piece(medium, snap.offset, "local") # {}
          /\ \A p \in medium.disk : p.at = snap.offset => Tells(p, snap)
      BY <1>1, <2>6, <2>7 DEF IInv, Headers, CurrentThere
    <3>2. PICK old \in Piece(medium, snap.offset, "local") :
                     /\ n = old.len
                     /\ w = [old.what EXCEPT !.header = [@ EXCEPT !.crc = snap.crc,
                               !.comp = snap.comp % (Limit + 1), !.uncomp = snap.uncomp % (Limit + 1)]]
      BY <2>3, <3>1
    <3>3. old \in medium.disk /\ old.at = snap.offset
      BY DEF Piece
    <3>4. old.at + old.len <= medium.end
      BY <1>1, <2>7, <3>3 DEF IInv, Position, Busy
    <3> QED BY <3>1, <3>2, <3>3, <3>4
  <2>8. Position'
    <3>1. SUFFICES ASSUME Clean
                   PROVE  /\ headerOffset = medium'.pos /\ medium'.pos = medium'.end
                          /\ \A p \in medium'.disk : p.at + p.len <= medium'.end
      BY <2>1 DEF Position, Clean, AllSound
    <3>2. /\ headerOffset = medium.pos /\ medium.pos = medium.end
          /\ \A p \in medium.disk : p.at + p.len <= medium.end
      BY <1>1, <3>1 DEF IInv, Position, Busy
    <3>3. snap.offset + n <= medium.end /\ medium'.end = medium.end
      <4>1. snap.offset + n <= medium.end
        BY <2>7, <3>1
      <4>2. medium'.end = IF snap.offset + n > medium.end THEN snap.offset + n ELSE medium.end
        BY <2>3
      <4>3. snap.offset + n \in Int
        BY <1>1
      <4> QED BY <1>1, <4>1, <4>2, <4>3
    <3>4. ASSUME NEW p \in medium'.disk PROVE p.at + p.len <= medium.end
      <4>1. CASE p \in medium.disk
        BY <3>2, <4>1
      <4>2. CASE p = [at |-> snap.offset, len |-> n, what |-> w]
        BY <3>3, <4>2
      <4> QED BY <2>3, <4>1, <4>2
    <3> QED BY <2>3, <3>2, <3>3, <3>4
  <2>9. Headers'
    <3>1. SUFFICES ASSUME Clean PROVE ListedThere' /\ CurrentThere'
      BY <2>1 DEF Headers, Clean, AllSound
    <3>2. Begin = snap.offset /\ Begin' = snap.offset
      BY <2>1, <2>6 DEF Begin
    <3>3. ListedThere'
      <4>1. Begin <= Begin' /\ Begin' \in Int
        BY <1>1, <3>2
      <4> QED BY <2>1, <2>3, <3>1, <3>2, <4>1, ListedKept
    <3> DEFINE q == [at |-> snap.offset, len |-> n, what |-> w]
    <3>4. q.at = snap.offset /\ q.what = w /\ q \in medium'.disk
      BY <2>3
    <3> HIDE DEF q
    <3>5. q.what.kind = "local" /\ Agrees(q, snap)
      <4>1. PICK old \in Piece(medium, snap.offset, "local") :
                  /\ Tells(old, snap)
                  /\ w = [old.what EXCEPT !.header = [@ EXCEPT !.crc = snap.crc,
                            !.comp = snap.comp % (Limit + 1), !.uncomp = snap.uncomp % (Limit + 1)]]
        BY <2>7, <3>1
      <4> QED BY <1>1, <1>4, <3>4, <4>1, PatchedAgrees
    <3>6. q \in Piece(medium', snap'.offset, "local") /\ Agrees(q, snap')
      BY <2>1, <3>4, <3>5 DEF Piece
    <3>7. snap'.offset <= medium'.pos
      <4>1. snap.offset <= medium.pos /\ medium.pos = medium.end
        BY <1>1, <2>6, <3>1 DEF IInv, Headers, CurrentThere, Position, Busy
      <4> QED BY <2>1, <2>3, <4>1
    <3>8. pc' = "central"
      BY <1>4
    <3> QED BY <3>3, <3>6, <3>7, <3>8 DEF CurrentThere
  <2>10. Whole'
    BY <1>1, <1>4, <2>1 DEF IInv, Whole
  <2> QED BY <2>4, <2>5, <2>8, <2>9, <2>10 DEF IInv
<1> QED BY <1>2, <1>3, <1>4 DEF PatchHeader

\* The headers of what is listed lie before the end.
LEMMA ListedBefore ==
    ASSUME IInv, Clean, NEW k \in DOMAIN listed
    PROVE  \E p \in Piece(medium, listed[k].offset, "local") : p.at + p.len <= medium.pos /\ Agrees(p, listed[k])
<1>1. PICK p \in Piece(medium, listed[k].offset, "local") : p.at + p.len <= Begin /\ Agrees(p, listed[k])
  BY DEF IInv, Headers, ListedThere
<1>2. p.at + p.len \in Int /\ medium.pos \in Int
  <2>1. p.at \in Int /\ p.len \in Nat /\ medium.pos \in Int
    BY DEF Piece, IInv, TypeOK, IsMedium
  <2> QED BY <2>1
<1>3. Begin \in Int /\ Begin <= medium.pos
  BY BeginBefore
<1>4. p.at + p.len <= medium.pos
  BY <1>1, <1>2, <1>3
<1> QED BY <1>1, <1>4

\* What is lost from the front of the directory's buffer moves the rest.
LEMMA ListingsMove ==
    ASSUME NEW c \in Nat, NEW X, X \subseteq Listings
    PROVE  {[x EXCEPT !.at = @ - c] : x \in {y \in X : y.at >= c}} \subseteq Listings
<1> SUFFICES ASSUME NEW x \in X, x.at >= c PROVE [x EXCEPT !.at = @ - c] \in Listings
  OBVIOUS
<1>1. x \in Listings /\ x.at \in Nat
  BY DEF Listings
<1>2. x.at - c \in Nat
  BY <1>1
<1> QED BY <1>1, <1>2 DEF Listings

\* An entry joins the central directory, or is left out, or cannot join.
LEMMA CentralIInv == ASSUME IInv, addCentralDirEntry PROVE IInv'
<1> DEFINE e == CentralDirectory(snap)
           n == HeaderLength(e)
<1>1. /\ pc = "central" /\ FixedType /\ at \in DOMAIN files /\ snap \in Snapshots /\ IsMedium(medium)
      /\ headerOffset \in Int /\ CentralType /\ UNCHANGED <<medium, headerOffset>> /\ opts.parallel \in BOOLEAN
  BY Constants DEF addCentralDirEntry, IInv, TypeOK, PcType, Busy, FixedType
<1>2. Len(files) \in Nat /\ DOMAIN files = 1 .. Len(files) /\ n \in Nat
  BY <1>1, FilesType, HeaderLengthType
<1>3. snap.of = at /\ snap.implicit = files[at].implicit
  BY <1>1 DEF IInv, Settled, Busy, File
<1>4. CASE /\ ~Suppressed /\ StoresInNilMap(snap)
           /\ pc' = "panicked"
           /\ UNCHANGED <<fixed, at, snap, central, errs, finalErr, gaveUp, trouble>>
  <2>1. UNCHANGED <<files, opts, at, snap, centralDir, buffered, spilled, entriesNum, centralDirSize, listed, errs, finalErr,
                    gaveUp, trouble>>
    BY <1>4 DEF fixed, central
  <2>2. TypeOK'
    <3>1. PcType'
      BY <1>1, <1>4, <2>1 DEF IInv, TypeOK, PcType, Busy
    <3> QED BY <1>1, <2>1, <3>1 DEF IInv, TypeOK, FixedType, CentralType
  <2>3. Position' /\ Headers' /\ Whole'
    BY <1>1, <1>4, <2>1, NothingPut DEF HeaderWritten, Busy
  <2>4. Settled' /\ Sizes'
    BY <1>4 DEF Settled, Sizes, Busy
  <2> QED BY <2>2, <2>3, <2>4 DEF IInv
<1>5. CASE /\ ~Suppressed /\ ~StoresInNilMap(snap)
           /\ MoveFails(n) \/ FileWriteFails(n)
           /\ errs' = errs \cup {at} /\ gaveUp' = (gaveUp \/ opts.parallel)
           /\ NextFile
           /\ UNCHANGED <<fixed, snap, entriesNum, centralDirSize, listed, finalErr>>
  <2>1. /\ pc' = "next" /\ at' = at + 1 /\ gaveUp' \in BOOLEAN
        /\ UNCHANGED <<files, opts, snap, entriesNum, centralDirSize, listed, finalErr>>
    BY <1>1, <1>5 DEF NextFile, fixed, IInv, TypeOK
  <2>2. trouble' = trouble \/ trouble' = trouble \cup {"spill"}
    BY <1>5 DEF MoveFails, FileWriteFails
  <2>3. trouble \subseteq trouble' /\ trouble' \subseteq {"dest", "stream", "spill"}
    BY <2>2 DEF IInv, TypeOK
  <2>4. centralDir' \subseteq Listings /\ buffered' \in Nat /\ spilled' \in BOOLEAN
    <3>1. centralDir \subseteq Listings /\ buffered \in Nat /\ spilled \in BOOLEAN
      BY <1>1 DEF CentralType
    <3>2. CASE MoveFails(n)
      <4>1. CASE UNCHANGED <<centralDir, buffered, spilled>>
        BY <3>1, <4>1
      <4>2. CASE \E c \in 1 .. buffered :
                    /\ centralDir' = {[x EXCEPT !.at = @ - c] : x \in {y \in centralDir : y.at >= c}}
                    /\ buffered' = buffered - c
        BY <3>1, <3>2, <4>2, ListingsMove DEF MoveFails
      <4> QED BY <3>2, <4>1, <4>2 DEF MoveFails
    <3>3. CASE FileWriteFails(n)
      BY <1>2, <3>1, <3>3 DEF FileWriteFails
    <3> QED BY <1>5, <3>2, <3>3
  <2>5. CentralType'
    BY <1>1, <2>1, <2>4 DEF CentralType
  <2> QED BY <1>1, <1>5, <2>1, <2>3, <2>5, FailedIInv DEF Busy
<1>6. CASE /\ Suppressed
           /\ NextFile
           /\ UNCHANGED <<fixed, snap, central, errs, finalErr, gaveUp, trouble>>
  <2>1. /\ pc' = "next" /\ at' = at + 1
        /\ UNCHANGED <<files, opts, snap, centralDir, buffered, spilled, entriesNum, centralDirSize, listed, errs, finalErr,
                       gaveUp, trouble>>
    BY <1>6 DEF NextFile, fixed, central
  <2>2. TypeOK'
    <3>1. PcType'
      BY <1>1, <1>2, <2>1 DEF IInv, TypeOK, PcType, Busy
    <3> QED BY <1>1, <2>1, <3>1 DEF IInv, TypeOK, FixedType, CentralType
  <2>3. Settled' /\ Sizes'
    BY <2>1 DEF Settled, Sizes, Busy
  <2>4. Position'
    BY <1>1, <2>1 DEF IInv, Position, Busy, Clean, AllSound
  <2>5. Headers'
    <3>1. SUFFICES ASSUME Clean PROVE ListedThere' /\ CurrentThere'
      BY <2>1 DEF Headers, Clean, AllSound
    <3>2. Begin' = medium.pos
      BY <1>1, <2>1 DEF Begin, HeaderWritten
    <3>3. ListedThere'
      BY <1>1, <2>1, <3>1, <3>2, ListedBefore DEF ListedThere, Piece
    <3> QED BY <2>1, <3>3 DEF CurrentThere, HeaderWritten
  <2>6. Whole'
    <3>1. 1 .. at' - 1 = (1 .. at - 1) \cup {at}
      BY <1>1, <1>2, <2>1
    <3>2. ~ (files[at].implicit => opts.implicitDirs)
      BY <1>3, <1>6 DEF Suppressed
    <3>3. {k \in 1 .. at' - 1 : files[k].implicit => opts.implicitDirs} =
            {k \in 1 .. at - 1 : files[k].implicit => opts.implicitDirs}
      BY <3>1, <3>2
    <3> QED BY <2>1, <3>3 DEF IInv, Whole
  <2> QED BY <2>2, <2>3, <2>4, <2>5, <2>6 DEF IInv
<1>7. CASE /\ ~Suppressed /\ ~StoresInNilMap(snap)
           /\ Keep(e, n)
           /\ entriesNum' = entriesNum + 1 /\ centralDirSize' = centralDirSize + n
           /\ listed' = Append(listed, snap)
           /\ NextFile
           /\ UNCHANGED <<fixed, snap, errs, finalErr, gaveUp, trouble>>
  <2>1. /\ pc' = "next" /\ at' = at + 1 /\ listed' = Append(listed, snap)
        /\ UNCHANGED <<files, opts, snap, errs, finalErr, gaveUp, trouble>>
    BY <1>7 DEF NextFile, fixed
  <2>2. listed \in Seq(Snapshots) /\ Len(listed) \in Nat /\ DOMAIN listed = 1 .. Len(listed)
    BY <1>1 DEF CentralType
  <2>3. /\ DOMAIN listed' = DOMAIN listed \cup {Len(listed) + 1} /\ listed'[Len(listed) + 1] = snap
        /\ \A k \in DOMAIN listed : listed'[k] = listed[k]
    BY <2>1, <2>2
  <2>4. CentralType'
    <3>1. /\ centralDir \subseteq Listings /\ buffered \in Nat /\ spilled \in BOOLEAN
          /\ centralDirSize \in Nat /\ entriesNum \in Nat
      BY <1>1 DEF CentralType
    <3>2. [at |-> buffered, entry |-> e] \in Listings
      BY <1>1, <3>1 DEF Listings
    <3>3. centralDir' \subseteq Listings
      BY <1>7, <3>1, <3>2 DEF Keep
    <3>4. buffered' \in Nat /\ centralDirSize' \in Nat /\ entriesNum' \in Nat
      BY <1>2, <1>7, <3>1 DEF Keep
    <3>5. spilled' \in BOOLEAN
      BY <1>7, <3>1 DEF Keep
    <3>6. listed' \in Seq(Snapshots)
      BY <1>1, <2>1, <2>2
    <3> QED BY <3>3, <3>4, <3>5, <3>6 DEF CentralType
  <2>5. TypeOK'
    <3>1. PcType'
      BY <1>1, <1>2, <2>1 DEF IInv, TypeOK, PcType, Busy
    <3> QED BY <1>1, <2>1, <2>4, <3>1 DEF IInv, TypeOK, FixedType
  <2>6. Settled' /\ Sizes'
    BY <2>1 DEF Settled, Sizes, Busy
  <2>7. Position'
    BY <1>1, <2>1 DEF IInv, Position, Busy, Clean, AllSound
  <2>8. Headers'
    <3>1. SUFFICES ASSUME Clean PROVE ListedThere' /\ CurrentThere'
      BY <2>1 DEF Headers, Clean, AllSound
    <3>2. Begin' = medium.pos /\ HeaderWritten
      BY <1>1, <1>7, <2>1 DEF Begin, HeaderWritten
    <3>3. \E p \in Piece(medium, snap.offset, "local") : p.at + p.len <= medium.pos /\ Agrees(p, snap)
      <4>1. PICK p \in Piece(medium, snap.offset, "local") : Agrees(p, snap)
        BY <1>1, <3>1, <3>2 DEF IInv, Headers, CurrentThere
      <4>2. p.at + p.len <= medium.pos
        BY <3>1, <3>2, CurrentBefore DEF Piece
      <4> QED BY <4>1, <4>2
    <3>4. ASSUME NEW k \in DOMAIN listed'
          PROVE  \E p \in Piece(medium, listed'[k].offset, "local") : p.at + p.len <= medium.pos /\ Agrees(p, listed'[k])
      <4>1. CASE k \in DOMAIN listed
        BY <2>3, <3>1, <4>1, ListedBefore
      <4>2. CASE k = Len(listed) + 1
        BY <2>3, <3>3, <4>2
      <4> QED BY <2>3, <4>1, <4>2
    <3>5. ListedThere'
      BY <1>1, <3>2, <3>4 DEF ListedThere
    <3> QED BY <2>1, <3>5 DEF CurrentThere, HeaderWritten
  <2>9. Whole'
    <3>1. 1 .. at' - 1 = (1 .. at - 1) \cup {at}
      BY <1>1, <1>2, <2>1
    <3>2. files[at].implicit => opts.implicitDirs
      BY <1>3, <1>7 DEF Suppressed
    <3>3. {k \in 1 .. at' - 1 : files[k].implicit => opts.implicitDirs} =
            {k \in 1 .. at - 1 : files[k].implicit => opts.implicitDirs} \cup {at}
      BY <3>1, <3>2
    <3>4. {listed'[k].of : k \in DOMAIN listed'} = {listed[k].of : k \in DOMAIN listed} \cup {at}
      BY <1>3, <2>3
    <3> QED BY <2>1, <3>3, <3>4 DEF IInv, Whole
  <2> QED BY <2>5, <2>6, <2>7, <2>8, <2>9 DEF IInv
<1> QED BY <1>4, <1>5, <1>6, <1>7 DEF addCentralDirEntry

\* No file comes any more.
LEMMA StopWritingIInv == ASSUME IInv, StopWriting PROVE IInv'
<1>1. /\ pc = "next" /\ (gaveUp \/ at > Len(files)) /\ pc' = "flush"
      /\ UNCHANGED <<files, opts, at, snap, medium, headerOffset, centralDir, buffered, spilled, entriesNum, centralDirSize,
                     listed, errs, finalErr, gaveUp, trouble>>
  BY DEF StopWriting, fixed, central
<1>2. at \in 1 .. Len(files) + 1 /\ Len(files) \in Nat
  BY FilesType DEF IInv, TypeOK, PcType
<1>3. TypeOK'
  BY <1>1 DEF IInv, TypeOK, FixedType, PcType, Busy, CentralType
<1>4. Position' /\ Settled' /\ Sizes'
  BY <1>1 DEF IInv, Position, Settled, Sizes, Busy, Clean, AllSound
<1>5. Headers'
  BY <1>1 DEF IInv, Headers, ListedThere, CurrentThere, HeaderWritten, Begin, Piece, Clean, AllSound
<1>6. Whole'
  BY <1>1, <1>2 DEF IInv, Whole
<1> QED BY <1>3, <1>4, <1>5, <1>6 DEF IInv

\* What comes behind the entries leaves them as they are.
LEMMA LaterIInv ==
    ASSUME IInv, pc \in {"flush", "end"}, pc' \in {"end", "done"}, finalErr' \in BOOLEAN,
           UNCHANGED <<files, opts, at, snap, headerOffset, centralDir, buffered, spilled, entriesNum, centralDirSize,
                       listed, errs, gaveUp, trouble>>,
           IsMedium(medium'), medium.pos <= medium'.pos,
           \A p \in medium.disk : p.at + p.len <= medium.pos => p \in medium'.disk
    PROVE  IInv'
<1>1. TypeOK'
  <2>1. FixedType' /\ PcType' /\ CentralType'
    BY DEF IInv, TypeOK, FixedType, PcType, Busy, CentralType
  <2> QED BY <2>1 DEF IInv, TypeOK
<1>2. Position' /\ Settled' /\ Sizes'
  BY DEF Position, Settled, Sizes, Busy
<1>3. Headers'
  <2>1. SUFFICES ASSUME Clean PROVE ListedThere' /\ CurrentThere'
    BY DEF Headers, Clean, AllSound
  <2>2. Begin = medium.pos /\ Begin' = medium'.pos /\ medium'.pos \in Int
    BY DEF Begin, HeaderWritten, IsMedium
  <2>3. ListedThere'
    BY <2>1, <2>2, ListedKept
  <2> QED BY <2>3 DEF CurrentThere, HeaderWritten
<1>4. Whole'
  BY DEF IInv, Whole
<1> QED BY <1>1, <1>2, <1>3, <1>4 DEF IInv

\* The central directory is copied behind the entries.
LEMMA FlushIInv == ASSUME IInv, flushCentralDirectory PROVE IInv'
<1>1. /\ pc = "flush" /\ IsMedium(medium) /\ medium.pos \in Int /\ medium.end \in Int /\ finalErr \in BOOLEAN
      /\ UNCHANGED <<files, opts, at, snap, headerOffset, centralDir, buffered, spilled, entriesNum, centralDirSize,
                     listed, errs, gaveUp, trouble>>
  BY DEF flushCentralDirectory, fixed, central, IInv, TypeOK, IsMedium
<1>2. CASE UNCHANGED medium /\ pc' = "done" /\ finalErr' = TRUE
  BY <1>1, <1>2, LaterIInv
<1>3. CASE medium' = PutDirectory(medium) /\ pc' = "end" /\ UNCHANGED finalErr
  <2> DEFINE new == {[at |-> medium.pos + x.at, len |-> HeaderLength(x.entry),
                      what |-> [kind |-> "central", entry |-> x.entry]] : x \in centralDir}
             n == buffered
             end == IF medium.pos + n > medium.end THEN medium.pos + n ELSE medium.end
             disk == {p \in medium.disk : p.at + p.len <= medium.pos \/ p.at >= medium.pos + n} \cup new
  <2>1. medium' = [disk |-> disk, pos |-> medium.pos + n, end |-> end]
    BY <1>3 DEF PutDirectory, PutPieces
  <2>2. centralDir \subseteq Listings /\ n \in Nat
    BY DEF IInv, TypeOK, CentralType
  <2>3. ASSUME NEW x \in centralDir
        PROVE  medium.pos + x.at \in Int /\ HeaderLength(x.entry) \in Nat \ {0}
    <3>1. x.at \in Nat
      BY <2>2 DEF Listings
    <3>2. HeaderLength(x.entry) \in {1, 2}
      BY HeaderLengthType
    <3> QED BY <1>1, <3>1, <3>2
  <2>4. \A p \in new : p.at \in Int /\ p.len \in Nat \ {0}
    BY <2>3
  <2> HIDE DEF new, n
  <2>5. \A p \in disk : p.at \in Int /\ p.len \in Nat \ {0}
    BY <1>1, <2>4 DEF IsMedium
  <2>6. \A p \in medium.disk : p.at + p.len <= medium.pos => p \in disk
    OBVIOUS
  <2>7. end \in Int /\ medium.pos + n \in Int /\ medium.pos <= medium.pos + n
    BY <1>1, <2>2
  <2> HIDE DEF disk, end
  <2>8. /\ DOMAIN medium' = {"disk", "pos", "end"} /\ medium'.disk = disk /\ medium'.pos = medium.pos + n
        /\ medium'.end = end
    BY <2>1
  <2>9. IsMedium(medium') /\ medium.pos <= medium'.pos
        /\ \A p \in medium.disk : p.at + p.len <= medium.pos => p \in medium'.disk
    BY <2>5, <2>6, <2>7, <2>8 DEF IsMedium
  <2> QED BY <1>1, <1>3, <2>9, LaterIInv
<1> QED BY <1>2, <1>3 DEF flushCentralDirectory, Finalize

\* An end record is put behind what is there.
LEMMA PutLater ==
    ASSUME NEW m, NEW l, IsMedium(m), IsMedium(l), m.pos <= l.pos,
           \A p \in m.disk : p.at + p.len <= m.pos => p \in l.disk,
           NEW w
    PROVE  /\ IsMedium(Put(l, w, EndLength)) /\ m.pos <= Put(l, w, EndLength).pos
           /\ \A p \in m.disk : p.at + p.len <= m.pos => p \in Put(l, w, EndLength).disk
<1>1. EndLength \in Nat /\ m.pos \in Int /\ l.pos \in Int
  BY Constants DEF IsMedium
<1>2. /\ IsMedium(Put(l, w, EndLength)) /\ Put(l, w, EndLength).pos = l.pos + EndLength
      /\ \A p \in l.disk : p.at + p.len <= l.pos => p \in Put(l, w, EndLength).disk
  BY <1>1, PutParts
<1>3. ASSUME NEW p \in m.disk, p.at + p.len <= m.pos PROVE p \in Put(l, w, EndLength).disk
  <2>1. p \in l.disk /\ p.at \in Int /\ p.len \in Nat
    BY <1>3 DEF IsMedium
  <2>2. p.at + p.len <= l.pos
    BY <1>1, <1>3, <2>1
  <2> QED BY <1>2, <2>1, <2>2
<1>4. m.pos <= l.pos + EndLength
  BY <1>1
<1> QED BY <1>2, <1>3, <1>4

\* The end records are written.
LEMMA EndIInv == ASSUME IInv, WriteEndRecords PROVE IInv'
<1>1. /\ pc = "end" /\ IsMedium(medium) /\ medium.pos \in Int /\ finalErr \in BOOLEAN
      /\ UNCHANGED <<files, opts, at, snap, headerOffset, centralDir, buffered, spilled, entriesNum, centralDirSize,
                     listed, errs, gaveUp, trouble>>
  BY DEF WriteEndRecords, fixed, central, IInv, TypeOK, IsMedium
<1>2. CASE UNCHANGED medium /\ pc' = "done" /\ finalErr' = TRUE
  BY <1>1, <1>2, LaterIInv
<1> DEFINE Behind(l) == /\ IsMedium(l) /\ medium.pos <= l.pos
                        /\ \A p \in medium.disk : p.at + p.len <= medium.pos => p \in l.disk
<1>3. \A l, w : Behind(l) => Behind(Put(l, w, EndLength))
  BY <1>1, PutLater
<1>4. Behind(medium)
  BY <1>1
<1>5. Behind(IF requiresZip64(entriesNum, centralDirSize, headerOffset)
             THEN writeZip64EndRecords(medium) ELSE medium)
  <2> HIDE DEF Behind
  <2> QED BY <1>3, <1>4 DEF writeZip64EndRecords
<1>6. CASE /\ medium' = Put(IF requiresZip64(entriesNum, centralDirSize, headerOffset)
                            THEN writeZip64EndRecords(medium) ELSE medium,
                            EncodeEOCD(entriesNum, headerOffset), EndLength)
           /\ pc' = "done" /\ UNCHANGED finalErr
  <2>1. Behind(medium')
    <3> HIDE DEF Behind
    <3> QED BY <1>3, <1>5, <1>6
  <2> QED BY <1>1, <1>6, <2>1, LaterIInv
<1> QED BY <1>2, <1>6 DEF WriteEndRecords, Finalize

\* Nothing happens.
LEMMA StutterIInv == ASSUME IInv, UNCHANGED vars PROVE IInv'
<1>1. UNCHANGED <<files, opts, pc, at, snap, medium, headerOffset, centralDir, buffered, spilled, entriesNum, centralDirSize,
                  listed, errs, finalErr, gaveUp, trouble>>
  BY DEF vars
<1>2. TypeOK'
  BY <1>1 DEF IInv, TypeOK, FixedType, PcType, Busy, CentralType
<1>3. Way' = Way /\ Prepared(at)' = Prepared(at) /\ File' = File /\ EncodedLength' = EncodedLength
  BY <1>1, SameFile, SameLength
<1>4. Settled' /\ Sizes'
  BY <1>1, <1>3 DEF IInv, Settled, Sizes, Busy
<1>5. Position' /\ Headers'
  BY <1>1 DEF IInv, Position, Busy, Headers, ListedThere, CurrentThere, HeaderWritten, Suppressed, Begin, Clean, AllSound, Piece
<1>6. Whole'
  BY <1>1 DEF IInv, Whole
<1> QED BY <1>2, <1>4, <1>5, <1>6 DEF IInv

----------------------------------------------------------------------------
(***************************************************************************)
(* The invariant is inductive (zip.go WriteToWithContext, writer.go).      *)
(***************************************************************************)
THEOREM Invariance == Spec => []IInv
<1>1. IInv /\ [Next]_vars => IInv'
  BY GiveUpIInv, StartFileIInv, EncodeToBufferIInv, HeaderIInv, EncodeToDestIInv, CopyToDestIInv, PatchHeaderIInv,
     DescriptorIInv, CentralIInv, StopWritingIInv, FlushIInv, EndIInv, StutterIInv DEF Next
<1> QED BY <1>1, InitIInv, PTL DEF Spec

(***************************************************************************)
(* Every variable has its type.                                            *)
(***************************************************************************)
THEOREM TypeCorrect == Spec => []TypeOK
<1>1. IInv => TypeOK
  BY DEF IInv
<1> QED BY <1>1, Invariance, PTL

(***************************************************************************)
(* Between two entries the writer knows where it is, whichever way the     *)
(* entries were written and whichever of them failed before it put         *)
(* anything on the medium (writer.go: headerOffset).                       *)
(***************************************************************************)
THEOREM OffsetsAreTrue == Spec => []OffsetsTrue
<1>1. IInv => OffsetsTrue
  BY DEF IInv, Position, Clean, OffsetsTrue
<1> QED BY <1>1, Invariance, PTL

(***************************************************************************)
(* The local headers tell what the central directory tells, patched or     *)
(* not, unless a data descriptor is announced (updateLocalHeader).         *)
(***************************************************************************)
THEOREM HeadersDoAgree == Spec => []HeadersAgree
<1>1. IInv => HeadersAgree
  <2> SUFFICES ASSUME IInv, NEW k \in DOMAIN listed, AllSound, trouble = {}
               PROVE  \E p \in Piece(medium, listed[k].offset, "local") : Agrees(p, listed[k])
    BY DEF HeadersAgree, Agrees
  <2> QED BY DEF IInv, Headers, Clean, ListedThere
<1> QED BY <1>1, Invariance, PTL

(***************************************************************************)
(* A nil error means that every file is in the archive (zip.go             *)
(* WriteToWithContext).                                                    *)
(***************************************************************************)
THEOREM NilIsWhole == Spec => []NilMeansWhole
<1>1. IInv => NilMeansWhole
  <2> SUFFICES ASSUME IInv, pc = "done", errs = {}, ~gaveUp
               PROVE  /\ trouble = {}
                      /\ {listed[k].of : k \in DOMAIN listed} = {k \in DOMAIN files : files[k].implicit => opts.implicitDirs}
    BY DEF NilMeansWhole
  <2>1. /\ trouble = {} /\ at = Len(files) + 1
        /\ {listed[k].of : k \in DOMAIN listed} = {k \in 1 .. at - 1 : files[k].implicit => opts.implicitDirs}
    BY DEF IInv, Whole
  <2>2. Len(files) \in Nat /\ DOMAIN files = 1 .. Len(files)
    BY FilesType DEF IInv, TypeOK
  <2>3. 1 .. at - 1 = DOMAIN files
    BY <2>1, <2>2
  <2> QED BY <2>1, <2>3
<1> QED BY <1>1, Invariance, PTL

=============================================================================
