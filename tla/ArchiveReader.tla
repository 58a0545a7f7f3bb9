--------------------------- MODULE ArchiveReader ---------------------------
(***************************************************************************)
(* The zipReader (reader.go): from the end records to the list of files,   *)
(* and from one of them to its content.  Reading changes nothing, so these *)
(* are operators on a medium: a set `disk` of pieces [at, len, what] and   *)
(* its length `end`.  Where the code would read bytes of another kind than *)
(* it expects, the outcome is an error, "format".  The search for the end  *)
(* record is the subject of module Scan.                                   *)
(***************************************************************************)
EXTENDS Records

(* What is read at a place: nothing unless the signature is right.         *)
Piece(m, at, kind) == {p \in m.disk : p.at = at /\ p.what.kind = kind}
ReadLocalFileHeader(m, at) == Piece(m, at, "local")
ReadCentralDirEntry(m, at) == Piece(m, at, "central")
ReadEOCD(m, at) == Piece(m, at, "eocd")
ReadZip64EOCD(m, at) == Piece(m, at, "zip64end")
ReadZip64EOCDLocator(m, at) == Piece(m, at, "locator")
Only(S) == CHOOSE p \in S : TRUE

(* The locator lies right before the end record.                           *)
findAndReadZip64EOCD(m) ==
    LET locator == ReadZip64EOCDLocator(m, m.end - 2 * EndLength)
    IN  IF locator = {} THEN {} ELSE ReadZip64EOCD(m, Only(locator).what.offset)

(* Where the directory is and how many entries it has; {} is ErrFormat.    *)
ReadFiles(m) ==
    LET eocd == ReadEOCD(m, m.end - EndLength)
    IN  IF eocd = {} \/ ~AnnouncesZip64(Only(eocd).what) THEN eocd ELSE findAndReadZip64EOCD(m)

newFileFromCentralDir(e) == parseEntryConf(e)

(* readCentralDir: entries one after the other from the offset on.         *)
readCentralDir(m, d) ==
    LET from[n \in 0 .. d.entries] ==   \* the place after n entries and the files so far
            IF n = 0 THEN [next |-> d.offset, files |-> <<>>, ok |-> TRUE]
            ELSE LET before == from[n - 1]
                     e == ReadCentralDirEntry(m, before.next)
                 IN  IF ~before.ok \/ e = {} THEN [before EXCEPT !.ok = FALSE]
                     ELSE [next |-> before.next + Only(e).len, ok |-> TRUE,
                           files |-> Append(before.files, newFileFromCentralDir(Only(e).what.entry))]
    IN  from[d.entries]

Load(m) ==
    IF ReadFiles(m) = {} THEN [ok |-> FALSE, files |-> <<>>]
    ELSE readCentralDir(m, Only(ReadFiles(m)).what)

-----------------------------------------------------------------------------
(* getRawDataStream and initPipeline: the data's place comes from the      *)
(* local header, its length, its method and its checksum from the central  *)
(* directory, and whether it is encrypted from the local header's flags.   *)
(* The right password is given.                                            *)
Undone(f, local, raw) ==   \* [of, size] of the bytes the pipeline yields, of = 0 for nonsense
    LET crypt == IF "encrypted" \in local.flags THEN f.crypt ELSE NotEncrypted
    IN  IF f.comp = 0
        THEN IF crypt = NotEncrypted /\ f.method = Store THEN {[of |-> 0, size |-> 0]} ELSE {}
        ELSE {IF p.what.crypt = crypt /\ p.what.method = f.method
              THEN [of |-> p.what.of, size |-> p.what.plain]
              ELSE [of |-> 0, size |-> p.len] : p \in {q \in raw : q.len = f.comp}}

(* openFile and a read to the end: what checksumReader lets pass, with     *)
(* Close, whose ErrChecksum counts for nothing with AES256.                *)
openFile(m, f) ==
    LET local == ReadLocalFileHeader(m, f.offset)
    IN  IF local = {} THEN "format"
        ELSE LET h == Only(local).what.header
                 got == Undone(f, h, Piece(m, f.offset + HeaderLength(h), "data"))
             IN  IF got = {} THEN "unreadable"
                 ELSE LET g == Only(got)
                      IN  IF g.size > f.uncomp THEN "size"
                          ELSE IF g.size < f.uncomp THEN "short"
                          ELSE IF f.crypt = AES256 \/ g.of = f.crc \/ g.size = 0
                               THEN "ok" ELSE "checksum"
Content(m, f) ==
    LET h == Only(ReadLocalFileHeader(m, f.offset)).what.header
    IN  Only(Undone(f, h, Piece(m, f.offset + HeaderLength(h), "data")))
=============================================================================
