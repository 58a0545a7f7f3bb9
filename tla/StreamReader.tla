---------------------------- MODULE StreamReader ----------------------------
(***************************************************************************)
(* Reading an archive front to back, without its central directory         *)
(* (StreamReader and checksumReader of reader.go, the decrypting readers   *)
(* of encryption.go).  A caller goes from entry to entry with Next, Scan   *)
(* or ExtractTo and may open an entry, read some of it, close it or leave  *)
(* it alone; wherever that leaves the stream, Next has to find the header  *)
(* of the entry that follows.                                              *)
(*                                                                         *)
(* The stream is a sequence of cells: signatures, headers (a number, that  *)
(* of the entry), data, the frame of encrypted data, and numbers.  A       *)
(* Deflate stream is its data and a cell that marks its last block.  Bytes *)
(* are read one cell at a time; how signatureReader finds a signature in   *)
(* reads of any size is the subject of module Scan.                        *)
(***************************************************************************)
EXTENDS Integers, Sequences, SequencesExt

CONSTANTS
    Archives,   \* sequences of entries: what is in the streams to be read
    Limit       \* 0xFFFFFFFF in the header, for an unknown size

VARIABLES
    entries,    \* the archive, its damage (of one entry) included
    stream,     \* its cells
    sr,         \* the StreamReader, and `got`: what was read through Open
    driver,     \* who drives: "caller", "scan", "unpack" then "extract", "over"
    seeking,    \* the entry Scan looks for
    visited,    \* entries Next has returned, 0 for an error
    claims,     \* <<entry, got>>: content the caller has reason to trust
    trouble     \* the uses and entries that StreamReader cannot cope with

vars == <<entries, stream, sr, driver, seeking, visited, claims, trouble>>

Store == 0
Deflate == 8
NotEncrypted == 0
ZipCrypto == 1
AES256 == 2

-----------------------------------------------------------------------------
(* What a stream looks like.  An entry: n cells of data, method, crypt, dd *)
(* (bit 3), signed (its descriptor has a signature), dd64 (and 64-bit      *)
(* sizes), z64 (the header has a Zip64 field), uncomp and comp (in the     *)
(* header), odd (the data has the bytes of the signature), damage.         *)
Cell(t, v) == [t |-> t, v |-> v]
LocalSignature == Cell("sig", 1)
CentralSignature == Cell("sig", 2)
DescriptorSignature == Cell("sig", 3)

Plain(i) == [k \in 1 .. entries[i].n |->
                IF entries[i].odd /\ k = 1 THEN DescriptorSignature ELSE Cell("data", 10 * i + k)]
LastBlock == Cell("last", 0)
Damaged(body, how) == CASE how = "none" -> body
                        [] how = "flip" -> [body EXCEPT ![1] = Cell("data", 0)]
                        [] how = "cut"  -> [body EXCEPT ![1] = LastBlock]

Body(i) == Damaged(Plain(i) \o (IF entries[i].method = Deflate THEN <<LastBlock>> ELSE <<>>),
                   entries[i].damage)
newZipCryptoWriter == <<Cell("key", ZipCrypto)>>
newAes256Writer == <<Cell("key", AES256)>>
AuthCode == <<Cell("mac", 0)>>
Framed(i) == CASE entries[i].crypt = NotEncrypted -> Body(i)
               [] entries[i].crypt = ZipCrypto -> newZipCryptoWriter \o Body(i)
               [] entries[i].crypt = AES256 -> newAes256Writer \o Body(i) \o AuthCode

CRC(i, cells) == IF cells = <<>> THEN 0 ELSE IF cells = Plain(i) THEN i ELSE -1

Number(v, wide) == <<Cell("num", v)>> \o (IF wide THEN <<Cell("num", 0)>> ELSE <<>>)
EncodeDataDescriptor(i) ==
    (IF entries[i].signed THEN <<DescriptorSignature>> ELSE <<>>) \o Number(CRC(i, Plain(i)), FALSE)
    \o Number(Len(Framed(i)), entries[i].dd64) \o Number(entries[i].n, entries[i].dd64)

Written(i) == <<LocalSignature, Cell("head", i)>> \o Framed(i)
              \o (IF entries[i].dd THEN EncodeDataDescriptor(i) ELSE <<>>)
Stream == FlattenSeq([i \in DOMAIN entries |-> Written(i)]) \o <<CentralSignature>>


-----------------------------------------------------------------------------
NoFile == [idx |-> 0]
Closed == [open |-> FALSE]
Idle == [pos |-> 1, file |-> NoFile, opened |-> Closed, raw |-> 0, skipCRC |-> FALSE,
         last |-> "none", got |-> <<>>]

newFileFromLocalHeader(i) ==
    LET e == entries[i]
    IN  [idx |-> i, method |-> e.method, crypt |-> e.crypt, dd |-> e.dd, z64 |-> e.z64,
         uncomp |-> e.uncomp, comp |-> e.comp, crc |-> IF e.dd THEN 0 ELSE CRC(i, Plain(i))]

Peek(s) == IF s.pos <= Len(stream) THEN stream[s.pos] ELSE Cell("end", 0)
Ended(s) == s.pos > Len(stream)
Take(s) == IF Ended(s) THEN s ELSE [s EXCEPT !.pos = @ + 1]
ErrorAt(s) == [s EXCEPT !.last = "error"]

(* readDataDescriptor: with or without a signature, sizes of 64 bits if    *)
(* the header had a Zip64 field.                                           *)
readDataDescriptor(s) ==
    LET size == IF s.file.z64 THEN 4 ELSE 2
        from == IF Peek(s) = DescriptorSignature THEN s.pos + 1 ELSE s.pos
        field(k) == stream[from + k].v
    IN  IF from + size > Len(stream) THEN ErrorAt([s EXCEPT !.pos = Len(stream) + 1])
        ELSE [s EXCEPT !.pos = from + 1 + size, !.last = "eof",
                       !.file.crc = field(0), !.file.comp = field(1),
                       !.file.uncomp = field(1 + size \div 2)]

(* OpenRaw, which counts the size of stored data by what it holds.         *)
OpenRaw(s) ==
    LET f == IF s.file.method = Store THEN [s.file EXCEPT !.comp = s.file.uncomp] ELSE s.file
    IN  [s EXCEPT !.file = f,
            !.opened = [open |-> FALSE, left |-> f.comp,
                        upTo |-> CASE ~f.dd \/ f.comp > 0 -> "limit"
                                   [] f.dd /\ f.comp = 0 /\ f.method = Store -> "signature"
                                   [] OTHER -> "block"]]

RawEndOfHeader(s) ==   \* a mutant: a descriptor is taken for data without a limit
    Ended(s) \/ (s.opened.upTo = "limit" /\ s.opened.left = 0)
(* The raw reader: the limit, the signature, or no end of its own.         *)
RawEnd(s) == \/ Ended(s)
             \/ s.opened.upTo = "limit" /\ s.opened.left = 0
             \/ s.opened.upTo = "signature" /\ Peek(s) = DescriptorSignature
RawTake(s) == [Take(s) EXCEPT !.opened.left = @ - 1]

(* newZipCryptoReader, newAes256Reader: the frame before the data.  keyOk: *)
(* the password is right.                                                  *)
wrapDecryption(s, keyOk) ==
    IF RawEnd(s) THEN ErrorAt(s)
    ELSE IF \/ Peek(s) # Cell("key", s.file.crypt) \/ ~keyOk
            \/ s.file.crypt = AES256 /\ s.file.comp < 2
         THEN ErrorAt(RawTake(s))
    ELSE [RawTake(s) EXCEPT !.opened = [open |-> FALSE, upTo |-> s.opened.upTo,
                                        left |-> s.opened.left - 1,
                                        payload |-> s.file.comp - 2]]

(* Open: the pipeline and the checksumReader around it; if decryption or   *)
(* the choice of a decompressor fails, nothing is opened.                  *)
Opened(s, keyOk, known) ==
    LET raw == OpenRaw([s EXCEPT !.last = "ok"])
        plain == IF s.file.crypt = NotEncrypted THEN raw ELSE wrapDecryption(raw, keyOk)
    IN  IF plain.last = "error" \/ ~known
        THEN [plain EXCEPT !.opened = Closed, !.last = "error"]
        ELSE [plain EXCEPT !.got = <<>>,
                !.opened = [open |-> TRUE, upTo |-> plain.opened.upTo, left |-> plain.opened.left,
                            payload |-> IF s.file.crypt = AES256 THEN plain.opened.payload ELSE 0,
                            ended |-> FALSE, wantSize |-> s.file.uncomp, wantCRC |-> s.file.crc,
                            onEOF |-> s.file.dd]]

(* aesReader: at the end of the payload it reads the authentication code,  *)
(* each time it is asked for more.                                         *)
AtAuthCode(s) == s.file.crypt = AES256 /\ s.opened.payload = 0
AesEnd(s) == IF RawEnd(s) THEN ErrorAt(s)
             ELSE IF Peek(s) = AuthCode[1] /\ entries[s.file.idx].damage = "none"
                  THEN [RawTake(s) EXCEPT !.last = "eof"]
                  ELSE ErrorAt(RawTake(s))
Decrypted(s) == [RawTake(s) EXCEPT !.last = "cell", !.opened.payload = @ - 1]

(* compress/flate takes byte after byte only from a *bufio.Reader: any     *)
(* other reader it puts a buffer before, which takes all up to the limit,  *)
(* and without a limit (a descriptor, behind decryption) up to 4096 bytes, *)
(* here all there is.                                                      *)
FlateConsumes(s) ==
    LET rest == Len(stream) + 1 - s.pos
    IN  CASE s.file.crypt = AES256 -> Min({s.opened.payload, rest})
          [] s.file.crypt # AES256 /\ s.opened.upTo = "limit" -> Min({s.opened.left, rest})
          [] s.file.crypt = ZipCrypto /\ s.opened.upTo = "block" -> rest
          [] OTHER -> 1

(* The decompressor.  Deflate ends by itself; the end is for good (found   *)
(* of signatureReader, the limit of LimitReader).                          *)
Inflated(s) ==
    IF RawEnd(s) \/ AtAuthCode(s) THEN ErrorAt(s)
    ELSE IF Peek(s) = LastBlock
         THEN [s EXCEPT !.pos = @ + FlateConsumes(s), !.last = "eof", !.opened.ended = TRUE]
    ELSE IF Peek(s).t = "data" \/ Peek(s) = DescriptorSignature THEN Decrypted(s)
    ELSE ErrorAt(RawTake(s))
Decompressed(s) ==
    IF s.opened.ended THEN [s EXCEPT !.last = "eof"]
    ELSE IF s.file.method = Deflate THEN Inflated(s)
    ELSE IF AtAuthCode(s) THEN AesEnd(s)
    ELSE IF RawEnd(s) THEN [s EXCEPT !.last = "eof", !.opened.ended = TRUE]
    ELSE Decrypted(s)

(* checksumReader.Read, with the callback of Open at the end of the data.  *)
OnEOFUnchecked(s) ==   \* a mutant: the descriptor is read, the checksum is not compared
    readDataDescriptor([s EXCEPT !.opened.onEOF = FALSE])
OnEOF(s) ==
    LET d == readDataDescriptor([s EXCEPT !.opened.onEOF = FALSE])
    IN  IF d.last = "error" \/ s.skipCRC THEN d
        ELSE IF CRC(s.file.idx, s.got) # d.file.crc \/ Len(s.got) # d.file.uncomp
             THEN ErrorAt(d) ELSE d
Read(s) ==
    LET n == Decompressed(s)
        m == [n EXCEPT !.got = Append(@, Peek(s))]
    IN  CASE n.last = "cell" -> IF s.opened.wantSize > 0 /\ Len(m.got) > s.opened.wantSize
                                THEN ErrorAt(m) ELSE m
          [] n.last = "eof" -> IF n.opened.onEOF THEN OnEOF(n) ELSE n
          [] OTHER -> n

(* io.Copy, io.ReadAll: until the end or an error.                         *)
ReadOn(s) == IF s.last = "cell" THEN Read(s) ELSE s
ReadAll(s) ==
    LET after[k \in 0 .. Len(stream) + 1] ==
            IF k = 0 THEN Read(s) ELSE CHOOSE t \in {ReadOn(u) : u \in {after[k - 1]}} : TRUE
    IN  after[Len(stream) + 1]

(* checksumReader.Close: an error only for what was read to its end.       *)
Close(s) ==
    IF Len(s.got) < s.opened.wantSize THEN "ok"
    ELSE IF Len(s.got) > s.opened.wantSize THEN "size"
    ELSE IF CRC(s.file.idx, s.got) # s.opened.wantCRC THEN "checksum" ELSE "ok"

-----------------------------------------------------------------------------
(* skipRemainingData: drain what is open; look for the descriptor; or      *)
(* discard as many bytes as the file is said to have.                      *)
ToSignature(s) ==
    LET at == {p \in s.pos .. Len(stream) : stream[p] = DescriptorSignature}
    IN  [s EXCEPT !.pos = IF at = {} THEN Len(stream) + 1
                          ELSE CHOOSE p \in at : \A q \in at : p <= q]
SkippedOpen(s) ==   \* a mutant: what is open is discarded like what is not
    IF s.file.dd THEN readDataDescriptor(ToSignature(s))
    ELSE IF s.pos + s.file.comp > Len(stream) + 1 THEN ErrorAt([s EXCEPT !.pos = Len(stream) + 1])
    ELSE [s EXCEPT !.pos = @ + s.file.comp, !.last = "ok"]
Skipped(s) ==
    IF s.opened.open
    THEN LET drained == ReadAll([s EXCEPT !.skipCRC = TRUE])
         IN  IF drained.last = "error" THEN drained ELSE [drained EXCEPT !.skipCRC = FALSE]
    ELSE IF s.file.dd THEN readDataDescriptor(ToSignature(s))
    ELSE IF s.pos + s.file.comp > Len(stream) + 1 THEN ErrorAt([s EXCEPT !.pos = Len(stream) + 1])
    ELSE [s EXCEPT !.pos = @ + s.file.comp, !.last = "ok"]
skipRemainingData(s) ==
    IF s.file = NoFile THEN [s EXCEPT !.last = "ok"]
    ELSE [Skipped(s) EXCEPT !.file = NoFile, !.opened = Closed, !.raw = 0, !.got = <<>>]

(* Next: the state it leaves; `last` tells "file", "eof" or "error".  A    *)
(* stream that ends where a signature should come ends the archive.        *)
Advanced(s) ==
    LET skipped == skipRemainingData(s)
        sig == Take(skipped)
    IN  IF skipped.last = "error" THEN skipped
        ELSE IF Ended(skipped) \/ Peek(skipped) = CentralSignature THEN [sig EXCEPT !.last = "eof"]
        ELSE IF Peek(skipped) = LocalSignature /\ Peek(sig).t = "head"
             THEN [Take(sig) EXCEPT !.last = "file", !.file = newFileFromLocalHeader(Peek(sig).v)]
        ELSE ErrorAt(sig)

-----------------------------------------------------------------------------
(* What StreamReader cannot cope with, by entry and by use.                *)
BadSizes(e) ==   \* the header tells sizes, and they are not those of the data
    e.dd /\ IF e.method = Store THEN e.uncomp \notin {0, e.n} ELSE e.comp \notin {0, e.n + 1}
OpenSpoils(e) == \/ e.crypt # NotEncrypted /\ (e.method = Store \/ (e.dd /\ e.comp = 0))
                 \/ e.crypt = AES256
                 \/ BadSizes(e)
                 \/ e.dd /\ e.dd64 # e.z64
                 \/ (e.odd \/ ~e.signed) /\ e.dd /\ e.method = Store /\ e.uncomp = 0
                 \/ e.damage = "cut"
SkipSpoils(e) == e.dd /\ (e.odd \/ ~e.signed \/ e.dd64 # e.z64)
LeavingSpoils(s) ==
    IF s.file = NoFile THEN {}
    ELSE LET e == entries[s.file.idx]
         IN  {x \in {"opened"} : s.opened.open /\ OpenSpoils(e)}
             \cup {x \in {"skipped"} : ~s.opened.open /\ SkipSpoils(e)}
             \cup {x \in {"raw"} : s.last = "raw" /\ (s.raw > 0 \/ s.file.comp # e.comp)}

Init ==
    /\ entries \in Archives /\ stream = Stream
    /\ sr = Idle /\ driver = "caller" /\ seeking = 0
    /\ visited = <<>> /\ claims = {} /\ trouble = {}

(* IsZipStream on the reader the StreamReader is then made of: unless that *)
(* is a *bufio.Reader, what it took into a buffer of its own is gone.      *)
IsZipStream ==
    /\ sr = Idle /\ driver = "caller"
    /\ \E buffered \in BOOLEAN :
        /\ sr' = [sr EXCEPT !.last = "sniffed", !.pos = IF buffered THEN @ ELSE Len(stream) + 1]
        /\ trouble' = trouble \cup {x \in {"sniffed"} : ~buffered}
    /\ UNCHANGED <<entries, stream, driver, seeking, visited, claims>>

NextEntry ==
    /\ driver # "over"
    /\ driver = "extract" => sr.last \in {"extracted", "directory"}
    /\ sr' = Advanced(sr)
    /\ trouble' = trouble \cup LeavingSpoils(sr)
    /\ visited' = IF sr'.last = "eof" THEN visited
                  ELSE Append(visited, IF sr'.last = "file" THEN sr'.file.idx ELSE 0)
    /\ driver' = CASE sr'.last # "file" -> "over"
                   [] sr'.last = "file" /\ driver = "unpack" -> "extract"
                   [] sr'.last = "file" /\ driver = "scan" /\ sr'.file.idx = seeking -> "caller"
                   [] OTHER -> driver
    /\ UNCHANGED <<entries, stream, seeking, claims>>

Scan ==
    /\ driver = "caller" /\ driver' = "scan"
    /\ seeking' \in DOMAIN entries
    /\ UNCHANGED <<entries, stream, sr, visited, claims, trouble>>

Selected == driver = "caller" /\ sr.file # NoFile /\ ~sr.opened.open
OpenEntry ==
    /\ Selected /\ sr.last = "file"
    /\ \E keyOk, known \in BOOLEAN :
        /\ sr' = Opened(sr, keyOk, known)
        /\ trouble' = trouble \cup {x \in {"refused"} :
                        sr'.last = "error" /\ (sr'.pos > sr.pos \/ sr'.file # sr.file)}
    /\ UNCHANGED <<entries, stream, driver, seeking, visited, claims>>

(* OpenRaw for a caller who wants the bytes as they are.                   *)
ReadRaw ==
    /\ Selected /\ sr.last \in {"file", "raw"}
    /\ LET raw == IF sr.last = "file" THEN OpenRaw(sr) ELSE sr
       IN  IF RawEnd(raw) THEN sr' = [raw EXCEPT !.last = "raw"]
           ELSE sr' = [RawTake(raw) EXCEPT !.last = "raw", !.raw = @ + 1]
    /\ UNCHANGED <<entries, stream, driver, seeking, visited, claims, trouble>>

ReadEntry ==
    /\ driver = "caller" /\ sr.opened.open /\ sr.last \in {"ok", "cell", "eof"}
    /\ sr' = Read(sr)
    /\ UNCHANGED <<entries, stream, driver, seeking, visited, claims, trouble>>

(* The caller has seen the end and closes: it trusts what it got if that   *)
(* tells no error; with a descriptor, the end is enough.                   *)
CloseEntry ==
    /\ driver = "caller" /\ sr.opened.open /\ sr.last = "eof"
    /\ claims' = IF sr.file.dd \/ Close(sr) = "ok" THEN claims \cup {<<sr.file.idx, sr.got>>} ELSE claims
    /\ sr' = [sr EXCEPT !.last = "closed"]
    /\ UNCHANGED <<entries, stream, driver, seeking, visited, trouble>>

ExtractTo ==
    /\ driver = "caller" /\ driver' = "unpack"
    /\ UNCHANGED <<entries, stream, sr, seeking, visited, claims, trouble>>

(* By a caller, or by the loop of ExtractTo for what is not a directory:   *)
(* Open, and io.Copy to the end.  It does not look at the error of Close.  *)
ExtractFile ==
    /\ driver \in {"caller", "extract"} /\ sr.file # NoFile /\ sr.last = "file"
    /\ ~(driver = "extract" /\ entries[sr.file.idx].isDir)
    /\ LET s == Opened(sr, TRUE, TRUE)
           all == IF s.last = "error" THEN s ELSE ReadAll(s)
       IN  /\ sr' = IF all.last = "eof" THEN [all EXCEPT !.last = "extracted"] ELSE all
           /\ claims' = IF all.last = "eof" /\ sr.file.dd
                        THEN claims \cup {<<sr.file.idx, all.got>>} ELSE claims
           /\ trouble' = trouble \cup {x \in {"refused"} :
                             s.last = "error" /\ (s.pos > sr.pos \/ s.file # sr.file)}
    /\ driver' = IF driver = "extract" /\ sr'.last = "error" THEN "over" ELSE driver
    /\ UNCHANGED <<entries, stream, seeking, visited>>

(* The loop of ExtractTo makes a directory and goes on.                    *)
MakeDirectory ==
    /\ driver = "extract" /\ sr.last = "file" /\ entries[sr.file.idx].isDir
    /\ sr' = [sr EXCEPT !.last = "directory"]
    /\ UNCHANGED <<entries, stream, driver, seeking, visited, claims, trouble>>

(* The context ends, or a name leads out of the destination: the rest of   *)
(* the stream is the caller's again.                                       *)
ExtractStops ==
    /\ driver = "extract" /\ driver' = "caller"
    /\ UNCHANGED <<entries, stream, sr, seeking, visited, claims, trouble>>

Next == \/ IsZipStream \/ NextEntry \/ Scan \/ OpenEntry \/ ReadRaw \/ ReadEntry \/ CloseEntry
        \/ ExtractTo \/ ExtractFile \/ MakeDirectory \/ ExtractStops
Spec == Init /\ [][Next]_vars

-----------------------------------------------------------------------------
(* Whatever the caller did with an entry, Next returns the one that comes  *)
(* after it: none is skipped, invented or lost, and the end is the end     *)
(* (reader.go: "Next automatically discards the remaining bytes to reach   *)
(* the next header").                                                      *)
InOrder == /\ \A k \in DOMAIN visited : visited[k] = k
           /\ sr.last = "eof" /\ driver = "over" => Len(visited) = Len(entries)
Undamaged == \A i \in DOMAIN entries : entries[i].damage = "none"
NextFindsNext == trouble = {} /\ Undamaged => InOrder

(* What is read through Open is the content of the entry, from its start   *)
(* on; and the end of it is the end of the content.                        *)
ReadsContent ==
    sr.opened.open /\ Undamaged /\ ~OpenSpoils(entries[sr.file.idx])
        => /\ IsPrefix(sr.got, Plain(sr.file.idx)) /\ sr.last # "error"
           /\ sr.last \in {"eof", "extracted"} => sr.got = Plain(sr.file.idx)

(* Damaged content is not taken for good: not by a caller who reads to the *)
(* end and looks at the error of Close, and not by one who reads an entry  *)
(* with a data descriptor to the end.  (A Deflate stream that ends early   *)
(* is, and ExtractFile does not look at the error of Close.)               *)
DamageTold == \A c \in claims :
    entries[c[1]].damage # "cut" /\ ~OpenSpoils(entries[c[1]]) => c[2] = Plain(c[1])
=============================================================================
