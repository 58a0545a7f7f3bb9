------------------------------ MODULE Records ------------------------------
(***************************************************************************)
(* What an entry of an archive looks like on the medium: the header of its *)
(* data, its record in the central directory, the extra fields, and the    *)
(* end records (file.go, internal/headers.go, parts of reader.go).         *)
(*                                                                         *)
(* Sizes are counted in units, Limit stands for 0xFFFFFFFF and MaxEntries  *)
(* for 0xFFFF.  An extra field is a sequence of cells of four bytes, each  *)
(* a pair of 16-bit numbers, because a parser that loses its place reads   *)
(* values as tags and sizes; the 11 bytes of the AES field are rounded up  *)
(* to three cells.  Names, times, modes and versions are left out.         *)
(***************************************************************************)
EXTENDS Integers, Sequences, FiniteSets
LOCAL INSTANCE SequencesExt

CONSTANTS Limit,      \* StandardSizeLimit
          MaxEntries, \* StandardEntriesLimit
          EndLength   \* of an end record

ASSUME RecordsAssumption == Limit \in Nat \ {0} /\ MaxEntries \in Nat \ {0}
                              /\ EndLength \in Nat \ {0}

Unknown == -1
SmallerOf(a, b) == IF a < b THEN a ELSE b

(* uint32(min(StandardSizeLimit, v)): SizeUnknown comes out as the limit.  *)
Field32(v) == SmallerOf(Limit, v) % (Limit + 1)

\* Extra fields.
Zip64ExtraFieldTag == 1
NTFSFieldTag == 10
AESEncryptionTag == 99
FileTime == 77   \* half of any time stamp: neither a tag nor a size that fits
Value64(v) == << <<v, 0>>, <<0, 0>> >>

(* The central directory's Zip64 field holds what exceeds its limit; its   *)
(* size counts the four bytes of tag and size as well.                     *)
EncodeZip64ExtraField(uncomp, comp, offset) ==
    LET values == FlattenSeq([k \in 1 .. 3 |->
                      LET v == <<uncomp, comp, offset>>[k]
                      IN  IF v > Limit THEN Value64(v) ELSE <<>>])
    IN  << <<Zip64ExtraFieldTag, Len(values) + 1>> >> \o values

EncodeZip64LocalExtraField(uncomp, comp) ==
    << <<Zip64ExtraFieldTag, 4>> >> \o Value64(uncomp) \o Value64(comp)

EncodeNTFSExtraField ==
    << <<NTFSFieldTag, 8>>, <<0, 0>>, <<1, 6>> >> \o [k \in 1 .. 6 |-> <<FileTime, FileTime>>]

EncodeAESMarker(method) ==   \* a mutant: the method of the header, not that of the data
    << <<99, 2>>, <<2, 65>>, <<3, 99>> >>
EncodeAESExtraField(method) == << <<AESEncryptionTag, 2>>, <<2, 65>>, <<3, method>> >>

(* The fields ParseExtraField and parseEntryConf come across: they stop at *)
(* a field whose size goes past the end.                                   *)
ParseExtraField(extra) ==
    LET from[at \in 1 .. Len(extra) + 1] ==
            IF at > Len(extra) \/ at + extra[at][2] > Len(extra)
            THEN <<>>
            ELSE << [tag |-> extra[at][1],
                     data |-> SubSeq(extra, at + 1, at + extra[at][2])] >>
                 \o from[at + 1 + extra[at][2]]
    IN  from[1]

-----------------------------------------------------------------------------
(* A FileSnapshot: uncomp, comp, crc, offset, method, crypt, dd (bit 3 of  *)
(* the flags), precise (time stamps to be kept in an NTFS field), extra    *)
(* (fields the file has from before) and rawExtra (they were loaded with   *)
(* the file and never parsed: the map ExtraField is nil).                  *)
Store == 0
Deflate == 8
winZipAESMarker == 99
NotEncrypted == 0
ZipCrypto == 1
AES256 == 2

RequiresZip64(s) == s.comp > Limit \/ s.uncomp > Limit \/ s.offset > Limit

ResetEncodeOptions(s) == [s EXCEPT !.method = Store, !.crypt = NotEncrypted]

CompressionMethod(s) ==
    IF s.uncomp = 0 THEN Store
    ELSE IF s.crypt = AES256 THEN winZipAESMarker ELSE s.method

buildLocalExtraData(s) ==
    (IF s.uncomp > Limit \/ s.comp > Limit
     THEN EncodeZip64LocalExtraField(s.uncomp, s.comp) ELSE <<>>)
    \o (IF s.crypt = AES256 THEN EncodeAESExtraField(s.method) ELSE <<>>)

buildExtraFieldBytes(s) ==
    (IF RequiresZip64(s) THEN EncodeZip64ExtraField(s.uncomp, s.comp, s.offset) ELSE <<>>)
    \o s.extra
    \o (IF s.precise THEN EncodeNTFSExtraField ELSE <<>>)
    \o (IF s.crypt = AES256 THEN EncodeAESExtraField(s.method) ELSE <<>>)

FileBitFlag(s) == {x \in {"encrypted"} : s.crypt # NotEncrypted}
                  \cup {x \in {"descriptor"} : s.dd}

SharedEntry(s, extra) ==
    [isDir |-> s.isDir, method |-> CompressionMethod(s), flags |-> FileBitFlag(s),
     crc |-> s.crc, uncomp |-> Field32(s.uncomp), comp |-> Field32(s.comp),
     offset |-> 0, extra |-> extra]

LocalHeader(s) == SharedEntry(s, buildLocalExtraData(s))
CentralDirectory(s) ==
    [SharedEntry(s, IF s.rawExtra THEN s.extra ELSE buildExtraFieldBytes(s))
        EXCEPT !.offset = Field32(s.offset)]

(* addCentralDirEntry stores fields in the map, which is nil if rawExtra.  *)
StoresInNilMap(s) == s.rawExtra /\ (s.crypt = AES256 \/ RequiresZip64(s) \/ s.precise)

\* Lengths on the medium, in units; a header of its own is one unit.
HeaderLength(e) == 1 + (IF e.extra = <<>> THEN 0 ELSE 1)

-----------------------------------------------------------------------------
(* What a reader makes of a header: parseEntryConf and parseZip64.         *)
parseZip64(f, data, e) ==
    LET marked == <<e.uncomp = Limit, e.comp = Limit, e.offset = Limit>>
        before(k) == Cardinality({j \in 1 .. k - 1 : marked[j]})
        value(k, old) == IF marked[k] /\ Len(data) >= 2 * before(k) + 2
                         THEN data[2 * before(k) + 1][1] ELSE old
    IN  [f EXCEPT !.uncomp = value(1, @), !.comp = value(2, @), !.offset = value(3, @),
                  !.hasZip64Extra = TRUE]

parseEntryConf(e) ==
    LET plain == [isDir |-> e.isDir, method |-> e.method, crc |-> e.crc, dd |-> "descriptor" \in e.flags,
                  crypt |-> IF "encrypted" \in e.flags THEN ZipCrypto ELSE NotEncrypted,
                  uncomp |-> e.uncomp, comp |-> e.comp, offset |-> e.offset,
                  hasZip64Extra |-> FALSE]
        apply(f, field) ==
            CASE field.tag = Zip64ExtraFieldTag -> parseZip64(f, field.data, e)
              [] field.tag = AESEncryptionTag /\ Len(field.data) >= 2 ->
                    [f EXCEPT !.method = field.data[2][2], !.crypt = AES256]
              [] OTHER -> f
    IN  FoldLeft(apply, plain, ParseExtraField(e.extra))

-----------------------------------------------------------------------------
(* End records.                                                            *)
EncodeEOCD(entries, offset) ==
    [kind |-> "eocd", entries |-> SmallerOf(MaxEntries, entries), offset |-> SmallerOf(Limit, offset)]
EncodeZip64EOCDRecord(entries, offset) ==
    [kind |-> "zip64end", entries |-> entries, offset |-> offset]
EncodeZip64EOCDLocator(eocdOffset) == [kind |-> "locator", offset |-> eocdOffset]

requiresZip64(entries, size, offset) ==
    size > Limit \/ offset > Limit \/ entries > MaxEntries

(* ReadFiles takes a value at its limit for the announcement of Zip64.     *)
AnnouncesZip64(eocd) == eocd.offset = Limit \/ eocd.entries = MaxEntries
=============================================================================
