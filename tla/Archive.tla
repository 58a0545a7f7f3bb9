------------------------------ MODULE Archive ------------------------------
(***************************************************************************)
(* The writer of an archive with a reader of the result: what a caller of  *)
(* WriteTo may count on.                                                   *)
(***************************************************************************)
EXTENDS ArchiveWriter, ArchiveReader

-----------------------------------------------------------------------------
(* The cases in which the code breaks a promise below.  Each is a finding  *)
(* or a hazard of its own; the properties hold outside of them.            *)

(* The values 0xFFFFFFFF and 0xFFFF themselves announce Zip64, but the     *)
(* writer writes no Zip64 records for them.                                *)
ExactLimits == headerOffset = Limit \/ entriesNum = MaxEntries

(* The Zip64 field of the central directory claims four bytes too many.    *)
Zip64Field(s) == RequiresZip64(s)

(* An empty file with an encoded form that is not empty: of unknown size   *)
(* and compressed or encrypted, or copied from an archive that has it so.  *)
EncodedEmpty(s) == /\ s.data = 0 /\ ~s.isDir
                   /\ \/ s.declared = Unknown /\ s.bytes > 0
                      \/ s.was > 0

(* Size 0 is declared, as NewFile does, but there is data: a parallel      *)
(* writer does not open the source.                                        *)
ZeroDeclared(s) == s.declared = 0 /\ s.data > 0

Sound(s) == ~EncodedEmpty(s) /\ ~ZeroDeclared(s)
AllSound == \A k \in DOMAIN files : Sound(files[k])

-----------------------------------------------------------------------------
(* Between two entries the writer knows where it is: the offset it will    *)
(* put into the next header is the position of the destination, whichever  *)
(* way the entries were written and even if some of them failed, as long   *)
(* as no write to the destination failed and no source failed in the       *)
(* middle of a stream (writer.go: headerOffset).                           *)
OffsetsTrue ==
    AllSound /\ trouble \cap {"dest", "stream"} = {} /\ pc \in {"next", "flush"}
        => headerOffset = medium.pos /\ medium.pos = medium.end

(* Best effort: whatever failed or was cancelled, the archive that WriteTo *)
(* finishes lists the files written without an error, in their order, and  *)
(* each reads back as it was (WriteToWithContext, zip.go).                 *)
ReadsBack(f, s) ==
    /\ f.isDir = s.isDir
    /\ ~s.isDir => /\ openFile(medium, f) = "ok"
                   /\ f.uncomp = files[s.of].data
                   /\ files[s.of].data > 0 => Content(medium, f).of = s.of
RoundTrip ==
    pc = "done" /\ ~finalErr /\ trouble = {} /\ AllSound /\ ~ExactLimits
        => LET read == Load(medium)
           IN  /\ read.ok /\ Len(read.files) = Len(listed)
               /\ \A k \in DOMAIN listed :
                    ~Zip64Field(listed[k]) => ReadsBack(read.files[k], listed[k])

(* A nil error tells that nothing failed and that every file is in the     *)
(* archive, save implicit directories that were to be left out.            *)
NilMeansWhole ==
    pc = "done" /\ ~finalErr /\ errs = {} /\ ~gaveUp
        => /\ trouble = {}
           /\ {listed[k].of : k \in DOMAIN listed} =
                {k \in DOMAIN files : files[k].implicit => opts.implicitDirs}

(* Whoever reads the local headers only (StreamReader, repair tools) sees  *)
(* the same method, size and checksum as the central directory tells,      *)
(* unless a data descriptor is announced (updateLocalHeader, writer.go).   *)
HeadersAgree ==
    \A k \in DOMAIN listed :
        LET s == listed[k]
            e == CentralDirectory(s)
        IN  AllSound /\ trouble = {} =>
            \E p \in Piece(medium, s.offset, "local") :
                LET h == p.what.header
                IN  /\ p.what.of = s.of /\ h.method = e.method /\ h.flags = e.flags
                    /\ s.dd \/ (h.crc = e.crc /\ h.comp = e.comp /\ h.uncomp = e.uncomp)

-----------------------------------------------------------------------------
(* What the docs promise and the code does not keep.                       *)

(* Zip64 is handled automatically (README.md): a file whose size needs it  *)
(* reads back.                                                             *)
Zip64ReadsBack ==
    pc = "done" /\ ~finalErr /\ trouble = {} /\ AllSound /\ ~ExactLimits
        => \A k \in DOMAIN listed :
            Load(medium).ok /\ ReadsBack(Load(medium).files[k], listed[k])
=============================================================================
