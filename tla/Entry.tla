------------------------------- MODULE Entry -------------------------------
(***************************************************************************)
(* The life of one File (file.go): it is added or loaded, its settings are *)
(* changed, it is opened, written to archives, and loaded again from what  *)
(* was written.  A File keeps two configurations: srcConfig says how its   *)
(* data lies in the archive it was loaded from, config how it is to be     *)
(* written; data whose two configurations agree is copied as it is.        *)
(* Writing (writer.go) takes a snapshot first and looks at the File again  *)
(* later, and setters may run in between: Zip is said to be concurrency-   *)
(* safe.                                                                   *)
(*                                                                         *)
(* Contents are told apart by their length, a checksum is that length or   *)
(* 0, a password that is not the right one is always noticed.              *)
(***************************************************************************)
EXTENDS Integers, Sequences, FiniteSets

CONSTANTS Size,         \* length of the content
          Packed,       \* level -> its length when compressed
          Passwords,    \* not empty
          Times,        \* what modTime may be
          Foreign,      \* entries that other programs wrote, and wrote well
          Settings,     \* the configurations files are added with
          MaxSets,      \* bound: calls that change the File
          MaxWrites     \* bound: archives written

Levels == DOMAIN Packed
Methods == {"Store", "Deflate"}
Encryptions == {"NotEncrypted", "ZipCrypto", "AES256"}
Unknown == -1
FileConfig == [method : Methods, level : Levels, enc : Encryptions, pwd : Passwords \cup {""}]

-----------------------------------------------------------------------------
(* Encoded data                                                            *)

Overhead(enc) == CASE enc = "NotEncrypted" -> 0 [] enc = "ZipCrypto" -> 12 [] enc = "AES256" -> 28

(* Content of n bytes, of which only a whole one has Packed as its length. *)
Plain(b) == IF b.method = "Store" THEN b.plain ELSE Packed[b.level] - (Size - b.plain)
Length(b) == Plain(b) + Overhead(b.enc)

\* mutant: the byte is that of the modification time
CheckByteOfTime(n) == [of |-> "time", value |-> 0]

(* The last byte of the ZipCrypto header.                                  *)
CheckByte(n) == [of |-> "crc", value |-> n]

Encode(c, n) == [method |-> c.method, level |-> c.level, enc |-> c.enc, pwd |-> c.pwd,
                 check |-> CheckByte(n), plain |-> n]

(* An entry of an archive: its headers, and the bytes behind them.         *)
Bodies == [method : Methods, level : Levels, enc : Encryptions, pwd : Passwords \cup {""}, plain : Int,
           check : [of : {"crc"}, value : Int] \cup [of : {"time"}, value : Times]]
Entries == [method : Methods, enc : Encryptions, dd : BOOLEAN, size : Int, csize : Int, crc : Int, time : Times,
            body : Bodies]

(* The headers say what the bytes are; AES entries carry no checksum, and  *)
(* the check byte is that of the time if there is a data descriptor.       *)
WellMade(s) ==
    /\ s.method = s.body.method /\ s.enc = s.body.enc
    /\ s.size = Size /\ s.body.plain = Size /\ s.csize = Length(s.body)
    /\ s.crc = IF s.enc = "AES256" THEN 0 ELSE Size
    /\ s.enc # "NotEncrypted" => s.body.pwd # ""
    /\ s.enc = "ZipCrypto" =>
         s.body.check = IF s.dd THEN [of |-> "time", value |-> s.time] ELSE [of |-> "crc", value |-> s.crc]

ASSUME EntryAssumption ==
    /\ Size \in Nat \ {0} /\ 0 \in Levels /\ "" \notin Passwords /\ 0 \in Times
    /\ \A l \in Levels : Packed[l] \in Nat
    /\ Settings \subseteq FileConfig
    /\ Foreign \subseteq Entries /\ \A s \in Foreign : WellMade(s)

VARIABLES file,     \* the File
          origin,   \* the entry behind srcFunc
          unread,   \* what is left of the reader given to AddReader
          wpc,      \* the writing: "idle", "choose", "encode", "finish"
          parallel, seekable,   \* how it writes
          snap,     \* the FileSnapshot
          body,     \* the bytes produced for it
          out,      \* what the last writing left, or nothing
          excuse,   \* why the outcome of this writing is not what was asked
          sets, writes

settings == <<origin, unread>>
writer == <<wpc, parallel, seekable, snap, body, out>>
vars == <<file, settings, writer, excuse, sets, writes>>

-----------------------------------------------------------------------------
(* Reading: newFileFromCentralDir, openFile, checksumReader                *)

Load(s, pwd) ==
    LET c == [method |-> s.method, level |-> 0, enc |-> s.enc, pwd |-> pwd] IN
    [src |-> c, config |-> c, from |-> "archive", size |-> s.size, csize |-> s.csize, crc |-> s.crc, time |-> s.time]

(* The password check: the reader expects the time if bit 3 is set.        *)
PasswordAccepted(f, s) ==
    /\ f.src.pwd # "" /\ f.src.pwd = s.body.pwd
    /\ s.enc = "ZipCrypto" =>
         s.body.check = IF s.dd THEN [of |-> "time", value |-> f.time] ELSE [of |-> "crc", value |-> f.crc]

\* mutant: the settings for writing are used to read
DecodesConfig(f, s) == f.config.enc = s.body.enc /\ f.config.method = s.body.method

(* The pipeline built from srcConfig fits the data.                        *)
Decodes(f, s) == s.enc = s.body.enc /\ f.src.method = s.body.method

Answer(n, error) == [got |-> n, err |-> error]

(* What reading to the end gives: the section's length, the size and the   *)
(* checksum are those of the File now.  Data that ends early is no error.  *)
Reads(f, s) ==
    LET room == f.csize - Overhead(s.enc)
        n == IF f.src.method = "Store" THEN room ELSE s.body.plain
    IN
    CASE s.enc # "NotEncrypted" /\ ~ PasswordAccepted(f, s) -> Answer(0, "password")
      [] s.enc = "NotEncrypted" \/ PasswordAccepted(f, s) ->
           IF \/ ~ Decodes(f, s) \/ room < 0
              \/ f.src.method = "Deflate" /\ room < Plain(s.body)
              \/ f.src.method = "Store" /\ s.enc = "AES256" /\ room # Plain(s.body)
              \/ f.size > 0 /\ n > f.size
           THEN Answer(0, "data")
           ELSE Answer(n, IF n = f.size /\ f.crc # s.body.plain THEN "checksum" ELSE "")

(* AES entries carry no checksum, which every reader is told at Close.     *)
Good(s) == Answer(Size, IF s.enc = "AES256" THEN "checksum" ELSE "")

-----------------------------------------------------------------------------
(* A File is made with the archive's settings and the options of Add       *)
(* (addEntry: a password alone means AES256), or loaded.                   *)
Added(c) == IF c.pwd # "" /\ c.enc = "NotEncrypted" THEN [c EXCEPT !.enc = "AES256"] ELSE c

NewFile(c, from, size) ==
    [src |-> [method |-> "Store", level |-> 0, enc |-> "NotEncrypted", pwd |-> ""], config |-> Added(c),
     from |-> from, size |-> size, csize |-> 0, crc |-> 0, time |-> 0]

NoEntry == [body |-> <<>>]

Init ==
    /\ \/ \E c \in Settings, size \in {Size, Unknown} : file = NewFile(c, "reader", size) /\ origin = NoEntry
       \/ \E s \in Foreign, pwd \in Passwords \cup {""} : file = Load(s, pwd) /\ origin = s
    /\ unread = Size
    /\ wpc = "idle" /\ parallel = FALSE /\ seekable = FALSE /\ snap = <<>> /\ body = <<>> /\ out = NoEntry
    /\ excuse = {} /\ sets = 0 /\ writes = 0

-----------------------------------------------------------------------------
(* The setters.  The passwords of Verify and of WriteTo are given to       *)
(* WithPassword, those of ExtractTo to WithSourcePassword.                 *)

WithCompression(f, m, l) == [f EXCEPT !.config.method = m, !.config.level = l]
WithEncryption(f, e, p) == [f EXCEPT !.config.enc = e, !.config.pwd = p]
WithPassword(f, p) ==
    [f EXCEPT !.config.enc = IF @ = "NotEncrypted" THEN "AES256" ELSE @, !.config.pwd = p]
WithDisableEncryption(f) == [f EXCEPT !.config.enc = "NotEncrypted", !.config.pwd = ""]
WithSourcePassword(f, p) == [f EXCEPT !.src.pwd = p]
WithModTime(f, t) == [f EXCEPT !.time = t]
WithUncompressedSize(f, n) == [f EXCEPT !.size = n]
WithOpenFunc(f) == [f EXCEPT !.from = "func"]

Set ==
    /\ sets < MaxSets /\ sets' = sets + 1
    /\ \/ \E m \in Methods, l \in Levels : file' = WithCompression(file, m, l)
       \/ \E e \in Encryptions, p \in Passwords \cup {""} : file' = WithEncryption(file, e, p)
       \/ \E p \in Passwords : file' = WithPassword(file, p)
       \/ file' = WithDisableEncryption(file)
       \/ \E p \in Passwords : file' = WithSourcePassword(file, p)
       \/ \E t \in Times : file' = WithModTime(file, t)
       \/ \E n \in {Size, Unknown} : file' = WithUncompressedSize(file, n)
       \/ file' = WithOpenFunc(file)
    /\ excuse' = IF wpc # "idle" THEN excuse \cup {"changed"} ELSE excuse
    /\ UNCHANGED <<settings, writer, writes>>

(* Load of an archive that was written well, with one password or another. *)
Reload ==
    /\ wpc = "idle" /\ out # NoEntry /\ excuse = {} /\ sets < MaxSets /\ sets' = sets + 1
    /\ \E p \in Passwords : file' = Load(out, p)
    /\ origin' = out /\ out' = NoEntry
    /\ UNCHANGED <<unread, wpc, parallel, seekable, snap, body, excuse, writes>>

-----------------------------------------------------------------------------
(* Writing                                                                 *)

(* The sizes and the checksum of a loaded File are those of its source no  *)
(* more: it was encoded anew for an archive written before.                *)
Overwritten(f) == f.from = "archive" /\ <<f.size, f.csize, f.crc>> # <<origin.size, origin.csize, origin.crc>>

FillSnapshot(f) == [config |-> f.config, size |-> f.size, csize |-> f.csize, crc |-> f.crc, time |-> f.time, dd |-> FALSE]
ResetEncodeOptions(s) ==
    [s EXCEPT !.config = [method |-> "Store", level |-> 0, enc |-> "NotEncrypted", pwd |-> ""]]

Start ==
    /\ wpc = "idle" /\ writes < MaxWrites /\ writes' = writes + 1
    /\ parallel' \in BOOLEAN /\ seekable' \in BOOLEAN
    /\ snap' = LET s == FillSnapshot(file) IN IF s.size = 0 THEN ResetEncodeOptions(s) ELSE s
    /\ wpc' = IF parallel' THEN "encode" ELSE "choose"
    /\ body' = <<>> /\ out' = NoEntry
    /\ excuse' = IF Overwritten(file) THEN {"overwritten"} ELSE {}
    /\ UNCHANGED <<file, settings, sets>>

(* WriteFile looks at the File for the way to write it: with a data        *)
(* descriptor or a header to be patched, or by way of a temporary file.    *)
Choose ==
    /\ wpc = "choose" /\ wpc' = "encode"
    /\ LET stream == file.config.enc = "NotEncrypted" /\ (seekable => file.size # Unknown) IN
       snap' = IF ~ stream THEN snap
               ELSE [snap EXCEPT !.dd = ~ seekable, !.csize = IF snap.config.method = "Store" THEN snap.size ELSE @]
    /\ UNCHANGED <<file, settings, parallel, seekable, body, out, excuse, sets, writes>>

\* mutant: the passwords are not compared
CopyRawWhateverThePassword(f) ==
    /\ f.from = "archive"
    /\ f.config.method = f.src.method /\ f.config.level = f.src.level /\ f.config.enc = f.src.enc

shouldCopyRaw(f) ==
    /\ f.from = "archive"
    /\ f.config.method = f.src.method /\ f.config.level = f.src.level /\ f.config.enc = f.src.enc
    /\ f.config.enc # "NotEncrypted" => f.config.pwd \in {"", f.src.pwd}

CopyRaw ==
    /\ wpc = "encode" /\ shouldCopyRaw(file)
    /\ body' = origin.body /\ wpc' = "finish"
    /\ excuse' = IF origin.dd /\ origin.enc = "ZipCrypto" THEN excuse \cup {"foreign check"} ELSE excuse
    /\ UNCHANGED <<file, settings, parallel, seekable, snap, out, sets, writes>>

(* What Open and reading to its end give for the encoder, which does not   *)
(* look at what Close returns.                                             *)
Given(f) == CASE f.from = "archive" -> LET r == Reads(f, origin) IN
                                       Answer(r.got, IF r.err = "checksum" THEN "" ELSE r.err)
              [] f.from = "reader" -> Answer(unread, "")
              [] f.from = "func" -> Answer(Size, "")

Published(f, s) == [f EXCEPT !.size = s.size, !.csize = s.csize, !.crc = s.crc]

Result(s, b) == [s EXCEPT !.size = b.plain, !.csize = Length(b), !.crc = IF b.enc = "AES256" THEN 0 ELSE b.plain]

EncodeAnew ==
    /\ wpc = "encode" /\ ~ shouldCopyRaw(file)
    /\ Given(file).err = "" /\ snap.size \in {Unknown, Given(file).got}
    /\ body' = Encode(snap.config, Given(file).got)
    /\ snap' = Result(snap, body')
    /\ file' = IF parallel THEN file ELSE Published(file, snap')
    /\ unread' = IF file.from = "reader" THEN 0 ELSE unread
    /\ excuse' = excuse
         \cup (IF snap.config.enc # "NotEncrypted" /\ snap.config.pwd = "" THEN {"no password"} ELSE {})
         \cup (IF file.from = "reader" /\ unread < Size THEN {"spent"} ELSE {})
    /\ wpc' = "finish"
    /\ UNCHANGED <<origin, parallel, seekable, out, sets, writes>>

(* The source or the destination fails, or the size is not the one given;  *)
(* a reader has been read in part or to its end.                           *)
Fail ==
    /\ wpc = "encode" /\ wpc' = "idle"
    /\ unread' \in IF file.from = "reader" /\ ~ shouldCopyRaw(file) THEN {unread, unread \div 2, 0} ELSE {unread}
    /\ UNCHANGED <<file, origin, parallel, seekable, snap, body, out, excuse, sets, writes>>

HeaderMethod(s) == IF s.size = 0 /\ s.config.enc # "AES256" THEN "Store" ELSE s.config.method

Written == [method |-> HeaderMethod(snap), enc |-> snap.config.enc, dd |-> snap.dd, size |-> snap.size,
            csize |-> snap.csize, crc |-> snap.crc, time |-> snap.time, body |-> body]

(* Header and central directory; a parallel writer tells the File what has *)
(* become of it, even if its entry could not be written.                   *)
Finish ==
    /\ wpc = "finish" /\ wpc' = "idle"
    /\ file' = IF parallel THEN Published(file, snap) ELSE file
    /\ out' \in {NoEntry, Written}
    /\ UNCHANGED <<settings, parallel, seekable, snap, body, excuse, sets, writes>>

Next == Set \/ Reload \/ Start \/ Choose \/ CopyRaw \/ EncodeAnew \/ Fail \/ Finish
Spec == Init /\ [][Next]_vars

-----------------------------------------------------------------------------
(* Properties                                                              *)

(* An entry that was written without an error reads back, with its         *)
(* password, as the content the File was made with, whatever settings the  *)
(* File has gone through and however it was written and loaded before      *)
(* (file.go shouldCopyRaw, writer.go encodeToAndUpdate and compressFile,   *)
(* reader.go openFile).  Each excuse is a case the README describes.       *)
WrittenReadsBack ==
    out # NoEntry /\ excuse = {} /\ wpc = "idle" => Reads(Load(out, out.body.pwd), out) = Good(out)

(* What is written is encrypted as the File's settings ask, and with their *)
(* password; only an entry copied as it is may keep the password it had    *)
(* (file.go WithPassword, WithEncryption, WithDisableEncryption).  Left out*)
(* is a copy of a File that takes itself for empty, which writes the       *)
(* headers of an empty entry (writer.go ResetEncodeOptions, README).       *)
WrittenAsAsked ==
    wpc = "finish" /\ "changed" \notin excuse /\ ~ (snap.size = 0 /\ body = origin.body) =>
        /\ body.enc = snap.config.enc /\ body.method = snap.config.method
        /\ body.enc # "NotEncrypted" /\ snap.config.pwd # "" =>
             body.pwd = snap.config.pwd \/ (body = origin.body /\ file.src.pwd = snap.config.pwd)

Opened == IF file.from = "archive" THEN Reads(file, origin) ELSE <<>>

(* A loaded File opens as before whatever is set and written, until it is  *)
(* encoded anew (README), its modification time is changed under a         *)
(* ZipCrypto entry with a data descriptor, its size or the password of its *)
(* source is set (file.go Open: "the source config is used").              *)
OpensUntilEncodedAnew ==
    [][\/ Opened' = Opened \/ "archive" \notin {file.from} \cap {file'.from} \/ origin' # origin
       \/ Overwritten(file) \/ Overwritten(file)'
       \/ file'.src.pwd # file.src.pwd
       \/ file'.time # file.time /\ origin.dd /\ origin.enc = "ZipCrypto"]_vars

=============================================================================
