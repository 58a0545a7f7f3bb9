---------------------------- MODULE EntryProofs ----------------------------
(***************************************************************************)
(* Proofs about Entry, for any contents, settings, passwords and foreign   *)
(* entries, and any number of setters and writings: what is written reads  *)
(* back, is encrypted as asked, and opens as before until it is encoded    *)
(* anew.                                                                   *)
(***************************************************************************)
EXTENDS Entry, TLAPS

----------------------------------------------------------------------------
(* The inductive invariant                                                 *)

TheFiles == [src : FileConfig, config : FileConfig, from : {"archive", "reader", "func"},
             size : Int, csize : Int, crc : Int, time : Times]
Snapshots == [config : FileConfig, size : Int, csize : Int, crc : Int, time : Times, dd : BOOLEAN]

(***************************************************************************)
(* Every variable has its type; what a writing has made, it has made by    *)
(* the step that needs it.                                                 *)
(***************************************************************************)
TypeOK ==
    /\ file \in TheFiles
    /\ origin \in Entries \cup {NoEntry} /\ out \in Entries \cup {NoEntry}
    /\ unread \in 0..Size
    /\ wpc \in {"idle", "choose", "encode", "finish"} /\ parallel \in BOOLEAN /\ seekable \in BOOLEAN
    /\ wpc # "idle" => snap \in Snapshots
    /\ wpc = "finish" => body \in Bodies
    /\ excuse \subseteq {"changed", "overwritten", "no password", "spent", "foreign check"}

(***************************************************************************)
(* The configuration of the source is that of the entry behind it, which   *)
(* is well made.                                                           *)
(***************************************************************************)
FromOrigin ==
    file.from = "archive" =>
        /\ origin \in Entries /\ WellMade(origin)
        /\ file.src.method = origin.method /\ file.src.enc = origin.enc

(***************************************************************************)
(* Until the data is written the snapshot is that of the File as it is,    *)
(* but for what Choose decides.                                            *)
(***************************************************************************)
Filled(f) == LET s == FillSnapshot(f) IN IF s.size = 0 THEN ResetEncodeOptions(s) ELSE s

Chosen ==
    /\ snap.config = Filled(file).config /\ snap.size = file.size /\ snap.crc = file.crc /\ snap.time = file.time
    /\ \/ snap.csize = file.csize
       \/ file.config.enc = "NotEncrypted" /\ snap.config.method = "Store" /\ snap.csize = snap.size
    /\ snap.dd => file.config.enc = "NotEncrypted"

Prepared ==
    /\ wpc = "choose" /\ "changed" \notin excuse => snap = Filled(file)
    /\ wpc = "encode" /\ "changed" \notin excuse => Chosen
    /\ wpc \in {"choose", "encode"} /\ excuse = {} => ~ Overwritten(file)

(***************************************************************************)
(* What has been written, and what is about to be, is well made.           *)
(***************************************************************************)
Outcome ==
    /\ wpc = "finish" /\ excuse = {} => WellMade(Written)
    /\ wpc = "idle" /\ excuse = {} /\ out # NoEntry => WellMade(out)
    /\ wpc # "idle" => out = NoEntry

IInv == TypeOK /\ FromOrigin /\ Prepared /\ Outcome /\ WrittenAsAsked

----------------------------------------------------------------------------
(* What is read                                                            *)

\* The constants, one by one.
LEMMA Constants ==
    /\ Size \in Nat /\ Size # 0 /\ 0 \in Levels /\ "" \notin Passwords /\ 0 \in Times
    /\ \A l \in Levels : Packed[l] \in Nat
    /\ Settings \subseteq FileConfig /\ Foreign \subseteq Entries /\ \A s \in Foreign : WellMade(s)
BY EntryAssumption

LEMMA SizeType == \A n \in {Size, Unknown} : n \in Int
<1>1. Size \in Nat
  BY Constants
<1>2. Unknown \in Int
  BY DEF Unknown
<1> QED BY <1>1, <1>2

LEMMA NoEntryApart == NoEntry \notin Entries
<1>1. ASSUME NEW s \in Entries PROVE s # NoEntry
  <2>1. DOMAIN s # {"body"}
    BY DEF Entries
  <2>2. DOMAIN NoEntry = {"body"}
    BY DEF NoEntry
  <2> QED BY <2>1, <2>2
<1> QED BY <1>1

LEMMA AnswerParts == ASSUME NEW x, NEW g, NEW e, x = Answer(g, e) PROVE x.got = g /\ x.err = e
BY DEF Answer

LEMMA ChecksumIgnored ==
    ASSUME NEW r, NEW x, x = Answer(r.got, IF r.err = "checksum" THEN "" ELSE r.err), x.err = ""
    PROVE  x.got = r.got /\ r.err \in {"", "checksum"}
<1>1. x.got = r.got /\ x.err = IF r.err = "checksum" THEN "" ELSE r.err
  BY AnswerParts
<1> QED BY <1>1

\* The bytes of an entry that is well made, without the framing of its encryption.
LEMMA PlainLength ==
    ASSUME NEW s \in Entries, WellMade(s)
    PROVE  /\ s.csize - Overhead(s.enc) = Plain(s.body) /\ Plain(s.body) \in Nat
           /\ s.method = "Store" => Plain(s.body) = Size
<1>1. /\ s.enc \in Encryptions /\ s.body.level \in Levels /\ s.body.method \in Methods
      /\ s.csize = Plain(s.body) + Overhead(s.enc) /\ s.body.plain = Size /\ s.method = s.body.method
  BY DEF Entries, Bodies, WellMade, Length
<1>2. Overhead(s.enc) \in {0, 12, 28}
  BY <1>1 DEF Encryptions, Overhead
<1>3. Plain(s.body) = IF s.method = "Store" THEN Size ELSE Packed[s.body.level]
  <2>1. Plain(s.body) = IF s.method = "Store" THEN Size ELSE Packed[s.body.level] - (Size - Size)
    BY <1>1 DEF Plain
  <2>2. Packed[s.body.level] - (Size - Size) = Packed[s.body.level]
    <3>1. Packed[s.body.level] \in Nat /\ Size \in Nat
      BY <1>1, Constants
    <3> QED BY <3>1
  <2> QED BY <2>1, <2>2
<1>4. Plain(s.body) \in Nat
  BY <1>1, <1>3, Constants
<1> QED BY <1>1, <1>2, <1>3, <1>4

\* An entry that is well made reads back.
LEMMA ReadsBack ==
    ASSUME NEW s \in Entries, WellMade(s)
    PROVE  Reads(Load(s, s.body.pwd), s) = Good(s)
<1> DEFINE f == Load(s, s.body.pwd)
           room == f.csize - Overhead(s.enc)
           n == IF f.src.method = "Store" THEN room ELSE s.body.plain
<1>1. /\ f.src.method = s.method /\ f.src.pwd = s.body.pwd /\ f.csize = s.csize /\ f.size = s.size
      /\ f.crc = s.crc /\ f.time = s.time
  BY DEF Load
<1>2. s.enc # "NotEncrypted" => PasswordAccepted(f, s)
  <2> HIDE DEF f
  <2> QED BY <1>1 DEF PasswordAccepted, WellMade
<1>3. Decodes(f, s)
  <2> HIDE DEF f
  <2> QED BY <1>1 DEF Decodes, WellMade
<1>4. room = Plain(s.body) /\ Plain(s.body) \in Nat /\ n = Size
  BY <1>1, PlainLength DEF WellMade
<1>5. f.size = Size /\ (f.crc # s.body.plain <=> s.enc = "AES256")
  BY <1>1, Constants DEF WellMade
<1> HIDE DEF f, room, n
<1>6. ~ (\/ ~ Decodes(f, s) \/ room < 0
         \/ f.src.method = "Deflate" /\ room < Plain(s.body)
         \/ f.src.method = "Store" /\ s.enc = "AES256" /\ room # Plain(s.body)
         \/ f.size > 0 /\ n > f.size)
  <2>1. Size \in Nat
    BY Constants
  <2> QED BY <1>3, <1>4, <1>5, <2>1
<1>7. Reads(f, s) = Answer(n, IF n = f.size /\ f.crc # s.body.plain THEN "checksum" ELSE "")
  BY <1>2, <1>6 DEF Reads, room, n
<1> QED BY <1>4, <1>5, <1>7 DEF f, Good

\* A File that is as it was loaded gives all of the content, or an error.
LEMMA ReadsWhole ==
    ASSUME file \in TheFiles, FromOrigin, file.from = "archive", ~ Overwritten(file), Given(file).err = ""
    PROVE  Given(file).got = Size
<1> DEFINE room == file.csize - Overhead(origin.enc)
           n == IF file.src.method = "Store" THEN room ELSE origin.body.plain
<1>1. /\ origin \in Entries /\ WellMade(origin) /\ file.src.method = origin.method
      /\ file.size = origin.size /\ file.csize = origin.csize /\ file.crc = origin.crc
  BY DEF FromOrigin, Overwritten
<1>2. Given(file) = Answer(Reads(file, origin).got, IF Reads(file, origin).err = "checksum" THEN "" ELSE Reads(file, origin).err)
  BY DEF Given
<1>3. Given(file).got = Reads(file, origin).got /\ Reads(file, origin).err \in {"", "checksum"}
  BY <1>2, ChecksumIgnored
<1>4. Reads(file, origin).got = n
  BY <1>3 DEF Reads, Answer
<1>5. n = Size
  BY <1>1, PlainLength DEF WellMade
<1> QED BY <1>3, <1>4, <1>5

\* What is given has a length.
LEMMA GivenType ==
    ASSUME TypeOK, FromOrigin
    PROVE  Given(file).got \in Int
<1>1. CASE file.from = "archive"
  <2>1. origin \in Entries /\ file.csize \in Int
    BY <1>1 DEF FromOrigin, TypeOK, TheFiles
  <2>2. Overhead(origin.enc) \in Int /\ origin.body.plain \in Int
    <3>1. origin.enc \in Encryptions /\ origin.body.plain \in Int
      BY <2>1 DEF Entries, Bodies
    <3> QED BY <3>1 DEF Overhead, Encryptions
  <2>3. Reads(file, origin).got \in {0, file.csize - Overhead(origin.enc), origin.body.plain}
    BY DEF Reads, Answer
  <2>4. Given(file).got = Reads(file, origin).got
    BY <1>1 DEF Given, Answer
  <2> QED BY <2>1, <2>2, <2>3, <2>4
<1>2. CASE file.from \in {"reader", "func"}
  <2>1. Given(file) = Answer(unread, "") \/ Given(file) = Answer(Size, "")
    BY <1>2 DEF Given
  <2>3. Given(file).got = unread \/ Given(file).got = Size
    BY <2>1, AnswerParts
  <2>4. unread \in 0..Size /\ Size \in Nat
    BY Constants DEF TypeOK
  <2> QED BY <2>3, <2>4
<1> QED BY <1>1, <1>2 DEF TypeOK, TheFiles

----------------------------------------------------------------------------
(* What the steps do to the File                                           *)

LEMMA FileType ==
    ASSUME NEW a \in FileConfig, NEW b \in FileConfig, NEW from \in {"archive", "reader", "func"},
           NEW size \in Int, NEW csize \in Int, NEW crc \in Int, NEW time \in Times
    PROVE  [src |-> a, config |-> b, from |-> from, size |-> size, csize |-> csize, crc |-> crc, time |-> time] \in TheFiles
BY DEF TheFiles

\* The same of any record that is made of such values.
LEMMA FileMade ==
    ASSUME NEW f, NEW a \in FileConfig, NEW b \in FileConfig, NEW from \in {"archive", "reader", "func"},
           NEW size \in Int, NEW csize \in Int, NEW crc \in Int, NEW time \in Times,
           f = [src |-> a, config |-> b, from |-> from, size |-> size, csize |-> csize, crc |-> crc, time |-> time]
    PROVE  f \in TheFiles
BY FileType

LEMMA ConfigType ==
    /\ \A c \in FileConfig : Added(c) \in FileConfig
    /\ \A m \in Methods, l \in Levels, e \in Encryptions, p \in Passwords \cup {""} :
         [method |-> m, level |-> l, enc |-> e, pwd |-> p] \in FileConfig
BY DEF Added, FileConfig, Encryptions

\* A loaded File has the configuration of its entry.
LEMMA LoadType ==
    ASSUME NEW s \in Entries, NEW pwd \in Passwords \cup {""}
    PROVE  /\ Load(s, pwd) \in TheFiles /\ Load(s, pwd).from = "archive"
           /\ Load(s, pwd).src.method = s.method /\ Load(s, pwd).src.enc = s.enc
<1> DEFINE c == [method |-> s.method, level |-> 0, enc |-> s.enc, pwd |-> pwd]
<1>1. c \in FileConfig
  BY ConfigType, Constants DEF Entries
<1>2. c.method = s.method /\ c.enc = s.enc
  OBVIOUS
<1>3. s.size \in Int /\ s.csize \in Int /\ s.crc \in Int /\ s.time \in Times
  BY DEF Entries
<1>4. Load(s, pwd) = [src |-> c, config |-> c, from |-> "archive", size |-> s.size, csize |-> s.csize, crc |-> s.crc, time |-> s.time]
  BY DEF Load
<1> HIDE DEF c
<1>5. Load(s, pwd) \in TheFiles
  <2> DEFINE size == s.size
             csize == s.csize
             crc == s.crc
             time == s.time
  <2>1. size \in Int /\ csize \in Int /\ crc \in Int /\ time \in Times
    BY <1>3
  <2>2. Load(s, pwd) = [src |-> c, config |-> c, from |-> "archive", size |-> size, csize |-> csize, crc |-> crc, time |-> time]
    BY <1>4
  <2> HIDE DEF size, csize, crc, time
  <2> QED BY <1>1, <2>1, <2>2, FileMade, Zenon
<1>6. Load(s, pwd).from = "archive"
  BY DEF Load
<1>7. Load(s, pwd).src = c
  BY DEF Load, c
<1> QED BY <1>2, <1>5, <1>6, <1>7

LEMMA NewFileType ==
    ASSUME NEW c \in Settings, NEW size \in {Size, Unknown}
    PROVE  NewFile(c, "reader", size) \in TheFiles /\ NewFile(c, "reader", size).from = "reader"
<1>1. [method |-> "Store", level |-> 0, enc |-> "NotEncrypted", pwd |-> ""] \in FileConfig
  BY ConfigType, Constants DEF Methods, Encryptions
<1>2. Added(c) \in FileConfig
  BY ConfigType, Constants
<1>3. size \in Int /\ 0 \in Times
  BY SizeType, Constants
<1>4. NewFile(c, "reader", size) \in TheFiles
  <2> DEFINE a == [method |-> "Store", level |-> 0, enc |-> "NotEncrypted", pwd |-> ""]
             b == Added(c)
  <2>1. a \in FileConfig /\ b \in FileConfig
    BY <1>1, <1>2
  <2>2. NewFile(c, "reader", size) =
          [src |-> a, config |-> b, from |-> "reader", size |-> size, csize |-> 0, crc |-> 0, time |-> 0]
    BY DEF NewFile
  <2> HIDE DEF a, b
  <2> QED BY <1>3, <2>1, <2>2, FileType
<1> QED BY <1>4 DEF NewFile

\* A setter changes the source's configuration in its password only.
LEMMA SetFile ==
    ASSUME file \in TheFiles, Set
    PROVE  /\ file' \in TheFiles /\ file'.from \in {file.from, "func"}
           /\ file'.src.method = file.src.method /\ file'.src.enc = file.src.enc
<1>0. file.config \in FileConfig /\ file.src \in FileConfig
  BY DEF TheFiles
<1> DEFINE Kept == /\ file' \in TheFiles /\ file'.from = file.from
                   /\ file'.src.method = file.src.method /\ file'.src.enc = file.src.enc
<1>c. ASSUME NEW c \in FileConfig, file' = [file EXCEPT !.config = c] PROVE Kept
  BY <1>c DEF TheFiles
<1>1. CASE \E m \in Methods, l \in Levels : file' = WithCompression(file, m, l)
  <2>1. PICK m \in Methods, l \in Levels : file' = WithCompression(file, m, l)
    BY <1>1
  <2> DEFINE c == [file.config EXCEPT !.method = m, !.level = l]
  <2>2. c \in FileConfig
    BY <1>0 DEF FileConfig
  <2>3. file' = [file EXCEPT !.config = c]
    BY <1>0, <2>1 DEF WithCompression, TheFiles
  <2> QED BY <1>c, <2>2, <2>3
<1>2. CASE \E e \in Encryptions, p \in Passwords \cup {""} : file' = WithEncryption(file, e, p)
  <2>1. PICK e \in Encryptions, p \in Passwords \cup {""} : file' = WithEncryption(file, e, p)
    BY <1>2
  <2> DEFINE c == [file.config EXCEPT !.enc = e, !.pwd = p]
  <2>2. c \in FileConfig
    BY <1>0 DEF FileConfig
  <2>3. file' = [file EXCEPT !.config = c]
    BY <1>0, <2>1 DEF WithEncryption, TheFiles
  <2> QED BY <1>c, <2>2, <2>3
<1>3. CASE \E p \in Passwords : file' = WithPassword(file, p)
  <2>1. PICK p \in Passwords : file' = WithPassword(file, p)
    BY <1>3
  <2> DEFINE c == [file.config EXCEPT !.enc = IF @ = "NotEncrypted" THEN "AES256" ELSE @, !.pwd = p]
  <2>2. c \in FileConfig
    BY <1>0 DEF FileConfig, Encryptions
  <2>3. file' = [file EXCEPT !.config = c]
    BY <1>0, <2>1 DEF WithPassword, TheFiles
  <2> QED BY <1>c, <2>2, <2>3
<1>4. CASE file' = WithDisableEncryption(file)
  BY <1>0, <1>4 DEF WithDisableEncryption, TheFiles, FileConfig, Encryptions
<1>5. CASE \E p \in Passwords : file' = WithSourcePassword(file, p)
  <2>1. PICK p \in Passwords : file' = WithSourcePassword(file, p)
    BY <1>5
  <2> DEFINE c == [file.src EXCEPT !.pwd = p]
  <2>2. c \in FileConfig /\ c.method = file.src.method /\ c.enc = file.src.enc
    BY <1>0 DEF FileConfig
  <2>3. file' = [file EXCEPT !.src = c]
    BY <1>0, <2>1 DEF WithSourcePassword, TheFiles
  <2> HIDE DEF c
  <2> QED BY <2>2, <2>3 DEF TheFiles
<1>6. CASE \E t \in Times : file' = WithModTime(file, t)
  BY <1>6 DEF WithModTime, TheFiles
<1>7. CASE \E n \in {Size, Unknown} : file' = WithUncompressedSize(file, n)
  <2>1. PICK n \in {Size, Unknown} : file' = WithUncompressedSize(file, n)
    BY <1>7
  <2>2. n \in Int
    BY SizeType
  <2> QED BY <2>1, <2>2 DEF WithUncompressedSize, TheFiles
<1>8. CASE file' = WithOpenFunc(file)
  BY <1>8 DEF WithOpenFunc, TheFiles
<1> QED BY <1>1, <1>2, <1>3, <1>4, <1>5, <1>6, <1>7, <1>8 DEF Set

\* The snapshot has what the File has.
LEMMA FilledParts ==
    ASSUME NEW f \in TheFiles
    PROVE  /\ Filled(f) \in Snapshots
           /\ Filled(f).size = f.size /\ Filled(f).csize = f.csize /\ Filled(f).crc = f.crc
           /\ Filled(f).time = f.time /\ Filled(f).dd = FALSE
           /\ f.size # 0 => Filled(f).config = f.config
<1>1. [method |-> "Store", level |-> 0, enc |-> "NotEncrypted", pwd |-> ""] \in FileConfig
  BY ConfigType, Constants DEF Methods, Encryptions
<1> DEFINE s == FillSnapshot(f)
<1>2. /\ s \in Snapshots /\ s.size = f.size /\ s.csize = f.csize /\ s.crc = f.crc /\ s.time = f.time
      /\ s.dd = FALSE /\ s.config = f.config
  BY DEF FillSnapshot, Snapshots, TheFiles
<1>3. Filled(f) = IF f.size = 0 THEN [s EXCEPT !.config = [method |-> "Store", level |-> 0, enc |-> "NotEncrypted", pwd |-> ""]] ELSE s
  BY <1>2 DEF Filled, ResetEncodeOptions
<1> HIDE DEF s
<1> QED BY <1>1, <1>2, <1>3 DEF Snapshots

\* What a writing publishes are the sizes and the checksum.
LEMMA PublishedParts ==
    ASSUME NEW f \in TheFiles, NEW s \in Snapshots
    PROVE  /\ Published(f, s) \in TheFiles
           /\ Published(f, s).from = f.from /\ Published(f, s).src = f.src /\ Published(f, s).time = f.time
BY DEF Published, TheFiles, Snapshots

LEMMA WrittenType ==
    ASSUME snap \in Snapshots, body \in Bodies
    PROVE  Written \in Entries
<1>1. HeaderMethod(snap) \in Methods /\ snap.config.enc \in Encryptions
  BY DEF HeaderMethod, Snapshots, FileConfig, Methods
<1> QED BY <1>1 DEF Written, Entries, Snapshots

----------------------------------------------------------------------------
(* Every step keeps the invariant                                          *)

LEMMA InitIInv == Init => IInv
<1> SUFFICES ASSUME Init PROVE IInv
  OBVIOUS
<1>0. /\ unread \in 0..Size /\ wpc = "idle" /\ parallel = FALSE /\ seekable = FALSE /\ out = NoEntry /\ excuse = {}
  <2>1. Size \in 0..Size
    <3>1. Size \in Nat
      BY Constants
    <3> QED BY <3>1
  <2> QED BY <2>1 DEF Init
<1>1. CASE \E c \in Settings, size \in {Size, Unknown} : file = NewFile(c, "reader", size) /\ origin = NoEntry
  <2>1. file \in TheFiles /\ file.from = "reader" /\ origin = NoEntry
    BY <1>1, NewFileType
  <2>2. TypeOK
    BY <1>0, <2>1, Constants DEF TypeOK
  <2> QED BY <1>0, <2>1, <2>2 DEF IInv, FromOrigin, Prepared, Outcome, WrittenAsAsked
<1>2. CASE \E s \in Foreign, pwd \in Passwords \cup {""} : file = Load(s, pwd) /\ origin = s
  <2>1. PICK s \in Foreign, pwd \in Passwords \cup {""} : file = Load(s, pwd) /\ origin = s
    BY <1>2
  <2>2. s \in Entries /\ WellMade(s)
    BY Constants
  <2>3. file \in TheFiles /\ file.src.method = s.method /\ file.src.enc = s.enc
    BY <2>1, <2>2, LoadType
  <2>4. TypeOK
    BY <1>0, <2>1, <2>2, <2>3, Constants DEF TypeOK
  <2> QED BY <1>0, <2>1, <2>2, <2>3, <2>4 DEF IInv, FromOrigin, Prepared, Outcome, WrittenAsAsked
<1> QED BY <1>1, <1>2 DEF Init

\* A setter: what it disturbs in a writing is known to have changed.
LEMMA SetIInv == ASSUME IInv, Set PROVE IInv'
<1>1. UNCHANGED <<origin, unread, wpc, parallel, seekable, snap, body, out>>
  BY DEF Set, settings, writer
<1>2. excuse' = IF wpc # "idle" THEN excuse \cup {"changed"} ELSE excuse
  BY DEF Set
<1>3. /\ file' \in TheFiles /\ file'.from \in {file.from, "func"}
      /\ file'.src.method = file.src.method /\ file'.src.enc = file.src.enc
  BY SetFile DEF IInv, TypeOK
<1>4. TypeOK'
  BY <1>1, <1>2, <1>3 DEF IInv, TypeOK
<1>5. FromOrigin'
  BY <1>1, <1>3 DEF IInv, FromOrigin
<1>6. wpc # "idle" => "changed" \in excuse'
  BY <1>2
<1>7. Prepared' /\ WrittenAsAsked'
  BY <1>1, <1>6 DEF Prepared, WrittenAsAsked
<1>8. Outcome'
  BY <1>1, <1>2, <1>6 DEF IInv, Outcome
<1> QED BY <1>4, <1>5, <1>7, <1>8 DEF IInv

\* An entry that was written well is loaded.
LEMMA ReloadIInv == ASSUME IInv, Reload PROVE IInv'
<1>1. /\ wpc = "idle" /\ out # NoEntry /\ excuse = {} /\ origin' = out /\ out' = NoEntry
      /\ UNCHANGED <<unread, wpc, parallel, seekable, snap, body, excuse>>
  BY DEF Reload
<1>2. out \in Entries /\ WellMade(out)
  BY <1>1 DEF IInv, TypeOK, Outcome
<1>3. PICK p \in Passwords : file' = Load(out, p)
  BY DEF Reload
<1>4. file' \in TheFiles /\ file'.src.method = out.method /\ file'.src.enc = out.enc
  BY <1>2, <1>3, LoadType
<1>5. TypeOK'
  BY <1>1, <1>2, <1>4 DEF IInv, TypeOK
<1> QED BY <1>1, <1>2, <1>4, <1>5 DEF IInv, FromOrigin, Prepared, Outcome, WrittenAsAsked

\* A writing begins with a snapshot of the File.
LEMMA StartIInv == ASSUME IInv, Start PROVE IInv'
<1>1. /\ wpc = "idle" /\ wpc' \in {"encode", "choose"} /\ parallel' \in BOOLEAN /\ seekable' \in BOOLEAN
      /\ out' = NoEntry /\ UNCHANGED <<file, origin, unread>>
  BY DEF Start, settings
<1>2. snap' = Filled(file) /\ excuse' = IF Overwritten(file) THEN {"overwritten"} ELSE {}
  BY DEF Start, Filled
<1>3. file \in TheFiles /\ Filled(file)' = Filled(file)
  BY <1>1 DEF IInv, TypeOK, Filled, FillSnapshot, ResetEncodeOptions
<1>4. TypeOK'
  BY <1>1, <1>2, <1>3, FilledParts DEF IInv, TypeOK
<1>5. FromOrigin'
  BY <1>1 DEF IInv, FromOrigin
<1>6. Chosen'
  <2>1. /\ snap'.size = file.size /\ snap'.csize = file.csize /\ snap'.crc = file.crc /\ snap'.time = file.time
        /\ snap'.dd = FALSE
    BY <1>2, <1>3, FilledParts
  <2> QED BY <1>1, <1>2, <1>3, <2>1 DEF Chosen
<1>7. Prepared'
  <2>1. excuse' = {} => ~ Overwritten(file)'
    BY <1>1, <1>2 DEF Overwritten
  <2> QED BY <1>1, <1>2, <1>3, <1>6, <2>1 DEF Prepared
<1> QED BY <1>1, <1>4, <1>5, <1>7 DEF IInv, Outcome, WrittenAsAsked

\* The way to write is chosen.
LEMMA ChooseIInv == ASSUME IInv, Choose PROVE IInv'
<1>1. /\ wpc = "choose" /\ wpc' = "encode"
      /\ UNCHANGED <<file, origin, unread, parallel, seekable, body, out, excuse>>
  BY DEF Choose, settings
<1>2. \/ snap' = snap
      \/ /\ file.config.enc = "NotEncrypted"
         /\ snap' = [snap EXCEPT !.dd = ~ seekable, !.csize = IF snap.config.method = "Store" THEN snap.size ELSE @]
  BY DEF Choose
<1>3. snap \in Snapshots /\ seekable \in BOOLEAN /\ file \in TheFiles
  BY <1>1 DEF IInv, TypeOK
<1>4. /\ snap' \in Snapshots /\ snap'.config = snap.config /\ snap'.size = snap.size /\ snap'.crc = snap.crc
      /\ snap'.time = snap.time
      /\ snap'.dd => snap.dd \/ file.config.enc = "NotEncrypted"
      /\ snap'.csize = snap.csize \/ (file.config.enc = "NotEncrypted" /\ snap.config.method = "Store" /\ snap'.csize = snap.size)
  <2>1. CASE snap' = snap
    BY <1>3, <2>1
  <2>2. CASE snap' # snap
    <3> DEFINE size == IF snap.config.method = "Store" THEN snap.size ELSE snap.csize
    <3>1. snap' = [snap EXCEPT !.dd = ~ seekable, !.csize = size] /\ file.config.enc = "NotEncrypted"
      BY <1>2, <2>2
    <3>2. size \in Int
      BY <1>3 DEF Snapshots
    <3>3. \/ size = snap.csize
          \/ snap.config.method = "Store" /\ size = snap.size
      OBVIOUS
    <3> HIDE DEF size
    <3> QED BY <1>3, <3>1, <3>2, <3>3 DEF Snapshots
  <2> QED BY <2>1, <2>2
<1>5. TypeOK'
  BY <1>1, <1>4 DEF IInv, TypeOK
<1>6. FromOrigin'
  BY <1>1 DEF IInv, FromOrigin
<1>7. Prepared'
  <2>1. Filled(file)' = Filled(file) /\ (Overwritten(file)' <=> Overwritten(file))
    BY <1>1 DEF Filled, FillSnapshot, ResetEncodeOptions, Overwritten
  <2>2. ASSUME "changed" \notin excuse PROVE Chosen'
    <3>1. snap = Filled(file)
      BY <1>1, <2>2 DEF IInv, Prepared
    <3>2. snap.dd = FALSE /\ snap.size = file.size /\ snap.csize = file.csize /\ snap.crc = file.crc /\ snap.time = file.time
      BY <1>3, <3>1, FilledParts
    <3> QED BY <1>1, <1>4, <2>1, <3>1, <3>2 DEF Chosen
  <2>3. excuse = {} => ~ Overwritten(file)
    BY <1>1 DEF IInv, Prepared
  <2> QED BY <1>1, <2>1, <2>2, <2>3 DEF Prepared
<1> QED BY <1>1, <1>5, <1>6, <1>7 DEF IInv, Outcome, WrittenAsAsked

\* Data is copied: the two configurations of the File, that of its entry and
\* that of the snapshot are the same.
LEMMA CopyRawIInv == ASSUME IInv, CopyRaw PROVE IInv'
<1>1. /\ wpc = "encode" /\ wpc' = "finish" /\ body' = origin.body /\ file.from = "archive"
      /\ file.config.method = file.src.method /\ file.config.enc = file.src.enc
      /\ file.config.enc # "NotEncrypted" => file.config.pwd \in {"", file.src.pwd}
      /\ UNCHANGED <<file, origin, unread, parallel, seekable, snap, out>>
  BY DEF CopyRaw, shouldCopyRaw, settings
<1>2. excuse' = IF origin.dd /\ origin.enc = "ZipCrypto" THEN excuse \cup {"foreign check"} ELSE excuse
  BY DEF CopyRaw
<1>3. /\ origin \in Entries /\ WellMade(origin) /\ file.src.method = origin.method /\ file.src.enc = origin.enc
      /\ snap \in Snapshots /\ file \in TheFiles /\ origin.body \in Bodies
  BY <1>1 DEF IInv, TypeOK, FromOrigin, Entries
<1>4. TypeOK'
  BY <1>1, <1>2, <1>3 DEF IInv, TypeOK
<1>5. FromOrigin'
  BY <1>1 DEF IInv, FromOrigin
<1>6. ASSUME "changed" \notin excuse
      PROVE  /\ Chosen /\ snap.size = file.size
             /\ snap.size # 0 => snap.config = file.config
  <2>1. Chosen
    BY <1>1, <1>6 DEF IInv, Prepared
  <2>2. snap.config = Filled(file).config /\ snap.size = file.size
    BY <2>1 DEF Chosen
  <2>3. file.size # 0 => Filled(file).config = file.config
    BY <1>3, FilledParts
  <2> QED BY <2>1, <2>2, <2>3
<1>7. ASSUME excuse' = {} PROVE WellMade(Written')
  <2>1. excuse = {} /\ ~ (origin.dd /\ origin.enc = "ZipCrypto")
    BY <1>2, <1>7
  <2>2. /\ origin.size = Size /\ origin.body.plain = Size /\ origin.method = origin.body.method
        /\ origin.enc = origin.body.enc /\ origin.csize = Length(origin.body)
        /\ origin.crc = IF origin.enc = "AES256" THEN 0 ELSE Size
        /\ origin.enc # "NotEncrypted" => origin.body.pwd # ""
        /\ origin.enc = "ZipCrypto" => origin.body.check = [of |-> "crc", value |-> origin.crc]
    BY <1>3, <2>1 DEF WellMade
  <2>3. file.size = origin.size /\ file.csize = origin.csize /\ file.crc = origin.crc
    BY <1>1, <2>1 DEF IInv, Prepared, Overwritten
  <2>4. snap.size = Size /\ snap.crc = origin.crc /\ snap.config = file.config
    BY <1>6, <2>1, <2>2, <2>3, Constants DEF Chosen
  <2>5. snap.csize = Length(origin.body)
    <3>1. CASE snap.csize = file.csize
      BY <3>1, <2>2, <2>3
    <3>2. CASE file.config.enc = "NotEncrypted" /\ snap.config.method = "Store" /\ snap.csize = snap.size
      <4>1. origin.enc = "NotEncrypted" /\ origin.method = "Store" /\ snap.csize = Size
        BY <1>1, <1>3, <2>4, <3>2
      <4>2. Plain(origin.body) = Size /\ Overhead(origin.body.enc) = 0
        BY <1>3, <2>2, <4>1, PlainLength DEF Overhead
      <4>3. Size + 0 = Size
        <5>1. Size \in Nat
          BY Constants
        <5> QED BY <5>1
      <4> QED BY <4>1, <4>2, <4>3 DEF Length
    <3> QED BY <1>6, <2>1, <3>1, <3>2 DEF Chosen
  <2>6. snap.dd => origin.enc = "NotEncrypted"
    BY <1>1, <1>3, <1>6, <2>1 DEF Chosen
  <2>7. HeaderMethod(snap) = origin.body.method /\ snap.config.enc = origin.body.enc
    BY <1>1, <1>3, <2>2, <2>4, Constants DEF HeaderMethod
  <2>8. Written' = [method |-> HeaderMethod(snap), enc |-> snap.config.enc, dd |-> snap.dd, size |-> snap.size,
                    csize |-> snap.csize, crc |-> snap.crc, time |-> snap.time, body |-> origin.body]
    BY <1>1 DEF Written, HeaderMethod
  <2>9. /\ Written'.method = origin.body.method /\ Written'.enc = origin.body.enc /\ Written'.dd = snap.dd
        /\ Written'.size = Size /\ Written'.csize = Length(origin.body) /\ Written'.crc = origin.crc
        /\ Written'.body = origin.body
    BY <2>4, <2>5, <2>7, <2>8
  <2>10. ASSUME NEW w, w = Written' PROVE WellMade(w)
    BY <2>2, <2>6, <2>9, <2>10 DEF WellMade
  <2> QED BY <2>10
<1>8. WrittenAsAsked'
  <2>1. SUFFICES ASSUME "changed" \notin excuse', snap.size # 0
                 PROVE  /\ origin.body.enc = snap.config.enc /\ origin.body.method = snap.config.method
                        /\ origin.body.enc # "NotEncrypted" /\ snap.config.pwd # "" => file.src.pwd = snap.config.pwd
    BY <1>1 DEF WrittenAsAsked
  <2>2. snap.config = file.config
    BY <1>2, <1>6, <2>1
  <2>3. origin.enc = origin.body.enc /\ origin.method = origin.body.method
    BY <1>3 DEF WellMade
  <2> QED BY <1>1, <1>3, <2>2, <2>3
<1>9. Outcome'
  <2>1. out' = NoEntry
    BY <1>1 DEF IInv, Outcome
  <2>2. WellMade(Written)' <=> WellMade(Written')
    BY DEF WellMade, Written, HeaderMethod, Length, Plain, Overhead
  <2> QED BY <1>1, <1>7, <2>1, <2>2 DEF Outcome
<1>10. Prepared'
  BY <1>1 DEF Prepared
<1> QED BY <1>4, <1>5, <1>8, <1>9, <1>10 DEF IInv

\* What was encoded for a snapshot is well made, if all of the content was
\* given and there is a password for the encryption.
LEMMA EncodedWell ==
    \A s \in Snapshots :
       /\ s.config.enc # "NotEncrypted" => s.config.pwd # "" /\ s.dd = FALSE
       /\ snap = Result(s, Encode(s.config, Size)) /\ body = Encode(s.config, Size)
       => WellMade(Written)
<1> SUFFICES ASSUME NEW s \in Snapshots,
                    s.config.enc # "NotEncrypted" => s.config.pwd # "" /\ s.dd = FALSE,
                    snap = Result(s, Encode(s.config, Size)), body = Encode(s.config, Size)
             PROVE  WellMade(Written)
  OBVIOUS
<1>1. /\ body.method = s.config.method /\ body.enc = s.config.enc /\ body.pwd = s.config.pwd /\ body.plain = Size
      /\ body.check = [of |-> "crc", value |-> Size]
  BY DEF Encode, CheckByte
<1>2. snap = [s EXCEPT !.size = body.plain, !.csize = Length(body), !.crc = IF body.enc = "AES256" THEN 0 ELSE body.plain]
  BY DEF Result
<1>3. /\ snap.size = Size /\ snap.csize = Length(body) /\ snap.crc = IF body.enc = "AES256" THEN 0 ELSE Size
      /\ snap.config = s.config /\ snap.dd = s.dd
  <2> DEFINE csize == Length(body)
  <2>1. snap = [s EXCEPT !.size = body.plain, !.csize = csize, !.crc = IF body.enc = "AES256" THEN 0 ELSE body.plain]
    BY <1>2
  <2> HIDE DEF csize
  <2>2. /\ snap.size = Size /\ snap.csize = csize /\ snap.crc = IF body.enc = "AES256" THEN 0 ELSE Size
        /\ snap.config = s.config /\ snap.dd = s.dd
    BY <1>1, <2>1 DEF Snapshots
  <2> QED BY <2>2 DEF csize
<1>4. HeaderMethod(snap) = body.method
  BY <1>1, <1>3, Constants DEF HeaderMethod
<1>5. /\ Written.method = body.method /\ Written.enc = body.enc /\ Written.dd = snap.dd
      /\ Written.size = Size /\ Written.csize = Length(body) /\ Written.crc = snap.crc
      /\ Written.body = body
  BY <1>1, <1>3, <1>4 DEF Written
<1>6. ASSUME NEW w, w = Written PROVE WellMade(w)
  BY <1>1, <1>3, <1>5, <1>6 DEF WellMade
<1> QED BY <1>6

LEMMA BodyParts ==
    ASSUME NEW m, NEW l, NEW e, NEW p, NEW k, NEW n, NEW b,
           b = [method |-> m, level |-> l, enc |-> e, pwd |-> p, check |-> k, plain |-> n]
    PROVE  b.method = m /\ b.level = l /\ b.enc = e /\ b.pwd = p /\ b.plain = n
OBVIOUS

LEMMA BodyType ==
    ASSUME NEW m \in Methods, NEW l \in Levels, NEW e \in Encryptions, NEW p \in Passwords \cup {""}, NEW n \in Int,
           NEW k \in [of : {"crc"}, value : Int] \cup [of : {"time"}, value : Times]
    PROVE  [method |-> m, level |-> l, enc |-> e, pwd |-> p, check |-> k, plain |-> n] \in Bodies
BY DEF Bodies

\* The type of what is encoded.
LEMMA EncodedType ==
    ASSUME NEW c \in FileConfig, NEW n \in Int
    PROVE  Encode(c, n) \in Bodies /\ Length(Encode(c, n)) \in Int
<1> DEFINE b == Encode(c, n)
<1>1. /\ b = [method |-> c.method, level |-> c.level, enc |-> c.enc, pwd |-> c.pwd,
              check |-> [of |-> "crc", value |-> n], plain |-> n]
      /\ c.method \in Methods /\ c.level \in Levels /\ c.enc \in Encryptions /\ c.pwd \in Passwords \cup {""}
  BY DEF Encode, CheckByte, FileConfig
<1> DEFINE k == [of |-> "crc", value |-> n]
<1>2. b \in Bodies
  <2>1. k \in [of : {"crc"}, value : Int] \cup [of : {"time"}, value : Times]
    OBVIOUS
  <2> DEFINE m == c.method
             l == c.level
             e == c.enc
             p == c.pwd
  <2>2. b = [method |-> m, level |-> l, enc |-> e, pwd |-> p, check |-> k, plain |-> n]
    BY <1>1
  <2>3. m \in Methods /\ l \in Levels /\ e \in Encryptions /\ p \in Passwords \cup {""}
    BY <1>1
  <2> HIDE DEF k, b, m, l, e, p
  <2> QED BY <2>1, <2>2, <2>3, BodyType
<1> HIDE DEF b
<1>3. b.level = c.level /\ b.enc = c.enc /\ b.plain = n
  BY <1>1, BodyParts
<1>10. b.level \in Levels /\ b.enc \in Encryptions
  BY <1>1, <1>3
<1>4. Packed[b.level] \in Nat /\ Size \in Nat
  BY <1>10, Constants
<1>5. Plain(b) = b.plain \/ Plain(b) = Packed[b.level] - (Size - b.plain)
  BY DEF Plain
<1>6. Overhead(b.enc) \in {0, 12, 28}
  BY <1>10 DEF Overhead, Encryptions
<1>7. Plain(b) \in Int
  <2> DEFINE x == b.plain
             y == Packed[b.level]
             z == Plain(b)
  <2>1. x \in Int /\ y \in Int /\ Size \in Int /\ (z = x \/ z = y - (Size - x))
    BY <1>3, <1>4, <1>5
  <2> HIDE DEF x, y, z
  <2>2. z \in Int
    BY <2>1
  <2> QED BY <2>2 DEF z
<1>8. Plain(b) + Overhead(b.enc) \in Int
  BY <1>6, <1>7
<1> QED BY <1>2, <1>8 DEF b, Length

\* Data is encoded anew, from all that the source gives.
LEMMA EncodeAnewIInv == ASSUME IInv, EncodeAnew PROVE IInv'
<1> DEFINE n == Given(file).got
<1>1. /\ wpc = "encode" /\ wpc' = "finish" /\ body' = Encode(snap.config, n)
      /\ snap' = Result(snap, body') /\ file' = IF parallel THEN file ELSE Published(file, snap')
      /\ unread' = IF file.from = "reader" THEN 0 ELSE unread
      /\ Given(file).err = "" /\ UNCHANGED <<origin, parallel, seekable, out>>
  BY DEF EncodeAnew
<1>2. excuse' = excuse
         \cup (IF snap.config.enc # "NotEncrypted" /\ snap.config.pwd = "" THEN {"no password"} ELSE {})
         \cup (IF file.from = "reader" /\ unread < Size THEN {"spent"} ELSE {})
  BY DEF EncodeAnew
<1>3. snap \in Snapshots /\ file \in TheFiles /\ n \in Int /\ snap.config \in FileConfig
  BY <1>1, GivenType DEF IInv, TypeOK, Snapshots
<1> HIDE DEF n
<1>4. body' \in Bodies /\ Length(body') \in Int /\ body'.plain = n /\ body'.enc = snap.config.enc
  BY <1>1, <1>3, EncodedType DEF Encode
<1>5. snap' \in Snapshots /\ snap'.config = snap.config
  <2> DEFINE csize == Length(body')
             crc == IF body'.enc = "AES256" THEN 0 ELSE body'.plain
  <2>1. snap' = [snap EXCEPT !.size = n, !.csize = csize, !.crc = crc]
    BY <1>1, <1>4 DEF Result
  <2>2. csize \in Int /\ crc \in Int
    BY <1>3, <1>4
  <2> HIDE DEF csize, crc
  <2> QED BY <1>3, <2>1, <2>2 DEF Snapshots
<1>6. file' \in TheFiles /\ file'.from = file.from /\ file'.src = file.src
  BY <1>1, <1>3, <1>5, PublishedParts
<1>7. TypeOK'
  <2>1. unread' \in 0..Size
    <3>1. Size \in Nat
      BY Constants
    <3>2. 0 \in 0..Size
      BY <3>1
    <3>3. unread \in 0..Size
      BY DEF IInv, TypeOK
    <3> QED BY <1>1, <3>2, <3>3
  <2>2. excuse' \subseteq {"changed", "overwritten", "no password", "spent", "foreign check"}
    BY <1>2 DEF IInv, TypeOK
  <2> QED BY <1>1, <1>4, <1>5, <1>6, <2>1, <2>2 DEF IInv, TypeOK
<1>8. FromOrigin'
  BY <1>1, <1>6 DEF IInv, FromOrigin
<1>9. ASSUME excuse' = {} PROVE WellMade(Written)'
  <2>1. /\ excuse = {} /\ ~ (snap.config.enc # "NotEncrypted" /\ snap.config.pwd = "")
        /\ ~ (file.from = "reader" /\ unread < Size)
    BY <1>2, <1>9
  <2>2. Chosen /\ ~ Overwritten(file)
    BY <1>1, <2>1 DEF IInv, Prepared
  <2>3. n = Size
    <3>1. CASE file.from = "archive"
      BY <1>1, <1>3, <2>2, <3>1, ReadsWhole DEF IInv, n
    <3>2. CASE file.from = "reader"
      <4>1. n = unread
        <5>1. Given(file) = Answer(unread, "")
          BY <3>2 DEF Given
        <5> QED BY <5>1, AnswerParts DEF n
      <4>2. unread \in 0..Size /\ ~ (unread < Size) /\ Size \in Nat
        BY <2>1, <3>2, Constants DEF IInv, TypeOK
      <4>3. unread = Size
        BY <4>2
      <4> QED BY <4>1, <4>3
    <3>3. CASE file.from = "func"
      <4>1. Given(file) = Answer(Size, "")
        BY <3>3 DEF Given
      <4> QED BY <4>1, AnswerParts DEF n
    <3> QED BY <1>3, <3>1, <3>2, <3>3 DEF TheFiles
  <2>4. ASSUME snap.config.enc # "NotEncrypted" PROVE snap.config.pwd # "" /\ snap.dd = FALSE
    <3>1. snap.config = Filled(file).config /\ (snap.dd => file.config.enc = "NotEncrypted")
      BY <2>2 DEF Chosen
    <3>2. Filled(file).config.enc = "NotEncrypted" \/ Filled(file).config = file.config
      BY DEF Filled, FillSnapshot, ResetEncodeOptions
    <3> QED BY <1>3, <2>1, <2>4, <3>1, <3>2 DEF Snapshots
  <2>5. snap' = Result(snap, Encode(snap.config, Size)) /\ body' = Encode(snap.config, Size)
    BY <1>1, <2>3
  <2>6. \A s \in Snapshots :
           /\ s.config.enc # "NotEncrypted" => s.config.pwd # "" /\ s.dd = FALSE
           /\ snap' = Result(s, Encode(s.config, Size)) /\ body' = Encode(s.config, Size)
           => WellMade(Written)'
    <3>1. (\A s \in Snapshots :
             /\ s.config.enc # "NotEncrypted" => s.config.pwd # "" /\ s.dd = FALSE
             /\ snap = Result(s, Encode(s.config, Size)) /\ body = Encode(s.config, Size)
             => WellMade(Written))'
      BY EncodedWell, PTL
    <3> QED BY <3>1 DEF Result, Encode, Snapshots, CheckByte, Length, Plain, Overhead
  <2> QED BY <1>3, <2>4, <2>5, <2>6
<1>10. WrittenAsAsked'
  <2>1. body'.enc = snap'.config.enc /\ body'.method = snap'.config.method /\ body'.pwd = snap'.config.pwd
    BY <1>1, <1>5 DEF Encode
  <2> QED BY <2>1 DEF WrittenAsAsked
<1>11. Outcome' /\ Prepared'
  <2>1. out' = NoEntry
    BY <1>1 DEF IInv, Outcome
  <2> QED BY <1>1, <1>9, <2>1 DEF Outcome, Prepared
<1> QED BY <1>7, <1>8, <1>10, <1>11 DEF IInv

\* The writing is given up.
LEMMA FailIInv == ASSUME IInv, Fail PROVE IInv'
<1>1. /\ wpc' = "idle" /\ wpc = "encode" /\ unread' \in {unread, unread \div 2, 0}
      /\ UNCHANGED <<file, origin, parallel, seekable, snap, body, out, excuse>>
  BY DEF Fail
<1>2. out' = NoEntry
  BY <1>1 DEF IInv, Outcome
<1>3. unread' \in 0..Size
  <2>1. Size \in Nat
    BY Constants
  <2>2. unread \in 0..Size
    BY DEF IInv, TypeOK
  <2>3. unread \in 0..Size /\ unread \div 2 \in 0..Size /\ 0 \in 0..Size
    BY <2>1, <2>2
  <2> QED BY <1>1, <2>3
<1>4. TypeOK'
  BY <1>1, <1>3 DEF IInv, TypeOK
<1>5. FromOrigin'
  BY <1>1 DEF IInv, FromOrigin
<1> QED BY <1>1, <1>2, <1>4, <1>5 DEF IInv, Prepared, Outcome, WrittenAsAsked

\* The entry is in the archive, or could not be written.
LEMMA FinishIInv == ASSUME IInv, Finish PROVE IInv'
<1>1. /\ wpc = "finish" /\ wpc' = "idle" /\ out' \in {NoEntry, Written}
      /\ file' = IF parallel THEN Published(file, snap) ELSE file
      /\ UNCHANGED <<origin, unread, parallel, seekable, snap, body, excuse>>
  BY DEF Finish, settings
<1>2. snap \in Snapshots /\ body \in Bodies /\ file \in TheFiles
  BY <1>1 DEF IInv, TypeOK
<1>3. file' \in TheFiles /\ file'.from = file.from /\ file'.src = file.src
  BY <1>1, <1>2, PublishedParts
<1>4. out' \in Entries \cup {NoEntry}
  BY <1>1, <1>2, WrittenType
<1>5. TypeOK'
  BY <1>1, <1>3, <1>4 DEF IInv, TypeOK
<1>6. FromOrigin'
  BY <1>1, <1>3 DEF IInv, FromOrigin
<1>7. Outcome'
  <2>1. ASSUME excuse = {}, out' # NoEntry PROVE WellMade(out')
    BY <1>1, <2>1 DEF IInv, Outcome
  <2>2. WellMade(out)' <=> WellMade(out')
    BY DEF WellMade, Length, Plain, Overhead
  <2> QED BY <1>1, <2>1, <2>2 DEF Outcome
<1> QED BY <1>1, <1>5, <1>6, <1>7 DEF IInv, Prepared, WrittenAsAsked

\* Nothing happens.
LEMMA StutterIInv == ASSUME IInv, UNCHANGED vars PROVE IInv'
<1>1. UNCHANGED <<file, origin, unread, wpc, parallel, seekable, snap, body, out, excuse>>
  BY DEF vars, settings, writer
<1>2. TypeOK' /\ FromOrigin'
  BY <1>1 DEF IInv, TypeOK, FromOrigin
<1>3. Prepared'
  <2>1. (Chosen <=> Chosen') /\ Filled(file)' = Filled(file) /\ (Overwritten(file)' <=> Overwritten(file))
    BY <1>1 DEF Chosen, Filled, FillSnapshot, ResetEncodeOptions, Overwritten
  <2> QED BY <1>1, <2>1 DEF IInv, Prepared
<1>4. Outcome'
  <2>1. (WellMade(out)' <=> WellMade(out)) /\ (WellMade(Written)' <=> WellMade(Written))
    BY <1>1 DEF WellMade, Written, HeaderMethod, Length, Plain, Overhead
  <2> QED BY <1>1, <2>1 DEF IInv, Outcome
<1>5. WrittenAsAsked'
  BY <1>1 DEF IInv, WrittenAsAsked
<1> QED BY <1>2, <1>3, <1>4, <1>5 DEF IInv

----------------------------------------------------------------------------
(***************************************************************************)
(* The invariant is inductive (file.go, writer.go WriteFile, reader.go     *)
(* newFileFromCentralDir).                                                 *)
(***************************************************************************)
THEOREM Invariance == Spec => []IInv
<1>1. IInv /\ [Next]_vars => IInv'
  BY SetIInv, ReloadIInv, StartIInv, ChooseIInv, CopyRawIInv, EncodeAnewIInv, FailIInv, FinishIInv, StutterIInv DEF Next
<1> QED BY <1>1, InitIInv, PTL DEF Spec

(***************************************************************************)
(* Every variable has its type.                                            *)
(***************************************************************************)
THEOREM TypeCorrect == Spec => []TypeOK
<1>1. IInv => TypeOK
  BY DEF IInv
<1> QED BY <1>1, Invariance, PTL

(***************************************************************************)
(* An entry that was written without an error, and without one of the      *)
(* excuses, reads back with its password, whatever settings the File has   *)
(* gone through and however often it was written and loaded (file.go       *)
(* shouldCopyRaw, writer.go encodeToAndUpdate, reader.go openFile).        *)
(***************************************************************************)
THEOREM ReadsBackAsWritten == Spec => []WrittenReadsBack
<1>1. IInv => WrittenReadsBack
  BY ReadsBack DEF IInv, TypeOK, Outcome, WrittenReadsBack
<1> QED BY <1>1, Invariance, PTL

(***************************************************************************)
(* What is written is encrypted as the settings ask, with their password   *)
(* (file.go WithPassword, WithEncryption, writer.go FillSnapshot).         *)
(***************************************************************************)
THEOREM EncryptedAsAsked == Spec => []WrittenAsAsked
<1>1. IInv => WrittenAsAsked
  BY DEF IInv
<1> QED BY <1>1, Invariance, PTL

(***************************************************************************)
(* A loaded File opens as before whatever is set and written, until it is  *)
(* encoded anew or one of the settings it is read with is changed (file.go *)
(* Open: the source's configuration is used).                              *)
(***************************************************************************)
THEOREM OpensAsBefore == Spec => OpensUntilEncodedAnew
<1> DEFINE A == \/ Opened' = Opened \/ "archive" \notin {file.from} \cap {file'.from} \/ origin' # origin
                \/ Overwritten(file) \/ Overwritten(file)'
                \/ file'.src.pwd # file.src.pwd
                \/ file'.time # file.time /\ origin.dd /\ origin.enc = "ZipCrypto"
<1>1. IInv /\ IInv' => [A]_vars
  <2> SUFFICES ASSUME IInv, IInv', file.from = "archive", file'.from = "archive", origin' = origin,
                      ~ Overwritten(file), ~ Overwritten(file)', file'.src.pwd = file.src.pwd,
                      ~ (file'.time # file.time /\ origin.dd /\ origin.enc = "ZipCrypto")
               PROVE  Opened' = Opened
    OBVIOUS
  <2>1. file'.size = file.size /\ file'.csize = file.csize /\ file'.crc = file.crc
    BY DEF Overwritten
  <2>2. file'.src.method = file.src.method
    BY DEF IInv, FromOrigin
  <2>3. PasswordAccepted(file', origin) <=> PasswordAccepted(file, origin)
    BY <2>1 DEF PasswordAccepted
  <2>4. Reads(file', origin) = Reads(file, origin)
    BY <2>1, <2>2, <2>3 DEF Reads, Decodes
  <2>5. Opened' = Reads(file', origin) /\ Opened = Reads(file, origin)
    BY DEF Opened, Reads, Decodes, PasswordAccepted, Overhead, Plain, Answer
  <2> QED BY <2>4, <2>5
<1> QED BY <1>1, Invariance, PTL DEF OpensUntilEncodedAnew

=============================================================================
