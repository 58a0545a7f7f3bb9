-------------------------------- MODULE Scan --------------------------------
(***************************************************************************)
(* The two searches for a signature in bytes that come in blocks           *)
(* (reader.go): FindAndReadEOCD goes backwards from the end of a file to   *)
(* the end record, in blocks that overlap, and on to the Zip64 locator;    *)
(* signatureReader goes forward through a bufio.Reader to the signature of *)
(* a data descriptor, hands out what lies before it and never takes a byte *)
(* of it.  A signature has SignatureLength bytes, and the end record       *)
(* EOCDSize, of which the last tells the length of the comment.            *)
(***************************************************************************)
EXTENDS Integers, Sequences

CONSTANTS
    Files,         \* sequences of bytes with an end record or without
    Streams,       \* sequences of bytes for the forward search
    Signature,     \* the bytes of a signature
    EOCDSize, LocatorSize,
    MaxComment,    \* MaxStringLength: of the comment
    Word,          \* 2^16: eocdSize + commentLength is a uint16
    BlockSize,     \* of the backward search
    BufferSize,    \* of the bufio.Reader
    Reads          \* lengths of the slices the caller reads into

SignatureLength == Len(Signature)

ASSUME ScanAssumption ==
    /\ Files \subseteq Seq(Nat) /\ Streams \subseteq Seq(Nat)
    /\ Signature \in Seq(Nat) /\ Signature # <<>>
    /\ EOCDSize \in Nat /\ EOCDSize > SignatureLength
    /\ BlockSize \in Nat /\ BlockSize > SignatureLength
    /\ BufferSize \in Nat /\ BufferSize > SignatureLength
    /\ MaxComment \in Nat /\ LocatorSize \in Nat /\ Word \in Nat \ {0}
    /\ Reads \subseteq Nat \ {0}

VARIABLES
    way,       \* "end" or "descriptor": which search this is
    bytes,     \* what is searched
    pc,        \* "search", "found", "locator", "missing", "cancelled"
    off,       \* end of the block that comes next
    eocd,      \* place of the record
    locator,   \* place of the locator
    filled,    \* how much of the stream the bufio.Reader has got
    given      \* how much signatureReader has handed out

vars == <<way, bytes, pc, off, eocd, locator, filled, given>>

At(p) == p >= 0 /\ p + SignatureLength <= Len(bytes)
         /\ SubSeq(bytes, p + 1, p + SignatureLength) = Signature
Smaller(a, b) == IF a < b THEN a ELSE b

Init ==
    /\ \/ way = "end" /\ bytes \in Files
       \/ way = "descriptor" /\ bytes \in Streams
    /\ pc = IF way = "end" /\ Len(bytes) < EOCDSize THEN "missing" ELSE "search"
    /\ off = Len(bytes) /\ eocd = -1 /\ locator = -1 /\ filled = 0 /\ given = 0

-----------------------------------------------------------------------------
\* FindAndReadEOCD.
searchLen == Smaller(MaxComment + EOCDSize, Len(bytes))
Floor == Len(bytes) - searchLen

ReadPos == IF off - BlockSize < Floor THEN Floor ELSE off - BlockSize
ReadSize == off - ReadPos

ReadEOCD(p) == bytes[p + EOCDSize]   \* the length of the comment
IsEOCD(p) == /\ At(p) /\ p + EOCDSize <= Len(bytes)
             /\ Len(bytes) - (p + EOCDSize) <= MaxComment
             /\ ReadEOCD(p) = Len(bytes) - (p + EOCDSize)

(* From the end of the block to its start; the first match counts.         *)
Records(pos, size) == {p \in pos .. pos + size - SignatureLength : IsEOCD(p)}
Last(S) == {p \in S : \A q \in S : q <= p}
tryReadSignature(pos, size) == Last(Records(pos, size))

AdvanceWithoutOverlap(o) == o - ReadSize   \* a mutant: blocks that only touch
Advance(o) == o - (ReadSize - (SignatureLength - 1))
NeverStop == FALSE                         \* a mutant: the short block is read again and again
LastBlock == ReadSize < SignatureLength

FindAndReadEOCD ==
    /\ way = "end" /\ pc = "search"
    /\ IF off <= Floor THEN pc' = "missing" /\ UNCHANGED <<off, eocd>>
       ELSE IF Records(ReadPos, ReadSize) # {}
            THEN pc' = "found" /\ eocd' \in tryReadSignature(ReadPos, ReadSize) /\ UNCHANGED off
            ELSE /\ pc' = IF LastBlock THEN "missing" ELSE "search"
                 /\ off' = Advance(off) /\ UNCHANGED eocd
    /\ UNCHANGED <<way, bytes, locator, filled, given>>

Cancel ==
    /\ way = "end" /\ pc = "search" /\ pc' = "cancelled"
    /\ UNCHANGED <<way, bytes, off, eocd, locator, filled, given>>

(* findAndReadZip64EOCD: the sum of the record's size and the comment's is *)
(* one of 16 bits.                                                         *)
LocatorPlace(comment) == Len(bytes) - ((EOCDSize + comment) % Word) - LocatorSize
findAndReadZip64EOCD ==
    /\ way = "end" /\ pc = "found" /\ pc' = "locator"
    /\ locator' = LocatorPlace(ReadEOCD(eocd))
    /\ UNCHANGED <<way, bytes, off, eocd, filled, given>>

-----------------------------------------------------------------------------
(* signatureReader.Read: Peek makes the bufio.Reader read on, at least so  *)
(* far as it was asked for, as far as the source hands out.                *)
Peeked(n) ==
    LET least == Smaller(Smaller(given + n, given + BufferSize), Len(bytes))
    IN  (IF least > filled THEN least ELSE filled) .. Smaller(given + BufferSize, Len(bytes))

Signatures(from, to) == {p \in from .. to - SignatureLength : At(p)}
First(S) == {p \in S : \A q \in S : p <= q}

(* What is safe to hand out: a signature may have begun in what is left.   *)
SafeAll(n) == n                            \* a mutant: all that was peeked
Safe(n) == n - SignatureLength + 1

(* A read into n bytes with f bytes in the buffer.                         *)
HandOut(n, f) ==
    LET seen == Smaller(f, given + n + SignatureLength)
        safe == Safe(seen - given)
    IN  /\ filled' = f
        /\ \/ \E p \in First(Signatures(given, seen)) :
                /\ given' = Smaller(given + n, p)
                /\ pc' = IF given + n < p THEN "search" ELSE "found"
           \/ /\ Signatures(given, seen) = {} /\ safe > 0
              /\ given' = given + Smaller(n, safe) /\ UNCHANGED pc
           \/ /\ Signatures(given, seen) = {} /\ safe <= 0
              /\ pc' = "missing" /\ UNCHANGED given

Read ==
    /\ way = "descriptor" /\ pc = "search"
    /\ \E n \in Reads : \E f \in Peeked(n + SignatureLength) : HandOut(n, f)
    /\ UNCHANGED <<way, bytes, off, eocd, locator>>

Next == FindAndReadEOCD \/ Cancel \/ findAndReadZip64EOCD \/ Read
Spec == Init /\ [][Next]_vars
(* A search is a loop; nothing but the caller's context stops it half way. *)
FairSpec == Spec /\ WF_vars(FindAndReadEOCD \/ Read)

-----------------------------------------------------------------------------
(* However the blocks fall, the search finds the last end record of the    *)
(* file there is, and says that there is none only if there is none.       *)
EndRecords == {p \in 0 .. Len(bytes) - 1 : IsEOCD(p)}
FindsLastRecord ==
    way = "end" => /\ pc \in {"found", "locator"} => eocd \in Last(EndRecords)
                   /\ pc = "missing" => EndRecords = {}

(* However the caller reads and the source delivers, what is handed out    *)
(* ends right before the first signature, and without one it is all but    *)
(* the bytes that may have begun one.                                      *)
StopsAtSignature ==
    way = "descriptor" =>
        /\ \A p \in 0 .. given - 1 : ~At(p)
        /\ pc = "found" => At(given)
        /\ pc = "missing" => /\ \A p \in 0 .. Len(bytes) - 1 : ~At(p)
                             /\ Len(bytes) - given < SignatureLength

(* A search comes to an end.                                               *)
SearchEnds == <>(pc # "search")
=============================================================================
