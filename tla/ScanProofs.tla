----------------------------- MODULE ScanProofs -----------------------------
(***************************************************************************)
(* The two searches find what they look for, for every length of blocks,   *)
(* buffers, comments and reads.                                            *)
(***************************************************************************)
EXTENDS Scan, TLAPS

(* What the backward search has ruled out: no record begins in what lies   *)
(* behind the block that comes next, save for the bytes of the overlap.    *)
Behind == way = "end" /\ pc = "search" =>
            /\ off \in Int /\ off <= Len(bytes)
            /\ \A p \in EndRecords : p + SignatureLength <= off

ForwardOK == /\ given \in Nat /\ given <= Len(bytes)
             /\ filled \in Nat /\ given <= filled /\ filled <= Len(bytes)

IInv == /\ bytes \in Seq(Nat) /\ way \in {"end", "descriptor"}
        /\ Behind /\ FindsLastRecord /\ ForwardOK /\ StopsAtSignature

(* The sizes are numbers, and every window is longer than the signature.   *)
LEMMA Sizes ==
    /\ SignatureLength \in Nat \ {0} /\ EOCDSize \in Nat /\ BlockSize \in Nat
    /\ BufferSize \in Nat /\ MaxComment \in Nat
    /\ EOCDSize > SignatureLength /\ BlockSize > SignatureLength /\ BufferSize > SignatureLength
BY ScanAssumption DEF SignatureLength

(* An end record lies whole in the part of the file that is searched.      *)
LEMMA RecordInside ==
    ASSUME bytes \in Seq(Nat), NEW p \in EndRecords
    PROVE  p \in Nat /\ IsEOCD(p) /\ p + EOCDSize <= Len(bytes) /\ p >= Floor
BY Sizes DEF EndRecords, IsEOCD, At, Floor, searchLen, Smaller

(* The search ends inside of the file.                                     *)
LEMMA FloorInside ==
    ASSUME bytes \in Seq(Nat)
    PROVE  Floor \in Nat /\ Floor <= Len(bytes)
BY Sizes DEF Floor, searchLen, Smaller

(* A record found in a block is one of the records of the file.            *)
LEMMA FoundIsRecord ==
    ASSUME bytes \in Seq(Nat), off \in Int, NEW p \in Records(ReadPos, ReadSize), off > Floor
    PROVE  p \in EndRecords
<1>1. p \in Int /\ IsEOCD(p)
    BY FloorInside, Sizes DEF Records, ReadPos, ReadSize
<1>2. p >= 0 /\ p <= Len(bytes) - 1
    BY <1>1, Sizes DEF IsEOCD, At
<1> QED BY <1>1, <1>2 DEF EndRecords

(* The invariant holds before the first read of either search.             *)
LEMMA InitInv == Init => IInv
<1> SUFFICES ASSUME Init PROVE IInv
    OBVIOUS
<1>1. bytes \in Seq(Nat) /\ way \in {"end", "descriptor"}
    BY ScanAssumption DEF Init
<1>2. \A p \in EndRecords : p + SignatureLength <= Len(bytes) /\ p + EOCDSize <= Len(bytes) /\ p \in Nat
    BY <1>1, RecordInside, Sizes
<1>3. Behind
    BY <1>1, <1>2 DEF Behind, Init
<1>4. FindsLastRecord
    BY <1>1, <1>2, Sizes DEF FindsLastRecord, Init
<1>5. ForwardOK
    BY <1>1 DEF ForwardOK, Init
<1>6. StopsAtSignature
    BY <1>1 DEF StopsAtSignature, Init
<1> QED BY <1>1, <1>3, <1>4, <1>5, <1>6 DEF IInv

(* Every read keeps it: what a block rules out does not move, and the      *)
(* overlap of two blocks hides no signature between them.                  *)
LEMMA StepInv == IInv /\ [Next]_vars => IInv'
<1> SUFFICES ASSUME IInv, [Next]_vars PROVE IInv'
    OBVIOUS
<1> USE DEF IInv
<1>0. bytes' = bytes /\ way' = way /\ (EndRecords' = EndRecords) /\ \A p : At(p)' <=> At(p)
    BY DEF Next, FindAndReadEOCD, Cancel, findAndReadZip64EOCD, Read, vars, EndRecords,
           IsEOCD, At, ReadEOCD, HandOut
<1>1. CASE FindAndReadEOCD
    <2>1. way = "end" /\ pc = "search" /\ off \in Int /\ off <= Len(bytes)
        BY <1>1 DEF FindAndReadEOCD, Behind
    <2>2. ForwardOK' /\ StopsAtSignature'
        BY <1>0, <1>1, <2>1 DEF FindAndReadEOCD, ForwardOK, StopsAtSignature
    <2>3. CASE off <= Floor
        <3>1. EndRecords = {}
            BY <2>1, <2>3, RecordInside, FloorInside, Sizes DEF Behind
        <3> QED BY <1>0, <1>1, <2>2, <2>3, <3>1 DEF FindAndReadEOCD, Behind, FindsLastRecord
    <2>4. CASE ~(off <= Floor) /\ Records(ReadPos, ReadSize) # {}
        <3>1. pc' = "found" /\ eocd' \in tryReadSignature(ReadPos, ReadSize)
            BY <1>1, <2>4 DEF FindAndReadEOCD
        <3>2. eocd' \in EndRecords
            BY <2>1, <2>4, <3>1, FoundIsRecord, FloorInside DEF tryReadSignature, Last
        <3>3. ASSUME NEW q \in EndRecords PROVE q <= eocd'
            <4>1. q \in Nat /\ IsEOCD(q) /\ q + SignatureLength <= off
                BY <2>1, RecordInside DEF Behind
            <4>2. ReadPos \in Int /\ ReadPos + ReadSize - SignatureLength = off - SignatureLength
                BY <2>1, FloorInside, Sizes DEF ReadPos, ReadSize
            <4>3. eocd' \in Int /\ ReadPos <= eocd'
                BY <3>1, <4>2, <2>1, Sizes DEF tryReadSignature, Last, Records, ReadSize
            <4>4. CASE q >= ReadPos
                <5>1. q \in Records(ReadPos, ReadSize)
                    BY <4>1, <4>2, <4>4, Sizes, <2>1 DEF Records, ReadSize
                <5> QED BY <5>1, <3>1 DEF tryReadSignature, Last
            <4> QED BY <4>1, <4>2, <4>3, <4>4
        <3> QED BY <1>0, <2>2, <3>1, <3>2, <3>3 DEF Behind, FindsLastRecord, Last
    <2>5. CASE ~(off <= Floor) /\ Records(ReadPos, ReadSize) = {}
        <3>1. pc' = (IF LastBlock THEN "missing" ELSE "search") /\ off' = Advance(off)
            BY <1>1, <2>5 DEF FindAndReadEOCD
        <3>2. ReadPos \in Int /\ ReadPos < off /\ ReadPos >= Floor /\ ReadSize = off - ReadPos
            BY <2>1, <2>5, FloorInside, Sizes DEF ReadPos, ReadSize
        <3>3. \A q \in EndRecords : q < ReadPos
            <4> SUFFICES ASSUME NEW q \in EndRecords, q >= ReadPos PROVE FALSE
                BY <3>2, RecordInside
            <4>1. q \in Nat /\ IsEOCD(q) /\ q + SignatureLength <= off
                BY <2>1, RecordInside DEF Behind
            <4>2. q \in ReadPos .. ReadPos + ReadSize - SignatureLength
                BY <4>1, <3>2, <2>1, Sizes
            <4> QED BY <4>1, <4>2, <2>5 DEF Records
        <3>4. CASE LastBlock
            <4>1. EndRecords = {}
                <5>1. ReadPos = Floor
                    BY <3>4, <2>1, FloorInside, Sizes DEF LastBlock, ReadSize, ReadPos
                <5> QED BY <5>1, <3>3, RecordInside, FloorInside
            <4> QED BY <1>0, <2>2, <3>1, <3>4, <4>1 DEF Behind, FindsLastRecord
        <3>5. CASE ~LastBlock
            <4>1. off' = ReadPos + (SignatureLength - 1)
                BY <3>1, <3>2, <2>1, Sizes DEF Advance
            <4>2. off' \in Int /\ off' <= Len(bytes)
                BY <4>1, <3>2, <3>5, <2>1, Sizes DEF LastBlock
            <4>3. \A q \in EndRecords : q + SignatureLength <= off'
                BY <4>1, <3>2, <3>3, RecordInside, Sizes
            <4> QED BY <1>0, <2>2, <3>1, <3>5, <4>2, <4>3 DEF Behind, FindsLastRecord
        <3> QED BY <3>4, <3>5
    <2> QED BY <2>3, <2>4, <2>5
<1>2. CASE Cancel
    BY <1>0, <1>2 DEF Cancel, Behind, FindsLastRecord, ForwardOK, StopsAtSignature
<1>3. CASE findAndReadZip64EOCD
    BY <1>0, <1>3 DEF findAndReadZip64EOCD, Behind, FindsLastRecord, ForwardOK, StopsAtSignature
<1>4. CASE Read
    <2>1. way = "descriptor" /\ pc = "search"
        BY <1>4 DEF Read
    <2>2. Behind' /\ FindsLastRecord'
        BY <1>0, <2>1 DEF Behind, FindsLastRecord
    <2>3a. PICK n \in Reads : \E f \in Peeked(n + SignatureLength) : HandOut(n, f)
        BY <1>4 DEF Read
    <2>3. PICK f \in Peeked(n + SignatureLength) : HandOut(n, f)
        BY <2>3a
    <2> DEFINE seen == Smaller(f, given + n + SignatureLength)
    <2>4. n \in Nat \ {0} /\ given \in Nat /\ filled \in Nat /\ Len(bytes) \in Nat
        BY ScanAssumption DEF ForwardOK
    <2>5. f \in Nat /\ f <= Len(bytes) /\ filled <= f /\ given <= f
        BY <2>4, Sizes DEF Peeked, Smaller, ForwardOK
    <2>6. seen \in Nat /\ given <= seen /\ seen <= f
        BY <2>4, <2>5, Sizes DEF Smaller
    <2>7. \/ Len(bytes) - given < SignatureLength /\ f = Len(bytes)
          \/ seen - given >= SignatureLength
        BY <2>4, <2>5, Sizes DEF Peeked, Smaller, ForwardOK
    <2>8. \A p \in 0 .. given - 1 : ~At(p)
        BY <2>1 DEF StopsAtSignature
    <2>9. CASE \E p \in First(Signatures(given, seen)) :
                    /\ given' = Smaller(given + n, p)
                    /\ pc' = IF given + n < p THEN "search" ELSE "found"
        <3>1. PICK p \in First(Signatures(given, seen)) :
                    /\ given' = Smaller(given + n, p)
                    /\ pc' = IF given + n < p THEN "search" ELSE "found"
            BY <2>9
        <3>2. p \in Int /\ p >= given /\ p + SignatureLength <= seen /\ At(p)
            BY <2>4, <2>6, Sizes DEF First, Signatures
        <3>3. given' \in Nat /\ given' <= p /\ (pc' = "found" => given' = p) /\ pc' \in {"found", "search"}
            BY <2>4, <3>1, <3>2 DEF Smaller
        <3>g. PICK g \in Nat : g = given' /\ g <= p
            BY <3>2, <3>3
        <3>4. \A q \in 0 .. g - 1 : ~At(q)
            <4> SUFFICES ASSUME NEW q \in 0 .. g - 1, At(q) PROVE FALSE
                OBVIOUS
            <4>0. q \in Nat /\ q < g
                OBVIOUS
            <4>a. q >= given
                BY <2>4, <2>8, <4>0
            <4>1. q \in given .. seen - SignatureLength
                BY <2>4, <2>6, <4>0, <4>a, <3>2, <3>g, Sizes
            <4>2. q \in Signatures(given, seen) /\ q < p
                BY <4>0, <4>1, <3>2, <3>g DEF Signatures
            <4> QED BY <4>2, <4>1, <3>2 DEF First
        <3>5. ForwardOK'
            BY <1>0, <2>3, <2>5, <2>6, <3>2, <3>3, Sizes DEF ForwardOK, HandOut
        <3>6. StopsAtSignature'
            BY <1>0, <3>2, <3>3, <3>g, <3>4 DEF StopsAtSignature
        <3> QED BY <1>0, <2>2, <3>5, <3>6
    <2>10. CASE /\ Signatures(given, seen) = {} /\ Safe(seen - given) > 0
                /\ given' = given + Smaller(n, Safe(seen - given)) /\ UNCHANGED pc
        <3>1. given' \in Nat /\ given' <= seen - SignatureLength + 1 /\ given' <= f
            BY <2>4, <2>6, <2>5, <2>10, Sizes DEF Safe, Smaller
        <3>g. PICK g \in Nat : g = given' /\ g <= seen - SignatureLength + 1
            BY <3>1
        <3>2. \A q \in 0 .. g - 1 : ~At(q)
            <4> SUFFICES ASSUME NEW q \in 0 .. g - 1, At(q) PROVE FALSE
                OBVIOUS
            <4>0. q \in Nat /\ q < g
                OBVIOUS
            <4>a. q >= given
                BY <2>4, <2>8, <4>0
            <4>1. q \in given .. seen - SignatureLength
                BY <2>4, <2>6, <4>0, <4>a, <3>g, Sizes
            <4> QED BY <4>1, <2>10 DEF Signatures
        <3>3. ForwardOK'
            BY <1>0, <2>3, <2>5, <3>1 DEF ForwardOK, HandOut
        <3> QED BY <1>0, <2>1, <2>2, <2>10, <3>2, <3>g, <3>3 DEF StopsAtSignature
    <2>11. CASE /\ Signatures(given, seen) = {} /\ Safe(seen - given) <= 0
                /\ pc' = "missing" /\ UNCHANGED given
        <3>1. Len(bytes) - given < SignatureLength
            BY <2>4, <2>6, <2>7, <2>11, Sizes DEF Safe
        <3>2. \A q \in 0 .. Len(bytes) - 1 : ~At(q)
            BY <2>4, <2>8, <3>1, Sizes DEF At
        <3>3. ForwardOK'
            BY <1>0, <2>3, <2>5, <2>11 DEF ForwardOK, HandOut
        <3> QED BY <1>0, <2>1, <2>2, <2>8, <2>11, <3>1, <3>2, <3>3 DEF StopsAtSignature
    <2> QED BY <2>3, <2>9, <2>10, <2>11 DEF HandOut
<1>5. CASE UNCHANGED vars
    BY <1>0, <1>5 DEF vars, Behind, FindsLastRecord, ForwardOK, StopsAtSignature
<1> QED BY <1>1, <1>2, <1>3, <1>4, <1>5 DEF Next

(* The backward search finds the last end record there is, whatever the    *)
(* length of the blocks and of the comment (FindAndReadEOCD).              *)
THEOREM EndIsFound == Spec => []FindsLastRecord
<1>1. IInv => FindsLastRecord
    BY DEF IInv
<1> QED BY <1>1, InitInv, StepInv, PTL DEF Spec

(* What signatureReader hands out ends right before the first signature,   *)
(* however it is read and however its source delivers.                     *)
THEOREM DescriptorIsFound == Spec => []StopsAtSignature
<1>1. IInv => StopsAtSignature
    BY DEF IInv
<1> QED BY <1>1, InitInv, StepInv, PTL DEF Spec
=============================================================================
