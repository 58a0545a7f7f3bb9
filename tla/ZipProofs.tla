----------------------------- MODULE ZipProofs -----------------------------
(***************************************************************************)
(* Proofs about the type Zip: its entries (Catalog), for any names and any *)
(* number of entries, and the lock under which every operation on them is  *)
(* one step (ArchiveLock), for any number of callers.                      *)
(***************************************************************************)
EXTENDS Catalog, ArchiveLock, FiniteSetTheorems, SequenceTheorems, TLAPS

----------------------------------------------------------------------------
(* Places in a set of positions                                            *)

(* The places of the elements of S count up from 1 to the cardinality of   *)
(* S, in the order of the elements.                                        *)
LEMMA RankType ==
    ASSUME NEW n \in Nat, NEW S \in SUBSET (1 .. n)
    PROVE  /\ IsFiniteSet(S) /\ Cardinality(S) \in Nat
           /\ \A i \in S : Rank(S, i) \in 1 .. Cardinality(S)
<1>1. IsFiniteSet(S) /\ Cardinality(S) \in Nat
    <2>1. IsFiniteSet(1 .. n)
        BY FS_Interval
    <2>2. IsFiniteSet(S)
        BY <2>1, FS_Subset
    <2> QED BY <2>2, FS_CardinalityType
<1>2. ASSUME NEW i \in S PROVE Rank(S, i) \in 1 .. Cardinality(S)
    <2> DEFINE T == S \cap 1 .. i
    <2>1. T \in SUBSET S
        OBVIOUS
    <2>2. IsFiniteSet(T) /\ Cardinality(T) \in Nat /\ Cardinality(T) <= Cardinality(S)
        BY <1>1, <2>1, FS_Subset, FS_CardinalityType
    <2>3. i \in T
        OBVIOUS
    <2>4. Cardinality(T) # 0
        BY <2>2, <2>3, FS_EmptySet
    <2> QED BY <1>1, <2>2, <2>4 DEF Rank
<1> QED BY <1>1, <1>2

LEMMA RankOrder ==
    ASSUME NEW n \in Nat, NEW S \in SUBSET (1 .. n), NEW i \in S, NEW j \in S, i < j
    PROVE  Rank(S, i) < Rank(S, j)
<1> DEFINE A == S \cap 1 .. i
           B == S \cap 1 .. j
<1>1. A \in SUBSET B /\ j \in B /\ j \notin A
    OBVIOUS
<1>2. IsFiniteSet(B)
    BY RankType, FS_Subset
<1>3. IsFiniteSet(A) /\ Cardinality(A) <= Cardinality(B) /\ Cardinality(A) # Cardinality(B)
    BY <1>1, <1>2, FS_Subset
<1>4. Cardinality(A) \in Nat /\ Cardinality(B) \in Nat
    BY <1>2, <1>3, FS_CardinalityType
<1> HIDE DEF A, B
<1>5. Cardinality(A) < Cardinality(B)
    BY <1>3, <1>4
<1> QED BY <1>5 DEF Rank, A, B

LEMMA RankInjective ==
    ASSUME NEW n \in Nat, NEW S \in SUBSET (1 .. n), NEW i \in S, NEW j \in S,
           Rank(S, i) = Rank(S, j)
    PROVE  i = j
<1>1. Rank(S, i) \in 1 .. Cardinality(S) /\ Cardinality(S) \in Nat
    BY RankType
<1>2. i \in Int /\ j \in Int
    OBVIOUS
<1>3. ~(i < j) 
    <2>1. ASSUME i < j PROVE Rank(S, i) < Rank(S, j)
        BY <2>1, RankOrder
    <2> QED BY <1>1, <2>1
<1>4. ~(j < i)
    <2>1. ASSUME j < i PROVE Rank(S, j) < Rank(S, i)
        BY <2>1, RankOrder
    <2> QED BY <1>1, <2>1
<1> QED BY <1>2, <1>3, <1>4

(* Every place is taken: the places are as many as the elements.           *)
LEMMA RankOnto ==
    ASSUME NEW n \in Nat, NEW S \in SUBSET (1 .. n), NEW j \in 1 .. Cardinality(S)
    PROVE  \E i \in S : Rank(S, i) = j
<1> DEFINE T == 1 .. Cardinality(S)
           f == [i \in S |-> Rank(S, i)]
<1>1. IsFiniteSet(S) /\ Cardinality(S) \in Nat /\ f \in [S -> T]
    BY RankType
<1>2. \A i, k \in S : f[i] = f[k] => i = k
    BY RankInjective
<1>3. f \in Injection(S, T)
    BY <1>1, <1>2 DEF Injection, IsInjective
<1>4. IsFiniteSet(T) /\ Cardinality(T) = Cardinality(S)
    BY <1>1, FS_Interval
<1>5. f \in Surjection(S, T)
    BY <1>3, <1>4, FS_Injection
<1> QED BY <1>5 DEF Surjection

(* Nth is the inverse of Rank.                                             *)
LEMMA NthOfRank ==
    ASSUME NEW n \in Nat, NEW S \in SUBSET (1 .. n), NEW i \in S
    PROVE  Nth(S, Rank(S, i)) = i
<1>1. Nth(S, Rank(S, i)) \in S /\ Rank(S, Nth(S, Rank(S, i))) = Rank(S, i)
    BY DEF Nth
<1> QED BY <1>1, RankInjective

LEMMA RankOfNth ==
    ASSUME NEW n \in Nat, NEW S \in SUBSET (1 .. n), NEW j \in 1 .. Cardinality(S)
    PROVE  Nth(S, j) \in S /\ Rank(S, Nth(S, j)) = j
BY RankOnto DEF Nth

(* A set of positions has a first and a last element.                      *)
LEMMA HasMax ==
    ASSUME NEW n \in Nat, NEW S \in SUBSET (1 .. n), S # {}
    PROVE  Max(S) \in S /\ \A i \in S : i <= Max(S)
<1>1. Cardinality(S) \in 1 .. Cardinality(S)
    <2>1. IsFiniteSet(S) /\ Cardinality(S) \in Nat
        BY RankType
    <2>2. Cardinality(S) # 0
        BY <2>1, FS_EmptySet
    <2> QED BY <2>1, <2>2
<1>2. PICK m \in S : Rank(S, m) = Cardinality(S)
    BY <1>1, RankOnto
<1>3. ASSUME NEW i \in S, m < i PROVE FALSE
    <2>1. Rank(S, m) < Rank(S, i) /\ Rank(S, i) \in 1 .. Cardinality(S) /\ Cardinality(S) \in Nat
        BY <1>3, RankOrder, RankType
    <2> QED BY <1>2, <2>1
<1>4. \A i \in S : m >= i
    BY <1>3
<1>5. Max(S) \in S /\ \A i \in S : Max(S) >= i
    BY <1>4 DEF Max
<1> QED BY <1>5

LEMMA HasMin ==
    ASSUME NEW n \in Nat, NEW S \in SUBSET (1 .. n), S # {}
    PROVE  Min(S) \in S /\ \A i \in S : Min(S) <= i
<1>1. 1 \in 1 .. Cardinality(S)
    <2>1. IsFiniteSet(S) /\ Cardinality(S) \in Nat
        BY RankType
    <2>2. Cardinality(S) # 0
        BY <2>1, FS_EmptySet
    <2> QED BY <2>1, <2>2
<1>2. PICK m \in S : Rank(S, m) = 1
    BY <1>1, RankOnto
<1>3. ASSUME NEW i \in S, i < m PROVE FALSE
    <2>1. Rank(S, i) < Rank(S, m) /\ Rank(S, i) \in 1 .. Cardinality(S)
        BY <1>3, RankOrder, RankType
    <2> QED BY <1>2, <2>1
<1>4. \A i \in S : m <= i
    BY <1>3
<1> QED BY <1>4 DEF Min

----------------------------------------------------------------------------
(* Names                                                                   *)

CleanNames == {n \in Seq(Chars) : IsClean(n)}

LEMMA SlashIsChar == Slash \in Chars
BY DEF Chars

LEMMA CleanName ==
    ASSUME NEW n, IsClean(n)
    PROVE  n \in CleanNames /\ n \in Seq(Chars) /\ Len(n) \in Nat \ {0} /\ n # << >>
<1>1. n \in Seq(Chars) /\ n # << >>
    BY DEF IsClean, Root
<1>2. Len(n) \in Nat \ {0}
    BY <1>1, EmptySeq
<1> QED BY <1>1, <1>2 DEF CleanNames

LEMMA AppendSlash ==
    ASSUME NEW d \in Seq(Chars)
    PROVE  /\ Append(d, Slash) \in Seq(Chars) /\ Len(d) \in Nat
           /\ Len(Append(d, Slash)) = Len(d) + 1
           /\ \A i \in 1 .. Len(d) : Append(d, Slash)[i] = d[i]
           /\ Append(d, Slash)[Len(d) + 1] = Slash
BY AppendProperties, SlashIsChar, LenProperties

LEMMA AppendSlashInjective ==
    ASSUME NEW c \in Seq(Chars), NEW d \in Seq(Chars), Append(c, Slash) = Append(d, Slash)
    PROVE  c = d
BY AppendInjective, SlashIsChar

(* A prefix, element by element.                                           *)
LEMMA PrefixIff ==
    ASSUME NEW s \in Seq(Chars), NEW t \in Seq(Chars)
    PROVE  IsPrefix(s, t) <=> Len(s) <= Len(t) /\ \A i \in 1 .. Len(s) : s[i] = t[i]
<1> DEFINE u == SubSeq(t, 1, Len(s))
<1>1. Len(s) \in Nat /\ Len(t) \in Nat /\ SubSeq(s, 1, Len(s)) = s
    BY LenProperties, SubSeqFull
<1>2. IsPrefix(s, t) <=> Len(s) <= Len(t) /\ s = u
    BY <1>1 DEF IsPrefix
<1>3. ASSUME Len(s) <= Len(t)
      PROVE  u \in Seq(Chars) /\ Len(u) = Len(s) /\ \A i \in 1 .. Len(s) : u[i] = t[i]
    <2>1. \A i \in 1 .. Len(s) : t[i] \in Chars
        BY <1>1, <1>3, ElementOfSeq
    <2>2. /\ u \in Seq(Chars) /\ Len(u) = (IF 1 <= Len(s) THEN Len(s) - 1 + 1 ELSE 0)
          /\ \A i \in 1 .. Len(s) - 1 + 1 : u[i] = t[1 + i - 1]
        BY <1>1, <2>1, SubSeqProperties
    <2> HIDE DEF u
    <2>3. Len(u) = Len(s)
        BY <1>1, <2>2
    <2>4. \A i \in 1 .. Len(s) : u[i] = t[i]
        BY <1>1, <2>2
    <2> QED BY <2>2, <2>3, <2>4
<1> HIDE DEF u
<1>4. ASSUME Len(s) <= Len(t), \A i \in 1 .. Len(s) : s[i] = t[i] PROVE s = u
    BY <1>3, <1>4, SeqEqual
<1> QED BY <1>2, <1>3, <1>4

LEMMA PrefixRefl == ASSUME NEW s \in Seq(Chars) PROVE IsPrefix(s, s)
BY PrefixIff, LenProperties

LEMMA PrefixTrans ==
    ASSUME NEW s \in Seq(Chars), NEW t \in Seq(Chars), NEW u \in Seq(Chars),
           IsPrefix(s, t), IsPrefix(t, u)
    PROVE  IsPrefix(s, u)
<1>1. Len(s) \in Nat /\ Len(t) \in Nat /\ Len(u) \in Nat
    BY LenProperties
<1>2. Len(s) <= Len(t) /\ \A i \in 1 .. Len(s) : s[i] = t[i]
    BY PrefixIff
<1>3. Len(t) <= Len(u) /\ \A i \in 1 .. Len(t) : t[i] = u[i]
    BY PrefixIff
<1>4. Len(s) <= Len(u) /\ \A i \in 1 .. Len(s) : s[i] = u[i]
    BY <1>1, <1>2, <1>3
<1> QED BY <1>4, PrefixIff

(* Of two prefixes the shorter is a prefix of the longer.                  *)
LEMMA PrefixShorter ==
    ASSUME NEW s \in Seq(Chars), NEW t \in Seq(Chars), NEW u \in Seq(Chars),
           IsPrefix(s, u), IsPrefix(t, u), Len(s) <= Len(t)
    PROVE  IsPrefix(s, t)
<1>1. Len(s) \in Nat /\ Len(t) \in Nat /\ Len(u) \in Nat
    BY LenProperties
<1>2. \A i \in 1 .. Len(s) : s[i] = u[i]
    BY PrefixIff
<1>3. \A i \in 1 .. Len(t) : t[i] = u[i]
    BY PrefixIff
<1>4. \A i \in 1 .. Len(s) : s[i] = t[i]
    BY <1>1, <1>2, <1>3
<1> QED BY <1>4, PrefixIff

LEMMA PrefixSame ==
    ASSUME NEW s \in Seq(Chars), NEW t \in Seq(Chars), IsPrefix(s, t), Len(t) <= Len(s)
    PROVE  s = t
<1>1. Len(s) \in Nat /\ Len(t) \in Nat
    BY LenProperties
<1>2. Len(s) = Len(t) /\ \A i \in 1 .. Len(s) : s[i] = t[i]
    BY <1>1, PrefixIff
<1> QED BY <1>2, SeqEqual

(* d/ is a prefix of d/.                                                   *)
LEMMA PrefixOfAppend ==
    ASSUME NEW d \in Seq(Chars) PROVE IsPrefix(d, Append(d, Slash))
<1>1. Len(d) <= Len(Append(d, Slash)) /\ \A i \in 1 .. Len(d) : d[i] = Append(d, Slash)[i]
    BY AppendSlash
<1> QED BY <1>1, AppendSlash, PrefixIff

(* What remains of t behind its prefix s.                                  *)
LEMMA CutPrefix ==
    ASSUME NEW s \in Seq(Chars), NEW t \in Seq(Chars), Len(s) <= Len(t)
    PROVE  LET u == SubSeq(t, Len(s) + 1, Len(t))
           IN  /\ u \in Seq(Chars) /\ Len(u) = Len(t) - Len(s)
               /\ \A i \in 1 .. Len(u) : u[i] = t[Len(s) + i]
<1> DEFINE u == SubSeq(t, Len(s) + 1, Len(t))
<1>1. Len(s) \in Nat /\ Len(t) \in Nat
    BY LenProperties
<1>2. \A i \in Len(s) + 1 .. Len(t) : t[i] \in Chars
    BY <1>1, ElementOfSeq
<1>3. /\ u \in Seq(Chars)
      /\ Len(u) = IF Len(s) + 1 <= Len(t) THEN Len(t) - (Len(s) + 1) + 1 ELSE 0
      /\ \A i \in 1 .. Len(t) - (Len(s) + 1) + 1 : u[i] = t[Len(s) + 1 + i - 1]
    BY <1>1, <1>2, SubSeqProperties
<1> HIDE DEF u
<1>4. Len(u) = Len(t) - Len(s)
    BY <1>1, <1>3
<1>5. \A i \in 1 .. Len(u) : u[i] = t[Len(s) + i]
    BY <1>1, <1>3, <1>4
<1> QED BY <1>3, <1>4, <1>5 DEF u

----------------------------------------------------------------------------
(* Keys                                                                    *)

LEMMA KeyType ==
    ASSUME NEW n \in Seq(Chars), NEW b \in BOOLEAN
    PROVE  /\ KeyOf(n, b) \in Seq(Chars) /\ Len(n) \in Nat
           /\ Len(KeyOf(n, b)) = Len(n) + (IF b THEN 1 ELSE 0)
           /\ \A i \in 1 .. Len(n) : KeyOf(n, b)[i] = n[i]
           /\ b => KeyOf(n, b)[Len(n) + 1] = Slash
           /\ IsPrefix(n, KeyOf(n, b))
<1>1. CASE b
    <2>1. KeyOf(n, b) = Append(n, Slash)
        BY <1>1 DEF KeyOf
    <2> QED BY <1>1, <2>1, AppendSlash, PrefixOfAppend
<1>2. CASE ~b
    <2>1. KeyOf(n, b) = n
        BY <1>2 DEF KeyOf
    <2> QED BY <1>2, <2>1, LenProperties, PrefixRefl
<1> QED BY <1>1, <1>2

(* The key of a directory ends in a slash, that of a file does not.        *)
LEMMA KeyEnd ==
    ASSUME NEW n, IsClean(n), NEW b \in BOOLEAN
    PROVE  /\ Len(KeyOf(n, b)) \in Nat \ {0}
           /\ KeyOf(n, b)[Len(KeyOf(n, b))] = Slash <=> b
<1>1. n \in Seq(Chars) /\ Len(n) \in Nat \ {0} /\ n[Len(n)] # Slash
    BY CleanName DEF IsClean
<1> QED BY <1>1, KeyType

LEMMA KeyInjective ==
    ASSUME NEW m, IsClean(m), NEW n, IsClean(n), NEW a \in BOOLEAN, NEW b \in BOOLEAN,
           KeyOf(m, a) = KeyOf(n, b)
    PROVE  m = n /\ a = b
<1>1. a = b
    BY KeyEnd
<1>2. m \in Seq(Chars) /\ n \in Seq(Chars)
    BY CleanName
<1>3. m = n
    BY <1>1, <1>2, AppendSlashInjective DEF KeyOf
<1> QED BY <1>1, <1>3

(* No key has two slashes at its end.                                      *)
LEMMA KeyOneSlash ==
    ASSUME NEW n, IsClean(n), NEW b \in BOOLEAN, NEW m, IsClean(m), NEW a \in BOOLEAN,
           KeyOf(m, a) = Append(KeyOf(n, b), Slash)
    PROVE  m = n /\ a /\ ~b
<1>1. n \in Seq(Chars) /\ Len(n) \in Nat \ {0} /\ n[Len(n)] # Slash
    BY CleanName DEF IsClean
<1>2. m \in Seq(Chars) /\ Len(m) \in Nat \ {0} /\ m[Len(m)] # Slash
    BY CleanName DEF IsClean
<1>3. KeyOf(n, b) \in Seq(Chars)
    BY <1>1, KeyType
<1>4. a
    <2>1. KeyOf(m, a)[Len(KeyOf(m, a))] = Slash
        BY <1>3, AppendSlash
    <2> QED BY <2>1, KeyEnd
<1>5. m = KeyOf(n, b)
    BY <1>2, <1>3, <1>4, AppendSlashInjective DEF KeyOf
<1>6. ~b
    BY <1>2, <1>5, KeyEnd
<1> QED BY <1>4, <1>5, <1>6 DEF KeyOf

----------------------------------------------------------------------------
(* Ancestors                                                               *)

LEMMA SlashesType ==
    ASSUME NEW p \in Seq(Chars)
    PROVE  /\ Slashes(p) \in SUBSET (1 .. Len(p)) /\ Len(p) \in Nat
           /\ \A i \in 1 .. Len(p) : i \in Slashes(p) <=> p[i] = Slash
BY LenProperties DEF Slashes

LEMMA AboveType ==
    ASSUME NEW p \in Seq(Chars), NEW i \in 1 .. Len(p)
    PROVE  /\ Above(p, i) \in Seq(Chars) /\ Len(Above(p, i)) = i - 1
           /\ \A j \in 1 .. i - 1 : Above(p, i)[j] = p[j]
<1> DEFINE u == SubSeq(p, 1, i - 1)
<1>1. Len(p) \in Nat
    BY LenProperties
<1>2. \A j \in 1 .. i - 1 : p[j] \in Chars
    BY <1>1, ElementOfSeq
<1>3. /\ u \in Seq(Chars) /\ Len(u) = (IF 1 <= i - 1 THEN (i - 1) - 1 + 1 ELSE 0)
      /\ \A j \in 1 .. (i - 1) - 1 + 1 : u[j] = p[1 + j - 1]
    BY <1>1, <1>2, SubSeqProperties
<1> HIDE DEF u
<1>4. Len(u) = i - 1
    BY <1>1, <1>3
<1>5. \A j \in 1 .. i - 1 : u[j] = p[j]
    BY <1>1, <1>3
<1> QED BY <1>3, <1>4, <1>5 DEF u, Above

(* d is above p where d/ is a prefix of p.                                 *)
LEMMA AboveIsPrefix ==
    ASSUME NEW p \in Seq(Chars), NEW i \in Slashes(p)
    PROVE  /\ i \in 1 .. Len(p) /\ Above(p, i) \in Seq(Chars) /\ Len(Append(Above(p, i), Slash)) = i
           /\ IsPrefix(Append(Above(p, i), Slash), p)
<1> DEFINE d == Above(p, i)
<1>1. i \in 1 .. Len(p) /\ p[i] = Slash /\ Len(p) \in Nat
    BY SlashesType
<1>2. d \in Seq(Chars) /\ Len(d) = i - 1 /\ \A j \in 1 .. i - 1 : d[j] = p[j]
    BY <1>1, AboveType
<1> HIDE DEF d
<1>3. /\ Append(d, Slash) \in Seq(Chars) /\ Len(Append(d, Slash)) = i
      /\ \A j \in 1 .. i - 1 : Append(d, Slash)[j] = d[j]
      /\ Append(d, Slash)[i] = Slash
    BY <1>1, <1>2, AppendSlash
<1>4. \A j \in 1 .. i : Append(d, Slash)[j] = p[j]
    BY <1>1, <1>2, <1>3
<1>5. IsPrefix(Append(d, Slash), p)
    <2> DEFINE u == Append(d, Slash)
    <2>1. u \in Seq(Chars) /\ Len(u) = i /\ i <= Len(p) /\ \A j \in 1 .. i : u[j] = p[j]
        BY <1>1, <1>3, <1>4
    <2> HIDE DEF u
    <2>2. IsPrefix(u, p)
        BY <2>1, PrefixIff
    <2> QED BY <2>2 DEF u
<1> QED BY <1>1, <1>2, <1>3, <1>5 DEF d

LEMMA PrefixIsAbove ==
    ASSUME NEW p \in Seq(Chars), NEW d \in Seq(Chars), IsPrefix(Append(d, Slash), p)
    PROVE  Len(d) + 1 \in Slashes(p) /\ Above(p, Len(d) + 1) = d
<1>1. Len(p) \in Nat /\ Len(d) \in Nat
    BY LenProperties
<1>2. Len(d) + 1 <= Len(p) /\ \A j \in 1 .. Len(d) + 1 : Append(d, Slash)[j] = p[j]
    <2> DEFINE u == Append(d, Slash)
    <2>1. u \in Seq(Chars) /\ Len(u) = Len(d) + 1
        BY AppendSlash
    <2>2. IsPrefix(u, p)
        OBVIOUS
    <2> HIDE DEF u
    <2>3. Len(d) + 1 <= Len(p) /\ \A j \in 1 .. Len(d) + 1 : u[j] = p[j]
        BY <1>1, <2>1, <2>2, PrefixIff
    <2> QED BY <2>3 DEF u
<1>3. p[Len(d) + 1] = Slash /\ \A j \in 1 .. Len(d) : d[j] = p[j]
    BY <1>1, <1>2, AppendSlash
<1>4. Len(d) + 1 \in 1 .. Len(p)
    BY <1>1, <1>2
<1>5. Above(p, Len(d) + 1) \in Seq(Chars) /\ Len(Above(p, Len(d) + 1)) = Len(d) + 1 - 1
      /\ \A j \in 1 .. Len(d) + 1 - 1 : Above(p, Len(d) + 1)[j] = p[j]
    BY <1>4, AboveType
<1>6. Above(p, Len(d) + 1) = d
    <2>1. Len(Above(p, Len(d) + 1)) = Len(d) /\ \A j \in 1 .. Len(d) : Above(p, Len(d) + 1)[j] = d[j]
        BY <1>1, <1>3, <1>5
    <2> QED BY <1>5, <2>1, SeqEqual
<1> QED BY <1>3, <1>4, <1>6, SlashesType

LEMMA AncestorIff ==
    ASSUME NEW p \in Seq(Chars), NEW d
    PROVE  d \in Ancestors(p) <=> d \in Seq(Chars) /\ IsPrefix(Append(d, Slash), p)
<1>1. ASSUME d \in Ancestors(p) PROVE d \in Seq(Chars) /\ IsPrefix(Append(d, Slash), p)
    BY <1>1, AboveIsPrefix DEF Ancestors
<1>2. ASSUME d \in Seq(Chars), IsPrefix(Append(d, Slash), p) PROVE d \in Ancestors(p)
    BY <1>2, PrefixIsAbove DEF Ancestors
<1> QED BY <1>1, <1>2

LEMMA AncestorClean ==
    ASSUME NEW p, IsClean(p), NEW d \in Ancestors(p)
    PROVE  IsClean(d)
<1>1. p \in Seq(Chars) /\ Len(p) \in Nat
    BY CleanName
<1>2. d \in Seq(Chars) /\ IsPrefix(Append(d, Slash), p) /\ Len(d) \in Nat
    BY <1>1, AncestorIff, LenProperties
<1>3. Len(d) + 1 <= Len(p) /\ \A j \in 1 .. Len(d) + 1 : Append(d, Slash)[j] = p[j]
    <2> DEFINE u == Append(d, Slash)
    <2>1. u \in Seq(Chars) /\ Len(u) = Len(d) + 1
        BY <1>2, AppendSlash
    <2>2. IsPrefix(u, p)
        BY <1>2
    <2> HIDE DEF u
    <2>3. Len(d) + 1 <= Len(p) /\ \A j \in 1 .. Len(d) + 1 : u[j] = p[j]
        BY <1>1, <2>1, <2>2, PrefixIff
    <2> QED BY <2>3 DEF u
<1>4. p[Len(d) + 1] = Slash /\ \A j \in 1 .. Len(d) : d[j] = p[j]
    BY <1>2, <1>3, AppendSlash
<1>5. p[1] # Slash /\ \A i \in 1 .. Len(p) - 1 : p[i] = Slash => p[i + 1] # Slash
    BY DEF IsClean
<1>6. Len(d) # 0
    BY <1>2, <1>4, <1>5
<1>7. d[1] # Slash
    BY <1>2, <1>4, <1>5, <1>6
<1>8. d[Len(d)] # Slash
    <2>1. Len(d) \in 1 .. Len(d) /\ Len(d) \in 1 .. Len(p) - 1
        BY <1>1, <1>2, <1>3, <1>6
    <2> QED BY <2>1, <1>4, <1>5
<1>9. \A i \in 1 .. Len(d) - 1 : d[i] = Slash => d[i + 1] # Slash
    <2> SUFFICES ASSUME NEW i \in 1 .. Len(d) - 1, d[i] = Slash PROVE d[i + 1] # Slash
        OBVIOUS
    <2>1. i \in 1 .. Len(p) - 1 /\ i \in 1 .. Len(d) /\ i + 1 \in 1 .. Len(d)
        BY <1>1, <1>2, <1>3
    <2> QED BY <2>1, <1>4, <1>5
<1>10. d # << >>
    BY <1>6, EmptySeq
<1> QED BY <1>2, <1>7, <1>8, <1>9, <1>10 DEF IsClean, Root

(* d/ is a prefix of the key of what lies below d and of its own.          *)
LEMMA UnderKey ==
    ASSUME NEW n, IsClean(n), NEW b \in BOOLEAN, NEW d \in Seq(Chars)
    PROVE  IsPrefix(Append(d, Slash), KeyOf(n, b)) <=> d \in Ancestors(n) \/ (b /\ d = n)
<1>1. n \in Seq(Chars) /\ Len(n) \in Nat \ {0} /\ n[Len(n)] # Slash
    BY CleanName DEF IsClean
<1>2. KeyOf(n, b) \in Seq(Chars) /\ IsPrefix(n, KeyOf(n, b))
      /\ Len(KeyOf(n, b)) = Len(n) + (IF b THEN 1 ELSE 0)
    BY <1>1, KeyType
<1>3. Append(d, Slash) \in Seq(Chars) /\ Len(Append(d, Slash)) = Len(d) + 1 /\ Len(d) \in Nat
    BY AppendSlash
<1>4. ASSUME d \in Ancestors(n) PROVE IsPrefix(Append(d, Slash), KeyOf(n, b))
    <2>1. IsPrefix(Append(d, Slash), n)
        BY <1>1, <1>4, AncestorIff
    <2> QED BY <1>1, <1>2, <1>3, <2>1, PrefixTrans
<1>5. ASSUME b, d = n PROVE IsPrefix(Append(d, Slash), KeyOf(n, b))
    BY <1>3, <1>5, PrefixRefl DEF KeyOf
<1>6. ASSUME IsPrefix(Append(d, Slash), KeyOf(n, b)) PROVE d \in Ancestors(n) \/ (b /\ d = n)
    <2>1. Len(d) + 1 <= Len(KeyOf(n, b))
        BY <1>2, <1>3, <1>6, PrefixIff
    <2>2. CASE Len(d) + 1 <= Len(n)
        <3>1. IsPrefix(Append(d, Slash), n)
            BY <1>1, <1>2, <1>3, <1>6, <2>2, PrefixShorter
        <3> QED BY <1>1, <3>1, AncestorIff
    <2>3. CASE ~(Len(d) + 1 <= Len(n))
        <3>1. b /\ Len(KeyOf(n, b)) <= Len(Append(d, Slash))
            BY <1>1, <1>2, <1>3, <2>1, <2>3
        <3>2. Append(d, Slash) = KeyOf(n, b)
            BY <1>2, <1>3, <1>6, <3>1, PrefixSame
        <3> QED BY <1>1, <3>1, <3>2, AppendSlashInjective DEF KeyOf
    <2> QED BY <2>2, <2>3
<1> QED BY <1>4, <1>5, <1>6

----------------------------------------------------------------------------
(* Archives                                                                *)

Entries == [name : CleanNames, isDir : BOOLEAN, isImplicit : BOOLEAN]

(* Every entry has a clean name; lookup finds entries by their names;      *)
(* every entry is found; the names make a tree.                            *)
Typed(z) == z.files \in Seq(Entries)
Sound(z) == \A k \in DOMAIN z.lookup : z.lookup[k] \in DOMAIN z.files /\ Key(z.files[z.lookup[k]]) = k
Listed(z) == \A i \in DOMAIN z.files : Has(z, Key(z.files[i])) /\ z.lookup[Key(z.files[i])] = i
Parented(z) == \A i \in DOMAIN z.files : \A d \in Ancestors(z.files[i].name) : HasDir(z, d)
Apart(z) == \A k \in DOMAIN z.lookup : ~HasDir(z, k)
Tree(z) == Listed(z) /\ Parented(z) /\ Apart(z)

LEMMA EntryType ==
    ASSUME NEW z, Typed(z), NEW i \in DOMAIN z.files
    PROVE  /\ z.files[i] \in Entries /\ i \in 1 .. Len(z.files)
           /\ IsClean(z.files[i].name) /\ z.files[i].name \in Seq(Chars)
           /\ z.files[i].isDir \in BOOLEAN
           /\ Key(z.files[i]) \in Seq(Chars)
           /\ Key(z.files[i]) = KeyOf(z.files[i].name, z.files[i].isDir)
<1>1. z.files[i] \in Entries /\ i \in 1 .. Len(z.files)
    BY LenProperties, ElementOfSeq DEF Typed
<1>2. IsClean(z.files[i].name) /\ z.files[i].name \in Seq(Chars) /\ z.files[i].isDir \in BOOLEAN
    BY <1>1 DEF Entries, CleanNames
<1>3. Key(z.files[i]) = KeyOf(z.files[i].name, z.files[i].isDir)
    BY DEF Key
<1> QED BY <1>1, <1>2, <1>3, KeyType

LEMMA FilesLen ==
    ASSUME NEW z, Typed(z)
    PROVE  Len(z.files) \in Nat /\ DOMAIN z.files = 1 .. Len(z.files)
BY LenProperties DEF Typed

LEMMA KeyKnown ==
    ASSUME NEW z, Typed(z), Sound(z), NEW k, Has(z, k)
    PROVE  k \in Seq(Chars) /\ \E i \in DOMAIN z.files : z.lookup[k] = i /\ Key(z.files[i]) = k
<1>1. z.lookup[k] \in DOMAIN z.files /\ Key(z.files[z.lookup[k]]) = k
    BY DEF Has, Sound
<1> QED BY <1>1, EntryType

(* Behind the key d/ is the directory d, behind a clean name a file.       *)
LEMMA DirKnown ==
    ASSUME NEW z, Typed(z), Sound(z), NEW d \in Seq(Chars), HasDir(z, d)
    PROVE  \E i \in DOMAIN z.files :
                /\ z.lookup[Append(d, Slash)] = i /\ Key(z.files[i]) = Append(d, Slash)
                /\ z.files[i].isDir /\ z.files[i].name = d
<1>1. PICK i \in DOMAIN z.files : z.lookup[Append(d, Slash)] = i /\ Key(z.files[i]) = Append(d, Slash)
    BY KeyKnown DEF HasDir
<1>2. IsClean(z.files[i].name) /\ z.files[i].name \in Seq(Chars) /\ z.files[i].isDir \in BOOLEAN
      /\ Key(z.files[i]) = KeyOf(z.files[i].name, z.files[i].isDir)
    BY EntryType
<1>3. z.files[i].isDir
    <2>1. Append(d, Slash)[Len(Append(d, Slash))] = Slash
        BY AppendSlash
    <2> QED BY <1>1, <1>2, <2>1, KeyEnd
<1>4. z.files[i].name = d
    BY <1>1, <1>2, <1>3, AppendSlashInjective DEF KeyOf
<1> QED BY <1>1, <1>3, <1>4

LEMMA FileKnown ==
    ASSUME NEW z, Typed(z), Sound(z), NEW n, IsClean(n), Has(z, n)
    PROVE  \E i \in DOMAIN z.files :
                z.lookup[n] = i /\ Key(z.files[i]) = n /\ ~z.files[i].isDir /\ z.files[i].name = n
<1>1. PICK i \in DOMAIN z.files : z.lookup[n] = i /\ Key(z.files[i]) = n
    BY KeyKnown
<1>2. IsClean(z.files[i].name) /\ z.files[i].isDir \in BOOLEAN
      /\ Key(z.files[i]) = KeyOf(z.files[i].name, z.files[i].isDir)
    BY EntryType
<1>3. KeyOf(z.files[i].name, z.files[i].isDir) = KeyOf(n, FALSE)
    BY <1>1, <1>2 DEF KeyOf
<1>4. z.files[i].name = n /\ z.files[i].isDir = FALSE
    BY <1>2, <1>3, KeyInjective
<1> QED BY <1>1, <1>4

(* Whatever lies below a directory of the tree, its ancestors are there.   *)
LEMMA UnderTree ==
    ASSUME NEW z, Typed(z), Tree(z), NEW i \in DOMAIN z.files, NEW d \in Seq(Chars),
           IsPrefix(Append(d, Slash), Key(z.files[i]))
    PROVE  HasDir(z, d)
<1>1. IsClean(z.files[i].name) /\ z.files[i].isDir \in BOOLEAN
      /\ Key(z.files[i]) = KeyOf(z.files[i].name, z.files[i].isDir)
    BY EntryType
<1>2. d \in Ancestors(z.files[i].name) \/ (z.files[i].isDir /\ d = z.files[i].name)
    BY <1>1, UnderKey
<1>3. CASE d \in Ancestors(z.files[i].name)
    BY <1>3 DEF Tree, Parented
<1>4. CASE z.files[i].isDir /\ d = z.files[i].name
    BY <1>1, <1>4 DEF Tree, Listed, KeyOf, HasDir
<1> QED BY <1>2, <1>3, <1>4

----------------------------------------------------------------------------
(* Insert                                                                  *)

LEMMA InsertFacts ==
    ASSUME NEW z, Typed(z), NEW n, IsClean(n), NEW b \in BOOLEAN, NEW im \in BOOLEAN,
           NEW c, c = Insert(z, n, b, im)
    PROVE  /\ Typed(c) /\ DOMAIN c.files = 1 .. Len(z.files) + 1
           /\ \A i \in DOMAIN z.files : i \in DOMAIN c.files /\ c.files[i] = z.files[i]
           /\ c.files[Len(z.files) + 1] = [name |-> n, isDir |-> b, isImplicit |-> im]
           /\ Key(c.files[Len(z.files) + 1]) = KeyOf(n, b)
           /\ DOMAIN c.lookup = DOMAIN z.lookup \cup {KeyOf(n, b)}
           /\ c.lookup[KeyOf(n, b)] = Len(z.files) + 1
           /\ \A k \in DOMAIN z.lookup : k # KeyOf(n, b) => c.lookup[k] = z.lookup[k]
<1> DEFINE e == [name |-> n, isDir |-> b, isImplicit |-> im]
<1>1. e \in Entries
    BY CleanName DEF Entries
<1>2. c.files = Append(z.files, e)
    BY DEF Insert
<1>3. c.lookup = [k \in DOMAIN z.lookup \cup {KeyOf(n, b)} |->
                     IF k = KeyOf(n, b) THEN Len(z.files) + 1 ELSE z.lookup[k]]
    BY DEF Insert
<1>4. Key(e) = KeyOf(n, b)
    BY DEF Key
<1> HIDE DEF e
<1>5. z.files \in Seq(Entries) /\ DOMAIN z.files = 1 .. Len(z.files) /\ Len(z.files) \in Nat
    BY FilesLen DEF Typed
<1>6. /\ c.files \in Seq(Entries) /\ Len(c.files) = Len(z.files) + 1
      /\ \A i \in 1 .. Len(z.files) : c.files[i] = z.files[i]
      /\ c.files[Len(z.files) + 1] = e
    BY <1>1, <1>2, <1>5, AppendProperties
<1>7. Typed(c) /\ DOMAIN c.files = 1 .. Len(z.files) + 1
    BY <1>6, LenProperties DEF Typed
<1>8. \A i \in DOMAIN z.files : i \in DOMAIN c.files /\ c.files[i] = z.files[i]
    BY <1>5, <1>6, <1>7
<1>9. /\ DOMAIN c.lookup = DOMAIN z.lookup \cup {KeyOf(n, b)}
      /\ c.lookup[KeyOf(n, b)] = Len(z.files) + 1
      /\ \A k \in DOMAIN z.lookup : k # KeyOf(n, b) => c.lookup[k] = z.lookup[k]
    BY <1>3
<1> QED BY <1>4, <1>6, <1>7, <1>8, <1>9 DEF e

LEMMA InsertSound ==
    ASSUME NEW z, Typed(z), Sound(z), NEW n, IsClean(n), NEW b \in BOOLEAN, NEW im \in BOOLEAN
    PROVE  Sound(Insert(z, n, b, im))
<1> SUFFICES ASSUME NEW c, c = Insert(z, n, b, im) PROVE Sound(c)
    OBVIOUS
<1>1. /\ DOMAIN c.files = 1 .. Len(z.files) + 1
      /\ \A i \in DOMAIN z.files : i \in DOMAIN c.files /\ c.files[i] = z.files[i]
      /\ c.files[Len(z.files) + 1] = [name |-> n, isDir |-> b, isImplicit |-> im]
      /\ Key(c.files[Len(z.files) + 1]) = KeyOf(n, b)
      /\ DOMAIN c.lookup = DOMAIN z.lookup \cup {KeyOf(n, b)}
      /\ c.lookup[KeyOf(n, b)] = Len(z.files) + 1
      /\ \A k \in DOMAIN z.lookup : k # KeyOf(n, b) => c.lookup[k] = z.lookup[k]
    BY InsertFacts
<1>2. Len(z.files) + 1 \in 1 .. Len(z.files) + 1
    BY FilesLen
<1>3. ASSUME NEW k \in DOMAIN c.lookup PROVE c.lookup[k] \in DOMAIN c.files /\ Key(c.files[c.lookup[k]]) = k
    <2>1. CASE k = KeyOf(n, b)
        BY <1>1, <1>2, <2>1
    <2>2. CASE k # KeyOf(n, b)
        <3>1. k \in DOMAIN z.lookup /\ c.lookup[k] = z.lookup[k]
            BY <1>1, <2>2
        <3>2. z.lookup[k] \in DOMAIN z.files /\ Key(z.files[z.lookup[k]]) = k
            BY <3>1 DEF Sound
        <3> QED BY <1>1, <3>1, <3>2
    <2> QED BY <2>1, <2>2
<1> QED BY <1>3 DEF Sound

(* A free name whose parents are there extends the tree.                   *)
LEMMA InsertTree ==
    ASSUME NEW z, Typed(z), Sound(z), Tree(z), NEW n, IsClean(n), NEW b \in BOOLEAN, NEW im \in BOOLEAN,
           ~Has(z, n), ~HasDir(z, n), \A d \in Ancestors(n) : HasDir(z, d)
    PROVE  Tree(Insert(z, n, b, im))
<1> SUFFICES ASSUME NEW c, c = Insert(z, n, b, im) PROVE Tree(c)
    OBVIOUS
<1>1. /\ DOMAIN c.files = 1 .. Len(z.files) + 1
      /\ \A i \in DOMAIN z.files : i \in DOMAIN c.files /\ c.files[i] = z.files[i]
      /\ c.files[Len(z.files) + 1] = [name |-> n, isDir |-> b, isImplicit |-> im]
      /\ Key(c.files[Len(z.files) + 1]) = KeyOf(n, b)
      /\ DOMAIN c.lookup = DOMAIN z.lookup \cup {KeyOf(n, b)}
      /\ c.lookup[KeyOf(n, b)] = Len(z.files) + 1
      /\ \A k \in DOMAIN z.lookup : k # KeyOf(n, b) => c.lookup[k] = z.lookup[k]
    BY InsertFacts
<1>2. DOMAIN z.files = 1 .. Len(z.files) /\ Len(z.files) \in Nat
    BY FilesLen
<1>3. KeyOf(n, b) \notin DOMAIN z.lookup
    BY DEF KeyOf, Has, HasDir
<1>4. Listed(c)
    <2> SUFFICES ASSUME NEW i \in DOMAIN c.files
                 PROVE  Has(c, Key(c.files[i])) /\ c.lookup[Key(c.files[i])] = i
        BY DEF Listed
    <2>1. CASE i = Len(z.files) + 1
        BY <1>1, <2>1 DEF Has
    <2>2. CASE i # Len(z.files) + 1
        <3>1. i \in DOMAIN z.files
            BY <1>1, <1>2, <2>2
        <3>2. Has(z, Key(z.files[i])) /\ z.lookup[Key(z.files[i])] = i /\ c.files[i] = z.files[i]
            BY <1>1, <3>1 DEF Tree, Listed
        <3> QED BY <1>1, <1>3, <3>2 DEF Has
    <2> QED BY <2>1, <2>2
<1>5. Parented(c)
    <2> SUFFICES ASSUME NEW i \in DOMAIN c.files, NEW d \in Ancestors(c.files[i].name) PROVE HasDir(c, d)
        BY DEF Parented
    <2>1. HasDir(z, d)
        <3>1. CASE i = Len(z.files) + 1
            BY <1>1, <3>1
        <3>2. CASE i # Len(z.files) + 1
            <4>1. i \in DOMAIN z.files /\ c.files[i] = z.files[i]
                BY <1>1, <1>2, <3>2
            <4> QED BY <4>1 DEF Tree, Parented
        <3> QED BY <3>1, <3>2
    <2> QED BY <1>1, <2>1 DEF HasDir, Has
<1>6. Apart(c)
    <2> SUFFICES ASSUME NEW k \in DOMAIN c.lookup, HasDir(c, k) PROVE FALSE
        BY DEF Apart
    <2>1. n \in Seq(Chars)
        BY CleanName
    <2>2. CASE Has(z, k)
        <3>1. ~HasDir(z, k)
            BY <2>2 DEF Tree, Apart, Has
        <3>2. Append(k, Slash) = KeyOf(n, b)
            BY <1>1, <3>1 DEF HasDir, Has
        <3>3. PICK i \in DOMAIN z.files : Key(z.files[i]) = k
            BY <2>2, KeyKnown
        <3>4. IsClean(z.files[i].name) /\ z.files[i].isDir \in BOOLEAN
              /\ Key(z.files[i]) = KeyOf(z.files[i].name, z.files[i].isDir)
            BY EntryType
        <3>5. z.files[i].name = n /\ ~z.files[i].isDir
            <4> DEFINE m == z.files[i].name
                       a == z.files[i].isDir
            <4>1. IsClean(m) /\ a \in BOOLEAN /\ KeyOf(n, b) = Append(KeyOf(m, a), Slash)
                BY <3>2, <3>3, <3>4
            <4> HIDE DEF m, a
            <4>2. n = m /\ ~a
                BY <4>1, KeyOneSlash
            <4> QED BY <4>2 DEF m, a
        <3>6. k = n
            BY <3>3, <3>4, <3>5 DEF KeyOf
        <3> QED BY <2>2, <3>6
    <2>3. CASE ~Has(z, k)
        <3>1. k = KeyOf(n, b)
            BY <1>1, <2>3 DEF Has
        <3>2. CASE Append(k, Slash) = KeyOf(n, b)
            BY <2>1, <3>1, <3>2, KeyType, AppendSlash
        <3>3. CASE Append(k, Slash) # KeyOf(n, b)
            <4>1. Has(z, Append(k, Slash))
                BY <1>1, <3>3 DEF HasDir, Has
            <4>2. PICK i \in DOMAIN z.files : Key(z.files[i]) = Append(k, Slash)
                BY <4>1, KeyKnown
            <4>3. IsClean(z.files[i].name) /\ z.files[i].isDir \in BOOLEAN
                  /\ Key(z.files[i]) = KeyOf(z.files[i].name, z.files[i].isDir)
                BY EntryType
            <4>4. ~b
                BY <3>1, <4>2, <4>3, KeyOneSlash
            <4> QED BY <3>1, <4>1, <4>4 DEF KeyOf, HasDir
        <3> QED BY <3>2, <3>3
    <2> QED BY <2>2, <2>3
<1> QED BY <1>4, <1>5, <1>6 DEF Tree

----------------------------------------------------------------------------
(* CreateMissingDirs                                                       *)

DirAt(p, i) == [name |-> Above(p, i), isDir |-> TRUE, isImplicit |-> TRUE]

LEMMA DirAtType ==
    ASSUME NEW p, IsClean(p), NEW i \in Slashes(p)
    PROVE  /\ DirAt(p, i) \in Entries /\ Above(p, i) \in Ancestors(p)
           /\ Above(p, i) \in Seq(Chars) /\ IsClean(Above(p, i))
           /\ Key(DirAt(p, i)) = Append(Above(p, i), Slash)
           /\ Len(Key(DirAt(p, i))) = i /\ i \in 1 .. Len(p)
<1>1. p \in Seq(Chars)
    BY CleanName
<1>2. Above(p, i) \in Ancestors(p)
    BY DEF Ancestors
<1>3. IsClean(Above(p, i))
    BY <1>2, AncestorClean
<1>4. i \in 1 .. Len(p) /\ Len(Append(Above(p, i), Slash)) = i
    BY <1>1, AboveIsPrefix
<1>5. Key(DirAt(p, i)) = Append(Above(p, i), Slash)
    BY DEF Key, KeyOf, DirAt
<1>6. DirAt(p, i) \in Entries
    BY <1>3, CleanName DEF DirAt, Entries
<1> QED BY <1>2, <1>3, <1>4, <1>5, <1>6, CleanName

LEMMA MissingType ==
    ASSUME NEW z, NEW p, IsClean(p)
    PROVE  /\ MissingDirs(z, p) \subseteq Slashes(p) /\ MissingDirs(z, p) \in SUBSET (1 .. Len(p))
           /\ Len(p) \in Nat
           /\ \A i \in MissingDirs(z, p) : ~HasDir(z, Above(p, i))
<1>1. Slashes(p) \in SUBSET (1 .. Len(p)) /\ Len(p) \in Nat
    BY CleanName, SlashesType
<1>2. MissingDirs(z, p) \subseteq Slashes(p)
    BY DEF MissingDirs
<1>3. ASSUME NEW i \in MissingDirs(z, p) PROVE ~HasDir(z, Above(p, i))
    <2>1. i \in Slashes(p) /\ ~(i < i)
        BY <1>1, <1>2
    <2> QED BY <2>1 DEF MissingDirs
<1> QED BY <1>1, <1>2, <1>3

(* The missing directories follow the entries in files, each at the place  *)
(* it has among them,                                                      *)
LEMMA CreateFiles ==
    ASSUME NEW z, Typed(z), NEW p, IsClean(p), NEW c, c = CreateMissingDirs(z, p),
           NEW M, M = MissingDirs(z, p)
    PROVE  /\ Typed(c) /\ Cardinality(M) \in Nat
           /\ DOMAIN c.files = 1 .. Len(z.files) + Cardinality(M)
           /\ \A i \in DOMAIN z.files : i \in DOMAIN c.files /\ c.files[i] = z.files[i]
           /\ \A i \in M : /\ Len(z.files) + Rank(M, i) \in DOMAIN c.files
                           /\ c.files[Len(z.files) + Rank(M, i)] = DirAt(p, i)
           /\ \A r \in DOMAIN c.files : r \in DOMAIN z.files \/ \E i \in M : r = Len(z.files) + Rank(M, i)
<1> DEFINE m == Cardinality(M)
           new == [j \in 1 .. m |-> DirAt(p, Nth(M, j))]
<1>1. M \in SUBSET (1 .. Len(p)) /\ Len(p) \in Nat /\ M \subseteq Slashes(p)
    BY MissingType
<1>2. m \in Nat /\ \A i \in M : Rank(M, i) \in 1 .. m
    BY <1>1, RankType
<1>3. \A j \in 1 .. m : Nth(M, j) \in M /\ Rank(M, Nth(M, j)) = j
    BY <1>1, RankOfNth
<1>4. \A i \in M : Nth(M, Rank(M, i)) = i
    BY <1>1, NthOfRank
<1>5. c.files = z.files \o new
    BY DEF CreateMissingDirs, DirAt
<1> HIDE DEF m
<1>6. \A j \in 1 .. m : DirAt(p, Nth(M, j)) \in Entries
    BY <1>1, <1>3, DirAtType
<1>7. /\ new \in Seq(Entries) /\ Len(new) = m
      /\ \A j \in 1 .. m : new[j] = DirAt(p, Nth(M, j))
    BY <1>2, <1>6
<1> HIDE DEF new
<1>8. z.files \in Seq(Entries) /\ DOMAIN z.files = 1 .. Len(z.files) /\ Len(z.files) \in Nat
    BY FilesLen DEF Typed
<1>9. /\ c.files \in Seq(Entries) /\ Len(c.files) = Len(z.files) + m
      /\ \A i \in 1 .. Len(z.files) + m :
            c.files[i] = IF i <= Len(z.files) THEN z.files[i] ELSE new[i - Len(z.files)]
    <2>1. /\ z.files \o new \in Seq(Entries) /\ Len(z.files \o new) = Len(z.files) + Len(new)
          /\ \A i \in 1 .. Len(z.files) + Len(new) :
                (z.files \o new)[i] = IF i <= Len(z.files) THEN z.files[i] ELSE new[i - Len(z.files)]
        BY <1>7, <1>8, ConcatProperties
    <2> QED BY <1>5, <1>7, <2>1
<1>10. Typed(c) /\ DOMAIN c.files = 1 .. Len(z.files) + m
    BY <1>9, LenProperties DEF Typed
<1>11. \A i \in DOMAIN z.files : i \in DOMAIN c.files /\ c.files[i] = z.files[i]
    BY <1>2, <1>8, <1>9, <1>10
<1>12. ASSUME NEW i \in M
       PROVE  /\ Len(z.files) + Rank(M, i) \in DOMAIN c.files
              /\ c.files[Len(z.files) + Rank(M, i)] = DirAt(p, i)
    <2>1. Rank(M, i) \in 1 .. m
        BY <1>2
    <2> DEFINE q == Len(z.files) + Rank(M, i)
    <2>2. q \in 1 .. Len(z.files) + m /\ ~(q <= Len(z.files)) /\ q - Len(z.files) = Rank(M, i)
        BY <1>2, <1>8, <2>1
    <2> HIDE DEF q
    <2>3. c.files[q] = new[Rank(M, i)]
        BY <1>9, <2>2
    <2>4. new[Rank(M, i)] = DirAt(p, i)
        BY <1>4, <1>7, <2>1
    <2> QED BY <1>10, <2>2, <2>3, <2>4 DEF q
<1>13. ASSUME NEW r \in DOMAIN c.files, r \notin DOMAIN z.files
       PROVE  \E i \in M : r = Len(z.files) + Rank(M, i)
    <2>1. r - Len(z.files) \in 1 .. m /\ r = Len(z.files) + (r - Len(z.files))
        BY <1>2, <1>8, <1>10, <1>13
    <2> QED BY <1>3, <2>1
<1> QED BY <1>2, <1>10, <1>11, <1>12, <1>13 DEF m

(* and lookup finds them there.                                            *)
LEMMA CreateLookup ==
    ASSUME NEW z, NEW p, IsClean(p), NEW c, c = CreateMissingDirs(z, p),
           NEW M, M = MissingDirs(z, p)
    PROVE  /\ DOMAIN c.lookup = DOMAIN z.lookup \cup {Append(Above(p, i), Slash) : i \in M}
           /\ \A k \in DOMAIN z.lookup : c.lookup[k] = z.lookup[k]
           /\ \A i \in M : /\ Append(Above(p, i), Slash) \notin DOMAIN z.lookup
                           /\ c.lookup[Append(Above(p, i), Slash)] = Len(z.files) + Rank(M, i)
<1>1. M \subseteq Slashes(p) /\ \A i \in M : Append(Above(p, i), Slash) \notin DOMAIN z.lookup
    BY MissingType DEF HasDir, Has
<1>2. \A i \in M : Key(DirAt(p, i)) = Append(Above(p, i), Slash) /\ Len(Append(Above(p, i), Slash)) = i
    BY <1>1, DirAtType
<1>3. c.lookup = [k \in DOMAIN z.lookup \cup {Key(DirAt(p, i)) : i \in M} |->
                     IF k \in DOMAIN z.lookup THEN z.lookup[k] ELSE Len(z.files) + Rank(M, Len(k))]
    BY DEF CreateMissingDirs, DirAt, Has
<1>4. {Key(DirAt(p, i)) : i \in M} = {Append(Above(p, i), Slash) : i \in M}
    BY <1>2
<1>5. DOMAIN c.lookup = DOMAIN z.lookup \cup {Append(Above(p, i), Slash) : i \in M}
    BY <1>3, <1>4
<1>6. \A k \in DOMAIN z.lookup : c.lookup[k] = z.lookup[k]
    BY <1>3
<1>7. ASSUME NEW i \in M PROVE c.lookup[Append(Above(p, i), Slash)] = Len(z.files) + Rank(M, i)
    <2> DEFINE k == Append(Above(p, i), Slash)
    <2>1. k \in DOMAIN z.lookup \cup {Key(DirAt(p, j)) : j \in M} /\ k \notin DOMAIN z.lookup /\ Len(k) = i
        BY <1>1, <1>2
    <2> HIDE DEF k
    <2>2. c.lookup[k] = Len(z.files) + Rank(M, i)
        BY <1>3, <2>1
    <2> QED BY <2>2 DEF k
<1> QED BY <1>1, <1>5, <1>6, <1>7

LEMMA CreateSound ==
    ASSUME NEW z, Typed(z), Sound(z), NEW p, IsClean(p)
    PROVE  Sound(CreateMissingDirs(z, p))
<1> SUFFICES ASSUME NEW c, c = CreateMissingDirs(z, p), NEW M, M = MissingDirs(z, p) PROVE Sound(c)
    OBVIOUS
<1>1. /\ \A i \in DOMAIN z.files : i \in DOMAIN c.files /\ c.files[i] = z.files[i]
      /\ \A i \in M : /\ Len(z.files) + Rank(M, i) \in DOMAIN c.files
                      /\ c.files[Len(z.files) + Rank(M, i)] = DirAt(p, i)
    BY CreateFiles
<1>2. /\ DOMAIN c.lookup = DOMAIN z.lookup \cup {Append(Above(p, i), Slash) : i \in M}
      /\ \A k \in DOMAIN z.lookup : c.lookup[k] = z.lookup[k]
      /\ \A i \in M : c.lookup[Append(Above(p, i), Slash)] = Len(z.files) + Rank(M, i)
    BY CreateLookup
<1>3. \A i \in M : Key(DirAt(p, i)) = Append(Above(p, i), Slash)
    BY MissingType, DirAtType
<1>4. ASSUME NEW k \in DOMAIN c.lookup PROVE c.lookup[k] \in DOMAIN c.files /\ Key(c.files[c.lookup[k]]) = k
    <2>1. CASE k \in DOMAIN z.lookup
        BY <1>1, <1>2, <2>1 DEF Sound
    <2>2. CASE k \notin DOMAIN z.lookup
        <3>1. PICK i \in M : k = Append(Above(p, i), Slash)
            BY <1>2, <2>2
        <3> QED BY <1>1, <1>2, <1>3, <3>1
    <2> QED BY <2>1, <2>2
<1> QED BY <1>4 DEF Sound

(* Afterwards every directory above p is there,                            *)
LEMMA CreateAncestors ==
    ASSUME NEW z, Typed(z), Sound(z), Tree(z), NEW p, IsClean(p), NEW d \in Ancestors(p)
    PROVE  HasDir(CreateMissingDirs(z, p), d)
<1> SUFFICES ASSUME NEW c, c = CreateMissingDirs(z, p), NEW M, M = MissingDirs(z, p) PROVE HasDir(c, d)
    OBVIOUS
<1>1. DOMAIN c.lookup = DOMAIN z.lookup \cup {Append(Above(p, i), Slash) : i \in M}
    BY CreateLookup
<1>2. PICK i \in Slashes(p) : d = Above(p, i)
    BY DEF Ancestors
<1>3. CASE i \in M
    BY <1>1, <1>2, <1>3 DEF HasDir, Has
<1>4. CASE i \notin M
    <2>0. p \in Seq(Chars) /\ Slashes(p) \in SUBSET (1 .. Len(p)) /\ Len(p) \in Nat
        BY CleanName, SlashesType
    <2>1. PICK j \in Slashes(p) : HasDir(z, Above(p, j)) /\ ~(j < i)
        BY <1>4 DEF MissingDirs
    <2>2. IsPrefix(Append(d, Slash), p) /\ IsPrefix(Append(Above(p, j), Slash), p)
          /\ d \in Seq(Chars) /\ Above(p, j) \in Seq(Chars)
          /\ Len(Append(d, Slash)) = i /\ Len(Append(Above(p, j), Slash)) = j
        BY <1>2, <2>0, AboveIsPrefix
    <2>3. Append(d, Slash) \in Seq(Chars) /\ Append(Above(p, j), Slash) \in Seq(Chars)
        BY <2>2, AppendSlash
    <2>4. IsPrefix(Append(d, Slash), Append(Above(p, j), Slash))
        <3>1. i <= j
            BY <2>0, <2>1
        <3> QED BY <2>0, <2>2, <2>3, <3>1, PrefixShorter
    <2>5. PICK e \in DOMAIN z.files : Key(z.files[e]) = Append(Above(p, j), Slash)
        BY <2>1, <2>2, DirKnown
    <2>6. HasDir(z, d)
        BY <2>2, <2>4, <2>5, UnderTree
    <2> QED BY <1>1, <2>6 DEF HasDir, Has
<1> QED BY <1>3, <1>4

(* and if none of them was a file, the names still make a tree.            *)
LEMMA CreateTree ==
    ASSUME NEW z, Typed(z), Sound(z), Tree(z), NEW p, IsClean(p), ~ParentIsFile(z, p)
    PROVE  Tree(CreateMissingDirs(z, p))
<1> SUFFICES ASSUME NEW c, c = CreateMissingDirs(z, p), NEW M, M = MissingDirs(z, p) PROVE Tree(c)
    OBVIOUS
<1>1. /\ \A i \in DOMAIN z.files : i \in DOMAIN c.files /\ c.files[i] = z.files[i]
      /\ \A i \in M : /\ Len(z.files) + Rank(M, i) \in DOMAIN c.files
                      /\ c.files[Len(z.files) + Rank(M, i)] = DirAt(p, i)
      /\ \A r \in DOMAIN c.files : r \in DOMAIN z.files \/ \E i \in M : r = Len(z.files) + Rank(M, i)
    BY CreateFiles
<1>2. /\ DOMAIN c.lookup = DOMAIN z.lookup \cup {Append(Above(p, i), Slash) : i \in M}
      /\ \A k \in DOMAIN z.lookup : c.lookup[k] = z.lookup[k]
      /\ \A i \in M : c.lookup[Append(Above(p, i), Slash)] = Len(z.files) + Rank(M, i)
    BY CreateLookup
<1>3. \A i \in M : /\ Key(DirAt(p, i)) = Append(Above(p, i), Slash)
                   /\ Above(p, i) \in Seq(Chars) /\ IsClean(Above(p, i))
    BY MissingType, DirAtType
<1>4. p \in Seq(Chars)
    BY CleanName
<1>5. Listed(c)
    <2> SUFFICES ASSUME NEW r \in DOMAIN c.files
                 PROVE  Key(c.files[r]) \in DOMAIN c.lookup /\ c.lookup[Key(c.files[r])] = r
        BY DEF Listed, Has
    <2>1. CASE r \in DOMAIN z.files
        BY <1>1, <1>2, <2>1 DEF Tree, Listed, Has
    <2>2. CASE r \notin DOMAIN z.files
        <3>1. PICK i \in M : r = Len(z.files) + Rank(M, i)
            BY <1>1, <2>2
        <3>2. c.files[r] = DirAt(p, i)
            BY <1>1, <3>1
        <3>3. Key(c.files[r]) = Append(Above(p, i), Slash)
            BY <1>3, <3>2
        <3>4. Append(Above(p, i), Slash) \in DOMAIN c.lookup
            BY <1>2
        <3>5. c.lookup[Append(Above(p, i), Slash)] = r
            BY <1>2, <3>1
        <3> QED BY <3>3, <3>4, <3>5
    <2> QED BY <2>1, <2>2
<1>6. Parented(c)
    <2> SUFFICES ASSUME NEW r \in DOMAIN c.files, NEW d \in Ancestors(c.files[r].name) PROVE HasDir(c, d)
        BY DEF Parented
    <2>1. CASE r \in DOMAIN z.files
        <3>1. HasDir(z, d)
            BY <1>1, <2>1 DEF Tree, Parented
        <3> QED BY <1>2, <3>1 DEF HasDir, Has
    <2>2. CASE r \notin DOMAIN z.files
        <3>1. PICK i \in M : r = Len(z.files) + Rank(M, i)
            BY <1>1, <2>2
        <3>a. c.files[r] = DirAt(p, i)
            BY <1>1, <3>1
        <3>b. c.files[r].name = Above(p, i)
            BY <3>a DEF DirAt
        <3>2. d \in Ancestors(Above(p, i)) /\ Above(p, i) \in Seq(Chars) /\ i \in Slashes(p)
            BY <1>3, <3>b, MissingType
        <3>3. d \in Seq(Chars) /\ IsPrefix(Append(d, Slash), Above(p, i))
            BY <3>2, AncestorIff
        <3>4. IsPrefix(Append(Above(p, i), Slash), p)
            BY <1>4, <3>2, AboveIsPrefix
        <3>5. Append(d, Slash) \in Seq(Chars) /\ Append(Above(p, i), Slash) \in Seq(Chars)
            BY <3>2, <3>3, AppendSlash
        <3>6. IsPrefix(Above(p, i), Append(Above(p, i), Slash))
            BY <3>2, PrefixOfAppend
        <3>7. IsPrefix(Above(p, i), p)
            BY <1>4, <3>2, <3>4, <3>5, <3>6, PrefixTrans
        <3>8. IsPrefix(Append(d, Slash), p)
            BY <1>4, <3>2, <3>3, <3>5, <3>7, PrefixTrans
        <3>9. d \in Ancestors(p)
            BY <1>4, <3>3, <3>8, AncestorIff
        <3> QED BY <3>9, CreateAncestors
    <2> QED BY <2>1, <2>2
<1>7. Apart(c)
    <2> SUFFICES ASSUME NEW k \in DOMAIN c.lookup, Append(k, Slash) \in DOMAIN c.lookup PROVE FALSE
        BY DEF Apart, HasDir, Has
    <2>1. CASE k \in DOMAIN z.lookup
        <3>1. Append(k, Slash) \notin DOMAIN z.lookup
            BY <2>1 DEF Tree, Apart, HasDir, Has
        <3>2. PICK i \in M : Append(k, Slash) = Append(Above(p, i), Slash)
            BY <1>2, <3>1
        <3>3. k \in Seq(Chars)
            BY <2>1, KeyKnown DEF Has
        <3>4. k = Above(p, i)
            BY <1>3, <3>2, <3>3, AppendSlashInjective
        <3> QED BY <2>1, <3>4 DEF ParentIsFile, Has
    <2>2. CASE k \notin DOMAIN z.lookup
        <3>1. PICK i \in M : k = KeyOf(Above(p, i), TRUE)
            BY <1>2, <2>2 DEF KeyOf
        <3>2. IsClean(Above(p, i))
            BY <1>3
        <3>3. CASE Append(k, Slash) \in DOMAIN z.lookup
            <4>1. PICK e \in DOMAIN z.files : Key(z.files[e]) = Append(k, Slash)
                BY <3>3, KeyKnown DEF Has
            <4>2. IsClean(z.files[e].name) /\ z.files[e].isDir \in BOOLEAN
                  /\ Key(z.files[e]) = KeyOf(z.files[e].name, z.files[e].isDir)
                BY EntryType
            <4> QED BY <3>1, <3>2, <4>1, <4>2, KeyOneSlash
        <3>4. CASE Append(k, Slash) \notin DOMAIN z.lookup
            <4>1. PICK j \in M : Append(k, Slash) = KeyOf(Above(p, j), TRUE)
                BY <1>2, <3>4 DEF KeyOf
            <4>2. IsClean(Above(p, j))
                BY <1>3
            <4> QED BY <3>1, <3>2, <4>1, <4>2, KeyOneSlash
        <3> QED BY <3>3, <3>4
    <2> QED BY <2>1, <2>2
<1> QED BY <1>5, <1>6, <1>7 DEF Tree

(* A clean name that neither a file nor a directory has does not get one.  *)
LEMMA CreateOnlyAbove ==
    ASSUME NEW z, NEW p, IsClean(p), ~Has(z, p), ~HasDir(z, p)
    PROVE  ~Has(CreateMissingDirs(z, p), p) /\ ~HasDir(CreateMissingDirs(z, p), p)
<1> SUFFICES ASSUME NEW c, c = CreateMissingDirs(z, p), NEW M, M = MissingDirs(z, p)
             PROVE  ~Has(c, p) /\ ~HasDir(c, p)
    OBVIOUS
<1>1. DOMAIN c.lookup = DOMAIN z.lookup \cup {Append(Above(p, i), Slash) : i \in M}
    BY CreateLookup
<1>2. p \in Seq(Chars) /\ Len(p) \in Nat \ {0} /\ p[Len(p)] # Slash
    BY CleanName DEF IsClean
<1>3. ASSUME NEW i \in M PROVE Append(Above(p, i), Slash) # p /\ Append(Above(p, i), Slash) # Append(p, Slash)
    <2>1. i \in Slashes(p)
        BY MissingType
    <2>2. i \in 1 .. Len(p) /\ Above(p, i) \in Seq(Chars) /\
          Len(Append(Above(p, i), Slash)) = i /\ p[i] = Slash
        BY <1>2, <2>1, AboveIsPrefix, SlashesType
    <2>3. Len(Append(p, Slash)) = Len(p) + 1
        BY <1>2, AppendSlash
    <2>4. i # Len(p) /\ i # Len(p) + 1
        BY <1>2, <2>2
    <2> QED BY <2>2, <2>3, <2>4
<1> QED BY <1>1, <1>3 DEF Has, HasDir

----------------------------------------------------------------------------
(* AddUnder, LoadRename, LoadReplace                                       *)

LEMMA AddKeeps ==
    ASSUME NEW z, Typed(z), Sound(z), NEW n, IsClean(n), NEW b \in BOOLEAN
    PROVE  /\ Typed(AddUnder(z, n, b)) /\ Sound(AddUnder(z, n, b))
           /\ Tree(z) /\ ~Has(z, n) /\ ~HasDir(z, n) => Tree(AddUnder(z, n, b))
<1> DEFINE c == CreateMissingDirs(z, n)
<1>1. CASE ParentIsFile(z, n)
    BY <1>1 DEF AddUnder
<1>2. CASE ~ParentIsFile(z, n)
    <2>1. Typed(c)
        BY CreateFiles
    <2>2. Sound(c)
        BY CreateSound
    <2>3. ASSUME Tree(z), ~Has(z, n), ~HasDir(z, n)
          PROVE  Tree(c) /\ ~Has(c, n) /\ ~HasDir(c, n) /\ \A d \in Ancestors(n) : HasDir(c, d)
        BY <1>2, <2>3, CreateTree, CreateOnlyAbove, CreateAncestors
    <2>4. AddUnder(z, n, b) = Insert(c, n, b, FALSE)
        BY <1>2 DEF AddUnder
    <2> HIDE DEF c
    <2>5. Typed(Insert(c, n, b, FALSE))
        BY <2>1, InsertFacts
    <2>6. Sound(Insert(c, n, b, FALSE))
        BY <2>1, <2>2, InsertSound
    <2>7. ASSUME Tree(z), ~Has(z, n), ~HasDir(z, n) PROVE Tree(Insert(c, n, b, FALSE))
        <3>1. Tree(c) /\ ~Has(c, n) /\ ~HasDir(c, n) /\ \A d \in Ancestors(n) : HasDir(c, d)
            BY <2>3, <2>7
        <3> QED BY <2>1, <2>2, <3>1, InsertTree
    <2> QED BY <2>4, <2>5, <2>6, <2>7
<1> QED BY <1>1, <1>2

(* The entry ActionRename adds: its parents were made first.               *)
LEMMA RenameLoadedKeeps ==
    ASSUME NEW z, Typed(z), Sound(z), NEW n, IsClean(n), NEW b \in BOOLEAN, ~ParentIsFile(z, n)
    PROVE  LET c == CreateMissingDirs(z, n)
               r == IF Has(c, KeyOf(n, b)) THEN c ELSE Insert(c, n, b, FALSE)
           IN  Typed(r) /\ Sound(r) /\ (Tree(z) /\ ~Has(z, KeyOf(n, ~b)) => Tree(r))
<1> SUFFICES ASSUME NEW c, c = CreateMissingDirs(z, n),
                    NEW r, r = IF Has(c, KeyOf(n, b)) THEN c ELSE Insert(c, n, b, FALSE)
             PROVE  Typed(r) /\ Sound(r) /\ (Tree(z) /\ ~Has(z, KeyOf(n, ~b)) => Tree(r))
    OBVIOUS
<1>1. Typed(c)
    BY CreateFiles
<1>2. Sound(c)
    BY CreateSound
<1>3. Tree(z) => Tree(c) /\ \A d \in Ancestors(n) : HasDir(c, d)
    BY CreateTree, CreateAncestors
<1>4. CASE Has(c, KeyOf(n, b))
    BY <1>1, <1>2, <1>3, <1>4
<1>5. CASE ~Has(c, KeyOf(n, b))
    <2>1. r = Insert(c, n, b, FALSE)
        BY <1>5
    <2>2. Typed(r)
        BY <1>1, <2>1, InsertFacts
    <2>3. Sound(r)
        BY <1>1, <1>2, <2>1, InsertSound
    <2>4. ASSUME Tree(z), ~Has(z, KeyOf(n, ~b)) PROVE Tree(r)
        <3>1. DOMAIN z.lookup \subseteq DOMAIN c.lookup
            BY CreateLookup
        <3>2. ~Has(z, KeyOf(n, b))
            BY <1>5, <3>1 DEF Has
        <3>3. ~Has(z, n) /\ ~HasDir(z, n)
            BY <2>4, <3>2 DEF KeyOf, HasDir
        <3>4. ~Has(c, n) /\ ~HasDir(c, n)
            BY <3>3, CreateOnlyAbove
        <3> QED BY <1>1, <1>2, <1>3, <2>1, <2>4, <3>4, InsertTree
    <2> QED BY <2>2, <2>3, <2>4
<1> QED BY <1>4, <1>5

(* A loaded entry takes the place of the one that has its name.            *)
LEMMA ReplaceKeeps ==
    ASSUME NEW z, Typed(z), Sound(z), NEW n, IsClean(n), NEW b \in BOOLEAN, NEW im \in BOOLEAN,
           Has(z, KeyOf(n, b)),
           NEW c, c.lookup = z.lookup,
           c.files = [z.files EXCEPT ![z.lookup[KeyOf(n, b)]] = [name |-> n, isDir |-> b, isImplicit |-> im]]
    PROVE  Typed(c) /\ Sound(c) /\ (Tree(z) => Tree(c))
<1> DEFINE e == [name |-> n, isDir |-> b, isImplicit |-> im]
<1>1. PICK i \in DOMAIN z.files : z.lookup[KeyOf(n, b)] = i /\ Key(z.files[i]) = KeyOf(n, b)
    BY KeyKnown
<1>2. e \in Entries /\ Key(e) = KeyOf(n, b) /\ e.name = n
    BY CleanName DEF Entries, Key
<1>3. z.files \in Seq(Entries) /\ i \in 1 .. Len(z.files) /\ DOMAIN z.files = 1 .. Len(z.files)
    BY FilesLen DEF Typed
<1>4. c.files = [z.files EXCEPT ![i] = e]
    BY <1>1
<1> HIDE DEF e
<1>5. Typed(c)
    <2>1. [z.files EXCEPT ![i] = e] \in Seq(Entries)
        BY <1>2, <1>3, ExceptSeq
    <2> QED BY <1>4, <2>1 DEF Typed
<1>6. DOMAIN c.files = DOMAIN z.files /\ c.files[i] = e /\
      \A j \in DOMAIN z.files : j # i => c.files[j] = z.files[j]
    BY <1>3, <1>4
<1>7. z.files[i].name = n
    <2>1. IsClean(z.files[i].name) /\ z.files[i].isDir \in BOOLEAN
          /\ Key(z.files[i]) = KeyOf(z.files[i].name, z.files[i].isDir)
        BY EntryType
    <2>2. KeyOf(z.files[i].name, z.files[i].isDir) = KeyOf(n, b)
        BY <1>1, <2>1
    <2> QED BY <2>1, <2>2, KeyInjective
<1>8. \A j \in DOMAIN z.files : Key(c.files[j]) = Key(z.files[j]) /\ c.files[j].name = z.files[j].name
    BY <1>1, <1>2, <1>6, <1>7
<1>9. Sound(c)
    BY <1>6, <1>8 DEF Sound
<1>10. Tree(z) => Tree(c)
    BY <1>6, <1>8 DEF Tree, Listed, Parented, Apart, HasDir, Has
<1> QED BY <1>5, <1>9, <1>10

----------------------------------------------------------------------------
(* RemoveFrom                                                              *)

Kept(z, raw) == {i \in DOMAIN z.files : ~Removed(z.files[i], raw)}

LEMMA RemoveFacts ==
    ASSUME NEW z, Typed(z), NEW raw, NEW c, c = RemoveFrom(z, raw),
           NEW K, K = Kept(z, raw)
    PROVE  /\ Typed(c)
           /\ \A i \in K : Rank(K, i) \in DOMAIN c.files /\ c.files[Rank(K, i)] = z.files[i]
           /\ \A r \in DOMAIN c.files : \E i \in K : r = Rank(K, i)
           /\ DOMAIN c.lookup = DOMAIN z.lookup \ {Key(z.files[i]) : i \in DOMAIN z.files \ K}
           /\ \A k \in DOMAIN c.lookup : z.lookup[k] \in K => c.lookup[k] = Rank(K, z.lookup[k])
<1> DEFINE m == Cardinality(K)
<1>1. K \in SUBSET (1 .. Len(z.files)) /\ Len(z.files) \in Nat /\ K \subseteq DOMAIN z.files
    BY FilesLen DEF Kept
<1>2. m \in Nat /\ \A i \in K : Rank(K, i) \in 1 .. m
    BY <1>1, RankType
<1>3. \A j \in 1 .. m : Nth(K, j) \in K /\ Rank(K, Nth(K, j)) = j
    BY <1>1, RankOfNth
<1>4. \A i \in K : Nth(K, Rank(K, i)) = i
    BY <1>1, NthOfRank
<1>5. c.files = [j \in 1 .. m |-> z.files[Nth(K, j)]]
    BY DEF RemoveFrom, Kept
<1>6. c.lookup = [k \in DOMAIN z.lookup \ {Key(z.files[i]) : i \in DOMAIN z.files \ K} |->
                     IF z.lookup[k] \in K THEN Rank(K, z.lookup[k]) ELSE Dangling]
    BY DEF RemoveFrom, Kept
<1> HIDE DEF m
<1>7. \A j \in 1 .. m : z.files[Nth(K, j)] \in Entries
    BY <1>1, <1>3, EntryType
<1>8. c.files \in Seq(Entries) /\ DOMAIN c.files = 1 .. m /\ \A j \in 1 .. m : c.files[j] = z.files[Nth(K, j)]
    <2> DEFINE g == [j \in 1 .. m |-> z.files[Nth(K, j)]]
    <2>1. g \in Seq(Entries)
        BY <1>2, <1>7
    <2>2. DOMAIN g = 1 .. m /\ \A j \in 1 .. m : g[j] = z.files[Nth(K, j)]
        OBVIOUS
    <2> QED BY <1>5, <2>1, <2>2
<1>9. \A i \in K : Rank(K, i) \in DOMAIN c.files /\ c.files[Rank(K, i)] = z.files[i]
    BY <1>2, <1>4, <1>8
<1>10. \A r \in DOMAIN c.files : \E i \in K : r = Rank(K, i)
    BY <1>3, <1>8
<1> QED BY <1>6, <1>8, <1>9, <1>10 DEF Typed

LEMMA RemoveSound ==
    ASSUME NEW z, Typed(z), Sound(z), NEW raw
    PROVE  Typed(RemoveFrom(z, raw)) /\ Sound(RemoveFrom(z, raw))
<1> SUFFICES ASSUME NEW c, c = RemoveFrom(z, raw),
                    NEW K, K = Kept(z, raw)
             PROVE  Typed(c) /\ Sound(c)
    OBVIOUS
<1>1. /\ Typed(c)
      /\ \A i \in K : Rank(K, i) \in DOMAIN c.files /\ c.files[Rank(K, i)] = z.files[i]
      /\ \A r \in DOMAIN c.files : \E i \in K : r = Rank(K, i)
      /\ DOMAIN c.lookup = DOMAIN z.lookup \ {Key(z.files[i]) : i \in DOMAIN z.files \ K}
      /\ \A k \in DOMAIN c.lookup : z.lookup[k] \in K => c.lookup[k] = Rank(K, z.lookup[k])
    BY RemoveFacts
<1>2. ASSUME NEW k \in DOMAIN c.lookup PROVE c.lookup[k] \in DOMAIN c.files /\ Key(c.files[c.lookup[k]]) = k
    <2>1. z.lookup[k] \in DOMAIN z.files /\ Key(z.files[z.lookup[k]]) = k
        BY <1>1 DEF Sound
    <2>2. z.lookup[k] \in K
        BY <1>1, <2>1
    <2> QED BY <1>1, <2>1, <2>2
<1> QED BY <1>1, <1>2 DEF Sound

(* Removed with all that lies under it, an entry leaves a tree.            *)
LEMMA RemoveTree ==
    ASSUME NEW z, Typed(z), Sound(z), Tree(z), NEW raw, IsClean(raw)
    PROVE  Tree(RemoveFrom(z, raw))
<1> SUFFICES ASSUME NEW c, c = RemoveFrom(z, raw),
                    NEW K, K = Kept(z, raw)
             PROVE  Tree(c)
    OBVIOUS
<1>1. /\ Typed(c)
      /\ \A i \in K : Rank(K, i) \in DOMAIN c.files /\ c.files[Rank(K, i)] = z.files[i]
      /\ \A r \in DOMAIN c.files : \E i \in K : r = Rank(K, i)
      /\ DOMAIN c.lookup = DOMAIN z.lookup \ {Key(z.files[i]) : i \in DOMAIN z.files \ K}
      /\ \A k \in DOMAIN c.lookup : z.lookup[k] \in K => c.lookup[k] = Rank(K, z.lookup[k])
    BY RemoveFacts
<1>2. \A i \in DOMAIN z.files : Key(z.files[i]) \in DOMAIN z.lookup /\ z.lookup[Key(z.files[i])] = i
    BY DEF Tree, Listed, Has
<1>a. K \subseteq DOMAIN z.files
    BY DEF Kept
<1>3. ASSUME NEW i \in K PROVE Key(z.files[i]) \in DOMAIN c.lookup
    <2>1. \A j \in DOMAIN z.files \ K : Key(z.files[j]) # Key(z.files[i])
        BY <1>2, <1>a
    <2> QED BY <1>1, <1>2, <1>a, <2>1
<1>4. Listed(c)
    <2> SUFFICES ASSUME NEW r \in DOMAIN c.files
                 PROVE  Key(c.files[r]) \in DOMAIN c.lookup /\ c.lookup[Key(c.files[r])] = r
        BY DEF Listed, Has
    <2>1. PICK i \in K : r = Rank(K, i)
        BY <1>1
    <2>2. c.files[r] = z.files[i] /\ z.lookup[Key(z.files[i])] = i /\ Key(z.files[i]) \in DOMAIN c.lookup
        BY <1>1, <1>2, <1>3, <1>a, <2>1
    <2> QED BY <1>1, <2>1, <2>2
<1>5. Parented(c)
    <2> SUFFICES ASSUME NEW r \in DOMAIN c.files, NEW d \in Ancestors(c.files[r].name)
                 PROVE  Append(d, Slash) \in DOMAIN c.lookup
        BY DEF Parented, HasDir, Has
    <2>1. PICK i \in K : r = Rank(K, i)
        BY <1>1
    <2>2. i \in DOMAIN z.files /\ c.files[r] = z.files[i] /\ ~Removed(z.files[i], raw)
        BY <1>1, <2>1 DEF Kept
    <2>3. HasDir(z, d)
        BY <2>2 DEF Tree, Parented
    <2>4. /\ IsClean(z.files[i].name) /\ z.files[i].isDir \in BOOLEAN /\ z.files[i].name \in Seq(Chars)
          /\ Key(z.files[i]) \in Seq(Chars) /\ Key(z.files[i]) = KeyOf(z.files[i].name, z.files[i].isDir)
        BY <2>2, EntryType
    <2>5. d \in Seq(Chars)
        BY <2>2, <2>4, AncestorIff
    <2>6. PICK j \in DOMAIN z.files : /\ z.lookup[Append(d, Slash)] = j /\ Key(z.files[j]) = Append(d, Slash)
                                      /\ z.files[j].isDir /\ z.files[j].name = d
        BY <2>3, <2>5, DirKnown
    <2>7. raw \in Seq(Chars) /\ raw # Append(d, Slash)
        <3>1. raw \in Seq(Chars) /\ raw[Len(raw)] # Slash
            BY CleanName DEF IsClean
        <3> QED BY <2>5, <3>1, AppendSlash
    <2>8. IsPrefix(Append(d, Slash), Key(z.files[i]))
        BY <2>2, <2>4, <2>5, UnderKey
    <2>9. ~IsPrefix(Append(raw, Slash), Append(d, Slash))
        <3>1. Append(raw, Slash) \in Seq(Chars) /\ Append(d, Slash) \in Seq(Chars)
            BY <2>5, <2>7, AppendSlash
        <3>2. ~IsPrefix(Append(raw, Slash), Key(z.files[i]))
            BY <2>2 DEF Removed
        <3> QED BY <2>4, <2>8, <3>1, <3>2, PrefixTrans
    <2>10. j \in K
        BY <2>6, <2>7, <2>9 DEF Removed, Kept
    <2> QED BY <1>3, <2>6, <2>10
<1>6. Apart(c)
    BY <1>1 DEF Tree, Apart, HasDir, Has
<1> QED BY <1>4, <1>5, <1>6 DEF Tree

----------------------------------------------------------------------------
(* The names Rename and Move give                                          *)

OneSlash(s) == \A i \in 1 .. Len(s) - 1 : s[i] = Slash => s[i + 1] # Slash

LEMMA KeyShape ==
    ASSUME NEW n, IsClean(n), NEW b \in BOOLEAN, NEW k, k = KeyOf(n, b)
    PROVE  /\ k \in Seq(Chars) /\ Len(k) \in Nat \ {0} /\ k[1] # Slash /\ OneSlash(k)
           /\ k[Len(k)] = Slash <=> b
<1>1. n \in Seq(Chars) /\ Len(n) \in Nat \ {0} /\ n[1] # Slash /\ n[Len(n)] # Slash /\ OneSlash(n)
    BY CleanName DEF IsClean, OneSlash
<1>2. /\ k \in Seq(Chars) /\ Len(k) = Len(n) + (IF b THEN 1 ELSE 0)
      /\ \A i \in 1 .. Len(n) : k[i] = n[i]
    BY <1>1, KeyType
<1>3. Len(k) \in Nat \ {0} /\ (k[Len(k)] = Slash <=> b)
    BY KeyEnd
<1>4. k[1] # Slash
    BY <1>1, <1>2
<1>5. OneSlash(k)
    <2> SUFFICES ASSUME NEW i \in 1 .. Len(k) - 1, k[i] = Slash PROVE k[i + 1] # Slash
        BY DEF OneSlash
    <2>1. i \in 1 .. Len(n) /\ n[i] = Slash
        BY <1>1, <1>2
    <2>2. i \in 1 .. Len(n) - 1 /\ i + 1 \in 1 .. Len(n)
        BY <1>1, <2>1
    <2> QED BY <1>1, <1>2, <2>1, <2>2 DEF OneSlash
<1> QED BY <1>2, <1>3, <1>4, <1>5

(* TrimSlash takes the key of an entry to its name.                        *)
LEMMA TrimKey ==
    ASSUME NEW k \in Seq(Chars), Len(k) \in Nat \ {0}, k[1] # Slash, OneSlash(k),
           NEW b \in BOOLEAN, k[Len(k)] = Slash <=> b
    PROVE  IsClean(TrimSlash(k)) /\ KeyOf(TrimSlash(k), b) = k
<1>0. k # << >>
    BY EmptySeq
<1>1. CASE ~b
    <2>1. TrimSlash(k) = k
        BY <1>1 DEF TrimSlash, Last
    <2> QED BY <1>0, <1>1, <2>1 DEF IsClean, Root, OneSlash, KeyOf
<1>2. CASE b
    <2> DEFINE n == Above(k, Len(k))
    <2>1. TrimSlash(k) = n
        BY <1>0, <1>2 DEF TrimSlash, Last, Front, Above, Root
    <2>2. Len(k) \in Slashes(k)
        BY <1>2, SlashesType
    <2>3. /\ n \in Seq(Chars) /\ Len(Append(n, Slash)) = Len(k) /\ IsPrefix(Append(n, Slash), k)
        BY <2>2, AboveIsPrefix
    <2>4. Len(n) = Len(k) - 1 /\ \A j \in 1 .. Len(k) - 1 : n[j] = k[j]
        BY AboveType
    <2> HIDE DEF n
    <2>5. Append(n, Slash) = k
        <3> DEFINE m == Append(n, Slash)
        <3>1. m \in Seq(Chars) /\ Len(m) = Len(k) /\ IsPrefix(m, k)
            BY <2>3, AppendSlash
        <3> HIDE DEF m
        <3>2. m = k
            BY <3>1, PrefixSame
        <3> QED BY <3>2 DEF m
    <2>6. Len(n) # 0
        BY <1>2, <2>4
    <2>7. n[1] # Slash /\ n # << >>
        BY <2>4, <2>6, EmptySeq
    <2>8. n[Len(n)] # Slash
        <3>1. Len(k) - 1 \in 1 .. Len(k) - 1 /\ Len(k) - 1 + 1 = Len(k)
            BY <2>4, <2>6
        <3>2. k[Len(k) - 1] # Slash
            BY <1>2, <3>1 DEF OneSlash
        <3> QED BY <2>4, <3>1, <3>2
    <2>9. \A i \in 1 .. Len(n) - 1 : n[i] = Slash => n[i + 1] # Slash
        <3> SUFFICES ASSUME NEW i \in 1 .. Len(n) - 1, n[i] = Slash PROVE n[i + 1] # Slash
            OBVIOUS
        <3>1. i \in 1 .. Len(k) - 1 /\ i + 1 \in 1 .. Len(k) - 1
            BY <2>4
        <3> QED BY <2>4, <3>1 DEF OneSlash
    <2>10. IsClean(n)
        BY <2>3, <2>7, <2>8, <2>9 DEF IsClean, Root
    <2> QED BY <1>2, <2>1, <2>5, <2>10 DEF KeyOf
<1> QED BY <1>1, <1>2

LEMMA TrimOfKey ==
    ASSUME NEW n, IsClean(n), NEW b \in BOOLEAN
    PROVE  TrimSlash(KeyOf(n, b)) = n
<1> DEFINE k == KeyOf(n, b)
<1>1. /\ k \in Seq(Chars) /\ Len(k) \in Nat \ {0} /\ k[1] # Slash /\ OneSlash(k)
      /\ k[Len(k)] = Slash <=> b
    BY KeyShape
<1> HIDE DEF k
<1>2. IsClean(TrimSlash(k)) /\ KeyOf(TrimSlash(k), b) = k
    BY <1>1, TrimKey
<1>3. KeyOf(TrimSlash(k), b) = KeyOf(n, b)
    BY <1>2 DEF k
<1>4. TrimSlash(k) = n
    BY <1>2, <1>3, KeyInjective
<1> QED BY <1>4 DEF k

(* One prefix put in the place of another.                                 *)
LEMMA Splice ==
    ASSUME NEW P \in Seq(Chars), NEW Q \in Seq(Chars), NEW E \in Seq(Chars), IsPrefix(P, E),
           NEW N, N = Q \o SubSeq(E, Len(P) + 1, Len(E))
    PROVE  /\ N \in Seq(Chars) /\ Len(N) = Len(Q) + (Len(E) - Len(P))
           /\ Len(P) \in Nat /\ Len(Q) \in Nat /\ Len(E) \in Nat /\ Len(P) <= Len(E)
           /\ \A i \in 1 .. Len(Q) : N[i] = Q[i]
           /\ \A i \in 1 .. Len(E) - Len(P) : N[Len(Q) + i] = E[Len(P) + i]
           /\ IsPrefix(Q, N)
<1> DEFINE u == SubSeq(E, Len(P) + 1, Len(E))
<1>1. Len(P) \in Nat /\ Len(Q) \in Nat /\ Len(E) \in Nat /\ Len(P) <= Len(E)
    BY LenProperties, PrefixIff
<1>2. /\ u \in Seq(Chars) /\ Len(u) = Len(E) - Len(P)
      /\ \A i \in 1 .. Len(u) : u[i] = E[Len(P) + i]
    BY <1>1, CutPrefix
<1>3. N = Q \o u
    OBVIOUS
<1> HIDE DEF u
<1>4. /\ N \in Seq(Chars) /\ Len(N) = Len(Q) + Len(u)
      /\ \A i \in 1 .. Len(Q) + Len(u) : N[i] = IF i <= Len(Q) THEN Q[i] ELSE u[i - Len(Q)]
    <2>1. /\ Q \o u \in Seq(Chars) /\ Len(Q \o u) = Len(Q) + Len(u)
          /\ \A i \in 1 .. Len(Q) + Len(u) : (Q \o u)[i] = IF i <= Len(Q) THEN Q[i] ELSE u[i - Len(Q)]
        BY <1>2, ConcatProperties
    <2> QED BY <1>3, <2>1
<1>5. \A i \in 1 .. Len(Q) : N[i] = Q[i]
    BY <1>1, <1>2, <1>4
<1>6. ASSUME NEW i \in 1 .. Len(E) - Len(P) PROVE N[Len(Q) + i] = E[Len(P) + i]
    <2> DEFINE q == Len(Q) + i
    <2>1. q \in 1 .. Len(Q) + Len(u) /\ ~(q <= Len(Q)) /\ q - Len(Q) = i
        BY <1>1, <1>2
    <2> HIDE DEF q
    <2>2. N[q] = u[i]
        BY <1>4, <2>1
    <2> QED BY <1>2, <2>2 DEF q
<1>7. Len(Q) <= Len(N)
    BY <1>1, <1>2, <1>4
<1>8. IsPrefix(Q, N)
    BY <1>4, <1>5, <1>7, PrefixIff
<1> QED BY <1>1, <1>2, <1>4, <1>5, <1>6, <1>8

LEMMA SpliceInjective ==
    ASSUME NEW P \in Seq(Chars), NEW Q \in Seq(Chars), NEW E \in Seq(Chars), NEW F \in Seq(Chars),
           IsPrefix(P, E), IsPrefix(P, F),
           Q \o SubSeq(E, Len(P) + 1, Len(E)) = Q \o SubSeq(F, Len(P) + 1, Len(F))
    PROVE  E = F
<1> DEFINE N == Q \o SubSeq(E, Len(P) + 1, Len(E))
           M == Q \o SubSeq(F, Len(P) + 1, Len(F))
<1>1. /\ N \in Seq(Chars) /\ Len(N) = Len(Q) + (Len(E) - Len(P))
      /\ Len(P) \in Nat /\ Len(Q) \in Nat /\ Len(E) \in Nat /\ Len(P) <= Len(E)
      /\ \A i \in 1 .. Len(Q) : N[i] = Q[i]
      /\ \A i \in 1 .. Len(E) - Len(P) : N[Len(Q) + i] = E[Len(P) + i]
      /\ IsPrefix(Q, N)
    BY Splice
<1>2. /\ M \in Seq(Chars) /\ Len(M) = Len(Q) + (Len(F) - Len(P))
      /\ Len(P) \in Nat /\ Len(Q) \in Nat /\ Len(F) \in Nat /\ Len(P) <= Len(F)
      /\ \A i \in 1 .. Len(Q) : M[i] = Q[i]
      /\ \A i \in 1 .. Len(F) - Len(P) : M[Len(Q) + i] = F[Len(P) + i]
      /\ IsPrefix(Q, M)
    BY Splice
<1>3. M = N
    OBVIOUS
<1> HIDE DEF M, N
<1>4. Len(E) = Len(F)
    BY <1>1, <1>2, <1>3
<1>5. ASSUME NEW i \in 1 .. Len(E) PROVE E[i] = F[i]
    <2>1. CASE i <= Len(P)
        <3>1. \A j \in 1 .. Len(P) : P[j] = E[j]
            BY PrefixIff
        <3>2. \A j \in 1 .. Len(P) : P[j] = F[j]
            BY PrefixIff
        <3> QED BY <1>1, <2>1, <3>1, <3>2
    <2>2. CASE ~(i <= Len(P))
        <3> DEFINE j == i - Len(P)
        <3>1. j \in 1 .. Len(E) - Len(P) /\ Len(P) + j = i
            BY <1>1, <2>2
        <3> HIDE DEF j
        <3>2. N[Len(Q) + j] = E[Len(P) + j]
            BY <1>1, <3>1
        <3>3. M[Len(Q) + j] = F[Len(P) + j]
            BY <1>2, <1>4, <3>1
        <3> QED BY <1>3, <3>1, <3>2, <3>3
    <2> QED BY <2>1, <2>2
<1> QED BY <1>4, <1>5, SeqEqual

(* The same of what takes the place of the prefix P of E.                  *)
Spliced(P, Q, E) == Q \o SubSeq(E, Len(P) + 1, Len(E))

LEMMA SplicedFacts ==
    ASSUME NEW P \in Seq(Chars), NEW Q \in Seq(Chars), NEW E \in Seq(Chars), IsPrefix(P, E)
    PROVE  /\ Spliced(P, Q, E) \in Seq(Chars)
           /\ Len(Spliced(P, Q, E)) = Len(Q) + (Len(E) - Len(P))
           /\ Len(P) \in Nat /\ Len(Q) \in Nat /\ Len(E) \in Nat /\ Len(P) <= Len(E)
           /\ \A i \in 1 .. Len(Q) : Spliced(P, Q, E)[i] = Q[i]
           /\ \A i \in 1 .. Len(E) - Len(P) : Spliced(P, Q, E)[Len(Q) + i] = E[Len(P) + i]
<1>0. Len(P) \in Nat /\ Len(Q) \in Nat /\ Len(E) \in Nat
    BY LenProperties
<1> DEFINE N == Spliced(P, Q, E)
<1>1. N = Q \o SubSeq(E, Len(P) + 1, Len(E))
    BY DEF Spliced
<1> HIDE DEF N
<1>2. /\ N \in Seq(Chars) /\ Len(N) = Len(Q) + (Len(E) - Len(P))
      /\ Len(P) \in Nat /\ Len(Q) \in Nat /\ Len(E) \in Nat /\ Len(P) <= Len(E)
      /\ \A i \in 1 .. Len(Q) : N[i] = Q[i]
      /\ \A i \in 1 .. Len(E) - Len(P) : N[Len(Q) + i] = E[Len(P) + i]
    <2>1. N \in Seq(Chars) /\ Len(N) = Len(Q) + (Len(E) - Len(P)) /\ Len(P) <= Len(E)
        BY <1>0, <1>1, Splice
    <2>2. \A i \in 1 .. Len(Q) : N[i] = Q[i]
        BY <1>0, <1>1, Splice
    <2>3. \A i \in 1 .. Len(E) - Len(P) : N[Len(Q) + i] = E[Len(P) + i]
        BY <1>0, <1>1, Splice
    <2> QED BY <1>0, <2>1, <2>2, <2>3
<1> QED BY <1>2 DEF N

(* It ends in a slash as before, if both prefixes end alike,               *)
LEMMA SpliceEnd ==
    ASSUME NEW P \in Seq(Chars), NEW Q \in Seq(Chars), NEW E \in Seq(Chars), IsPrefix(P, E),
           P # << >>, Q # << >>,
           P[Len(P)] = Slash <=> Q[Len(Q)] = Slash
    PROVE  Spliced(P, Q, E)[Len(Spliced(P, Q, E))] = Slash <=> E[Len(E)] = Slash
<1>0. Len(P) \in Nat /\ Len(Q) \in Nat /\ Len(E) \in Nat
    BY LenProperties
<1> DEFINE N == Spliced(P, Q, E)
<1>1. Len(P) # 0 /\ Len(Q) # 0
    BY EmptySeq
<1>2. \A j \in 1 .. Len(P) : P[j] = E[j]
    BY PrefixIff
<1>4. /\ N \in Seq(Chars) /\ Len(N) = Len(Q) + (Len(E) - Len(P))
      /\ Len(P) \in Nat /\ Len(Q) \in Nat /\ Len(E) \in Nat /\ Len(P) <= Len(E)
      /\ \A i \in 1 .. Len(Q) : N[i] = Q[i]
      /\ \A i \in 1 .. Len(E) - Len(P) : N[Len(Q) + i] = E[Len(P) + i]
    <2>1. N \in Seq(Chars) /\ Len(N) = Len(Q) + (Len(E) - Len(P)) /\ Len(P) <= Len(E)
        BY <1>0, SplicedFacts
    <2>2. \A i \in 1 .. Len(Q) : N[i] = Q[i]
        BY <1>0, SplicedFacts
    <2>3. \A i \in 1 .. Len(E) - Len(P) : N[Len(Q) + i] = E[Len(P) + i]
        BY <1>0, SplicedFacts
    <2> QED BY <1>0, <2>1, <2>2, <2>3
<1> HIDE DEF N
<1>6. N[Len(N)] = Slash <=> E[Len(E)] = Slash
    <2>1. CASE Len(E) = Len(P)
        <3>1. Len(N) = Len(Q) /\ Len(Q) \in 1 .. Len(Q) /\ Len(P) \in 1 .. Len(P)
            BY <1>1, <1>4, <2>1
        <3>2. N[Len(N)] = Q[Len(Q)] /\ E[Len(E)] = P[Len(P)]
            BY <1>2, <1>4, <2>1, <3>1
        <3> QED BY <3>2
    <2>2. CASE Len(E) # Len(P)
        <3> DEFINE j == Len(E) - Len(P)
        <3>1. j \in 1 .. Len(E) - Len(P) /\ Len(P) + j = Len(E) /\ Len(Q) + j = Len(N)
            BY <1>4, <2>2
        <3> HIDE DEF j
        <3>2. N[Len(Q) + j] = E[Len(P) + j]
            BY <1>4, <3>1
        <3> QED BY <3>1, <3>2
    <2> QED BY <2>1, <2>2
<1> QED BY <1>6 DEF N

(* and of a key it makes a key.                                            *)
LEMMA SpliceShape ==
    ASSUME NEW P \in Seq(Chars), NEW Q \in Seq(Chars), NEW E \in Seq(Chars), IsPrefix(P, E),
           P # << >>, Q # << >>, Q[1] # Slash, OneSlash(Q), OneSlash(E),
           P[Len(P)] = Slash <=> Q[Len(Q)] = Slash
    PROVE  LET N == Spliced(P, Q, E)
           IN  /\ N \in Seq(Chars) /\ Len(N) \in Nat \ {0} /\ N[1] # Slash /\ OneSlash(N)
               /\ N[Len(N)] = Slash <=> E[Len(E)] = Slash
<1>0. Len(P) \in Nat /\ Len(Q) \in Nat /\ Len(E) \in Nat
    BY LenProperties
<1> DEFINE N == Spliced(P, Q, E)
<1>1. Len(P) # 0 /\ Len(Q) # 0
    BY EmptySeq
<1>2. \A j \in 1 .. Len(P) : P[j] = E[j]
    BY PrefixIff
<1>4. /\ N \in Seq(Chars) /\ Len(N) = Len(Q) + (Len(E) - Len(P))
      /\ Len(P) \in Nat /\ Len(Q) \in Nat /\ Len(E) \in Nat /\ Len(P) <= Len(E)
      /\ \A i \in 1 .. Len(Q) : N[i] = Q[i]
      /\ \A i \in 1 .. Len(E) - Len(P) : N[Len(Q) + i] = E[Len(P) + i]
    <2>1. N \in Seq(Chars) /\ Len(N) = Len(Q) + (Len(E) - Len(P)) /\ Len(P) <= Len(E)
        BY <1>0, SplicedFacts
    <2>2. \A i \in 1 .. Len(Q) : N[i] = Q[i]
        BY <1>0, SplicedFacts
    <2>3. \A i \in 1 .. Len(E) - Len(P) : N[Len(Q) + i] = E[Len(P) + i]
        BY <1>0, SplicedFacts
    <2> QED BY <1>0, <2>1, <2>2, <2>3
<1> HIDE DEF N
<1>5. Len(N) \in Nat \ {0} /\ N[1] # Slash
    <2>1. 1 \in 1 .. Len(Q) /\ Len(N) \in Nat \ {0}
        BY <1>0, <1>1, <1>4
    <2> QED BY <1>4, <2>1
<1>7. OneSlash(N)
    <2> SUFFICES ASSUME NEW i \in 1 .. Len(N) - 1, N[i] = Slash PROVE N[i + 1] # Slash
        BY DEF OneSlash
    <2>1. CASE i < Len(Q)
        <3>1. i \in 1 .. Len(Q) - 1 /\ i \in 1 .. Len(Q) /\ i + 1 \in 1 .. Len(Q)
            BY <1>4, <2>1
        <3> QED BY <1>4, <3>1 DEF OneSlash
    <2>2. CASE i = Len(Q)
        <3>1. /\ 1 \in 1 .. Len(E) - Len(P) /\ Len(Q) \in 1 .. Len(Q)
              /\ Len(P) \in 1 .. Len(E) - 1 /\ Len(P) \in 1 .. Len(P)
            BY <1>1, <1>4, <2>2
        <3>2. P[Len(P)] = Slash
            BY <1>4, <2>2, <3>1
        <3>3. E[Len(P)] = Slash
            BY <1>2, <3>1, <3>2
        <3>4. E[Len(P) + 1] # Slash
            BY <3>1, <3>3 DEF OneSlash
        <3>5. N[Len(Q) + 1] = E[Len(P) + 1]
            BY <1>4, <3>1
        <3> QED BY <2>2, <3>4, <3>5
    <2>3. CASE i > Len(Q)
        <3> DEFINE j == i - Len(Q)
        <3>1. /\ j \in 1 .. Len(E) - Len(P) /\ j + 1 \in 1 .. Len(E) - Len(P)
              /\ Len(Q) + j = i /\ Len(Q) + (j + 1) = i + 1
              /\ Len(P) + j \in 1 .. Len(E) - 1 /\ Len(P) + (j + 1) = (Len(P) + j) + 1
            BY <1>1, <1>4, <2>3
        <3> HIDE DEF j
        <3>2. N[Len(Q) + j] = E[Len(P) + j]
            BY <1>4, <3>1
        <3>3. N[Len(Q) + (j + 1)] = E[Len(P) + (j + 1)]
            BY <1>4, <3>1
        <3>4. E[(Len(P) + j) + 1] # Slash
            BY <3>1, <3>2 DEF OneSlash
        <3> QED BY <3>1, <3>3, <3>4
    <2>4. i \in Int
        OBVIOUS
    <2> QED BY <1>4, <2>1, <2>2, <2>3, <2>4
<1>8. N[Len(N)] = Slash <=> E[Len(E)] = Slash
    BY SpliceEnd DEF N
<1> QED BY <1>4, <1>5, <1>7, <1>8 DEF N

(* What follows the old prefix is kept, so prefixes and slashes are too.   *)
LEMMA SplicePrefix ==
    ASSUME NEW P \in Seq(Chars), NEW Q \in Seq(Chars), NEW E \in Seq(Chars), NEW F \in Seq(Chars),
           IsPrefix(P, E), IsPrefix(E, F)
    PROVE  IsPrefix(Q \o SubSeq(E, Len(P) + 1, Len(E)), Q \o SubSeq(F, Len(P) + 1, Len(F)))
<1> DEFINE N == Q \o SubSeq(E, Len(P) + 1, Len(E))
           M == Q \o SubSeq(F, Len(P) + 1, Len(F))
<1>1. /\ N \in Seq(Chars) /\ Len(N) = Len(Q) + (Len(E) - Len(P))
      /\ Len(P) \in Nat /\ Len(Q) \in Nat /\ Len(E) \in Nat /\ Len(P) <= Len(E)
      /\ \A i \in 1 .. Len(Q) : N[i] = Q[i]
      /\ \A i \in 1 .. Len(E) - Len(P) : N[Len(Q) + i] = E[Len(P) + i]
      /\ IsPrefix(Q, N)
    BY Splice
<1>2. IsPrefix(P, F)
    BY PrefixTrans
<1>3. /\ M \in Seq(Chars) /\ Len(M) = Len(Q) + (Len(F) - Len(P))
      /\ Len(P) \in Nat /\ Len(Q) \in Nat /\ Len(F) \in Nat /\ Len(P) <= Len(F)
      /\ \A i \in 1 .. Len(Q) : M[i] = Q[i]
      /\ \A i \in 1 .. Len(F) - Len(P) : M[Len(Q) + i] = F[Len(P) + i]
      /\ IsPrefix(Q, M)
    BY <1>2, Splice
<1> HIDE DEF N, M
<1>4. Len(E) <= Len(F) /\ \A i \in 1 .. Len(E) : E[i] = F[i]
    BY PrefixIff
<1>5. ASSUME NEW i \in 1 .. Len(N) PROVE N[i] = M[i]
    <2>1. CASE i <= Len(Q)
        BY <1>1, <1>3, <2>1
    <2>2. CASE ~(i <= Len(Q))
        <3> DEFINE j == i - Len(Q)
        <3>1. /\ j \in 1 .. Len(E) - Len(P) /\ j \in 1 .. Len(F) - Len(P) /\ Len(Q) + j = i
              /\ Len(P) + j \in 1 .. Len(E)
            BY <1>1, <1>3, <1>4, <2>2
        <3> HIDE DEF j
        <3>2. N[Len(Q) + j] = E[Len(P) + j]
            BY <1>1, <3>1
        <3>3. M[Len(Q) + j] = F[Len(P) + j]
            BY <1>3, <3>1
        <3> QED BY <1>4, <3>1, <3>2, <3>3
    <2> QED BY <2>1, <2>2
<1>6. Len(N) <= Len(M)
    BY <1>1, <1>3, <1>4
<1>7. IsPrefix(N, M)
    BY <1>1, <1>3, <1>5, <1>6, PrefixIff
<1> QED BY <1>7 DEF N, M

LEMMA SpliceAppend ==
    ASSUME NEW P \in Seq(Chars), NEW Q \in Seq(Chars), NEW E \in Seq(Chars), IsPrefix(P, E)
    PROVE  LET F == Append(E, Slash)
           IN  /\ F \in Seq(Chars) /\ IsPrefix(P, F)
               /\ Q \o SubSeq(F, Len(P) + 1, Len(F)) = Append(Q \o SubSeq(E, Len(P) + 1, Len(E)), Slash)
<1> DEFINE F == Append(E, Slash)
           N == Q \o SubSeq(E, Len(P) + 1, Len(E))
           M == Q \o SubSeq(F, Len(P) + 1, Len(F))
<1>1. /\ N \in Seq(Chars) /\ Len(N) = Len(Q) + (Len(E) - Len(P))
      /\ Len(P) \in Nat /\ Len(Q) \in Nat /\ Len(E) \in Nat /\ Len(P) <= Len(E)
      /\ \A i \in 1 .. Len(Q) : N[i] = Q[i]
      /\ \A i \in 1 .. Len(E) - Len(P) : N[Len(Q) + i] = E[Len(P) + i]
      /\ IsPrefix(Q, N)
    BY Splice
<1>2. /\ F \in Seq(Chars) /\ Len(F) = Len(E) + 1 /\ F[Len(E) + 1] = Slash /\ IsPrefix(E, F)
    BY AppendSlash, PrefixOfAppend
<1> HIDE DEF F
<1>3. IsPrefix(P, F)
    BY <1>2, PrefixTrans
<1>4. /\ M \in Seq(Chars) /\ Len(M) = Len(Q) + (Len(F) - Len(P))
      /\ Len(P) \in Nat /\ Len(Q) \in Nat /\ Len(F) \in Nat /\ Len(P) <= Len(F)
      /\ \A i \in 1 .. Len(Q) : M[i] = Q[i]
      /\ \A i \in 1 .. Len(F) - Len(P) : M[Len(Q) + i] = F[Len(P) + i]
      /\ IsPrefix(Q, M)
    BY <1>2, <1>3, Splice
<1>5. IsPrefix(N, M)
    BY <1>2, SplicePrefix
<1> HIDE DEF N, M
<1>6. /\ Append(N, Slash) \in Seq(Chars) /\ Len(Append(N, Slash)) = Len(N) + 1
      /\ \A i \in 1 .. Len(N) : Append(N, Slash)[i] = N[i]
      /\ Append(N, Slash)[Len(N) + 1] = Slash
    BY <1>1, AppendSlash
<1>7. \A i \in 1 .. Len(N) : N[i] = M[i]
    BY <1>1, <1>4, <1>5, PrefixIff
<1>8. M[Len(N) + 1] = Slash
    <2> DEFINE j == Len(F) - Len(P)
    <2>1. j \in 1 .. Len(F) - Len(P) /\ Len(Q) + j = Len(N) + 1 /\ Len(P) + j = Len(E) + 1
        BY <1>1, <1>2, <1>4
    <2> HIDE DEF j
    <2>2. M[Len(Q) + j] = F[Len(P) + j]
        BY <1>4, <2>1
    <2> QED BY <1>2, <2>1, <2>2
<1>9. Len(M) = Len(N) + 1
    BY <1>1, <1>2, <1>4
<1>10. \A i \in 1 .. Len(M) : M[i] = Append(N, Slash)[i]
    BY <1>1, <1>6, <1>7, <1>8, <1>9
<1>11. M = Append(N, Slash)
    <2> DEFINE G == Append(N, Slash)
    <2>1. G \in Seq(Chars) /\ Len(G) = Len(M) /\ \A i \in 1 .. Len(M) : M[i] = G[i]
        BY <1>6, <1>9, <1>10
    <2> HIDE DEF G
    <2>2. M = G
        BY <1>4, <2>1, SeqEqual
    <2> QED BY <2>2 DEF G
<1> QED BY <1>2, <1>3, <1>11 DEF F, N, M

(* The entry a transformation makes of e, which it hits                    *)
Moved(f, newPath, e) == [e EXCEPT !.name = TrimSlash(NewKey(f, newPath, e))]

LEMMA EntryKey ==
    ASSUME NEW e \in Entries
    PROVE  /\ IsClean(e.name) /\ e.isDir \in BOOLEAN /\ Key(e) = KeyOf(e.name, e.isDir)
           /\ Key(e) \in Seq(Chars) /\ Len(Key(e)) \in Nat \ {0} /\ Key(e) # << >>
           /\ Key(e)[1] # Slash /\ OneSlash(Key(e)) /\ (Key(e)[Len(Key(e))] = Slash <=> e.isDir)
<1> DEFINE k == Key(e)
<1>1. IsClean(e.name) /\ e.isDir \in BOOLEAN /\ k = KeyOf(e.name, e.isDir)
    BY DEF Entries, CleanNames, Key
<1> HIDE DEF k
<1>2. /\ k \in Seq(Chars) /\ Len(k) \in Nat \ {0} /\ k[1] # Slash /\ OneSlash(k)
      /\ k[Len(k)] = Slash <=> e.isDir
    BY <1>1, KeyShape
<1>3. k # << >>
    BY <1>2, EmptySeq
<1> QED BY <1>1, <1>2, <1>3 DEF k

LEMMA NewName ==
    ASSUME NEW f \in Entries, NEW e \in Entries, NEW p, IsClean(p), Hit(f, e)
    PROVE  /\ NewKey(f, p, e) \in Seq(Chars) /\ IsPrefix(KeyOf(p, f.isDir), NewKey(f, p, e))
           /\ Moved(f, p, e) \in Entries /\ Key(Moved(f, p, e)) = NewKey(f, p, e)
           /\ Moved(f, p, e).name = TrimSlash(NewKey(f, p, e)) /\ Moved(f, p, e).isDir = e.isDir
<1> DEFINE P == Key(f)
           Q == KeyOf(p, f.isDir)
           E == Key(e)
           K == NewKey(f, p, e)
<1>1. P \in Seq(Chars) /\ P # << >> /\ (P[Len(P)] = Slash <=> f.isDir) /\ f.isDir \in BOOLEAN
    BY EntryKey
<1>2. /\ E \in Seq(Chars) /\ OneSlash(E) /\ (E[Len(E)] = Slash <=> e.isDir) /\ e.isDir \in BOOLEAN
    BY EntryKey
<1>3. /\ Q \in Seq(Chars) /\ Len(Q) \in Nat \ {0} /\ Q[1] # Slash /\ OneSlash(Q)
      /\ Q[Len(Q)] = Slash <=> f.isDir
    <2> DEFINE b == f.isDir
    <2>1. b \in BOOLEAN /\ Q = KeyOf(p, b)
        BY <1>1
    <2> HIDE DEF b, Q
    <2>2. /\ Q \in Seq(Chars) /\ Len(Q) \in Nat \ {0} /\ Q[1] # Slash /\ OneSlash(Q)
          /\ Q[Len(Q)] = Slash <=> b
        BY <2>1, KeyShape
    <2> QED BY <2>2 DEF b
<1>4. K = Q \o SubSeq(E, Len(P) + 1, Len(E)) /\ IsPrefix(P, E)
    BY DEF NewKey, Hit
<1>5. Q # << >>
    BY <1>3, EmptySeq
<1> HIDE DEF P, Q, E, K
<1>6. /\ K \in Seq(Chars) /\ Len(K) \in Nat \ {0} /\ K[1] # Slash /\ OneSlash(K)
      /\ K[Len(K)] = Slash <=> E[Len(E)] = Slash
    <2>a. /\ P \in Seq(Chars) /\ Q \in Seq(Chars) /\ E \in Seq(Chars) /\ P # << >> /\ Q # << >>
          /\ Q[1] # Slash /\ OneSlash(Q) /\ OneSlash(E) /\ IsPrefix(P, E)
          /\ P[Len(P)] = Slash <=> Q[Len(Q)] = Slash
        BY <1>1, <1>2, <1>3, <1>4, <1>5
    <2>b. K = Spliced(P, Q, E)
        BY <1>4 DEF Spliced
    <2>1. K \in Seq(Chars)
        BY <2>a, <2>b, SpliceShape
    <2>2. OneSlash(K)
        BY <2>a, <2>b, SpliceShape
    <2>3. Len(K) \in Nat \ {0}
        BY <2>a, <2>b, SpliceShape
    <2>4. K[1] # Slash
        BY <2>a, <2>b, SpliceShape
    <2>5. K[Len(K)] = Slash <=> E[Len(E)] = Slash
        BY <2>a, <2>b, SpliceEnd
    <2> QED BY <2>1, <2>2, <2>3, <2>4, <2>5
<1>7. IsPrefix(Q, K)
    <2>1. IsPrefix(Q, Q \o SubSeq(E, Len(P) + 1, Len(E)))
        BY <1>1, <1>2, <1>3, <1>4, Splice
    <2> QED BY <1>4, <2>1
<1>8. IsClean(TrimSlash(K)) /\ KeyOf(TrimSlash(K), e.isDir) = K
    <2> DEFINE b == e.isDir
    <2>1. b \in BOOLEAN /\ (K[Len(K)] = Slash <=> b)
        BY <1>2, <1>6
    <2> HIDE DEF b
    <2>2. IsClean(TrimSlash(K)) /\ KeyOf(TrimSlash(K), b) = K
        BY <1>6, <2>1, TrimKey
    <2> QED BY <2>2 DEF b
<1>9. /\ Moved(f, p, e) = [name |-> TrimSlash(K), isDir |-> e.isDir, isImplicit |-> e.isImplicit]
      /\ e.isDir \in BOOLEAN /\ e.isImplicit \in BOOLEAN
    BY DEF Moved, Entries, K
<1>10. TrimSlash(K) \in CleanNames
    BY <1>8, CleanName
<1>11. Moved(f, p, e) \in Entries
    BY <1>9, <1>10 DEF Entries
<1>12. Moved(f, p, e).name = TrimSlash(K) /\ Moved(f, p, e).isDir = e.isDir
    BY <1>9
<1>13. Key(Moved(f, p, e)) = K
    BY <1>8, <1>12 DEF Key
<1> QED BY <1>6, <1>7, <1>11, <1>12, <1>13 DEF K, Q

LEMMA NewKeyInjective ==
    ASSUME NEW f \in Entries, NEW e \in Entries, NEW g \in Entries, NEW p, IsClean(p),
           Hit(f, e), Hit(f, g), NewKey(f, p, e) = NewKey(f, p, g)
    PROVE  Key(e) = Key(g)
<1> DEFINE P == Key(f)
           Q == KeyOf(p, f.isDir)
           E == Key(e)
           G == Key(g)
<1>1. P \in Seq(Chars) /\ E \in Seq(Chars) /\ G \in Seq(Chars) /\ f.isDir \in BOOLEAN
    BY EntryKey
<1>2. Q \in Seq(Chars)
    BY <1>1, CleanName, KeyType
<1>3. Q \o SubSeq(E, Len(P) + 1, Len(E)) = Q \o SubSeq(G, Len(P) + 1, Len(G))
    BY DEF NewKey
<1>4. IsPrefix(P, E) /\ IsPrefix(P, G)
    BY DEF Hit
<1> HIDE DEF P, Q, E, G
<1>5. E = G
    BY <1>1, <1>2, <1>3, <1>4, SpliceInjective
<1> QED BY <1>5 DEF E, G

(* The target itself gets the new path.                                    *)
LEMMA NewOfTarget ==
    ASSUME NEW f \in Entries, NEW p, IsClean(p)
    PROVE  Hit(f, f) /\ NewKey(f, p, f) = KeyOf(p, f.isDir) /\ Moved(f, p, f).name = p
<1> DEFINE P == Key(f)
           Q == KeyOf(p, f.isDir)
           N == Q \o SubSeq(P, Len(P) + 1, Len(P))
<1>1. P \in Seq(Chars) /\ f.isDir \in BOOLEAN
    BY EntryKey
<1>2. Q \in Seq(Chars)
    BY <1>1, CleanName, KeyType
<1>3. NewKey(f, p, f) = N
    BY DEF NewKey
<1>4. TrimSlash(Q) = p
    BY <1>1, TrimOfKey
<1> HIDE DEF P, Q
<1>5. IsPrefix(P, P)
    BY <1>1, PrefixRefl
<1>6. /\ N \in Seq(Chars) /\ Len(N) = Len(Q) + (Len(P) - Len(P))
      /\ Len(P) \in Nat /\ Len(Q) \in Nat /\ Len(P) \in Nat /\ Len(P) <= Len(P)
      /\ \A i \in 1 .. Len(Q) : N[i] = Q[i]
      /\ \A i \in 1 .. Len(P) - Len(P) : N[Len(Q) + i] = P[Len(P) + i]
      /\ IsPrefix(Q, N)
    BY <1>1, <1>2, <1>5, Splice
<1> HIDE DEF N
<1>7. Len(N) <= Len(Q)
    BY <1>6
<1>8. Q = N
    BY <1>2, <1>6, <1>7, PrefixSame
<1>9. Moved(f, p, f).name = TrimSlash(NewKey(f, p, f))
    BY DEF Moved, Entries
<1> QED BY <1>3, <1>4, <1>5, <1>8, <1>9 DEF Hit, P, Q

----------------------------------------------------------------------------
(* ApplyTransform                                                          *)

(* What it hits, and of that what it takes for the key k, as it is or will *)
(* be                                                                      *)
Hits(z, f) == {i \in DOMAIN z.files : Hit(f, z.files[i])}
Touching(z, f, p, k) == {i \in Hits(z, f) : k = Key(z.files[i]) \/ k = NewKey(f, p, z.files[i])}

LEMMA ApplyFacts ==
    ASSUME NEW z, Typed(z), NEW f \in Entries, NEW p, IsClean(p), NEW c, c = ApplyTransform(z, f, p)
    PROVE  /\ Typed(c) /\ DOMAIN c.files = DOMAIN z.files
           /\ \A i \in DOMAIN z.files : i \notin Hits(z, f) => c.files[i] = z.files[i]
           /\ \A i \in Hits(z, f) : /\ i \in DOMAIN z.files /\ z.files[i] \in Entries
                                    /\ Hit(f, z.files[i])
                                    /\ c.files[i] = Moved(f, p, z.files[i])
                                    /\ Key(c.files[i]) = NewKey(f, p, z.files[i])
           /\ \A k : k \in DOMAIN c.lookup <=>
                        /\ k \in DOMAIN z.lookup \cup {NewKey(f, p, z.files[i]) : i \in Hits(z, f)}
                        /\ IF Touching(z, f, p, k) = {} THEN Has(z, k)
                           ELSE k = NewKey(f, p, z.files[Max(Touching(z, f, p, k))])
           /\ \A k \in DOMAIN c.lookup :
                 c.lookup[k] = IF Touching(z, f, p, k) = {} THEN z.lookup[k] ELSE Max(Touching(z, f, p, k))
<1> DEFINE H == Hits(z, f)
           New == [i \in H |-> Moved(f, p, z.files[i])]
           T(k) == Touching(z, f, p, k)
<1>1. H \subseteq DOMAIN z.files /\ \A i \in H : z.files[i] \in Entries /\ Hit(f, z.files[i])
    BY EntryType DEF Hits
<1>2. \A i \in H : Moved(f, p, z.files[i]) \in Entries
                   /\ Key(Moved(f, p, z.files[i])) = NewKey(f, p, z.files[i])
    BY <1>1, NewName
<1>3. \A i \in H : New[i] = Moved(f, p, z.files[i]) /\ Key(New[i]) = NewKey(f, p, z.files[i])
    BY <1>2
<1>4. \A k : T(k) = {i \in H : k = Key(z.files[i]) \/ k = Key(New[i])}
    BY <1>3 DEF Touching
<1>5. {Key(New[i]) : i \in H} = {NewKey(f, p, z.files[i]) : i \in H}
    BY <1>3
<1>6. c.files = [i \in DOMAIN z.files |-> IF i \in H THEN New[i] ELSE z.files[i]]
    BY DEF ApplyTransform, Hits, Moved
<1> DEFINE U(k) == {i \in H : k = Key(z.files[i]) \/ k = Key(New[i])}
           Stay(k) == IF U(k) = {} THEN Has(z, k) ELSE k = Key(New[Max(U(k))])
<1>7. c.lookup = [k \in {k \in DOMAIN z.lookup \cup {Key(New[i]) : i \in H} : Stay(k)}
                     |-> IF U(k) = {} THEN z.lookup[k] ELSE Max(U(k))]
    BY DEF ApplyTransform, Hits, Moved
<1>8. \A k : T(k) \in SUBSET (1 .. Len(z.files)) /\ Len(z.files) \in Nat /\ T(k) \subseteq H
    BY <1>1, FilesLen DEF Touching
<1>9. \A k : T(k) # {} => Max(T(k)) \in H
    BY <1>8, HasMax
<1>10. DOMAIN c.files = DOMAIN z.files /\ Typed(c)
    <2>1. \A i \in DOMAIN z.files : c.files[i] \in Entries
        BY <1>1, <1>2, <1>3, <1>6, EntryType
    <2>2. DOMAIN c.files = DOMAIN z.files /\ DOMAIN z.files = 1 .. Len(z.files) /\ Len(z.files) \in Nat
        BY <1>6, FilesLen
    <2>3. c.files = [i \in 1 .. Len(z.files) |-> c.files[i]]
        BY <1>6, <2>2
    <2>4. c.files \in [1 .. Len(z.files) -> Entries]
        BY <2>1, <2>2, <2>3
    <2> QED BY <2>2, <2>4, SeqDef DEF Typed
<1>11. \A i \in DOMAIN z.files : i \notin H => c.files[i] = z.files[i]
    BY <1>6
<1>12. \A i \in H : c.files[i] = Moved(f, p, z.files[i]) /\ Key(c.files[i]) = NewKey(f, p, z.files[i])
    BY <1>1, <1>2, <1>3, <1>6
<1> HIDE DEF H, New, T
<1>13. ASSUME NEW k
       PROVE  k \in DOMAIN c.lookup <=>
                 /\ k \in DOMAIN z.lookup \cup {NewKey(f, p, z.files[i]) : i \in H}
                 /\ IF T(k) = {} THEN Has(z, k) ELSE k = NewKey(f, p, z.files[Max(T(k))])
    <2>1. U(k) = T(k)
        BY <1>4
    <2>2. Stay(k) <=> IF T(k) = {} THEN Has(z, k) ELSE k = Key(New[Max(T(k))])
        BY <2>1
    <2>3. T(k) # {} => Key(New[Max(T(k))]) = NewKey(f, p, z.files[Max(T(k))])
        BY <1>3, <1>9
    <2>4. k \in DOMAIN c.lookup <=> k \in DOMAIN z.lookup \cup {Key(New[i]) : i \in H} /\ Stay(k)
        <3> HIDE DEF Stay, U
        <3> QED BY <1>7
    <2> HIDE DEF Stay, U
    <2> QED BY <1>5, <2>2, <2>3, <2>4
<1>14. ASSUME NEW k \in DOMAIN c.lookup
       PROVE  c.lookup[k] = IF T(k) = {} THEN z.lookup[k] ELSE Max(T(k))
    <2>1. U(k) = T(k)
        BY <1>4
    <2>2. c.lookup[k] = IF U(k) = {} THEN z.lookup[k] ELSE Max(U(k))
        <3> HIDE DEF Stay, U
        <3> QED BY <1>7
    <2> HIDE DEF Stay, U
    <2> QED BY <2>1, <2>2
<1> QED BY <1>1, <1>10, <1>11, <1>12, <1>13, <1>14 DEF H, T

LEMMA TouchingMax ==
    ASSUME NEW z, Typed(z), NEW f, NEW p, NEW k, Touching(z, f, p, k) # {}
    PROVE  Max(Touching(z, f, p, k)) \in Touching(z, f, p, k)
<1>1. Touching(z, f, p, k) \in SUBSET (1 .. Len(z.files)) /\ Len(z.files) \in Nat
    BY FilesLen DEF Touching, Hits
<1> QED BY <1>1, HasMax

LEMMA ApplySound ==
    ASSUME NEW z, Typed(z), Sound(z), NEW f \in Entries, NEW p, IsClean(p),
           NEW c, c = ApplyTransform(z, f, p)
    PROVE  Typed(c) /\ Sound(c)
<1>1. /\ Typed(c) /\ DOMAIN c.files = DOMAIN z.files
      /\ \A i \in DOMAIN z.files : i \notin Hits(z, f) => c.files[i] = z.files[i]
      /\ \A i \in Hits(z, f) : i \in DOMAIN z.files /\ Key(c.files[i]) = NewKey(f, p, z.files[i])
      /\ \A k \in DOMAIN c.lookup :
            /\ IF Touching(z, f, p, k) = {} THEN Has(z, k)
               ELSE k = NewKey(f, p, z.files[Max(Touching(z, f, p, k))])
            /\ c.lookup[k] = IF Touching(z, f, p, k) = {} THEN z.lookup[k] ELSE Max(Touching(z, f, p, k))
    BY ApplyFacts
<1>2. ASSUME NEW k \in DOMAIN c.lookup PROVE c.lookup[k] \in DOMAIN c.files /\ Key(c.files[c.lookup[k]]) = k
    <2>1. CASE Touching(z, f, p, k) = {}
        <3>1. Has(z, k) /\ c.lookup[k] = z.lookup[k]
            BY <1>1, <2>1
        <3>2. PICK i \in DOMAIN z.files : z.lookup[k] = i /\ Key(z.files[i]) = k
            BY <3>1, KeyKnown
        <3>3. i \notin Hits(z, f)
            BY <2>1, <3>2 DEF Touching
        <3> QED BY <1>1, <3>1, <3>2, <3>3
    <2>2. CASE Touching(z, f, p, k) # {}
        <3> DEFINE i == Max(Touching(z, f, p, k))
        <3>1. i \in Hits(z, f)
            <4>1. i \in Touching(z, f, p, k)
                BY <2>2, TouchingMax
            <4> QED BY <4>1 DEF Touching
        <3>2. k = NewKey(f, p, z.files[i]) /\ c.lookup[k] = i
            BY <1>1, <2>2
        <3> HIDE DEF i
        <3> QED BY <1>1, <3>1, <3>2
    <2> QED BY <2>1, <2>2
<1> QED BY <1>1, <1>2 DEF Sound

(* If no new name is taken, lookup finds every entry by its new name.      *)
LEMMA ApplyListed ==
    ASSUME NEW z, Typed(z), Sound(z), Listed(z), NEW f \in Entries, NEW p, IsClean(p),
           \A i \in Hits(z, f) : ~Has(z, NewKey(f, p, z.files[i])),
           NEW c, c = ApplyTransform(z, f, p)
    PROVE  Listed(c)
<1>1. /\ DOMAIN c.files = DOMAIN z.files
      /\ \A i \in DOMAIN z.files : i \notin Hits(z, f) => c.files[i] = z.files[i]
      /\ \A i \in Hits(z, f) : /\ i \in DOMAIN z.files /\ z.files[i] \in Entries
                               /\ Hit(f, z.files[i])
                               /\ Key(c.files[i]) = NewKey(f, p, z.files[i])
    BY ApplyFacts
<1>2. \A k : k \in DOMAIN c.lookup <=>
                 /\ k \in DOMAIN z.lookup \cup {NewKey(f, p, z.files[i]) : i \in Hits(z, f)}
                 /\ IF Touching(z, f, p, k) = {} THEN Has(z, k)
                    ELSE k = NewKey(f, p, z.files[Max(Touching(z, f, p, k))])
    BY ApplyFacts
<1>3. \A k \in DOMAIN c.lookup :
          c.lookup[k] = IF Touching(z, f, p, k) = {} THEN z.lookup[k] ELSE Max(Touching(z, f, p, k))
    BY ApplyFacts
<1>4. \A i \in DOMAIN z.files : Has(z, Key(z.files[i])) /\ z.lookup[Key(z.files[i])] = i
    BY DEF Listed
<1>5. SUFFICES ASSUME NEW i \in DOMAIN z.files
               PROVE  Key(c.files[i]) \in DOMAIN c.lookup /\ c.lookup[Key(c.files[i])] = i
    BY <1>1 DEF Listed, Has
<1>6. CASE i \in Hits(z, f)
    <2> DEFINE k == NewKey(f, p, z.files[i])
               m == Max(Touching(z, f, p, k))
    <2>1. Key(c.files[i]) = k
        BY <1>1, <1>6
    <2>2. ~Has(z, k)
        BY <1>6
    <2>3. i \in Touching(z, f, p, k)
        BY <1>6 DEF Touching
    <2>4. ASSUME NEW j \in Touching(z, f, p, k) PROVE j = i
        <3>1. j \in Hits(z, f) /\ (k = Key(z.files[j]) \/ k = NewKey(f, p, z.files[j]))
            BY DEF Touching
        <3>2. k # Key(z.files[j])
            BY <1>1, <1>4, <2>2, <3>1
        <3>3. Key(z.files[i]) = Key(z.files[j])
            BY <1>1, <1>6, <3>1, <3>2, NewKeyInjective
        <3> QED BY <1>1, <1>4, <3>1, <3>3
    <2>5. m = i
        BY <2>3, <2>4, TouchingMax
    <2>6. k \in {NewKey(f, p, z.files[j]) : j \in Hits(z, f)}
        BY <1>6
    <2>7. k = NewKey(f, p, z.files[m])
        BY <2>5
    <2> HIDE DEF k
    <2>8. k \in DOMAIN c.lookup
        BY <1>2, <2>3, <2>6, <2>7
    <2>9. c.lookup[k] = m
        BY <1>3, <2>3, <2>8
    <2> QED BY <2>1, <2>5, <2>8, <2>9
<1>7. CASE i \notin Hits(z, f)
    <2> DEFINE k == Key(z.files[i])
    <2>1. Key(c.files[i]) = k
        BY <1>1, <1>7
    <2>2. Has(z, k) /\ z.lookup[k] = i
        BY <1>4
    <2>3. Touching(z, f, p, k) = {}
        <3> SUFFICES ASSUME NEW j \in Touching(z, f, p, k) PROVE FALSE
            OBVIOUS
        <3>1. j \in Hits(z, f) /\ (k = Key(z.files[j]) \/ k = NewKey(f, p, z.files[j]))
            BY DEF Touching
        <3>2. k # Key(z.files[j])
            BY <1>1, <1>4, <1>7, <2>2, <3>1
        <3> QED BY <2>2, <3>1, <3>2
    <2> HIDE DEF k
    <2>4. k \in DOMAIN c.lookup
        BY <1>2, <2>2, <2>3 DEF Has
    <2>5. c.lookup[k] = z.lookup[k]
        BY <1>3, <2>3, <2>4
    <2> QED BY <2>1, <2>2, <2>4, <2>5
<1> QED BY <1>6, <1>7

LEMMA HasIff ==
    ASSUME NEW z, Typed(z), Sound(z), Listed(z), NEW k
    PROVE  Has(z, k) <=> \E i \in DOMAIN z.files : Key(z.files[i]) = k
BY KeyKnown DEF Listed

(* Where no name continues another one, a file is the only entry it hits.  *)
LEMMA FileHitsItself ==
    ASSUME NEW z, Typed(z), Sound(z), Tree(z), NamesApart(z),
           NEW t \in DOMAIN z.files, ~z.files[t].isDir, NEW i \in Hits(z, z.files[t])
    PROVE  i = t
<1> DEFINE f == z.files[t]
           e == z.files[i]
<1>1. i \in DOMAIN z.files /\ IsPrefix(Key(f), Key(e))
    BY DEF Hits, Hit
<1>2. f \in Entries /\ e \in Entries /\ ~f.isDir
    BY <1>1, EntryType
<1>3. Key(f) = f.name
    BY <1>2 DEF Key, KeyOf
<1>4. Has(z, f.name) /\ Has(z, Key(e)) /\ z.lookup[Key(e)] = i /\ z.lookup[f.name] = t
    BY <1>1, <1>3 DEF Tree, Listed
<1>5. ~HasDir(z, f.name)
    BY <1>4 DEF Tree, Apart, Has
<1>6. ToSet(z.files) = {z.files[j] : j \in DOMAIN z.files}
    BY DEF ToSet
<1>7. IsStrictPrefix(f.name, e.name) => e.name[Len(f.name) + 1] = Slash
    BY <1>1, <1>6 DEF NamesApart
<1> HIDE DEF f, e
<1>8. IsClean(f.name) /\ f.name \in Seq(Chars) /\ Len(f.name) \in Nat \ {0}
    BY <1>2, EntryKey, CleanName
<1>9. /\ IsClean(e.name) /\ e.name \in Seq(Chars) /\ Len(e.name) \in Nat \ {0}
      /\ e.isDir \in BOOLEAN /\ Key(e) = KeyOf(e.name, e.isDir) /\ Key(e) \in Seq(Chars)
    BY <1>2, EntryKey, CleanName
<1>10. ~IsPrefix(Append(f.name, Slash), Key(e))
    <2>1. ASSUME IsPrefix(Append(f.name, Slash), Key(e)) PROVE HasDir(z, f.name)
        BY <1>1, <1>8, <2>1, UnderTree DEF e
    <2> QED BY <1>5, <2>1
<1>11. f.name = e.name
    <2> SUFFICES ASSUME f.name # e.name PROVE FALSE
        OBVIOUS
    <2>1. IsPrefix(f.name, Key(e)) /\ IsPrefix(e.name, Key(e))
          /\ Len(Key(e)) = Len(e.name) + (IF e.isDir THEN 1 ELSE 0)
        <3>1. /\ IsPrefix(e.name, KeyOf(e.name, e.isDir))
              /\ Len(KeyOf(e.name, e.isDir)) = Len(e.name) + (IF e.isDir THEN 1 ELSE 0)
            BY <1>9, KeyType
        <3> QED BY <1>1, <1>3, <1>9, <3>1
    <2>a. Len(f.name) <= Len(Key(e))
        BY <1>8, <1>9, <2>1, PrefixIff
    <2>2. CASE Len(f.name) <= Len(e.name)
        <3>1. IsPrefix(f.name, e.name)
            BY <1>8, <1>9, <2>1, <2>2, PrefixShorter
        <3>2. e.name[Len(f.name) + 1] = Slash
            BY <1>7, <3>1 DEF IsStrictPrefix
        <3>3. IsPrefix(Append(f.name, Slash), e.name)
            <4> DEFINE g == Append(f.name, Slash)
            <4>1. /\ g \in Seq(Chars) /\ Len(g) = Len(f.name) + 1
                  /\ \A j \in 1 .. Len(f.name) : g[j] = f.name[j]
                  /\ g[Len(f.name) + 1] = Slash
                BY <1>8, AppendSlash
            <4> HIDE DEF g
            <4>2. Len(f.name) <= Len(e.name) /\ \A j \in 1 .. Len(f.name) : f.name[j] = e.name[j]
                BY <1>8, <1>9, <3>1, PrefixIff
            <4>3. Len(f.name) # Len(e.name)
                BY <1>8, <1>9, <3>1, PrefixSame
            <4>4. Len(g) <= Len(e.name) /\ \A j \in 1 .. Len(g) : g[j] = e.name[j]
                <5>1. Len(f.name) + 1 <= Len(e.name)
                    BY <1>8, <1>9, <4>2, <4>3
                <5>2. ASSUME NEW j \in 1 .. Len(f.name) + 1 PROVE g[j] = e.name[j]
                    <6>1. CASE j = Len(f.name) + 1
                        BY <3>2, <4>1, <6>1
                    <6>2. CASE j # Len(f.name) + 1
                        <7>1. j \in 1 .. Len(f.name)
                            BY <1>8, <6>2
                        <7> QED BY <4>1, <4>2, <7>1
                    <6> QED BY <6>1, <6>2
                <5> QED BY <4>1, <5>1, <5>2
            <4>5. IsPrefix(g, e.name)
                BY <1>9, <4>1, <4>4, PrefixIff
            <4> QED BY <4>5 DEF g
        <3>4. IsPrefix(Append(f.name, Slash), Key(e))
            BY <1>8, <1>9, <2>1, <3>3, AppendSlash, PrefixTrans
        <3> QED BY <1>10, <3>4
    <2>3. CASE ~(Len(f.name) <= Len(e.name))
        <3>1. e.isDir /\ Len(Key(e)) <= Len(f.name)
            <4> DEFINE x == Len(f.name)
                       y == Len(e.name)
                       w == Len(Key(e))
            <4>1. /\ x \in Nat /\ y \in Nat /\ ~(x <= y) /\ x <= w
                  /\ w = y + (IF e.isDir THEN 1 ELSE 0)
                BY <1>8, <1>9, <2>1, <2>a, <2>3
            <4> HIDE DEF x, y, w
            <4>2. e.isDir /\ w <= x
                BY <1>9, <4>1
            <4> QED BY <4>2 DEF x, w
        <3>2. f.name = Key(e)
            BY <1>8, <1>9, <2>1, <3>1, PrefixSame
        <3>3. KeyOf(f.name, FALSE) = KeyOf(e.name, e.isDir)
            BY <1>9, <3>2 DEF KeyOf
        <3>4. e.isDir = FALSE
            BY <1>8, <1>9, <3>3, KeyInjective
        <3> QED BY <3>1, <3>4
    <2> QED BY <2>2, <2>3
<1>12. ~e.isDir
    BY <1>5, <1>4, <1>9, <1>11 DEF HasDir, KeyOf
<1>13. Key(e) = f.name
    BY <1>9, <1>11, <1>12 DEF KeyOf
<1> QED BY <1>4, <1>13

(* A transformation that was allowed takes no name that is there,          *)
LEMMA NewNamesFree ==
    ASSUME NEW z, Typed(z), Sound(z), Tree(z), NamesApart(z), NEW t \in DOMAIN z.files,
           NEW f, f = z.files[t], NEW p, IsClean(p), ~Has(z, p), ~HasDir(z, p), NEW i \in Hits(z, f)
    PROVE  ~Has(z, NewKey(f, p, z.files[i]))
<1>1. f \in Entries /\ i \in DOMAIN z.files /\ z.files[i] \in Entries /\ Hit(f, z.files[i])
    BY EntryType DEF Hits
<1>2. p \in Seq(Chars)
    BY CleanName
<1>3. CASE ~f.isDir
    <2>1. i = t
        BY <1>3, FileHitsItself
    <2>2. NewKey(f, p, z.files[i]) = KeyOf(p, f.isDir)
        BY <1>1, <2>1, NewOfTarget
    <2> QED BY <1>3, <2>2 DEF KeyOf
<1>4. CASE f.isDir
    <2> SUFFICES ASSUME Has(z, NewKey(f, p, z.files[i])) PROVE FALSE
        OBVIOUS
    <2>1. IsPrefix(KeyOf(p, f.isDir), NewKey(f, p, z.files[i]))
        BY <1>1, NewName
    <2>2. PICK j \in DOMAIN z.files : Key(z.files[j]) = NewKey(f, p, z.files[i])
        BY KeyKnown
    <2>3. IsPrefix(Append(p, Slash), Key(z.files[j]))
        BY <1>4, <2>1, <2>2 DEF KeyOf
    <2> QED BY <1>2, <2>3, UnderTree
<1> QED BY <1>3, <1>4

(* The state in which atomicPathTransform gives entry t the path p.        *)
Ready(z, t, p) ==
    /\ Typed(z) /\ Sound(z) /\ Tree(z) /\ NamesApart(z)
    /\ t \in DOMAIN z.files /\ IsClean(p) /\ ~Has(z, p) /\ ~HasDir(z, p)
    /\ \A d \in Ancestors(p) : HasDir(z, d)
    /\ z.files[t].isDir => ~IsPrefix(Key(z.files[t]), Append(p, Slash))

LEMMA ReadyFile ==
    ASSUME NEW z, NEW t, NEW p, Ready(z, t, p), NEW f, f = z.files[t], ~f.isDir,
           NEW j \in Hits(z, f)
    PROVE  j = t
BY FileHitsItself DEF Ready

LEMMA ReadyFacts ==
    ASSUME NEW z, NEW t, NEW p, Ready(z, t, p),
           NEW f, f = z.files[t], NEW c, c = ApplyTransform(z, f, p)
    PROVE  /\ f \in Entries /\ f.isDir \in BOOLEAN /\ Key(f) \in Seq(Chars)
           /\ p \in Seq(Chars) /\ t \in Hits(z, f)
           /\ (~f.isDir => \A i \in Hits(z, f) : i = t)
           /\ Typed(c) /\ Sound(c) /\ Listed(c) /\ DOMAIN c.files = DOMAIN z.files
           /\ \A i \in DOMAIN z.files : i \notin Hits(z, f) => c.files[i] = z.files[i]
           /\ \A i \in Hits(z, f) : /\ i \in DOMAIN z.files /\ z.files[i] \in Entries
                                    /\ Hit(f, z.files[i])
                                    /\ c.files[i] = Moved(f, p, z.files[i])
                                    /\ Key(c.files[i]) = NewKey(f, p, z.files[i])
           /\ Key(c.files[t]) = KeyOf(p, f.isDir)
<1>1. /\ Typed(z) /\ Sound(z) /\ Tree(z) /\ NamesApart(z) /\ t \in DOMAIN z.files /\ IsClean(p)
      /\ ~Has(z, p) /\ ~HasDir(z, p)
    BY DEF Ready
<1>2. f \in Entries /\ f.isDir \in BOOLEAN /\ Key(f) \in Seq(Chars) /\ p \in Seq(Chars)
    BY <1>1, EntryType, CleanName
<1>3. Hit(f, f) /\ NewKey(f, p, f) = KeyOf(p, f.isDir)
    BY <1>1, <1>2, NewOfTarget
<1>4. t \in Hits(z, f)
    BY <1>1, <1>3 DEF Hits
<1>5. ~f.isDir => \A i \in Hits(z, f) : i = t
    BY <1>1, FileHitsItself
<1>6. /\ Typed(c) /\ DOMAIN c.files = DOMAIN z.files
      /\ \A i \in DOMAIN z.files : i \notin Hits(z, f) => c.files[i] = z.files[i]
      /\ \A i \in Hits(z, f) : /\ i \in DOMAIN z.files /\ z.files[i] \in Entries
                               /\ Hit(f, z.files[i])
                               /\ c.files[i] = Moved(f, p, z.files[i])
                               /\ Key(c.files[i]) = NewKey(f, p, z.files[i])
    BY <1>1, <1>2, ApplyFacts
<1>7. Sound(c)
    BY <1>1, <1>2, ApplySound
<1>8. \A i \in Hits(z, f) : ~Has(z, NewKey(f, p, z.files[i]))
    BY <1>1, NewNamesFree
<1>9. Listed(c)
    BY <1>1, <1>2, <1>8, ApplyListed DEF Tree
<1>10. Key(c.files[t]) = KeyOf(p, f.isDir)
    BY <1>3, <1>4, <1>6
<1> QED BY <1>2, <1>4, <1>5, <1>6, <1>7, <1>9, <1>10

(* A directory it does not hit stays,                                      *)
LEMMA DirStays ==
    ASSUME NEW z, NEW t, NEW p, Ready(z, t, p),
           NEW f, f = z.files[t], NEW c, c = ApplyTransform(z, f, p),
           NEW d \in Seq(Chars), HasDir(z, d), ~IsPrefix(Key(f), Append(d, Slash))
    PROVE  HasDir(c, d)
<1>1. Typed(z) /\ Sound(z)
    BY DEF Ready
<1>2. PICK j \in DOMAIN z.files : /\ z.lookup[Append(d, Slash)] = j /\ Key(z.files[j]) = Append(d, Slash)
                                  /\ z.files[j].isDir /\ z.files[j].name = d
    BY <1>1, DirKnown
<1>3. j \notin Hits(z, f)
    BY <1>2 DEF Hits, Hit
<1>4. /\ Typed(c) /\ Sound(c) /\ Listed(c) /\ DOMAIN c.files = DOMAIN z.files
      /\ \A i \in DOMAIN z.files : i \notin Hits(z, f) => c.files[i] = z.files[i]
    BY ReadyFacts
<1>5. j \in DOMAIN c.files /\ Key(c.files[j]) = Append(d, Slash)
    BY <1>2, <1>3, <1>4
<1> QED BY <1>4, <1>5, HasIff DEF HasDir

(* and one it hits becomes a directory above what was below it.            *)
LEMMA DirMoves ==
    ASSUME NEW z, NEW t, NEW p, Ready(z, t, p),
           NEW f, f = z.files[t], NEW c, c = ApplyTransform(z, f, p), f.isDir,
           NEW i \in Hits(z, f), NEW d \in Seq(Chars),
           IsPrefix(Append(d, Slash), NewKey(f, p, z.files[i])), Len(p) < Len(d)
    PROVE  HasDir(c, d)
<1> DEFINE P == Key(f)
           Q == KeyOf(p, f.isDir)
           E == Key(z.files[i])
           g == Append(d, Slash)
           q == Len(g) - Len(Q) + Len(P)
           R == Q \o SubSeq(E, Len(P) + 1, Len(E))
<1>1. /\ f \in Entries /\ f.isDir \in BOOLEAN /\ Key(f) \in Seq(Chars) /\ p \in Seq(Chars)
      /\ Typed(c) /\ Sound(c) /\ Listed(c) /\ DOMAIN c.files = DOMAIN z.files
      /\ \A j \in Hits(z, f) : /\ j \in DOMAIN z.files /\ z.files[j] \in Entries
                               /\ Hit(f, z.files[j])
                               /\ Key(c.files[j]) = NewKey(f, p, z.files[j])
    <2>1. f \in Entries /\ f.isDir \in BOOLEAN /\ Key(f) \in Seq(Chars) /\ p \in Seq(Chars)
        BY ReadyFacts
    <2>2. Typed(c) /\ Sound(c) /\ Listed(c) /\ DOMAIN c.files = DOMAIN z.files
        BY ReadyFacts
    <2>3. \A j \in Hits(z, f) : /\ j \in DOMAIN z.files /\ z.files[j] \in Entries
                               /\ Hit(f, z.files[j])
                               /\ Key(c.files[j]) = NewKey(f, p, z.files[j])
        BY ReadyFacts
    <2> QED BY <2>1, <2>2, <2>3
<1>2. E \in Seq(Chars) /\ IsPrefix(P, E) /\ i \in DOMAIN z.files
    BY <1>1, EntryKey DEF Hit
<1>3. Q \in Seq(Chars) /\ Len(Q) = Len(p) + 1 /\ Len(p) \in Nat
    BY <1>1, KeyType
<1>4. /\ g \in Seq(Chars) /\ Len(g) = Len(d) + 1 /\ Len(d) \in Nat /\ g[Len(d) + 1] = Slash
    BY AppendSlash
<1>5. IsPrefix(g, R)
    BY DEF NewKey
<1>6. Typed(z) /\ Tree(z) /\ Sound(z)
    BY DEF Ready
<1> HIDE DEF P, Q, E, g
<1>7. /\ R \in Seq(Chars) /\ Len(R) = Len(Q) + (Len(E) - Len(P))
      /\ Len(P) \in Nat /\ Len(Q) \in Nat /\ Len(E) \in Nat /\ Len(P) <= Len(E)
      /\ \A j \in 1 .. Len(Q) : R[j] = Q[j]
      /\ \A j \in 1 .. Len(E) - Len(P) : R[Len(Q) + j] = E[Len(P) + j]
      /\ IsPrefix(Q, R)
    <2>1. P \in Seq(Chars)
        BY <1>1 DEF P
    <2> QED BY <1>2, <1>3, <2>1, Splice
<1> HIDE DEF R
<1>8. Len(g) <= Len(R) /\ \A j \in 1 .. Len(g) : g[j] = R[j]
    BY <1>4, <1>5, <1>7, PrefixIff
<1>9. q \in 1 .. Len(E) /\ Len(P) <= q
    BY <1>3, <1>4, <1>7, <1>8
<1>10. E[q] = Slash
    <2> DEFINE j == Len(g) - Len(Q)
    <2>1. /\ j \in 1 .. Len(E) - Len(P) /\ Len(Q) + j = Len(g) /\ Len(P) + j = q
          /\ Len(g) \in 1 .. Len(g) /\ Len(g) = Len(d) + 1
        BY <1>3, <1>4, <1>7, <1>8
    <2> HIDE DEF j, q
    <2>2. R[Len(Q) + j] = E[Len(P) + j]
        BY <1>7, <2>1
    <2>3. g[Len(g)] = R[Len(g)]
        BY <1>8, <2>1
    <2> QED BY <1>4, <2>1, <2>2, <2>3
<1> HIDE DEF q
<1> DEFINE b == Above(E, q)
           h == Append(b, Slash)
<1>11. q \in Slashes(E)
    BY <1>2, <1>9, <1>10, SlashesType
<1>12. b \in Seq(Chars) /\ h \in Seq(Chars) /\ Len(h) = q /\ IsPrefix(h, E)
    BY <1>2, <1>11, AboveIsPrefix, AppendSlash
<1>13. HasDir(z, b)
    <2>1. IsPrefix(Append(b, Slash), Key(z.files[i]))
        BY <1>12 DEF E
    <2> HIDE DEF b
    <2> QED BY <1>2, <1>6, <1>12, <2>1, UnderTree
<1>14. PICK j \in DOMAIN z.files : Key(z.files[j]) = h
    <2> HIDE DEF b
    <2> QED BY <1>6, <1>12, <1>13, DirKnown
<1> HIDE DEF h, b
<1>15. P \in Seq(Chars)
    BY <1>1 DEF P
<1>16. IsPrefix(P, h)
    BY <1>2, <1>9, <1>12, <1>15, PrefixShorter
<1>17. j \in Hits(z, f)
    BY <1>14, <1>16 DEF Hits, Hit, P
<1>18. Key(c.files[j]) = Q \o SubSeq(h, Len(P) + 1, Len(h))
    BY <1>1, <1>14, <1>17 DEF NewKey, P, Q
<1> DEFINE G == Q \o SubSeq(h, Len(P) + 1, Len(h))
<1>19. IsPrefix(G, R)
    <2>1. IsPrefix(G, Q \o SubSeq(E, Len(P) + 1, Len(E)))
        BY <1>2, <1>3, <1>12, <1>15, <1>16, SplicePrefix
    <2> QED BY <2>1 DEF R
<1>20. /\ G \in Seq(Chars) /\ Len(G) = Len(Q) + (Len(h) - Len(P))
       /\ Len(P) \in Nat /\ Len(Q) \in Nat /\ Len(h) \in Nat /\ Len(P) <= Len(h)
       /\ \A m \in 1 .. Len(Q) : G[m] = Q[m]
       /\ \A m \in 1 .. Len(h) - Len(P) : G[Len(Q) + m] = h[Len(P) + m]
       /\ IsPrefix(Q, G)
    BY <1>3, <1>12, <1>15, <1>16, Splice
<1>21. Key(c.files[j]) = G
    BY <1>18
<1> HIDE DEF G
<1>22. Len(G) = Len(g)
    BY <1>3, <1>4, <1>7, <1>9, <1>12, <1>20 DEF q
<1>23. IsPrefix(G, g)
    <2>1. Len(G) <= Len(g)
        BY <1>4, <1>22
    <2> QED BY <1>4, <1>5, <1>7, <1>19, <1>20, <2>1, PrefixShorter
<1>24. G = g
    <2>1. Len(g) <= Len(G)
        BY <1>4, <1>22
    <2> QED BY <1>4, <1>20, <1>23, <2>1, PrefixSame
<1>25. j \in DOMAIN c.files /\ Key(c.files[j]) = Append(d, Slash)
    BY <1>1, <1>14, <1>21, <1>24 DEF g
<1> QED BY <1>1, <1>25, HasIff DEF HasDir

LEMMA ApplyParented ==
    ASSUME NEW z, NEW t, NEW p, Ready(z, t, p),
           NEW f, f = z.files[t], NEW c, c = ApplyTransform(z, f, p)
    PROVE  Parented(c)
<1>1. /\ f \in Entries /\ f.isDir \in BOOLEAN /\ Key(f) \in Seq(Chars) /\ p \in Seq(Chars)
      /\ t \in Hits(z, f)
      /\ (~f.isDir => \A j \in Hits(z, f) : j = t)
    <2>1. f \in Entries /\ f.isDir \in BOOLEAN /\ Key(f) \in Seq(Chars) /\ p \in Seq(Chars)
        BY ReadyFacts
    <2>2. t \in Hits(z, f)
        BY ReadyFacts
    <2>3. ASSUME ~f.isDir, NEW j \in Hits(z, f) PROVE j = t
        BY <2>3, ReadyFile
    <2> QED BY <2>1, <2>2, <2>3
<1>2. Typed(c) /\ Sound(c) /\ Listed(c) /\ DOMAIN c.files = DOMAIN z.files
    BY ReadyFacts
<1>3. \A j \in DOMAIN z.files : j \notin Hits(z, f) => c.files[j] = z.files[j]
    BY ReadyFacts
<1>4. \A j \in Hits(z, f) : /\ j \in DOMAIN z.files /\ z.files[j] \in Entries
                            /\ Hit(f, z.files[j])
                            /\ c.files[j] = Moved(f, p, z.files[j])
                            /\ Key(c.files[j]) = NewKey(f, p, z.files[j])
    BY ReadyFacts
<1>5. Key(c.files[t]) = KeyOf(p, f.isDir)
    BY ReadyFacts
<1>6. /\ Typed(z) /\ Sound(z) /\ Tree(z) /\ IsClean(p) /\ t \in DOMAIN z.files
      /\ \A d \in Ancestors(p) : HasDir(z, d)
      /\ f.isDir => ~IsPrefix(Key(f), Append(p, Slash))
    BY DEF Ready
<1>7. SUFFICES ASSUME NEW i \in DOMAIN z.files, NEW d \in Ancestors(c.files[i].name) PROVE HasDir(c, d)
    BY <1>2 DEF Parented
<1>8. /\ IsClean(c.files[i].name) /\ c.files[i].name \in Seq(Chars) /\ c.files[i].isDir \in BOOLEAN
      /\ Key(c.files[i]) = KeyOf(c.files[i].name, c.files[i].isDir)
    BY <1>2, EntryType
<1>9. d \in Seq(Chars) /\ IsPrefix(Append(d, Slash), Key(c.files[i]))
    BY <1>8, AncestorIff, UnderKey
<1>10. ASSUME d \in Ancestors(p) PROVE HasDir(c, d)
    <2>1. HasDir(z, d)
        BY <1>6, <1>10
    <2>2. CASE ~IsPrefix(Key(f), Append(d, Slash))
        BY <1>9, <2>1, <2>2, DirStays
    <2>3. CASE IsPrefix(Key(f), Append(d, Slash))
        <3>1. CASE f.isDir
            <4>1. IsPrefix(Append(d, Slash), KeyOf(p, TRUE))
                BY <1>6, <1>9, <1>10, UnderKey
            <4>2. IsPrefix(Append(d, Slash), Append(p, Slash))
                BY <4>1 DEF KeyOf
            <4>3. Append(d, Slash) \in Seq(Chars) /\ Append(p, Slash) \in Seq(Chars)
                BY <1>1, <1>9, AppendSlash
            <4>4. IsPrefix(Key(f), Append(p, Slash))
                BY <1>1, <2>3, <4>2, <4>3, PrefixTrans
            <4> QED BY <1>6, <3>1, <4>4
        <3>2. CASE ~f.isDir
            <4>1. PICK j \in DOMAIN z.files : /\ z.lookup[Append(d, Slash)] = j
                                              /\ Key(z.files[j]) = Append(d, Slash)
                                              /\ z.files[j].isDir /\ z.files[j].name = d
                BY <1>6, <1>9, <2>1, DirKnown
            <4>2. j \in Hits(z, f)
                BY <2>3, <4>1 DEF Hits, Hit
            <4> QED BY <1>1, <3>2, <4>1, <4>2
        <3> QED BY <3>1, <3>2
    <2> QED BY <2>2, <2>3
<1>11. CASE i \notin Hits(z, f)
    <2>1. c.files[i] = z.files[i]
        BY <1>3, <1>11
    <2>2. HasDir(z, d)
        BY <1>6, <2>1 DEF Tree, Parented
    <2>3. Key(z.files[i]) \in Seq(Chars) /\ Append(d, Slash) \in Seq(Chars)
        BY <1>6, <1>9, EntryType, AppendSlash
    <2>4. ~IsPrefix(Key(f), Append(d, Slash))
        <3> SUFFICES ASSUME IsPrefix(Key(f), Append(d, Slash)) PROVE FALSE
            OBVIOUS
        <3>1. IsPrefix(Append(d, Slash), Key(z.files[i]))
            BY <1>9, <2>1
        <3>2. IsPrefix(Key(f), Key(z.files[i]))
            BY <1>1, <2>3, <3>1, PrefixTrans
        <3> QED BY <1>11, <3>2 DEF Hits, Hit
    <2> QED BY <1>9, <2>2, <2>4, DirStays
<1>12. CASE i \in Hits(z, f) /\ ~f.isDir
    <2>1. Key(c.files[i]) = KeyOf(p, f.isDir)
        BY <1>1, <1>5, <1>12
    <2>2. IsPrefix(Append(d, Slash), KeyOf(p, FALSE))
        BY <1>9, <1>12, <2>1 DEF KeyOf
    <2>3. d \in Ancestors(p)
        BY <1>6, <1>9, <2>2, UnderKey
    <2> QED BY <1>10, <2>3
<1>13. CASE i \in Hits(z, f) /\ f.isDir
    <2>1. Key(c.files[i]) = NewKey(f, p, z.files[i]) /\ z.files[i] \in Entries /\ Hit(f, z.files[i])
        BY <1>4, <1>13
    <2>2. CASE Len(p) < Len(d)
        BY <1>9, <1>13, <2>1, <2>2, DirMoves
    <2>3. CASE ~(Len(p) < Len(d))
        <3>1. NewKey(f, p, z.files[i]) \in Seq(Chars)
              /\ IsPrefix(KeyOf(p, f.isDir), NewKey(f, p, z.files[i]))
            BY <1>1, <1>6, <2>1, NewName
        <3>2. IsPrefix(Append(p, Slash), NewKey(f, p, z.files[i]))
            BY <1>13, <3>1 DEF KeyOf
        <3>3. /\ Append(d, Slash) \in Seq(Chars) /\ Len(Append(d, Slash)) = Len(d) + 1 /\ Len(d) \in Nat
              /\ Append(p, Slash) \in Seq(Chars) /\ Len(Append(p, Slash)) = Len(p) + 1 /\ Len(p) \in Nat
            BY <1>1, <1>9, AppendSlash
        <3>4. IsPrefix(Append(d, Slash), NewKey(f, p, z.files[i]))
            BY <1>9, <2>1
        <3>5. Len(Append(d, Slash)) <= Len(Append(p, Slash))
            BY <2>3, <3>3
        <3>6. IsPrefix(Append(d, Slash), Append(p, Slash))
            BY <3>1, <3>2, <3>3, <3>4, <3>5, PrefixShorter
        <3>7. IsPrefix(Append(d, Slash), KeyOf(p, TRUE))
            BY <3>6 DEF KeyOf
        <3>8. d \in Ancestors(p) \/ d = p
            BY <1>6, <1>9, <3>7, UnderKey
        <3>9. ASSUME d = p PROVE HasDir(c, d)
            <4>1. t \in DOMAIN c.files /\ Key(c.files[t]) = Append(d, Slash)
                BY <1>2, <1>5, <1>6, <1>13, <3>9 DEF KeyOf
            <4> QED BY <1>2, <4>1, HasIff DEF HasDir
        <3> QED BY <1>10, <3>8, <3>9
    <2> QED BY <2>2, <2>3
<1> QED BY <1>11, <1>12, <1>13

LEMMA ApplyApart ==
    ASSUME NEW z, NEW t, NEW p, Ready(z, t, p),
           NEW f, f = z.files[t], NEW c, c = ApplyTransform(z, f, p)
    PROVE  Apart(c)
<1>1. /\ f \in Entries /\ f.isDir \in BOOLEAN /\ Key(f) \in Seq(Chars) /\ p \in Seq(Chars)
      /\ t \in Hits(z, f)
      /\ (~f.isDir => \A j \in Hits(z, f) : j = t)
    <2>1. f \in Entries /\ f.isDir \in BOOLEAN /\ Key(f) \in Seq(Chars) /\ p \in Seq(Chars)
        BY ReadyFacts
    <2>2. t \in Hits(z, f)
        BY ReadyFacts
    <2>3. ASSUME ~f.isDir, NEW j \in Hits(z, f) PROVE j = t
        BY <2>3, ReadyFile
    <2> QED BY <2>1, <2>2, <2>3
<1>2. Typed(c) /\ Sound(c) /\ Listed(c) /\ DOMAIN c.files = DOMAIN z.files
    BY ReadyFacts
<1>3. \A j \in DOMAIN z.files : j \notin Hits(z, f) => c.files[j] = z.files[j]
    BY ReadyFacts
<1>4. \A j \in Hits(z, f) : /\ j \in DOMAIN z.files /\ z.files[j] \in Entries
                            /\ Hit(f, z.files[j])
                            /\ c.files[j] = Moved(f, p, z.files[j])
                            /\ Key(c.files[j]) = NewKey(f, p, z.files[j])
    BY ReadyFacts
<1>5. Key(c.files[t]) = KeyOf(p, f.isDir)
    BY ReadyFacts
<1>6. /\ Typed(z) /\ Sound(z) /\ Tree(z) /\ Listed(z) /\ Apart(z) /\ IsClean(p)
      /\ ~Has(z, p) /\ ~HasDir(z, p)
    BY DEF Ready, Tree
<1>7. SUFFICES ASSUME NEW k, Has(c, k), Has(c, Append(k, Slash)) PROVE FALSE
    BY DEF Apart, Has, HasDir
<1>8. PICK i \in DOMAIN z.files : Key(c.files[i]) = k
    <2>1. \E i \in DOMAIN c.files : Key(c.files[i]) = k
        BY <1>2, <1>7, HasIff
    <2> QED BY <1>2, <2>1
<1>9. PICK j \in DOMAIN z.files : Key(c.files[j]) = Append(k, Slash)
    <2>1. \E j \in DOMAIN c.files : Key(c.files[j]) = Append(k, Slash)
        BY <1>2, <1>7, HasIff
    <2> QED BY <1>2, <2>1
<1>10. /\ IsClean(c.files[i].name) /\ c.files[i].isDir \in BOOLEAN /\ k \in Seq(Chars)
       /\ k = KeyOf(c.files[i].name, c.files[i].isDir)
    BY <1>2, <1>8, EntryType
<1>11. /\ IsClean(c.files[j].name) /\ c.files[j].isDir \in BOOLEAN
       /\ Append(k, Slash) = KeyOf(c.files[j].name, c.files[j].isDir)
    BY <1>2, <1>9, EntryType
<1>12. c.files[j].name = c.files[i].name /\ c.files[j].isDir /\ ~c.files[i].isDir
    <2>1. KeyOf(c.files[j].name, c.files[j].isDir) = Append(KeyOf(c.files[i].name, c.files[i].isDir), Slash)
        BY <1>10, <1>11
    <2>2. /\ IsClean(c.files[i].name) /\ c.files[i].isDir \in BOOLEAN
          /\ IsClean(c.files[j].name) /\ c.files[j].isDir \in BOOLEAN
        BY <1>10, <1>11
    <2> DEFINE m == c.files[j].name
               a == c.files[j].isDir
               q == c.files[i].name
               b == c.files[i].isDir
    <2> HIDE DEF m, a, q, b
    <2>3. IsClean(q) /\ b \in BOOLEAN /\ IsClean(m) /\ a \in BOOLEAN /\
          KeyOf(m, a) = Append(KeyOf(q, b), Slash)
        BY <2>1, <2>2 DEF m, a, q, b
    <2>4. m = q /\ a /\ ~b
        BY <2>3, KeyOneSlash
    <2> QED BY <2>4 DEF m, a, q, b
<1>13. i # j
    BY <1>12
<1> DEFINE n == c.files[i].name
<1>14. k = KeyOf(n, FALSE) /\ Append(k, Slash) = KeyOf(n, TRUE) /\ IsClean(n)
    BY <1>10, <1>12 DEF KeyOf
<1> HIDE DEF n
<1>15. ASSUME NEW m \in DOMAIN z.files, IsPrefix(Append(p, Slash), Key(z.files[m])) PROVE FALSE
    <2>1. HasDir(z, p)
        BY <1>1, <1>6, <1>15, UnderTree
    <2> QED BY <1>6, <2>1
<1>16. ASSUME NEW m \in Hits(z, f), f.isDir PROVE IsPrefix(Append(p, Slash), Key(c.files[m]))
    <2>1. IsPrefix(KeyOf(p, f.isDir), NewKey(f, p, z.files[m]))
        BY <1>1, <1>4, <1>6, NewName
    <2> QED BY <1>4, <1>16, <2>1 DEF KeyOf
<1>17. ASSUME IsPrefix(Append(p, Slash), k) PROVE IsPrefix(Append(p, Slash), Append(k, Slash))
    <2>1. /\ Append(p, Slash) \in Seq(Chars) /\ Append(k, Slash) \in Seq(Chars)
          /\ IsPrefix(k, Append(k, Slash))
        BY <1>1, <1>10, AppendSlash, PrefixOfAppend
    <2> QED BY <1>10, <1>17, <2>1, PrefixTrans
<1>18. CASE i \notin Hits(z, f) /\ j \notin Hits(z, f)
    <2>1. Key(z.files[i]) = k /\ Key(z.files[j]) = Append(k, Slash)
        BY <1>3, <1>8, <1>9, <1>18
    <2> QED BY <1>6, <2>1 DEF Listed, Apart, Has, HasDir
<1>19. CASE i \in Hits(z, f) /\ j \notin Hits(z, f)
    <2>1. Key(z.files[j]) = Append(k, Slash)
        BY <1>3, <1>9, <1>19
    <2>2. CASE f.isDir
        <3>1. IsPrefix(Append(p, Slash), k)
            BY <1>8, <1>16, <1>19, <2>2
        <3> QED BY <1>15, <1>17, <2>1, <3>1
    <2>3. CASE ~f.isDir
        <3>1. k = p
            BY <1>1, <1>5, <1>8, <1>19, <2>3 DEF KeyOf
        <3>2. HasDir(z, p)
            BY <1>6, <2>1, <3>1, HasIff DEF HasDir
        <3> QED BY <1>6, <3>2
    <2> QED BY <2>2, <2>3
<1>20. CASE i \notin Hits(z, f) /\ j \in Hits(z, f)
    <2>1. Key(z.files[i]) = k
        BY <1>3, <1>8, <1>20
    <2>2. CASE f.isDir
        <3>1. IsPrefix(Append(p, Slash), KeyOf(n, TRUE))
            BY <1>9, <1>14, <1>16, <1>20, <2>2
        <3>2. p \in Ancestors(n) \/ p = n
            BY <1>1, <1>14, <3>1, UnderKey
        <3>3. ASSUME p = n PROVE FALSE
            <4>1. Key(z.files[i]) = p
                BY <1>14, <2>1, <3>3 DEF KeyOf
            <4> QED BY <1>6, <4>1, HasIff
        <3>4. ASSUME p \in Ancestors(n) PROVE FALSE
            <4>1. IsPrefix(Append(p, Slash), KeyOf(n, FALSE))
                BY <1>1, <1>14, <3>4, UnderKey
            <4> QED BY <1>14, <1>15, <2>1, <4>1
        <3> QED BY <3>2, <3>3, <3>4
    <2>3. CASE ~f.isDir
        <3>1. Append(k, Slash) = KeyOf(p, FALSE)
            BY <1>1, <1>5, <1>9, <1>20, <2>3 DEF KeyOf
        <3>2. KeyOf(p, FALSE) = KeyOf(n, TRUE)
            BY <1>14, <3>1
        <3> QED BY <1>6, <1>14, <3>2, KeyInjective
    <2> QED BY <2>2, <2>3
<1>21. CASE i \in Hits(z, f) /\ j \in Hits(z, f)
    <2>1. f.isDir
        BY <1>1, <1>13, <1>21
    <2> DEFINE P == Key(f)
               Q == KeyOf(p, f.isDir)
               E == Key(z.files[i])
               D == Key(z.files[j])
    <2>2. P \in Seq(Chars) /\ E \in Seq(Chars) /\ D \in Seq(Chars) /\ IsPrefix(P, E) /\ IsPrefix(P, D)
        BY <1>1, <1>4, <1>21, EntryKey DEF Hit
    <2>3. Q \in Seq(Chars)
        BY <1>1, KeyType
    <2>4. k = Q \o SubSeq(E, Len(P) + 1, Len(E))
        BY <1>4, <1>8, <1>21 DEF NewKey
    <2>5. Append(k, Slash) = Q \o SubSeq(D, Len(P) + 1, Len(D))
        BY <1>4, <1>9, <1>21 DEF NewKey
    <2> HIDE DEF P, Q, E, D
    <2> DEFINE F == Append(E, Slash)
    <2>6. /\ F \in Seq(Chars) /\ IsPrefix(P, F)
          /\ Q \o SubSeq(F, Len(P) + 1, Len(F)) = Append(Q \o SubSeq(E, Len(P) + 1, Len(E)), Slash)
        BY <2>2, <2>3, SpliceAppend
    <2>7. Q \o SubSeq(F, Len(P) + 1, Len(F)) = Q \o SubSeq(D, Len(P) + 1, Len(D))
        BY <2>4, <2>5, <2>6
    <2> HIDE DEF F
    <2>8. F = D
        BY <2>2, <2>3, <2>6, <2>7, SpliceInjective
    <2>9. Has(z, E) /\ Has(z, D) /\ D = Append(E, Slash)
        BY <1>6, <2>8 DEF Listed, D, E, F
    <2> QED BY <1>6, <2>9 DEF Apart, Has, HasDir
<1> QED BY <1>18, <1>19, <1>20, <1>21

(* PathTransform keeps what the archive is,                                *)
LEMMA TransformSound ==
    ASSUME NEW z, Typed(z), Sound(z), NEW f \in Entries, NEW p, IsClean(p)
    PROVE  Typed(PathTransform(z, f, p)) /\ Sound(PathTransform(z, f, p))
<1> DEFINE c == CreateMissingDirs(z, p)
<1>1. Typed(c)
    BY CreateFiles
<1>2. Sound(c)
    BY CreateSound
<1>3. PathTransform(z, f, p) = z \/ PathTransform(z, f, p) = ApplyTransform(c, f, p)
    BY DEF PathTransform
<1> HIDE DEF c
<1>4. Typed(ApplyTransform(c, f, p)) /\ Sound(ApplyTransform(c, f, p))
    BY <1>1, <1>2, ApplySound
<1> QED BY <1>3, <1>4

(* and the shape of its names.                                             *)
LEMMA TransformTree ==
    ASSUME NEW z, Typed(z), Sound(z), Tree(z), NEW t \in DOMAIN z.files, NEW p, IsClean(p),
           NamesApart(CreateMissingDirs(z, p))
    PROVE  Tree(PathTransform(z, z.files[t], p))
<1> SUFFICES ASSUME NEW f, f = z.files[t], ~ParentIsFile(z, p), TransformAllowed(z, f, p),
                    NEW c, c = CreateMissingDirs(z, p)
             PROVE  Tree(ApplyTransform(c, f, p))
    BY DEF PathTransform
<1>1. Typed(c) /\ t \in DOMAIN c.files /\ c.files[t] = f
    <2>1. /\ Typed(c) /\ Cardinality(MissingDirs(z, p)) \in Nat
          /\ \A i \in DOMAIN z.files : i \in DOMAIN c.files /\ c.files[i] = z.files[i]
        BY CreateFiles
    <2> QED BY <2>1
<1>2. Sound(c) /\ Tree(c) /\ \A d \in Ancestors(p) : HasDir(c, d)
    BY CreateSound, CreateTree, CreateAncestors
<1>3. ~Has(z, p) /\ ~HasDir(z, p) /\ (f.isDir => ~IsPrefix(Key(f), Append(p, Slash)))
    BY DEF TransformAllowed
<1>4. ~Has(c, p) /\ ~HasDir(c, p)
    BY <1>3, CreateOnlyAbove
<1>5. Ready(c, t, p)
    BY <1>1, <1>2, <1>3, <1>4 DEF Ready
<1> DEFINE r == ApplyTransform(c, f, p)
<1>6. Listed(r)
    BY <1>1, <1>5, ReadyFacts
<1>7. Parented(r)
    BY <1>1, <1>5, ApplyParented
<1>8. Apart(r)
    BY <1>1, <1>5, ApplyApart
<1> QED BY <1>6, <1>7, <1>8 DEF Tree

----------------------------------------------------------------------------
(* path.Dir, path.Base and path.Join                                       *)

LEMMA DirPathType ==
    ASSUME NEW d \in Seq(Chars)
    PROVE  /\ DirPath(d) \in Seq(Chars) /\ Len(DirPath(d)) \in Nat /\ Len(d) \in Nat
           /\ d = Root => DirPath(d) = << >> /\ Len(DirPath(d)) = 0
           /\ d # Root => DirPath(d) = Append(d, Slash) /\ Len(DirPath(d)) = Len(d) + 1
<1>1. CASE d = Root
    <2>1. DirPath(d) = << >>
        BY <1>1 DEF DirPath, Root
    <2>2. << >> \in Seq(Chars) /\ Len(<< >>) = 0
        BY EmptySeq
    <2> QED BY <1>1, <2>1, <2>2, LenProperties
<1>2. CASE d # Root
    <2>1. DirPath(d) = Append(d, Slash)
        BY <1>2 DEF DirPath
    <2> QED BY <1>2, <2>1, AppendSlash
<1> QED BY <1>1, <1>2

(* Dirname and Basename cut a path at its last slash.                      *)
LEMMA CutAtLastSlash ==
    ASSUME NEW p \in Seq(Chars), NEW d \in Seq(Chars), IsPrefix(DirPath(d), p),
           \A j \in Len(DirPath(d)) + 1 .. Len(p) : p[j] # Slash
    PROVE  Dirname(p) = d /\ Basename(p) = SubSeq(p, Len(DirPath(d)) + 1, Len(p))
<1>1. Slashes(p) \in SUBSET (1 .. Len(p)) /\ Len(p) \in Nat
      /\ \A i \in 1 .. Len(p) : i \in Slashes(p) <=> p[i] = Slash
    BY SlashesType
<1>2. CASE d = Root
    <2>1. Len(DirPath(d)) = 0
        BY <1>2, DirPathType
    <2>2. Slashes(p) = {}
        <3>1. \A j \in 1 .. Len(p) : p[j] # Slash
            BY <2>1
        <3> QED BY <1>1, <3>1
    <2>3. SubSeq(p, 1, Len(p)) = p
        BY SubSeqFull
    <2>4. SubSeq(p, Len(DirPath(d)) + 1, Len(p)) = p
        BY <2>1, <2>3
    <2> QED BY <1>2, <2>2, <2>4 DEF Dirname, Basename
<1>3. CASE d # Root
    <2> DEFINE m == Len(d) + 1
    <2>1. DirPath(d) = Append(d, Slash) /\ Len(DirPath(d)) = m /\ Len(d) \in Nat
        BY <1>3, DirPathType
    <2>2. m \in Slashes(p) /\ Above(p, m) = d
        BY <2>1, PrefixIsAbove
    <2>3. Max(Slashes(p)) \in Slashes(p) /\ \A i \in Slashes(p) : i <= Max(Slashes(p))
        BY <1>1, <2>2, HasMax
    <2> HIDE DEF m
    <2> DEFINE x == Max(Slashes(p))
    <2>4. x \in Slashes(p) /\ m <= x /\ x \in 1 .. Len(p) /\ p[x] = Slash
        BY <1>1, <2>2, <2>3
    <2> HIDE DEF x
    <2>5. x \notin m + 1 .. Len(p)
        BY <2>1, <2>4
    <2>6. x = m
        BY <1>1, <2>2, <2>4, <2>5
    <2>7. Dirname(p) = SubSeq(p, 1, x - 1) /\ Basename(p) = SubSeq(p, x + 1, Len(p))
        BY <2>2 DEF Dirname, Basename, x
    <2> QED BY <2>1, <2>2, <2>6, <2>7 DEF Above
<1> QED BY <1>2, <1>3

LEMMA DirnameFacts ==
    ASSUME NEW p, IsClean(p), NEW d, d = Dirname(p)
    PROVE  /\ d \in Seq(Chars) /\ IsPrefix(DirPath(d), p) /\ Len(DirPath(d)) < Len(p)
           /\ \A j \in Len(DirPath(d)) + 1 .. Len(p) : p[j] # Slash
           /\ d = Root \/ d \in Ancestors(p)
<1>1. p \in Seq(Chars) /\ Len(p) \in Nat \ {0} /\ p[1] # Slash /\ p[Len(p)] # Slash
    BY CleanName DEF IsClean
<1>2. Slashes(p) \in SUBSET (1 .. Len(p))
      /\ \A i \in 1 .. Len(p) : i \in Slashes(p) <=> p[i] = Slash
    BY <1>1, SlashesType
<1>3. CASE Slashes(p) = {}
    <2>1. d = << >>
        BY <1>3 DEF Dirname, Root
    <2>2. d \in Seq(Chars) /\ d = Root
        BY <2>1, EmptySeq DEF Root
    <2>3. DirPath(d) = << >> /\ Len(DirPath(d)) = 0 /\ DirPath(d) \in Seq(Chars)
        BY <2>2, DirPathType
    <2>4. IsPrefix(DirPath(d), p)
        <3> DEFINE g == DirPath(d)
        <3>1. g \in Seq(Chars) /\ Len(g) = 0
            BY <2>3
        <3> HIDE DEF g
        <3>2. Len(g) <= Len(p) /\ \A i \in 1 .. Len(g) : g[i] = p[i]
            BY <1>1, <3>1
        <3>3. IsPrefix(g, p)
            BY <1>1, <3>1, <3>2, PrefixIff
        <3> QED BY <3>3 DEF g
    <2>5. \A j \in 1 .. Len(p) : p[j] # Slash
        BY <1>2, <1>3
    <2> QED BY <1>1, <2>2, <2>3, <2>4, <2>5
<1>4. CASE Slashes(p) # {}
    <2> DEFINE m == Max(Slashes(p))
    <2>1. m \in Slashes(p) /\ \A i \in Slashes(p) : i <= m
        BY <1>1, <1>2, <1>4, HasMax
    <2>2. d = Above(p, m)
        BY <1>4 DEF Dirname, Above
    <2> HIDE DEF m
    <2>3. m \in 1 .. Len(p) /\ p[m] = Slash /\ m # 1 /\ m # Len(p)
        BY <1>1, <1>2, <2>1
    <2>4. /\ Above(p, m) \in Seq(Chars) /\ Len(Append(Above(p, m), Slash)) = m
          /\ IsPrefix(Append(Above(p, m), Slash), p)
        BY <1>1, <2>1, AboveIsPrefix
    <2>5. Len(d) = m - 1 /\ d \in Seq(Chars)
        BY <1>1, <2>2, <2>3, AboveType
    <2>6. d # Root
        BY <2>3, <2>5, EmptySeq DEF Root
    <2>7. DirPath(d) = Append(d, Slash)
        BY <2>5, <2>6, DirPathType
    <2>8. Len(DirPath(d)) = m
        BY <2>2, <2>4, <2>7
    <2>9. \A j \in m + 1 .. Len(p) : p[j] # Slash
        BY <1>1, <1>2, <2>1, <2>3
    <2>10. d \in Ancestors(p)
        BY <2>1, <2>2 DEF Ancestors
    <2> QED BY <1>1, <2>2, <2>3, <2>4, <2>5, <2>7, <2>8, <2>9, <2>10
<1> QED BY <1>3, <1>4

LEMMA BasenameFacts ==
    ASSUME NEW p, IsClean(p), NEW d, d = Dirname(p), NEW b, b = Basename(p)
    PROVE  /\ b = SubSeq(p, Len(DirPath(d)) + 1, Len(p))
           /\ IsClean(b) /\ Slashes(b) = {} /\ Len(b) = Len(p) - Len(DirPath(d))
           /\ \A i \in 1 .. Len(b) : b[i] = p[Len(DirPath(d)) + i]
<1>1. p \in Seq(Chars) /\ Len(p) \in Nat \ {0}
    BY CleanName
<1>2. /\ d \in Seq(Chars) /\ IsPrefix(DirPath(d), p) /\ Len(DirPath(d)) < Len(p)
      /\ \A j \in Len(DirPath(d)) + 1 .. Len(p) : p[j] # Slash
    BY DirnameFacts
<1>3. b = SubSeq(p, Len(DirPath(d)) + 1, Len(p))
    BY <1>1, <1>2, CutAtLastSlash
<1> DEFINE g == DirPath(d)
<1>4. g \in Seq(Chars) /\ Len(g) \in Nat
    BY <1>2, DirPathType
<1>5. b = SubSeq(p, Len(g) + 1, Len(p)) /\ Len(g) < Len(p) /\ \A j \in Len(g) + 1 .. Len(p) : p[j] # Slash
    BY <1>2, <1>3
<1> HIDE DEF g
<1>6. b \in Seq(Chars) /\ Len(b) = Len(p) - Len(g) /\ \A i \in 1 .. Len(b) : b[i] = p[Len(g) + i]
    <2> DEFINE u == SubSeq(p, Len(g) + 1, Len(p))
    <2>1. Len(g) <= Len(p)
        BY <1>1, <1>4, <1>5
    <2>2. u \in Seq(Chars) /\ Len(u) = Len(p) - Len(g) /\ \A i \in 1 .. Len(u) : u[i] = p[Len(g) + i]
        BY <1>1, <1>4, <2>1, CutPrefix
    <2>3. b = u
        BY <1>5
    <2> HIDE DEF u
    <2> QED BY <2>2, <2>3
<1>7. Len(b) \in Nat \ {0}
    BY <1>1, <1>4, <1>5, <1>6
<1>8. ASSUME NEW i \in 1 .. Len(b) PROVE b[i] # Slash
    <2> DEFINE j == Len(g) + i
    <2>1. j \in Len(g) + 1 .. Len(p)
        BY <1>1, <1>4, <1>5, <1>6
    <2>2. b[i] = p[j]
        BY <1>6
    <2> HIDE DEF j
    <2> QED BY <1>5, <2>1, <2>2
<1>9. Slashes(b) = {}
    BY <1>6, <1>8, SlashesType
<1>10. IsClean(b)
    <2>1. b # << >>
        BY <1>7, EmptySeq
    <2>2. b[1] # Slash /\ b[Len(b)] # Slash
        BY <1>7, <1>8
    <2>3. \A i \in 1 .. Len(b) - 1 : b[i] = Slash => b[i + 1] # Slash
        BY <1>7, <1>8
    <2> QED BY <1>6, <2>1, <2>2, <2>3 DEF IsClean, Root
<1> QED BY <1>3, <1>6, <1>9, <1>10 DEF g

LEMMA JoinClean ==
    ASSUME NEW d, d = Root \/ IsClean(d), NEW n, IsClean(n)
    PROVE  IsClean(Join(d, n))
<1>1. CASE d = Root
    BY <1>1 DEF Join
<1>2. CASE d # Root
    <2> DEFINE g == KeyOf(d, TRUE)
               J == g \o n
    <2>1. IsClean(d) /\ d \in Seq(Chars)
        BY <1>2, CleanName
    <2>2. n \in Seq(Chars) /\ Len(n) \in Nat \ {0} /\ n[1] # Slash /\ n[Len(n)] # Slash
          /\ \A i \in 1 .. Len(n) - 1 : n[i] = Slash => n[i + 1] # Slash
        BY CleanName DEF IsClean
    <2>3. /\ g \in Seq(Chars) /\ Len(g) \in Nat \ {0} /\ g[1] # Slash /\ OneSlash(g)
          /\ g[Len(g)] = Slash <=> TRUE
        BY <2>1, KeyShape
    <2>4. Join(d, n) = J
        <3>1. Append(d, Slash) = d \o <<Slash>>
            BY <2>1, AppendIsConcat, SlashIsChar
        <3> QED BY <1>2, <3>1 DEF Join, KeyOf
    <2> HIDE DEF g
    <2>5. /\ J \in Seq(Chars) /\ Len(J) = Len(g) + Len(n)
          /\ \A i \in 1 .. Len(g) + Len(n) : J[i] = IF i <= Len(g) THEN g[i] ELSE n[i - Len(g)]
        BY <2>2, <2>3, ConcatProperties
    <2> HIDE DEF J
    <2>6. \A i \in 1 .. Len(g) : J[i] = g[i]
        BY <2>2, <2>3, <2>5
    <2>7. ASSUME NEW i \in 1 .. Len(n) PROVE J[Len(g) + i] = n[i]
        <3> DEFINE q == Len(g) + i
        <3>1. q \in 1 .. Len(g) + Len(n) /\ ~(q <= Len(g)) /\ q - Len(g) = i
            BY <2>2, <2>3
        <3> HIDE DEF q
        <3>2. J[q] = n[i]
            BY <2>5, <3>1
        <3> QED BY <3>2 DEF q
    <2>8. J[1] # Slash /\ J # << >>
        <3>1. Len(J) # 0
            BY <2>2, <2>3, <2>5
        <3> QED BY <2>3, <2>6, <3>1, EmptySeq
    <2>9. J[Len(J)] # Slash
        BY <2>2, <2>5, <2>7
    <2>10. ASSUME NEW i \in 1 .. Len(J) - 1, J[i] = Slash PROVE J[i + 1] # Slash
        <3>1. CASE i < Len(g)
            <4>1. i \in 1 .. Len(g) - 1 /\ i \in 1 .. Len(g) /\ i + 1 \in 1 .. Len(g)
                BY <2>3, <3>1
            <4> QED BY <2>3, <2>6, <2>10, <4>1 DEF OneSlash
        <3>2. CASE i = Len(g)
            BY <2>2, <2>7, <3>2
        <3>3. CASE i > Len(g)
            <4> DEFINE j == i - Len(g)
            <4>1. /\ j \in 1 .. Len(n) - 1 /\ j \in 1 .. Len(n) /\ j + 1 \in 1 .. Len(n)
                  /\ Len(g) + j = i /\ Len(g) + (j + 1) = i + 1
                BY <2>2, <2>3, <2>5, <3>3
            <4> HIDE DEF j
            <4>2. J[Len(g) + j] = n[j]
                BY <2>7, <4>1
            <4>3. J[Len(g) + (j + 1)] = n[j + 1]
                BY <2>7, <4>1
            <4> QED BY <2>2, <2>10, <4>1, <4>2, <4>3
        <3> QED BY <2>3, <2>5, <3>1, <3>2, <3>3
    <2>11. IsClean(J)
        BY <2>5, <2>8, <2>9, <2>10 DEF IsClean, Root
    <2> QED BY <2>4, <2>11
<1> QED BY <1>1, <1>2

(* The paths Rename and Move ask for are clean.                            *)
LEMMA TargetClean ==
    ASSUME NEW f \in Entries, CatalogAssumption
    PROVE  /\ \A n \in Simple : IsClean(TransformTo("rename", f, n))
           /\ \A n \in Names \cup {Root} : IsClean(TransformTo("move", f, n))
<1>1. IsClean(f.name)
    BY EntryKey
<1>2. Dirname(f.name) = Root \/ IsClean(Dirname(f.name))
    BY <1>1, DirnameFacts, AncestorClean
<1>3. IsClean(Basename(f.name))
    BY <1>1, BasenameFacts
<1>4. ASSUME NEW n \in Simple PROVE IsClean(TransformTo("rename", f, n))
    <2>1. IsClean(n)
        BY DEF CatalogAssumption, Simple
    <2>2. IsClean(Join(Dirname(f.name), n))
        BY <1>2, <2>1, JoinClean
    <2> QED BY <2>2 DEF TransformTo, RenamePath
<1>5. ASSUME NEW n \in Names \cup {Root} PROVE IsClean(TransformTo("move", f, n))
    <2>1. n = Root \/ IsClean(n)
        BY DEF CatalogAssumption
    <2>2. IsClean(Join(n, Basename(f.name)))
        BY <1>3, <2>1, JoinClean
    <2> QED BY <2>2 DEF TransformTo, MovePath
<1> QED BY <1>4, <1>5

----------------------------------------------------------------------------
(* The inductive invariant                                                 *)

(* Whatever the calls, lookup finds entries by their names; after careful  *)
(* calls every entry is found and the names make a tree.                   *)
Shaped(z, tree) == Typed(z) /\ Sound(z) /\ (tree => Tree(z))
CatalogInv == Shaped(archive, careful)

LEMMA ArchiveFields == archive.files = files /\ archive.lookup = lookup
BY DEF archive

LEMMA BecomeShaped ==
    ASSUME NEW z, Become(z), Typed(z), Sound(z), careful' => Tree(z)
    PROVE  CatalogInv'
<1>1. archive'.files = z.files /\ archive'.lookup = z.lookup
    BY DEF Become, archive
<1>2. Typed(archive')
    BY <1>1 DEF Typed
<1>3. Sound(archive')
    BY <1>1 DEF Sound
<1>4. careful' => Tree(archive')
    BY <1>1 DEF Tree, Listed, Parented, Apart, HasDir, Has
<1> QED BY <1>2, <1>3, <1>4 DEF CatalogInv, Shaped

LEMMA EmptyShaped ==
    ASSUME NEW z, z.files = << >>, z.lookup = << >>
    PROVE  Typed(z) /\ Sound(z) /\ Tree(z)
<1>1. z.files \in Seq(Entries) /\ DOMAIN z.files = {} /\ DOMAIN z.lookup = {}
    <2>1. << >> \in Seq(Entries) /\ Len(<< >>) = 0
        BY EmptySeq
    <2>2. DOMAIN << >> = 1 .. Len(<< >>)
        BY <2>1, LenProperties
    <2> QED BY <2>1, <2>2
<1> QED BY <1>1 DEF Typed, Sound, Tree, Listed, Parented, Apart

LEMMA InitShaped == Init => CatalogInv
BY EmptyShaped, ArchiveFields DEF Init, CatalogInv, Shaped

LEMMA NameClean ==
    ASSUME CatalogAssumption, NEW n \in Names
    PROVE  IsClean(n)
BY DEF CatalogAssumption

(* A name that is added, by Add or by a load                               *)
LEMMA AddStep ==
    ASSUME CatalogInv, NEW n, IsClean(n), NEW isDir \in BOOLEAN,
           Become(AddUnder(archive, n, isDir)), Careful(Absent(n))
    PROVE  CatalogInv'
<1>1. Typed(archive) /\ Sound(archive) /\ (careful => Tree(archive))
    BY DEF CatalogInv, Shaped
<1>2. careful' => careful /\ ~Has(archive, n) /\ ~HasDir(archive, n)
    BY DEF Careful, Absent
<1> DEFINE z == AddUnder(archive, n, isDir)
<1>3. Typed(z) /\ Sound(z)
      /\ (Tree(archive) /\ ~Has(archive, n) /\ ~HasDir(archive, n) => Tree(z))
    BY <1>1, AddKeeps
<1>4. Become(z)
    OBVIOUS
<1> HIDE DEF z
<1> QED BY <1>1, <1>2, <1>3, <1>4, BecomeShaped

LEMMA RemoveStep ==
    ASSUME CatalogAssumption, CatalogInv, NEW raw \in Raw, RemoveEntry(raw)
    PROVE  CatalogInv'
<1>1. Typed(archive) /\ Sound(archive) /\ (careful => Tree(archive))
    BY DEF CatalogInv, Shaped
<1>2. Become(RemoveFrom(archive, raw)) /\ (careful' => careful /\ Last(raw) # Slash)
    BY DEF RemoveEntry, Careful
<1>3. Typed(RemoveFrom(archive, raw)) /\ Sound(RemoveFrom(archive, raw))
    BY <1>1, RemoveSound
<1>4. Last(raw) # Slash => IsClean(raw)
    <2>1. CASE raw \in Names
        BY <2>1, NameClean
    <2>2. CASE raw \notin Names
        <3>1. PICK n \in Names : raw = Append(n, Slash)
            BY <2>2 DEF Raw
        <3>2. n \in Seq(Chars)
            BY NameClean, CleanName
        <3>3. Last(raw) = Slash
            BY <3>1, <3>2, AppendSlash DEF Last
        <3> QED BY <3>3
    <2> QED BY <2>1, <2>2
<1>5. careful' => Tree(RemoveFrom(archive, raw))
    BY <1>1, <1>2, <1>4, RemoveTree
<1> QED BY <1>2, <1>3, <1>5, BecomeShaped

(* The entry that Rename and Move find                                     *)
LEMMA FoundEntry ==
    ASSUME NEW z, Typed(z), Sound(z), NEW raw, Found(z, raw)
    PROVE  /\ PositionOf(z, raw) \in DOMAIN z.files
           /\ FindEntry(z, raw) = z.files[PositionOf(z, raw)] /\ FindEntry(z, raw) \in Entries
<1>1. PositionOf(z, raw) \in DOMAIN z.files
    BY DEF Found, PositionOf, Sound, Has, HasDir
<1>2. FindEntry(z, raw) = z.files[PositionOf(z, raw)]
    BY DEF FindEntry
<1> QED BY <1>1, <1>2, EntryType

LEMMA TransformStep ==
    ASSUME CatalogInv, NEW op, NEW raw, NEW n, Transform(op, raw, n),
           IsClean(TransformTo(op, FindEntry(archive, raw), n))
    PROVE  CatalogInv'
<1> DEFINE f == FindEntry(archive, raw)
           t == PositionOf(archive, raw)
           p == TransformTo(op, f, n)
           z == PathTransform(archive, f, p)
<1>1. Typed(archive) /\ Sound(archive) /\ (careful => Tree(archive))
    BY DEF CatalogInv, Shaped
<1>2. /\ Found(archive, raw) /\ Become(z)
      /\ careful' => careful /\ NamesApart(CreateMissingDirs(archive, p))
    BY DEF Transform, Careful
<1>3. t \in DOMAIN archive.files /\ f = archive.files[t] /\ f \in Entries
    BY <1>1, <1>2, FoundEntry
<1>4. IsClean(p)
    OBVIOUS
<1> HIDE DEF f, t, p
<1>5. Typed(z) /\ Sound(z)
    BY <1>1, <1>3, <1>4, TransformSound
<1>6. careful' => Tree(z)
    <2>1. careful' => Tree(PathTransform(archive, archive.files[t], p))
        BY <1>1, <1>2, <1>3, <1>4, TransformTree
    <2> QED BY <1>3, <2>1
<1> HIDE DEF z
<1> QED BY <1>2, <1>5, <1>6, BecomeShaped

LEMMA LoadReplaceStep ==
    ASSUME CatalogInv, NEW n, IsClean(n), NEW isDir \in BOOLEAN, LoadReplace(n, isDir)
    PROVE  CatalogInv'
<1> DEFINE z == [files |-> files', lookup |-> lookup']
           key == KeyOf(n, isDir)
<1>1. Typed(archive) /\ Sound(archive) /\ (careful => Tree(archive))
    BY DEF CatalogInv, Shaped
<1>2. /\ Has(archive, key) /\ careful' = careful /\ lookup' = lookup
      /\ files' = [files EXCEPT ![lookup[key]] = [name |-> n, isDir |-> isDir, isImplicit |-> FALSE]]
    BY DEF LoadReplace
<1>3. /\ z.lookup = archive.lookup
      /\ z.files = [archive.files EXCEPT ![archive.lookup[key]] =
                        [name |-> n, isDir |-> isDir, isImplicit |-> FALSE]]
    BY <1>2, ArchiveFields
<1>4. Become(z)
    BY DEF Become
<1> HIDE DEF z
<1>5. Typed(z) /\ Sound(z) /\ (Tree(archive) => Tree(z))
    BY <1>1, <1>2, <1>3, ReplaceKeeps
<1> QED BY <1>1, <1>2, <1>4, <1>5, BecomeShaped

LEMMA LoadRenameStep ==
    ASSUME CatalogInv, NEW n, NEW isDir \in BOOLEAN, NEW newName, IsClean(newName),
           LoadRename(n, isDir, newName)
    PROVE  CatalogInv'
<1> DEFINE c == CreateMissingDirs(archive, newName)
           z == IF Has(c, KeyOf(newName, isDir)) THEN c ELSE Insert(c, newName, isDir, FALSE)
<1>1. Typed(archive) /\ Sound(archive) /\ (careful => Tree(archive))
    BY DEF CatalogInv, Shaped
<1>2. /\ ~ParentIsFile(archive, newName) /\ Become(z)
      /\ careful' => careful /\ ~Has(archive, KeyOf(newName, ~isDir))
    BY DEF LoadRename, Careful
<1>3. Typed(z) /\ Sound(z) /\ (Tree(archive) /\ ~Has(archive, KeyOf(newName, ~isDir)) => Tree(z))
    BY <1>1, <1>2, RenameLoadedKeeps
<1> HIDE DEF z
<1> QED BY <1>1, <1>2, <1>3, BecomeShaped

LEMMA NextShaped ==
    ASSUME CatalogAssumption, CatalogInv, [Next]_vars
    PROVE  CatalogInv'
<1>1. ASSUME NEW n \in Names, NEW isDir \in BOOLEAN, Add(n, isDir) PROVE CatalogInv'
    BY <1>1, NameClean, AddStep DEF Add
<1>2. CASE Reset
    <2> DEFINE z == [files |-> << >>, lookup |-> << >>]
    <2>1. Become(z)
        BY <1>2 DEF Reset
    <2>2. Typed(z) /\ Sound(z) /\ Tree(z)
        BY EmptyShaped
    <2> HIDE DEF z
    <2> QED BY <2>1, <2>2, BecomeShaped
<1>3. ASSUME NEW raw \in Raw, RemoveEntry(raw) PROVE CatalogInv'
    BY <1>3, RemoveStep
<1>4. ASSUME NEW raw \in Raw, NEW newName \in Simple, Rename(raw, newName) PROVE CatalogInv'
    <2>1. Transform("rename", raw, newName) /\ Found(archive, raw)
        BY <1>4 DEF Rename, Transform
    <2>2. FindEntry(archive, raw) \in Entries
        BY <2>1, FoundEntry DEF CatalogInv, Shaped
    <2>3. IsClean(TransformTo("rename", FindEntry(archive, raw), newName))
        BY <2>2, TargetClean
    <2> QED BY <2>1, <2>3, TransformStep
<1>5. ASSUME NEW raw \in Raw, NEW newDir \in Names \cup {Root}, Move(raw, newDir) PROVE CatalogInv'
    <2>1. Transform("move", raw, newDir) /\ Found(archive, raw)
        BY <1>5 DEF Move, Transform
    <2>2. FindEntry(archive, raw) \in Entries
        BY <2>1, FoundEntry DEF CatalogInv, Shaped
    <2>3. IsClean(TransformTo("move", FindEntry(archive, raw), newDir))
        BY <2>2, TargetClean
    <2> QED BY <2>1, <2>3, TransformStep
<1>6. ASSUME NEW n \in Names, NEW isDir \in BOOLEAN, LoadNew(n, isDir) PROVE CatalogInv'
    BY <1>6, NameClean, AddStep DEF LoadNew
<1>7. ASSUME NEW n \in Names, NEW isDir \in BOOLEAN, LoadReplace(n, isDir) PROVE CatalogInv'
    BY <1>7, NameClean, LoadReplaceStep
<1>8. ASSUME NEW n \in Names, NEW newName \in Names, NEW isDir \in BOOLEAN, LoadRename(n, isDir, newName)
      PROVE  CatalogInv'
    BY <1>8, NameClean, LoadRenameStep
<1>9. CASE UNCHANGED vars
    BY <1>9 DEF vars, CatalogInv, Shaped, archive, Typed, Sound, Tree, Listed, Parented, Apart, HasDir, Has
<1> QED BY <1>1, <1>2, <1>3, <1>4, <1>5, <1>6, <1>7, <1>8, <1>9 DEF Next

(* Every archive that the operations reach is of this shape.               *)
THEOREM CatalogKept == Spec => []CatalogInv
<1>1. Init => CatalogInv
    BY InitShaped
<1>2. CatalogInv /\ [Next]_vars => CatalogInv'
    BY NextShaped, CatalogAssumption
<1> QED BY <1>1, <1>2, PTL DEF Spec

(* A name in lookup always finds an entry of files that has this name.     *)
THEOREM LookupAlwaysSound == Spec => []LookupSound
<1>1. CatalogInv => LookupSound
    BY ArchiveFields DEF CatalogInv, Shaped, Sound, LookupSound
<1> QED BY <1>1, CatalogKept, PTL

(* After careful calls every entry is the one its name finds.              *)
THEOREM FilesAlwaysListed == Spec => []FilesListed
<1>1. CatalogInv => FilesListed
    BY ArchiveFields DEF CatalogInv, Shaped, Tree, Listed, FilesListed
<1> QED BY <1>1, CatalogKept, PTL

(* After careful calls every parent directory is there and no name is a    *)
(* file and a directory.                                                   *)
THEOREM AlwaysTreeShaped == Spec => []TreeShaped
<1>1. CatalogInv => TreeShaped
    BY ArchiveFields DEF CatalogInv, Shaped, Tree, Parented, Apart, TreeShaped
<1> QED BY <1>1, CatalogKept, PTL

----------------------------------------------------------------------------
(* What Rename and Move change                                             *)

LEMMA TransformFacts ==
    ASSUME CatalogAssumption, CatalogInv, NEW t \in Transforms
    PROVE  /\ PositionOf(archive, t.raw) \in DOMAIN archive.files
           /\ Target(t) = archive.files[PositionOf(archive, t.raw)] /\ Target(t) \in Entries
           /\ IsClean(TransformTo(t.op, Target(t), t.n))
<1>1. Found(archive, t.raw) /\ t.op \in {"rename", "move"} /\ t.n \in Names \cup {Root}
      /\ (t.op = "rename" => t.n \in Simple)
    BY DEF Transforms
<1>2. Typed(archive) /\ Sound(archive)
    BY DEF CatalogInv, Shaped
<1>3. /\ PositionOf(archive, t.raw) \in DOMAIN archive.files
      /\ Target(t) = archive.files[PositionOf(archive, t.raw)] /\ Target(t) \in Entries
    BY <1>1, <1>2, FoundEntry DEF Target
<1>4. /\ \A n \in Simple : IsClean(TransformTo("rename", Target(t), n))
      /\ \A n \in Names \cup {Root} : IsClean(TransformTo("move", Target(t), n))
    BY <1>3, TargetClean
<1>5. IsClean(TransformTo(t.op, Target(t), t.n))
    <2>1. CASE t.op = "rename"
        BY <1>1, <1>4, <2>1
    <2>2. CASE t.op = "move"
        BY <1>1, <1>4, <2>2
    <2> QED BY <1>1, <2>1, <2>2
<1> QED BY <1>3, <1>5

(* The archive stays as it is, or the entries that are hit get new names.  *)
LEMMA TransformOutcome ==
    ASSUME NEW z, Typed(z), NEW f \in Entries, NEW p, IsClean(p), NEW i \in DOMAIN z.files,
           NEW r, r = PathTransform(z, f, p), r # z
    PROVE  /\ f.name # p
           /\ ~Hit(f, z.files[i]) => r.files[i] = z.files[i]
           /\ Hit(f, z.files[i]) => r.files[i] = Moved(f, p, z.files[i])
<1> DEFINE c == CreateMissingDirs(z, p)
<1>1. f.name # p /\ r = ApplyTransform(c, f, p)
    BY DEF PathTransform
<1>2. Typed(c) /\ i \in DOMAIN c.files /\ c.files[i] = z.files[i]
    <2>1. /\ Typed(c) /\ Cardinality(MissingDirs(z, p)) \in Nat
          /\ \A j \in DOMAIN z.files : j \in DOMAIN c.files /\ c.files[j] = z.files[j]
        BY CreateFiles
    <2> QED BY <2>1
<1> HIDE DEF c
<1>3. /\ \A j \in DOMAIN c.files : j \notin Hits(c, f) => r.files[j] = c.files[j]
      /\ \A j \in Hits(c, f) : r.files[j] = Moved(f, p, c.files[j])
    <2>1. /\ \A j \in DOMAIN c.files : j \notin Hits(c, f) => r.files[j] = c.files[j]
        BY <1>1, <1>2, ApplyFacts
    <2>2. \A j \in Hits(c, f) : r.files[j] = Moved(f, p, c.files[j])
        BY <1>1, <1>2, ApplyFacts
    <2> QED BY <2>1, <2>2
<1> QED BY <1>1, <1>2, <1>3 DEF Hits

(* Rename and Move leave the archive as it was unless the entry itself     *)
(* gets its new name.                                                      *)
THEOREM TransformsAreAtomic == Spec => []TransformAllOrNothing
<1>1. ASSUME CatalogAssumption, CatalogInv PROVE TransformAllOrNothing
    <2> SUFFICES ASSUME NEW t \in Transforms, Result(t).files[PositionOf(archive, t.raw)] = Target(t),
                        Result(t) # archive
                 PROVE  FALSE
        BY DEF TransformAllOrNothing
    <2> DEFINE i == PositionOf(archive, t.raw)
               f == Target(t)
               p == TransformTo(t.op, f, t.n)
               r == Result(t)
    <2>1. i \in DOMAIN archive.files /\ f = archive.files[i] /\ f \in Entries /\ IsClean(p)
        BY <1>1, TransformFacts
    <2>2. r = PathTransform(archive, f, p) /\ r # archive /\ r.files[i] = f
        BY DEF Result
    <2>3. Typed(archive)
        BY <1>1 DEF CatalogInv, Shaped
    <2> HIDE DEF i, f, p, r
    <2>4. Hit(f, f) /\ Moved(f, p, f).name = p
        BY <2>1, NewOfTarget
    <2>5. f.name # p /\ (Hit(f, archive.files[i]) => r.files[i] = Moved(f, p, archive.files[i]))
        BY <2>1, <2>2, <2>3, TransformOutcome
    <2> QED BY <2>1, <2>2, <2>4, <2>5
<1> QED BY <1>1, CatalogAssumption, CatalogKept, PTL

(* Rename and Move change no entry but theirs and what lies below it.      *)
THEOREM TransformsKeepToScope == Spec => []TransformScope
<1>1. ASSUME CatalogAssumption, CatalogInv PROVE TransformScope
    <2> SUFFICES ASSUME careful, NamesApart(archive), NEW t \in Transforms, NEW j \in DOMAIN files,
                        Result(t).files[j] # files[j],
                        ~(Target(t).isDir /\ IsPrefix(Key(Target(t)), Key(files[j])))
                 PROVE  files[j] = Target(t)
        BY DEF TransformScope
    <2> DEFINE i == PositionOf(archive, t.raw)
               f == Target(t)
               p == TransformTo(t.op, f, t.n)
               r == Result(t)
    <2>1. i \in DOMAIN archive.files /\ f = archive.files[i] /\ f \in Entries /\ IsClean(p)
        BY <1>1, TransformFacts
    <2>2. r = PathTransform(archive, f, p) /\ r.files[j] # archive.files[j] /\ j \in DOMAIN archive.files
          /\ ~(f.isDir /\ Hit(f, archive.files[j]))
        BY ArchiveFields DEF Result, Hit
    <2>3. Typed(archive) /\ Sound(archive) /\ Tree(archive)
        BY <1>1 DEF CatalogInv, Shaped
    <2> HIDE DEF i, f, p, r
    <2>4. r # archive
        BY <2>2
    <2>5. ~Hit(f, archive.files[j]) => r.files[j] = archive.files[j]
        BY <2>1, <2>2, <2>3, <2>4, TransformOutcome
    <2>6. j \in Hits(archive, archive.files[i]) /\ ~archive.files[i].isDir
        BY <2>1, <2>2, <2>5 DEF Hits
    <2>7. j = i
        BY <2>1, <2>3, <2>6, FileHitsItself
    <2> QED BY <2>1, <2>7, ArchiveFields DEF f
<1> QED BY <1>1, CatalogAssumption, CatalogKept, PTL

----------------------------------------------------------------------------
(* ReadDir                                                                 *)

(* What remains of the key of e below directory d, and its first element   *)
Rest(d, e) == SubSeq(Key(e), Len(DirPath(d)) + 1, Len(Key(e)))
ChildOf(d, e) ==
    IF Slashes(Rest(d, e)) = {} THEN Rest(d, e) ELSE SubSeq(Rest(d, e), 1, Min(Slashes(Rest(d, e))) - 1)
Inside(z, d) == {i \in DOMAIN z.files : IsStrictPrefix(DirPath(d), Key(z.files[i]))}

LEMMA RestFacts ==
    ASSUME NEW e \in Entries, NEW d \in Seq(Chars), IsPrefix(DirPath(d), Key(e)),
           NEW u, u = Rest(d, e)
    PROVE  /\ u \in Seq(Chars) /\ Len(u) = Len(Key(e)) - Len(DirPath(d))
           /\ Len(DirPath(d)) \in Nat /\ Len(Key(e)) \in Nat /\ Len(DirPath(d)) <= Len(Key(e))
           /\ \A i \in 1 .. Len(u) : u[i] = Key(e)[Len(DirPath(d)) + i]
           /\ Slashes(u) \in SUBSET (1 .. Len(u))
           /\ \A i \in 1 .. Len(u) : i \in Slashes(u) <=> u[i] = Slash
<1> DEFINE g == DirPath(d)
           k == Key(e)
           v == SubSeq(k, Len(g) + 1, Len(k))
<1>1. g \in Seq(Chars) /\ Len(g) \in Nat /\ k \in Seq(Chars) /\ Len(k) \in Nat /\ IsPrefix(g, k)
    BY DirPathType, EntryKey
<1>2. u = v
    BY DEF Rest
<1> HIDE DEF g, k
<1>3. Len(g) <= Len(k)
    BY <1>1, PrefixIff
<1>4. v \in Seq(Chars) /\ Len(v) = Len(k) - Len(g) /\ \A i \in 1 .. Len(v) : v[i] = k[Len(g) + i]
    BY <1>1, <1>3, CutPrefix
<1> HIDE DEF v
<1>5. u \in Seq(Chars) /\ Len(u) = Len(k) - Len(g) /\ \A i \in 1 .. Len(u) : u[i] = k[Len(g) + i]
    BY <1>2, <1>4
<1>6. Slashes(u) \in SUBSET (1 .. Len(u)) /\ \A i \in 1 .. Len(u) : i \in Slashes(u) <=> u[i] = Slash
    BY <1>5, SlashesType
<1> QED BY <1>1, <1>3, <1>5, <1>6 DEF g, k

(* An entry whose parent is d is seen in d by its base name.               *)
LEMMA ListedChild ==
    ASSUME NEW e \in Entries, NEW d, d = Dirname(e.name)
    PROVE  /\ IsStrictPrefix(DirPath(d), Key(e))
           /\ ChildOf(d, e) = Basename(e.name)
           /\ e.name = DirPath(d) \o Basename(e.name)
<1> DEFINE n == e.name
           g == DirPath(d)
           k == Key(e)
           u == Rest(d, e)
           b == Basename(e.name)
<1>1. /\ IsClean(n) /\ n \in Seq(Chars) /\ Len(n) \in Nat \ {0} /\ e.isDir \in BOOLEAN
      /\ k = KeyOf(n, e.isDir) /\ k \in Seq(Chars)
    BY EntryKey, CleanName
<1>2. /\ d \in Seq(Chars) /\ IsPrefix(g, n) /\ Len(g) < Len(n)
      /\ \A j \in Len(g) + 1 .. Len(n) : n[j] # Slash
    BY <1>1, DirnameFacts
<1>3. /\ b = SubSeq(n, Len(g) + 1, Len(n))
      /\ IsClean(b) /\ Slashes(b) = {} /\ Len(b) = Len(n) - Len(g)
      /\ \A i \in 1 .. Len(b) : b[i] = n[Len(g) + i]
    <2>1. b = SubSeq(n, Len(g) + 1, Len(n))
        BY <1>1, BasenameFacts
    <2>2. IsClean(b) /\ Slashes(b) = {}
        BY <1>1, BasenameFacts
    <2>3. Len(b) = Len(n) - Len(g)
        BY <1>1, BasenameFacts
    <2>4. ASSUME NEW i \in 1 .. Len(b) PROVE b[i] = n[Len(g) + i]
        BY <1>1, BasenameFacts
    <2> QED BY <2>1, <2>2, <2>3, <2>4
<1>4. g \in Seq(Chars) /\ Len(g) \in Nat
    BY <1>2, DirPathType
<1>5. /\ Len(k) = Len(n) + (IF e.isDir THEN 1 ELSE 0) /\ IsPrefix(n, k)
      /\ \A i \in 1 .. Len(n) : k[i] = n[i]
      /\ (e.isDir => k[Len(n) + 1] = Slash)
    <2>1. /\ Len(KeyOf(n, e.isDir)) = Len(n) + (IF e.isDir THEN 1 ELSE 0) /\ IsPrefix(n, KeyOf(n, e.isDir))
          /\ \A i \in 1 .. Len(n) : KeyOf(n, e.isDir)[i] = n[i]
          /\ (e.isDir => KeyOf(n, e.isDir)[Len(n) + 1] = Slash)
        BY <1>1, KeyType
    <2> QED BY <1>1, <2>1
<1>6. IsPrefix(g, k)
    BY <1>1, <1>2, <1>4, <1>5, PrefixTrans
<1>7. /\ u \in Seq(Chars) /\ Len(u) = Len(k) - Len(g)
      /\ \A i \in 1 .. Len(u) : u[i] = k[Len(g) + i]
      /\ Slashes(u) \in SUBSET (1 .. Len(u))
      /\ \A i \in 1 .. Len(u) : i \in Slashes(u) <=> u[i] = Slash
    BY <1>2, <1>6, RestFacts
<1>8. b \in Seq(Chars)
    BY <1>3, CleanName
<1>9. ChildOf(d, e) = IF Slashes(u) = {} THEN u ELSE Above(u, Min(Slashes(u)))
    BY DEF ChildOf, Above
<1> HIDE DEF n, g, k, u, b
<1>10. Len(g) < Len(k)
    BY <1>1, <1>2, <1>4, <1>5
<1>11. IsStrictPrefix(g, k)
    BY <1>4, <1>6, <1>10 DEF IsStrictPrefix
<1>12. ASSUME NEW i \in 1 .. Len(b) PROVE i \in 1 .. Len(u) /\ u[i] = b[i] /\ u[i] # Slash
    <2> DEFINE j == Len(g) + i
    <2>1. i \in 1 .. Len(u) /\ j \in 1 .. Len(n) /\ j \in Len(g) + 1 .. Len(n)
        BY <1>1, <1>2, <1>3, <1>4, <1>5, <1>7
    <2>2. u[i] = k[j] /\ b[i] = n[j]
        BY <1>3, <1>7, <2>1
    <2> HIDE DEF j
    <2> QED BY <1>2, <1>5, <2>1, <2>2
<1>13. ChildOf(d, e) = b
    <2>1. CASE ~e.isDir
        <3>1. Len(u) = Len(b)
            BY <1>1, <1>3, <1>5, <1>7, <2>1
        <3>2. Slashes(u) = {}
            BY <1>7, <1>12, <3>1
        <3>3. u = b
            BY <1>7, <1>8, <1>12, <3>1, SeqEqual
        <3> QED BY <1>9, <3>2, <3>3
    <2>2. CASE e.isDir
        <3>1. Len(u) = Len(b) + 1 /\ Len(b) \in Nat
            BY <1>1, <1>2, <1>3, <1>4, <1>5, <1>7, <2>2
        <3>2. Len(u) \in 1 .. Len(u) /\ u[Len(u)] = Slash
            <4>1. Len(u) \in 1 .. Len(u) /\ Len(g) + Len(u) = Len(n) + 1
                BY <1>1, <1>3, <1>4, <3>1
            <4> QED BY <1>5, <1>7, <2>2, <4>1
        <3>3. Slashes(u) = {Len(u)}
            <4>1. ASSUME NEW i \in Slashes(u) PROVE i = Len(u)
                <5>1. i \in 1 .. Len(u) /\ u[i] = Slash
                    BY <1>7
                <5>2. i \notin 1 .. Len(b)
                    BY <1>12, <5>1
                <5> QED BY <3>1, <5>1, <5>2
            <4> QED BY <1>7, <3>2, <4>1
        <3>4. Min(Slashes(u)) = Len(u)
            <4>1. Slashes(u) \in SUBSET (1 .. Len(u)) /\ Len(u) \in Nat /\ Slashes(u) # {}
                BY <1>7, <3>1, <3>3
            <4>2. Min(Slashes(u)) \in Slashes(u)
                BY <4>1, HasMin
            <4> QED BY <3>3, <4>2
        <3> DEFINE a == Above(u, Len(u))
        <3>5. a \in Seq(Chars) /\ Len(a) = Len(u) - 1 /\ \A j \in 1 .. Len(u) - 1 : a[j] = u[j]
            BY <1>7, <3>2, AboveType
        <3> HIDE DEF a
        <3>6. Len(a) = Len(b) /\ \A j \in 1 .. Len(b) : a[j] = b[j]
            BY <1>12, <3>1, <3>5
        <3>7. a = b
            BY <1>8, <3>5, <3>6, SeqEqual
        <3> QED BY <1>9, <3>3, <3>4, <3>7 DEF a
    <2> QED BY <2>1, <2>2
<1>14. n = g \o b
    <2> DEFINE m == g \o b
    <2>1. /\ m \in Seq(Chars) /\ Len(m) = Len(g) + Len(b)
          /\ \A i \in 1 .. Len(g) + Len(b) : m[i] = IF i <= Len(g) THEN g[i] ELSE b[i - Len(g)]
        BY <1>4, <1>8, ConcatProperties
    <2> HIDE DEF m
    <2>2. \A i \in 1 .. Len(g) : g[i] = n[i]
        BY <1>1, <1>2, <1>4, PrefixIff
    <2>3. ASSUME NEW i \in 1 .. Len(n) PROVE m[i] = n[i]
        <3>1. CASE i <= Len(g)
            BY <1>1, <1>3, <1>4, <2>1, <2>2, <3>1
        <3>2. CASE ~(i <= Len(g))
            <4> DEFINE j == i - Len(g)
            <4>1. j \in 1 .. Len(b) /\ Len(g) + j = i /\ i \in 1 .. Len(g) + Len(b)
                BY <1>1, <1>3, <1>4, <3>2
            <4>2. m[i] = b[j]
                BY <2>1, <3>2, <4>1
            <4> HIDE DEF j
            <4> QED BY <1>3, <4>1, <4>2
        <3> QED BY <3>1, <3>2
    <2>4. Len(m) = Len(n)
        BY <1>1, <1>3, <1>4, <2>1
    <2>5. m = n
        BY <1>1, <2>1, <2>3, <2>4, SeqEqual
    <2> QED BY <2>5 DEF m
<1> QED BY <1>11, <1>13, <1>14 DEF n, g, k, b

(* What d/ and a child make is a path in d, and either the key of the      *)
(* entry that was seen or a directory above it.                            *)
LEMMA ChildPath ==
    ASSUME NEW e \in Entries, NEW d \in Seq(Chars), IsStrictPrefix(DirPath(d), Key(e)),
           NEW w, w = ChildOf(d, e), NEW q, q = DirPath(d) \o w
    PROVE  /\ q \in Seq(Chars) /\ Dirname(q) = d /\ Basename(q) = w
           /\ Slashes(Rest(d, e)) = {} => Key(e) = q /\ ~e.isDir /\ e.name = q
           /\ Slashes(Rest(d, e)) # {} => IsPrefix(Append(q, Slash), Key(e))
<1> DEFINE g == DirPath(d)
           k == Key(e)
           u == Rest(d, e)
<1>1. IsPrefix(g, k) /\ g # k
    BY DEF IsStrictPrefix
<1>2. /\ u \in Seq(Chars) /\ Len(u) = Len(k) - Len(g)
      /\ Len(g) \in Nat /\ Len(k) \in Nat /\ Len(g) <= Len(k)
      /\ \A i \in 1 .. Len(u) : u[i] = k[Len(g) + i]
      /\ Slashes(u) \in SUBSET (1 .. Len(u))
      /\ \A i \in 1 .. Len(u) : i \in Slashes(u) <=> u[i] = Slash
    BY <1>1, RestFacts
<1>3. w = IF Slashes(u) = {} THEN u ELSE Above(u, Min(Slashes(u)))
    BY DEF ChildOf, Above
<1>4. g \in Seq(Chars) /\ k \in Seq(Chars) /\ e.isDir \in BOOLEAN /\ k = KeyOf(e.name, e.isDir)
      /\ (k[Len(k)] = Slash <=> e.isDir)
    BY DirPathType, EntryKey
<1> HIDE DEF g, k, u
<1>5. \A i \in 1 .. Len(g) : g[i] = k[i]
    BY <1>1, <1>4, PrefixIff
<1>6. Len(g) < Len(k)
    <2>1. ~(Len(k) <= Len(g))
        BY <1>1, <1>4, PrefixSame
    <2> QED BY <1>2, <2>1
<1>7. /\ w \in Seq(Chars) /\ Len(w) \in Nat /\ Len(w) <= Len(u)
      /\ \A i \in 1 .. Len(w) : w[i] = u[i] /\ u[i] # Slash
      /\ (Slashes(u) = {} => Len(w) = Len(u))
      /\ (Slashes(u) # {} => Len(w) + 1 \in 1 .. Len(u) /\ u[Len(w) + 1] = Slash)
    <2>1. CASE Slashes(u) = {}
        <3>1. w = u /\ \A i \in 1 .. Len(u) : u[i] # Slash
            BY <1>2, <1>3, <2>1
        <3> QED BY <1>2, <2>1, <3>1
    <2>2. CASE Slashes(u) # {}
        <3> DEFINE m == Min(Slashes(u))
        <3>1. m \in Slashes(u) /\ \A i \in Slashes(u) : m <= i
            <4>1. Slashes(u) \in SUBSET (1 .. Len(u)) /\ Len(u) \in Nat
                BY <1>2, LenProperties
            <4> QED BY <2>2, <4>1, HasMin
        <3>2. w = Above(u, m)
            BY <1>3, <2>2
        <3> HIDE DEF m
        <3>3. m \in 1 .. Len(u) /\ u[m] = Slash /\ Len(u) \in Nat
            BY <1>2, <3>1
        <3>4. w \in Seq(Chars) /\ Len(w) = m - 1 /\ \A j \in 1 .. m - 1 : w[j] = u[j]
            <4>1. u \in Seq(Chars)
                BY <1>2
            <4>2. /\ Above(u, m) \in Seq(Chars) /\ Len(Above(u, m)) = m - 1
                  /\ \A j \in 1 .. m - 1 : Above(u, m)[j] = u[j]
                BY <3>3, <4>1, AboveType
            <4> QED BY <3>2, <4>2
        <3>5. ASSUME NEW j \in 1 .. m - 1, u[j] = Slash PROVE FALSE
            <4>1. j \in 1 .. Len(u) /\ ~(m <= j)
                BY <3>3
            <4> QED BY <1>2, <3>1, <3>5, <4>1
        <3>6. Len(w) + 1 = m /\ Len(w) \in Nat /\ Len(w) <= Len(u)
            BY <3>3, <3>4
        <3> QED BY <2>2, <3>3, <3>4, <3>5, <3>6
    <2> QED BY <2>1, <2>2
<1>8. /\ q \in Seq(Chars) /\ Len(q) = Len(g) + Len(w)
      /\ \A i \in 1 .. Len(g) + Len(w) : q[i] = IF i <= Len(g) THEN g[i] ELSE w[i - Len(g)]
    <2> DEFINE r == g \o w
    <2>1. /\ r \in Seq(Chars) /\ Len(r) = Len(g) + Len(w)
          /\ \A i \in 1 .. Len(g) + Len(w) : r[i] = IF i <= Len(g) THEN g[i] ELSE w[i - Len(g)]
        BY <1>4, <1>7, ConcatProperties
    <2>2. q = r
        BY DEF g
    <2> HIDE DEF r
    <2> QED BY <2>1, <2>2
<1>9. \A i \in 1 .. Len(g) : q[i] = g[i]
    BY <1>2, <1>7, <1>8
<1>10. ASSUME NEW i \in 1 .. Len(w) PROVE q[Len(g) + i] = w[i] /\ q[Len(g) + i] # Slash
                                          /\ q[Len(g) + i] = k[Len(g) + i]
    <2> DEFINE j == Len(g) + i
    <2>1. j \in 1 .. Len(g) + Len(w) /\ ~(j <= Len(g)) /\ j - Len(g) = i /\ i \in 1 .. Len(u)
        <3>1. Len(g) \in Nat /\ Len(w) \in Nat /\ Len(w) <= Len(u)
            BY <1>2, <1>7
        <3>2. Len(u) \in Nat
            BY <1>2, LenProperties
        <3> QED BY <3>1, <3>2
    <2>2. u[i] = k[j]
        BY <1>2, <2>1
    <2> HIDE DEF j
    <2>3. q[j] = w[i]
        BY <1>8, <2>1
    <2>4. q[j] = w[i] /\ q[j] # Slash /\ q[j] = k[j]
        BY <1>7, <2>2, <2>3
    <2> QED BY <2>4 DEF j
<1>11. ASSUME NEW j \in Len(g) + 1 .. Len(q) PROVE q[j] # Slash /\ q[j] = k[j]
    <2> DEFINE i == j - Len(g)
    <2>1. i \in 1 .. Len(w) /\ Len(g) + i = j
        BY <1>2, <1>7, <1>8
    <2> HIDE DEF i
    <2> QED BY <1>10, <2>1
<1>12. IsPrefix(g, q)
    <2>1. Len(g) <= Len(q)
        BY <1>2, <1>7, <1>8
    <2> QED BY <1>4, <1>8, <1>9, <2>1, PrefixIff
<1>13. Dirname(q) = d /\ Basename(q) = SubSeq(q, Len(g) + 1, Len(q))
    BY <1>8, <1>11, <1>12, CutAtLastSlash DEF g
<1>14. Basename(q) = w
    <2> DEFINE v == SubSeq(q, Len(g) + 1, Len(q))
    <2>1. Len(g) <= Len(q)
        BY <1>2, <1>7, <1>8
    <2>2. v \in Seq(Chars) /\ Len(v) = Len(q) - Len(g) /\ \A i \in 1 .. Len(v) : v[i] = q[Len(g) + i]
        BY <1>4, <1>8, <2>1, CutPrefix
    <2> HIDE DEF v
    <2>3. Len(v) = Len(w)
        BY <1>2, <1>7, <1>8, <2>2
    <2>4. \A i \in 1 .. Len(w) : v[i] = w[i]
        BY <1>10, <2>2, <2>3
    <2>5. v = w
        BY <1>7, <2>2, <2>3, <2>4, SeqEqual
    <2> QED BY <1>13, <2>5 DEF v
<1>15. Len(q) <= Len(k) /\ \A j \in 1 .. Len(q) : q[j] = k[j]
    <2>1. Len(q) <= Len(k)
        BY <1>2, <1>7, <1>8
    <2>2. ASSUME NEW j \in 1 .. Len(q) PROVE q[j] = k[j]
        <3>1. CASE j <= Len(g)
            BY <1>2, <1>5, <1>9, <3>1
        <3>2. CASE ~(j <= Len(g))
            <4>1. j \in Len(g) + 1 .. Len(q)
                BY <1>2, <3>2
            <4> QED BY <1>11, <4>1
        <3> QED BY <3>1, <3>2
    <2> QED BY <2>1, <2>2
<1>16. ASSUME Slashes(u) = {} PROVE k = q /\ ~e.isDir /\ e.name = q
    <2>1. Len(q) = Len(k)
        BY <1>2, <1>7, <1>8, <1>16
    <2>2. q = k
        BY <1>4, <1>8, <1>15, <2>1, SeqEqual
    <2>3. Len(k) \in Len(g) + 1 .. Len(q)
        BY <1>2, <1>6, <2>1
    <2>4. ~e.isDir
        BY <1>4, <1>11, <2>2, <2>3
    <2> QED BY <1>4, <2>2, <2>4 DEF KeyOf
<1>17. ASSUME Slashes(u) # {} PROVE IsPrefix(Append(q, Slash), k)
    <2> DEFINE h == Append(q, Slash)
    <2>1. /\ h \in Seq(Chars) /\ Len(h) = Len(q) + 1 /\ Len(q) \in Nat
          /\ \A i \in 1 .. Len(q) : h[i] = q[i]
          /\ h[Len(q) + 1] = Slash
        BY <1>8, AppendSlash
    <2> HIDE DEF h
    <2>2. Len(q) + 1 <= Len(k) /\ k[Len(q) + 1] = Slash
        <3> DEFINE m == Len(w) + 1
        <3>1. m \in 1 .. Len(u) /\ u[m] = Slash
            BY <1>7, <1>17
        <3>2. Len(g) + m = Len(q) + 1 /\ Len(q) + 1 <= Len(k)
            BY <1>2, <1>7, <1>8, <3>1
        <3> HIDE DEF m
        <3>3. u[m] = k[Len(g) + m]
            BY <1>2, <3>1
        <3> QED BY <3>1, <3>2, <3>3
    <2>3. ASSUME NEW i \in 1 .. Len(h) PROVE h[i] = k[i]
        <3>1. CASE i = Len(q) + 1
            BY <2>1, <2>2, <3>1
        <3>2. CASE i # Len(q) + 1
            <4>1. i \in 1 .. Len(q)
                BY <2>1, <3>2
            <4> QED BY <1>15, <2>1, <4>1
        <3> QED BY <3>1, <3>2
    <2>4. Len(h) <= Len(k)
        BY <2>1, <2>2
    <2>5. IsPrefix(h, k)
        BY <1>4, <2>1, <2>3, <2>4, PrefixIff
    <2> QED BY <2>5 DEF h
<1> QED BY <1>8, <1>13, <1>14, <1>16, <1>17 DEF k, u

(* ReadDir, with these names                                               *)
FirstChild(z, d) == {i \in Inside(z, d) : \A j \in Inside(z, d) :
                         ChildOf(d, z.files[j]) = ChildOf(d, z.files[i]) => i <= j}
Seen(z, d, i) == [name |-> ChildOf(d, z.files[i]), isDir |-> Slashes(Rest(d, z.files[i])) # {}]

LEMMA ReadDirIs ==
    ASSUME NEW d PROVE ReadDir(d) = {Seen(archive, d, i) : i \in FirstChild(archive, d)}
BY ArchiveFields DEF ReadDir, Seen, FirstChild, Inside, ChildOf, Rest

LEMMA InsideType ==
    ASSUME NEW z, Typed(z), NEW d, NEW i \in Inside(z, d)
    PROVE  /\ i \in DOMAIN z.files /\ z.files[i] \in Entries
           /\ IsStrictPrefix(DirPath(d), Key(z.files[i]))
BY EntryType DEF Inside

(* What ReadDir shows of d is an entry whose parent is d,                  *)
LEMMA SeenIsThere ==
    ASSUME NEW z, Typed(z), Sound(z), Tree(z), NEW d \in Seq(Chars), NEW i \in Inside(z, d)
    PROVE  \E j \in DOMAIN z.files :
              /\ Dirname(z.files[j].name) = d
              /\ Seen(z, d, i) = [name |-> Basename(z.files[j].name), isDir |-> z.files[j].isDir]
<1> DEFINE e == z.files[i]
           w == ChildOf(d, e)
           q == DirPath(d) \o w
<1>1. i \in DOMAIN z.files /\ e \in Entries /\ IsStrictPrefix(DirPath(d), Key(e))
    BY InsideType
<1>2. /\ q \in Seq(Chars) /\ Dirname(q) = d /\ Basename(q) = w
      /\ Slashes(Rest(d, e)) = {} => Key(e) = q /\ ~e.isDir /\ e.name = q
      /\ Slashes(Rest(d, e)) # {} => IsPrefix(Append(q, Slash), Key(e))
    <2> HIDE DEF e
    <2> QED BY <1>1, ChildPath
<1>3. Seen(z, d, i) = [name |-> w, isDir |-> Slashes(Rest(d, e)) # {}]
    BY DEF Seen
<1> HIDE DEF q, w
<1>4. CASE Slashes(Rest(d, e)) = {}
    <2>1. e.isDir = FALSE /\ e.name = q
        <3>1. e.isDir \in BOOLEAN
            BY <1>1, EntryKey
        <3> QED BY <1>2, <1>4, <3>1
    <2>2. (Slashes(Rest(d, e)) # {}) = FALSE
        BY <1>4
    <2>3. Dirname(e.name) = d /\ Seen(z, d, i) = [name |-> Basename(e.name), isDir |-> e.isDir]
        BY <1>2, <1>3, <2>1, <2>2
    <2> QED BY <1>1, <2>3
<1>5. CASE Slashes(Rest(d, e)) # {}
    <2>1. IsPrefix(Append(q, Slash), Key(z.files[i]))
        BY <1>2, <1>5
    <2>2. HasDir(z, q)
        BY <1>1, <1>2, <2>1, UnderTree
    <2>3. PICK j \in DOMAIN z.files : /\ z.lookup[Append(q, Slash)] = j
                                      /\ Key(z.files[j]) = Append(q, Slash)
                                      /\ z.files[j].isDir /\ z.files[j].name = q
        BY <1>2, <2>2, DirKnown
    <2>4. z.files[j].isDir = TRUE
        <3>1. z.files[j].isDir \in BOOLEAN
            BY <2>3, EntryType
        <3> QED BY <2>3, <3>1
    <2>5. (Slashes(Rest(d, e)) # {}) = TRUE
        BY <1>5
    <2>6. Dirname(z.files[j].name) = d
          /\ Seen(z, d, i) = [name |-> Basename(z.files[j].name), isDir |-> z.files[j].isDir]
        BY <1>2, <1>3, <2>3, <2>4, <2>5
    <2> QED BY <2>6
<1> QED BY <1>4, <1>5

LEMMA SeenKey ==
    ASSUME NEW z, Typed(z), NEW d \in Seq(Chars), NEW i \in Inside(z, d)
    PROVE  LET e == z.files[i]
               q == DirPath(d) \o ChildOf(d, e)
           IN  /\ Slashes(Rest(d, e)) = {} => Key(e) = q
               /\ Slashes(Rest(d, e)) # {} => IsPrefix(Append(q, Slash), Key(e))
<1> DEFINE e == z.files[i]
           w == ChildOf(d, e)
           q == DirPath(d) \o w
<1>1. e \in Entries /\ IsStrictPrefix(DirPath(d), Key(e))
    BY InsideType
<1>2. /\ q \in Seq(Chars) /\ Dirname(q) = d /\ Basename(q) = w
      /\ Slashes(Rest(d, e)) = {} => Key(e) = q /\ ~e.isDir /\ e.name = q
      /\ Slashes(Rest(d, e)) # {} => IsPrefix(Append(q, Slash), Key(e))
    <2> HIDE DEF e
    <2> QED BY <1>1, ChildPath
<1> QED BY <1>2

(* and every such entry is shown, once, as what it is.                     *)
LEMMA ThereIsSeen ==
    ASSUME NEW z, Typed(z), Sound(z), Tree(z), NEW i \in DOMAIN z.files,
           NEW d, d = Dirname(z.files[i].name)
    PROVE  \E m \in FirstChild(z, d) :
              Seen(z, d, m) = [name |-> Basename(z.files[i].name), isDir |-> z.files[i].isDir]
<1> DEFINE e == z.files[i]
           w == Basename(e.name)
           S == {j \in Inside(z, d) : ChildOf(d, z.files[j]) = w}
           m == Min(S)
<1>1. e \in Entries /\ e.isDir \in BOOLEAN /\ IsClean(e.name) /\ e.name \in Seq(Chars)
    BY EntryType
<1>2. IsStrictPrefix(DirPath(d), Key(e)) /\ ChildOf(d, e) = w /\ e.name = DirPath(d) \o w
    <2> HIDE DEF e
    <2>1. d = Dirname(e.name)
        BY DEF e
    <2> QED BY <1>1, <2>1, ListedChild
<1>3. d \in Seq(Chars)
    BY <1>1, DirnameFacts
<1>4. i \in S
    BY <1>2 DEF Inside
<1>5. S \in SUBSET (1 .. Len(z.files)) /\ Len(z.files) \in Nat
    BY FilesLen DEF Inside
<1>6. m \in S /\ \A j \in S : m <= j
    <2> HIDE DEF S
    <2> QED BY <1>4, <1>5, HasMin
<1> HIDE DEF m, w
<1>7. m \in Inside(z, d) /\ ChildOf(d, z.files[m]) = w
    BY <1>6
<1>8. m \in FirstChild(z, d)
    BY <1>6, <1>7 DEF FirstChild
<1> DEFINE f == z.files[m]
<1>9. m \in DOMAIN z.files /\ f \in Entries /\ IsStrictPrefix(DirPath(d), Key(f))
    BY <1>7, InsideType
<1>10. /\ Slashes(Rest(d, f)) = {} => Key(f) = e.name
       /\ Slashes(Rest(d, f)) # {} => IsPrefix(Append(e.name, Slash), Key(f))
    <2>1. DirPath(d) \o ChildOf(d, f) = e.name
        BY <1>2, <1>7
    <2>2. /\ Slashes(Rest(d, f)) = {} => Key(f) = DirPath(d) \o ChildOf(d, f)
          /\ Slashes(Rest(d, f)) # {} => IsPrefix(Append(DirPath(d) \o ChildOf(d, f), Slash), Key(f))
        BY <1>3, <1>7, SeenKey
    <2> HIDE DEF f
    <2> QED BY <2>1, <2>2
<1>11. Has(z, Key(e)) /\ Has(z, Key(f)) /\ Key(e) = KeyOf(e.name, e.isDir)
    BY <1>9 DEF Tree, Listed, Key
<1>12. ~(Has(z, e.name) /\ HasDir(z, e.name))
    BY DEF Tree, Apart, Has
<1>13. (Slashes(Rest(d, f)) # {}) = e.isDir
    <2>1. ASSUME Slashes(Rest(d, f)) = {}, e.isDir PROVE FALSE
        <3>1. Has(z, e.name) /\ HasDir(z, e.name)
            BY <1>10, <1>11, <2>1 DEF KeyOf, HasDir
        <3> QED BY <1>12, <3>1
    <2>2. ASSUME Slashes(Rest(d, f)) # {}, ~e.isDir PROVE FALSE
        <3>1. Has(z, e.name)
            BY <1>11, <2>2 DEF KeyOf
        <3>2. IsPrefix(Append(e.name, Slash), Key(z.files[m]))
            BY <1>10, <2>2
        <3>3. HasDir(z, e.name)
            <4> HIDE DEF e
            <4> QED BY <1>1, <1>9, <3>2, UnderTree
        <3> QED BY <1>12, <3>1, <3>3
    <2> QED BY <1>1, <2>1, <2>2
<1>14. Seen(z, d, m) = [name |-> w, isDir |-> e.isDir]
    BY <1>7, <1>13 DEF Seen
<1> QED BY <1>8, <1>14 DEF w

(* The fs.FS view shows exactly the entries of the archive.                *)
THEOREM TheTreeIsListed == Spec => []FSListsTree
<1>1. ASSUME CatalogInv PROVE FSListsTree
    <2> SUFFICES ASSUME careful,
                        NEW d \in {Root} \cup {files[i].name : i \in {i \in DOMAIN files : files[i].isDir}}
                 PROVE  ReadDir(d) = {[name |-> Basename(f.name), isDir |-> f.isDir] :
                                        f \in {f \in ToSet(files) : Dirname(f.name) = d}}
        BY DEF FSListsTree
    <2>1. Typed(archive) /\ Sound(archive) /\ Tree(archive)
        BY <1>1 DEF CatalogInv, Shaped
    <2>2. d \in Seq(Chars)
        <3>1. CASE d = Root
            BY <3>1, EmptySeq DEF Root
        <3>2. CASE d # Root
            <4>1. PICK i \in DOMAIN files : d = files[i].name
                BY <3>2
            <4>2. archive.files[i].name \in Seq(Chars)
                BY <2>1, EntryType, ArchiveFields
            <4> QED BY <4>1, <4>2, ArchiveFields
        <3> QED BY <3>1, <3>2
    <2>3. ToSet(files) = {archive.files[i] : i \in DOMAIN archive.files}
        BY ArchiveFields DEF ToSet
    <2>4. ReadDir(d) = {Seen(archive, d, i) : i \in FirstChild(archive, d)}
        BY ReadDirIs
    <2> DEFINE There == {[name |-> Basename(f.name), isDir |-> f.isDir] :
                            f \in {f \in ToSet(files) : Dirname(f.name) = d}}
    <2>5. ASSUME NEW x \in ReadDir(d) PROVE x \in There
        <3>1. PICK i \in FirstChild(archive, d) : x = Seen(archive, d, i)
            BY <2>4
        <3>2. i \in Inside(archive, d)
            BY DEF FirstChild
        <3>3. PICK j \in DOMAIN archive.files :
                 /\ Dirname(archive.files[j].name) = d
                 /\ Seen(archive, d, i) = [name |-> Basename(archive.files[j].name),
                                           isDir |-> archive.files[j].isDir]
            BY <2>1, <2>2, <3>2, SeenIsThere
        <3> QED BY <2>3, <3>1, <3>3
    <2>6. ASSUME NEW x \in There PROVE x \in ReadDir(d)
        <3>1. PICK f \in ToSet(files) :
                  Dirname(f.name) = d /\ x = [name |-> Basename(f.name), isDir |-> f.isDir]
            OBVIOUS
        <3>2. PICK i \in DOMAIN archive.files : f = archive.files[i]
            BY <2>3
        <3>3. d = Dirname(archive.files[i].name)
            BY <3>1, <3>2
        <3>4. \E m \in FirstChild(archive, d) :
                 Seen(archive, d, m) = [name |-> Basename(archive.files[i].name),
                                        isDir |-> archive.files[i].isDir]
            BY <2>1, <3>3, ThereIsSeen
        <3> QED BY <2>4, <3>1, <3>2, <3>4
    <2> QED BY <2>5, <2>6
<1> QED BY <1>1, CatalogKept, PTL
----------------------------------------------------------------------------
(* The lock                                                                *)

Labels == {"idle", "read", "getFileEntry", "File", "found", "readConfig", "writeComment",
           "announced", "change", "changeConfig"}

LockTypeOK ==
    /\ pc \in [Callers -> Labels] /\ holds \in [Callers -> Nat]
    /\ writer \subseteq Callers /\ parked \subseteq Callers

(* The locks a caller holds at each label; a parked reader is short of one.*)
Holding(c) ==
    /\ c \in parked => pc[c] \in {"read", "getFileEntry", "File"}
    /\ pc[c] \in {"read", "getFileEntry", "found"} => holds[c] >= 1 \/ c \in parked
    /\ pc[c] = "File" => holds[c] >= 1 /\ (holds[c] >= 2 \/ c \in parked)

(* A call that has announced itself or changes is the one writer, and once *)
(* it changes no read lock is left.                                        *)
Alone(c) ==
    /\ pc[c] = "announced" \/ Writing(c) => writer = {c}
    /\ Writing(c) => \A d \in Callers : holds[d] = 0

LockInv == LockTypeOK /\ \A c \in Callers : Holding(c) /\ Alone(c)

(* Where somebody changes nobody has a lock to read by.                    *)
LEMMA NotBoth ==
    ASSUME LockInv, NEW c \in Callers, NEW d \in Callers, Writing(c)
    PROVE  ~Reading(d)
BY DEF LockInv, LockTypeOK, Holding, Alone, Reading, Writing

(* A step that moves a caller between labels without a lock.               *)
LEMMA SkipKept ==
    ASSUME LockInv, NEW c \in Callers, NEW label \in {"idle", "readConfig", "writeComment"},
           pc[c] \in {"idle", "readConfig", "writeComment"}, Skip(c, label)
    PROVE  LockInv'
BY DEF LockInv, LockTypeOK, Labels, Holding, Alone, Writing, Skip, Goto

(* A first read lock, or the second one of getFileEntry.                   *)
LEMMA RLockKept ==
    ASSUME LockInv, NEW c \in Callers, c \notin parked, NEW label,
           \/ pc[c] = "idle" /\ label \in {"read", "getFileEntry"}
           \/ pc[c] = "getFileEntry" /\ label = "File",
           RLock(c, label)
    PROVE  LockInv'
<1>1. label \in Labels /\ label \notin {"announced", "change", "changeConfig"}
    BY DEF Labels
<1>2. pc' = [pc EXCEPT ![c] = label] /\ writer' = writer
    BY DEF RLock, Goto
<1>3. ASSUME NEW d \in Callers PROVE Holding(d)
    BY <1>3 DEF LockInv
<1>4. CASE writer = {}
    <2>1. holds' = [holds EXCEPT ![c] = @ + 1] /\ parked' = parked
        BY <1>4 DEF RLock
    <2>2. \A d \in Callers : pc[d] # "announced" /\ ~Writing(d)
        BY <1>4 DEF LockInv, Alone
    <2>3. LockTypeOK'
        BY <1>1, <1>2, <2>1 DEF LockInv, LockTypeOK
    <2>4. ASSUME NEW d \in Callers PROVE Holding(d)' /\ Alone(d)'
        BY <1>1, <1>2, <1>3, <2>1, <2>2 DEF LockInv, LockTypeOK, Holding, Alone, Writing
    <2> QED BY <2>3, <2>4 DEF LockInv
<1>5. CASE writer # {}
    <2>1. holds' = holds /\ parked' = parked \cup {c}
        BY <1>5 DEF RLock
    <2>2. LockTypeOK'
        BY <1>1, <1>2, <2>1 DEF LockInv, LockTypeOK
    <2>3. ASSUME NEW d \in Callers PROVE Holding(d)' /\ Alone(d)'
        BY <1>1, <1>2, <1>3, <2>1 DEF LockInv, LockTypeOK, Holding, Alone, Writing
    <2> QED BY <2>2, <2>3 DEF LockInv
<1> QED BY <1>4, <1>5

(* A read lock is given back: nobody changes meanwhile, since one was held.*)
LEMMA RUnlockKept ==
    ASSUME LockInv, NEW c \in Callers, c \notin parked, NEW label,
           \/ pc[c] \in {"read", "found"} /\ label \in {"idle", "readConfig"}
           \/ pc[c] = "File" /\ label = "found",
           RUnlock(c, label)
    PROVE  LockInv'
<1>1. label \in Labels /\ label \notin {"announced", "change", "changeConfig"}
    BY DEF Labels
<1>2. /\ pc' = [pc EXCEPT ![c] = label] /\ writer' = writer /\ parked' = parked
      /\ holds' = [holds EXCEPT ![c] = @ - 1] /\ holds[c] \in Nat /\ holds[c] >= 1
    BY DEF LockInv, LockTypeOK, Holding, RUnlock, Goto
<1>3. \A d \in Callers : ~Writing(d)
    BY <1>2 DEF LockInv, Alone
<1>4. LockTypeOK'
    BY <1>1, <1>2 DEF LockInv, LockTypeOK
<1>5. ASSUME NEW d \in Callers PROVE Holding(d)' /\ Alone(d)'
    BY <1>1, <1>2, <1>3 DEF LockInv, LockTypeOK, Holding, Alone, Writing
<1> QED BY <1>4, <1>5 DEF LockInv

(* Only one writer announces itself at a time.                             *)
LEMMA AnnounceKept ==
    ASSUME LockInv, NEW c \in Callers, c \notin parked,
           pc[c] \in {"idle", "readConfig", "writeComment"}, Announce(c)
    PROVE  LockInv'
<1>1. /\ pc' = [pc EXCEPT ![c] = "announced"] /\ writer' = {c} /\ holds' = holds /\ parked' = parked
    BY DEF Announce, Goto
<1>2. \A d \in Callers : pc[d] # "announced" /\ ~Writing(d)
    BY DEF LockInv, Alone, Announce
<1>3. LockTypeOK'
    BY <1>1 DEF LockInv, LockTypeOK, Labels
<1>4. ASSUME NEW d \in Callers PROVE Holding(d)' /\ Alone(d)'
    BY <1>1, <1>2 DEF LockInv, LockTypeOK, Holding, Alone, Writing
<1> QED BY <1>3, <1>4 DEF LockInv

(* The writer waits for the readers inside.                                *)
LEMMA AcquireKept ==
    ASSUME LockInv, NEW c \in Callers, c \notin parked,
           NEW label \in {"change", "changeConfig"}, Acquire(c, label)
    PROVE  LockInv'
BY DEF LockInv, LockTypeOK, Labels, Holding, Alone, Writing, Acquire, Goto

(* The writer lets the parked readers in.                                  *)
LEMMA UnlockKept ==
    ASSUME LockInv, NEW c \in Callers, c \notin parked, Writing(c), Unlock(c)
    PROVE  LockInv'
<1>1. /\ pc' = [pc EXCEPT ![c] = "idle"] /\ writer' = {} /\ parked' = {}
      /\ holds' = [d \in Callers |-> IF d \in parked THEN holds[d] + 1 ELSE holds[d]]
    BY DEF Unlock, Goto
<1>2. \A d \in Callers \ {c} : pc[d] # "announced" /\ ~Writing(d)
    BY DEF LockInv, Alone
<1>3. LockTypeOK'
    BY <1>1 DEF LockInv, LockTypeOK, Labels
<1>4. ASSUME NEW d \in Callers PROVE Holding(d)' /\ Alone(d)'
    BY <1>1, <1>2 DEF LockInv, LockTypeOK, Holding, Alone, Writing
<1> QED BY <1>3, <1>4 DEF LockInv

(* One case for each kind of call.                                         *)
LEMMA RunKept == ASSUME LockInv, NEW c \in Callers, Run(c) PROVE LockInv'
<1>1. CASE Get(c)
    BY <1>1, RLockKept, RUnlockKept DEF Get, Step
<1>2. CASE GetFileEntry(c)
    BY <1>2, RLockKept, RUnlockKept DEF GetFileEntry, Step
<1>3. CASE AddEntry(c)
    BY <1>3, SkipKept, AnnounceKept, AcquireKept, UnlockKept DEF AddEntry, Step, Writing
<1>4. CASE Change(c)
    BY <1>4, AnnounceKept, AcquireKept, UnlockKept DEF Change, Step, Writing
<1>5. CASE Load(c)
    BY <1>5, SkipKept, AnnounceKept, AcquireKept, UnlockKept DEF Load, Step, Writing
<1>6. CASE WriteTo(c)
    BY <1>6, RLockKept, RUnlockKept, SkipKept DEF WriteTo, Step
<1> QED BY <1>1, <1>2, <1>3, <1>4, <1>5, <1>6 DEF Run

(* Whatever calls meet, and however many of each kind: nobody reads or     *)
(* changes files and lookup while somebody changes them.                   *)
THEOREM FilesAreGuarded == LockSpec => []FilesGuarded
<1>1. LockInit => LockInv
    BY DEF LockInit, LockInv, LockTypeOK, Labels, Holding, Alone, Writing
<1>2. LockInv /\ [LockNext]_(lockVars) => LockInv'
    <2>1. ASSUME LockInv, UNCHANGED lockVars PROVE LockInv'
        BY <2>1 DEF LockInv, LockTypeOK, Holding, Alone, Writing, lockVars
    <2> QED BY <2>1, RunKept DEF LockNext
<1>3. LockInv => FilesGuarded
    BY NotBoth DEF LockInv, Alone, FilesGuarded
<1> QED BY <1>1, <1>2, <1>3, PTL DEF LockSpec
=============================================================================
