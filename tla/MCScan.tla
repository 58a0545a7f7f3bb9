------------------------------- MODULE MCScan -------------------------------
(* Files and streams in which the signature 1, 2 lies at every place with  *)
(* respect to the blocks, is cut off, appears twice or not at all.         *)
EXTENDS Scan

TheSignature == <<1, 2>>
Fill(n) == [k \in 1 .. n |-> 0]
Record(comment) == <<1, 2, 0, comment>>
Comments(n) == {Fill(n)} \cup {Fill(a) \o t \o Fill(n - a - Len(t)) :
                    <<a, t>> \in {<<a, t>> \in (0 .. n) \X {<<1>>, <<1, 2>>, <<1, 2, 0, 0>>, <<1, 2, 0, 1>>} :
                                    a + Len(t) <= n}}
TheFiles ==
    { Fill(n) : n \in 0 .. 14 }
    \cup UNION { { Fill(n) \o Record(m) \o c : c \in Comments(m) } : n \in 0 .. 6, m \in 0 .. 8 }
    \cup { Fill(n) \o Record(9) \o Fill(9) : n \in 0 .. 3 }
    \cup { Record(0) \o Fill(n) \o Record(m) \o Fill(m) : n \in 0 .. 3, m \in 0 .. 8 }
TheStreams ==
    { Fill(a) \o t \o Fill(b) : a \in 0 .. 9, b \in 0 .. 2, t \in {<<>>, <<1>>, <<1, 2>>, <<1, 1, 2>>, <<1, 2, 0, 1, 2>>} }
=============================================================================
