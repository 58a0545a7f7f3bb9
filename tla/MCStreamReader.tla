--------------------------- MODULE MCStreamReader ---------------------------
(* Pairs of entries of every kind that GoZip or another program writes:    *)
(* with and without data descriptors, sizes in the header known, unknown   *)
(* or stale, encrypted in both ways, damaged.                              *)
EXTENDS StreamReader

File == [isDir |-> FALSE, n |-> 2, method |-> Store, crypt |-> NotEncrypted, dd |-> FALSE,
         signed |-> TRUE, dd64 |-> FALSE, z64 |-> FALSE, uncomp |-> 2, comp |-> 2,
         odd |-> FALSE, damage |-> "none"]
Deflated == [File EXCEPT !.method = Deflate, !.comp = 3]
DD(e) == [e EXCEPT !.dd = TRUE]
Sizes(e, u, c) == [e EXCEPT !.uncomp = u, !.comp = c]

TheEntries ==
    { File, Deflated, [Sizes(File, 0, 0) EXCEPT !.isDir = TRUE, !.n = 0],
      DD(File), Sizes(DD(File), 0, 0), Sizes(DD(File), Limit, Limit),
      Sizes(DD(Deflated), 2, 0), Sizes(DD(Deflated), Limit, 0), Sizes(DD(Deflated), 2, 2),
      Sizes([DD(File) EXCEPT !.n = 0], 0, 0), [File EXCEPT !.odd = TRUE],
      [DD(File) EXCEPT !.odd = TRUE], [Sizes(DD(Deflated), 2, 0) EXCEPT !.odd = TRUE],
      [Sizes(DD(Deflated), 0, 0) EXCEPT !.signed = FALSE],
      [Sizes(DD(Deflated), Limit, 0) EXCEPT !.dd64 = TRUE],
      [Sizes(DD(Deflated), Limit, 0) EXCEPT !.dd64 = TRUE, !.z64 = TRUE],
      [Deflated EXCEPT !.crypt = ZipCrypto, !.comp = 4], [File EXCEPT !.crypt = ZipCrypto, !.comp = 3],
      Sizes([DD(File) EXCEPT !.signed = FALSE], 0, 0), [DD(File) EXCEPT !.signed = FALSE],
      [File EXCEPT !.n = 0, !.uncomp = 0, !.comp = 1, !.crypt = ZipCrypto],
      [File EXCEPT !.n = 0, !.uncomp = 0, !.comp = 2, !.crypt = AES256],
      [DD(Deflated) EXCEPT !.crypt = ZipCrypto, !.comp = 4],
      [Sizes(DD(Deflated), 2, 0) EXCEPT !.crypt = ZipCrypto],
      [Sizes(DD(File), 2, 0) EXCEPT !.crypt = ZipCrypto],
      [Deflated EXCEPT !.crypt = AES256, !.comp = 5], [File EXCEPT !.crypt = AES256, !.comp = 4] }
DamagedEntries ==
    { [e EXCEPT !.damage = d] : e \in {File, Deflated, DD(File), Sizes(DD(Deflated), 2, 0)}, d \in {"flip"} }
    \cup { [Deflated EXCEPT !.damage = "cut"], [File EXCEPT !.crypt = AES256, !.comp = 4, !.damage = "flip"] }

TheArchives == {<<a, b>> : a, b \in TheEntries} \cup {<<a, b, File>> : a \in DamagedEntries, b \in TheEntries}
                 \cup {<<b, a>> : a \in DamagedEntries, b \in {File, DD(File)}}
=============================================================================
