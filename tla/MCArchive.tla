----------------------------- MODULE MCArchive -----------------------------
(* Files of every kind the writer tells apart, alone, and in pairs    *)
(* with a small one behind them, so that every limit is met and passed.    *)
EXTENDS Archive

Plain == [isDir |-> FALSE, implicit |-> FALSE, data |-> 1, declared |-> 1, bytes |-> 1, was |-> 0,
          method |-> Store, crypt |-> NotEncrypted, raw |-> FALSE, loaded |-> FALSE,
          extra |-> <<>>, precise |-> FALSE, breaks |-> FALSE]
Dir == [Plain EXCEPT !.isDir = TRUE, !.data = 0, !.declared = 0, !.bytes = 0]
Deflated(n, z) == [Plain EXCEPT !.data = n, !.declared = n, !.bytes = z, !.method = Deflate]
Loaded(s, was) == [s EXCEPT !.loaded = TRUE, !.raw = TRUE, !.was = was, !.bytes = was]
AnExtra == << <<7, 1>>, <<0, 0>> >>

TheSources ==
    { Plain, Dir, [Dir EXCEPT !.implicit = TRUE],
      [Plain EXCEPT !.data = 0, !.declared = 0, !.bytes = 0],
      [Plain EXCEPT !.declared = 2],
      [Plain EXCEPT !.declared = Unknown, !.precise = TRUE],
      [Plain EXCEPT !.declared = 0],
      Deflated(3, 2), Deflated(6, 7), Deflated(9, 8), Deflated(7, 9),
      [Deflated(3, 2) EXCEPT !.declared = Unknown],
      [Deflated(0, 1) EXCEPT !.declared = Unknown],
      [Deflated(3, 2) EXCEPT !.breaks = TRUE],
      [Deflated(3, 3) EXCEPT !.crypt = ZipCrypto],
      [Deflated(3, 4) EXCEPT !.crypt = AES256],
      [Deflated(3, 4) EXCEPT !.crypt = AES256, !.declared = Unknown, !.breaks = TRUE],
      Loaded(Deflated(3, 2), 2), Loaded(Deflated(0, 1), 1),
      [Loaded(Deflated(3, 2), 2) EXCEPT !.extra = AnExtra],
      [Loaded(Deflated(3, 3), 3) EXCEPT !.raw = FALSE, !.bytes = 2],
      [Loaded([Deflated(3, 4) EXCEPT !.crypt = AES256], 4) EXCEPT !.extra = EncodeAESExtraField(Deflate)] }

TheArchives == {<<a, b, Plain>> : a, b \in TheSources} \cup {<<a>> : a \in TheSources}
TheOptions == {o \in [seekable : BOOLEAN, parallel : BOOLEAN, implicitDirs : BOOLEAN] :
                    o.implicitDirs => o.seekable}
=============================================================================
