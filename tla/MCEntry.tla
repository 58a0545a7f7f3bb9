------------------------------ MODULE MCEntry ------------------------------
(* Content of 40 bytes that compresses to 10 or 9.  Entries of other       *)
(* programs: compressed, with ZipCrypto and a data descriptor, with AES.   *)
EXTENDS Entry, TLC

ThePacked == 0 :> 10 @@ 9 :> 9

Made(m, e, p, byTime) ==
    LET b == [method |-> m, level |-> 0, enc |-> e, pwd |-> p,
              check |-> IF byTime THEN [of |-> "time", value |-> 0] ELSE [of |-> "crc", value |-> Size], plain |-> Size]
    IN [method |-> m, enc |-> e, dd |-> byTime, size |-> Size, csize |-> Length(b),
        crc |-> IF e = "AES256" THEN 0 ELSE Size, time |-> 0, body |-> b]
TheForeign ==
    {Made("Deflate", "NotEncrypted", "", FALSE), Made("Store", "ZipCrypto", "p", FALSE),
     Made("Deflate", "ZipCrypto", "p", TRUE), Made("Store", "AES256", "p", FALSE)}

TheSettings ==
    {[method |-> "Deflate", level |-> 9, enc |-> "NotEncrypted", pwd |-> ""],
     [method |-> "Store", level |-> 0, enc |-> "NotEncrypted", pwd |-> "p"],
     [method |-> "Deflate", level |-> 0, enc |-> "ZipCrypto", pwd |-> "p"],
     [method |-> "Deflate", level |-> 0, enc |-> "AES256", pwd |-> ""]}

=============================================================================
