---------------------------- MODULE MCExtraction ----------------------------
(* Instances of Extraction for TLC: a directory with two files, one of a   *)
(* size that is not known, a file that may be over the limit, a file in a  *)
(* directory that is no entry, whose data falls short, and a file whose    *)
(* last block competes for the budget.                                     *)
EXTENDS Extraction

CONSTANTS w1, w2, root, dir, other

EntryFolders == <<dir, dir, dir, root, other, root>>
EntrySizes == <<0, 2, Unknown, 3, 2, 2>>
EntryData == <<0, 2, 1, 1, 1, 2>>
FolderSets == {{}, {root, other}}
Options ==
    {[parallel |-> p, maxTotalSize |-> t, maxFileSize |-> 0] : p \in BOOLEAN, t \in {3, 6}}
        \cup {[parallel |-> p, maxTotalSize |-> 0, maxFileSize |-> 2] : p \in BOOLEAN}
=============================================================================
