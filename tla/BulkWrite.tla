----------------------------- MODULE BulkWrite -----------------------------
(***************************************************************************)
(* What a parallel write promises, without goroutines: files appear in the *)
(* archive one at a time and at most once, in the given order if the order *)
(* is to be kept, a file missing in between only after an error; and the   *)
(* call comes back either with every file written, or with an error, or    *)
(* because its context was cancelled.  Never does it come back with a file *)
(* missing and nobody told.  After an error a writer may go on with the    *)
(* other files, as "best effort" would have it, or give up.                *)
(***************************************************************************)
EXTENDS Naturals, Sequences

CONSTANTS N,        \* number of files
          InOrder   \* is the order of the files kept (StrategyOrdered)?

VARIABLES written,    \* the files in the archive
          failed,     \* has an error been recorded?
          cancelled,  \* was the caller's context cancelled?
          returned    \* has the call come back?
vars == <<written, failed, cancelled, returned>>

InArchive(f) == \E i \in 1 .. Len(written) : written[i] = f

Init == written = << >> /\ failed = FALSE /\ cancelled = FALSE /\ returned = FALSE

Write(f) ==
    /\ ~returned /\ ~InArchive(f)
    /\ InOrder => \A i \in 1 .. Len(written) : written[i] < f
    /\ InOrder => f = Len(written) + 1 \/ failed
    /\ written' = Append(written, f)
    /\ UNCHANGED <<failed, cancelled, returned>>

Fail ==
    /\ ~returned
    /\ failed' = TRUE
    /\ UNCHANGED <<written, cancelled, returned>>

Cancel == cancelled' = TRUE /\ UNCHANGED <<written, failed, returned>>

Return ==
    /\ failed \/ cancelled \/ \A f \in 1 .. N : InArchive(f)
    /\ returned' = TRUE
    /\ UNCHANGED <<written, failed, cancelled>>

Next == (\E f \in 1 .. N : Write(f)) \/ Fail \/ Cancel \/ Return

Spec == Init /\ [][Next]_vars
=============================================================================
