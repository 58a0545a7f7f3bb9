--------------------------- MODULE MCArchiveLock ---------------------------
(* Instances of ArchiveLock for TLC.                                       *)
EXTENDS ArchiveLock
=============================================================================
