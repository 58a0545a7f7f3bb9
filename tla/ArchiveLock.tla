---------------------------- MODULE ArchiveLock ----------------------------
(***************************************************************************)
(* How the calls on one Zip share its mutex, which "Guards files, lookup,  *)
(* and config" (zip.go).  The mutex is Go's sync.RWMutex: a writer first   *)
(* announces itself and then waits for the readers inside; a reader that   *)
(* comes after the announcement is parked until the writer unlocks, which  *)
(* lets every parked reader in.                                            *)
(*                                                                         *)
(* Calls differ in when they lock:                                         *)
(*   Getters  File, Files, Exists, Select, Glob, Find, Config, OpenFile,   *)
(*            ReadDir of an open directory: RLock around the access;       *)
(*   FSUsers  zipFS.Open, Stat, ReadFile, ReadDir: getFileEntry holds      *)
(*            RLock and calls Zip.File, which takes RLock again;           *)
(*   Adders   Add and everything that ends in addEntry: config is read     *)
(*            before Lock;                                                 *)
(*   Changers Remove, Rename, Move, SetConfig, Register...: Lock around    *)
(*            all of it;                                                   *)
(*   Loaders  LoadWithContext: config is read, and its Comment written if  *)
(*            it is empty, before Lock;                                    *)
(*   Writers  WriteTo: RLock around Select, config is read after it.       *)
(***************************************************************************)
EXTENDS Naturals, FiniteSets

CONSTANTS Getters, FSUsers, Adders, Changers, Loaders, Writers

Callers == Getters \cup FSUsers \cup Adders \cup Changers \cup Loaders \cup Writers

VARIABLES
    pc,       \* caller -> what it does
    holds,    \* caller -> the read locks it has
    writer,   \* the writer that has announced itself, if any: {} or {c}
    parked    \* the readers waiting for it to unlock
lockVars == <<pc, holds, writer, parked>>

LockInit ==
    /\ pc = [c \in Callers |-> "idle"]
    /\ holds = [c \in Callers |-> 0]
    /\ writer = {}
    /\ parked = {}

----------------------------------------------------------------------------
(* sync.RWMutex                                                            *)

Goto(c, label) == pc' = [pc EXCEPT ![c] = label]

\* c goes on at label once it has the read lock
RLock(c, label) ==
    /\ Goto(c, label)
    /\ IF writer = {}
       THEN holds' = [holds EXCEPT ![c] = @ + 1] /\ UNCHANGED parked
       ELSE parked' = parked \cup {c} /\ UNCHANGED holds
    /\ UNCHANGED writer

RUnlock(c, label) ==
    /\ Goto(c, label)
    /\ holds' = [holds EXCEPT ![c] = @ - 1]
    /\ UNCHANGED <<writer, parked>>

Announce(c) ==
    /\ writer = {}
    /\ writer' = {c}
    /\ Goto(c, "announced")
    /\ UNCHANGED <<holds, parked>>

Acquire(c, label) ==
    /\ pc[c] = "announced"
    /\ \A d \in Callers : holds[d] = 0
    /\ Goto(c, label)
    /\ UNCHANGED <<holds, writer, parked>>

Unlock(c) ==
    /\ Goto(c, "idle")
    /\ writer' = {}
    /\ holds' = [d \in Callers |-> IF d \in parked THEN holds[d] + 1 ELSE holds[d]]
    /\ parked' = {}

----------------------------------------------------------------------------
(* The calls                                                               *)

Step(c, from) == pc[c] = from /\ c \notin parked
Skip(c, label) == Goto(c, label) /\ UNCHANGED <<holds, writer, parked>>

\* mutant: files is read without the lock
GetUnlocked(c) ==
    \/ Step(c, "idle") /\ Skip(c, "read")
    \/ Step(c, "read") /\ Skip(c, "idle")

Get(c) ==
    \/ Step(c, "idle") /\ RLock(c, "read")
    \/ Step(c, "read") /\ RUnlock(c, "idle")

\* getFileEntry, and z.File within it
GetFileEntry(c) ==
    \/ Step(c, "idle") /\ RLock(c, "getFileEntry")
    \/ Step(c, "getFileEntry") /\ RLock(c, "File")
    \/ Step(c, "File") /\ RUnlock(c, "found")
    \/ Step(c, "found") /\ RUnlock(c, "idle")

AddEntry(c) ==
    \/ Step(c, "idle") /\ Skip(c, "readConfig")
    \/ Step(c, "readConfig") /\ Announce(c)
    \/ Step(c, "announced") /\ Acquire(c, "change")
    \/ Step(c, "change") /\ Unlock(c)

Change(c) ==
    \/ Step(c, "idle") /\ Announce(c)
    \/ Step(c, "announced") /\ Acquire(c, "changeConfig")
    \/ Step(c, "changeConfig") /\ Unlock(c)

\* mutant: returns without Unlock
LoadNoUnlock(c) ==
    \/ Step(c, "idle") /\ Announce(c)
    \/ Step(c, "announced") /\ Acquire(c, "change")
    \/ Step(c, "change") /\ (Unlock(c) \/ Skip(c, "idle"))

Load(c) ==
    \/ Step(c, "idle") /\ Skip(c, "readConfig")
    \/ Step(c, "readConfig") /\ Skip(c, "writeComment")
    \/ Step(c, "readConfig") /\ Announce(c)
    \/ Step(c, "writeComment") /\ Announce(c)
    \/ Step(c, "announced") /\ Acquire(c, "change")
    \/ Step(c, "change") /\ Unlock(c)

WriteTo(c) ==
    \/ Step(c, "idle") /\ RLock(c, "read")
    \/ Step(c, "read") /\ RUnlock(c, "readConfig")
    \/ Step(c, "readConfig") /\ Skip(c, "idle")

Run(c) ==
    \/ c \in Getters /\ Get(c)
    \/ c \in FSUsers /\ GetFileEntry(c)
    \/ c \in Adders /\ AddEntry(c)
    \/ c \in Changers /\ Change(c)
    \/ c \in Loaders /\ Load(c)
    \/ c \in Writers /\ WriteTo(c)

LockNext == \E c \in Callers : Run(c)

LockSpec == LockInit /\ [][LockNext]_lockVars

\* A call that can go on does.  Lock is strongly fair: sync.Mutex, on which
\* writers queue, hands itself over to a waiter that has waited too long.
FairSpec ==
    /\ LockSpec
    /\ \A c \in Callers : WF_lockVars(pc[c] # "idle" /\ Run(c))
    /\ \A c \in Callers : SF_lockVars(pc[c] # "idle" /\ Announce(c) /\ Run(c))

----------------------------------------------------------------------------
(* Properties                                                              *)

Reading(c) == pc[c] \in {"read", "getFileEntry", "File", "found"} /\ c \notin parked
Writing(c) == pc[c] \in {"change", "changeConfig"}

\* Nobody reads or changes files and lookup while somebody changes them.
FilesGuarded ==
    \A c, d \in Callers : c # d /\ Writing(c) => ~Reading(d) /\ ~Writing(d)

\* Zip "is concurrency-safe": every call comes back.
CallsReturn == \A c \in Callers : pc[c] # "idle" ~> pc[c] = "idle"

\* The second read lock of getFileEntry is never kept waiting.
NestedLockGranted == \A c \in parked : pc[c] # "File"

\* That is the only way in which calls may wait for each other: as long as no
\* writer announces itself between the two read locks of a call on the fs.FS
\* view, every call comes back.
CallsReturnUnlessNested == []NestedLockGranted => CallsReturn
=============================================================================
