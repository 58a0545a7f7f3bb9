# A verification development for GoZip

GoZip is a Go library that reads, edits, writes and extracts ZIP archives, with
pools of goroutines for writing, verifying and extracting. This directory holds
TLA+ models of it, the TLC runs that check them on small instances, and proofs,
checked by TLAPS, of what matters most for instances of any size. `PROJECT.json`
is the index: the components, the runs, the source lines behind each definition,
the hazards each property is for, a mutant for each property, and what was found.

## The system

| Component | State | Operations | Works with |
|---|---|---|---|
| Catalog of entries (`zip.go`, type `Zip`) | `files` (a slice), `lookup` (name to entry) | `Add...`, `Mkdir`, `Remove`, `Rename`, `Move`, the merge in `Load` | every other component takes its entries from it |
| Lock of the archive (`zip.go`, `zip_fs.go`) | `mu`, and `config`, `factories`, `decompressors` it should guard | all public methods, the `fs.FS` view | user callbacks that run while it is held |
| File entry (`file.go`) | `config` (how to write), `srcConfig` (how it lies in its source), sizes and checksum | setters, `Open`, raw copies, what writing does to it | catalog, writer, reader |
| Entry writer (`writer.go`, `zipWriter`) | `headerOffset`, `centralDir` (a buffer that spills to disk), `entriesNum`, position of the destination | four ways to write an entry, descriptors, patches, central directory, end records | a destination that can seek or not |
| Parallel writer (`writer.go`, `parallelZipWriter`) | channels `tasks` and `results`, `pending`, `nextIndex`, pools of snapshots and buffers | dispatcher, workers, closer, collector | gives what is compressed to the entry writer |
| Records (`internal/headers.go`, `file.go`) | none | encode and decode headers, extra fields, end records | entry writer, reader |
| Reader (`reader.go`, `zipReader`) | none beyond the source | find the end record, read the central directory, open an entry | loads the catalog |
| Stream reader (`reader.go`, `StreamReader`) | position in the stream, current file, open reader | `Next`, `Scan`, `Open`, `OpenRaw`, `ExtractTo` | `Archiver` for sources without random access |
| Extraction (`zip.go`, `options.go`) | queue of files, global byte budget | sequential and parallel extraction, `secureWriter` | file system |
| Verification (`zip.go`) | queue of files, error channel | pool of workers | reader |
| Progress (`options.go`) | atomic counters | snapshots, callbacks | workers |
| Archiver (`archiver.go`) | life cycle of sources and sinks, pipe of `httpSink` | calls that open, load, write and close | all of the above |

What is hard to get right: the catalog keeps two structures and a tree in step
through operations that touch many entries and can fail in the middle; an entry
has a header, a body, perhaps a descriptor, and a record in the directory, made
at four moments that must tell the same; the two configurations of a file
decide whether its data is copied or encoded; a stream must be at the next
header whatever its caller did with the last entry; pools share objects while
results arrive in any order and failures and cancellation cut in anywhere; the
lock is a `RWMutex`, which is not reentrant; an upload is a pipe with a server at
the other end. `PROJECT.json`, "hazards", lists each such place at its line.

## The modules

| Module | Models | Checked by |
|---|---|---|
| `Records` | headers, extra fields and end records as cells and fields | with the two below |
| `ArchiveWriter` | `WriteToWithContext` and `zipWriter`, every write of which may fail | `Archive` |
| `ArchiveReader` | `zipReader`: from the end record to the content of an entry | `Archive` |
| `Archive` | both together: what a caller of `WriteTo` may count on | `archive`, `archive_zip64`, `ArchiveProofs` |
| `StreamReader` | reading front to back by a caller who does as he likes | `stream` |
| `Scan` | the backward search for the end record, the forward search for a descriptor | `scan`, `ScanProofs` |
| `Entry` | the life of one `File` through settings, writings and reloads | `entry`, `EntryProofs` |
| `Catalog` | the entries and every operation that changes them | `catalog`, `ZipProofs` |
| `ArchiveLock` | who locks the archive when, on Go's `sync.RWMutex` | `lock`, `ZipProofs` |
| `BulkWrite` | what a parallel write promises, without goroutines | `ParallelWriter` implements it |
| `ParallelWriter` | `parallelZipWriter.WriteFiles` with everything it calls | `writer_ordered`, `writer_performance`, `ParallelWriterProofs` |
| `Extraction` | `ExtractToWithContext`: both loops, `extractFile`, the budget | `extract`, `ExtractionProofs` |
| `Verification` | `VerifyWithContext`: the pool, its error channel, the counters | `verify`, `VerificationProofs` |
| `Archiver` | the calls of the facade, life cycle of sources and sinks, uploads | `archiver`, `ArchiverProofs` |

`MCArchive`, `MCCatalog`, ... hold the values of the constants for TLC; each run has
a `.cfg` of its name. The modules cut the system so that each interleaving is
explored where it matters: `ArchiveWriter` writes entries one by one with every
failure but knows nothing of goroutines, `ParallelWriter` has the goroutines but
not the bytes; `StreamReader` reads cell by cell, `Scan` has the searches in reads of
any size that lie beneath it; `Entry` has one file with everything that can
happen to it, `Catalog` many files of which only the names count.

### Records, ArchiveWriter, ArchiveReader and Archive

Sizes are counted in units; `Limit` stands for 0xFFFFFFFF and `MaxEntries` for
0xFFFF. An extra field is a sequence of cells of two 16-bit numbers, as a parser
that has lost its place reads values as tags. `SourceFiles` and `WriterAssumption` say
what files there are: an implicit file is a directory, an encoder writes
something even for no data, and what is copied raw was loaded from an archive
that tells the truth about it. The medium is a set of pieces with
a place and a length; writing over a part of a piece destroys it, so an offset
that is wrong or a patch in the wrong place is visible to the reader.

`WriteToWithContext` is the loop over the files: `WriteFile` with its best effort,
or the parallel path, in which the data is encoded beforehand and a failure ends
the writing. The four ways of `HowWritten` are those of `writer.go`: a directory; a
stream with a header that is patched (destination can seek) or a descriptor
(cannot); a temporary file first; compressed beforehand. `addCentralDirEntry`
fills the spill buffer (`Keep`), which moves to a temporary file at its threshold. The
move may break off (`MoveFails`) and lose what it had taken from memory; a write to
the file may break off (`FileWriteFails`) and leave a part of its entry in it. An
entry of `centralDir` carries its place in the buffer, and
`PutDirectory` copies all of them behind the archive's entries at once. `ArchiveReader` is a set of operators on the result, one for each
function of `zipReader`, and reads by what is on the medium alone.

`archive` writes archives of one to three files, each of 22 kinds (sizes below, at
and above the limit, data smaller and larger than its encoded form, empty,
of unknown or wrong size, encrypted in both ways, loaded, copied raw, with extra
fields, with a source that breaks) in front of a small one, so that a wrong
offset meets something that needs it, and `Limit` = 7 and `MaxEntries` = 2 let every
limit be met exactly and passed. `OffsetsTrue`: the offset for the next header is
where the destination is. `RoundTrip`: an archive that was finished lists what was
written without an error and reads it back. `NilMeansWhole`: without an error all
files are in it. `HeadersAgree`: local header, descriptor and directory tell the
same. The exceptions are named in `Archive`, each with its reason: a source that
breaks in the middle of a stream and a temporary file of the directory that fails
half way (`trouble`), `ExactLimits`, `Zip64Field`, and the two
kinds of empty files that `Sound` takes out. `archive_zip64` shows what the third
of them does.

Not modelled there: names, times, modes, version numbers; what a file's setters
do (that is `Entry`).

### Scan

`FindAndReadEOCD` steps block by block from the end to `Floor`, and on to the Zip64
locator; `Read` is a read of `signatureReader` of any length, on a `bufio.Reader` that
its source fills at any pace (`filled`). `FindsLastRecord`: the backward search
finds the last end record, and says there is none only if that is so.
`StopsAtSignature`: what has been handed out ends right before the first
signature. `SearchEnds`: the searches end with their answer. Files of up to 19
bytes against blocks of 5 with a signature of 2 put a signature and a record at
every place relative to the borders of the blocks; the proofs remove the bounds.

### StreamReader

A stream is a sequence of cells: signatures, headers, data, the frames of
encrypted data, numbers. The caller opens an entry or not, reads some of it
or all, raw or not, closes it or not, looks whether the stream is an archive,
scans for an entry, extracts one, or lets `ExtractTo` do it all, which may stop in
the middle and leave him the rest. `NextEntry` is `Next` with
everything it calls: `skipRemainingData`, the descriptor in each of its four
layouts, the header. `visited` is what `Next` returned, `claims` what a caller has
reason to trust. `NextFindsNext`: entries come in order, none lost or
invented. `ReadsContent`: what is read is the entry's content. `DamageTold`: a caller
who reads to the end and looks at the errors does not take damaged data for
good. The pairs of 27 kinds of entries, before them one of 6 damaged ones, have every
combination of a descriptor with known, unknown and stale sizes, and a second entry
that shows whether the first was left properly.

`trouble` records the uses with which the reader cannot cope, for which `Next` is
not promised anything: an entry whose `Open` was refused after its header of
encryption was consumed or its size overwritten ("refused"), `IsZipStream` on a reader without a buffer,
which keeps up to 4096 bytes ("sniffed"), an entry read raw, or its size overwritten by that ("raw"), and two sets
of entries. `OpenSpoils` ("opened"): stored data that is encrypted, whose length
`OpenRaw` takes for that of the plain data; AES, whose MAC a Deflate stream never
reads; a descriptor whose sizes are 64 bits wide without a Zip64 field that
announces it, or the reverse; sizes in the header that are stale; stored data
that has a descriptor, no size, and the descriptor's signature in it, or a descriptor
without one; encrypted data of unknown size, because `compress/flate` puts a buffer
before a reader that is no `*bufio.Reader` and takes bytes behind the data into it.
`SkipSpoils` ("skipped"): with a descriptor, data that holds its signature, a
descriptor without one, or one of unannounced width.

### Entry

`Add` or a load of an entry that this or another program wrote begins the life of
the `File`. `WithCompression`, `WithPassword`, `WithEncryption`, ... change its settings
at any time, also between the steps of a writing: the snapshot, the decision how
to write (`Choose`), the encoding, and what is written back to the `File`. A second
writing may follow, or the entry is loaded from what the first one left. `WellMade`
says that an entry's headers are those of its bytes; `EntryAssumption` asks it of the
entries other programs wrote, and the proof shows it of those this one writes.
`WrittenReadsBack` is the round trip of the content, `WrittenAsAsked` that no data is
published with another encryption or password than asked for (but see the file
that takes itself for empty, below),
`OpensUntilEncodedAnew` that settings do not change what `Open` reads. At most two
setters and two writings: enough to set, write, set between the steps, write
again and reload.

`excuse` names the cases in which the code does otherwise, all described below:
"overwritten" (a loaded file was encoded anew), "changed" (settings changed while
it was written), "spent" (the reader given to `AddReader` has been read), "no
password" (encryption without one is written and cannot be read), "foreign check"
(a raw copy of a ZipCrypto entry with a descriptor loses the bit its check byte
depends on).

### Catalog

`files` is the slice; `lookup` maps a name to the *position* of the `*File` it
points at, or to `Dangling` if that file has left the slice, so that a stale
pointer is visible. A name is a sequence of letters and slashes, because the
code compares names with `HasPrefix` and `CutPrefix`: model values would hide
that "a" is a prefix of "ab". `MissingDirs`, `CreateMissingDirs`, `TransformAllowed`,
`ApplyTransform`, `PathTransform` and `RemoveFrom` are pure operators over an
archive, one for each helper of the code, so that properties can speak of what a
call *would* do: `TransformAllOrNothing` and `TransformScope` quantify over every
`Rename` and `Move` the state offers. What the code does in a loop is said of the set
of positions the loop picks: the directories missing above a name are those
before some of its slashes, and the entries that `Remove` keeps are a set of
positions in `files`. `Rank` is the place of a position in such a set, and thereby in
what the loop builds of it, `Nth` the position at a place. `Letters` are what names
are made of, and `CatalogAssumption` asks that the names callers use are clean
(`IsClean`: what `path.Clean` yields).

Each operation runs under the write lock and is one action. A load is one action
per file, because a cancelled context ends it after any file; the conflict
actions that change nothing are stuttering. Arguments are clean paths, with or
without a trailing slash (`normalizePath` lets it through). `ReadDir` is what
`zip_fs.go` makes of the entries: it takes the directories from the names.

`LookupSound` and `TransformAllOrNothing` hold for every caller. The rest needs a
caller who is `careful`, and the variable tells at which call he was not: removing
a directory by its name with a slash, adding a directory that exists, loading a
directory where a file is or the reverse, renaming or moving an entry that
another one continues without a slash (`NamesApart`). Until then the archive is a
well-formed tree (`TreeShaped`), which has every entry once (`FilesListed`), and
the `fs.FS` view lists it (`FSListsTree`). Names over "a", "b", "ab" and "a/b" in at
most three entries, with room for five letters, have a directory with a child, a
sibling of which the name is a prefix, implicit parents, a rename refused for its
length and removal with re-addition, which every property needs.

### ArchiveLock

The kinds of calls (getters, users of `fs.FS`, adders, changers, loaders, writers)
differ in when they hold the lock and when they use `config` outside of it. The
mutex is modelled from the rules of `sync.RWMutex` (external code): a writer
announces itself (`writer` is empty or holds the one that has), waits for the readers
inside, and readers that come later are parked until it unlocks. `lock` has one caller of each kind. The code may
deadlock: the `fs.FS` view takes the read lock twice, and a writer may come in
between. So there is no check for deadlock; `CallsReturnUnlessNested` says that this
is the only way to wait for ever. `FilesGuarded` is proved.

### ParallelWriter and BulkWrite

One action for each step of a goroutine between two points where others can act:
`Dispatch` and `CloseTasks` (dispatcher), `CloseResults` (closer), `Take`, `Exit`,
`Open`, `Encode`, `Send` (workers), `Discard`, `WorkerFailed`, `Accept`, `HandleOK`,
`HandleFailed`, `Report`, `Return` (collector), `GiveUp` (the caller cancels). A
snapshot of the pool is an object that remembers the file it was last filled
for, and the collector writes what the snapshot says: this is what makes a wrong
`Put` visible. `sync.Pool.Get` returns any pooled object or a new one. Where a
`select` has two ready cases either may be taken. Any file may fail to open, to
encode or to be written; `Misjudged` are those whose size may turn out wrong.

`BulkWrite` has four variables and four actions: files appear once each, in order
if asked, with none left out in between unless something failed, and the call
returns with everything written, or an error, or a cancellation. Whether a writer
goes on after an error is left open, as the documentation and the code differ in it
(below). `ParallelWriter` maps to it through `Bulk`
(`failed` is "an error has been recorded", `returned` the collector's program
counter).

`writer_ordered` has 3 files, one of them empty and one misjudged, and 2 workers:
enough for two owners of a snapshot in every order, and for one file written,
one parked and one in a worker's hands. `writer_performance` has one worker and 5
files, so that worker, channel and collector can all be full and a file is left
to wait. `PipelineBound` is the bound that holds without an order to keep: 3 times
the workers plus 1 buffers; the doc of `WriteTo` promises twice the workers, and
in the ordered strategy nothing bounds `pending`. `BuffersFreed` holds without an
order to keep and without misjudged files.

### Extraction

The call's options are chosen in the initial state: one goroutine or a pool, and
the limits. `SkipEntry`, `ExtractEntry`, `EntryDone` and `LeaveLoop` are the
sequential loop, which lets one worker (`Caller`) do the steps of `extractFile`;
`Check`, `EndCheck`, `Dispatch`, `CloseTasks` and `Return` are the goroutine that
runs the pool, `Receive`, `Exit` and `Report` the workers. `extractFile` is `Begin`
(everything up to the copy) and then, block by block, `Reserve` (read, and the
atomic addition of `secureWriter.Write`), `Write`, or `GiveBack` for a block that was
refused, until `EndCopy`. A failing write leaves any part of its block on the
disk. A byte is an entry and a position, so `disk` is the exact set of bytes
written, and `Cardinality(disk)` is what `MaxTotalSize` limits. `Suspect` entries may
be refused, and calls may fail for `Faulty` ones.

`BudgetKept` and `NothingRefusedIfAllFits` are about the counter (the second: if what
is wanted of all files together is within the limit, nobody is refused), `ToldOkIsWhole`
relates what the caller hears to the disk, `NilMeansAll` that a call without an
error has dropped no entry. `extract` has six entries, two workers, blocks of one
or two bytes, and limits that some, all or none of the files fit in: a block that
takes the last of the budget, one that does not fit, overlapping refusals, a
cancelled queue that is still full.

### Verification

The caller hands files to workers over a channel without a buffer, so `Receive` is
one step of both. A worker drops a file it took after a cancellation (`Begin`),
or reads it block by block, reports a failure to the error channel (`Report`), and
then runs `OnFileDone`, which counts the file (`CountFile`, `CountError`), loads the
counters one after the other (`Load`) and calls the user (`Tell`). `ReadFails` and
`CloseFails` say what the readers notice, `Invisible` what they do not: data that
ends early, and a wrong plain text behind a MAC nobody reads. `NilMeansVerified`,
`ErrorsAreTold` (errors returned and callbacks agree, one for one) and `EventsTrue`
(the figures of the progress callback are never behind the worker's own files and
right at the end). Three files for two workers with five conditions of their data:
more failures than workers, a second file for a worker, a cancellation between
any two steps.

### Archiver

A call opens its sources one after the other (`OpenSource`), loads them (`Load`),
closes them (`CloseSource`) when its function is done, and writes to a sink in
between or afterwards (`CreateSink`, `WriteEntry`, `Finish`, `CloseSink`), in the
nesting the code has for `Merge`, `Clone`, `Transform`, `ArchiveFiles`, `UnzipFile` and
`UnzipToMap`. Entries are read when they are written: `Given` looks into what is
stored at that time, if the file is still open.

The same sources and sink serve several calls. A file by path is closed and opened
anew; a given file, and one behind `FromReaderAt`, which the kind "file" stands for
as well, stays open. A stream goes on where it was left: `spent` has the streams that
were read from, `ahead` the names a stream has not come past, and what a call meets
on a spent stream is any of these, or nothing, or an error (`Offers`, `Leave`). A
writer keeps what it has taken (`Behind`), and a writer that can be closed is closed
by the call (`Shut`). `Stat` of a file may fail, which ends the call in a panic and
leaves a file by path open ("left"). `dropped` are the names the output of `Transform`
refused, `skipped` says that its function returned `ErrSkip`.

An upload is a sink whose pipe the transport reads. A write puts something into the
pipe and waits until it has been taken or the reader is closed (`Waiting`, `ReadBody`,
`WriteFails`). Meanwhile the server may answer at any time, well or not, or go away
(`Answer`), the transport close the body (`BodyClosed`), and the goroutine send the
result and close the reader after a failure (`SendResult`, `CloseReader`).

`archiver` makes two calls with the same two sources (by path, open file or stream)
or an empty one, and one sink (a path, also that of a source, a writer that can be
closed or not, a URL): 335,695 states. Two calls are what it takes to meet whatever an
earlier call leaves behind. `NilMeansDelivered`, `ErrorsHaveACause`, `NothingLeftOpen`,
`DestinationKept` and `Termination` are its promises; the first two leave out what
their comments name and the list below describes, and each of these exceptions is
needed: without it TLC finds a call that breaks the property.

## Fairness

Nothing is assumed of callers, cancellation or failures. A goroutine that can run
is scheduled: weak fairness of the dispatcher, closer, collector and each worker
(`ParallelWriter`), of the caller and each worker (`Extraction`, `Verification`), of the
caller and the uploader (`Archiver`), of each call that has begun (`ArchiveLock`). System
calls come back. Of the environment of an upload three
things are assumed: the transport reads the body as long as there is no answer, the
server answers once it has been sent everything, and after the exchange the body is
closed, as `http.RoundTripper` has to. None of them helps a write once an answer has
come: then only the closing of the reader, by the goroutine or by the
transport, lets it go. The request of `httpSink` carries no context, so a server that
never answers holds `Close` for ever. `ArchiveLock` assumes
strong fairness for a writer that waits to announce itself: `sync.Mutex` hands
itself to a waiter that has waited too long. In `Scan` the caller of `signatureReader` reads
on and its source delivers.

## What is proved

Each proof module has one or two inductive invariants (`IInv`; `BInv`, `CInv`, `RInv` and
`WInv` where a part builds on the `IInv` before it; `CatalogInv` and `LockInv` in
`ZipProofs`), a lemma for each action that
could disturb them, and the theorems that follow. TLC has checked the invariants on
the instances first.

`ParallelWriterProofs`, for any number of files, any finite non-empty set of workers
and both strategies (`WriterAssumption`): `TypeCorrect`, `SnapshotsAreExclusive` and
`Implementation`, the refinement of `BulkWrite`. The properties are not inductive
by themselves. That a result in the channel owns its snapshot survives a worker's
`Take` only because the pool and the results on their way are disjoint (`Owned`)
and because a *new* snapshot is nobody's (snapshots are named by the file they
were allocated for, and only files already taken have one: `Known`). That two
results have different snapshots follows from their being about different files
(`Apart`) and each snapshot holding its file. For the refinement, `Turns` says that
`nextIndex` counts what is written and that the result whose turn it is is never
parked while the collector waits; `Failing` that after an error nothing is
handled, so a gap in the order has an error before it; and `Complete` that before any error or cancellation every file taken is
in a worker's hands, in the channel, parked or written. `ReturnIsComplete` then
shows that the collector cannot return with a parked result: the smallest missing
index would have to be somewhere, and the only place left is `pending`, which
does not hold it. `StepSimulates` maps each step to one of `BulkWrite` or to a
stuttering step.

The same module goes on from there to the buffers: `PipelineIsBounded` and, without
an order to keep and without misjudged files, `BuffersAreFreed`. `HeldIsCarried` says
that a buffer is held only by a result that is on its way and carries no error; so
the collector may drop a result with an error without a cleanup, as it does. The
bound counts the places a result can be in: without an order to keep none is
parked. At the return the workers are gone and the channel is empty, so there is
nobody left to hold one. With an order to keep the theorem is false, and so is the
property: the results parked at a failure are forgotten.

`ExtractionProofs`, for any entries, workers, options and block sizes
(`ExtractionAssumption`): `TypeCorrect` and `BudgetIsKept`. `BudgetKept` speaks of the
disk alone and is not inductive: a worker that has been granted its block writes
later, when the counter has moved on. The invariant keeps books on all bytes that
are on the disk or in a worker's hands (`Held`): they are pairwise different
(`Apart`), because the next block of an entry lies above all it gave before
(`Below`), and the counter is at least their number (`Counted`). A grant compares
the counter with the limit when the new block is already in it, so all that is
held fits then; a refused block never becomes a granted one (`Bounded`).
`GiveBack` takes from the counter exactly what leaves `Held`, and that is why the
counter stays positive; `Write` only moves bytes, or loses them.

`NothingIsRefused` is the other side of the budget. The sum of what the files want is
the size of a set of bytes, so no induction over the files is needed: the counter
is at most the number of bytes read (`Covered`, stated by `CounterIsCovered`), those
are among the bytes wanted (`Measured`), and a block just added to the counter has
just been read as well. Blocks that a failed write has lost, and that stay in the
counter for ever, have been read too.

`NilIsAll` and `OkIsWhole` are about what the call tells.
`Accounted` says that as long as nothing failed and nobody cancelled an entry that
was not reported is still ahead of the loop, the queue or a worker (or put off by
the first pass); `Drained` that a loop ends and a worker leaves only when there is
nothing left to take; `Alone` that a sequential extraction has no other workers. So
at the return nothing can be ahead. For `OkIsWhole`, a file is in one place at a
time (`Waiting`, `OneEach`), nothing of it is on the disk before a worker has it, and
while it is copied the bytes on the disk and in the worker's hands are exactly
those read so far (`Gapless`); an error ends the claim, and without one the copy
ends only when all is read.

`ScanProofs`, for files, streams, signatures, records, blocks, buffers and reads of
any size (`ScanAssumption`): `EndIsFound` and `DescriptorIsFound`. `Behind` says what
the backward search has ruled out: no record begins in what it has passed, save
in the overlap of the next block; that the overlap is one byte shorter than a
signature is just enough. `StopsAtSignature` and `ForwardOK` (what is given is in
the buffer) carry the forward search.

`VerificationProofs`, for any number of files and workers
(`VerificationAssumption`): `TypeCorrect`, `NilIsVerified`, `ErrorsAgree`,
`ErrorsFindRoom` and `EventsAreTrue`. A file is either in one hand (`Owner`, `Apart`) or
laid down (`Laid`), and what the channel and the callbacks say of it is settled in
each case; the errors in the channel are about different files (`Once`). So at the
return, where every worker is gone, a file in a hand is one that a cancellation
dropped, of which nobody has said anything. `Room` is a pigeon-hole: the errors
and the file of a worker about to report are different files, so there is room
for one more, and no worker waits for a caller who waits for it. For the events,
`Totals` says of which sets of files the shared counters are the sizes; they only
grow, so a counter that a worker loads while others count is at least the number of
its own files (`Seen`), whichever of the counters it has loaded before.

`ZipProofs`, for any letters, any clean names and any number of entries
(`CatalogAssumption`): `CatalogKept`, `LookupAlwaysSound`, `FilesAlwaysListed`,
`AlwaysTreeShaped`, `TransformsAreAtomic`, `TransformsKeepToScope` and `TheTreeIsListed`.
The inductive invariant `CatalogInv` says that every entry has a clean name (`Typed`)
and `lookup` finds entries by their names (`Sound`), whatever the calls; and that
after careful ones every entry is found (`Listed`), every directory above it is there
(`Parented`) and no name is a file and a directory (`Apart`). The last three need
each other: that `CreateMissingDirs` may stop at the first directory it finds
follows from `Parented` of that directory's entry, which `Listed` finds, and that nothing
lies below a file from `Parented` and `Apart`. One fact about names carries most of the
argument: `d` is an ancestor of `p` exactly if the key `d/` is a prefix
of the key of `p`, and keys determine entries. So `Remove` of a directory, which
goes by the prefix, leaves no entry without a parent.

`ApplyTransform` deletes and sets keys entry by entry, and what becomes of a key is
decided by the last entry that touches it. The proof shows that no key is touched
twice. A file that no name continues within its path element hits only itself; the
keys a directory's entries get lie under a path that was free, below which
therefore nothing was, and which is not in the directory itself; and one prefix
put in the place of another maps different keys to different keys. `TransformsAreAtomic`
and `LookupAlwaysSound` do without all this, as they hold for any caller.
`TheTreeIsListed` relates what `ReadDir` cuts out of names to `Dirname` and
`Basename`: what is seen in `d` is the base name of an entry whose parent is `d`, and
if it was seen through a deeper entry, of a directory above that, which `Parented`
provides.

The last section of `ZipProofs`, for any callers of each kind: `FilesAreGuarded`.
`Holding` counts the read locks a caller has at each of its steps, one less if it is
parked, and `Alone` says that a call that changes is the one announced writer and
that no read lock is left. It is what allows `Catalog` to make each operation one
step.

`ArchiveProofs`, for any files, options and limits and whatever fails
(`RecordsAssumption`, `WriterAssumption`): `TypeCorrect`, `OffsetsAreTrue`,
`HeadersDoAgree` and `NilIsWhole`. Between two entries `OffsetsTrue` is simple; within
one it is a question of how many bytes each of the four ways will still write, and
of what a header was made from that is on the medium already. `Settled` says
that the snapshot is that of the file being written and which of its fields stay as they
were, `Sizes` what is known of its lengths at each step, and `Position` that the
destination stands at its end, at `headerOffset`. `HeadersAgree` is about headers
written long ago, which a patch in the wrong place would destroy: `Headers` adds
that the local headers listed end before the one being written begins
(`ListedThere`), that this one lies where the snapshot says, and that it is the header
of the snapshot (before the body) or differs from it only in what the patch will
mend or the descriptor will tell (`CurrentThere`). So a patch, whose length is that of
the header, meets this header alone. `Headers` holds as long as no write to the
destination failed and no stream broke (`Clean`), a weaker condition than that of
`HeadersAgree`. It had to be: with the weaker condition it is an invariant of best
effort, whatever else fails. `Whole` counts which files are listed.

`EntryProofs`, for any contents, compressed lengths, passwords, settings and
foreign entries, and any number of setters and writings (`EntryAssumption`):
`TypeCorrect`, `ReadsBackAsWritten`, `EncryptedAsAsked` and `OpensAsBefore`. Instead of
"what is written reads back", the invariant says that the headers and the bytes of
what is written fit (`Outcome`, by `WellMade`): that survives a reload, behind which the
same holds of `origin` (`FromOrigin`), and a raw copy then writes what fits because what
it copies does. `Prepared` ties the snapshot, taken before the decision how to write,
to the `File` at each later step, unless a setter came in between; `Overwritten`
files are excused. That whatever is well made also reads back is a lemma about
`Reads` alone.

`ArchiverProofs`, for any archives, lists of sources, sinks and number of calls
(`ArchiverAssumption`): `TypeCorrect`, `ReturnsClosed`, `ErrorsAreCaused`,
`NilIsDelivered` and `DestinationIsKept`. `OnCourse` says which call comes to which step
with which source, `FilesInUse` that a file is open only for the source in use,
and `Uploading` ties the three ends of an upload together: a write waits only while
the sink is written or about to be closed, a reader that is closed has an answer, one
that is well can only follow the end of the pipe, and the channel has at most one
result, that of the answer. `Spending` keeps apart what an earlier call used up and
what this one does: until the stream is read, or the writer closed, whatever is spent
was so before (`again`), and a stream that is not spent still has all its entries.
For what is delivered, `Covers` says of the sources loaded so far that every name of
those that give all they have (`Complete`) is there, and that each name comes from the
last source that has it; `Settled` carries that into the writing, and `Written` splits
the entries into those that are in the destination with the right origin and those
in `todo`. `Early` says that nothing has been stored before the sink is created,
which is `DestinationKept` together with `NoErrorYet`: no call comes to that step
with an error.

## Only model-checked

Termination and the return of calls: liveness is out of the prover's reach.
`RoundTrip`, because the reader walks the directory and the extra fields with
recursive definitions, about which the provers can show nothing without induction over
data; what the directory is read from, `HeadersAgree` and `OffsetsTrue`, is proved.
`StreamReader`, whose operators go through streams and archives in the same way.
`SearchEnds` and `CallsReturnUnlessNested` are liveness too.

## Where the code and its documentation part

One run expects a violation: `archive_zip64` shows that a file that needs Zip64 does
not read back, because the size of its extra field in the central directory
counts four bytes too many. `PROJECT.json`, "findings", quotes the README that says
otherwise. The rest was met while modelling. Where a property leaves a case out,
it is one of these.

Writing:

- Exactly 0xFFFF entries, or a central directory at exactly 0xFFFFFFFF, put the
  marker of Zip64 in the end record without writing Zip64 records; loading fails
  (`writer.go` tests for more, `reader.go` for equal). `ExactLimits`.
- A source that fails in the middle, or has another size than declared, leaves
  `headerOffset` behind the destination when streaming, and all later entries
  cannot be found, although the writing is "best effort" (`writer.go:172`).
  `trouble`.
- In parallel, a file of unknown size that turns out empty is written without the
  bytes of its empty encoding (`writer.go:840`), and a file of declared size 0 is
  written empty, whatever its data. `Sound`.
- A loaded empty Deflate entry that is copied raw shifts what follows.
- A temporary file of the central directory that fails half way loses entries, and a
  failing write to it leaves a part of an entry before those that follow
  (`writer.go:988`, `1002`). `trouble`.
- With `WithWorkers` the first failure ends the writing: the collector cancels what
  is left and adds no file any more (`writer.go:691`). The doc of `WriteTo`
  (`zip.go:785`) says that files are processed by "best effort", and `src/README.md:30`
  that all errors are collected "instead of failing on the first file". So
  `BulkWrite` does not require that nothing is written after an error, and
  `ArchiveWriter` has both: the sequential writer goes on, the parallel one gives up.
- In the ordered strategy the results parked in `pending` are not freed after an
  error, and `compressFile` forgets the buffer of a file of the wrong size.
- `wrapErr` reads a snapshot that is back in the pool: the error may name another
  file (`writer.go:697`).
- `FillSnapshot` leaves the map of extra fields nil for loaded files that have some
  as bytes; AES or Zip64 then panics in `addCentralDirEntry` ("panicked").

One entry (`excuse`):

- Encoding a loaded file anew overwrites the sizes and the checksum that `Open` and
  raw copies need for its source (`writer.go:257`): a second `WriteTo` fails, or
  writes a header that does not fit, although `file.go` says of `WithEncryption` that
  it does not affect decompression.
- A file of size 0 gets the headers of an empty entry (`ResetEncodeOptions`: stored,
  not encrypted), but if it is copied raw its data is copied as it is. A loaded file
  whose sizes were overwritten, and whose size was made unknown, can be encoded anew
  to nothing; the next raw copy then has an encrypted or compressed body under the
  headers of a plain one. `WrittenAsAsked` leaves the case out; it takes more writings
  than the run makes, and the attempt to prove the property showed it.
- `config` is read without a lock while a file is written; a setter in between
  gives header and body of two configurations.
- A reader given to `AddReader` is spent after one writing; a second writes what
  is left and returns nil.
- Encryption without a password is written, and cannot be read.
- A raw copy of a ZipCrypto entry with a descriptor clears the bit by which its
  check byte is to be judged; `WithModTime` on such an entry has the same effect.
- AES entries store no checksum, and closing one that was read well reports a
  wrong one; `Verify` knows, other callers do not.

Reading, extracting, verifying:

- Data that ends early is neither an error of `Read` nor of `Close`: it is
  extracted and verified as if nothing were wrong (`reader.go:508`).
- A parallel extraction does not make the directories of its files
  (`zip.go:1009` says it does), and gives up the whole call in its first pass where
  the sequential one skips a file.
- After `IsZipStream` on a reader that is no `*bufio.Reader` a short archive has been
  swallowed, and `Next` returns `io.EOF` at once, as for an archive without entries
  ("sniffed").
- `StreamReader`: the uses and entries under `trouble` above, GoZip's own entries with
  AES among them: once one has been opened, the authentication code behind its
  Deflate stream is still unread, and `Next`, which "automatically discards the
  remaining bytes to reach the next header" (`reader.go:615`), takes it for a header
  and fails. `ExtractFile` does not
  look at the error of `Close`; closing an entry with a descriptor that was read to
  its end returns an error.
- The `fs.FS` view can deadlock with any writer; `Config` is read and `Comment`
  written outside the lock that "Guards files, lookup, and config".

Catalog:

- `Remove("logs/")` removes the directory's entry and leaves its contents
  (`zip.go:532`); `Rename` and `Move` of a file drag along entries whose names it
  begins (`zip.go:588`). Adding a directory that exists makes two entries of one
  name. `careful`.

Facade:

- `Merge` of `FromFilePath` reads entries of files it has closed, and always fails.
- A destination that is one of the sources is truncated before it is read.
- `UnzipToMap` of a source with random access returns after the first file. If none
  could be read, as in an archive without files, it goes on to read the same source as
  a stream, and an empty archive ends in `ErrFormat` (`archiver.go:878`).
- `FromStream` gives the same reader at each `Open` (`archiver.go:1188`), although
  implementations of `Source` "must support multiple reads" (`archiver.go:16`). A second
  `UnzipToMap` returns nil and an empty map, a second `UnzipFile` `ErrFileNotFound` or,
  if the stream was left in the middle, `ErrFormat`. `StreamAgain`.
- `ToWriter` gives the same writer at each `Create`: a second archive lands behind the
  first, with offsets that count from its own start, and does not open. `Behind`.
- `ToWriter` of an `io.Closer` closes the caller's writer (`archiver.go:1202`), which the
  doc of `ToWriter` does not say and that of `ToFile` excludes for files; later
  calls fail. `WriterAgain`.
- A `Stat` that fails after a successful open has no `FileInfo`: `stat.Size()` panics
  (`archiver.go:1144`) before `UseSource` has come to closing the source. The file stays
  open, and the next call with the source goes on with it.
- The errors of `Add` and `AddReader` are not looked at in `Transform`
  (`archiver.go:552`): an entry the output refuses is missing from it, and the call
  returns nil. `dropped`.
- "(nil, ErrSkip): delete the file" (`archiver.go:510`): there is no `ErrSkip`, and any
  error of the function ends `Transform` with that error (`archiver.go:546`). `skipped`.
- A failed write to `ToURL` closes the pipe like a finished one: the server may take
  a truncated archive for a whole one. Redirections count as success, an answer
  before the end of the upload is not looked at again.

## Not modelled

- `sort.go` compares sizes and times for the library's sort, `errors.go` has
  sentinel values, `encoding.go` tables, `utils.go` conversions of times and the text
  form of a tree: no state and no order of steps.
- Ciphers and codecs are transformations of bytes; what the models keep of them is
  their framing, what they can notice, and when they end.
- Host metadata (`internal/sys`) are system calls.
- Of the extraction: symbolic links, permissions and times (restored on a path
  relative to the working directory), the limit on the ratio, and the size limit in
  `secureWriter`, which is dead code.
- Of the facade: the calls that read a source and change nothing (`Walk`, `Search`,
  `Diff`, `Tree`, ...), range requests of `FromURL`, `SafePath`.
- Of the options: most set a field. `applyOptions` looks at the wrong value for
  `OnFileDone` (`zip.go:1718`), which a unit test shows.
- Callbacks run under the archive's lock and may not call the archive; the lock is
  not reentrant, so there is nothing to explore.

## What could come next

Proofs about `StreamReader`, as far as they do not need induction over streams; the
reading calls of the facade and the ranges of `FromURL`.
