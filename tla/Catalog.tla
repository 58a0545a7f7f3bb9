------------------------------ MODULE Catalog ------------------------------
(***************************************************************************)
(* The entries of an archive (zip.go, type Zip): the slice `files`, the    *)
(* map `lookup` from entry names to entries, and every operation that      *)
(* changes them: Add (and the Add... helpers and Mkdir that end in it),    *)
(* the merge of a loaded archive with its conflict actions, Remove, Rename *)
(* and Move.  Each runs under the write lock, so each is one action; a     *)
(* load is one action per loaded file, because a cancelled context may end *)
(* it after any of them (LoadWithContext).                                 *)
(*                                                                         *)
(* A name is a sequence of letters and of Slash.  Names are not opaque     *)
(* here: the code compares them with HasPrefix and CutPrefix, and "a" is a *)
(* prefix of the unrelated "ab".  Arguments are clean paths (what          *)
(* path.Clean yields), optionally with the trailing slash that             *)
(* normalizePath lets through.  lookup holds pointers: the position in     *)
(* files of the *File a name finds, or Dangling when it has left files.    *)
(* What the code does in a loop over files or over the elements of a path  *)
(* is said here of the set of positions the loop picks, and of the place   *)
(* each of them has in that set.                                           *)
(***************************************************************************)
EXTENDS Integers, Sequences, FiniteSets, SequencesExt, FiniteSetsExt

CONSTANTS
    Letters,           \* what names are made of, besides Slash
    Names,             \* the clean names callers and loaded archives use
    MaxStringLength,   \* longest name the ZIP format can hold
    MaxEntries         \* bound of the model: entries the archive may reach

Slash == "/"
Chars == Letters \cup {Slash}
Root == << >>          \* the code's "" and "."
Dangling == 0

\* what path.Clean and normalizePath make of a name: path elements with one
\* slash between them
IsClean(p) ==
    /\ p \in Seq(Chars) /\ p # Root /\ p[1] # Slash /\ p[Len(p)] # Slash
    /\ \A i \in 1 .. Len(p) - 1 : p[i] = Slash => p[i + 1] # Slash

ASSUME CatalogAssumption ==
    /\ \A n \in Names : IsClean(n)
    /\ MaxStringLength \in Nat
    /\ MaxEntries \in Nat

VARIABLES
    files, lookup,
    careful            \* no call so far was one of those in which zip.go does
                       \* not keep its promises (a history variable):
                       \*   a directory added that there is already,
                       \*   Remove with a trailing slash,
                       \*   Rename or Move while a name continues another one
                       \*   within the same path element, and
                       \*   a loaded directory named like a file or the reverse
vars == <<files, lookup, careful>>
archive == [files |-> files, lookup |-> lookup]

----------------------------------------------------------------------------
(* Names                                                                   *)

KeyOf(n, isDir) == IF isDir THEN Append(n, Slash) ELSE n
Key(f) == KeyOf(f.name, f.isDir)

Slashes(p) == {i \in DOMAIN p : p[i] = Slash}

\* path.Dir and path.Base of a clean path; Root stands for "."
Dirname(p) == IF Slashes(p) = {} THEN Root ELSE SubSeq(p, 1, Max(Slashes(p)) - 1)
Basename(p) == IF Slashes(p) = {} THEN p ELSE SubSeq(p, Max(Slashes(p)) + 1, Len(p))

\* path.Join
Join(d, n) == IF d = Root THEN n ELSE d \o <<Slash>> \o n

\* strings.TrimSuffix(p, "/")
TrimSlash(p) == IF p # Root /\ Last(p) = Slash THEN Front(p) ELSE p

\* the directories above p: what stands before each of its slashes
Above(p, i) == SubSeq(p, 1, i - 1)
Ancestors(p) == {Above(p, i) : i \in Slashes(p)}

\* the place of i in the set of positions S, and the position at a place
Rank(S, i) == Cardinality(S \cap 1 .. i)
Nth(S, j) == CHOOSE i \in S : Rank(S, i) = j

----------------------------------------------------------------------------
(* Pure helpers over an archive z = [files, lookup]                        *)

Has(z, key) == key \in DOMAIN z.lookup
HasDir(z, n) == Has(z, Append(n, Slash))

\* append a new *File and point its name at it
Insert(z, n, isDir, isImplicit) ==
    LET key == KeyOf(n, isDir) IN
    [files |-> Append(z.files, [name |-> n, isDir |-> isDir, isImplicit |-> isImplicit]),
     lookup |-> [k \in DOMAIN z.lookup \cup {key} |->
                     IF k = key THEN Len(z.files) + 1 ELSE z.lookup[k]]]

\* mutant: only the parent itself is looked at
MissingParent(z, p) ==
    {i \in Slashes(p) : Above(p, i) = Dirname(p) /\ ~HasDir(z, Dirname(p))}

\* createMissingDirs walks up from p, from slash to slash, until it meets a
\* directory that exists, and refuses p if it meets a file; then it adds what
\* was missing, outermost first
MissingDirs(z, p) ==
    {i \in Slashes(p) : \A j \in Slashes(p) : HasDir(z, Above(p, j)) => j < i}
ParentIsFile(z, p) == \E i \in MissingDirs(z, p) : Has(z, Above(p, i))
CreateMissingDirs(z, p) ==
    LET missing == MissingDirs(z, p)
        Dir(i) == [name |-> Above(p, i), isDir |-> TRUE, isImplicit |-> TRUE]
    IN [files |-> z.files \o [j \in 1 .. Cardinality(missing) |-> Dir(Nth(missing, j))],
        lookup |-> [k \in DOMAIN z.lookup \cup {Key(Dir(i)) : i \in missing} |->
                       IF Has(z, k) THEN z.lookup[k]
                       ELSE Len(z.files) + Rank(missing, Len(k))]]

\* a name that is free is added below its parents
AddUnder(z, n, isDir) ==
    IF ParentIsFile(z, n) THEN z ELSE Insert(CreateMissingDirs(z, n), n, isDir, FALSE)

\* the bound: z may still grow by what AddUnder adds
Room(z, n) == Len(z.files) + Cardinality(MissingDirs(z, n)) < MaxEntries

\* findEntry: the file of that name first, then the directory
Found(z, raw) == Has(z, raw) \/ HasDir(z, raw)
PositionOf(z, raw) == z.lookup[IF Has(z, raw) THEN raw ELSE Append(raw, Slash)]
FindEntry(z, raw) == z.files[PositionOf(z, raw)]

----------------------------------------------------------------------------
(* Rename and Move share atomicPathTransform                               *)

\* mutant: Contains instead of CutPrefix
HitAnywhere(f, e) ==
    \E i \in 0 .. Len(Key(e)) : IsPrefix(Key(f), SubSeq(Key(e), i + 1, Len(Key(e))))

Hit(f, e) == IsPrefix(Key(f), Key(e))
NewKey(f, newPath, e) ==
    KeyOf(newPath, f.isDir) \o SubSeq(Key(e), Len(Key(f)) + 1, Len(Key(e)))

\* checkPathTransform
TransformAllowed(z, f, newPath) ==
    /\ ~Has(z, newPath)
    /\ ~HasDir(z, newPath)
    /\ f.isDir => ~IsPrefix(Key(f), Append(newPath, Slash))
    /\ \A i \in DOMAIN z.files :
            Hit(f, z.files[i]) => Len(NewKey(f, newPath, z.files[i])) <= MaxStringLength

\* mutant: the keys of the children are not moved
ApplyToTarget(z, f, newPath) ==
    LET new(e) == [e EXCEPT !.name = TrimSlash(NewKey(f, newPath, e))]
    IN [files |-> [i \in DOMAIN z.files |->
                      IF Hit(f, z.files[i]) THEN new(z.files[i]) ELSE z.files[i]],
        lookup |-> [k \in (DOMAIN z.lookup \ {Key(f)}) \cup {Key(new(f))} |->
                      IF k = Key(new(f)) THEN z.lookup[Key(f)] ELSE z.lookup[k]]]

\* applyPathTransform: for each entry whose name starts with the old prefix,
\* in the order of files, the old key is deleted and the new one set; the
\* last of the entries that touch a key decides what becomes of it.
ApplyTransform(z, f, newPath) ==
    LET Hits == {i \in DOMAIN z.files : Hit(f, z.files[i])}
        New == [i \in Hits |->
                   [z.files[i] EXCEPT !.name = TrimSlash(NewKey(f, newPath, z.files[i]))]]
        Touch(k) == {i \in Hits : k = Key(z.files[i]) \/ k = Key(New[i])}
        Kept(k) == IF Touch(k) = {} THEN Has(z, k) ELSE k = Key(New[Max(Touch(k))])
    IN [files |-> [i \in DOMAIN z.files |-> IF i \in Hits THEN New[i] ELSE z.files[i]],
        lookup |-> [k \in {k \in DOMAIN z.lookup \cup {Key(New[i]) : i \in Hits} : Kept(k)}
                        |-> IF Touch(k) = {} THEN z.lookup[k] ELSE Max(Touch(k))]]

\* mutant: the parents are made before the check
DirsBeforeCheck(z, f, newPath) ==
    IF f.name = newPath \/ ParentIsFile(z, newPath) THEN z
    ELSE LET d == CreateMissingDirs(z, newPath)
         IN IF TransformAllowed(d, f, newPath) THEN ApplyTransform(d, f, newPath) ELSE d

\* atomicPathTransform
PathTransform(z, f, newPath) ==
    IF \/ f.name = newPath
       \/ ~TransformAllowed(z, f, newPath)
       \/ ParentIsFile(z, newPath)
    THEN z
    ELSE ApplyTransform(CreateMissingDirs(z, newPath), f, newPath)

RenamePath(f, newName) == Join(Dirname(f.name), newName)
MovePath(f, newDir) == Join(newDir, Basename(f.name))

----------------------------------------------------------------------------
(* Operations                                                              *)

Become(z) == files' = z.files /\ lookup' = z.lookup
Careful(condition) == careful' = (careful /\ condition)

\* neither a file nor a directory has this name
Absent(n) == ~Has(archive, n) /\ ~HasDir(archive, n)

\* a path element is only ever a prefix of a whole other element
NamesApart(z) ==
    \A f, g \in ToSet(z.files) :
        IsStrictPrefix(f.name, g.name) => g.name[Len(f.name) + 1] = Slash

Init == files = << >> /\ lookup = << >> /\ careful = TRUE

\* Add, AddFile, AddReader, ..., Mkdir: addEntry.  Only a file is refused
\* when its name is taken by a directory.
DuplicateEntry(z, n, isDir) == Has(z, n) \/ (~isDir /\ HasDir(z, n))

Add(n, isDir) ==
    /\ Room(archive, n)
    /\ Len(KeyOf(n, isDir)) <= MaxStringLength
    /\ ~DuplicateEntry(archive, n, isDir)
    /\ Become(AddUnder(archive, n, isDir))
    /\ Careful(Absent(n))

\* Remove("") and Remove("."): reset
Reset == Become([files |-> << >>, lookup |-> << >>]) /\ Careful(TRUE)

\* Remove(raw): the entries named raw or raw/ and those under raw/ leave files,
\* which is compacted, and their keys leave lookup
Removed(f, raw) == Key(f) = raw \/ IsPrefix(Append(raw, Slash), Key(f))

\* mutant: the keys of the children stay in lookup
RemoveKeepsKeys(z, raw) ==
    LET kept == {i \in DOMAIN z.files : ~Removed(z.files[i], raw)}
        Compacted(i) == IF i \in kept THEN Rank(kept, i) ELSE Dangling
    IN [files |-> [j \in 1 .. Cardinality(kept) |-> z.files[Nth(kept, j)]],
        lookup |-> [k \in DOMAIN z.lookup \ {raw, Append(raw, Slash)} |-> Compacted(z.lookup[k])]]

RemoveFrom(z, raw) ==
    LET kept == {i \in DOMAIN z.files : ~Removed(z.files[i], raw)}
        gone == {Key(z.files[i]) : i \in DOMAIN z.files \ kept}
        Compacted(i) == IF i \in kept THEN Rank(kept, i) ELSE Dangling
    IN [files |-> [j \in 1 .. Cardinality(kept) |-> z.files[Nth(kept, j)]],
        lookup |-> [k \in DOMAIN z.lookup \ gone |-> Compacted(z.lookup[k])]]

RemoveEntry(raw) == Become(RemoveFrom(archive, raw)) /\ Careful(Last(raw) # Slash)

\* the path Rename(raw, n) or Move(raw, n) asks for
TransformTo(op, f, n) == IF op = "rename" THEN RenamePath(f, n) ELSE MovePath(f, n)

Transform(op, raw, n) ==
    /\ Found(archive, raw)
    /\ LET f == FindEntry(archive, raw)
           newPath == TransformTo(op, f, n)
       IN /\ Len(files) + Cardinality(MissingDirs(archive, newPath)) <= MaxEntries
          /\ Become(PathTransform(archive, f, newPath))
          /\ Careful(NamesApart(CreateMissingDirs(archive, newPath)))

Rename(raw, newName) == raw # newName /\ Transform("rename", raw, newName)
Move(raw, newDir) == Transform("move", raw, newDir)

\* addLoadedFile, the name is free
LoadNew(n, isDir) ==
    /\ ~Has(archive, KeyOf(n, isDir))
    /\ Room(archive, n)
    /\ Become(AddUnder(archive, n, isDir))
    /\ Careful(Absent(n))

\* ActionReplace: replaceEntry puts the loaded *File in the slot of the old one
LoadReplace(n, isDir) ==
    LET key == KeyOf(n, isDir) IN
    /\ Has(archive, key)
    /\ files' = [files EXCEPT ![lookup[key]] =
                    [name |-> n, isDir |-> isDir, isImplicit |-> FALSE]]
    /\ UNCHANGED <<lookup, careful>>

\* ActionRename: parents of the new name are created before it is looked up
LoadRename(n, isDir, newName) ==
    /\ Has(archive, KeyOf(n, isDir))
    /\ Room(archive, newName)
    /\ ~ParentIsFile(archive, newName)
    /\ LET z == CreateMissingDirs(archive, newName)
       IN Become(IF Has(z, KeyOf(newName, isDir)) THEN z ELSE Insert(z, newName, isDir, FALSE))
    /\ Careful(~Has(archive, KeyOf(newName, ~isDir)))

Raw == Names \cup {Append(n, Slash) : n \in Names}
Simple == {n \in Names : Slashes(n) = {}}

Next ==
    \/ \E n \in Names, isDir \in BOOLEAN : Add(n, isDir)
    \/ Reset
    \/ \E raw \in Raw : RemoveEntry(raw)
    \/ \E raw \in Raw, newName \in Simple : Rename(raw, newName)
    \/ \E raw \in Raw, newDir \in Names \cup {Root} : Move(raw, newDir)
    \/ \E n \in Names, isDir \in BOOLEAN : LoadNew(n, isDir)
    \/ \E n \in Names, isDir \in BOOLEAN : LoadReplace(n, isDir)
    \/ \E n, newName \in Names, isDir \in BOOLEAN : LoadRename(n, isDir, newName)

Spec == Init /\ [][Next]_vars

----------------------------------------------------------------------------
(* The fs.FS view (zip_fs.go)                                              *)

\* mutant: no slash after the name of the directory
PrefixWithoutSlash(d) == d

\* the prefix of what lies in directory d
DirPath(d) == IF d = Root THEN Root ELSE Append(d, Slash)

\* fsDir.ReadDir(-1): the first path element of what remains of each name, and
\* whether it is a directory, as the first entry that has it tells
ReadDir(d) ==
    LET prefix == DirPath(d)
        Rel(i) == SubSeq(Key(files[i]), Len(prefix) + 1, Len(Key(files[i])))
        In == {i \in DOMAIN files : IsStrictPrefix(prefix, Key(files[i]))}
        Child(i) == IF Slashes(Rel(i)) = {} THEN Rel(i) ELSE SubSeq(Rel(i), 1, Min(Slashes(Rel(i))) - 1)
        First == {i \in In : \A j \in In : Child(j) = Child(i) => i <= j}
    IN {[name |-> Child(i), isDir |-> Slashes(Rel(i)) # {}] : i \in First}

----------------------------------------------------------------------------
(* Properties                                                              *)

\* lookup never points at a *File that has left files, nor at one that now has
\* another name, whatever the calls: through a stale pointer File, OpenFile and
\* the next Rename or Load would act on an entry that is not written.
LookupSound ==
    \A k \in DOMAIN lookup : lookup[k] \in DOMAIN files /\ Key(files[lookup[k]]) = k

\* Every entry of files is the one its name finds, so that no two have one name:
\* what WriteTo writes and what File, Exists, Rename and the duplicate checks
\* see are the same archive (addEntry "checks for duplicates").
FilesListed ==
    careful => \A i \in DOMAIN files :
        Has(archive, Key(files[i])) /\ lookup[Key(files[i])] = i

\* A directory entry exists above every entry (addEntry "ensures parent
\* directories exist") and no name is a file and a directory at once, after any
\* sequence of additions, removals and moves: the archive can be extracted.
TreeShaped ==
    careful =>
        /\ \A i \in DOMAIN files : \A d \in Ancestors(files[i].name) : HasDir(archive, d)
        /\ \A k \in DOMAIN lookup : ~HasDir(archive, k)

\* The fs.FS view shows the archive: ReadDir of a directory lists what is in it,
\* each entry once, as the file or the directory it is, and nothing else, so
\* that fs.WalkDir comes to every entry.
FSListsTree ==
    careful => \A d \in {Root} \cup {files[i].name : i \in {i \in DOMAIN files : files[i].isDir}} :
        ReadDir(d) = {[name |-> Basename(f.name), isDir |-> f.isDir] :
                        f \in {f \in ToSet(files) : Dirname(f.name) = d}}

\* Every Rename and Move the archive offers, with the archive it results in
Transforms ==
    {t \in [op : {"rename", "move"}, raw : Raw, n : Names \cup {Root}] :
        /\ Found(archive, t.raw)
        /\ t.op = "rename" => t.n \in Simple \ {t.raw}}
Target(t) == FindEntry(archive, t.raw)
Result(t) == PathTransform(archive, Target(t), TransformTo(t.op, Target(t), t.n))

\* Rename and Move change the entry they are given and, if it is a directory,
\* what is in it; every other entry stays as it was.
TransformScope ==
    careful /\ NamesApart(archive) => \A t \in Transforms :
        LET f == Target(t)
            after == Result(t).files
        IN \A i \in DOMAIN files :
            \/ after[i] = files[i]
            \/ files[i] = f
            \/ f.isDir /\ IsPrefix(Key(f), Key(files[i]))

\* Rename and Move are atomic: unless the entry itself gets its new name, the
\* archive is unchanged, down to the parent directories made on the way.
TransformAllOrNothing ==
    \A t \in Transforms :
        LET after == Result(t)
        IN after.files[PositionOf(archive, t.raw)] = Target(t) => after = archive
=============================================================================
