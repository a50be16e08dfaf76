---------------------------- MODULE BridgeStore ----------------------------
(***************************************************************************)
(* The store of artifact_bridge/store.py: mirrors of versions of an        *)
(* artifact, each a directory of files with a manifest (artifact.lock.json) *)
(* that names them.  Writers make a bundle or extend it, in the directory  *)
(* "outer" or in "inner", which lies in it, at once, and fail or die at    *)
(* any point.  They lock the directory above the bundle and the bundle.    *)
(*                                                                         *)
(* A lock belongs to a directory, not to its path: a directory that was    *)
(* removed is still locked by whoever waited for it.                       *)
(*                                                                         *)
(* A version has one representation here, and so one file.  Nobody else    *)
(* touches the directories.  What the store checks and finds wrong is one  *)
(* of the ways to fail.                                                    *)
(***************************************************************************)
EXTENDS Integers, FiniteSets

CONSTANTS
    Writer,         \* processes that mirror
    Nobody,
    Version,        \* versions of the artifact
    Content,        \* what a fetch may bring for one
    Fetch,          \* what calls have fetched: versions, each with its content
    MaxDirectories  \* bound: directories that are made

ASSUME WriterAssumption == Nobody \notin Writer
ASSUME DirectoryAssumption == MaxDirectories \in Nat \ {0}

Path == {"outer", "inner"}
Directory == 0 .. MaxDirectories  \* 0 is the one above outer, and no other is there at first

VARIABLES
    at,        \* at[d]: the directory at path d, or 0
    made,      \* directories made so far
    files,     \* files[d]: the representations there, a version and its content
    temps,     \* temps[d]: the writers of temporary files there
    manifest,  \* manifest[d]: what the manifest names; none is empty
    mirrored,  \* mirrored[d]: what calls that have returned mirrored
    holder,    \* holder[i]: who has locked directory i
    writer,    \* writer[w]: what w is doing
    died,      \* some writer was killed
    astray     \* some writer went on below a directory that was not there any more

tree == <<at, made, files, temps, manifest, mirrored, astray>>
vars == <<tree, holder, writer, died>>

Entry == Version \X Content

\* No version is there twice.
exact(entries) == \A x, y \in entries : x[1] = y[1] => x = y

ASSUME FetchAssumption == \A f \in Fetch : f \subseteq Entry /\ f # {} /\ exact(f)

Step == {"idle", "locking", "making", "entering", "claiming", "claimed", "opening",
         "loading", "filling", "temporary", "linked", "sealing", "replacing", "sealed", "rolling"}

\* new: w made the directory of its bundle; base: the manifest it extends.
State == [step : Step, path : Path, fetched : SUBSET Entry, waits : Directory, new : BOOLEAN,
          base : SUBSET Entry, pending : SUBSET Entry, created : SUBSET Entry]

Idle == [step |-> "idle", path |-> "outer", fetched |-> {}, waits |-> 0, new |-> FALSE,
         base |-> {}, pending |-> {}, created |-> {}]

Init ==
    /\ at = [d \in Path |-> 0] /\ made = 0
    /\ files = [d \in Path |-> {}] /\ temps = [d \in Path |-> {}]
    /\ manifest = [d \in Path |-> {}] /\ mirrored = [d \in Path |-> {}]
    /\ holder = [i \in Directory |-> Nobody]
    /\ writer = [w \in Writer |-> Idle]
    /\ died = FALSE /\ astray = FALSE

-----------------------------------------------------------------------------
(* What a writer finds.                                                    *)

\* Mutant of insideBundle: it is looked at before the directory is locked only.
insideBundle_Early(s) == s.step = "idle" /\ s.path = "inner" /\ manifest["outer"] # {}

\* The bundle would lie in another.
insideBundle(s) == s.path = "inner" /\ manifest["outer"] # {}

empty(d) ==
    /\ files[d] = {} /\ temps[d] = {} /\ manifest[d] = {}
    /\ d = "outer" => at["inner"] = 0

tracked(d, entries) == entries \subseteq files[d]

\* Mutant of untracked: only the files at the top are looked at.
untracked_Flat(d, entries) == ~ files[d] \subseteq entries \/ temps[d] # {}

\* There is a file that the manifest does not name, at any depth.
untracked(d, entries) ==
    \/ ~ files[d] \subseteq entries \/ temps[d] # {}
    \/ d = "outer" /\ files["inner"] \cup temps["inner"] \cup manifest["inner"] # {}

verified(d, entries) == tracked(d, entries) /\ ~ untracked(d, entries)

\* What the manifest is going to name.
merged(s) == s.base \cup s.fetched

-----------------------------------------------------------------------------
(* Locks.                                                                  *)

\* Mutant of free: the lock is not waited for.
free_Always(i) == TRUE

free(i) == holder[i] = Nobody

\* w changes what is in the directory it made or opened.
Works(w) == writer[w].step \in {"filling", "temporary", "linked", "sealing", "replacing",
                               "sealed", "rolling"}

Goes(w, step) == writer' = [writer EXCEPT ![w].step = step]

Release(w) == holder' = [i \in Directory |-> IF holder[i] = w THEN Nobody ELSE holder[i]]

Ends(w) ==
    /\ writer' = [writer EXCEPT ![w] = Idle]
    /\ Release(w)

\* A call begins: the nearest directory above the bundle is opened, to be locked.
Mirror(w) ==
    /\ writer[w].step = "idle"
    /\ \E d \in Path, f \in Fetch :
          LET s == [Idle EXCEPT !.path = d, !.fetched = f,
                                !.waits = IF d = "inner" THEN at["outer"] ELSE 0]
          IN /\ ~ insideBundle(s)
             /\ writer' = [writer EXCEPT ![w] = [s EXCEPT !.step = "locking"]]
    /\ UNCHANGED <<tree, holder, died>>

\* The lock is taken, and the directories above looked at again.
LockParent(w) ==
    LET s == writer[w]
    IN /\ s.step = "locking" /\ free(s.waits)
       /\ IF insideBundle(s) THEN Ends(w)
          ELSE /\ holder' = [holder EXCEPT ![s.waits] = w]
               /\ Goes(w, IF s.path = "inner" /\ s.waits = 0 THEN "making" ELSE "entering")
       /\ UNCHANGED <<tree, died>>

\* A directory that is missing is made, and locked as well.
MakeParent(w) ==
    /\ writer[w].step = "making"
    /\ IF at["outer"] = 0
       THEN /\ made < MaxDirectories
            /\ made' = made + 1
            /\ at' = [at EXCEPT !["outer"] = made']
       ELSE UNCHANGED <<at, made>>
    /\ writer' = [writer EXCEPT ![w].step = "locking", ![w].waits = at'["outer"]]
    /\ UNCHANGED <<files, temps, manifest, mirrored, astray, holder, died>>

\* The directories above are looked at again, and where the bundle's own is.  The
\* one above may have been removed, and made again, before w had its lock.
Enter(w) ==
    LET s == writer[w]
        d == s.path
    IN /\ s.step = "entering"
       /\ IF insideBundle(s) THEN Ends(w) /\ UNCHANGED astray
          ELSE /\ writer' = [writer EXCEPT ![w] =
                      IF at[d] # 0 THEN [s EXCEPT !.step = "opening", !.waits = at[d]]
                                   ELSE [s EXCEPT !.step = "claiming"]]
               /\ astray' = (astray \/ (d = "inner" /\ at["outer"] # s.waits))
               /\ UNCHANGED holder
       /\ UNCHANGED <<at, made, files, temps, manifest, mirrored, died>>

\* A directory that was removed above the bundle is made, without a lock, once.
MakeAbove(w) ==
    /\ writer[w].step = "claiming" /\ writer[w].path = "inner" /\ at["outer"] = 0
    /\ made < MaxDirectories
    /\ made' = made + 1
    /\ at' = [at EXCEPT !["outer"] = made']
    /\ Goes(w, "claimed")
    /\ UNCHANGED <<files, temps, manifest, mirrored, astray, holder, died>>

\* The bundle's directory is made.
Claim(w) ==
    LET s == writer[w]
        d == s.path
    IN /\ s.step \in {"claiming", "claimed"}
       /\ at[d] = 0 /\ (d = "inner" => at["outer"] # 0)
       /\ made < MaxDirectories
       /\ made' = made + 1
       /\ at' = [at EXCEPT ![d] = made']
       /\ writer' = [writer EXCEPT ![w] =
                        [s EXCEPT !.step = "opening", !.waits = made', !.new = TRUE,
                                  !.pending = s.fetched]]
       /\ UNCHANGED <<files, temps, manifest, mirrored, astray, holder, died>>

LockRoot(w) ==
    LET s == writer[w]
    IN /\ s.step = "opening" /\ free(s.waits)
       /\ holder' = [holder EXCEPT ![s.waits] = w]
       /\ Goes(w, IF s.new THEN "filling" ELSE "loading")
       /\ UNCHANGED <<tree, died>>

\* A bundle that is extended is intact, and differs in no version.
Load(w) ==
    LET s == writer[w]
        d == s.path
    IN /\ s.step = "loading" /\ at[d] = s.waits
       /\ IF manifest[d] = {} THEN empty(d) ELSE verified(d, manifest[d])
       /\ exact(manifest[d] \cup s.fetched)
       /\ writer' = [writer EXCEPT ![w] =
                        [s EXCEPT !.step = "filling", !.base = manifest[d],
                                  !.pending = s.fetched \ manifest[d]]]
       /\ UNCHANGED <<tree, holder, died>>

-----------------------------------------------------------------------------
(* Files, and the manifest behind them.                                    *)

Writes(w, d) == temps' = [temps EXCEPT ![d] = @ \cup {w}]

Clears(w, d) == temps' = [temps EXCEPT ![d] = @ \ {w}]

\* A file is written under another name, then linked, then the name dropped.
WriteFile(w) ==
    /\ writer[w].step = "filling" /\ writer[w].pending # {}
    /\ Writes(w, writer[w].path)
    /\ Goes(w, "temporary")
    /\ UNCHANGED <<at, made, files, manifest, mirrored, astray, holder, died>>

LinkFile(w) ==
    LET s == writer[w]
        d == s.path
    IN /\ s.step = "temporary"
       /\ \E e \in s.pending :
             /\ e[1] \notin {f[1] : f \in files[d]}
             /\ files' = [files EXCEPT ![d] = @ \cup {e}]
             /\ writer' = [writer EXCEPT ![w].step = "linked", ![w].pending = @ \ {e},
                                         ![w].created = @ \cup {e}]
       /\ UNCHANGED <<at, made, temps, manifest, mirrored, astray, holder, died>>

DropName(w) ==
    /\ writer[w].step = "linked"
    /\ Clears(w, writer[w].path)
    /\ Goes(w, "filling")
    /\ UNCHANGED <<at, made, files, manifest, mirrored, astray, holder, died>>

\* Mutant of complete: the files that are still to come are forgotten.
complete_Early(s) == ~ untracked(s.path, merged(s))

\* Everything the manifest is going to name is there, and nothing else.
complete(s) == s.pending = {} /\ verified(s.path, merged(s))

WriteManifest(w) ==
    LET s == writer[w]
    IN /\ s.step = "filling" /\ complete(s)
       /\ Writes(w, s.path)
       /\ Goes(w, IF s.base = {} THEN "sealing" ELSE "replacing")
       /\ UNCHANGED <<at, made, files, manifest, mirrored, astray, holder, died>>

\* A first manifest is linked like any file.
LinkManifest(w) ==
    LET s == writer[w]
        d == s.path
    IN /\ s.step = "sealing" /\ manifest[d] = {}
       /\ manifest' = [manifest EXCEPT ![d] = merged(s)]
       /\ Goes(w, "sealed")
       /\ UNCHANGED <<at, made, files, temps, mirrored, astray, holder, died>>

\* Another replaces the one that was read.
ReplaceManifest(w) ==
    LET s == writer[w]
        d == s.path
    IN /\ s.step = "replacing" /\ manifest[d] = s.base
       /\ manifest' = [manifest EXCEPT ![d] = merged(s)]
       /\ mirrored' = [mirrored EXCEPT ![d] = merged(s)]
       /\ Clears(w, d)
       /\ Ends(w)
       /\ UNCHANGED <<at, made, files, astray, died>>

Finish(w) ==
    LET s == writer[w]
    IN /\ s.step = "sealed"
       /\ mirrored' = [mirrored EXCEPT ![s.path] = merged(s)]
       /\ Clears(w, s.path)
       /\ Ends(w)
       /\ UNCHANGED <<at, made, files, manifest, astray, died>>

-----------------------------------------------------------------------------
(* Failures.                                                               *)

\* A check or a call of the system fails.  A name that cannot be dropped takes
\* what was linked with it.
Fail(w) ==
    LET s == writer[w]
        d == s.path
    IN /\ \/ /\ s.step \in {"locking", "making", "entering", "claiming", "claimed", "opening",
                             "loading"}
             /\ Ends(w)
             /\ UNCHANGED <<temps, manifest>>
          \/ /\ s.step # "rolling" /\ Works(w)
             /\ Clears(w, d)
             /\ manifest' = IF s.step = "sealed" THEN [manifest EXCEPT ![d] = {}] ELSE manifest
             /\ Goes(w, "rolling")
             /\ UNCHANGED holder
       /\ UNCHANGED <<at, made, files, mirrored, astray, died>>

\* Mutant of undo: only a new bundle is taken back.
undo_New(s) == IF s.new THEN s.created ELSE {}

\* The files that are taken back.
undo(s) == s.created

RollBack(w) ==
    LET s == writer[w]
    IN /\ s.step = "rolling" /\ undo(s) # {}
       /\ \E e \in undo(s) :
             /\ files' = [files EXCEPT ![s.path] = @ \ {e}]
             /\ writer' = [writer EXCEPT ![w].created = @ \ {e}]
       /\ UNCHANGED <<at, made, temps, manifest, mirrored, astray, holder, died>>

\* A directory that was made for the bundle goes, if it is empty.
GiveUp(w) ==
    LET s == writer[w]
        goes == s.new /\ empty(s.path)
    IN /\ s.step = "rolling" /\ undo(s) = {}
       /\ at' = IF goes THEN [at EXCEPT ![s.path] = 0] ELSE at
       /\ Ends(w)
       /\ UNCHANGED <<made, files, temps, manifest, mirrored, astray, died>>

\* w is killed, or interrupted: nothing is taken back, and its locks go.
Die(w) ==
    /\ writer[w].step # "idle"
    /\ Ends(w)
    /\ died' = TRUE
    /\ UNCHANGED tree

Next ==
    \E w \in Writer :
        \/ Mirror(w) \/ LockParent(w) \/ MakeParent(w) \/ Enter(w) \/ MakeAbove(w) \/ Claim(w)
        \/ LockRoot(w) \/ Load(w)
        \/ WriteFile(w) \/ LinkFile(w) \/ DropName(w)
        \/ WriteManifest(w) \/ LinkManifest(w) \/ ReplaceManifest(w) \/ Finish(w)
        \/ Fail(w) \/ RollBack(w) \/ GiveUp(w) \/ Die(w)

Spec == Init /\ [][Next]_vars

-----------------------------------------------------------------------------
(* Properties.                                                             *)

Kinds ==
    /\ at \in [Path -> Directory] /\ made \in Directory
    /\ files \in [Path -> SUBSET Entry] /\ temps \in [Path -> SUBSET Writer]
    /\ manifest \in [Path -> SUBSET Entry] /\ mirrored \in [Path -> SUBSET Entry]
    /\ holder \in [Directory -> Writer \cup {Nobody}]
    /\ writer \in [Writer -> State]
    /\ died \in BOOLEAN /\ astray \in BOOLEAN

\* Who changes a bundle is in the directory that is there, and holds its lock.
Owned ==
    \A w \in Writer : Works(w) =>
        at[writer[w].path] = writer[w].waits /\ holder[writer[w].waits] = w

\* Directories, files and writers are of the kinds the store knows; a manifest
\* names a version once; who changes a bundle has it, and its lock.
TypeOK == Kinds /\ (\A d \in Path : exact(manifest[d])) /\ Owned

\* What a call has mirrored stays in the manifest, and what the manifest names is
\* there as it names it, whoever fails or dies at whatever point and whatever is
\* mirrored later (_commit_existing, _commit_new: files first, then the manifest):
\* "Re-running a mirror never turns the remote service into a source of implicit
\* local overwrites".
ManifestTells == \A d \in Path : mirrored[d] \subseteq manifest[d] /\ manifest[d] \subseteq files[d]

\* A writer that fails leaves no file behind, whatever others do meanwhile.
FailureLeavesNothing ==
    ~ died /\ (\A w \in Writer : writer[w].step = "idle") =>
        \A d \in Path : files[d] = manifest[d] /\ temps[d] = {}

\* No bundle comes to lie in another: "the bridge refuses to create a bundle
\* beneath another intact bundle".  It can, when a writer waited for the lock of
\* the directory above while who made that directory failed and removed it: it then
\* has a lock nobody else will ask for, and goes on (_locked_output_parent).
NotNested == astray \/ manifest["outer"] = {} \/ manifest["inner"] = {}

=============================================================================
