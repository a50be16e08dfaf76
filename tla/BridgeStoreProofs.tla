------------------------- MODULE BridgeStoreProofs -------------------------
(***************************************************************************)
(* Proofs about BridgeStore, for every number of writers, versions and     *)
(* directories: type correctness with the lock of whoever changes a        *)
(* bundle, that a manifest names only what is there, that a failure leaves *)
(* no file, and that bundles do not come to lie in one another.            *)
(*                                                                         *)
(* A writer that changes a bundle is in the directory that is there and    *)
(* holds its lock, so that there is one such writer for a path.  What it   *)
(* knows of the files and of the manifest therefore stays true until it    *)
(* changes them itself.  A writer in the inner directory holds the lock of *)
(* the outer one as well.                                                  *)
(***************************************************************************)
EXTENDS BridgeStore, TLAPS

\* A writer that changes a bundle is in it and has its lock; one that waits for
\* the lock of a directory it made finds it at its path; who loads has the lock.
Placed(w) ==
    LET s == writer[w]
    IN /\ s.step \in {"opening", "loading"} \/ Works(w) => s.waits \in 1 .. made
       /\ s.step = "loading" => holder[s.waits] = w
       /\ s.step = "opening" /\ s.new => at[s.path] = s.waits
       /\ s.new => s.step = "opening" \/ Works(w)
       /\ Works(w) => at[s.path] = s.waits /\ holder[s.waits] = w

\* What a writer has done of its bundle.
Done(w) ==
    LET s == writer[w]
        d == s.path
    IN /\ exact(merged(s))
       /\ ~ Works(w) => s.base = {} /\ s.created = {}
       /\ s.step \in {"sealing", "replacing", "sealed"} => merged(s) \subseteq files[d]
       /\ s.step = "sealed" => manifest[d] = merged(s) /\ mirrored[d] = {}
       /\ Works(w) /\ s.step # "sealed" => s.created \cap manifest[d] = {}

\* A directory is made by one writer.
Apart ==
    \A v, w \in Writer :
        writer[v].new /\ writer[w].new /\ writer[v].waits = writer[w].waits => v = w

\* What is true of the directories.
Bundles ==
    /\ \A d \in Path : at[d] <= made /\ exact(manifest[d])
    /\ ManifestTells

\* The inductive invariant.
StoreInv == Kinds /\ Bundles /\ Apart /\ \A w \in Writer : Placed(w) /\ Done(w)

-----------------------------------------------------------------------------
(* Writers.                                                                *)

\* What the fields of a writer's state are.
LEMMA FieldFacts ==
    ASSUME NEW s \in State
    PROVE  /\ s.step \in Step /\ s.path \in Path /\ s.waits \in Directory /\ s.new \in BOOLEAN
           /\ s.fetched \subseteq Entry /\ s.base \subseteq Entry
           /\ s.pending \subseteq Entry /\ s.created \subseteq Entry
BY DEF State

\* Setting the step of a state leaves the rest.
LEMMA StepFacts ==
    ASSUME NEW s \in State, NEW x \in Step
    PROVE  LET t == [s EXCEPT !.step = x]
           IN /\ t \in State /\ t.step = x /\ t.path = s.path /\ t.fetched = s.fetched
              /\ t.waits = s.waits /\ t.new = s.new /\ t.base = s.base
              /\ t.pending = s.pending /\ t.created = s.created
BY DEF State

LEMMA IdleFacts ==
    Idle \in State /\ Idle.step = "idle" /\ Idle.path = "outer" /\ Idle.fetched = {}
    /\ Idle.waits = 0 /\ Idle.new = FALSE /\ Idle.base = {} /\ Idle.pending = {}
    /\ Idle.created = {}
<1>1. 0 \in Directory
  BY DirectoryAssumption DEF Directory
<1>2. QED
  BY <1>1 DEF Idle, State, Step, Path

\* A writer that goes on changes its own state only.
LEMMA WriterFacts ==
    ASSUME Kinds, NEW w \in Writer, NEW t \in State, writer' = [writer EXCEPT ![w] = t]
    PROVE  /\ writer' \in [Writer -> State] /\ writer'[w] = t
           /\ \A v \in Writer : v # w => writer'[v] = writer[v]
BY DEF Kinds

LEMMA GoesFacts ==
    ASSUME Kinds, NEW w \in Writer, NEW x \in Step, Goes(w, x)
    PROVE  LET s == writer[w]
               t == writer'[w]
           IN /\ writer' \in [Writer -> State]
              /\ \A v \in Writer : v # w => writer'[v] = writer[v]
              /\ t.step = x /\ t.path = s.path /\ t.fetched = s.fetched
              /\ t.waits = s.waits /\ t.new = s.new /\ t.base = s.base
              /\ t.pending = s.pending /\ t.created = s.created
<1> DEFINE t == [writer[w] EXCEPT !.step = x]
<1>1. writer[w] \in State /\ writer' = [writer EXCEPT ![w] = t]
  BY DEF Kinds, Goes
<1>2. t \in State
  BY <1>1, StepFacts
<1>3. writer' \in [Writer -> State] /\ writer'[w] = t
      /\ \A v \in Writer : v # w => writer'[v] = writer[v]
  BY <1>1, <1>2, WriterFacts
<1>4. QED
  BY <1>1, <1>3, StepFacts

\* A writer that ends has no lock any more.
LEMMA EndsFacts ==
    ASSUME Kinds, NEW w \in Writer, Ends(w)
    PROVE  /\ writer' \in [Writer -> State] /\ writer'[w] = Idle
           /\ \A v \in Writer : v # w => writer'[v] = writer[v]
           /\ holder' \in [Directory -> Writer \cup {Nobody}]
           /\ \A i \in Directory : holder'[i] = IF holder[i] = w THEN Nobody ELSE holder[i]
<1>1. writer' = [writer EXCEPT ![w] = Idle]
  BY DEF Ends
<1>2. holder' \in [Directory -> Writer \cup {Nobody}]
      /\ \A i \in Directory : holder'[i] = IF holder[i] = w THEN Nobody ELSE holder[i]
  BY DEF Ends, Release, Kinds
<1>3. QED
  BY <1>1, <1>2, IdleFacts, WriterFacts

\* One writer at a time changes the bundle of a path.
LEMMA OneWorker ==
    ASSUME StoreInv, NEW v \in Writer, NEW w \in Writer, Works(v), Works(w),
           writer[v].path = writer[w].path
    PROVE  v = w
BY DEF StoreInv, Placed

LEMMA NothingMerged ==
    ASSUME StoreInv, NEW w \in Writer
    PROVE  exact(merged(writer[w])) /\ (writer[w].base = {} => exact(writer[w].fetched))
BY DEF StoreInv, Done, merged, exact

\* What a step of w may do to the directories and locks that others use.
LeavesOthers(w) ==
    LET s == writer[w]
    IN /\ \A v \in Writer : v # w => writer'[v] = writer[v]
       /\ \A i \in Directory : holder'[i] = holder[i] \/ holder[i] \in {w, Nobody}
       /\ \A d \in Path :
             \/ at'[d] = at[d] \/ at[d] = 0
             \/ at[d] = s.waits /\ Works(w) /\ s.new
       /\ made <= made'
       /\ \A d \in Path :
             \/ files'[d] = files[d] /\ manifest'[d] = manifest[d] /\ mirrored'[d] = mirrored[d]
             \/ Works(w) /\ d = s.path

\* What another writer knows, and has, stays.
LEMMA OthersStay ==
    ASSUME StoreInv, Kinds', NEW w \in Writer, LeavesOthers(w), NEW v \in Writer, v # w
    PROVE  Placed(v)' /\ Done(v)'
<1> DEFINE s == writer[v]
<1>1. writer'[v] = s /\ s \in State /\ s.path \in Path /\ s.waits \in Directory /\ Kinds
  BY FieldFacts DEF LeavesOthers, StoreInv, Kinds
<1>2. Placed(v) /\ Done(v) /\ Placed(w)
  BY DEF StoreInv
<1>3. made \in Int /\ made' \in Int /\ made <= made'
  BY <1>1 DEF LeavesOthers, Kinds, Directory
<1>4. v # Nobody
  BY WriterAssumption
<1>5. Placed(v)'
  <2>1. Works(v)' <=> Works(v)
    BY <1>1 DEF Works
  <2>2. s.waits \in 1 .. made => s.waits \in 1 .. made'
    BY <1>3
  <2>3. holder[s.waits] = v => holder'[s.waits] = v
    BY <1>1, <1>4 DEF LeavesOthers
  <2>4. s.waits \in 1 .. made /\ at[s.path] = s.waits =>
            \/ at'[s.path] = s.waits
            \/ s.waits = writer[w].waits /\ Works(w) /\ writer[w].new
    BY <1>1, <1>3 DEF LeavesOthers
  <2>5. Works(v) /\ Works(w) => s.waits # writer[w].waits
    BY <1>2 DEF Placed
  <2>6. s.new /\ writer[w].new => s.waits # writer[w].waits
    BY DEF StoreInv, Apart
  <2>7. QED
    BY <1>1, <1>2, <2>1, <2>2, <2>3, <2>4, <2>5, <2>6 DEF Placed
<1>6. Done(v)'
  <2>1. Works(v)' <=> Works(v)
    BY <1>1 DEF Works
  <2>2. Works(v) => /\ files'[s.path] = files[s.path] /\ manifest'[s.path] = manifest[s.path]
                    /\ mirrored'[s.path] = mirrored[s.path]
    BY <1>1, OneWorker DEF LeavesOthers
  <2>3. merged(writer'[v]) = merged(s)
    BY <1>1
  <2>4. exact(merged(writer[v]))' 
    BY <1>1, <1>2 DEF Done, merged, exact
  <2>5. s.step \in {"sealing", "replacing", "sealed"} => Works(v)
    BY DEF Works
  <2>6. QED
    BY <1>1, <1>2, <2>1, <2>2, <2>4, <2>5 DEF Done, merged
<1>7. QED
  BY <1>5, <1>6

\* A step keeps the invariant if it keeps what its writer knows.
LEMMA StepKeeps ==
    ASSUME StoreInv, NEW w \in Writer, Kinds', Bundles', LeavesOthers(w),
           Placed(w)', Done(w)',
           \A v \in Writer : v # w /\ writer[v].new /\ writer'[w].new =>
               writer'[w].waits # writer[v].waits
    PROVE  StoreInv'
<1>1. \A v \in Writer : Placed(v)' /\ Done(v)'
  BY OthersStay
<1>2. Apart'
  BY DEF LeavesOthers, StoreInv, Apart
<1>3. QED
  BY <1>1, <1>2 DEF StoreInv

-----------------------------------------------------------------------------
(* The steps that take locks.                                              *)

\* A step of a writer that does not work, and leaves the directories alone.
LEMMA PassingKeeps ==
    ASSUME StoreInv, NEW w \in Writer, UNCHANGED <<at, made, files, temps, manifest, mirrored, died>>,
           astray' \in BOOLEAN,
           writer' \in [Writer -> State], holder' \in [Directory -> Writer \cup {Nobody}],
           \A v \in Writer : v # w => writer'[v] = writer[v],
           \A i \in Directory : holder'[i] = holder[i] \/ holder[i] \in {w, Nobody},
           Placed(w)', Done(w)', writer'[w].new => writer[w].new /\ writer'[w].waits = writer[w].waits
    PROVE  StoreInv'
<1>1. Kinds' /\ Bundles'
  BY DEF StoreInv, Kinds, Bundles, ManifestTells, exact
<1>2. made <= made'
  BY DEF StoreInv, Kinds, Directory
<1>3. LeavesOthers(w)
  BY <1>2 DEF LeavesOthers
<1>4. \A v \in Writer : v # w /\ writer[v].new /\ writer'[w].new =>
          writer'[w].waits # writer[v].waits
  BY DEF StoreInv, Apart
<1>5. QED
  BY <1>1, <1>3, <1>4, StepKeeps

LEMMA OutsideKeeps ==
    ASSUME StoreInv, NEW w \in Writer, UNCHANGED <<tree, died>>,
           writer' \in [Writer -> State], holder' \in [Directory -> Writer \cup {Nobody}],
           \A v \in Writer : v # w => writer'[v] = writer[v],
           \A i \in Directory : holder'[i] = holder[i] \/ holder[i] \in {w, Nobody},
           Placed(w)', Done(w)', writer'[w].new => writer[w].new /\ writer'[w].waits = writer[w].waits
    PROVE  StoreInv'
<1>1. UNCHANGED <<at, made, files, temps, manifest, mirrored, died>> /\ astray' \in BOOLEAN
  BY DEF tree, StoreInv, Kinds
<1>2. QED
  BY <1>1, PassingKeeps

\* A writer that does not work has done nothing.
LEMMA NothingDone ==
    ASSUME NEW w \in Writer, ~ Works(w)', writer'[w].base = {}, writer'[w].created = {},
           exact(writer'[w].fetched)
    PROVE  Done(w)'
<1>1. merged(writer'[w]) = writer'[w].fetched
  BY DEF merged
<1>2. exact(merged(writer'[w]))
  BY <1>1
<1>3. QED
  BY <1>2 DEF Done, Works, merged, exact

LEMMA IdleKnows ==
    ASSUME Kinds', NEW w \in Writer, writer'[w] = Idle
    PROVE  Placed(w)' /\ Done(w)' /\ ~ writer'[w].new
<1>1. ~ Works(w)'
  BY IdleFacts DEF Works
<1>2. Placed(w)'
  BY <1>1, IdleFacts DEF Placed
<1>3. exact({})
  BY DEF exact
<1>4. Done(w)'
  BY <1>1, <1>3, IdleFacts, NothingDone
<1>5. QED
  BY <1>2, <1>4, IdleFacts

\* A writer that works on nothing yet may end.
LEMMA EndingKeeps ==
    ASSUME StoreInv, NEW w \in Writer, Ends(w), UNCHANGED tree, UNCHANGED died
    PROVE  StoreInv'
<1>1. Kinds
  BY DEF StoreInv
<1>2. Kinds'
  BY <1>1, EndsFacts DEF Kinds, tree
<1>3. Placed(w)' /\ Done(w)' /\ ~ writer'[w].new
  BY <1>1, <1>2, EndsFacts, IdleKnows
<1>4. QED
  BY <1>1, <1>3, EndsFacts, OutsideKeeps

LEMMA MirrorKeeps ==
    ASSUME StoreInv, NEW w \in Writer, Mirror(w)
    PROVE  StoreInv'
<1>1. PICK d \in Path, f \in Fetch :
          writer' = [writer EXCEPT ![w] =
              [[Idle EXCEPT !.path = d, !.fetched = f,
                            !.waits = IF d = "inner" THEN at["outer"] ELSE 0]
                  EXCEPT !.step = "locking"]]
  BY DEF Mirror
<1> DEFINE i == IF d = "inner" THEN at["outer"] ELSE 0
           s == [[Idle EXCEPT !.path = d, !.fetched = f, !.waits = i] EXCEPT !.step = "locking"]
<1>2. i \in Directory
  BY DirectoryAssumption DEF StoreInv, Kinds, Path, Directory
<1>3. s \in State /\ s.step = "locking" /\ s.fetched = f /\ s.base = {} /\ s.created = {} /\ ~ s.new
  BY <1>2, IdleFacts, FetchAssumption DEF State, Step
<1>4. /\ writer' \in [Writer -> State] /\ writer'[w] = s
      /\ \A v \in Writer : v # w => writer'[v] = writer[v]
  BY <1>1, <1>3, WriterFacts DEF StoreInv
<1>5. ~ Works(w)'
  BY <1>3, <1>4 DEF Works
<1>6. Placed(w)'
  BY <1>3, <1>4, <1>5 DEF Placed
<1>7. Done(w)'
  BY <1>3, <1>4, <1>5, FetchAssumption, NothingDone
<1>8. QED
  BY <1>3, <1>4, <1>6, <1>7, OutsideKeeps DEF Mirror, StoreInv, Kinds

LEMMA LockParentKeeps ==
    ASSUME StoreInv, NEW w \in Writer, LockParent(w)
    PROVE  StoreInv'
<1> DEFINE s == writer[w]
           x == IF s.path = "inner" /\ s.waits = 0 THEN "making" ELSE "entering"
<1>1. Kinds /\ s \in State /\ Placed(w) /\ Done(w) /\ s.step = "locking" /\ holder[s.waits] = Nobody
      /\ UNCHANGED <<tree, died>>
  BY DEF StoreInv, Kinds, LockParent, free
<1>2. CASE Ends(w)
  BY <1>1, <1>2, EndingKeeps
<1>3. CASE holder' = [holder EXCEPT ![s.waits] = w] /\ Goes(w, x)
  <2>1. x \in Step /\ x \in {"making", "entering"}
    BY DEF Step
  <2>2. /\ writer' \in [Writer -> State]
        /\ \A v \in Writer : v # w => writer'[v] = writer[v]
        /\ writer'[w].step = x /\ writer'[w].fetched = s.fetched
        /\ writer'[w].new = s.new /\ writer'[w].base = s.base /\ writer'[w].created = s.created
    BY <1>1, <1>3, <2>1, GoesFacts
  <2>3. s.waits \in Directory /\ holder' \in [Directory -> Writer \cup {Nobody}]
        /\ \A i \in Directory : holder'[i] = holder[i] \/ holder[i] \in {w, Nobody}
    BY <1>1, <1>3, FieldFacts DEF Kinds
  <2>4. ~ Works(w) /\ ~ Works(w)' /\ ~ s.new
    BY <1>1, <2>1, <2>2 DEF Works, Placed
  <2>5. Placed(w)'
    BY <2>1, <2>2, <2>4 DEF Placed
  <2>6. Done(w)'
    BY <1>1, <2>2, <2>4, NothingMerged, NothingDone DEF Done
  <2>7. QED
    BY <1>1, <2>2, <2>3, <2>4, <2>5, <2>6, OutsideKeeps
<1>4. QED
  BY <1>2, <1>3 DEF LockParent

LEMMA LockRootKeeps ==
    ASSUME StoreInv, NEW w \in Writer, LockRoot(w)
    PROVE  StoreInv'
<1> DEFINE s == writer[w]
           x == IF s.new THEN "filling" ELSE "loading"
<1>1. Kinds /\ s \in State /\ Placed(w) /\ Done(w) /\ s.step = "opening" /\ holder[s.waits] = Nobody
      /\ holder' = [holder EXCEPT ![s.waits] = w] /\ Goes(w, x)
      /\ UNCHANGED <<tree, died>>
  BY DEF StoreInv, Kinds, LockRoot, free
<1>2. x \in Step /\ x \in {"filling", "loading"}
  BY DEF Step
<1>3. /\ writer' \in [Writer -> State]
      /\ \A v \in Writer : v # w => writer'[v] = writer[v]
      /\ writer'[w].step = x /\ writer'[w].fetched = s.fetched /\ writer'[w].path = s.path
      /\ writer'[w].waits = s.waits
      /\ writer'[w].new = s.new /\ writer'[w].base = s.base /\ writer'[w].created = s.created
  BY <1>1, <1>2, GoesFacts
<1>4. s.waits \in Directory /\ holder' \in [Directory -> Writer \cup {Nobody}]
      /\ holder'[s.waits] = w
      /\ \A i \in Directory : holder'[i] = holder[i] \/ holder[i] \in {w, Nobody}
  BY <1>1, FieldFacts DEF Kinds
<1>5. ~ Works(w) /\ s.base = {} /\ s.created = {} /\ s.waits \in 1 .. made
  BY <1>1 DEF Works, Placed, Done
<1>6. Placed(w)'
  BY <1>1, <1>3, <1>4, <1>5 DEF Placed, Works, tree
<1>7. Done(w)'
  <2>1. merged(writer'[w]) = merged(s) /\ exact(merged(s))
    BY <1>3, NothingMerged DEF merged
  <2>2. exact(merged(writer[w]))'
    BY <2>1 DEF exact, merged
  <2>3. QED
    BY <1>2, <1>3, <1>5, <2>2 DEF Done
<1>8. QED
  BY <1>1, <1>3, <1>4, <1>6, <1>7, OutsideKeeps

LEMMA LoadKeeps ==
    ASSUME StoreInv, NEW w \in Writer, Load(w)
    PROVE  StoreInv'
<1> DEFINE s == writer[w]
           d == s.path
           t == [s EXCEPT !.step = "filling", !.base = manifest[d],
                          !.pending = s.fetched \ manifest[d]]
<1>1. Kinds /\ s \in State /\ Placed(w) /\ Done(w) /\ s.step = "loading" /\ at[d] = s.waits
      /\ exact(manifest[d] \cup s.fetched) /\ writer' = [writer EXCEPT ![w] = t]
      /\ UNCHANGED <<tree, holder, died>>
  BY DEF StoreInv, Kinds, Load
<1>2. t \in State /\ t.step = "filling" /\ t.path = d /\ t.waits = s.waits /\ t.new = s.new
      /\ t.fetched = s.fetched /\ t.base = manifest[d] /\ t.created = s.created
  BY <1>1, FieldFacts DEF State, Step, Kinds
<1>3. /\ writer' \in [Writer -> State] /\ writer'[w] = t
      /\ \A v \in Writer : v # w => writer'[v] = writer[v]
  BY <1>1, <1>2, WriterFacts
<1>4. ~ Works(w) /\ ~ s.new /\ s.created = {} /\ s.waits \in 1 .. made /\ holder[s.waits] = w
  BY <1>1 DEF Works, Placed, Done
<1>5. Placed(w)'
  BY <1>1, <1>2, <1>3, <1>4 DEF Placed, Works, tree
<1>6. Done(w)'
  <2>1. exact(merged(writer[w]))'
    BY <1>1, <1>2, <1>3 DEF exact, merged
  <2>2. QED
    BY <1>2, <1>3, <1>4, <2>1 DEF Done, Works
<1>7. holder' \in [Directory -> Writer \cup {Nobody}] /\ ~ writer'[w].new
  BY <1>1, <1>2, <1>3, <1>4 DEF Kinds
<1>8. QED
  BY <1>1, <1>3, <1>5, <1>6, <1>7, OutsideKeeps

LEMMA MakeParentKeeps ==
    ASSUME StoreInv, NEW w \in Writer, MakeParent(w)
    PROVE  StoreInv'
<1> DEFINE s == writer[w]
           t == [s EXCEPT !.step = "locking", !.waits = at'["outer"]]
<1>1. Kinds /\ s \in State /\ Placed(w) /\ Done(w) /\ Bundles /\ s.step = "making"
      /\ writer' = [writer EXCEPT ![w] = t]
      /\ UNCHANGED <<files, temps, manifest, mirrored, astray, holder, died>>
  BY DEF StoreInv, Kinds, MakeParent
<1>2. /\ at' \in [Path -> Directory] /\ made' \in Directory /\ made <= made'
      /\ \A d \in Path : (at'[d] = at[d] \/ at[d] = 0) /\ at'[d] <= made'
  <2>1. CASE at["outer"] = 0 /\ made < MaxDirectories /\ made' = made + 1
             /\ at' = [at EXCEPT !["outer"] = made']
    BY <1>1, <2>1, DirectoryAssumption DEF Kinds, Bundles, Path, Directory
  <2>2. CASE at' = at /\ made' = made
    BY <1>1, <2>2 DEF Kinds, Bundles, Path, Directory
  <2>3. QED
    BY <2>1, <2>2 DEF MakeParent
<1>3. t \in State /\ t.step = "locking" /\ t.fetched = s.fetched /\ t.new = s.new
      /\ t.base = s.base /\ t.created = s.created
  BY <1>1, <1>2 DEF State, Step, Path
<1>4. /\ writer' \in [Writer -> State] /\ writer'[w] = t
      /\ \A v \in Writer : v # w => writer'[v] = writer[v]
  BY <1>1, <1>3, WriterFacts
<1>5. ~ Works(w) /\ ~ Works(w)' /\ ~ s.new
  BY <1>1, <1>3, <1>4 DEF Works, Placed
<1>6. Placed(w)'
  BY <1>3, <1>4, <1>5 DEF Placed
<1>7. Done(w)'
  BY <1>1, <1>3, <1>4, <1>5, NothingMerged, NothingDone DEF Done
<1>8. Kinds' /\ Bundles'
  BY <1>1, <1>2, <1>4 DEF Kinds, Bundles, ManifestTells, exact
<1>9. LeavesOthers(w)
  BY <1>1, <1>2, <1>4 DEF LeavesOthers
<1>10. QED
  BY <1>3, <1>4, <1>5, <1>6, <1>7, <1>8, <1>9, StepKeeps

LEMMA EnterKeeps ==
    ASSUME StoreInv, NEW w \in Writer, Enter(w)
    PROVE  StoreInv'
<1> DEFINE s == writer[w]
           d == s.path
           u == IF at[d] # 0 THEN [s EXCEPT !.step = "opening", !.waits = at[d]]
                             ELSE [s EXCEPT !.step = "claiming"]
<1>1. Kinds /\ s \in State /\ d \in Path /\ s.waits \in Directory /\ Placed(w) /\ Done(w) /\ Bundles
      /\ s.step = "entering" /\ UNCHANGED <<at, made, files, temps, manifest, mirrored, died>>
  BY FieldFacts DEF StoreInv, Kinds, Enter
<1>2. ~ Works(w) /\ ~ s.new /\ s.base = {} /\ s.created = {} /\ exact(s.fetched)
  BY <1>1, NothingMerged DEF Works, Placed, Done
<1>3. CASE Ends(w) /\ UNCHANGED astray
  BY <1>1, <1>3, EndingKeeps DEF tree
<1>4. CASE /\ writer' = [writer EXCEPT ![w] = u] /\ UNCHANGED holder
           /\ astray' = (astray \/ (d = "inner" /\ at["outer"] # s.waits))
  <2>1. /\ u \in State /\ u.path = d /\ u.new = s.new /\ u.fetched = s.fetched /\ u.base = s.base
        /\ u.created = s.created
        /\ u.step = "claiming" \/ (u.step = "opening" /\ u.waits = at[d] /\ at[d] # 0)
    BY <1>1 DEF State, Step, Kinds
  <2>2. /\ writer' \in [Writer -> State] /\ writer'[w] = u
        /\ \A v \in Writer : v # w => writer'[v] = writer[v]
    BY <1>1, <1>4, <2>1, WriterFacts
  <2>3. ~ Works(w)'
    BY <2>1, <2>2 DEF Works
  <2>4. at[d] # 0 => at[d] \in 1 .. made
    BY <1>1 DEF Kinds, Bundles, Directory
  <2>5. Placed(w)'
    BY <1>1, <1>2, <2>1, <2>2, <2>3, <2>4 DEF Placed
  <2>6. Done(w)'
    BY <1>2, <2>1, <2>2, <2>3, NothingDone
  <2>7. /\ holder' \in [Directory -> Writer \cup {Nobody}] /\ ~ writer'[w].new
        /\ astray' \in BOOLEAN
    BY <1>1, <1>2, <1>4, <2>1, <2>2 DEF Kinds
  <2>8. QED
    BY <1>1, <1>4, <2>2, <2>5, <2>6, <2>7, PassingKeeps
<1>5. QED
  BY <1>1, <1>3, <1>4 DEF Enter

LEMMA MakeAboveKeeps ==
    ASSUME StoreInv, NEW w \in Writer, MakeAbove(w)
    PROVE  StoreInv'
<1> DEFINE s == writer[w]
<1>1. Kinds /\ Placed(w) /\ Done(w) /\ Bundles /\ s.step = "claiming" /\ Goes(w, "claimed")
      /\ at["outer"] = 0 /\ made < MaxDirectories /\ made' = made + 1
      /\ at' = [at EXCEPT !["outer"] = made']
      /\ UNCHANGED <<files, temps, manifest, mirrored, astray, holder, died>>
  BY DEF StoreInv, MakeAbove
<1>2. /\ at' \in [Path -> Directory] /\ made' \in Directory /\ made <= made'
      /\ \A d \in Path : (at'[d] = at[d] \/ at[d] = 0) /\ at'[d] <= made'
  BY <1>1, DirectoryAssumption DEF Kinds, Bundles, Path, Directory
<1>3. "claimed" \in Step
  BY DEF Step
<1>4. /\ writer' \in [Writer -> State]
      /\ \A v \in Writer : v # w => writer'[v] = writer[v]
      /\ writer'[w].step = "claimed" /\ writer'[w].fetched = s.fetched
      /\ writer'[w].new = s.new /\ writer'[w].base = s.base /\ writer'[w].created = s.created
  BY <1>1, <1>3, GoesFacts
<1>5. ~ Works(w) /\ ~ Works(w)' /\ ~ s.new
  BY <1>1, <1>4 DEF Works, Placed
<1>6. Placed(w)'
  BY <1>4, <1>5 DEF Placed
<1>7. Done(w)'
  BY <1>1, <1>4, <1>5, NothingMerged, NothingDone DEF Done
<1>8. Kinds' /\ Bundles'
  BY <1>1, <1>2, <1>4 DEF Kinds, Bundles, ManifestTells, exact
<1>9. LeavesOthers(w)
  BY <1>1, <1>2, <1>4 DEF LeavesOthers
<1>10. QED
  BY <1>4, <1>5, <1>6, <1>7, <1>8, <1>9, StepKeeps

\* Nobody waits for, or has, a directory that is not made yet.
LEMMA ClaimKeeps ==
    ASSUME StoreInv, NEW w \in Writer, Claim(w)
    PROVE  StoreInv'
<1> DEFINE s == writer[w]
           d == s.path
           t == [s EXCEPT !.step = "opening", !.waits = made', !.new = TRUE, !.pending = s.fetched]
<1>1. Kinds /\ s \in State /\ d \in Path /\ Placed(w) /\ Done(w) /\ Bundles
      /\ s.step \in {"claiming", "claimed"} /\ at[d] = 0 /\ made < MaxDirectories /\ made' = made + 1
      /\ at' = [at EXCEPT ![d] = made'] /\ writer' = [writer EXCEPT ![w] = t]
      /\ UNCHANGED <<files, temps, manifest, mirrored, astray, holder, died>>
  BY FieldFacts DEF StoreInv, Kinds, Claim
<1>2. ~ Works(w) /\ s.base = {} /\ s.created = {} /\ exact(s.fetched)
  BY <1>1, NothingMerged DEF Works, Done
<1>3. made \in Int /\ made' \in Directory /\ made' \in 1 .. made' /\ made < made'
  BY <1>1, DirectoryAssumption DEF Kinds, Directory
<1>4. at' \in [Path -> Directory] /\ at'[d] = made'
      /\ \A e \in Path : (at'[e] = at[e] \/ at[e] = 0) /\ at'[e] <= made'
  <2>1. \A e \in Path : at[e] \in Int /\ at[e] <= made'
    BY <1>1, <1>3 DEF Kinds, Bundles, Directory
  <2>2. QED
    BY <1>1, <1>3, <2>1 DEF Kinds, Directory
<1>5. t \in State /\ t.step = "opening" /\ t.path = d /\ t.waits = made' /\ t.new
      /\ t.fetched = s.fetched /\ t.base = s.base /\ t.created = s.created
  BY <1>1, <1>3, FieldFacts DEF State, Step
<1>6. /\ writer' \in [Writer -> State] /\ writer'[w] = t
      /\ \A v \in Writer : v # w => writer'[v] = writer[v]
  BY <1>1, <1>5, WriterFacts
<1>7. ~ Works(w)'
  BY <1>5, <1>6 DEF Works
<1>8. Placed(w)'
  BY <1>3, <1>4, <1>5, <1>6, <1>7 DEF Placed
<1>9. Done(w)'
  BY <1>2, <1>5, <1>6, <1>7, NothingDone
<1>10. Kinds' /\ Bundles'
  BY <1>1, <1>3, <1>4, <1>6 DEF Kinds, Bundles, ManifestTells, exact
<1>11. LeavesOthers(w)
  BY <1>1, <1>3, <1>4, <1>6 DEF LeavesOthers
<1>12. \A v \in Writer : writer[v].new => writer'[w].waits # writer[v].waits
  BY <1>1, <1>3, <1>5, <1>6 DEF StoreInv, Placed
<1>13. QED
  BY <1>8, <1>9, <1>10, <1>11, <1>12, StepKeeps

LEMMA DieKeeps ==
    ASSUME StoreInv, NEW w \in Writer, Die(w)
    PROVE  StoreInv'
<1>1. Kinds /\ Ends(w) /\ UNCHANGED tree /\ died' = TRUE
  BY DEF StoreInv, Die
<1>2. Kinds' /\ Bundles'
  BY <1>1, EndsFacts DEF StoreInv, Kinds, Bundles, ManifestTells, tree, exact
<1>3. Placed(w)' /\ Done(w)' /\ ~ writer'[w].new
  BY <1>1, <1>2, EndsFacts, IdleKnows
<1>4. made <= made'
  BY <1>1 DEF Kinds, Directory, tree
<1>5. LeavesOthers(w)
  BY <1>1, <1>4, EndsFacts DEF LeavesOthers, tree
<1>6. QED
  BY <1>2, <1>3, <1>5, StepKeeps

-----------------------------------------------------------------------------
(* The steps of a writer that works.                                       *)

\* A step of a writer in its bundle: directories and locks stay.
LEMMA InsideKeeps ==
    ASSUME StoreInv, NEW w \in Writer, Works(w), UNCHANGED <<at, made, astray, holder, died>>,
           files' \in [Path -> SUBSET Entry], temps' \in [Path -> SUBSET Writer],
           manifest' \in [Path -> SUBSET Entry], mirrored' = mirrored,
           writer' \in [Writer -> State], \A v \in Writer : v # w => writer'[v] = writer[v],
           \A d \in Path : d # writer[w].path =>
               files'[d] = files[d] /\ manifest'[d] = manifest[d],
           LET s == writer[w]
               t == writer'[w]
               d == s.path
           IN /\ t.path = d /\ t.waits = s.waits /\ t.new = s.new /\ Works(w)'
              /\ exact(manifest'[d]) /\ mirrored[d] \subseteq manifest'[d]
              /\ manifest'[d] \subseteq files'[d] /\ Done(w)'
    PROVE  StoreInv'
<1>1. Kinds /\ Bundles /\ Placed(w) /\ writer[w].path \in Path
  BY FieldFacts DEF StoreInv, Kinds
<1>2. Kinds'
  BY <1>1 DEF Kinds
<1>3. Bundles'
  <2>1. \A d \in Path : exact(manifest[d])' /\ mirrored'[d] \subseteq manifest'[d]
                        /\ manifest'[d] \subseteq files'[d]
    BY <1>1 DEF Bundles, ManifestTells, exact
  <2>2. QED
    BY <1>1, <2>1 DEF Bundles, ManifestTells
<1>4. Placed(w)'
  BY <1>1 DEF Placed, Works
<1>5. made <= made'
  BY <1>1 DEF Kinds, Directory
<1>6. LeavesOthers(w)
  BY <1>5 DEF LeavesOthers
<1>7. \A v \in Writer : v # w /\ writer[v].new /\ writer'[w].new =>
          writer'[w].waits # writer[v].waits
  BY DEF StoreInv, Apart
<1>8. QED
  BY <1>2, <1>3, <1>4, <1>6, <1>7, StepKeeps

LEMMA WorkerFacts ==
    ASSUME StoreInv, NEW w \in Writer, Works(w)
    PROVE  LET s == writer[w]
               d == s.path
           IN /\ Kinds /\ Placed(w) /\ Done(w) /\ s \in State /\ d \in Path
              /\ s.fetched \subseteq Entry /\ s.base \subseteq Entry
              /\ s.pending \subseteq Entry /\ s.created \subseteq Entry
              /\ exact(merged(s)) /\ merged(s) \subseteq Entry
              /\ exact(manifest[d]) /\ mirrored[d] \subseteq manifest[d]
              /\ manifest[d] \subseteq files[d] /\ files[d] \subseteq Entry
BY FieldFacts DEF StoreInv, Kinds, Bundles, ManifestTells, Done, merged

\* A step that leaves files and manifests alone.
LEMMA WorkGoesOn ==
    ASSUME StoreInv, NEW w \in Writer, Works(w), NEW x \in Step, Goes(w, x),
           temps' \in [Path -> SUBSET Writer],
           UNCHANGED <<at, made, files, manifest, mirrored, astray, holder, died>>,
           x \in {"filling", "temporary", "rolling", "sealing", "replacing"},
           writer[w].step # "sealed",
           x \in {"sealing", "replacing"} => merged(writer[w]) \subseteq files[writer[w].path]
    PROVE  StoreInv'
<1> DEFINE s == writer[w]
           d == s.path
<1>1. Kinds /\ Done(w) /\ d \in Path
      /\ exact(merged(s)) /\ exact(manifest[d]) /\ mirrored[d] \subseteq manifest[d]
      /\ manifest[d] \subseteq files[d]
  BY WorkerFacts
<1>2. /\ writer' \in [Writer -> State]
      /\ \A v \in Writer : v # w => writer'[v] = writer[v]
      /\ writer'[w].step = x /\ writer'[w].fetched = s.fetched /\ writer'[w].path = d
      /\ writer'[w].waits = s.waits /\ writer'[w].new = s.new /\ writer'[w].base = s.base
      /\ writer'[w].created = s.created
  BY <1>1, GoesFacts
<1>3. Works(w)'
  BY <1>2 DEF Works
<1>4. Done(w)'
  <2>1. merged(writer'[w]) = merged(s)
    BY <1>2 DEF merged
  <2>2. exact(merged(writer[w]))'
    BY <1>1, <2>1 DEF exact, merged
  <2>3. s.created \cap manifest[d] = {}
    BY <1>1 DEF Done
  <2>4. QED
    BY <1>2, <1>3, <2>1, <2>2, <2>3 DEF Done, merged
<1>5. files' \in [Path -> SUBSET Entry] /\ manifest' \in [Path -> SUBSET Entry]
      /\ exact(manifest'[d])
  BY <1>1 DEF Kinds, exact
<1>6. QED
  BY <1>1, <1>2, <1>3, <1>4, <1>5, InsideKeeps

LEMMA WriteFileKeeps ==
    ASSUME StoreInv, NEW w \in Writer, WriteFile(w)
    PROVE  StoreInv'
<1>1. Works(w) /\ writer[w].step # "sealed" /\ "temporary" \in Step /\ Goes(w, "temporary")
  BY DEF WriteFile, Works, Step
<1>2. temps' \in [Path -> SUBSET Writer]
  BY DEF StoreInv, Kinds, WriteFile, Writes
<1>3. QED
  BY <1>1, <1>2, WorkGoesOn DEF WriteFile

LEMMA DropNameKeeps ==
    ASSUME StoreInv, NEW w \in Writer, DropName(w)
    PROVE  StoreInv'
<1>1. Works(w) /\ writer[w].step # "sealed" /\ "filling" \in Step /\ Goes(w, "filling")
  BY DEF DropName, Works, Step
<1>2. temps' \in [Path -> SUBSET Writer]
  BY DEF StoreInv, Kinds, DropName, Clears
<1>3. QED
  BY <1>1, <1>2, WorkGoesOn DEF DropName

LEMMA WriteManifestKeeps ==
    ASSUME StoreInv, NEW w \in Writer, WriteManifest(w)
    PROVE  StoreInv'
<1> DEFINE s == writer[w]
           x == IF s.base = {} THEN "sealing" ELSE "replacing"
<1>1. Works(w) /\ s.step # "sealed" /\ x \in Step /\ x \in {"sealing", "replacing"} /\ Goes(w, x)
  BY DEF WriteManifest, Works, Step
<1>2. temps' \in [Path -> SUBSET Writer]
  BY DEF StoreInv, Kinds, WriteManifest, Writes
<1>3. merged(s) \subseteq files[s.path]
  BY DEF WriteManifest, complete, verified, tracked
<1>4. QED
  BY <1>1, <1>2, <1>3, WorkGoesOn DEF WriteManifest

LEMMA LinkFileKeeps ==
    ASSUME StoreInv, NEW w \in Writer, LinkFile(w)
    PROVE  StoreInv'
<1> DEFINE s == writer[w]
           d == s.path
<1>1. PICK e \in s.pending :
          /\ e[1] \notin {f[1] : f \in files[d]}
          /\ files' = [files EXCEPT ![d] = @ \cup {e}]
          /\ writer' = [writer EXCEPT ![w].step = "linked", ![w].pending = @ \ {e},
                                      ![w].created = @ \cup {e}]
  BY DEF LinkFile
<1> DEFINE t == [s EXCEPT !.step = "linked", !.pending = @ \ {e}, !.created = @ \cup {e}]
<1>2. Works(w) /\ s.step = "temporary"
      /\ UNCHANGED <<at, made, temps, manifest, mirrored, astray, holder, died>>
  BY DEF LinkFile, Works
<1>3. /\ Kinds /\ Done(w) /\ s \in State /\ d \in Path /\ e \in Entry
      /\ exact(merged(s)) /\ exact(manifest[d]) /\ mirrored[d] \subseteq manifest[d]
      /\ manifest[d] \subseteq files[d] /\ files[d] \subseteq Entry
  BY <1>1, <1>2, WorkerFacts
<1>4. t \in State /\ t.step = "linked" /\ t.path = d /\ t.waits = s.waits /\ t.new = s.new
      /\ t.fetched = s.fetched /\ t.base = s.base /\ t.created = s.created \cup {e}
  BY <1>3 DEF State, Step
<1>5. writer' = [writer EXCEPT ![w] = t]
  BY <1>1, <1>3 DEF Kinds
<1>6. /\ writer' \in [Writer -> State] /\ writer'[w] = t
      /\ \A v \in Writer : v # w => writer'[v] = writer[v]
  BY <1>3, <1>4, <1>5, WriterFacts
<1>7. files' \in [Path -> SUBSET Entry] /\ files'[d] = files[d] \cup {e}
      /\ \A p \in Path : p # d => files'[p] = files[p]
  BY <1>1, <1>3 DEF Kinds
<1>8. e \notin manifest[d]
  BY <1>1, <1>3
<1>9. Done(w)'
  <2>1. exact(merged(writer[w]))'
    BY <1>3, <1>4, <1>6 DEF exact, merged
  <2>2. s.created \cap manifest[d] = {}
    BY <1>2, <1>3 DEF Done
  <2>3. QED
    BY <1>2, <1>4, <1>6, <1>8, <2>1, <2>2 DEF Done, Works
<1>10. Works(w)' /\ exact(manifest'[d])
  BY <1>2, <1>3, <1>4, <1>6 DEF Works, exact
<1>11. temps' \in [Path -> SUBSET Writer] /\ manifest' \in [Path -> SUBSET Entry]
  BY <1>2, <1>3 DEF Kinds
<1>12. QED
  BY <1>2, <1>3, <1>4, <1>6, <1>7, <1>9, <1>10, <1>11, InsideKeeps

LEMMA RollBackKeeps ==
    ASSUME StoreInv, NEW w \in Writer, RollBack(w)
    PROVE  StoreInv'
<1> DEFINE s == writer[w]
           d == s.path
<1>1. PICK e \in s.created :
          /\ files' = [files EXCEPT ![d] = @ \ {e}]
          /\ writer' = [writer EXCEPT ![w].created = @ \ {e}]
  BY DEF RollBack, undo
<1> DEFINE t == [s EXCEPT !.created = @ \ {e}]
<1>2. Works(w) /\ s.step = "rolling"
      /\ UNCHANGED <<at, made, temps, manifest, mirrored, astray, holder, died>>
  BY DEF RollBack, Works
<1>3. /\ Kinds /\ Done(w) /\ s \in State /\ d \in Path
      /\ exact(merged(s)) /\ exact(manifest[d]) /\ mirrored[d] \subseteq manifest[d]
      /\ manifest[d] \subseteq files[d] /\ files[d] \subseteq Entry
  BY <1>1, <1>2, WorkerFacts
<1>4. t \in State /\ t.step = "rolling" /\ t.path = d /\ t.waits = s.waits /\ t.new = s.new
      /\ t.fetched = s.fetched /\ t.base = s.base /\ t.created = s.created \ {e}
  BY <1>2, <1>3 DEF State
<1>5. writer' = [writer EXCEPT ![w] = t]
  BY <1>1, <1>3 DEF Kinds
<1>6. /\ writer' \in [Writer -> State] /\ writer'[w] = t
      /\ \A v \in Writer : v # w => writer'[v] = writer[v]
  BY <1>3, <1>4, <1>5, WriterFacts
<1>7. files' \in [Path -> SUBSET Entry] /\ files'[d] = files[d] \ {e}
      /\ \A p \in Path : p # d => files'[p] = files[p]
  BY <1>1, <1>3 DEF Kinds
<1>8. s.created \cap manifest[d] = {} /\ e \notin manifest[d]
  BY <1>1, <1>2, <1>3 DEF Done
<1>9. Done(w)'
  <2>1. exact(merged(writer[w]))'
    BY <1>3, <1>4, <1>6 DEF exact, merged
  <2>2. QED
    BY <1>2, <1>4, <1>6, <1>8, <2>1 DEF Done, Works
<1>10. Works(w)' /\ exact(manifest'[d])
  BY <1>2, <1>3, <1>4, <1>6 DEF Works, exact
<1>11. temps' \in [Path -> SUBSET Writer] /\ manifest' \in [Path -> SUBSET Entry]
  BY <1>2, <1>3 DEF Kinds
<1>12. QED
  BY <1>2, <1>3, <1>4, <1>6, <1>7, <1>8, <1>9, <1>10, <1>11, InsideKeeps

LEMMA LinkManifestKeeps ==
    ASSUME StoreInv, NEW w \in Writer, LinkManifest(w)
    PROVE  StoreInv'
<1> DEFINE s == writer[w]
           d == s.path
<1>1. Works(w) /\ s.step = "sealing" /\ manifest[d] = {} /\ "sealed" \in Step /\ Goes(w, "sealed")
      /\ manifest' = [manifest EXCEPT ![d] = merged(s)]
      /\ UNCHANGED <<at, made, files, temps, mirrored, astray, holder, died>>
  BY DEF LinkManifest, Works, Step
<1>2. /\ Kinds /\ Done(w) /\ d \in Path /\ exact(merged(s)) /\ merged(s) \subseteq Entry
      /\ mirrored[d] \subseteq manifest[d]
  BY <1>1, WorkerFacts
<1>3. /\ writer' \in [Writer -> State]
      /\ \A v \in Writer : v # w => writer'[v] = writer[v]
      /\ writer'[w].step = "sealed" /\ writer'[w].fetched = s.fetched /\ writer'[w].path = d
      /\ writer'[w].waits = s.waits /\ writer'[w].new = s.new /\ writer'[w].base = s.base
      /\ writer'[w].created = s.created
  BY <1>1, <1>2, GoesFacts
<1>4. manifest' \in [Path -> SUBSET Entry] /\ manifest'[d] = merged(s)
      /\ \A p \in Path : p # d => manifest'[p] = manifest[p]
  BY <1>1, <1>2 DEF Kinds
<1>5. merged(writer'[w]) = merged(s) /\ merged(s) \subseteq files[d] /\ mirrored[d] = {}
  BY <1>1, <1>2, <1>3 DEF Done, merged
<1>6. Works(w)' /\ exact(manifest'[d])
  BY <1>2, <1>3, <1>4 DEF Works, exact
<1>7. Done(w)'
  <2>1. exact(merged(writer[w]))'
    BY <1>2, <1>5 DEF exact, merged
  <2>2. QED
    BY <1>1, <1>3, <1>4, <1>5, <1>6, <2>1 DEF Done, merged
<1>8. files' \in [Path -> SUBSET Entry] /\ temps' \in [Path -> SUBSET Writer]
  BY <1>1, <1>2 DEF Kinds
<1>9. QED
  BY <1>1, <1>3, <1>4, <1>5, <1>6, <1>7, <1>8, InsideKeeps

\* What is written of a bundle when its writer ends.
LEMMA LeavingKeeps ==
    ASSUME StoreInv, NEW w \in Writer, Works(w), Ends(w), UNCHANGED <<made, files, died>>,
           astray' \in BOOLEAN, temps' \in [Path -> SUBSET Writer],
           manifest' \in [Path -> SUBSET Entry], mirrored' \in [Path -> SUBSET Entry],
           at' \in [Path -> Directory],
           \A p \in Path :
               at'[p] = at[p] \/ (writer[w].new /\ p = writer[w].path /\ at'[p] = 0),
           \A d \in Path : d # writer[w].path =>
               manifest'[d] = manifest[d] /\ mirrored'[d] = mirrored[d],
           LET d == writer[w].path
           IN exact(manifest'[d]) /\ mirrored'[d] \subseteq manifest'[d]
              /\ manifest'[d] \subseteq files[d]
    PROVE  StoreInv'
<1> DEFINE d == writer[w].path
<1>1. Kinds /\ Bundles /\ Placed(w) /\ d \in Path
  BY FieldFacts DEF StoreInv, Kinds
<1>2. 0 \in Directory /\ made \in Nat
  BY <1>1, DirectoryAssumption DEF Kinds, Directory
<1>4. Kinds'
  BY <1>1, EndsFacts DEF Kinds
<1>5. \A p \in Path : at'[p] <= made'
  BY <1>1, <1>2 DEF Bundles
<1>6. \A p \in Path : exact(manifest[p])' /\ mirrored'[p] \subseteq manifest'[p]
                      /\ manifest'[p] \subseteq files'[p]
  BY <1>1 DEF Bundles, ManifestTells, exact
<1>7. Bundles'
  BY <1>5, <1>6 DEF Bundles, ManifestTells
<1>8. Placed(w)' /\ Done(w)' /\ ~ writer'[w].new
  BY <1>1, <1>4, EndsFacts, IdleKnows
<1>9. made <= made'
  BY <1>2
<1>10. LeavesOthers(w)
  <2>1. at[d] = writer[w].waits
    BY <1>1 DEF Placed
  <2>2. QED
    BY <1>1, <1>9, <2>1, EndsFacts DEF LeavesOthers
<1>11. QED
  BY <1>4, <1>7, <1>8, <1>10, StepKeeps

LEMMA ReplaceManifestKeeps ==
    ASSUME StoreInv, NEW w \in Writer, ReplaceManifest(w)
    PROVE  StoreInv'
<1> DEFINE s == writer[w]
           d == s.path
<1>1. Works(w) /\ s.step = "replacing" /\ Ends(w)
      /\ manifest' = [manifest EXCEPT ![d] = merged(s)]
      /\ mirrored' = [mirrored EXCEPT ![d] = merged(s)] /\ Clears(w, d)
      /\ UNCHANGED <<at, made, files, astray, died>>
  BY DEF ReplaceManifest, Works
<1>2. /\ Kinds /\ Done(w) /\ d \in Path /\ exact(merged(s)) /\ merged(s) \subseteq Entry
  BY <1>1, WorkerFacts
<1>3. /\ manifest' \in [Path -> SUBSET Entry] /\ mirrored' \in [Path -> SUBSET Entry]
      /\ manifest'[d] = merged(s) /\ mirrored'[d] = merged(s)
      /\ \A p \in Path : p # d => manifest'[p] = manifest[p] /\ mirrored'[p] = mirrored[p]
      /\ temps' \in [Path -> SUBSET Writer] /\ astray' \in BOOLEAN
  BY <1>1, <1>2 DEF Kinds, Clears
<1>4. exact(manifest'[d]) /\ merged(s) \subseteq files[d]
  BY <1>1, <1>2, <1>3 DEF Done, exact
<1>5. at' \in [Path -> Directory]
  BY <1>1, <1>2 DEF Kinds
<1>6. mirrored'[d] \subseteq manifest'[d] /\ manifest'[d] \subseteq files[d]
  BY <1>3, <1>4
<1>7. \A p \in Path : at'[p] = at[p]
  BY <1>1
<1>8. QED
  BY <1>1, <1>3, <1>4, <1>5, <1>6, <1>7, LeavingKeeps

LEMMA FinishKeeps ==
    ASSUME StoreInv, NEW w \in Writer, Finish(w)
    PROVE  StoreInv'
<1> DEFINE s == writer[w]
           d == s.path
<1>1. Works(w) /\ s.step = "sealed" /\ Ends(w)
      /\ mirrored' = [mirrored EXCEPT ![d] = merged(s)] /\ Clears(w, d)
      /\ UNCHANGED <<at, made, files, manifest, astray, died>>
  BY DEF Finish, Works
<1>2. /\ Kinds /\ Done(w) /\ d \in Path /\ exact(manifest[d]) /\ merged(s) \subseteq Entry
      /\ manifest[d] \subseteq files[d]
  BY <1>1, WorkerFacts
<1>3. /\ manifest' \in [Path -> SUBSET Entry] /\ mirrored' \in [Path -> SUBSET Entry]
      /\ mirrored'[d] = merged(s)
      /\ \A p \in Path : p # d => mirrored'[p] = mirrored[p]
      /\ temps' \in [Path -> SUBSET Writer] /\ astray' \in BOOLEAN
  BY <1>1, <1>2 DEF Kinds, Clears
<1>4. exact(manifest'[d]) /\ manifest[d] = merged(s)
  BY <1>1, <1>2 DEF Done, exact
<1>5. at' \in [Path -> Directory]
  BY <1>1, <1>2 DEF Kinds
<1>6. mirrored'[d] \subseteq manifest'[d] /\ manifest'[d] \subseteq files[d]
  BY <1>1, <1>2, <1>3, <1>4
<1>7. \A p \in Path : at'[p] = at[p]
  BY <1>1
<1>8. QED
  BY <1>1, <1>3, <1>4, <1>5, <1>6, <1>7, LeavingKeeps

LEMMA GiveUpKeeps ==
    ASSUME StoreInv, NEW w \in Writer, GiveUp(w)
    PROVE  StoreInv'
<1> DEFINE s == writer[w]
           d == s.path
<1>1. Works(w) /\ Ends(w)
      /\ UNCHANGED <<made, files, temps, manifest, mirrored, astray, died>>
  BY DEF GiveUp, Works
<1>2. /\ Kinds /\ d \in Path /\ exact(manifest[d]) /\ manifest[d] \subseteq files[d]
      /\ mirrored[d] \subseteq manifest[d]
  BY <1>1, WorkerFacts
<1>3. exact(manifest'[d])
  BY <1>1, <1>2 DEF exact
<1>4. at' = at \/ (s.new /\ at' = [at EXCEPT ![d] = 0])
  BY Zenon DEF GiveUp
<1>5. astray' \in BOOLEAN
  BY <1>1, <1>2 DEF Kinds
<1>6. at' \in [Path -> Directory]
      /\ \A p \in Path : at'[p] = at[p] \/ (s.new /\ p = d /\ at'[p] = 0)
  <2>1. 0 \in Directory
    BY DirectoryAssumption DEF Directory
  <2>2. CASE at' = at
    BY <1>2, <2>2 DEF Kinds
  <2>3. CASE s.new /\ at' = [at EXCEPT ![d] = 0]
    BY <1>2, <2>1, <2>3 DEF Kinds
  <2>4. QED
    BY <1>4, <2>2, <2>3
<1>7. temps' \in [Path -> SUBSET Writer] /\ manifest' \in [Path -> SUBSET Entry]
      /\ mirrored' \in [Path -> SUBSET Entry]
  BY <1>1, <1>2 DEF Kinds
<1>8. QED
  BY <1>1, <1>2, <1>3, <1>5, <1>6, <1>7, LeavingKeeps

LEMMA FailKeeps ==
    ASSUME StoreInv, NEW w \in Writer, Fail(w)
    PROVE  StoreInv'
<1> DEFINE s == writer[w]
           d == s.path
<1>1. CASE Ends(w) /\ UNCHANGED <<temps, manifest>>
  BY <1>1, EndingKeeps DEF Fail, tree
<1>2. CASE /\ s.step # "rolling" /\ Works(w)
           /\ Clears(w, d)
           /\ manifest' = IF s.step = "sealed" THEN [manifest EXCEPT ![d] = {}] ELSE manifest
           /\ Goes(w, "rolling")
           /\ UNCHANGED holder
  <2>1. "rolling" \in Step /\ UNCHANGED <<at, made, files, mirrored, astray, died>>
    BY DEF Step, Fail
  <2>2. temps' \in [Path -> SUBSET Writer]
    BY <1>2 DEF StoreInv, Kinds, Clears
  <2>3. CASE s.step # "sealed"
    BY <1>2, <2>1, <2>2, <2>3, WorkGoesOn
  <2>4. CASE s.step = "sealed"
    <3>1. /\ Kinds /\ Done(w) /\ d \in Path /\ exact(merged(s)) /\ mirrored[d] = {}
      BY <1>2, <2>4, WorkerFacts DEF Done
    <3>2. /\ writer' \in [Writer -> State]
          /\ \A v \in Writer : v # w => writer'[v] = writer[v]
          /\ writer'[w].step = "rolling" /\ writer'[w].fetched = s.fetched
          /\ writer'[w].path = d /\ writer'[w].waits = s.waits /\ writer'[w].new = s.new
          /\ writer'[w].base = s.base /\ writer'[w].created = s.created
      BY <1>2, <2>1, <3>1, GoesFacts
    <3>3. manifest' \in [Path -> SUBSET Entry] /\ manifest'[d] = {}
          /\ \A p \in Path : p # d => manifest'[p] = manifest[p]
      BY <1>2, <2>4, <3>1 DEF Kinds
    <3>4. Works(w)' /\ exact(manifest'[d])
      BY <3>2, <3>3 DEF Works, exact
    <3>5. Done(w)'
      <4>1. exact(merged(writer[w]))'
        BY <3>1, <3>2 DEF exact, merged
      <4>2. QED
        BY <3>2, <3>3, <3>4, <4>1 DEF Done, merged
    <3>6. QED
      BY <1>2, <2>1, <2>2, <3>1, <3>2, <3>3, <3>4, <3>5, InsideKeeps DEF Kinds
  <2>5. QED
    BY <2>3, <2>4
<1>3. QED
  BY <1>1, <1>2 DEF Fail

-----------------------------------------------------------------------------
(* The invariant holds.                                                    *)

LEMMA InitHolds == Init => StoreInv
<1> SUFFICES ASSUME Init PROVE StoreInv
  OBVIOUS
<1>1. 0 \in Directory /\ \A w \in Writer : writer[w] = Idle
  BY DirectoryAssumption DEF Init, Directory
<1>2. Kinds
  BY <1>1, IdleFacts DEF Init, Kinds
<1>3. Bundles
  BY DEF Init, Bundles, ManifestTells, exact
<1>4. ASSUME NEW w \in Writer PROVE Placed(w) /\ Done(w) /\ ~ writer[w].new
  <2>1. ~ Works(w)
    BY <1>1, IdleFacts DEF Works
  <2>2. merged(Idle) = {} /\ exact({})
    BY IdleFacts DEF merged, exact
  <2>3. exact(merged(writer[w]))
    BY <1>1, <2>2
  <2>4. QED
    BY <1>1, <2>1, <2>3, IdleFacts DEF Placed, Done
<1>5. QED
  BY <1>2, <1>3, <1>4 DEF StoreInv, Apart

LEMMA NextHolds == StoreInv /\ [Next]_vars => StoreInv'
<1> SUFFICES ASSUME StoreInv, [Next]_vars PROVE StoreInv'
  OBVIOUS
<1>1. CASE UNCHANGED vars
  BY <1>1 DEF vars, tree, StoreInv, Kinds, Bundles, Apart, Placed, Done, ManifestTells, Works,
              merged, exact
<1>2. ASSUME NEW w \in Writer,
             \/ Mirror(w) \/ LockParent(w) \/ MakeParent(w) \/ Enter(w) \/ MakeAbove(w) \/ Claim(w)
             \/ LockRoot(w) \/ Load(w)
      PROVE  StoreInv'
  BY <1>2, MirrorKeeps, LockParentKeeps, MakeParentKeeps, EnterKeeps, MakeAboveKeeps, ClaimKeeps,
     LockRootKeeps, LoadKeeps
<1>3. ASSUME NEW w \in Writer,
             \/ WriteFile(w) \/ LinkFile(w) \/ DropName(w)
             \/ WriteManifest(w) \/ LinkManifest(w) \/ ReplaceManifest(w) \/ Finish(w)
      PROVE  StoreInv'
  BY <1>3, WriteFileKeeps, LinkFileKeeps, DropNameKeeps, WriteManifestKeeps, LinkManifestKeeps,
     ReplaceManifestKeeps, FinishKeeps
<1>4. ASSUME NEW w \in Writer, Fail(w) \/ RollBack(w) \/ GiveUp(w) \/ Die(w)
      PROVE  StoreInv'
  BY <1>4, FailKeeps, RollBackKeeps, GiveUpKeeps, DieKeeps
<1>5. QED
  BY <1>1, <1>2, <1>3, <1>4 DEF Next

\* In every state a writer that changes a bundle has its lock, and what it and
\* the manifests say of the files is so.
THEOREM StoreInvHolds == Spec => []StoreInv
BY InitHolds, NextHolds, PTL DEF Spec

\* Directories, files and writers are of the kinds the store knows, a manifest
\* names a version once, and whoever changes a bundle is in it and has its lock
\* (_locked_output_parent, _exclusive_directory_lock).
THEOREM TypeCorrect == Spec => []TypeOK
<1>1. StoreInv => TypeOK
  BY DEF StoreInv, TypeOK, Bundles, Placed, Owned
<1>2. QED
  BY <1>1, StoreInvHolds, PTL

\* What was mirrored stays in the manifest, and what the manifest names is there,
\* at whatever point writers fail or die (_commit_existing, _commit_new).
THEOREM ManifestIsTrue == Spec => []ManifestTells
<1>1. StoreInv => ManifestTells
  BY DEF StoreInv, Bundles
<1>2. QED
  BY <1>1, StoreInvHolds, PTL

-----------------------------------------------------------------------------
(* What a failure leaves.                                                  *)

\* A writer that has a temporary file.
Unfinished == {"temporary", "linked", "sealing", "replacing", "sealed"}

\* The file was made by whoever works there.
Made(e, d) == \E w \in Writer : Works(w) /\ writer[w].path = d /\ e \in writer[w].created

\* A manifest that is written, or about to be, names every file.
Covers(w) ==
    LET s == writer[w]
    IN /\ s.step \in {"sealing", "replacing", "sealed"} => files[s.path] \subseteq merged(s)
       /\ s.step = "sealed" => files[s.path] \subseteq s.created

\* While nobody was killed, a file that no manifest names was made by whoever
\* works there, and so was every temporary file.
Accounted ==
    ~ died =>
        /\ \A d \in Path :
              /\ \A e \in files[d] \ manifest[d] : Made(e, d)
              /\ \A w \in temps[d] : writer[w].step \in Unfinished /\ writer[w].path = d
        /\ \A w \in Writer : Covers(w)

\* What a writer that works knows of its bundle.
LEMMA AccountedHere ==
    ASSUME StoreInv, Accounted, ~ died, NEW w \in Writer, Works(w)
    PROVE  LET d == writer[w].path
           IN /\ files[d] \subseteq manifest[d] \cup writer[w].created
              /\ temps[d] \subseteq {w} /\ (w \in temps[d] => writer[w].step \in Unfinished)
              /\ Covers(w) /\ d \in Path
<1> DEFINE d == writer[w].path
<1>1. d \in Path /\ temps[d] \subseteq Writer
  BY FieldFacts DEF StoreInv, Kinds
<1>2. ASSUME NEW e \in files[d] \ manifest[d] PROVE e \in writer[w].created
  <2>1. PICK v \in Writer : Works(v) /\ writer[v].path = d /\ e \in writer[v].created
    BY <1>1 DEF Accounted, Made
  <2>2. v = w
    BY <2>1, OneWorker
  <2>3. QED
    BY <2>1, <2>2
<1>3. ASSUME NEW v \in temps[d] PROVE v = w /\ writer[v].step \in Unfinished
  <2>1. writer[v].step \in Unfinished /\ writer[v].path = d /\ v \in Writer
    BY <1>1 DEF Accounted
  <2>2. Works(v)
    BY <2>1 DEF Works, Unfinished
  <2>3. QED
    BY <2>1, <2>2, OneWorker
<1>4. QED
  BY <1>1, <1>2, <1>3 DEF Accounted

\* A step keeps what is accounted for if it does so in the bundle of its writer.
LEMMA AccountingStep ==
    ASSUME StoreInv, Accounted, ~ died, NEW w \in Writer,
           \A v \in Writer : v # w => writer'[v] = writer[v],
           \A d \in Path :
               \/ files'[d] = files[d] /\ manifest'[d] = manifest[d] /\ temps'[d] = temps[d]
               \/ Works(w) /\ d = writer[w].path,
           Works(w) =>
               LET d == writer[w].path
                   t == writer'[w]
               IN /\ \A e \in files'[d] \ manifest'[d] :
                        Works(w)' /\ t.path = d /\ e \in t.created
                  /\ temps'[d] \subseteq {w}
                  /\ w \in temps'[d] => t.step \in Unfinished /\ t.path = d,
           Covers(w)'
    PROVE  Accounted'
<1> DEFINE d == writer[w].path
<1>1. d \in Path /\ \A p \in Path : temps[p] \subseteq Writer
  BY FieldFacts DEF StoreInv, Kinds
<1>2. ASSUME NEW p \in Path PROVE \A e \in files'[p] \ manifest'[p] : Made(e, p)'
  <2>1. CASE Works(w) /\ p = d
    BY <2>1 DEF Made
  <2>2. CASE ~ (Works(w) /\ p = d)
    <3>1. ASSUME NEW e \in files[p] \ manifest[p] PROVE Made(e, p)'
      <4>1. PICK v \in Writer : Works(v) /\ writer[v].path = p /\ e \in writer[v].created
        BY <3>1 DEF Accounted, Made
      <4>2. v # w
        BY <2>2, <4>1
      <4>3. QED
        BY <4>1, <4>2 DEF Made, Works
    <3>2. QED
      BY <2>2, <3>1
  <2>3. QED
    BY <2>1, <2>2
<1>3. ASSUME NEW p \in Path, NEW v \in temps'[p]
      PROVE  writer'[v].step \in Unfinished /\ writer'[v].path = p
  <2>1. CASE Works(w) /\ p = d
    BY <1>3, <2>1
  <2>2. CASE ~ (Works(w) /\ p = d)
    <3>1. v \in temps[p] /\ v \in Writer
      BY <1>1, <1>3, <2>2
    <3>2. writer[v].step \in Unfinished /\ writer[v].path = p
      BY <3>1 DEF Accounted
    <3>3. v # w
      BY <2>2, <3>2 DEF Works, Unfinished
    <3>4. QED
      BY <3>1, <3>2, <3>3
  <2>3. QED
    BY <2>1, <2>2
<1>4. ASSUME NEW v \in Writer, v # w PROVE Covers(v)'
  <2>1. writer'[v] = writer[v] /\ writer[v].path \in Path /\ Covers(v)
    BY <1>4, FieldFacts DEF StoreInv, Kinds, Accounted
  <2>2. CASE writer[v].step \in {"sealing", "replacing", "sealed"}
    <3>1. Works(v)
      BY <2>2 DEF Works
    <3>2. ~ (Works(w) /\ writer[v].path = d)
      BY <1>4, <3>1, OneWorker
    <3>3. files'[writer[v].path] = files[writer[v].path]
      BY <2>1, <3>2
    <3>4. QED
      BY <2>1, <3>3 DEF Covers, merged
  <2>3. CASE writer[v].step \notin {"sealing", "replacing", "sealed"}
    BY <2>1, <2>3 DEF Covers
  <2>4. QED
    BY <2>2, <2>3
<1>5. QED
  BY <1>2, <1>3, <1>4 DEF Accounted

\* A writer that does not work yet makes no file.
LEMMA OutsideAccounts ==
    ASSUME StoreInv, Accounted, NEW w \in Writer,
           \/ Mirror(w) \/ LockParent(w) \/ MakeParent(w) \/ Enter(w) \/ MakeAbove(w) \/ Claim(w)
           \/ LockRoot(w) \/ Load(w)
    PROVE  Accounted'
<1>1. ~ Works(w) /\ UNCHANGED <<files, temps, manifest, died>>
  BY DEF Mirror, LockParent, MakeParent, Enter, MakeAbove, Claim, LockRoot, Load, Works, tree
<1>2. /\ \A v \in Writer : v # w => writer'[v] = writer[v]
      /\ writer'[w].step \notin {"sealing", "replacing", "sealed"}
  <2>1. writer \in [Writer -> State] /\ writer[w] \in State
    BY DEF StoreInv, Kinds
  <2>2. CASE Mirror(w)
    <3>1. PICK d \in Path, f \in Fetch :
              writer' = [writer EXCEPT ![w] =
                  [[Idle EXCEPT !.path = d, !.fetched = f,
                                !.waits = IF d = "inner" THEN at["outer"] ELSE 0]
                      EXCEPT !.step = "locking"]]
      BY <2>2 DEF Mirror
    <3>2. QED
      BY <2>1, <3>1 DEF Idle
  <2>3. CASE LockParent(w) \/ LockRoot(w) \/ MakeAbove(w)
    BY <2>1, <2>3, IdleFacts DEF LockParent, LockRoot, MakeAbove, Goes, Ends, State
  <2>4. CASE MakeParent(w) \/ Load(w)
    BY <2>1, <2>4 DEF MakeParent, Load, State
  <2>5. CASE Claim(w)
    <3>1. writer' = [writer EXCEPT ![w] =
              [writer[w] EXCEPT !.step = "opening", !.waits = made', !.new = TRUE,
                                !.pending = writer[w].fetched]]
      BY <2>5 DEF Claim
    <3>2. QED
      BY <2>1, <3>1 DEF State
  <2>6. CASE Enter(w)
    <3>1. CASE Ends(w)
      BY <2>1, <3>1, IdleFacts DEF Ends
    <3>2. CASE writer' = [writer EXCEPT ![w] =
                  IF at[writer[w].path] # 0
                  THEN [writer[w] EXCEPT !.step = "opening", !.waits = at[writer[w].path]]
                  ELSE [writer[w] EXCEPT !.step = "claiming"]]
      BY <2>1, <3>2 DEF State
    <3>3. QED
      BY <2>6, <3>1, <3>2 DEF Enter
  <2>7. QED
    BY <2>2, <2>3, <2>4, <2>5, <2>6
<1>3. Covers(w)'
  BY <1>2 DEF Covers
<1>4. CASE ~ died
  BY <1>1, <1>2, <1>3, <1>4, AccountingStep
<1>5. CASE died
  BY <1>1, <1>5 DEF Accounted
<1>6. QED
  BY <1>4, <1>5

LEMMA InsideAccounts ==
    ASSUME StoreInv, Accounted, NEW w \in Writer,
           WriteFile(w) \/ LinkFile(w) \/ DropName(w) \/ WriteManifest(w) \/ LinkManifest(w)
    PROVE  Accounted'
<1> DEFINE s == writer[w]
           t == writer'[w]
           d == s.path
<1>1. Works(w) /\ died' = died
  BY DEF WriteFile, LinkFile, DropName, WriteManifest, LinkManifest, Works
<1>2. Kinds /\ s \in State /\ d \in Path /\ Done(w)
  BY <1>1, WorkerFacts
<1>3. /\ \A v \in Writer : v # w => writer'[v] = writer[v]
      /\ \A p \in Path : p # d =>
            files'[p] = files[p] /\ manifest'[p] = manifest[p] /\ temps'[p] = temps[p]
      /\ t.path = d /\ Works(w)' /\ merged(t) = merged(s)
  <2>1. /\ \A v \in Writer : v # w => writer'[v] = writer[v]
        /\ \A p \in Path : p # d =>
              files'[p] = files[p] /\ manifest'[p] = manifest[p] /\ temps'[p] = temps[p]
    BY <1>2 DEF WriteFile, LinkFile, DropName, WriteManifest, LinkManifest, Goes, Writes, Clears,
                Kinds
  <2>2. CASE \E x \in {"temporary", "filling", "sealing", "replacing", "sealed"} : Goes(w, x)
    <3>1. PICK x \in {"temporary", "filling", "sealing", "replacing", "sealed"} : Goes(w, x)
      BY <2>2
    <3>2. x \in Step
      BY DEF Step
    <3>3. t.step = x /\ t.path = d /\ t.base = s.base /\ t.fetched = s.fetched
      BY <1>2, <3>1, <3>2, GoesFacts
    <3>4. QED
      BY <2>1, <3>3 DEF Works, merged
  <2>3. CASE LinkFile(w)
    <3>1. PICK e \in s.pending :
              writer' = [writer EXCEPT ![w].step = "linked", ![w].pending = @ \ {e},
                                       ![w].created = @ \cup {e}]
      BY <2>3 DEF LinkFile
    <3>2. t.step = "linked" /\ t.path = d /\ t.base = s.base /\ t.fetched = s.fetched
      BY <1>2, <3>1 DEF Kinds, State
    <3>3. QED
      BY <2>1, <3>2 DEF Works, merged
  <2>4. QED
    BY <2>1, <2>2, <2>3 DEF WriteFile, DropName, WriteManifest, LinkManifest
<1>4. CASE ~ died
  <2>1. /\ files[d] \subseteq manifest[d] \cup s.created
        /\ temps[d] \subseteq {w} /\ (w \in temps[d] => s.step \in Unfinished) /\ Covers(w)
    BY <1>1, <1>4, AccountedHere
  <2>2. /\ \A e \in files'[d] \ manifest'[d] : e \in t.created
        /\ temps'[d] \subseteq {w} /\ (w \in temps'[d] => t.step \in Unfinished) /\ Covers(w)'
    <3>1. CASE WriteFile(w)
      BY <1>2, <2>1, <3>1 DEF WriteFile, Goes, Writes, Kinds, State, Covers, Unfinished
    <3>2. CASE LinkFile(w)
      <4>1. PICK e \in s.pending :
                /\ files' = [files EXCEPT ![d] = @ \cup {e}]
                /\ writer' = [writer EXCEPT ![w].step = "linked", ![w].pending = @ \ {e},
                                            ![w].created = @ \cup {e}]
        BY <3>2 DEF LinkFile
      <4>2. /\ files'[d] = files[d] \cup {e} /\ manifest' = manifest /\ temps' = temps
            /\ t.step = "linked" /\ t.created = s.created \cup {e}
        BY <1>2, <3>2, <4>1 DEF LinkFile, Kinds, State
      <4>3. QED
        BY <2>1, <4>2 DEF Covers, Unfinished
    <3>3. CASE DropName(w)
      BY <1>2, <2>1, <3>3 DEF DropName, Goes, Clears, Kinds, State, Covers, Unfinished
    <3>4. CASE WriteManifest(w)
      <4>1. /\ files' = files /\ manifest' = manifest /\ temps'[d] = temps[d] \cup {w}
            /\ t.step \in {"sealing", "replacing"} /\ t.created = s.created
        BY <1>2, <3>4 DEF WriteManifest, Goes, Writes, Kinds, State
      <4>2. files[d] \subseteq merged(s)
        BY <3>4 DEF WriteManifest, complete, verified, untracked
      <4>3. QED
        BY <1>3, <2>1, <4>1, <4>2 DEF Covers, Unfinished
    <3>5. CASE LinkManifest(w)
      <4>1. /\ files' = files /\ manifest[d] = {} /\ manifest'[d] = merged(s) /\ temps' = temps
            /\ s.step = "sealing" /\ t.step = "sealed" /\ t.created = s.created
        BY <1>2, <3>5 DEF LinkManifest, Goes, Kinds, State
      <4>2. QED
        BY <1>3, <2>1, <4>1 DEF Covers, Unfinished
    <3>6. QED
      BY <3>1, <3>2, <3>3, <3>4, <3>5
  <2>3. QED
    BY <1>1, <1>2, <1>3, <1>4, <2>2, AccountingStep
<1>5. CASE died
  BY <1>1, <1>5 DEF Accounted
<1>6. QED
  BY <1>4, <1>5

LEMMA EndingAccounts ==
    ASSUME StoreInv, Accounted, NEW w \in Writer,
           ReplaceManifest(w) \/ Finish(w) \/ GiveUp(w)
    PROVE  Accounted'
<1> DEFINE s == writer[w]
           d == s.path
<1>1. Works(w) /\ died' = died /\ Ends(w) /\ UNCHANGED files
  BY DEF ReplaceManifest, Finish, GiveUp, Works
<1>2. Kinds /\ s \in State /\ d \in Path /\ Done(w) /\ s.created \subseteq Entry
  BY <1>1, WorkerFacts
<1>3. /\ \A v \in Writer : v # w => writer'[v] = writer[v]
      /\ \A p \in Path : p # d =>
            files'[p] = files[p] /\ manifest'[p] = manifest[p] /\ temps'[p] = temps[p]
      /\ writer'[w] = Idle
  <2>1. \A p \in Path : p # d => manifest'[p] = manifest[p] /\ temps'[p] = temps[p]
    BY <1>2 DEF ReplaceManifest, Finish, GiveUp, Clears, Kinds
  <2>2. QED
    BY <1>1, <1>2, <2>1, EndsFacts
<1>4. Covers(w)'
  BY <1>3, IdleFacts DEF Covers
<1>5. CASE ~ died
  <2>1. /\ files[d] \subseteq manifest[d] \cup s.created
        /\ temps[d] \subseteq {w} /\ (w \in temps[d] => s.step \in Unfinished) /\ Covers(w)
    BY <1>1, <1>5, AccountedHere
  <2>2. files'[d] \subseteq manifest'[d] /\ temps'[d] = {}
    <3>1. CASE ReplaceManifest(w)
      <4>1. s.step = "replacing" /\ manifest'[d] = merged(s) /\ temps'[d] = temps[d] \ {w}
        BY <1>2, <3>1 DEF ReplaceManifest, Clears, Kinds
      <4>2. QED
        BY <1>1, <2>1, <4>1 DEF Covers
    <3>2. CASE Finish(w)
      <4>1. s.step = "sealed" /\ manifest' = manifest /\ temps'[d] = temps[d] \ {w}
            /\ manifest[d] = merged(s)
        BY <1>2, <3>2 DEF Finish, Clears, Kinds, Done
      <4>2. QED
        BY <1>1, <2>1, <4>1 DEF Covers
    <3>3. CASE GiveUp(w)
      <4>1. s.step = "rolling" /\ s.created = {} /\ manifest' = manifest /\ temps' = temps
        BY <3>3 DEF GiveUp, undo
      <4>2. QED
        BY <1>1, <2>1, <4>1 DEF Unfinished
    <3>4. QED
      BY <3>1, <3>2, <3>3
  <2>3. QED
    BY <1>1, <1>2, <1>3, <1>4, <1>5, <2>2, AccountingStep
<1>6. CASE died
  BY <1>1, <1>6 DEF Accounted
<1>7. QED
  BY <1>5, <1>6

LEMMA FailureAccounts ==
    ASSUME StoreInv, Accounted, NEW w \in Writer, Fail(w) \/ RollBack(w)
    PROVE  Accounted'
<1> DEFINE s == writer[w]
           t == writer'[w]
           d == s.path
<1>1. died' = died /\ Kinds /\ s \in State /\ d \in Path
  BY FieldFacts DEF Fail, RollBack, StoreInv, Kinds
<1>2. CASE died
  BY <1>1, <1>2 DEF Accounted
<1>3. CASE ~ died /\ ~ Works(w)
  <2>1. Ends(w)
        /\ UNCHANGED <<files, temps, manifest>>
    BY <1>3 DEF Fail, RollBack, Works
  <2>2. /\ \A v \in Writer : v # w => writer'[v] = writer[v]
        /\ writer'[w] = Idle
    BY <1>1, <2>1, EndsFacts
  <2>3. Covers(w)'
    BY <2>2, IdleFacts DEF Covers
  <2>4. QED
    BY <1>3, <2>1, <2>2, <2>3, AccountingStep
<1>4. CASE ~ died /\ Works(w)
  <2>1. /\ files[d] \subseteq manifest[d] \cup s.created
        /\ temps[d] \subseteq {w} /\ (w \in temps[d] => s.step \in Unfinished) /\ Covers(w)
    BY <1>4, AccountedHere
  <2>2. CASE Fail(w)
    <3>1. /\ Clears(w, d) /\ Goes(w, "rolling") /\ UNCHANGED files
          /\ manifest' = IF s.step = "sealed" THEN [manifest EXCEPT ![d] = {}] ELSE manifest
      BY <1>4, <2>2 DEF Fail, Works
    <3>2. /\ \A v \in Writer : v # w => writer'[v] = writer[v]
          /\ t.step = "rolling" /\ t.path = d /\ t.created = s.created
      BY <1>1, <3>1 DEF Goes, Kinds, State
    <3>3. /\ \A p \in Path : p # d => manifest'[p] = manifest[p] /\ temps'[p] = temps[p]
          /\ temps'[d] = temps[d] \ {w}
      BY <1>1, <3>1 DEF Clears, Kinds
    <3>4. manifest'[d] = IF s.step = "sealed" THEN {} ELSE manifest[d]
      BY <1>1, <3>1 DEF Kinds
    <3>5. files'[d] \ manifest'[d] \subseteq t.created /\ temps'[d] = {}
      BY <2>1, <3>1, <3>2, <3>3, <3>4 DEF Covers
    <3>6. Works(w)' /\ Covers(w)'
      BY <3>2 DEF Works, Covers
    <3>7. QED
      BY <1>1, <1>4, <3>1, <3>2, <3>3, <3>5, <3>6, AccountingStep
  <2>3. CASE RollBack(w)
    <3>1. s.step = "rolling" /\ UNCHANGED <<temps, manifest>>
      BY <2>3 DEF RollBack
    <3>2. PICK e \in s.created :
              /\ files' = [files EXCEPT ![d] = @ \ {e}]
              /\ writer' = [writer EXCEPT ![w].created = @ \ {e}]
      BY <2>3 DEF RollBack, undo
    <3>3. /\ \A v \in Writer : v # w => writer'[v] = writer[v]
          /\ t.step = "rolling" /\ t.path = d /\ t.created = s.created \ {e}
          /\ files'[d] = files[d] \ {e} /\ \A p \in Path : p # d => files'[p] = files[p]
      BY <1>1, <3>1, <3>2 DEF Kinds, State
    <3>4. Works(w)' /\ Covers(w)'
      BY <3>3 DEF Works, Covers
    <3>5. files'[d] \ manifest'[d] \subseteq t.created /\ temps'[d] = {}
      BY <2>1, <3>1, <3>3 DEF Unfinished
    <3>6. QED
      BY <1>1, <1>4, <3>1, <3>3, <3>4, <3>5, AccountingStep
  <2>4. QED
    BY <2>2, <2>3
<1>5. QED
  BY <1>2, <1>3, <1>4

LEMMA AccountedNext == StoreInv /\ Accounted /\ [Next]_vars => Accounted'
<1> SUFFICES ASSUME StoreInv, Accounted, [Next]_vars PROVE Accounted'
  OBVIOUS
<1>1. CASE UNCHANGED vars
  BY <1>1 DEF vars, tree, Accounted, Made, Covers, Works, merged
<1>2. ASSUME NEW w \in Writer, Die(w) PROVE Accounted'
  BY <1>2 DEF Die, Accounted
<1>3. QED
  BY <1>1, <1>2, OutsideAccounts, InsideAccounts, EndingAccounts, FailureAccounts DEF Next

\* A writer that fails leaves no file behind, whatever the others do meanwhile
\* (_commit_new, _commit_existing: their handlers take back what was created).
THEOREM NothingLeftBehind == Spec => []FailureLeavesNothing
<1>1. Init => Accounted
  <2>1. SUFFICES ASSUME Init PROVE Accounted
    OBVIOUS
  <2>2. \A w \in Writer : Covers(w)
    BY <2>1, IdleFacts DEF Init, Covers
  <2>3. QED
    BY <2>1, <2>2 DEF Init, Accounted
<1>2. StoreInv /\ Accounted => FailureLeavesNothing
  <2> SUFFICES ASSUME StoreInv, Accounted, ~ died, \A w \in Writer : writer[w].step = "idle",
                      NEW d \in Path
               PROVE  files[d] = manifest[d] /\ temps[d] = {}
    BY DEF FailureLeavesNothing
  <2>1. manifest[d] \subseteq files[d] /\ temps[d] \subseteq Writer
    BY DEF StoreInv, Kinds, Bundles, ManifestTells
  <2>2. \A w \in Writer : ~ Works(w) /\ writer[w].step \notin Unfinished
    BY DEF Works, Unfinished
  <2>3. files[d] \subseteq manifest[d]
    BY <2>2 DEF Accounted, Made
  <2>4. temps[d] = {}
    BY <2>1, <2>2 DEF Accounted
  <2>5. QED
    BY <2>1, <2>3, <2>4
<1>3. QED
  BY <1>1, <1>2, AccountedNext, StoreInvHolds, PTL DEF Spec

-----------------------------------------------------------------------------
(* Bundles in bundles.                                                     *)

\* A writer that went into the outer directory, to work there.
Inside(w) ==
    /\ writer[w].path = "inner"
    /\ writer[w].step \in {"claiming", "claimed", "opening", "loading"} \/ Works(w)

\* It holds the lock of the outer directory, and found no bundle there, and whoever
\* is about to go there holds the lock it waited for; a manifest of the outer bundle
\* is not written when there is an inner one.
Guarded(w) ==
    LET s == writer[w]
    IN /\ s.path = "inner" /\ s.step = "entering" => s.waits # 0 /\ holder[s.waits] = w
       /\ Inside(w) => at["outer"] # 0 /\ holder[at["outer"]] = w /\ manifest["outer"] = {}
       /\ s.path = "outer" /\ s.step \in {"sealing", "replacing", "sealed"} =>
              manifest["inner"] = {}

Excluded == ~ astray => NotNested /\ \A w \in Writer : Guarded(w)

LEMMA OthersGuarded ==
    ASSUME StoreInv, ~ astray, NEW w \in Writer, NEW v \in Writer, v # w,
           Guarded(v), Guarded(w), writer'[v] = writer[v],
           \A i \in Directory : holder'[i] = holder[i] \/ holder[i] \in {w, Nobody},
           at'["outer"] = at["outer"] \/ at["outer"] = 0 \/ (Works(w) /\ writer[w].path = "outer"),
           \A d \in Path : manifest'[d] = manifest[d] \/ (Works(w) /\ d = writer[w].path)
    PROVE  Guarded(v)'
<1> DEFINE s == writer[v]
<1>1. s \in State /\ Kinds /\ at["outer"] \in Directory /\ "outer" \in Path /\ "inner" \in Path
  BY DEF StoreInv, Kinds, Path
<1>2. Inside(v)' <=> Inside(v)
  BY DEF Inside, Works
<1>3. s.path = "inner" /\ s.step = "entering" => s.waits # 0 /\ holder'[s.waits] = v
  BY <1>1, FieldFacts, WriterAssumption DEF Guarded
<1>4. ASSUME Inside(v)
      PROVE  at'["outer"] # 0 /\ holder'[at'["outer"]] = v /\ manifest'["outer"] = {}
  <2>1. at["outer"] # 0 /\ holder[at["outer"]] = v /\ manifest["outer"] = {}
    BY <1>4 DEF Guarded
  <2>2. at'["outer"] = at["outer"] /\ v # Nobody
    BY <2>1, WriterAssumption DEF StoreInv, Placed
  <2>3. holder'[at["outer"]] = v
    BY <1>1, <2>1, <2>2
  <2>4. ~ (Works(w) /\ writer[w].path = "outer")
    BY <2>1 DEF StoreInv, Placed
  <2>5. QED
    BY <1>1, <2>1, <2>2, <2>3, <2>4
<1>5. ASSUME s.path = "outer", s.step \in {"sealing", "replacing", "sealed"}
      PROVE  manifest'["inner"] = {}
  <2>1. Works(v) /\ holder[at["outer"]] = v
    BY <1>5 DEF Works, StoreInv, Placed
  <2>2. ~ (Works(w) /\ writer[w].path = "inner")
    BY <2>1 DEF Guarded, Inside
  <2>3. QED
    BY <1>1, <1>5, <2>2 DEF Guarded
<1>6. QED
  BY <1>2, <1>3, <1>4, <1>5 DEF Guarded

\* A step keeps bundles apart if its writer is guarded afterwards, and changes a
\* manifest only in its own bundle and with no manifest in the other.
LEMMA GuardStep ==
    ASSUME StoreInv, Excluded, astray' = astray, NEW w \in Writer,
           \A v \in Writer : v # w => writer'[v] = writer[v],
           \A i \in Directory : holder'[i] = holder[i] \/ holder[i] \in {w, Nobody},
           at'["outer"] = at["outer"] \/ at["outer"] = 0 \/ (Works(w) /\ writer[w].path = "outer"),
           \A d \in Path : manifest'[d] = manifest[d] \/ (Works(w) /\ d = writer[w].path),
           ~ astray /\ (\A v \in Writer : Guarded(v)) => Guarded(w)',
           ~ astray /\ Guarded(w) /\ NotNested => NotNested'
    PROVE  Excluded'
<1> SUFFICES ASSUME ~ astray PROVE NotNested' /\ \A v \in Writer : Guarded(v)'
  BY DEF Excluded
<1>1. NotNested /\ \A v \in Writer : Guarded(v)
  BY DEF Excluded
<1>2. \A v \in Writer : v # w => Guarded(v)'
  BY <1>1, OthersGuarded
<1>3. QED
  BY <1>1, <1>2

LEMMA IdleGuarded ==
    ASSUME NEW w \in Writer, writer'[w] = Idle
    PROVE  Guarded(w)'
BY IdleFacts DEF Guarded, Inside, Works

\* A writer that ends, with its directories where they were.
LEMMA EndingExcludes ==
    ASSUME StoreInv, Excluded, NEW w \in Writer, Ends(w), astray' = astray, UNCHANGED at,
           \A d \in Path : manifest'[d] = manifest[d] \/ (Works(w) /\ d = writer[w].path),
           ~ astray /\ Guarded(w) /\ NotNested => NotNested'
    PROVE  Excluded'
<1>1. Kinds
  BY DEF StoreInv
<1>2. Guarded(w)'
  BY <1>1, EndsFacts, IdleGuarded
<1>3. /\ \A v \in Writer : v # w => writer'[v] = writer[v]
      /\ \A i \in Directory : holder'[i] = holder[i] \/ holder[i] \in {w, Nobody}
  BY <1>1, EndsFacts
<1>4. QED
  BY <1>2, <1>3, GuardStep

\* A writer in its bundle goes on there.
LEMMA WorkExcludes ==
    ASSUME StoreInv, Excluded, NEW w \in Writer, Works(w), Works(w)',
           writer'[w].path = writer[w].path,
           UNCHANGED <<at, holder, astray>>,
           \A v \in Writer : v # w => writer'[v] = writer[v],
           \A d \in Path : d # writer[w].path => manifest'[d] = manifest[d],
           writer'[w].step \in {"sealing", "replacing", "sealed"} =>
               \/ writer[w].step \in {"sealing", "replacing", "sealed"}
               \/ writer[w].path = "outer" => manifest["inner"] = {},
           \/ manifest'[writer[w].path] \in {{}, manifest[writer[w].path]}
           \/ writer[w].step \in {"sealing", "replacing", "sealed"}
    PROVE  Excluded'
<1> DEFINE d == writer[w].path
<1>1. d \in Path /\ "outer" \in Path /\ "inner" \in Path /\ Path = {"outer", "inner"}
  BY FieldFacts DEF StoreInv, Kinds, Path
<1>2. ASSUME Guarded(w) PROVE Guarded(w)'
  <2>1. Inside(w)' => Inside(w)
    BY DEF Inside
  <2>2. writer'[w].step # "entering"
    BY DEF Works
  <2>3. d = "inner" => manifest'["outer"] = manifest["outer"]
    BY <1>1
  <2>4. d = "outer" => manifest'["inner"] = manifest["inner"]
    BY <1>1
  <2>5. Inside(w) => d = "inner"
    BY DEF Inside
  <2>6. QED
    BY <1>2, <2>1, <2>2, <2>3, <2>4, <2>5 DEF Guarded
<1>3. ASSUME Guarded(w), NotNested, ~ astray PROVE NotNested'
  <2>1. CASE manifest'[d] \in {{}, manifest[d]}
    BY <1>1, <1>3, <2>1 DEF NotNested
  <2>2. CASE d = "outer" /\ writer[w].step \in {"sealing", "replacing", "sealed"}
    BY <1>1, <1>3, <2>2 DEF NotNested, Guarded
  <2>3. CASE d = "inner"
    BY <1>1, <1>3, <2>3 DEF NotNested, Guarded, Inside
  <2>4. QED
    BY <1>1, <2>1, <2>2, <2>3
<1>4. QED
  BY <1>2, <1>3, GuardStep

LEMMA LockingExcludes ==
    ASSUME StoreInv, Excluded, NEW w \in Writer, Mirror(w) \/ LockParent(w) \/ MakeParent(w)
    PROVE  Excluded'
<1> DEFINE s == writer[w]
           t == writer'[w]
<1>1. Kinds /\ s \in State /\ "outer" \in Path /\ "inner" \in Path /\ at["outer"] \in Directory
      /\ s.waits \in Directory
  BY FieldFacts DEF StoreInv, Kinds, Path
<1>2. UNCHANGED <<manifest, astray>>
  BY DEF Mirror, LockParent, MakeParent, tree
<1>3. NotNested => NotNested'
  BY <1>2 DEF NotNested
<1>4. CASE Mirror(w)
  <2>1. PICK d \in Path, f \in Fetch :
            writer' = [writer EXCEPT ![w] =
                [[Idle EXCEPT !.path = d, !.fetched = f,
                              !.waits = IF d = "inner" THEN at["outer"] ELSE 0]
                    EXCEPT !.step = "locking"]]
    BY <1>4 DEF Mirror
  <2>2. /\ \A v \in Writer : v # w => writer'[v] = writer[v]
        /\ t.step = "locking" /\ t.waits \in {0, at["outer"]}
    BY <1>1, <2>1 DEF Kinds, Idle
  <2>3. UNCHANGED <<at, holder>>
    BY <1>4 DEF Mirror, tree
  <2>4. Guarded(w)'
    BY <2>2, <2>3 DEF Guarded, Inside, Works
  <2>5. QED
    BY <1>2, <1>3, <2>2, <2>3, <2>4, GuardStep
<1>5. CASE LockParent(w)
  <2>1. UNCHANGED at /\ s.step = "locking" /\ holder[s.waits] = Nobody
    BY <1>5 DEF LockParent, tree, free
  <2>2. CASE Ends(w)
    BY <1>2, <1>3, <2>1, <2>2, EndingExcludes
  <2>3. CASE ~ insideBundle(s) /\ holder' = [holder EXCEPT ![s.waits] = w]
             /\ Goes(w, IF s.path = "inner" /\ s.waits = 0 THEN "making" ELSE "entering")
    <3>1. /\ \A v \in Writer : v # w => writer'[v] = writer[v]
          /\ t.step = (IF s.path = "inner" /\ s.waits = 0 THEN "making" ELSE "entering")
          /\ t.path = s.path /\ t.waits = s.waits
      BY <1>1, <2>3 DEF Kinds, State, Goes
    <3>2. holder'[s.waits] = w
          /\ \A i \in Directory : holder'[i] = holder[i] \/ holder[i] \in {w, Nobody}
      BY <1>1, <2>1, <2>3 DEF Kinds
    <3>3. Guarded(w)'
      BY <3>1, <3>2 DEF Guarded, Inside, Works
    <3>4. QED
      BY <1>2, <1>3, <2>1, <3>1, <3>2, <3>3, GuardStep
  <2>4. QED
    BY <1>5, <2>2, <2>3 DEF LockParent
<1>6. CASE MakeParent(w)
  <2>1. /\ \A v \in Writer : v # w => writer'[v] = writer[v]
        /\ t.step = "locking" /\ t.waits = at'["outer"]
    BY <1>1, <1>6 DEF MakeParent, Kinds, State
  <2>2. UNCHANGED holder /\ (at["outer"] # 0 => at' = at)
    BY <1>6 DEF MakeParent
  <2>3. Guarded(w)'
    BY <2>1 DEF Guarded, Inside, Works
  <2>4. QED
    BY <1>2, <1>3, <2>1, <2>2, <2>3, GuardStep
<1>7. QED
  BY <1>4, <1>5, <1>6

LEMMA EnteringExcludes ==
    ASSUME StoreInv, Excluded, NEW w \in Writer,
           Enter(w) \/ MakeAbove(w) \/ Claim(w) \/ LockRoot(w) \/ Load(w)
    PROVE  Excluded'
<1> DEFINE s == writer[w]
           t == writer'[w]
           d == s.path
<1>1. Kinds /\ s \in State /\ d \in Path /\ Path = {"outer", "inner"} /\ at["outer"] \in Directory
      /\ s.waits \in Directory
  BY FieldFacts DEF StoreInv, Kinds, Path
<1>2. UNCHANGED manifest
  BY DEF Enter, MakeAbove, Claim, LockRoot, Load, tree
<1>3. NotNested /\ UNCHANGED astray => NotNested'
  BY <1>2 DEF NotNested
<1>4. ASSUME Ends(w), UNCHANGED <<at, astray>> PROVE Excluded'
  BY <1>2, <1>3, <1>4, EndingExcludes
<1>5. ASSUME t.path = d, t.step \in {"claimed", "opening", "loading", "filling"}, UNCHANGED astray,
             s.step \in {"claiming", "claimed", "opening", "loading"},
             \A v \in Writer : v # w => writer'[v] = writer[v],
             \A i \in Directory : holder'[i] = holder[i] \/ (holder[i] = Nobody /\ holder'[i] = w),
             at'["outer"] = at["outer"] \/ at["outer"] = 0
      PROVE  Excluded'
  <2>1. ASSUME Guarded(w) PROVE Guarded(w)'
    <3>1. Inside(w)' => Inside(w)
      BY <1>5 DEF Inside
    <3>2. Inside(w) => at'["outer"] = at["outer"] /\ holder'[at["outer"]] = w
      BY <1>1, <1>5, <2>1, WriterAssumption DEF Guarded
    <3>3. QED
      BY <1>2, <1>5, <2>1, <3>1, <3>2 DEF Guarded
  <2>2. QED
    BY <1>2, <1>3, <1>5, <2>1, GuardStep
<1>6. CASE LockRoot(w)
  <2>1. t.path = d /\ t.step \in {"loading", "filling"} /\ s.step = "opening"
        /\ \A v \in Writer : v # w => writer'[v] = writer[v]
    BY <1>1, <1>6 DEF LockRoot, Goes, Kinds, State
  <2>2. UNCHANGED <<at, astray>>
        /\ \A i \in Directory : holder'[i] = holder[i] \/ (holder[i] = Nobody /\ holder'[i] = w)
    BY <1>1, <1>6 DEF LockRoot, tree, free, Kinds
  <2>3. QED
    BY <1>5, <2>1, <2>2
<1>7. CASE Load(w)
  <2>1. t.path = d /\ t.step = "filling" /\ s.step = "loading"
        /\ \A v \in Writer : v # w => writer'[v] = writer[v]
    BY <1>1, <1>7 DEF Load, Kinds, State
  <2>2. UNCHANGED <<at, holder, astray>>
    BY <1>7 DEF Load, tree
  <2>3. QED
    BY <1>5, <2>1, <2>2
<1>8. CASE MakeAbove(w)
  <2>1. t.path = d /\ t.step = "claimed" /\ s.step = "claiming"
        /\ \A v \in Writer : v # w => writer'[v] = writer[v]
    BY <1>1, <1>8 DEF MakeAbove, Goes, Kinds, State
  <2>2. UNCHANGED <<holder, astray>> /\ at["outer"] = 0
    BY <1>8 DEF MakeAbove
  <2>3. QED
    BY <1>5, <2>1, <2>2
<1>9. CASE Claim(w)
  <2>1. t.path = d /\ t.step = "opening" /\ s.step \in {"claiming", "claimed"}
        /\ \A v \in Writer : v # w => writer'[v] = writer[v]
    BY <1>1, <1>9 DEF Claim, Kinds, State
  <2>2. UNCHANGED <<holder, astray>> /\ (at'["outer"] = at["outer"] \/ at["outer"] = 0)
    BY <1>1, <1>9 DEF Claim, Kinds
  <2>3. QED
    BY <1>5, <2>1, <2>2
<1>10. CASE Enter(w)
  <2>1. CASE insideBundle(s)
    <3>1. Ends(w) /\ UNCHANGED <<at, astray>>
      BY <1>10, <2>1 DEF Enter
    <3>2. QED
      BY <1>4, <3>1
  <2>2. CASE ~ insideBundle(s)
    <3>1. /\ s.step = "entering" /\ UNCHANGED <<at, holder>>
          /\ writer' = [writer EXCEPT ![w] =
                 IF at[d] # 0 THEN [s EXCEPT !.step = "opening", !.waits = at[d]]
                              ELSE [s EXCEPT !.step = "claiming"]]
          /\ astray' = (astray \/ (d = "inner" /\ at["outer"] # s.waits))
      BY <1>10, <2>2 DEF Enter
    <3>2. t.path = d /\ t.step \in {"opening", "claiming"}
          /\ \A v \in Writer : v # w => writer'[v] = writer[v]
      BY <1>1, <3>1 DEF Kinds, State
    <3>3. CASE astray'
      BY <3>3 DEF Excluded
    <3>4. CASE ~ astray'
      <4>1. ~ astray /\ (d = "inner" => at["outer"] = s.waits)
        BY <3>1, <3>4
      <4>2. UNCHANGED astray
        BY <1>1, <3>1, <4>1 DEF Kinds
      <4>3. d = "inner" => manifest["outer"] = {}
        BY <2>2 DEF insideBundle
      <4>4. ASSUME Guarded(w) PROVE Guarded(w)'
        <5>1. d = "inner" => s.waits # 0 /\ holder[s.waits] = w
          BY <3>1, <4>4 DEF Guarded
        <5>2. Inside(w)' => d = "inner"
          BY <3>2 DEF Inside
        <5>3. QED
          BY <1>2, <3>1, <3>2, <4>1, <4>3, <5>1, <5>2 DEF Guarded
      <4>5. QED
        BY <1>2, <1>3, <3>1, <3>2, <4>2, <4>4, GuardStep
    <3>5. QED
      BY <3>3, <3>4
  <2>3. QED
    BY <2>1, <2>2
<1>11. QED
  BY <1>6, <1>7, <1>8, <1>9, <1>10

LEMMA FilingExcludes ==
    ASSUME StoreInv, Excluded, NEW w \in Writer,
           \/ WriteFile(w) \/ LinkFile(w) \/ DropName(w) \/ WriteManifest(w) \/ LinkManifest(w)
           \/ RollBack(w) \/ (Fail(w) /\ Works(w))
    PROVE  Excluded'
<1> DEFINE s == writer[w]
           t == writer'[w]
           d == s.path
           Sealing == {"sealing", "replacing", "sealed"}
<1>1. Works(w) /\ UNCHANGED <<at, holder, astray>>
  BY DEF WriteFile, LinkFile, DropName, WriteManifest, LinkManifest, RollBack, Fail, Works
<1>2. Kinds /\ s \in State /\ d \in Path
  BY <1>1, WorkerFacts
<1>3. CASE LinkFile(w) \/ RollBack(w)
  <2>1. PICK e \in Entry :
            \/ /\ writer' = [writer EXCEPT ![w].step = "linked", ![w].pending = @ \ {e},
                                           ![w].created = @ \cup {e}]
            \/ s.step = "rolling" /\ writer' = [writer EXCEPT ![w].created = @ \ {e}]
    BY <1>2, <1>3, FieldFacts DEF LinkFile, RollBack, undo
  <2>2. t.path = d /\ t.step \in {"linked", "rolling"}
        /\ \A v \in Writer : v # w => writer'[v] = writer[v]
    BY <1>2, <2>1 DEF Kinds, State
  <2>3. Works(w)' /\ t.step \notin Sealing
    BY <2>2 DEF Works
  <2>4. manifest' = manifest
    BY <1>3 DEF LinkFile, RollBack
  <2>5. QED
    BY <1>1, <2>2, <2>3, <2>4, WorkExcludes
<1>4. CASE ~ (LinkFile(w) \/ RollBack(w))
  <2>1. PICK x \in {"temporary", "filling", "sealing", "replacing", "sealed", "rolling"} :
            /\ Goes(w, x)
            /\ x \in {"sealing", "replacing"} => WriteManifest(w)
            /\ x = "sealed" => s.step = "sealing"
    BY <1>1, <1>4 DEF WriteFile, DropName, WriteManifest, LinkManifest, Fail, Works
  <2>2. t.path = d /\ t.step = x
        /\ \A v \in Writer : v # w => writer'[v] = writer[v]
    BY <1>2, <2>1 DEF Goes, Kinds, State
  <2>3. Works(w)'
    BY <2>2 DEF Works
  <2>4. /\ \A p \in Path : p # d => manifest'[p] = manifest[p]
        /\ manifest'[d] \in {{}, manifest[d]} \/ s.step \in Sealing
    BY <1>2, <1>4 DEF WriteFile, DropName, WriteManifest, LinkManifest, Fail, Kinds
  <2>5. x \in {"sealing", "replacing"} => (d = "outer" => manifest["inner"] = {})
    BY <2>1 DEF WriteManifest, complete, verified, untracked
  <2>6. t.step \in Sealing =>
            \/ s.step \in Sealing
            \/ d = "outer" => manifest["inner"] = {}
    BY <2>1, <2>2, <2>5
  <2>7. QED
    BY <1>1, <2>2, <2>3, <2>4, <2>6, WorkExcludes
<1>5. QED
  BY <1>3, <1>4

LEMMA EndsExclude ==
    ASSUME StoreInv, Excluded, NEW w \in Writer,
           \/ ReplaceManifest(w) \/ Finish(w) \/ GiveUp(w) \/ Die(w)
           \/ (Fail(w) /\ ~ Works(w))
    PROVE  Excluded'
<1> DEFINE s == writer[w]
           d == s.path
<1>1. Kinds /\ d \in Path /\ Path = {"outer", "inner"}
  BY FieldFacts DEF StoreInv, Kinds, Path
<1>2. CASE ReplaceManifest(w)
  <2>1. Works(w) /\ s.step = "replacing" /\ Ends(w) /\ UNCHANGED <<at, astray>>
        /\ \A p \in Path : p # d => manifest'[p] = manifest[p]
    BY <1>1, <1>2 DEF ReplaceManifest, Works, Kinds
  <2>2. ASSUME Guarded(w), NotNested, ~ astray PROVE NotNested'
    <3>1. CASE d = "outer"
      BY <1>1, <2>1, <2>2, <3>1 DEF NotNested, Guarded
    <3>2. CASE d = "inner"
      BY <1>1, <2>1, <2>2, <3>2 DEF NotNested, Guarded, Inside
    <3>3. QED
      BY <1>1, <3>1, <3>2
  <2>3. QED
    BY <2>1, <2>2, EndingExcludes
<1>3. CASE Finish(w) \/ Die(w) \/ (Fail(w) /\ ~ Works(w))
  <2>1. Ends(w) /\ UNCHANGED <<at, astray, manifest>>
    BY <1>3 DEF Finish, Die, Fail, tree
  <2>2. NotNested => NotNested'
    BY <2>1 DEF NotNested
  <2>3. QED
    BY <2>1, <2>2, EndingExcludes
<1>4. CASE GiveUp(w)
  <2>1. Works(w) /\ Ends(w) /\ UNCHANGED <<manifest, astray>>
        /\ (at'["outer"] = at["outer"] \/ d = "outer")
    BY <1>1, <1>4 DEF GiveUp, Works, Kinds
  <2>2. /\ \A v \in Writer : v # w => writer'[v] = writer[v]
        /\ \A i \in Directory : holder'[i] = holder[i] \/ holder[i] \in {w, Nobody}
        /\ writer'[w] = Idle
    BY <1>1, <2>1, EndsFacts
  <2>3. Guarded(w)' /\ (NotNested => NotNested')
    BY <2>1, <2>2, IdleGuarded DEF NotNested
  <2>4. QED
    BY <2>1, <2>2, <2>3, GuardStep
<1>5. QED
  BY <1>2, <1>3, <1>4

LEMMA ExcludedNext == StoreInv /\ Excluded /\ [Next]_vars => Excluded'
<1> SUFFICES ASSUME StoreInv, Excluded, [Next]_vars PROVE Excluded'
  OBVIOUS
<1>1. CASE UNCHANGED vars
  BY <1>1 DEF vars, tree, Excluded, Guarded, Inside, Works, NotNested
<1>2. QED
  BY <1>1, LockingExcludes, EnteringExcludes, FilingExcludes, EndsExclude DEF Next

\* No bundle comes to lie in another, unless a writer went on below a directory
\* that was not there any more (_reject_bundle_ancestor, _locked_output_parent):
\* whoever goes into a directory holds its lock and looks for a bundle there, and
\* whoever seals a bundle has looked at everything below it.
THEOREM BundlesApart == Spec => []NotNested
<1>1. Init => Excluded
  <2>1. SUFFICES ASSUME Init PROVE Excluded
    OBVIOUS
  <2>2. \A w \in Writer : Guarded(w)
    BY <2>1, IdleFacts DEF Init, Guarded, Inside, Works
  <2>3. QED
    BY <2>1, <2>2 DEF Init, Excluded, NotNested, Path
<1>2. Excluded => NotNested
  BY DEF Excluded, NotNested
<1>3. QED
  BY <1>1, <1>2, ExcludedNext, StoreInvHolds, PTL DEF Spec

=============================================================================
