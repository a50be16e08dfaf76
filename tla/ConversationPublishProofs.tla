---------------------- MODULE ConversationPublishProofs ----------------------
(***************************************************************************)
(* Proofs about ConversationPublish, for every number of commands and of   *)
(* conversations: type correctness, that a receipt stays readable and says *)
(* what is so, that only the own conversation is touched and none is       *)
(* deleted under its publication, and the refinements of OneShot and of    *)
(* Publication.                                                            *)
(*                                                                         *)
(* There are two layers.  ReceiptInv is about the receipt: whoever holds   *)
(* the lock knows the last record, stages only rise, and so an intent is   *)
(* written and asked for once, also by a page that outlives its process.   *)
(* AccountInv rests on it: because each request is made once, what can     *)
(* still happen to a conversation is known from the requests on their way, *)
(* and what a command saw of it stays true until its record is stored.     *)
(*                                                                         *)
(* Each kind of step is characterised once (Appending and Founded for what *)
(* is stored, Asking for requests, Provided for the provider) and the      *)
(* invariants are shown to be preserved by the kind.                       *)
(***************************************************************************)
EXTENDS ConversationPublish, TLAPS

\* How far a publication is.
Rank ==
    [s \in Stage |->
        CASE s = "prepared" -> 0
          [] s = "conversation_bound" -> 1
          [] s = "file_bound" -> 2
          [] s = "conversion_pending" -> 3
          [] s = "conversion_bound" -> 4
          [] s = "privacy_pending" -> 5
          [] s = "converted" -> 6
          [] s = "private" -> 7
          [] s = "public_bound" -> 8
          [] s = "published" -> 9
          [] s = "unpublished" -> 10
          [] s = "deleted" -> 11]

last == log[Len(log)]

\* The steps of the command that creates, and of those that work on what is
\* there.
Creator == {"prompting", "waiting", "filed", "intended", "converting", "hiding", "exposing",
            "exposed", "bound", "publishing", "mapped"}
Opener == {"planning", "allowed", "privatizing", "withdrawn", "withdrawing", "removing"}

\* A command, or a page it left, that has loaded the receipt.
Working(p) == session[p].step \in Creator \cup Opener

\* What is next at this step, with the receipt r, is to ask for m.
asks(step, r, m) ==
    \/ m = "prompt" /\ step = "prompting"
    \/ m = "convert" /\ step = "intended"
    \/ m = "publish" /\ step = "bound" /\ r.requestedPublic
    \/ m = "privatize" /\ step = "allowed"

Asks(p, m) == asks(session[p].step, session[p].receipt, m)

\* The stages a receipt may have at a step.
stagesAt(step) ==
    CASE step = "prompting" -> {"prepared"}
      [] step = "waiting" -> {"prepared", "conversation_bound"}
      [] step = "filed" -> {"file_bound"}
      [] step \in {"intended", "converting", "hiding", "exposing"} -> {"conversion_pending"}
      [] step \in {"exposed", "bound", "publishing"} -> {"converted"}
      [] step \in {"mapped", "withdrawn"} -> {"public_bound"}
      [] step \in {"allowed", "privatizing"} -> {"privacy_pending"}
      [] OTHER -> Stage

Locked ==
    \A p \in Process :
        session[p].alive /\ session[p].step \notin {"none", "creating"} => owner = p

\* Only a page that was about to ask is left behind.
Attended == \A p \in Process : session[p].step = "opening" => session[p].alive

\* What a command knows of the receipt, and the page it leaves.
Knows(p) ==
    Working(p) =>
        /\ log # <<>>
        /\ validValue(session[p].receipt)
        /\ session[p].receipt.stage \in stagesAt(session[p].step)
        /\ session[p].alive => session[p].receipt = last /\ ~ torn

Fresh ==
    /\ ~ exists => log = <<>> /\ ~ torn /\ \A p \in Process : session[p].step # "creating"
    /\ \A p \in Process :
          session[p].step = "creating" =>
              /\ log = <<>> /\ ~ torn /\ session[p].receipt = Prepared(FALSE)
              /\ session[p].alive
              /\ \A q \in Process : session[q].step = "creating" => q = p

Ordered == \A i \in 1 .. Len(log) : Rank[log[i].stage] <= Rank[last.stage]

\* A mutation was asked for at most once, with its intent on disk.
Counted ==
    \A m \in Mutation :
        attempts[m] \in {0, 1} /\ (attempts[m] = 1 => m \in intendedNow)

\* Whoever is about to ask for a mutation is the first and the only one.
Ready ==
    \A p \in Process, m \in Mutation :
        Asks(p, m) =>
            /\ m \in intendedNow /\ attempts[m] = 0
            /\ \A q \in Process : Asks(q, m) => q = p

\* The receipt, its commands and what they ask for.
ReceiptInv ==
    /\ TypeOK /\ Locked /\ Attended /\ \A p \in Process : Knows(p)
    /\ Fresh /\ Readable /\ Ordered /\ Counted /\ Ready

-----------------------------------------------------------------------------
(* Stages and records.                                                     *)

\* What may come after a stage is a stage behind it.
LEMMA TransitionsRise ==
    ASSUME NEW s \in Stage, NEW t \in Transitions[s]
    PROVE  t \in Stage /\ Rank[s] < Rank[t]
BY DEF Transitions, Rank, Stage, Preconversion, CoreStage, PublicStage

LEMMA RankType == \A s \in Stage : Rank[s] \in Int
BY DEF Rank, Stage, Preconversion, CoreStage, PublicStage

LEMMA PreparedIsValid ==
    ASSUME NEW requested \in BOOLEAN
    PROVE  /\ Prepared(requested) \in Record /\ validValue(Prepared(requested))
           /\ Prepared(requested).stage = "prepared"
           /\ ~ Prepared(requested).artifact
           /\ \A m \in Mutation : intends(Prepared(requested), m) <=> m = "prompt"
<1> DEFINE r == Prepared(requested)
<1>1. /\ r.stage = "prepared" /\ r.conversation = NoConversation
      /\ r.artifact = FALSE /\ r.public = FALSE /\ r.requestedPublic = requested
  BY DEF Prepared
<1>2. r \in Record
  BY DEF Prepared, Record, Stage, MaybeConversation
<1>3. validValue(r)
  BY <1>1, <1>2 DEF validValue, CoreStage, PublicStage
<1>4. \A m \in Mutation : intends(r, m) <=> m = "prompt"
  BY <1>1 DEF intends, Mutation
<1> QED
  BY <1>1, <1>2, <1>3, <1>4

\* Only a receipt that is still prepared has no conversation.
LEMMA BoundConversation ==
    ASSUME NEW r, validValue(r), r.stage # "prepared"
    PROVE  r.conversation \in Conversation
BY DEF validValue, Record, MaybeConversation

LEMMA RecordFields ==
    ASSUME NEW r \in Record
    PROVE  /\ r.stage \in Stage /\ r.requestedPublic \in BOOLEAN
           /\ r.conversation \in MaybeConversation
           /\ r.artifact \in BOOLEAN /\ r.public \in BOOLEAN
BY DEF Record

LEMMA AdvanceFields ==
    ASSUME NEW r \in Record, NEW s \in Stage
    PROVE  /\ advance(r, s) \in Record /\ advance(r, s).stage = s
           /\ advance(r, s).requestedPublic = r.requestedPublic
           /\ advance(r, s).conversation = r.conversation
           /\ advance(r, s).artifact = r.artifact /\ advance(r, s).public = r.public
BY DEF advance, Record

LEMMA BindConversationFields ==
    ASSUME NEW r \in Record, NEW c \in Conversation
    PROVE  /\ bindConversation(r, c) \in Record
           /\ bindConversation(r, c).stage = "conversation_bound"
           /\ bindConversation(r, c).requestedPublic = r.requestedPublic
           /\ bindConversation(r, c).conversation = c
           /\ bindConversation(r, c).artifact = r.artifact
           /\ bindConversation(r, c).public = r.public
<1>1. "conversation_bound" \in Stage
  BY DEF Stage, Preconversion
<1> QED
  BY <1>1 DEF bindConversation, Record, MaybeConversation

LEMMA BindArtifactFields ==
    ASSUME NEW r \in Record, NEW s \in Stage
    PROVE  /\ bindArtifact(r, s) \in Record /\ bindArtifact(r, s).stage = s
           /\ bindArtifact(r, s).requestedPublic = r.requestedPublic
           /\ bindArtifact(r, s).conversation = r.conversation
           /\ bindArtifact(r, s).artifact = TRUE /\ bindArtifact(r, s).public = r.public
BY DEF bindArtifact, Record

LEMMA BindPublicFields ==
    ASSUME NEW r \in Record
    PROVE  /\ bindPublic(r) \in Record /\ bindPublic(r).stage = "public_bound"
           /\ bindPublic(r).requestedPublic = r.requestedPublic
           /\ bindPublic(r).conversation = r.conversation
           /\ bindPublic(r).artifact = r.artifact /\ bindPublic(r).public = TRUE
<1>1. "public_bound" \in Stage
  BY DEF Stage, CoreStage, PublicStage
<1> QED
  BY <1>1 DEF bindPublic, Record

\* A stage that binds nothing new gives a record that can be loaded.
LEMMA AdvanceIsValid ==
    ASSUME NEW r, validValue(r), NEW s \in Transitions[r.stage],
           s \notin {"conversation_bound", "conversion_bound", "converted", "public_bound"}
    PROVE  /\ advance(r, s) \in Record /\ advance(r, s).stage = s
           /\ validValue(advance(r, s)) /\ validStep(r, advance(r, s))
<1> DEFINE n == advance(r, s)
<1>1. r \in Record /\ r.stage \in Stage /\ s \in Stage
  BY TransitionsRise, RecordFields DEF validValue
<1>2. /\ n \in Record /\ n.stage = s /\ n.requestedPublic = r.requestedPublic
      /\ n.conversation = r.conversation /\ n.artifact = r.artifact /\ n.public = r.public
  BY <1>1, AdvanceFields
<1> HIDE DEF n
<1>3. /\ s # "prepared" /\ r.stage # "prepared"
      /\ r.stage \in CoreStage => s \in CoreStage
      /\ s \in CoreStage \ {"deleted"} => r.stage \in CoreStage \ {"deleted"}
      /\ s \in PublicStage => r.stage \in PublicStage
      /\ r.stage \in PublicStage \cup {"deleted"} => s \in PublicStage \cup {"deleted"}
  BY <1>1 DEF Transitions, Stage, Preconversion, CoreStage, PublicStage
<1>4. validValue(n)
  BY <1>1, <1>2, <1>3 DEF validValue
<1>5. validStep(r, n)
  BY <1>1, <1>2 DEF validStep
<1> QED
  BY <1>2, <1>4, <1>5 DEF n

LEMMA BindConversationIsValid ==
    ASSUME NEW r, validValue(r), r.stage = "prepared", NEW c \in Conversation
    PROVE  /\ bindConversation(r, c) \in Record
           /\ validValue(bindConversation(r, c)) /\ validStep(r, bindConversation(r, c))
<1> DEFINE n == bindConversation(r, c)
<1>1. r \in Record /\ r.conversation = NoConversation /\ c # NoConversation
  BY ConversationAssumption DEF validValue
<1>2. /\ n \in Record /\ n.stage = "conversation_bound" /\ n.conversation = c
      /\ n.requestedPublic = r.requestedPublic /\ n.artifact = r.artifact /\ n.public = r.public
  BY <1>1, BindConversationFields
<1> HIDE DEF n
<1>3. ~ r.artifact /\ ~ r.public
  BY DEF validValue, CoreStage, PublicStage
<1>4. validValue(n)
  BY <1>1, <1>2, <1>3 DEF validValue, CoreStage, PublicStage
<1>5. validStep(r, n)
  BY <1>1, <1>2, <1>3 DEF validStep, Transitions, Stage
<1> QED
  BY <1>2, <1>4, <1>5 DEF n

LEMMA BindArtifactIsValid ==
    ASSUME NEW r, validValue(r), r.stage = "conversion_pending",
           NEW s \in {"converted", "conversion_bound"}
    PROVE  /\ bindArtifact(r, s) \in Record
           /\ validValue(bindArtifact(r, s)) /\ validStep(r, bindArtifact(r, s))
<1> DEFINE n == bindArtifact(r, s)
<1>1. r \in Record /\ s \in Stage /\ s \in CoreStage
  BY DEF validValue, Stage, CoreStage
<1>2. /\ n \in Record /\ n.stage = s /\ n.conversation = r.conversation
      /\ n.requestedPublic = r.requestedPublic /\ n.artifact = TRUE /\ n.public = r.public
  BY <1>1, BindArtifactFields
<1> HIDE DEF n
<1>3. ~ r.artifact /\ ~ r.public
  BY DEF validValue, CoreStage, PublicStage
<1>4. validValue(n)
  BY <1>1, <1>2, <1>3 DEF validValue, CoreStage, PublicStage
<1>5. validStep(r, n)
  <2>1. s \in Transitions["conversion_pending"]
    BY DEF Transitions, Stage
  <2> QED
    BY <1>1, <1>2, <1>3, <2>1 DEF validStep
<1> QED
  BY <1>2, <1>4, <1>5 DEF n

LEMMA BindPublicIsValid ==
    ASSUME NEW r, validValue(r), r.stage = "converted"
    PROVE  /\ bindPublic(r) \in Record
           /\ validValue(bindPublic(r)) /\ validStep(r, bindPublic(r))
<1> DEFINE n == bindPublic(r)
<1>1. r \in Record
  BY DEF validValue
<1>2. /\ n \in Record /\ n.stage = "public_bound" /\ n.conversation = r.conversation
      /\ n.requestedPublic = r.requestedPublic /\ n.artifact = r.artifact /\ n.public = TRUE
  BY <1>1, BindPublicFields
<1> HIDE DEF n
<1>3. r.artifact = TRUE /\ r.conversation # NoConversation
  BY <1>1, RecordFields DEF validValue, CoreStage
<1>4. validValue(n)
  BY <1>1, <1>2, <1>3 DEF validValue, CoreStage, PublicStage
<1>5. validStep(r, n)
  <2>1. "public_bound" \in Transitions["converted"]
    BY DEF Transitions, Stage, CoreStage
  <2> QED
    BY <1>1, <1>2, <1>3, <2>1 DEF validStep
<1> QED
  BY <1>2, <1>4, <1>5 DEF n

\* A record that may follow the last one keeps a receipt readable.
LEMMA HistoryGrows ==
    ASSUME NEW h, NEW T, h \in Seq(T), validHistory(h), NEW r, validValue(r),
           validStep(h[Len(h)], r)
    PROVE  validHistory(Append(h, r))
<1> DEFINE g == Append(h, r)
<1>1. /\ Len(h) \in Nat /\ Len(h) > 0 /\ Len(g) = Len(h) + 1
      /\ g[Len(h) + 1] = r /\ \A i \in 1 .. Len(h) : g[i] = h[i]
  BY DEF validHistory
<1>2. \A i \in 1 .. Len(g) : validValue(g[i])
  BY <1>1 DEF validHistory
<1>3. g[1].stage = "prepared" /\ g # <<>>
  BY <1>1 DEF validHistory
<1>4. ASSUME NEW i \in 1 .. Len(g) - 1
      PROVE  validStep(g[i], g[i + 1])
  <2>1. CASE i = Len(h)
    BY <1>1, <2>1
  <2>2. CASE i \in 1 .. Len(h) - 1
    BY <1>1, <2>2 DEF validHistory
  <2> QED
    BY <1>1, <2>1, <2>2
<1> QED
  BY <1>2, <1>3, <1>4 DEF validHistory

-----------------------------------------------------------------------------
(* What a command that has loaded the receipt stores in it.                *)

Deletable == Preconversion \cup {"private", "unpublished"}

\* A publication that was intended is still to come, or is bound.
Follows(r) == r.requestedPublic /\ (r.stage = "converted" \/ r.public)

\* A step of p that stores the record r and does nothing else.
Appending(p, r, step) ==
    /\ Working(p)
    /\ step \in {"none"} \cup Creator \cup Opener
    /\ Store(p, r, step)
    /\ r \in Record /\ validValue(r) /\ validStep(session[p].receipt, r)
    /\ r.stage \in stagesAt(step)
    /\ UNCHANGED <<provider, flight, attempts>>

\* What r adds to the last record is what p has seen, and p keeps to its own
\* course.
Founded(p, r, step) ==
    LET s == session[p]
        c == r.conversation
    IN /\ step \in Creator => s.step \in Creator
       /\ step \in Opener => s.step \in Opener
       /\ s.step \in Opener /\ last.stage \in Deletable \cup {"deleted"} => r.stage = "deleted"
       /\ r.artifact /\ ~ last.artifact => c \in made /\ artifact[c] # "none"
       /\ r.public /\ ~ last.public =>
              \/ mapping[c] # "none"
              \/ s.step = "exposed"
              \/ s.step = "publishing" /\ s.answer = "done"
       /\ r.stage = "converted" => artifact[c] = "private"
       /\ r.stage = "private" => artifact[c] = "private" \/ last.stage = "converted"
       /\ r.stage = "published" => mapping[c] = "active"
       /\ r.stage = "unpublished" => mapping[c] = "deleted" \/ s.step = "withdrawn"
       /\ r.stage = "deleted" => conversation[c] = "deleted"
       /\ Follows(last) => Follows(r)
       /\ step \notin {"exposing", "publishing"}
       /\ step = "exposed" => s.step = "exposing"
       /\ step = "withdrawn" => mapping[c] = "deleted"

Storing(p) ==
    \/ BindConversation(p) \/ BindFile(p) \/ BindConverted(p) \/ RecordUnexpected(p)
    \/ RecordPublished(p) \/ RecordComplete(p) \/ ReconcileConversion(p) \/ IntendPrivacy(p)
    \/ RecordPrivacy(p) \/ CompletePrivate(p) \/ ReconcilePublic(p) \/ RecordUnpublished(p)
    \/ RecordDeleted(p)

\* The receipt a working command holds can be loaded, and it is the last record.
LEMMA WorkingReceipt ==
    ASSUME ReceiptInv, NEW p \in Process, Working(p), session[p].alive
    PROVE  /\ log # <<>> /\ ~ torn /\ owner = p
           /\ session[p].receipt = last /\ validValue(last) /\ last \in Record
           /\ last.stage \in stagesAt(session[p].step)
           /\ Len(log) \in Nat /\ Len(log) > 0
<1>1. /\ log # <<>> /\ ~ torn /\ session[p].receipt = last /\ validValue(last)
      /\ last.stage \in stagesAt(session[p].step)
  BY DEF ReceiptInv, Knows
<1>2. owner = p
  BY DEF ReceiptInv, Locked, Working, Creator, Opener
<1>3. Len(log) \in Nat /\ Len(log) > 0
  BY <1>1 DEF ReceiptInv, TypeOK
<1> QED
  BY <1>1, <1>2, <1>3 DEF validValue

\* A step at which one works, and one that stores.
LEMMA StoringStep ==
    ASSUME NEW p \in Process, NEW r, NEW step, Store(p, r, step),
           session[p].step \in Creator \cup Opener
    PROVE  session[p].alive /\ Working(p)
BY DEF Store, Working

\* A record that advances the last one.
LEMMA AdvanceStores ==
    ASSUME ReceiptInv, NEW p \in Process, Working(p),
           NEW s, s \in Transitions[last.stage],
           s \notin {"conversation_bound", "conversion_bound", "converted", "public_bound"},
           NEW step \in {"none"} \cup Creator \cup Opener, s \in stagesAt(step),
           Store(p, advance(session[p].receipt, s), step),
           UNCHANGED <<provider, flight, attempts>>
    PROVE  /\ Appending(p, advance(last, s), step) /\ advance(last, s) \in Record
           /\ advance(last, s).stage = s
           /\ advance(last, s).requestedPublic = last.requestedPublic
           /\ advance(last, s).conversation = last.conversation
           /\ advance(last, s).artifact = last.artifact
           /\ advance(last, s).public = last.public
<1>1. session[p].alive
  BY DEF Store
<1>2. session[p].receipt = last /\ validValue(last) /\ last \in Record
  BY <1>1, WorkingReceipt
<1>3. last.stage \in Stage /\ s \in Stage
  BY <1>2, TransitionsRise, RecordFields
<1>4. /\ advance(last, s) \in Record /\ validValue(advance(last, s))
      /\ validStep(last, advance(last, s))
  BY <1>2, AdvanceIsValid
<1> QED
  BY <1>2, <1>3, <1>4, AdvanceFields DEF Appending

LEMMA BindConversationStores ==
    ASSUME ReceiptInv, NEW p \in Process, BindConversation(p)
    PROVE  \E r \in Record, step \in Step : Appending(p, r, step) /\ Founded(p, r, step)
<1>1. session[p].step = "waiting" /\ session[p].receipt.stage = "prepared" /\ Working(p)
  BY DEF BindConversation, Working, Creator
<1>2. PICK c \in Conversation : Store(p, bindConversation(session[p].receipt, c), "waiting")
  BY DEF BindConversation
<1>3. session[p].receipt = last /\ validValue(last) /\ last \in Record /\ last.stage = "prepared"
  BY <1>1, <1>2, WorkingReceipt DEF Store
<1> DEFINE r == bindConversation(last, c)
<1>4. /\ r \in Record /\ r.stage = "conversation_bound"
      /\ r.artifact = last.artifact /\ r.public = last.public
  BY <1>3, BindConversationFields
<1>5. validValue(r) /\ validStep(last, r)
  BY <1>3, BindConversationIsValid
<1>6. Store(p, r, "waiting") /\ UNCHANGED <<provider, flight, attempts>>
  BY <1>2, <1>3 DEF BindConversation
<1> HIDE DEF r
<1>7. Appending(p, r, "waiting")
  BY <1>1, <1>3, <1>4, <1>5, <1>6 DEF Appending, stagesAt, Creator
<1>8. Founded(p, r, "waiting")
  <2>1. ~ last.public
    BY <1>3 DEF validValue, CoreStage, PublicStage
  <2> QED
    BY <1>1, <1>3, <1>4, <2>1 DEF Founded, Follows, Creator, Opener
<1> QED
  BY <1>4, <1>7, <1>8 DEF Step

LEMMA BindFileStores ==
    ASSUME ReceiptInv, NEW p \in Process, BindFile(p)
    PROVE  \E r \in Record, step \in Step : Appending(p, r, step) /\ Founded(p, r, step)
<1>1. PICK s \in {"file_bound", "conversion_pending"}, step \in {"filed", "intended"} :
          /\ Store(p, advance(session[p].receipt, s), step)
          /\ \/ session[p].step = "waiting" /\ session[p].receipt.stage = "conversation_bound"
                /\ s = "file_bound" /\ step = "filed"
             \/ session[p].step = "filed" /\ s = "conversion_pending" /\ step = "intended"
  BY DEF BindFile
<1>2. Working(p) /\ session[p].step \in Creator /\ UNCHANGED <<provider, flight, attempts>>
  BY <1>1 DEF BindFile, Working, Creator
<1>3. /\ session[p].receipt = last /\ last.stage \in stagesAt(session[p].step)
      /\ validValue(last) /\ last \in Record
  BY <1>1, <1>2, WorkingReceipt DEF Store
<1>4. last.stage \in {"conversation_bound", "file_bound"} /\ s \in Transitions[last.stage]
  BY <1>1, <1>3 DEF stagesAt, Transitions, Stage, Preconversion
<1>5. step \in {"none"} \cup Creator \cup Opener /\ s \in stagesAt(step)
  BY <1>1 DEF stagesAt, Creator
<1> DEFINE r == advance(last, s)
<1>6. /\ Appending(p, r, step) /\ r \in Record /\ r.stage = s
      /\ r.artifact = last.artifact /\ r.public = last.public
  BY <1>1, <1>2, <1>4, <1>5, AdvanceStores
<1> HIDE DEF r
<1>7. Founded(p, r, step)
  <2>1. ~ last.public
    BY <1>3, <1>4 DEF validValue, CoreStage, PublicStage
  <2> QED
    BY <1>1, <1>2, <1>4, <1>6, <2>1 DEF Founded, Follows, Creator, Opener
<1> QED
  BY <1>1, <1>6, <1>7 DEF Step

LEMMA BindConvertedStores ==
    ASSUME ReceiptInv, NEW p \in Process, BindConverted(p)
    PROVE  \E r \in Record, step \in Step : Appending(p, r, step) /\ Founded(p, r, step)
<1>1. PICK step \in {"exposed", "bound"} :
          /\ Store(p, bindArtifact(session[p].receipt, "converted"), step)
          /\ step = "exposed" => session[p].step = "exposing"
  BY DEF BindConverted
<1>2. /\ session[p].step \in {"hiding", "exposing"} /\ Working(p) /\ session[p].step \in Creator
      /\ artifact[session[p].receipt.conversation] = "private"
      /\ session[p].receipt.conversation \in made
      /\ UNCHANGED <<provider, flight, attempts>>
  BY DEF BindConverted, Working, Creator, exactConversation
<1>3. /\ session[p].receipt = last /\ last.stage \in stagesAt(session[p].step)
      /\ validValue(last) /\ last \in Record
  BY <1>1, <1>2, WorkingReceipt DEF Store
<1>4. last.stage = "conversion_pending"
  BY <1>2, <1>3 DEF stagesAt
<1> DEFINE r == bindArtifact(last, "converted")
<1>5. /\ r \in Record /\ r.stage = "converted" /\ r.conversation = last.conversation
      /\ r.public = last.public
  <2>1. "converted" \in Stage
    BY DEF Stage, CoreStage
  <2> QED
    BY <1>3, <2>1, BindArtifactFields
<1>6. validValue(r) /\ validStep(last, r)
  BY <1>3, <1>4, BindArtifactIsValid
<1>7. Store(p, r, step)
  BY <1>1, <1>3
<1> HIDE DEF r
<1>8. Appending(p, r, step)
  BY <1>1, <1>2, <1>3, <1>5, <1>6, <1>7 DEF Appending, stagesAt, Creator
<1>9. Founded(p, r, step)
  <2>1. ~ last.public
    BY <1>3, <1>4 DEF validValue, CoreStage, PublicStage
  <2> QED
    BY <1>1, <1>2, <1>3, <1>4, <1>5, <2>1 DEF Founded, Follows, Creator, Opener
<1> QED
  BY <1>1, <1>5, <1>8, <1>9 DEF Step

\* The mapping is bound, at whichever step it is seen.
LEMMA BindPublicStores ==
    ASSUME ReceiptInv, NEW p \in Process, Working(p), last.stage = "converted",
           NEW step \in {"none", "mapped", "planning", "withdrawn"},
           Store(p, bindPublic(session[p].receipt), step),
           UNCHANGED <<provider, flight, attempts>>
    PROVE  /\ Appending(p, bindPublic(last), step) /\ bindPublic(last) \in Record
           /\ bindPublic(last).stage = "public_bound"
           /\ bindPublic(last).requestedPublic = last.requestedPublic
           /\ bindPublic(last).conversation = last.conversation
           /\ bindPublic(last).artifact = last.artifact
           /\ bindPublic(last).public = TRUE
<1>1. session[p].receipt = last /\ validValue(last) /\ last \in Record
  BY WorkingReceipt DEF Store
<1>2. /\ bindPublic(last) \in Record /\ validValue(bindPublic(last))
      /\ validStep(last, bindPublic(last))
  BY <1>1, BindPublicIsValid
<1>3. "public_bound" \in stagesAt(step) /\ step \in {"none"} \cup Creator \cup Opener
  BY DEF stagesAt, Creator, Opener, Stage, CoreStage, PublicStage
<1> QED
  BY <1>1, <1>2, <1>3, BindPublicFields DEF Appending

LEMMA RecordUnexpectedStores ==
    ASSUME ReceiptInv, NEW p \in Process, RecordUnexpected(p) \/ RecordPublished(p)
    PROVE  \E r \in Record, step \in Step : Appending(p, r, step) /\ Founded(p, r, step)
<1>1. PICK step \in {"none", "mapped"} :
          /\ Store(p, bindPublic(session[p].receipt), step)
          /\ \/ session[p].step = "exposed"
             \/ session[p].step = "publishing" /\ session[p].answer = "done"
  BY DEF RecordUnexpected, RecordPublished
<1>2. Working(p) /\ session[p].step \in Creator /\ UNCHANGED <<provider, flight, attempts>>
  BY <1>1 DEF RecordUnexpected, RecordPublished, Working, Creator
<1>3. last.stage \in stagesAt(session[p].step)
  BY <1>1, <1>2, WorkingReceipt DEF Store
<1>4. last.stage = "converted"
  BY <1>1, <1>3 DEF stagesAt
<1> DEFINE r == bindPublic(last)
<1>5. /\ Appending(p, r, step) /\ r \in Record /\ r.stage = "public_bound"
      /\ r.artifact = last.artifact /\ r.public = TRUE
      /\ r.requestedPublic = last.requestedPublic
  BY <1>1, <1>2, <1>4, BindPublicStores
<1> HIDE DEF r
<1>6. Founded(p, r, step)
  BY <1>1, <1>2, <1>5 DEF Founded, Follows, Creator, Opener
<1> QED
  BY <1>1, <1>5, <1>6 DEF Step

LEMMA RecordCompleteStores ==
    ASSUME ReceiptInv, NEW p \in Process, RecordComplete(p)
    PROVE  \E r \in Record, step \in Step : Appending(p, r, step) /\ Founded(p, r, step)
<1>1. PICK s \in {"published", "private"} :
          /\ Store(p, advance(session[p].receipt, s), "none")
          /\ \/ /\ session[p].step = "mapped" /\ s = "published"
                /\ mapping[session[p].receipt.conversation] = "active"
             \/ session[p].step = "bound" /\ ~ session[p].receipt.requestedPublic
                /\ s = "private"
  BY DEF RecordComplete
<1>2. Working(p) /\ session[p].step \in Creator /\ UNCHANGED <<provider, flight, attempts>>
  BY <1>1 DEF RecordComplete, Working, Creator
<1>3. /\ session[p].receipt = last /\ last.stage \in stagesAt(session[p].step)
      /\ validValue(last) /\ last \in Record
  BY <1>1, <1>2, WorkingReceipt DEF Store
<1>4. /\ last.stage \in {"public_bound", "converted"} /\ s \in Transitions[last.stage]
      /\ s = "private" => last.stage = "converted"
      /\ s = "published" => last.stage = "public_bound"
  BY <1>1, <1>3 DEF stagesAt, Transitions, Stage, CoreStage, PublicStage
<1>5. s \in stagesAt("none")
  BY DEF stagesAt, Stage, CoreStage, PublicStage
<1> DEFINE r == advance(last, s)
<1>6. /\ Appending(p, r, "none") /\ r \in Record /\ r.stage = s
      /\ r.conversation = last.conversation
      /\ r.artifact = last.artifact /\ r.public = last.public
      /\ r.requestedPublic = last.requestedPublic
  BY <1>1, <1>2, <1>4, <1>5, AdvanceStores
<1> HIDE DEF r
<1>7. Follows(last) => Follows(r)
  <2>1. s = "published" => last.public
    BY <1>3, <1>4 DEF validValue, PublicStage
  <2> QED
    BY <1>1, <1>3, <1>6, <2>1 DEF Follows
<1>8. Founded(p, r, "none")
  BY <1>1, <1>2, <1>3, <1>4, <1>6, <1>7 DEF Founded, Creator, Opener
<1> QED
  BY <1>6, <1>8 DEF Step

LEMMA ReconcileConversionStores ==
    ASSUME ReceiptInv, NEW p \in Process, ReconcileConversion(p)
    PROVE  \E r \in Record, step \in Step : Appending(p, r, step) /\ Founded(p, r, step)
<1>1. /\ Store(p, bindArtifact(session[p].receipt, "conversion_bound"), "planning")
      /\ session[p].step = "planning" /\ session[p].receipt.stage = "conversion_pending"
      /\ session[p].receipt.conversation \in made
      /\ artifact[session[p].receipt.conversation] # "none"
      /\ UNCHANGED <<provider, flight, attempts>>
  BY DEF ReconcileConversion, exactConversation, unpublishedArtifact
<1>2. Working(p) /\ session[p].step \in Opener
  BY <1>1 DEF Working, Opener
<1>3. session[p].receipt = last /\ validValue(last) /\ last \in Record
  BY <1>1, <1>2, WorkingReceipt DEF Store
<1> DEFINE r == bindArtifact(last, "conversion_bound")
<1>4. /\ r \in Record /\ r.stage = "conversion_bound" /\ r.conversation = last.conversation
      /\ r.public = last.public
  <2>1. "conversion_bound" \in Stage
    BY DEF Stage, CoreStage
  <2> QED
    BY <1>3, <2>1, BindArtifactFields
<1>5. validValue(r) /\ validStep(last, r) /\ ~ last.public
  BY <1>1, <1>3, BindArtifactIsValid DEF validValue, CoreStage, PublicStage
<1>6. Store(p, r, "planning")
  BY <1>1, <1>3
<1> HIDE DEF r
<1>7. Appending(p, r, "planning")
  BY <1>1, <1>2, <1>3, <1>4, <1>5, <1>6 DEF Appending, stagesAt, Opener, Stage, CoreStage
<1>8. Founded(p, r, "planning")
  BY <1>1, <1>2, <1>3, <1>4, <1>5
     DEF Founded, Follows, Creator, Opener, Deletable, Preconversion
<1> QED
  BY <1>4, <1>7, <1>8 DEF Step

LEMMA IntendPrivacyStores ==
    ASSUME ReceiptInv, NEW p \in Process, IntendPrivacy(p)
    PROVE  \E r \in Record, step \in Step : Appending(p, r, step) /\ Founded(p, r, step)
<1>1. /\ Store(p, advance(session[p].receipt, "privacy_pending"), "allowed")
      /\ session[p].step = "planning" /\ session[p].receipt.stage = "conversion_bound"
      /\ UNCHANGED <<provider, flight, attempts>>
  BY DEF IntendPrivacy
<1>2. Working(p) /\ session[p].step \in Opener
  BY <1>1 DEF Working, Opener
<1>3. session[p].receipt = last /\ validValue(last) /\ last \in Record
  BY <1>1, <1>2, WorkingReceipt DEF Store
<1>4. /\ "privacy_pending" \in Transitions[last.stage] /\ "privacy_pending" \in stagesAt("allowed")
      /\ "allowed" \in Opener /\ ~ last.public
  BY <1>1, <1>3
     DEF Transitions, Stage, CoreStage, stagesAt, Opener, validValue, PublicStage
<1> DEFINE r == advance(last, "privacy_pending")
<1>5. /\ Appending(p, r, "allowed") /\ r \in Record /\ r.stage = "privacy_pending"
      /\ r.artifact = last.artifact /\ r.public = last.public
  BY <1>1, <1>2, <1>4, AdvanceStores
<1> HIDE DEF r
<1>6. Founded(p, r, "allowed")
  BY <1>1, <1>2, <1>3, <1>4, <1>5
     DEF Founded, Follows, Creator, Opener, Deletable, Preconversion
<1> QED
  BY <1>5, <1>6 DEF Step

\* A command that works on what is there goes on or ends.
LEMMA OnwardsIsOpener ==
    ASSUME NEW p \in Process
    PROVE  /\ onwards(session[p]) \in {"none", "planning"}
           /\ onwards(session[p]) \in {"none"} \cup Creator \cup Opener
           /\ onwards(session[p]) \in Step
           /\ stagesAt(onwards(session[p])) = Stage
<1>1. onwards(session[p]) \in {"none", "planning"}
  BY DEF onwards
<1> QED
  BY <1>1 DEF Creator, Opener, Step, stagesAt

LEMMA RecordPrivateStores ==
    ASSUME ReceiptInv, NEW p \in Process, RecordPrivacy(p) \/ CompletePrivate(p)
    PROVE  \E r \in Record, step \in Step : Appending(p, r, step) /\ Founded(p, r, step)
<1> DEFINE step == onwards(session[p])
<1>1. /\ Store(p, advance(session[p].receipt, "private"), step)
      /\ session[p].step \in {"planning", "allowed", "privatizing"}
      /\ \/ /\ session[p].receipt.stage = "privacy_pending"
            /\ artifact[session[p].receipt.conversation] = "private"
         \/ session[p].receipt.stage = "converted" /\ ~ session[p].receipt.requestedPublic
      /\ UNCHANGED <<provider, flight, attempts>>
  BY DEF RecordPrivacy, CompletePrivate, privateByReceipt
<1>2. Working(p) /\ session[p].step \in Opener
  BY <1>1 DEF Working, Opener
<1>3. session[p].receipt = last /\ validValue(last) /\ last \in Record
  BY <1>1, <1>2, WorkingReceipt DEF Store
<1>4. /\ step \in {"none", "planning"} /\ step \in {"none"} \cup Creator \cup Opener
      /\ step \in Step /\ stagesAt(step) = Stage
  BY OnwardsIsOpener
<1>5. "private" \in Transitions[last.stage] /\ "private" \in Stage /\ ~ last.public
  BY <1>1, <1>3 DEF Transitions, Stage, CoreStage, validValue, PublicStage
<1> HIDE DEF step
<1> DEFINE r == advance(last, "private")
<1>6. /\ Appending(p, r, step) /\ r \in Record /\ r.stage = "private"
      /\ r.conversation = last.conversation
      /\ r.artifact = last.artifact /\ r.public = last.public
  BY <1>1, <1>2, <1>4, <1>5, AdvanceStores
<1> HIDE DEF r
<1>7. Founded(p, r, step)
  BY <1>1, <1>2, <1>3, <1>4, <1>5, <1>6
     DEF Founded, Follows, Creator, Opener, Deletable, Preconversion
<1> QED
  BY <1>4, <1>6, <1>7

LEMMA ReconcilePublicStores ==
    ASSUME ReceiptInv, NEW p \in Process, ReconcilePublic(p)
    PROVE  \E r \in Record, step \in Step : Appending(p, r, step) /\ Founded(p, r, step)
<1>1. CASE session[p].step = "planning"
  <2>1. PICK step \in {"planning", "withdrawn"} :
            /\ Store(p, bindPublic(session[p].receipt), step)
            /\ session[p].receipt.stage = "converted" /\ session[p].receipt.requestedPublic
            /\ mapping[session[p].receipt.conversation] # "none"
            /\ step = "withdrawn" => mapping[session[p].receipt.conversation] = "deleted"
            /\ UNCHANGED <<provider, flight, attempts>>
    BY <1>1 DEF ReconcilePublic, tombstone
  <2>2. Working(p) /\ session[p].step \in Opener
    BY <1>1 DEF Working, Opener
  <2>3. session[p].receipt = last
    BY <2>1, <2>2, WorkingReceipt DEF Store
  <2> DEFINE r == bindPublic(last)
  <2>4. /\ Appending(p, r, step) /\ r \in Record /\ r.stage = "public_bound"
        /\ r.conversation = last.conversation /\ r.requestedPublic = last.requestedPublic
        /\ r.artifact = last.artifact /\ r.public = TRUE
    BY <2>1, <2>2, <2>3, BindPublicStores
  <2> HIDE DEF r
  <2>5. Founded(p, r, step)
    BY <1>1, <2>1, <2>2, <2>3, <2>4
       DEF Founded, Follows, Creator, Opener, Deletable, Preconversion
  <2> QED
    BY <2>1, <2>4, <2>5 DEF Step
<1>2. CASE session[p].step = "withdrawn"
  <2> DEFINE step == onwards(session[p])
  <2>1. /\ Store(p, advance(session[p].receipt, "unpublished"), step)
        /\ UNCHANGED <<provider, flight, attempts>>
    BY <1>2 DEF ReconcilePublic
  <2>2. Working(p) /\ session[p].step \in Opener
    BY <1>2 DEF Working, Opener
  <2>3. /\ session[p].receipt = last /\ last.stage \in stagesAt(session[p].step)
        /\ validValue(last) /\ last \in Record
    BY <2>1, <2>2, WorkingReceipt DEF Store
  <2>4. /\ step \in {"none", "planning"} /\ step \in {"none"} \cup Creator \cup Opener
        /\ step \in Step /\ stagesAt(step) = Stage
    BY OnwardsIsOpener
  <2>5. last.stage = "public_bound" /\ last.public
    BY <1>2, <2>3 DEF stagesAt, validValue, PublicStage
  <2>6. "unpublished" \in Transitions[last.stage] /\ "unpublished" \in Stage
    BY <2>5 DEF Transitions, Stage, CoreStage, PublicStage
  <2> HIDE DEF step
  <2> DEFINE r == advance(last, "unpublished")
  <2>7. /\ Appending(p, r, step) /\ r \in Record /\ r.stage = "unpublished"
        /\ r.requestedPublic = last.requestedPublic
        /\ r.artifact = last.artifact /\ r.public = last.public
    BY <2>1, <2>2, <2>4, <2>6, AdvanceStores
  <2> HIDE DEF r
  <2>8. Founded(p, r, step)
    BY <1>2, <2>2, <2>4, <2>5, <2>7
       DEF Founded, Follows, Creator, Opener, Deletable, Preconversion
  <2> QED
    BY <2>4, <2>7, <2>8
<1> QED
  BY <1>1, <1>2 DEF ReconcilePublic

LEMMA RecordUnpublishedStores ==
    ASSUME ReceiptInv, NEW p \in Process, RecordUnpublished(p)
    PROVE  \E r \in Record, step \in Step : Appending(p, r, step) /\ Founded(p, r, step)
<1> DEFINE step == onwards(session[p])
<1>1. /\ Store(p, advance(session[p].receipt, "unpublished"), step)
      /\ session[p].step \in {"planning", "withdrawing"}
      /\ session[p].receipt.stage \in {"public_bound", "published"}
      /\ mapping[session[p].receipt.conversation] = "deleted"
      /\ UNCHANGED <<provider, flight, attempts>>
  BY DEF RecordUnpublished, tombstone
<1>2. Working(p) /\ session[p].step \in Opener
  BY <1>1 DEF Working, Opener
<1>3. session[p].receipt = last /\ validValue(last) /\ last \in Record
  BY <1>1, <1>2, WorkingReceipt DEF Store
<1>4. /\ step \in {"none", "planning"} /\ step \in {"none"} \cup Creator \cup Opener
      /\ step \in Step /\ stagesAt(step) = Stage
  BY OnwardsIsOpener
<1>5. "unpublished" \in Transitions[last.stage] /\ "unpublished" \in Stage /\ last.public
  BY <1>1, <1>3 DEF Transitions, Stage, CoreStage, validValue, PublicStage
<1> HIDE DEF step
<1> DEFINE r == advance(last, "unpublished")
<1>6. /\ Appending(p, r, step) /\ r \in Record /\ r.stage = "unpublished"
      /\ r.conversation = last.conversation /\ r.requestedPublic = last.requestedPublic
      /\ r.artifact = last.artifact /\ r.public = last.public
  BY <1>1, <1>2, <1>4, <1>5, AdvanceStores
<1> HIDE DEF r
<1>7. Founded(p, r, step)
  BY <1>1, <1>2, <1>3, <1>4, <1>5, <1>6
     DEF Founded, Follows, Creator, Opener, Deletable, Preconversion
<1> QED
  BY <1>4, <1>6, <1>7

LEMMA RecordDeletedStores ==
    ASSUME ReceiptInv, NEW p \in Process, RecordDeleted(p)
    PROVE  \E r \in Record, step \in Step : Appending(p, r, step) /\ Founded(p, r, step)
<1>1. /\ Store(p, advance(session[p].receipt, "deleted"), "none")
      /\ session[p].step \in {"planning", "removing"}
      /\ session[p].receipt.stage \in Deletable
      /\ conversation[session[p].receipt.conversation] = "deleted"
      /\ UNCHANGED <<provider, flight, attempts>>
  BY DEF RecordDeleted, deletable, gone, Deletable
<1>2. Working(p) /\ session[p].step \in Opener
  BY <1>1 DEF Working, Opener
<1>3. session[p].receipt = last /\ validValue(last) /\ last \in Record
  BY <1>1, <1>2, WorkingReceipt DEF Store
<1>4. "deleted" \in Transitions[last.stage] /\ "deleted" \in stagesAt("none")
  BY <1>1, <1>3
     DEF Transitions, stagesAt, Stage, Deletable, Preconversion, CoreStage, PublicStage
<1> DEFINE r == advance(last, "deleted")
<1>5. /\ Appending(p, r, "none") /\ r \in Record /\ r.stage = "deleted"
      /\ r.conversation = last.conversation /\ r.requestedPublic = last.requestedPublic
      /\ r.artifact = last.artifact /\ r.public = last.public
  BY <1>1, <1>2, <1>4, AdvanceStores
<1> HIDE DEF r
<1>6. Founded(p, r, "none")
  BY <1>1, <1>2, <1>3, <1>5
     DEF Founded, Follows, Creator, Opener, Deletable, Preconversion
<1> QED
  BY <1>5, <1>6 DEF Step

\* Every action that stores a record stores one that may follow the last, and
\* that tells what was seen.
LEMMA StoringAppends ==
    ASSUME ReceiptInv, NEW p \in Process, Storing(p)
    PROVE  \E r \in Record, step \in Step : Appending(p, r, step) /\ Founded(p, r, step)
BY BindConversationStores, BindFileStores, BindConvertedStores, RecordUnexpectedStores,
   RecordCompleteStores, ReconcileConversionStores, IntendPrivacyStores,
   RecordPrivateStores, ReconcilePublicStores, RecordUnpublishedStores, RecordDeletedStores
   DEF Storing

\* The sessions when p goes on with the record r.
moved(f, p, r, step) == [f EXCEPT ![p].receipt = r, ![p].step = step]

\* What such a step leaves: the record or nothing, and p with it or ended.
LEMMA AppendingLeaves ==
    ASSUME ReceiptInv, NEW p \in Process, NEW r, NEW step, Appending(p, r, step)
    PROVE  /\ exists' = exists /\ torn' \in BOOLEAN
           /\ UNCHANGED <<provider, flight, attempts>>
           /\ \/ log' = Append(log, r) /\ torn' = FALSE
              \/ log' = log
           /\ \/ /\ log' = Append(log, r) /\ torn' = FALSE /\ step # "none"
                 /\ session' = moved(session, p, r, step)
                 /\ owner' = p
              \/ session' = [session EXCEPT ![p] = Idle] /\ owner' = NoProcess
<1>1. ~ torn /\ owner = p
  BY WorkingReceipt DEF Appending, Store
<1> QED
  BY <1>1 DEF Appending, Store, written, Ends, GoesOn, moved

-----------------------------------------------------------------------------
(* Intents.                                                                *)

\* Records that intend the same are at the same stage, and none intends two
\* mutations.
LEMMA IntentsDiffer ==
    /\ \A a, b \in Record, m \in Mutation : intends(a, m) /\ intends(b, m) => a.stage = b.stage
    /\ \A a \in Record, m, n \in Mutation : intends(a, m) /\ intends(a, n) => m = n
BY DEF Mutation, intends

\* Whoever is about to ask has a record that intends it.
LEMMA AsksIntended ==
    ASSUME NEW step, NEW r \in Record, r.stage \in stagesAt(step), NEW m \in Mutation,
           asks(step, r, m)
    PROVE  intends(r, m)
BY DEF Mutation, asks, intends, stagesAt

\* The last record of a receipt that grew.
LEMMA LastOfAppend ==
    ASSUME TypeOK, NEW r \in Record, log' = Append(log, r)
    PROVE  /\ last' = r /\ log' # <<>> /\ Len(log') = Len(log) + 1 /\ Len(log) \in Nat
           /\ log'[Len(log) + 1] = r
           /\ \A i \in 1 .. Len(log) : log'[i] = log[i]
           /\ log' \in Seq(Record \cup {Fragment})
BY DEF TypeOK, last

\* A record that follows the last one is behind every other, so that what it
\* intends was not intended before.
LEMMA IntentsGrow ==
    ASSUME TypeOK, Readable, Ordered, log # <<>>,
           NEW r \in Record, validStep(last, r), log' = Append(log, r)
    PROVE  /\ \A i \in 1 .. Len(log) : log[i] \in Record /\ log[i].stage # r.stage
           /\ Ordered'
           /\ intendedNow' = intendedNow \cup {m \in Mutation : intends(r, m)}
           /\ \A m \in Mutation : intends(r, m) => m \notin intendedNow
<1>1. /\ last' = r /\ Len(log') = Len(log) + 1 /\ Len(log) \in Nat /\ log'[Len(log) + 1] = r
      /\ \A i \in 1 .. Len(log) : log'[i] = log[i]
  BY LastOfAppend
<1>2. /\ \A i \in 1 .. Len(log) : log[i] \in Record
      /\ last \in Record
  BY DEF TypeOK, Readable, validHistory, validValue, last
<1>3. /\ Rank[last.stage] < Rank[r.stage]
      /\ Rank[last.stage] \in Int /\ Rank[r.stage] \in Int
  BY <1>2, TransitionsRise, RankType, RecordFields DEF validStep
<1>4. ASSUME NEW i \in 1 .. Len(log)
      PROVE  Rank[log[i].stage] < Rank[r.stage] /\ log[i].stage # r.stage
  <2>1. Rank[log[i].stage] \in Int /\ Rank[log[i].stage] <= Rank[last.stage]
    BY <1>2, RankType, RecordFields DEF Ordered
  <2> QED
    BY <1>3, <2>1
<1>5. Ordered'
  <2> SUFFICES ASSUME NEW i \in 1 .. Len(log')
               PROVE  Rank[log'[i].stage] <= Rank[r.stage]
    BY <1>1 DEF Ordered
  <2>1. CASE i = Len(log) + 1
    BY <1>1, <1>3, <2>1
  <2>2. CASE i \in 1 .. Len(log)
    <3>1. Rank[log[i].stage] \in Int
      BY <1>2, <2>2, RankType, RecordFields
    <3> QED
      BY <1>1, <1>3, <1>4, <2>2, <3>1
  <2> QED
    BY <1>1, <2>1, <2>2
<1>6. ASSUME NEW m \in Mutation
      PROVE  m \in intendedNow' <=> m \in intendedNow \/ intends(r, m)
  <2>1. m \in intendedNow <=> \E i \in 1 .. Len(log) : intends(log[i], m)
    BY DEF intendedNow
  <2>2. m \in intendedNow' <=> \E i \in 1 .. Len(log') : intends(log'[i], m)
    BY DEF intendedNow, intends
  <2>3. \A i \in 1 .. Len(log') : i \in 1 .. Len(log) \/ i = Len(log) + 1
    BY <1>1
  <2>4. \A i \in 1 .. Len(log) : i \in 1 .. Len(log')
    BY <1>1
  <2>5. Len(log) + 1 \in 1 .. Len(log')
    BY <1>1
  <2> QED
    BY <1>1, <2>1, <2>2, <2>3, <2>4, <2>5
<1>7. intendedNow' = intendedNow \cup {m \in Mutation : intends(r, m)}
  <2>1. \A m \in intendedNow \cup intendedNow' : m \in Mutation
    BY DEF intendedNow
  <2> QED
    BY <1>6, <2>1
<1>8. \A m \in Mutation : intends(r, m) => m \notin intendedNow
  BY <1>2, <1>4, IntentsDiffer DEF intendedNow
<1> QED
  BY <1>2, <1>4, <1>5, <1>7, <1>8

\* The last record is behind every intent.
LEMMA IntentsBehind ==
    ASSUME TypeOK, Readable, Ordered, NEW m \in intendedNow
    PROVE  /\ log # <<>> /\ last \in Record
           /\ \E r \in Record : intends(r, m) /\ Rank[r.stage] <= Rank[last.stage]
<1>1. PICK i \in 1 .. Len(log) : intends(log[i], m)
  BY DEF intendedNow
<1>2. log # <<>>
  BY <1>1 DEF TypeOK
<1>3. log[i] \in Record /\ last \in Record
  BY <1>2 DEF TypeOK, Readable, validHistory, validValue, last
<1> QED
  BY <1>1, <1>2, <1>3 DEF Ordered

-----------------------------------------------------------------------------
(* The receipt and its commands.                                           *)

LEMMA TypesOfSession == Idle \in Session /\ Idle.step = "none" /\ Idle.alive
<1>1. Prepared(FALSE) \in Record
  BY PreparedIsValid
<1> QED
  BY <1>1 DEF Idle, Session, Step, Command

\* Only the session of p changes, and of it the receipt and the step.
LEMMA SessionGoesOn ==
    ASSUME NEW f \in [Process -> Session], NEW p \in Process, NEW r \in Record, NEW step \in Step
    PROVE  /\ moved(f, p, r, step) \in [Process -> Session]
           /\ moved(f, p, r, step)[p].receipt = r /\ moved(f, p, r, step)[p].step = step
           /\ moved(f, p, r, step)[p].alive = f[p].alive
           /\ moved(f, p, r, step)[p].answer = f[p].answer
           /\ \A q \in Process : q # p => moved(f, p, r, step)[q] = f[q]
<1> DEFINE h == [f EXCEPT ![p].receipt = r]
           g == [h EXCEPT ![p].step = step]
<1>1. /\ h \in [Process -> Session] /\ h[p].receipt = r
      /\ h[p].alive = f[p].alive /\ h[p].answer = f[p].answer
      /\ \A q \in Process : q # p => h[q] = f[q]
  BY DEF Session
<1>2. /\ g \in [Process -> Session] /\ g[p].receipt = r /\ g[p].step = step
      /\ g[p].alive = h[p].alive /\ g[p].answer = h[p].answer
      /\ \A q \in Process : q # p => g[q] = h[q]
  <2> HIDE DEF h
  <2> QED
    BY <1>1 DEF Session
<1> QED
  BY <1>1, <1>2 DEF moved

\* Nobody is about to ask who does not work.
LEMMA WhoAsks ==
    ASSUME NEW p \in Process, NEW m \in Mutation, Asks(p, m)
    PROVE  Working(p) /\ session[p].step \notin {"none", "creating", "opening"}
BY DEF Asks, asks, Working, Creator, Opener

LEMMA AppendingKeepsReceipt ==
    ASSUME ReceiptInv, NEW p \in Process, NEW r \in Record, NEW step \in Step,
           Appending(p, r, step)
    PROVE  ReceiptInv'
<1>1. /\ log # <<>> /\ ~ torn /\ session[p].receipt = last /\ last \in Record /\ owner = p
      /\ validStep(last, r) /\ validValue(r) /\ session[p].alive
      /\ step \in {"none"} \cup Creator \cup Opener /\ r.stage \in stagesAt(step)
  BY WorkingReceipt DEF Appending, Store
<1>2. /\ exists' = exists /\ torn' \in BOOLEAN
      /\ UNCHANGED <<provider, flight, attempts>>
      /\ \/ log' = Append(log, r) /\ torn' = FALSE
         \/ log' = log
      /\ \/ /\ log' = Append(log, r) /\ torn' = FALSE
            /\ session' = moved(session, p, r, step) /\ owner' = p
         \/ session' = [session EXCEPT ![p] = Idle] /\ owner' = NoProcess
  BY AppendingLeaves
<1>3. TypeOK /\ Readable /\ Ordered /\ session \in [Process -> Session]
  BY DEF ReceiptInv, TypeOK
<1>4. /\ session' \in [Process -> Session]
      /\ \A q \in Process : q # p => session'[q] = session[q]
      /\ \/ /\ log' = Append(log, r) /\ torn' = FALSE /\ owner' = p
            /\ session'[p].receipt = r /\ session'[p].step = step /\ session'[p].alive
         \/ session'[p] = Idle /\ owner' = NoProcess
  BY <1>1, <1>2, <1>3, TypesOfSession, SessionGoesOn
<1>5. log' \in Seq(Record \cup {Fragment}) /\ log' # <<>>
  BY <1>1, <1>2, <1>3, LastOfAppend DEF TypeOK
<1>6. TypeOK'
  BY <1>1, <1>2, <1>3, <1>4, <1>5, ProcessAssumption DEF TypeOK, provider
<1>7. \A q \in Process :
          q # p /\ session[q].alive => session[q].step \in {"none", "creating"}
  BY <1>1 DEF ReceiptInv, Locked
<1>8. Locked'
  BY <1>4, <1>7, TypesOfSession DEF Locked
<1>15. Attended'
  BY <1>1, <1>4, TypesOfSession DEF ReceiptInv, Attended, Creator, Opener
<1>9. ASSUME NEW q \in Process PROVE Knows(q)'
  <2>1. CASE q = p
    BY <1>1, <1>3, <1>4, <1>5, <2>1, LastOfAppend, TypesOfSession
       DEF Knows, Working, Creator, Opener
  <2>2. CASE q # p
    <3>1. Knows(q) /\ session'[q] = session[q]
      BY <1>4, <2>2 DEF ReceiptInv
    <3> QED
      BY <1>5, <1>7, <2>2, <3>1 DEF Knows, Working, Creator, Opener
  <2> QED
    BY <2>1, <2>2
<1>10. Fresh'
  <2>1. exists /\ \A q \in Process : session[q].step # "creating"
    BY <1>1 DEF ReceiptInv, Fresh
  <2>2. step # "creating"
    BY <1>1 DEF Creator, Opener
  <2> QED
    BY <1>2, <1>4, <2>1, <2>2, TypesOfSession DEF Fresh
<1>11. Readable'
  <2>1. CASE log' = log
    BY <1>3, <2>1 DEF Readable
  <2>2. CASE log' = Append(log, r)
    BY <1>1, <1>3, <2>2, HistoryGrows DEF Readable, TypeOK, last
  <2> QED
    BY <1>2, <2>1, <2>2
<1>12. /\ Ordered' /\ intendedNow \subseteq intendedNow'
       /\ log' = Append(log, r) =>
              \A m \in Mutation : intends(r, m) => m \in intendedNow' /\ m \notin intendedNow
  <2>1. CASE log' = log
    <3>1. log # Append(log, r)
      BY <1>1, <1>3, LastOfAppend DEF TypeOK
    <3> QED
      BY <1>3, <2>1, <3>1 DEF Ordered, last, intendedNow
  <2>2. CASE log' = Append(log, r)
    BY <1>1, <1>3, <2>2, IntentsGrow
  <2> QED
    BY <1>2, <2>1, <2>2
<1>13. Counted'
  BY <1>2, <1>12 DEF ReceiptInv, Counted
<1>14. Ready'
  <2> SUFFICES ASSUME NEW q \in Process, NEW m \in Mutation, Asks(q, m)'
               PROVE  /\ m \in intendedNow' /\ attempts[m] = 0
                      /\ \A o \in Process : Asks(o, m)' => o = q
    BY <1>2 DEF Ready
  <2>1. \A o \in Process : o # p => (Asks(o, m)' <=> Asks(o, m))
    BY <1>4 DEF Asks
  <2>2. Asks(p, m)' => log' = Append(log, r) /\ intends(r, m)
    <3>1. ~ asks("none", Idle.receipt, m)
      BY DEF asks
    <3> QED
      BY <1>1, <1>4, <3>1, AsksIntended, TypesOfSession DEF Asks
  <2>3. Asks(p, m)' => m \in intendedNow' /\ m \notin intendedNow
    BY <1>12, <2>2
  <2>4. CASE q = p
    <3>1. attempts[m] = 0
      BY <2>3, <2>4 DEF ReceiptInv, Counted
    <3>2. \A o \in Process : o # p => ~ Asks(o, m)
      BY <2>3, <2>4 DEF ReceiptInv, Ready
    <3> QED
      BY <2>1, <2>3, <2>4, <3>1, <3>2
  <2>5. CASE q # p
    <3>1. Asks(q, m)
      BY <2>1, <2>5
    <3>2. m \in intendedNow /\ attempts[m] = 0 /\ \A o \in Process : Asks(o, m) => o = q
      BY <3>1 DEF ReceiptInv, Ready
    <3> QED
      BY <1>12, <2>1, <2>3, <3>2
  <2> QED
    BY <2>4, <2>5
<1> QED
  BY <1>6, <1>8, <1>9, <1>10, <1>11, <1>12, <1>13, <1>14, <1>15 DEF ReceiptInv

\* A step that leaves the receipt and the counts alone, and after which nobody
\* new is about to ask.
LEMMA RecordsStay ==
    ASSUME ReceiptInv, log' = log, attempts' = attempts,
           \A q \in Process, m \in Mutation : Asks(q, m)' => Asks(q, m)
    PROVE  /\ Readable' /\ Ordered' /\ Counted' /\ Ready'
           /\ intendedNow' = intendedNow /\ last' = last
<1>1. intendedNow' = intendedNow /\ last' = last
  BY DEF intendedNow, last
<1> QED
  BY <1>1 DEF ReceiptInv, Readable, Ordered, Counted, Ready

LEMMA CreateKeeps ==
    ASSUME ReceiptInv, NEW p \in Process, Create(p)
    PROVE  ReceiptInv'
<1> DEFINE new == [Idle EXCEPT !.step = "creating"]
<1>1. /\ new \in Session /\ new.step = "creating" /\ new.receipt = Prepared(FALSE)
      /\ new.alive
  BY TypesOfSession DEF Session, Step, Idle
<1>2. session \in [Process -> Session] /\ session' = [session EXCEPT ![p] = new]
  BY DEF ReceiptInv, TypeOK, Create
<1> HIDE DEF new
<1>3. /\ log = <<>> /\ ~ torn /\ exists' = TRUE /\ log' = log /\ torn' = torn
      /\ owner' = owner /\ attempts' = attempts /\ UNCHANGED <<provider, flight>>
      /\ \A q \in Process : session[q].step # "creating"
  BY DEF ReceiptInv, Create, Fresh
<1>4. /\ session' \in [Process -> Session] /\ session'[p] = new
      /\ \A q \in Process : q # p => session'[q] = session[q]
  BY <1>1, <1>2
<1>5. TypeOK'
  BY <1>3, <1>4 DEF ReceiptInv, TypeOK, provider
<1>6. Locked' /\ Fresh'
  BY <1>1, <1>3, <1>4 DEF ReceiptInv, Locked, Fresh
<1>9. Attended'
  BY <1>1, <1>4 DEF ReceiptInv, Attended
<1>7. ASSUME NEW q \in Process PROVE Knows(q)'
  BY <1>1, <1>3, <1>4 DEF ReceiptInv, Knows, Working, Creator, Opener, last
<1>8. \A q \in Process, m \in Mutation : Asks(q, m)' => Asks(q, m)
  BY <1>1, <1>4 DEF Asks, asks
<1> QED
  BY <1>3, <1>5, <1>6, <1>7, <1>8, <1>9, RecordsStay DEF ReceiptInv

LEMMA OpenKeeps ==
    ASSUME ReceiptInv, NEW p \in Process, NEW command \in Command, Open(p, command)
    PROVE  ReceiptInv'
<1> DEFINE new == [Idle EXCEPT !.step = "opening", !.command = command]
<1>1. new \in Session /\ new.step = "opening" /\ new.alive
  BY TypesOfSession DEF Session, Step, Idle
<1>2. session \in [Process -> Session] /\ session' = [session EXCEPT ![p] = new]
  BY DEF ReceiptInv, TypeOK, Open
<1> HIDE DEF new
<1>3. /\ exists' = exists /\ log' = log /\ torn' = torn /\ attempts' = attempts
      /\ owner' = p /\ exists /\ NoProcess # p /\ UNCHANGED <<provider, flight>>
      /\ \A q \in Process : session[q].alive => session[q].step \in {"none", "creating"}
  BY ProcessAssumption DEF ReceiptInv, Locked, Open, file, free
<1>4. /\ session' \in [Process -> Session] /\ session'[p] = new
      /\ \A q \in Process : q # p => session'[q] = session[q]
  BY <1>1, <1>2
<1>5. TypeOK'
  BY <1>3, <1>4 DEF ReceiptInv, TypeOK, provider
<1>6. Locked' /\ Fresh'
  <2>1. Locked'
    BY <1>1, <1>3, <1>4 DEF Locked
  <2>2. ASSUME NEW q \in Process, session'[q].step = "creating"
        PROVE  /\ session[q].step = "creating" /\ session'[q] = session[q]
    BY <1>1, <1>4, <2>2
  <2>3. Fresh'
    BY <1>3, <2>2 DEF ReceiptInv, Fresh
  <2> QED
    BY <2>1, <2>3
<1>9. Attended'
  BY <1>1, <1>4 DEF ReceiptInv, Attended
<1>7. ASSUME NEW q \in Process PROVE Knows(q)'
  BY <1>1, <1>3, <1>4 DEF ReceiptInv, Knows, Working, Creator, Opener, last
<1>8. \A q \in Process, m \in Mutation : Asks(q, m)' => Asks(q, m)
  BY <1>1, <1>4 DEF Asks, asks
<1> QED
  BY <1>3, <1>5, <1>6, <1>7, <1>8, <1>9, RecordsStay DEF ReceiptInv

LEMMA StopKeeps ==
    ASSUME ReceiptInv, NEW p \in Process, Stop(p)
    PROVE  ReceiptInv'
<1>1. session \in [Process -> Session] /\ session' = [session EXCEPT ![p] = Idle]
  BY DEF ReceiptInv, TypeOK, Stop, Ends
<1>2. /\ exists' = exists /\ log' = log /\ torn' = torn /\ attempts' = attempts
      /\ owner' = (IF owner = p THEN NoProcess ELSE owner)
      /\ UNCHANGED <<provider, flight>>
  BY DEF Stop, file, Ends
<1>3. /\ session' \in [Process -> Session] /\ session'[p].step = "none"
      /\ \A q \in Process : q # p => session'[q] = session[q]
  BY <1>1, TypesOfSession
<1>4. TypeOK'
  BY <1>2, <1>3 DEF ReceiptInv, TypeOK, provider
<1>5. Locked' /\ Fresh'
  BY <1>2, <1>3 DEF ReceiptInv, Locked, Fresh
<1>8. Attended'
  BY <1>3 DEF ReceiptInv, Attended
<1>6. ASSUME NEW q \in Process PROVE Knows(q)'
  BY <1>2, <1>3 DEF ReceiptInv, Knows, Working, Creator, Opener, last
<1>7. \A q \in Process, m \in Mutation : Asks(q, m)' => Asks(q, m)
  BY <1>3 DEF Asks, asks
<1> QED
  BY <1>2, <1>4, <1>5, <1>6, <1>7, <1>8, RecordsStay DEF ReceiptInv

LEMMA OrphanKeeps ==
    ASSUME ReceiptInv, NEW p \in Process, Orphan(p)
    PROVE  ReceiptInv'
<1>1. session \in [Process -> Session] /\ session' = [session EXCEPT ![p].alive = FALSE]
  BY DEF ReceiptInv, TypeOK, Orphan
<1>2. /\ exists' = exists /\ log' = log /\ torn' = torn /\ attempts' = attempts
      /\ owner' = (IF owner = p THEN NoProcess ELSE owner)
      /\ session[p].step # "creating" /\ UNCHANGED <<provider, flight>>
  BY DEF Orphan, file
<1>3. /\ session' \in [Process -> Session] /\ ~ session'[p].alive
      /\ session'[p].step = session[p].step /\ session'[p].receipt = session[p].receipt
      /\ \A q \in Process : q # p => session'[q] = session[q]
  BY <1>1 DEF Session
<1>4. TypeOK'
  BY <1>2, <1>3 DEF ReceiptInv, TypeOK, provider
<1>5. Locked' /\ Fresh'
  BY <1>2, <1>3 DEF ReceiptInv, Locked, Fresh
<1>8. Attended'
  BY <1>3 DEF ReceiptInv, Attended, Orphan
<1>6. ASSUME NEW q \in Process PROVE Knows(q)'
  BY <1>2, <1>3 DEF ReceiptInv, Knows, Working, last
<1>7. \A q \in Process, m \in Mutation : Asks(q, m)' => Asks(q, m)
  BY <1>3 DEF Asks
<1> QED
  BY <1>2, <1>4, <1>5, <1>6, <1>7, <1>8, RecordsStay DEF ReceiptInv

LEMMA LoadKeeps ==
    ASSUME ReceiptInv, NEW p \in Process, Load(p)
    PROVE  ReceiptInv'
<1>1. log # <<>> /\ validValue(last) /\ last \in Record /\ last.stage \in Stage
  <2>1. log # <<>> /\ log \in Seq(Record \cup {Fragment}) /\ validHistory(log)
    BY DEF Load, validHistory, ReceiptInv, TypeOK
  <2>2. Len(log) \in 1 .. Len(log)
    BY <2>1
  <2>3. validValue(last)
    BY <2>1, <2>2 DEF validHistory, last
  <2> QED
    BY <2>1, <2>3, RecordFields DEF validValue
<1>2. session \in [Process -> Session] /\ "planning" \in Step
  BY DEF ReceiptInv, TypeOK, Step
<1>3. /\ session' \in [Process -> Session] /\ session'[p].alive = session[p].alive
      /\ session'[p].receipt = last /\ session'[p].step = "planning"
      /\ \A q \in Process : q # p => session'[q] = session[q]
  <2>1. session' = moved(session, p, last, "planning")
    BY DEF Load, last, moved
  <2> QED
    BY <1>1, <1>2, <2>1, SessionGoesOn
<1>4. /\ exists' = exists /\ log' = log /\ torn' = FALSE /\ attempts' = attempts
      /\ owner' = owner /\ session[p].step = "opening" /\ UNCHANGED <<provider, flight>>
  BY DEF Load, repaired
<1>5. TypeOK'
  BY <1>3, <1>4 DEF ReceiptInv, TypeOK, provider
<1>6. Locked' /\ Fresh'
  <2>1. Locked'
    BY <1>3, <1>4 DEF ReceiptInv, Locked
  <2>2. \A q \in Process : session'[q].step = "creating" => session'[q] = session[q]
    BY <1>3
  <2>3. Fresh'
    BY <1>4, <2>2 DEF ReceiptInv, Fresh
  <2> QED
    BY <2>1, <2>3
<1>9. Attended'
  BY <1>3 DEF ReceiptInv, Attended
<1>7. ASSUME NEW q \in Process PROVE Knows(q)'
  <2>1. last' = last
    BY <1>4 DEF last
  <2>2. CASE q = p
    BY <1>1, <1>3, <1>4, <2>1, <2>2 DEF Knows, stagesAt
  <2>3. CASE q # p
    BY <1>3, <1>4, <2>1, <2>3 DEF ReceiptInv, Knows, Working
  <2> QED
    BY <2>2, <2>3
<1>8. \A q \in Process, m \in Mutation : Asks(q, m)' => Asks(q, m)
  BY <1>3 DEF Asks, asks
<1> QED
  BY <1>4, <1>5, <1>6, <1>7, <1>8, <1>9, RecordsStay DEF ReceiptInv

\* What the first record of a receipt leaves.
LEMMA FirstRecord ==
    ASSUME NEW requested \in BOOLEAN, log = <<>>, log' = <<Prepared(requested)>>
    PROVE  /\ Readable' /\ Ordered' /\ log' # <<>> /\ last' = Prepared(requested)
           /\ log' \in Seq(Record \cup {Fragment})
           /\ intendedNow = {} /\ intendedNow' = {"prompt"}
<1> DEFINE r == Prepared(requested)
<1>1. /\ r \in Record /\ validValue(r) /\ r.stage = "prepared"
      /\ \A m \in Mutation : intends(r, m) <=> m = "prompt"
  BY PreparedIsValid
<1> HIDE DEF r
<1>2. log' = <<r>>
  BY DEF r
<1>3. Len(log') = 1 /\ log'[1] = r /\ log' # <<>> /\ last' = r
  BY <1>2 DEF last
<1>4. Readable'
  BY <1>1, <1>3 DEF Readable, validHistory
<1>5. Rank[r.stage] \in Int
  BY <1>1, RankType DEF Stage
<1>6. Ordered'
  BY <1>3, <1>5 DEF Ordered
<1>7. intendedNow = {}
  BY DEF intendedNow
<1>8. intendedNow' = {"prompt"}
  <2>1. \A m \in Mutation : m \in intendedNow' <=> intends(r, m)
    <3>1. 1 .. Len(log') = {1}
      BY <1>3
    <3> QED
      BY <1>3, <3>1 DEF intendedNow, intends
  <2>2. \A m \in intendedNow' : m \in Mutation
    BY DEF intendedNow
  <2>3. "prompt" \in Mutation
    BY DEF Mutation
  <2> QED
    BY <1>1, <2>1, <2>2, <2>3
<1>9. log' \in Seq(Record \cup {Fragment})
  BY <1>1, <1>2
<1> QED
  BY <1>3, <1>4, <1>6, <1>7, <1>8, <1>9 DEF r

\* What Begin does: the first record and p goes on with it, or p ends.
LEMMA BeginLeaves ==
    ASSUME ReceiptInv, NEW p \in Process, Begin(p)
    PROVE  /\ log = <<>> /\ session[p].step = "creating" /\ exists' = exists /\ exists
           /\ owner = NoProcess /\ UNCHANGED <<provider, flight, attempts>>
           /\ torn' \in BOOLEAN /\ session' \in [Process -> Session]
           /\ \A q \in Process : q # p => session'[q] = session[q]
           /\ \E requested \in BOOLEAN :
                 \/ /\ log' = <<Prepared(requested)>> /\ torn' = FALSE /\ owner' = p
                    /\ session'[p].receipt = Prepared(requested)
                    /\ session'[p].step = "prompting" /\ session'[p].alive
                 \/ /\ log' = log \/ log' = <<Prepared(requested)>>
                    /\ session'[p] = Idle /\ owner' = NoProcess
<1>1. /\ session[p].step = "creating" /\ exists' = exists /\ owner = NoProcess
      /\ UNCHANGED <<provider, flight, attempts>>
  BY DEF Begin, free
<1>2. log = <<>> /\ ~ torn /\ exists /\ session[p].alive
  BY <1>1 DEF ReceiptInv, Fresh
<1>3. session \in [Process -> Session] /\ p # NoProcess
  BY ProcessAssumption DEF ReceiptInv, TypeOK
<1>4. PICK requested \in BOOLEAN :
          \/ /\ log' = written(Prepared(requested)) /\ torn' = FALSE
             /\ owner' = p
             /\ session' = [session EXCEPT ![p].receipt = Prepared(requested),
                                           ![p].step = "prompting"]
          \/ /\ \/ log' = written(Prepared(requested)) /\ torn' = FALSE
                \/ log' = log /\ torn' = TRUE
             /\ Ends(p)
  BY DEF Begin
<1>5. written(Prepared(requested)) = <<Prepared(requested)>>
  BY <1>2 DEF written
<1>6. CASE /\ log' = written(Prepared(requested)) /\ torn' = FALSE
           /\ owner' = p
           /\ session' = [session EXCEPT ![p].receipt = Prepared(requested),
                                         ![p].step = "prompting"]
  <2>1. session' = moved(session, p, Prepared(requested), "prompting")
    BY <1>6 DEF moved
  <2>2. Prepared(requested) \in Record /\ "prompting" \in Step
    BY PreparedIsValid DEF Step
  <2>3. /\ session' \in [Process -> Session]
        /\ session'[p].receipt = Prepared(requested)
        /\ session'[p].step = "prompting" /\ session'[p].alive
        /\ \A q \in Process : q # p => session'[q] = session[q]
    BY <1>2, <1>3, <2>1, <2>2, SessionGoesOn
  <2> QED
    BY <1>1, <1>2, <1>5, <1>6, <2>3
<1>7. CASE /\ \/ log' = written(Prepared(requested)) /\ torn' = FALSE
              \/ log' = log /\ torn' = TRUE
           /\ Ends(p)
  <2>1. /\ session' \in [Process -> Session] /\ session'[p] = Idle /\ owner' = NoProcess
        /\ \A q \in Process : q # p => session'[q] = session[q]
    BY <1>1, <1>3, <1>7, TypesOfSession DEF Ends
  <2> QED
    BY <1>1, <1>2, <1>5, <1>7, <2>1
<1> QED
  BY <1>4, <1>6, <1>7

LEMMA BeginKeeps ==
    ASSUME ReceiptInv, NEW p \in Process, Begin(p)
    PROVE  ReceiptInv'
<1>1. /\ log = <<>> /\ exists' = exists /\ exists /\ session[p].step = "creating"
      /\ UNCHANGED <<provider, flight, attempts>>
      /\ torn' \in BOOLEAN /\ session' \in [Process -> Session]
      /\ \A q \in Process : q # p => session'[q] = session[q]
  BY BeginLeaves
<1>2. PICK requested \in BOOLEAN :
          \/ /\ log' = <<Prepared(requested)>> /\ torn' = FALSE /\ owner' = p
             /\ session'[p].receipt = Prepared(requested)
             /\ session'[p].step = "prompting" /\ session'[p].alive
          \/ /\ log' = log \/ log' = <<Prepared(requested)>>
             /\ session'[p] = Idle /\ owner' = NoProcess
  BY BeginLeaves
<1>3. /\ \A q \in Process : ~ Working(q) /\ (q # p => session[q].step # "creating")
      /\ \A q \in Process : session[q].alive => session[q].step \in {"none", "creating"}
  BY <1>1, BeginLeaves, ProcessAssumption DEF ReceiptInv, Knows, Fresh, Locked
<1>4. /\ validValue(Prepared(requested)) /\ Prepared(requested).stage = "prepared"
      /\ Prepared(requested) \in Record
  BY PreparedIsValid
<1>5. log' = log \/ log' = <<Prepared(requested)>>
  BY <1>2
<1>6. Readable' /\ Ordered' /\ log' \in Seq(Record \cup {Fragment}) /\ intendedNow = {}
  <2>1. CASE log' = log
    BY <1>1, <2>1 DEF ReceiptInv, TypeOK, Readable, Ordered, last, intendedNow
  <2>2. CASE log' = <<Prepared(requested)>>
    BY <1>1, <2>2, FirstRecord
  <2> QED
    BY <1>5, <2>1, <2>2
<1>7. TypeOK'
  BY <1>1, <1>2, <1>6, ProcessAssumption DEF ReceiptInv, TypeOK, provider
<1>8. Locked' /\ Fresh'
  BY <1>1, <1>2, <1>3, TypesOfSession DEF Locked, Fresh
<1>13. Attended'
  BY <1>1, <1>2, TypesOfSession DEF ReceiptInv, Attended
<1>9. ASSUME NEW q \in Process PROVE Knows(q)'
  <2>1. CASE q = p
    BY <1>1, <1>2, <1>4, <2>1, FirstRecord, TypesOfSession
       DEF Knows, Working, Creator, Opener, stagesAt
  <2>2. CASE q # p
    BY <1>1, <1>3, <2>2 DEF Knows, Working
  <2> QED
    BY <2>1, <2>2
<1>10. \A m \in Mutation : attempts[m] = 0
  BY <1>6 DEF ReceiptInv, Counted
<1>11. Counted'
  BY <1>1, <1>10 DEF Counted
<1>12. Ready'
  <2> SUFFICES ASSUME NEW q \in Process, NEW m \in Mutation, Asks(q, m)'
               PROVE  m \in intendedNow' /\ q = p
    BY <1>1, <1>10 DEF Ready
  <2>1. q = p
    BY <1>1, <1>3, WhoAsks DEF Asks
  <2>2. session'[p].step = "prompting" /\ m = "prompt"
    BY <1>2, <2>1, TypesOfSession DEF Asks, asks
  <2> QED
    BY <1>1, <1>2, <2>1, <2>2, FirstRecord, TypesOfSession
<1> QED
  BY <1>6, <1>7, <1>8, <1>9, <1>11, <1>12, <1>13 DEF ReceiptInv

-----------------------------------------------------------------------------
(* What a command, or the page it left, asks of the provider.              *)

Waiting == {"waiting", "converting", "hiding", "exposing", "publishing", "privatizing",
            "withdrawing", "removing"}

\* A step of p that asks for m, and what p has seen before.
Asking(p, m, step) ==
    LET s == session[p]
        c == s.receipt.conversation
    IN /\ Working(p) /\ m \in Mutation \cup Repeatable /\ step \in Waiting
       /\ Ask(p, m, step)
       /\ s.receipt.stage \in stagesAt(step)
       /\ m \in Mutation => Asks(p, m)
       /\ m # "prompt" => s.receipt.stage # "prepared" /\ (c \in made \/ artifact[c] # "none")
       /\ m = "publish" => artifact[c] = "private" /\ mapping[c] = "none"
       /\ m = "delete" => s.step = "planning" /\ s.receipt.stage \in Deletable
                          /\ mayDelete(s.receipt)
       /\ step = "exposing" => mapping[c] = "active"
       /\ step = "publishing" => m = "publish"
       /\ step \in Creator => s.step \in Creator
       /\ step \in Opener => s.step \in Opener

Dispatching(p) ==
    \/ SendPrompt(p) \/ Convert(p) \/ HideConverted(p) \/ PublishDirect(p) \/ Privatize(p)
    \/ Unpublish(p) \/ DeleteConversation(p)

\* What is known of the receipt of whoever works, also of one that is left.
LEMMA HeldReceipt ==
    ASSUME ReceiptInv, NEW p \in Process, Working(p)
    PROVE  /\ log # <<>> /\ validValue(session[p].receipt) /\ session[p].receipt \in Record
           /\ session[p].receipt.stage \in stagesAt(session[p].step)
           /\ session[p].receipt.stage # "prepared" =>
                  session[p].receipt.conversation \in Conversation
BY BoundConversation DEF ReceiptInv, Knows, validValue

LEMMA DispatchingAsks ==
    ASSUME ReceiptInv, NEW p \in Process, Dispatching(p)
    PROVE  \E m \in Mutation \cup Repeatable, step \in Step : Asking(p, m, step)
<1> DEFINE r == session[p].receipt
<1>1. ASSUME Working(p)
      PROVE  r.stage \in stagesAt(session[p].step) /\ r.stage \in Stage
  BY <1>1, HeldReceipt, RecordFields
<1> HIDE DEF r
<1>2. CASE SendPrompt(p)
  <2>1. session[p].step = "prompting" /\ Ask(p, "prompt", "waiting")
    BY <1>2 DEF SendPrompt
  <2>2. Working(p) /\ r.stage = "prepared"
    BY <1>1, <2>1 DEF Working, Creator, stagesAt
  <2>3. Asking(p, "prompt", "waiting")
    BY <2>1, <2>2 DEF Asking, Mutation, Waiting, stagesAt, Asks, asks, Creator, Opener, r
  <2> QED
    BY <2>3 DEF Mutation, Step
<1>3. CASE Convert(p)
  <2>1. /\ session[p].step = "intended" /\ Ask(p, "convert", "converting")
        /\ r.conversation \in made
    BY <1>3 DEF Convert, exactConversation, r
  <2>2. Working(p) /\ r.stage = "conversion_pending"
    BY <1>1, <2>1 DEF Working, Creator, stagesAt
  <2>3. Asking(p, "convert", "converting")
    BY <2>1, <2>2 DEF Asking, Mutation, Waiting, stagesAt, Asks, asks, Creator, Opener, r
  <2> QED
    BY <2>3 DEF Mutation, Step
<1>4. CASE HideConverted(p)
  <2>1. PICK step \in {"hiding", "exposing"} :
            /\ session[p].step = "converting" /\ Ask(p, "hide", step)
            /\ artifact[r.conversation] # "none"
            /\ step = "exposing" => mapping[r.conversation] = "active"
    BY <1>4 DEF HideConverted, r
  <2>2. Working(p) /\ r.stage = "conversion_pending"
    BY <1>1, <2>1 DEF Working, Creator, stagesAt
  <2>3. Asking(p, "hide", step)
    BY <2>1, <2>2
       DEF Asking, Mutation, Repeatable, Waiting, stagesAt, Creator, Opener, r
  <2> QED
    BY <2>3 DEF Repeatable, Step
<1>5. CASE PublishDirect(p)
  <2>1. /\ session[p].step = "bound" /\ Ask(p, "publish", "publishing")
        /\ r.requestedPublic
        /\ artifact[r.conversation] = "private" /\ mapping[r.conversation] = "none"
    BY <1>5 DEF PublishDirect, r
  <2>2. Working(p) /\ r.stage = "converted"
    BY <1>1, <2>1 DEF Working, Creator, stagesAt
  <2>3. Asking(p, "publish", "publishing")
    BY <2>1, <2>2 DEF Asking, Mutation, Waiting, stagesAt, Asks, asks, Creator, Opener, r
  <2> QED
    BY <2>3 DEF Mutation, Step
<1>6. CASE Privatize(p)
  <2>1. /\ session[p].step = "allowed" /\ Ask(p, "privatize", "privatizing")
        /\ r.stage = "privacy_pending" /\ r.conversation \in made
    BY <1>6 DEF Privatize, allowed, exactConversation, r
  <2>2. Working(p)
    BY <2>1 DEF Working, Opener
  <2>3. Asking(p, "privatize", "privatizing")
    BY <2>1, <2>2 DEF Asking, Mutation, Waiting, stagesAt, Asks, asks, Creator, Opener, r
  <2> QED
    BY <2>3 DEF Mutation, Step
<1>7. CASE Unpublish(p)
  <2>1. /\ session[p].step = "planning" /\ Ask(p, "unpublish", "withdrawing")
        /\ r.stage \in {"public_bound", "published"} /\ artifact[r.conversation] # "none"
    BY <1>7 DEF Unpublish, r
  <2>2. Working(p) /\ r.stage \in Stage
    BY <1>1, <2>1 DEF Working, Opener
  <2>3. Asking(p, "unpublish", "withdrawing")
    BY <2>1, <2>2
       DEF Asking, Mutation, Repeatable, Waiting, stagesAt, Creator, Opener, r
  <2> QED
    BY <2>3 DEF Repeatable, Step
<1>8. CASE DeleteConversation(p)
  <2>1. /\ session[p].step = "planning" /\ Ask(p, "delete", "removing")
        /\ r.stage \in Deletable /\ mayDelete(r)
    BY <1>8 DEF DeleteConversation, deletable, Deletable, r
  <2>2. Working(p) /\ r.stage \in Stage
    BY <1>1, <2>1 DEF Working, Opener
  <2>3. r.stage # "prepared" /\ r.conversation \in made
    BY <2>1 DEF mayDelete, exactConversation, Deletable, Preconversion
  <2>4. Asking(p, "delete", "removing")
    BY <2>1, <2>2, <2>3
       DEF Asking, Mutation, Repeatable, Waiting, stagesAt, Creator, Opener, r
  <2> QED
    BY <2>4 DEF Repeatable, Step
<1> QED
  BY <1>2, <1>3, <1>4, <1>5, <1>6, <1>7, <1>8 DEF Dispatching

\* What such a step leaves: the request, and p waiting for the answer; a page
\* that was left closes, but for one that converts.
LEMMA AskingLeaves ==
    ASSUME ReceiptInv, NEW p \in Process, NEW m, NEW step, Asking(p, m, step)
    PROVE  /\ UNCHANGED <<file, owner, provider>>
           /\ flight' = flight \cup {[mutation |-> m, on |-> session[p].receipt.conversation,
                                      by |-> p]}
           /\ [mutation |-> m, on |-> session[p].receipt.conversation, by |-> p] \in Request
           /\ attempts' \in [Mutation -> Nat]
           /\ m \in Mutation => attempts[m] = 0 /\ attempts'[m] = 1 /\ m \in intendedNow
           /\ \A n \in Mutation : n # m => attempts'[n] = attempts[n]
           /\ session' \in [Process -> Session]
           /\ \A q \in Process : q # p => session'[q] = session[q]
           /\ \/ /\ session'[p].step = step /\ session'[p].receipt = session[p].receipt
                 /\ session'[p].alive = session[p].alive /\ session'[p].answer = "none"
              \/ session'[p] = Idle /\ ~ session[p].alive
<1> DEFINE s == session[p]
           n == [s EXCEPT !.step = step, !.answer = "none"]
<1>1. /\ UNCHANGED <<file, owner, provider>>
      /\ flight' = flight \cup {[mutation |-> m, on |-> s.receipt.conversation, by |-> p]}
      /\ attempts' = IF m \in Mutation THEN [attempts EXCEPT ![m] = @ + 1] ELSE attempts
      /\ session' = [session EXCEPT ![p] = IF s.alive \/ m = "convert" THEN n ELSE Idle]
  BY DEF Asking, Ask
<1>2. /\ session \in [Process -> Session] /\ s \in Session /\ s.alive \in BOOLEAN
      /\ attempts \in [Mutation -> Nat]
  BY DEF ReceiptInv, TypeOK, Session
<1>3. step \in Step /\ m \in Mutation \cup Repeatable
  BY DEF Asking, Waiting, Step
<1>4. /\ n \in Session /\ n.step = step /\ n.receipt = s.receipt /\ n.alive = s.alive
      /\ n.answer = "none"
  BY <1>2, <1>3 DEF Session
<1>5. s.receipt \in Record
  BY <1>2 DEF Session
<1>6. [mutation |-> m, on |-> s.receipt.conversation, by |-> p] \in Request
  BY <1>3, <1>5, RecordFields DEF Request
<1>7. /\ session' \in [Process -> Session]
      /\ \A q \in Process : q # p => session'[q] = session[q]
      /\ session'[p] = IF s.alive \/ m = "convert" THEN n ELSE Idle
  <2> HIDE DEF n, s
  <2> QED
    BY <1>1, <1>2, <1>4, TypesOfSession
<1>8. m \in Mutation => attempts[m] = 0 /\ m \in intendedNow
  BY DEF Asking, ReceiptInv, Ready
<1>9. /\ attempts' \in [Mutation -> Nat]
      /\ m \in Mutation => attempts'[m] = 1
      /\ \A o \in Mutation : o # m => attempts'[o] = attempts[o]
  BY <1>1, <1>2, <1>8
<1> HIDE DEF n
<1> QED
  BY <1>1, <1>4, <1>6, <1>7, <1>8, <1>9

LEMMA AskingKeepsReceipt ==
    ASSUME ReceiptInv, NEW p \in Process, NEW m \in Mutation \cup Repeatable, NEW step \in Step,
           Asking(p, m, step)
    PROVE  ReceiptInv'
<1>1. /\ UNCHANGED <<file, owner, provider>>
      /\ flight' = flight \cup {[mutation |-> m, on |-> session[p].receipt.conversation,
                                 by |-> p]}
      /\ [mutation |-> m, on |-> session[p].receipt.conversation, by |-> p] \in Request
      /\ attempts' \in [Mutation -> Nat]
      /\ m \in Mutation => attempts[m] = 0 /\ attempts'[m] = 1 /\ m \in intendedNow
      /\ \A n \in Mutation : n # m => attempts'[n] = attempts[n]
      /\ session' \in [Process -> Session]
      /\ \A q \in Process : q # p => session'[q] = session[q]
      /\ \/ /\ session'[p].step = step /\ session'[p].receipt = session[p].receipt
            /\ session'[p].alive = session[p].alive
         \/ session'[p] = Idle /\ ~ session[p].alive
  BY AskingLeaves
<1>2. /\ Working(p) /\ step \in Waiting /\ session[p].receipt.stage \in stagesAt(step)
      /\ session[p].step \notin {"none", "creating"} /\ step \notin {"none", "creating"}
      /\ m \in Mutation => Asks(p, m)
  BY DEF Asking, Working, Creator, Opener, Waiting
<1>3. intendedNow' = intendedNow /\ last' = last
  BY <1>1 DEF intendedNow, file, last
<1>4. TypeOK'
  BY <1>1 DEF ReceiptInv, TypeOK, file, provider
<1>5. Locked'
  BY <1>1, <1>2, TypesOfSession DEF ReceiptInv, Locked, file
<1>6. Fresh'
  <2>1. \A q \in Process : session'[q].step = "creating" => session'[q] = session[q]
    BY <1>1, <1>2, TypesOfSession
  <2> QED
    BY <1>1, <2>1 DEF ReceiptInv, Fresh, file
<1>11. Attended'
  BY <1>1, <1>2, TypesOfSession DEF ReceiptInv, Attended, Waiting
<1>7. ASSUME NEW q \in Process PROVE Knows(q)'
  BY <1>1, <1>2, <1>3, TypesOfSession
     DEF ReceiptInv, Knows, Working, Creator, Opener, file
<1>8. Readable' /\ Ordered'
  BY <1>1, <1>3 DEF ReceiptInv, Readable, Ordered, file
<1>9. Counted'
  BY <1>1, <1>3 DEF ReceiptInv, Counted
<1>10. Ready'
  <2> SUFFICES ASSUME NEW q \in Process, NEW n \in Mutation, Asks(q, n)'
               PROVE  /\ n \in intendedNow /\ attempts'[n] = 0
                      /\ \A o \in Process : Asks(o, n)' => o = q
    BY <1>3 DEF Ready
  <2>1. ASSUME NEW o \in Process, Asks(o, n)' PROVE o # p /\ Asks(o, n)
    <3>1. o # p
      BY <1>1, <1>2, <2>1, TypesOfSession DEF Asks, asks, Waiting
    <3> QED
      BY <1>1, <2>1, <3>1 DEF Asks
  <2>2. n \in intendedNow /\ attempts[n] = 0 /\ \A o \in Process : Asks(o, n) => o = q
    BY <2>1 DEF ReceiptInv, Ready
  <2>3. n # m
    BY <1>2, <2>1, <2>2
  <2> QED
    BY <1>1, <2>1, <2>2, <2>3
<1> QED
  BY <1>4, <1>5, <1>6, <1>7, <1>8, <1>9, <1>10, <1>11 DEF ReceiptInv

-----------------------------------------------------------------------------
(* The provider, and others who use the account.                           *)

\* Steps of the provider and of other users of the account.
Outside ==
    \/ \E q \in flight :
          \/ TakePrompt(q) \/ MakeArtifact(q) \/ MakePrivate(q) \/ MakePublic(q)
          \/ TakeBack(q) \/ Remove(q) \/ Refuse(q)
    \/ ConversationElsewhere \/ WithdrawByHand

\* What an answer leaves of the sessions.
LEMMA AnswerLeaves ==
    ASSUME ReceiptInv, NEW q \in flight, NEW answer \in {"done", "public", "refused"},
           Answer(q, answer)
    PROVE  /\ flight' = flight \ {q} /\ UNCHANGED <<file, owner, attempts>>
           /\ session' \in [Process -> Session]
           /\ \A p \in Process :
                 /\ session'[p].step = session[p].step
                 /\ session'[p].receipt = session[p].receipt
                 /\ session'[p].alive = session[p].alive
                 /\ \/ session'[p].answer = session[p].answer
                    \/ /\ session'[p].answer = answer
                       /\ session[p].step = "publishing" => q.mutation = "publish"
<1>1. q \in Request /\ session \in [Process -> Session]
  BY DEF ReceiptInv, TypeOK
<1>2. q.by \in Process /\ q.mutation \in Mutation \cup Repeatable
  BY <1>1 DEF Request
<1>3. flight' = flight \ {q} /\ UNCHANGED <<file, owner, attempts>>
  BY DEF Answer
<1>4. CASE UNCHANGED session
  BY <1>1, <1>3, <1>4
<1>5. CASE /\ \/ session[q.by].step = Asked[q.mutation]
              \/ q.mutation = "hide" /\ session[q.by].step = "exposing"
           /\ session' = [session EXCEPT ![q.by].answer = answer]
  <2>1. session[q.by].step = "publishing" => q.mutation = "publish"
    BY <1>2, <1>5 DEF Asked, Mutation, Repeatable
  <2>2. /\ session' \in [Process -> Session] /\ session'[q.by].answer = answer
        /\ session'[q.by].step = session[q.by].step
        /\ session'[q.by].receipt = session[q.by].receipt
        /\ session'[q.by].alive = session[q.by].alive
        /\ \A p \in Process : p # q.by => session'[p] = session[p]
    BY <1>1, <1>2, <1>5 DEF Session
  <2> QED
    BY <1>3, <2>1, <2>2
<1> QED
  BY <1>4, <1>5 DEF Answer

\* No step outside touches the receipt or a count.
LEMMA OutsideLeaves ==
    ASSUME ReceiptInv, Outside
    PROVE  /\ UNCHANGED <<file, owner, attempts>> /\ flight' \subseteq flight
           /\ session' \in [Process -> Session]
           /\ \A p \in Process :
                 /\ session'[p].step = session[p].step
                 /\ session'[p].receipt = session[p].receipt
                 /\ session'[p].alive = session[p].alive
<1>1. ASSUME NEW q \in flight,
             \/ TakePrompt(q) \/ MakeArtifact(q) \/ MakePrivate(q) \/ MakePublic(q)
             \/ TakeBack(q) \/ Remove(q) \/ Refuse(q)
      PROVE  \E answer \in {"done", "public", "refused"} : Answer(q, answer)
  BY <1>1 DEF TakePrompt, MakeArtifact, MakePrivate, MakePublic, TakeBack, Remove, Refuse
<1>2. CASE ConversationElsewhere \/ WithdrawByHand
  BY <1>2 DEF ConversationElsewhere, WithdrawByHand, ReceiptInv, TypeOK
<1> QED
  BY <1>1, <1>2, AnswerLeaves DEF Outside

LEMMA OutsideKeepsReceipt ==
    ASSUME ReceiptInv, Outside
    PROVE  ReceiptInv'
<1>1. /\ UNCHANGED <<file, owner, attempts>> /\ flight' \subseteq flight
      /\ session' \in [Process -> Session]
      /\ \A p \in Process :
            /\ session'[p].step = session[p].step
            /\ session'[p].receipt = session[p].receipt
            /\ session'[p].alive = session[p].alive
  BY OutsideLeaves
<1>2. /\ conversation \in [Conversation -> {"absent", "there", "deleted"}]
      /\ artifact \in [Conversation -> {"none", "shared", "private"}]
      /\ mapping \in [Conversation -> {"none", "active", "deleted"}]
      /\ made \subseteq Conversation
  BY DEF ReceiptInv, TypeOK
<1>3. /\ conversation' \in [Conversation -> {"absent", "there", "deleted"}]
      /\ artifact' \in [Conversation -> {"none", "shared", "private"}]
      /\ mapping' \in [Conversation -> {"none", "active", "deleted"}]
      /\ made' \subseteq Conversation
  <2>1. \A q \in flight : TakePrompt(q) => <1>3!:
    BY <1>2 DEF TakePrompt
  <2>2. ASSUME NEW q \in flight, MakeArtifact(q) PROVE <1>3!:
    <3>1. PICK visibility \in {"shared", "private"} :
              artifact' = [artifact EXCEPT ![q.on] = visibility]
      BY <2>2 DEF MakeArtifact
    <3>2. artifact' \in [Conversation -> {"none", "shared", "private"}]
      BY <1>2, <3>1
    <3>3. mapping' = mapping \/ mapping' = [mapping EXCEPT ![q.on] = "active"]
      BY <2>2 DEF MakeArtifact
    <3>4. mapping' \in [Conversation -> {"none", "active", "deleted"}]
      BY <1>2, <3>3
    <3> QED
      BY <1>2, <2>2, <3>2, <3>4 DEF MakeArtifact
  <2>3. \A q \in flight : MakePrivate(q) \/ MakePublic(q) \/ TakeBack(q) => <1>3!:
    BY <1>2 DEF MakePrivate, MakePublic, TakeBack
  <2>4. \A q \in flight : Remove(q) \/ Refuse(q) => <1>3!:
    BY <1>2 DEF Remove, Refuse, provider
  <2>5. ConversationElsewhere \/ WithdrawByHand => <1>3!:
    BY <1>2 DEF ConversationElsewhere, WithdrawByHand
  <2> QED
    BY <2>1, <2>2, <2>3, <2>4, <2>5 DEF Outside
<1>4. TypeOK'
  BY <1>1, <1>3 DEF ReceiptInv, TypeOK, file
<1>5. Locked' /\ Fresh' /\ Attended'
  BY <1>1 DEF ReceiptInv, Locked, Fresh, Attended, file
<1>6. last' = last
  BY <1>1 DEF last, file
<1>7. ASSUME NEW q \in Process PROVE Knows(q)'
  BY <1>1, <1>6 DEF ReceiptInv, Knows, Working, file
<1>8. \A q \in Process, m \in Mutation : Asks(q, m)' => Asks(q, m)
  BY <1>1 DEF Asks
<1> QED
  BY <1>1, <1>4, <1>5, <1>7, <1>8, RecordsStay DEF ReceiptInv, file

LEMMA InitHolds == Init => ReceiptInv
<1> SUFFICES ASSUME Init PROVE ReceiptInv
  OBVIOUS
<1>1. session \in [Process -> Session] /\ \A p \in Process : session[p].step = "none"
  BY TypesOfSession DEF Init
<1>2. TypeOK
  <2>1. attempts \in [Mutation -> Nat] /\ log \in Seq(Record \cup {Fragment})
    BY DEF Init
  <2>2. /\ conversation \in [Conversation -> {"absent", "there", "deleted"}]
        /\ artifact \in [Conversation -> {"none", "shared", "private"}]
        /\ mapping \in [Conversation -> {"none", "active", "deleted"}]
    BY DEF Init
  <2> QED
    BY <1>1, <2>1, <2>2 DEF Init, TypeOK
<1>3. \A p \in Process, m \in Mutation : ~ Asks(p, m)
  BY <1>1 DEF Asks, asks
<1>4. Locked /\ Fresh /\ Attended /\ \A p \in Process : Knows(p)
  BY <1>1 DEF Init, Locked, Fresh, Attended, Knows, Working, Creator, Opener
<1>5. Readable /\ Ordered /\ Counted /\ Ready
  BY <1>3 DEF Init, Readable, Ordered, Counted, Ready
<1> QED
  BY <1>2, <1>4, <1>5 DEF ReceiptInv

\* Every step is of one of these kinds.
LEMMA Steps ==
    ASSUME [Next]_vars
    PROVE  \/ \E p \in Process :
                 \/ Create(p) \/ Begin(p) \/ \E command \in Command : Open(p, command)
                 \/ Load(p) \/ Stop(p) \/ Orphan(p) \/ Storing(p) \/ Dispatching(p)
           \/ Outside
           \/ UNCHANGED vars
BY DEF Next, Storing, Dispatching, Outside

LEMMA ReceiptNext == ReceiptInv /\ [Next]_vars => ReceiptInv'
<1> SUFFICES ASSUME ReceiptInv, [Next]_vars PROVE ReceiptInv'
  OBVIOUS
<1>1. ASSUME NEW p \in Process, Storing(p) PROVE ReceiptInv'
  BY <1>1, StoringAppends, AppendingKeepsReceipt
<1>2. ASSUME NEW p \in Process, Dispatching(p) PROVE ReceiptInv'
  BY <1>2, DispatchingAsks, AskingKeepsReceipt
<1>3. ASSUME NEW p \in Process,
             \/ Create(p) \/ Begin(p) \/ \E command \in Command : Open(p, command)
             \/ Load(p) \/ Stop(p) \/ Orphan(p)
      PROVE  ReceiptInv'
  BY <1>3, CreateKeeps, BeginKeeps, OpenKeeps, LoadKeeps, StopKeeps, OrphanKeeps
<1>4. CASE Outside
  BY <1>4, OutsideKeepsReceipt
<1>5. CASE UNCHANGED vars
  <2>1. TypeOK' /\ Locked' /\ Fresh' /\ Attended' /\ \A p \in Process : Knows(p)'
    BY <1>5 DEF vars, file, provider, ReceiptInv, TypeOK, Locked, Fresh, Attended, Knows,
                Working, last
  <2>2. \A p \in Process, m \in Mutation : Asks(p, m)' => Asks(p, m)
    BY <1>5 DEF vars, Asks
  <2> QED
    BY <1>5, <2>1, <2>2, RecordsStay DEF vars, file, ReceiptInv
<1> QED
  BY <1>1, <1>2, <1>3, <1>4, <1>5, Steps

\* In every state the command that holds the lock knows the last record, and
\* what was asked for once was intended before, and by one only.
THEOREM ReceiptInvHolds == Spec => []ReceiptInv
BY InitHolds, ReceiptNext, PTL DEF Spec

\* The receipt, the sessions, the requests and what the provider holds are of
\* the kinds the code knows.
THEOREM TypeCorrect == Spec => []TypeOK
<1>1. ReceiptInv => TypeOK
  BY DEF ReceiptInv
<1> QED
  BY <1>1, ReceiptInvHolds, PTL

\* However the commands die, a receipt that was begun can be loaded again.
THEOREM StaysReadable == Spec => []Readable
<1>1. ReceiptInv => Readable
  BY DEF ReceiptInv
<1> QED
  BY <1>1, ReceiptInvHolds, PTL

-----------------------------------------------------------------------------
(* The refinement of OneShot.                                              *)

LEMMA InitIsOneShot == Init => Requests!Init
BY DEF Init, Requests!Init, intendedNow

LEMMA AppendingIsOneShot ==
    ASSUME ReceiptInv, NEW p \in Process, NEW r \in Record, NEW step \in Step,
           Appending(p, r, step)
    PROVE  [Requests!Next]_(Requests!vars)
<1>1. /\ log # <<>> /\ validStep(last, r) /\ TypeOK /\ Readable /\ Ordered
  BY WorkingReceipt DEF Appending, Store, ReceiptInv
<1>2. attempts' = attempts /\ (log' = Append(log, r) \/ log' = log)
  BY AppendingLeaves
<1>3. CASE log' = log
  BY <1>2, <1>3 DEF Requests!vars, intendedNow
<1>4. CASE log' = Append(log, r)
  <2>1. /\ intendedNow' = intendedNow \cup {m \in Mutation : intends(r, m)}
        /\ \A m \in Mutation : intends(r, m) => m \notin intendedNow
    BY <1>1, <1>4, IntentsGrow
  <2>2. ASSUME NEW m \in Mutation, intends(r, m) PROVE Requests!Next
    <3>1. intendedNow' = intendedNow \cup {m}
      BY <2>1, <2>2, IntentsDiffer
    <3> QED
      BY <1>2, <2>1, <2>2, <3>1 DEF Requests!Next, Requests!Intend
  <2>3. CASE \A m \in Mutation : ~ intends(r, m)
    BY <1>2, <2>1, <2>3 DEF Requests!vars
  <2> QED
    BY <2>2, <2>3
<1> QED
  BY <1>2, <1>3, <1>4

LEMMA AskingIsOneShot ==
    ASSUME ReceiptInv, NEW p \in Process, NEW m \in Mutation \cup Repeatable, NEW step \in Step,
           Asking(p, m, step)
    PROVE  [Requests!Next]_(Requests!vars)
<1>1. /\ log' = log
      /\ m \in Mutation => attempts[m] = 0 /\ m \in intendedNow
      /\ attempts' = IF m \in Mutation THEN [attempts EXCEPT ![m] = @ + 1] ELSE attempts
  BY AskingLeaves DEF Asking, Ask, file
<1>2. intendedNow' = intendedNow
  BY <1>1 DEF intendedNow
<1>3. CASE m \in Mutation
  <2>1. attempts' = [attempts EXCEPT ![m] = 1]
    <3>1. attempts \in [Mutation -> Nat]
      BY DEF ReceiptInv, TypeOK
    <3> QED
      BY <1>1, <1>3, <3>1
  <2> QED
    BY <1>1, <1>2, <1>3, <2>1 DEF Requests!Next, Requests!Attempt
<1>4. CASE m \notin Mutation
  BY <1>1, <1>2, <1>4 DEF Requests!vars
<1> QED
  BY <1>3, <1>4

LEMMA BeginIsOneShot ==
    ASSUME ReceiptInv, NEW p \in Process, Begin(p)
    PROVE  [Requests!Next]_(Requests!vars)
<1>1. log = <<>> /\ attempts' = attempts
  BY BeginLeaves
<1>2. PICK requested \in BOOLEAN : log' = log \/ log' = <<Prepared(requested)>>
  BY BeginLeaves
<1>3. CASE log' = log
  BY <1>1, <1>3 DEF Requests!vars, intendedNow
<1>4. CASE log' = <<Prepared(requested)>>
  <2>1. intendedNow = {} /\ intendedNow' = {"prompt"} /\ "prompt" \in Mutation
    BY <1>1, <1>4, FirstRecord DEF Mutation
  <2> QED
    BY <1>1, <2>1 DEF Requests!Next, Requests!Intend
<1> QED
  BY <1>2, <1>3, <1>4

\* The commands on a receipt, and the pages they leave, are in everything they
\* ask of the provider a publisher that writes each intent once and asks for
\* each mutation once.
THEOREM ImplementsOneShot == Spec => RequestsAreOneShot
<1>1. ReceiptInv /\ [Next]_vars => [Requests!Next]_(Requests!vars)
  <2> SUFFICES ASSUME ReceiptInv, [Next]_vars PROVE [Requests!Next]_(Requests!vars)
    OBVIOUS
  <2>1. ASSUME NEW p \in Process, Storing(p) PROVE [Requests!Next]_(Requests!vars)
    BY <2>1, StoringAppends, AppendingIsOneShot
  <2>2. ASSUME NEW p \in Process, Dispatching(p) PROVE [Requests!Next]_(Requests!vars)
    BY <2>2, DispatchingAsks, AskingIsOneShot
  <2>3. ASSUME NEW p \in Process, Begin(p) PROVE [Requests!Next]_(Requests!vars)
    BY <2>3, BeginIsOneShot
  <2>4. ASSUME NEW p \in Process,
               \/ Create(p) \/ \E command \in Command : Open(p, command)
               \/ Load(p) \/ Stop(p) \/ Orphan(p)
        PROVE  log' = log /\ attempts' = attempts
    BY <2>4 DEF Create, Open, Load, Stop, Orphan, file
  <2>5. CASE Outside
    BY <2>5, OutsideLeaves DEF Requests!vars, intendedNow, file
  <2>6. log' = log /\ attempts' = attempts => UNCHANGED Requests!vars
    BY DEF Requests!vars, intendedNow
  <2>7. CASE UNCHANGED vars
    BY <2>6, <2>7 DEF vars, file
  <2> QED
    BY <2>1, <2>2, <2>3, <2>4, <2>5, <2>6, <2>7, Steps
<1> QED
  BY <1>1, InitIsOneShot, ReceiptInvHolds, PTL DEF Spec, RequestsAreOneShot, Requests!Spec

-----------------------------------------------------------------------------
(* The account.                                                            *)

noneInFlight(m) == \A q \in flight : q.mutation # m

OwnRequests == \A q \in flight : q.mutation # "prompt" => q.on \in made

OneInFlight ==
    \A q \in flight :
        q.mutation \in Mutation =>
            /\ attempts[q.mutation] = 1
            /\ \A o \in flight : o.mutation = q.mutation => o = q

\* One conversation holds the prompt, and no other can.
OneMade ==
    /\ \A c, d \in made : c = d
    /\ made # {} => attempts["prompt"] = 1 /\ noneInFlight("prompt")

\* What was converted or mapped was so by requests that are carried out.
OneConverted ==
    \A c \in Conversation :
        /\ artifact[c] # "none" \/ mapping[c] # "none" =>
               attempts["convert"] = 1 /\ noneInFlight("convert")
        /\ mapping[c] # "none" => noneInFlight("publish")

\* What is true of the account when r is the last record.
Tells(r) ==
    /\ r.artifact =>
           /\ r.conversation \in made
           /\ attempts["convert"] = 1 /\ noneInFlight("convert")
    /\ r.public => mapping[r.conversation] # "none"
    /\ r.stage \in {"converted", "private"} => artifact[r.conversation] # "shared"
    /\ r.stage = "unpublished" => mapping[r.conversation] = "deleted"
    /\ r.stage = "deleted" => conversation[r.conversation] = "deleted"

Told == log # <<>> => Tells(last) /\ ("publish" \in intendedNow => Follows(last))

noCreator == \A p \in Process : session[p].alive => session[p].step \notin Creator

\* What a command has seen of the account, and is still so.
Claims(p) ==
    LET s == session[p]
        c == s.receipt.conversation
    IN /\ s.step \in {"exposing", "exposed"} => mapping[c] # "none"
       /\ s.step = "publishing" => c \in made /\ (s.answer = "done" => mapping[c] # "none")
       /\ s.step = "withdrawn" => mapping[c] = "deleted"
       /\ s.step \in Opener => noCreator
       /\ s.step = "planning" /\ s.receipt.stage \in Deletable =>
              last = s.receipt \/ last.stage = "deleted"

\* The conversation c is deleted, or may be at any time.
Going(c) ==
    \/ conversation[c] = "deleted"
    \/ \E q \in flight : q.mutation = "delete" /\ q.on = c

\* Nothing is on its way that could be published from a conversation that goes.
Left ==
    \A c \in Conversation :
        Going(c) =>
            /\ mapping[c] # "active"
            /\ log # <<>> /\ last.stage \in Deletable \cup {"deleted"}
            /\ noneInFlight("convert") /\ noneInFlight("publish")
            /\ noCreator
            /\ \A p \in Process : ~ Asks(p, "convert")

\* The account, as the receipt and its commands know it.
AccountInv ==
    /\ OwnConversationOnly /\ OwnRequests /\ OneInFlight /\ OneMade /\ OneConverted
    /\ Told /\ Left /\ \A p \in Process : Claims(p)

\* An intended publication means a converted Artifact, and no conversion that
\* is still to come.
LEMMA PublicationConverted ==
    ASSUME ReceiptInv, AccountInv, "publish" \in intendedNow
    PROVE  /\ log # <<>> /\ Follows(last) /\ validValue(last) /\ last \in Record
           /\ last.conversation \in Conversation /\ last.conversation \in made
           /\ attempts["convert"] = 1 /\ noneInFlight("convert")
           /\ last.public => mapping[last.conversation] # "none"
<1>1. log # <<>> /\ Follows(last) /\ Tells(last)
  BY IntentsBehind DEF ReceiptInv, AccountInv, Told
<1>2. validValue(last) /\ last \in Record
  BY <1>1 DEF ReceiptInv, TypeOK, Readable, validHistory, validValue, last
<1>3. last.artifact /\ last.stage # "prepared"
  BY <1>1, <1>2 DEF Follows, validValue, CoreStage, PublicStage
<1> QED
  BY <1>1, <1>2, <1>3, BoundConversation DEF Tells

LEMMA LastIsValid ==
    ASSUME ReceiptInv, log # <<>>
    PROVE  validValue(last) /\ last \in Record
BY DEF ReceiptInv, TypeOK, Readable, validHistory, validValue, last

\* What one who stores keeps, when what he stores is what he saw.
LEMMA StoredTells ==
    ASSUME ReceiptInv, AccountInv, NEW p \in Process, NEW r \in Record, NEW step \in Step,
           Appending(p, r, step), Founded(p, r, step)
    PROVE  Tells(r)
<1>1. /\ session[p].receipt = last /\ last \in Record /\ validValue(last) /\ log # <<>>
      /\ validValue(r) /\ validStep(last, r)
      /\ last.stage \in stagesAt(session[p].step)
  BY WorkingReceipt DEF Appending, Store
<1>2. Tells(last) /\ Claims(p)
  BY <1>1 DEF AccountInv, Told
<1>3. last.stage # "prepared" => r.conversation = last.conversation
  BY <1>1 DEF validStep, validValue
<1>4. last.artifact \/ last.public \/ last.stage = "converted" => last.stage # "prepared"
  BY <1>1 DEF validValue, CoreStage, PublicStage
<1>5. r.stage # "prepared" => r.conversation \in Conversation
  BY <1>1, BoundConversation
<1>6. ASSUME r.artifact
      PROVE  r.conversation \in made /\ attempts["convert"] = 1 /\ noneInFlight("convert")
  <2>1. CASE last.artifact
    BY <1>2, <1>3, <1>4, <2>1 DEF Tells
  <2>2. CASE ~ last.artifact
    <3>1. r.conversation \in made /\ artifact[r.conversation] # "none"
      BY <1>6, <2>2 DEF Founded
    <3>2. r.conversation \in Conversation
      BY <3>1 DEF ReceiptInv, TypeOK
    <3> QED
      BY <3>1, <3>2 DEF AccountInv, OneConverted
  <2> QED
    BY <2>1, <2>2
<1>7. ASSUME r.public
      PROVE  mapping[r.conversation] # "none"
  <2>1. CASE last.public
    BY <1>2, <1>3, <1>4, <2>1 DEF Tells
  <2>2. CASE session[p].step = "exposed" \/ (session[p].step = "publishing"
                                                /\ session[p].answer = "done")
    <3>1. last.stage = "converted"
      BY <1>1, <2>2 DEF stagesAt
    <3> QED
      BY <1>1, <1>2, <1>3, <1>4, <2>2, <3>1 DEF Claims
  <2> QED
    BY <1>7, <2>1, <2>2 DEF Founded
<1>8. r.stage \in {"converted", "private"} => artifact[r.conversation] # "shared"
  BY <1>2, <1>3, <1>4 DEF Founded, Tells
<1>9. ASSUME r.stage = "unpublished"
      PROVE  mapping[r.conversation] = "deleted"
  <2>1. CASE session[p].step = "withdrawn"
    <3>1. last.stage = "public_bound"
      BY <1>1, <2>1 DEF stagesAt
    <3> QED
      BY <1>1, <1>2, <1>3, <2>1, <3>1 DEF Claims
  <2> QED
    BY <1>9, <2>1 DEF Founded
<1>10. r.stage = "deleted" => conversation[r.conversation] = "deleted"
  BY DEF Founded
<1> QED
  BY <1>6, <1>7, <1>8, <1>9, <1>10 DEF Tells

\* Nothing that is about the account alone changes.
LEMMA AccountStays ==
    ASSUME AccountInv, UNCHANGED <<provider, flight, attempts>>
    PROVE  /\ OwnConversationOnly' /\ OwnRequests' /\ OneInFlight' /\ OneMade' /\ OneConverted'
           /\ \A r : Tells(r)' <=> Tells(r)
           /\ \A m : noneInFlight(m)' <=> noneInFlight(m)
           /\ \A c \in Conversation : Going(c)' <=> Going(c)
<1>1. UNCHANGED <<conversation, artifact, mapping, made, flight, attempts>>
  BY DEF provider
<1>2. OwnConversationOnly' /\ OwnRequests' /\ OneInFlight'
  BY <1>1 DEF AccountInv, OwnConversationOnly, OwnRequests, OneInFlight
<1>3. \A m : noneInFlight(m)' <=> noneInFlight(m)
  BY <1>1 DEF noneInFlight
<1>4. OneMade' /\ OneConverted'
  BY <1>1, <1>3 DEF AccountInv, OneMade, OneConverted
<1>5. \A r : Tells(r)' <=> Tells(r)
  BY <1>1, <1>3 DEF Tells
<1>6. \A c \in Conversation : Going(c)' <=> Going(c)
  BY <1>1 DEF Going
<1> QED
  BY <1>2, <1>3, <1>4, <1>5, <1>6

LEMMA AppendingKeepsAccount ==
    ASSUME ReceiptInv, AccountInv, NEW p \in Process, NEW r \in Record, NEW step \in Step,
           Appending(p, r, step), Founded(p, r, step)
    PROVE  AccountInv'
<1>1. /\ log # <<>> /\ session[p].receipt = last /\ validStep(last, r) /\ session[p].alive
      /\ last \in Record /\ validValue(last) /\ last.stage \in stagesAt(session[p].step)
      /\ step \in {"none"} \cup Creator \cup Opener /\ Working(p)
  BY WorkingReceipt DEF Appending, Store
<1>2. /\ UNCHANGED <<provider, flight, attempts>>
      /\ \/ log' = Append(log, r)
         \/ log' = log
      /\ \/ log' = Append(log, r) /\ session' = moved(session, p, r, step)
         \/ session' = [session EXCEPT ![p] = Idle]
  BY AppendingLeaves
<1>3. TypeOK /\ Readable /\ Ordered /\ session \in [Process -> Session]
  BY DEF ReceiptInv, TypeOK
<1>4. /\ \A q \in Process : q # p => session'[q] = session[q]
      /\ \/ /\ log' = Append(log, r)
            /\ session'[p].receipt = r /\ session'[p].step = step /\ session'[p].alive
         \/ session'[p] = Idle
  BY <1>1, <1>2, <1>3, SessionGoesOn
<1>5. UNCHANGED <<conversation, artifact, mapping, made, flight, attempts>>
  BY <1>2 DEF provider
<1>6. /\ OwnConversationOnly' /\ OwnRequests' /\ OneInFlight' /\ OneMade' /\ OneConverted'
      /\ \A s : Tells(s)' <=> Tells(s)
      /\ \A m : noneInFlight(m)' <=> noneInFlight(m)
      /\ \A c \in Conversation : Going(c)' <=> Going(c)
  BY <1>2, AccountStays
<1>7. /\ log' # <<>>
      /\ \/ log' = Append(log, r) /\ last' = r
         \/ log' = log /\ last' = last
  <2>1. CASE log' = log
    BY <1>1, <2>1 DEF last
  <2>2. CASE log' = Append(log, r)
    BY <1>3, <2>2, LastOfAppend
  <2> QED
    BY <1>2, <2>1, <2>2
<1>8. Told'
  <2>1. CASE log' = log
    BY <1>6, <1>7, <2>1, LastOfAppend DEF AccountInv, Told, intendedNow, last
  <2>2. CASE log' = Append(log, r)
    <3>1. last' = r
      BY <1>3, <2>2, LastOfAppend
    <3>2. intendedNow' = intendedNow \cup {m \in Mutation : intends(r, m)}
      BY <1>1, <1>3, <2>2, IntentsGrow
    <3>3. "publish" \in intendedNow => Follows(r)
      BY <1>1 DEF AccountInv, Told, Founded
    <3>4. intends(r, "publish") => Follows(r)
      BY DEF intends, Follows
    <3>5. Tells(r)
      BY StoredTells
    <3> QED
      BY <1>6, <3>1, <3>2, <3>3, <3>4, <3>5 DEF Told, Follows
  <2> QED
    BY <1>2, <2>1, <2>2
<1>9. session'[p].step \in Creator => session[p].step \in Creator
  BY <1>4, TypesOfSession DEF Founded, Creator
<1>10. noCreator => noCreator' /\ session[p].step \in Opener
  BY <1>1, <1>4, <1>9 DEF noCreator, Working
<1>11. noCreator /\ last.stage \in Deletable \cup {"deleted"}
          => last'.stage = last.stage \/ last'.stage = "deleted"
  BY <1>7, <1>10 DEF Founded
<1>12. Left'
  <2> SUFFICES ASSUME NEW c \in Conversation, Going(c)
               PROVE  /\ mapping[c] # "active"
                      /\ log' # <<>> /\ last'.stage \in Deletable \cup {"deleted"}
                      /\ noneInFlight("convert") /\ noneInFlight("publish")
                      /\ noCreator'
                      /\ \A q \in Process : ~ Asks(q, "convert")'
    BY <1>5, <1>6 DEF Left, Deletable
  <2>1. /\ mapping[c] # "active"
        /\ log # <<>> /\ last.stage \in Deletable \cup {"deleted"}
        /\ noneInFlight("convert") /\ noneInFlight("publish")
        /\ noCreator
        /\ \A q \in Process : ~ Asks(q, "convert")
    BY DEF AccountInv, Left
  <2>2. ~ Asks(p, "convert")'
    BY <1>4, <1>10, <2>1, TypesOfSession DEF Asks, asks, noCreator, Creator
  <2>3. \A q \in Process : ~ Asks(q, "convert")'
    BY <1>4, <2>1, <2>2 DEF Asks
  <2> QED
    BY <1>7, <1>10, <1>11, <2>1, <2>3
<1>13. ASSUME NEW q \in Process PROVE Claims(q)'
  <2>1. CASE q # p
    <3>1. Claims(q) /\ session'[q] = session[q]
      BY <1>4, <2>1 DEF AccountInv
    <3>2. session[q].step \in Opener => noCreator'
      BY <1>10, <3>1 DEF Claims
    <3>3. session[q].step = "planning" /\ session[q].receipt.stage \in Deletable =>
              last' = session[q].receipt \/ last'.stage = "deleted"
      <4> SUFFICES ASSUME session[q].step = "planning", session[q].receipt.stage \in Deletable
                   PROVE  last' = session[q].receipt \/ last'.stage = "deleted"
        OBVIOUS
      <4>1. noCreator /\ (last = session[q].receipt \/ last.stage = "deleted")
        BY <3>1 DEF Claims, Opener
      <4>2. session[p].step \in Opener /\ last.stage \in Deletable \cup {"deleted"}
        BY <1>10, <4>1
      <4> QED
        BY <1>7, <4>1, <4>2 DEF Founded
    <3> QED
      BY <1>5, <3>1, <3>2, <3>3 DEF Claims, Deletable
  <2>2. CASE q = p /\ session'[p] = Idle
    BY <2>2, TypesOfSession DEF Claims, Opener
  <2>3. CASE q = p /\ session'[p] # Idle
    <3>1. /\ last' = r /\ session'[p].receipt = r /\ session'[p].step = step
      BY <1>3, <1>4, <2>3, LastOfAppend
    <3>2. step \notin {"exposing", "publishing"}
      BY DEF Founded
    <3>3. step = "exposed" => mapping[r.conversation] # "none"
      <4> SUFFICES ASSUME step = "exposed" PROVE mapping[r.conversation] # "none"
        OBVIOUS
      <4>1. session[p].step = "exposing"
        BY DEF Founded
      <4>2. mapping[last.conversation] # "none" /\ last.stage = "conversion_pending"
        BY <1>1, <4>1 DEF AccountInv, Claims, stagesAt
      <4> QED
        BY <1>1, <4>2 DEF validStep, validValue
    <3>4. step = "withdrawn" => mapping[r.conversation] = "deleted"
      BY DEF Founded
    <3>5. step \in Opener => noCreator'
      <4> SUFFICES ASSUME step \in Opener PROVE noCreator'
        OBVIOUS
      <4>1. session[p].step \in Opener
        BY DEF Founded
      <4>2. noCreator
        BY <4>1 DEF AccountInv, Claims
      <4> QED
        BY <1>10, <4>2
    <3> QED
      BY <1>5, <2>3, <3>1, <3>2, <3>3, <3>4, <3>5 DEF Claims
  <2> QED
    BY <2>1, <2>2, <2>3
<1> QED
  BY <1>6, <1>8, <1>12, <1>13 DEF AccountInv

\* A conversation that may be deleted holds nothing that is public or may be.
LEMMA DeletionIsSafe ==
    ASSUME ReceiptInv, AccountInv, NEW p \in Process, session[p].step = "planning",
           session[p].receipt.stage \in Deletable, mayDelete(session[p].receipt)
    PROVE  /\ mapping[session[p].receipt.conversation] # "active"
           /\ log # <<>> /\ last.stage \in Deletable \cup {"deleted"}
           /\ noneInFlight("convert") /\ noneInFlight("publish")
           /\ noCreator
           /\ \A q \in Process : ~ Asks(q, "convert")
<1> DEFINE r == session[p].receipt
<1>1. Working(p) /\ session[p].step \in Opener
  BY DEF Working, Opener
<1>2. log # <<>> /\ validValue(r) /\ r \in Record /\ validValue(last) /\ last \in Record
  BY <1>1, HeldReceipt, LastIsValid
<1>3. noCreator /\ (last = r \/ last.stage = "deleted")
  BY <1>1 DEF AccountInv, Claims
<1>4. mapping[r.conversation] # "active"
  BY DEF mayDelete, clearOfArtifacts
<1>5. Tells(last) /\ ("publish" \in intendedNow => Follows(last))
  BY <1>2 DEF AccountInv, Told
<1>6. \A m \in Mutation : m \notin intendedNow => noneInFlight(m)
  <2>1. \A m \in Mutation : m \notin intendedNow => attempts[m] = 0
    BY DEF ReceiptInv, Counted
  <2>2. \A m \in Mutation : attempts[m] = 0 => noneInFlight(m)
    BY DEF AccountInv, OneInFlight, noneInFlight
  <2> QED
    BY <2>1, <2>2
<1>7. \A q \in Process : Asks(q, "convert") => "convert" \in intendedNow /\ attempts["convert"] = 0
  BY DEF ReceiptInv, Ready, Mutation
<1>8. "convert" \in Mutation /\ "publish" \in Mutation
  BY DEF Mutation
<1>9. CASE last.stage = "deleted"
  <2>1. last.conversation \in Conversation /\ conversation[last.conversation] = "deleted"
    BY <1>2, <1>5, <1>9, BoundConversation DEF Tells
  <2>2. Going(last.conversation)
    BY <2>1 DEF Going
  <2> QED
    BY <1>3, <1>4, <2>1, <2>2 DEF AccountInv, Left
<1>10. CASE last = r /\ r.stage \in Preconversion
  <2>1. "convert" \notin intendedNow
    <3> SUFFICES ASSUME "convert" \in intendedNow PROVE FALSE
      OBVIOUS
    <3>1. PICK a \in Record : intends(a, "convert") /\ Rank[a.stage] <= Rank[last.stage]
      BY IntentsBehind DEF ReceiptInv
    <3> QED
      BY <1>10, <3>1 DEF intends, Rank, Preconversion, Stage
  <2>2. "publish" \notin intendedNow
    <3>1. ~ last.public /\ last.stage # "converted"
      BY <1>2, <1>10 DEF validValue, CoreStage, PublicStage, Preconversion
    <3> QED
      BY <1>5, <3>1 DEF Follows
  <2> QED
    BY <1>2, <1>3, <1>4, <1>6, <1>7, <1>8, <1>10, <2>1, <2>2
<1>11. CASE last = r /\ r.stage \in {"private", "unpublished"}
  <2>1. r.artifact /\ r.conversation \in Conversation
    BY <1>2, <1>11, BoundConversation DEF validValue, CoreStage, PublicStage
  <2>2. noneInFlight("convert") /\ attempts["convert"] = 1
    BY <1>5, <1>11, <2>1 DEF Tells
  <2>3. noneInFlight("publish")
    <3>1. CASE r.stage = "private"
      <4>1. ~ last.public /\ last.stage # "converted"
        BY <1>2, <1>11, <3>1 DEF validValue, PublicStage
      <4> QED
        BY <1>5, <1>6, <1>8, <4>1 DEF Follows
    <3>2. CASE r.stage = "unpublished"
      <4>1. mapping[r.conversation] # "none"
        BY <1>5, <1>11, <3>2 DEF Tells
      <4> QED
        BY <2>1, <4>1 DEF AccountInv, OneConverted
    <3> QED
      BY <1>11, <3>1, <3>2
  <2> QED
    BY <1>2, <1>3, <1>4, <1>7, <1>11, <2>2, <2>3
<1> QED
  BY <1>3, <1>9, <1>10, <1>11 DEF Deletable

LEMMA AskingKeepsAccount ==
    ASSUME ReceiptInv, AccountInv, NEW p \in Process, NEW m \in Mutation \cup Repeatable,
           NEW step \in Step, Asking(p, m, step)
    PROVE  AccountInv'
<1> DEFINE c == session[p].receipt.conversation
           o == [mutation |-> m, on |-> c, by |-> p]
<1>1. /\ UNCHANGED <<file, owner, provider>> /\ flight' = flight \cup {o}
      /\ m \in Mutation => attempts[m] = 0 /\ attempts'[m] = 1 /\ m \in intendedNow
      /\ \A n \in Mutation : n # m => attempts'[n] = attempts[n]
      /\ \A q \in Process : q # p => session'[q] = session[q]
      /\ \/ /\ session'[p].step = step /\ session'[p].receipt = session[p].receipt
            /\ session'[p].alive = session[p].alive /\ session'[p].answer = "none"
         \/ session'[p] = Idle /\ ~ session[p].alive
  BY AskingLeaves
<1>2. o.mutation = m /\ o.on = c
  OBVIOUS
<1> HIDE DEF o
<1>3. UNCHANGED <<conversation, artifact, mapping, made, log>>
  BY <1>1 DEF file, provider
<1>4. intendedNow' = intendedNow /\ last' = last
  BY <1>3 DEF intendedNow, last
<1>5. m # "prompt" => c \in made /\ c \in Conversation
  <2> SUFFICES ASSUME m # "prompt" PROVE c \in made /\ c \in Conversation
    OBVIOUS
  <2>1. Working(p) /\ session[p].receipt.stage # "prepared" /\ (c \in made \/ artifact[c] # "none")
    BY DEF Asking
  <2>2. c \in Conversation
    BY <2>1, HeldReceipt
  <2> QED
    BY <2>1, <2>2 DEF AccountInv, OwnConversationOnly
<1>6. Mutation = {"prompt", "convert", "publish", "privatize"}
  BY DEF Mutation
<1>7. \A n : n # m => (noneInFlight(n)' <=> noneInFlight(n))
  BY <1>1, <1>2 DEF noneInFlight
<1>8. OwnConversationOnly' /\ OwnRequests'
  BY <1>1, <1>2, <1>3, <1>5 DEF AccountInv, OwnConversationOnly, OwnRequests
<1>9. OneInFlight'
  <2> SUFFICES ASSUME NEW q \in flight \cup {o}, q.mutation \in Mutation
               PROVE  /\ attempts'[q.mutation] = 1
                      /\ \A a \in flight \cup {o} : a.mutation = q.mutation => a = q
    BY <1>1 DEF OneInFlight, Mutation
  <2>1. ASSUME m \in Mutation PROVE \A a \in flight : a.mutation # m
    BY <1>1, <2>1 DEF AccountInv, OneInFlight
  <2>2. CASE q.mutation = m
    BY <1>1, <1>2, <2>1, <2>2
  <2>3. CASE q.mutation # m
    BY <1>1, <1>2, <2>3 DEF AccountInv, OneInFlight
  <2> QED
    BY <2>2, <2>3
<1>10. OneMade'
  <2>1. m = "prompt" => made = {}
    BY <1>1, <1>6 DEF AccountInv, OneMade
  <2> QED
    BY <1>1, <1>3, <1>6, <1>7, <2>1 DEF AccountInv, OneMade
<1>11. OneConverted'
  <2> SUFFICES ASSUME NEW d \in Conversation
               PROVE  /\ artifact[d] # "none" \/ mapping[d] # "none" =>
                             attempts'["convert"] = 1 /\ noneInFlight("convert")'
                      /\ mapping[d] # "none" => noneInFlight("publish")'
    BY <1>3 DEF OneConverted
  <2>1. /\ artifact[d] # "none" \/ mapping[d] # "none" =>
               attempts["convert"] = 1 /\ noneInFlight("convert") /\ d \in made
        /\ mapping[d] # "none" => noneInFlight("publish")
    BY DEF AccountInv, OneConverted, OwnConversationOnly
  <2>2. artifact[d] # "none" \/ mapping[d] # "none" =>
            attempts'["convert"] = 1 /\ noneInFlight("convert")'
    BY <1>1, <1>6, <1>7, <2>1
  <2>3. mapping[d] # "none" => m # "publish"
    BY <1>5, <2>1 DEF Asking, AccountInv, OneMade
  <2> QED
    BY <1>7, <2>1, <2>2, <2>3
<1>12. Told'
  <2> SUFFICES ASSUME log # <<>>
               PROVE  Tells(last)' /\ ("publish" \in intendedNow => Follows(last))
    BY <1>3, <1>4 DEF Told, Follows
  <2>1. Tells(last) /\ ("publish" \in intendedNow => Follows(last))
    BY DEF AccountInv, Told
  <2>2. last.artifact => attempts'["convert"] = 1 /\ noneInFlight("convert")'
    BY <1>1, <1>6, <1>7, <2>1 DEF Tells
  <2> QED
    BY <1>3, <1>4, <2>1, <2>2 DEF Tells
<1>13. session'[p].step \in Creator /\ session'[p].alive
          => session[p].step \in Creator /\ session[p].alive
  BY <1>1, TypesOfSession DEF Asking, Creator
<1>14. noCreator => noCreator'
  BY <1>1, <1>13 DEF noCreator
<1>15. ~ Asks(p, "convert")'
  BY <1>1, TypesOfSession DEF Asks, asks, Asking, Waiting
<1>16. Left'
  <2> SUFFICES ASSUME NEW d \in Conversation, Going(d)'
               PROVE  /\ mapping[d] # "active"
                      /\ log # <<>> /\ last.stage \in Deletable \cup {"deleted"}
                      /\ noneInFlight("convert")' /\ noneInFlight("publish")'
                      /\ noCreator'
                      /\ \A q \in Process : ~ Asks(q, "convert")'
    BY <1>3, <1>4 DEF Left, Deletable
  <2>1. ASSUME /\ mapping[d] # "active"
               /\ log # <<>> /\ last.stage \in Deletable \cup {"deleted"}
               /\ noneInFlight("convert") /\ noneInFlight("publish")
               /\ noCreator
               /\ \A q \in Process : ~ Asks(q, "convert")
        PROVE  /\ noCreator'
               /\ \A q \in Process : ~ Asks(q, "convert")'
               /\ m # "convert" /\ m # "publish"
    <3>1. noCreator'
      BY <1>14, <2>1
    <3>2. \A q \in Process : ~ Asks(q, "convert")'
      BY <1>1, <1>15, <2>1 DEF Asks
    <3>3. m # "convert"
      BY <1>6, <2>1 DEF Asking
    <3>4. ASSUME m = "publish" PROVE FALSE
      <4>1. "publish" \in intendedNow /\ c \in made /\ mapping[c] = "none"
        BY <1>1, <1>5, <1>6, <3>4 DEF Asking
      <4>2. Follows(last) /\ last.conversation \in made
            /\ (last.public => mapping[last.conversation] # "none")
        BY <4>1, PublicationConverted
      <4>3. last.public
        BY <2>1, <4>2 DEF Follows, Deletable, Preconversion
      <4> QED
        BY <4>1, <4>2, <4>3 DEF AccountInv, OneMade
    <3> QED
      BY <3>1, <3>2, <3>3, <3>4
  <2>2. CASE Going(d)
    <3>1. /\ mapping[d] # "active"
          /\ log # <<>> /\ last.stage \in Deletable \cup {"deleted"}
          /\ noneInFlight("convert") /\ noneInFlight("publish")
          /\ noCreator
          /\ \A q \in Process : ~ Asks(q, "convert")
      BY <2>2 DEF AccountInv, Left
    <3> QED
      BY <1>7, <2>1, <3>1
  <2>3. CASE ~ Going(d)
    <3>1. m = "delete" /\ d = c
      BY <1>1, <1>2, <1>3, <2>3 DEF Going
    <3>2. /\ mapping[c] # "active"
          /\ log # <<>> /\ last.stage \in Deletable \cup {"deleted"}
          /\ noneInFlight("convert") /\ noneInFlight("publish")
          /\ noCreator
          /\ \A q \in Process : ~ Asks(q, "convert")
      BY <3>1, DeletionIsSafe DEF Asking
    <3> QED
      BY <1>7, <2>1, <3>1, <3>2
  <2> QED
    BY <2>2, <2>3
<1>17. ASSUME NEW q \in Process PROVE Claims(q)'
  <2>1. CASE q # p
    <3>1. Claims(q) /\ session'[q] = session[q]
      BY <1>1, <2>1 DEF AccountInv
    <3> QED
      BY <1>3, <1>4, <1>14, <3>1 DEF Claims
  <2>2. CASE q = p /\ session'[p] = Idle
    BY <2>2, TypesOfSession DEF Claims, Opener
  <2>3. CASE q = p /\ session'[p] # Idle
    <3>1. /\ session'[p].step = step /\ session'[p].receipt = session[p].receipt
          /\ session'[p].answer = "none"
      BY <1>1, <2>3
    <3>2. step = "exposing" => mapping[c] # "none"
      BY DEF Asking
    <3>3. step = "publishing" => c \in made
      BY <1>5 DEF Asking
    <3>4. step \in Opener => noCreator'
      BY <1>14 DEF Asking, AccountInv, Claims
    <3>5. step \notin {"exposed", "withdrawn", "planning"}
      BY DEF Asking, Waiting
    <3> QED
      BY <1>3, <2>3, <3>1, <3>2, <3>3, <3>4, <3>5 DEF Claims
  <2> QED
    BY <2>1, <2>2, <2>3
<1> QED
  BY <1>8, <1>9, <1>10, <1>11, <1>12, <1>16, <1>17 DEF AccountInv

\* A step of the life of a process, after which nobody creates who did not, and
\* nobody is about to ask who was not.
LEMMA QuietKeeps ==
    ASSUME AccountInv, UNCHANGED <<provider, flight, attempts>>, log' = log,
           noCreator => noCreator',
           \A q \in Process : Asks(q, "convert")' => Asks(q, "convert"),
           \A q \in Process :
               \/ Claims(q)'
               \/ /\ session'[q].step = session[q].step
                  /\ session'[q].receipt = session[q].receipt
                  /\ session'[q].answer = session[q].answer
    PROVE  AccountInv'
<1>1. /\ OwnConversationOnly' /\ OwnRequests' /\ OneInFlight' /\ OneMade' /\ OneConverted'
      /\ \A r : Tells(r)' <=> Tells(r)
      /\ \A m : noneInFlight(m)' <=> noneInFlight(m)
      /\ \A c \in Conversation : Going(c)' <=> Going(c)
  BY AccountStays
<1>2. intendedNow' = intendedNow /\ last' = last /\ UNCHANGED <<mapping, made>>
  BY DEF intendedNow, last, provider
<1>3. Told'
  BY <1>1, <1>2 DEF AccountInv, Told, Follows
<1>4. Left'
  BY <1>1, <1>2 DEF AccountInv, Left, Deletable
<1>5. ASSUME NEW q \in Process PROVE Claims(q)'
  <2>1. Claims(q)
    BY DEF AccountInv
  <2> QED
    BY <1>2, <2>1 DEF Claims
<1> QED
  BY <1>1, <1>3, <1>4, <1>5 DEF AccountInv

LEMMA LifeKeepsAccount ==
    ASSUME ReceiptInv, AccountInv, NEW p \in Process,
           \/ Create(p) \/ \E command \in Command : Open(p, command)
           \/ Load(p) \/ Stop(p) \/ Orphan(p)
    PROVE  AccountInv'
<1>1. session \in [Process -> Session]
  BY DEF ReceiptInv, TypeOK
<1>2. UNCHANGED <<provider, flight, attempts>> /\ log' = log
  BY DEF Create, Open, Load, Stop, Orphan, file
<1>3. \A q \in Process : q # p => session'[q] = session[q]
  BY <1>1 DEF Create, Open, Load, Stop, Orphan, Ends
<1>4. \/ session'[p].step \in {"none", "creating", "opening"}
      \/ /\ session'[p].step = "planning" /\ session'[p].receipt = last
         /\ session[p].step = "opening" /\ Load(p)
      \/ /\ session'[p].step = session[p].step /\ session'[p].receipt = session[p].receipt
         /\ session'[p].answer = session[p].answer /\ ~ session'[p].alive
  <2>1. CASE Create(p) \/ \E command \in Command : Open(p, command)
    BY <1>1, <2>1 DEF Create, Open, Idle
  <2>2. CASE Load(p)
    <3>1. session' = moved(session, p, last, "planning")
      BY <2>2 DEF Load, last, moved
    <3>2. last \in Record /\ "planning" \in Step
      BY <2>2, LastIsValid DEF Load, validHistory, Step
    <3>3. session[p].step = "opening"
      BY <2>2 DEF Load
    <3> QED
      BY <1>1, <2>2, <3>1, <3>2, <3>3, SessionGoesOn
  <2>3. CASE Stop(p)
    BY <1>1, <2>3, TypesOfSession DEF Stop, Ends
  <2>4. CASE Orphan(p)
    BY <1>1, <2>4 DEF Orphan, Session
  <2> QED
    BY <2>1, <2>2, <2>3, <2>4
<1>5. ~ (session'[p].alive /\ session'[p].step \in Creator)
  BY <1>4 DEF Creator
<1>6. noCreator => noCreator'
  BY <1>3, <1>5 DEF noCreator
<1>7. \A q \in Process : Asks(q, "convert")' => Asks(q, "convert")
  BY <1>3, <1>4 DEF Asks, asks
<1>8. CASE session'[p].step \in {"none", "creating", "opening"}
  <2>1. Claims(p)'
    BY <1>8 DEF Claims, Opener
  <2> QED
    BY <1>2, <1>3, <1>6, <1>7, <2>1, QuietKeeps
<1>9. CASE /\ session'[p].step = "planning" /\ session'[p].receipt = last
           /\ session[p].step = "opening"
  <2>1. session[p].alive /\ owner = p
    BY <1>9 DEF ReceiptInv, Attended, Locked
  <2>2. noCreator'
    <3>1. ASSUME NEW q \in Process, q # p, session[q].alive
          PROVE  session[q].step \in {"none", "creating"}
      BY <2>1, <3>1 DEF ReceiptInv, Locked
    <3> QED
      BY <1>3, <1>5, <3>1 DEF noCreator, Creator
  <2>3. Claims(p)'
    BY <1>2, <1>9, <2>2 DEF Claims, last
  <2> QED
    BY <1>2, <1>3, <1>6, <1>7, <2>3, QuietKeeps
<1>10. CASE /\ session'[p].step = session[p].step /\ session'[p].receipt = session[p].receipt
            /\ session'[p].answer = session[p].answer
  BY <1>2, <1>3, <1>6, <1>7, <1>10, QuietKeeps
<1> QED
  BY <1>4, <1>8, <1>9, <1>10

\* The first record says nothing of the account.
LEMMA BeginKeepsAccount ==
    ASSUME ReceiptInv, AccountInv, NEW p \in Process, Begin(p)
    PROVE  AccountInv'
<1>1. /\ log = <<>> /\ UNCHANGED <<provider, flight, attempts>>
      /\ \A q \in Process : q # p => session'[q] = session[q]
  BY BeginLeaves
<1>2. PICK requested \in BOOLEAN :
          \/ /\ log' = <<Prepared(requested)>>
             /\ session'[p].step = "prompting"
          \/ /\ log' = log \/ log' = <<Prepared(requested)>>
             /\ session'[p] = Idle
  BY BeginLeaves
<1>3. /\ OwnConversationOnly' /\ OwnRequests' /\ OneInFlight' /\ OneMade' /\ OneConverted'
      /\ \A r : Tells(r)' <=> Tells(r)
      /\ \A c \in Conversation : Going(c)' <=> Going(c)
  BY <1>1, AccountStays
<1>4. Told'
  <2>1. CASE log' = log
    BY <1>1, <2>1 DEF Told
  <2>2. CASE log' = <<Prepared(requested)>>
    <3>1. last' = Prepared(requested) /\ intendedNow' = {"prompt"}
      BY <1>1, <2>2, FirstRecord
    <3>2. Tells(Prepared(requested))
      BY DEF Tells, Prepared
    <3> QED
      BY <1>3, <3>1, <3>2 DEF Told
  <2> QED
    BY <1>2, <2>1, <2>2
<1>5. Left'
  BY <1>1, <1>3 DEF AccountInv, Left
<1>6. ASSUME NEW q \in Process PROVE Claims(q)'
  <2>1. CASE q = p
    BY <1>2, <2>1, TypesOfSession DEF Claims, Opener
  <2>2. CASE q # p
    <3>1. ~ Working(q)
      BY <1>1 DEF ReceiptInv, Knows
    <3> QED
      BY <1>1, <2>2, <3>1 DEF Claims, Working, Creator, Opener
  <2> QED
    BY <2>1, <2>2
<1> QED
  BY <1>3, <1>4, <1>5, <1>6 DEF AccountInv

\* The provider takes a request for m on c.
Takes(m, c) == \E q \in flight : q.mutation = m /\ q.on = c /\ flight' = flight \ {q}

\* What may happen to a conversation outside the commands.
Changes(c) ==
    /\ conversation[c] = "deleted" => conversation'[c] = "deleted"
    /\ conversation'[c] = "deleted" => conversation[c] = "deleted" \/ Takes("delete", c)
    /\ artifact'[c] # "none" => artifact[c] # "none" \/ Takes("convert", c)
    /\ artifact'[c] = "shared" => artifact[c] = "shared" \/ Takes("convert", c)
    /\ \/ mapping'[c] = mapping[c]
       \/ mapping[c] = "active" /\ mapping'[c] = "deleted"
       \/ /\ mapping[c] = "none" /\ mapping'[c] = "active"
          /\ \/ Takes("convert", c)
             \/ Takes("publish", c) /\ artifact[c] # "none"

\* What all its steps have in common.
Provided ==
    /\ \A c \in Conversation : Changes(c)
    /\ \/ made' = made
       \/ \E c \in Conversation, d \in MaybeConversation :
              made' = made \cup {c} /\ Takes("prompt", d)
    /\ \A p \in Process :
          session[p].step = "publishing" /\ session'[p].answer = "done" =>
              \/ session[p].answer = "done"
              \/ \E c \in Conversation : Takes("publish", c) /\ mapping'[c] = "active"

\* A request that is on its way, and what is known of it.
LEMMA RequestFacts ==
    ASSUME ReceiptInv, AccountInv, NEW q \in flight
    PROVE  /\ q.on \in MaybeConversation
           /\ q.mutation # "prompt" => q.on \in made /\ q.on \in Conversation
           /\ \A c \in Conversation :
                 q.mutation = "convert" => artifact[c] = "none" /\ mapping[c] = "none"
<1>1. q.on \in MaybeConversation /\ made \subseteq Conversation
  BY DEF ReceiptInv, TypeOK, Request
<1>2. q.mutation # "prompt" => q.on \in made
  BY DEF AccountInv, OwnRequests
<1>3. q.mutation = "convert" => ~ noneInFlight("convert")
  BY DEF noneInFlight
<1> QED
  BY <1>1, <1>2, <1>3 DEF AccountInv, OneConverted

LEMMA OutsideProvides ==
    ASSUME ReceiptInv, AccountInv, Outside
    PROVE  Provided
<1>1. /\ conversation \in [Conversation -> {"absent", "there", "deleted"}]
      /\ artifact \in [Conversation -> {"none", "shared", "private"}]
      /\ mapping \in [Conversation -> {"none", "active", "deleted"}]
  BY DEF ReceiptInv, TypeOK
<1>2. ASSUME NEW q \in flight, NEW answer \in {"done", "public", "refused"}, Answer(q, answer)
      PROVE  /\ Takes(q.mutation, q.on)
             /\ \A p \in Process :
                   session[p].step = "publishing" /\ session'[p].answer = "done" =>
                       \/ session[p].answer = "done"
                       \/ q.mutation = "publish" /\ answer = "done"
  BY <1>2, AnswerLeaves DEF Takes
<1>3. ASSUME NEW q \in flight, TakePrompt(q) PROVE Provided
  <2>1. Takes("prompt", q.on) /\ q.on \in MaybeConversation
    BY <1>2, <1>3, RequestFacts DEF TakePrompt
  <2>2. PICK c \in Conversation :
            /\ conversation[c] = "absent"
            /\ conversation' = [conversation EXCEPT ![c] = "there"]
            /\ made' = made \cup {c}
    BY <1>3 DEF TakePrompt
  <2>3. UNCHANGED <<artifact, mapping>>
    BY <1>3 DEF TakePrompt
  <2>4. \A d \in Conversation : Changes(d)
    BY <1>1, <2>2, <2>3 DEF Changes
  <2>5. q.mutation = "prompt" /\ Answer(q, "done")
    BY <1>3 DEF TakePrompt
  <2> QED
    BY <1>2, <2>1, <2>2, <2>4, <2>5 DEF Provided
<1>4. ASSUME NEW q \in flight, MakeArtifact(q) PROVE Provided
  <2>1. PICK answer \in {"done", "public"} : Answer(q, answer)
    BY <1>4 DEF MakeArtifact
  <2>2. q.mutation = "convert"
    BY <1>4 DEF MakeArtifact
  <2>3. /\ Takes("convert", q.on) /\ q.on \in Conversation
        /\ mapping[q.on] = "none"
    BY <1>2, <2>1, <2>2, RequestFacts
  <2>4. PICK visibility \in {"shared", "private"} :
            artifact' = [artifact EXCEPT ![q.on] = visibility]
    BY <1>4 DEF MakeArtifact
  <2>5. /\ UNCHANGED <<conversation, made>>
        /\ mapping' = mapping \/ mapping' = [mapping EXCEPT ![q.on] = "active"]
    BY <1>4 DEF MakeArtifact
  <2>6. \A d \in Conversation : Changes(d)
    BY <1>1, <2>3, <2>4, <2>5 DEF Changes
  <2> QED
    BY <1>2, <2>1, <2>2, <2>5, <2>6 DEF Provided
<1>5. ASSUME NEW q \in flight, MakePrivate(q) PROVE Provided
  <2>1. /\ Answer(q, "done") /\ q.mutation # "publish" /\ q.mutation # "prompt"
        /\ artifact[q.on] # "none" /\ artifact' = [artifact EXCEPT ![q.on] = "private"]
        /\ UNCHANGED <<conversation, mapping, made>>
    BY <1>5 DEF MakePrivate
  <2>2. \A d \in Conversation : Changes(d)
    BY <1>1, <2>1 DEF Changes
  <2> QED
    BY <1>2, <2>1, <2>2 DEF Provided
<1>6. ASSUME NEW q \in flight, MakePublic(q) PROVE Provided
  <2>1. /\ Answer(q, "done") /\ q.mutation = "publish" /\ artifact[q.on] # "none"
        /\ mapping[q.on] = "none" /\ mapping' = [mapping EXCEPT ![q.on] = "active"]
        /\ UNCHANGED <<conversation, artifact, made>>
    BY <1>6 DEF MakePublic
  <2>2. Takes("publish", q.on) /\ q.on \in Conversation
    BY <1>2, <2>1, RequestFacts
  <2>3. \A d \in Conversation : Changes(d)
    BY <1>1, <2>1, <2>2 DEF Changes
  <2>4. mapping'[q.on] = "active"
    BY <1>1, <2>1, <2>2
  <2> QED
    BY <1>2, <2>1, <2>2, <2>3, <2>4 DEF Provided
<1>7. ASSUME NEW q \in flight, TakeBack(q) PROVE Provided
  <2>1. /\ Answer(q, "done") /\ q.mutation = "unpublish"
        /\ mapping[q.on] = "active" /\ mapping' = [mapping EXCEPT ![q.on] = "deleted"]
        /\ UNCHANGED <<conversation, artifact, made>>
    BY <1>7 DEF TakeBack
  <2>2. \A d \in Conversation : Changes(d)
    BY <1>1, <2>1 DEF Changes
  <2> QED
    BY <1>2, <2>1, <2>2 DEF Provided
<1>8. ASSUME NEW q \in flight, Remove(q) PROVE Provided
  <2>1. /\ Answer(q, "done") /\ q.mutation = "delete"
        /\ conversation' = [conversation EXCEPT ![q.on] = "deleted"]
        /\ artifact' = [artifact EXCEPT ![q.on] = "none"]
        /\ UNCHANGED <<mapping, made>>
    BY <1>8 DEF Remove
  <2>2. Takes("delete", q.on)
    BY <1>2, <2>1
  <2>3. \A d \in Conversation : Changes(d)
    BY <1>1, <2>1, <2>2 DEF Changes
  <2> QED
    BY <1>2, <2>1, <2>3 DEF Provided
<1>9. ASSUME NEW q \in flight, Refuse(q) PROVE Provided
  <2>1. Answer(q, "refused") /\ UNCHANGED <<conversation, artifact, mapping, made>>
    BY <1>9 DEF Refuse, provider
  <2>2. \A d \in Conversation : Changes(d)
    BY <2>1 DEF Changes
  <2> QED
    BY <1>2, <2>1, <2>2 DEF Provided
<1>10. CASE ConversationElsewhere
  <2>1. PICK c \in Conversation :
            /\ conversation[c] = "absent"
            /\ conversation' = [conversation EXCEPT ![c] = "there"]
    BY <1>10 DEF ConversationElsewhere
  <2>2. UNCHANGED <<session, artifact, mapping, made>>
    BY <1>10 DEF ConversationElsewhere
  <2>3. \A d \in Conversation : Changes(d)
    BY <1>1, <2>1, <2>2 DEF Changes
  <2> QED
    BY <2>2, <2>3 DEF Provided
<1>11. CASE WithdrawByHand
  <2>1. PICK c \in Conversation :
            /\ mapping[c] = "active"
            /\ mapping' = [mapping EXCEPT ![c] = "deleted"]
    BY <1>11 DEF WithdrawByHand
  <2>2. UNCHANGED <<session, conversation, artifact, made>>
    BY <1>11 DEF WithdrawByHand
  <2>3. \A d \in Conversation : Changes(d)
    BY <1>1, <2>1, <2>2 DEF Changes
  <2> QED
    BY <2>2, <2>3 DEF Provided
<1> QED
  BY <1>3, <1>4, <1>5, <1>6, <1>7, <1>8, <1>9, <1>10, <1>11 DEF Outside

LEMMA OutsideKeepsAccount ==
    ASSUME ReceiptInv, AccountInv, Outside
    PROVE  AccountInv'
<1>1. /\ UNCHANGED <<file, owner, attempts>> /\ flight' \subseteq flight
      /\ \A p \in Process :
            /\ session'[p].step = session[p].step
            /\ session'[p].receipt = session[p].receipt
            /\ session'[p].alive = session[p].alive
  BY OutsideLeaves
<1>2. /\ \A c \in Conversation : Changes(c)
      /\ \/ made' = made
         \/ \E c \in Conversation, d \in MaybeConversation :
                made' = made \cup {c} /\ Takes("prompt", d)
  BY OutsideProvides DEF Provided
<1>3. log' = log /\ intendedNow' = intendedNow /\ last' = last
  BY <1>1 DEF file, intendedNow, last
<1>4. made \subseteq made' /\ made \subseteq Conversation
  BY <1>2 DEF ReceiptInv, TypeOK
<1>5. \A m : noneInFlight(m) => noneInFlight(m)'
  BY <1>1 DEF noneInFlight
<1>6. \A m \in Mutation : \A c : Takes(m, c) =>
          attempts[m] = 1 /\ noneInFlight(m)' /\ ~ noneInFlight(m)
  BY DEF Takes, AccountInv, OneInFlight, noneInFlight
<1>7. \A m, c : Takes(m, c) /\ m # "prompt" => c \in made
  BY DEF Takes, AccountInv, OwnRequests
<1>8. {"prompt", "convert", "publish"} \subseteq Mutation
  BY DEF Mutation
<1>9. OwnConversationOnly'
  <2> SUFFICES ASSUME NEW c \in Conversation,
                      conversation'[c] = "deleted" \/ artifact'[c] # "none"
                          \/ mapping'[c] # "none"
               PROVE  c \in made
    BY <1>4 DEF OwnConversationOnly
  <2>1. Changes(c)
    BY <1>2
  <2> QED
    BY <1>7, <2>1 DEF Changes, AccountInv, OwnConversationOnly
<1>10. OwnRequests' /\ OneInFlight'
  BY <1>1, <1>4 DEF AccountInv, OwnRequests, OneInFlight
<1>11. OneMade'
  <2>1. CASE made' = made
    BY <1>1, <1>5, <2>1 DEF AccountInv, OneMade
  <2>2. ASSUME NEW c \in Conversation, NEW d, made' = made \cup {c}, Takes("prompt", d)
        PROVE  OneMade'
    <3>1. attempts["prompt"] = 1 /\ noneInFlight("prompt")' /\ ~ noneInFlight("prompt")
      BY <1>6, <1>8, <2>2
    <3>2. made = {}
      BY <3>1 DEF AccountInv, OneMade
    <3> QED
      BY <1>1, <2>2, <3>1, <3>2 DEF OneMade
  <2> QED
    BY <1>2, <2>1, <2>2
<1>12. \A c : Takes("publish", c) => noneInFlight("convert")
  <2>1. attempts["publish"] = 1 => "publish" \in intendedNow
    BY <1>8 DEF ReceiptInv, Counted
  <2> QED
    BY <1>6, <1>8, <2>1, PublicationConverted
<1>13. OneConverted'
  <2> SUFFICES ASSUME NEW c \in Conversation
               PROVE  /\ artifact'[c] # "none" \/ mapping'[c] # "none" =>
                             attempts["convert"] = 1 /\ noneInFlight("convert")'
                      /\ mapping'[c] # "none" => noneInFlight("publish")'
    BY <1>1 DEF OneConverted
  <2>1. Changes(c)
    BY <1>2
  <2>2. /\ artifact[c] # "none" \/ mapping[c] # "none" =>
               attempts["convert"] = 1 /\ noneInFlight("convert")
        /\ mapping[c] # "none" => noneInFlight("publish")
    BY DEF AccountInv, OneConverted
  <2>3. artifact'[c] # "none" \/ mapping'[c] # "none" =>
            artifact[c] # "none" \/ mapping[c] # "none" \/ Takes("convert", c)
    BY <2>1 DEF Changes
  <2>4. mapping'[c] # "none" =>
            mapping[c] # "none" \/ Takes("convert", c) \/ Takes("publish", c)
    BY <2>1 DEF Changes
  <2>5. Takes("convert", c) => noneInFlight("publish")
    <3>1. Takes("convert", c) => ~ noneInFlight("convert")
      BY <1>6, <1>8
    <3>2. "publish" \notin intendedNow => attempts["publish"] = 0
      BY <1>8 DEF ReceiptInv, Counted
    <3>3. attempts["publish"] = 0 => noneInFlight("publish")
      BY <1>8 DEF AccountInv, OneInFlight, noneInFlight
    <3> QED
      BY <3>1, <3>2, <3>3, PublicationConverted
  <2> QED
    BY <1>5, <1>6, <1>8, <2>2, <2>3, <2>4, <2>5
<1>14. Told'
  <2> SUFFICES ASSUME log # <<>>
               PROVE  Tells(last)' /\ ("publish" \in intendedNow => Follows(last))
    BY <1>3 DEF Told, Follows
  <2>1. Tells(last) /\ ("publish" \in intendedNow => Follows(last))
    BY DEF AccountInv, Told
  <2>2. validValue(last) /\ last \in Record
    BY LastIsValid
  <2>3. (\/ last.artifact \/ last.public
         \/ last.stage \in {"converted", "private", "unpublished", "deleted"})
            => last.conversation \in Conversation
    BY <2>2, BoundConversation DEF validValue, CoreStage, PublicStage
  <2>4. last.conversation \in Conversation => Changes(last.conversation)
    BY <1>2
  <2>5. last.artifact =>
            /\ last.conversation \in made'
            /\ attempts'["convert"] = 1 /\ noneInFlight("convert")'
    BY <1>1, <1>4, <1>5, <2>1 DEF Tells
  <2>6. last.stage \in {"converted", "private"} => artifact'[last.conversation] # "shared"
    <3>1. last.stage \in {"converted", "private"} => noneInFlight("convert")
      BY <2>1, <2>2 DEF Tells, validValue, CoreStage
    <3> QED
      BY <1>6, <1>8, <2>1, <2>3, <2>4, <3>1 DEF Tells, Changes
  <2>7. /\ last.public => mapping'[last.conversation] # "none"
        /\ last.stage = "unpublished" => mapping'[last.conversation] = "deleted"
        /\ last.stage = "deleted" => conversation'[last.conversation] = "deleted"
    BY <2>1, <2>3, <2>4 DEF Tells, Changes
  <2> QED
    BY <1>3, <2>1, <2>5, <2>6, <2>7 DEF Tells
<1>15. noCreator' <=> noCreator
  BY <1>1 DEF noCreator
<1>16. \A q \in Process : Asks(q, "convert")' <=> Asks(q, "convert")
  BY <1>1 DEF Asks
<1>17. Left'
  <2> SUFFICES ASSUME NEW c \in Conversation, Going(c)'
               PROVE  /\ mapping'[c] # "active"
                      /\ log # <<>> /\ last.stage \in Deletable \cup {"deleted"}
                      /\ noneInFlight("convert")' /\ noneInFlight("publish")'
                      /\ noCreator
                      /\ \A q \in Process : ~ Asks(q, "convert")
    BY <1>3, <1>15, <1>16 DEF Left, Deletable
  <2>1. Changes(c)
    BY <1>2
  <2>2. Going(c)
    <3>1. CASE conversation'[c] = "deleted"
      BY <2>1, <3>1 DEF Changes, Takes, Going
    <3>2. CASE conversation'[c] # "deleted"
      BY <1>1, <3>2 DEF Going
    <3> QED
      BY <3>1, <3>2
  <2>3. /\ mapping[c] # "active"
        /\ log # <<>> /\ last.stage \in Deletable \cup {"deleted"}
        /\ noneInFlight("convert") /\ noneInFlight("publish")
        /\ noCreator
        /\ \A q \in Process : ~ Asks(q, "convert")
    BY <2>2 DEF AccountInv, Left
  <2>4. ~ Takes("convert", c) /\ ~ Takes("publish", c)
    BY <1>6, <1>8, <2>3
  <2>5. mapping'[c] # "active"
    BY <2>1, <2>3, <2>4 DEF Changes
  <2> QED
    BY <1>5, <2>3, <2>5
<1>18. ASSUME NEW p \in Process PROVE Claims(p)'
  <2> DEFINE s == session[p]
             c == s.receipt.conversation
  <2>1. Claims(p)
    BY DEF AccountInv
  <2>2. s.step \in {"exposing", "exposed", "publishing", "withdrawn"} =>
            c \in Conversation /\ Changes(c)
    <3> SUFFICES ASSUME s.step \in {"exposing", "exposed", "publishing", "withdrawn"}
                 PROVE  c \in Conversation
      BY <1>2
    <3>1. Working(p)
      BY DEF Working, Creator, Opener
    <3>2. s.receipt.stage # "prepared"
      BY <3>1, HeldReceipt DEF stagesAt
    <3> QED
      BY <3>1, <3>2, HeldReceipt
  <2>3. s.step \in {"exposing", "exposed"} => mapping'[c] # "none"
    BY <2>1, <2>2 DEF Claims, Changes
  <2>4. s.step = "withdrawn" => mapping'[c] = "deleted"
    BY <2>1, <2>2 DEF Claims, Changes
  <2>5. ASSUME s.step = "publishing"
        PROVE  c \in made' /\ (session'[p].answer = "done" => mapping'[c] # "none")
    <3>1. c \in made /\ c \in made'
      BY <1>4, <2>1, <2>5 DEF Claims
    <3>2. CASE s.answer = "done"
      BY <2>1, <2>2, <2>5, <3>1, <3>2 DEF Claims, Changes
    <3>3. ASSUME NEW d \in Conversation, Takes("publish", d), mapping'[d] = "active"
          PROVE  mapping'[c] # "none"
      <4>1. d = c
        BY <1>7, <3>1, <3>3 DEF AccountInv, OneMade
      <4> QED
        BY <3>3, <4>1
    <3> QED
      BY <2>5, <3>1, <3>2, <3>3, OutsideProvides DEF Provided
  <2>6. s.step \in Opener => noCreator'
    BY <1>15, <2>1 DEF Claims
  <2> QED
    BY <1>1, <1>3, <2>1, <2>3, <2>4, <2>5, <2>6 DEF Claims, Deletable
<1> QED
  BY <1>9, <1>10, <1>11, <1>13, <1>14, <1>17, <1>18 DEF AccountInv

-----------------------------------------------------------------------------
(* What holds of the account.                                              *)

LEMMA InitAccount == Init => AccountInv
<1> SUFFICES ASSUME Init PROVE AccountInv
  OBVIOUS
<1>1. /\ \A p \in Process : session[p].step = "none"
      /\ \A c \in Conversation : conversation[c] = "absent" /\ artifact[c] = "none"
                                 /\ mapping[c] = "none"
      /\ made = {} /\ flight = {} /\ log = <<>>
  BY TypesOfSession DEF Init
<1>2. OwnConversationOnly /\ OwnRequests /\ OneInFlight /\ OneMade /\ OneConverted
  BY <1>1 DEF OwnConversationOnly, OwnRequests, OneInFlight, OneMade, OneConverted
<1>3. Told /\ Left
  BY <1>1 DEF Told, Left, Going
<1>4. \A p \in Process : Claims(p)
  BY <1>1 DEF Claims, Opener
<1> QED
  BY <1>2, <1>3, <1>4 DEF AccountInv

LEMMA AccountNext == ReceiptInv /\ AccountInv /\ [Next]_vars => AccountInv'
<1> SUFFICES ASSUME ReceiptInv, AccountInv, [Next]_vars PROVE AccountInv'
  OBVIOUS
<1>1. ASSUME NEW p \in Process, Storing(p) PROVE AccountInv'
  BY <1>1, StoringAppends, AppendingKeepsAccount
<1>2. ASSUME NEW p \in Process, Dispatching(p) PROVE AccountInv'
  BY <1>2, DispatchingAsks, AskingKeepsAccount
<1>3. ASSUME NEW p \in Process, Begin(p) PROVE AccountInv'
  BY <1>3, BeginKeepsAccount
<1>4. ASSUME NEW p \in Process,
             \/ Create(p) \/ \E command \in Command : Open(p, command)
             \/ Load(p) \/ Stop(p) \/ Orphan(p)
      PROVE  AccountInv'
  BY <1>4, LifeKeepsAccount
<1>5. CASE Outside
  BY <1>5, OutsideKeepsAccount
<1>6. CASE UNCHANGED vars
  BY <1>6, QuietKeeps DEF vars, file, noCreator, Asks
<1> QED
  BY <1>1, <1>2, <1>3, <1>4, <1>5, <1>6, Steps

\* In every state the receipt, its commands and the requests that are on their
\* way fit what is in the account.
THEOREM AccountInvHolds == Spec => []AccountInv
BY InitAccount, AccountNext, ReceiptInvHolds, PTL DEF Spec

\* What the last record says of the account is so, however late a request is
\* carried out; but for a mapping that came unasked.
THEOREM ReceiptIsTrue == Spec => []ReceiptTells
<1>1. ReceiptInv /\ AccountInv => ReceiptTells
  <2> SUFFICES ASSUME ReceiptInv, AccountInv, log # <<>> PROVE ReceiptTells
    BY DEF ReceiptTells
  <2> DEFINE c == last.conversation
  <2>1. validValue(last) /\ last \in Record /\ Tells(last)
        /\ ("publish" \in intendedNow => Follows(last))
    BY LastIsValid DEF AccountInv, Told
  <2>2. ASSUME last.stage \in Preconversion PROVE artifact[c] = "none"
    <3>1. c \in Conversation
      BY <2>1, <2>2, BoundConversation DEF Preconversion
    <3>2. "convert" \notin intendedNow
      <4> SUFFICES ASSUME "convert" \in intendedNow PROVE FALSE
        OBVIOUS
      <4>1. PICK a \in Record : intends(a, "convert") /\ Rank[a.stage] <= Rank[last.stage]
        BY IntentsBehind DEF ReceiptInv
      <4> QED
        BY <2>2, <4>1 DEF intends, Rank, Preconversion, Stage
    <3>3. attempts["convert"] # 1
      BY <3>2 DEF ReceiptInv, Counted, Mutation
    <3> QED
      BY <3>1, <3>3 DEF AccountInv, OneConverted
  <2>3. ASSUME last.stage = "private", ~ unasked
        PROVE  mapping[c] = "none" /\ artifact[c] # "shared"
    <3>1. c \in Conversation
      BY <2>1, <2>3, BoundConversation
    <3>2. "publish" \notin intendedNow
      BY <2>1, <2>3 DEF Follows, validValue, PublicStage
    <3>3. attempts["publish"] = 0
      BY <3>2 DEF ReceiptInv, Counted, Mutation
    <3>4. mapping[c] = "none"
      BY <2>3, <3>1, <3>3 DEF unasked, AccountInv, OwnConversationOnly
    <3> QED
      BY <2>1, <2>3, <3>4 DEF Tells
  <2> QED
    BY <2>1, <2>2, <2>3 DEF ReceiptTells, Tells, last
<1> QED
  BY <1>1, ReceiptInvHolds, AccountInvHolds, PTL

\* Only the conversation the prompt made is converted, published from or
\* deleted, whatever the page showed.
THEOREM OwnConversation == Spec => []OwnConversationOnly
<1>1. AccountInv => OwnConversationOnly
  BY DEF AccountInv
<1> QED
  BY <1>1, AccountInvHolds, PTL

\* No conversation goes while its publication is there, or may still come.
THEOREM NothingPublishedStays == Spec => []NothingPublishedBehind
<1>1. AccountInv => NothingPublishedBehind
  BY DEF AccountInv, Left, Going, noneInFlight, NothingPublishedBehind
<1> QED
  BY <1>1, AccountInvHolds, PTL

-----------------------------------------------------------------------------
(* The refinement of Publication.                                          *)

\* What is public changes with the mapping of the one conversation made.
LEMMA PublicIs ==
    ASSUME OneMade, NEW c \in made, mapping[c] \in {"none", "active", "deleted"}
    PROVE  publicNow = mapping[c]
BY DEF OneMade, publicNow

LEMMA PublicIsNone == made = {} => publicNow = "none"
BY DEF publicNow

LEMMA AccountIsSilent ==
    ASSUME UNCHANGED <<mapping, made>>
    PROVE  publicNow' = publicNow
BY DEF publicNow

LEMMA OutsidePromises ==
    ASSUME ReceiptInv, AccountInv, Outside
    PROVE  [Promise!Publish \/ Promise!Record \/ Promise!Withdraw \/ Promise!Strike]_
               <<recordedNow, publicNow>>
<1>1. log' = log
  BY OutsideLeaves DEF file
<1>2. recordedNow' = recordedNow
  BY <1>1 DEF recordedNow
<1>3. AccountInv' /\ OneMade /\ OneMade' /\ OwnConversationOnly
  BY OutsideKeepsAccount DEF AccountInv
<1>4. /\ \A c \in Conversation : Changes(c)
      /\ made' = made \/ \E c \in Conversation, d \in MaybeConversation :
                             made' = made \cup {c} /\ Takes("prompt", d)
  BY OutsideProvides DEF Provided
<1>5. /\ mapping \in [Conversation -> {"none", "active", "deleted"}]
      /\ mapping' \in [Conversation -> {"none", "active", "deleted"}]
      /\ made \subseteq Conversation
  BY OutsideKeepsReceipt DEF ReceiptInv, TypeOK
<1>6. CASE made = {}
  <2>1. publicNow = "none"
    BY <1>6, PublicIsNone
  <2>2. \A c \in made' : mapping'[c] = "none"
    <3> SUFFICES ASSUME NEW c \in made' PROVE mapping'[c] = "none"
      OBVIOUS
    <3>1. c \in Conversation /\ Changes(c) /\ mapping[c] = "none" /\ artifact[c] = "none"
      BY <1>3, <1>4, <1>6 DEF OwnConversationOnly
    <3>2. ~ Takes("convert", c)
      BY <1>6 DEF Takes, AccountInv, OwnRequests
    <3> QED
      BY <3>1, <3>2 DEF Changes
  <2>3. publicNow' = "none"
    BY <2>2 DEF publicNow
  <2> QED
    BY <1>2, <2>1, <2>3
<1>7. ASSUME NEW c \in made
      PROVE  [Promise!Publish \/ Promise!Record \/ Promise!Withdraw \/ Promise!Strike]_
                 <<recordedNow, publicNow>>
  <2>1. c \in made' /\ c \in Conversation /\ Changes(c)
    BY <1>4, <1>5
  <2>2. publicNow = mapping[c] /\ publicNow' = mapping'[c]
    <3>1. publicNow = mapping[c]
      BY <1>3, <1>5, <2>1, PublicIs
    <3>2. publicNow' = mapping'[c]
      BY <1>3, <1>5, <2>1 DEF OneMade, publicNow
    <3> QED
      BY <3>1, <3>2
  <2>3. \/ mapping'[c] = mapping[c]
        \/ mapping[c] = "active" /\ mapping'[c] = "deleted"
        \/ mapping[c] = "none" /\ mapping'[c] = "active"
    BY <2>1 DEF Changes
  <2> QED
    BY <1>2, <2>2, <2>3 DEF Promise!Publish, Promise!Withdraw
<1> QED
  BY <1>6, <1>7

\* A record that is stored says "published" where the mapping was seen, and no
\* longer says so where it is withdrawn.
LEMMA StoringPromises ==
    ASSUME ReceiptInv, AccountInv, NEW p \in Process, Storing(p)
    PROVE  [Promise!Publish \/ Promise!Record \/ Promise!Withdraw \/ Promise!Strike]_
               <<recordedNow, publicNow>>
<1>1. PICK r \in Record, step \in Step : Appending(p, r, step) /\ Founded(p, r, step)
  BY StoringAppends
<1>2. /\ log # <<>> /\ validValue(r) /\ validStep(last, r)
      /\ UNCHANGED <<provider, flight, attempts>>
      /\ log' = Append(log, r) \/ log' = log
  BY <1>1, AppendingLeaves, WorkingReceipt DEF Appending, Store
<1>3. publicNow' = publicNow
  BY <1>2, AccountIsSilent DEF provider
<1>4. recordedNow = (last.stage = "published")
  BY <1>2 DEF recordedNow, last
<1>5. CASE log' = log
  BY <1>3, <1>5 DEF recordedNow
<1>6. CASE log' = Append(log, r)
  <2>1. recordedNow' = (r.stage = "published")
    <3>1. last' = r /\ log' # <<>>
      BY <1>6, LastOfAppend DEF ReceiptInv, TypeOK
    <3> QED
      BY <3>1 DEF recordedNow, last
  <2>2. /\ mapping \in [Conversation -> {"none", "active", "deleted"}]
        /\ OneMade /\ OwnConversationOnly
    BY DEF ReceiptInv, TypeOK, AccountInv
  <2>3. Tells(r)
    BY <1>1, StoredTells
  <2>4. ASSUME r.stage \in {"published", "unpublished"}, mapping[r.conversation] # "none"
        PROVE  publicNow = mapping[r.conversation]
    <3>1. r.conversation \in Conversation
      BY <1>2, <2>4, BoundConversation
    <3>2. r.conversation \in made
      BY <2>2, <2>4, <3>1 DEF OwnConversationOnly
    <3> QED
      BY <2>2, <3>1, <3>2, PublicIs
  <2>5. CASE r.stage = "published"
    <3>1. publicNow = "active"
      BY <1>1, <2>4, <2>5 DEF Founded
    <3> QED
      BY <1>3, <1>4, <2>1, <2>5, <3>1 DEF Promise!Record
  <2>6. CASE r.stage # "published" /\ last.stage = "published"
    <3>1. r.stage = "unpublished"
      BY <1>2, <2>6 DEF validStep, Transitions, Stage, Preconversion, CoreStage, PublicStage
    <3>2. publicNow = "deleted"
      BY <2>3, <2>4, <3>1 DEF Tells
    <3> QED
      BY <1>3, <1>4, <2>1, <2>6, <3>2 DEF Promise!Strike
  <2>7. CASE r.stage # "published" /\ last.stage # "published"
    BY <1>3, <1>4, <2>1, <2>7
  <2> QED
    BY <2>5, <2>6, <2>7
<1> QED
  BY <1>2, <1>5, <1>6

LEMMA BeginPromises ==
    ASSUME ReceiptInv, NEW p \in Process, Begin(p)
    PROVE  UNCHANGED <<recordedNow, publicNow>>
<1>1. log = <<>> /\ UNCHANGED <<provider, flight, attempts>>
  BY BeginLeaves
<1>2. PICK requested \in BOOLEAN : log' = log \/ log' = <<Prepared(requested)>>
  BY BeginLeaves
<1>3. recordedNow = FALSE
  BY <1>1 DEF recordedNow
<1>4. recordedNow' = FALSE
  <2>1. CASE log' = log
    BY <1>1, <2>1 DEF recordedNow
  <2>2. CASE log' = <<Prepared(requested)>>
    <3>1. last' = Prepared(requested)
      BY <1>1, <2>2, FirstRecord
    <3> QED
      BY <3>1, PreparedIsValid DEF recordedNow, last
  <2> QED
    BY <1>2, <2>1, <2>2
<1>5. publicNow' = publicNow
  BY <1>1, AccountIsSilent DEF provider
<1> QED
  BY <1>3, <1>4, <1>5

LEMMA PromiseNext ==
    ASSUME ReceiptInv, AccountInv, [Next]_vars
    PROVE  [Promise!Publish \/ Promise!Record \/ Promise!Withdraw \/ Promise!Strike]_
               <<recordedNow, publicNow>>
<1>1. ASSUME UNCHANGED <<log, mapping, made>>
      PROVE  UNCHANGED <<recordedNow, publicNow>>
  BY <1>1, AccountIsSilent DEF recordedNow
<1>2. ASSUME NEW p \in Process, Dispatching(p)
      PROVE  UNCHANGED <<recordedNow, publicNow>>
  <2>1. PICK m \in Mutation \cup Repeatable, step \in Step : Asking(p, m, step)
    BY <1>2, DispatchingAsks
  <2>2. UNCHANGED <<file, provider>>
    BY <2>1, AskingLeaves
  <2> QED
    BY <1>1, <2>2 DEF file, provider
<1>3. ASSUME NEW p \in Process,
             \/ Create(p) \/ \E command \in Command : Open(p, command)
             \/ Load(p) \/ Stop(p) \/ Orphan(p)
      PROVE  UNCHANGED <<recordedNow, publicNow>>
  BY <1>1, <1>3 DEF Create, Open, Load, Stop, Orphan, file, provider
<1>4. UNCHANGED vars => UNCHANGED <<recordedNow, publicNow>>
  BY <1>1 DEF vars, file, provider
<1> QED
  BY <1>2, <1>3, <1>4, Steps, StoringPromises, BeginPromises, OutsidePromises

\* The receipt says "published" only once the mapping was seen, and stops saying
\* so only once it is withdrawn; a mapping that was withdrawn never comes back.
THEOREM ImplementsPromise == Spec => ImplementsPublication
<1>1. Init => Promise!Init
  BY PublicIsNone DEF Init, Promise!Init, recordedNow
<1>2. ReceiptInv /\ AccountInv /\ [Next]_vars
      => [Promise!Publish \/ Promise!Record \/ Promise!Withdraw \/ Promise!Strike]_
             <<recordedNow, publicNow>>
  BY PromiseNext
<1> QED
  BY <1>1, <1>2, ReceiptInvHolds, AccountInvHolds, PTL
     DEF Spec, ImplementsPublication, Promise!Spec

=============================================================================
