------------------------ MODULE ConversationPublish ------------------------
(***************************************************************************)
(* Conversation-backed publication: the commands of clawdvert/publish.py   *)
(* that create a publication, withdraw it (--private) and delete its       *)
(* conversation (--delete), the publisher they drive                       *)
(* (clawdvert/chat_publish.py) and the receipt they share.  A prompt makes *)
(* a conversation with a file, the file is converted into an Artifact, the *)
(* Artifact is made private and then, if asked for, published.             *)
(*                                                                         *)
(* A command reads and asks from a page of the browser.  When the command  *)
(* dies, its lock goes at once, and the page may still ask for what it was *)
(* about to ask for.  A request may be lost, refused, or carried out long  *)
(* after nobody waits for it; an answer may be lost.  What is read of the  *)
(* provider is its present state, or nothing: every check may fail, and    *)
(* then the command gives up.                                              *)
(***************************************************************************)
EXTENDS ConversationReceipt

CONSTANT ConvertsPublicly  \* a conversion may come with a public mapping

VARIABLES
    exists,        \* there is a receipt file
    log,           \* the whole lines of it
    torn,          \* it ends in a part of a line
    owner,         \* the process that holds its lock
    session,       \* session[p]: what p, or the page it left, is doing
    conversation,  \* conversation[c]: "absent", "there" or "deleted"
    artifact,      \* artifact[c]: "none", or the visibility of the one converted in c
    mapping,       \* mapping[c]: "none", "active" or "deleted" (a tombstone)
    made,          \* conversations that hold the prompt of this receipt
    flight,        \* requests the provider has not answered
    attempts       \* attempts[m]: how often the one-shot mutation m was asked for

file == <<exists, log, torn>>
provider == <<conversation, artifact, mapping, made>>
vars == <<file, owner, session, provider, flight, attempts>>

\* Mutations that are asked for once; the others are safe to repeat.
Mutation == {"prompt", "convert", "publish", "privatize"}
Repeatable == {"hide", "unpublish", "delete"}

\* The record that must be on disk before a one-shot mutation is asked for.
intends(r, m) ==
    CASE m = "prompt" -> r.stage = "prepared"
      [] m = "convert" -> r.stage = "conversion_pending"
      [] m = "publish" -> r.stage = "converted" /\ r.requestedPublic
      [] m = "privatize" -> r.stage = "privacy_pending"

Command == {"create", "private", "delete"}

\* A step is what a process does next, or which answer it waits for.
Asked == [prompt |-> "waiting", convert |-> "converting", hide |-> "hiding",
          publish |-> "publishing", privatize |-> "privatizing",
          unpublish |-> "withdrawing", delete |-> "removing"]

Step == {"none", "creating", "prompting", "waiting", "filed", "intended", "converting",
         "hiding", "exposing", "exposed", "bound", "publishing", "mapped",
         "opening", "planning", "allowed", "privatizing", "withdrawn", "withdrawing",
         "removing"}

Session == [step : Step, command : Command, receipt : Record, alive : BOOLEAN,
            answer : {"none", "done", "public", "refused"}]

Idle == [step |-> "none", command |-> "create", receipt |-> Prepared(FALSE),
         alive |-> TRUE, answer |-> "none"]

Request == [mutation : Mutation \cup Repeatable, on : MaybeConversation, by : Process]

Init ==
    /\ exists = FALSE /\ log = <<>> /\ torn = FALSE
    /\ owner = NoProcess
    /\ session = [p \in Process |-> Idle]
    /\ conversation = [c \in Conversation |-> "absent"]
    /\ artifact = [c \in Conversation |-> "none"]
    /\ mapping = [c \in Conversation |-> "none"]
    /\ made = {}
    /\ flight = {}
    /\ attempts = [m \in Mutation |-> 0]

-----------------------------------------------------------------------------
(* What is read of the provider.                                           *)

\* Mutant of exactConversation: any conversation will do.
exactConversation_Any(c) == conversation[c] = "there"

\* The transcript holds the prompt, and its file.
exactConversation(c) == conversation[c] = "there" /\ c \in made

\* Neither an Artifact nor an active mapping.
clearOfArtifacts(c) == artifact[c] = "none" /\ mapping[c] # "active"

\* One Artifact, which was never public.
unpublishedArtifact(c) == artifact[c] # "none" /\ mapping[c] = "none"

\* Mutant of tombstone: the withdrawal is taken for done.
tombstone_Unread(c) == artifact[c] # "none" /\ mapping[c] # "none"

tombstone(c) == artifact[c] # "none" /\ mapping[c] = "deleted"

publicGone(r) ==
    IF r.public THEN mapping[r.conversation] = "deleted"
                ELSE mapping[r.conversation] # "active"

\* Nothing is left of the conversation, nor of what was in it.
gone(r) ==
    /\ conversation[r.conversation] = "deleted"
    /\ clearOfArtifacts(r.conversation) /\ publicGone(r)

\* The receipts with which the conversation is deleted.
deletable(r) == r.stage \in Preconversion \cup {"private", "unpublished"}

\* What must hold before it is.
mayDelete(r) ==
    /\ exactConversation(r.conversation)
    /\ IF r.stage \in Preconversion THEN clearOfArtifacts(r.conversation)
       ELSE /\ artifact[r.conversation] # "none"
            /\ mapping[r.conversation] = IF r.public THEN "deleted" ELSE "none"

-----------------------------------------------------------------------------
(* The life of a process.                                                  *)

Ends(p) ==
    /\ session' = [session EXCEPT ![p] = Idle]
    /\ owner' = IF owner = p THEN NoProcess ELSE owner

GoesOn(p, r, step) ==
    /\ session' = [session EXCEPT ![p].receipt = r, ![p].step = step]
    /\ UNCHANGED owner

\* Mutant of written: the record stays in a buffer.
written_Buffered(r) == log

\* A line behind a part of a line is lost with it.
written(r) == Append(log, IF torn THEN Fragment ELSE r)

\* p appends r, and goes on or ends.  A write that fails leaves the whole
\* line, a part of it or nothing, and ends p.
Store(p, r, step) ==
    /\ session[p].alive
    /\ UNCHANGED exists
    /\ \/ /\ log' = written(r) /\ torn' = FALSE
          /\ IF step = "none" THEN Ends(p) ELSE GoesOn(p, r, step)
       \/ /\ log' = written(r) /\ torn' = FALSE
          /\ Ends(p)
       \/ /\ log' = log /\ torn' = TRUE
          /\ Ends(p)

\* p gives up, or dies with its page; or the page that was left closes.
Stop(p) ==
    /\ session[p].step # "none"
    /\ Ends(p)
    /\ UNCHANGED <<file, provider, flight, attempts>>

\* p dies while its page is about to ask for something.
Orphan(p) ==
    /\ session[p].alive
    /\ session[p].step \in {"prompting", "intended", "converting", "bound", "planning", "allowed"}
    /\ session' = [session EXCEPT ![p].alive = FALSE]
    /\ owner' = IF owner = p THEN NoProcess ELSE owner
    /\ UNCHANGED <<file, provider, flight, attempts>>

free == owner = NoProcess

\* A publication without a receipt: the file is created, then locked and begun.
Create(p) ==
    /\ session[p].step = "none" /\ ~ exists
    /\ exists' = TRUE
    /\ session' = [session EXCEPT ![p] = [Idle EXCEPT !.step = "creating"]]
    /\ UNCHANGED <<log, torn, owner, provider, flight, attempts>>

Begin(p) ==
    /\ session[p].step = "creating" /\ free
    /\ \E requested \in BOOLEAN :
          \/ /\ log' = written(Prepared(requested)) /\ torn' = FALSE
             /\ owner' = p
             /\ session' = [session EXCEPT ![p].receipt = Prepared(requested),
                                           ![p].step = "prompting"]
          \/ /\ \/ log' = written(Prepared(requested)) /\ torn' = FALSE
                \/ log' = log /\ torn' = TRUE
             /\ Ends(p)
    /\ UNCHANGED <<exists, provider, flight, attempts>>

Open(p, command) ==
    /\ session[p].step = "none" /\ exists /\ free
    /\ command # "create"
    /\ owner' = p
    /\ session' = [session EXCEPT ![p] = [Idle EXCEPT !.step = "opening", !.command = command]]
    /\ UNCHANGED <<file, provider, flight, attempts>>

\* Mutant of repaired: the part of a line is left where it is.
repaired_Left == torn

\* A part of a line is cut off before anything else is done.
repaired == FALSE

Load(p) ==
    /\ session[p].step = "opening" /\ validHistory(log)
    /\ torn' = repaired
    /\ session' = [session EXCEPT ![p].receipt = log[Len(log)], ![p].step = "planning"]
    /\ UNCHANGED <<exists, log, owner, provider, flight, attempts>>

\* p, or the page it left, asks for m; a page that was left asks once.
Ask(p, m, step) ==
    LET s == session[p]
    IN /\ flight' = flight \cup {[mutation |-> m, on |-> s.receipt.conversation, by |-> p]}
       /\ attempts' = IF m \in Mutation THEN [attempts EXCEPT ![m] = @ + 1] ELSE attempts
       /\ session' = [session EXCEPT
                         ![p] = IF s.alive \/ m = "convert"
                                THEN [s EXCEPT !.step = step, !.answer = "none"]
                                ELSE Idle]
       /\ UNCHANGED <<file, owner, provider>>

-----------------------------------------------------------------------------
(* The publication.                                                        *)

SendPrompt(p) ==
    /\ session[p].step = "prompting"
    /\ Ask(p, "prompt", "waiting")

\* The page shows a conversation.  Which one is not checked yet: whoever sits
\* at the browser may have opened another.
BindConversation(p) ==
    LET r == session[p].receipt
    IN /\ session[p].step = "waiting" /\ r.stage = "prepared"
       /\ \E c \in Conversation :
             /\ conversation[c] = "there"
             /\ Store(p, bindConversation(r, c), "waiting")
       /\ UNCHANGED <<provider, flight, attempts>>

\* The file is there, as it was asked for; it is bound, and then the intent to
\* convert it.
BindFile(p) ==
    LET r == session[p].receipt
    IN /\ \/ /\ session[p].step = "waiting" /\ r.stage = "conversation_bound"
             /\ exactConversation(r.conversation)
             /\ Store(p, advance(r, "file_bound"), "filed")
          \/ /\ session[p].step = "filed"
             /\ Store(p, advance(r, "conversion_pending"), "intended")
       /\ UNCHANGED <<provider, flight, attempts>>

Convert(p) ==
    /\ session[p].step = "intended"
    /\ exactConversation(session[p].receipt.conversation)
    /\ Ask(p, "convert", "converting")

\* The mapping that is there is the one the answer named, if any.
HideConverted(p) ==
    LET s == session[p]
    IN /\ s.step = "converting" /\ s.answer \in {"done", "public"}
       /\ artifact[s.receipt.conversation] # "none"
       /\ mapping[s.receipt.conversation] = IF s.answer = "public" THEN "active" ELSE "none"
       /\ Ask(p, "hide", IF s.answer = "public" THEN "exposing" ELSE "hiding")

BindConverted(p) ==
    LET s == session[p]
    IN /\ s.step \in {"hiding", "exposing"} /\ s.answer = "done"
       /\ artifact[s.receipt.conversation] = "private"
       /\ exactConversation(s.receipt.conversation)
       /\ Store(p, bindArtifact(s.receipt, "converted"),
                IF s.step = "exposing" THEN "exposed" ELSE "bound")
       /\ UNCHANGED <<provider, flight, attempts>>

\* A mapping that came with the conversion is bound, and is no success.
RecordUnexpected(p) ==
    /\ session[p].step = "exposed"
    /\ Store(p, bindPublic(session[p].receipt), "none")
    /\ UNCHANGED <<provider, flight, attempts>>

PublishDirect(p) ==
    LET r == session[p].receipt
    IN /\ session[p].step = "bound" /\ r.requestedPublic
       /\ artifact[r.conversation] = "private" /\ mapping[r.conversation] = "none"
       /\ Ask(p, "publish", "publishing")

RecordPublished(p) ==
    /\ session[p].step = "publishing" /\ session[p].answer = "done"
    /\ Store(p, bindPublic(session[p].receipt), "mapped")
    /\ UNCHANGED <<provider, flight, attempts>>

RecordComplete(p) ==
    LET r == session[p].receipt
    IN /\ \/ /\ session[p].step = "mapped" /\ mapping[r.conversation] = "active"
             /\ Store(p, advance(r, "published"), "none")
          \/ /\ session[p].step = "bound" /\ ~ r.requestedPublic
             /\ Store(p, advance(r, "private"), "none")
       /\ UNCHANGED <<provider, flight, attempts>>

-----------------------------------------------------------------------------
(* --private and --delete.                                                 *)

\* What a process does once the publication is private.
onwards(s) == IF s.command = "delete" THEN "planning" ELSE "none"

\* A conversion whose answer was lost: there is one Artifact, and it was never
\* public.
ReconcileConversion(p) ==
    LET r == session[p].receipt
    IN /\ session[p].step = "planning" /\ r.stage = "conversion_pending"
       /\ exactConversation(r.conversation) /\ unpublishedArtifact(r.conversation)
       /\ Store(p, bindArtifact(r, "conversion_bound"), "planning")
       /\ UNCHANGED <<provider, flight, attempts>>

IntendPrivacy(p) ==
    LET r == session[p].receipt
    IN /\ session[p].step = "planning" /\ r.stage = "conversion_bound"
       /\ Store(p, advance(r, "privacy_pending"), "allowed")
       /\ UNCHANGED <<provider, flight, attempts>>

\* Mutant of allowed: an intent that is found is taken for an own one.
allowed_Found(s) == s.step \in {"allowed", "planning"}

\* Only the process that wrote the intent may ask.
allowed(s) == s.step = "allowed"

Privatize(p) ==
    LET r == session[p].receipt
    IN /\ allowed(session[p]) /\ r.stage = "privacy_pending"
       /\ exactConversation(r.conversation) /\ unpublishedArtifact(r.conversation)
       /\ artifact[r.conversation] = "shared"
       /\ Ask(p, "privatize", "privatizing")

\* The Artifact is private, whoever made it so.
RecordPrivacy(p) ==
    LET s == session[p]
        c == s.receipt.conversation
    IN /\ s.step \in {"planning", "allowed", "privatizing"}
       /\ s.receipt.stage = "privacy_pending"
       /\ exactConversation(c) /\ unpublishedArtifact(c) /\ artifact[c] = "private"
       /\ Store(p, advance(s.receipt, "private"), onwards(s))
       /\ UNCHANGED <<provider, flight, attempts>>

\* Mutant of privateByReceipt: silence counts as private.
privateByReceipt_Silence(r) == ~ r.requestedPublic \/ unpublishedArtifact(r.conversation)

\* A conversion that was to be published may be yet: nothing is inferred from
\* a mapping that is not there.
privateByReceipt(r) == ~ r.requestedPublic

CompletePrivate(p) ==
    LET s == session[p]
    IN /\ s.step = "planning" /\ s.receipt.stage = "converted"
       /\ privateByReceipt(s.receipt)
       /\ Store(p, advance(s.receipt, "private"), onwards(s))
       /\ UNCHANGED <<provider, flight, attempts>>

\* A publication whose answer was lost is bound, or its tombstone is.
ReconcilePublic(p) ==
    LET r == session[p].receipt
    IN /\ \/ /\ session[p].step = "planning" /\ r.stage = "converted" /\ r.requestedPublic
             /\ \/ /\ artifact[r.conversation] # "none" /\ mapping[r.conversation] = "active"
                   /\ Store(p, bindPublic(r), "planning")
                \/ /\ tombstone(r.conversation)
                   /\ Store(p, bindPublic(r), "withdrawn")
          \/ /\ session[p].step = "withdrawn"
             /\ Store(p, advance(r, "unpublished"), onwards(session[p]))
       /\ UNCHANGED <<provider, flight, attempts>>

Unpublish(p) ==
    LET r == session[p].receipt
    IN /\ session[p].step = "planning" /\ r.stage \in {"public_bound", "published"}
       /\ artifact[r.conversation] # "none" /\ mapping[r.conversation] = "active"
       /\ Ask(p, "unpublish", "withdrawing")

RecordUnpublished(p) ==
    LET s == session[p]
    IN /\ s.receipt.stage \in {"public_bound", "published"}
       /\ \/ s.step = "planning"
          \/ s.step = "withdrawing" /\ s.answer = "done"
       /\ tombstone(s.receipt.conversation)
       /\ Store(p, advance(s.receipt, "unpublished"), onwards(s))
       /\ UNCHANGED <<provider, flight, attempts>>

DeleteConversation(p) ==
    LET s == session[p]
    IN /\ s.step = "planning" /\ s.command = "delete"
       /\ deletable(s.receipt) /\ mayDelete(s.receipt)
       /\ Ask(p, "delete", "removing")

RecordDeleted(p) ==
    LET s == session[p]
    IN /\ s.command = "delete" /\ deletable(s.receipt) /\ gone(s.receipt)
       /\ \/ s.step = "planning"
          \/ s.step = "removing" /\ s.answer = "done"
       /\ Store(p, advance(s.receipt, "deleted"), "none")
       /\ UNCHANGED <<provider, flight, attempts>>

-----------------------------------------------------------------------------
(* The provider, and others who use the account.                           *)

\* The answer to q, which is lost if nobody waits for it any more.
Answer(q, answer) ==
    LET s == session[q.by]
        expecting == Asked[q.mutation]
    IN /\ flight' = flight \ {q}
       /\ \/ UNCHANGED session
          \/ /\ \/ s.step = expecting
                \/ q.mutation = "hide" /\ s.step = "exposing"
             /\ s.answer = "none"
             /\ session' = [session EXCEPT ![q.by].answer = answer]
       /\ UNCHANGED <<file, owner, attempts>>

TakePrompt(q) ==
    /\ q.mutation = "prompt"
    /\ \E c \in Conversation :
          /\ conversation[c] = "absent"
          /\ conversation' = [conversation EXCEPT ![c] = "there"]
          /\ made' = made \cup {c}
    /\ Answer(q, "done")
    /\ UNCHANGED <<artifact, mapping>>

\* The conversion shares the Artifact with the organization, or does not.
MakeArtifact(q) ==
    /\ q.mutation = "convert"
    /\ conversation[q.on] = "there" /\ artifact[q.on] = "none"
    /\ \E visibility \in {"shared", "private"} :
          artifact' = [artifact EXCEPT ![q.on] = visibility]
    /\ \/ Answer(q, "done") /\ UNCHANGED mapping
       \/ /\ ConvertsPublicly
          /\ mapping' = [mapping EXCEPT ![q.on] = "active"]
          /\ Answer(q, "public")
    /\ UNCHANGED <<conversation, made>>

MakePrivate(q) ==
    /\ q.mutation \in {"hide", "privatize"} /\ artifact[q.on] # "none"
    /\ artifact' = [artifact EXCEPT ![q.on] = "private"]
    /\ Answer(q, "done")
    /\ UNCHANGED <<conversation, mapping, made>>

MakePublic(q) ==
    /\ q.mutation = "publish" /\ artifact[q.on] # "none" /\ mapping[q.on] = "none"
    /\ mapping' = [mapping EXCEPT ![q.on] = "active"]
    /\ Answer(q, "done")
    /\ UNCHANGED <<conversation, artifact, made>>

TakeBack(q) ==
    /\ q.mutation = "unpublish" /\ mapping[q.on] = "active"
    /\ mapping' = [mapping EXCEPT ![q.on] = "deleted"]
    /\ Answer(q, "done")
    /\ UNCHANGED <<conversation, artifact, made>>

Remove(q) ==
    /\ q.mutation = "delete" /\ conversation[q.on] = "there"
    /\ conversation' = [conversation EXCEPT ![q.on] = "deleted"]
    /\ artifact' = [artifact EXCEPT ![q.on] = "none"]
    /\ Answer(q, "done")
    /\ UNCHANGED <<mapping, made>>

\* A request that is refused, or never seen.
Refuse(q) ==
    /\ Answer(q, "refused")
    /\ UNCHANGED provider

\* Somebody begins another conversation.
ConversationElsewhere ==
    /\ \E c \in Conversation :
          /\ conversation[c] = "absent"
          /\ conversation' = [conversation EXCEPT ![c] = "there"]
    /\ UNCHANGED <<file, owner, session, artifact, mapping, made, flight, attempts>>

\* The user withdraws the publication in the provider's own pages.
WithdrawByHand ==
    /\ \E c \in Conversation :
          /\ mapping[c] = "active"
          /\ mapping' = [mapping EXCEPT ![c] = "deleted"]
    /\ UNCHANGED <<file, owner, session, conversation, artifact, made, flight, attempts>>

-----------------------------------------------------------------------------

Next ==
    \/ \E p \in Process :
          \/ Create(p) \/ Begin(p) \/ \E command \in Command : Open(p, command)
          \/ Load(p) \/ Stop(p) \/ Orphan(p)
          \/ SendPrompt(p) \/ BindConversation(p) \/ BindFile(p)
          \/ Convert(p) \/ HideConverted(p) \/ BindConverted(p) \/ RecordUnexpected(p)
          \/ PublishDirect(p) \/ RecordPublished(p) \/ RecordComplete(p)
          \/ ReconcileConversion(p) \/ IntendPrivacy(p) \/ Privatize(p) \/ RecordPrivacy(p)
          \/ CompletePrivate(p) \/ ReconcilePublic(p)
          \/ Unpublish(p) \/ RecordUnpublished(p)
          \/ DeleteConversation(p) \/ RecordDeleted(p)
    \/ \E q \in flight :
          \/ TakePrompt(q) \/ MakeArtifact(q) \/ MakePrivate(q) \/ MakePublic(q)
          \/ TakeBack(q) \/ Remove(q) \/ Refuse(q)
    \/ ConversationElsewhere \/ WithdrawByHand

Spec == Init /\ [][Next]_vars

-----------------------------------------------------------------------------
(* Properties.                                                             *)

\* The receipt, the sessions, the requests and the provider's state are of the
\* kinds the publisher knows.
TypeOK ==
    /\ exists \in BOOLEAN /\ torn \in BOOLEAN
    /\ log \in Seq(Record \cup {Fragment})
    /\ owner \in Process \cup {NoProcess}
    /\ session \in [Process -> Session]
    /\ conversation \in [Conversation -> {"absent", "there", "deleted"}]
    /\ artifact \in [Conversation -> {"none", "shared", "private"}]
    /\ mapping \in [Conversation -> {"none", "active", "deleted"}]
    /\ made \subseteq Conversation
    /\ flight \subseteq Request
    /\ attempts \in [Mutation -> Nat]

\* A receipt that was begun can be loaded again, however its writers died
\* (_validate, _validate_history).
Readable == log # <<>> => validHistory(log)

\* A mapping that came with the conversion, unasked.
unasked == attempts["publish"] = 0 /\ \E c \in made : mapping[c] # "none"

\* What the last record says is so, also when requests are carried out late:
\* before the intent to convert nothing was converted, so that the
\* conversation may go; a private Artifact is private and was never public; a
\* mapping that is said to be withdrawn is; a conversation that is said to be
\* deleted is.  A mapping that came unasked and was not bound in time is
\* excepted: such a receipt does say "private" (RecordUnexpected).
ReceiptTells ==
    log # <<>> =>
        LET r == log[Len(log)]
            c == r.conversation
        IN /\ r.stage \in Preconversion => artifact[c] = "none"
           /\ r.public => mapping[c] # "none"
           /\ r.stage = "private" /\ ~ unasked =>
                  mapping[c] = "none" /\ artifact[c] # "shared"
           /\ r.stage = "unpublished" => mapping[c] = "deleted"
           /\ r.stage = "deleted" => conversation[c] = "deleted"

\* Only the conversation the prompt of this receipt made is converted,
\* published from or deleted, whatever the page showed.
OwnConversationOnly ==
    \A c \in Conversation :
        conversation[c] = "deleted" \/ artifact[c] # "none" \/ mapping[c] # "none" => c \in made

\* No conversation goes while its publication is there, or may still come.
NothingPublishedBehind ==
    \A c \in Conversation :
        conversation[c] = "deleted" =>
            /\ mapping[c] # "active"
            /\ \A q \in flight : q.mutation = "publish" => q.on # c

\* The record of a one-shot mutation is on disk before its request, and stays.
intendedNow == {m \in Mutation : \E i \in 1 .. Len(log) : intends(log[i], m)}

Requests == INSTANCE OneShot WITH intended <- intendedNow

RequestsAreOneShot == Requests!Spec

\* What whoever reads the receipt for a seed is told, and how it is.
recordedNow == log # <<>> /\ log[Len(log)].stage = "published"

publicNow == IF \E c \in made : mapping[c] = "active" THEN "active"
             ELSE IF \E c \in made : mapping[c] = "deleted" THEN "deleted" ELSE "none"

Promise == INSTANCE Publication WITH recorded <- recordedNow, public <- publicNow

\* The receipt says "published" only while the mapping is there, and no longer
\* only once it is withdrawn for good (load_seed_binding: "fully published").
ImplementsPublication == Promise!Spec

=============================================================================
