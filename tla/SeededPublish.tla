--------------------------- MODULE SeededPublish ---------------------------
(***************************************************************************)
(* Seeded publication: the commands --public, --private and --delete of    *)
(* clawdvert/publish.py, the publisher they drive                          *)
(* (clawdvert/chat_seeded_publish.py) and the receipt they share.  A       *)
(* command clones a public seed, publishes another source in the place of  *)
(* the clone, withdraws it and deletes the clone, with one request each.   *)
(*                                                                         *)
(* Commands may run at once, and die at any point.  A request may be lost, *)
(* refused, or carried out long after nobody waits for it; an answer may   *)
(* be lost.  What the publisher reads of the provider is the provider's    *)
(* present state, or nothing: every check may fail, and then the command   *)
(* gives up.  Checks of the seed are among those.                          *)
(***************************************************************************)
EXTENDS SeededReceipt

VARIABLES
    exists,        \* there is a receipt file
    log,           \* the whole lines of it
    torn,          \* it ends in a part of a line
    owner,         \* the process that holds its lock
    session,       \* session[p]: what p is doing
    conversation,  \* conversation[c]: "absent", "there" or "deleted"
    mapping,       \* mapping[c]: "none", "active" or "deleted" (a tombstone)
    made,          \* conversations the provider made for this receipt
    flight,        \* requests the provider has not answered
    attempts       \* attempts[m]: how often mutation m was asked for

file == <<exists, log, torn>>
provider == <<conversation, mapping, made>>
vars == <<file, owner, session, provider, flight, attempts>>

Mutation == {"remix", "publish", "unpublish", "delete"}

intent(m) == CASE m = "remix" -> "remix_pending"
               [] m = "publish" -> "publish_pending"
               [] m = "unpublish" -> "unpublish_pending"
               [] m = "delete" -> "delete_pending"

Command == {"public", "private", "delete"}

\* A step is what a process does next; "published" and "unpublished" are the
\* records still to be written, "unresolved" is an error still to be noted.
Step == {"none", "creating", "opening", "planning", "intended", "sent",
         "published", "unpublished", "unresolved"}

Session == [step : Step, command : Command, receipt : Record,
            answer : {"none", "done", "refused"}, named : MaybeConversation]

Idle == [step |-> "none", command |-> "public", receipt |-> Prepared,
         answer |-> "none", named |-> NoConversation]

Request == [mutation : Mutation, on : MaybeConversation, by : Process]

Init ==
    /\ exists = FALSE /\ log = <<>> /\ torn = FALSE
    /\ owner = NoProcess
    /\ session = [p \in Process |-> Idle]
    /\ conversation = [c \in Conversation |-> "absent"]
    /\ mapping = [c \in Conversation |-> "none"]
    /\ made = {}
    /\ flight = {}
    /\ attempts = [m \in Mutation |-> 0]

-----------------------------------------------------------------------------
(* What is read of the provider.                                           *)

privateExact(c) == conversation[c] = "there" /\ mapping[c] = "none"
activeExact(c) == conversation[c] = "there" /\ mapping[c] = "active"
tombstoneExact(c) == conversation[c] = "there" /\ mapping[c] = "deleted"

deletedExact(r) ==
    /\ conversation[r.clone] = "deleted"
    /\ mapping[r.clone] = IF r.public THEN "deleted" ELSE "none"

\* What must hold before the intent of stage s is written, and again before
\* the request.
ready(s, r) ==
    CASE s = "remix_pending" -> TRUE
      [] s = "publish_pending" -> privateExact(r.clone)
      [] s = "unpublish_pending" -> activeExact(r.clone)
      [] s = "delete_pending" -> IF r.public THEN tombstoneExact(r.clone)
                                             ELSE privateExact(r.clone)

-----------------------------------------------------------------------------
(* The life of a process.                                                  *)

\* p ends, by itself or not, and its lock with it.
Ends(p) ==
    /\ session' = [session EXCEPT ![p] = Idle]
    /\ owner' = IF owner = p THEN NoProcess ELSE owner

GoesOn(p, r, step) ==
    /\ session' = [session EXCEPT ![p].receipt = r, ![p].step = step]
    /\ UNCHANGED owner

\* A line behind a part of a line is lost with it.
written(r) == Append(log, IF torn THEN Fragment ELSE r)

\* r is appended, and p goes on or ends.  A write that fails leaves the whole
\* line, a part of it or nothing, and ends p.
Store(p, r, step) ==
    /\ UNCHANGED exists
    /\ \/ /\ log' = written(r) /\ torn' = FALSE
          /\ IF step = "none" THEN Ends(p) ELSE GoesOn(p, r, step)
       \/ /\ log' = written(r) /\ torn' = FALSE
          /\ Ends(p)
       \/ /\ log' = log /\ torn' = TRUE
          /\ Ends(p)

Advance(p, stage, step) ==
    /\ stage \in Transitions[session[p].receipt.stage]
    /\ Store(p, advance(session[p].receipt, stage), step)

Stop(p) ==
    /\ session[p].step # "none"
    /\ Ends(p)
    /\ UNCHANGED <<file, provider, flight, attempts>>

\* Mutant of free: nobody locks the receipt.
free_Never == TRUE

free == owner = NoProcess

\* --public without a receipt: the file is created, then locked and begun.
Create(p) ==
    /\ session[p].step = "none" /\ ~ exists
    /\ exists' = TRUE
    /\ session' = [session EXCEPT ![p] = [Idle EXCEPT !.step = "creating"]]
    /\ UNCHANGED <<log, torn, owner, provider, flight, attempts>>

Begin(p) ==
    /\ session[p].step = "creating" /\ free
    /\ \/ /\ log' = written(Prepared) /\ torn' = FALSE
          /\ owner' = p
          /\ session' = [session EXCEPT ![p].step = "planning"]
       \/ /\ \/ log' = written(Prepared) /\ torn' = FALSE
             \/ log' = log /\ torn' = TRUE
          /\ Ends(p)
    /\ UNCHANGED <<exists, provider, flight, attempts>>

Open(p, command) ==
    /\ session[p].step = "none" /\ exists /\ free
    /\ owner' = p
    /\ session' = [session EXCEPT ![p] = [Idle EXCEPT !.step = "opening", !.command = command]]
    /\ UNCHANGED <<file, provider, flight, attempts>>

\* Mutant of usable: a receipt that ends in a part of a line is gone on with.
usable_Torn == validHistory(log)

\* A receipt with a part of a line is only looked at.
usable == validHistory(log) /\ ~ torn

Load(p) ==
    /\ session[p].step = "opening"
    /\ usable
    /\ session' = [session EXCEPT ![p].receipt = log[Len(log)], ![p].step = "planning"]
    /\ UNCHANGED <<file, owner, provider, flight, attempts>>

\* Somebody repairs the receipt, removing the part of a line.
RepairPartialTail ==
    /\ torn /\ validHistory(log) /\ free
    /\ torn' = FALSE
    /\ UNCHANGED <<exists, log, owner, session, provider, flight, attempts>>

-----------------------------------------------------------------------------
(* Mutations.                                                              *)

\* The intent that comes next, if any.
planned(s) ==
    CASE s.command = "public" /\ s.receipt.stage = "prepared" -> {"remix_pending"}
      [] s.command = "public" /\ s.receipt.stage = "clone_bound" -> {"publish_pending"}
      [] s.command # "public" /\ s.receipt.stage \in {"public_bound", "published"} ->
             {"unpublish_pending"}
      [] s.command = "delete"
         /\ s.receipt.stage \in {"clone_bound", "publish_rejected", "unpublished"} ->
             {"delete_pending"}
      [] OTHER -> {}

Intend(p) ==
    /\ session[p].step = "planning"
    /\ \E stage \in planned(session[p]) :
          /\ ready(stage, session[p].receipt)
          /\ Advance(p, stage, "intended")
    /\ UNCHANGED <<provider, flight, attempts>>

Dispatch(p) ==
    LET r == session[p].receipt
    IN /\ session[p].step = "intended"
       /\ ready(r.stage, r)
       /\ \E m \in Mutation :
             /\ intent(m) = r.stage
             /\ flight' = flight \cup {[mutation |-> m, on |-> r.clone, by |-> p]}
             /\ attempts' = [attempts EXCEPT ![m] = @ + 1]
       /\ session' = [session EXCEPT ![p].step = "sent", ![p].answer = "none",
                                     ![p].named = NoConversation]
       /\ UNCHANGED <<file, owner, provider>>

\* The answer to q, which is lost if nobody waits for it any more.
Answer(q, answer, named) ==
    LET s == session[q.by]
    IN /\ flight' = flight \ {q}
       /\ \/ UNCHANGED session
          \/ /\ s.step = "sent" /\ s.receipt.stage = intent(q.mutation)
             /\ session' = [session EXCEPT ![q.by].answer = answer, ![q.by].named = named]
       /\ UNCHANGED <<file, owner, attempts>>

\* The provider carries a request out, refuses it, or never sees it.
Remix(q) ==
    /\ q.mutation = "remix"
    /\ \E c \in Conversation :
          /\ conversation[c] = "absent"
          /\ conversation' = [conversation EXCEPT ![c] = "there"]
          /\ made' = made \cup {c}
          /\ Answer(q, "done", c)
    /\ UNCHANGED mapping

Publish(q) ==
    /\ q.mutation = "publish" /\ privateExact(q.on)
    /\ mapping' = [mapping EXCEPT ![q.on] = "active"]
    /\ Answer(q, "done", NoConversation)
    /\ UNCHANGED <<conversation, made>>

Unpublish(q) ==
    /\ q.mutation = "unpublish" /\ mapping[q.on] = "active"
    /\ mapping' = [mapping EXCEPT ![q.on] = "deleted"]
    /\ Answer(q, "done", NoConversation)
    /\ UNCHANGED <<conversation, made>>

Delete(q) ==
    /\ q.mutation = "delete" /\ conversation[q.on] = "there"
    /\ conversation' = [conversation EXCEPT ![q.on] = "deleted"]
    /\ Answer(q, "done", NoConversation)
    /\ UNCHANGED <<mapping, made>>

Refuse(q) ==
    /\ Answer(q, "refused", NoConversation)
    /\ UNCHANGED provider

-----------------------------------------------------------------------------
(* What became of a mutation, for the process that asked for it and for    *)
(* the ones that find its intent in the receipt.                           *)

\* Mutant of cloneOf: the new conversation in the catalog is taken for the clone.
cloneOf_Catalog(s) == {c \in Conversation : privateExact(c)}

\* The conversation an answer to the remix has named, now or before.
cloneOf(s) ==
    {c \in Conversation : \/ s.step = "sent" /\ s.answer = "done" /\ c = s.named
                          \/ s.step = "planning" /\ c = s.receipt.observed}

BindClone(p) ==
    /\ session[p].step \in {"sent", "planning"}
    /\ \E c \in cloneOf(session[p]) :
          /\ canBindClone(session[p].receipt, c) /\ privateExact(c)
          /\ Store(p, bindClone(session[p].receipt, c), "planning")
    /\ UNCHANGED <<provider, flight, attempts>>

\* The mapping is there.  An answer that was lost or a public copy that differs
\* leaves it unverified.
BindPublic(p) ==
    LET s == session[p]
        unverified == IF s.command = "public" THEN "unresolved" ELSE "planning"
    IN /\ s.receipt.stage = "publish_pending"
       /\ s.step \in {"sent", "planning"}
       /\ \/ /\ activeExact(s.receipt.clone)
             /\ \E step \in {unverified} \cup
                    IF s.step = "planning" \/ s.answer = "done" THEN {"published"} ELSE {} :
                   Store(p, bindPublic(s.receipt), step)
          \/ /\ s.step = "planning" /\ tombstoneExact(s.receipt.clone)
             /\ Store(p, bindPublic(s.receipt), "unpublished")
       /\ UNCHANGED <<provider, flight, attempts>>

\* A mapping that was bound before, and not verified.
VerifyPublic(p) ==
    LET s == session[p]
    IN /\ s.receipt.stage = "public_bound"
       /\ s.step = "planning" /\ s.command = "public"
       /\ \/ activeExact(s.receipt.clone) /\ Advance(p, "published", "none")
          \/ tombstoneExact(s.receipt.clone) /\ Advance(p, "unpublished", "unresolved")
       /\ UNCHANGED <<provider, flight, attempts>>

\* The second record of a reconciliation or of a publication.
RecordMapping(p) ==
    /\ \/ /\ session[p].step = "published"
          /\ Advance(p, "published",
                     IF session[p].command = "public" THEN "none" ELSE "planning")
       \/ /\ session[p].step = "unpublished"
          /\ Advance(p, "unpublished",
                     IF session[p].command = "public" THEN "unresolved" ELSE "planning")
    /\ UNCHANGED <<provider, flight, attempts>>

\* Mutant of rejected: silence counts as a refusal.
rejected_Silence(s) == s.answer # "done"

\* A status that says that nothing was published, and never will be.
rejected(s) == s.answer = "refused"

RecordRejection(p) ==
    /\ session[p].step = "sent" /\ session[p].receipt.stage = "publish_pending"
    /\ rejected(session[p]) /\ privateExact(session[p].receipt.clone)
    /\ Advance(p, "publish_rejected", "none")
    /\ UNCHANGED <<provider, flight, attempts>>

\* The tombstone of a mapping, or the absence of a conversation.
removed(s) ==
    CASE s.receipt.stage = "unpublish_pending" -> tombstoneExact(s.receipt.clone)
      [] s.receipt.stage = "delete_pending" -> deletedExact(s.receipt)

RecordRemoval(p) ==
    LET s == session[p]
    IN /\ \/ s.step = "sent"
          \/ s.step = "planning" /\ s.command # "public"
       /\ s.receipt.stage \in {"unpublish_pending", "delete_pending"}
       /\ removed(s)
       /\ IF s.receipt.stage = "delete_pending" THEN Advance(p, "deleted", "none")
                                                ELSE Advance(p, "unpublished", "planning")
       /\ UNCHANGED <<provider, flight, attempts>>

\* The conversation an error names: the clone, or what the answer named.
seen(s) ==
    IF s.receipt.clone # NoConversation THEN s.receipt.clone
    ELSE IF s.step = "sent" THEN s.named ELSE NoConversation

\* The state of the provider is unknown: p notes what it has seen, and ends.
\* The last requests of --private and --delete leave no note.
noted(s) ==
    \/ s.step = "unresolved"
    \/ s.step = "planning" /\ s.receipt.stage \in Pending
    \/ /\ s.command = "public" /\ s.step \in {"planning", "intended", "sent"}
       /\ s.receipt.stage \in {"remix_pending", "clone_bound", "publish_pending", "public_bound"}

NoteUnknown(p) ==
    LET s == session[p]
    IN /\ noted(s)
       /\ observes(s.receipt, seen(s))
       /\ Store(p, observe(s.receipt, seen(s)), "none")
       /\ UNCHANGED <<provider, flight, attempts>>

-----------------------------------------------------------------------------
(* Others who use the account.                                             *)

\* Another operation clones the same seed.
CloneElsewhere ==
    /\ \E c \in Conversation :
          /\ conversation[c] = "absent"
          /\ conversation' = [conversation EXCEPT ![c] = "there"]
    /\ UNCHANGED <<file, owner, session, mapping, made, flight, attempts>>

\* The user withdraws the publication in the provider's own pages.
WithdrawByHand ==
    /\ \E c \in Conversation :
          /\ mapping[c] = "active"
          /\ mapping' = [mapping EXCEPT ![c] = "deleted"]
    /\ UNCHANGED <<file, owner, session, conversation, made, flight, attempts>>

-----------------------------------------------------------------------------

Next ==
    \/ \E p \in Process :
          \/ Create(p) \/ Begin(p) \/ \E command \in Command : Open(p, command)
          \/ Load(p) \/ Stop(p)
          \/ Intend(p) \/ Dispatch(p)
          \/ BindClone(p) \/ BindPublic(p) \/ VerifyPublic(p) \/ RecordMapping(p)
          \/ RecordRejection(p) \/ RecordRemoval(p) \/ NoteUnknown(p)
    \/ \E q \in flight : Remix(q) \/ Publish(q) \/ Unpublish(q) \/ Delete(q) \/ Refuse(q)
    \/ RepairPartialTail \/ CloneElsewhere \/ WithdrawByHand

Spec == Init /\ [][Next]_vars

-----------------------------------------------------------------------------
(* Properties.                                                             *)

\* The receipt holds records, and the provider's state and requests are of the
\* kinds the publisher knows.
TypeOK ==
    /\ exists \in BOOLEAN /\ torn \in BOOLEAN
    /\ log \in Seq(Record \cup {Fragment})
    /\ owner \in Process \cup {NoProcess}
    /\ session \in [Process -> Session]
    /\ conversation \in [Conversation -> {"absent", "there", "deleted"}]
    /\ mapping \in [Conversation -> {"none", "active", "deleted"}]
    /\ made \subseteq Conversation
    /\ flight \subseteq Request
    /\ attempts \in [Mutation -> Nat]

\* Every mutation is attempted at most once for a receipt, whoever runs, dies
\* and runs again (docs/standard-artifact-publisher.md: "Every mutation is
\* attempted at most once").
AtMostOnce == \A m \in Mutation : attempts[m] <= 1

\* A receipt that was begun can be loaded again, however its writers died
\* (_validate_value, _validate_history).
Readable == log # <<>> => validHistory(log)

\* What the last record says has happened, also when requests are carried out
\* late; so nothing is left public behind a receipt that was rejected or cleaned
\* up.
ReceiptTells ==
    log # <<>> =>
        LET r == log[Len(log)]
        IN /\ r.public => mapping[r.clone] # "none"
           /\ r.stage = "publish_rejected" => mapping[r.clone] = "none"
           /\ r.stage \in {"unpublished", "delete_pending", "deleted"} =>
                  mapping[r.clone] # "active"
           /\ r.stage = "deleted" => conversation[r.clone] = "deleted"

\* Only the conversation the provider made for this receipt is published from
\* or deleted (reconciliation "without ... guessing from titles, timestamps, or
\* list position").
OwnCloneOnly ==
    \A c \in Conversation :
        conversation[c] = "deleted" \/ mapping[c] # "none" => c \in made

\* Intents are on disk before their requests, and stay there.
intendedNow == {m \in Mutation : \E i \in 1 .. Len(log) : log[i].stage = intent(m)}

Requests == INSTANCE OneShot WITH intended <- intendedNow

RequestsAreOneShot == Requests!Spec

=============================================================================
