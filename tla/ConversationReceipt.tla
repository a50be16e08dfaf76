------------------------ MODULE ConversationReceipt ------------------------
(***************************************************************************)
(* The receipt of one conversation-backed publication (clawdvert/          *)
(* publish.py): a file of records, each a whole state of the publication,  *)
(* of which the last one counts.                                           *)
(*                                                                         *)
(* The identifiers of the converted Artifact come together and never       *)
(* change, and so do those of the public mapping: each is a flag here.     *)
(* The provenance of the source never changes and is left out, but for     *)
(* whether publication was asked for.                                      *)
(***************************************************************************)
EXTENDS Account, Sequences

Preconversion == {"conversation_bound", "file_bound"}
PublicStage == {"public_bound", "published", "unpublished"}
CoreStage == PublicStage \cup {"conversion_bound", "privacy_pending", "converted",
                               "private", "deleted"}

Stage == Preconversion \cup CoreStage \cup {"prepared", "conversion_pending"}

\* The stages that may come after each stage.
Transitions ==
    [s \in Stage |->
        CASE s = "prepared" -> {"conversation_bound"}
          [] s = "conversation_bound" -> {"file_bound", "deleted"}
          [] s = "file_bound" -> {"conversion_pending", "deleted"}
          [] s = "conversion_pending" -> {"conversion_bound", "converted"}
          [] s = "conversion_bound" -> {"privacy_pending"}
          [] s = "privacy_pending" -> {"private"}
          [] s = "converted" -> {"private", "public_bound", "deleted"}
          [] s = "private" -> {"deleted"}
          [] s = "public_bound" -> {"published", "unpublished"}
          [] s = "published" -> {"unpublished"}
          [] s = "unpublished" -> {"deleted"}
          [] s = "deleted" -> {}]

Record == [stage : Stage, requestedPublic : BOOLEAN, conversation : MaybeConversation,
           artifact : BOOLEAN, public : BOOLEAN]

Prepared(requested) ==
    [stage |-> "prepared", requestedPublic |-> requested,
     conversation |-> NoConversation, artifact |-> FALSE, public |-> FALSE]

\* A line that is no record: what was left of one, and the next behind it.
Fragment == [Prepared(FALSE) EXCEPT !.stage = "fragment"]

-----------------------------------------------------------------------------
(* The records that are written.                                           *)

advance(r, stage) == [r EXCEPT !.stage = stage]

bindConversation(r, c) == [r EXCEPT !.stage = "conversation_bound", !.conversation = c]

\* The conversion is bound, by its answer ("converted") or by reading
\* ("conversion_bound").
bindArtifact(r, stage) == [r EXCEPT !.stage = stage, !.artifact = TRUE]

\* Mutant of bindPublic: the conversation is bound for the mapping.
bindPublic_Conversation(r) == [r EXCEPT !.stage = "public_bound", !.public = r.conversation]

bindPublic(r) == [r EXCEPT !.stage = "public_bound", !.public = TRUE]

-----------------------------------------------------------------------------
(* The receipts that can be loaded.                                        *)

validValue(r) ==
    /\ r \in Record
    /\ r.conversation = NoConversation <=> r.stage = "prepared"
    /\ r.artifact => r.stage \in CoreStage
    /\ r.stage \in CoreStage \ {"deleted"} => r.artifact
    /\ r.public => r.artifact /\ r.stage \in PublicStage \cup {"deleted"}
    /\ r.stage \in PublicStage => r.public

validStep(before, after) ==
    /\ after.stage \in Transitions[before.stage]
    /\ after.requestedPublic = before.requestedPublic
    /\ before.conversation \in {NoConversation, after.conversation}
    /\ before.artifact => after.artifact
    /\ before.public => after.public

validHistory(log) ==
    /\ log # <<>>
    /\ \A i \in 1 .. Len(log) : validValue(log[i])
    /\ log[1].stage = "prepared"
    /\ \A i \in 1 .. Len(log) - 1 : validStep(log[i], log[i + 1])

=============================================================================
