--------------------------- MODULE SeededReceipt ---------------------------
(***************************************************************************)
(* The receipt of one seeded publication                                   *)
(* (clawdvert/chat_seeded_receipt.py): a file of records, each a whole     *)
(* state of the publication, of which the last one counts.                 *)
(*                                                                         *)
(* A record is reduced to its stage and to the conversations and mappings  *)
(* it binds; what the receipt says of the seed never changes.  A clone has *)
(* one public mapping at most, so that its identifier is a flag here.      *)
(***************************************************************************)
EXTENDS Account, Sequences

Pending == {"remix_pending", "publish_pending", "unpublish_pending", "delete_pending"}

Stage == Pending \cup {"prepared", "clone_bound", "publish_rejected", "public_bound",
                       "published", "unpublished", "deleted"}

\* The stages that may come after each stage.
Transitions ==
    [s \in Stage |->
        CASE s = "prepared" -> {"remix_pending"}
          [] s = "remix_pending" -> {"clone_bound"}
          [] s = "clone_bound" -> {"publish_pending", "delete_pending"}
          [] s = "publish_pending" -> {"public_bound", "publish_rejected"}
          [] s = "publish_rejected" -> {"delete_pending"}
          [] s = "public_bound" -> {"published", "unpublish_pending", "unpublished"}
          [] s = "published" -> {"unpublish_pending"}
          [] s = "unpublish_pending" -> {"unpublished"}
          [] s = "unpublished" -> {"delete_pending"}
          [] s = "delete_pending" -> {"deleted"}
          [] s = "deleted" -> {}]

Record == [stage : Stage, clone : MaybeConversation, observed : MaybeConversation,
           public : BOOLEAN]

Prepared == [stage |-> "prepared", clone |-> NoConversation,
             observed |-> NoConversation, public |-> FALSE]

\* A line that is no record: what was left of one, and the next behind it.
Fragment == [Prepared EXCEPT !.stage = "fragment"]

-----------------------------------------------------------------------------
(* The records that are written.                                           *)

advance(r, stage) == [r EXCEPT !.stage = stage]

canBindClone(r, c) ==
    r.stage = "remix_pending" /\ c \in Conversation /\ r.observed \in {NoConversation, c}

bindClone(r, c) == [r EXCEPT !.stage = "clone_bound", !.clone = c]

\* Mutant of bindPublic: the conversation is bound for the mapping.
bindPublic_Conversation(r) == [r EXCEPT !.stage = "public_bound", !.public = r.clone]

bindPublic(r) == [r EXCEPT !.stage = "public_bound", !.public = TRUE]

\* A conversation named by a response, which gives no right to touch it.
observes(r, c) ==
    /\ c \in Conversation /\ r.stage # "deleted"
    /\ r.observed = NoConversation
    /\ r.clone \in {NoConversation, c}

observe(r, c) == [r EXCEPT !.observed = c]

-----------------------------------------------------------------------------
(* The receipts that can be loaded.                                        *)

unbound == {"prepared", "remix_pending"}
private == unbound \cup {"clone_bound", "publish_pending", "publish_rejected"}
needsPublic == {"public_bound", "published", "unpublish_pending", "unpublished"}

validValue(r) ==
    /\ r \in Record
    /\ r.clone = NoConversation <=> r.stage \in unbound
    /\ r.observed # NoConversation /\ r.clone # NoConversation => r.observed = r.clone
    /\ r.stage \in needsPublic => r.public
    /\ r.public => r.stage \notin private

validStep(before, after) ==
    /\ IF after.stage = before.stage
       THEN after # before /\ after = [before EXCEPT !.observed = after.observed]
       ELSE after.stage \in Transitions[before.stage]
    /\ before.clone \in {NoConversation, after.clone}
    /\ before.observed \in {NoConversation, after.observed}
    /\ before.public => after.public

validHistory(log) ==
    /\ log # <<>>
    /\ \A i \in 1 .. Len(log) : validValue(log[i])
    /\ log[1].stage = "prepared"
    /\ \A i \in 1 .. Len(log) - 1 : validStep(log[i], log[i + 1])

=============================================================================
