---------------------------- MODULE Publication ----------------------------
(***************************************************************************)
(* What the receipt of a publication promises to whoever reads it for a    *)
(* seed (load_seed_binding of clawdvert/chat_seeded_receipt.py).  It says  *)
(* "published" only after the mapping was seen, and stops saying so only   *)
(* after it was seen withdrawn; in between the mapping may be gone         *)
(* already, but it never comes back.                                       *)
(***************************************************************************)
VARIABLES
    recorded,  \* the receipt says that the source is published
    public     \* the mapping: "none", "active" or "deleted"

Init == recorded = FALSE /\ public = "none"

Publish == public = "none" /\ public' = "active" /\ UNCHANGED recorded

Record == ~ recorded /\ public = "active" /\ recorded' = TRUE /\ UNCHANGED public

Withdraw == public = "active" /\ public' = "deleted" /\ UNCHANGED recorded

Strike == recorded /\ public = "deleted" /\ recorded' = FALSE /\ UNCHANGED public

Spec == Init /\ [][Publish \/ Record \/ Withdraw \/ Strike]_<<recorded, public>>

=============================================================================
