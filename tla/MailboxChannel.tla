--------------------------- MODULE MailboxChannel ---------------------------
(***************************************************************************)
(* What the mailbox channel promises while no process dies and no state    *)
(* file is lost, whatever publishes and polls fail: in each direction the  *)
(* lines are handed over once each and in the order they were entered, an  *)
(* acknowledgement covers handed over lines only, and a line is refused    *)
(* when Window of them are unacknowledged.                                 *)
(***************************************************************************)
EXTENDS Integers, Sequences

CONSTANTS Node, Window

VARIABLES
    sent,   \* sent[n]: lines accepted from the user of n
    got,    \* got[n]: those handed to the other user, in that order
    acked   \* acked[n]: how many of them n knows were handed over

vars == <<sent, got, acked>>

Init ==
    /\ sent = [n \in Node |-> 0]
    /\ got = [n \in Node |-> <<>>]
    /\ acked = [n \in Node |-> 0]

Accept(n) ==
    /\ sent[n] - acked[n] < Window
    /\ sent' = [sent EXCEPT ![n] = @ + 1]
    /\ UNCHANGED <<got, acked>>

HandOver(n) ==
    /\ Len(got[n]) < sent[n]
    /\ got' = [got EXCEPT ![n] = Append(@, Len(@) + 1)]
    /\ UNCHANGED <<sent, acked>>

Acknowledge(n) ==
    /\ \E k \in (acked[n] + 1) .. Len(got[n]) : acked' = [acked EXCEPT ![n] = k]
    /\ UNCHANGED <<sent, got>>

Next == \E n \in Node : Accept(n) \/ HandOver(n) \/ Acknowledge(n)

Spec == Init /\ [][Next]_vars

=============================================================================
