------------------------------ MODULE OneShot ------------------------------
(***************************************************************************)
(* What a publisher of this repository promises of the mutations it asks a *)
(* provider for: "Every mutation is attempted at most once.  The publisher *)
(* writes its intent before dispatch and never repeats an ambiguous        *)
(* mutation."  Intents are durable: none is ever taken back.               *)
(***************************************************************************)
EXTENDS Integers

CONSTANT Mutation

VARIABLES
    intended,  \* the mutations whose intent is on disk
    attempts   \* attempts[m]: how often m was asked for

vars == <<intended, attempts>>

Init ==
    /\ intended = {}
    /\ attempts = [m \in Mutation |-> 0]

Intend(m) ==
    /\ m \notin intended
    /\ intended' = intended \cup {m}
    /\ UNCHANGED attempts

Attempt(m) ==
    /\ m \in intended /\ attempts[m] = 0
    /\ attempts' = [attempts EXCEPT ![m] = 1]
    /\ UNCHANGED intended

Next == \E m \in Mutation : Intend(m) \/ Attempt(m)

Spec == Init /\ [][Next]_vars

=============================================================================
