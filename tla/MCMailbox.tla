----------------------------- MODULE MCMailbox -----------------------------
(* Instances of Mailbox for TLC.                                           *)
EXTENDS Mailbox, TLC

CONSTANTS hostA, hostB

Nobody == hostA :> 0 @@ hostB :> 0
OnlyA == hostA :> 1 @@ hostB :> 0
OnlyB == hostA :> 0 @@ hostB :> 1
TwoOfA == hostA :> 2 @@ hostB :> 0
FiveOfA == hostA :> 5 @@ hostB :> 0

=============================================================================
