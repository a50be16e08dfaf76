-------------------------- MODULE RendezvousSlots --------------------------
(***************************************************************************)
(* The slot store of the relay, realm/relay/lib/rendezvous-slots.mjs:      *)
(* short-lived values that a writer puts, one reader claims and pages      *)
(* through, and either side ends (acked, aborted).                         *)
(*                                                                         *)
(* Keys stand for the slots of one room, recipient and role, so the key is *)
(* the sender and the attempt.  The store executes one envelope at a time. *)
(* A token is identified by its place: the put on top of revision r of a   *)
(* key carries the token of revision r + 1, as every caller repeats a put  *)
(* with the bytes it first used.  Creation times are the order of creation.*)
(***************************************************************************)
EXTENDS Integers, FiniteSets

CONSTANTS
    Key,         \* slots of one room, recipient and role
    AnyKey,      \* the wildcard selector of discover
    Writer,      \* relay actors that put values
    Reader,      \* relay actors that read them
    Nobody,      \* null, as an actor
    MaxSlots,    \* maxSlots, maxSlotsPerRoom
    MaxRevision  \* 0xffffffff in the code

ASSUME KeyAssumption == IsFiniteSet(Key) /\ AnyKey \notin Key
ASSUME ActorAssumption == Nobody \notin Writer \cup Reader
ASSUME RoleAssumption == Writer \cap Reader = {}
ASSUME LimitAssumption == MaxSlots \in Nat \ {0} /\ MaxRevision \in Nat \ {0}

VARIABLES
    slots,    \* slots[k]: the slot of key k
    created   \* number of slots created so far

Actor == Writer \cup Reader

Slot == [state : {"none", "active", "acked", "aborted"},
         owner : Actor \cup {Nobody}, reader : Actor \cup {Nobody},
         leased : BOOLEAN,   \* readerSeenAt + readerLeaseMs is in the future
         revision : Nat, born : Nat]

NoSlot == [state |-> "none", owner |-> Nobody, reader |-> Nobody,
           leased |-> FALSE, revision |-> 0, born |-> 0]

Operation == {"put", "get", "discover", "ack", "abort"}

Envelope == [op : Operation, actor : Actor, key : Key \cup {AnyKey}, revision : Nat]

Kind == {"stored", "data", "empty", "not-modified", "acked", "aborted", "error"}

\* born is not on the wire: it tells apart the slots a key has had.
Response == [kind : Kind, key : Key \cup {AnyKey}, born : Nat, revision : Nat]

InitSlots ==
    /\ slots = [k \in Key |-> NoSlot]
    /\ created = 0

-----------------------------------------------------------------------------
(* put                                                                     *)

full == Cardinality({k \in Key : slots[k].state # "none"}) >= MaxSlots

newSlot(e) == [state |-> "active", owner |-> e.actor, reader |-> Nobody,
               leased |-> FALSE, revision |-> 1, born |-> created + 1]

sameToken(s, e) == s.revision = e.revision + 1

\* Mutant of mayReplace: a claimed value is replaced.
mayReplace_Claimed(s, e) == e.revision = s.revision /\ s.revision < MaxRevision

\* Another token: only on top of the current revision, and only until a reader
\* has claimed the value.
mayReplace(s, e) ==
    s.reader = Nobody /\ e.revision = s.revision /\ s.revision < MaxRevision

putKind(s, e) ==
    CASE s.state = "none" -> IF e.revision = 0 /\ ~ full THEN "stored" ELSE "error"
      [] s.state # "none" /\ s.owner # e.actor -> "error"
      [] s.state \in {"acked", "aborted"} /\ s.owner = e.actor -> s.state
      [] s.state = "active" /\ s.owner = e.actor ->
             IF sameToken(s, e) \/ mayReplace(s, e) THEN "stored" ELSE "error"

putSlot(s, e) ==
    CASE putKind(s, e) # "stored" -> s
      [] putKind(s, e) = "stored" /\ s.state = "none" -> newSlot(e)
      [] putKind(s, e) = "stored" /\ s.state # "none" ->
             [s EXCEPT !.revision = e.revision + 1]

-----------------------------------------------------------------------------
(* get and discover                                                        *)

\* Mutant of heldByOther: the lease is not looked at.
heldByOther_NoLease(s, e) == FALSE

\* Another reader has claimed the value and read it a short while ago.
heldByOther(s, e) ==
    s.reader \notin {Nobody, e.actor} /\ s.owner # e.actor /\ s.leased

readKind(s, e) ==
    CASE s.state = "none" -> "empty"
      [] s.state \in {"acked", "aborted"} -> s.state
      [] s.state = "active" ->
             IF e.revision > s.revision \/ heldByOther(s, e) THEN "error"
             ELSE IF e.revision = s.revision THEN "not-modified" ELSE "data"

\* A reader that is answered claims the value, or renews its lease.
readSlot(s, e) ==
    IF readKind(s, e) \in {"data", "not-modified"} /\ e.actor # s.owner
    THEN [s EXCEPT !.reader = e.actor, !.leased = TRUE]
    ELSE s

\* The newest active slot, one the actor has claimed before all others.
newest(S) == CHOOSE k \in S : \A j \in S : slots[j].born <= slots[k].born

discovered(e) ==
    LET candidates == {k \in Key : slots[k].state = "active"}
        claimed == {k \in candidates : slots[k].reader = e.actor}
    IN IF claimed # {} THEN newest(claimed)
       ELSE IF candidates # {} THEN newest(candidates) ELSE AnyKey

-----------------------------------------------------------------------------
(* ack and abort                                                           *)

\* Mutants of ackKind: any reader, or any revision, will do.
ackKind_AnyReader(s, e) ==
    IF s.state = "none" \/ e.revision # s.revision THEN "error"
    ELSE IF s.state = "aborted" THEN "aborted" ELSE "acked"

ackKind_AnyRevision(s, e) ==
    IF s.state = "none" \/ s.reader # e.actor THEN "error"
    ELSE IF s.state = "aborted" THEN "aborted" ELSE "acked"

\* Of the exact revision, by the reader that has claimed the value.
ackKind(s, e) ==
    IF s.state = "none" \/ s.reader # e.actor \/ e.revision # s.revision THEN "error"
    ELSE IF s.state = "aborted" THEN "aborted" ELSE "acked"

\* Mutant of abortKind: an abort ends an acknowledged value too.
abortKind_Overrides(s, e) ==
    IF s.state = "none" \/ e.actor \notin {s.owner, s.reader} \/ e.revision # s.revision
    THEN "error"
    ELSE "aborted"

abortKind(s, e) ==
    IF s.state = "none" \/ e.actor \notin {s.owner, s.reader} \/ e.revision # s.revision
    THEN "error"
    ELSE IF s.state = "acked" THEN "acked" ELSE "aborted"

\* Mutant of terminal: a refusal ends the slot too.
terminal_Refused(s, kind) == [s EXCEPT !.state = kind]

terminal(s, kind) == IF kind = "error" THEN s ELSE [s EXCEPT !.state = kind]

-----------------------------------------------------------------------------
(* execute                                                                 *)

kindOf(s, e) ==
    CASE e.op = "put" -> putKind(s, e)
      [] e.op \in {"get", "discover"} -> readKind(s, e)
      [] e.op = "ack" -> ackKind(s, e)
      [] e.op = "abort" -> abortKind(s, e)

slotAfter(s, e) ==
    CASE e.op = "put" -> putSlot(s, e)
      [] e.op \in {"get", "discover"} -> readSlot(s, e)
      [] e.op = "ack" -> terminal(s, ackKind(s, e))
      [] e.op = "abort" -> terminal(s, abortKind(s, e))

addressed(e) == IF e.op = "discover" THEN discovered(e) ELSE e.key

response(e) ==
    LET k == addressed(e)
    IN IF k \in Key
       THEN [kind |-> kindOf(slots[k], e), key |-> k,
             born |-> slotAfter(slots[k], e).born,
             revision |-> slotAfter(slots[k], e).revision]
       ELSE [kind |-> "empty", key |-> AnyKey, born |-> 0, revision |-> 0]

Execute(e) ==
    LET k == addressed(e)
    IN /\ slots' = IF k \in Key THEN [slots EXCEPT ![k] = slotAfter(@, e)] ELSE slots
       /\ created' = IF e.op = "put" /\ slots[k].state = "none" /\ putKind(slots[k], e) = "stored"
                     THEN created + 1 ELSE created

\* Time passes: the slot expires and is pruned before the next operation, or
\* the lease of its reader ends.
Expire(k) ==
    /\ slots[k].state # "none"
    /\ slots' = [slots EXCEPT ![k] = NoSlot]
    /\ UNCHANGED created

Lapse(k) ==
    /\ slots[k].state = "active" /\ slots[k].leased
    /\ slots' = [slots EXCEPT ![k].leased = FALSE]
    /\ UNCHANGED created

=============================================================================
