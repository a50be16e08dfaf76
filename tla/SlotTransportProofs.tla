------------------------ MODULE SlotTransportProofs ------------------------
(***************************************************************************)
(* Proofs about SlotTransport for any number of slots, actors, lanes and   *)
(* chunks: its type invariant, that a reader never mixes two revisions of  *)
(* a slot, that what is acknowledged was read and verified, that all hear  *)
(* of one end, and that readers take turns.                                *)
(***************************************************************************)
EXTENDS SlotTransport, FiniteSetTheorems, TLAPS

-----------------------------------------------------------------------------
(* What one operation does to one slot.                                    *)

\* The kinds of answer of each operation.
LEMMA KindFacts ==
    ASSUME NEW s \in Slot, NEW e \in Envelope
    PROVE  /\ putKind(s, e) \in {"stored", "acked", "aborted", "error"}
           /\ readKind(s, e) \in {"data", "not-modified", "empty", "acked", "aborted", "error"}
           /\ ackKind(s, e) \in {"acked", "aborted", "error"}
           /\ abortKind(s, e) \in {"acked", "aborted", "error"}
           /\ kindOf(s, e) \in Kind
<1>1. s.state \in {"none", "active", "acked", "aborted"}
  BY DEF Slot
<1>2. e.op \in Operation
  BY DEF Envelope
<1>3. putKind(s, e) \in {"stored", "acked", "aborted", "error"}
  BY <1>1 DEF putKind
<1>4. readKind(s, e) \in {"data", "not-modified", "empty", "acked", "aborted", "error"}
  BY <1>1 DEF readKind
<1>5. ackKind(s, e) \in {"acked", "aborted", "error"} /\ abortKind(s, e) \in {"acked", "aborted", "error"}
  BY DEF ackKind, abortKind
<1>6. kindOf(s, e) \in Kind
  BY <1>2, <1>3, <1>4, <1>5 DEF kindOf, Operation, Kind
<1> QED
  BY <1>3, <1>4, <1>5, <1>6

\* Only a put makes a slot; a slot keeps its birth and its owner; one that is
\* claimed stays claimed and keeps its revision; one that has ended stays so.
LEMMA SlotStep ==
    ASSUME NEW s \in Slot, NEW e \in Envelope, created \in Nat
    PROVE  LET t == slotAfter(s, e)
           IN /\ t \in Slot
              /\ s.state = "none" => t = s \/ (e.op = "put" /\ putKind(s, e) = "stored" /\ t = newSlot(e))
              /\ s.state # "none" => /\ t.state # "none" /\ t.born = s.born /\ t.owner = s.owner
                                     /\ s.reader # Nobody =>
                                           t.reader # Nobody /\ t.revision = s.revision
              /\ s.state \in {"acked", "aborted"} => t = s
<1> DEFINE t == slotAfter(s, e)
<1>1. /\ s.state \in {"none", "active", "acked", "aborted"} /\ s.revision \in Nat /\ s.born \in Nat
      /\ s.owner \in Actor \cup {Nobody} /\ s.reader \in Actor \cup {Nobody} /\ s.leased \in BOOLEAN
  BY DEF Slot
<1>2. e.op \in Operation /\ e.actor \in Actor /\ e.revision \in Nat
  BY DEF Envelope
<1>3. Nobody \notin Actor
  BY ActorAssumption DEF Actor
<1>4. CASE e.op = "put"
  <2>1. t = putSlot(s, e)
    BY <1>4 DEF slotAfter
  <2>2. CASE putKind(s, e) # "stored"
    <3>1. t = s
      BY <2>1, <2>2 DEF putSlot
    <3> QED
      BY <3>1, <1>1
  <2>3. CASE putKind(s, e) = "stored" /\ s.state = "none"
    <3>1. t = newSlot(e)
      BY <2>1, <2>3 DEF putSlot
    <3>2. newSlot(e) \in Slot
      BY <1>2 DEF newSlot, Slot
    <3> QED
      BY <3>1, <3>2, <2>3, <1>4
  <2>4. CASE putKind(s, e) = "stored" /\ s.state # "none"
    <3>1. t = [s EXCEPT !.revision = e.revision + 1]
      BY <2>1, <2>4 DEF putSlot
    <3>2. sameToken(s, e) \/ mayReplace(s, e)
      BY <2>4, <1>1 DEF putKind
    <3>3. s.reader # Nobody => e.revision + 1 = s.revision
      BY <3>2 DEF sameToken, mayReplace
    <3>4. s.state = "active"
      BY <2>4, <1>1 DEF putKind
    <3>5. t \in Slot
      BY <3>1, <1>2 DEF Slot
    <3> QED
      BY <3>1, <3>3, <3>4, <3>5, <1>1, <1>2 DEF Slot
  <2> QED
    BY <2>2, <2>3, <2>4
<1>5. CASE e.op \in {"get", "discover"}
  <2>1. t = readSlot(s, e)
    BY <1>5 DEF slotAfter
  <2>2. CASE readKind(s, e) \in {"data", "not-modified"} /\ e.actor # s.owner
    <3>1. t = [s EXCEPT !.reader = e.actor, !.leased = TRUE]
      BY <2>1, <2>2 DEF readSlot
    <3>2. s.state = "active"
      BY <2>2, <1>1 DEF readKind
    <3>3. t \in Slot
      BY <3>1, <1>2 DEF Slot
    <3> QED
      BY <3>1, <3>2, <3>3, <1>1, <1>2, <1>3 DEF Slot
  <2>3. CASE ~ (readKind(s, e) \in {"data", "not-modified"} /\ e.actor # s.owner)
    <3>1. t = s
      BY <2>1, <2>3 DEF readSlot
    <3> QED
      BY <3>1, <1>1
  <2> QED
    BY <2>2, <2>3
<1>6. CASE e.op \in {"ack", "abort"}
  <2>1. PICK kind \in {"acked", "aborted", "error"} :
             /\ t = terminal(s, kind)
             /\ s.state \in {"acked", "aborted"} /\ kind # "error" => kind = s.state
             /\ s.state = "none" => kind = "error"
    <3>1. CASE e.op = "ack"
      BY <3>1, <1>1, KindFacts DEF slotAfter, ackKind
    <3>2. CASE e.op = "abort"
      BY <3>2, <1>1, KindFacts DEF slotAfter, abortKind
    <3> QED
      BY <3>1, <3>2, <1>6
  <2>2. CASE kind = "error"
    <3>1. t = s
      BY <2>1, <2>2 DEF terminal
    <3> QED
      BY <3>1, <1>1
  <2>3. CASE kind # "error"
    <3>1. t = [s EXCEPT !.state = kind]
      BY <2>1, <2>3 DEF terminal
    <3>2. t \in Slot
      BY <3>1, <2>1, <2>3 DEF Slot
    <3>3. s.state \in {"acked", "aborted"} => t = s
      BY <3>1, <2>1, <2>3 DEF Slot
    <3> QED
      BY <3>1, <3>2, <3>3, <2>1, <2>3, <1>1 DEF Slot
  <2> QED
    BY <2>2, <2>3
<1> QED
  BY <1>2, <1>4, <1>5, <1>6 DEF Operation

-----------------------------------------------------------------------------
(* Type correctness.                                                       *)

\* Every envelope that can still be executed.
Envelopes == {call[a].env : a \in Actor} \cup strays

\* Only discover leaves the key open, and only writers put.
EnvOK(e) ==
    /\ e.op # "discover" => e.key \in Key
    /\ e.op = "put" => e.actor \in Writer

CallsOK ==
    /\ \A a \in Actor : call[a].env.actor = a
    /\ \A e \in Envelopes : EnvOK(e)
    /\ \A a \in Actor, l \in Lane : call[a].got[l].kind = "data" => call[a].got[l].key \in Key

TypeInv == TypeOK /\ CallsOK

\* What Execute does to the store.
LEMMA ExecuteFacts ==
    ASSUME slots \in [Key -> Slot], created \in Nat, NEW e \in Envelope, Execute(e)
    PROVE  /\ slots' \in [Key -> Slot]
           /\ created' \in {created, created + 1}
           /\ \A k \in Key : \/ slots'[k] = slots[k]
                             \/ k = addressed(e) /\ slots'[k] = slotAfter(slots[k], e)
           /\ \A k \in Key : slots'[k] # slots[k] /\ slots[k].state = "none"
                                => slots'[k] = newSlot(e) /\ created' = created + 1
           /\ response(e) \in Response
           /\ response(e).kind = "data" => response(e).key \in Key
<1> DEFINE k0 == addressed(e)
<1>1. \A k \in Key : \/ slots'[k] = slots[k]
                     \/ k = k0 /\ slots'[k] = slotAfter(slots[k], e)
  BY DEF Execute
<1>2. \A k \in Key : slotAfter(slots[k], e) \in Slot
  BY SlotStep
<1>3. slots' \in [Key -> Slot]
  BY <1>2 DEF Execute
<1>4. created' \in {created, created + 1}
  BY DEF Execute
<1>5. ASSUME NEW k \in Key, slots'[k] # slots[k], slots[k].state = "none"
      PROVE  slots'[k] = newSlot(e) /\ created' = created + 1
  <2>1. k = k0 /\ slots'[k] = slotAfter(slots[k], e)
    BY <1>1, <1>5
  <2>2. e.op = "put" /\ putKind(slots[k], e) = "stored" /\ slots'[k] = newSlot(e)
    BY <2>1, <1>5, SlotStep
  <2>3. k = addressed(e)
    BY <2>1
  <2> QED
    BY <2>2, <2>3, <1>5 DEF Execute
<1>6. CASE k0 \in Key
  <2>1. slotAfter(slots[k0], e).born \in Nat /\ slotAfter(slots[k0], e).revision \in Nat
    BY <1>2, <1>6 DEF Slot
  <2>2. kindOf(slots[k0], e) \in Kind
    BY <1>6, KindFacts
  <2>3. response(e) = [kind |-> kindOf(slots[k0], e), key |-> k0,
                       born |-> slotAfter(slots[k0], e).born,
                       revision |-> slotAfter(slots[k0], e).revision]
    BY <1>6 DEF response
  <2>4. response(e) \in Response /\ response(e).key \in Key
    BY <2>1, <2>2, <2>3, <1>6 DEF Response
  <2> QED
    BY <1>1, <1>3, <1>4, <1>5, <2>4
<1>7. CASE k0 \notin Key
  <2>1. response(e) = [kind |-> "empty", key |-> AnyKey, born |-> 0, revision |-> 0]
    BY <1>7 DEF response
  <2>2. response(e) \in Response /\ response(e).kind # "data"
    BY <2>1 DEF Response, Kind
  <2> QED
    BY <1>1, <1>3, <1>4, <1>5, <2>2
<1> QED
  BY <1>6, <1>7

\* The fields of a call, and the updates the actions make.
LEMMA CallFacts ==
    /\ NoResponse \in Response
    /\ \A e \in Envelope : started(e) \in Call
    /\ \A a \in Actor : idle(a) \in Call /\ idle(a).env.actor = a /\ EnvOK(idle(a).env)
    /\ \A a \in Actor : idle(a).got = [l \in Lane |-> NoResponse]
<1>1. NoResponse \in Response
  BY DEF NoResponse, Response, Kind
<1>2. ASSUME NEW e \in Envelope PROVE started(e) \in Call
  BY <1>1, <1>2 DEF started, Call
<1>3. ASSUME NEW a \in Actor
      PROVE  /\ idle(a) \in Call /\ idle(a).env.actor = a /\ EnvOK(idle(a).env)
             /\ idle(a).got = [l \in Lane |-> NoResponse]
  <2> DEFINE e == [op |-> "discover", actor |-> a, key |-> AnyKey, revision |-> 0]
  <2>1. e \in Envelope
    BY DEF Envelope, Operation
  <2>2. idle(a) = [started(e) EXCEPT !.busy = FALSE]
    BY DEF idle
  <2>3. idle(a) = [busy |-> FALSE, env |-> e, page |-> 0, done |-> {},
                   got |-> [l \in Lane |-> NoResponse], head |-> {}, all |-> {}]
    BY <2>2 DEF started
  <2>4. idle(a) \in Call
    <3> HIDE DEF e
    <3> QED
      BY <2>1, <2>3, <1>1 DEF Call
  <2>5. idle(a).env = e /\ idle(a).got = [l \in Lane |-> NoResponse]
    BY <2>3
  <2> QED
    BY <2>4, <2>5 DEF EnvOK
<1> QED
  BY <1>1, <1>2, <1>3

LEMMA InitType == Init => TypeInv
<1> SUFFICES ASSUME Init PROVE TypeInv
  OBVIOUS
<1> USE DEF Init
<1>1. slots \in [Key -> Slot] /\ created \in Nat
  BY DEF InitSlots, NoSlot, Slot
<1>2. call \in [Actor -> Call]
  BY CallFacts
<1>3. TypeOK
  BY <1>1, <1>2 DEF TypeOK
<1>4. CallsOK
  BY CallFacts DEF CallsOK, Envelopes, NoResponse
<1> QED
  BY <1>3, <1>4 DEF TypeInv

\* A step replaces one call by a good one and leaves the rest of its actor's
\* requests in the network at most.
LEMMA CallStep ==
    ASSUME TypeInv, NEW a \in Actor, NEW c \in Call,
           c.env.actor = a, EnvOK(c.env),
           \A l \in Lane : c.got[l].kind = "data" => c.got[l].key \in Key,
           call' = [call EXCEPT ![a] = c],
           strays' \subseteq strays \cup {call[a].env}
    PROVE  call' \in [Actor -> Call] /\ strays' \subseteq Envelope /\ CallsOK'
<1> USE DEF TypeInv
<1>1. call \in [Actor -> Call] /\ strays \subseteq Envelope
  BY DEF TypeOK
<1>2. call' \in [Actor -> Call]
  BY <1>1
<1>3. call[a].env \in Envelope
  BY <1>1 DEF Call
<1>4. strays' \subseteq Envelope
  BY <1>1, <1>3
<1>5. \A b \in Actor : call'[b] = IF b = a THEN c ELSE call[b]
  BY <1>1
<1>6. \A b \in Actor : call'[b].env.actor = b
  BY <1>5 DEF CallsOK
<1>7. Envelopes' \subseteq Envelopes \cup {c.env}
  BY <1>5 DEF Envelopes
<1>8. \A e \in Envelopes' : EnvOK(e)
  BY <1>7 DEF CallsOK
<1>9. \A b \in Actor, l \in Lane : call'[b].got[l].kind = "data" => call'[b].got[l].key \in Key
  BY <1>5 DEF CallsOK
<1> QED
  BY <1>2, <1>4, <1>6, <1>8, <1>9 DEF CallsOK

\* A call that ends.
LEMMA FinishStep ==
    ASSUME TypeInv, NEW a \in Actor, call' = [call EXCEPT ![a] = idle(a)],
           strays' \subseteq strays \cup {call[a].env}
    PROVE  call' \in [Actor -> Call] /\ strays' \subseteq Envelope /\ CallsOK'
<1>1. \A l \in Lane : idle(a).got[l].kind # "data"
  BY CallFacts DEF NoResponse
<1> QED
  BY <1>1, CallFacts, CallStep

LEMMA BeginType ==
    ASSUME TypeInv, NEW a \in Actor, NEW op \in Operation, NEW k \in Key \cup {AnyKey},
           NEW r \in Nat, Begin(a, op, k, r),
           op # "discover" => k \in Key, op = "put" => a \in Writer
    PROVE  TypeInv'
<1> DEFINE e == [op |-> op, actor |-> a, key |-> k, revision |-> r]
           c == started(e)
<1>1. e \in Envelope
  BY DEF Envelope
<1>2. c \in Call
  BY <1>1, CallFacts
<1>3. c.env = e /\ c.got = [l \in Lane |-> NoResponse]
  BY DEF started
<1>4. c.env.actor = a /\ EnvOK(c.env)
  BY <1>3 DEF EnvOK
<1>5. \A l \in Lane : c.got[l].kind # "data"
  BY <1>3 DEF NoResponse
<1>6. call' = [call EXCEPT ![a] = c] /\ strays' = strays
  BY DEF Begin
<1> HIDE DEF c
<1>7. call' \in [Actor -> Call] /\ strays' \subseteq Envelope /\ CallsOK'
  BY <1>2, <1>4, <1>5, <1>6, CallStep
<1>8. TypeOK'
  BY <1>7 DEF TypeInv, TypeOK, Begin, faults
<1> QED
  BY <1>7, <1>8 DEF TypeInv

\* The calls stay, and no request is added to the network.
LEMMA SameCalls ==
    ASSUME TypeInv, call' = call, strays' \subseteq strays
    PROVE  call' \in [Actor -> Call] /\ strays' \subseteq Envelope /\ CallsOK'
BY DEF TypeInv, TypeOK, CallsOK, Envelopes

\* A pending request is an envelope that may be executed.
LEMMA PendingFacts ==
    ASSUME TypeInv
    PROVE  /\ slots \in [Key -> Slot] /\ created \in Nat
           /\ \A a \in Actor : call[a] \in Call /\ call[a].env \in Envelope /\ call[a].env.actor = a
           /\ \A e \in Envelopes : e \in Envelope /\ EnvOK(e)
<1>1. call \in [Actor -> Call] /\ strays \subseteq Envelope
  BY DEF TypeInv, TypeOK
<1>2. \A a \in Actor : call[a] \in Call /\ call[a].env \in Envelope
  BY <1>1 DEF Call
<1>3. \A a \in Actor : call[a].env.actor = a
  BY DEF TypeInv, CallsOK
<1>4. \A e \in Envelopes : e \in Envelope /\ EnvOK(e)
  BY <1>1, <1>2 DEF TypeInv, CallsOK, Envelopes
<1> QED
  BY <1>2, <1>3, <1>4 DEF TypeInv, TypeOK

\* What the chunks of a page add to a read.
LEMMA JoinedFacts ==
    ASSUME NEW c \in Call, kinds(c) = {"data"},
           \A l \in Lane : c.got[l].kind = "data" => c.got[l].key \in Key
    PROVE  /\ \A l \in Lane : c.got[l].kind = "data" /\ source(c.got[l]) \in Source
           /\ \A first, end : sources(c, first, end) \subseteq {source(c.got[l]) : l \in Lane}
           /\ joined(c) \in Call
           /\ joined(c).env = c.env
           /\ joined(c).head \subseteq Source /\ joined(c).all \subseteq Source
           /\ joined(c).all \subseteq c.all \cup {source(c.got[l]) : l \in Lane}
           /\ joined(c).head \subseteq c.head \cup {source(c.got[l]) : l \in Lane}
<1>1. \A l \in Lane : c.got[l].kind = "data"
  BY DEF kinds
<1>2. \A l \in Lane : c.got[l] \in Response
  BY DEF Call
<1>3. \A l \in Lane : source(c.got[l]) \in Source
  BY <1>1, <1>2 DEF source, Source, Response
<1>4. \A first, end : sources(c, first, end) \subseteq {source(c.got[l]) : l \in Lane}
  BY DEF sources
<1> DEFINE H == c.head \cup sources(c, RouteChunks, HeaderChunks)
           A == c.all \cup sources(c, RouteChunks, Chunks)
<1>5. H \subseteq Source /\ A \subseteq Source
  BY <1>3, <1>4 DEF Call
<1>6. joined(c) = [c EXCEPT !.head = H, !.all = A]
  BY DEF joined
<1> HIDE DEF H, A
<1>7. joined(c) \in Call /\ joined(c).env = c.env /\ joined(c).head = H /\ joined(c).all = A
  BY <1>5, <1>6 DEF Call
<1>8. H \subseteq c.head \cup {source(c.got[l]) : l \in Lane}
  BY <1>4 DEF H
<1>9. A \subseteq c.all \cup {source(c.got[l]) : l \in Lane}
  BY <1>4 DEF A
<1> QED
  BY <1>1, <1>3, <1>4, <1>5, <1>7, <1>8, <1>9

LEMMA LaneType ==
    ASSUME TypeInv, NEW a \in Actor, NEW l \in Lane, LaneExecuted(a, l)
    PROVE  TypeInv'
<1> DEFINE e == call[a].env
           c == [call[a] EXCEPT !.done = @ \cup {l}, !.got[l] = response(e)]
<1>1. call[a] \in Call /\ e \in Envelope /\ e.actor = a /\ e \in Envelopes
  BY PendingFacts DEF Envelopes
<1>2. Execute(e)
  BY DEF LaneExecuted
<1>3. slots \in [Key -> Slot] /\ created \in Nat
  BY PendingFacts
<1>4. /\ slots' \in [Key -> Slot] /\ created' \in {created, created + 1}
      /\ response(e) \in Response /\ (response(e).kind = "data" => response(e).key \in Key)
  <2> HIDE DEF e
  <2> QED
    BY <1>1, <1>2, <1>3, ExecuteFacts
<1>5. call' = [call EXCEPT ![a] = c] /\ strays' = strays
  <2>1. call \in [Actor -> Call]
    BY DEF TypeInv, TypeOK
  <2>2. call' = [call EXCEPT ![a].done = @ \cup {l}, ![a].got[l] = response(call[a].env)]
        /\ strays' = strays
    BY DEF LaneExecuted
  <2> DEFINE r == response(call[a].env)
  <2>3. call' = [call EXCEPT ![a].done = @ \cup {l}, ![a].got[l] = r]
    BY <2>2
  <2> HIDE DEF r
  <2>4. call' = [call EXCEPT ![a] = [call[a] EXCEPT !.done = @ \cup {l}, !.got[l] = r]]
    BY <2>1, <2>3, <1>1 DEF Call
  <2> QED
    BY <2>2, <2>4 DEF r
<1> HIDE DEF e
<1>6. c \in Call /\ c.env = call[a].env
      /\ c.got = [call[a].got EXCEPT ![l] = response(e)]
  BY <1>1, <1>4 DEF Call
<1>7. \A m \in Lane : c.got[m].kind = "data" => c.got[m].key \in Key
  <2>1. call[a].got \in [Lane -> Response]
    BY <1>1 DEF Call
  <2>2. \A m \in Lane : call[a].got[m].kind = "data" => call[a].got[m].key \in Key
    BY DEF TypeInv, CallsOK
  <2> QED
    BY <1>4, <1>6, <2>1, <2>2
<1>8. EnvOK(c.env) /\ c.env.actor = a
  BY <1>1, <1>6, PendingFacts DEF e
<1>9. call' \in [Actor -> Call] /\ strays' \subseteq Envelope /\ CallsOK'
  <2> HIDE DEF c
  <2> QED
    BY <1>5, <1>6, <1>7, <1>8, CallStep
<1>10. TypeOK'
  BY <1>3, <1>4, <1>9 DEF TypeInv, TypeOK, LaneExecuted, faults
<1> QED
  BY <1>9, <1>10 DEF TypeInv

\* A lane that nobody reads the answer of.
LEMMA UnreadType ==
    ASSUME TypeInv, NEW e \in Envelopes, Execute(e), call' = call, strays' \subseteq strays,
           receipts' = receipts, tokens' = tokens, outcomes' = outcomes, calls' = calls,
           timeouts' = timeouts, repeats' \in Nat, lapses' = lapses, expiries' = expiries
    PROVE  TypeInv'
<1>1. e \in Envelope /\ slots \in [Key -> Slot] /\ created \in Nat
  BY PendingFacts
<1>2. slots' \in [Key -> Slot] /\ created' \in Nat
  <2>1. slots' \in [Key -> Slot] /\ created' \in {created, created + 1}
    BY <1>1, ExecuteFacts
  <2> QED
    BY <1>1, <2>1
<1>3. call' \in [Actor -> Call] /\ strays' \subseteq Envelope /\ CallsOK'
  BY SameCalls
<1> QED
  BY <1>2, <1>3 DEF TypeInv, TypeOK

LEMMA PutStoredType == ASSUME TypeInv, NEW a \in Actor, PutStored(a) PROVE TypeInv'
<1>1. call' \in [Actor -> Call] /\ strays' \subseteq Envelope /\ CallsOK'
  BY FinishStep DEF PutStored, Finish, Answered
<1>2. call[a] \in Call /\ call[a].env.key \in Key
  BY PendingFacts DEF PutStored, Answered, Envelopes, EnvOK
<1>3. call[a].got[0].revision \in Nat
  BY <1>2, LaneAssumption DEF Call, Response, Lane
<1>4. receipts' \in [Actor -> SUBSET Receipt]
  <2> DEFINE rc == [key |-> call[a].env.key, revision |-> call[a].got[0].revision,
                    verified |-> TRUE]
  <2>1. rc \in Receipt
    BY <1>2, <1>3 DEF Receipt
  <2>2. receipts' = receipts \/ receipts' = [receipts EXCEPT ![a] = @ \cup {rc}]
    BY DEF PutStored
  <2> HIDE DEF rc
  <2> QED
    BY <2>1, <2>2 DEF TypeInv, TypeOK
<1>5. TypeOK'
  BY <1>1, <1>4 DEF TypeInv, TypeOK, PutStored, Answered, faults
<1> QED
  BY <1>1, <1>5 DEF TypeInv

LEMMA EndedType == ASSUME TypeInv, NEW a \in Actor, Ended(a) PROVE TypeInv'
<1>1. call' \in [Actor -> Call] /\ strays' \subseteq Envelope /\ CallsOK'
  BY FinishStep DEF Ended, Finish, Answered
<1>2. call[a] \in Call
  BY PendingFacts
<1>3. \A l \in Lane : call[a].got[l].born \in Nat /\ call[a].got[l].kind \in {"acked", "aborted"}
  <2>1. \A l \in Lane : call[a].got[l].born \in Nat
    BY <1>2 DEF Call, Response
  <2>2. kinds(call[a]) \in {{"acked"}, {"aborted"}}
    BY DEF Ended, ended
  <2> QED
    BY <2>1, <2>2 DEF kinds
<1>4. outcomes' \subseteq Outcome
  BY <1>3 DEF TypeInv, TypeOK, Ended, Outcome
<1>5. TypeOK'
  BY <1>1, <1>4 DEF TypeInv, TypeOK, Ended, Answered, faults
<1> QED
  BY <1>1, <1>5 DEF TypeInv

LEMMA NextPageType == ASSUME TypeInv, NEW a \in Actor, NextPage(a) PROVE TypeInv'
<1> DEFINE j == joined(call[a])
           none == [l \in Lane |-> NoResponse]
           c == [j EXCEPT !.page = @ + 1, !.done = {}, !.got = none]
<1>1. call[a] \in Call /\ call[a].env.actor = a /\ EnvOK(call[a].env)
  BY PendingFacts DEF Envelopes
<1>2. j \in Call /\ j.env = call[a].env
  BY <1>1, JoinedFacts DEF TypeInv, CallsOK, NextPage
<1>3. none \in [Lane -> Response]
  BY CallFacts
<1>4. call' = [call EXCEPT ![a] = c] /\ strays' = strays
  BY DEF NextPage, Answered
<1> HIDE DEF j, none
<1>5. c \in Call /\ c.env = call[a].env /\ c.got = none
  <2>1. j.page + 1 \in Nat
    BY <1>2 DEF Call
  <2> QED
    BY <1>2, <1>3, <2>1 DEF Call
<1>6. \A l \in Lane : c.got[l].kind # "data"
  BY <1>5 DEF none, NoResponse
<1> HIDE DEF c
<1>7. call' \in [Actor -> Call] /\ strays' \subseteq Envelope /\ CallsOK'
  BY <1>1, <1>4, <1>5, <1>6, CallStep
<1>8. TypeOK'
  BY <1>7 DEF TypeInv, TypeOK, NextPage, Answered, faults
<1> QED
  BY <1>7, <1>8 DEF TypeInv

LEMMA ReadDoneType == ASSUME TypeInv, NEW a \in Actor, ReadDone(a) PROVE TypeInv'
<1> DEFINE c == joined(call[a])
           new == {[key |-> s.key, revision |-> s.revision, verified |-> c.all = {s}] :
                      s \in {x \in c.head : c.head = {x}}}
<1>1. call' \in [Actor -> Call] /\ strays' \subseteq Envelope /\ CallsOK'
  BY FinishStep DEF ReadDone, Finish, Answered
<1>2. c.head \subseteq Source /\ c.all \subseteq Source
  BY PendingFacts, JoinedFacts DEF TypeInv, CallsOK, ReadDone
<1>3. /\ tokens' = [tokens EXCEPT ![a] = @ \cup {c.all}]
      /\ receipts' = [receipts EXCEPT ![a] = @ \cup new]
  BY DEF ReadDone
<1> HIDE DEF c
<1>4. new \subseteq Receipt
  <2> SUFFICES ASSUME NEW s \in c.head
               PROVE  [key |-> s.key, revision |-> s.revision, verified |-> c.all = {s}] \in Receipt
    BY DEF new
  <2>1. s.key \in Key /\ s.revision \in Nat
    BY <1>2 DEF Source
  <2>2. (c.all = {s}) \in BOOLEAN
    OBVIOUS
  <2> QED
    BY <2>1, <2>2 DEF Receipt
<1> HIDE DEF new
<1>5. receipts' \in [Actor -> SUBSET Receipt] /\ tokens' \in [Actor -> SUBSET SUBSET Source]
  BY <1>2, <1>3, <1>4 DEF TypeInv, TypeOK
<1>6. TypeOK'
  BY <1>1, <1>5 DEF TypeInv, TypeOK, ReadDone, Answered, faults
<1> QED
  BY <1>1, <1>6 DEF TypeInv

LEMMA SlotTimeType ==
    ASSUME TypeInv, NEW k \in Key, SlotExpires(k) \/ LeaseLapses(k)
    PROVE  TypeInv'
<1>1. /\ slots \in [Key -> Slot] /\ created' = created
      /\ timeouts' = timeouts /\ repeats' = repeats /\ lapses' \in Nat /\ expiries' \in Nat
  BY DEF TypeInv, TypeOK, SlotExpires, LeaseLapses, Expire, Lapse
<1>2. slots' \in [Key -> Slot]
  <2>1. NoSlot \in Slot
    BY DEF NoSlot, Slot
  <2>2. CASE SlotExpires(k)
    BY <1>1, <2>1, <2>2 DEF SlotExpires, Expire
  <2>3. CASE LeaseLapses(k)
    <3>1. slots' = [slots EXCEPT ![k] = [slots[k] EXCEPT !.leased = FALSE]]
      BY <1>1, <2>3 DEF LeaseLapses, Lapse
    <3>2. [slots[k] EXCEPT !.leased = FALSE] \in Slot
      BY <1>1 DEF Slot
    <3> QED
      BY <1>1, <3>1, <3>2
  <2> QED
    BY <2>2, <2>3
<1>3. call' = call /\ strays' = strays /\ UNCHANGED <<receipts, tokens, outcomes, calls>>
  BY DEF SlotExpires, LeaseLapses, clients
<1>4. call' \in [Actor -> Call] /\ strays' \subseteq Envelope /\ CallsOK'
  BY <1>3, SameCalls
<1> QED
  BY <1>1, <1>2, <1>3, <1>4 DEF TypeInv, TypeOK

LEMMA NextType == TypeInv /\ [Next]_vars => TypeInv'
<1> SUFFICES ASSUME TypeInv, [Next]_vars PROVE TypeInv'
  OBVIOUS
<1> USE DEF TypeInv
<1>0. /\ slots \in [Key -> Slot] /\ created \in Nat /\ call \in [Actor -> Call]
      /\ \A a \in Actor : \A rc \in receipts[a] : rc.key \in Key /\ rc.revision \in Nat
  BY DEF TypeOK, Receipt
<1>1. ASSUME NEW w \in Writer, NEW k \in Key, Put(w, k) PROVE TypeInv'
  <2>1. PICK r \in {0} \cup known(w, k) : Begin(w, "put", k, r)
    BY <1>1 DEF Put
  <2>2. w \in Actor /\ r \in Nat
    BY <1>0 DEF known, Actor
  <2> QED
    BY <2>1, <2>2, BeginType DEF Operation
<1>2. ASSUME NEW a \in Reader, NEW k \in Key, Get(a, k) PROVE TypeInv'
  BY <1>2, BeginType DEF Get, Operation, Actor
<1>3. ASSUME NEW a \in Reader, Discover(a) PROVE TypeInv'
  BY <1>3, BeginType DEF Discover, Operation, Actor
<1>4. ASSUME NEW a \in Reader, Ack(a) PROVE TypeInv'
  <2>1. PICK rc \in receipts[a] : Begin(a, "ack", rc.key, rc.revision)
    BY <1>4 DEF Ack
  <2> QED
    BY <1>0, <2>1, BeginType DEF Operation, Actor
<1>5. ASSUME NEW a \in Actor, Abort(a) PROVE TypeInv'
  <2>1. PICK rc \in receipts[a] : Begin(a, "abort", rc.key, rc.revision)
    BY <1>5 DEF Abort
  <2> QED
    BY <1>0, <2>1, BeginType DEF Operation
<1>6. ASSUME NEW a \in Actor, NEW l \in Lane, LaneExecuted(a, l) PROVE TypeInv'
  BY <1>6, LaneType
<1>7. ASSUME NEW a \in Actor, LaneRepeats(a) PROVE TypeInv'
  BY <1>7, UnreadType DEF LaneRepeats, clients, Envelopes, TypeOK
<1>8. ASSUME NEW a \in Actor, TimeOut(a) PROVE TypeInv'
  <2>1. call' \in [Actor -> Call] /\ strays' \subseteq Envelope /\ CallsOK'
    BY <1>8, FinishStep DEF TimeOut
  <2> QED
    BY <1>8, <2>1 DEF TimeOut, TypeOK
<1>9. ASSUME NEW e \in strays, StrayExecuted(e) PROVE TypeInv'
  BY <1>9, UnreadType DEF StrayExecuted, faults, Envelopes, TypeOK
<1>10. ASSUME NEW a \in Actor, CallFails(a) PROVE TypeInv'
  <2>1. call' \in [Actor -> Call] /\ strays' \subseteq Envelope /\ CallsOK'
    BY <1>10, FinishStep DEF CallFails, Finish, Answered
  <2> QED
    BY <1>10, <2>1 DEF CallFails, Answered, faults, TypeOK
<1>11. CASE UNCHANGED vars
  <2>1. call' \in [Actor -> Call] /\ strays' \subseteq Envelope /\ CallsOK'
    BY <1>11, SameCalls DEF vars, clients
  <2> QED
    BY <1>11, <2>1 DEF vars, clients, faults, TypeOK
<1> HIDE DEF TypeInv
<1> QED
  BY <1>1, <1>2, <1>3, <1>4, <1>5, <1>6, <1>7, <1>8, <1>9, <1>10, <1>11, PutStoredType,
     EndedType, NextPageType, ReadDoneType, SlotTimeType DEF Next, Client

\* Slots, calls, receipts, tokens and requests in the network always hold what
\* the code puts there: TypeOK, and every request is one a client can make.
THEOREM TypeCorrect == Spec => []TypeOK
<1>1. TypeInv => TypeOK
  BY DEF TypeInv
<1> QED
  BY <1>1, InitType, NextType, PTL DEF Spec

-----------------------------------------------------------------------------
(* An acknowledged value was read.                                         *)

\* A request to acknowledge is backed by a verified receipt of its sender.
AcksBacked ==
    \A e \in Envelopes : e.op = "ack" =>
        /\ e.actor \in Reader
        /\ [key |-> e.key, revision |-> e.revision, verified |-> TRUE] \in receipts[e.actor]

AckInv == AcksBacked /\ AckedWasRead

\* A slot becomes acked by an ack of its reader, for its revision.
LEMMA AckStep ==
    ASSUME NEW s \in Slot, NEW e \in Envelope, created \in Nat
    PROVE  LET t == slotAfter(s, e)
           IN t.state = "acked" =>
                \/ t = s
                \/ /\ e.op = "ack" /\ s.reader = e.actor /\ s.revision = e.revision
                   /\ t.reader = s.reader /\ t.revision = s.revision
<1> DEFINE t == slotAfter(s, e)
<1> SUFFICES ASSUME t.state = "acked", s.state # "acked"
             PROVE  /\ e.op = "ack" /\ s.reader = e.actor /\ s.revision = e.revision
                    /\ t.reader = s.reader /\ t.revision = s.revision
  BY SlotStep
<1>1. e.op \in Operation
  BY DEF Envelope
<1>2. s.state \in {"none", "active", "aborted"}
  BY DEF Slot
<1>3. CASE e.op = "put"
  <2> DEFINE u == [s EXCEPT !.revision = e.revision + 1]
  <2>1. t \in {s, newSlot(e), u}
    BY <1>3, KindFacts DEF slotAfter, putSlot
  <2>2. u.state = s.state /\ newSlot(e).state = "active"
    BY DEF Slot, newSlot
  <2> HIDE DEF u, t
  <2> QED
    BY <1>2, <2>1, <2>2
<1>4. CASE e.op \in {"get", "discover"}
  <2>1. t \in {s, [s EXCEPT !.reader = e.actor, !.leased = TRUE]}
    BY <1>4 DEF slotAfter, readSlot
  <2>2. [s EXCEPT !.reader = e.actor, !.leased = TRUE].state = s.state
    BY DEF Slot
  <2> QED
    BY <1>2, <2>1, <2>2
<1>5. CASE e.op = "ack"
  <2>1. t = terminal(s, ackKind(s, e))
    BY <1>5 DEF slotAfter
  <2>2. ackKind(s, e) # "error"
    BY <1>2, <2>1 DEF terminal
  <2>3. s.reader = e.actor /\ e.revision = s.revision
    BY <2>2 DEF ackKind
  <2>4. t = [s EXCEPT !.state = ackKind(s, e)]
    BY <2>1, <2>2 DEF terminal
  <2> QED
    BY <1>5, <2>3, <2>4 DEF Slot
<1>6. CASE e.op = "abort"
  <2>1. t = terminal(s, abortKind(s, e)) /\ abortKind(s, e) \in {"aborted", "error"}
    BY <1>2, <1>6 DEF slotAfter, abortKind
  <2>2. [s EXCEPT !.state = "aborted"].state = "aborted"
    BY DEF Slot
  <2> QED
    BY <1>2, <2>1, <2>2 DEF terminal
<1> QED
  BY <1>1, <1>3, <1>4, <1>5, <1>6 DEF Operation

\* Receipts are only added, requests only as they are made, and the slots that
\* are acknowledged stay as they are.
LEMMA AckKept ==
    ASSUME TypeInv, AckInv,
           \A a \in Actor : receipts[a] \subseteq receipts'[a],
           \A e \in Envelopes' : e.op = "ack" =>
               \/ e \in Envelopes
               \/ /\ e.actor \in Reader
                  /\ [key |-> e.key, revision |-> e.revision, verified |-> TRUE]
                         \in receipts[e.actor],
           \A k \in Key : slots'[k].state = "acked" =>
               \/ slots'[k] = slots[k]
               \/ \E e \in Envelopes : /\ e.op = "ack" /\ e.key = k
                                       /\ slots'[k].reader = e.actor
                                       /\ slots'[k].revision = e.revision
    PROVE  AckInv'
<1>1. Reader \subseteq Actor
  BY DEF Actor
<1>2. AcksBacked'
  BY <1>1 DEF AckInv, AcksBacked
<1>3. AckedWasRead'
  <2> SUFFICES ASSUME NEW k \in Key, slots'[k].state = "acked"
               PROVE  /\ slots'[k].reader \in Reader
                      /\ [key |-> k, revision |-> slots'[k].revision, verified |-> TRUE]
                             \in receipts'[slots'[k].reader]
    BY DEF AckedWasRead
  <2>1. CASE slots'[k] = slots[k]
    BY <2>1, <1>1 DEF AckInv, AckedWasRead
  <2>2. CASE slots'[k] # slots[k]
    BY <2>2, <1>1 DEF AckInv, AcksBacked
  <2> QED
    BY <2>1, <2>2
<1> QED
  BY <1>2, <1>3 DEF AckInv

\* The same for a step that executes a pending request.
LEMMA AckExecuted ==
    ASSUME TypeInv, NEW e \in Envelopes, Execute(e)
    PROVE  \A k \in Key : slots'[k].state = "acked" =>
               \/ slots'[k] = slots[k]
               \/ \E f \in Envelopes : /\ f.op = "ack" /\ f.key = k
                                       /\ slots'[k].reader = f.actor
                                       /\ slots'[k].revision = f.revision
<1> SUFFICES ASSUME NEW k \in Key, slots'[k].state = "acked", slots'[k] # slots[k]
             PROVE  /\ e.op = "ack" /\ e.key = k
                    /\ slots'[k].reader = e.actor /\ slots'[k].revision = e.revision
  OBVIOUS
<1>1. e \in Envelope /\ slots[k] \in Slot /\ created \in Nat /\ slots \in [Key -> Slot]
  BY PendingFacts
<1>2. k = addressed(e) /\ slots'[k] = slotAfter(slots[k], e)
  BY <1>1, ExecuteFacts
<1>3. /\ e.op = "ack" /\ slots[k].reader = e.actor /\ slots[k].revision = e.revision
      /\ slots'[k].reader = slots[k].reader /\ slots'[k].revision = slots[k].revision
  BY <1>1, <1>2, AckStep
<1> QED
  BY <1>2, <1>3 DEF addressed


\* What a step may do to the store, to the requests and to the receipts.
LEMMA StoreActs ==
    ASSUME TypeInv, [Next]_vars
    PROVE  \/ \E e \in Envelopes : Execute(e)
           \/ \E k \in Key : Expire(k) \/ Lapse(k)
           \/ UNCHANGED <<slots, created>>
<1>1. ASSUME NEW w \in Writer, NEW k \in Key, Put(w, k) PROVE UNCHANGED <<slots, created>>
  BY <1>1 DEF Put, Begin
<1>2. ASSUME NEW a \in Actor, Discover(a) \/ Ack(a) \/ Abort(a) \/ \E k \in Key : Get(a, k)
      PROVE  UNCHANGED <<slots, created>>
  BY <1>2 DEF Discover, Ack, Abort, Get, Begin
<1>3. ASSUME NEW a \in Actor, Client(a)
      PROVE  Execute(call[a].env) \/ UNCHANGED <<slots, created>>
  BY <1>3 DEF Client, LaneExecuted, LaneRepeats, TimeOut, PutStored, Ended, NextPage,
              ReadDone, CallFails, Answered
<1>4. ASSUME NEW e \in strays, StrayExecuted(e) PROVE e \in Envelopes /\ Execute(e)
  BY <1>4 DEF StrayExecuted, Envelopes
<1>5. ASSUME NEW k \in Key, SlotExpires(k) \/ LeaseLapses(k) PROVE Expire(k) \/ Lapse(k)
  BY <1>5 DEF SlotExpires, LeaseLapses
<1>6. \A a \in Actor : call[a].env \in Envelopes
  BY DEF Envelopes
<1>7. Reader \subseteq Actor
  BY DEF Actor
<1> QED
  BY <1>1, <1>2, <1>3, <1>4, <1>5, <1>6, <1>7 DEF Next, vars

LEMMA ReceiptsGrow ==
    ASSUME TypeInv, [Next]_vars
    PROVE  \A a \in Actor : receipts[a] \subseteq receipts'[a]
<1>0. receipts \in [Actor -> SUBSET Receipt]
  BY DEF TypeInv, TypeOK
<1>1. ASSUME NEW a \in Actor, PutStored(a) PROVE \A b \in Actor : receipts[b] \subseteq receipts'[b]
  BY <1>0, <1>1 DEF PutStored
<1>2. ASSUME NEW a \in Actor, ReadDone(a) PROVE \A b \in Actor : receipts[b] \subseteq receipts'[b]
  <2>1. PICK new : receipts' = [receipts EXCEPT ![a] = @ \cup new]
    BY <1>2 DEF ReadDone
  <2> QED
    BY <1>0, <2>1
<1>3. CASE UNCHANGED receipts
  BY <1>3
<1>4. \/ UNCHANGED receipts
      \/ \E a \in Actor : PutStored(a) \/ ReadDone(a)
  BY DEF Next, vars, clients, Client, Put, Get, Discover, Ack, Abort, Begin, LaneExecuted,
         LaneRepeats, TimeOut, StrayExecuted, Ended, NextPage, CallFails, SlotExpires, LeaseLapses
<1> QED
  BY <1>1, <1>2, <1>3, <1>4

LEMMA RequestsGrow ==
    ASSUME TypeInv, [Next]_vars
    PROVE  \A e \in Envelopes' : e.op = "ack" =>
               \/ e \in Envelopes
               \/ /\ e.actor \in Reader
                  /\ [key |-> e.key, revision |-> e.revision, verified |-> TRUE]
                         \in receipts[e.actor]
<1> DEFINE Good(e) == /\ e.actor \in Reader
                      /\ [key |-> e.key, revision |-> e.revision, verified |-> TRUE]
                             \in receipts[e.actor]
<1>0. call \in [Actor -> Call] /\ receipts \in [Actor -> SUBSET Receipt]
  BY DEF TypeInv, TypeOK
<1>1. ASSUME NEW a \in Actor, NEW c, call' = [call EXCEPT ![a] = c],
             strays' \subseteq strays \cup {call[a].env}
      PROVE  Envelopes' \subseteq Envelopes \cup {c.env}
  BY <1>0, <1>1 DEF Envelopes
<1>2. ASSUME NEW a \in Actor, NEW op, NEW k, NEW r, Begin(a, op, k, r), op # "ack"
      PROVE  \A e \in Envelopes' : e.op = "ack" => e \in Envelopes
  <2> DEFINE f == [op |-> op, actor |-> a, key |-> k, revision |-> r]
  <2>1. call' = [call EXCEPT ![a] = started(f)] /\ strays' = strays
    BY <1>2 DEF Begin
  <2>2. started(f).env = f
    BY DEF started
  <2>3. Envelopes' \subseteq Envelopes \cup {f}
    <3> HIDE DEF f
    <3> QED
      BY <1>1, <2>1, <2>2
  <2> QED
    BY <1>2, <2>3
<1>3. ASSUME NEW a \in Reader, Ack(a)
      PROVE  \A e \in Envelopes' : e.op = "ack" => e \in Envelopes \/ Good(e)
  <2>1. PICK rc \in receipts[a] : rc.verified /\ Begin(a, "ack", rc.key, rc.revision)
    BY <1>3 DEF Ack
  <2>2. rc \in Receipt /\ a \in Actor
    BY <1>0 DEF Actor
  <2>3. rc = [key |-> rc.key, revision |-> rc.revision, verified |-> TRUE]
    BY <2>1, <2>2 DEF Receipt
  <2> DEFINE f == [op |-> "ack", actor |-> a, key |-> rc.key, revision |-> rc.revision]
  <2>4. call' = [call EXCEPT ![a] = started(f)] /\ strays' = strays
    BY <2>1 DEF Begin
  <2>5. started(f).env = f
    BY DEF started
  <2>6. Envelopes' \subseteq Envelopes \cup {f}
    <3> HIDE DEF f
    <3> QED
      BY <1>1, <2>2, <2>4, <2>5
  <2>7. Good(f)
    BY <2>3
  <2> HIDE DEF f, Good
  <2> QED
    BY <2>6, <2>7
<1>4. ASSUME NEW a \in Actor, call' = [call EXCEPT ![a] = idle(a)],
             strays' \subseteq strays \cup {call[a].env}
      PROVE  \A e \in Envelopes' : e.op = "ack" => e \in Envelopes
  <2>1. idle(a).env.op # "ack"
    BY DEF idle, started
  <2> QED
    BY <1>1, <1>4, <2>1
<1>5. ASSUME NEW a \in Actor, NEW l \in Lane, LaneExecuted(a, l) PROVE Envelopes' \subseteq Envelopes
  <2>1. \A b \in Actor : call'[b].env = call[b].env
    BY <1>0, <1>5 DEF LaneExecuted, Call
  <2> QED
    BY <1>5, <2>1 DEF LaneExecuted, Envelopes
<1>6. ASSUME NEW a \in Actor, NextPage(a) PROVE Envelopes' \subseteq Envelopes
  <2>1. joined(call[a]) \in Call /\ joined(call[a]).env = call[a].env
    BY <1>6, PendingFacts, JoinedFacts DEF TypeInv, CallsOK, NextPage
  <2>2. \A b \in Actor : call'[b].env = call[b].env
    BY <1>0, <1>6, <2>1 DEF NextPage, Call
  <2> QED
    BY <1>6, <2>2 DEF NextPage, Answered, Envelopes
<1>7. ASSUME call' = call, strays' \subseteq strays PROVE Envelopes' \subseteq Envelopes
  BY <1>7 DEF Envelopes
<1>8. ASSUME NEW a \in Actor, Client(a)
      PROVE  \A e \in Envelopes' : e.op = "ack" => e \in Envelopes
  BY <1>4, <1>5, <1>6, <1>7, <1>8 DEF Client, LaneRepeats, TimeOut, PutStored, Ended, ReadDone,
         CallFails, Answered, Finish, clients
<1>9. ASSUME NEW a \in Actor, Discover(a) \/ Abort(a) \/ \E k \in Key : Put(a, k) \/ Get(a, k)
      PROVE  \A e \in Envelopes' : e.op = "ack" => e \in Envelopes
  BY <1>2, <1>9 DEF Discover, Abort, Put, Get
<1>10. ASSUME \/ \E e \in strays : StrayExecuted(e)
              \/ \E k \in Key : SlotExpires(k) \/ LeaseLapses(k)
              \/ UNCHANGED vars
       PROVE  Envelopes' \subseteq Envelopes
  BY <1>7, <1>10 DEF StrayExecuted, SlotExpires, LeaseLapses, clients, vars
<1>11. Reader \subseteq Actor /\ Writer \subseteq Actor
  BY DEF Actor
<1> QED
  BY <1>3, <1>8, <1>9, <1>10, <1>11 DEF Next

LEMMA AckNext == TypeInv /\ AckInv /\ [Next]_vars => AckInv'
<1> SUFFICES ASSUME TypeInv, AckInv, [Next]_vars PROVE AckInv'
  OBVIOUS
<1> DEFINE Kept == \A k \in Key : slots'[k].state = "acked" =>
                      \/ slots'[k] = slots[k]
                      \/ \E e \in Envelopes : /\ e.op = "ack" /\ e.key = k
                                              /\ slots'[k].reader = e.actor
                                              /\ slots'[k].revision = e.revision
<1>0. slots \in [Key -> Slot]
  BY DEF TypeInv, TypeOK
<1>1. ASSUME NEW e \in Envelopes, Execute(e) PROVE Kept
  BY <1>1, AckExecuted
<1>2. ASSUME NEW k \in Key, Expire(k) \/ Lapse(k) PROVE Kept
  <2>1. CASE Expire(k)
    BY <1>0, <2>1 DEF Expire, NoSlot
  <2>2. CASE Lapse(k)
    <3>1. slots[k].state = "active" /\ slots' = [slots EXCEPT ![k] = [slots[k] EXCEPT !.leased = FALSE]]
      BY <1>0, <2>2 DEF Lapse
    <3>2. slots'[k].state = "active" /\ \A j \in Key \ {k} : slots'[j] = slots[j]
      BY <1>0, <3>1 DEF Slot
    <3> QED
      BY <3>2
  <2> QED
    BY <1>2, <2>1, <2>2
<1>3. ASSUME UNCHANGED <<slots, created>> PROVE Kept
  BY <1>3
<1>4. Kept
  BY <1>1, <1>2, <1>3, StoreActs
<1> QED
  BY <1>4, AckKept, ReceiptsGrow, RequestsGrow

\* A value is acknowledged only by the reader that claimed it, and only after
\* that reader has read all of it and verified it.
THEOREM AcknowledgedWasRead == Spec => []AckedWasRead
<1>1. Init => AckInv
  <2> SUFFICES ASSUME Init PROVE AckInv
    OBVIOUS
  <2>1. AcksBacked
    BY DEF Init, AcksBacked, Envelopes, idle, started
  <2>2. AckedWasRead
    BY DEF Init, InitSlots, NoSlot, AckedWasRead
  <2> QED
    BY <2>1, <2>2 DEF AckInv
<1>2. AckInv => AckedWasRead
  BY DEF AckInv
<1> QED
  BY <1>1, <1>2, InitType, NextType, AckNext, PTL DEF Spec

-----------------------------------------------------------------------------
(* Which slot an answer is of.                                             *)

\* The slots a store holds were born at different times, for writers.
SlotsOK ==
    /\ \A k \in Key : slots[k].state # "none" =>
          slots[k].owner \in Writer /\ slots[k].born <= created
    /\ \A j, k \in Key : slots[j].state # "none" /\ slots[k].state # "none"
                            /\ slots[j].born = slots[k].born => j = k

\* A slot somebody has read from is claimed and is at the revision they read.
PiecesOK ==
    \A a \in Reader : \A p \in pieces(a) :
        /\ p.born <= created
        /\ \A k \in Key : slots[k].state # "none" /\ slots[k].born = p.born =>
              slots[k].reader # Nobody /\ slots[k].revision = p.revision

RevisionInv == SlotsOK /\ PiecesOK /\ OneRevision

\* The ends that were reported, or are about to be.
told ==
    outcomes \cup
        {x \in Outcome : \E a \in Actor, l \in Lane :
            x = [born |-> call[a].got[l].born, status |-> call[a].got[l].kind]}

\* A slot whose end was reported has that end.
ToldOK ==
    \A x \in told :
        /\ x.born <= created
        /\ \A k \in Key : slots[k].state # "none" /\ slots[k].born = x.born =>
              slots[k].state = x.status
        /\ \A y \in told : x.born = y.born => x.status = y.status

ToldInv == SlotsOK /\ ToldOK

\* What a step may do to the slots: keep one, with its birth and owner, what is
\* claimed at its revision and what has ended as it is; make one; drop one.
KeepsSlot(k) ==
    /\ slots[k].state # "none"
    /\ slots'[k].born = slots[k].born /\ slots'[k].owner = slots[k].owner
    /\ slots[k].reader # Nobody =>
          slots'[k].reader # Nobody /\ slots'[k].revision = slots[k].revision
    /\ slots[k].state \in {"acked", "aborted"} => slots'[k].state = slots[k].state

MakesSlot(k) ==
    /\ slots[k].state = "none"
    /\ slots'[k].owner \in Writer
    /\ slots'[k].born = created + 1 /\ created' = created + 1

StoreStep ==
    /\ created' \in {created, created + 1}
    /\ \A k \in Key : slots'[k].state # "none" => KeepsSlot(k) \/ MakesSlot(k)
    /\ \A j, k \in Key : slots'[j] # slots[j] /\ slots'[k] # slots[k] => j = k

LEMMA ExecuteStep == ASSUME TypeInv, NEW e \in Envelopes, Execute(e) PROVE StoreStep
<1>1. e \in Envelope /\ EnvOK(e) /\ created \in Nat /\ slots \in [Key -> Slot]
  BY PendingFacts
<1>2. created' \in {created, created + 1}
  BY <1>1, ExecuteFacts
<1>3. \A j, k \in Key : slots'[j] # slots[j] /\ slots'[k] # slots[k] => j = k
  BY <1>1, ExecuteFacts
<1>4. ASSUME NEW k \in Key, slots'[k].state # "none" PROVE KeepsSlot(k) \/ MakesSlot(k)
  <2>1. slots[k] \in Slot
    BY <1>1
  <2>2. CASE slots'[k] = slots[k]
    BY <1>4, <2>2 DEF KeepsSlot
  <2>3. CASE slots'[k] # slots[k] /\ slots[k].state # "none"
    <3>1. slots'[k] = slotAfter(slots[k], e)
      BY <1>1, <2>3, ExecuteFacts
    <3> QED
      BY <1>1, <2>1, <2>3, <3>1, SlotStep DEF KeepsSlot
  <2>4. CASE slots'[k] # slots[k] /\ slots[k].state = "none"
    <3>1. slots'[k] = newSlot(e) /\ created' = created + 1
      BY <1>1, <2>4, ExecuteFacts
    <3>2. slots'[k] = slotAfter(slots[k], e) /\ k = addressed(e)
      BY <1>1, <2>4, ExecuteFacts
    <3>3. e.op = "put"
      BY <1>1, <2>1, <2>4, <3>2, SlotStep
    <3>4. e.actor \in Writer
      BY <1>1, <3>3 DEF EnvOK
    <3> QED
      BY <2>4, <3>1, <3>4 DEF newSlot, MakesSlot
  <2> QED
    BY <2>2, <2>3, <2>4
<1> QED
  BY <1>2, <1>3, <1>4 DEF StoreStep

LEMMA NextStoreStep == ASSUME TypeInv, [Next]_vars PROVE StoreStep
<1>0. slots \in [Key -> Slot] /\ created \in Nat
  BY DEF TypeInv, TypeOK
<1>1. ASSUME NEW k \in Key, Expire(k) PROVE StoreStep
  <2>1. slots' = [slots EXCEPT ![k] = NoSlot] /\ created' = created
    BY <1>1 DEF Expire
  <2>2. slots'[k].state = "none" /\ \A j \in Key \ {k} : slots'[j] = slots[j]
    BY <1>0, <2>1 DEF NoSlot
  <2> QED
    BY <2>1, <2>2 DEF StoreStep, KeepsSlot
<1>2. ASSUME NEW k \in Key, Lapse(k) PROVE StoreStep
  <2> DEFINE t == [slots[k] EXCEPT !.leased = FALSE]
  <2>1. slots' = [slots EXCEPT ![k] = t] /\ created' = created /\ slots[k].state = "active"
    BY <1>0, <1>2 DEF Lapse
  <2>2. /\ t.state = "active" /\ t.born = slots[k].born /\ t.owner = slots[k].owner
        /\ t.reader = slots[k].reader /\ t.revision = slots[k].revision
    BY <1>0, <2>1 DEF Slot
  <2> HIDE DEF t
  <2>3. slots'[k] = t /\ \A j \in Key \ {k} : slots'[j] = slots[j]
    BY <1>0, <2>1
  <2>4. \A j \in Key : slots'[j].state # "none" => KeepsSlot(j)
    BY <2>1, <2>2, <2>3 DEF KeepsSlot
  <2>5. \A i, j \in Key : slots'[i] # slots[i] /\ slots'[j] # slots[j] => i = j
    BY <2>3
  <2> QED
    BY <2>1, <2>4, <2>5 DEF StoreStep
<1>3. ASSUME UNCHANGED <<slots, created>> PROVE StoreStep
  BY <1>3 DEF StoreStep, KeepsSlot
<1> QED
  BY <1>1, <1>2, <1>3, StoreActs, ExecuteStep

LEMMA SlotsNext == ASSUME TypeInv, SlotsOK, StoreStep PROVE SlotsOK'
<1>1. created \in Nat /\ \A k \in Key : slots[k].born \in Nat
  BY DEF TypeInv, TypeOK, Slot
<1>2. \A k \in Key : slots'[k].state # "none" =>
         slots'[k].owner \in Writer /\ slots'[k].born <= created'
  BY <1>1 DEF SlotsOK, StoreStep, KeepsSlot, MakesSlot
<1>3. ASSUME NEW j \in Key, NEW k \in Key, slots'[j].state # "none", slots'[k].state # "none",
             slots'[j].born = slots'[k].born
      PROVE  j = k
  <2>1. CASE KeepsSlot(j) /\ KeepsSlot(k)
    BY <1>3, <2>1 DEF SlotsOK, KeepsSlot
  <2>2. CASE KeepsSlot(j) /\ MakesSlot(k)
    <3>0. slots[j].born \in Nat /\ created \in Nat
      BY <1>1
    <3>1. slots[j].born <= created /\ slots'[j].born = slots[j].born
      BY <2>2 DEF SlotsOK, KeepsSlot
    <3>2. slots'[k].born = created + 1
      BY <2>2 DEF MakesSlot
    <3>3. slots[j].born = created + 1
      BY <1>3, <3>1, <3>2
    <3> QED
      BY <3>0, <3>1, <3>3
  <2>3. CASE MakesSlot(j) /\ KeepsSlot(k)
    <3>0. slots[k].born \in Nat /\ created \in Nat
      BY <1>1
    <3>1. slots[k].born <= created /\ slots'[k].born = slots[k].born
      BY <2>3 DEF SlotsOK, KeepsSlot
    <3>2. slots'[j].born = created + 1
      BY <2>3 DEF MakesSlot
    <3> QED
      BY <1>3, <3>0, <3>1, <3>2
  <2>4. CASE MakesSlot(j) /\ MakesSlot(k)
    BY <1>3, <2>4 DEF StoreStep, MakesSlot
  <2> QED
    BY <1>3, <2>1, <2>2, <2>3, <2>4 DEF StoreStep
<1> QED
  BY <1>2, <1>3 DEF SlotsOK

-----------------------------------------------------------------------------
(* A reader never mixes two revisions of a slot.                           *)

\* A piece that reader a has just read from slot k.
Fresh(a, p, k) ==
    /\ p.born = slots'[k].born /\ p.revision = slots'[k].revision
    /\ slots[k].state # "none" /\ slots'[k].state # "none"
    /\ slots'[k].reader = a /\ a # Nobody

LEMMA ReadFacts ==
    ASSUME TypeInv, SlotsOK, NEW e \in Envelopes, e.op \in reads, e.actor \in Reader,
           Execute(e), response(e).kind = "data"
    PROVE  \E k \in Key : Fresh(e.actor, source(response(e)), k)
<1> DEFINE k == addressed(e)
<1>1. e \in Envelope /\ slots \in [Key -> Slot] /\ created \in Nat /\ e.op \in {"get", "discover"}
  BY PendingFacts DEF reads
<1>2. k \in Key
  BY DEF response
<1>3. slots'[k] = slotAfter(slots[k], e)
  BY <1>1, <1>2 DEF Execute
<1>4. slotAfter(slots[k], e) = readSlot(slots[k], e) /\ readKind(slots[k], e) = "data"
  BY <1>1, <1>2 DEF slotAfter, response, kindOf
<1>5. /\ response(e).born = slotAfter(slots[k], e).born
      /\ response(e).revision = slotAfter(slots[k], e).revision
  BY <1>2 DEF response
<1>6. slots[k].state = "active"
  <2>1. slots[k].state \in {"none", "active", "acked", "aborted"}
    BY <1>1, <1>2 DEF Slot
  <2> QED
    BY <1>4, <2>1 DEF readKind
<1>7. e.actor # slots[k].owner /\ e.actor # Nobody
  BY <1>2, <1>6, RoleAssumption, ActorAssumption DEF SlotsOK
<1>8. slots'[k] = [slots[k] EXCEPT !.reader = e.actor, !.leased = TRUE]
  BY <1>3, <1>4, <1>7 DEF readSlot
<1>9. slots'[k].state = "active" /\ slots'[k].reader = e.actor
  BY <1>1, <1>2, <1>6, <1>8 DEF Slot
<1> HIDE DEF k
<1> QED
  BY <1>2, <1>3, <1>5, <1>6, <1>7, <1>9 DEF Fresh, source

\* The pieces of a reader, one by one, before and after a step.
LEMMA PieceParts ==
    ASSUME NEW a \in Actor
    PROVE  /\ call[a].all \subseteq pieces(a) /\ UNION tokens[a] \subseteq pieces(a)
           /\ \A l \in call[a].done :
                 call[a].env.op \in reads /\ call[a].got[l].kind = "data" =>
                     source(call[a].got[l]) \in pieces(a)
           /\ \A p \in pieces(a)' :
                 \/ p \in call'[a].all \cup (UNION tokens'[a])
                 \/ /\ call'[a].env.op \in reads
                    /\ \E l \in call'[a].done : call'[a].got[l].kind = "data"
                                               /\ p = source(call'[a].got[l])
<1>1. call[a].all \subseteq pieces(a) /\ UNION tokens[a] \subseteq pieces(a)
  BY DEF pieces
<1>2. ASSUME NEW l \in call[a].done, call[a].env.op \in reads, call[a].got[l].kind = "data"
      PROVE  source(call[a].got[l]) \in pieces(a)
  <2>1. l \in dataLanes(call[a])
    BY <1>2 DEF dataLanes
  <2> QED
    BY <2>1 DEF pieces
<1>3. ASSUME NEW p \in pieces(a)', p \notin call'[a].all \cup (UNION tokens'[a])
      PROVE  /\ call'[a].env.op \in reads
             /\ \E l \in call'[a].done : call'[a].got[l].kind = "data"
                                        /\ p = source(call'[a].got[l])
  <2>1. PICK l \in dataLanes(call'[a]) : p = source(call'[a].got[l])
    BY <1>3 DEF pieces
  <2> QED
    BY <2>1 DEF dataLanes
<1> QED
  BY <1>1, <1>2, <1>3

\* A page that has been answered is all pieces.
LEMMA PageFacts ==
    ASSUME TypeInv, NEW a \in Actor, Answered(a, reads), kinds(call[a]) = {"data"}
    PROVE  joined(call[a]).all \subseteq pieces(a)
<1>1. call[a] \in Call /\ \A l \in Lane : call[a].got[l].kind = "data" => call[a].got[l].key \in Key
  BY PendingFacts DEF TypeInv, CallsOK
<1>2. /\ joined(call[a]).all \subseteq call[a].all \cup {source(call[a].got[l]) : l \in Lane}
      /\ \A l \in Lane : call[a].got[l].kind = "data"
  BY <1>1, JoinedFacts
<1>3. call[a].done = Lane /\ call[a].env.op \in reads
  BY DEF Answered
<1>4. \A l \in Lane : source(call[a].got[l]) \in pieces(a)
  BY <1>2, <1>3, PieceParts
<1> QED
  BY <1>2, <1>4, PieceParts

\* What one step adds to the pieces of a reader.
LEMMA PiecesGrow ==
    ASSUME TypeInv, SlotsOK, [Next]_vars, NEW a \in Reader
    PROVE  \A p \in pieces(a)' : p \in pieces(a) \/ \E k \in Key : Fresh(a, p, k)
<1> DEFINE Good == \A p \in pieces(a)' : p \in pieces(a) \/ \E k \in Key : Fresh(a, p, k)
<1>0. /\ call \in [Actor -> Call] /\ tokens \in [Actor -> SUBSET SUBSET Source] /\ a \in Actor
  BY DEF TypeInv, TypeOK, Actor
<1>1. ASSUME call'[a] = call[a], tokens'[a] = tokens[a] PROVE Good
  BY <1>1 DEF pieces
<1>2. ASSUME call'[a].all = {}, call'[a].done = {}, tokens'[a] = tokens[a] PROVE Good
  BY <1>0, <1>2, PieceParts
<1>3. ASSUME NEW b \in Actor, NEW op, NEW k, NEW r, Begin(b, op, k, r) PROVE Good
  <2> DEFINE e == [op |-> op, actor |-> b, key |-> k, revision |-> r]
  <2>1. call' = [call EXCEPT ![b] = started(e)] /\ tokens' = tokens
    BY <1>3 DEF Begin
  <2>2. started(e).all = {} /\ started(e).done = {}
    BY DEF started
  <2> HIDE DEF e
  <2>3. CASE b = a
    BY <1>0, <1>2, <2>1, <2>2, <2>3
  <2>4. CASE b # a
    BY <1>0, <1>1, <2>1, <2>4
  <2> QED
    BY <2>3, <2>4
<1>4. ASSUME NEW b \in Actor, call' = [call EXCEPT ![b] = idle(b)], tokens' = tokens PROVE Good
  <2>1. idle(b).all = {} /\ idle(b).done = {}
    BY DEF idle, started
  <2>2. CASE b = a
    BY <1>0, <1>2, <1>4, <2>1, <2>2
  <2>3. CASE b # a
    BY <1>0, <1>1, <1>4, <2>3
  <2> QED
    BY <2>2, <2>3
<1>5. ASSUME NEW b \in Actor, NEW l \in Lane, LaneExecuted(b, l) PROVE Good
  <2> DEFINE e == call[b].env
  <2>1. CASE b # a
    BY <1>0, <1>1, <1>5, <2>1 DEF LaneExecuted
  <2>2. CASE b = a
    <3>1. call[a] \in Call /\ l \in Lane \ call[a].done /\ e \in Envelopes /\ e.actor = a
      BY <1>0, <1>5, <2>2, PendingFacts DEF LaneExecuted, Envelopes
    <3>2. Execute(e) /\ tokens' = tokens
      BY <1>5 DEF LaneExecuted
    <3>3. /\ call'[a].all = call[a].all /\ call'[a].env = e
          /\ call'[a].done = call[a].done \cup {l}
          /\ call'[a].got = [call[a].got EXCEPT ![l] = response(e)]
      BY <1>0, <1>5, <2>2 DEF LaneExecuted, Call
    <3>4. call[a].got \in [Lane -> Response]
      BY <3>1 DEF Call
    <3> HIDE DEF e
    <3>5. ASSUME NEW p \in pieces(a)', p \notin pieces(a) PROVE \E k \in Key : Fresh(a, p, k)
      <4>0. p \notin call'[a].all \cup (UNION tokens'[a])
        BY <1>0, <3>2, <3>3, <3>5, PieceParts
      <4>1. call[a].env.op \in reads /\ call[a].env = e
        BY <1>0, <2>2, <3>3, <4>0, PieceParts DEF e
      <4>2. PICK m \in call'[a].done : /\ call'[a].got[m].kind = "data"
                                       /\ p = source(call'[a].got[m])
        BY <1>0, <4>0, PieceParts
      <4>3. m = l
        <5>1. CASE m # l
          <6>1. call'[a].got[m] = call[a].got[m] /\ m \in call[a].done
            BY <3>1, <3>3, <3>4, <4>2, <5>1
          <6> QED
            BY <1>0, <3>5, <4>1, <4>2, <6>1, PieceParts
        <5> QED
          BY <5>1
      <4>4. call'[a].got[m] = response(e)
        BY <3>3, <3>4, <4>3
      <4> QED
        BY <3>1, <3>2, <4>1, <4>2, <4>4, ReadFacts
    <3> QED
      BY <3>5
  <2> QED
    BY <2>1, <2>2
<1>6. ASSUME NEW b \in Actor, NextPage(b) PROVE Good
  <2>1. CASE b # a
    BY <1>0, <1>1, <1>6, <2>1 DEF NextPage
  <2>2. CASE b = a
    <3>1. joined(call[a]).all \subseteq pieces(a)
      BY <1>0, <1>6, <2>2, PageFacts DEF NextPage
    <3>2. joined(call[a]) \in Call
      BY <1>0, <1>6, <2>2, PendingFacts, JoinedFacts DEF TypeInv, CallsOK, NextPage
    <3>3. call'[a].all = joined(call[a]).all /\ call'[a].done = {} /\ tokens' = tokens
      BY <1>0, <1>6, <2>2, <3>2 DEF NextPage, Call
    <3> QED
      BY <1>0, <3>1, <3>3, PieceParts
  <2> QED
    BY <2>1, <2>2
<1>7. ASSUME NEW b \in Actor, ReadDone(b) PROVE Good
  <2>1. CASE b # a
    BY <1>0, <1>1, <1>7, <2>1 DEF ReadDone, Finish
  <2>2. CASE b = a
    <3>1. joined(call[a]).all \subseteq pieces(a)
      BY <1>0, <1>7, <2>2, PageFacts DEF ReadDone
    <3>2. tokens'[a] = tokens[a] \cup {joined(call[a]).all} /\ call'[a] = idle(a)
      BY <1>0, <1>7, <2>2 DEF ReadDone, Finish
    <3>3. idle(a).all = {} /\ idle(a).done = {}
      BY DEF idle, started
    <3>4. (UNION tokens'[a]) \subseteq pieces(a)
      BY <1>0, <3>1, <3>2, PieceParts
    <3> QED
      BY <1>0, <3>2, <3>3, <3>4, PieceParts
  <2> QED
    BY <2>1, <2>2
<1>8. ASSUME NEW b \in Actor, Client(b) PROVE Good
  BY <1>1, <1>4, <1>5, <1>6, <1>7, <1>8 DEF Client, LaneRepeats, TimeOut, PutStored, Ended,
         CallFails, Answered, Finish, clients
<1>9. ASSUME NEW b \in Actor, Discover(b) \/ Ack(b) \/ Abort(b) \/ \E k \in Key : Put(b, k) \/ Get(b, k)
      PROVE  Good
  BY <1>3, <1>9 DEF Discover, Ack, Abort, Put, Get
<1>10. ASSUME \/ \E e \in strays : StrayExecuted(e)
              \/ \E k \in Key : SlotExpires(k) \/ LeaseLapses(k)
              \/ UNCHANGED vars
       PROVE  Good
  BY <1>1, <1>10 DEF StrayExecuted, SlotExpires, LeaseLapses, clients, vars
<1>11. Reader \subseteq Actor /\ Writer \subseteq Actor
  BY DEF Actor
<1> QED
  BY <1>8, <1>9, <1>10, <1>11 DEF Next

\* What was read before a step, and what was read in it.
LEMMA OldPiece ==
    ASSUME TypeInv, RevisionInv, StoreStep, NEW a \in Reader, NEW p \in pieces(a)
    PROVE  /\ p.born <= created'
           /\ \A k \in Key : slots'[k].state # "none" /\ slots'[k].born = p.born =>
                 slots'[k].reader # Nobody /\ slots'[k].revision = p.revision
<1>0. /\ created \in Nat /\ p.born \in Int /\ p.born <= created
      /\ \A k \in Key : slots[k].born \in Nat
  <2>1. p \in Source
    <3>1. call[a] \in Call /\ a \in Actor /\ tokens \in [Actor -> SUBSET SUBSET Source]
      BY PendingFacts DEF Actor, TypeInv, TypeOK
    <3>2. call[a].all \subseteq Source /\ UNION tokens[a] \subseteq Source
      BY <3>1 DEF Call
    <3>3. \A l \in dataLanes(call[a]) : source(call[a].got[l]) \in Source
      <4> SUFFICES ASSUME NEW l \in dataLanes(call[a]) PROVE source(call[a].got[l]) \in Source
        OBVIOUS
      <4>1. l \in Lane /\ call[a].got[l].kind = "data"
        BY <3>1 DEF dataLanes, Call
      <4>2. call[a].got[l] \in Response /\ call[a].got[l].key \in Key
        BY <3>1, <4>1 DEF TypeInv, CallsOK, Call
      <4> QED
        BY <4>2 DEF source, Source, Response
    <3> QED
      BY <3>2, <3>3 DEF pieces
  <2>2. created \in Nat /\ \A k \in Key : slots[k].born \in Nat
    BY DEF TypeInv, TypeOK, Slot
  <2>3. p.born <= created
    BY DEF RevisionInv, PiecesOK
  <2> QED
    BY <2>1, <2>2, <2>3 DEF Source
<1>1. p.born <= created'
  BY <1>0 DEF StoreStep
<1>2. ASSUME NEW k \in Key, slots'[k].state # "none", slots'[k].born = p.born
      PROVE  slots'[k].reader # Nobody /\ slots'[k].revision = p.revision
  <2>1. CASE KeepsSlot(k)
    BY <1>2, <2>1 DEF KeepsSlot, RevisionInv, PiecesOK
  <2>2. CASE MakesSlot(k)
    <3>1. slots'[k].born = created + 1
      BY <2>2 DEF MakesSlot
    <3>2. p.born = created + 1
      BY <1>2, <3>1
    <3> QED
      BY <1>0, <3>2
  <2> QED
    BY <1>2, <2>1, <2>2 DEF StoreStep
<1> QED
  BY <1>1, <1>2

LEMMA RevisionNext == TypeInv /\ RevisionInv /\ [Next]_vars => RevisionInv'
<1> SUFFICES ASSUME TypeInv, RevisionInv, [Next]_vars PROVE RevisionInv'
  OBVIOUS
<1>1. StoreStep
  BY NextStoreStep
<1>2. SlotsOK /\ SlotsOK'
  BY <1>1, SlotsNext DEF RevisionInv
<1>3. ASSUME NEW a \in Reader, NEW p \in pieces(a)', p \notin pieces(a)
      PROVE  \E k \in Key : Fresh(a, p, k)
  BY <1>2, <1>3, PiecesGrow
<1>4. PiecesOK'
  <2> SUFFICES ASSUME NEW a \in Reader, NEW p \in pieces(a)'
               PROVE  /\ p.born <= created'
                      /\ \A k \in Key : slots'[k].state # "none" /\ slots'[k].born = p.born =>
                            slots'[k].reader # Nobody /\ slots'[k].revision = p.revision
    BY DEF PiecesOK
  <2>1. CASE p \in pieces(a)
    BY <1>1, <2>1, OldPiece
  <2>2. CASE p \notin pieces(a)
    <3>1. PICK j \in Key : Fresh(a, p, j)
      BY <1>3, <2>2
    <3>2. p.born <= created'
      BY <1>2, <3>1 DEF Fresh, SlotsOK
    <3>3. \A k \in Key : slots'[k].state # "none" /\ slots'[k].born = p.born => k = j
      BY <1>2, <3>1 DEF Fresh, SlotsOK
    <3> QED
      BY <3>1, <3>2, <3>3 DEF Fresh
  <2> QED
    BY <2>1, <2>2
<1>5. OneRevision'
  <2> SUFFICES ASSUME NEW a \in Reader, NEW p \in pieces(a)', NEW q \in pieces(a)',
                      p.born = q.born
               PROVE  p.revision = q.revision
    BY DEF OneRevision
  <2>1. CASE p \in pieces(a) /\ q \in pieces(a)
    BY <2>1 DEF RevisionInv, OneRevision
  <2>2. CASE p \notin pieces(a)
    <3>1. PICK k \in Key : Fresh(a, p, k)
      BY <1>3, <2>2
    <3> QED
      BY <1>4, <3>1 DEF Fresh, PiecesOK
  <2>3. CASE q \notin pieces(a)
    <3>1. PICK k \in Key : Fresh(a, q, k)
      BY <1>3, <2>3
    <3> QED
      BY <1>4, <3>1 DEF Fresh, PiecesOK
  <2> QED
    BY <2>1, <2>2, <2>3
<1> QED
  BY <1>2, <1>4, <1>5 DEF RevisionInv

LEMMA InitRevision == Init => RevisionInv
<1> SUFFICES ASSUME Init PROVE RevisionInv
  OBVIOUS
<1>1. SlotsOK
  BY DEF Init, InitSlots, NoSlot, SlotsOK
<1>2. \A a \in Reader : pieces(a) = {}
  <2> SUFFICES ASSUME NEW a \in Reader PROVE pieces(a) = {}
    OBVIOUS
  <2>1. call[a].all = {} /\ call[a].done = {} /\ tokens[a] = {}
    BY DEF Init, idle, started, Actor
  <2>2. dataLanes(call[a]) = {}
    BY <2>1 DEF dataLanes
  <2> QED
    BY <2>1, <2>2 DEF pieces
<1> QED
  BY <1>1, <1>2 DEF RevisionInv, PiecesOK, OneRevision

\* Whatever lanes and pages a reader takes chunks from, and whatever is put,
\* expires or is executed late meanwhile, those of one slot are of one revision.
THEOREM ReadsOneRevision == Spec => []OneRevision
<1>1. RevisionInv => OneRevision
  BY DEF RevisionInv
<1> QED
  BY <1>1, InitRevision, InitType, NextType, RevisionNext, PTL DEF Spec

-----------------------------------------------------------------------------
(* Readers take turns.                                                     *)

\* Those who have read from slot k, and the reader that claims it.
holders(k) ==
    {a \in Reader : \E p \in pieces(a) : p.born = slots[k].born}
        \cup ({slots[k].reader} \ {Nobody})

\* One reader more can have a slot than leases have ended, and while nobody
\* has the lease not even that: whoever takes it over is the next.
TurnsOK ==
    \A k \in Key : slots[k].state # "none" =>
        /\ slots[k].leased => slots[k].reader # Nobody
        /\ IsFiniteSet(holders(k))
        /\ Cardinality(holders(k)) <= lapses + (IF slots[k].leased THEN 1 ELSE 0)

TurnsInv == RevisionInv /\ TurnsOK

\* What a step may do to the claim on a slot: leave it, take it or renew it, or
\* end its lease.
ClaimStays(k) ==
    slots'[k].reader = slots[k].reader /\ slots'[k].leased = slots[k].leased

ClaimTaken(k) ==
    /\ slots'[k].leased /\ slots'[k].reader # Nobody
    /\ slots[k].leased /\ slots[k].reader # Nobody => slots'[k].reader = slots[k].reader

ClaimLapses(k) ==
    /\ slots'[k].reader = slots[k].reader /\ ~ slots'[k].leased
    /\ slots[k].leased /\ lapses' = lapses + 1

\* Execution leaves a claim or takes it; it takes no other reader's lease.
LEMMA ClaimStep ==
    ASSUME NEW s \in Slot, NEW e \in Envelope, created \in Nat, s.state # "none"
    PROVE  LET t == slotAfter(s, e)
           IN \/ t.reader = s.reader /\ t.leased = s.leased
              \/ /\ t.leased /\ t.reader # Nobody
                 /\ s.leased /\ s.reader # Nobody => t.reader = s.reader
<1> DEFINE t == slotAfter(s, e)
<1>1. /\ s.state \in {"none", "active", "acked", "aborted"}
      /\ s.reader \in Actor \cup {Nobody} /\ s.leased \in BOOLEAN
  BY DEF Slot
<1>2. e.op \in Operation /\ e.actor \in Actor
  BY DEF Envelope
<1>3. e.actor # Nobody
  BY <1>2, ActorAssumption DEF Actor
<1>4. CASE e.op = "put"
  <2>1. t \in {s, [s EXCEPT !.revision = e.revision + 1]}
    BY <1>4 DEF slotAfter, putSlot
  <2> HIDE DEF t
  <2>2. t.reader = s.reader /\ t.leased = s.leased
    BY <2>1 DEF Slot
  <2> QED
    BY <2>2 DEF t
<1>5. CASE e.op \in {"get", "discover"}
  <2>1. t = readSlot(s, e)
    BY <1>5 DEF slotAfter
  <2>2. CASE readKind(s, e) \in {"data", "not-modified"} /\ e.actor # s.owner
    <3>1. t = [s EXCEPT !.reader = e.actor, !.leased = TRUE]
      BY <2>1, <2>2 DEF readSlot
    <3>2. t.reader = e.actor /\ t.leased
      BY <3>1 DEF Slot
    <3>3. ~ heldByOther(s, e)
      BY <1>1, <2>2 DEF readKind
    <3>4. s.leased /\ s.reader # Nobody => s.reader = e.actor
      BY <2>2, <3>3 DEF heldByOther
    <3> QED
      BY <1>3, <3>2, <3>4
  <2>3. CASE ~ (readKind(s, e) \in {"data", "not-modified"} /\ e.actor # s.owner)
    BY <2>1, <2>3 DEF readSlot
  <2> QED
    BY <2>2, <2>3
<1>6. CASE e.op \in {"ack", "abort"}
  <2>1. PICK kind : t = terminal(s, kind)
    BY <1>6 DEF slotAfter
  <2>2. t \in {s, [s EXCEPT !.state = kind]}
    BY <2>1 DEF terminal
  <2> HIDE DEF t
  <2>3. t.reader = s.reader /\ t.leased = s.leased
    BY <2>2 DEF Slot
  <2> QED
    BY <2>3 DEF t
<1> QED
  BY <1>2, <1>4, <1>5, <1>6 DEF Operation

\* Lapses are counted, and nothing else changes their number.
LEMMA LapseActs ==
    ASSUME TypeInv, [Next]_vars
    PROVE  \/ \E e \in Envelopes : Execute(e) /\ lapses' = lapses
           \/ \E k \in Key : Expire(k) /\ lapses' = lapses
           \/ \E k \in Key : Lapse(k) /\ lapses' = lapses + 1
           \/ UNCHANGED <<slots, created, lapses>>
<1>1. ASSUME NEW w \in Writer, NEW k \in Key, Put(w, k)
      PROVE  UNCHANGED <<slots, created, lapses>>
  BY <1>1 DEF Put, Begin, faults
<1>2. ASSUME NEW a \in Actor, Discover(a) \/ Ack(a) \/ Abort(a) \/ \E k \in Key : Get(a, k)
      PROVE  UNCHANGED <<slots, created, lapses>>
  BY <1>2 DEF Discover, Ack, Abort, Get, Begin, faults
<1>3. ASSUME NEW a \in Actor, Client(a)
      PROVE  \/ Execute(call[a].env) /\ lapses' = lapses
             \/ UNCHANGED <<slots, created, lapses>>
  BY <1>3 DEF Client, LaneExecuted, LaneRepeats, TimeOut, PutStored, Ended, NextPage,
              ReadDone, CallFails, Answered, faults
<1>4. ASSUME NEW e \in strays, StrayExecuted(e)
      PROVE  e \in Envelopes /\ Execute(e) /\ lapses' = lapses
  BY <1>4 DEF StrayExecuted, Envelopes, faults
<1>5. ASSUME NEW k \in Key, SlotExpires(k) PROVE Expire(k) /\ lapses' = lapses
  BY <1>5 DEF SlotExpires
<1>6. ASSUME NEW k \in Key, LeaseLapses(k) PROVE Lapse(k) /\ lapses' = lapses + 1
  BY <1>6 DEF LeaseLapses
<1>7. \A a \in Actor : call[a].env \in Envelopes
  BY DEF Envelopes
<1>8. Reader \subseteq Actor
  BY DEF Actor
<1>9. CASE UNCHANGED vars
  BY <1>9 DEF vars, faults
<1> QED
  BY <1>1, <1>2, <1>3, <1>4, <1>5, <1>6, <1>7, <1>8, <1>9 DEF Next

\* A step to the claim on every slot that stays, and none on a new one.
LEMMA NextClaimStep ==
    ASSUME TypeInv, [Next]_vars
    PROVE  /\ lapses' \in {lapses, lapses + 1}
           /\ \A k \in Key : slots'[k].state # "none" =>
                 IF slots[k].state # "none"
                 THEN ClaimStays(k) \/ ClaimTaken(k) \/ ClaimLapses(k)
                 ELSE slots'[k].reader = Nobody /\ ~ slots'[k].leased
<1> DEFINE Good(k) == IF slots[k].state # "none"
                      THEN ClaimStays(k) \/ ClaimTaken(k) \/ ClaimLapses(k)
                      ELSE slots'[k].reader = Nobody /\ ~ slots'[k].leased
<1>0. slots \in [Key -> Slot] /\ created \in Nat
  BY DEF TypeInv, TypeOK
<1>1. lapses' \in {lapses, lapses + 1}
  BY LapseActs
<1>2. ASSUME NEW k \in Key, slots'[k].state # "none", slots'[k] = slots[k] PROVE Good(k)
  BY <1>2 DEF ClaimStays
<1>3. ASSUME NEW e \in Envelopes, Execute(e), NEW k \in Key, slots'[k].state # "none",
             slots'[k] # slots[k]
      PROVE  Good(k)
  <2>1. e \in Envelope /\ slots[k] \in Slot
    BY <1>0, PendingFacts
  <2>2. CASE slots[k].state # "none"
    <3>1. slots'[k] = slotAfter(slots[k], e)
      BY <1>0, <1>3, <2>1, ExecuteFacts
    <3> QED
      BY <1>0, <2>1, <2>2, <3>1, ClaimStep DEF ClaimStays, ClaimTaken
  <2>3. CASE slots[k].state = "none"
    <3>1. slots'[k] = newSlot(e)
      BY <1>0, <1>3, <2>1, <2>3, ExecuteFacts
    <3> QED
      BY <2>3, <3>1 DEF newSlot
  <2> QED
    BY <2>2, <2>3
<1>4. ASSUME NEW j \in Key, Expire(j), NEW k \in Key, slots'[k].state # "none" PROVE Good(k)
  <2>1. slots' = [slots EXCEPT ![j] = NoSlot]
    BY <1>4 DEF Expire
  <2>2. slots'[k] = slots[k]
    BY <1>0, <1>4, <2>1 DEF NoSlot
  <2> QED
    BY <1>2, <1>4, <2>2
<1>5. ASSUME NEW j \in Key, Lapse(j), lapses' = lapses + 1, NEW k \in Key,
             slots'[k].state # "none"
      PROVE  Good(k)
  <2> DEFINE t == [slots[j] EXCEPT !.leased = FALSE]
  <2>1. slots' = [slots EXCEPT ![j] = t] /\ slots[j].state = "active" /\ slots[j].leased
    BY <1>0, <1>5 DEF Lapse
  <2>2. t.reader = slots[j].reader /\ t.leased = FALSE
    BY <1>0 DEF Slot
  <2> HIDE DEF t
  <2>3. CASE k = j
    <3>1. slots'[k] = t
      BY <1>0, <2>1, <2>3
    <3>2. ClaimLapses(k)
      BY <1>5, <2>1, <2>2, <2>3, <3>1 DEF ClaimLapses
    <3> QED
      BY <2>1, <2>3, <3>2
  <2>4. CASE k # j
    <3>1. slots'[k] = slots[k]
      BY <1>0, <2>1, <2>4
    <3> QED
      BY <1>2, <1>5, <3>1
  <2> QED
    BY <2>3, <2>4
<1>6. ASSUME NEW k \in Key, slots'[k].state # "none" PROVE Good(k)
  <2>1. CASE UNCHANGED <<slots, created, lapses>>
    BY <1>2, <1>6, <2>1
  <2> QED
    BY <1>2, <1>3, <1>4, <1>5, <1>6, <2>1, LapseActs
<1> QED
  BY <1>1, <1>6

\* Only the reader that claims a slot joins those who have it, and nobody has a
\* slot that was just made.
LEMMA HoldersStep ==
    ASSUME TypeInv, RevisionInv, [Next]_vars, NEW k \in Key, slots'[k].state # "none"
    PROVE  /\ slots[k].state # "none" =>
                 holders(k)' \subseteq holders(k) \cup ({slots'[k].reader} \ {Nobody})
           /\ slots[k].state = "none" => holders(k)' \subseteq {slots'[k].reader} \ {Nobody}
<1>1. StoreStep /\ SlotsOK /\ SlotsOK'
  BY NextStoreStep, SlotsNext DEF RevisionInv
<1>2. created \in Nat
  BY DEF TypeInv, TypeOK
<1>3. ASSUME NEW a \in holders(k)', a \notin {slots'[k].reader} \ {Nobody}
      PROVE  slots[k].state # "none" /\ a \in holders(k)
  <2>1. a \in Reader
    BY <1>3 DEF holders
  <2>2. PICK p \in pieces(a)' : p.born = slots'[k].born
    BY <1>3 DEF holders
  <2>3. p \in pieces(a)
    <3>1. SUFFICES ASSUME NEW j \in Key, Fresh(a, p, j) PROVE FALSE
      BY <1>1, <2>1, PiecesGrow
    <3>2. j = k
      BY <1>1, <2>2, <3>1 DEF Fresh, SlotsOK
    <3> QED
      BY <1>3, <3>1, <3>2 DEF Fresh
  <2>4. p.born <= created
    BY <2>1, <2>3 DEF RevisionInv, PiecesOK
  <2>5. ~ MakesSlot(k)
    BY <1>2, <2>2, <2>4 DEF MakesSlot
  <2>6. KeepsSlot(k)
    BY <1>1, <2>5 DEF StoreStep
  <2> QED
    BY <2>1, <2>2, <2>3, <2>6 DEF KeepsSlot, holders
<1> QED
  BY <1>3

LEMMA TurnsNext == TypeInv /\ TurnsInv /\ [Next]_vars => TurnsInv'
<1> SUFFICES ASSUME TypeInv, TurnsInv, [Next]_vars PROVE TurnsInv'
  OBVIOUS
<1>1. RevisionInv /\ RevisionInv'
  BY RevisionNext DEF TurnsInv
<1>2. lapses \in Nat /\ lapses' \in {lapses, lapses + 1}
  BY NextClaimStep DEF TypeInv, TypeOK
<1>3. ASSUME NEW k \in Key, slots'[k].state # "none"
      PROVE  /\ slots'[k].leased => slots'[k].reader # Nobody
             /\ IsFiniteSet(holders(k)')
             /\ Cardinality(holders(k)') <= lapses' + (IF slots'[k].leased THEN 1 ELSE 0)
  <2>1. CASE slots[k].state = "none"
    <3>1. slots'[k].reader = Nobody /\ ~ slots'[k].leased
      BY <1>3, <2>1, NextClaimStep
    <3>2. holders(k)' = {}
      BY <1>1, <1>3, <2>1, <3>1, HoldersStep
    <3> QED
      BY <1>2, <3>1, <3>2, FS_EmptySet
  <2>2. CASE slots[k].state # "none"
    <3>1. /\ slots[k].leased => slots[k].reader # Nobody
          /\ IsFiniteSet(holders(k))
          /\ Cardinality(holders(k)) <= lapses + (IF slots[k].leased THEN 1 ELSE 0)
      BY <2>2 DEF TurnsInv, TurnsOK
    <3>2. holders(k)' \subseteq holders(k) \cup ({slots'[k].reader} \ {Nobody})
      BY <1>1, <1>3, <2>2, HoldersStep
    <3>3. slots[k].reader # Nobody => slots[k].reader \in holders(k)
      BY DEF holders
    <3>4. Cardinality(holders(k)) \in Nat
      BY <3>1, FS_CardinalityType
    \* With the claim of the same reader, or none, nobody joins them.
    <3>5. ASSUME slots'[k].reader = slots[k].reader
          PROVE  IsFiniteSet(holders(k)') /\ Cardinality(holders(k)') <= Cardinality(holders(k))
      <4>1. holders(k)' \subseteq holders(k)
        BY <3>2, <3>3, <3>5
      <4> QED
        BY <3>1, <4>1, FS_Subset
    <3>6. Cardinality(holders(k)') \in Nat \/ ~ IsFiniteSet(holders(k)')
      BY FS_CardinalityType
    <3>7. CASE ClaimStays(k)
      BY <1>2, <3>1, <3>4, <3>5, <3>6, <3>7 DEF ClaimStays
    <3>8. CASE ClaimLapses(k)
      BY <1>2, <3>1, <3>4, <3>5, <3>6, <3>8 DEF ClaimLapses
    <3>9. CASE ClaimTaken(k)
      <4>1. slots'[k].leased /\ slots'[k].reader # Nobody
        BY <3>9 DEF ClaimTaken
      <4>2. CASE slots[k].leased
        <5>1. slots'[k].reader = slots[k].reader
          BY <3>1, <3>9, <4>2 DEF ClaimTaken
        <5> QED
          BY <1>2, <3>1, <3>4, <3>5, <3>6, <4>1, <4>2, <5>1
      <4>3. CASE ~ slots[k].leased
        <5> DEFINE S == holders(k)
                   x == slots'[k].reader
                   H == S \cup {x}
        <5>1. IsFiniteSet(H) /\ Cardinality(H) <= Cardinality(holders(k)) + 1
          <6>1. IsFiniteSet(S) /\ Cardinality(S) \in Nat
            BY <3>1, <3>4
          <6> HIDE DEF S, x
          <6>2. /\ IsFiniteSet(S \cup {x})
                /\ Cardinality(S \cup {x}) \in {Cardinality(S), Cardinality(S) + 1}
            BY <6>1, FS_AddElement
          <6>3. IsFiniteSet(H) /\ Cardinality(H) <= Cardinality(S) + 1
            BY <6>1, <6>2
          <6> QED
            BY <6>3 DEF S
        <5>2. Cardinality(H) \in Nat
          BY <5>1, FS_CardinalityType
        <5>3. holders(k)' \subseteq H
          BY <3>2
        <5> HIDE DEF H
        <5>4. IsFiniteSet(holders(k)') /\ Cardinality(holders(k)') <= Cardinality(H)
          BY <5>1, <5>3, FS_Subset
        <5> QED
          BY <1>2, <3>1, <3>4, <3>6, <4>1, <4>3, <5>1, <5>2, <5>4
      <4> QED
        BY <4>2, <4>3
    <3> QED
      BY <1>3, <2>2, <3>7, <3>8, <3>9, NextClaimStep
  <2> QED
    BY <2>1, <2>2
<1>4. TurnsOK'
  BY <1>3 DEF TurnsOK
<1> QED
  BY <1>1, <1>4 DEF TurnsInv

\* However many readers there are and whatever is executed late or twice, one
\* value reaches one reader more than reader leases have ended.
THEOREM ReadersWaitTheirTurn == Spec => []ReadersTakeTurns
<1>1. Init => TurnsInv
  <2> SUFFICES ASSUME Init PROVE TurnsInv
    OBVIOUS
  <2>1. TurnsOK
    BY DEF Init, InitSlots, NoSlot, TurnsOK
  <2> QED
    BY <2>1, InitRevision DEF TurnsInv
<1>2. TypeInv /\ TurnsInv => ReadersTakeTurns
  <2> SUFFICES ASSUME TypeInv, TurnsInv, NEW k \in Key, slots[k].state # "none"
               PROVE  Cardinality({a \in Reader : \E t \in tokens[a] : \E s \in t :
                                       s.born = slots[k].born}) <= 1 + lapses
    BY DEF ReadersTakeTurns
  <2> DEFINE R == {a \in Reader : \E t \in tokens[a] : \E s \in t : s.born = slots[k].born}
  <2>1. R \subseteq holders(k)
    <3> SUFFICES ASSUME NEW a \in R PROVE a \in holders(k)
      OBVIOUS
    <3>1. a \in Reader
      OBVIOUS
    <3>2. PICK s \in UNION tokens[a] : s.born = slots[k].born
      OBVIOUS
    <3>3. s \in pieces(a)
      BY <3>2 DEF pieces
    <3> QED
      BY <3>1, <3>2, <3>3 DEF holders
  <2>2. /\ IsFiniteSet(holders(k)) /\ lapses \in Nat
        /\ Cardinality(holders(k)) <= lapses + (IF slots[k].leased THEN 1 ELSE 0)
    BY DEF TurnsInv, TurnsOK, TypeInv, TypeOK
  <2> HIDE DEF R
  <2>3. Cardinality(holders(k)) \in Nat /\ Cardinality(holders(k)) <= 1 + lapses
    <3>1. Cardinality(holders(k)) \in Nat
      BY <2>2, FS_CardinalityType
    <3> QED
      BY <2>2, <3>1
  <2>4. IsFiniteSet(R) /\ Cardinality(R) <= Cardinality(holders(k))
    BY <2>1, <2>2, FS_Subset
  <2>5. Cardinality(R) \in Nat
    BY <2>4, FS_CardinalityType
  <2>6. Cardinality(R) <= 1 + lapses
    BY <2>2, <2>3, <2>4, <2>5
  <2> QED
    BY <2>6 DEF R
<1> QED
  BY <1>1, <1>2, InitType, NextType, TurnsNext, PTL DEF Spec

-----------------------------------------------------------------------------
(* Everybody is told the same end.                                         *)

\* An end that was just reported of slot k.
Ends(x, k) ==
    /\ slots[k].state # "none" /\ slots'[k].state # "none"
    /\ x.born = slots'[k].born /\ x.status = slots'[k].state

LEMMA EndFacts ==
    ASSUME TypeInv, NEW e \in Envelopes, Execute(e), response(e).kind \in {"acked", "aborted"}
    PROVE  \E k \in Key : Ends([born |-> response(e).born, status |-> response(e).kind], k)
<1> DEFINE k == addressed(e)
           s == slots[k]
           t == slotAfter(s, e)
<1>1. e \in Envelope /\ slots \in [Key -> Slot] /\ created \in Nat /\ e.op \in Operation
  BY PendingFacts DEF Envelope
<1>2. k \in Key
  BY DEF response
<1>3. slots'[k] = t
  BY <1>1, <1>2 DEF Execute
<1>4. response(e).kind = kindOf(s, e) /\ response(e).born = t.born
  BY <1>2 DEF response
<1>5. s \in Slot
  BY <1>1, <1>2
<1> HIDE DEF k, s
<1>6. s.state # "none" /\ t.state = kindOf(s, e)
  <2>1. s.state \in {"none", "active", "acked", "aborted"}
    BY <1>5 DEF Slot
  <2>2. CASE e.op = "put"
    <3>1. putKind(s, e) = kindOf(s, e) /\ t = s
      BY <1>4, <2>2 DEF kindOf, slotAfter, putSlot
    <3>2. putKind(s, e) = s.state
      BY <1>4, <2>1, <3>1 DEF putKind
    <3> QED
      BY <1>4, <3>1, <3>2
  <2>3. CASE e.op \in {"get", "discover"}
    <3>1. readKind(s, e) = kindOf(s, e) /\ t = readSlot(s, e)
      BY <2>3 DEF kindOf, slotAfter
    <3>2. t = s
      BY <1>4, <3>1 DEF readSlot
    <3>3. readKind(s, e) = s.state
      BY <1>4, <2>1, <3>1 DEF readKind
    <3> QED
      BY <1>4, <3>1, <3>2, <3>3
  <2>4. CASE e.op = "ack"
    <3>1. ackKind(s, e) = kindOf(s, e) /\ t = [s EXCEPT !.state = ackKind(s, e)]
      BY <1>4, <2>4 DEF kindOf, slotAfter, terminal
    <3> QED
      BY <1>4, <1>5, <3>1 DEF ackKind, Slot
  <2>5. CASE e.op = "abort"
    <3>1. abortKind(s, e) = kindOf(s, e) /\ t = [s EXCEPT !.state = abortKind(s, e)]
      BY <1>4, <2>5 DEF kindOf, slotAfter, terminal
    <3> QED
      BY <1>4, <1>5, <3>1 DEF abortKind, Slot
  <2> QED
    BY <1>1, <2>2, <2>3, <2>4, <2>5 DEF Operation
<1> HIDE DEF t
<1> QED
  BY <1>2, <1>3, <1>4, <1>6 DEF Ends, s

LEMMA ToldGrow ==
    ASSUME TypeInv, [Next]_vars
    PROVE  \A x \in told' : x \in told \/ \E k \in Key : Ends(x, k)
<1> DEFINE Good == \A x \in told' : x \in told \/ \E k \in Key : Ends(x, k)
           end(r) == [born |-> r.born, status |-> r.kind]
<1>0. call \in [Actor -> Call] /\ outcomes \subseteq Outcome
  BY DEF TypeInv, TypeOK
<1>1. ASSUME UNCHANGED <<call, outcomes>> PROVE Good
  BY <1>1 DEF told
<1>2. ASSUME NEW b \in Actor, NEW c, call' = [call EXCEPT ![b] = c],
             c.got = [l \in Lane |-> NoResponse], outcomes' \subseteq told
      PROVE  Good
  <2> SUFFICES ASSUME NEW x \in told', x \notin outcomes' PROVE x \in told
    BY <1>2
  <2>1. PICK a \in Actor, l \in Lane : x \in Outcome /\ x = end(call'[a].got[l])
    BY DEF told
  <2>2. CASE a = b
    <3>1. call'[a].got[l] = NoResponse
      BY <1>0, <1>2, <2>2
    <3>2. x.status = "error"
      BY <2>1, <3>1 DEF NoResponse
    <3> QED
      BY <2>1, <3>2 DEF Outcome
  <2>3. CASE a # b
    <3>1. call'[a] = call[a]
      BY <1>0, <1>2, <2>3
    <3> QED
      BY <2>1, <3>1 DEF told
  <2> QED
    BY <2>2, <2>3
<1>3. outcomes \subseteq told
  BY DEF told
<1>4. /\ \A e : started(e).got = [l \in Lane |-> NoResponse]
      /\ \A b \in Actor : idle(b).got = [l \in Lane |-> NoResponse]
  BY DEF started, idle
<1>5. ASSUME NEW b \in Actor, NEW op, NEW k, NEW r, Begin(b, op, k, r) PROVE Good
  <2> DEFINE e == [op |-> op, actor |-> b, key |-> k, revision |-> r]
  <2>1. call' = [call EXCEPT ![b] = started(e)] /\ outcomes' = outcomes
    BY <1>5 DEF Begin
  <2> HIDE DEF e, Good
  <2> QED
    BY <1>2, <1>3, <1>4, <2>1
<1>6. ASSUME NEW b \in Actor, NEW l \in Lane, LaneExecuted(b, l) PROVE Good
  <2> DEFINE e == call[b].env
  <2>1. e \in Envelopes /\ Execute(e) /\ outcomes' = outcomes
    BY <1>6 DEF LaneExecuted, Envelopes
  <2>2. call[b].got \in [Lane -> Response] /\ call[b] \in Call
    BY <1>0 DEF Call
  <2>3. /\ call'[b].got = [call[b].got EXCEPT ![l] = response(e)]
        /\ \A a \in Actor \ {b} : call'[a] = call[a]
    BY <1>0, <1>6, <2>2 DEF LaneExecuted, Call
  <2> HIDE DEF e
  <2> SUFFICES ASSUME NEW x \in told', x \notin outcomes
               PROVE  x \in told \/ \E k \in Key : Ends(x, k)
    BY <2>1, <1>3
  <2>4. PICK a \in Actor, m \in Lane : x \in Outcome /\ x = end(call'[a].got[m])
    BY <2>1 DEF told
  <2>5. CASE a = b /\ m = l
    <3>1. x = end(response(e)) /\ x.status \in {"acked", "aborted"}
      BY <2>2, <2>3, <2>4, <2>5 DEF Outcome
    <3>2. response(e).kind \in {"acked", "aborted"}
      BY <3>1
    <3> QED
      BY <2>1, <3>1, <3>2, EndFacts
  <2>6. CASE ~ (a = b /\ m = l)
    <3>1. call'[a].got[m] = call[a].got[m]
      BY <2>2, <2>3, <2>6
    <3> QED
      BY <2>4, <3>1 DEF told
  <2> QED
    BY <2>5, <2>6
<1>7. ASSUME NEW b \in Actor, Ended(b) PROVE Good
  <2>1. call' = [call EXCEPT ![b] = idle(b)]
    BY <1>7 DEF Ended, Finish
  <2>2. outcomes' \subseteq told
    <3> SUFFICES ASSUME NEW l \in Lane PROVE end(call[b].got[l]) \in told
      BY <1>3, <1>7 DEF Ended
    <3>1. call[b].got[l] \in Response
      BY <1>0 DEF Call
    <3>2. call[b].got[l].kind \in {"acked", "aborted"}
      <4>1. kinds(call[b]) \in {{"acked"}, {"aborted"}}
        BY <1>7 DEF Ended, ended
      <4> QED
        BY <4>1 DEF kinds
    <3>3. end(call[b].got[l]) \in Outcome
      BY <3>1, <3>2 DEF Outcome, Response
    <3> QED
      BY <3>3 DEF told
  <2> HIDE DEF Good
  <2> QED
    BY <1>2, <1>4, <2>1, <2>2
<1>8. ASSUME NEW b \in Actor, NextPage(b) PROVE Good
  <2> DEFINE j == joined(call[b])
             c == [j EXCEPT !.page = @ + 1, !.done = {}, !.got = [l \in Lane |-> NoResponse]]
  <2>1. call' = [call EXCEPT ![b] = c] /\ outcomes' = outcomes
    BY <1>8 DEF NextPage
  <2>2. j \in Call
    BY <1>8, PendingFacts, JoinedFacts DEF TypeInv, CallsOK, NextPage
  <2> HIDE DEF j
  <2>3. c.got = [l \in Lane |-> NoResponse]
    BY <2>2 DEF Call
  <2> HIDE DEF c, Good
  <2> QED
    BY <1>2, <1>3, <2>1, <2>3
<1> HIDE DEF Good
<1>9. ASSUME NEW b \in Actor, call' = [call EXCEPT ![b] = idle(b)], outcomes' = outcomes PROVE Good
  BY <1>2, <1>3, <1>4, <1>9
<1>10. ASSUME NEW b \in Actor, Client(b) PROVE Good
  BY <1>1, <1>6, <1>7, <1>8, <1>9, <1>10 DEF Client, LaneRepeats, TimeOut, PutStored,
         ReadDone, CallFails, Answered, Finish, clients
<1>11. ASSUME NEW b \in Actor, Discover(b) \/ Ack(b) \/ Abort(b) \/ \E k \in Key : Put(b, k) \/ Get(b, k)
       PROVE  Good
  BY <1>5, <1>11 DEF Discover, Ack, Abort, Put, Get
<1>12. ASSUME \/ \E e \in strays : StrayExecuted(e)
              \/ \E k \in Key : SlotExpires(k) \/ LeaseLapses(k)
              \/ UNCHANGED vars
       PROVE  Good
  BY <1>1, <1>12 DEF StrayExecuted, SlotExpires, LeaseLapses, clients, vars
<1>13. Reader \subseteq Actor /\ Writer \subseteq Actor
  BY DEF Actor
<1>14. Good
  BY <1>10, <1>11, <1>12, <1>13 DEF Next
<1> QED
  BY <1>14 DEF Good

LEMMA ToldNext == TypeInv /\ ToldInv /\ [Next]_vars => ToldInv'
<1> SUFFICES ASSUME TypeInv, ToldInv, [Next]_vars PROVE ToldInv'
  OBVIOUS
<1>0. /\ created \in Nat /\ told \subseteq Outcome
      /\ \A k \in Key : slots[k].state \in {"none", "active", "acked", "aborted"}
  BY DEF TypeInv, TypeOK, told, Slot
<1>1. StoreStep
  BY NextStoreStep
<1>2. SlotsOK /\ SlotsOK'
  BY <1>1, SlotsNext DEF ToldInv
<1>3. ASSUME NEW x \in told', x \notin told PROVE \E k \in Key : Ends(x, k)
  BY <1>3, ToldGrow
\* What was told before the step still holds.
<1>4. ASSUME NEW x \in told
      PROVE  /\ x.born <= created'
             /\ \A k \in Key : slots'[k].state # "none" /\ slots'[k].born = x.born =>
                   slots'[k].state = x.status
  <2>1. x.born \in Nat /\ x.born <= created /\ x.status \in {"acked", "aborted"}
    BY <1>0 DEF ToldInv, ToldOK, Outcome
  <2>2. x.born <= created'
    BY <1>0, <1>1, <2>1 DEF StoreStep
  <2>3. ASSUME NEW k \in Key, slots'[k].state # "none", slots'[k].born = x.born
        PROVE  slots'[k].state = x.status
    <3>1. CASE KeepsSlot(k)
      <4>1. slots[k].state = x.status
        BY <2>3, <3>1 DEF KeepsSlot, ToldInv, ToldOK
      <4> QED
        BY <2>1, <3>1, <4>1 DEF KeepsSlot
    <3>2. CASE MakesSlot(k)
      <4>1. slots'[k].born = created + 1
        BY <3>2 DEF MakesSlot
      <4>2. x.born = created + 1
        BY <2>3, <4>1
      <4> QED
        BY <1>0, <2>1, <4>2
    <3> QED
      BY <1>1, <2>3, <3>1, <3>2 DEF StoreStep
  <2> QED
    BY <2>2, <2>3
\* And so does what was told in it.
<1>5. ASSUME NEW x \in told'
      PROVE  /\ x.born <= created'
             /\ \A k \in Key : slots'[k].state # "none" /\ slots'[k].born = x.born =>
                   slots'[k].state = x.status
  <2>1. CASE x \in told
    BY <1>4, <2>1
  <2>2. CASE x \notin told
    <3>1. PICK j \in Key : Ends(x, j)
      BY <1>3, <2>2
    <3>2. x.born <= created'
      BY <1>2, <3>1 DEF Ends, SlotsOK
    <3>3. \A k \in Key : slots'[k].state # "none" /\ slots'[k].born = x.born => k = j
      BY <1>2, <3>1 DEF Ends, SlotsOK
    <3> QED
      BY <3>1, <3>2, <3>3 DEF Ends
  <2> QED
    BY <2>1, <2>2
<1>6. ASSUME NEW x \in told', NEW y \in told', x.born = y.born PROVE x.status = y.status
  <2>1. CASE x \in told /\ y \in told
    BY <1>6, <2>1 DEF ToldInv, ToldOK
  <2>2. CASE x \notin told
    <3>1. PICK k \in Key : Ends(x, k)
      BY <1>3, <2>2
    <3> QED
      BY <1>5, <1>6, <3>1 DEF Ends
  <2>3. CASE y \notin told
    <3>1. PICK k \in Key : Ends(y, k)
      BY <1>3, <2>3
    <3> QED
      BY <1>5, <1>6, <3>1 DEF Ends
  <2> QED
    BY <2>1, <2>2, <2>3
<1>7. ToldOK'
  BY <1>5, <1>6 DEF ToldOK
<1> QED
  BY <1>2, <1>7 DEF ToldInv

\* However acks and aborts of a slot cross, lane by lane, all that end well
\* report the same end.
THEOREM EverybodyToldOneEnd == Spec => []OneEnd
<1>1. Init => ToldInv
  <2> SUFFICES ASSUME Init PROVE ToldInv
    OBVIOUS
  <2>1. SlotsOK
    BY DEF Init, InitSlots, NoSlot, SlotsOK
  <2>2. told = {}
    <3> SUFFICES ASSUME NEW x \in told PROVE FALSE
      OBVIOUS
    <3>1. PICK a \in Actor, l \in Lane :
             x \in Outcome /\ x = [born |-> call[a].got[l].born, status |-> call[a].got[l].kind]
      BY DEF told, Init
    <3>2. call[a].got[l] = NoResponse
      BY DEF Init, idle, started
    <3> QED
      BY <3>1, <3>2 DEF NoResponse, Outcome
  <2> QED
    BY <2>1, <2>2 DEF ToldInv, ToldOK
<1>2. ToldInv => OneEnd
  BY DEF ToldInv, ToldOK, OneEnd, told
<1> QED
  BY <1>1, <1>2, InitType, NextType, ToldNext, PTL DEF Spec

=============================================================================
