--------------------------- MODULE MailboxProofs ---------------------------
(***************************************************************************)
(* Proofs about Mailbox for every pair of nodes, window and number of      *)
(* faults: the type invariant, and that an acknowledgement never covers a  *)
(* message the peer's user was not handed.                                 *)
(***************************************************************************)
EXTENDS Mailbox, TLAPS

\* The two nodes are each other's peers.
LEMMA PeerFacts ==
    \A n \in Node : Peer(n) \in Node /\ Peer(n) # n /\ Peer(Peer(n)) = n
BY NodeAssumption DEF Peer

\* The helpers of poll and of load return state records.
LEMMA StateFacts ==
    /\ \A e \in Nat : blank_state(e) \in State
    /\ \A st \in State : outdated(st) \in State
    /\ \A st \in State, env \in Envelope : track(st, env) \in State
    /\ \A st \in State, env \in Envelope : honour(st, env) \in State
    /\ \A st \in State : envelope(st) \in Envelope
    /\ \A S \in SUBSET Nat : newest(S) \in SUBSET Nat
    /\ NoVersion \in Version
<1>1. \A e \in Nat : blank_state(e) \in State
  BY DEF blank_state, State, NoEpoch, Message
<1>2. \A st \in State : outdated(st) \in State
  BY DEF outdated, State
<1>3. \A st \in State, env \in Envelope : track(st, env) \in State
  BY DEF track, State, Envelope
<1>4. \A st \in State, env \in Envelope : honour(st, env) \in State
  BY DEF honour, State, Envelope
<1>5. \A st \in State : envelope(st) \in Envelope
  BY DEF envelope, unacked, State, Envelope
<1>6. \A S \in SUBSET Nat : newest(S) \in SUBSET Nat
  BY DEF newest
<1>7. NoVersion \in Version
  BY DEF NoVersion, Version, Envelope, first_envelope, NoEpoch
<1> QED
  BY <1>1, <1>2, <1>3, <1>4, <1>5, <1>6, <1>7

\* The fields of a record, and the updates the actions make.
LEMMA FieldFacts ==
    ASSUME NEW st \in State
    PROVE  /\ st.epoch \in Nat /\ st.next_seq \in Nat /\ st.outbox \in SUBSET Message
           /\ st.peer_acked \in Nat /\ st.peer_epoch \in Nat
           /\ st.seen \in SUBSET Nat /\ st.ack_through \in Nat /\ st.owed \in Nat
BY DEF State

LEMMA UpdateFacts ==
    ASSUME NEW st \in State
    PROVE  /\ \A v \in BOOLEAN : [st EXCEPT !.bad_version = v] \in State
           /\ \A S \in SUBSET Nat : [st EXCEPT !.seen = S] \in State
           /\ \A S \in SUBSET Nat, v \in BOOLEAN :
                 [st EXCEPT !.seen = S, !.peer_ver = v] \in State
           /\ \A o \in Nat : [st EXCEPT !.owed = o] \in State
           /\ \A S \in SUBSET Nat, o, w \in Nat :
                 [st EXCEPT !.seen = S, !.owed = o, !.ack_through = w] \in State
           /\ \A q \in Nat, M \in SUBSET Message :
                 [st EXCEPT !.next_seq = q, !.outbox = M] \in State
BY DEF State

LEMMA VersionFacts ==
    ASSUME NEW v \in Version
    PROVE  v.current \in BOOLEAN /\ v.env \in Envelope /\ v.env.msgs \in SUBSET Message
BY DEF Version, Envelope

\* What a process loads is a state record, with an epoch of its own.
LEMMA LoadFacts ==
    ASSUME TypeOK, NEW n \in Node
    PROVE  loaded(n) \in State /\ loaded(n).epoch # NoEpoch
<1>1. epochs + 1 \in Nat /\ epochs + 1 # NoEpoch
  BY DEF TypeOK, NoEpoch
<1>2. blank_state(epochs + 1).epoch = epochs + 1
  BY DEF blank_state
<1> QED
  BY <1>1, <1>2, StateFacts DEF loaded, TypeOK

LEMMA InitType == Init => TypeOK
<1> SUFFICES ASSUME Init PROVE TypeOK
  OBVIOUS
<1>1. disk \in [Node -> State]
  BY StateFacts DEF Init
<1>2. first_envelope \in Envelope
  BY DEF first_envelope, Envelope, NoEpoch
<1>3. held \in [Node -> Version]
  BY StateFacts DEF Init
<1>4. log \in [Node -> Seq(Entry)]
  BY DEF Init
<1> QED
  BY <1>1, <1>2, <1>3, <1>4 DEF Init, TypeOK

LEMMA NextType == TypeOK /\ [Next]_vars => TypeOK'
<1> SUFFICES ASSUME TypeOK, [Next]_vars PROVE TypeOK'
  OBVIOUS
<1> USE DEF TypeOK, Polling, Return
<1>1. ASSUME NEW n \in Node, BootNothing(n) PROVE TypeOK'
  <2>1. loaded(n) \in State
    BY LoadFacts
  <2>2. mem' \in [Node -> State]
    BY <1>1, <2>1 DEF BootNothing
  <2>3. epochs' \in Nat \ {0}
    BY <1>1 DEF BootNothing, Load
  <2> QED
    BY <1>1, <2>2, <2>3, StateFacts DEF BootNothing
<1>2. ASSUME NEW n \in Node, BootChanged(n) PROVE TypeOK'
  <2>1. loaded(n) \in State
    BY LoadFacts
  <2>2. mem' \in [Node -> State]
    BY <1>2, <2>1 DEF BootChanged
  <2>3. epochs' \in Nat \ {0}
    BY <1>2 DEF BootChanged, Load
  <2>4. [current |-> TRUE, env |-> frame[Peer(n)]] \in Version
    BY PeerFacts DEF Version
  <2>5. held' \in [Node -> Version]
    BY <1>2, <2>4 DEF BootChanged
  <2> QED
    BY <1>2, <2>2, <2>3, <2>5 DEF BootChanged
<1>3. ASSUME NEW n \in Node, ContentFails(n) PROVE TypeOK'
  BY <1>3, StateFacts DEF ContentFails
<1>4. ASSUME NEW n \in Node, ContentBad(n) PROVE TypeOK'
  <2>1. [mem[n] EXCEPT !.bad_version = held[n].current] \in State
    BY UpdateFacts, VersionFacts
  <2>2. mem' \in [Node -> State]
    BY <1>4, <2>1 DEF ContentBad
  <2>3. bad' \in [Node -> Nat]
    BY <1>4 DEF ContentBad
  <2> QED
    BY <1>4, <2>2, <2>3, StateFacts DEF ContentBad
<1>5. ASSUME NEW n \in Node, ContentGood(n) PROVE TypeOK'
  <2> DEFINE st == honour(track(mem[n], held[n].env), held[n].env)
  <2>1. st \in State /\ held[n].env.msgs \in SUBSET Message
    BY StateFacts DEF Version, Envelope
  <2>2. /\ mem' = [mem EXCEPT ![n] = st]
        /\ fresh' = [fresh EXCEPT ![n] = {m \in held[n].env.msgs : m.seq \notin st.seen}]
    BY <1>5 DEF ContentGood
  <2>3. {m \in held[n].env.msgs : m.seq \notin st.seen} \in SUBSET Message
    BY <2>1
  <2> HIDE DEF st
  <2>4. mem' \in [Node -> State] /\ fresh' \in [Node -> SUBSET Message]
    BY <2>1, <2>2, <2>3
  <2> QED
    BY <1>5, <2>4 DEF ContentGood
<1>6. ASSUME NEW n \in Node, Deliver(n) PROVE TypeOK'
  <2>1. PICK m \in fresh[n] :
          /\ log' = [log EXCEPT ![n] = Append(@, [epoch |-> mem[n].peer_epoch,
                                                  seq |-> m.seq, id |-> m.id])]
          /\ fresh' = [fresh EXCEPT ![n] = @ \ {m}]
          /\ \E w \in mem[n].seen \cup {m.seq} \cup {mem[n].ack_through} :
                mem' = [mem EXCEPT ![n].seen = mem[n].seen \cup {m.seq},
                                   ![n].owed = @ + 1, ![n].ack_through = w]
    BY <1>6 DEF Deliver
  <2>2. m \in Message /\ mem[n] \in State
    OBVIOUS
  <2>3. [epoch |-> mem[n].peer_epoch, seq |-> m.seq, id |-> m.id] \in Entry
    BY <2>2 DEF Entry, Message, State
  <2>4. log' \in [Node -> Seq(Entry)]
    BY <2>1, <2>3
  <2>5. PICK w \in Nat :
          mem' = [mem EXCEPT ![n].seen = mem[n].seen \cup {m.seq},
                             ![n].owed = @ + 1, ![n].ack_through = w]
    BY <2>1, <2>2 DEF State, Message
  <2>6. [mem[n] EXCEPT !.seen = mem[n].seen \cup {m.seq},
                       !.owed = @ + 1, !.ack_through = w] \in State
    <3>1. mem[n].owed + 1 \in Nat /\ mem[n].seen \cup {m.seq} \in SUBSET Nat
      BY <2>2, FieldFacts DEF Message
    <3> QED
      BY <2>2, <3>1, UpdateFacts
  <2>7. mem' \in [Node -> State]
    BY <2>5, <2>6
  <2>8. fresh' \in [Node -> SUBSET Message]
    BY <2>1
  <2> QED
    BY <1>6, <2>4, <2>7, <2>8 DEF Deliver
<1>7. ASSUME NEW n \in Node, DeliverRaises(n) PROVE TypeOK'
  <2>1. newest(mem[n].seen) \in SUBSET Nat
    BY StateFacts, FieldFacts
  <2>2. [mem[n] EXCEPT !.seen = newest(mem[n].seen)] \in State
    BY <2>1, UpdateFacts
  <2>3. mem' \in [Node -> State]
    BY <1>7, <2>2 DEF DeliverRaises
  <2> QED
    BY <1>7, <2>3, StateFacts DEF DeliverRaises
<1>8. ASSUME NEW n \in Node, EndPoll(n) PROVE TypeOK'
  <2>1. newest(mem[n].seen) \in SUBSET Nat
    BY StateFacts, FieldFacts
  <2>2. [mem[n] EXCEPT !.seen = newest(mem[n].seen), !.peer_ver = held[n].current]
          \in State
    BY <2>1, UpdateFacts, VersionFacts
  <2>3. mem' \in [Node -> State]
    BY <1>8, <2>2 DEF EndPoll
  <2> QED
    BY <1>8, <2>3, StateFacts DEF EndPoll
<1>9. ASSUME NEW n \in Node, NEW p \in {"lineflush", "save"}, Line(n, p) PROVE TypeOK'
  <2> DEFINE ld == loaded(n)
             m == [seq |-> ld.next_seq, id |-> said[n] + 1]
             st == [ld EXCEPT !.next_seq = @ + 1,
                              !.outbox = {x \in ld.outbox \cup {m} : x.seq > ld.peer_acked}]
  <2>1. ld \in State
    BY LoadFacts
  <2>2. m \in Message
    BY <2>1, FieldFacts DEF Message
  <2>3. {x \in ld.outbox \cup {m} : x.seq > ld.peer_acked} \in SUBSET Message
    BY <2>1, <2>2, FieldFacts
  <2>4. ld.next_seq + 1 \in Nat
    BY <2>1, FieldFacts
  <2>5. st \in State
    BY <2>1, <2>3, <2>4, UpdateFacts
  <2>6. mem' = [mem EXCEPT ![n] = st]
    BY <1>9 DEF Line
  <2>7. mem' \in [Node -> State]
    BY <2>5, <2>6
  <2>8. epochs' \in Nat \ {0}
    BY <1>9 DEF Line, Load
  <2>9. said' \in [Node -> Nat]
    BY <1>9 DEF Line
  <2> QED
    BY <1>9, <2>7, <2>8, <2>9 DEF Line
<1>10. ASSUME NEW n \in Node, NEW o \in Nat, pc[n] \in {"flush", "lineflush"},
              publish(n, o)
       PROVE TypeOK'
  <2>1. Peer(n) \in Node /\ Peer(n) # n
    BY PeerFacts
  <2>2. [mem[n] EXCEPT !.owed = o] \in State
    BY UpdateFacts
  <2>3. outdated(mem[Peer(n)]) \in State /\ outdated(disk[Peer(n)]) \in State
    BY <2>1, StateFacts
  <2>4. mem' \in [Node -> State]
    BY <1>10, <2>1, <2>2, <2>3 DEF publish
  <2>5. disk' \in [Node -> State]
    BY <1>10, <2>1, <2>3 DEF publish
  <2>6. [held[Peer(n)] EXCEPT !.current = FALSE] \in Version
    BY <2>1 DEF Version
  <2>7. held' \in [Node -> Version]
    BY <1>10, <2>1, <2>6 DEF publish
  <2>8. frame' \in [Node -> Envelope]
    BY <1>10, StateFacts DEF publish
  <2> QED
    BY <1>10, <2>4, <2>5, <2>7, <2>8 DEF publish
<1>11. ASSUME NEW n \in Node, Flush(n) \/ FlushUnanswered(n) PROVE TypeOK'
  <2>1. mem[n].owed \in Nat
    BY FieldFacts
  <2> QED
    BY <1>10, <1>11, <2>1 DEF Flush, FlushUnanswered, mayPublish
<1>12. ASSUME NEW n \in Node, FlushNothing(n) PROVE TypeOK'
  BY <1>12 DEF FlushNothing
<1>13. ASSUME NEW n \in Node, Save(n) PROVE TypeOK'
  <2>1. kept' \in [Node -> SUBSET Nat]
    BY <1>13 DEF Save
  <2>2. disk' \in [Node -> State]
    BY <1>13 DEF Save
  <2> QED
    BY <1>13, <2>1, <2>2 DEF Save
<1>14. ASSUME NEW n \in Node, Crash(n) PROVE TypeOK'
  <2>1. mem' \in [Node -> State] /\ fresh' \in [Node -> SUBSET Message]
    BY <1>14 DEF Crash
  <2>2. crashes' \in [Node -> Nat]
    BY <1>14 DEF Crash
  <2> QED
    BY <1>14, <2>1, <2>2, StateFacts DEF Crash
<1>15. ASSUME NEW n \in Node, LoseState(n) PROVE TypeOK'
  <2>1. blank_state(NoEpoch) \in State
    BY StateFacts DEF NoEpoch
  <2> QED
    BY <1>15, <2>1 DEF LoseState
<1>16. CASE UNCHANGED vars
  BY <1>16 DEF vars
<1> QED
  BY <1>1, <1>2, <1>3, <1>4, <1>5, <1>6, <1>7, <1>8, <1>9, <1>11, <1>12,
     <1>13, <1>14, <1>15, <1>16 DEF Next, Cycle

\* Every variable keeps its type in every reachable state.
THEOREM TypeCorrect == Spec => []TypeOK
BY InitType, NextType, PTL DEF Spec

-----------------------------------------------------------------------------
(* Acknowledgements.  Lemmas about the records, then one step per action.  *)

\* Deliveries are never taken back.
LEMMA HandedGrows ==
    ASSUME NEW lg \in Seq(Entry), NEW x \in Entry
    PROVE  /\ \A e, s : handed(lg, e, s) => handed(Append(lg, x), e, s)
           /\ handed(Append(lg, x), x.epoch, x.seq)
<1>1. Len(Append(lg, x)) = Len(lg) + 1 /\ Len(lg) \in Nat
  OBVIOUS
<1>2. \A i \in 1 .. Len(lg) : Append(lg, x)[i] = lg[i]
  OBVIOUS
<1>3. Append(lg, x)[Len(lg) + 1] = x
  OBVIOUS
<1> QED
  BY <1>1, <1>2, <1>3 DEF handed

LEMMA SoundGrows ==
    ASSUME NEW lg \in Seq(Entry), NEW x \in Entry
    PROVE  /\ \A st : ackedSound(st, lg) => ackedSound(st, Append(lg, x))
           /\ \A st : trackSound(st, lg) => trackSound(st, Append(lg, x))
           /\ \A env : envelopeSound(env, lg) => envelopeSound(env, Append(lg, x))
BY HandedGrows DEF ackedSound, trackSound, envelopeSound

\* A blank state claims nothing.
LEMMA BlankSound ==
    ASSUME NEW e, NEW lg
    PROVE  ackedSound(blank_state(e), lg) /\ trackSound(blank_state(e), lg)
BY DEF ackedSound, trackSound, blank_state

\* An epoch change makes tracking start afresh; an acknowledgement of this
\* epoch is as sound as the envelope that carried it.
LEMMA TrackStep ==
    ASSUME NEW st \in State, NEW env \in Envelope, NEW own, NEW other,
           ackedSound(st, other), trackSound(st, own)
    PROVE  /\ track(st, env) \in State
           /\ track(st, env).epoch = st.epoch
           /\ ackedSound(track(st, env), other)
           /\ trackSound(track(st, env), own)
<1>1. track(st, env) \in State
  BY StateFacts
<1>2. CASE env.epoch \in {NoEpoch, st.peer_epoch}
  BY <1>1, <1>2 DEF track
<1>3. CASE env.epoch \notin {NoEpoch, st.peer_epoch}
  <2> DEFINE new == [st EXCEPT !.peer_epoch = env.epoch, !.seen = {}, !.ack_through = 0]
  <2>1. track(st, env) = new
    BY <1>3 DEF track
  <2>2. /\ new.peer_acked = st.peer_acked /\ new.epoch = st.epoch
        /\ new.seen = {} /\ new.ack_through = 0
    BY DEF State
  <2> HIDE DEF new
  <2> QED
    BY <1>1, <2>1, <2>2 DEF ackedSound, trackSound
<1> QED
  BY <1>2, <1>3

LEMMA HonourStep ==
    ASSUME NEW st \in State, NEW env \in Envelope, NEW own, NEW other,
           st.epoch # NoEpoch, ackedSound(st, other), trackSound(st, own),
           envelopeSound(env, other)
    PROVE  /\ honour(st, env).epoch = st.epoch
           /\ ackedSound(honour(st, env), other)
           /\ trackSound(honour(st, env), own)
<1>1. CASE env.ack_epoch # st.epoch
  BY <1>1 DEF honour
<1>2. CASE env.ack_epoch = st.epoch
  <2> DEFINE a == IF env.ack > st.peer_acked THEN env.ack ELSE st.peer_acked
             new == [st EXCEPT !.peer_acked = a, !.outbox = {m \in st.outbox : m.seq > a}]
  <2>1. honour(st, env) = new
    BY <1>2 DEF honour
  <2>2. /\ new.peer_acked = a /\ new.epoch = st.epoch
        /\ new.peer_epoch = st.peer_epoch /\ new.seen = st.seen
        /\ new.ack_through = st.ack_through
    BY DEF State
  <2>3. \A s \in 1 .. a : handed(other, st.epoch, s)
    BY <1>2 DEF ackedSound, envelopeSound
  <2> HIDE DEF new, a
  <2> QED
    BY <2>1, <2>2, <2>3 DEF ackedSound, trackSound
<1> QED
  BY <1>1, <1>2

\* A delivery extends what is tracked by what was handed over.
LEMMA DeliverStep ==
    ASSUME NEW st \in State, NEW lg \in Seq(Entry), trackSound(st, lg),
           NEW x \in Entry, x.epoch = st.peer_epoch,
           NEW o \in Nat, NEW w \in Nat,
           (st.ack_through + 1) .. w \subseteq st.seen \cup {x.seq}
    PROVE  trackSound([st EXCEPT !.seen = st.seen \cup {x.seq}, !.owed = o,
                                 !.ack_through = w], Append(lg, x))
<1> DEFINE new == [st EXCEPT !.seen = st.seen \cup {x.seq}, !.owed = o,
                             !.ack_through = w]
<1>1. /\ new.seen = st.seen \cup {x.seq} /\ new.ack_through = w
      /\ new.peer_epoch = st.peer_epoch
  BY DEF State
<1>2. st.ack_through \in Nat
  BY FieldFacts
<1>3. ASSUME st.peer_epoch # NoEpoch, NEW s \in st.seen \cup {x.seq} \cup 1 .. w
      PROVE  handed(Append(lg, x), st.peer_epoch, s)
  <2>1. CASE s = x.seq
    BY <2>1, HandedGrows
  <2>2. CASE s \in st.seen \cup 1 .. st.ack_through
    BY <1>3, <2>2, HandedGrows DEF trackSound
  <2> QED
    BY <1>2, <1>3, <2>1, <2>2
<1> HIDE DEF new
<1>4. trackSound(new, Append(lg, x))
  BY <1>1, <1>3 DEF trackSound
<1> QED
  BY <1>4 DEF new

\* What the other updates of a record leave sound.
LEMMA KeepSound ==
    ASSUME NEW st \in State, NEW new \in State, NEW own, NEW other,
           new.epoch = st.epoch, new.peer_acked = st.peer_acked,
           new.peer_epoch = st.peer_epoch, new.seen \subseteq st.seen,
           new.ack_through = st.ack_through
    PROVE  /\ ackedSound(st, other) => ackedSound(new, other)
           /\ trackSound(st, own) => trackSound(new, own)
BY DEF ackedSound, trackSound

\* An envelope acknowledges what its sender tracks.
LEMMA EnvelopeStep ==
    ASSUME NEW st, NEW lg, trackSound(st, lg)
    PROVE  envelopeSound(envelope(st), lg)
BY DEF trackSound, envelopeSound, envelope

\* A step leaves the deliveries of a node alone, or adds one.
LEMMA LogGrows ==
    ASSUME TypeOK, [Next]_vars, NEW n \in Node
    PROVE  log'[n] = log[n] \/ \E x \in Entry : log'[n] = Append(log[n], x)
<1>1. ASSUME NEW k \in Node, Deliver(k)
      PROVE  log'[n] = log[n] \/ \E x \in Entry : log'[n] = Append(log[n], x)
  <2>1. PICK m \in fresh[k] :
          log' = [log EXCEPT ![k] = Append(@, [epoch |-> mem[k].peer_epoch,
                                               seq |-> m.seq, id |-> m.id])]
    BY <1>1 DEF Deliver
  <2>2. m \in Message /\ mem[k] \in State
    BY DEF TypeOK
  <2>3. [epoch |-> mem[k].peer_epoch, seq |-> m.seq, id |-> m.id] \in Entry
    BY <2>2, FieldFacts DEF Entry, Message
  <2> QED
    BY <2>1, <2>3 DEF TypeOK
<1>2. ASSUME NEW k \in Node, Cycle(k), ~ Deliver(k) PROVE log' = log
  BY <1>2 DEF Cycle, BootNothing, BootChanged, ContentFails, ContentBad, ContentGood,
     DeliverRaises, EndPoll, Flush, FlushUnanswered, FlushNothing, Save, publish
<1>3. ASSUME NEW k \in Node,
             Line(k, "lineflush") \/ Line(k, "save") \/ Crash(k) \/ LoseState(k)
      PROVE  log' = log
  BY <1>3 DEF Line, Crash, LoseState
<1>4. CASE UNCHANGED vars
  BY <1>4 DEF vars
<1> QED
  BY <1>1, <1>2, <1>3, <1>4 DEF Next

\* So whatever was sound of an unchanged record stays sound.
LEMMA StaysSound ==
    ASSUME TypeOK, [Next]_vars, NEW n \in Node
    PROVE  /\ \A st : ackedSound(st, log[n]) => ackedSound(st, log'[n])
           /\ \A st : trackSound(st, log[n]) => trackSound(st, log'[n])
           /\ \A env : envelopeSound(env, log[n]) => envelopeSound(env, log'[n])
<1>1. CASE log'[n] = log[n]
  BY <1>1
<1>2. ASSUME NEW x \in Entry, log'[n] = Append(log[n], x)
      PROVE  /\ \A st : ackedSound(st, log[n]) => ackedSound(st, log'[n])
             /\ \A st : trackSound(st, log[n]) => trackSound(st, log'[n])
             /\ \A env : envelopeSound(env, log[n]) => envelopeSound(env, log'[n])
  <2>1. log[n] \in Seq(Entry)
    BY DEF TypeOK
  <2> QED
    BY <1>2, <2>1, SoundGrows
<1> QED
  BY <1>1, <1>2, LogGrows

LEMMA InitChain == Init => AckChain
<1> SUFFICES ASSUME Init PROVE AckChain
  OBVIOUS
<1>1. ASSUME NEW n \in Node
      PROVE  \E e \in {1, 2} : disk[n] = blank_state(e) /\ mem[n] = blank_state(e)
  BY DEF Init
<1>2. ASSUME NEW n \in Node
      PROVE  frame[n].ack_epoch = NoEpoch /\ held[n].env.ack_epoch = NoEpoch
  BY DEF Init, first_envelope, NoVersion
<1>3. ASSUME NEW n \in Node, NEW lg
      PROVE  /\ ackedSound(mem[n], lg) /\ ackedSound(disk[n], lg)
             /\ trackSound(mem[n], lg) /\ trackSound(disk[n], lg)
             /\ envelopeSound(frame[n], lg) /\ envelopeSound(held[n].env, lg)
  BY <1>1, <1>2, BlankSound DEF envelopeSound
<1>4. \A n \in Node : pc[n] = "idle"
  BY DEF Init
<1> QED
  BY <1>3, <1>4, PeerFacts DEF AckChain, AckSound

\* The chain at node q in the next state.
Chained(q) ==
    /\ ackedSound(mem[q], log[Peer(q)]) /\ ackedSound(disk[q], log[Peer(q)])
    /\ trackSound(mem[q], log[q]) /\ trackSound(disk[q], log[q])
    /\ envelopeSound(frame[q], log[q])
    /\ envelopeSound(held[q].env, log[Peer(q)])
    /\ pc[q] # "idle" => mem[q].epoch # NoEpoch

LEMMA NextChain ==
    ASSUME TypeOK, AckChain, [Next]_vars, NEW q \in Node PROVE Chained(q)'
<1> DEFINE own == log'[q]
           other == log'[Peer(q)]
<1>0. Peer(q) \in Node /\ Peer(q) # q /\ Peer(Peer(q)) = q
  BY PeerFacts
\* What was sound of the records of q still is after this step.
<1>a. /\ ackedSound(mem[q], other) /\ ackedSound(disk[q], other)
      /\ trackSound(mem[q], own) /\ trackSound(disk[q], own)
      /\ envelopeSound(frame[q], own) /\ envelopeSound(held[q].env, other)
      /\ envelopeSound(frame[Peer(q)], other)
      /\ pc[q] # "idle" => mem[q].epoch # NoEpoch
  BY <1>0, StaysSound DEF AckChain, AckSound
<1>b. /\ mem[q] \in State /\ disk[q] \in State
      /\ held[q] \in Version /\ frame[q] \in Envelope
  BY DEF TypeOK
<1>c. NoVersion.env.ack_epoch = NoEpoch
  BY DEF NoVersion, first_envelope
<1>d. envelopeSound(NoVersion.env, other)
  BY <1>c DEF envelopeSound
<1>e. /\ ackedSound(loaded(q), other) /\ trackSound(loaded(q), own)
      /\ loaded(q).epoch # NoEpoch
  BY <1>a, BlankSound, LoadFacts DEF loaded
<1>f. ASSUME /\ ackedSound(mem'[q], other) /\ ackedSound(disk'[q], other)
             /\ trackSound(mem'[q], own) /\ trackSound(disk'[q], own)
             /\ envelopeSound(frame'[q], own) /\ envelopeSound(held'[q].env, other)
             /\ pc'[q] # "idle" => mem'[q].epoch # NoEpoch
      PROVE  Chained(q)'
  BY <1>f DEF Chained, Peer
<1> HIDE DEF own, other
\* A step of the other node that leaves the variables of q alone.
<1>g. ASSUME mem'[q] = mem[q], disk'[q] = disk[q], frame'[q] = frame[q],
             held'[q] = held[q], pc'[q] = pc[q]
      PROVE  Chained(q)'
  BY <1>a, <1>f, <1>g
<1>1. ASSUME NEW n \in Node, BootNothing(n) \/ BootChanged(n) PROVE Chained(q)'
  <2>1. CASE n # q
    BY <1>1, <1>g, <2>1 DEF BootNothing, BootChanged, Polling, Return, TypeOK
  <2>2. CASE n = q
    <3>1. mem'[q] = loaded(q) /\ disk' = disk /\ frame' = frame
      BY <1>1, <2>2 DEF BootNothing, BootChanged, Polling, TypeOK
    <3>2. held'[q].env \in {NoVersion.env, frame[Peer(q)]}
      BY <1>1, <2>2 DEF BootNothing, BootChanged, Return, TypeOK
    <3> QED
      BY <1>a, <1>d, <1>e, <1>f, <3>1, <3>2
  <2> QED
    BY <2>1, <2>2
<1>2. ASSUME NEW n \in Node, ContentFails(n) \/ ContentBad(n) \/ DeliverRaises(n) \/ EndPoll(n)
      PROVE  Chained(q)'
  <2>1. CASE n # q
    BY <1>2, <1>g, <2>1 DEF ContentFails, ContentBad, DeliverRaises, EndPoll,
       Polling, Return, TypeOK
  <2>2. CASE n = q
    <3>1. disk' = disk /\ frame' = frame /\ held'[q] = NoVersion /\ pc[q] # "idle"
      BY <1>2, <2>2 DEF ContentFails, ContentBad, DeliverRaises, EndPoll,
         Polling, Return, TypeOK
    <3>2. newest(mem[q].seen) \subseteq mem[q].seen
      BY DEF newest
    <3>3. /\ mem'[q].epoch = mem[q].epoch /\ mem'[q].peer_acked = mem[q].peer_acked
          /\ mem'[q].peer_epoch = mem[q].peer_epoch
          /\ mem'[q].seen \subseteq mem[q].seen
          /\ mem'[q].ack_through = mem[q].ack_through
      <4>1. mem'[q] \in {mem[q],
                          [mem[q] EXCEPT !.bad_version = held[q].current],
                          [mem[q] EXCEPT !.seen = newest(mem[q].seen)],
                          [mem[q] EXCEPT !.seen = newest(mem[q].seen),
                                         !.peer_ver = held[q].current]}
        BY <1>2, <2>2 DEF ContentFails, ContentBad, DeliverRaises, EndPoll, TypeOK
      <4> QED
        BY <1>b, <3>2, <4>1 DEF State
    <3>4. mem'[q] \in State
      BY NextType DEF TypeOK
    <3>5. ackedSound(mem'[q], other) /\ trackSound(mem'[q], own)
      BY <1>a, <1>b, <3>3, <3>4, KeepSound
    <3> QED
      BY <1>a, <1>d, <1>f, <3>1, <3>3, <3>5
  <2> QED
    BY <2>1, <2>2
<1>3. ASSUME NEW n \in Node, ContentGood(n) PROVE Chained(q)'
  <2>1. CASE n # q
    BY <1>3, <1>g, <2>1 DEF ContentGood, Polling, TypeOK
  <2>2. CASE n = q
    <3> DEFINE st == track(mem[q], held[q].env)
    <3>1. disk' = disk /\ frame' = frame /\ held' = held /\ pc[q] # "idle"
      BY <1>3, <2>2 DEF ContentGood, Polling
    <3>2. mem'[q] = honour(st, held[q].env)
      BY <1>3, <2>2 DEF ContentGood, TypeOK
    <3>3. held[q].env \in Envelope
      BY <1>b, VersionFacts
    <3>4. /\ st \in State /\ st.epoch = mem[q].epoch
          /\ ackedSound(st, other) /\ trackSound(st, own)
      BY <1>a, <1>b, <3>3, TrackStep
    <3> HIDE DEF st
    <3>5. /\ mem'[q].epoch = st.epoch
          /\ ackedSound(mem'[q], other) /\ trackSound(mem'[q], own)
      BY <1>a, <3>1, <3>2, <3>3, <3>4, HonourStep
    <3> QED
      BY <1>a, <1>f, <3>1, <3>4, <3>5
  <2> QED
    BY <2>1, <2>2
<1>4. ASSUME NEW n \in Node, Deliver(n) PROVE Chained(q)'
  <2>1. CASE n # q
    BY <1>4, <1>g, <2>1 DEF Deliver, Polling, TypeOK
  <2>2. CASE n = q
    <3>1. PICK m \in fresh[q] :
            /\ log' = [log EXCEPT ![q] = Append(@, [epoch |-> mem[q].peer_epoch,
                                                    seq |-> m.seq, id |-> m.id])]
            /\ \E w \in mem[q].seen \cup {m.seq} \cup {mem[q].ack_through} :
                  /\ (mem[q].ack_through + 1) .. w \subseteq mem[q].seen \cup {m.seq}
                  /\ mem' = [mem EXCEPT ![q].seen = mem[q].seen \cup {m.seq},
                                        ![q].owed = @ + 1, ![q].ack_through = w]
      <4>1. Deliver(q)
        BY <1>4, <2>2
      <4> QED
        BY <4>1 DEF Deliver
    <3> DEFINE x == [epoch |-> mem[q].peer_epoch, seq |-> m.seq, id |-> m.id]
    <3>2. m \in Message
      BY DEF TypeOK
    <3>3. x \in Entry /\ x.epoch = mem[q].peer_epoch /\ x.seq = m.seq
      BY <1>b, <3>2, FieldFacts DEF Entry, Message
    <3>4. own = Append(log[q], x) /\ log[q] \in Seq(Entry)
      BY <3>1 DEF TypeOK, own
    <3> HIDE DEF x
    <3>5. PICK w \in mem[q].seen \cup {m.seq} \cup {mem[q].ack_through} :
            /\ (mem[q].ack_through + 1) .. w \subseteq mem[q].seen \cup {m.seq}
            /\ mem' = [mem EXCEPT ![q].seen = mem[q].seen \cup {m.seq},
                                  ![q].owed = @ + 1, ![q].ack_through = w]
      BY <3>1
    <3>6. w \in Nat
      BY <1>b, <3>2, FieldFacts DEF Message
    <3>7. mem'[q] = [mem[q] EXCEPT !.seen = mem[q].seen \cup {x.seq},
                                    !.owed = mem[q].owed + 1, !.ack_through = w]
      BY <3>3, <3>5 DEF TypeOK
    <3>8. mem[q].owed + 1 \in Nat
      BY <1>b, FieldFacts
    <3>9. trackSound(mem[q], log[q])
      BY DEF AckChain
    <3>10. trackSound(mem'[q], own)
      <4>1. (mem[q].ack_through + 1) .. w \subseteq mem[q].seen \cup {x.seq}
        BY <3>3, <3>5
      <4>2. trackSound([mem[q] EXCEPT !.seen = mem[q].seen \cup {x.seq},
                                      !.owed = mem[q].owed + 1, !.ack_through = w],
                       Append(log[q], x))
        BY <1>b, <3>3, <3>4, <3>6, <3>8, <3>9, <4>1, DeliverStep
      <4> QED
        BY <3>4, <3>7, <4>2
    <3>11. mem'[q].epoch = mem[q].epoch /\ mem'[q].peer_acked = mem[q].peer_acked
      BY <1>b, <3>7 DEF State
    <3>12. ackedSound(mem'[q], other)
      BY <1>a, <3>11 DEF ackedSound
    <3>13. /\ disk' = disk /\ frame' = frame /\ held' = held
           /\ pc' = pc /\ pc[q] # "idle"
      BY <1>4, <2>2 DEF Deliver, Polling
    <3> QED
      BY <1>a, <1>f, <3>10, <3>11, <3>12, <3>13
  <2> QED
    BY <2>1, <2>2
<1>5. ASSUME NEW n \in Node, NEW p \in {"lineflush", "save"}, Line(n, p) PROVE Chained(q)'
  <2>1. CASE n # q
    BY <1>5, <1>g, <2>1 DEF Line, TypeOK
  <2>2. CASE n = q
    <3>1. disk' = disk /\ frame' = frame /\ held' = held
      BY <1>5, <2>2 DEF Line
    <3>2. loaded(q) \in State
      BY LoadFacts
    <3>3. /\ mem'[q].epoch = loaded(q).epoch
          /\ mem'[q].peer_acked = loaded(q).peer_acked
          /\ mem'[q].peer_epoch = loaded(q).peer_epoch
          /\ mem'[q].seen = loaded(q).seen
          /\ mem'[q].ack_through = loaded(q).ack_through
      BY <1>5, <2>2, <3>2 DEF Line, TypeOK, State
    <3>4. mem'[q] \in State
      BY NextType DEF TypeOK
    <3>5. ackedSound(mem'[q], other) /\ trackSound(mem'[q], own)
      BY <1>e, <3>2, <3>3, <3>4, KeepSound
    <3> QED
      BY <1>a, <1>e, <1>f, <3>1, <3>3, <3>5
  <2> QED
    BY <2>1, <2>2
<1>6. ASSUME NEW n \in Node, NEW o \in Nat, pc[n] # "idle", publish(n, o)
      PROVE  Chained(q)'
  <2>1. CASE n = q
    <3>1. /\ mem'[q] = [mem[q] EXCEPT !.owed = o] /\ disk'[q] = disk[q]
          /\ held'[q] = held[q] /\ frame'[q] = envelope(mem[q])
      BY <1>0, <1>6, <2>1 DEF publish, TypeOK
    <3>2. /\ mem'[q].epoch = mem[q].epoch /\ mem'[q].peer_acked = mem[q].peer_acked
          /\ mem'[q].peer_epoch = mem[q].peer_epoch /\ mem'[q].seen = mem[q].seen
          /\ mem'[q].ack_through = mem[q].ack_through
      BY <1>b, <3>1 DEF State
    <3>3. mem'[q] \in State
      BY NextType DEF TypeOK
    <3>4. ackedSound(mem'[q], other) /\ trackSound(mem'[q], own)
      BY <1>a, <1>b, <3>2, <3>3, KeepSound
    <3>5. envelopeSound(frame'[q], own)
      BY <1>a, <3>1, EnvelopeStep
    <3> QED
      BY <1>a, <1>6, <1>f, <2>1, <3>1, <3>2, <3>4, <3>5
  <2>2. CASE n # q
    <3>1. Peer(n) = q
      BY <2>2, NodeAssumption DEF Peer
    <3>2. /\ mem'[q] = outdated(mem[q]) /\ disk'[q] = outdated(disk[q])
          /\ held'[q].env = held[q].env /\ frame'[q] = frame[q] /\ pc'[q] = pc[q]
      BY <1>6, <1>b, <2>2, <3>1 DEF publish, TypeOK, Version
    <3>3. ASSUME NEW st \in State
          PROVE  /\ outdated(st).epoch = st.epoch /\ outdated(st).peer_acked = st.peer_acked
                 /\ outdated(st).peer_epoch = st.peer_epoch /\ outdated(st).seen = st.seen
                 /\ outdated(st).ack_through = st.ack_through
      BY DEF outdated, State
    <3>4. /\ ackedSound(mem'[q], other) /\ trackSound(mem'[q], own)
          /\ ackedSound(disk'[q], other) /\ trackSound(disk'[q], own)
      <4>1. outdated(mem[q]) \in State /\ outdated(disk[q]) \in State
        BY <1>b, StateFacts
      <4>2. ackedSound(mem'[q], other) /\ trackSound(mem'[q], own)
        BY <1>a, <1>b, <3>2, <3>3, <4>1, KeepSound
      <4>3. ackedSound(disk'[q], other) /\ trackSound(disk'[q], own)
        BY <1>a, <1>b, <3>2, <3>3, <4>1, KeepSound
      <4> QED
        BY <4>2, <4>3
    <3> QED
      BY <1>a, <1>b, <1>f, <3>2, <3>3, <3>4
  <2> QED
    BY <2>1, <2>2
<1>7. ASSUME NEW n \in Node, Flush(n) \/ FlushUnanswered(n) PROVE Chained(q)'
  <2>1. mem[n].owed \in Nat
    BY FieldFacts DEF TypeOK
  <2> QED
    BY <1>6, <1>7, <2>1 DEF Flush, FlushUnanswered, mayPublish
<1>8. ASSUME NEW n \in Node, FlushNothing(n) PROVE Chained(q)'
  BY <1>8, <1>a, <1>f DEF FlushNothing, TypeOK
<1>9. ASSUME NEW n \in Node, Save(n) PROVE Chained(q)'
  <2>1. disk'[q] \in {disk[q], mem[q]} /\ mem' = mem /\ frame' = frame /\ held' = held
    BY <1>9 DEF Save, TypeOK
  <2>2. pc'[q] # "idle" => pc[q] # "idle"
    BY <1>9 DEF Save, TypeOK
  <2> QED
    BY <1>a, <1>f, <2>1, <2>2
<1>10. ASSUME NEW n \in Node, Crash(n) PROVE Chained(q)'
  <2>1. CASE n # q
    BY <1>10, <1>g, <2>1 DEF Crash, Return, TypeOK
  <2>2. CASE n = q
    <3>1. /\ mem'[q] = disk[q] /\ disk' = disk /\ frame' = frame
          /\ held'[q] = NoVersion /\ pc'[q] = "idle"
      BY <1>10, <2>2 DEF Crash, Return, TypeOK
    <3> QED
      BY <1>a, <1>d, <1>f, <3>1
  <2> QED
    BY <2>1, <2>2
<1>11. ASSUME NEW n \in Node, LoseState(n) PROVE Chained(q)'
  <2>1. CASE n # q
    BY <1>11, <1>g, <2>1 DEF LoseState, TypeOK
  <2>2. CASE n = q
    <3>1. /\ mem'[q] = blank_state(NoEpoch) /\ disk'[q] = blank_state(NoEpoch)
          /\ frame' = frame /\ held' = held /\ pc'[q] = "idle"
      BY <1>11, <2>2 DEF LoseState, TypeOK
    <3> QED
      BY <1>a, <1>f, <3>1, BlankSound
  <2> QED
    BY <2>1, <2>2
<1>12. CASE UNCHANGED vars
  BY <1>12, <1>g DEF vars
<1> QED
  BY <1>1, <1>2, <1>3, <1>4, <1>5, <1>7, <1>8, <1>9, <1>10, <1>11, <1>12 DEF Next, Cycle

LEMMA ChainInductive == TypeOK /\ AckChain /\ [Next]_vars => AckChain'
<1> SUFFICES ASSUME TypeOK, AckChain, [Next]_vars PROVE AckChain'
  OBVIOUS
<1>1. \A q \in Node : Chained(q)'
  BY NextChain
<1> QED
  BY <1>1 DEF Chained, AckChain, AckSound, Peer

\* The chain behind every acknowledgement holds in every reachable state.
THEOREM ChainHolds == Spec => []AckChain
<1>1. Init => TypeOK /\ AckChain
  BY InitType, InitChain
<1>2. TypeOK /\ AckChain /\ [Next]_vars => TypeOK' /\ AckChain'
  BY NextType, ChainInductive
<1> QED
  BY <1>1, <1>2, PTL DEF Spec

\* No acknowledgement covers a message the peer's user was not handed: however
\* the two processes interleave, die and lose files, and for every window.
THEOREM AcksAreSound == Spec => []AckSound
<1>1. AckChain => AckSound
  BY DEF AckChain
<1> QED
  BY <1>1, ChainHolds, PTL

=============================================================================
