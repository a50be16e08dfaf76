----------------------- MODULE MailboxDeliveryProofs -----------------------
(***************************************************************************)
(* Proofs about what Mailbox delivers, for every pair of nodes, window and *)
(* number of faults: a message is handed over once more per fault at most, *)
(* nothing a living sender saved is lost, and without faults the mailboxes *)
(* implement a pair of reliable FIFO channels.                             *)
(***************************************************************************)
EXTENDS MailboxProofs, FiniteSetTheorems, SequenceTheorems

-----------------------------------------------------------------------------
(* What is on the way to a node.                                           *)

Entries(e, M) == {[epoch |-> e, seq |-> m.seq, id |-> m.id] : m \in M}

Marks(e, S) == {[epoch |-> e, seq |-> s] : s \in S}

\* The messages n keeps to be sent again, those of its current version, those
\* of the version it is polling, and all that is on the way to it.
queued(n) == Entries(mem[n].epoch, mem[n].outbox) \cup Entries(disk[n].epoch, disk[n].outbox)

framed(n) == Entries(frame[n].epoch, frame[n].msgs)

inHand(n) == Entries(held[n].env.epoch, held[n].env.msgs)

carried(n) == inHand(n) \cup framed(Peer(n)) \cup queued(Peer(n))

\* What n has seen, and what it was handed.
marked(n) == Marks(mem[n].peer_epoch, mem[n].seen) \cup Marks(disk[n].peer_epoch, disk[n].seen)

delivered(n) == {log[n][i] : i \in 1 .. Len(log[n])}

-----------------------------------------------------------------------------
(* The invariant.                                                          *)

\* The outbox holds a message for every number that is neither acknowledged nor
\* unused, and no other.
QueueOK(st) ==
    /\ st.next_seq # 0
    /\ IsFiniteSet(st.outbox)
    /\ \A m \in st.outbox : st.peer_acked < m.seq /\ m.seq < st.next_seq
    /\ \A m, x \in st.outbox : m.seq = x.seq => m = x
    /\ \A s \in Nat : st.peer_acked < s /\ s < st.next_seq => \E m \in st.outbox : m.seq = s

\* Memory is at most a line ahead of the state file; without a file, nothing is
\* in it.
FileOK(n) ==
    /\ QueueOK(mem[n]) /\ QueueOK(disk[n])
    /\ pc[n] = "idle" => mem[n] = disk[n]
    /\ mem[n].epoch <= epochs
    /\ mem[n].next_seq \in {disk[n].next_seq, disk[n].next_seq + 1}
    /\ disk[n].epoch # NoEpoch => mem[n].epoch = disk[n].epoch
    /\ disk[n].epoch = NoEpoch =>
          /\ disk[n].outbox = {} /\ disk[n].next_seq = 1 /\ disk[n].peer_acked = 0
          /\ disk[n].seen = {} /\ disk[n].peer_epoch = NoEpoch
          /\ kept[n] = {}

\* An epoch reaches a reader only after it was published, and is never older
\* than the one before.
EpochsOK(n) ==
    LET p == Peer(n)
    IN /\ mem[n].peer_epoch <= frame[p].epoch /\ disk[n].peer_epoch <= frame[p].epoch
       /\ held[n].env.epoch <= frame[p].epoch
       /\ held[n].env.epoch = NoEpoch \/ mem[n].peer_epoch <= held[n].env.epoch
       /\ frame[p].epoch <= epochs
       /\ mem[p].epoch = NoEpoch \/ frame[p].epoch <= mem[p].epoch

\* The poll in progress.
PollOK(n) ==
    IF pc[n] = "deliver"
    THEN /\ fresh[n] = {m \in held[n].env.msgs : m.seq \notin mem[n].seen}
         /\ held[n].env.epoch \in {NoEpoch, mem[n].peer_epoch}
    ELSE fresh[n] = {}

\* One message has one number in one epoch, for ever.
IdsOK(n) ==
    /\ \A x \in carried(n) : x.epoch # NoEpoch /\ x.id <= said[Peer(n)]
    /\ \A x, y \in carried(n) : x.id = y.id => x = y
    /\ \A x, y \in inHand(n) : x.seq = y.seq => x = y
    /\ \A x, y \in framed(Peer(n)) : x.seq = y.seq => x = y
    /\ \A x \in delivered(n) : x.epoch # NoEpoch /\ x.epoch <= epochs /\ x.id <= said[Peer(n)]
    /\ \A t \in marked(n) : t.epoch # NoEpoch

\* The numbers that were published are at most one ahead of those the sender
\* has on record.
Published(T, st) == \A t \in T : t.epoch = st.epoch => t.seq <= st.next_seq

BoundOK(n) ==
    \A st \in {mem[Peer(n)], disk[Peer(n)]} :
        Published(marked(n), st) /\ Published(inHand(n), st) /\ Published(framed(Peer(n)), st)

\* What is on the way is less than a window behind what was seen or published
\* before.
Near(T, X) == \A t \in T, x \in X : t.epoch = x.epoch => t.seq < x.seq + Window

NearOK(n) ==
    LET p == Peer(n)
    IN /\ Near(marked(n), carried(n))
       /\ Near(inHand(n), carried(n))
       /\ Near(framed(p), framed(p) \cup queued(p))
       /\ Near(queued(p), queued(p))

\* The deliveries of message id at n, and the faults that excuse a second one.
hits(n, id) == {i \in 1 .. Len(log[n]) : log[n][i].id = id}

excuses(n) == crashes[n] + losses[n]

\* x would be taken for a duplicate.
Shut(n, x) == x.epoch = mem[n].peer_epoch /\ x.seq \in mem[n].seen

\* A message that was handed over as often as excused is only carried where it
\* would be taken for a duplicate.
GuardOK(n) ==
    \A id \in Nat :
        \/ Cardinality(hits(n, id)) <= excuses(n)
        \/ /\ Cardinality(hits(n, id)) <= 1 + excuses(n)
           /\ \A x \in carried(n) : x.id = id => Shut(n, x)

LaneOK(n) == EpochsOK(n) /\ PollOK(n) /\ IdsOK(n) /\ BoundOK(n)

\* Without a death of the sender, a number of an epoch is one message's.
Numbered(n) ==
    \A x \in carried(Peer(n)) \cup delivered(Peer(n)) :
        x.epoch = mem[n].epoch =>
            x.seq < mem[n].next_seq /\ x.id + mem[n].next_seq = said[n] + 1 + x.seq

safe(n, st, id) == (\E m \in st.outbox : m.id = id) \/ Handed(Peer(n), id)

KeptOK(n) ==
    /\ Numbered(n)
    /\ \A id \in kept[n] : safe(n, mem[n], id) /\ safe(n, disk[n], id)
    /\ mem[n].next_seq # disk[n].next_seq => safe(n, mem[n], said[n])

\* Without faults: lines are numbered as they were entered, in one epoch, handed
\* over in this order, and no version leaves one out that was not handed over.
Complete(n, env) ==
    \A m \in env.msgs, s \in Nat :
        Len(log[n]) < s /\ s <= m.seq => \E x \in env.msgs : x.seq = s

CalmOK(n) ==
    LET p == Peer(n)
    IN /\ disk[p].epoch # NoEpoch
       /\ mem[p].next_seq = said[p] + 1
       /\ \A x \in carried(n) \cup delivered(n) : x.epoch = mem[p].epoch /\ x.id # 0
       /\ \A i \in 1 .. Len(log[n]) : log[n][i].id = i
       /\ Complete(n, frame[p]) /\ Complete(n, held[n].env)

-----------------------------------------------------------------------------
(* Entries, marks and windows.                                             *)

LEMMA EntryFacts ==
    ASSUME NEW e, NEW M
    PROVE  /\ \A m \in M : [epoch |-> e, seq |-> m.seq, id |-> m.id] \in Entries(e, M)
           /\ \A x \in Entries(e, M) :
                 /\ x.epoch = e
                 /\ \E m \in M : /\ x = [epoch |-> e, seq |-> m.seq, id |-> m.id]
                                 /\ x.seq = m.seq /\ x.id = m.id
           /\ M = {} => Entries(e, M) = {}
           /\ \A N : N \subseteq M => Entries(e, N) \subseteq Entries(e, M)
<1>1. ASSUME NEW m \in M PROVE [epoch |-> e, seq |-> m.seq, id |-> m.id] \in Entries(e, M)
  BY DEF Entries
<1>2. ASSUME NEW x \in Entries(e, M)
      PROVE  /\ x.epoch = e
             /\ \E m \in M : /\ x = [epoch |-> e, seq |-> m.seq, id |-> m.id]
                             /\ x.seq = m.seq /\ x.id = m.id
  <2>1. PICK m \in M : x = [epoch |-> e, seq |-> m.seq, id |-> m.id]
    BY DEF Entries
  <2>2. x.epoch = e /\ x.seq = m.seq /\ x.id = m.id
    BY <2>1
  <2> QED
    BY <2>1, <2>2
<1>3. M = {} => Entries(e, M) = {}
  BY DEF Entries
<1>4. \A N : N \subseteq M => Entries(e, N) \subseteq Entries(e, M)
  BY DEF Entries
<1> QED
  BY <1>1, <1>2, <1>3, <1>4

LEMMA MarkFacts ==
    ASSUME NEW e, NEW S
    PROVE  /\ \A s \in S : [epoch |-> e, seq |-> s] \in Marks(e, S)
           /\ \A t \in Marks(e, S) : t.epoch = e /\ t.seq \in S
           /\ S = {} => Marks(e, S) = {}
           /\ \A R : R \subseteq S => Marks(e, R) \subseteq Marks(e, S)
<1>1. ASSUME NEW t \in Marks(e, S) PROVE t.epoch = e /\ t.seq \in S
  <2>1. PICK s \in S : t = [epoch |-> e, seq |-> s]
    BY DEF Marks
  <2> QED
    BY <2>1
<1>2. \A s \in S : [epoch |-> e, seq |-> s] \in Marks(e, S)
  BY DEF Marks
<1>3. /\ S = {} => Marks(e, S) = {}
      /\ \A R : R \subseteq S => Marks(e, R) \subseteq Marks(e, S)
  BY DEF Marks
<1> QED
  BY <1>1, <1>2, <1>3

\* What is on the way are entries, and marks have a number and an epoch.
LEMMA CarriedType ==
    ASSUME TypeOK, NEW n \in Node
    PROVE  /\ queued(n) \subseteq Entry /\ framed(n) \subseteq Entry /\ inHand(n) \subseteq Entry
           /\ delivered(n) \subseteq Entry
           /\ marked(n) \subseteq [epoch : Nat, seq : Nat]
<1>1. ASSUME NEW e \in Nat, NEW M \in SUBSET Message PROVE Entries(e, M) \subseteq Entry
  BY DEF Entries, Message, Entry
<1>2. ASSUME NEW e \in Nat, NEW S \in SUBSET Nat PROVE Marks(e, S) \subseteq [epoch : Nat, seq : Nat]
  BY DEF Marks
<1>3. mem[n] \in State /\ disk[n] \in State /\ frame[n] \in Envelope /\ held[n].env \in Envelope
      /\ log[n] \in Seq(Entry)
  BY VersionFacts DEF TypeOK
<1>4. \A env \in Envelope : env.epoch \in Nat /\ env.msgs \in SUBSET Message
  BY DEF Envelope
<1>5. queued(n) \subseteq Entry
  BY <1>1, <1>3, FieldFacts DEF queued
<1>6. framed(n) \subseteq Entry /\ inHand(n) \subseteq Entry
  BY <1>1, <1>3, <1>4 DEF framed, inHand
<1>7. marked(n) \subseteq [epoch : Nat, seq : Nat]
  BY <1>2, <1>3, FieldFacts DEF marked
<1>8. delivered(n) \subseteq Entry
  BY <1>3 DEF delivered
<1> QED
  BY <1>5, <1>6, <1>7, <1>8

\* T2 has no number, or number of an epoch, that T has not.
Covers(T, T2) == \A t \in T2 : \E x \in T : x.epoch = t.epoch /\ x.seq = t.seq

LEMMA NearCovers ==
    ASSUME NEW T, NEW T2, NEW X, NEW X2, Near(T, X), Covers(T, T2), Covers(X, X2)
    PROVE  Near(T2, X2)
BY DEF Near, Covers

LEMMA PublishedCovers ==
    ASSUME NEW T, NEW T2, NEW st, Published(T, st), Covers(T, T2)
    PROVE  Published(T2, st)
BY DEF Published, Covers

LEMMA SubsetCovers == \A T, T2 : T2 \subseteq T => Covers(T, T2)
BY DEF Covers

\* The newest SeenCap numbers are those that a window is not ahead of.
LEMMA NewestKeeps ==
    ASSUME Window <= SeenCap, NEW S \in SUBSET Nat, NEW s \in S,
           \A t \in S : t < s + Window
    PROVE  s \in newest(S)
<1> DEFINE T == {t \in S : t >= s}
           I == s .. (s + Window - 1)
<1>1. Window \in Nat /\ Window > 0 /\ SeenCap \in Nat /\ s \in Nat
  BY WindowAssumption, SeenCapAssumption
<1>2. T \subseteq I
  <2>1. ASSUME NEW t \in T PROVE t \in I
    <3>1. t \in S /\ t \in Nat /\ t >= s /\ t < s + Window
      OBVIOUS
    <3> QED
      BY <1>1, <3>1
  <2> QED
    BY <2>1
<1>3. IsFiniteSet(I) /\ Cardinality(I) = Window
  <2>1. s \in Int /\ s + Window - 1 \in Int /\ s <= s + Window - 1
    BY <1>1
  <2>2. IsFiniteSet(I) /\ Cardinality(I) = IF s > s + Window - 1 THEN 0 ELSE (s + Window - 1) - s + 1
    BY <2>1, FS_Interval
  <2> QED
    BY <1>1, <2>1, <2>2
<1> HIDE DEF T, I
<1>4. IsFiniteSet(T) /\ Cardinality(T) <= Cardinality(I)
  BY <1>2, <1>3, FS_Subset
<1>5. Cardinality(T) \in Nat
  BY <1>4, FS_CardinalityType
<1>6. Cardinality(T) <= SeenCap
  BY <1>1, <1>3, <1>4, <1>5
<1> QED
  BY <1>6 DEF T, newest

\* A queue that is not full has less than a window of numbers in use.
LEMMA QueueRoom ==
    ASSUME NEW st \in State, QueueOK(st), Cardinality(unacked(st)) < Window
    PROVE  st.next_seq <= st.peer_acked + Window
<1> DEFINE U == unacked(st)
           I == (st.peer_acked + 1) .. (st.next_seq - 1)
           Q == {m.seq : m \in U}
<1>1. st.next_seq \in Nat /\ st.next_seq # 0 /\ st.peer_acked \in Nat /\ Window \in Nat
      /\ IsFiniteSet(st.outbox) /\ st.outbox \subseteq Message
  BY FieldFacts, WindowAssumption DEF QueueOK
<1>2. U = st.outbox
  <2>1. \A m \in st.outbox : m.seq \in Nat
    BY <1>1 DEF Message
  <2> QED
    BY <1>1, <2>1 DEF unacked, QueueOK
<1>3. I \subseteq Q
  BY <1>1, <1>2 DEF QueueOK
<1> HIDE DEF U
<1>4. IsFiniteSet(Q) /\ Cardinality(Q) <= Cardinality(U)
  <2> DEFINE f == [m \in U |-> m.seq]
  <2>1. f \in Surjection(U, Q)
    BY DEF Surjection
  <2> HIDE DEF f
  <2>2. IsFiniteSet(U)
    BY <1>1, <1>2
  <2> QED
    BY <2>1, <2>2, FS_Surjection
<1> HIDE DEF Q
<1>5. IsFiniteSet(I) /\ Cardinality(I) <= Cardinality(Q)
  BY <1>3, <1>4, FS_Subset
<1>6. CASE st.next_seq - 1 < st.peer_acked + 1
  BY <1>1, <1>6, WindowAssumption
<1>7. CASE st.next_seq - 1 >= st.peer_acked + 1
  <2> DEFINE a == st.peer_acked + 1
             b == st.next_seq - 1
  <2>0. a \in Int /\ b \in Int /\ ~ a > b
    BY <1>1, <1>7
  <2>1. Cardinality(I) = (st.next_seq - 1) - (st.peer_acked + 1) + 1
    <3> HIDE DEF a, b
    <3>1. Cardinality(a .. b) = IF a > b THEN 0 ELSE b - a + 1
      BY <2>0, FS_Interval
    <3>2. Cardinality(a .. b) = b - a + 1
      BY <2>0, <3>1
    <3> QED
      BY <3>2 DEF a, b
  <2> HIDE DEF I, a, b
  <2>2. Cardinality(Q) \in Nat /\ Cardinality(U) \in Nat
    BY <1>1, <1>2, <1>4, FS_CardinalityType
  <2> QED
    BY <1>1, <1>4, <1>5, <2>1, <2>2 DEF U
<1> QED
  BY <1>1, <1>6, <1>7


-----------------------------------------------------------------------------
(* What a step does to a node as a reader of its peer, and as a sender to  *)
(* it.  A state dict has a half for each.                                  *)

SameOut(s, t) ==
    /\ t.epoch = s.epoch /\ t.next_seq = s.next_seq
    /\ t.outbox = s.outbox /\ t.peer_acked = s.peer_acked

SameIn(s, t) == t.peer_epoch = s.peer_epoch /\ t.seen = s.seen

Undelivered(n) ==
    log'[n] = log[n] /\ crashes'[n] = crashes[n] /\ losses'[n] = losses[n]

ReaderRests(n) ==
    /\ SameIn(mem[n], mem'[n]) /\ SameIn(disk[n], disk'[n])
    /\ held'[n].env = held[n].env /\ fresh'[n] = fresh[n] /\ pc'[n] = pc[n]
    /\ Undelivered(n)

Leaves(n) ==
    /\ SameIn(mem[n], mem'[n]) /\ SameIn(disk[n], disk'[n])
    /\ held'[n].env \in {held[n].env, first_envelope} /\ fresh'[n] = {} /\ pc'[n] # "deliver"
    /\ Undelivered(n)

Reads(n) ==
    /\ SameIn(mem[n], mem'[n]) /\ SameIn(disk[n], disk'[n])
    /\ held'[n].env = frame[Peer(n)] /\ fresh'[n] = {} /\ pc'[n] # "deliver"
    /\ Undelivered(n)

Tracks(n) ==
    /\ SameIn(track(mem[n], held[n].env), mem'[n]) /\ SameIn(disk[n], disk'[n])
    /\ held'[n].env = held[n].env /\ pc'[n] = "deliver"
    /\ fresh'[n] = {m \in held[n].env.msgs : m.seq \notin mem'[n].seen}
    /\ Undelivered(n)

Delivers(n) ==
    /\ pc[n] = "deliver" /\ pc'[n] = "deliver"
    /\ SameIn(disk[n], disk'[n]) /\ held'[n].env = held[n].env
    /\ crashes'[n] = crashes[n] /\ losses'[n] = losses[n]
    /\ mem'[n].peer_epoch = mem[n].peer_epoch
    /\ \E m \in fresh[n] :
          /\ \A x \in fresh[n] : m.seq <= x.seq
          /\ log'[n] = Append(log[n], [epoch |-> mem[n].peer_epoch, seq |-> m.seq, id |-> m.id])
          /\ fresh'[n] = fresh[n] \ {m}
          /\ mem'[n].seen = mem[n].seen \cup {m.seq}

Cuts(n) ==
    /\ mem'[n].peer_epoch = mem[n].peer_epoch /\ mem'[n].seen = newest(mem[n].seen)
    /\ SameIn(disk[n], disk'[n])
    /\ held'[n].env = first_envelope /\ fresh'[n] = {} /\ pc'[n] # "deliver"
    /\ Undelivered(n)

ReaderSaves(n) ==
    /\ SameIn(mem[n], mem'[n]) /\ SameIn(mem[n], disk'[n])
    /\ held'[n].env = held[n].env /\ fresh'[n] = {} /\ pc'[n] # "deliver"
    /\ Undelivered(n)

ReaderDies(n) ==
    /\ SameIn(disk[n], mem'[n]) /\ SameIn(disk[n], disk'[n])
    /\ held'[n].env = first_envelope /\ fresh'[n] = {} /\ pc'[n] # "deliver"
    /\ log'[n] = log[n] /\ crashes'[n] = crashes[n] + 1 /\ losses'[n] = losses[n]

ReaderLoses(n) ==
    /\ SameIn(blank_state(NoEpoch), mem'[n]) /\ SameIn(blank_state(NoEpoch), disk'[n])
    /\ held'[n].env = held[n].env /\ fresh'[n] = {} /\ pc'[n] # "deliver"
    /\ log'[n] = log[n] /\ crashes'[n] = crashes[n] /\ losses'[n] = losses[n] + 1

ReaderStep(n) ==
    \/ Leaves(n) \/ Reads(n) \/ Tracks(n) \/ Delivers(n) \/ Cuts(n)
    \/ ReaderSaves(n) \/ ReaderDies(n) \/ ReaderLoses(n)

SenderRests(p) ==
    /\ SameOut(mem[p], mem'[p]) /\ SameOut(disk[p], disk'[p])
    /\ frame'[p] = frame[p] /\ said'[p] = said[p] /\ kept'[p] = kept[p]

\* A process with a state file goes on in its epoch, another one draws one.
Loaded(p, e) ==
    \/ e = mem[p].epoch /\ e # NoEpoch /\ epochs' = epochs
    \/ /\ mem[p].epoch = NoEpoch /\ disk[p].epoch = NoEpoch
       /\ mem[p].outbox = {} /\ mem[p].next_seq = 1 /\ mem[p].peer_acked = 0
       /\ e = epochs + 1 /\ epochs' = epochs + 1

Loads(p) ==
    /\ Loaded(p, mem'[p].epoch)
    /\ mem'[p].next_seq = mem[p].next_seq /\ mem'[p].outbox = mem[p].outbox
    /\ mem'[p].peer_acked = mem[p].peer_acked
    /\ SameOut(disk[p], disk'[p])
    /\ frame'[p] = frame[p] /\ said'[p] = said[p] /\ kept'[p] = kept[p]

Lines(p) ==
    /\ Loaded(p, mem'[p].epoch)
    /\ SameOut(mem[p], disk[p])
    /\ mem[p].next_seq <= mem[p].peer_acked + Window
    /\ said[p] < MaxLines[p]
    /\ mem'[p].next_seq = mem[p].next_seq + 1
    /\ mem'[p].outbox = {x \in mem[p].outbox \cup {[seq |-> mem[p].next_seq, id |-> said[p] + 1]} :
                            x.seq > mem[p].peer_acked}
    /\ mem'[p].peer_acked = mem[p].peer_acked
    /\ SameOut(disk[p], disk'[p])
    /\ frame'[p] = frame[p] /\ said'[p] = said[p] + 1 /\ kept'[p] = kept[p]

Honours(p) ==
    /\ mem[p].epoch # NoEpoch
    /\ mem'[p].epoch = mem[p].epoch /\ mem'[p].next_seq = mem[p].next_seq
    /\ mem[p].peer_acked <= mem'[p].peer_acked
    /\ mem'[p].outbox = {m \in mem[p].outbox : m.seq > mem'[p].peer_acked}
    /\ SameOut(disk[p], disk'[p])
    /\ frame'[p] = frame[p] /\ said'[p] = said[p] /\ kept'[p] = kept[p]

Publishes(p) ==
    /\ mem[p].epoch # NoEpoch
    /\ SameOut(mem[p], mem'[p]) /\ SameOut(disk[p], disk'[p])
    /\ frame'[p].epoch = mem[p].epoch /\ frame'[p].msgs = unacked(mem[p])
    /\ said'[p] = said[p] /\ kept'[p] = kept[p]

SenderSaves(p) ==
    /\ mem[p].epoch # NoEpoch
    /\ SameOut(mem[p], mem'[p]) /\ SameOut(mem[p], disk'[p])
    /\ frame'[p] = frame[p] /\ said'[p] = said[p]
    /\ kept'[p] = IF mem[p].next_seq = disk[p].next_seq THEN kept[p] ELSE kept[p] \cup {said[p]}

SenderDies(p) ==
    /\ SameOut(disk[p], mem'[p]) /\ SameOut(disk[p], disk'[p]) /\ crashes'[p] # 0
    /\ frame'[p] = frame[p] /\ said'[p] = said[p] /\ kept'[p] = kept[p]

SenderLoses(p) ==
    /\ SameOut(blank_state(NoEpoch), mem'[p]) /\ SameOut(blank_state(NoEpoch), disk'[p])
    /\ losses'[p] # 0
    /\ frame'[p] = frame[p] /\ said'[p] = said[p] /\ kept'[p] = {}

SenderStep(p) ==
    \/ SenderRests(p) \/ Loads(p) \/ Lines(p) \/ Honours(p) \/ Publishes(p)
    \/ SenderSaves(p) \/ SenderDies(p) \/ SenderLoses(p)

\* What a step of k does to its state file and its place in the cycle.
FileStep(k) ==
    \/ disk'[k] = disk[k] /\ pc'[k] # "idle"
    \/ disk'[k] = mem[k] /\ mem'[k] = mem[k] /\ mem[k].epoch # NoEpoch
    \/ disk'[k] = disk[k] /\ mem'[k] = disk[k]
    \/ mem'[k] = disk'[k] /\ disk'[k] = blank_state(NoEpoch)

\* A step is one of k; its peer is only told that there is a new version.
StepOf(k) ==
    /\ ReaderStep(k) /\ SenderStep(k) /\ FileStep(k)
    /\ ReaderRests(Peer(k)) /\ SenderRests(Peer(k))
    /\ \/ mem'[Peer(k)] = mem[Peer(k)] /\ disk'[Peer(k)] = disk[Peer(k)]
       \/ mem'[Peer(k)] = outdated(mem[Peer(k)]) /\ disk'[Peer(k)] = outdated(disk[Peer(k)])

\* What is loaded differs from what is in memory in the epoch at most.
LEMMA LoadKeeps ==
    ASSUME TypeOK, NEW k \in Node, FileOK(k), pc[k] = "idle", Load(k)
    PROVE  /\ Loaded(k, loaded(k).epoch)
           /\ SameIn(mem[k], loaded(k))
           /\ loaded(k).next_seq = mem[k].next_seq /\ loaded(k).outbox = mem[k].outbox
           /\ loaded(k).peer_acked = mem[k].peer_acked
           /\ SameOut(mem[k], disk[k])
<1>1. mem[k] = disk[k]
  BY DEF FileOK
<1>2. CASE disk[k].epoch # NoEpoch
  <2>1. loaded(k) = disk[k] /\ epochs' = epochs
    BY <1>2 DEF loaded, Load
  <2> QED
    BY <1>1, <1>2, <2>1 DEF Loaded, SameIn, SameOut
<1>3. CASE disk[k].epoch = NoEpoch
  <2>1. loaded(k) = blank_state(epochs + 1) /\ epochs' = epochs + 1
    BY <1>3 DEF loaded, Load
  <2>2. /\ loaded(k).epoch = epochs + 1 /\ loaded(k).next_seq = 1 /\ loaded(k).outbox = {}
        /\ loaded(k).peer_acked = 0 /\ loaded(k).peer_epoch = NoEpoch /\ loaded(k).seen = {}
    BY <2>1 DEF blank_state
  <2>3. /\ disk[k].outbox = {} /\ disk[k].next_seq = 1 /\ disk[k].peer_acked = 0
        /\ disk[k].seen = {} /\ disk[k].peer_epoch = NoEpoch
    BY <1>3 DEF FileOK
  <2> QED
    BY <1>1, <1>3, <2>1, <2>2, <2>3 DEF Loaded, SameIn, SameOut
<1> QED
  BY <1>2, <1>3

\* The halves of the records the updates make.
LEMMA SameSelf == \A st : SameOut(st, st) /\ SameIn(st, st)
BY DEF SameOut, SameIn

LEMMA OutdatedHalves == \A st \in State : SameOut(st, outdated(st)) /\ SameIn(st, outdated(st))
BY DEF State, SameOut, SameIn, outdated

LEMMA TrackHalves == \A st \in State : \A env : SameOut(st, track(st, env))
BY DEF State, SameOut, track

LEMMA HonourHalves ==
    \A st \in State : \A env : /\ SameIn(st, honour(st, env)) /\ honour(st, env).epoch = st.epoch
                           /\ honour(st, env).next_seq = st.next_seq
BY DEF State, SameIn, honour

LEMMA HonourKeeps ==
    ASSUME NEW st \in State, NEW env \in Envelope,
           \A m \in st.outbox : st.peer_acked < m.seq
    PROVE  /\ st.peer_acked <= honour(st, env).peer_acked
           /\ honour(st, env).outbox = {m \in st.outbox : m.seq > honour(st, env).peer_acked}
<1>1. st.peer_acked \in Nat /\ env.ack \in Nat /\ st.outbox \subseteq Message
  BY FieldFacts DEF Envelope
<1>2. CASE env.ack_epoch # st.epoch
  <2>1. honour(st, env) = st
    BY <1>2 DEF honour
  <2>2. \A m \in st.outbox : m.seq \in Nat
    BY <1>1 DEF Message
  <2>3. {m \in st.outbox : m.seq > st.peer_acked} = st.outbox
    BY <1>1, <2>2
  <2> QED
    BY <1>1, <2>1, <2>3
<1>3. CASE env.ack_epoch = st.epoch
  <2> DEFINE a == IF env.ack > st.peer_acked THEN env.ack ELSE st.peer_acked
             new == [st EXCEPT !.peer_acked = a, !.outbox = {m \in st.outbox : m.seq > a}]
  <2>1. honour(st, env) = new
    BY <1>3 DEF honour
  <2>2. new.peer_acked = a /\ new.outbox = {m \in st.outbox : m.seq > a}
    BY DEF State
  <2>3. st.peer_acked <= a
    BY <1>1
  <2> HIDE DEF new, a
  <2> QED
    BY <2>1, <2>2, <2>3
<1> QED
  BY <1>2, <1>3

\* What holds before a step that was not yet shown to hold after it.
StepBase(k) == TypeOK /\ AckChain /\ FileOK(k)

\* A step changes the variables of one node only.
OnlyAt(k) ==
    /\ mem' = [mem EXCEPT ![k] = mem'[k]] /\ disk' = [disk EXCEPT ![k] = disk'[k]]
    /\ frame' = [frame EXCEPT ![k] = frame'[k]] /\ said' = [said EXCEPT ![k] = said'[k]]
    /\ kept' = [kept EXCEPT ![k] = kept'[k]] /\ held' = [held EXCEPT ![k] = held'[k]]
    /\ fresh' = [fresh EXCEPT ![k] = fresh'[k]] /\ pc' = [pc EXCEPT ![k] = pc'[k]]
    /\ log' = [log EXCEPT ![k] = log'[k]] /\ crashes' = [crashes EXCEPT ![k] = crashes'[k]]
    /\ losses' = [losses EXCEPT ![k] = losses'[k]]

LEMMA PeerRests ==
    ASSUME TypeOK, NEW k \in Node, OnlyAt(k)
    PROVE  /\ ReaderRests(Peer(k)) /\ SenderRests(Peer(k))
           /\ mem'[Peer(k)] = mem[Peer(k)] /\ disk'[Peer(k)] = disk[Peer(k)]
<1>0. Peer(k) \in Node /\ Peer(k) # k
  BY PeerFacts
<1>1. mem'[Peer(k)] = mem[Peer(k)] /\ disk'[Peer(k)] = disk[Peer(k)]
  BY <1>0 DEF TypeOK, OnlyAt
<1>2. ReaderRests(Peer(k))
  BY <1>0, <1>1 DEF TypeOK, OnlyAt, ReaderRests, SameIn, Undelivered
<1>3. SenderRests(Peer(k))
  BY <1>0, <1>1 DEF TypeOK, OnlyAt, SenderRests, SameOut
<1> QED
  BY <1>1, <1>2, <1>3

LEMMA BootSteps ==
    ASSUME NEW k \in Node, StepBase(k), PollOK(k), BootNothing(k) \/ BootChanged(k)
    PROVE  StepOf(k)
<1>0. TypeOK /\ pc[k] = "idle" /\ FileOK(k)
  BY DEF BootNothing, BootChanged, StepBase
<1>1. Load(k)
  BY DEF BootNothing, BootChanged
<1>2. fresh[k] = {}
  BY <1>0 DEF PollOK
<1>3. mem' = [mem EXCEPT ![k] = loaded(k)] /\ disk' = disk
  BY DEF BootNothing, BootChanged, Polling
<1>4. /\ frame' = frame /\ said' = said /\ kept' = kept /\ fresh' = fresh /\ log' = log
      /\ crashes' = crashes /\ losses' = losses
  BY DEF BootNothing, BootChanged, Polling
<1>5. /\ held' = [held EXCEPT ![k] = held'[k]] /\ pc' = [pc EXCEPT ![k] = pc'[k]]
      /\ pc'[k] \in {"flush", "content"}
      /\ held'[k].env = first_envelope \/ held'[k].env = frame[Peer(k)]
  BY <1>0 DEF BootNothing, BootChanged, Return, TypeOK, NoVersion
<1>6. /\ mem'[k] = loaded(k) /\ disk'[k] = disk[k]
      /\ ReaderRests(Peer(k)) /\ SenderRests(Peer(k))
      /\ mem'[Peer(k)] = mem[Peer(k)] /\ disk'[Peer(k)] = disk[Peer(k)]
  <2>1. disk' = [disk EXCEPT ![k] = disk[k]] /\ frame' = [frame EXCEPT ![k] = frame'[k]]
        /\ said' = [said EXCEPT ![k] = said'[k]] /\ kept' = [kept EXCEPT ![k] = kept'[k]]
        /\ fresh' = [fresh EXCEPT ![k] = fresh'[k]] /\ log' = [log EXCEPT ![k] = log'[k]]
        /\ crashes' = [crashes EXCEPT ![k] = crashes'[k]]
        /\ losses' = [losses EXCEPT ![k] = losses'[k]]
    BY <1>0, <1>3, <1>4 DEF TypeOK
  <2>2. mem'[k] = loaded(k) /\ disk'[k] = disk[k] /\ mem' = [mem EXCEPT ![k] = mem'[k]]
    BY <1>0, <1>3 DEF TypeOK
  <2>3. OnlyAt(k)
    BY <1>3, <1>5, <2>1, <2>2 DEF OnlyAt
  <2> QED
    BY <1>0, <2>2, <2>3, PeerRests
<1>7. mem[k] \in State /\ disk[k] \in State
  BY <1>0 DEF TypeOK
<1>8. SameIn(disk[k], disk'[k]) /\ SameOut(disk[k], disk'[k])
  BY <1>6, SameSelf
<1>9. /\ Loaded(k, mem'[k].epoch) /\ SameIn(mem[k], mem'[k])
      /\ mem'[k].next_seq = mem[k].next_seq /\ mem'[k].outbox = mem[k].outbox
      /\ mem'[k].peer_acked = mem[k].peer_acked
  BY <1>0, <1>1, <1>6, LoadKeeps
<1>10. Loads(k)
  BY <1>4, <1>8, <1>9 DEF Loads
<1>11. Leaves(k) \/ Reads(k)
  BY <1>2, <1>4, <1>5, <1>8, <1>9 DEF Leaves, Reads, Undelivered
<1>12. FileStep(k)
  BY <1>5, <1>6 DEF FileStep
<1> QED
  BY <1>6, <1>10, <1>11, <1>12 DEF StepOf, ReaderStep, SenderStep

\* The steps of a poll in which only the receiving half changes.
LEMMA PollSteps ==
    ASSUME NEW k \in Node, StepBase(k), PollOK(k),
           ContentFails(k) \/ ContentBad(k) \/ DeliverRaises(k) \/ EndPoll(k)
    PROVE  StepOf(k)
<1>0. TypeOK /\ FileOK(k) /\ pc[k] \in {"content", "deliver"}
  BY DEF ContentFails, ContentBad, DeliverRaises, EndPoll, StepBase
<1>1. mem[k] \in State /\ disk[k] \in State
  BY <1>0 DEF TypeOK
<1>2. mem' = [mem EXCEPT ![k] = mem'[k]] /\ disk' = [disk EXCEPT ![k] = disk[k]]
  BY <1>0 DEF ContentFails, ContentBad, DeliverRaises, EndPoll, Polling, TypeOK
<1>3. /\ frame' = frame /\ said' = said /\ kept' = kept /\ log' = log
      /\ crashes' = crashes /\ losses' = losses
  BY DEF ContentFails, ContentBad, DeliverRaises, EndPoll, Polling
<1>4. /\ held' = [held EXCEPT ![k] = NoVersion] /\ pc' = [pc EXCEPT ![k] = pc'[k]]
      /\ pc'[k] \in {"flush", "save"}
  BY <1>0 DEF ContentFails, ContentBad, DeliverRaises, EndPoll, Return, TypeOK
<1>5. held'[k].env = first_envelope /\ held' = [held EXCEPT ![k] = held'[k]]
  BY <1>0, <1>4 DEF TypeOK, NoVersion
<1>6. fresh' = [fresh EXCEPT ![k] = fresh'[k]] /\ fresh'[k] = {}
  BY <1>0 DEF ContentFails, ContentBad, DeliverRaises, EndPoll, PollOK, TypeOK
<1>7. /\ disk'[k] = disk[k]
      /\ ReaderRests(Peer(k)) /\ SenderRests(Peer(k))
      /\ mem'[Peer(k)] = mem[Peer(k)] /\ disk'[Peer(k)] = disk[Peer(k)]
  <2>1. frame' = [frame EXCEPT ![k] = frame'[k]]
        /\ said' = [said EXCEPT ![k] = said'[k]] /\ kept' = [kept EXCEPT ![k] = kept'[k]]
        /\ log' = [log EXCEPT ![k] = log'[k]]
        /\ crashes' = [crashes EXCEPT ![k] = crashes'[k]]
        /\ losses' = [losses EXCEPT ![k] = losses'[k]]
    BY <1>0, <1>3 DEF TypeOK
  <2>2. disk'[k] = disk[k]
    BY <1>0, <1>2 DEF TypeOK
  <2>3. OnlyAt(k)
    BY <1>2, <1>4, <1>5, <1>6, <2>1, <2>2 DEF OnlyAt
  <2> QED
    BY <1>0, <2>2, <2>3, PeerRests
<1>8. SameIn(disk[k], disk'[k]) /\ SameOut(disk[k], disk'[k])
  BY <1>7, SameSelf
<1>9. /\ SameOut(mem[k], mem'[k])
      /\ \/ SameIn(mem[k], mem'[k])
         \/ mem'[k].peer_epoch = mem[k].peer_epoch /\ mem'[k].seen = newest(mem[k].seen)
  <2>1. mem'[k] \in {mem[k], [mem[k] EXCEPT !.bad_version = held[k].current],
                     [mem[k] EXCEPT !.seen = newest(mem[k].seen)],
                     [mem[k] EXCEPT !.seen = newest(mem[k].seen), !.peer_ver = held[k].current]}
    BY <1>0 DEF ContentFails, ContentBad, DeliverRaises, EndPoll, TypeOK
  <2> QED
    <3>1. CASE mem'[k] = mem[k]
      BY <3>1, SameSelf
    <3>2. CASE mem'[k] = [mem[k] EXCEPT !.bad_version = held[k].current]
      BY <1>1, <3>2 DEF State, SameOut, SameIn
    <3>3. CASE mem'[k] = [mem[k] EXCEPT !.seen = newest(mem[k].seen)]
      BY <1>1, <3>3 DEF State, SameOut
    <3>4. CASE mem'[k] = [mem[k] EXCEPT !.seen = newest(mem[k].seen), !.peer_ver = held[k].current]
      BY <1>1, <3>4 DEF State, SameOut
    <3> QED
      BY <2>1, <3>1, <3>2, <3>3, <3>4
<1>10. SenderRests(k)
  BY <1>3, <1>8, <1>9 DEF SenderRests
<1>11. Leaves(k) \/ Cuts(k)
  BY <1>3, <1>4, <1>5, <1>6, <1>8, <1>9 DEF Leaves, Cuts, Undelivered
<1>12. FileStep(k)
  BY <1>4, <1>7 DEF FileStep
<1> QED
  BY <1>7, <1>10, <1>11, <1>12 DEF StepOf, ReaderStep, SenderStep

LEMMA ContentStep ==
    ASSUME NEW k \in Node, StepBase(k), ContentGood(k)
    PROVE  StepOf(k)
<1>0. TypeOK /\ AckChain /\ FileOK(k) /\ pc[k] = "content"
  BY DEF ContentGood, StepBase
<1> DEFINE tr == track(mem[k], held[k].env)
           st == honour(tr, held[k].env)
<1>1. mem[k] \in State /\ disk[k] \in State /\ held[k].env \in Envelope
  BY <1>0, VersionFacts DEF TypeOK
<1>2. mem' = [mem EXCEPT ![k] = st] /\ disk' = [disk EXCEPT ![k] = disk[k]]
  BY <1>0 DEF ContentGood, Polling, TypeOK
<1>3. fresh' = [fresh EXCEPT ![k] = {m \in held[k].env.msgs : m.seq \notin st.seen}]
  BY DEF ContentGood
<1>4. tr \in State /\ SameOut(mem[k], tr)
  BY <1>1, StateFacts, TrackHalves
<1> HIDE DEF tr
<1>5. SameIn(tr, st) /\ st.epoch = tr.epoch /\ st.next_seq = tr.next_seq
  BY <1>4, HonourHalves
<1>6. /\ tr.peer_acked <= st.peer_acked
      /\ st.outbox = {m \in tr.outbox : m.seq > st.peer_acked}
  <2>1. \A m \in tr.outbox : tr.peer_acked < m.seq
    BY <1>0, <1>4 DEF FileOK, QueueOK, SameOut
  <2> QED
    BY <1>1, <1>4, <2>1, HonourKeeps
<1> HIDE DEF st
<1>7. /\ frame' = frame /\ said' = said /\ kept' = kept /\ log' = log /\ held' = held
      /\ crashes' = crashes /\ losses' = losses /\ pc' = [pc EXCEPT ![k] = "deliver"]
  BY DEF ContentGood, Polling
<1>8. pc'[k] = "deliver" /\ fresh'[k] = {m \in held[k].env.msgs : m.seq \notin st.seen}
  BY <1>0, <1>3, <1>7 DEF TypeOK
<1>9. /\ mem'[k] = st /\ disk'[k] = disk[k]
      /\ ReaderRests(Peer(k)) /\ SenderRests(Peer(k))
      /\ mem'[Peer(k)] = mem[Peer(k)] /\ disk'[Peer(k)] = disk[Peer(k)]
  <2>1. frame' = [frame EXCEPT ![k] = frame'[k]]
        /\ said' = [said EXCEPT ![k] = said'[k]] /\ kept' = [kept EXCEPT ![k] = kept'[k]]
        /\ log' = [log EXCEPT ![k] = log'[k]] /\ held' = [held EXCEPT ![k] = held'[k]]
        /\ crashes' = [crashes EXCEPT ![k] = crashes'[k]]
        /\ losses' = [losses EXCEPT ![k] = losses'[k]]
        /\ pc' = [pc EXCEPT ![k] = pc'[k]] /\ fresh' = [fresh EXCEPT ![k] = fresh'[k]]
    BY <1>0, <1>3, <1>7, <1>8 DEF TypeOK
  <2>2. mem'[k] = st /\ disk'[k] = disk[k] /\ mem' = [mem EXCEPT ![k] = mem'[k]]
    BY <1>0, <1>2 DEF TypeOK
  <2>3. OnlyAt(k)
    BY <1>2, <2>1, <2>2 DEF OnlyAt
  <2> QED
    BY <1>0, <2>2, <2>3, PeerRests
<1>10. SameIn(disk[k], disk'[k]) /\ SameOut(disk[k], disk'[k])
  BY <1>9, SameSelf
<1>11. mem[k].epoch # NoEpoch
  BY <1>0 DEF AckChain
<1>12. Honours(k)
  <2>1. /\ mem'[k].epoch = mem[k].epoch /\ mem'[k].next_seq = mem[k].next_seq
        /\ mem[k].peer_acked <= mem'[k].peer_acked
        /\ mem'[k].outbox = {m \in mem[k].outbox : m.seq > mem'[k].peer_acked}
    BY <1>4, <1>5, <1>6, <1>9 DEF SameOut
  <2> QED
    BY <1>7, <1>10, <1>11, <2>1 DEF Honours
<1>13. Tracks(k)
  <2>1. SameIn(track(mem[k], held[k].env), mem'[k])
    BY <1>5, <1>9 DEF tr
  <2>2. held'[k].env = held[k].env
    BY <1>7
  <2>3. Undelivered(k)
    BY <1>7 DEF Undelivered
  <2> QED
    BY <1>8, <1>9, <1>10, <2>1, <2>2, <2>3 DEF Tracks
<1>14. FileStep(k)
  BY <1>8, <1>9 DEF FileStep
<1> QED
  BY <1>9, <1>12, <1>13, <1>14 DEF StepOf, ReaderStep, SenderStep

LEMMA DeliverSteps ==
    ASSUME NEW k \in Node, StepBase(k), Deliver(k)
    PROVE  StepOf(k)
<1>0. TypeOK /\ pc[k] = "deliver"
  BY DEF Deliver, StepBase
<1>1. PICK m \in fresh[k] :
        /\ \A x \in fresh[k] : m.seq <= x.seq
        /\ log' = [log EXCEPT ![k] = Append(@, [epoch |-> mem[k].peer_epoch,
                                                seq |-> m.seq, id |-> m.id])]
        /\ fresh' = [fresh EXCEPT ![k] = @ \ {m}]
        /\ LET seen == mem[k].seen \cup {m.seq}
               a == mem[k].ack_through
           IN \E w \in seen \cup {a} :
                /\ w >= a
                /\ (a + 1) .. w \subseteq seen
                /\ w + 1 \notin seen
                /\ mem' = [mem EXCEPT ![k].seen = seen, ![k].owed = @ + 1,
                                      ![k].ack_through = w]
  BY Zenon DEF Deliver
<1>2. PICK w : mem' = [mem EXCEPT ![k].seen = mem[k].seen \cup {m.seq},
                                 ![k].owed = @ + 1, ![k].ack_through = w]
  BY <1>1
<1>3. mem[k] \in State
  BY <1>0 DEF TypeOK
<1>4. mem'[k] = [mem[k] EXCEPT !.seen = mem[k].seen \cup {m.seq}, !.owed = mem[k].owed + 1,
                               !.ack_through = w]
  BY <1>0, <1>2 DEF TypeOK
<1>5. /\ SameOut(mem[k], mem'[k]) /\ mem'[k].peer_epoch = mem[k].peer_epoch
      /\ mem'[k].seen = mem[k].seen \cup {m.seq}
  BY <1>3, <1>4 DEF State, SameOut
<1>6. /\ disk' = disk /\ frame' = frame /\ said' = said /\ kept' = kept /\ held' = held
      /\ crashes' = crashes /\ losses' = losses /\ pc' = pc
  BY DEF Deliver, Polling
<1>7. /\ log'[k] = Append(log[k], [epoch |-> mem[k].peer_epoch, seq |-> m.seq, id |-> m.id])
      /\ fresh'[k] = fresh[k] \ {m}
  BY <1>0, <1>1 DEF TypeOK
<1>8. OnlyAt(k)
  <2>1. mem' = [mem EXCEPT ![k] = mem'[k]]
    BY <1>0, <1>2 DEF TypeOK
  <2>2. log' = [log EXCEPT ![k] = log'[k]] /\ fresh' = [fresh EXCEPT ![k] = fresh'[k]]
    BY <1>0, <1>1 DEF TypeOK
  <2>3. /\ disk' = [disk EXCEPT ![k] = disk'[k]] /\ frame' = [frame EXCEPT ![k] = frame'[k]]
        /\ said' = [said EXCEPT ![k] = said'[k]] /\ kept' = [kept EXCEPT ![k] = kept'[k]]
        /\ held' = [held EXCEPT ![k] = held'[k]] /\ pc' = [pc EXCEPT ![k] = pc'[k]]
        /\ crashes' = [crashes EXCEPT ![k] = crashes'[k]]
        /\ losses' = [losses EXCEPT ![k] = losses'[k]]
    BY <1>0, <1>6 DEF TypeOK
  <2> QED
    BY <2>1, <2>2, <2>3 DEF OnlyAt
<1>9. /\ ReaderRests(Peer(k)) /\ SenderRests(Peer(k))
      /\ mem'[Peer(k)] = mem[Peer(k)] /\ disk'[Peer(k)] = disk[Peer(k)]
  BY <1>0, <1>8, PeerRests
<1>10. SameIn(disk[k], disk'[k]) /\ SameOut(disk[k], disk'[k])
  BY <1>6, SameSelf
<1>11. SenderRests(k)
  BY <1>5, <1>6, <1>10 DEF SenderRests
<1>12. Delivers(k)
  <2>1. \E x \in fresh[k] :
          /\ \A y \in fresh[k] : x.seq <= y.seq
          /\ log'[k] = Append(log[k], [epoch |-> mem[k].peer_epoch, seq |-> x.seq, id |-> x.id])
          /\ fresh'[k] = fresh[k] \ {x}
          /\ mem'[k].seen = mem[k].seen \cup {x.seq}
    BY <1>1, <1>5, <1>7
  <2> QED
    BY <1>0, <1>5, <1>6, <1>10, <2>1 DEF Delivers
<1>13. FileStep(k)
  BY <1>0, <1>6 DEF FileStep
<1> QED
  BY <1>9, <1>11, <1>12, <1>13 DEF StepOf, ReaderStep, SenderStep

LEMMA LineSteps ==
    ASSUME NEW k \in Node, StepBase(k), PollOK(k), NEW p \in {"lineflush", "save"}, Line(k, p)
    PROVE  StepOf(k)
<1>0. TypeOK /\ FileOK(k) /\ pc[k] = "idle" /\ Load(k) /\ said[k] < MaxLines[k]
  BY DEF Line, StepBase
<1> DEFINE ld == loaded(k)
           m == [seq |-> ld.next_seq, id |-> said[k] + 1]
           out == {x \in ld.outbox \cup {m} : x.seq > ld.peer_acked}
<1>1. ld \in State /\ mem[k] \in State
  BY <1>0, LoadFacts DEF TypeOK
<1>2. mem' = [mem EXCEPT ![k] = [ld EXCEPT !.next_seq = @ + 1, !.outbox = out]]
  BY DEF Line
<1>3. Cardinality(unacked(ld)) < Window
  BY DEF Line
<1>4. /\ Loaded(k, ld.epoch) /\ SameIn(mem[k], ld)
      /\ ld.next_seq = mem[k].next_seq /\ ld.outbox = mem[k].outbox
      /\ ld.peer_acked = mem[k].peer_acked
      /\ SameOut(mem[k], disk[k])
  BY <1>0, LoadKeeps
<1>5. m = [seq |-> mem[k].next_seq, id |-> said[k] + 1]
  BY <1>4
<1>6. out = {x \in mem[k].outbox \cup {m} : x.seq > mem[k].peer_acked}
  BY <1>4
<1> HIDE DEF ld, m, out
<1>7. mem'[k] = [ld EXCEPT !.next_seq = ld.next_seq + 1, !.outbox = out]
  BY <1>0, <1>2 DEF TypeOK
<1>8. /\ mem'[k].epoch = ld.epoch /\ mem'[k].peer_acked = ld.peer_acked
      /\ mem'[k].next_seq = ld.next_seq + 1 /\ mem'[k].outbox = out /\ SameIn(ld, mem'[k])
  BY <1>1, <1>7 DEF State, SameIn
<1>9. mem[k].next_seq <= mem[k].peer_acked + Window
  <2>1. unacked(ld) = unacked(mem[k])
    BY <1>4 DEF unacked
  <2> QED
    BY <1>0, <1>1, <1>3, <2>1, QueueRoom DEF FileOK
<1>10. /\ disk' = disk /\ frame' = frame /\ kept' = kept /\ held' = held /\ fresh' = fresh
       /\ log' = log /\ crashes' = crashes /\ losses' = losses
       /\ said' = [said EXCEPT ![k] = said[k] + 1] /\ pc' = [pc EXCEPT ![k] = p]
  BY DEF Line
<1>11. said'[k] = said[k] + 1 /\ pc'[k] = p
  BY <1>0, <1>10 DEF TypeOK
<1>12. OnlyAt(k)
  <2>1. mem' = [mem EXCEPT ![k] = mem'[k]]
    BY <1>0, <1>2, <1>7 DEF TypeOK
  <2>2. /\ disk' = [disk EXCEPT ![k] = disk'[k]] /\ frame' = [frame EXCEPT ![k] = frame'[k]]
        /\ kept' = [kept EXCEPT ![k] = kept'[k]] /\ log' = [log EXCEPT ![k] = log'[k]]
        /\ held' = [held EXCEPT ![k] = held'[k]] /\ fresh' = [fresh EXCEPT ![k] = fresh'[k]]
        /\ crashes' = [crashes EXCEPT ![k] = crashes'[k]]
        /\ losses' = [losses EXCEPT ![k] = losses'[k]]
    BY <1>0, <1>10 DEF TypeOK
  <2>3. said' = [said EXCEPT ![k] = said'[k]] /\ pc' = [pc EXCEPT ![k] = pc'[k]]
    BY <1>10, <1>11
  <2> QED
    BY <2>1, <2>2, <2>3 DEF OnlyAt
<1>13. /\ ReaderRests(Peer(k)) /\ SenderRests(Peer(k))
       /\ mem'[Peer(k)] = mem[Peer(k)] /\ disk'[Peer(k)] = disk[Peer(k)]
  BY <1>0, <1>12, PeerRests
<1>14. SameIn(disk[k], disk'[k]) /\ SameOut(disk[k], disk'[k])
  BY <1>10, SameSelf
<1>15. Lines(k)
  BY <1>0, <1>4, <1>5, <1>6, <1>8, <1>9, <1>10, <1>11, <1>14 DEF Lines
<1>16. Leaves(k)
  <2>1. fresh[k] = {}
    BY <1>0 DEF PollOK
  <2>2. SameIn(mem[k], mem'[k])
    BY <1>4, <1>8 DEF SameIn
  <2> QED
    BY <1>10, <1>11, <1>14, <2>1, <2>2 DEF Leaves, Undelivered
<1>17. FileStep(k)
  BY <1>10, <1>11 DEF FileStep
<1> QED
  BY <1>13, <1>15, <1>16, <1>17 DEF StepOf, ReaderStep, SenderStep

LEMMA PublishSteps ==
    ASSUME NEW k \in Node, StepBase(k), PollOK(k), NEW o \in Nat,
           pc[k] \in {"flush", "lineflush"}, publish(k, o)
    PROVE  StepOf(k)
<1>0. TypeOK /\ FileOK(k) /\ AckChain /\ Peer(k) \in Node /\ Peer(k) # k
  BY PeerFacts DEF StepBase
<1>1. /\ mem[k] \in State /\ mem[Peer(k)] \in State /\ disk[Peer(k)] \in State
      /\ held[Peer(k)] \in Version
  BY <1>0 DEF TypeOK
<1>2. /\ mem'[k] = [mem[k] EXCEPT !.owed = o] /\ disk'[k] = disk[k] /\ held'[k] = held[k]
      /\ frame'[k] = envelope(mem[k]) /\ pc'[k] = "save"
  BY <1>0 DEF publish, TypeOK
<1>3. /\ mem'[Peer(k)] = outdated(mem[Peer(k)]) /\ disk'[Peer(k)] = outdated(disk[Peer(k)])
      /\ held'[Peer(k)].env = held[Peer(k)].env
      /\ frame'[Peer(k)] = frame[Peer(k)] /\ pc'[Peer(k)] = pc[Peer(k)]
  BY <1>0, <1>1 DEF publish, TypeOK, Version
<1>4. /\ fresh' = fresh /\ said' = said /\ kept' = kept /\ log' = log
      /\ crashes' = crashes /\ losses' = losses
  BY DEF publish
<1>5. ReaderRests(Peer(k)) /\ SenderRests(Peer(k))
  BY <1>1, <1>3, <1>4, OutdatedHalves DEF ReaderRests, SenderRests, Undelivered
<1>6. SameOut(mem[k], mem'[k]) /\ SameIn(mem[k], mem'[k])
  BY <1>1, <1>2 DEF State, SameOut, SameIn
<1>7. SameOut(disk[k], disk'[k]) /\ SameIn(disk[k], disk'[k])
  BY <1>2, SameSelf
<1>8. mem[k].epoch # NoEpoch /\ fresh[k] = {}
  BY <1>0 DEF AckChain, PollOK
<1>9. frame'[k].epoch = mem[k].epoch /\ frame'[k].msgs = unacked(mem[k])
  BY <1>2 DEF envelope
<1>10. Publishes(k)
  BY <1>4, <1>6, <1>7, <1>8, <1>9 DEF Publishes
<1>11. Leaves(k)
  BY <1>2, <1>4, <1>6, <1>7, <1>8 DEF Leaves, Undelivered
<1>12. FileStep(k)
  BY <1>2 DEF FileStep
<1> QED
  BY <1>3, <1>5, <1>10, <1>11, <1>12 DEF StepOf, ReaderStep, SenderStep

\* Nothing is published, the state is saved, the process dies, the file is lost.
LEMMA QuietSteps ==
    ASSUME NEW k \in Node, StepBase(k), PollOK(k),
           FlushNothing(k) \/ Save(k) \/ Crash(k) \/ LoseState(k)
    PROVE  StepOf(k)
<1>0. TypeOK /\ FileOK(k) /\ AckChain
  BY DEF StepBase
<1>1. frame' = frame /\ said' = said /\ log' = log
  BY DEF FlushNothing, Save, Crash, LoseState
<1>2. OnlyAt(k)
  <2>1. /\ mem' = [mem EXCEPT ![k] = mem'[k]] /\ disk' = [disk EXCEPT ![k] = disk'[k]]
        /\ kept' = [kept EXCEPT ![k] = kept'[k]]
    BY <1>0 DEF FlushNothing, Save, Crash, LoseState, TypeOK
  <2>2. /\ held' = [held EXCEPT ![k] = held'[k]] /\ fresh' = [fresh EXCEPT ![k] = fresh'[k]]
        /\ pc' = [pc EXCEPT ![k] = pc'[k]]
    BY <1>0 DEF FlushNothing, Save, Crash, LoseState, TypeOK, Return
  <2>3. /\ crashes' = [crashes EXCEPT ![k] = crashes'[k]]
        /\ losses' = [losses EXCEPT ![k] = losses'[k]]
    BY <1>0 DEF FlushNothing, Save, Crash, LoseState, TypeOK
  <2>4. /\ frame' = [frame EXCEPT ![k] = frame'[k]] /\ said' = [said EXCEPT ![k] = said'[k]]
        /\ log' = [log EXCEPT ![k] = log'[k]]
    BY <1>0, <1>1 DEF TypeOK
  <2> QED
    BY <2>1, <2>2, <2>3, <2>4 DEF OnlyAt
<1>3. /\ ReaderRests(Peer(k)) /\ SenderRests(Peer(k))
      /\ mem'[Peer(k)] = mem[Peer(k)] /\ disk'[Peer(k)] = disk[Peer(k)]
  BY <1>0, <1>2, PeerRests
<1>4. CASE FlushNothing(k)
  <2>1. /\ mem' = mem /\ disk' = disk /\ held' = held /\ fresh' = fresh /\ kept' = kept
        /\ crashes' = crashes /\ losses' = losses /\ pc'[k] = "save" /\ pc[k] # "deliver"
    BY <1>0, <1>4 DEF FlushNothing, TypeOK
  <2>2. fresh[k] = {}
    BY <2>1 DEF PollOK
  <2>3. SenderRests(k)
    BY <1>1, <2>1, SameSelf DEF SenderRests
  <2>4. Leaves(k)
    BY <1>1, <2>1, <2>2, SameSelf DEF Leaves, Undelivered
  <2>5. FileStep(k)
    BY <2>1 DEF FileStep
  <2> QED
    BY <1>3, <2>3, <2>4, <2>5 DEF StepOf, ReaderStep, SenderStep
<1>5. CASE Save(k)
  <2>1. /\ mem' = mem /\ disk'[k] = mem[k] /\ held' = held /\ fresh' = fresh
        /\ crashes' = crashes /\ losses' = losses /\ pc'[k] = "idle" /\ pc[k] = "save"
        /\ kept'[k] = IF mem[k].next_seq = disk[k].next_seq THEN kept[k]
                      ELSE kept[k] \cup {said[k]}
    BY <1>0, <1>5 DEF Save, TypeOK
  <2>2. fresh[k] = {} /\ mem[k].epoch # NoEpoch
    BY <1>0, <2>1 DEF PollOK, AckChain
  <2>3. SenderSaves(k)
    BY <1>1, <2>1, <2>2, SameSelf DEF SenderSaves
  <2>4. ReaderSaves(k)
    BY <1>1, <2>1, <2>2, SameSelf DEF ReaderSaves, Undelivered
  <2>5. FileStep(k)
    BY <2>1, <2>2 DEF FileStep
  <2> QED
    BY <1>3, <2>3, <2>4, <2>5 DEF StepOf, ReaderStep, SenderStep
<1>6. CASE Crash(k)
  <2>1. /\ mem'[k] = disk[k] /\ disk' = disk /\ held'[k] = NoVersion /\ fresh'[k] = {}
        /\ crashes'[k] = crashes[k] + 1 /\ losses' = losses /\ pc'[k] = "idle" /\ kept' = kept
    BY <1>0, <1>6 DEF Crash, Return, TypeOK
  <2>2. held'[k].env = first_envelope /\ crashes'[k] # 0
    BY <1>0, <2>1 DEF NoVersion, TypeOK
  <2>3. SenderDies(k)
    BY <1>1, <2>1, <2>2, SameSelf DEF SenderDies
  <2>4. ReaderDies(k)
    BY <1>1, <2>1, <2>2, SameSelf DEF ReaderDies
  <2>5. FileStep(k)
    BY <2>1 DEF FileStep
  <2> QED
    BY <1>3, <2>3, <2>4, <2>5 DEF StepOf, ReaderStep, SenderStep
<1>7. CASE LoseState(k)
  <2>1. /\ mem'[k] = blank_state(NoEpoch) /\ disk'[k] = blank_state(NoEpoch) /\ held' = held
        /\ fresh' = fresh /\ crashes' = crashes /\ losses'[k] = losses[k] + 1 /\ pc' = pc
        /\ pc[k] = "idle" /\ kept'[k] = {}
    BY <1>0, <1>7 DEF LoseState, TypeOK
  <2>2. fresh[k] = {} /\ losses'[k] # 0
    BY <1>0, <2>1 DEF PollOK, TypeOK
  <2>3. SenderLoses(k)
    BY <1>1, <2>1, <2>2, SameSelf DEF SenderLoses
  <2>4. ReaderLoses(k)
    BY <1>1, <2>1, <2>2, SameSelf DEF ReaderLoses
  <2>5. FileStep(k)
    BY <2>1 DEF FileStep
  <2> QED
    BY <1>3, <2>3, <2>4, <2>5 DEF StepOf, ReaderStep, SenderStep
<1> QED
  BY <1>4, <1>5, <1>6, <1>7

\* Every step is one of these.
LEMMA NextIsStep ==
    ASSUME TypeOK, AckChain, \A n \in Node : FileOK(n) /\ PollOK(n), Next
    PROVE  \E k \in Node : StepOf(k)
<1>1. ASSUME NEW k \in Node, Cycle(k) PROVE StepOf(k)
  <2>1. StepBase(k) /\ PollOK(k)
    BY DEF StepBase
  <2>2. ASSUME Flush(k) \/ FlushUnanswered(k) PROVE StepOf(k)
    <3>1. mem[k].owed \in Nat /\ 0 \in Nat
      BY FieldFacts DEF TypeOK
    <3>2. pc[k] \in {"flush", "lineflush"} /\ \E o \in Nat : publish(k, o)
      BY <2>2, <3>1 DEF Flush, FlushUnanswered, mayPublish
    <3> QED
      BY <2>1, <3>2, PublishSteps
  <2> QED
    BY <1>1, <2>1, <2>2, BootSteps, PollSteps, ContentStep, DeliverSteps, QuietSteps DEF Cycle
<1>2. ASSUME NEW k \in Node, Line(k, "lineflush") \/ Line(k, "save") PROVE StepOf(k)
  BY <1>2, LineSteps DEF StepBase
<1>3. ASSUME NEW k \in Node, Crash(k) \/ LoseState(k) PROVE StepOf(k)
  BY <1>3, QuietSteps DEF StepBase
<1> QED
  BY <1>1, <1>2, <1>3 DEF Next

\* Epochs are drawn one after the other.
LEMMA EpochsGrow ==
    ASSUME TypeOK, [Next]_vars
    PROVE  epochs' \in Nat /\ epochs <= epochs'
<1>1. TypeOK'
  BY NextType
<1>2. ASSUME NEW k \in Node, Cycle(k) PROVE epochs' \in {epochs, epochs + 1}
  <2>1. CASE BootNothing(k) \/ BootChanged(k)
    BY <2>1 DEF BootNothing, BootChanged, Load
  <2>2. CASE ContentFails(k) \/ ContentBad(k) \/ ContentGood(k)
    BY <2>2 DEF ContentFails, ContentBad, ContentGood
  <2>5. CASE Deliver(k)
    BY <2>5, Zenon DEF Deliver
  <2>3. CASE DeliverRaises(k) \/ EndPoll(k) \/ FlushNothing(k) \/ Save(k)
    BY <2>3 DEF DeliverRaises, EndPoll, FlushNothing, Save
  <2>4. CASE Flush(k) \/ FlushUnanswered(k)
    BY <2>4 DEF Flush, FlushUnanswered, publish
  <2> QED
    BY <1>2, <2>1, <2>2, <2>3, <2>4, <2>5 DEF Cycle
<1>3. ASSUME NEW k \in Node, Line(k, "lineflush") \/ Line(k, "save") \/ Crash(k) \/ LoseState(k)
      PROVE  epochs' \in {epochs, epochs + 1}
  BY <1>3 DEF Line, Crash, LoseState, Load
<1>4. ASSUME UNCHANGED vars PROVE epochs' \in {epochs, epochs + 1}
  BY <1>4 DEF vars
<1>5. epochs' \in {epochs, epochs + 1}
  BY <1>2, <1>3, <1>4 DEF Next
<1> QED
  BY <1>1, <1>5 DEF TypeOK

-----------------------------------------------------------------------------
(* The outbox, memory and the state file.                                  *)

LEMMA QueueSame ==
    ASSUME NEW s, NEW t, QueueOK(s), t.next_seq = s.next_seq, t.outbox = s.outbox,
           t.peer_acked = s.peer_acked
    PROVE  QueueOK(t)
BY DEF QueueOK

LEMMA QueueBlank ==
    ASSUME NEW t, t.next_seq = 1, t.outbox = {}, t.peer_acked = 0 PROVE QueueOK(t)
<1>1. IsFiniteSet({})
  BY FS_EmptySet
<1> QED
  BY <1>1 DEF QueueOK

LEMMA QueueHonour ==
    ASSUME NEW s \in State, NEW t \in State, QueueOK(s), t.next_seq = s.next_seq,
           s.peer_acked <= t.peer_acked, t.outbox = {m \in s.outbox : m.seq > t.peer_acked}
    PROVE  QueueOK(t)
<1>1. /\ s.next_seq \in Nat /\ s.peer_acked \in Nat /\ t.peer_acked \in Nat
      /\ \A m \in s.outbox : m.seq \in Nat
  BY FieldFacts DEF Message
<1>2. IsFiniteSet(t.outbox)
  BY FS_Subset DEF QueueOK
<1>3. \A m \in t.outbox : t.peer_acked < m.seq /\ m.seq < t.next_seq
  BY <1>1 DEF QueueOK
<1>4. \A m, x \in t.outbox : m.seq = x.seq => m = x
  BY DEF QueueOK
<1>5. ASSUME NEW q \in Nat, t.peer_acked < q /\ q < t.next_seq PROVE \E m \in t.outbox : m.seq = q
  <2>1. PICK m \in s.outbox : m.seq = q
    BY <1>1, <1>5 DEF QueueOK
  <2> QED
    BY <1>1, <1>5, <2>1
<1>6. t.next_seq # 0
  BY DEF QueueOK
<1> QED
  BY <1>2, <1>3, <1>4, <1>5, <1>6 DEF QueueOK

LEMMA QueueLine ==
    ASSUME NEW s \in State, NEW t \in State, QueueOK(s), NEW id \in Nat,
           t.next_seq = s.next_seq + 1, t.peer_acked = s.peer_acked,
           t.outbox = {x \in s.outbox \cup {[seq |-> s.next_seq, id |-> id]} :
                          x.seq > s.peer_acked}
    PROVE  QueueOK(t)
<1> DEFINE new == [seq |-> s.next_seq, id |-> id]
<1>1. /\ s.next_seq \in Nat /\ s.peer_acked \in Nat
      /\ \A m \in s.outbox : m.seq \in Nat
  BY FieldFacts DEF Message
<1>2. new.seq = s.next_seq
  OBVIOUS
<1>3. t.outbox = {x \in s.outbox \cup {new} : x.seq > s.peer_acked}
  OBVIOUS
<1> HIDE DEF new
<1>4. IsFiniteSet(t.outbox)
  <2>1. IsFiniteSet(s.outbox \cup {new})
    BY FS_AddElement DEF QueueOK
  <2> QED
    BY <1>3, <2>1, FS_Subset
<1>5. \A m \in t.outbox : t.peer_acked < m.seq /\ m.seq < t.next_seq
  BY <1>1, <1>2, <1>3 DEF QueueOK
<1>6. \A m, x \in t.outbox : m.seq = x.seq => m = x
  BY <1>1, <1>2, <1>3 DEF QueueOK
<1>7. ASSUME NEW q \in Nat, t.peer_acked < q /\ q < t.next_seq PROVE \E m \in t.outbox : m.seq = q
  <2>1. CASE q = s.next_seq
    BY <1>1, <1>2, <1>3, <1>7, <2>1
  <2>2. CASE q < s.next_seq
    <3>1. PICK m \in s.outbox : m.seq = q
      BY <1>7, <2>2 DEF QueueOK
    <3> QED
      BY <1>1, <1>3, <1>7, <3>1
  <2> QED
    BY <1>1, <1>7, <2>1, <2>2
<1>8. t.next_seq # 0
  BY <1>1
<1> QED
  BY <1>4, <1>5, <1>6, <1>7, <1>8 DEF QueueOK

\* The peer of the node that moves, and a node when nothing moves.
LEMMA FileRests ==
    ASSUME TypeOK, [Next]_vars, NEW n \in Node, FileOK(n), ReaderRests(n), SenderRests(n),
           mem[n] = disk[n] => mem'[n] = disk'[n]
    PROVE  FileOK(n)'
<1>1. QueueOK(mem'[n]) /\ QueueOK(disk'[n])
  BY QueueSame DEF FileOK, SenderRests, SameOut
<1>2. pc'[n] = "idle" => mem'[n] = disk'[n]
  BY DEF FileOK, ReaderRests
<1>3. mem'[n].epoch <= epochs'
  <2>1. mem[n].epoch \in Nat /\ epochs \in Nat /\ epochs' \in Nat /\ epochs <= epochs'
    BY FieldFacts, EpochsGrow DEF TypeOK
  <2> QED
    BY <2>1 DEF FileOK, SenderRests, SameOut
<1>4. /\ mem'[n].next_seq \in {disk'[n].next_seq, disk'[n].next_seq + 1}
      /\ disk'[n].epoch # NoEpoch => mem'[n].epoch = disk'[n].epoch
      /\ disk'[n].epoch = NoEpoch =>
          /\ disk'[n].outbox = {} /\ disk'[n].next_seq = 1 /\ disk'[n].peer_acked = 0
          /\ disk'[n].seen = {} /\ disk'[n].peer_epoch = NoEpoch
          /\ kept'[n] = {}
  BY DEF FileOK, ReaderRests, SenderRests, SameOut, SameIn
<1> QED
  BY <1>1, <1>2, <1>3, <1>4 DEF FileOK

LEMMA FileMoves ==
    ASSUME TypeOK, [Next]_vars, NEW k \in Node, FileOK(k), SenderStep(k), FileStep(k)
    PROVE  FileOK(k)'
<1>0. TypeOK'
  BY NextType
<1>1. /\ mem[k] \in State /\ disk[k] \in State /\ mem'[k] \in State /\ disk'[k] \in State
      /\ said[k] + 1 \in Nat
  BY <1>0 DEF TypeOK
<1>2. /\ mem[k].epoch \in Nat /\ disk[k].epoch \in Nat /\ epochs \in Nat /\ epochs' \in Nat
      /\ epochs <= epochs' /\ mem[k].next_seq \in Nat /\ disk[k].next_seq \in Nat
      /\ mem[k].epoch <= epochs
  BY <1>1, FieldFacts, EpochsGrow DEF TypeOK, FileOK
<1>3. CASE disk'[k] = mem[k] /\ mem'[k] = mem[k] /\ mem[k].epoch # NoEpoch
  <2>1. mem'[k] = disk'[k] /\ QueueOK(mem'[k]) /\ mem'[k].epoch <= epochs' /\ disk'[k].epoch # NoEpoch
    BY <1>2, <1>3 DEF FileOK
  <2> QED
    BY <2>1 DEF FileOK
<1>4. CASE mem'[k] = disk'[k] /\ disk'[k] = blank_state(NoEpoch)
  <2>1. /\ disk'[k].epoch = NoEpoch /\ disk'[k].outbox = {} /\ disk'[k].next_seq = 1
        /\ disk'[k].peer_acked = 0 /\ disk'[k].seen = {} /\ disk'[k].peer_epoch = NoEpoch
    BY <1>4 DEF blank_state
  <2>2. QueueOK(disk'[k])
    BY <2>1, QueueBlank
  <2>3. NoEpoch <= epochs'
    BY <1>2 DEF NoEpoch
  <2>4. kept'[k] = {}
    <3>1. CASE disk[k].epoch = NoEpoch
      <4>1. kept[k] = {} /\ (mem[k].epoch # NoEpoch => mem'[k] # mem[k])
        BY <1>4, <2>1, <3>1 DEF FileOK
      <4>2. mem'[k].epoch = NoEpoch
        BY <1>4, <2>1
      <4> QED
        BY <1>4, <2>1, <3>1, <4>1, <4>2 DEF SenderStep, SenderRests, Loads, Lines, Honours,
           Publishes, SenderSaves, SenderDies, SenderLoses, SameOut
    <3>2. CASE disk[k].epoch # NoEpoch
      BY <1>4, <2>1, <3>2 DEF SenderStep, SenderRests, Loads, Lines, Honours,
         Publishes, SenderSaves, SenderDies, SenderLoses, SameOut
    <3> QED
      BY <3>1, <3>2
  <2> QED
    BY <1>4, <2>1, <2>2, <2>3, <2>4 DEF FileOK
<1>5. CASE disk'[k] = disk[k]
  <2>1. kept'[k] = kept[k] \/ kept'[k] = {}
    BY <1>5 DEF SenderStep, SenderRests, Loads, Lines, Honours,
       Publishes, SenderSaves, SenderDies, SenderLoses, SameOut
  <2>2. pc'[k] = "idle" => mem'[k] = disk'[k]
    BY <1>5 DEF FileStep
  <2>3. disk[k].epoch <= epochs' /\ NoEpoch <= epochs'
    <3>1. disk[k].epoch = NoEpoch \/ disk[k].epoch = mem[k].epoch
      BY DEF FileOK
    <3> QED
      BY <1>2, <3>1 DEF NoEpoch
  <2>4. /\ QueueOK(mem'[k]) /\ mem'[k].epoch <= epochs'
        /\ mem'[k].next_seq \in {disk[k].next_seq, disk[k].next_seq + 1}
        /\ disk[k].epoch # NoEpoch => mem'[k].epoch = disk[k].epoch
    <3>1. CASE SenderRests(k) \/ Publishes(k) \/ SenderSaves(k)
      <4>1. SameOut(mem[k], mem'[k])
        BY <3>1 DEF SenderRests, Publishes, SenderSaves
      <4>2. QueueOK(mem'[k])
        BY <4>1, QueueSame DEF SameOut, FileOK
      <4> QED
        BY <1>2, <4>1, <4>2 DEF SameOut, FileOK
    <3>2. ASSUME Loaded(k, mem'[k].epoch)
          PROVE  /\ mem'[k].epoch <= epochs'
                 /\ disk[k].epoch # NoEpoch => mem'[k].epoch = disk[k].epoch
      BY <1>2, <3>2 DEF Loaded, FileOK
    <3>3. CASE Loads(k)
      <4>1. QueueOK(mem'[k])
        BY <3>3, QueueSame DEF Loads, FileOK
      <4> QED
        BY <3>2, <3>3, <4>1 DEF Loads, FileOK
    <3>4. CASE Lines(k)
      <4>1. QueueOK(mem'[k])
        BY <1>1, <3>4, QueueLine DEF Lines, FileOK
      <4> QED
        BY <3>2, <3>4, <4>1 DEF Lines, SameOut
    <3>5. CASE Honours(k)
      <4>1. QueueOK(mem'[k])
        BY <1>1, <3>5, QueueHonour DEF Honours, FileOK
      <4> QED
        BY <1>2, <3>5, <4>1 DEF Honours, FileOK
    <3>6. CASE SenderDies(k)
      <4>1. SameOut(disk[k], mem'[k])
        BY <3>6 DEF SenderDies
      <4>2. QueueOK(mem'[k])
        BY <4>1, QueueSame DEF SameOut, FileOK
      <4> QED
        BY <2>3, <4>1, <4>2 DEF SameOut
    <3>7. CASE SenderLoses(k)
      <4>1. SameOut(disk[k], mem'[k]) /\ mem'[k].epoch = NoEpoch
        BY <1>5, <3>7 DEF SenderLoses, SameOut, blank_state
      <4>2. QueueOK(mem'[k])
        BY <4>1, QueueSame DEF SameOut, FileOK
      <4> QED
        BY <2>3, <4>1, <4>2 DEF SameOut
    <3> QED
      BY <3>1, <3>3, <3>4, <3>5, <3>6, <3>7 DEF SenderStep
  <2> QED
    BY <1>5, <2>1, <2>2, <2>4 DEF FileOK
<1> QED
  BY <1>3, <1>4, <1>5 DEF FileStep

-----------------------------------------------------------------------------
(* What moves on the way to a node.                                        *)

\* A step of the reader, or one of the sender.
LaneStep(n) ==
    \/ ReaderStep(n) /\ SenderRests(Peer(n))
    \/ ReaderRests(n) /\ SenderStep(Peer(n))

LEMMA StepIsLaneStep ==
    ASSUME NEW k \in Node, StepOf(k), NEW n \in Node
    PROVE  LaneStep(n)
<1>1. n = k \/ n = Peer(k)
  BY NodeAssumption DEF Peer
<1>2. Peer(Peer(k)) = k
  BY PeerFacts
<1> QED
  BY <1>1, <1>2 DEF StepOf, LaneStep

LEMMA RestIsLaneStep ==
    ASSUME UNCHANGED vars, NEW n \in Node PROVE ReaderRests(n) /\ SenderRests(n)
BY DEF vars, ReaderRests, SenderRests, SameOut, SameIn, Undelivered

\* The sets about lane n, before and after a step.
NoMore(n) ==
    /\ inHand(n)' \subseteq inHand(n)
    /\ framed(Peer(n))' \subseteq framed(Peer(n))
    /\ queued(Peer(n))' \subseteq queued(Peer(n))
    /\ marked(n)' \subseteq marked(n)
    /\ delivered(n)' \subseteq delivered(n)

Taken(n) ==
    /\ inHand(n)' \subseteq framed(Peer(n))
    /\ framed(Peer(n))' \subseteq framed(Peer(n))
    /\ queued(Peer(n))' \subseteq queued(Peer(n))
    /\ marked(n)' \subseteq marked(n)
    /\ delivered(n)' \subseteq delivered(n)

Sent(n) ==
    /\ inHand(n)' \subseteq inHand(n)
    /\ framed(Peer(n))' \subseteq queued(Peer(n))
    /\ queued(Peer(n))' \subseteq queued(Peer(n))
    /\ marked(n)' \subseteq marked(n)
    /\ delivered(n)' \subseteq delivered(n)
    /\ Publishes(Peer(n))

Given(n) ==
    /\ inHand(n)' \subseteq inHand(n)
    /\ framed(Peer(n))' \subseteq framed(Peer(n))
    /\ queued(Peer(n))' \subseteq queued(Peer(n))
    /\ Covers(marked(n) \cup inHand(n), marked(n)')
    /\ delivered(n)' \subseteq delivered(n) \cup inHand(n)

newest_line(p) == [epoch |-> mem'[p].epoch, seq |-> mem[p].next_seq, id |-> said[p] + 1]

Entered(n) ==
    /\ inHand(n)' \subseteq inHand(n)
    /\ framed(Peer(n))' \subseteq framed(Peer(n))
    /\ queued(Peer(n))' \subseteq queued(Peer(n)) \cup {newest_line(Peer(n))}
    /\ marked(n)' \subseteq marked(n)
    /\ delivered(n)' \subseteq delivered(n)
    /\ Lines(Peer(n))

Flows(n) == NoMore(n) \/ Taken(n) \/ Sent(n) \/ Given(n) \/ Entered(n)

\* What a half of a record contributes.
LEMMA RestSets ==
    ASSUME NEW n \in Node
    PROVE  /\ SenderRests(n) => queued(n)' = queued(n) /\ framed(n)' = framed(n)
           /\ ReaderRests(n) =>
                 inHand(n)' = inHand(n) /\ marked(n)' = marked(n) /\ delivered(n)' = delivered(n)
BY DEF SenderRests, ReaderRests, SameOut, SameIn, Undelivered, queued, framed, inHand, marked,
   delivered

LEMMA PeerPrime == \A n \in Node : Peer(n)' = Peer(n)
BY DEF Peer

LEMMA SenderFlows ==
    ASSUME TypeOK, TypeOK', NEW n \in Node, FileOK(Peer(n)), ReaderRests(n), SenderStep(Peer(n))
    PROVE  NoMore(n) \/ Sent(n) \/ Entered(n)
<1> DEFINE p == Peer(n)
<1>0. p \in Node
  BY PeerFacts
<1>1. inHand(n)' = inHand(n) /\ marked(n)' = marked(n) /\ delivered(n)' = delivered(n)
  BY RestSets
<1>2. /\ queued(p) = Entries(mem[p].epoch, mem[p].outbox) \cup Entries(disk[p].epoch, disk[p].outbox)
      /\ queued(p)' = Entries(mem'[p].epoch, mem'[p].outbox) \cup Entries(disk'[p].epoch, disk'[p].outbox)
  BY PeerPrime DEF queued
<1>3. ASSUME frame'[p] = frame[p] PROVE framed(p)' = framed(p)
  BY <1>3, PeerPrime DEF framed
<1>4. mem[p] \in State /\ disk[p] \in State
  BY <1>0 DEF TypeOK
<1> HIDE DEF p
<1>5. CASE SenderRests(p)
  BY <1>0, <1>1, <1>5, RestSets DEF NoMore, p
<1>6. CASE Loads(p)
  <2>1. Entries(mem'[p].epoch, mem'[p].outbox) = Entries(mem[p].epoch, mem[p].outbox)
    <3>1. mem'[p].epoch = mem[p].epoch \/ mem'[p].outbox = {}
      BY <1>6 DEF Loads, Loaded
    <3> QED
      BY <1>6, <3>1, EntryFacts DEF Loads
  <2>2. queued(p)' = queued(p) /\ framed(p)' = framed(p)
    BY <1>2, <1>3, <1>6, <2>1 DEF Loads, SameOut
  <2> QED
    BY <1>1, <2>2 DEF NoMore, p
<1>7. CASE Lines(p)
  <2> DEFINE m == [seq |-> mem[p].next_seq, id |-> said[p] + 1]
  <2>1. Entries(mem'[p].epoch, mem'[p].outbox)
          \subseteq Entries(mem[p].epoch, mem[p].outbox) \cup {newest_line(p)}
    <3>1. ASSUME NEW x \in Entries(mem'[p].epoch, mem'[p].outbox)
          PROVE  x \in Entries(mem[p].epoch, mem[p].outbox) \cup {newest_line(p)}
      <4>1. PICK y \in mem'[p].outbox : x = [epoch |-> mem'[p].epoch, seq |-> y.seq, id |-> y.id]
        BY EntryFacts
      <4>2. CASE y = m
        <5>1. y.seq = mem[p].next_seq /\ y.id = said[p] + 1
          BY <4>2
        <5> QED
          BY <4>1, <5>1 DEF newest_line
      <4>3. CASE y \in mem[p].outbox
        <5>1. mem'[p].epoch = mem[p].epoch
          BY <1>7, <4>3 DEF Lines, Loaded
        <5> QED
          BY <4>1, <4>3, <5>1, EntryFacts
      <4> QED
        BY <1>7, <4>1, <4>2, <4>3 DEF Lines
    <3> QED
      BY <3>1
  <2>2. disk'[p].epoch = disk[p].epoch /\ disk'[p].outbox = disk[p].outbox /\ framed(p)' = framed(p)
    BY <1>3, <1>7 DEF Lines, SameOut
  <2>3. queued(p)' \subseteq queued(p) \cup {newest_line(p)}
    BY <1>2, <2>1, <2>2
  <2> QED
    BY <1>1, <1>7, <2>2, <2>3 DEF Entered, p
<1>8. CASE Honours(p)
  <2>1. Entries(mem'[p].epoch, mem'[p].outbox) \subseteq Entries(mem[p].epoch, mem[p].outbox)
    <3>1. mem'[p].epoch = mem[p].epoch /\ mem'[p].outbox \subseteq mem[p].outbox
      BY <1>8 DEF Honours
    <3> QED
      BY <3>1, EntryFacts
  <2>2. disk'[p].epoch = disk[p].epoch /\ disk'[p].outbox = disk[p].outbox /\ framed(p)' = framed(p)
    BY <1>3, <1>8 DEF Honours, SameOut
  <2> QED
    BY <1>1, <1>2, <2>1, <2>2 DEF NoMore, p
<1>9. CASE Publishes(p)
  <2>1. queued(p)' = queued(p)
    BY <1>2, <1>9 DEF Publishes, SameOut
  <2>2. framed(p)' = Entries(mem[p].epoch, unacked(mem[p]))
    BY <1>9, PeerPrime DEF Publishes, framed
  <2>3. unacked(mem[p]) \subseteq mem[p].outbox
    BY DEF unacked
  <2>4. framed(p)' \subseteq queued(p)
    BY <1>2, <2>2, <2>3, EntryFacts
  <2> QED
    BY <1>1, <1>9, <2>1, <2>4 DEF Sent, p
<1>10. CASE SenderSaves(p)
  <2>1. queued(p)' \subseteq queued(p)
    BY <1>2, <1>10 DEF SenderSaves, SameOut
  <2>2. framed(p)' = framed(p)
    BY <1>3, <1>10 DEF SenderSaves
  <2> QED
    BY <1>1, <2>1, <2>2 DEF NoMore, p
<1>11. CASE SenderDies(p)
  <2>1. queued(p)' \subseteq queued(p)
    BY <1>2, <1>11 DEF SenderDies, SameOut
  <2>2. framed(p)' = framed(p)
    BY <1>3, <1>11 DEF SenderDies
  <2> QED
    BY <1>1, <2>1, <2>2 DEF NoMore, p
<1>12. CASE SenderLoses(p)
  <2>1. mem'[p].outbox = {} /\ disk'[p].outbox = {}
    BY <1>12 DEF SenderLoses, SameOut, blank_state
  <2>2. queued(p)' = {}
    BY <1>2, <2>1, EntryFacts
  <2>3. framed(p)' = framed(p)
    BY <1>3, <1>12 DEF SenderLoses
  <2> QED
    BY <1>1, <2>2, <2>3 DEF NoMore, p
<1> QED
  BY <1>5, <1>6, <1>7, <1>8, <1>9, <1>10, <1>11, <1>12 DEF SenderStep, p

\* What is fresh is in hand, under the epoch that is tracked.
LEMMA FreshInHand ==
    ASSUME TypeOK, NEW n \in Node, PollOK(n), IdsOK(n), pc[n] = "deliver", NEW m \in fresh[n]
    PROVE  /\ m \in held[n].env.msgs /\ m.seq \notin mem[n].seen /\ m \in Message
           /\ held[n].env.epoch = mem[n].peer_epoch
           /\ [epoch |-> mem[n].peer_epoch, seq |-> m.seq, id |-> m.id] \in inHand(n)
<1>1. m \in held[n].env.msgs /\ m.seq \notin mem[n].seen
  BY DEF PollOK
<1>2. [epoch |-> held[n].env.epoch, seq |-> m.seq, id |-> m.id] \in inHand(n)
  BY <1>1, EntryFacts DEF inHand
<1>3. held[n].env.epoch # NoEpoch
  BY <1>2 DEF IdsOK, carried
<1>4. held[n].env.epoch = mem[n].peer_epoch
  BY <1>3 DEF PollOK
<1>5. m \in Message
  BY DEF TypeOK
<1> QED
  BY <1>1, <1>2, <1>4, <1>5

LEMMA LogAppend ==
    ASSUME TypeOK, NEW n \in Node, NEW x \in Entry, log'[n] = Append(log[n], x)
    PROVE  /\ delivered(n)' = delivered(n) \cup {x}
           /\ Len(log[n]) \in Nat /\ Len(log'[n]) = Len(log[n]) + 1
           /\ \A i \in 1 .. Len(log[n]) : log'[n][i] = log[n][i]
           /\ log'[n][Len(log[n]) + 1] = x
<1>1. log[n] \in Seq(Entry)
  BY DEF TypeOK
<1>2. /\ Len(log[n]) \in Nat /\ Len(log'[n]) = Len(log[n]) + 1
      /\ \A i \in 1 .. Len(log[n]) : log'[n][i] = log[n][i]
      /\ log'[n][Len(log[n]) + 1] = x
  BY <1>1
<1>3. 1 .. Len(log'[n]) = 1 .. Len(log[n]) \cup {Len(log[n]) + 1}
  BY <1>2
<1>4. delivered(n)' = {log'[n][i] : i \in 1 .. Len(log'[n])}
  BY DEF delivered
<1>5. delivered(n)' = {log'[n][i] : i \in 1 .. Len(log[n])} \cup {x}
  BY <1>2, <1>3, <1>4
<1>6. {log'[n][i] : i \in 1 .. Len(log[n])} = {log[n][i] : i \in 1 .. Len(log[n])}
  BY <1>2
<1> QED
  BY <1>2, <1>5, <1>6 DEF delivered

LEMMA ReaderFlows ==
    ASSUME TypeOK, TypeOK', NEW n \in Node, PollOK(n), IdsOK(n), ReaderStep(n), SenderRests(Peer(n))
    PROVE  NoMore(n) \/ Taken(n) \/ Given(n)
<1> DEFINE p == Peer(n)
<1>0. p \in Node
  BY PeerFacts
<1>1. queued(p)' = queued(p) /\ framed(p)' = framed(p)
  BY <1>0, RestSets, PeerPrime
<1> HIDE DEF p
<1>2. /\ marked(n) = Marks(mem[n].peer_epoch, mem[n].seen) \cup Marks(disk[n].peer_epoch, disk[n].seen)
      /\ marked(n)' = Marks(mem'[n].peer_epoch, mem'[n].seen)
                        \cup Marks(disk'[n].peer_epoch, disk'[n].seen)
  BY DEF marked
<1>3. ASSUME log'[n] = log[n] PROVE delivered(n)' = delivered(n)
  BY <1>3 DEF delivered
<1>4. ASSUME held'[n].env = held[n].env PROVE inHand(n)' = inHand(n)
  BY <1>4 DEF inHand
<1>5. ASSUME held'[n].env = first_envelope PROVE inHand(n)' = {}
  BY <1>5, EntryFacts DEF inHand, first_envelope
<1>6. mem[n] \in State /\ mem'[n] \in State /\ held[n].env \in Envelope
  BY VersionFacts DEF TypeOK
<1>7. ASSUME inHand(n)' \subseteq inHand(n), marked(n)' \subseteq marked(n), log'[n] = log[n]
      PROVE  NoMore(n)
  BY <1>1, <1>3, <1>7 DEF NoMore, p
<1>8. CASE Leaves(n)
  BY <1>2, <1>4, <1>5, <1>7, <1>8 DEF Leaves, SameIn, Undelivered
<1>9. CASE Reads(n)
  <2>1. marked(n)' = marked(n) /\ delivered(n)' = delivered(n)
    BY <1>2, <1>3, <1>9 DEF Reads, SameIn, Undelivered
  <2>2. inHand(n)' = framed(p)
    BY <1>9 DEF Reads, inHand, framed, p
  <2> QED
    BY <1>1, <2>1, <2>2 DEF Taken, p
<1>10. CASE Tracks(n)
  <2> DEFINE t == track(mem[n], held[n].env)
  <2>1. (t.peer_epoch = mem[n].peer_epoch /\ t.seen = mem[n].seen) \/ t.seen = {}
    BY <1>6 DEF track, State
  <2>2. Marks(t.peer_epoch, t.seen) \subseteq Marks(mem[n].peer_epoch, mem[n].seen)
    BY <2>1, MarkFacts
  <2>3. marked(n)' \subseteq marked(n)
    BY <1>2, <1>10, <2>2 DEF Tracks, SameIn
  <2> QED
    BY <1>4, <1>7, <1>10, <2>3 DEF Tracks, Undelivered
<1>11. CASE Delivers(n)
  <2>1. PICK m \in fresh[n] :
          /\ log'[n] = Append(log[n], [epoch |-> mem[n].peer_epoch, seq |-> m.seq, id |-> m.id])
          /\ mem'[n].seen = mem[n].seen \cup {m.seq}
    BY <1>11 DEF Delivers
  <2> DEFINE x == [epoch |-> mem[n].peer_epoch, seq |-> m.seq, id |-> m.id]
  <2>2. x \in inHand(n)
    BY <1>11, FreshInHand DEF Delivers
  <2>3. x.epoch = mem[n].peer_epoch /\ x.seq = m.seq
    OBVIOUS
  <2>4. x \in Entry
    BY <2>2, CarriedType
  <2>5. log'[n] = Append(log[n], x)
    BY <2>1
  <2> HIDE DEF x
  <2>6. delivered(n)' \subseteq delivered(n) \cup inHand(n)
    BY <2>2, <2>4, <2>5, LogAppend
  <2>7. Covers(marked(n) \cup inHand(n), marked(n)')
    <3>1. ASSUME NEW t \in marked(n)'
          PROVE  \E y \in marked(n) \cup inHand(n) : y.epoch = t.epoch /\ y.seq = t.seq
      <4>1. CASE t \in Marks(disk'[n].peer_epoch, disk'[n].seen)
        BY <1>2, <1>11, <4>1 DEF Delivers, SameIn
      <4>2. CASE t \in Marks(mem'[n].peer_epoch, mem'[n].seen)
        <5>1. t.epoch = mem[n].peer_epoch /\ t.seq \in mem[n].seen \cup {m.seq}
          BY <1>11, <2>1, <4>2, MarkFacts DEF Delivers
        <5>2. CASE t.seq = m.seq
          BY <2>2, <2>3, <5>1, <5>2
        <5>3. CASE t.seq \in mem[n].seen
          <6> DEFINE y == [epoch |-> mem[n].peer_epoch, seq |-> t.seq]
          <6>1. y \in marked(n)
            BY <1>2, <5>3, MarkFacts
          <6>2. y.epoch = t.epoch /\ y.seq = t.seq
            BY <5>1
          <6> QED
            BY <6>1, <6>2
        <5> QED
          BY <5>1, <5>2, <5>3
      <4> QED
        BY <1>2, <4>1, <4>2
    <3> QED
      BY <3>1 DEF Covers
  <2> QED
    BY <1>1, <1>4, <1>11, <2>6, <2>7 DEF Given, Delivers, p
<1>12. CASE Cuts(n)
  <2>1. newest(mem[n].seen) \subseteq mem[n].seen
    BY DEF newest
  <2>2. Marks(mem'[n].peer_epoch, mem'[n].seen) \subseteq Marks(mem[n].peer_epoch, mem[n].seen)
    BY <1>12, <2>1, MarkFacts DEF Cuts
  <2>3. marked(n)' \subseteq marked(n)
    BY <1>2, <1>12, <2>2 DEF Cuts, SameIn
  <2> QED
    BY <1>5, <1>7, <1>12, <2>3 DEF Cuts, Undelivered
<1>13. CASE ReaderSaves(n)
  BY <1>2, <1>4, <1>7, <1>13 DEF ReaderSaves, SameIn, Undelivered
<1>14. CASE ReaderDies(n)
  BY <1>2, <1>5, <1>7, <1>14 DEF ReaderDies, SameIn
<1>15. CASE ReaderLoses(n)
  <2>1. mem'[n].seen = {} /\ disk'[n].seen = {}
    BY <1>15 DEF ReaderLoses, SameIn, blank_state
  <2>2. marked(n)' = {}
    BY <1>2, <2>1, MarkFacts
  <2> QED
    BY <1>4, <1>7, <1>15, <2>2 DEF ReaderLoses
<1> QED
  BY <1>8, <1>9, <1>10, <1>11, <1>12, <1>13, <1>14, <1>15 DEF ReaderStep

LEMMA StepFlows ==
    ASSUME TypeOK, TypeOK', NEW n \in Node, FileOK(Peer(n)), PollOK(n), IdsOK(n), LaneStep(n)
    PROVE  Flows(n)
BY ReaderFlows, SenderFlows DEF LaneStep, Flows

-----------------------------------------------------------------------------
(* The lane invariant, part by part.                                       *)

LEMMA EpochsKept ==
    ASSUME TypeOK, TypeOK', [Next]_vars, NEW n \in Node, FileOK(Peer(n)), EpochsOK(n), LaneStep(n)
    PROVE  EpochsOK(n)'
<1> DEFINE p == Peer(n)
<1>0. p \in Node /\ Peer(n)' = p
  BY PeerFacts, PeerPrime
<1>1. /\ mem[n].peer_epoch <= frame[p].epoch /\ disk[n].peer_epoch <= frame[p].epoch
      /\ held[n].env.epoch <= frame[p].epoch
      /\ held[n].env.epoch = NoEpoch \/ mem[n].peer_epoch <= held[n].env.epoch
      /\ frame[p].epoch <= epochs
      /\ mem[p].epoch = NoEpoch \/ frame[p].epoch <= mem[p].epoch
  BY DEF EpochsOK
<1>2. ASSUME /\ mem'[n].peer_epoch <= frame'[p].epoch /\ disk'[n].peer_epoch <= frame'[p].epoch
             /\ held'[n].env.epoch <= frame'[p].epoch
             /\ held'[n].env.epoch = NoEpoch \/ mem'[n].peer_epoch <= held'[n].env.epoch
             /\ frame'[p].epoch <= epochs'
             /\ mem'[p].epoch = NoEpoch \/ frame'[p].epoch <= mem'[p].epoch
      PROVE  EpochsOK(n)'
  BY <1>0, <1>2 DEF EpochsOK
<1>3. /\ mem[n].peer_epoch \in Nat /\ disk[n].peer_epoch \in Nat /\ mem[p].epoch \in Nat
      /\ disk[p].epoch \in Nat /\ epochs \in Nat /\ epochs' \in Nat /\ epochs <= epochs'
      /\ mem[p].epoch <= epochs
  BY <1>0, FieldFacts, EpochsGrow DEF TypeOK, FileOK
<1>4. /\ frame[p].epoch \in Nat /\ held[n].env.epoch \in Nat
      /\ frame[p] \in Envelope /\ held[n].env \in Envelope
  BY <1>0, VersionFacts DEF TypeOK, Envelope
<1>5. first_envelope.epoch = NoEpoch /\ NoEpoch = 0
  BY DEF first_envelope, NoEpoch
<1> HIDE DEF p
<1>6. ASSUME ReaderStep(n), SenderRests(p) PROVE EpochsOK(n)'
  <2>1. /\ frame'[p] = frame[p] /\ frame'[p].epoch <= epochs'
        /\ mem'[p].epoch = NoEpoch \/ frame'[p].epoch <= mem'[p].epoch
    BY <1>1, <1>3, <1>4, <1>6 DEF SenderRests, SameOut
  <2>2. CASE Leaves(n)
    BY <1>1, <1>2, <1>3, <1>4, <1>5, <2>1, <2>2 DEF Leaves, SameIn
  <2>3. CASE Reads(n)
    BY <1>1, <1>2, <1>3, <1>4, <1>5, <2>1, <2>3 DEF Reads, SameIn, p
  <2>4. CASE Tracks(n)
    <3>1. mem[n] \in State
      BY DEF TypeOK
    <3>2. \/ track(mem[n], held[n].env).peer_epoch = mem[n].peer_epoch
          \/ track(mem[n], held[n].env).peer_epoch = held[n].env.epoch
      BY <3>1 DEF track, State
    <3> QED
      BY <1>1, <1>2, <1>3, <1>4, <1>5, <2>1, <2>4, <3>2 DEF Tracks, SameIn
  <2>5. CASE Delivers(n)
    BY <1>1, <1>2, <1>3, <1>4, <1>5, <2>1, <2>5 DEF Delivers, SameIn
  <2>6. CASE Cuts(n)
    BY <1>1, <1>2, <1>3, <1>4, <1>5, <2>1, <2>6 DEF Cuts, SameIn
  <2>7. CASE ReaderSaves(n)
    BY <1>1, <1>2, <1>3, <1>4, <1>5, <2>1, <2>7 DEF ReaderSaves, SameIn
  <2>8. CASE ReaderDies(n)
    BY <1>1, <1>2, <1>3, <1>4, <1>5, <2>1, <2>8 DEF ReaderDies, SameIn
  <2>9. CASE ReaderLoses(n)
    <3>1. mem'[n].peer_epoch = NoEpoch /\ disk'[n].peer_epoch = NoEpoch
      BY <2>9 DEF ReaderLoses, SameIn, blank_state
    <3> QED
      BY <1>1, <1>2, <1>3, <1>4, <1>5, <2>1, <2>9, <3>1 DEF ReaderLoses
  <2> QED
    BY <1>6, <2>2, <2>3, <2>4, <2>5, <2>6, <2>7, <2>8, <2>9 DEF ReaderStep
<1>7. ASSUME ReaderRests(n), SenderStep(p) PROVE EpochsOK(n)'
  <2>1. /\ mem'[n].peer_epoch = mem[n].peer_epoch /\ disk'[n].peer_epoch = disk[n].peer_epoch
        /\ held'[n].env = held[n].env
    BY <1>7 DEF ReaderRests, SameIn
  <2>2. ASSUME frame'[p] = frame[p],
               mem'[p].epoch \in {NoEpoch, mem[p].epoch} \/ mem'[p].epoch > epochs
        PROVE  EpochsOK(n)'
    <3>1. mem'[p].epoch \in Nat
      BY <1>0, FieldFacts DEF TypeOK
    <3> QED
      BY <1>1, <1>2, <1>3, <1>4, <1>5, <2>1, <2>2, <3>1
  <2>3. CASE SenderRests(p)
    BY <2>2, <2>3 DEF SenderRests, SameOut
  <2>4. CASE Loads(p) \/ Lines(p)
    BY <1>3, <2>2, <2>4 DEF Loads, Lines, Loaded
  <2>5. CASE Honours(p) \/ SenderSaves(p)
    BY <2>2, <2>5 DEF Honours, SenderSaves, SameOut
  <2>6. CASE Publishes(p)
    BY <1>1, <1>2, <1>3, <1>4, <1>5, <2>1, <2>6 DEF Publishes, SameOut
  <2>7. CASE SenderDies(p)
    <3>1. disk[p].epoch \in {NoEpoch, mem[p].epoch}
      BY DEF FileOK, p
    <3> QED
      BY <2>2, <2>7, <3>1 DEF SenderDies, SameOut
  <2>8. CASE SenderLoses(p)
    BY <2>2, <2>8 DEF SenderLoses, SameOut, blank_state
  <2> QED
    BY <1>7, <2>3, <2>4, <2>5, <2>6, <2>7, <2>8 DEF SenderStep
<1> QED
  BY <1>6, <1>7 DEF LaneStep, p

LEMMA PollKept ==
    ASSUME TypeOK, NEW n \in Node, PollOK(n), IdsOK(n), LaneStep(n)
    PROVE  PollOK(n)'
<1>1. CASE ReaderRests(n)
  BY <1>1 DEF ReaderRests, SameIn, PollOK
<1>2. CASE Delivers(n)
  <2>1. /\ pc[n] = "deliver" /\ pc'[n] = "deliver" /\ held'[n].env = held[n].env
        /\ mem'[n].peer_epoch = mem[n].peer_epoch
    BY <1>2 DEF Delivers
  <2>2. PICK m \in fresh[n] :
          fresh'[n] = fresh[n] \ {m} /\ mem'[n].seen = mem[n].seen \cup {m.seq}
    BY <1>2 DEF Delivers
  <2>3. ASSUME NEW x \in fresh[n], x.seq = m.seq PROVE x = m
    <3> DEFINE y == [epoch |-> mem[n].peer_epoch, seq |-> m.seq, id |-> m.id]
               z == [epoch |-> mem[n].peer_epoch, seq |-> x.seq, id |-> x.id]
    <3>1. y \in inHand(n) /\ z \in inHand(n) /\ m \in Message /\ x \in Message
      BY <2>1, FreshInHand
    <3>2. y.seq = z.seq
      BY <2>3
    <3>3. y = z
      BY <3>1, <3>2 DEF IdsOK
    <3>4. m.id = x.id
      BY <3>3
    <3> QED
      BY <2>3, <3>1, <3>4 DEF Message
  <2>4. fresh[n] = {x \in held[n].env.msgs : x.seq \notin mem[n].seen}
    BY <2>1 DEF PollOK
  <2>5. fresh'[n] = {x \in held[n].env.msgs : x.seq \notin mem'[n].seen}
    BY <2>2, <2>3, <2>4
  <2> QED
    BY <2>1, <2>5 DEF PollOK
<1>3. CASE Tracks(n)
  <2>1. held[n].env.epoch \in {NoEpoch, track(mem[n], held[n].env).peer_epoch}
    <3>1. mem[n] \in State
      BY DEF TypeOK
    <3> QED
      BY <3>1 DEF track, State
  <2> QED
    BY <1>3, <2>1 DEF Tracks, SameIn, PollOK
<1>4. CASE pc'[n] # "deliver" /\ fresh'[n] = {}
  BY <1>4 DEF PollOK
<1> QED
  BY <1>1, <1>2, <1>3, <1>4 DEF LaneStep, ReaderStep, Leaves, Reads, Cuts, ReaderSaves,
     ReaderDies, ReaderLoses

\* What a node's user is to be handed does not shrink.
LEMMA SaidGrows ==
    ASSUME TypeOK, NEW n \in Node, LaneStep(n)
    PROVE  /\ said'[Peer(n)] \in Nat /\ said[Peer(n)] \in Nat /\ said[Peer(n)] <= said'[Peer(n)]
           /\ said'[Peer(n)] = said[Peer(n)] \/ Lines(Peer(n))
<1>1. said[Peer(n)] \in Nat
  BY PeerFacts DEF TypeOK
<1>2. \/ said'[Peer(n)] = said[Peer(n)]
      \/ Lines(Peer(n)) /\ said'[Peer(n)] = said[Peer(n)] + 1
  BY DEF LaneStep, SenderStep, SenderRests, Loads, Lines, Honours, Publishes, SenderSaves,
     SenderDies, SenderLoses
<1> QED
  BY <1>1, <1>2

\* A step adds the line that was entered to what is on the way, if anything.
LEMMA CarriedFlows ==
    ASSUME NEW n \in Node, Flows(n)
    PROVE  \/ carried(n)' \subseteq carried(n)
           \/ /\ Lines(Peer(n))
              /\ carried(n)' \subseteq carried(n) \cup {newest_line(Peer(n))}
<1>1. /\ carried(n) = inHand(n) \cup framed(Peer(n)) \cup queued(Peer(n))
      /\ carried(n)' = inHand(n)' \cup framed(Peer(n))' \cup queued(Peer(n))'
  BY DEF carried
<1> QED
  BY <1>1 DEF Flows, NoMore, Taken, Sent, Given, Entered

\* The line that was entered.
LEMMA NewestLine ==
    ASSUME TypeOK, TypeOK', NEW p \in Node, Lines(p)
    PROVE  /\ newest_line(p) \in Entry
           /\ newest_line(p).epoch = mem'[p].epoch /\ newest_line(p).epoch # NoEpoch
           /\ newest_line(p).seq = mem[p].next_seq /\ newest_line(p).id = said[p] + 1
           /\ said'[p] = said[p] + 1
<1>1. /\ mem'[p].epoch \in Nat /\ mem[p].next_seq \in Nat /\ said[p] + 1 \in Nat
      /\ epochs + 1 # NoEpoch
  BY FieldFacts DEF TypeOK, NoEpoch
<1>2. mem'[p].epoch # NoEpoch /\ said'[p] = said[p] + 1
  BY <1>1 DEF Lines, Loaded
<1> QED
  BY <1>1, <1>2 DEF newest_line, Entry

LEMMA IdsKept ==
    ASSUME TypeOK, TypeOK', [Next]_vars, NEW n \in Node, FileOK(Peer(n)), EpochsOK(n),
           PollOK(n), IdsOK(n), LaneStep(n)
    PROVE  IdsOK(n)'
<1> DEFINE p == Peer(n)
           new == newest_line(p)
<1>0. p \in Node /\ Peer(n)' = p
  BY PeerFacts, PeerPrime
<1>1. Flows(n)
  BY StepFlows
<1>2. said'[p] \in Nat /\ said[p] \in Nat /\ said[p] <= said'[p]
  BY SaidGrows
<1>3. epochs \in Nat /\ epochs' \in Nat /\ epochs <= epochs'
  BY EpochsGrow DEF TypeOK
<1>4. carried(n) \subseteq Entry /\ delivered(n) \subseteq Entry
  BY <1>0, CarriedType DEF carried
<1>5. carried(n)' \subseteq carried(n) \/ (Lines(p) /\ carried(n)' \subseteq carried(n) \cup {new})
  BY <1>1, CarriedFlows
<1>6. Lines(p) => /\ new.epoch # NoEpoch /\ new.id = said[p] + 1 /\ said'[p] = said[p] + 1
  BY <1>0, NewestLine
<1> HIDE DEF new
<1>7. \A x \in carried(n) : x.epoch # NoEpoch /\ x.id <= said[p] /\ x.id \in Nat
  BY <1>4 DEF IdsOK, Entry
<1>8. \A x \in carried(n)' : x.epoch # NoEpoch /\ x.id <= said'[p]
  BY <1>2, <1>5, <1>6, <1>7
<1>9. ASSUME NEW x \in carried(n)', NEW y \in carried(n)', x.id = y.id PROVE x = y
  <2>1. CASE x \in carried(n) /\ y \in carried(n)
    BY <1>9, <2>1 DEF IdsOK
  <2>2. CASE x \notin carried(n) \/ y \notin carried(n)
    <3>1. Lines(p) /\ x \in carried(n) \cup {new} /\ y \in carried(n) \cup {new}
      BY <1>5, <2>2
    <3>2. \A z \in carried(n) : z.id # said[p] + 1
      BY <1>2, <1>7
    <3> QED
      BY <1>6, <1>9, <2>2, <3>1, <3>2
  <2> QED
    BY <2>1, <2>2
<1>10. \A x, y \in inHand(n)' : x.seq = y.seq => x = y
  BY <1>1 DEF IdsOK, Flows, NoMore, Taken, Sent, Given, Entered
<1>11. \A x, y \in framed(p)' : x.seq = y.seq => x = y
  <2>1. CASE Publishes(p)
    <3>1. framed(p)' = Entries(mem[p].epoch, unacked(mem[p]))
      BY <1>0, <2>1 DEF framed, Publishes
    <3>2. \A m1, m2 \in unacked(mem[p]) : m1.seq = m2.seq => m1 = m2
      BY DEF FileOK, QueueOK, unacked
    <3> QED
      BY <3>1, <3>2, EntryFacts
  <2>2. CASE framed(p)' \subseteq framed(p)
    BY <2>2 DEF IdsOK
  <2> QED
    BY <1>1, <2>1, <2>2 DEF Flows, NoMore, Taken, Sent, Given, Entered
<1>12. \A x \in inHand(n) : x.epoch <= epochs
  <2>1. \A x \in inHand(n) : x.epoch = held[n].env.epoch
    BY EntryFacts DEF inHand
  <2>2. held[n].env.epoch <= frame[p].epoch /\ frame[p].epoch <= epochs
    BY DEF EpochsOK
  <2>3. held[n].env.epoch \in Nat /\ frame[p].epoch \in Nat
    BY <1>0, VersionFacts DEF TypeOK, Envelope
  <2> QED
    BY <1>3, <2>1, <2>2, <2>3
<1>13. \A x \in delivered(n)' : x.epoch # NoEpoch /\ x.epoch <= epochs' /\ x.id <= said'[p]
  <2>1. delivered(n)' \subseteq delivered(n) \cup inHand(n)
    BY <1>1 DEF Flows, NoMore, Taken, Sent, Given, Entered
  <2>2. inHand(n) \subseteq carried(n)
    BY DEF carried
  <2>3. \A x \in delivered(n) \cup inHand(n) :
           x.epoch # NoEpoch /\ x.epoch <= epochs /\ x.id <= said[p]
    BY <1>7, <1>12, <2>2 DEF IdsOK
  <2>4. \A x \in delivered(n) \cup inHand(n) : x.epoch \in Nat /\ x.id \in Nat
    BY <1>4, <2>2 DEF Entry
  <2> QED
    BY <1>2, <1>3, <2>1, <2>3, <2>4
<1>14. \A t \in marked(n)' : t.epoch # NoEpoch
  <2>1. Covers(marked(n) \cup inHand(n), marked(n)')
    BY <1>1, SubsetCovers DEF Flows, NoMore, Taken, Sent, Given, Entered, Covers
  <2>2. inHand(n) \subseteq carried(n)
    BY DEF carried
  <2> QED
    BY <1>7, <2>1, <2>2 DEF IdsOK, Covers
<1> QED
  BY <1>0, <1>8, <1>9, <1>10, <1>11, <1>13, <1>14 DEF IdsOK

LEMMA EpochBounds ==
    ASSUME TypeOK, NEW n \in Node, FileOK(Peer(n)), EpochsOK(n), IdsOK(n)
    PROVE  \A t \in marked(n) \cup carried(n) :
              t.epoch \in Nat /\ t.epoch <= epochs /\ t.epoch # NoEpoch /\ t.seq \in Nat
<1> DEFINE p == Peer(n)
<1>0. p \in Node
  BY PeerFacts
<1>1. /\ marked(n) \subseteq [epoch : Nat, seq : Nat]
      /\ inHand(n) \subseteq Entry /\ framed(p) \subseteq Entry /\ queued(p) \subseteq Entry
  BY <1>0, CarriedType
<1>2. /\ mem[n].peer_epoch \in Nat /\ disk[n].peer_epoch \in Nat /\ mem[p].epoch \in Nat
      /\ disk[p].epoch \in Nat /\ epochs \in Nat
      /\ frame[p].epoch \in Nat /\ held[n].env.epoch \in Nat
  BY <1>0, FieldFacts, VersionFacts DEF TypeOK, Envelope
<1>3. /\ mem[n].peer_epoch <= epochs /\ disk[n].peer_epoch <= epochs
      /\ frame[p].epoch <= epochs /\ held[n].env.epoch <= epochs
  BY <1>2 DEF EpochsOK
<1>4. mem[p].epoch <= epochs /\ disk[p].epoch <= epochs
  <2>1. mem[p].epoch <= epochs /\ (disk[p].epoch = NoEpoch \/ disk[p].epoch = mem[p].epoch)
    BY DEF FileOK
  <2> QED
    BY <1>2, <2>1 DEF NoEpoch
<1>5. \A t \in marked(n) : t.epoch <= epochs
  BY <1>3, MarkFacts DEF marked
<1>6. \A t \in inHand(n) : t.epoch <= epochs
  BY <1>3, EntryFacts DEF inHand
<1>7. \A t \in framed(p) : t.epoch <= epochs
  BY <1>3, EntryFacts DEF framed
<1>8. \A t \in queued(p) : t.epoch <= epochs
  BY <1>4, EntryFacts DEF queued
<1>9. \A t \in marked(n) \cup carried(n) : t.epoch # NoEpoch
  BY DEF IdsOK
<1>10. carried(n) = inHand(n) \cup framed(p) \cup queued(p)
  BY DEF carried
<1>11. ASSUME NEW t \in marked(n) PROVE t.epoch \in Nat /\ t.seq \in Nat
  BY <1>1
<1>12. ASSUME NEW t \in carried(n) PROVE t.epoch \in Nat /\ t.seq \in Nat
  BY <1>1, <1>10 DEF Entry
<1> QED
  BY <1>5, <1>6, <1>7, <1>8, <1>9, <1>10, <1>11, <1>12

\* What is queued has a number below the next one, or the one on record.
LEMMA QueuedPublished ==
    ASSUME TypeOK, NEW p \in Node, FileOK(p)
    PROVE  /\ Published(queued(p), mem[p]) /\ Published(queued(p), disk[p])
           /\ \A x \in queued(p) : x.seq < mem[p].next_seq
<1>1. /\ mem[p].next_seq \in Nat /\ disk[p].next_seq \in Nat
      /\ \A m \in mem[p].outbox \cup disk[p].outbox : m.seq \in Nat
  BY FieldFacts DEF TypeOK, Message
<1>2. mem[p].next_seq \in {disk[p].next_seq, disk[p].next_seq + 1}
  BY DEF FileOK
<1>3. \A x \in queued(p) : \E m \in mem[p].outbox \cup disk[p].outbox : x.seq = m.seq
  BY EntryFacts DEF queued
<1>4. \A m \in mem[p].outbox : m.seq < mem[p].next_seq
  BY DEF FileOK, QueueOK
<1>5. \A m \in disk[p].outbox : m.seq < disk[p].next_seq
  BY DEF FileOK, QueueOK
<1>6. \A x \in queued(p) : x.seq \in Nat /\ x.seq < mem[p].next_seq /\ x.seq <= disk[p].next_seq
  BY <1>1, <1>2, <1>3, <1>4, <1>5
<1> QED
  BY <1>1, <1>6 DEF Published

\* All that is on the way, or was seen, is known to the sender's records.
LEMMA AllPublished ==
    ASSUME TypeOK, NEW n \in Node, FileOK(Peer(n)), BoundOK(n)
    PROVE  \A st \in {mem[Peer(n)], disk[Peer(n)]} : Published(marked(n) \cup carried(n), st)
<1>1. Peer(n) \in Node
  BY PeerFacts
<1>2. \A st \in {mem[Peer(n)], disk[Peer(n)]} :
         /\ Published(marked(n), st) /\ Published(inHand(n), st)
         /\ Published(framed(Peer(n)), st) /\ Published(queued(Peer(n)), st)
  BY <1>1, QueuedPublished DEF BoundOK
<1> QED
  BY <1>2 DEF Published, carried

\* A record that changes has another epoch or a number as high as before.
LEMMA RecordGrows ==
    ASSUME TypeOK, TypeOK', NEW p \in Node, FileOK(p), SenderStep(p),
           NEW st \in {mem'[p], disk'[p]}
    PROVE  \/ st.epoch = NoEpoch
           \/ st.epoch > epochs
           \/ \E s \in {mem[p], disk[p]} : st.epoch = s.epoch /\ s.next_seq <= st.next_seq
<1>1. /\ mem[p].next_seq \in Nat /\ disk[p].next_seq \in Nat /\ epochs \in Nat
  BY FieldFacts DEF TypeOK
<1>2. CASE SameOut(mem[p], st) \/ SameOut(disk[p], st)
  BY <1>1, <1>2 DEF SameOut
<1>3. CASE st.epoch = mem[p].epoch /\ mem[p].next_seq <= st.next_seq
  BY <1>3
<1>4. CASE st.epoch = NoEpoch \/ st.epoch > epochs
  BY <1>4
<1>5. \/ SameOut(mem[p], st) \/ SameOut(disk[p], st)
      \/ st.epoch = mem[p].epoch /\ mem[p].next_seq <= st.next_seq
      \/ st.epoch = NoEpoch \/ st.epoch > epochs
  <2>1. CASE SenderRests(p) \/ Publishes(p) \/ SenderSaves(p) \/ SenderDies(p)
    BY <2>1 DEF SenderRests, Publishes, SenderSaves, SenderDies
  <2>2. CASE Loads(p) \/ Lines(p)
    <3>1. SameOut(disk[p], disk'[p])
      BY <2>2 DEF Loads, Lines
    <3>2. mem'[p].epoch = mem[p].epoch \/ mem'[p].epoch > epochs
      BY <1>1, <2>2 DEF Loads, Lines, Loaded
    <3>3. mem[p].next_seq <= mem'[p].next_seq
      BY <1>1, <2>2 DEF Loads, Lines
    <3> QED
      BY <3>1, <3>2, <3>3
  <2>3. CASE Honours(p)
    BY <1>1, <2>3 DEF Honours
  <2>4. CASE SenderLoses(p)
    BY <2>4 DEF SenderLoses, SameOut, blank_state
  <2> QED
    BY <2>1, <2>2, <2>3, <2>4 DEF SenderStep
<1> QED
  BY <1>2, <1>3, <1>4, <1>5

LEMMA BoundKept ==
    ASSUME TypeOK, TypeOK', [Next]_vars, NEW n \in Node, FileOK(Peer(n)), EpochsOK(n),
           PollOK(n), IdsOK(n), BoundOK(n), LaneStep(n)
    PROVE  BoundOK(n)'
<1> DEFINE p == Peer(n)
           A == marked(n) \cup carried(n)
<1>0. p \in Node /\ Peer(n)' = p
  BY PeerFacts, PeerPrime
<1>1. Flows(n)
  BY StepFlows
<1>2. Covers(A, marked(n)') /\ Covers(A, inHand(n)') /\ Covers(A, framed(p)')
  BY <1>1 DEF Flows, NoMore, Taken, Sent, Given, Entered, Covers, carried
<1>3. \A st \in {mem[p], disk[p]} : Published(A, st)
  BY AllPublished
<1>4. \A t \in A : t.epoch \in Nat /\ t.epoch <= epochs /\ t.epoch # NoEpoch /\ t.seq \in Nat
  BY EpochBounds
<1> HIDE DEF A
<1>5. SenderStep(p)
  BY DEF LaneStep, SenderStep
<1>6. ASSUME NEW st \in {mem'[p], disk'[p]} PROVE Published(A, st)
  <2>1. CASE st.epoch = NoEpoch \/ st.epoch > epochs
    <3>1. epochs \in Nat /\ st.epoch \in Nat
      BY <1>0, FieldFacts DEF TypeOK
    <3> QED
      BY <1>4, <2>1, <3>1 DEF Published
  <2>2. ASSUME NEW s \in {mem[p], disk[p]}, st.epoch = s.epoch, s.next_seq <= st.next_seq
        PROVE  Published(A, st)
    <3>1. s.next_seq \in Nat /\ st.next_seq \in Nat
      BY <1>0, FieldFacts DEF TypeOK
    <3>2. \A t \in A : t.epoch = s.epoch => t.seq <= s.next_seq
      BY <1>3 DEF Published
    <3> QED
      BY <1>4, <2>2, <3>1, <3>2 DEF Published
  <2> QED
    BY <1>0, <1>5, <2>1, <2>2, RecordGrows
<1>7. \A st \in {mem'[p], disk'[p]} :
         Published(marked(n)', st) /\ Published(inHand(n)', st) /\ Published(framed(p)', st)
  BY <1>2, <1>6, PublishedCovers
<1> QED
  BY <1>0, <1>7 DEF BoundOK

LEMMA NearKept ==
    ASSUME TypeOK, TypeOK', [Next]_vars, NEW n \in Node, FileOK(Peer(n)), EpochsOK(n),
           PollOK(n), IdsOK(n), BoundOK(n), NearOK(n), LaneStep(n)
    PROVE  NearOK(n)'
<1> DEFINE p == Peer(n)
           new == newest_line(p)
<1>0. p \in Node /\ Peer(n)' = p
  BY PeerFacts, PeerPrime
<1>1. Flows(n)
  BY StepFlows
<1>2. /\ Near(marked(n), carried(n)) /\ Near(inHand(n), carried(n))
      /\ Near(framed(p), framed(p) \cup queued(p)) /\ Near(queued(p), queued(p))
  BY DEF NearOK
<1>3. /\ carried(n) = inHand(n) \cup framed(p) \cup queued(p)
      /\ carried(n)' = inHand(n)' \cup framed(p)' \cup queued(p)'
  BY <1>0 DEF carried
<1>4. ASSUME /\ Near(marked(n)', carried(n)') /\ Near(inHand(n)', carried(n)')
             /\ Near(framed(p)', framed(p)' \cup queued(p)') /\ Near(queued(p)', queued(p)')
      PROVE  NearOK(n)'
  BY <1>0, <1>4 DEF NearOK, Near
<1> HIDE DEF p
<1>5. CASE NoMore(n)
  BY <1>2, <1>3, <1>4, <1>5 DEF NoMore, Near, p
<1>6. CASE Taken(n)
  BY <1>2, <1>3, <1>4, <1>6 DEF Taken, Near, p
<1>7. CASE Sent(n)
  BY <1>2, <1>3, <1>4, <1>7 DEF Sent, Near, p
<1>8. CASE Given(n)
  <2>1. Near(marked(n)', carried(n)')
    <3>1. Near(marked(n) \cup inHand(n), carried(n))
      BY <1>2 DEF Near
    <3>2. Covers(carried(n), carried(n)')
      BY <1>3, <1>8 DEF Given, Covers, p
    <3> QED
      BY <1>8, <3>1, <3>2, NearCovers DEF Given
  <2> QED
    BY <1>2, <1>3, <1>4, <1>8, <2>1 DEF Given, Near, p
<1>9. CASE Entered(n)
  <2>1. Lines(p)
    BY <1>9 DEF Entered, p
  <2>2. new.epoch = mem'[p].epoch /\ new.seq = mem[p].next_seq /\ new \in Entry
    BY <1>0, <2>1, NewestLine
  <2>3. /\ mem[p].next_seq \in Nat /\ mem[p].peer_acked \in Nat /\ Window \in Nat /\ Window > 0
        /\ epochs \in Nat /\ \A m \in mem[p].outbox : m.seq \in Nat
    <3>1. mem[p] \in State /\ epochs \in Nat
      BY <1>0 DEF TypeOK
    <3>2. mem[p].next_seq \in Nat /\ mem[p].peer_acked \in Nat /\ mem[p].outbox \in SUBSET Message
      BY <3>1, FieldFacts
    <3> QED
      BY <3>1, <3>2, WindowAssumption DEF Message
  <2>4. \A t \in marked(n) \cup carried(n) :
           t.epoch \in Nat /\ t.epoch <= epochs /\ t.epoch # NoEpoch /\ t.seq \in Nat
    BY EpochBounds DEF p
  <2>5. Published(marked(n) \cup carried(n), mem[p])
    BY AllPublished DEF p
  <2> HIDE DEF new
  <2>6. Near(marked(n) \cup carried(n), {new})
    <3>1. new.epoch = mem[p].epoch \/ new.epoch = epochs + 1
      BY <2>1, <2>2 DEF Lines, Loaded
    <3>2. ASSUME NEW t \in marked(n) \cup carried(n), t.epoch = new.epoch
          PROVE  t.seq < new.seq + Window
      <4>1. t.epoch # epochs + 1
        BY <2>3, <2>4
      <4>2. t.seq <= mem[p].next_seq
        BY <2>5, <3>1, <3>2, <4>1 DEF Published
      <4> QED
        BY <2>2, <2>3, <2>4, <4>2
    <3> QED
      BY <3>2 DEF Near
  <2>7. Near({new}, queued(p) \cup {new})
    <3>1. ASSUME NEW x \in queued(p) PROVE new.seq < x.seq + Window
      <4>1. disk[p].outbox = mem[p].outbox
        BY <2>1 DEF Lines, SameOut
      <4>2. PICK m \in mem[p].outbox : x.seq = m.seq
        BY <4>1, EntryFacts DEF queued
      <4>3. mem[p].peer_acked < m.seq
        BY DEF FileOK, QueueOK, p
      <4>4. mem[p].next_seq <= mem[p].peer_acked + Window
        BY <2>1 DEF Lines
      <4> QED
        BY <2>2, <2>3, <4>2, <4>3, <4>4
    <3>2. new.seq < new.seq + Window
      BY <2>2, <2>3
    <3> QED
      BY <3>1, <3>2 DEF Near
  <2>8. /\ inHand(n)' \subseteq inHand(n) /\ framed(p)' \subseteq framed(p)
        /\ queued(p)' \subseteq queued(p) \cup {new} /\ marked(n)' \subseteq marked(n)
    BY <1>9 DEF Entered, p, new
  <2>9. /\ Near(marked(n), carried(n) \cup {new}) /\ Near(inHand(n), carried(n) \cup {new})
        /\ Near(framed(p), framed(p) \cup queued(p) \cup {new})
        /\ Near(queued(p) \cup {new}, queued(p) \cup {new})
    BY <1>2, <1>3, <2>6, <2>7 DEF Near
  <2> QED
    BY <1>3, <1>4, <2>8, <2>9 DEF Near
<1> QED
  BY <1>1, <1>5, <1>6, <1>7, <1>8, <1>9 DEF Flows

\* The deliveries of one message, before and after a step.
LEMMA HitsFacts ==
    ASSUME TypeOK, NEW n \in Node, NEW id \in Nat
    PROVE  /\ IsFiniteSet(hits(n, id)) /\ Cardinality(hits(n, id)) \in Nat
           /\ log'[n] = log[n] => hits(n, id)' = hits(n, id)
           /\ (\A x \in delivered(n) : x.id # id) => Cardinality(hits(n, id)) = 0
<1>1. Len(log[n]) \in Nat
  BY DEF TypeOK
<1>2. IsFiniteSet(1 .. Len(log[n])) /\ hits(n, id) \subseteq 1 .. Len(log[n])
  <2>1. 1 \in Int /\ Len(log[n]) \in Int
    BY <1>1
  <2> QED
    BY <2>1, FS_Interval DEF hits
<1>3. IsFiniteSet(hits(n, id))
  BY <1>2, FS_Subset
<1>4. Cardinality(hits(n, id)) \in Nat
  BY <1>3, FS_CardinalityType
<1>5. log'[n] = log[n] => hits(n, id)' = hits(n, id)
  BY DEF hits
<1>6. ASSUME \A x \in delivered(n) : x.id # id PROVE Cardinality(hits(n, id)) = 0
  <2>1. hits(n, id) = {}
    BY <1>6 DEF hits, delivered
  <2> QED
    BY <2>1, FS_EmptySet
<1> QED
  BY <1>3, <1>4, <1>5, <1>6

LEMMA HitsAppend ==
    ASSUME TypeOK, NEW n \in Node, NEW x \in Entry, log'[n] = Append(log[n], x), NEW id \in Nat
    PROVE  /\ id # x.id => hits(n, id)' = hits(n, id)
           /\ id = x.id => Cardinality(hits(n, id)') = Cardinality(hits(n, id)) + 1
<1> DEFINE k == Len(log[n]) + 1
           H == hits(n, id)
<1>1. /\ Len(log[n]) \in Nat /\ Len(log'[n]) = k
      /\ \A i \in 1 .. Len(log[n]) : log'[n][i] = log[n][i]
      /\ log'[n][k] = x
  BY LogAppend
<1>2. 1 .. Len(log'[n]) = 1 .. Len(log[n]) \cup {k}
  BY <1>1
<1>3. H' = {i \in 1 .. Len(log'[n]) : log'[n][i].id = id}
  BY DEF hits
<1>4. H = {i \in 1 .. Len(log[n]) : log[n][i].id = id}
  BY DEF hits
<1>5. k \notin H /\ IsFiniteSet(H)
  <2>1. k \notin H
    BY <1>1, <1>4
  <2>2. IsFiniteSet(H)
    BY HitsFacts
  <2> QED
    BY <2>1, <2>2
<1>6. id # x.id => H' = H
  BY <1>1, <1>2, <1>3, <1>4
<1>7. id = x.id => H' = H \cup {k}
  BY <1>1, <1>2, <1>3, <1>4
<1> DEFINE G == H'
<1>8. id = x.id => G = H \cup {k}
  BY <1>7
<1> HIDE DEF H, k, G
<1>9. id = x.id => Cardinality(G) = Cardinality(H) + 1
  <2>1. Cardinality(H \cup {k}) = Cardinality(H) + 1
    BY <1>5, FS_AddElement
  <2> QED
    BY <1>8, <2>1
<1> QED
  BY <1>6, <1>9 DEF G, H

\* No message of an epoch before the one being read is on the way.
LEMMA OldEpochGone ==
    ASSUME TypeOK, NEW n \in Node, FileOK(Peer(n)), EpochsOK(n), IdsOK(n),
           held[n].env.epoch \notin {NoEpoch, mem[n].peer_epoch}, NEW x \in carried(n)
    PROVE  x.epoch # mem[n].peer_epoch
<1> DEFINE p == Peer(n)
<1>0. p \in Node
  BY PeerFacts
<1>1. /\ mem[n].peer_epoch \in Nat /\ held[n].env.epoch \in Nat /\ frame[p].epoch \in Nat
      /\ mem[p].epoch \in Nat
  BY <1>0, FieldFacts, VersionFacts DEF TypeOK, Envelope
<1>2. /\ mem[n].peer_epoch < held[n].env.epoch /\ mem[n].peer_epoch < frame[p].epoch
      /\ mem[p].epoch = NoEpoch \/ mem[n].peer_epoch < mem[p].epoch
  BY <1>1 DEF EpochsOK
<1>3. disk[p].epoch = NoEpoch \/ disk[p].epoch = mem[p].epoch
  BY DEF FileOK
<1>4. x.epoch # NoEpoch
  BY DEF IdsOK
<1>5. x.epoch \in {held[n].env.epoch, frame[p].epoch, mem[p].epoch, disk[p].epoch}
  BY EntryFacts DEF carried, inHand, framed, queued
<1> QED
  BY <1>1, <1>2, <1>3, <1>4, <1>5

\* Cutting the list to the newest numbers keeps what is still on the way.
LEMMA CutKeeps ==
    ASSUME TypeOK, Window <= SeenCap, NEW n \in Node, NearOK(n), NEW x \in carried(n), Shut(n, x)
    PROVE  x.seq \in newest(mem[n].seen)
<1>1. mem[n].seen \in SUBSET Nat
  BY FieldFacts DEF TypeOK
<1>2. x.epoch = mem[n].peer_epoch /\ x.seq \in mem[n].seen
  BY DEF Shut
<1>3. ASSUME NEW t \in mem[n].seen PROVE t < x.seq + Window
  <2> DEFINE y == [epoch |-> mem[n].peer_epoch, seq |-> t]
  <2>1. y \in marked(n) /\ y.epoch = x.epoch /\ y.seq = t
    BY <1>2, MarkFacts DEF marked
  <2> QED
    BY <2>1 DEF NearOK, Near
<1> QED
  BY <1>1, <1>2, <1>3, NewestKeeps

\* What would be taken for a duplicate still would be, unless the reader failed.
LEMMA ShutKept ==
    ASSUME TypeOK, Window <= SeenCap, NEW n \in Node, FileOK(Peer(n)), EpochsOK(n), IdsOK(n),
           NearOK(n), LaneStep(n), ~ ReaderDies(n), ~ ReaderLoses(n),
           NEW x \in carried(n), Shut(n, x)
    PROVE  x.epoch = mem'[n].peer_epoch /\ x.seq \in mem'[n].seen
<1>1. x.epoch = mem[n].peer_epoch /\ x.seq \in mem[n].seen
  BY DEF Shut
<1>2. CASE SameIn(mem[n], mem'[n])
  BY <1>1, <1>2 DEF SameIn
<1>3. CASE Tracks(n)
  <2>1. held[n].env.epoch \in {NoEpoch, mem[n].peer_epoch}
    BY <1>1, OldEpochGone
  <2>2. track(mem[n], held[n].env) = mem[n]
    BY <2>1 DEF track
  <2> QED
    BY <1>2, <1>3, <2>2 DEF Tracks
<1>4. CASE Delivers(n)
  BY <1>1, <1>4 DEF Delivers
<1>5. CASE Cuts(n)
  BY <1>1, <1>5, CutKeeps DEF Cuts
<1> QED
  BY <1>2, <1>3, <1>4, <1>5 DEF LaneStep, ReaderStep, ReaderRests, Leaves, Reads, ReaderSaves

LEMMA GuardKept ==
    ASSUME TypeOK, TypeOK', [Next]_vars, Window <= SeenCap, NEW n \in Node, FileOK(Peer(n)),
           EpochsOK(n), PollOK(n), IdsOK(n), NearOK(n), GuardOK(n), LaneStep(n)
    PROVE  GuardOK(n)'
<1> DEFINE p == Peer(n)
           c(id) == Cardinality(hits(n, id))
           d(id) == Cardinality(hits(n, id)')
<1>0. p \in Node /\ Peer(n)' = p
  BY PeerFacts, PeerPrime
<1>1. /\ excuses(n) \in Nat
      /\ excuses(n)' = crashes'[n] + losses'[n]
  BY DEF excuses, TypeOK
<1>2. \A id \in Nat : c(id) \in Nat
  BY HitsFacts
<1>3. \A id \in Nat :
        \/ c(id) <= excuses(n)
        \/ c(id) <= 1 + excuses(n) /\ \A x \in carried(n) : x.id = id => Shut(n, x)
  BY DEF GuardOK
<1>4. ASSUME \A id \in Nat :
               \/ d(id) <= excuses(n)'
               \/ /\ d(id) <= 1 + excuses(n)'
                  /\ \A x \in carried(n)' : x.id = id =>
                        x.epoch = mem'[n].peer_epoch /\ x.seq \in mem'[n].seen
      PROVE  GuardOK(n)'
  BY <1>4 DEF GuardOK, Shut
<1> HIDE DEF c, d
<1>5. CASE ReaderDies(n) \/ ReaderLoses(n)
  <2>1. excuses(n)' = excuses(n) + 1 /\ log'[n] = log[n]
    <3>1. crashes[n] \in Nat /\ losses[n] \in Nat
      BY DEF TypeOK
    <3>2. crashes'[n] + losses'[n] = crashes[n] + losses[n] + 1 /\ log'[n] = log[n]
      BY <1>5, <3>1 DEF ReaderDies, ReaderLoses
    <3> QED
      BY <1>1, <3>2 DEF excuses
  <2>2. \A id \in Nat : d(id) = c(id)
    BY <2>1, HitsFacts DEF c, d
  <2>3. \A id \in Nat : d(id) <= excuses(n)'
    BY <1>1, <1>2, <1>3, <2>1, <2>2
  <2> QED
    BY <1>4, <2>3
<1>6. CASE ~ ReaderDies(n) /\ ~ ReaderLoses(n)
  <2>1. excuses(n)' = excuses(n)
    BY <1>1, <1>6 DEF excuses, LaneStep, ReaderStep, ReaderRests, Leaves, Reads, Tracks, Delivers,
       Cuts, ReaderSaves, Undelivered
  <2>2. Flows(n)
    BY StepFlows
  <2>3. \/ carried(n)' \subseteq carried(n)
        \/ Lines(p) /\ carried(n)' \subseteq carried(n) \cup {newest_line(p)}
    BY <2>2, CarriedFlows
  <2>4. CASE log'[n] = log[n]
    <3>1. \A id \in Nat : d(id) = c(id)
      BY <2>4, HitsFacts DEF c, d
    <3>2. ASSUME NEW id \in Nat, c(id) <= 1 + excuses(n), ~ (c(id) <= excuses(n)),
                 NEW x \in carried(n)', x.id = id,
                 \A y \in carried(n) : y.id = id => Shut(n, y)
          PROVE  x.epoch = mem'[n].peer_epoch /\ x.seq \in mem'[n].seen
      <4>1. CASE x \in carried(n)
        BY <1>6, <3>2, <4>1, ShutKept
      <4>2. CASE x \notin carried(n)
        <5>1. Lines(p) /\ x = newest_line(p)
          BY <2>3, <3>2, <4>2
        <5>2. id = said[p] + 1
          BY <1>0, <3>2, <5>1, NewestLine
        <5>3. \A y \in delivered(n) : y.id # id
          <6>1. delivered(n) \subseteq Entry /\ said[p] \in Nat
            BY <1>0, CarriedType DEF TypeOK
          <6>2. \A y \in delivered(n) : y.id \in Nat /\ y.id <= said[p]
            BY <6>1 DEF IdsOK, Entry
          <6> QED
            BY <5>2, <6>1, <6>2
        <5>4. c(id) = 0
          BY <5>3, HitsFacts DEF c
        <5> QED
          BY <1>1, <3>2, <5>4
      <4> QED
        BY <4>1, <4>2
    <3> QED
      BY <1>3, <1>4, <2>1, <3>1, <3>2
  <2>5. CASE Delivers(n)
    <3>1. PICK m \in fresh[n] :
            /\ log'[n] = Append(log[n], [epoch |-> mem[n].peer_epoch, seq |-> m.seq, id |-> m.id])
            /\ mem'[n].seen = mem[n].seen \cup {m.seq}
      BY <2>5 DEF Delivers
    <3> DEFINE x == [epoch |-> mem[n].peer_epoch, seq |-> m.seq, id |-> m.id]
    <3>2. x \in inHand(n) /\ m.seq \notin mem[n].seen
      BY <2>5, FreshInHand DEF Delivers
    <3>3. x.epoch = mem[n].peer_epoch /\ x.seq = m.seq
      OBVIOUS
    <3>4. x \in carried(n) /\ x \in Entry /\ x.id \in Nat
      BY <3>2, CarriedType DEF carried, Entry
    <3>5. log'[n] = Append(log[n], x)
      BY <3>1
    <3> HIDE DEF x
    <3>6. ~ Shut(n, x)
      BY <3>2, <3>3 DEF Shut
    <3>7. c(x.id) <= excuses(n)
      BY <1>3, <3>4, <3>6
    <3>8. d(x.id) <= 1 + excuses(n)
      <4>1. ASSUME NEW id \in Nat, id = x.id PROVE d(id) = c(id) + 1
        BY <3>4, <3>5, <4>1, HitsAppend DEF c, d
      <4> QED
        BY <1>1, <1>2, <3>4, <3>7, <4>1
    <3>9. carried(n)' \subseteq carried(n)
      <4>1. (ReaderStep(n) /\ SenderRests(p)) \/ ReaderRests(n)
        BY DEF LaneStep
      <4>2. ~ ReaderRests(n)
        <5>1. mem[n].seen # mem'[n].seen
          BY <3>1, <3>2
        <5> QED
          BY <5>1 DEF ReaderRests, SameIn
      <4>3. said'[p] = said[p]
        BY <4>1, <4>2 DEF SenderRests
      <4>4. ~ Lines(p)
        <5>1. said[p] \in Nat
          BY <1>0 DEF TypeOK
        <5> QED
          BY <4>3, <5>1 DEF Lines
      <4> QED
        BY <2>3, <4>4
    <3>10. ASSUME NEW y \in carried(n)', y.id = x.id
           PROVE  y.epoch = mem'[n].peer_epoch /\ y.seq \in mem'[n].seen
      <4>1. y = x
        BY <3>4, <3>9, <3>10 DEF IdsOK
      <4> QED
        BY <2>5, <3>1, <3>3, <4>1 DEF Delivers
    <3>11. ASSUME NEW id \in Nat, id # x.id
           PROVE  \/ d(id) <= excuses(n)'
                  \/ /\ d(id) <= 1 + excuses(n)'
                     /\ \A y \in carried(n)' : y.id = id =>
                           y.epoch = mem'[n].peer_epoch /\ y.seq \in mem'[n].seen
      <4>1. d(id) = c(id)
        BY <3>4, <3>5, <3>11, HitsAppend DEF c, d
      <4>2. ASSUME \A y \in carried(n) : y.id = id => Shut(n, y)
            PROVE  \A y \in carried(n)' : y.id = id =>
                      y.epoch = mem'[n].peer_epoch /\ y.seq \in mem'[n].seen
        BY <1>6, <3>9, <4>2, ShutKept
      <4> QED
        BY <1>3, <2>1, <4>1, <4>2
    <3> QED
      BY <1>4, <2>1, <3>8, <3>10, <3>11
  <2> QED
    BY <1>6, <2>4, <2>5 DEF LaneStep, ReaderStep, ReaderRests, Leaves, Reads, Tracks, Cuts,
       ReaderSaves, Undelivered
<1> QED
  BY <1>5, <1>6

-----------------------------------------------------------------------------
(* The invariant holds, and what it says of the deliveries.                *)

RecordsOK == TypeOK /\ AckChain /\ \A n \in Node : FileOK(n) /\ LaneOK(n) /\ NearOK(n)

LEMMA InitFacts ==
    ASSUME Init, NEW n \in Node
    PROVE  /\ mem[n] = disk[n] /\ disk[n].epoch \in {1, 2} /\ disk[n].next_seq = 1
           /\ disk[n].outbox = {} /\ disk[n].peer_acked = 0 /\ disk[n].peer_epoch = NoEpoch
           /\ disk[n].seen = {}
           /\ frame[n].epoch = NoEpoch /\ frame[n].msgs = {} /\ held[n].env = first_envelope
           /\ held[n].env.epoch = NoEpoch /\ held[n].env.msgs = {}
           /\ fresh[n] = {} /\ pc[n] = "idle" /\ said[n] = 0 /\ kept[n] = {}
           /\ log[n] = <<>> /\ Len(log[n]) = 0 /\ epochs = 2
           /\ crashes[n] = 0 /\ losses[n] = 0
<1>1. disk[n] = blank_state(1) \/ disk[n] = blank_state(2)
  BY DEF Init
<1>2. /\ disk[n].epoch \in {1, 2} /\ disk[n].next_seq = 1
      /\ disk[n].outbox = {} /\ disk[n].peer_acked = 0 /\ disk[n].peer_epoch = NoEpoch
      /\ disk[n].seen = {}
  BY <1>1 DEF blank_state
<1>3. /\ frame[n].epoch = NoEpoch /\ frame[n].msgs = {} /\ held[n].env = first_envelope
      /\ held[n].env.epoch = NoEpoch /\ held[n].env.msgs = {}
  BY DEF Init, NoVersion, first_envelope
<1> QED
  BY <1>2, <1>3 DEF Init

\* At first nothing is on the way, seen or handed over.
LEMMA InitSets ==
    ASSUME Init, NEW n \in Node
    PROVE  queued(n) = {} /\ framed(n) = {} /\ inHand(n) = {} /\ marked(n) = {} /\ delivered(n) = {}
<1>1. /\ mem[n].outbox = {} /\ disk[n].outbox = {} /\ mem[n].seen = {} /\ disk[n].seen = {}
      /\ frame[n].msgs = {} /\ held[n].env.msgs = {} /\ Len(log[n]) = 0
  BY InitFacts
<1>2. delivered(n) = {}
  BY <1>1 DEF delivered
<1> QED
  BY <1>1, <1>2, EntryFacts, MarkFacts DEF queued, framed, inHand, marked

LEMMA InitRecords == Init => RecordsOK
<1> SUFFICES ASSUME Init PROVE RecordsOK
  OBVIOUS
<1>1. ASSUME NEW n \in Node PROVE FileOK(n)
  <2>1. QueueOK(disk[n])
    BY InitFacts, QueueBlank
  <2> QED
    BY <2>1, InitFacts DEF FileOK, NoEpoch
<1>2. ASSUME NEW n \in Node PROVE LaneOK(n) /\ NearOK(n)
  <2>0. Peer(n) \in Node
    BY PeerFacts
  <2>1. EpochsOK(n)
    BY <2>0, InitFacts DEF EpochsOK, NoEpoch
  <2>2. PollOK(n)
    BY InitFacts DEF PollOK
  <2>3. carried(n) = {} /\ inHand(n) = {} /\ framed(Peer(n)) = {} /\ queued(Peer(n)) = {}
        /\ marked(n) = {} /\ delivered(n) = {}
    BY <2>0, InitSets DEF carried
  <2>4. IdsOK(n) /\ BoundOK(n) /\ NearOK(n)
    BY <2>3 DEF IdsOK, BoundOK, NearOK, Near, Published
  <2> QED
    BY <2>1, <2>2, <2>4 DEF LaneOK
<1> QED
  BY <1>1, <1>2, InitType, InitChain DEF RecordsOK

\* In a step the reader of a lane moves, or its sender, or neither.
LEMMA LaneSteps ==
    ASSUME RecordsOK, [Next]_vars, NEW n \in Node
    PROVE  LaneStep(n)
<1>1. CASE Next
  BY <1>1, NextIsStep, StepIsLaneStep DEF RecordsOK, LaneOK
<1>2. CASE UNCHANGED vars
  BY <1>2, RestIsLaneStep, PeerFacts DEF LaneStep, SenderStep
<1> QED
  BY <1>1, <1>2

LEMMA FilesKept ==
    ASSUME RecordsOK, [Next]_vars, NEW n \in Node
    PROVE  FileOK(n)'
<1>1. TypeOK /\ FileOK(n) /\ n = Peer(Peer(n))
  BY PeerFacts DEF RecordsOK
<1>2. ASSUME NEW k \in Node, StepOf(k) PROVE FileOK(n)'
  <2>1. CASE n = k
    BY <1>1, <1>2, <2>1, FileMoves DEF StepOf
  <2>2. CASE n = Peer(k)
    <3>1. ReaderRests(n) /\ SenderRests(n) /\ (mem[n] = disk[n] => mem'[n] = disk'[n])
      BY <1>2, <2>2 DEF StepOf
    <3> QED
      BY <1>1, <3>1, FileRests
  <2>3. n = k \/ n = Peer(k)
    BY NodeAssumption DEF Peer
  <2> QED
    BY <2>1, <2>2, <2>3
<1>3. CASE Next
  BY <1>2, <1>3, NextIsStep DEF RecordsOK, LaneOK
<1>4. CASE UNCHANGED vars
  <2>1. ReaderRests(n) /\ SenderRests(n) /\ (mem[n] = disk[n] => mem'[n] = disk'[n])
    BY <1>4, RestIsLaneStep DEF vars
  <2> QED
    BY <1>1, <2>1, FileRests
<1> QED
  BY <1>3, <1>4

LEMMA RecordsInductive == RecordsOK /\ [Next]_vars => RecordsOK'
<1> SUFFICES ASSUME RecordsOK, [Next]_vars PROVE RecordsOK'
  OBVIOUS
<1>1. TypeOK /\ TypeOK' /\ AckChain'
  BY NextType, ChainInductive DEF RecordsOK
<1>2. ASSUME NEW n \in Node PROVE FileOK(n)' /\ LaneOK(n)' /\ NearOK(n)'
  <2>1. /\ Peer(n) \in Node /\ FileOK(Peer(n)) /\ EpochsOK(n) /\ PollOK(n) /\ IdsOK(n)
        /\ BoundOK(n) /\ NearOK(n) /\ LaneStep(n)
    BY PeerFacts, LaneSteps DEF RecordsOK, LaneOK
  <2>2. EpochsOK(n)'
    BY <1>1, <2>1, EpochsKept
  <2>3. PollOK(n)'
    BY <1>1, <2>1, PollKept
  <2>4. IdsOK(n)'
    BY <1>1, <2>1, IdsKept
  <2>5. BoundOK(n)'
    BY <1>1, <2>1, BoundKept
  <2>6. NearOK(n)'
    BY <1>1, <2>1, NearKept
  <2> QED
    BY <2>2, <2>3, <2>4, <2>5, <2>6, FilesKept DEF LaneOK
<1> QED
  BY <1>1, <1>2 DEF RecordsOK

LEMMA RecordsHold == Spec => []RecordsOK
BY InitRecords, RecordsInductive, PTL DEF Spec

\* What a message's number, epoch and place in the records are, in every
\* reachable state and with every fault: the two outboxes and their numbers, the
\* epochs a reader has met, and how far anything on the way is behind it.
THEOREM RecordsAreSound ==
    Spec => [](\A n \in Node : FileOK(n) /\ EpochsOK(n) /\ IdsOK(n) /\ NearOK(n))
<1>1. RecordsOK => \A n \in Node : FileOK(n) /\ EpochsOK(n) /\ IdsOK(n) /\ NearOK(n)
  BY DEF RecordsOK, LaneOK
<1> QED
  BY <1>1, RecordsHold, PTL

LEMMA InitGuard == Init => \A n \in Node : GuardOK(n)
<1> SUFFICES ASSUME Init, NEW n \in Node PROVE GuardOK(n)
  OBVIOUS
<1>1. TypeOK /\ delivered(n) = {} /\ crashes[n] = 0 /\ losses[n] = 0
  BY InitType, InitSets, InitFacts
<1>2. \A id \in Nat : Cardinality(hits(n, id)) = 0
  BY <1>1, HitsFacts
<1> QED
  BY <1>1, <1>2 DEF GuardOK, excuses

LEMMA GuardInductive ==
    ASSUME Window <= SeenCap, RecordsOK, \A n \in Node : GuardOK(n), [Next]_vars
    PROVE  \A n \in Node : GuardOK(n)'
<1>1. TypeOK /\ TypeOK'
  BY NextType DEF RecordsOK
<1>2. ASSUME NEW n \in Node PROVE GuardOK(n)'
  <2>1. /\ Peer(n) \in Node /\ FileOK(Peer(n)) /\ EpochsOK(n) /\ PollOK(n) /\ IdsOK(n)
        /\ NearOK(n) /\ LaneStep(n)
    BY PeerFacts, LaneSteps DEF RecordsOK, LaneOK
  <2> QED
    BY <1>1, <2>1, GuardKept
<1> QED
  BY <1>2

LEMMA GuardHolds ==
    ASSUME Window <= SeenCap
    PROVE  Spec => [](RecordsOK /\ \A n \in Node : GuardOK(n))
<1>1. Init => RecordsOK /\ \A n \in Node : GuardOK(n)
  BY InitRecords, InitGuard
<1>2. RecordsOK /\ (\A n \in Node : GuardOK(n)) /\ [Next]_vars
        => RecordsOK' /\ (\A n \in Node : GuardOK(n))'
  <2> SUFFICES ASSUME RecordsOK, \A n \in Node : GuardOK(n), [Next]_vars
               PROVE  RecordsOK' /\ \A n \in Node : GuardOK(n)'
    OBVIOUS
  <2> QED
    BY RecordsInductive, GuardInductive
<1> QED
  BY <1>1, <1>2, PTL DEF Spec

\* A user is handed a message again only as often as the process died or lost
\* its state file: for every pair of nodes, number of faults and window, as long
\* as the numbers kept in `seen` are at least a window.
THEOREM OncePerFaultHolds ==
    ASSUME Window <= SeenCap
    PROVE  Spec => []OncePerFault
<1>1. TypeOK /\ (\A n \in Node : GuardOK(n)) => OncePerFault
  <2> SUFFICES ASSUME TypeOK, NEW n \in Node, GuardOK(n), NEW id \in 1 .. said[Peer(n)]
               PROVE  Cardinality({i \in 1 .. Len(log[n]) : log[n][i].id = id})
                        <= 1 + crashes[n] + losses[n]
    BY DEF OncePerFault
  <2>1. said[Peer(n)] \in Nat /\ crashes[n] \in Nat /\ losses[n] \in Nat
    BY PeerFacts DEF TypeOK
  <2>2. id \in Nat
    BY <2>1
  <2>3. Cardinality(hits(n, id)) \in Nat
    BY <2>2, HitsFacts
  <2>4. \/ Cardinality(hits(n, id)) <= crashes[n] + losses[n]
        \/ Cardinality(hits(n, id)) <= 1 + (crashes[n] + losses[n])
    BY <2>2 DEF GuardOK, excuses
  <2>5. Cardinality(hits(n, id)) <= 1 + crashes[n] + losses[n]
    BY <2>1, <2>3, <2>4
  <2> QED
    BY <2>5 DEF hits
<1>2. Spec => [](RecordsOK /\ \A n \in Node : GuardOK(n))
  BY GuardHolds
<1>3. RecordsOK /\ (\A n \in Node : GuardOK(n)) => OncePerFault
  BY <1>1 DEF RecordsOK
<1> QED
  BY <1>2, <1>3, PTL

-----------------------------------------------------------------------------
(* A sender that does not die drops nothing.                               *)

\* What lane q carries or handed over, before and after a step.
LEMMA ReachedFlows ==
    ASSUME NEW q \in Node, Flows(q)
    PROVE  \A x \in carried(q)' \cup delivered(q)' :
              \/ x \in carried(q) \cup delivered(q)
              \/ Lines(Peer(q)) /\ x = newest_line(Peer(q))
<1>1. delivered(q)' \subseteq delivered(q) \cup carried(q)
  BY DEF Flows, NoMore, Taken, Sent, Given, Entered, carried
<1> QED
  BY <1>1, CarriedFlows

LEMMA NumberedKept ==
    ASSUME TypeOK, TypeOK', NEW n \in Node, FileOK(n), EpochsOK(Peer(n)), PollOK(Peer(n)),
           IdsOK(Peer(n)), LaneStep(Peer(n)), Numbered(n), crashes'[n] = 0
    PROVE  Numbered(n)'
<1> DEFINE q == Peer(n)
           A == carried(q) \cup delivered(q)
           B == carried(q)' \cup delivered(q)'
<1>0. q \in Node /\ Peer(q) = n /\ Peer(n)' = q
  BY PeerFacts, PeerPrime
<1>1. Flows(q) /\ SenderStep(n)
  BY <1>0, StepFlows DEF LaneStep, SenderStep
<1>2. \A x \in B : x \in A \/ (Lines(n) /\ x = newest_line(n))
  BY <1>0, <1>1, ReachedFlows
<1>3. /\ \A x \in A : x \in Entry /\ x.epoch # NoEpoch /\ x.epoch <= epochs
      /\ epochs \in Nat /\ mem[n].next_seq \in Nat /\ said[n] \in Nat /\ mem[n].epoch \in Nat
  <2>1. epochs \in Nat /\ mem[n].next_seq \in Nat /\ said[n] \in Nat /\ mem[n].epoch \in Nat
    BY FieldFacts DEF TypeOK
  <2>2. A \subseteq Entry
    BY <1>0, CarriedType DEF carried
  <2>3. \A x \in delivered(q) : x.epoch # NoEpoch /\ x.epoch <= epochs
    BY DEF IdsOK
  <2>4. \A x \in carried(q) : x.epoch # NoEpoch /\ x.epoch <= epochs
    BY <1>0, EpochBounds
  <2> QED
    BY <2>1, <2>2, <2>3, <2>4
<1>4. \A x \in A : x.epoch = mem[n].epoch =>
         x.seq < mem[n].next_seq /\ x.id + mem[n].next_seq = said[n] + 1 + x.seq
  BY DEF Numbered
<1>5. ASSUME \A x \in B : x.epoch = mem'[n].epoch =>
                x.seq < mem'[n].next_seq /\ x.id + mem'[n].next_seq = said'[n] + 1 + x.seq
      PROVE  Numbered(n)'
  BY <1>0, <1>5 DEF Numbered
<1> HIDE DEF A, B
<1>6. CASE Lines(n)
  <2>1. /\ newest_line(n).seq = mem[n].next_seq /\ newest_line(n).id = said[n] + 1
        /\ said'[n] = said[n] + 1
    BY <1>6, NewestLine
  <2>2. /\ mem'[n].next_seq = mem[n].next_seq + 1
        /\ mem'[n].epoch = mem[n].epoch \/ mem'[n].epoch = epochs + 1
    BY <1>6 DEF Lines, Loaded
  <2>3. ASSUME NEW x \in A, x.epoch = mem'[n].epoch
        PROVE  x.seq < mem'[n].next_seq /\ x.id + mem'[n].next_seq = said'[n] + 1 + x.seq
    <3>1. x.seq \in Nat /\ x.id \in Nat /\ x.epoch \in Nat
      BY <1>3 DEF Entry
    <3>2. x.epoch = mem[n].epoch
      BY <1>3, <2>2, <2>3, <3>1
    <3> QED
      BY <1>3, <1>4, <2>1, <2>2, <3>1, <3>2
  <2>4. ASSUME NEW x, x = newest_line(n)
        PROVE  x.seq < mem'[n].next_seq /\ x.id + mem'[n].next_seq = said'[n] + 1 + x.seq
    BY <1>3, <2>1, <2>2, <2>4
  <2> QED
    BY <1>2, <1>5, <2>3, <2>4
<1>7. CASE ~ Lines(n)
  <2>1. \A x \in B : x \in A
    BY <1>2, <1>7
  <2>2. CASE mem'[n].epoch = mem[n].epoch /\ mem'[n].next_seq = mem[n].next_seq /\ said'[n] = said[n]
    BY <1>4, <1>5, <2>1, <2>2
  <2>3. CASE mem'[n].epoch \in {NoEpoch, epochs + 1}
    <3>1. \A x \in A : x.epoch \in Nat /\ x.epoch # mem'[n].epoch
      BY <1>3, <2>3 DEF Entry
    <3> QED
      BY <1>5, <2>1, <3>1
  <2>4. \/ mem'[n].epoch = mem[n].epoch /\ mem'[n].next_seq = mem[n].next_seq /\ said'[n] = said[n]
        \/ mem'[n].epoch \in {NoEpoch, epochs + 1}
    <3>1. CASE SenderRests(n) \/ Honours(n) \/ Publishes(n) \/ SenderSaves(n)
      BY <3>1 DEF SenderRests, Honours, Publishes, SenderSaves, SameOut
    <3>2. CASE Loads(n)
      BY <3>2 DEF Loads, Loaded
    <3>3. CASE SenderDies(n) \/ SenderLoses(n)
      BY <3>3 DEF SenderDies, SenderLoses, SameOut, blank_state
    <3> QED
      BY <1>1, <1>7, <3>1, <3>2, <3>3 DEF SenderStep
  <2> QED
    BY <2>2, <2>3, <2>4
<1> QED
  BY <1>6, <1>7

\* What was handed over stays handed over.
LEMMA HandedStays ==
    ASSUME TypeOK, [Next]_vars, NEW q \in Node, NEW id, Handed(q, id)
    PROVE  Handed(q, id)'
<1>1. CASE log'[q] = log[q]
  BY <1>1 DEF Handed
<1>2. ASSUME NEW x \in Entry, log'[q] = Append(log[q], x) PROVE Handed(q, id)'
  <2>1. /\ Len(log[q]) \in Nat /\ Len(log'[q]) = Len(log[q]) + 1
        /\ \A i \in 1 .. Len(log[q]) : log'[q][i] = log[q][i]
    BY <1>2, LogAppend
  <2>2. PICK i \in 1 .. Len(log[q]) : log[q][i].id = id
    BY DEF Handed
  <2>3. i \in 1 .. Len(log'[q]) /\ log'[q][i].id = id
    BY <2>1, <2>2
  <2> QED
    BY <2>3 DEF Handed
<1> QED
  BY <1>1, <1>2, LogGrows

\* A number that counts as acknowledged is a delivered message's.
LEMMA AckedDelivered ==
    ASSUME NEW st \in State, NEW q \in Node, ackedSound(st, log[q]), NEW s \in Nat,
           s # 0, s <= st.peer_acked
    PROVE  \E x \in delivered(q) : x.epoch = st.epoch /\ x.seq = s /\ Handed(q, x.id)
<1>1. s \in 1 .. st.peer_acked
  BY FieldFacts
<1>2. PICK i \in 1 .. Len(log[q]) : log[q][i].epoch = st.epoch /\ log[q][i].seq = s
  BY <1>1 DEF ackedSound, handed
<1> QED
  BY <1>2 DEF delivered, Handed

\* The same one after a step of the sender that leaves the reader alone.
LEMMA AckedNow ==
    ASSUME TypeOK, TypeOK', [Next]_vars, AckChain', NEW n \in Node,
           log'[Peer(n)] = log[Peer(n)], NEW s \in Nat, s # 0, s <= mem'[n].peer_acked
    PROVE  \E x \in delivered(Peer(n)) :
              x.epoch = mem'[n].epoch /\ x.seq = s /\ Handed(Peer(n), x.id)
<1>0. Peer(n) \in Node /\ Peer(n)' = Peer(n)
  BY PeerFacts, PeerPrime
<1>1. ackedSound(mem'[n], log'[Peer(n)])
  BY <1>0 DEF AckChain, AckSound
<1>2. mem'[n] \in State
  BY DEF TypeOK
<1>3. ackedSound(mem'[n], log[Peer(n)])
  BY <1>1
<1> QED
  BY <1>0, <1>2, <1>3, AckedDelivered

\* Memory keeps a message, or an acknowledgement drops one that was handed over.
LEMMA HonourSafe ==
    ASSUME TypeOK, TypeOK', [Next]_vars, AckChain', NEW n \in Node, FileOK(n), Numbered(n),
           Honours(n), log'[Peer(n)] = log[Peer(n)], NEW id, safe(n, mem[n], id)
    PROVE  (\E m \in mem'[n].outbox : m.id = id) \/ Handed(Peer(n), id)
<1> SUFFICES ASSUME NEW m \in mem[n].outbox, m.id = id, m \notin mem'[n].outbox
             PROVE  Handed(Peer(n), id)
  BY DEF safe
<1>0. Peer(n) \in Node /\ Peer(Peer(n)) = n
  BY PeerFacts
<1>1. /\ mem[n] \in State /\ mem'[n] \in State
      /\ m.seq \in Nat /\ m.id \in Nat /\ mem[n].peer_acked \in Nat /\ mem'[n].peer_acked \in Nat
      /\ mem[n].next_seq \in Nat /\ said[n] \in Nat
  BY FieldFacts DEF TypeOK, Message
<1>2. mem[n].peer_acked < m.seq
  BY DEF FileOK, QueueOK
<1>3. m.seq # 0 /\ m.seq <= mem'[n].peer_acked /\ mem'[n].epoch = mem[n].epoch
  BY <1>1, <1>2 DEF Honours
<1>4. PICK x \in delivered(Peer(n)) :
         x.epoch = mem[n].epoch /\ x.seq = m.seq /\ Handed(Peer(n), x.id)
  BY <1>1, <1>3, AckedNow
<1>5. x.id \in Nat /\ x.id + mem[n].next_seq = said[n] + 1 + m.seq
  BY <1>0, <1>4, CarriedType DEF Numbered, Entry
<1>6. m.id + mem[n].next_seq = said[n] + 1 + m.seq
  <2> DEFINE y == [epoch |-> mem[n].epoch, seq |-> m.seq, id |-> m.id]
  <2>1. y \in queued(n)
    BY EntryFacts DEF queued
  <2>2. y \in carried(Peer(n))
    BY <1>0, <2>1 DEF carried
  <2>3. y.epoch = mem[n].epoch /\ y.seq = m.seq /\ y.id = m.id
    OBVIOUS
  <2> HIDE DEF y
  <2>4. y.id + mem[n].next_seq = said[n] + 1 + y.seq
    BY <2>2, <2>3 DEF Numbered
  <2> QED
    BY <2>3, <2>4
<1>7. x.id = id
  BY <1>1, <1>5, <1>6
<1> QED
  BY <1>4, <1>7

\* A new line is never acknowledged already.
LEMMA LineSafe ==
    ASSUME TypeOK, AckChain, NEW n \in Node, FileOK(n), Numbered(n), Lines(n)
    PROVE  /\ mem[n].outbox \subseteq mem'[n].outbox
           /\ \E m \in mem'[n].outbox : m.id = said'[n]
<1>0. Peer(n) \in Node
  BY PeerFacts
<1>1. /\ mem[n] \in State /\ mem[n].peer_acked \in Nat /\ mem[n].next_seq \in Nat
      /\ \A m \in mem[n].outbox : m.seq \in Nat
  BY FieldFacts DEF TypeOK, Message
<1>2. mem[n].next_seq # 0 /\ \A m \in mem[n].outbox : mem[n].peer_acked < m.seq
  BY DEF FileOK, QueueOK
<1>3. mem[n].peer_acked < mem[n].next_seq
  <2> SUFFICES ASSUME mem[n].next_seq <= mem[n].peer_acked PROVE FALSE
    BY <1>1
  <2>1. ackedSound(mem[n], log[Peer(n)])
    BY DEF AckChain, AckSound
  <2>2. PICK x \in delivered(Peer(n)) : x.epoch = mem[n].epoch /\ x.seq = mem[n].next_seq
    BY <1>0, <1>1, <1>2, <2>1, AckedDelivered
  <2>3. x.seq < mem[n].next_seq
    BY <2>2 DEF Numbered
  <2> QED
    BY <1>1, <2>2, <2>3
<1> DEFINE new == [seq |-> mem[n].next_seq, id |-> said[n] + 1]
<1>4. new.seq = mem[n].next_seq /\ new.id = said[n] + 1
  OBVIOUS
<1>5. /\ mem'[n].outbox = {x \in mem[n].outbox \cup {new} : x.seq > mem[n].peer_acked}
      /\ said'[n] = said[n] + 1
  BY DEF Lines
<1> HIDE DEF new
<1>6. new \in mem'[n].outbox
  BY <1>1, <1>3, <1>4, <1>5
<1>7. mem[n].outbox \subseteq mem'[n].outbox
  BY <1>1, <1>2, <1>5
<1> QED
  BY <1>4, <1>5, <1>6, <1>7

LEMMA KeptKept ==
    ASSUME TypeOK, TypeOK', [Next]_vars, AckChain, AckChain', NEW n \in Node, FileOK(n),
           EpochsOK(Peer(n)), PollOK(Peer(n)), IdsOK(Peer(n)), LaneStep(Peer(n)),
           KeptOK(n), crashes'[n] = 0
    PROVE  KeptOK(n)'
<1> DEFINE q == Peer(n)
<1>0. q \in Node /\ Peer(q) = n /\ Peer(n)' = q
  BY PeerFacts, PeerPrime
<1>1. Numbered(n) /\ Numbered(n)' /\ SenderStep(n)
  BY <1>0, NumberedKept DEF KeptOK, LaneStep, SenderStep
<1>2. /\ \A id \in kept[n] : safe(n, mem[n], id) /\ safe(n, disk[n], id)
      /\ mem[n].next_seq # disk[n].next_seq => safe(n, mem[n], said[n])
  BY DEF KeptOK
<1> DEFINE given(id) == \E i \in 1 .. Len(log'[q]) : log'[q][i].id = id
           now(st, id) == (\E m \in st.outbox : m.id = id) \/ given(id)
<1>a. \A id : Handed(q, id)' = given(id)
  BY DEF Handed
<1>3. ASSUME \A id \in kept'[n] : now(mem'[n], id) /\ now(disk'[n], id),
             mem'[n].next_seq # disk'[n].next_seq => now(mem'[n], said'[n])
      PROVE  KeptOK(n)'
  <2>1. \A st, id : now(st, id) => safe(n, st, id)'
    BY <1>0 DEF safe, Handed
  <2> HIDE DEF now
  <2>2. \A id \in kept'[n] : safe(n, mem[n], id)' /\ safe(n, disk[n], id)'
    BY <1>3, <2>1
  <2> QED
    BY <1>0, <1>1, <1>3, <2>2 DEF KeptOK, safe, Handed, now
<1>4. ASSUME NEW s, NEW t, NEW id, safe(n, s, id), s.outbox \subseteq t.outbox PROVE now(t, id)
  <2>1. Handed(q, id) => given(id)
    BY <1>0, <1>a, HandedStays
  <2> QED
    BY <1>4, <2>1 DEF safe
<1> HIDE DEF now, given
<1>5. CASE SenderRests(n) \/ Publishes(n) \/ Loads(n)
  <2>1. /\ mem'[n].outbox = mem[n].outbox /\ disk'[n].outbox = disk[n].outbox
        /\ mem'[n].next_seq = mem[n].next_seq /\ disk'[n].next_seq = disk[n].next_seq
        /\ said'[n] = said[n] /\ kept'[n] = kept[n]
    BY <1>5 DEF SenderRests, Publishes, Loads, SameOut
  <2> QED
    BY <1>2, <1>3, <1>4, <2>1
<1>6. CASE Lines(n)
  <2>1. /\ mem[n].outbox \subseteq mem'[n].outbox
        /\ \E m \in mem'[n].outbox : m.id = said'[n]
    BY <1>1, <1>6, LineSafe
  <2>2. kept'[n] = kept[n] /\ disk'[n].outbox = disk[n].outbox
    BY <1>6 DEF Lines, SameOut
  <2>3. now(mem'[n], said'[n])
    BY <2>1 DEF now
  <2> QED
    BY <1>2, <1>3, <1>4, <2>1, <2>2, <2>3
<1>7. CASE Honours(n)
  <2>1. /\ kept'[n] = kept[n] /\ disk'[n].outbox = disk[n].outbox /\ said'[n] = said[n]
        /\ mem'[n].next_seq = mem[n].next_seq /\ disk'[n].next_seq = disk[n].next_seq
    BY <1>7 DEF Honours, SameOut
  <2>2. CASE log'[q] = log[q]
    <3>1. ASSUME NEW id, safe(n, mem[n], id) PROVE now(mem'[n], id)
      <4>1. (\E m \in mem'[n].outbox : m.id = id) \/ Handed(q, id)
        BY <1>1, <1>7, <2>2, <3>1, HonourSafe
      <4> QED
        BY <1>0, <1>a, <4>1, HandedStays DEF now
    <3> QED
      BY <1>2, <1>3, <1>4, <2>1, <3>1
  <2>3. CASE SenderRests(n)
    BY <1>5, <2>3
  <2> QED
    BY <1>0, <2>2, <2>3 DEF LaneStep, ReaderRests, Undelivered
<1>8. CASE SenderSaves(n)
  <2>1. /\ mem'[n].outbox = mem[n].outbox /\ disk'[n].outbox = mem[n].outbox
        /\ mem'[n].next_seq = disk'[n].next_seq /\ said'[n] = said[n]
        /\ kept'[n] = IF mem[n].next_seq = disk[n].next_seq THEN kept[n] ELSE kept[n] \cup {said[n]}
    BY <1>8 DEF SenderSaves, SameOut
  <2>2. \A id \in kept'[n] : safe(n, mem[n], id)
    BY <1>2, <2>1
  <2> QED
    BY <1>3, <1>4, <2>1, <2>2
<1>9. CASE SenderDies(n)
  BY <1>9 DEF SenderDies
<1>10. CASE SenderLoses(n)
  <2>1. kept'[n] = {} /\ mem'[n].next_seq = disk'[n].next_seq
    BY <1>10 DEF SenderLoses, SameOut
  <2> QED
    BY <1>3, <2>1
<1> QED
  BY <1>1, <1>5, <1>6, <1>7, <1>8, <1>9, <1>10 DEF SenderStep

\* A node whose user entered nothing keeps nothing.
QuietOK(n) == said[n] = 0 => kept[n] = {} /\ mem[n].next_seq = disk[n].next_seq

\* The faults and the lines stay within their bounds.
WithinBounds(n) ==
    crashes[n] <= MaxCrashes[n] /\ losses[n] <= MaxLosses[n] /\ said[n] <= MaxLines[n]

SafeKept == RecordsOK /\ \A n \in Node : (crashes[n] = 0 => KeptOK(n)) /\ QuietOK(n)

LEMMA BoundsKept ==
    ASSUME TypeOK, [Next]_vars, NEW n \in Node, WithinBounds(n) PROVE WithinBounds(n)'
<1>0. /\ crashes[n] \in Nat /\ losses[n] \in Nat /\ said[n] \in Nat
      /\ MaxCrashes[n] \in Nat /\ MaxLosses[n] \in Nat /\ MaxLines[n] \in Nat
      /\ crashes[n] <= MaxCrashes[n] /\ losses[n] <= MaxLosses[n] /\ said[n] <= MaxLines[n]
  BY BoundAssumption DEF TypeOK, WithinBounds
<1>1. ASSUME crashes' = crashes, losses' = losses, said' = said PROVE WithinBounds(n)'
  BY <1>0, <1>1 DEF WithinBounds
<1>2. ASSUME NEW k \in Node, Cycle(k) PROVE WithinBounds(n)'
  <2>1. CASE Deliver(k)
    <3>1. crashes' = crashes /\ losses' = losses /\ said' = said
      BY <2>1, Zenon DEF Deliver, Polling
    <3> QED
      BY <1>1, <3>1
  <2>2. CASE BootNothing(k) \/ BootChanged(k) \/ ContentFails(k) \/ ContentBad(k) \/ ContentGood(k)
    <3>1. crashes' = crashes /\ losses' = losses /\ said' = said
      BY <2>2 DEF BootNothing, BootChanged, ContentFails, ContentBad, ContentGood, Polling
    <3> QED
      BY <1>1, <3>1
  <2>3. CASE DeliverRaises(k) \/ EndPoll(k) \/ Flush(k) \/ FlushUnanswered(k) \/ FlushNothing(k)
             \/ Save(k)
    <3>1. crashes' = crashes /\ losses' = losses /\ said' = said
      BY <2>3 DEF DeliverRaises, EndPoll, Flush, FlushUnanswered, FlushNothing, Save, publish, Polling
    <3> QED
      BY <1>1, <3>1
  <2> QED
    BY <1>2, <2>1, <2>2, <2>3 DEF Cycle
<1>3. ASSUME NEW k \in Node, NEW p, Line(k, p) PROVE WithinBounds(n)'
  <2>1. /\ crashes' = crashes /\ losses' = losses /\ said[k] < MaxLines[k]
        /\ said' = [said EXCEPT ![k] = said[k] + 1]
    BY <1>3 DEF Line
  <2> QED
    BY <1>0, <2>1 DEF WithinBounds, TypeOK
<1>4. ASSUME NEW k \in Node, Crash(k) PROVE WithinBounds(n)'
  <2>1. /\ said' = said /\ losses' = losses /\ crashes[k] < MaxCrashes[k]
        /\ crashes' = [crashes EXCEPT ![k] = crashes[k] + 1]
    BY <1>4 DEF Crash
  <2> QED
    BY <1>0, <2>1 DEF WithinBounds, TypeOK
<1>5. ASSUME NEW k \in Node, LoseState(k) PROVE WithinBounds(n)'
  <2>1. /\ said' = said /\ crashes' = crashes /\ losses[k] < MaxLosses[k]
        /\ losses' = [losses EXCEPT ![k] = losses[k] + 1]
    BY <1>5 DEF LoseState
  <2> QED
    BY <1>0, <2>1 DEF WithinBounds, TypeOK
<1>6. CASE UNCHANGED vars
  BY <1>1, <1>6 DEF vars
<1> QED
  BY <1>2, <1>3, <1>4, <1>5, <1>6 DEF Next

LEMMA QuietKept ==
    ASSUME TypeOK, NEW n \in Node, SenderStep(n), QuietOK(n) PROVE QuietOK(n)'
<1>1. said[n] \in Nat
  BY DEF TypeOK
<1>2. CASE Lines(n)
  BY <1>1, <1>2 DEF Lines, QuietOK
<1>3. CASE SenderDies(n) \/ SenderLoses(n)
  BY <1>3 DEF SenderDies, SenderLoses, SameOut, QuietOK
<1>4. CASE SenderRests(n) \/ Publishes(n) \/ Loads(n) \/ Honours(n) \/ SenderSaves(n)
  BY <1>4 DEF SenderRests, Publishes, Loads, Honours, SenderSaves, SameOut, QuietOK
<1> QED
  BY <1>2, <1>3, <1>4 DEF SenderStep

LEMMA InitKept == Init => SafeKept
<1> SUFFICES ASSUME Init, NEW n \in Node PROVE KeptOK(n) /\ QuietOK(n)
  BY InitRecords DEF SafeKept
<1>1. Peer(n) \in Node /\ Peer(Peer(n)) = n
  BY PeerFacts
<1>2. carried(Peer(n)) = {} /\ delivered(Peer(n)) = {}
  BY <1>1, InitSets DEF carried
<1>3. kept[n] = {} /\ mem[n].next_seq = disk[n].next_seq
  BY InitFacts
<1> QED
  BY <1>2, <1>3 DEF KeptOK, Numbered, QuietOK

LEMMA KeptInductive == SafeKept /\ [Next]_vars => SafeKept'
<1> SUFFICES ASSUME SafeKept, [Next]_vars PROVE SafeKept'
  OBVIOUS
<1>1. RecordsOK /\ RecordsOK'
  BY RecordsInductive DEF SafeKept
<1>2. TypeOK /\ TypeOK' /\ AckChain /\ AckChain'
  BY <1>1 DEF RecordsOK
<1>3. ASSUME NEW n \in Node PROVE (crashes'[n] = 0 => KeptOK(n)') /\ QuietOK(n)'
  <2>1. Peer(n) \in Node /\ Peer(Peer(n)) = n
    BY PeerFacts
  <2>2. LaneStep(n) /\ LaneStep(Peer(n)) /\ SenderStep(n)
    BY <1>1, <2>1, LaneSteps DEF LaneStep, SenderStep
  <2>3. /\ FileOK(n) /\ EpochsOK(Peer(n)) /\ PollOK(Peer(n)) /\ IdsOK(Peer(n))
        /\ (crashes[n] = 0 => KeptOK(n)) /\ QuietOK(n)
    BY <1>1, <2>1 DEF SafeKept, RecordsOK, LaneOK
  <2>4. crashes'[n] = 0 => crashes[n] = 0
    <3>1. crashes[n] \in Nat
      BY <1>2 DEF TypeOK
    <3>2. crashes'[n] = crashes[n] \/ crashes'[n] = crashes[n] + 1
      BY <2>2 DEF LaneStep, ReaderStep, ReaderRests, Leaves, Reads, Tracks, Delivers, Cuts,
         ReaderSaves, ReaderDies, ReaderLoses, Undelivered
    <3> QED
      BY <3>1, <3>2
  <2>5. crashes'[n] = 0 => KeptOK(n)'
    BY <1>2, <2>2, <2>3, <2>4, KeptKept
  <2> QED
    BY <1>2, <2>2, <2>3, <2>5, QuietKept
<1> QED
  BY <1>1, <1>3 DEF SafeKept

LEMMA KeptHolds == Spec => []SafeKept
BY InitKept, KeptInductive, PTL DEF Spec

\* While its process did not die, what a node saved is in its state file until
\* the peer's user was handed that very message: whatever else fails at either
\* node, and whether or not the peer's process dies.
THEOREM LivingSenderDropsNothing ==
    Spec => [](\A n \in Node : crashes[n] = 0 =>
                 \A id \in kept[n] : (\E m \in disk[n].outbox : m.id = id) \/ Handed(Peer(n), id))
<1>1. SafeKept => \A n \in Node : crashes[n] = 0 =>
         \A id \in kept[n] : (\E m \in disk[n].outbox : m.id = id) \/ Handed(Peer(n), id)
  BY DEF SafeKept, KeptOK, safe
<1> QED
  BY <1>1, KeptHolds, PTL

\* Nothing that was queued and saved is dropped before the peer's user was handed
\* it, if only nodes whose user enters nothing may die: for every window, every
\* other fault, and every number of crashes of such a node.
THEOREM NothingIsDropped ==
    ASSUME \A n \in Node : MaxLines[n] > 0 => MaxCrashes[n] = 0
    PROVE  Spec => []NothingDropped
<1> DEFINE Bounded == \A n \in Node : WithinBounds(n)
<1>1. Init => Bounded
  BY InitFacts, BoundAssumption DEF WithinBounds
<1>2. TypeOK /\ Bounded /\ [Next]_vars => Bounded'
  <2> SUFFICES ASSUME TypeOK, Bounded, [Next]_vars, NEW n \in Node PROVE WithinBounds(n)'
    OBVIOUS
  <2> QED
    BY BoundsKept
<1>3. SafeKept /\ TypeOK /\ Bounded => NothingDropped
  <2> SUFFICES ASSUME SafeKept, TypeOK, Bounded, NEW n \in Node, NEW id \in kept[n]
               PROVE  (\E m \in disk[n].outbox : m.id = id) \/ Handed(Peer(n), id)
    BY DEF NothingDropped
  <2>1. /\ said[n] \in Nat /\ crashes[n] \in Nat /\ MaxLines[n] \in Nat
        /\ crashes[n] <= MaxCrashes[n] /\ said[n] <= MaxLines[n]
    BY BoundAssumption DEF TypeOK, WithinBounds
  <2>2. said[n] # 0
    BY DEF SafeKept, QuietOK
  <2>3. MaxCrashes[n] = 0
    BY <2>1, <2>2
  <2>4. crashes[n] = 0
    BY <2>1, <2>3
  <2> QED
    BY <2>4 DEF SafeKept, KeptOK, safe
<1> HIDE DEF Bounded
<1> QED
  BY <1>1, <1>2, <1>3, KeptHolds, TypeCorrect, PTL DEF Spec

-----------------------------------------------------------------------------
(* Without faults: one epoch, in order, nothing left out.                  *)

\* A number is the place of its line in the order they were entered.
LEMMA InOrder ==
    ASSUME TypeOK, NEW n \in Node, Numbered(Peer(n)), CalmOK(n)
    PROVE  /\ \A x \in carried(n) \cup delivered(n) : x \in Entry /\ x.seq = x.id
           /\ \A x \in carried(n) \cup delivered(n) : x.seq # 0
           /\ Len(log[n]) \in Nat
           /\ \A i \in 1 .. Len(log[n]) :
                 log[n][i] \in delivered(n) /\ log[n][i].id = i /\ log[n][i].seq = i
<1> DEFINE p == Peer(n)
<1>0. p \in Node /\ Peer(p) = n
  BY PeerFacts
<1>1. carried(n) \subseteq Entry /\ delivered(n) \subseteq Entry
  BY <1>0, CarriedType DEF carried
<1>2. mem[p].next_seq = said[p] + 1 /\ said[p] \in Nat
  BY <1>0 DEF CalmOK, TypeOK
<1>3. \A x \in carried(n) \cup delivered(n) : x.epoch = mem[p].epoch /\ x.id # 0
  BY DEF CalmOK
<1>4. \A x \in carried(n) \cup delivered(n) : x.id + mem[p].next_seq = said[p] + 1 + x.seq
  BY <1>0, <1>3 DEF Numbered
<1>5. ASSUME NEW x \in carried(n) \cup delivered(n) PROVE x \in Entry /\ x.seq = x.id
  <2>1. x \in Entry /\ x.seq \in Nat /\ x.id \in Nat
    BY <1>1 DEF Entry
  <2>2. x.id + mem[p].next_seq = said[p] + 1 + x.seq
    BY <1>4
  <2> QED
    BY <1>2, <2>1, <2>2
<1>6. Len(log[n]) \in Nat
  BY DEF TypeOK
<1>7. \A i \in 1 .. Len(log[n]) : log[n][i] \in delivered(n) /\ log[n][i].id = i
  BY DEF delivered, CalmOK
<1> QED
  BY <1>3, <1>5, <1>6, <1>7

\* Acknowledgements do not run ahead of the deliveries.
LEMMA AckedLen ==
    ASSUME NEW st, st.peer_acked \in Nat, NEW lg, Len(lg) \in Nat, ackedSound(st, lg),
           \A i \in 1 .. Len(lg) : lg[i].seq = i
    PROVE  st.peer_acked <= Len(lg)
<1> SUFFICES ASSUME Len(lg) < st.peer_acked PROVE FALSE
  OBVIOUS
<1>1. Len(lg) + 1 \in 1 .. st.peer_acked
  OBVIOUS
<1>2. PICK i \in 1 .. Len(lg) : lg[i].seq = Len(lg) + 1
  BY <1>1 DEF ackedSound, handed
<1> QED
  BY <1>2

\* The lowest of the fresh messages is the next one.
LEMMA LowestIsNext ==
    ASSUME TypeOK, AckChain, NEW n \in Node, PollOK(n), IdsOK(n), Numbered(Peer(n)), GuardOK(n),
           CalmOK(n), crashes[n] = 0, losses[n] = 0, pc[n] = "deliver",
           NEW m \in fresh[n], \A x \in fresh[n] : m.seq <= x.seq
    PROVE  m.seq = Len(log[n]) + 1 /\ m.id = Len(log[n]) + 1
<1> DEFINE entry(y) == [epoch |-> mem[n].peer_epoch, seq |-> y.seq, id |-> y.id]
<1>1. ASSUME NEW y \in fresh[n]
      PROVE  /\ y.seq \in Nat /\ y.seq \notin mem[n].seen /\ y.seq = y.id
             /\ entry(y) \in carried(n)
  <2>1. entry(y) \in inHand(n) /\ y \in Message /\ y.seq \notin mem[n].seen
    BY FreshInHand
  <2>2. entry(y) \in carried(n)
    BY <2>1 DEF carried
  <2>3. entry(y).seq = y.seq /\ entry(y).id = y.id
    OBVIOUS
  <2> HIDE DEF entry
  <2>4. y.seq = y.id
    BY <2>2, <2>3, InOrder
  <2> QED
    BY <2>1, <2>2, <2>4 DEF Message
<1>2. Len(log[n]) \in Nat /\ \A i \in 1 .. Len(log[n]) : log[n][i].id = i /\ log[n][i].seq = i
  BY InOrder
<1>3. m.seq \in Nat /\ m.seq # 0 /\ m.seq = m.id /\ Len(log[n]) \in Nat
  <2>1. entry(m).seq = m.seq
    OBVIOUS
  <2> QED
    BY <1>1, <1>2, <2>1, InOrder
<1>4. Len(log[n]) < m.seq
  <2> SUFFICES ASSUME m.seq <= Len(log[n]) PROVE FALSE
    BY <1>3
  <2> DEFINE H == hits(n, m.seq)
  <2>1. m.seq \in 1 .. Len(log[n]) /\ m.seq \in Nat
    BY <1>3
  <2>2. m.seq \in H
    BY <1>2, <2>1 DEF hits
  <2>3. IsFiniteSet(H) /\ Cardinality(H) \in Nat
    BY <2>1, HitsFacts
  <2> HIDE DEF H
  <2>4. Cardinality(H) # 0
    BY <2>2, <2>3, FS_EmptySet
  <2>5. ~ (Cardinality(H) <= excuses(n))
    BY <2>3, <2>4 DEF excuses
  <2>6. \A x \in carried(n) : x.id = m.seq => Shut(n, x)
    BY <2>1, <2>5 DEF GuardOK, H
  <2>7. entry(m).id = m.seq /\ entry(m).seq = m.seq
    BY <1>3
  <2>8. Shut(n, entry(m))
    BY <1>1, <2>6, <2>7
  <2> QED
    BY <1>1, <2>7, <2>8 DEF Shut
<1>5. PICK y \in held[n].env.msgs : y.seq = Len(log[n]) + 1
  <2>1. m \in held[n].env.msgs
    BY FreshInHand
  <2>2. Len(log[n]) + 1 <= m.seq /\ Len(log[n]) < Len(log[n]) + 1 /\ Len(log[n]) + 1 \in Nat
    BY <1>3, <1>4
  <2> QED
    BY <2>1, <2>2 DEF CalmOK, Complete
<1>6. y.seq \notin mem[n].seen
  <2> SUFFICES ASSUME y.seq \in mem[n].seen PROVE FALSE
    OBVIOUS
  <2>1. mem[n].peer_epoch # NoEpoch
    <3>1. entry(m).epoch = mem[n].peer_epoch
      OBVIOUS
    <3> QED
      BY <1>1, <3>1 DEF IdsOK
  <2>2. handed(log[n], mem[n].peer_epoch, y.seq)
    BY <2>1 DEF AckChain, trackSound
  <2>3. PICK i \in 1 .. Len(log[n]) : log[n][i].seq = y.seq
    BY <2>2 DEF handed
  <2> QED
    BY <1>2, <1>5, <2>3
<1>7. y \in fresh[n]
  BY <1>6 DEF PollOK
<1>8. m.seq <= Len(log[n]) + 1
  BY <1>5, <1>7
<1> QED
  BY <1>3, <1>4, <1>8

\* What leaves nothing out goes on so while deliveries go on.
LEMMA CompleteStays ==
    ASSUME NEW env, NEW a \in Nat, NEW b \in Nat, a <= b,
           \A m \in env.msgs, s \in Nat : a < s /\ s <= m.seq => \E x \in env.msgs : x.seq = s
    PROVE  \A m \in env.msgs, s \in Nat : b < s /\ s <= m.seq => \E x \in env.msgs : x.seq = s
OBVIOUS

\* A version that is published leaves nothing out.
LEMMA PublishedComplete ==
    ASSUME TypeOK, AckChain, NEW n \in Node, FileOK(Peer(n)), Numbered(Peer(n)), CalmOK(n)
    PROVE  \A m \in unacked(mem[Peer(n)]), s \in Nat : Len(log[n]) < s /\ s <= m.seq =>
              \E x \in unacked(mem[Peer(n)]) : x.seq = s
<1> DEFINE p == Peer(n)
<1>0. p \in Node /\ Peer(p) = n
  BY PeerFacts
<1>1. /\ mem[p].peer_acked \in Nat /\ mem[p].next_seq \in Nat
      /\ \A m \in mem[p].outbox : m.seq \in Nat
  BY <1>0, FieldFacts DEF TypeOK, Message
<1>2. mem[p].peer_acked <= Len(log[n])
  <2>1. ackedSound(mem[p], log[n])
    BY <1>0 DEF AckChain, AckSound
  <2> QED
    BY <1>1, <2>1, AckedLen, InOrder
<1> SUFFICES ASSUME NEW m \in unacked(mem[p]), NEW s \in Nat, Len(log[n]) < s, s <= m.seq
             PROVE  \E x \in unacked(mem[p]) : x.seq = s
  OBVIOUS
<1>3. Len(log[n]) \in Nat
  BY InOrder
<1>4. m \in mem[p].outbox
  BY DEF unacked
<1>5. m.seq < mem[p].next_seq
  BY <1>4 DEF FileOK, QueueOK
<1>6. mem[p].peer_acked < s /\ s < mem[p].next_seq
  BY <1>1, <1>2, <1>3, <1>4, <1>5
<1>7. PICK x \in mem[p].outbox : x.seq = s
  BY <1>6 DEF FileOK, QueueOK
<1> QED
  BY <1>1, <1>6, <1>7 DEF unacked

LEMMA CalmKept ==
    ASSUME TypeOK, TypeOK', [Next]_vars, AckChain, NEW n \in Node, FileOK(Peer(n)), EpochsOK(n),
           PollOK(n), IdsOK(n), LaneStep(n), Numbered(Peer(n)), GuardOK(n), CalmOK(n),
           crashes[n] = 0, losses[n] = 0, crashes'[Peer(n)] = 0, losses'[Peer(n)] = 0
    PROVE  CalmOK(n)'
<1> DEFINE p == Peer(n)
<1>0. p \in Node /\ Peer(n)' = p /\ Peer(p) = n
  BY PeerFacts, PeerPrime
<1>1. SenderStep(p) /\ Flows(n)
  BY StepFlows DEF LaneStep, SenderStep
<1>2. /\ disk[p].epoch # NoEpoch /\ mem[p].epoch = disk[p].epoch
      /\ mem[p].next_seq = said[p] + 1 /\ said[p] \in Nat
  BY <1>0 DEF CalmOK, FileOK, TypeOK
<1>3. /\ disk'[p].epoch # NoEpoch /\ mem'[p].epoch = mem[p].epoch
      /\ mem'[p].next_seq = said'[p] + 1
  <2>1. CASE SenderRests(p) \/ Publishes(p) \/ SenderSaves(p) \/ Honours(p)
    BY <1>2, <2>1 DEF SenderRests, Publishes, SenderSaves, Honours, SameOut
  <2>2. CASE Loads(p) \/ Lines(p)
    BY <1>2, <2>2 DEF Loads, Lines, Loaded, SameOut
  <2>3. CASE SenderDies(p) \/ SenderLoses(p)
    BY <2>3 DEF SenderDies, SenderLoses
  <2> QED
    BY <1>1, <2>1, <2>2, <2>3 DEF SenderStep
<1>4. \A x \in carried(n)' \cup delivered(n)' : x.epoch = mem'[p].epoch /\ x.id # 0
  <2>1. \A x \in carried(n) \cup delivered(n) : x.epoch = mem[p].epoch /\ x.id # 0
    BY DEF CalmOK
  <2>2. Lines(p) => newest_line(p).epoch = mem'[p].epoch /\ newest_line(p).id # 0
    <3>1. said[p] + 1 # 0
      BY <1>2
    <3> QED
      BY <1>0, <3>1, NewestLine
  <2>3. \A x \in carried(n)' \cup delivered(n)' :
           \/ x \in carried(n) \cup delivered(n)
           \/ Lines(p) /\ x = newest_line(p)
    BY <1>1, ReachedFlows
  <2> QED
    BY <1>3, <2>1, <2>2, <2>3
<1>5. Len(log[n]) \in Nat /\ \A i \in 1 .. Len(log[n]) : log[n][i].id = i
  BY InOrder
<1>6. /\ Len(log'[n]) \in Nat /\ Len(log[n]) <= Len(log'[n])
      /\ \A i \in 1 .. Len(log'[n]) : log'[n][i].id = i
  <2>1. CASE Delivers(n)
    <3>1. pc[n] = "deliver"
      BY <2>1 DEF Delivers
    <3>2. PICK m \in fresh[n] :
            /\ \A x \in fresh[n] : m.seq <= x.seq
            /\ log'[n] = Append(log[n], [epoch |-> mem[n].peer_epoch, seq |-> m.seq, id |-> m.id])
      BY <2>1 DEF Delivers
    <3> DEFINE x == [epoch |-> mem[n].peer_epoch, seq |-> m.seq, id |-> m.id]
    <3>3. m.id = Len(log[n]) + 1
      BY <3>1, <3>2, LowestIsNext
    <3>4. x \in inHand(n) /\ inHand(n) \subseteq Entry
      BY <3>1, FreshInHand, CarriedType
    <3>5. x.id = m.id /\ log'[n] = Append(log[n], x) /\ x \in Entry
      BY <3>2, <3>4
    <3> HIDE DEF x
    <3>6. /\ Len(log'[n]) = Len(log[n]) + 1
          /\ \A i \in 1 .. Len(log[n]) : log'[n][i] = log[n][i]
          /\ log'[n][Len(log[n]) + 1] = x
      BY <3>5, LogAppend
    <3> QED
      BY <1>5, <3>3, <3>5, <3>6
  <2>2. CASE log'[n] = log[n]
    BY <1>5, <2>2
  <2> QED
    BY <2>1, <2>2 DEF LaneStep, ReaderStep, ReaderRests, Leaves, Reads, Tracks, Cuts,
       ReaderSaves, ReaderDies, ReaderLoses, Undelivered
<1> DEFINE ok(env) == \A m \in env.msgs, s \in Nat :
                         Len(log'[n]) < s /\ s <= m.seq => \E x \in env.msgs : x.seq = s
<1>7. ok(frame[p]) /\ ok(held[n].env) /\ ok(first_envelope)
  <2>1. ok(frame[p])
    BY <1>5, <1>6, CompleteStays DEF CalmOK, Complete
  <2>2. ok(held[n].env)
    BY <1>5, <1>6, CompleteStays DEF CalmOK, Complete
  <2>3. ok(first_envelope)
    BY DEF first_envelope
  <2> QED
    BY <2>1, <2>2, <2>3
<1>8. Publishes(p) => ok(frame'[p])
  <2> SUFFICES ASSUME Publishes(p) PROVE ok(frame'[p])
    OBVIOUS
  <2>1. frame'[p].msgs = unacked(mem[p])
    BY DEF Publishes
  <2>2. \A m \in frame'[p].msgs, s \in Nat : Len(log[n]) < s /\ s <= m.seq =>
           \E x \in frame'[p].msgs : x.seq = s
    BY <2>1, PublishedComplete
  <2> QED
    BY <1>5, <1>6, <2>2, CompleteStays
<1> HIDE DEF ok
<1>9. ok(frame'[p])
  <2>1. frame'[p] = frame[p] \/ Publishes(p)
    BY <1>1 DEF SenderStep, SenderRests, Loads, Lines, Honours, SenderSaves, SenderDies, SenderLoses
  <2> QED
    BY <1>7, <1>8, <2>1
<1>10. ok(held'[n].env)
  <2>1. held'[n].env \in {held[n].env, frame[p], first_envelope}
    BY DEF LaneStep, ReaderStep, ReaderRests, Leaves, Reads, Tracks, Delivers, Cuts, ReaderSaves,
       ReaderDies, ReaderLoses
  <2> QED
    BY <1>7, <2>1
<1> QED
  BY <1>0, <1>3, <1>4, <1>6, <1>9, <1>10 DEF CalmOK, Complete, ok

CalmAll ==
    /\ SafeKept
    /\ \A n \in Node : GuardOK(n) /\ WithinBounds(n) /\ CalmOK(n)

LEMMA InitCalm == Init => CalmAll
<1> SUFFICES ASSUME Init, NEW n \in Node PROVE GuardOK(n) /\ WithinBounds(n) /\ CalmOK(n)
  BY InitKept DEF CalmAll
<1>1. Peer(n) \in Node
  BY PeerFacts
<1>2. CalmOK(n)
  <2>1. carried(n) = {} /\ delivered(n) = {}
    BY <1>1, InitSets DEF carried
  <2>2. /\ disk[Peer(n)].epoch # NoEpoch /\ mem[Peer(n)].next_seq = said[Peer(n)] + 1
        /\ frame[Peer(n)].msgs = {} /\ held[n].env.msgs = {} /\ Len(log[n]) = 0
    BY <1>1, InitFacts DEF NoEpoch
  <2> QED
    BY <2>1, <2>2 DEF CalmOK, Complete
<1>3. WithinBounds(n)
  BY InitFacts, BoundAssumption DEF WithinBounds
<1> QED
  BY <1>2, <1>3, InitGuard

\* Where no fault is allowed, none has happened.
LEMMA BoundsCalm ==
    ASSUME \A n \in Node : MaxCrashes[n] = 0 /\ MaxLosses[n] = 0,
           NEW c \in [Node -> Nat], NEW l \in [Node -> Nat], NEW n \in Node,
           c[n] <= MaxCrashes[n], l[n] <= MaxLosses[n]
    PROVE  c[n] = 0 /\ l[n] = 0
<1>1. c[n] \in Nat /\ l[n] \in Nat /\ MaxCrashes[n] = 0 /\ MaxLosses[n] = 0
  OBVIOUS
<1> QED
  BY <1>1

LEMMA CalmInductive ==
    ASSUME \A n \in Node : MaxCrashes[n] = 0 /\ MaxLosses[n] = 0, Window <= SeenCap,
           CalmAll, [Next]_vars
    PROVE  CalmAll'
<1>1. SafeKept /\ SafeKept' /\ RecordsOK
  BY KeptInductive DEF CalmAll, SafeKept
<1>2. TypeOK /\ TypeOK' /\ AckChain
  BY <1>1, NextType DEF RecordsOK
<1>3. \A n \in Node : GuardOK(n)'
  BY <1>1, GuardInductive DEF CalmAll
<1>4. \A n \in Node : WithinBounds(n)'
  BY <1>2, BoundsKept DEF CalmAll
<1>5. ASSUME NEW n \in Node PROVE crashes[n] = 0 /\ losses[n] = 0
  <2>1. crashes[n] <= MaxCrashes[n] /\ losses[n] <= MaxLosses[n]
    BY DEF CalmAll, WithinBounds
  <2> QED
    BY <1>2, <2>1, BoundsCalm DEF TypeOK
<1>6. ASSUME NEW n \in Node PROVE crashes'[n] = 0 /\ losses'[n] = 0
  <2>1. crashes'[n] <= MaxCrashes[n] /\ losses'[n] <= MaxLosses[n]
    BY <1>4 DEF WithinBounds
  <2> QED
    BY <1>2, <2>1, BoundsCalm DEF TypeOK
<1>7. ASSUME NEW n \in Node PROVE CalmOK(n)'
  <2>0. Peer(n) \in Node
    BY PeerFacts
  <2>1. /\ FileOK(Peer(n)) /\ EpochsOK(n) /\ PollOK(n) /\ IdsOK(n) /\ LaneStep(n)
    BY <1>1, <2>0, LaneSteps DEF RecordsOK, LaneOK
  <2>2. Numbered(Peer(n)) /\ GuardOK(n) /\ CalmOK(n)
    BY <1>5, <2>0 DEF CalmAll, SafeKept, KeptOK
  <2>3. crashes[n] = 0 /\ losses[n] = 0 /\ crashes'[Peer(n)] = 0 /\ losses'[Peer(n)] = 0
    BY <1>5, <1>6, <2>0
  <2> QED
    BY <1>2, <2>1, <2>2, <2>3, CalmKept
<1> QED
  BY <1>1, <1>3, <1>4, <1>7 DEF CalmAll

-----------------------------------------------------------------------------
(* Without faults the mailboxes are two channels.                          *)

\* What each user was handed, as the channel sees it.
ids(lg) == [i \in 1 .. Len(lg) |-> lg[i].id]

LEMMA IdsSeq ==
    ASSUME NEW lg \in Seq(Entry)
    PROVE  /\ ids(lg) \in Seq(Nat) /\ Len(ids(lg)) = Len(lg) /\ Len(lg) \in Nat
           /\ \A i \in 1 .. Len(lg) : ids(lg)[i] = lg[i].id
<1>1. Len(lg) \in Nat /\ \A i \in 1 .. Len(lg) : lg[i].id \in Nat
  <2>1. Len(lg) \in Nat /\ \A i \in 1 .. Len(lg) : lg[i] \in Entry
    OBVIOUS
  <2> QED
    BY <2>1 DEF Entry
<1>2. \A i \in 1 .. Len(lg) : ids(lg)[i] = lg[i].id
  BY DEF ids
<1>3. ids(lg) \in Seq(Nat) /\ Len(ids(lg)) = Len(lg)
  <2> DEFINE f(i) == lg[i].id
  <2>1. \A i \in 1 .. Len(lg) : f(i) \in Nat
    BY <1>1
  <2> HIDE DEF f
  <2>2. [i \in 1 .. Len(lg) |-> f(i)] \in Seq(Nat) /\ Len([i \in 1 .. Len(lg) |-> f(i)]) = Len(lg)
    BY <1>1, <2>1
  <2> QED
    BY <2>2 DEF ids, f
<1> QED
  BY <1>1, <1>2, <1>3

LEMMA IdsAppend ==
    ASSUME NEW lg \in Seq(Entry), NEW x \in Entry
    PROVE  ids(Append(lg, x)) = Append(ids(lg), x.id)
<1> DEFINE a == ids(Append(lg, x))
           b == Append(ids(lg), x.id)
<1>1. x.id \in Nat /\ Append(lg, x) \in Seq(Entry)
  BY DEF Entry
<1>2. /\ ids(lg) \in Seq(Nat) /\ Len(ids(lg)) = Len(lg) /\ Len(lg) \in Nat
      /\ \A i \in 1 .. Len(lg) : ids(lg)[i] = lg[i].id
  BY IdsSeq
<1>3. /\ Len(Append(lg, x)) = Len(lg) + 1
      /\ \A i \in 1 .. Len(lg) : Append(lg, x)[i] = lg[i]
      /\ Append(lg, x)[Len(lg) + 1] = x
  BY AppendProperties
<1>4. /\ b \in Seq(Nat) /\ Len(b) = Len(lg) + 1
      /\ \A i \in 1 .. Len(lg) : b[i] = lg[i].id
      /\ b[Len(lg) + 1] = x.id
  <2>1. /\ b \in Seq(Nat) /\ Len(b) = Len(ids(lg)) + 1
        /\ \A i \in 1 .. Len(ids(lg)) : b[i] = ids(lg)[i]
        /\ b[Len(ids(lg)) + 1] = x.id
    BY <1>1, <1>2, AppendProperties
  <2> HIDE DEF b
  <2> QED
    BY <1>2, <2>1
<1>5. /\ a \in Seq(Nat) /\ Len(a) = Len(lg) + 1
      /\ \A i \in 1 .. Len(lg) + 1 : a[i] = Append(lg, x)[i].id
  BY <1>1, <1>3, IdsSeq
<1> HIDE DEF a, b
<1>6. ASSUME NEW i \in 1 .. Len(a) PROVE a[i] = b[i]
  <2>1. i \in 1 .. Len(lg) \/ i = Len(lg) + 1
    BY <1>2, <1>5
  <2> QED
    BY <1>3, <1>4, <1>5, <2>1
<1>7. a = b
  BY <1>4, <1>5, <1>6, SeqEqual
<1> QED
  BY <1>7 DEF a, b

\* The steps the channel does not see, and what the others do to it.
LEMMA QuietActions ==
    ASSUME TypeOK, NEW k \in Node, FileOK(k),
           \/ BootNothing(k) \/ BootChanged(k) \/ ContentFails(k) \/ ContentBad(k)
           \/ DeliverRaises(k) \/ EndPoll(k) \/ Flush(k) \/ FlushUnanswered(k)
           \/ FlushNothing(k) \/ Save(k)
    PROVE  /\ said' = said /\ log' = log
           /\ \A n \in Node : mem'[n].peer_acked = mem[n].peer_acked
<1>0. Peer(k) \in Node /\ Peer(k) # k /\ mem[k] \in State /\ mem[Peer(k)] \in State
  BY PeerFacts DEF TypeOK
<1>1. CASE BootNothing(k) \/ BootChanged(k)
  <2>1. said' = said /\ log' = log /\ mem' = [mem EXCEPT ![k] = loaded(k)]
        /\ pc[k] = "idle" /\ Load(k)
    BY <1>1 DEF BootNothing, BootChanged, Polling
  <2>2. loaded(k).peer_acked = mem[k].peer_acked
    BY <2>1, LoadKeeps
  <2> QED
    BY <2>1, <2>2 DEF TypeOK
<1>2. CASE ContentFails(k) \/ FlushNothing(k) \/ Save(k)
  BY <1>2 DEF ContentFails, FlushNothing, Save, Polling
<1>3. CASE ContentBad(k)
  <2>1. said' = said /\ log' = log
        /\ mem' = [mem EXCEPT ![k] = [mem[k] EXCEPT !.bad_version = held[k].current]]
    BY <1>3 DEF ContentBad, Polling
  <2>2. [mem[k] EXCEPT !.bad_version = held[k].current].peer_acked = mem[k].peer_acked
    BY <1>0 DEF State
  <2> QED
    BY <2>1, <2>2 DEF TypeOK
<1>4. CASE DeliverRaises(k) \/ EndPoll(k)
  <2> DEFINE r == [mem[k] EXCEPT !.seen = newest(mem[k].seen)]
             e == [mem[k] EXCEPT !.seen = newest(mem[k].seen), !.peer_ver = held[k].current]
  <2>1. said' = said /\ log' = log
        /\ (mem' = [mem EXCEPT ![k] = r] \/ mem' = [mem EXCEPT ![k] = e])
    BY <1>4 DEF DeliverRaises, EndPoll, Polling
  <2>2. r.peer_acked = mem[k].peer_acked /\ e.peer_acked = mem[k].peer_acked
    BY <1>0 DEF State
  <2> HIDE DEF r, e
  <2> QED
    BY <2>1, <2>2 DEF TypeOK
<1>5. CASE Flush(k) \/ FlushUnanswered(k)
  <2> DEFINE new(o) == [mem[k] EXCEPT !.owed = o]
  <2>1. PICK o : said' = said /\ log' = log
        /\ mem' = [mem EXCEPT ![k] = new(o), ![Peer(k)] = outdated(mem[Peer(k)])]
    BY <1>0, <1>5 DEF Flush, FlushUnanswered, publish, TypeOK
  <2>2. new(o).peer_acked = mem[k].peer_acked
        /\ outdated(mem[Peer(k)]).peer_acked = mem[Peer(k)].peer_acked
    BY <1>0 DEF State, outdated
  <2> HIDE DEF new
  <2> QED
    BY <1>0, <2>1, <2>2 DEF TypeOK
<1> QED
  BY <1>1, <1>2, <1>3, <1>4, <1>5

LEMMA LoudActions ==
    ASSUME TypeOK, NEW k \in Node, FileOK(k)
    PROVE  /\ ContentGood(k) =>
                 /\ said' = said /\ log' = log
                 /\ \A n \in Node : n # k => mem'[n].peer_acked = mem[n].peer_acked
                 /\ mem[k].peer_acked <= mem'[k].peer_acked
           /\ \A p : Line(k, p) =>
                 /\ said' = [said EXCEPT ![k] = said[k] + 1] /\ log' = log
                 /\ \A n \in Node : mem'[n].peer_acked = mem[n].peer_acked
           /\ Deliver(k) =>
                 /\ said' = said
                 /\ \A n \in Node : mem'[n].peer_acked = mem[n].peer_acked
<1>0. mem[k] \in State /\ held[k].env \in Envelope
  BY VersionFacts DEF TypeOK
<1>1. ASSUME ContentGood(k)
      PROVE  /\ said' = said /\ log' = log
             /\ \A n \in Node : n # k => mem'[n].peer_acked = mem[n].peer_acked
             /\ mem[k].peer_acked <= mem'[k].peer_acked
  <2> DEFINE tr == track(mem[k], held[k].env)
             st == honour(tr, held[k].env)
  <2>1. said' = said /\ log' = log /\ mem' = [mem EXCEPT ![k] = st]
    BY <1>1 DEF ContentGood, Polling
  <2>2. tr \in State /\ SameOut(mem[k], tr)
    BY <1>0, StateFacts, TrackHalves
  <2> HIDE DEF tr
  <2>3. tr.peer_acked <= st.peer_acked
    <3>1. \A m \in tr.outbox : tr.peer_acked < m.seq
      BY <2>2 DEF FileOK, QueueOK, SameOut
    <3> QED
      BY <1>0, <2>2, <3>1, HonourKeeps
  <2> HIDE DEF st
  <2> QED
    BY <2>1, <2>2, <2>3 DEF TypeOK, SameOut
<1>2. ASSUME NEW p, Line(k, p)
      PROVE  /\ said' = [said EXCEPT ![k] = said[k] + 1] /\ log' = log
             /\ \A n \in Node : mem'[n].peer_acked = mem[n].peer_acked
  <2> DEFINE ld == loaded(k)
             M == {x \in ld.outbox \cup {[seq |-> ld.next_seq, id |-> said[k] + 1]} :
                      x.seq > ld.peer_acked}
             new == [ld EXCEPT !.next_seq = ld.next_seq + 1, !.outbox = M]
  <2>1. mem' = [mem EXCEPT ![k] = new]
    BY <1>2 DEF Line
  <2>2. /\ said' = [said EXCEPT ![k] = said[k] + 1] /\ log' = log /\ pc[k] = "idle" /\ Load(k)
    BY <1>2 DEF Line
  <2>3. ld.peer_acked = mem[k].peer_acked /\ ld \in State
    BY <2>2, LoadKeeps, LoadFacts
  <2> HIDE DEF ld, M
  <2>4. new.peer_acked = ld.peer_acked
    BY <2>3 DEF State
  <2> HIDE DEF new
  <2> QED
    BY <2>1, <2>2, <2>3, <2>4 DEF TypeOK
<1>3. ASSUME Deliver(k)
      PROVE  said' = said /\ \A n \in Node : mem'[n].peer_acked = mem[n].peer_acked
  <2>1. PICK m \in fresh[k] :
          LET seen == mem[k].seen \cup {m.seq}
              a == mem[k].ack_through
          IN \E w \in seen \cup {a} :
               /\ w >= a
               /\ (a + 1) .. w \subseteq seen
               /\ w + 1 \notin seen
               /\ mem' = [mem EXCEPT ![k].seen = seen, ![k].owed = @ + 1,
                                     ![k].ack_through = w]
    BY <1>3, Zenon DEF Deliver
  <2> DEFINE seen == mem[k].seen \cup {m.seq}
  <2>2. PICK w : mem' = [mem EXCEPT ![k].seen = seen, ![k].owed = @ + 1, ![k].ack_through = w]
    BY <2>1
  <2> HIDE DEF seen
  <2> DEFINE new == [mem[k] EXCEPT !.seen = seen, !.owed = mem[k].owed + 1, !.ack_through = w]
  <2>3. mem' = [mem EXCEPT ![k] = new] /\ new.peer_acked = mem[k].peer_acked
    BY <1>0, <2>2 DEF TypeOK, State
  <2> HIDE DEF new
  <2>4. \A n \in Node : mem'[n].peer_acked = mem[n].peer_acked
    BY <2>3 DEF TypeOK
  <2>5. said' = said
    BY <1>3, Zenon DEF Deliver, Polling
  <2> QED
    BY <2>4, <2>5
<1> QED
  BY <1>1, <1>2, <1>3

\* What the channel sees: the lines of n that were handed over.
got == [n \in Node |-> [i \in 1 .. Len(log[Peer(n)]) |-> log[Peer(n)][i].id]]

acked == [n \in Node |-> mem[n].peer_acked]

LEMMA GotFacts ==
    ASSUME TypeOK, NEW n \in Node
    PROVE  /\ got[n] = ids(log[Peer(n)])
           /\ Len(got[n]) = Len(log[Peer(n)]) /\ Len(log[Peer(n)]) \in Nat
<1>1. got[n] = ids(log[Peer(n)])
  BY DEF got, ids
<1> QED
  BY <1>1, PeerFacts, IdsSeq DEF TypeOK

LEMMA AckedFacts ==
    ASSUME NEW k \in Node
    PROVE  /\ (\A n \in Node : mem'[n].peer_acked = mem[n].peer_acked) => acked' = acked
           /\ (\A n \in Node : n # k => mem'[n].peer_acked = mem[n].peer_acked)
                 => acked' = [acked EXCEPT ![k] = mem'[k].peer_acked]
           /\ acked[k] = mem[k].peer_acked
BY DEF acked

LEMMA SilentStep ==
    ASSUME said' = said, log' = log, acked' = acked
    PROVE  UNCHANGED Channel!vars
<1>1. got' = got
  BY DEF got
<1> QED
  BY <1>1 DEF Channel!vars, got, acked

LEMMA AcknowledgeStep ==
    ASSUME NEW k \in Node, NEW a \in (acked[k] + 1) .. Len(got[k]),
           said' = said, log' = log, acked' = [acked EXCEPT ![k] = a]
    PROVE  Channel!Acknowledge(k)
<1>1. got' = got
  BY DEF got
<1> QED
  BY <1>1 DEF Channel!Acknowledge, got, acked

LEMMA AcceptStep ==
    ASSUME NEW k \in Node, said[k] - acked[k] < Window,
           said' = [said EXCEPT ![k] = said[k] + 1], log' = log, acked' = acked
    PROVE  Channel!Accept(k)
<1>1. got' = got
  BY DEF got
<1> QED
  BY <1>1 DEF Channel!Accept, got, acked

LEMMA HandOverStep ==
    ASSUME NEW k \in Node, Len(got[k]) < said[k],
           got' = [got EXCEPT ![k] = Append(got[k], Len(got[k]) + 1)],
           said' = said, acked' = acked
    PROVE  Channel!HandOver(k)
BY DEF Channel!HandOver, got, acked

LEMMA InitChannel == Init => Channel!Init
<1> SUFFICES ASSUME Init PROVE Channel!Init
  OBVIOUS
<1>1. TypeOK /\ \A n \in Node : said[n] = 0 /\ mem[n].peer_acked = 0 /\ Peer(n) \in Node
  BY InitType, InitFacts, PeerFacts
<1>2. ASSUME NEW n \in Node PROVE got[n] = <<>>
  <2>1. log[Peer(n)] \in Seq(Entry) /\ Len(log[Peer(n)]) = 0
    BY <1>1, InitFacts DEF TypeOK
  <2>2. ids(log[Peer(n)]) \in Seq(Nat) /\ Len(ids(log[Peer(n)])) = 0
    BY <2>1, IdsSeq
  <2>3. ids(log[Peer(n)]) = <<>>
    BY <2>2, EmptySeq
  <2> QED
    BY <1>1, <2>3, GotFacts
<1>3. got = [n \in Node |-> <<>>]
  BY <1>2 DEF got
<1>4. said = [n \in Node |-> 0]
  BY DEF Init
<1>5. acked = [n \in Node |-> 0]
  BY <1>1 DEF acked
<1> QED
  BY <1>3, <1>4, <1>5 DEF Channel!Init, got, acked

\* What holds at a step of k when nothing has failed.
CalmAt(k) ==
    /\ TypeOK /\ AckChain /\ FileOK(k) /\ PollOK(k) /\ IdsOK(k)
    /\ Numbered(k) /\ Numbered(Peer(k)) /\ GuardOK(k) /\ CalmOK(k) /\ CalmOK(Peer(k))
    /\ crashes[k] = 0 /\ losses[k] = 0

LEMMA ContentIsAcknowledge ==
    ASSUME TypeOK', AckChain', NEW k \in Node, CalmAt(k), ContentGood(k)
    PROVE  UNCHANGED Channel!vars \/ Channel!Acknowledge(k)
<1> DEFINE q == Peer(k)
<1>0. TypeOK /\ FileOK(k) /\ q \in Node /\ Peer(q) = k /\ CalmOK(q) /\ Numbered(Peer(q))
  BY PeerFacts DEF CalmAt
<1>1. /\ said' = said /\ log' = log
      /\ \A n \in Node : n # k => mem'[n].peer_acked = mem[n].peer_acked
      /\ mem[k].peer_acked <= mem'[k].peer_acked
  BY <1>0, LoudActions
<1>2. mem[k].peer_acked \in Nat /\ mem'[k].peer_acked \in Nat
  BY <1>0, FieldFacts DEF TypeOK
<1>3. mem'[k].peer_acked <= Len(log[q])
  <2>1. ackedSound(mem'[k], log'[q])
    BY <1>0, PeerPrime DEF AckChain, AckSound
  <2>2. ackedSound(mem'[k], log[q])
    BY <1>1, <2>1
  <2>3. Len(log[q]) \in Nat /\ \A i \in 1 .. Len(log[q]) : log[q][i].seq = i
    BY <1>0, InOrder
  <2> QED
    BY <1>2, <2>2, <2>3, AckedLen
<1>4. acked' = [acked EXCEPT ![k] = mem'[k].peer_acked] /\ acked[k] = mem[k].peer_acked
  BY <1>1, AckedFacts
<1>5. Len(got[k]) = Len(log[q]) /\ Len(log[q]) \in Nat
  BY <1>0, GotFacts
<1>6. CASE mem'[k].peer_acked = mem[k].peer_acked
  <2>1. acked' = acked
    BY <1>1, <1>6, AckedFacts
  <2> QED
    BY <1>1, <2>1, SilentStep
<1>7. CASE mem'[k].peer_acked # mem[k].peer_acked
  <2>1. mem'[k].peer_acked \in (acked[k] + 1) .. Len(got[k])
    BY <1>1, <1>2, <1>3, <1>4, <1>5, <1>7
  <2> QED
    BY <1>1, <1>4, <2>1, AcknowledgeStep
<1> QED
  BY <1>6, <1>7

LEMMA LineIsAccept ==
    ASSUME NEW k \in Node, CalmAt(k), NEW p \in {"lineflush", "save"}, Line(k, p)
    PROVE  Channel!Accept(k)
<1>0. TypeOK /\ FileOK(k) /\ CalmOK(Peer(k)) /\ Peer(Peer(k)) = k /\ Peer(k) \in Node
  BY PeerFacts DEF CalmAt
<1>1. /\ said' = [said EXCEPT ![k] = said[k] + 1] /\ log' = log
      /\ \A n \in Node : mem'[n].peer_acked = mem[n].peer_acked
  BY <1>0, LoudActions
<1>2. acked' = acked /\ acked[k] = mem[k].peer_acked
  BY <1>1, AckedFacts
<1>3. said[k] \in Nat /\ mem[k].peer_acked \in Nat /\ Window \in Nat
  BY <1>0, FieldFacts, WindowAssumption DEF TypeOK
<1>4. Lines(k)
  <2>1. SenderStep(k)
    BY LineSteps DEF CalmAt, StepBase, StepOf
  <2>2. said'[k] # said[k]
    BY <1>0, <1>1, <1>3 DEF TypeOK
  <2> QED
    BY <2>1, <2>2 DEF SenderStep, SenderRests, Loads, Honours, Publishes, SenderSaves, SenderDies,
       SenderLoses
<1>5. mem[k].next_seq <= mem[k].peer_acked + Window /\ mem[k].next_seq = said[k] + 1
  BY <1>0, <1>4 DEF Lines, CalmOK
<1>6. said[k] - acked[k] < Window
  BY <1>2, <1>3, <1>5
<1> QED
  BY <1>1, <1>2, <1>6, AcceptStep

LEMMA DeliverIsHandOver ==
    ASSUME TypeOK', NEW k \in Node, CalmAt(k), Deliver(k)
    PROVE  Channel!HandOver(Peer(k))
<1> DEFINE p == Peer(k)
<1>0. TypeOK /\ FileOK(k) /\ p \in Node /\ Peer(p) = k /\ pc[k] = "deliver"
  BY PeerFacts DEF CalmAt, Deliver
<1>1. /\ said' = said
      /\ \A n \in Node : mem'[n].peer_acked = mem[n].peer_acked
  BY <1>0, LoudActions
<1>2. acked' = acked
  BY <1>0, <1>1, AckedFacts
<1>3. PICK m \in fresh[k] :
        /\ \A x \in fresh[k] : m.seq <= x.seq
        /\ log' = [log EXCEPT ![k] = Append(@, [epoch |-> mem[k].peer_epoch,
                                                seq |-> m.seq, id |-> m.id])]
  BY Zenon DEF Deliver
<1> DEFINE x == [epoch |-> mem[k].peer_epoch, seq |-> m.seq, id |-> m.id]
<1>4. m.id = Len(log[k]) + 1
  BY <1>0, <1>3, LowestIsNext DEF CalmAt
<1>5. x \in inHand(k) /\ inHand(k) \subseteq Entry
  BY <1>0, FreshInHand, CarriedType DEF CalmAt
<1>6. /\ x.id = Len(log[k]) + 1 /\ x \in Entry /\ x \in carried(k)
      /\ log' = [log EXCEPT ![k] = Append(log[k], x)]
  BY <1>3, <1>4, <1>5 DEF carried
<1> HIDE DEF x
<1>7. log[k] \in Seq(Entry) /\ Len(log[k]) \in Nat /\ said[p] \in Nat
  BY <1>0 DEF TypeOK
<1>8. Len(log[k]) < said[p]
  <2>1. x.id <= said[p]
    BY <1>6 DEF CalmAt, IdsOK
  <2> QED
    BY <1>6, <1>7, <2>1
<1>9. got[p] = ids(log[k]) /\ Len(got[p]) = Len(log[k])
  BY <1>0, GotFacts
<1>10. ids(log'[k]) = Append(got[p], Len(got[p]) + 1)
  <2>1. log'[k] = Append(log[k], x)
    BY <1>0, <1>6 DEF TypeOK
  <2>2. ids(Append(log[k], x)) = Append(ids(log[k]), x.id)
    BY <1>6, <1>7, IdsAppend
  <2> QED
    BY <1>6, <1>9, <2>1, <2>2
<1>11. \A n \in Node : n # p => Peer(n) # k /\ Peer(n) \in Node
  BY <1>0, NodeAssumption, PeerFacts
<1>12. got = [n \in Node |-> ids(log[Peer(n)])] /\ got' = [n \in Node |-> ids(log'[Peer(n)])]
  BY PeerPrime DEF got, ids
<1>13. got' = [got EXCEPT ![p] = Append(got[p], Len(got[p]) + 1)]
  <2>1. ASSUME NEW n \in Node, n # p PROVE log'[Peer(n)] = log[Peer(n)]
    BY <1>0, <1>6, <1>11, <2>1 DEF TypeOK
  <2> HIDE DEF p
  <2>2. \A n \in Node : ids(log'[Peer(n)]) =
           IF n = p THEN Append(got[p], Len(got[p]) + 1) ELSE ids(log[Peer(n)])
    BY <1>0, <1>10, <2>1
  <2> QED
    BY <1>12, <2>2
<1> QED
  BY <1>0, <1>1, <1>2, <1>8, <1>9, <1>13, HandOverStep

LEMMA StepIsChannel ==
    ASSUME \A n \in Node : MaxCrashes[n] = 0 /\ MaxLosses[n] = 0, CalmAll, [Next]_vars
    PROVE  [Channel!Next]_(Channel!vars)
<1>1. RecordsOK /\ RecordsOK' /\ TypeOK /\ TypeOK' /\ AckChain /\ AckChain'
  <2>1. RecordsOK /\ RecordsOK'
    BY RecordsInductive DEF CalmAll, SafeKept
  <2> QED
    BY <2>1 DEF RecordsOK
<1>2. ASSUME NEW n \in Node PROVE crashes[n] = 0 /\ losses[n] = 0
  <2>1. crashes[n] <= MaxCrashes[n] /\ losses[n] <= MaxLosses[n]
    BY DEF CalmAll, WithinBounds
  <2> QED
    BY <1>1, <2>1, BoundsCalm DEF TypeOK
<1>3. ASSUME NEW k \in Node PROVE CalmAt(k)
  <2>1. Peer(k) \in Node
    BY PeerFacts
  <2>2. /\ FileOK(k) /\ PollOK(k) /\ IdsOK(k)
    BY <1>1 DEF RecordsOK, LaneOK
  <2>3. KeptOK(k) /\ KeptOK(Peer(k))
    BY <1>2, <2>1 DEF CalmAll, SafeKept
  <2> QED
    BY <1>1, <1>2, <2>1, <2>2, <2>3 DEF CalmAll, CalmAt, KeptOK
<1>4. ASSUME NEW k \in Node, Cycle(k) PROVE [Channel!Next]_(Channel!vars)
  <2>0. FileOK(k) /\ Peer(k) \in Node
    BY <1>3, PeerFacts DEF CalmAt
  <2>1. CASE ContentGood(k)
    <3>1. UNCHANGED Channel!vars \/ Channel!Acknowledge(k)
      BY <1>1, <1>3, <2>1, ContentIsAcknowledge
    <3> QED
      BY <3>1 DEF Channel!Next
  <2>2. CASE Deliver(k)
    <3>1. Channel!HandOver(Peer(k))
      BY <1>1, <1>3, <2>2, DeliverIsHandOver
    <3> QED
      BY <2>0, <3>1 DEF Channel!Next
  <2>3. ASSUME ~ ContentGood(k), ~ Deliver(k) PROVE [Channel!Next]_(Channel!vars)
    <3>1. /\ said' = said /\ log' = log
          /\ \A n \in Node : mem'[n].peer_acked = mem[n].peer_acked
      BY <1>1, <1>4, <2>0, <2>3, QuietActions DEF Cycle
    <3>2. acked' = acked
      BY <3>1 DEF acked
    <3> QED
      BY <3>1, <3>2, SilentStep
  <2> QED
    BY <2>1, <2>2, <2>3
<1>5. ASSUME NEW k \in Node, Line(k, "lineflush") \/ Line(k, "save")
      PROVE  [Channel!Next]_(Channel!vars)
  <2>1. Channel!Accept(k)
    BY <1>3, <1>5, LineIsAccept
  <2> QED
    BY <2>1 DEF Channel!Next
<1>6. ASSUME NEW k \in Node, Crash(k) \/ LoseState(k) PROVE FALSE
  <2>1. crashes[k] < 0 \/ losses[k] < 0
    BY <1>6 DEF Crash, LoseState
  <2> QED
    BY <1>2, <2>1
<1>7. CASE UNCHANGED vars
  <2>1. said' = said /\ log' = log /\ acked' = acked
    BY <1>7 DEF vars, acked
  <2> QED
    BY <2>1, SilentStep
<1> QED
  BY <1>4, <1>5, <1>6, <1>7 DEF Next

\* While no process dies and no state file is lost, and whatever else fails, the
\* two mailboxes are a pair of reliable FIFO channels: every line is handed over
\* at most once and in the order it was entered, an acknowledgement covers handed
\* over lines only, and at most Window lines are unacknowledged.  For every
\* window that `seen` has room for, and every number of lines and bad pages.
THEOREM MailboxIsChannel ==
    ASSUME \A n \in Node : MaxCrashes[n] = 0 /\ MaxLosses[n] = 0, Window <= SeenCap
    PROVE  Spec => ImplementsChannel
<1>1. CalmAll /\ [Next]_vars => CalmAll'
  BY CalmInductive
<1>2. CalmAll /\ [Next]_vars => [Channel!Next]_(Channel!vars)
  BY StepIsChannel
<1> QED
  BY <1>1, <1>2, InitCalm, InitChannel, PTL DEF Spec, ImplementsChannel, Channel!Spec

=============================================================================
