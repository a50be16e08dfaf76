------------------------------ MODULE Mailbox ------------------------------
(***************************************************************************)
(* The private mailbox channel of clawdvert/mailbox.py: two nodes exchange *)
(* messages by publishing whole envelopes to an artifact each of them owns *)
(* and by polling the artifact of the other.  A reader sees only the       *)
(* current version, so an envelope carries every unacknowledged message,   *)
(* and acknowledgements ride on the return channel.                        *)
(*                                                                         *)
(* One process per node (`chat`; `run` is `chat` without input lines)      *)
(* repeats: load the state file, poll, flush, save.  The state it works on *)
(* is in memory until `save`, so a crash falls back to the state file      *)
(* while what was published or printed stays published or printed.         *)
(*                                                                         *)
(* The clock, the daily publish budget and the liveness display of the     *)
(* peer are abstracted: a deadline may have passed or not, and a budget    *)
(* that is used up is one of the reasons a flush publishes nothing.        *)
(***************************************************************************)
EXTENDS Integers, FiniteSets, Sequences

CONSTANTS
    Node,        \* the two hosts of one channel
    Window,      \* cfg["window"]: unacknowledged messages before a refusal
    SeenCap,     \* sequence numbers kept in state["seen"] (256 in the code)
    Deadlines,   \* may ack_seconds or heartbeat_seconds pass in a run at all
    MaxLines,    \* bound: lines typed at each node
    MaxCrashes,  \* bound: crashes of each node's process
    MaxLosses,   \* bound: state files lost at each node
    MaxBad       \* bound: pages that did not decode, at each node

ASSUME NodeAssumption == \A n \in Node : \E m \in Node : Node = {n, m} /\ n # m
ASSUME WindowAssumption == Window \in Nat \ {0}
ASSUME SeenCapAssumption == SeenCap \in Nat \ {0}
ASSUME DeadlinesAssumption == Deadlines \in BOOLEAN
ASSUME BoundAssumption == /\ MaxLines \in [Node -> Nat]
                          /\ MaxCrashes \in [Node -> Nat]
                          /\ MaxLosses \in [Node -> Nat]
                          /\ MaxBad \in [Node -> Nat]

VARIABLES
    disk,     \* disk[n]: the state file of node n
    mem,      \* mem[n]: the state dict its process works on
    pc,       \* pc[n]: where its process is
    frame,    \* frame[n]: the current version of the artifact node n owns
    held,     \* held[n]: the version of the peer's artifact being polled
    fresh,    \* fresh[n]: polled messages still to hand to the user
    said,     \* said[n]: lines node n's user entered and `queue` took
    kept,     \* kept[n]: those of them a `save` made durable
    log,      \* log[n]: deliveries at node n, oldest first
    epochs,   \* number of epochs drawn so far (secrets.token_hex)
    crashes,  \* crashes[n], losses[n], bad[n]: faults at node n so far
    losses,
    bad

vars == <<disk, mem, pc, frame, held, fresh, said, kept, log, epochs,
          crashes, losses, bad>>

Peer(n) == CHOOSE m \in Node : m # n

-----------------------------------------------------------------------------
(* The state dict, the envelope and the message.                           *)

NoEpoch == 0        \* "" as an epoch; as disk[n].epoch: there is no file

\* Version strings: each publish makes a new one, and all the code does with
\* one is to compare it with the version the peer's artifact has now.  So
\* peer_ver and bad_version are TRUE iff they hold that string, and a publish
\* makes FALSE of every copy the reader holds (see outdated).
blank_state(e) ==
    [epoch |-> e, next_seq |-> 1, outbox |-> {}, peer_acked |-> 0,
     peer_epoch |-> NoEpoch, seen |-> {}, ack_through |-> 0, owed |-> 0,
     peer_ver |-> FALSE, bad_version |-> FALSE]

Message == [seq : Nat, id : Nat]

State == [epoch : Nat, next_seq : Nat, outbox : SUBSET Message,
          peer_acked : Nat, peer_epoch : Nat, seen : SUBSET Nat,
          ack_through : Nat, owed : Nat,
          peer_ver : BOOLEAN, bad_version : BOOLEAN]

Envelope == [epoch : Nat, ack : Nat, ack_epoch : Nat, msgs : SUBSET Message]

\* A version being polled: is it still the current one, and what it carries.
Version == [current : BOOLEAN, env : Envelope]

\* What `init` and `adopt` publish before the state file exists.
first_envelope == [epoch |-> NoEpoch, ack |-> 0, ack_epoch |-> NoEpoch, msgs |-> {}]

\* No version is being polled.
NoVersion == [current |-> FALSE, env |-> first_envelope]

Entry == [epoch : Nat, seq : Nat, id : Nat]

\* The messages of st that still have to be acknowledged.
unacked(st) == {m \in st.outbox : m.seq > st.peer_acked}

outdated(st) == [st EXCEPT !.peer_ver = FALSE, !.bad_version = FALSE]

\* Mutant of newest: the slice keeps one sequence number too few.
newest_OneShort(S) == {s \in S : Cardinality({t \in S : t >= s}) < SeenCap}

\* sorted(seen)[-256:]
newest(S) == {s \in S : Cardinality({t \in S : t >= s}) <= SeenCap}

Init ==
    /\ \E first \in {CHOOSE n \in Node : TRUE} :
           disk = [n \in Node |-> blank_state(IF n = first THEN 1 ELSE 2)]
    /\ mem = disk
    /\ pc = [n \in Node |-> "idle"]
    /\ frame = [n \in Node |-> first_envelope]
    /\ held = [n \in Node |-> NoVersion]
    /\ fresh = [n \in Node |-> {}]
    /\ said = [n \in Node |-> 0]
    /\ kept = [n \in Node |-> {}]
    /\ log = [n \in Node |-> <<>>]
    /\ epochs = 2
    /\ crashes = [n \in Node |-> 0]
    /\ losses = [n \in Node |-> 0]
    /\ bad = [n \in Node |-> 0]

-----------------------------------------------------------------------------
(* hydrate(cfg, load(STATE, blank_state())): without a state file the      *)
(* process works on a blank one with an epoch of its own.                  *)

loaded(n) == IF disk[n].epoch = NoEpoch THEN blank_state(epochs + 1) ELSE disk[n]

Load(n) ==
    epochs' = IF disk[n].epoch = NoEpoch THEN epochs + 1 ELSE epochs

-----------------------------------------------------------------------------
(* poll()                                                                  *)

Polling(n) == UNCHANGED <<disk, frame, said, kept, crashes, losses>>

\* poll() returns; the cycle goes on at p.
Return(n, p) ==
    /\ pc' = [pc EXCEPT ![n] = p]
    /\ held' = [held EXCEPT ![n] = NoVersion]

\* frames.boot() fails, or shows the version already read or given up on.
BootNothing(n) ==
    /\ pc[n] = "idle"
    /\ Load(n)
    /\ mem' = [mem EXCEPT ![n] = loaded(n)]
    /\ Return(n, "flush")
    /\ Polling(n) /\ UNCHANGED <<fresh, log, bad>>

\* frames.boot() shows a version not read yet.
BootChanged(n) ==
    /\ pc[n] = "idle"
    /\ ~ (loaded(n).peer_ver \/ loaded(n).bad_version)
    /\ Load(n)
    /\ mem' = [mem EXCEPT ![n] = loaded(n)]
    /\ held' = [held EXCEPT ![n] = [current |-> TRUE, env |-> frame[Peer(n)]]]
    /\ pc' = [pc EXCEPT ![n] = "content"]
    /\ Polling(n) /\ UNCHANGED <<fresh, log, bad>>

\* frames.content() fails: the next poll tries again.
ContentFails(n) ==
    /\ pc[n] = "content"
    /\ Return(n, "flush")
    /\ Polling(n) /\ UNCHANGED <<mem, fresh, log, epochs, bad>>

\* The page does not decode, or has another wire version: never tried again.
ContentBad(n) ==
    /\ pc[n] = "content"
    /\ bad[n] < MaxBad[n]
    /\ bad' = [bad EXCEPT ![n] = @ + 1]
    /\ mem' = [mem EXCEPT ![n].bad_version = held[n].current]
    /\ Return(n, "flush")
    /\ Polling(n) /\ UNCHANGED <<fresh, log, epochs>>

\* Mutants of track: the watermark outlives the peer's epoch; the reset puts
\* it below zero.
track_KeepsWatermark(st, env) ==
    IF env.epoch \notin {NoEpoch, st.peer_epoch}
    THEN [st EXCEPT !.peer_epoch = env.epoch, !.seen = {}]
    ELSE st

track_BelowZero(st, env) ==
    IF env.epoch \notin {NoEpoch, st.peer_epoch}
    THEN [st EXCEPT !.peer_epoch = env.epoch, !.seen = {}, !.ack_through = -1]
    ELSE st

\* The inbound half resets when the peer shows another epoch.
track(st, env) ==
    IF env.epoch \notin {NoEpoch, st.peer_epoch}
    THEN [st EXCEPT !.peer_epoch = env.epoch, !.seen = {}, !.ack_through = 0]
    ELSE st

\* Mutant of honour: an acknowledgement of any epoch counts.
honour_AnyEpoch(st, env) ==
    LET a == IF env.ack > st.peer_acked THEN env.ack ELSE st.peer_acked
    IN [st EXCEPT !.peer_acked = a, !.outbox = {m \in st.outbox : m.seq > a}]

\* The outbound half honours an acknowledgement of this epoch only.
honour(st, env) ==
    IF env.ack_epoch = st.epoch
    THEN LET a == IF env.ack > st.peer_acked THEN env.ack ELSE st.peer_acked
         IN [st EXCEPT !.peer_acked = a, !.outbox = {m \in st.outbox : m.seq > a}]
    ELSE st

ContentGood(n) ==
    /\ pc[n] = "content"
    /\ LET env == held[n].env
           st == honour(track(mem[n], env), env)
       IN /\ mem' = [mem EXCEPT ![n] = st]
          /\ fresh' = [fresh EXCEPT ![n] = {m \in env.msgs : m.seq \notin st.seen}]
    /\ pc' = [pc EXCEPT ![n] = "deliver"]
    /\ Polling(n) /\ UNCHANGED <<held, log, epochs, bad>>

\* Mutant of Deliver: the fresh messages are not sorted.
Deliver_Unsorted(n) ==
    /\ pc[n] = "deliver"
    /\ \E m \in fresh[n] :
        /\ log' = [log EXCEPT ![n] = Append(@, [epoch |-> mem[n].peer_epoch,
                                                seq |-> m.seq, id |-> m.id])]
        /\ fresh' = [fresh EXCEPT ![n] = @ \ {m}]
        /\ LET seen == mem[n].seen \cup {m.seq}
               a == mem[n].ack_through
           IN \E w \in seen \cup {a} :
                /\ w >= a
                /\ (a + 1) .. w \subseteq seen
                /\ w + 1 \notin seen
                /\ mem' = [mem EXCEPT ![n].seen = seen, ![n].owed = @ + 1,
                                      ![n].ack_through = w]
    /\ Polling(n) /\ UNCHANGED <<pc, held, epochs, bad>>

\* deliver_fn() succeeded for the lowest fresh sequence number.  `seen` is cut
\* to the newest ones when the loop ends: within it the code keeps them all.
Deliver(n) ==
    /\ pc[n] = "deliver"
    /\ \E m \in fresh[n] :
        /\ \A x \in fresh[n] : m.seq <= x.seq
        /\ log' = [log EXCEPT ![n] = Append(@, [epoch |-> mem[n].peer_epoch,
                                                seq |-> m.seq, id |-> m.id])]
        /\ fresh' = [fresh EXCEPT ![n] = @ \ {m}]
        /\ LET seen == mem[n].seen \cup {m.seq}
               a == mem[n].ack_through
           IN \E w \in seen \cup {a} :
                /\ w >= a
                /\ (a + 1) .. w \subseteq seen
                /\ w + 1 \notin seen
                /\ mem' = [mem EXCEPT ![n].seen = seen, ![n].owed = @ + 1,
                                      ![n].ack_through = w]
    /\ Polling(n) /\ UNCHANGED <<pc, held, epochs, bad>>

\* deliver_fn() raised: the cycle skips its flush, and peer_ver stays.
DeliverRaises(n) ==
    /\ pc[n] = "deliver"
    /\ fresh[n] # {}
    /\ fresh' = [fresh EXCEPT ![n] = {}]
    /\ mem' = [mem EXCEPT ![n].seen = newest(@)]
    /\ Return(n, "save")
    /\ Polling(n) /\ UNCHANGED <<log, epochs, bad>>

EndPoll(n) ==
    /\ pc[n] = "deliver"
    /\ fresh[n] = {}
    /\ mem' = [mem EXCEPT ![n].seen = newest(@), ![n].peer_ver = held[n].current]
    /\ Return(n, "flush")
    /\ Polling(n) /\ UNCHANGED <<fresh, log, epochs, bad>>

-----------------------------------------------------------------------------
(* queue(), flush(), save()                                                *)

\* A line is entered (p = "lineflush"), or `send --queue` is run (p = "save").
\* With a full window queue() refuses and nothing changes.
Line(n, p) ==
    /\ pc[n] = "idle"
    /\ said[n] < MaxLines[n]
    /\ LET st == loaded(n)
           m == [seq |-> st.next_seq, id |-> said[n] + 1]
           out == st.outbox \cup {m}
       IN /\ Cardinality(unacked(st)) < Window
          /\ mem' = [mem EXCEPT ![n] =
                       [st EXCEPT !.next_seq = @ + 1,
                                  !.outbox = {x \in out : x.seq > st.peer_acked}]]
    /\ Load(n)
    /\ said' = [said EXCEPT ![n] = @ + 1]
    /\ pc' = [pc EXCEPT ![n] = p]
    /\ UNCHANGED <<disk, frame, held, fresh, kept, log, crashes, losses, bad>>

\* Mutant of envelope: only the newest message is published.
envelope_Newest(st) ==
    [epoch |-> st.epoch, ack |-> st.ack_through, ack_epoch |-> st.peer_epoch,
     msgs |-> {m \in unacked(st) : \A x \in unacked(st) : x.seq <= m.seq}]

envelope(st) == [epoch |-> st.epoch, ack |-> st.ack_through,
                 ack_epoch |-> st.peer_epoch, msgs |-> unacked(st)]

\* Mutant of halfWindowOwed: more than a whole window must be owed.
halfWindowOwed_Window(st) == st.owed > Window

\* due(): an acknowledgement is owed for half a window of messages.
halfWindowOwed(st) ==
    st.owed >= 1 /\ st.owed >= Window \div 2

\* due() in a cycle: half a window is owed, or a deadline has passed.
mayForce(n) == pc[n] = "flush" /\ (Deadlines \/ halfWindowOwed(mem[n]))

mayPublish(n) ==
    /\ pc[n] \in {"flush", "lineflush"}
    /\ unacked(mem[n]) # {} \/ mayForce(n)

\* The envelope becomes the current version of the artifact of n.
publish(n, owed) ==
    LET r == Peer(n)
    IN /\ frame' = [frame EXCEPT ![n] = envelope(mem[n])]
       /\ mem' = [mem EXCEPT ![n].owed = owed, ![r] = outdated(@)]
       /\ disk' = [disk EXCEPT ![r] = outdated(@)]
       /\ held' = [held EXCEPT ![r].current = FALSE]
       /\ pc' = [pc EXCEPT ![n] = "save"]
       /\ UNCHANGED <<fresh, said, kept, log, epochs, crashes, losses, bad>>

Flush(n) == mayPublish(n) /\ publish(n, 0)

\* The answer to the publish was lost or malformed: a FrameError, although the
\* version stands.
FlushUnanswered(n) == mayPublish(n) /\ publish(n, mem[n].owed)

\* Nothing is due, the budget is used up, or the publish was refused.
FlushNothing(n) ==
    /\ pc[n] \in {"flush", "lineflush"}
    /\ pc' = [pc EXCEPT ![n] = "save"]
    /\ UNCHANGED <<disk, mem, frame, held, fresh, said, kept, log, epochs,
                   crashes, losses, bad>>

Save(n) ==
    /\ pc[n] = "save"
    /\ disk' = [disk EXCEPT ![n] = mem[n]]
    /\ kept' = IF mem[n].next_seq = disk[n].next_seq THEN kept
                ELSE [kept EXCEPT ![n] = @ \cup {said[n]}]
    /\ pc' = [pc EXCEPT ![n] = "idle"]
    /\ UNCHANGED <<mem, frame, held, fresh, said, log, epochs, crashes, losses, bad>>

-----------------------------------------------------------------------------
(* Faults.                                                                 *)

\* The process dies in the middle of a cycle and is started again.
Crash(n) ==
    /\ pc[n] # "idle"
    /\ crashes[n] < MaxCrashes[n]
    /\ crashes' = [crashes EXCEPT ![n] = @ + 1]
    /\ mem' = [mem EXCEPT ![n] = disk[n]]
    /\ fresh' = [fresh EXCEPT ![n] = {}]
    /\ Return(n, "idle")
    /\ UNCHANGED <<disk, frame, said, kept, log, epochs, losses, bad>>

\* The state file is lost between two cycles.
LoseState(n) ==
    /\ pc[n] = "idle"
    /\ losses[n] < MaxLosses[n]
    /\ losses' = [losses EXCEPT ![n] = @ + 1]
    /\ disk' = [disk EXCEPT ![n] = blank_state(NoEpoch)]
    /\ mem' = [mem EXCEPT ![n] = blank_state(NoEpoch)]
    /\ kept' = [kept EXCEPT ![n] = {}]
    /\ UNCHANGED <<pc, frame, held, fresh, said, log, epochs, crashes, bad>>

-----------------------------------------------------------------------------

Cycle(n) ==
    \/ BootNothing(n)
    \/ BootChanged(n)
    \/ ContentFails(n)
    \/ ContentBad(n)
    \/ ContentGood(n)
    \/ Deliver(n)
    \/ DeliverRaises(n)
    \/ EndPoll(n)
    \/ Flush(n)
    \/ FlushUnanswered(n)
    \/ FlushNothing(n)
    \/ Save(n)

Next ==
    \E n \in Node :
        \/ Cycle(n)
        \/ Line(n, "lineflush")
        \/ Line(n, "save")
        \/ Crash(n)
        \/ LoseState(n)

Spec == Init /\ [][Next]_vars

\* The loop is never left; the service, the inbox and the clock may fail a
\* node any number of times, but not for ever.
Fairness ==
    \A n \in Node :
        /\ WF_vars(Cycle(n))
        /\ SF_vars(BootChanged(n))
        /\ SF_vars(ContentGood(n))
        /\ SF_vars(Deliver(n))
        /\ SF_vars(Flush(n))

FairSpec == Spec /\ Fairness

-----------------------------------------------------------------------------
(* Properties.                                                             *)

\* Every state record, version and list holds what the code puts there.
TypeOK ==
    /\ disk \in [Node -> State]
    /\ mem \in [Node -> State]
    /\ pc \in [Node -> {"idle", "content", "deliver", "flush", "lineflush", "save"}]
    /\ frame \in [Node -> Envelope]
    /\ held \in [Node -> Version]
    /\ fresh \in [Node -> SUBSET Message]
    /\ said \in [Node -> Nat]
    /\ kept \in [Node -> SUBSET Nat]
    /\ log \in [Node -> Seq(Entry)]
    /\ epochs \in Nat \ {0}
    /\ crashes \in [Node -> Nat]
    /\ losses \in [Node -> Nat]
    /\ bad \in [Node -> Nat]

\* A user whose deliveries are lg was handed message number s of epoch e.
handed(lg, e, s) == \E i \in 1 .. Len(lg) : lg[i].epoch = e /\ lg[i].seq = s

\* Message id was handed to the user of n.
Handed(n, id) == \E i \in 1 .. Len(log[n]) : log[n][i].id = id

\* What st counts as acknowledged, what it tracks of its peer, and what an
\* envelope acknowledges, against the deliveries each of them is about.
ackedSound(st, lg) == \A s \in 1 .. st.peer_acked : handed(lg, st.epoch, s)

trackSound(st, lg) ==
    st.peer_epoch # NoEpoch =>
        \A s \in st.seen \cup 1 .. st.ack_through : handed(lg, st.peer_epoch, s)

envelopeSound(env, lg) ==
    env.ack_epoch # NoEpoch => \A s \in 1 .. env.ack : handed(lg, env.ack_epoch, s)

\* A sequence number counts as acknowledged, in memory or in the state file,
\* only if the peer's user was handed a message of that number and epoch:
\* whatever crashes, whichever state files and publishes are lost.  (The
\* contiguous watermark, the two epochs and their resets in poll.)
AckSound ==
    \A n \in Node : /\ ackedSound(mem[n], log[Peer(n)])
                    /\ ackedSound(disk[n], log[Peer(n)])

\* Why AckSound holds: at every place an acknowledgement passes through, from
\* the receiver's tracking over the envelope it publishes to the copy being
\* polled, the numbers up to it were handed over in the epoch it names; and a
\* process never works without an epoch.
AckChain ==
    /\ AckSound
    /\ \A n \in Node : /\ trackSound(mem[n], log[n])
                       /\ trackSound(disk[n], log[n])
                       /\ envelopeSound(frame[n], log[n])
                       /\ envelopeSound(held[n].env, log[Peer(n)])
                       /\ pc[n] # "idle" => mem[n].epoch # NoEpoch

\* A message that was queued and saved is in the state file, to be sent again,
\* until the peer's user was handed that message (queue: "Nothing was dropped";
\* poll trims the outbox).
NothingDropped ==
    \A n \in Node : \A id \in kept[n] :
        (\E m \in disk[n].outbox : m.id = id) \/ Handed(Peer(n), id)

\* A user is handed a message again only if the process died, or its state file
\* was lost, in between (poll: state["seen"]).
OncePerFault ==
    \A n \in Node : \A id \in 1 .. said[Peer(n)] :
        Cardinality({i \in 1 .. Len(log[n]) : log[n][i].id = id})
            <= 1 + crashes[n] + losses[n]

\* Without deaths and lost files the two mailboxes are a pair of reliable FIFO
\* channels with a window (cmd_chat, poll, flush, queue together).
Channel == INSTANCE MailboxChannel WITH
    sent <- said,
    got <- [n \in Node |-> [i \in 1 .. Len(log[Peer(n)]) |-> log[Peer(n)][i].id]],
    acked <- [n \in Node |-> mem[n].peer_acked]

ImplementsChannel == Channel!Spec

\* Everything the users enter is handed to the other user, some time (cmd_chat
\* publishes what is unacknowledged in every cycle).
Arrives ==
    []<> (\A n \in Node : \A id \in 1 .. said[n] : Handed(Peer(n), id))

\* A full window does not stay full, so the refusals of queue() end: a receiver
\* with nothing to say acknowledges half a window by itself (due).
WindowDrains ==
    []<> (\A n \in Node : Cardinality(unacked(mem[n])) < Window)

=============================================================================
