# A verification project for clawdvert

clawdvert turns hosted HTML artifacts and TURN allocations into communication
channels.  This directory holds TLA+ models of the parts of it that have state,
TLC configurations that check them on small instances, and theorems that TLAPS
proves for every value of the constants.

Contents: [inventory](#the-system), [modules](#the-modules),
[runs](#the-runs), [fairness](#fairness), [proofs](#the-proofs),
[disagreements found](#disagreements-between-code-and-documentation),
[what is not modelled](#what-is-not-modelled), [plan](#the-plan).

## The system

| Component | Source | State it keeps | Operations |
| --- | --- | --- | --- |
| Mailbox channel | `clawdvert/mailbox.py` | `relay_state.json`: epoch, next_seq, outbox, peer_acked, peer_epoch, seen, ack_through, owed, peer_ver, bad_version | init, adopt, poll, deliver, queue, flush, due, save |
| Frame client | `clawdvert/frames.py` | one HTTPS connection | publish, boot, content, frames, delete |
| ArtifactFS transaction journal | `artifactfs/transaction.py` | an append-only file of chained records | create, append, read, classify_recovery |
| ArtifactFS snapshot, codec, mount, provider, CLI | `artifactfs/*.py` | immutable snapshots | capture, encode/decode, materialize, read-only FUSE calls |
| Rendezvous slot store | `realm/relay/lib/rendezvous-slots.mjs` | slots per room, their owner, reader lease, revision, state, expiry | put, get, discover, ack, abort, prune |
| Room store | `realm/relay/lib/rooms.mjs` | per-room event log and members | touch, response, restore |
| Relay server | `realm/relay/server.mjs`, `lib/stun.mjs`, `lib/protocol.mjs` | nonces, sightings | one Allocate request per lane is one operation |
| TURN exchange | `realm/src/rendezvous-v2-turn-exchange.js` | priority queues, pacing | enqueue, pump, close |
| Slot transport | `realm/src/rendezvous-v2-transport.js` | owned receipts, generations, pending puts, forgotten attempts | put, get, discover, ack, abort, clearOwnedAttempt, forgetAttempt, close |
| Attempt state | `realm/src/rendezvous-v2-state.js` | one attempt's phase, deadlines, candidates | pure transitions that return effects |
| Coordinator | `realm/src/rendezvous-v2-coordinator.js` | attempts, per-peer winner, replay tombstones | start, receive, tick, glare resolution |
| Browser adapter | `realm/src/rendezvous-v2-browser-adapter.js` | timers, RTCPeerConnections, effect queue | execute effects in order |
| Pairwise keyring | `realm/src/rendezvous-v2-keyring.js` | local share, derived key, confirmation | begin, receiveAuthenticated, keyFor, revoke |
| Token codec and SDP | `rendezvous-v2-codec.js`, `rendezvous-v2-sdp.js` | none | encode, sign, verify; select candidates |
| Automatic answer return | `realm/src/auto-answer-return.js` | one invitation's descriptor | create slot, verify answer |
| Channel page: room mesh | `realm/clawdvert_channel.html` | members, channels, messages, room title, game, links and pending offers | link hello with a snapshot, flooded envelopes, merges, mesh offers, game actions, save and restore |
| Seeded publisher | `clawdvert/publish.py`, `chat_seeded_publish.py` | none of its own | remix, publish, unpublish, delete; a reconciliation of each |
| Seeded publication receipts | `clawdvert/chat_seeded_receipt.py` | an owner-only journal of records, a lock | begin, append a stage, load, validate, repair a torn tail |
| Conversation publisher | `clawdvert/chat_publish.py`, `publish.py` | a receipt per publication, the page of the browser it works from | prompt, file, conversion, publication; `--private`, `--delete` with their reconciliations |
| Direct publisher | `chat_direct_publish.py` | none of its own | the same mutations without a model's turn |
| Native receipts | `clawdvert/publish.py` | one file per publication | write, read |
| Artifact bridge store | `artifact_bridge/store.py` | a directory of files and a manifest that names them, advisory locks of directories | write: a new bundle, or the extension of one |
| Artifact bridge adapters, client, audit | `artifact_bridge/*.py` | none | fetch, diff, verify, audit |

### How they interact

* **Mailbox.**  Each host publishes whole envelopes to an artifact of its own
  and polls the artifact of the other.  The only shared state is the two
  artifacts; the only durable state is each host's state file, written once per
  cycle.
* **Relay.**  A browser opens N TURN allocations ("lanes") with one user name.
  Each lane makes the relay execute the operation named in it, by itself, and
  answers with five bytes of the result: the user name names the first chunk,
  the lane's number the offset.  So one logical call is N independent calls of
  the slot store, and one logical read is several calls.
* **Room repair** (dormant) and **automatic answers** (shipped) use the slot
  store through the transport and the exchange.
* **Seeded publication.**  The commands `--public`, `--private` and `--delete`
  share a receipt.  Each loads it under a lock, decides by its last record what
  comes next, writes the intent, asks the provider once, and records what it
  saw; a later command reconciles an intent without an answer by reading only.
* **Conversation publication.**  One command creates conversation, file,
  Artifact and, if asked for, the public mapping, and records each step in a
  receipt; later commands with the receipt take the publication back or delete
  the conversation.  The receipt of a published conversation is the seed of
  seeded publications (`load_seed_binding`).
* **Artifact bridge.**  Calls that mirror versions share directories and nothing
  else: they lock the directory above the bundle, the ones they make on the way,
  and the bundle itself.
* **Room mesh.**  A page sends a snapshot of its room when a link opens and
  floods everything after that; what it merges decides what it keeps.
* **ArtifactFS.**  A push appends PREPARED, DISPATCHED, RESPONSE_BOUND,
  READBACK_VERIFIED and CHECKPOINTED records around a publish that is never
  repeated without a decision.  Recovery reads the journal only.

### What is hard, and what makes each part correct

| Component | What is hard | What must hold |
| --- | --- | --- |
| Mailbox | versions that replace each other, lost answers, crashes between publish and save, lost state files | acknowledgements are sound; delivery in order, once; the window drains |
| Slot store and transport | lanes and pages executed one by one against a store that other actors change; receipts that outlive the attempt they belong to | what a reader gets comes from one value; an acknowledged value was read; no receipt is lost or revived |
| Transaction journal | a crash inside an append, two processes, a torn record, the publish that may or may not have happened | the publish is dispatched once; what recovery says is what happened |
| Coordinator and attempt state | both sides start at once, replays, expiry against answers in flight | one winner per pair, no attempt accepted twice, every attempt ends |
| Keyring | shares and readies that cross or are lost | confirmed on both sides means the same key |
| Exchange queue | priorities, reserve, pacing, deadlines | no entry lost, the reserve is kept, deadlines honoured |
| Receipts and publishers | one-shot mutations with ambiguous answers, several commands, pages that outlive their process, torn writes, others who use the account | no second request; the receipt can be loaded and says what happened; only the own clone or conversation is touched; none is deleted under its publication |
| Room mesh | events between a snapshot and the hello, merges that are refused at a limit, pages that were away | members, channels and messages agree once everybody is linked |
| Artifact bridge store | mirrors at once into one directory or into nested ones, failures and deaths between files and manifest, directories removed under a waiting lock | the manifest names only what is there, what was mirrored stays, a failure leaves nothing, bundles do not nest |

## The modules

| Module | Models | Kind |
| --- | --- | --- |
| `Mailbox` | the cycle of `mailbox.py` on two hosts | component |
| `MailboxChannel` | what a mailbox promises | abstract |
| `RendezvousSlots` | the relay's slot store | component |
| `SlotTransport` | clients of the store and the relay's Allocate handler | composes the store with its clients |
| `RepairAttempt` | one attempt's state machine | pure operators |
| `RepairCoordinator` | a device's attempts, guards and glare rules | pure operators over `RepairAttempt` |
| `Repair` | devices that run both, with the adapter's scheduling, relay, clocks and reloads | composes them |
| `Account` | conversations of an account and the commands on a receipt | constants of both publishers |
| `SeededReceipt` | the records of a receipt and what makes a history valid | pure operators |
| `SeededPublish` | commands, provider and receipt file | component over `SeededReceipt` |
| `ConversationReceipt` | the records of a conversation's receipt and what makes a history valid | pure operators |
| `ConversationPublish` | commands, pages, provider and receipt file of a conversation | component over `ConversationReceipt` |
| `OneShot` | what both publishers promise of their mutations | abstract |
| `Publication` | what a receipt promises to whoever reads it for a seed | abstract |
| `BridgeStore` | writers that mirror into two directories, one in the other | component |
| `MailboxProofs`, `MailboxDeliveryProofs`, `SlotTransportProofs`, `SeededPublishProofs`, `ConversationPublishProofs`, `BridgeStoreProofs`, `RepairProofs` | theorems | proofs |
| `MCMailbox`, `MCSlotTransport`, `MCRepair`, `MCSeededPublish`, `MCConversationPublish`, `MCBridgeStore` | values of the constants | instances |

Operators whose name has a suffix after an underscore (`newest_OneShort`) are
wrong on purpose: each is a plausible bug in the definition it is named after,
and each property is violated when its bug is put in.

### Mailbox

`disk[n]` is the state file and `mem[n]` the dict the process works on, with the
fields of the code; `frame[n]` is the current version of the artifact n owns.
The cycle of `cmd_chat` is cut where another host, a crash or a failure can come
between: `Load`, the boot request (`BootNothing`, `BootChanged`), the content
request (`ContentFails`, `ContentBad`, `ContentGood`), delivery (`Deliver`,
`DeliverRaises`, `EndPoll`), `Line`, `Flush`, `FlushUnanswered`, `FlushNothing`,
`Save`.  `Crash` throws `mem` away, `LoseState` the file.  `ContentGood` is the
whole middle of `poll`: tracking of the peer's epoch (`track`), trimming by its
acknowledgement (`honour`), and the choice of what is new.  A version string is
one bit for its reader: is it the current one.  The clock and the daily budget
are choices: a deadline may have passed, a flush may publish nothing.

### Slot store and transport

`slots[k]` is the slot of a key (sender and attempt) of one room, recipient and
role.  `Execute` is `RendezvousSlots.execute`, one envelope at a time.  A call is
made of `Lanes` requests: `LaneExecuted` is one Allocate request that the relay
handles, in any order for reads; for other operations the lanes tell nothing
apart and go in one order.  `NextPage`, `ReadDone`, `PutStored`, `Ended` and
`CallFails` are what the client does when every lane has answered.  `TimeOut`
gives up a call and leaves one request behind that the relay may execute at any
later time (`StrayExecuted`); `LaneRepeats` executes a lane once more, because
the browser retransmits what was not answered.  A token is known by its place: key, the
creation of its slot, and revision.  `Expire` and `Lapse` are the passing of
time, at any moment, so no property rests on how long something takes.

### Room repair

An attempt is a record and `transitionAttempt` the state machine of
`rendezvous-v2-state.js`; a coordinator is a record of attempts, the active one
per peer, tombstones and the time of saturation, and its operations are
functions from coordinator to coordinator (`prune`, `rememberReplay`,
`acceptOutcome`, `start`, `receiveVerified`).  `Repair` adds what the browser
adapter does: one operation per peer at a time, run to its end (`Prepare`,
`Publish`, `Fail`), tokens in slots that can be read at any time, by anyone they
are for and again (`Receive`), timers (`ConnectivityTimeout`, `ExpiryTimer`),
the channel (`ChannelOpen`) and page reloads (`Reload`) with the guards the code
saves.  Clocks differ by at most `Skew`.  Cryptography is left out: a token says
truly who sent it, and a verification is a comparison of times.

### Seeded publication

The receipt is `log` (whole lines), `torn` (there is a part of a line behind
them), `exists` and `owner` (the lock).  A record is its stage, the clone, the
conversation an unknown state was seen with, and whether a public mapping is
bound; the fields that never change are left out, and so is the observed
mapping, which no decision reads.  `Store` is `_append`: the record is written
and the process goes on; or the whole line or a part of it is there and the
process ends.  A command opens and locks the file (`Create`/`Begin`, `Open`),
loads it (`Load`), and then, by the last record, writes an intent (`Intend`),
checks again and sends the request (`Dispatch`), or reconciles.  One action
serves the fresh answer and the reconciliation where the code has both
(`BindClone`, `BindPublic`, `RecordRemoval`).  `Remix`, `Publish`, `Unpublish`,
`Delete` and `Refuse` are the provider, which may act long after nobody waits.
What the publisher reads is the provider's present state,
and an answer to the remix names the conversation that request made.  Every check may fail
(`Stop`), which stands for every field the code compares, and for the seed.

### Conversation publication

The receipt is as above; `written` says besides what happens to a line behind a
torn one (both are lost as a `Fragment`, which makes the history invalid) and
`repaired` cuts the torn part off when the receipt is loaded.  A session is a
process together with the page it drives: `Orphan` is the death of the process
while the page is about to send a request.  The lock goes at once, and the page
may still send it (`Ask`), once; a page that converts goes on to hide what it
converted, because both are one script.  The chain of a publication is
`SendPrompt`, `BindConversation`, `BindFile`, `Convert`, `HideConverted`,
`BindConverted`, `PublishDirect`, `RecordPublished`, `RecordComplete`; a mapping
that comes with the conversion goes through `RecordUnexpected`.  `--private` and
`--delete` work from the step `planning`, where the last record decides:
`ReconcileConversion`, `IntendPrivacy`, `Privatize`, `RecordPrivacy`,
`CompletePrivate`, `ReconcilePublic`, `Unpublish`, `RecordUnpublished`,
`DeleteConversation`, `RecordDeleted`.  `TakePrompt`, `MakeArtifact`,
`MakePrivate`, `MakePublic`, `TakeBack`, `Remove` and `Refuse` are the provider,
at any time after the request; `ConversationElsewhere` and `WithdrawByHand` the
user.  Prompt, conversion, publication and the change of visibility are asked
for once; hiding, unpublishing and deleting may be repeated, because doing them
again changes nothing.  An Artifact of a conversation is its visibility, and its
mapping is active or a tombstone; what was compared to find them is abstracted
to the identity of the conversation, and every check may fail (`Stop`).

### Artifact bridge store

Directories are numbered as they are made and a path shows the number it has
now (`at`), because a lock belongs to a directory and not to its path.  A call
goes through `Mirror`, `LockParent`, `MakeParent`, `Enter`, for a new bundle
`MakeAbove` (when the directory above was removed) and `Claim`, then `LockRoot`,
for an old one `Load`, one `WriteFile`, `LinkFile`, `DropName` per file,
`WriteManifest`, and `LinkManifest`/`Finish` for a first manifest or
`ReplaceManifest` for another.  `astray` remembers that some writer went on below
a directory that was not at its path any more; no action asks it.
`insideBundle` is asked at each of the places where the code asks it.  `Fail` is
an exception at any point, with the rollback of the code (`RollBack`, `GiveUp`);
`Die` is a kill, after which the code rolls nothing back.  A version has one
representation, and so one file.  A failure between making a bundle's directory
and locking it leaves the directory there.  Making it and seeing that it is empty
are one step, and the calls of a rollback succeed.  Only bridge writers touch
the directories, as the documentation demands; there is no loss of power.

## The runs

| Run | Asks | Instance |
| --- | --- | --- |
| `mailbox_live` | `ImplementsChannel`, `Arrives`, `WindowDrains` | one sender, five lines, window 4, list of 4, failing requests, no crash and no deadline |
| `mailbox_faults` | `TypeOK`, `AckSound`, `AckChain`, `NothingDropped`, `OncePerFault` | two lines, window 2, list of 2; the receiver dies once and meets one bad page, the sender loses its file once |
| `mailbox_reuse` | `NothingDropped` (violated) | the sender dies between publish and save |
| `slot_transport` | `TypeOK`, `OneRevision`, `AckedWasRead`, `OneEnd`, `ReadersTakeTurns` | two keys, a writer of two calls, two readers of three calls each, one time-out, one repeated lane, one expiry, one lapse, at most seven events |
| `slot_splice` | `NothingSpliced` (violated) | two keys, a writer of three calls, a reader of one |
| `repair_glare` | `TypeOK`, `NoMutualRefusal`, `OffererStillListens`, `NoOrphan` | both devices call, clocks up to one unit apart, no failure |
| `repair_ends` | `NeverTakenUpAgain`, `ReserveKept`, `AttemptsEnd` | room for one tombstone, one failure, one reload, time passes |
| `repair_live` | `EventuallyConnected` | both may call, nothing fails |
| `repair_reload` | `TakenUpOnce` (violated) | one caller, one reload |
| `seeded_publish` | `TypeOK`, `Readable`, `ReceiptTells`, `OwnCloneOnly`, `RequestsAreOneShot` | three commands at once, three conversations, no bound on anything else |
| `conversation_publish` | `TypeOK`, `Readable`, `ReceiptTells`, `OwnConversationOnly`, `NothingPublishedBehind`, `RequestsAreOneShot`, `ImplementsPublication` | three commands at once, two conversations, no bound on anything else |
| `bridge_store` | `TypeOK`, `ManifestTells`, `FailureLeavesNothing`, `NotNested` | two writers, two versions, one of them with two contents, three directories made |

Why the bounds are enough.  *Mailbox*: traffic in one direction uses both roles
of both hosts, because acknowledgements go the other way; two messages make a
batch with an order and a prefix, and a window of as many makes the refusal
happen.  Half a window must be more than one message for the forced
acknowledgement, hence four in `mailbox_live`.  The fifth line there is the one
that makes the cut of `seen` drop a number; in `mailbox_faults` there are never
more numbers than the list has room for, and that duplicates need a fault when
the cut drops some is the theorem `OncePerFaultHolds`.  *Slots*: two lanes and
four chunks give two pages, the smallest case in which lanes of one page and
pages of one read differ; the header ends on the second page, so
that a receipt can be made of two.  `FewEvents` bounds the run to
histories of seven events: a call counts one, as do a time-out, an expiry and a
lapse, a repeated lane two, and the second reader three.  So every fault
happens beside up to six calls of the writer and one reader, and beside up to
three when both readers call.  Two revisions and two slots give everything that can be mixed up.
*Repair*: two attempts are what a glare needs, and in `repair_ends` time
outlasts a token and its guard.  *Seeded publication*: its stages make the
state space finite; three commands are one that works, one that waits and one
whose request is late, and three conversations one clone, one foreign clone and
one that is still absent.  *Conversation publication*: one process creates, one
cleans up and one waits or has left its page behind; of two conversations one is
the publication's and one is another's, or is still absent.  *Bridge*: two writers
are what a lock needs, and each may be in the outer or the inner directory; two
contents of one version conflict, two versions make an extension; three
directories are the two, and one of them made again after it was removed.

All commands and conversations of `seeded_publish` and `conversation_publish` are
alike, and so are the keys and the readers of the slot runs and the writers of
`bridge_store`: those use symmetry, and check no liveness.  `CHECK_DEADLOCK FALSE` stands where calls, ids or time are used up,
or the receipt's file was left empty; the mailbox and the bridge's writers never
stop and are checked for deadlock.

## Fairness

* `Mailbox!Fairness`: every host's cycle goes on (the loop of `cmd_chat`), and
  of the requests made again and again, and of the deliveries, some succeed.
  Nothing is fair about lines, crashes or lost files.
* `Repair!FairSpec` (`repair_live`): the application calls, devices do their
  work, a channel between two ends that have each other's description opens, and
  each kind of token a peer published is read at last.  The adapter polls the
  slots of its peer while it has an attempt.
* `Repair!TimedSpec` (`repair_ends`): time passes, every awaited operation ends
  (each has a timeout in the adapter), and timers fire; the relay and the peer
  may do anything or nothing.
* The slot store, the publishers and the bridge are checked for safety only: a
  client may stop and a command or a writer may die for good.

## The proofs

TLAPS proves these for all values of the constants, from the named assumptions
of the modules (finite sets of keys, positive sizes, distinct null values).
They do not use the bounds: those are numbers in guards.

**Mailbox** (`MailboxProofs`).  `TypeCorrect`, `ChainHolds`, `AcksAreSound`.
That a sender's `peer_acked` is covered by deliveries (`AckSound`) is not
inductive, because it depends on an envelope that was written earlier.
`AckChain` follows an acknowledgement all the way: what the receiver tracks in
memory and on disk, what it published, and the copy that is being polled are
each covered by deliveries in the epoch they name.  With `TypeOK` this is
inductive.  It holds because deliveries only grow, because a change of epoch
resets watermark and list together, and because an acknowledgement is honoured
only for the epoch it names.

What is delivered (`MailboxDeliveryProofs`): `RecordsAreSound`,
`OncePerFaultHolds`, `LivingSenderDropsNothing`, `NothingIsDropped`,
`MailboxIsChannel`.  All of it is about what is `carried` to a reader: the
messages in the sender's memory and state file, in its current version and in
the version that is being polled.  Each action is shown to be one of a few kinds
of step of the reader and of the sender, and each kind keeps the invariants,
which come in four layers.

* Records, with every fault.  `FileOK`: an outbox has each number from the last
  acknowledged to the next once, and memory is at most one line ahead of the
  file.  `EpochsOK`: epochs reach the reader in the order they began.  `PollOK`:
  what a poll still has to deliver is what `seen` does not have.  `IdsOK`: one
  message has one number in one epoch, for ever.  `BoundOK`, `NearOK`: nothing
  on the way is a window behind what was seen or published before, because the
  outbox spans less than a window.
* `GuardOK`, for `OncePerFault`.  A message is handed over at most as often as
  faults excuse and once more; when that often, it is carried only where its
  number is in `seen` and the epoch is the reader's (`Shut`).  By `NearOK` the
  cut of `seen` drops no number that can still come, when `seen` has room for a
  window (256 against a default of 32).  Without this hypothesis the property
  [fails](#disagreements-between-code-and-documentation).
* `KeptOK`, for `NothingDropped`.  As long as the sender's process did not die, a number
  of its epoch is one message's (`Numbered`), so that what `AckSound` says of
  numbers is true of messages.  `LivingSenderDropsNothing` says it for each
  sender by itself.  `NothingIsDropped` assumes that only a node whose
  user enters nothing may die; without it the property fails (`mailbox_reuse`).
* `CalmOK`, for the refinement, where no process dies and no file is lost.
  There is one epoch, the messages are handed over in order, and no version
  leaves one out that was not handed over.  Then `Line` maps to the `Accept` of
  `MailboxChannel`, `Deliver` to `HandOver`, a `ContentGood` whose
  acknowledgement is news to `Acknowledge`, and everything else to a stutter.
  Failed requests, bad pages and repeated polls are still possible.

**Slots** (`SlotTransportProofs`).  `TypeCorrect`, `ReadsOneRevision`,
`AcknowledgedWasRead`, `EverybodyToldOneEnd`, `ReadersWaitTheirTurn`.  The type
invariant says besides
which requests a client can have made.  `StoreStep` says what any request, in
time, late or repeated, can do to a slot: claim it, replace an unclaimed value,
end an active one, or make another.  Four invariants rest on it.  `AckInv`: an
acknowledgement on its way is of a verified receipt.  `RevisionInv`: whoever
has a chunk of a slot that still exists has claimed it once, so that the slot's
revision stays, and all its chunks are of that revision.  `ToldInv`: what an
answer on a lane says of a slot's end is what the slot says, or the slot is gone
and nobody will say otherwise.  `TurnsInv`: the readers that hold a chunk of a
slot are as many as leases of it have lapsed, and one more while it is leased.

**Room repair** (`RepairProofs`).  `RepairInvHolds`, `TypeCorrect`,
`ReserveIsKept`, `NoneIsOrphaned`, `StaysOver`, `OneOfTwoWins`,
`ListensLongEnough`: every safety property of the passing runs, for any number of
devices and attempts.  `RepairInv` has a part for one coordinator and one for all.  `Sound`: an
attempt that goes on is the active one with its peer, one that ended has a
tombstone, and tombstones and active attempts together fit.  `Issued`: tokens of
one id have one issue time, an id is of one offerer's attempt, an offerer in a
state that waits for others has published, and an answerer has seen the offer.
Neither is enough for `NeverTakenUpAgain`: `Ended` says why an attempt stays
over, because nobody has offered or will offer it to the device, or because a guard, of
its own or the saturation, lasts until its tokens are too old.  A refusal is
explained by the two tokens that were compared (`Lost`), and tokens are signed and
stay, so that two devices cannot disagree.  Each operation of the coordinator is
characterised once, as quiet, as continuing one attempt or as beginning one; each
kind is shown to keep the whole.

**Seeded publication** (`SeededPublishProofs`).  `PublishInvHolds`,
`TypeCorrect`, `StaysReadable`, `AttemptedOnce`, `ImplementsOneShot`.  The
inductive invariant `PublishInv` consists of `TypeOK`; `Locked`: who has opened
the file holds its lock; `Loaded`: who has loaded it knows its last record, and
there is no part of a line; `Fresh`: a file that is being created is empty and
created by one command; `Readable`; `Ordered`: by the rank of stages no record
lies behind the last one; `Counted`: a mutation that was asked for once has its
intent at or before the last record, and none was asked for twice; `Asked`: a
command between intent and request has an intent nobody asked for.  A second
intent for a mutation would be a stage whose rank the last record has reached,
and stages only rise.  `AttemptedOnce` states in the module's own terms
what `ImplementsOneShot` implies.  `ImplementsOneShot` is a refinement: a record with a
new intent maps to `OneShot!Intend`, a request to `OneShot!Attempt`, everything
else to a stutter, a process that dies among it.

That the receipt tells the truth (`ReceiptIsTrue`) and that only the clone is
touched (`OwnClone`) are about the provider, and need a second layer,
`AccountInvHolds`.  `AccountInv` says where requests and names come from.
`OneInFlight`: a request on its way is the only one of its kind, because its
mutation was asked for once.  `OneMade`: so one conversation is made, and
`OwnRequests`: every other request is about it.  `OnePublished`: a mapping that
is there leaves no publication on its way, so that a tombstone stays one.
`Told`: what the last record says is so; of a record that says rejected, or that
deletes an unpublished clone, also that no publication is on its way.
`Claims`: what a command was told, or has seen and is about to record, is so
until it records it.  The proof characterises a step once for all actions of its
kind: `Telling` for whatever is stored, `Provided` for whatever the provider and
other users do.

**Conversation publication** (`ConversationPublishProofs`).  `ReceiptInvHolds`,
`TypeCorrect`, `StaysReadable`, `ImplementsOneShot`; `AccountInvHolds`,
`ReceiptIsTrue`, `OwnConversation`, `NothingPublishedStays`,
`ImplementsPromise`.  The two layers are those of the seeded publication, and
each is stronger.  A page outlives its process without the lock, so in
`ReceiptInv` `Knows` says of a living command only that its record is the last
one, and `Ready` that whoever is about to ask for a mutation, page or command,
is the only one and the first.  In `AccountInv`, `Left` is
the reason why no conversation is deleted under its publication: when one is
deleted, or may be at any time, nothing that could publish from it is on its way
or about to be asked for, and nobody who creates is alive.  What a command has
seen before a request that is repeated may be outdated when it acts; `Claims`
says what stays true of it.  `ImplementsPromise` maps the receipt to
`Publication`, `ImplementsOneShot` to `OneShot`, as above.

**Artifact bridge store** (`BridgeStoreProofs`).  `StoreInvHolds`,
`TypeCorrect`, `ManifestIsTrue`, `NothingLeftBehind`, `BundlesApart`.  In
`StoreInv`, `Placed` says that whoever changes a bundle is in the directory that
is there and holds its lock, so that there is one such writer for a path
(`OneWorker`); that needs the writers who wait for the lock of a directory they
made (`Apart`).  `Done` says what such a writer has written and created so far,
which therefore stays true until it changes it.  Files that no manifest names
are accounted for by the writer that created them, as long as no writer was
killed (`Accounted`), and a writer in the inner directory holds the lock of the
outer one and has found no bundle there, as long as no writer went astray
(`Excluded`): the two conditions are those of `FailureLeavesNothing` and
`NotNested`, and what happens otherwise is told [below](#disagreements-between-code-and-documentation).

Model-checked only: liveness (`Arrives`, `WindowDrains`, `AttemptsEnd`,
`EventuallyConnected`), which rests on fairness and ENABLED.  Every safety
property of a passing run is a theorem.  TLAPS has no
induction over data here, so what a recursive definition computes for every
input could not be proved; no module declares a RECURSIVE operator.

## Disagreements between code and documentation

Each is the counterexample of a run; `PROJECT.json` quotes the lines.

* `mailbox_reuse`: a process that dies between `flush` and `save` gives a
  published sequence number to the next line.  The peer takes that line for a
  duplicate and acknowledges it.
* `slot_splice`: when the claimed slot ends between two pages of a `discover`,
  the next page comes from another slot.  The token does not verify, so the read
  is lost and nothing is forged; the comment says that it cannot happen.
* `repair_reload`: the guard of an attempt in progress is the attempt in memory,
  so a reload forgets it and the same offer is taken up again.  The
  documentation says that the guards are persisted across reload.

Met while modelling, and not the subject of a run of its own:

* Mailbox: `seen` is cut to 256 numbers (`mailbox.py:310`) whatever the window
  is, and `--window` may be larger, as the error of a full window advises
  (`mailbox.py:350`).  A batch that is larger pushes its own first numbers out,
  and the next version that still carries them has them delivered again, without
  a fault; `tests/test_mailbox.py:137` says "the same message is not delivered
  twice".  `mailbox_faults` with `Window = 2`, `SeenCap = 1` and no faults shows it.
* Mailbox: a receiver that loses its state file after the sender trimmed
  acknowledged messages starts its watermark at 0 and can never pass the numbers
  nobody sends any more, so that the sender's window fills for ever.
  `docs/mailbox.md` (86) lists the lost file among the cases that have a mechanism.
  No property of a run catches it: `mailbox_faults` checks safety, which holds,
  and nobody loses a file in `mailbox_live`.  With window 2, three lines and one
  loss of the receiver's file, `WindowDrains` is violated there.
* Conversation publication: when the conversion came with a public mapping that
  was not asked for and the process dies before the mapping is recorded, the
  receipt says `converted`, and `--private` takes its word without asking the
  provider.  `ReceiptTells` excepts this (`unasked`).
* Conversation publication: when the change of visibility is lost after its
  intent, no later command may ask again, so that the conversation can be deleted
  only after the user made the Artifact private by hand.
* Bridge: a writer that failed removes the directory it made.  Another that
  waited for its lock, for a bundle inside, then holds the lock of a directory
  without a name and makes a new one without a lock, so that one bundle can come
  to lie in another; `docs/artifact-bridge.md` (192-194) says "the bridge refuses
  to create a bundle beneath another intact bundle".  `NotNested` excepts what
  happens after a writer went on in this way (`astray`), and nothing else: what a
  removal does otherwise is checked and proved.  Without the exception
  `bridge_store` violates it.
* Bridge: after a writer was killed between the files and the manifest, every
  later mirror into the bundle is refused for the file nobody names.

## What is not modelled

* Cryptography, encodings and formats: tokens and envelopes are records, and a
  verification compares what it authenticates.
* `mailbox.py`: `init` and `adopt` before the first cycle, pairing by title, the
  liveness display, files, the count of the daily budget.  One process per
  mailbox, as `docs/mailbox.md` demands.
* Slot transport: the bookkeeping of owned receipts, generations and forgotten
  attempts; size checks.
* Room repair: bounds on queues, ICE, more than two devices, rooms of more than
  one application.
* Seeded publication: file modes, size limits, the wording of errors, the seed's
  own receipt.
* Conversation publication: what the prompt says and how its file is found, waits
  and samples, file modes, the tab's own cleanup.
* Bridge: writers that do not cooperate and what identity and symlink checks do
  about them, paths, limits, several representations of one version.
* Everything the components list of `PROJECT.json` names as not modelled, with
  the reason there: most of it is planned, the rest keeps no state.

## The plan

What matters most comes first.

1. `TransactionJournal`: append, read and recovery of ArtifactFS as another
   implementation of `OneShot`, with torn records and two processes.
2. `RoomMesh`: the page's replicated room.  Members, channels and messages of
   three pages with links that open, close and time out; snapshot and hello;
   floods; merges with their limits; save and restore.  Abstract specification: a
   grow-only room that all linked pages share.
3. `SlotReceipts`: `put`, `ack`, `abort`, `clearOwnedAttempt`, `forgetAttempt` and
   `close` of the transport over an abstract store that `SlotTransport` justifies.
4. `Keyring`, `AutoAnswer`, `TurnExchange` (quotas, reserve, pacing, close),
   `RoomStore` (restarts).

New questions replace weaker runs where they must; the intended instances are two or
three actors with two of whatever they exchange, as above.
