------------------------------- MODULE Repair -------------------------------
(***************************************************************************)
(* Devices that repair their connections: the adapter                      *)
(* realm/src/rendezvous-v2-browser-adapter.js drives the coordinator of    *)
(* each device, over slots that anybody may delay, drop, repeat or reorder,*)
(* and with clocks that differ.                                            *)
(*                                                                         *)
(* The adapter runs one operation per peer at a time, to its end.  So an   *)
(* attempt in a Working state is in the middle of one, and only that one   *)
(* goes on; in the others any event may come.  A token that was ever       *)
(* published can be read at any time, which is what makes relay            *)
(* acknowledgements mere hints; budgets for the writes of a put are less   *)
(* than a unit of time.                                                    *)
(***************************************************************************)
EXTENDS RepairCoordinator

CONSTANTS
    Caller,          \* devices whose application asks for repairs
    FallbackBudget,  \* time left that a request for a candidate needs
    MaxTime,         \* bound: time that passes
    LastStart,       \* bound: time of the last call
    MaxFailures,     \* bound: operations that fail
    MaxReloads       \* bound: pages loaded again

ASSUME RepairBoundAssumption ==
    /\ Caller \subseteq Device /\ FallbackBudget \in Nat
    /\ MaxTime \in Nat /\ LastStart \in Nat /\ MaxFailures \in Nat /\ MaxReloads \in Nat

VARIABLES
    coordinator,  \* coordinator[d]
    boot,         \* boot[d]: how often the page of d was loaded
    remote,       \* remote[d][k]: the boot of the peer whose answer d applied, 0: none
    published,    \* the tokens in slots, now or earlier
    fresh,        \* attempt ids not used so far
    time,
    offset,       \* offset[d]: d's clock is ahead of time by this much
    finished,     \* finished[d]: attempts that ended at d or that d refused
    refusals,     \* offers that lost, and the attempts they lost against
    taken,        \* the offers taken up, and in which life of the page
    failures, reloads

history == <<finished, refusals, taken>>
vars == <<coordinator, boot, remote, published, fresh, time, offset, history, failures, reloads>>

clock(d) == time + offset[d]

Refusal == [lost : Key, won : Key]
Taken == [at : Device, key : Key, boot : Nat]

Init ==
    /\ coordinator = [d \in Device |-> NewCoordinator([k \in Key |-> 0], 0)]
    /\ boot = [d \in Device |-> 1]
    /\ remote = [d \in Device |-> [k \in Key |-> 0]]
    /\ published = {}
    /\ fresh = Id
    /\ time = 0
    /\ offset \in [Device -> 0 .. Skew]
    /\ finished = [d \in Device |-> {}]
    /\ refusals = {}
    /\ taken = {}
    /\ failures = 0 /\ reloads = 0

-----------------------------------------------------------------------------

attempt(d, k) == coordinator[d].attempts[k]

\* The queue of operations with p is empty.
free(d, p) == \A k \in activeKeys(coordinator[d]) :
                  k[1] = p => attempt(d, k).state \notin Working

\* d's coordinator is c from now on.
Settle(d, c, refused) ==
    /\ coordinator' = [coordinator EXCEPT ![d] = c]
    /\ finished' = [finished EXCEPT ![d] = @ \cup refused \cup
                       (activeKeys(coordinator[d]) \ activeKeys(c))]

Dispatch(d, k, event) == Settle(d, dispatch(coordinator[d], k, event, clock(d)), {})

token(d, k, role) == [role |-> role, from |-> d, to |-> k[1], id |-> k[2],
                      issuedAt |-> attempt(d, k).issuedAt, boot |-> boot[d]]

\* A signed abort, which may not make it.
PublishAbort(d, k) ==
    \/ published' = published
    \/ publishesAbort(attempt(d, k), clock(d)) /\ published' = published \cup {token(d, k, "abort")}

unrelated == <<boot, fresh, time, offset, failures, reloads>>

\* start: the application asks for a repair.
Start(d, p, id) ==
    /\ d \in Caller /\ p # d /\ id \in fresh
    /\ time <= LastStart
    /\ free(d, p)
    /\ LET c == expirePeer(coordinator[d], p, clock(d))
       IN /\ canStart(c, p, clock(d))
          /\ Settle(d, start(c, <<p, id>>, clock(d)), {})
    /\ fresh' = fresh \ {id}
    /\ UNCHANGED <<boot, remote, published, time, offset, refusals, taken, failures, reloads>>

-----------------------------------------------------------------------------
(* Work on an attempt.                                                     *)

\* What the adapter reports when the work of a state is done.
completion(a) ==
    CASE a.state = "creating-offer" ->
             IF a.tokenEpochStarted THEN "local-offer-ready" ELSE "outbound-token-started"
      [] a.state = "creating-answer" -> "local-answer-ready"
      [] a.state \in {"applying-offer", "applying-answer"} -> "remote-description-applied"
      [] a.state = "creating-fallback" -> "local-fallback-ready"
      [] a.state = "applying-fallback" -> "remote-fallback-applied"

\* A candidate answers a request its sender has kept time for.
publicationDeadline(a) ==
    IF a.role = "offerer" /\ a.fallbackRequested THEN a.expiresAt ELSE publishDeadline(a)

\* A token is signed in these states.
signs(a) == \/ a.state = "creating-offer" /\ a.tokenEpochStarted
            \/ a.state \in {"creating-answer", "creating-fallback"}
            \/ a.state \in Publishing

tooLate(d, a) == signs(a) /\ clock(d) >= publicationDeadline(a)

Prepare(d, k) ==
    /\ attempt(d, k).state \in Working \ Publishing
    /\ ~ tooLate(d, attempt(d, k))
    /\ Dispatch(d, k, completion(attempt(d, k)))
    /\ UNCHANGED <<remote, published, refusals, taken, unrelated>>

\* Mutant of publishedRole: a fallback has a slot named after its state.
publishedRole_OfState(a) ==
    CASE a.state = "publishing-offer" -> "offer"
      [] a.state = "publishing-answer" -> "answer"
      [] a.state = "publishing-need-candidate" -> "needCandidate"
      [] a.state = "publishing-fallback" -> "fallback"

publishedRole(a) ==
    CASE a.state = "publishing-offer" -> "offer"
      [] a.state = "publishing-answer" -> "answer"
      [] a.state = "publishing-need-candidate" -> "needCandidate"
      [] a.state = "publishing-fallback" -> "candidate"

Publish(d, k) ==
    /\ attempt(d, k).state \in Publishing
    /\ ~ tooLate(d, attempt(d, k))
    /\ published' = published \cup {token(d, k, publishedRole(attempt(d, k)))}
    /\ Dispatch(d, k, "slot-stored")
    /\ UNCHANGED <<remote, refusals, taken, unrelated>>

\* An operation fails or takes too long, the token of a failing put may be
\* stored.  While devices connect, the authentication of the channel may fail.
\* Ambiguous results and aborts come together: no other device tells them apart.
Fail(d, k) ==
    LET a == attempt(d, k)
        late == tooLate(d, a)
    IN /\ a.state \in Working \cup {"connecting"}
       /\ failures' = IF late THEN failures ELSE failures + 1
       /\ late \/ failures < MaxFailures
       /\ Dispatch(d, k, "fail")
       /\ \/ PublishAbort(d, k)
          \/ /\ a.state \in Publishing /\ ~ late
             /\ published' = published \cup {token(d, k, publishedRole(a))}
       /\ UNCHANGED <<boot, remote, fresh, time, offset, refusals, taken, reloads>>

-----------------------------------------------------------------------------
(* Events.                                                                 *)

verifies(d, t) == t.issuedAt <= clock(d) + Skew /\ clock(d) < t.issuedAt + Lifetime + Skew

\* A slot of the peer is read, in whatever way.
Receive(d, t) ==
    LET c == expirePeer(coordinator[d], t.from, clock(d))
        k == keyOf(t)
        old == <<t.from, activeId(c, t.from)>>
        after == receiveVerified(d, c, t, clock(d))
        refuses == unknown(c, k) /\ ~ live(after.attempts[k])
    IN /\ t.to = d /\ verifies(d, t)
       /\ free(d, t.from)
       /\ Settle(d, after, IF refuses THEN {k} ELSE {})
       /\ remote' = IF t.role = "answer" /\ after.attempts[k].state = "applying-answer"
                    THEN [remote EXCEPT ![d][k] = t.boot] ELSE remote
       /\ refusals' = IF losesGlare(d, c, t, clock(d))
                      THEN refusals \cup {[lost |-> k, won |-> <<offererOf(d, c, old), old[2]>>]}
                      ELSE refusals
       /\ taken' = IF accepts(d, c, t, clock(d))
                   THEN taken \cup {[at |-> d, key |-> k, boot |-> boot[d]]} ELSE taken
       /\ IF replaces(d, c, t, clock(d)) THEN PublishAbort(d, old) ELSE published' = published
       /\ UNCHANGED unrelated

\* No connection yet, and time for one more exchange.
ConnectivityTimeout(d, k) ==
    LET a == attempt(d, k)
    IN /\ a.state = "connecting" /\ a.role = "answerer" /\ ~ a.fallbackRequested
       /\ a.expiresAt - clock(d) >= FallbackBudget
       /\ Dispatch(d, k, "connectivity-timeout")
       /\ UNCHANGED <<remote, published, refusals, taken, unrelated>>

\* The two ends of attempt k have the descriptions of each other.
answering == {"publishing-answer", "connecting", "publishing-need-candidate",
              "applying-fallback", "open"}
offering == {"connecting", "creating-fallback", "publishing-fallback", "open"}

linked(d, p, id) ==
    LET o == attempt(d, <<p, id>>)
        a == attempt(p, <<d, id>>)
    IN /\ o.role = "offerer" /\ o.state \in offering
       /\ a.role = "answerer" /\ a.state \in answering
       /\ remote[d][<<p, id>>] = boot[p]

\* The data channel is open, and the hellos have been exchanged.
ChannelOpen(d, k) ==
    /\ attempt(d, k).state = "connecting"
    /\ linked(d, k[1], k[2]) \/ linked(k[1], d, k[2])
    /\ Dispatch(d, k, "channel-open")
    /\ UNCHANGED <<remote, published, refusals, taken, unrelated>>

\* Mutant of ExpiryTimer: it is cleared when the descriptions are exchanged.
ExpiryTimer_WhileWaiting(d, k) ==
    /\ attempt(d, k).state = "waiting-answer"
    /\ clock(d) >= completionDeadline(attempt(d, k))
    /\ Dispatch(d, k, "expire")
    /\ UNCHANGED <<remote, published, refusals, taken, unrelated>>

ExpiryTimer(d, k) ==
    LET a == attempt(d, k)
    IN /\ live(a) /\ a.state \notin Working
       /\ clock(d) >= completionDeadline(a)
       /\ Dispatch(d, k, "expire")
       /\ UNCHANGED <<remote, published, refusals, taken, unrelated>>

\* Mutant of savedSaturation: only the tombstones are saved.
savedSaturation_Lost(d) == 0

savedSaturation(d) ==
    IF coordinator[d].saturatedUntil > clock(d) THEN coordinator[d].saturatedUntil ELSE 0

\* The page is loaded again with the replay guards that were saved
\* (exportReplayState, restoreReplayTombstones): never more than there is room for.
Reload(d) ==
    /\ reloads < MaxReloads
    /\ reloads' = reloads + 1
    /\ boot' = [boot EXCEPT ![d] = @ + 1]
    /\ remote' = [remote EXCEPT ![d] = [k \in Key |-> 0]]
    /\ LET c == coordinator[d]
           restored == [k \in Key |-> IF c.tombstones[k] > clock(d) THEN c.tombstones[k] ELSE 0]
       IN coordinator' = [coordinator EXCEPT ![d] =
              NewCoordinator(restored, savedSaturation(d))]
    /\ UNCHANGED <<published, fresh, time, offset, history, failures>>

Tick ==
    /\ time < MaxTime
    /\ time' = time + 1
    /\ UNCHANGED <<coordinator, boot, remote, published, fresh, offset, history, failures, reloads>>

Next ==
    \/ \E d \in Device, k \in Key :
          \/ Start(d, k[1], k[2])
          \/ Prepare(d, k)
          \/ Publish(d, k)
          \/ Fail(d, k)
          \/ ConnectivityTimeout(d, k)
          \/ ChannelOpen(d, k)
          \/ ExpiryTimer(d, k)
    \/ \E d \in Device : \E t \in published : Receive(d, t)
    \/ \E d \in Device : Reload(d)
    \/ Tick

Spec == Init /\ [][Next]_vars

\* The relay delivers what is in the slots and the devices do their work.
Hears(d, p, id, role) ==
    \E t \in published : t.from = p /\ t.id = id /\ t.role = role /\ Receive(d, t)

Fairness ==
    /\ WF_vars(\E d \in Device, k \in Key : Start(d, k[1], k[2]))
    /\ \A d \in Device, k \in Key :
          /\ WF_vars(Prepare(d, k))
          /\ WF_vars(Publish(d, k))
          /\ WF_vars(ChannelOpen(d, k))
          /\ \A role \in SlotRole : WF_vars(Hears(d, k[1], k[2], role))

FairSpec == Spec /\ Fairness

\* Time passes, every operation has a timeout, and timers fire.
GoesOn(d, k) == Prepare(d, k) \/ Publish(d, k) \/ Fail(d, k) \/ ExpiryTimer(d, k)

Timeouts ==
    /\ WF_vars(Tick)
    /\ \A d, p \in Device : WF_vars(\E id \in Id : GoesOn(d, <<p, id>>))

TimedSpec == Spec /\ Timeouts

-----------------------------------------------------------------------------
(* Properties.                                                             *)

\* Every attempt, guard and token holds what the code puts there.
TypeOK ==
    /\ coordinator \in [Device -> Coordinator]
    /\ boot \in [Device -> Nat]
    /\ remote \in [Device -> [Key -> Nat]]
    /\ published \subseteq Token
    /\ fresh \subseteq Id
    /\ time \in Nat /\ offset \in [Device -> 0 .. Skew]
    /\ finished \in [Device -> SUBSET Key]
    /\ refusals \subseteq Refusal /\ taken \subseteq Taken
    /\ failures \in Nat /\ reloads \in Nat

\* Two devices that call at once do not both hang up: if one refused an offer
\* for its own attempt, the other does not refuse that attempt for the first
\* (receiveVerified: "both peers see the same signed issue times and canonical
\* tuple and choose one winner").
NoMutualRefusal == \A r, s \in refusals : ~ (r.lost = s.won /\ s.lost = r.won)

\* An attempt that has ended or was refused is not taken up again, however
\* often its offer is replayed, whatever was pruned or did not fit, and across
\* reloads (replayTombstones, replaySaturatedUntil).
NeverTakenUpAgain == \A d \in Device : \A k \in finished[d] : ~ live(attempt(d, k))

\* There is room for the tombstone of every active attempt (rememberReplay:
\* "Every admitted active attempt reserves one tombstone").
ReserveKept ==
    \A d \in Device :
        Cardinality(guards(coordinator[d])) + Cardinality(activeKeys(coordinator[d]))
            <= MaxTombstones

\* Every attempt that has not ended is the active one with its peer, so that
\* expiry, polls and replacement find it (activeByPeer).
NoOrphan ==
    \A d \in Device : \A k \in activeKeys(coordinator[d]) :
        coordinator[d].activeByPeer[k[1]] = k[2]

\* While a responder may still publish, the offerer's clock has not passed the
\* end of its own listening (start: "the initiator must remain available over
\* that same local horizon").
OffererStillListens ==
    \A d \in Device : \A k \in Key :
        LET a == attempt(d, k)
            o == attempt(k[1], <<d, k[2]>>)
        IN live(a) /\ a.role = "answerer" /\ clock(d) < publishDeadline(a)
               /\ live(o) /\ o.role = "offerer"
           => clock(k[1]) < o.expiresAt

\* An offer is taken up in one life of the page only (docs/rendezvous-v2.md:
\* "Replay guards ... are persisted across reload").
TakenUpOnce == \A x, y \in taken : x.at = y.at /\ x.key = y.key => x = y

\* No attempt stays for ever, whatever the relay delivers and the peer does
\* (#syncTimers; "every attempt map, timer set and RTCPeerConnection count has a
\* hard bound and a terminal cleanup path").
AttemptsEnd ==
    \A d \in Device, k \in Key : live(attempt(d, k)) ~> ~ live(attempt(d, k))

\* Two devices that want to be connected are, also if both call.
EventuallyConnected ==
    <>(\E d \in Device, k \in Key :
          attempt(d, k).state = "open" /\ attempt(k[1], <<d, k[2]>>).state = "open")

=============================================================================
