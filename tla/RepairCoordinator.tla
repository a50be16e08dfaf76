------------------------- MODULE RepairCoordinator -------------------------
(***************************************************************************)
(* What a device keeps about its attempts with all peers, and how it takes *)
(* a verified token: realm/src/rendezvous-v2-coordinator.js.  A coordinator*)
(* is a value; an operation takes the coordinator c, and the time of the   *)
(* device, to the next one.  An attempt is found by its key, the peer and  *)
(* the attempt id.                                                         *)
(***************************************************************************)
EXTENDS RepairAttempt, FiniteSets

CONSTANTS
    Device,        \* numbers, in the order of the device ids
    Id,            \* attempt ids: numbers, in their order
    NoId,          \* no attempt
    Budget,        \* minimumInboundBudgetMs
    ReplaySkew,    \* replaySkewMs
    MaxActive,     \* maxActiveAttempts
    MaxTombstones  \* maxReplayTombstones

ASSUME DeviceAssumption == Device \subseteq Nat /\ IsFiniteSet(Device)
ASSUME IdAssumption == Id \subseteq Nat /\ IsFiniteSet(Id) /\ NoId \notin Id
ASSUME CoordinatorAssumption ==
    /\ Budget \in Nat /\ ReplaySkew \in Nat
    /\ MaxActive \in Nat \ {0} /\ MaxTombstones \in Nat \ {0}

Key == Device \X Id

\* tombstones[k] is the time until which k is refused, 0 if it has none.
Coordinator == [attempts : [Key -> Attempt], activeByPeer : [Device -> Id \cup {NoId}],
                tombstones : [Key -> Nat], saturatedUntil : Nat]

NewCoordinator(tombstones, saturatedUntil) ==
    [attempts |-> [k \in Key |-> NoAttempt], activeByPeer |-> [p \in Device |-> NoId],
     tombstones |-> tombstones, saturatedUntil |-> saturatedUntil]

\* Tokens have been verified: the sender is who it says and the token is not
\* older or newer than the clocks allow.  boot tells apart the lives of a
\* device, each with connections of its own.
Token == [role : SlotRole, from : Device, to : Device, id : Id, issuedAt : Nat, boot : Nat]

keyOf(t) == <<t.from, t.id>>

-----------------------------------------------------------------------------
(* Active attempts and replay guards.                                      *)

activeId(c, p) == IF c.activeByPeer[p] # NoId /\ live(c.attempts[<<p, c.activeByPeer[p]>>])
                  THEN c.activeByPeer[p] ELSE NoId

activeKeys(c) == {k \in Key : live(c.attempts[k])}

guards(c) == {k \in Key : c.tombstones[k] > 0}

\* Mutant of hasReplayCapacity: active attempts reserve no tombstone.
hasReplayCapacity_NoReserve(c) == Cardinality(guards(c)) < MaxTombstones

\* Every active attempt reserves a tombstone.
hasReplayCapacity(c) ==
    Cardinality(guards(c)) + Cardinality(activeKeys(c)) < MaxTombstones

\* No token issued then is accepted from this time on.
guardUntil(issuedAt) == issuedAt + Lifetime + Skew + ReplaySkew

\* Terminal attempts and tombstones go when their tokens are too old.
prune(c, now) ==
    LET stale(k) == c.tombstones[k] > 0 /\ now >= c.tombstones[k]
        ended(k) == c.attempts[k].state \in Terminal
        gone(k) == ended(k) /\ \/ stale(k)
                               \/ c.tombstones[k] = 0 /\ now >= guardUntil(c.attempts[k].issuedAt)
    IN [attempts |-> [k \in Key |-> IF gone(k) THEN NoAttempt ELSE c.attempts[k]],
        activeByPeer |-> [p \in Device |-> activeId(c, p)],
        tombstones |-> [k \in Key |-> IF stale(k) /\ (ended(k) \/ c.attempts[k].state = "none")
                                      THEN 0 ELSE c.tombstones[k]],
        saturatedUntil |-> IF now >= c.saturatedUntil THEN 0 ELSE c.saturatedUntil]

\* No room for a guard: everything unknown is refused until then.
saturate(c, until) ==
    IF until <= c.saturatedUntil THEN c ELSE [c EXCEPT !.saturatedUntil = until]

rememberReplay(c, k, until, now) ==
    LET q == prune(c, now)
    IN IF c.tombstones[k] > 0
       THEN IF until > c.tombstones[k] THEN [c EXCEPT !.tombstones[k] = until] ELSE c
       ELSE IF Cardinality(guards(q)) >= MaxTombstones THEN saturate(q, until)
       ELSE [q EXCEPT !.tombstones[k] = until]

rememberRejected(c, t, now) ==
    IF hasReplayCapacity(c) THEN rememberReplay(c, keyOf(t), guardUntil(t.issuedAt), now)
    ELSE saturate(c, guardUntil(t.issuedAt))

-----------------------------------------------------------------------------
(* Attempts.                                                               *)

\* Mutant of acceptOutcome: an attempt that ends takes the place of any other.
acceptOutcome_AnyActive(c, k, a, now) ==
    LET stored == [c EXCEPT !.attempts[k] = a,
                            !.activeByPeer[k[1]] = IF live(a) THEN k[2] ELSE NoId]
    IN IF live(a) THEN stored ELSE rememberReplay(stored, k, guardUntil(a.issuedAt), now)

\* The attempt is stored; one that has ended is not active, and guarded.
acceptOutcome(c, k, a, now) ==
    LET stored == [c EXCEPT !.attempts[k] = a,
                            !.activeByPeer[k[1]] = IF live(a) THEN k[2]
                                                   ELSE IF @ = k[2] THEN NoId ELSE @]
    IN IF live(a) THEN stored ELSE rememberReplay(stored, k, guardUntil(a.issuedAt), now)

dispatch(c, k, event, now) ==
    acceptOutcome(c, k, transitionAttempt(c.attempts[k], event, now), now)

\* The adapter does this before it starts or takes an attempt of the peer.
expirePeer(c, p, now) ==
    LET k == <<p, activeId(c, p)>>
    IN IF activeId(c, p) # NoId /\ now >= completionDeadline(c.attempts[k])
       THEN dispatch(c, k, "expire", now) ELSE c

hasRoom(c, now) ==
    /\ now >= c.saturatedUntil
    /\ hasReplayCapacity(c)
    /\ Cardinality(activeKeys(c)) < MaxActive

canStart(c, p, now) == activeId(c, p) = NoId /\ hasRoom(prune(c, now), now)

\* A new attempt, whose token is not yet issued.
start(c, k, now) ==
    LET a == createAttempt("offerer", now, receiveDeadline(now))
    IN acceptOutcome(prune(c, now), k, transitionAttempt(a, "start", now), now)

-----------------------------------------------------------------------------
(* receiveVerified                                                         *)

\* The device that made the offer of d's active attempt k.
offererOf(d, c, k) == IF c.attempts[k].role = "offerer" THEN d ELSE k[1]

precedes(x, y) == x[1] < y[1] \/ (x[1] = y[1] /\ x[2] < y[2])

\* Mutant of incomingOfferWins: of two offers of one second, each side keeps
\* its own.
incomingOfferWins_KeepOwn(d, c, k, t) == t.issuedAt > c.attempts[k].issuedAt

\* The later offer wins, of two of one second the one of the smaller device and
\* attempt id.
incomingOfferWins(d, c, k, t) ==
    IF t.issuedAt # c.attempts[k].issuedAt THEN t.issuedAt > c.attempts[k].issuedAt
    ELSE precedes(keyOf(t), <<offererOf(d, c, k), k[2]>>)

inboundDeadline(t, now) == IF t.issuedAt < now THEN t.issuedAt + Lifetime ELSE now + Lifetime

hasBudget(t, now) == inboundDeadline(t, now) - now >= Budget

inboundAttempt(t, now) ==
    transitionAttempt(createAttempt("answerer", t.issuedAt, inboundDeadline(t, now)), "offer", now)

unknown(c, k) == c.attempts[k].state = "none" /\ c.tombstones[k] = 0

\* The offer of an unknown attempt, when such are not refused altogether.
newOffer(c, t, now) ==
    t.role = "offer" /\ unknown(c, keyOf(t)) /\ now >= c.saturatedUntil

\* It loses against the active attempt with its sender.
losesGlare(d, c, t, now) ==
    /\ newOffer(c, t, now) /\ activeId(c, t.from) # NoId
    /\ ~ incomingOfferWins(d, c, <<t.from, activeId(c, t.from)>>, t)

replaces(d, c, t, now) ==
    /\ newOffer(c, t, now) /\ activeId(c, t.from) # NoId
    /\ ~ losesGlare(d, c, t, now)
    /\ hasReplayCapacity(c) /\ hasBudget(t, now)

joins(c, t, now) ==
    /\ newOffer(c, t, now) /\ activeId(c, t.from) = NoId
    /\ hasBudget(t, now) /\ hasRoom(prune(c, now), now)

accepts(d, c, t, now) == replaces(d, c, t, now) \/ joins(c, t, now)

\* A room that was made is made although the offer is then refused.
afterMakeRoom(c, t, now) ==
    IF newOffer(c, t, now) /\ activeId(c, t.from) = NoId /\ hasBudget(t, now)
    THEN prune(c, now) ELSE c

receiveVerified(d, c, t, now) ==
    LET k == keyOf(t)
        old == <<t.from, activeId(c, t.from)>>
    IN CASE c.attempts[k].state # "none" ->
                IF t.issuedAt = c.attempts[k].issuedAt /\ now < c.attempts[k].expiresAt
                THEN dispatch(c, k, t.role, now) ELSE c
         [] c.attempts[k].state = "none" /\ ~ unknown(c, k) -> c
         [] unknown(c, k) /\ now < c.saturatedUntil -> saturate(c, guardUntil(t.issuedAt))
         [] replaces(d, c, t, now) ->
                acceptOutcome(dispatch(c, old, "abort", now), k, inboundAttempt(t, now), now)
         [] joins(c, t, now) -> acceptOutcome(prune(c, now), k, inboundAttempt(t, now), now)
         [] unknown(c, k) /\ now >= c.saturatedUntil /\ ~ accepts(d, c, t, now) ->
                rememberRejected(afterMakeRoom(c, t, now), t, now)

=============================================================================
