---------------------------- MODULE RepairProofs ----------------------------
(***************************************************************************)
(* Proofs about Repair, for every number of devices and attempts, every    *)
(* capacity and every skew: type correctness, that each active attempt has *)
(* a tombstone kept and is the one its peer is looked up by, that what     *)
(* ended or was refused is not taken up again, that two devices which call *)
(* each other do not both refuse, and that an offerer listens long enough. *)
(*                                                                         *)
(* A step of a coordinator is of one of three kinds.  Quiet: attempts stay,*)
(* are forgotten or end with a guard.  Continues: one goes on.  Begins: one*)
(* is new.  Each operation of the coordinator is shown to be of a kind, or *)
(* a quiet one and then another, and each kind to keep what the devices    *)
(* know of each other by way of the tokens (Fine).                         *)
(***************************************************************************)
EXTENDS Repair, FiniteSetTheorems, TLAPS

\* The states of an offerer whose offer may be known.
Sent == AttemptState \ ({"none", "idle", "creating-offer", "publishing-offer"} \cup Terminal)

\* Which states go with a role, and with a token that was not issued yet.
Allowed(a) ==
    /\ a.role = "offerer" /\ ~ a.tokenEpochStarted => a.state \in {"none", "creating-offer"} \cup Terminal
    /\ a.role = "answerer" => a.tokenEpochStarted /\ a.state # "publishing-offer"
    /\ a.state # "idle"

\* The replay guard of c for k is in force until then, or the time is over.
Guarded(c, k, until, now) ==
    c.tombstones[k] >= until \/ c.saturatedUntil >= until \/ now >= until

\* An attempt that has not ended is the active one with its peer.
Shape(c) ==
    \A k \in Key :
        /\ Allowed(c.attempts[k])
        /\ live(c.attempts[k]) => c.activeByPeer[k[1]] = k[2]

\* There is room for a guard of every active attempt, and every attempt that
\* ended has one.
Sound(c) ==
    /\ Shape(c)
    /\ Cardinality(guards(c)) + Cardinality(activeKeys(c)) <= MaxTombstones
    /\ \A k \in Key : c.attempts[k].state \in Terminal => c.tombstones[k] > 0

\* The tokens of an attempt have one issue time, and it was started.
OneIssue(P, F) ==
    /\ \A x \in P : x.id \notin F /\ x.from # x.to
    /\ \A x, y \in P : x.id = y.id => x.issuedAt = y.issuedAt

\* What the attempt k of d says of the tokens.
Known(C, P, F, d, k) ==
    LET a == C[d].attempts[k]
    IN a.state # "none" =>
           /\ k[1] # d /\ k[2] \notin F
           /\ a.role = "offerer" =>
                  /\ \A t \in P : t.id = k[2] =>
                         /\ a.tokenEpochStarted /\ t.issuedAt = a.issuedAt
                         /\ t.role = "offer" => t.from = d
                  /\ a.tokenEpochStarted => a.expiresAt = receiveDeadline(a.issuedAt)
                  /\ a.state \in Sent => \E t \in P : t.id = k[2]
           /\ a.role = "answerer" =>
                  /\ \E t \in P : t.role = "offer" /\ t.from = k[1] /\ t.id = k[2]
                                  /\ t.issuedAt = a.issuedAt
                  /\ a.expiresAt <= a.issuedAt + Lifetime

\* An id is of one offerer's attempt.
OneOfferer(C) ==
    \A d, e \in Device, k, l \in Key :
        LET a == C[d].attempts[k]
            b == C[e].attempts[l]
        IN a.state # "none" /\ a.role = "offerer" /\ b.state # "none" /\ b.role = "offerer"
           /\ k[2] = l[2] => d = e /\ k = l

\* Tokens and attempts agree; F are the ids not used yet.
Issued(C, P, F) ==
    /\ OneIssue(P, F) /\ OneOfferer(C)
    /\ \A d \in Device, k \in Key : Known(C, P, F, d, k)

\* Nobody has offered or will offer k to d.
NeverOffered(C, P, d, k) ==
    /\ \A t \in P : t.id = k[2] /\ t.from = k[1] => t.role # "offer"
    /\ \A l \in Key : l[2] = k[2] /\ C[k[1]].attempts[l].state # "none" =>
           C[k[1]].attempts[l].role # "offerer"

\* k has ended at d, and will not be taken up again.
Ended(C, P, F, now, d, k) ==
    /\ ~ live(C[d].attempts[k]) /\ k[2] \notin F
    /\ \/ NeverOffered(C, P, d, k)
       \/ \E t \in P : t.id = k[2] /\ Guarded(C[d], k, guardUntil(t.issuedAt), now)

\* The offer that lost is the older one, of two of one time the one of the
\* greater device or id.
Lost(P, r) ==
    \E x, y \in P :
        /\ x.id = r.lost[2] /\ y.id = r.won[2] /\ r.lost[2] # r.won[2]
        /\ \/ x.issuedAt < y.issuedAt
           \/ x.issuedAt = y.issuedAt /\ ~ precedes(r.lost, r.won)

\* All this, of coordinators C, tokens P, fresh ids F, what has ended W, and
\* clocks T.
Fine(C, P, F, W, T) ==
    /\ C \in [Device -> Coordinator] /\ P \in SUBSET Token /\ T \in [Device -> Nat]
    /\ \A d \in Device : Sound(C[d])
    /\ Issued(C, P, F)
    /\ \A d \in Device : W[d] \subseteq Key /\ \A k \in W[d] : Ended(C, P, F, T[d], d, k)

\* What every device takes for the time.
clocks == [d \in Device |-> clock(d)]

\* The inductive invariant.
RepairInv ==
    /\ TypeOK
    /\ Fine(coordinator, published, fresh, finished, clocks)
    /\ \A r \in refusals : Lost(published, r)
-----------------------------------------------------------------------------
(* Attempts and guards.                                                    *)

LEMMA Times ==
    /\ Lifetime \in Nat /\ Lifetime > 0 /\ Skew \in Nat /\ Grace \in Nat
    /\ Budget \in Nat /\ ReplaySkew \in Nat /\ MaxTombstones \in Nat
    /\ \A n \in Nat : guardUntil(n) \in Nat /\ guardUntil(n) > 0
    /\ \A n \in Nat : receiveDeadline(n) \in Nat /\ receiveDeadline(n) > n
BY TimeAssumption, CoordinatorAssumption DEF guardUntil, receiveDeadline

LEMMA KeyFacts ==
    /\ \A k \in Key : k[1] \in Device /\ k[2] \in Id /\ k = <<k[1], k[2]>>
    /\ \A k, l \in Key : k[1] = l[1] /\ k[2] = l[2] => k = l
    /\ \A p \in Device, i \in Id :
           <<p, i>> \in Key /\ <<p, i>>[1] = p /\ <<p, i>>[2] = i
    /\ NoId \notin Id
BY IdAssumption DEF Key

LEMMA KeysAreFinite ==
    ASSUME NEW S \in SUBSET Key
    PROVE  IsFiniteSet(S) /\ Cardinality(S) \in Nat
<1>1. IsFiniteSet(Key)
  BY FS_Product, DeviceAssumption, IdAssumption DEF Key
<1> QED
  BY <1>1, FS_Subset, FS_CardinalityType

LEMMA NoAttemptFacts ==
    NoAttempt \in Attempt /\ NoAttempt.state = "none" /\ ~ live(NoAttempt) /\ Allowed(NoAttempt)
BY DEF NoAttempt, Attempt, AttemptState, live, Allowed

\* b is the description of a.
Same(a, b) ==
    /\ b.role = a.role /\ b.issuedAt = a.issuedAt /\ b.expiresAt = a.expiresAt
    /\ b.tokenEpochStarted = a.tokenEpochStarted

\* What a transition of a live attempt does.
Follows(a, b, event, now) ==
    /\ b \in Attempt /\ Allowed(b) /\ b.state # "none" /\ b.role = a.role
    /\ ~ live(b) => Same(a, b) /\ b.state \in Terminal
    /\ \/ Same(a, b)
       \/ /\ b.role = "offerer" /\ ~ a.tokenEpochStarted /\ b.tokenEpochStarted
          /\ b.issuedAt = now /\ b.expiresAt = receiveDeadline(now) /\ b.state \notin Sent
    /\ b.role = "offerer" /\ b.state \in Sent =>
           a.state \in Sent \/ event \in {"slot-stored", "answer"}

LEMMA StateFacts ==
    ASSUME NEW a \in Attempt, NEW s \in AttemptState
    PROVE  LET b == [a EXCEPT !.state = s]
           IN b \in Attempt /\ b.state = s /\ Same(a, b)
BY DEF Attempt, Same

LEMMA EndsFollows ==
    ASSUME NEW a \in Attempt, Allowed(a), NEW s \in Terminal, NEW event, NEW now
    PROVE  Follows(a, [a EXCEPT !.state = s], event, now)
<1> DEFINE b == [a EXCEPT !.state = s]
<1>1. s \in AttemptState /\ s # "none" /\ s # "idle" /\ s # "publishing-offer" /\ s \notin Sent
  BY DEF Terminal, AttemptState, Sent
<1>2. b \in Attempt /\ b.state = s /\ Same(a, b)
  BY <1>1, StateFacts
<1> HIDE DEF b
<1>3. Allowed(b)
  BY <1>1, <1>2 DEF Allowed, Same
<1>4. Follows(a, b, event, now)
  BY <1>1, <1>2, <1>3 DEF Follows, Same
<1> QED
  BY <1>4 DEF b

\* The description stays.
Keeps(a, b) == b \in Attempt /\ Same(a, b)

LEMMA OffererFollows ==
    ASSUME NEW a \in Attempt, Allowed(a), live(a), a.role = "offerer", NEW event, NEW now \in Nat
    PROVE  Follows(a, transitionOfferer(a, event, now), event, now)
<1> DEFINE b == transitionOfferer(a, event, now)
<1>0. a.state \in AttemptState \ ({"none", "idle"} \cup Terminal)
  BY DEF live, Allowed, Attempt
<1>1. CASE a.state = "creating-offer" /\ event = "outbound-token-started" /\ ~ a.tokenEpochStarted
  <2>1. b = [a EXCEPT !.issuedAt = now, !.expiresAt = receiveDeadline(now),
                      !.tokenEpochStarted = TRUE]
    BY <1>1 DEF transitionOfferer
  <2>2. b \in Attempt /\ b.state = "creating-offer" /\ b.role = "offerer" /\ b.tokenEpochStarted
        /\ b.issuedAt = now /\ b.expiresAt = receiveDeadline(now)
    BY <1>1, <2>1, Times DEF Attempt
  <2> QED
    BY <1>1, <2>2 DEF Follows, Allowed, live, Terminal, Sent
<1>2. CASE ~ (a.state = "creating-offer" /\ event = "outbound-token-started" /\ ~ a.tokenEpochStarted)
  <2>1. /\ Keeps(a, b)
        /\ \/ b = a \/ b.state = a.state
           \/ a.tokenEpochStarted /\ b.state \in {"publishing-offer", "waiting-answer",
                  "applying-answer", "creating-fallback", "connecting", "publishing-fallback"}
        /\ b.state \in Sent => a.state \in Sent \/ event \in {"slot-stored", "answer"}
    <3>1. CASE b = a
      BY <3>1 DEF Keeps, Same
    <3>2. CASE a.state = "creating-offer" /\ event = "local-offer-ready" /\ a.tokenEpochStarted
      <4>1. b = [a EXCEPT !.state = "publishing-offer"]
        BY <3>2 DEF transitionOfferer
      <4> QED
        BY <3>2, <4>1 DEF Keeps, Same, Attempt, AttemptState, Working, Publishing, Sent
    <3>3. CASE a.state = "publishing-offer" /\ event = "slot-stored"
      <4>1. b = [a EXCEPT !.state = "waiting-answer"]
        BY <3>3 DEF transitionOfferer
      <4> QED
        BY <3>3, <4>1 DEF Keeps, Same, Attempt, AttemptState, Working, Publishing, Sent, Allowed, Terminal
    <3>4. CASE a.state \in {"publishing-offer", "waiting-answer"} /\ event = "answer"
      <4>1. b = [a EXCEPT !.state = "applying-answer"]
        BY <3>4 DEF transitionOfferer
      <4> QED
        BY <3>4, <4>1 DEF Keeps, Same, Attempt, AttemptState, Working, Publishing, Sent, Allowed, Terminal
    <3>5. CASE a.state = "applying-answer" /\ event = "remote-description-applied"
      <4>1. \/ b = [a EXCEPT !.state = "creating-fallback", !.fallbackPending = FALSE,
                            !.fallbackRequested = TRUE]
            \/ b = [a EXCEPT !.state = "connecting"]
        BY <3>5 DEF transitionOfferer
      <4> QED
        BY <3>5, <4>1 DEF Keeps, Same, Attempt, AttemptState, Working, Publishing, Sent, Allowed, Terminal
    <3>6. CASE a.state \in {"publishing-offer", "waiting-answer", "applying-answer"}
               /\ event = "needCandidate" /\ ~ a.fallbackRequested
      <4>1. b = [a EXCEPT !.fallbackPending = TRUE]
        BY <3>6 DEF transitionOfferer
      <4> QED
        BY <3>6, <4>1 DEF Keeps, Same, Attempt
    <3>7. CASE a.state = "connecting" /\ event = "needCandidate" /\ ~ a.fallbackRequested
      <4>1. b = [a EXCEPT !.state = "creating-fallback", !.fallbackRequested = TRUE]
        BY <3>7 DEF transitionOfferer
      <4> QED
        BY <3>7, <4>1 DEF Keeps, Same, Attempt, AttemptState, Working, Publishing, Sent, Allowed, Terminal
    <3>8. CASE a.state = "creating-fallback" /\ event = "local-fallback-ready"
      <4>1. b = [a EXCEPT !.state = "publishing-fallback"]
        BY <3>8 DEF transitionOfferer
      <4> QED
        BY <3>8, <4>1 DEF Keeps, Same, Attempt, AttemptState, Working, Publishing, Sent, Allowed, Terminal
    <3>9. CASE a.state = "publishing-fallback" /\ event = "slot-stored"
      <4>1. b = [a EXCEPT !.state = "connecting"]
        BY <3>9 DEF transitionOfferer
      <4> QED
        BY <3>9, <4>1 DEF Keeps, Same, Attempt, AttemptState, Working, Publishing, Sent, Allowed, Terminal
    <3>10. CASE /\ ~ (a.state = "creating-offer" /\ event = "local-offer-ready" /\ a.tokenEpochStarted)
                /\ ~ (a.state = "publishing-offer" /\ event = "slot-stored")
                /\ ~ (a.state \in {"publishing-offer", "waiting-answer"} /\ event = "answer")
                /\ ~ (a.state = "applying-answer" /\ event = "remote-description-applied")
                /\ ~ (a.state \in {"publishing-offer", "waiting-answer", "applying-answer"}
                      /\ event = "needCandidate" /\ ~ a.fallbackRequested)
                /\ ~ (a.state = "connecting" /\ event = "needCandidate" /\ ~ a.fallbackRequested)
                /\ ~ (a.state = "creating-fallback" /\ event = "local-fallback-ready")
                /\ ~ (a.state = "publishing-fallback" /\ event = "slot-stored")
      <4>1. b = a
        BY <1>0, <1>2, <3>10 DEF transitionOfferer
      <4> QED
        BY <3>1, <4>1
    <3> HIDE DEF b
    <3> QED
      BY <3>1, <3>2, <3>3, <3>4, <3>5, <3>6, <3>7, <3>8, <3>9, <3>10
  <2> HIDE DEF b
  <2>2. live(b) /\ b.state # "none" /\ b.state # "idle" /\ b.role = "offerer"
    BY <1>0, <2>1 DEF live, Terminal, Keeps, Same
  <2>3. Allowed(b)
    BY <2>1, <2>2 DEF Allowed, Keeps, Same
  <2>4. Follows(a, b, event, now)
    BY <2>1, <2>2, <2>3 DEF Follows, Keeps
  <2> QED
    BY <2>4 DEF b
<1> QED
  BY <1>1, <1>2

LEMMA AnswererFollows ==
    ASSUME NEW a \in Attempt, a.role = "answerer", a.tokenEpochStarted,
           a.state \notin {"none", "publishing-offer"}, live(a), NEW event, NEW now
    PROVE  LET b == transitionAnswerer(a, event)
           IN /\ b \in Attempt /\ Same(a, b) /\ live(b)
              /\ b.state # "idle" => Follows(a, b, event, now)
              /\ a.state # "idle" => b.state # "idle"
<1> DEFINE b == transitionAnswerer(a, event)
           New == {"applying-offer", "creating-answer", "publishing-answer", "connecting",
                   "publishing-need-candidate", "applying-fallback"}
<1>1. Keeps(a, b) /\ (b.state = a.state \/ b.state \in New)
  <2>1. CASE a.state = "idle" /\ event = "offer"
    <3>1. b = [a EXCEPT !.state = "applying-offer"]
      BY <2>1 DEF transitionAnswerer
    <3> QED
      BY <3>1 DEF Keeps, Same, Attempt, AttemptState, Working, Publishing
  <2>2. CASE a.state = "applying-offer" /\ event = "remote-description-applied"
    <3>1. b = [a EXCEPT !.state = "creating-answer"]
      BY <2>2 DEF transitionAnswerer
    <3> QED
      BY <3>1 DEF Keeps, Same, Attempt, AttemptState, Working, Publishing
  <2>3. CASE a.state = "creating-answer" /\ event = "local-answer-ready"
    <3>1. b = [a EXCEPT !.state = "publishing-answer"]
      BY <2>3 DEF transitionAnswerer
    <3> QED
      BY <3>1 DEF Keeps, Same, Attempt, AttemptState, Working, Publishing
  <2>4. CASE a.state \in {"publishing-answer", "publishing-need-candidate"} /\ event = "slot-stored"
    <3>1. b = [a EXCEPT !.state = "connecting"]
      BY <2>4 DEF transitionAnswerer
    <3> QED
      BY <3>1 DEF Keeps, Same, Attempt, AttemptState, Working, Publishing
  <2>5. CASE a.state = "connecting" /\ event = "connectivity-timeout" /\ ~ a.fallbackRequested
    <3>1. b = [a EXCEPT !.state = "publishing-need-candidate", !.fallbackRequested = TRUE]
      BY <2>5 DEF transitionAnswerer
    <3> QED
      BY <3>1 DEF Keeps, Same, Attempt, AttemptState, Working, Publishing
  <2>6. CASE a.state \in {"connecting", "publishing-need-candidate"} /\ event = "candidate"
             /\ a.fallbackRequested /\ ~ a.fallbackApplied
    <3>1. b = [a EXCEPT !.state = "applying-fallback"]
      BY <2>6 DEF transitionAnswerer
    <3> QED
      BY <3>1 DEF Keeps, Same, Attempt, AttemptState, Working, Publishing
  <2>7. CASE a.state = "applying-fallback" /\ event = "remote-fallback-applied"
    <3>1. b = [a EXCEPT !.state = "connecting", !.fallbackApplied = TRUE]
      BY <2>7 DEF transitionAnswerer
    <3> QED
      BY <3>1 DEF Keeps, Same, Attempt, AttemptState, Working, Publishing
  <2>8. CASE /\ ~ (a.state = "idle" /\ event = "offer")
             /\ ~ (a.state = "applying-offer" /\ event = "remote-description-applied")
             /\ ~ (a.state = "creating-answer" /\ event = "local-answer-ready")
             /\ ~ (a.state \in {"publishing-answer", "publishing-need-candidate"}
                   /\ event = "slot-stored")
             /\ ~ (a.state = "connecting" /\ event = "connectivity-timeout" /\ ~ a.fallbackRequested)
             /\ ~ (a.state \in {"connecting", "publishing-need-candidate"} /\ event = "candidate"
                   /\ a.fallbackRequested /\ ~ a.fallbackApplied)
             /\ ~ (a.state = "applying-fallback" /\ event = "remote-fallback-applied")
    <3>1. b = a
      BY <2>8 DEF transitionAnswerer
    <3> QED
      BY <3>1 DEF Keeps, Same
  <2> HIDE DEF b
  <2> QED
    BY <2>1, <2>2, <2>3, <2>4, <2>5, <2>6, <2>7, <2>8
<1> HIDE DEF b
<1>2. live(b) /\ b.role = "answerer" /\ b.tokenEpochStarted
      /\ b.state \notin {"none", "publishing-offer"} /\ (a.state # "idle" => b.state # "idle")
  BY <1>1 DEF live, Terminal, Keeps, Same
<1>3. b.state # "idle" => Follows(a, b, event, now)
  BY <1>1, <1>2 DEF Follows, Allowed, Keeps, Same
<1>4. b \in Attempt /\ Same(a, b) /\ live(b)
      /\ (b.state # "idle" => Follows(a, b, event, now)) /\ (a.state # "idle" => b.state # "idle")
  BY <1>1, <1>2, <1>3 DEF Keeps
<1> QED
  BY <1>4 DEF b

LEMMA TransitionFollows ==
    ASSUME NEW a \in Attempt, Allowed(a), live(a), NEW event, NEW now \in Nat
    PROVE  Follows(a, transitionAttempt(a, event, now), event, now)
<1> DEFINE b == transitionAttempt(a, event, now)
<1>1. \/ b \in {[a EXCEPT !.state = s] : s \in Terminal}
      \/ b = a
      \/ a.role = "offerer" /\ b = transitionOfferer(a, event, now)
      \/ a.role # "offerer" /\ b = transitionAnswerer(a, event)
  BY DEF transitionAttempt, Terminal
<1> HIDE DEF b
<1>2. a.role \in {"offerer", "answerer"} /\ a.state # "none"
  BY DEF Attempt, live
<1>3. ASSUME b \in {[a EXCEPT !.state = s] : s \in Terminal} PROVE Follows(a, b, event, now)
  BY <1>3, EndsFollows
<1>4. ASSUME b = a PROVE Follows(a, b, event, now)
  BY <1>2, <1>4 DEF Follows, Same
<1>5. ASSUME a.role = "offerer", b = transitionOfferer(a, event, now)
      PROVE  Follows(a, b, event, now)
  BY <1>5, OffererFollows
<1>6. ASSUME a.role # "offerer", b = transitionAnswerer(a, event)
      PROVE  Follows(a, b, event, now)
  <2>1. a.role = "answerer" /\ a.tokenEpochStarted /\ a.state \notin {"none", "publishing-offer", "idle"}
    BY <1>2, <1>6 DEF Allowed
  <2> QED
    BY <1>6, <2>1, AnswererFollows
<1>7. Follows(a, b, event, now)
  BY <1>1, <1>3, <1>4, <1>5, <1>6
<1> QED
  BY <1>7 DEF b

-----------------------------------------------------------------------------
(* What is done to a coordinator.                                          *)

\* A guard stays until its time is over.
GuardsStay(c, r, now) ==
    /\ \A k \in Key : r.tombstones[k] >= c.tombstones[k] \/ now >= c.tombstones[k]
    /\ r.saturatedUntil >= c.saturatedUntil \/ now >= c.saturatedUntil

\* The attempt k does not go on: it stays, is forgotten, or ends and is guarded.
Rests(c, r, k, now) ==
    LET a == c.attempts[k]
        b == r.attempts[k]
    IN \/ b = a
       \/ /\ ~ live(b)
          /\ b.state # "none" => a.state # "none" /\ Same(a, b)
          /\ live(a) => Guarded(r, k, guardUntil(a.issuedAt), now)

\* No attempt of c begins or goes on.
Quiet(c, r, now) ==
    /\ r \in Coordinator /\ Sound(r) /\ GuardsStay(c, r, now)
    /\ \A k \in Key : Rests(c, r, k, now)

LEMMA Fields ==
    ASSUME NEW c \in Coordinator
    PROVE  /\ \A k \in Key : c.attempts[k] \in Attempt /\ c.tombstones[k] \in Nat
           /\ \A p \in Device : c.activeByPeer[p] \in Id \cup {NoId}
           /\ c.saturatedUntil \in Nat
BY DEF Coordinator

LEMMA StaysGuarded ==
    ASSUME NEW c \in Coordinator, NEW r \in Coordinator, NEW now \in Nat, GuardsStay(c, r, now),
           NEW k \in Key, NEW until \in Nat, Guarded(c, k, until, now)
    PROVE  Guarded(r, k, until, now)
BY Fields DEF GuardsStay, Guarded

LEMMA QuietSelf ==
    ASSUME NEW c \in Coordinator, Sound(c), NEW now
    PROVE  Quiet(c, c, now)
BY Fields DEF Quiet, GuardsStay, Rests

LEMMA RestsAgain ==
    ASSUME NEW c \in Coordinator, NEW m \in Coordinator, NEW r \in Coordinator, NEW now \in Nat,
           NEW k \in Key, Rests(c, m, k, now), Rests(m, r, k, now), GuardsStay(m, r, now)
    PROVE  Rests(c, r, k, now)
<1> DEFINE a == c.attempts[k]
           b == m.attempts[k]
           e == r.attempts[k]
<1>1. a \in Attempt /\ guardUntil(a.issuedAt) \in Nat
  BY Fields, Times DEF Attempt
<1>2. CASE e = b
  <2>1. live(a) /\ ~ live(b) => Guarded(r, k, guardUntil(a.issuedAt), now)
    BY <1>1, StaysGuarded DEF Rests
  <2> QED
    BY <1>2, <2>1 DEF Rests
<1>3. CASE b = a
  BY <1>3 DEF Rests
<1>4. CASE e # b /\ b # a
  <2>1. ~ live(b) /\ ~ live(e)
    BY <1>4 DEF Rests
  <2>2. live(a) => Guarded(r, k, guardUntil(a.issuedAt), now)
    BY <1>1, <1>4, StaysGuarded DEF Rests
  <2>3. e.state # "none" => a.state # "none" /\ Same(a, e)
    BY <1>4 DEF Rests, Same
  <2> QED
    BY <2>1, <2>2, <2>3 DEF Rests
<1> QED
  BY <1>2, <1>3, <1>4

LEMMA GuardsStayAgain ==
    ASSUME NEW c \in Coordinator, NEW m \in Coordinator, NEW r \in Coordinator, NEW now \in Nat,
           GuardsStay(c, m, now), GuardsStay(m, r, now)
    PROVE  GuardsStay(c, r, now)
BY Fields DEF GuardsStay

LEMMA QuietAgain ==
    ASSUME NEW c \in Coordinator, NEW m, NEW r, NEW now \in Nat, Quiet(c, m, now), Quiet(m, r, now)
    PROVE  Quiet(c, r, now)
BY RestsAgain, GuardsStayAgain DEF Quiet

LEMMA ActiveIdFacts ==
    ASSUME NEW c \in Coordinator, NEW p \in Device
    PROVE  /\ activeId(c, p) \in Id \cup {NoId}
           /\ activeId(c, p) # NoId => /\ <<p, activeId(c, p)>> \in Key
                                       /\ live(c.attempts[<<p, activeId(c, p)>>])
BY Fields, KeyFacts DEF activeId

LEMMA LiveIsActive ==
    ASSUME NEW c \in Coordinator, Shape(c), NEW k \in Key, live(c.attempts[k])
    PROVE  activeId(c, k[1]) = k[2]
<1>1. c.activeByPeer[k[1]] = k[2] /\ k = <<k[1], k[2]>> /\ k[2] # NoId
  BY KeyFacts DEF Shape
<1> QED
  BY <1>1 DEF activeId

\* What is pruned.
LEMMA PruneFields ==
    ASSUME NEW c \in Coordinator, NEW now \in Nat
    PROVE  LET q == prune(c, now)
           IN /\ q \in Coordinator
              /\ \A k \in Key :
                    /\ \/ q.attempts[k] = c.attempts[k]
                       \/ c.attempts[k].state \in Terminal /\ q.attempts[k] = NoAttempt
                    /\ \/ q.tombstones[k] = c.tombstones[k]
                       \/ /\ q.tombstones[k] = 0 /\ c.tombstones[k] > 0 /\ now >= c.tombstones[k]
                          /\ q.attempts[k].state = "none"
              /\ \/ q.saturatedUntil = c.saturatedUntil
                 \/ q.saturatedUntil = 0 /\ now >= c.saturatedUntil
              /\ \A p \in Device : q.activeByPeer[p] = activeId(c, p)
<1> DEFINE q == prune(c, now)
           stale(k) == c.tombstones[k] > 0 /\ now >= c.tombstones[k]
           ended(k) == c.attempts[k].state \in Terminal
           gone(k) == ended(k) /\ \/ stale(k)
                                  \/ c.tombstones[k] = 0 /\ now >= guardUntil(c.attempts[k].issuedAt)
<1>1. q = [attempts |-> [k \in Key |-> IF gone(k) THEN NoAttempt ELSE c.attempts[k]],
           activeByPeer |-> [p \in Device |-> activeId(c, p)],
           tombstones |-> [k \in Key |-> IF stale(k) /\ (ended(k) \/ c.attempts[k].state = "none")
                                         THEN 0 ELSE c.tombstones[k]],
           saturatedUntil |-> IF now >= c.saturatedUntil THEN 0 ELSE c.saturatedUntil]
  BY DEF prune
<1>2. q \in Coordinator
  <2>1. [k \in Key |-> IF gone(k) THEN NoAttempt ELSE c.attempts[k]] \in [Key -> Attempt]
    BY Fields, NoAttemptFacts
  <2>2. [p \in Device |-> activeId(c, p)] \in [Device -> Id \cup {NoId}]
    <3>1. \A p \in Device : activeId(c, p) \in Id \cup {NoId}
      BY ActiveIdFacts
    <3> QED
      BY <3>1
  <2>3. /\ [k \in Key |-> IF stale(k) /\ (ended(k) \/ c.attempts[k].state = "none")
                          THEN 0 ELSE c.tombstones[k]] \in [Key -> Nat]
        /\ (IF now >= c.saturatedUntil THEN 0 ELSE c.saturatedUntil) \in Nat
    BY Fields
  <2> HIDE DEF stale, ended, gone
  <2> QED
    BY <1>1, <2>1, <2>2, <2>3 DEF Coordinator
<1>3. ASSUME NEW k \in Key
      PROVE  /\ \/ q.attempts[k] = c.attempts[k]
                \/ c.attempts[k].state \in Terminal /\ q.attempts[k] = NoAttempt
             /\ \/ q.tombstones[k] = c.tombstones[k]
                \/ /\ q.tombstones[k] = 0 /\ c.tombstones[k] > 0 /\ now >= c.tombstones[k]
                   /\ q.attempts[k].state = "none"
  <2>1. /\ q.attempts[k] = IF gone(k) THEN NoAttempt ELSE c.attempts[k]
        /\ q.tombstones[k] = IF stale(k) /\ (ended(k) \/ c.attempts[k].state = "none")
                             THEN 0 ELSE c.tombstones[k]
    BY <1>1
  <2> HIDE DEF q
  <2> QED
    BY <2>1, NoAttemptFacts
<1>4. /\ q.saturatedUntil = c.saturatedUntil \/ (q.saturatedUntil = 0 /\ now >= c.saturatedUntil)
      /\ \A p \in Device : q.activeByPeer[p] = activeId(c, p)
  <2>1. /\ q.saturatedUntil = IF now >= c.saturatedUntil THEN 0 ELSE c.saturatedUntil
        /\ q.activeByPeer = [p \in Device |-> activeId(c, p)]
    BY <1>1
  <2> HIDE DEF q
  <2> QED
    BY <2>1
<1> HIDE DEF q
<1>5. /\ q \in Coordinator
      /\ \A k \in Key :
            /\ \/ q.attempts[k] = c.attempts[k]
               \/ c.attempts[k].state \in Terminal /\ q.attempts[k] = NoAttempt
            /\ \/ q.tombstones[k] = c.tombstones[k]
               \/ /\ q.tombstones[k] = 0 /\ c.tombstones[k] > 0 /\ now >= c.tombstones[k]
                  /\ q.attempts[k].state = "none"
      /\ \/ q.saturatedUntil = c.saturatedUntil
         \/ q.saturatedUntil = 0 /\ now >= c.saturatedUntil
      /\ \A p \in Device : q.activeByPeer[p] = activeId(c, p)
  BY <1>2, <1>3, <1>4
<1> QED
  BY <1>5 DEF q

\* Pruning forgets what is over, and nothing else.
LEMMA Pruned ==
    ASSUME NEW c \in Coordinator, Shape(c), NEW now \in Nat
    PROVE  LET q == prune(c, now)
           IN /\ q \in Coordinator /\ Shape(q) /\ GuardsStay(c, q, now)
              /\ \A k \in Key :
                    /\ Rests(c, q, k, now)
                    /\ c.attempts[k].state = "none" => q.attempts[k] = c.attempts[k]
                    /\ c.tombstones[k] = 0 => q.tombstones[k] = 0
                    /\ (c.attempts[k].state \in Terminal => c.tombstones[k] > 0) =>
                           (q.attempts[k].state \in Terminal => q.tombstones[k] > 0)
              /\ guards(q) \subseteq guards(c) /\ activeKeys(q) = activeKeys(c)
              /\ Cardinality(guards(q)) <= Cardinality(guards(c))
              /\ \A p \in Device : activeId(q, p) = activeId(c, p)
<1> DEFINE q == prune(c, now)
<1>1. /\ q \in Coordinator
      /\ \A k \in Key :
            /\ \/ q.attempts[k] = c.attempts[k]
               \/ c.attempts[k].state \in Terminal /\ q.attempts[k] = NoAttempt
            /\ \/ q.tombstones[k] = c.tombstones[k]
               \/ /\ q.tombstones[k] = 0 /\ c.tombstones[k] > 0 /\ now >= c.tombstones[k]
                  /\ q.attempts[k].state = "none"
      /\ q.saturatedUntil = c.saturatedUntil \/ (q.saturatedUntil = 0 /\ now >= c.saturatedUntil)
      /\ \A p \in Device : q.activeByPeer[p] = activeId(c, p)
  BY PruneFields
<1> HIDE DEF q
<1>2. \A k \in Key : live(q.attempts[k]) <=> live(c.attempts[k])
  BY <1>1, NoAttemptFacts DEF live
<1>3. guards(q) \subseteq guards(c) /\ activeKeys(q) = activeKeys(c)
  BY <1>1, <1>2, Fields DEF guards, activeKeys
<1>4. \A k \in Key :
          /\ c.attempts[k].state = "none" => q.attempts[k] = c.attempts[k]
          /\ c.tombstones[k] = 0 => q.tombstones[k] = 0
          /\ (c.attempts[k].state \in Terminal => c.tombstones[k] > 0) =>
                 (q.attempts[k].state \in Terminal => q.tombstones[k] > 0)
  BY <1>1, NoAttemptFacts DEF Terminal
<1>5. GuardsStay(c, q, now)
  BY <1>1, Fields DEF GuardsStay
<1>6. \A k \in Key : Rests(c, q, k, now)
  BY <1>1, NoAttemptFacts DEF Rests, live
<1>7. Shape(q)
  <2> SUFFICES ASSUME NEW k \in Key
               PROVE  /\ Allowed(q.attempts[k])
                      /\ live(q.attempts[k]) => q.activeByPeer[k[1]] = k[2]
    BY DEF Shape
  <2>1. Allowed(q.attempts[k])
    BY <1>1, NoAttemptFacts DEF Shape
  <2>2. live(q.attempts[k]) => activeId(c, k[1]) = k[2]
    BY <1>2, LiveIsActive
  <2>3. q.activeByPeer[k[1]] = activeId(c, k[1])
    BY <1>1, KeyFacts
  <2> QED
    BY <2>1, <2>2, <2>3
<1>8. Cardinality(guards(q)) <= Cardinality(guards(c))
  <2>1. guards(c) \in SUBSET Key
    BY DEF guards
  <2>2. IsFiniteSet(guards(c))
    BY <2>1, KeysAreFinite
  <2> QED
    BY <1>3, <2>2, FS_Subset
<1>9. \A p \in Device : activeId(q, p) = activeId(c, p)
  <2> SUFFICES ASSUME NEW p \in Device PROVE activeId(q, p) = activeId(c, p)
    OBVIOUS
  <2>1. q.activeByPeer[p] = activeId(c, p)
    BY <1>1
  <2>2. activeId(c, p) # NoId => live(q.attempts[<<p, activeId(c, p)>>])
    BY <1>2, ActiveIdFacts
  <2> QED
    BY <2>1, <2>2 DEF activeId
<1>10. /\ q \in Coordinator /\ Shape(q) /\ GuardsStay(c, q, now)
       /\ \A k \in Key :
             /\ Rests(c, q, k, now)
             /\ c.attempts[k].state = "none" => q.attempts[k] = c.attempts[k]
             /\ c.tombstones[k] = 0 => q.tombstones[k] = 0
             /\ (c.attempts[k].state \in Terminal => c.tombstones[k] > 0) =>
                    (q.attempts[k].state \in Terminal => q.tombstones[k] > 0)
       /\ guards(q) \subseteq guards(c) /\ activeKeys(q) = activeKeys(c)
       /\ Cardinality(guards(q)) <= Cardinality(guards(c))
       /\ \A p \in Device : activeId(q, p) = activeId(c, p)
  BY <1>1, <1>3, <1>4, <1>5, <1>6, <1>7, <1>8, <1>9
<1> QED
  BY <1>10 DEF q

LEMMA Counts ==
    ASSUME NEW c
    PROVE  /\ IsFiniteSet(guards(c)) /\ IsFiniteSet(activeKeys(c))
           /\ Cardinality(guards(c)) \in Nat /\ Cardinality(activeKeys(c)) \in Nat
<1>1. guards(c) \in SUBSET Key /\ activeKeys(c) \in SUBSET Key
  BY DEF guards, activeKeys
<1> QED
  BY <1>1, KeysAreFinite

LEMMA PruneIsQuiet ==
    ASSUME NEW c \in Coordinator, Sound(c), NEW now \in Nat
    PROVE  Quiet(c, prune(c, now), now)
<1> DEFINE q == prune(c, now)
<1>1. /\ q \in Coordinator /\ Shape(q) /\ GuardsStay(c, q, now)
      /\ \A k \in Key :
            /\ Rests(c, q, k, now)
            /\ (c.attempts[k].state \in Terminal => c.tombstones[k] > 0) =>
                   (q.attempts[k].state \in Terminal => q.tombstones[k] > 0)
      /\ activeKeys(q) = activeKeys(c) /\ Cardinality(guards(q)) <= Cardinality(guards(c))
  BY Pruned DEF Sound
<1> HIDE DEF q
<1>2. Sound(q)
  BY <1>1, Counts, Times DEF Sound
<1>3. Quiet(c, q, now)
  BY <1>1, <1>2 DEF Quiet
<1> QED
  BY <1>3 DEF q

-----------------------------------------------------------------------------
(* Guards.                                                                 *)

\* The replay guard that k gets.
LEMMA SaturateFields ==
    ASSUME NEW c \in Coordinator, NEW until \in Nat
    PROVE  LET r == saturate(c, until)
           IN /\ r \in Coordinator /\ r.attempts = c.attempts /\ r.tombstones = c.tombstones
              /\ r.activeByPeer = c.activeByPeer
              /\ r.saturatedUntil >= c.saturatedUntil /\ r.saturatedUntil >= until
BY Fields DEF saturate, Coordinator

LEMMA SaturateIsQuiet ==
    ASSUME NEW c \in Coordinator, Sound(c), NEW until \in Nat, NEW now \in Nat
    PROVE  /\ Quiet(c, saturate(c, until), now)
           /\ \A k \in Key : Guarded(saturate(c, until), k, until, now)
<1> DEFINE r == saturate(c, until)
<1>1. /\ r \in Coordinator /\ r.attempts = c.attempts /\ r.tombstones = c.tombstones
      /\ r.activeByPeer = c.activeByPeer
      /\ r.saturatedUntil >= c.saturatedUntil /\ r.saturatedUntil >= until
  BY SaturateFields
<1> HIDE DEF r
<1>2. Sound(r)
  BY <1>1 DEF Sound, Shape, guards, activeKeys
<1>3. GuardsStay(c, r, now) /\ \A k \in Key : Rests(c, r, k, now)
  BY <1>1, Fields DEF GuardsStay, Rests
<1>4. Quiet(c, r, now) /\ \A k \in Key : Guarded(r, k, until, now)
  BY <1>1, <1>2, <1>3 DEF Quiet, Guarded
<1> QED
  BY <1>4 DEF r

\* There is room for the guard of k, which has ended and may have none.
Nearly(c, k) ==
    /\ Shape(c)
    /\ Cardinality(guards(c)) + Cardinality(activeKeys(c))
           + (IF c.tombstones[k] = 0 THEN 1 ELSE 0) <= MaxTombstones
    /\ \A l \in Key : l # k /\ c.attempts[l].state \in Terminal => c.tombstones[l] > 0

LEMMA GuardFields ==
    ASSUME NEW c \in Coordinator, NEW k \in Key, NEW until \in Nat
    PROVE  LET r == [c EXCEPT !.tombstones[k] = until]
           IN /\ r \in Coordinator /\ r.attempts = c.attempts /\ r.activeByPeer = c.activeByPeer
              /\ r.saturatedUntil = c.saturatedUntil /\ r.tombstones[k] = until
              /\ \A l \in Key : l # k => r.tombstones[l] = c.tombstones[l]
BY DEF Coordinator

LEMMA GuardCount ==
    ASSUME NEW c \in Coordinator, NEW k \in Key, NEW until \in Nat, until > 0
    PROVE  LET r == [c EXCEPT !.tombstones[k] = until]
           IN /\ activeKeys(r) = activeKeys(c)
              /\ Cardinality(guards(r)) =
                     Cardinality(guards(c)) + (IF c.tombstones[k] = 0 THEN 1 ELSE 0)
<1> DEFINE r == [c EXCEPT !.tombstones[k] = until]
<1>1. /\ r.attempts = c.attempts /\ r.tombstones[k] = until
      /\ \A l \in Key : l # k => r.tombstones[l] = c.tombstones[l]
  BY GuardFields
<1> HIDE DEF r
<1>2. activeKeys(r) = activeKeys(c)
  BY <1>1 DEF activeKeys
<1>3. guards(r) = guards(c) \cup {k} /\ (k \in guards(c) <=> c.tombstones[k] # 0)
  BY <1>1, Fields DEF guards
<1>4. Cardinality(guards(r)) = Cardinality(guards(c)) + (IF c.tombstones[k] = 0 THEN 1 ELSE 0)
  <2>1. Cardinality(guards(c) \cup {k}) =
            IF k \in guards(c) THEN Cardinality(guards(c)) ELSE Cardinality(guards(c)) + 1
    BY Counts, FS_AddElement
  <2> QED
    BY <1>3, <2>1, Counts
<1>5. /\ activeKeys(r) = activeKeys(c)
      /\ Cardinality(guards(r)) = Cardinality(guards(c)) + (IF c.tombstones[k] = 0 THEN 1 ELSE 0)
  BY <1>2, <1>4
<1> QED
  BY <1>5 DEF r

\* Setting or prolonging the guard of k.
LEMMA GuardSettles ==
    ASSUME NEW c \in Coordinator, NEW k \in Key, Nearly(c, k), NEW now \in Nat,
           NEW until \in Nat, until > 0, until >= c.tombstones[k]
    PROVE  LET r == [c EXCEPT !.tombstones[k] = until]
           IN Quiet(c, r, now) /\ Guarded(r, k, until, now)
<1> DEFINE r == [c EXCEPT !.tombstones[k] = until]
<1>1. /\ r \in Coordinator /\ r.attempts = c.attempts /\ r.activeByPeer = c.activeByPeer
      /\ r.saturatedUntil = c.saturatedUntil /\ r.tombstones[k] = until
      /\ \A l \in Key : l # k => r.tombstones[l] = c.tombstones[l]
  BY GuardFields
<1>2. /\ activeKeys(r) = activeKeys(c)
      /\ Cardinality(guards(r)) = Cardinality(guards(c)) + (IF c.tombstones[k] = 0 THEN 1 ELSE 0)
  BY GuardCount
<1> HIDE DEF r
<1>3. Cardinality(guards(r)) + Cardinality(activeKeys(r)) <= MaxTombstones
  BY <1>2, Counts, Times DEF Nearly
<1>4. Shape(r)
  BY <1>1 DEF Nearly, Shape
<1>5. \A l \in Key : r.attempts[l].state \in Terminal => r.tombstones[l] > 0
  BY <1>1 DEF Nearly
<1>6. GuardsStay(c, r, now) /\ \A l \in Key : Rests(c, r, l, now)
  BY <1>1, Fields DEF GuardsStay, Rests
<1>7. Quiet(c, r, now) /\ Guarded(r, k, until, now)
  BY <1>1, <1>3, <1>4, <1>5, <1>6 DEF Quiet, Sound, Guarded
<1> QED
  BY <1>7 DEF r

\* What remembering k leaves: a sound coordinator, in which k is guarded.
LEMMA RememberReplay ==
    ASSUME NEW c \in Coordinator, NEW k \in Key, Nearly(c, k), NEW until \in Nat, until > 0,
           NEW now \in Nat
    PROVE  LET r == rememberReplay(c, k, until, now)
           IN Quiet(c, r, now) /\ Guarded(r, k, until, now)
<1> DEFINE q == prune(c, now)
           r == rememberReplay(c, k, until, now)
<1>1. /\ q \in Coordinator /\ Shape(q) /\ GuardsStay(c, q, now)
      /\ \A l \in Key :
            /\ Rests(c, q, l, now)
            /\ c.tombstones[l] = 0 => q.tombstones[l] = 0
            /\ (c.attempts[l].state \in Terminal => c.tombstones[l] > 0) =>
                   (q.attempts[l].state \in Terminal => q.tombstones[l] > 0)
      /\ activeKeys(q) = activeKeys(c) /\ Cardinality(guards(q)) <= Cardinality(guards(c))
  BY Pruned DEF Nearly
<1>2. CASE c.tombstones[k] > 0 /\ until > c.tombstones[k]
  <2>1. r = [c EXCEPT !.tombstones[k] = until]
    BY <1>2 DEF rememberReplay
  <2> QED
    BY <1>2, <2>1, GuardSettles, Fields
<1>3. CASE c.tombstones[k] > 0 /\ ~ (until > c.tombstones[k])
  <2>1. r = c /\ c.tombstones[k] >= until
    BY <1>3, Fields DEF rememberReplay
  <2>2. Sound(c)
    BY <1>3, Counts, Times DEF Nearly, Sound
  <2> QED
    BY <2>1, <2>2, QuietSelf DEF Guarded
<1>4. CASE ~ (c.tombstones[k] > 0)
  <2>1. c.tombstones[k] = 0
    BY <1>4, Fields
  <2>2. Cardinality(guards(c)) + Cardinality(activeKeys(c)) + 1 <= MaxTombstones
    BY <2>1 DEF Nearly
  <2>3. Cardinality(guards(q)) < MaxTombstones
    BY <1>1, <2>2, Counts, Times
  <2>4. r = [q EXCEPT !.tombstones[k] = until]
    BY <1>4, <2>3, Counts, Times DEF rememberReplay
  <2>5. q.tombstones[k] = 0
    BY <1>1, <2>1
  <2> HIDE DEF q
  <2>6. Nearly(q, k)
    <3>1. Cardinality(guards(q)) + Cardinality(activeKeys(q)) + 1 <= MaxTombstones
      BY <1>1, <2>2, Counts, Times
    <3>2. \A l \in Key : l # k /\ q.attempts[l].state \in Terminal => q.tombstones[l] > 0
      BY <1>1 DEF Nearly
    <3> QED
      BY <1>1, <2>5, <3>1, <3>2 DEF Nearly
  <2>7. Quiet(q, r, now) /\ Guarded(r, k, until, now)
    BY <1>1, <2>4, <2>5, <2>6, GuardSettles
  <2>8. /\ r \in Coordinator /\ Sound(r) /\ GuardsStay(q, r, now)
        /\ \A l \in Key : Rests(q, r, l, now)
    BY <2>7 DEF Quiet
  <2> HIDE DEF r
  <2>9. Quiet(c, r, now)
    BY <1>1, <2>8, RestsAgain, GuardsStayAgain DEF Quiet
  <2> QED
    BY <2>7, <2>9 DEF r
<1> QED
  BY <1>2, <1>3, <1>4

-----------------------------------------------------------------------------
(* Operations on an attempt.                                               *)

\* The coordinator in which k is a.
stored(c, k, a) ==
    [c EXCEPT !.attempts[k] = a,
              !.activeByPeer[k[1]] = IF live(a) THEN k[2] ELSE IF @ = k[2] THEN NoId ELSE @]

LEMMA StoredFields ==
    ASSUME NEW c \in Coordinator, NEW k \in Key, NEW a \in Attempt
    PROVE  LET s == stored(c, k, a)
           IN /\ s \in Coordinator /\ s.attempts[k] = a
              /\ \A l \in Key : l # k => s.attempts[l] = c.attempts[l]
              /\ s.activeByPeer[k[1]] = (IF live(a) THEN k[2]
                                         ELSE IF c.activeByPeer[k[1]] = k[2] THEN NoId
                                         ELSE c.activeByPeer[k[1]])
              /\ \A p \in Device : p # k[1] => s.activeByPeer[p] = c.activeByPeer[p]
              /\ s.tombstones = c.tombstones /\ s.saturatedUntil = c.saturatedUntil
<1> DEFINE b == IF live(a) THEN k[2] ELSE IF c.activeByPeer[k[1]] = k[2] THEN NoId
                                         ELSE c.activeByPeer[k[1]]
           s == stored(c, k, a)
<1>1. k[1] \in Device /\ b \in Id \cup {NoId}
  BY KeyFacts, Fields
<1>2. s = [attempts |-> [c.attempts EXCEPT ![k] = a],
           activeByPeer |-> [c.activeByPeer EXCEPT ![k[1]] = b],
           tombstones |-> c.tombstones, saturatedUntil |-> c.saturatedUntil]
  <2> DEFINE m == [c EXCEPT !.attempts[k] = a]
             e == [m EXCEPT !.activeByPeer[k[1]] = b]
  <2>1. m = [attempts |-> [c.attempts EXCEPT ![k] = a], activeByPeer |-> c.activeByPeer,
             tombstones |-> c.tombstones, saturatedUntil |-> c.saturatedUntil]
    BY DEF Coordinator
  <2>2. s = e
    <3>1. m.activeByPeer[k[1]] = c.activeByPeer[k[1]]
      BY <2>1
    <3> QED
      BY <3>1 DEF stored
  <2> HIDE DEF b, s, m
  <2>3. e = [attempts |-> [c.attempts EXCEPT ![k] = a],
             activeByPeer |-> [c.activeByPeer EXCEPT ![k[1]] = b],
             tombstones |-> c.tombstones, saturatedUntil |-> c.saturatedUntil]
    BY <2>1
  <2> QED
    BY <2>2, <2>3
<1> HIDE DEF b, s
<1>3. s \in Coordinator
  BY <1>1, <1>2 DEF Coordinator
<1>4. /\ s.attempts[k] = a /\ \A l \in Key : l # k => s.attempts[l] = c.attempts[l]
      /\ s.activeByPeer[k[1]] = b
      /\ \A p \in Device : p # k[1] => s.activeByPeer[p] = c.activeByPeer[p]
      /\ s.tombstones = c.tombstones /\ s.saturatedUntil = c.saturatedUntil
  BY <1>1, <1>2 DEF Coordinator
<1> QED
  BY <1>3, <1>4 DEF b, s

\* Only k may take the place of the active attempt with its peer.
LEMMA StoredShape ==
    ASSUME NEW c \in Coordinator, Shape(c), NEW k \in Key, NEW a \in Attempt, Allowed(a),
           live(a) => \A l \in Key : l # k /\ l[1] = k[1] => ~ live(c.attempts[l])
    PROVE  Shape(stored(c, k, a))
<1> DEFINE s == stored(c, k, a)
<1>1. /\ s.attempts[k] = a /\ \A l \in Key : l # k => s.attempts[l] = c.attempts[l]
      /\ s.activeByPeer[k[1]] = (IF live(a) THEN k[2]
                                 ELSE IF c.activeByPeer[k[1]] = k[2] THEN NoId
                                 ELSE c.activeByPeer[k[1]])
      /\ \A p \in Device : p # k[1] => s.activeByPeer[p] = c.activeByPeer[p]
  BY StoredFields
<1> HIDE DEF s
<1>2. \A l \in Key : Allowed(s.attempts[l])
  BY <1>1 DEF Shape
<1>3. ASSUME NEW l \in Key, live(s.attempts[l]) PROVE s.activeByPeer[l[1]] = l[2]
  <2>1. CASE l = k
    BY <1>1, <1>3, <2>1
  <2>2. CASE l # k /\ l[1] # k[1]
    BY <1>1, <1>3, <2>2, KeyFacts DEF Shape
  <2>3. CASE l # k /\ l[1] = k[1]
    <3>1. live(c.attempts[l]) /\ ~ live(a)
      BY <1>1, <1>3, <2>3
    <3>2. c.activeByPeer[k[1]] = l[2] /\ l[2] # k[2]
      BY <2>3, <3>1, KeyFacts DEF Shape
    <3> QED
      BY <1>1, <2>3, <3>1, <3>2
  <2> QED
    BY <2>1, <2>2, <2>3
<1>4. Shape(s)
  BY <1>2, <1>3 DEF Shape
<1> QED
  BY <1>4 DEF s

LEMMA StoredCounts ==
    ASSUME NEW c \in Coordinator, NEW k \in Key, NEW a \in Attempt
    PROVE  LET s == stored(c, k, a)
           IN /\ guards(s) = guards(c)
              /\ Cardinality(activeKeys(s)) =
                     Cardinality(activeKeys(c)) + (IF live(a) THEN 1 ELSE 0)
                                                - (IF live(c.attempts[k]) THEN 1 ELSE 0)
<1> DEFINE s == stored(c, k, a)
<1>1. /\ s.attempts[k] = a /\ \A l \in Key : l # k => s.attempts[l] = c.attempts[l]
      /\ s.tombstones = c.tombstones
  BY StoredFields
<1> HIDE DEF s
<1>2. guards(s) = guards(c)
  BY <1>1 DEF guards
<1>3. k \in activeKeys(c) <=> live(c.attempts[k])
  BY DEF activeKeys
<1>4. CASE live(a)
  <2>1. activeKeys(s) = activeKeys(c) \cup {k}
    BY <1>1, <1>4 DEF activeKeys
  <2>2. Cardinality(activeKeys(c) \cup {k}) =
            IF k \in activeKeys(c) THEN Cardinality(activeKeys(c)) ELSE Cardinality(activeKeys(c)) + 1
    BY Counts, FS_AddElement
  <2>3. Cardinality(activeKeys(s)) =
            Cardinality(activeKeys(c)) + (IF live(a) THEN 1 ELSE 0)
                                       - (IF live(c.attempts[k]) THEN 1 ELSE 0)
    BY <1>3, <1>4, <2>1, <2>2, Counts
  <2> QED
    BY <1>2, <2>3 DEF s
<1>5. CASE ~ live(a)
  <2>1. activeKeys(s) = activeKeys(c) \ {k}
    BY <1>1, <1>5 DEF activeKeys
  <2>2. Cardinality(activeKeys(c) \ {k}) =
            IF k \in activeKeys(c) THEN Cardinality(activeKeys(c)) - 1 ELSE Cardinality(activeKeys(c))
    BY Counts, FS_RemoveElement
  <2>3. Cardinality(activeKeys(s)) =
            Cardinality(activeKeys(c)) + (IF live(a) THEN 1 ELSE 0)
                                       - (IF live(c.attempts[k]) THEN 1 ELSE 0)
    BY <1>3, <1>5, <2>1, <2>2, Counts
  <2> QED
    BY <1>2, <2>3 DEF s
<1> QED
  BY <1>4, <1>5

\* An attempt that ends is remembered.
LEMMA Remembered ==
    ASSUME NEW c \in Coordinator, Sound(c), NEW k \in Key, NEW a \in Attempt, Allowed(a),
           ~ live(a), a.state # "none", NEW now \in Nat,
           \/ live(c.attempts[k])
           \/ c.tombstones[k] > 0
           \/ Cardinality(guards(c)) + Cardinality(activeKeys(c)) < MaxTombstones
    PROVE  LET s == stored(c, k, a)
               r == acceptOutcome(c, k, a, now)
           IN /\ s \in Coordinator /\ GuardsStay(c, s, now)
              /\ s.attempts[k] = a /\ \A l \in Key : l # k => s.attempts[l] = c.attempts[l]
              /\ Quiet(s, r, now) /\ Guarded(r, k, guardUntil(a.issuedAt), now)
<1> DEFINE s == stored(c, k, a)
           r == acceptOutcome(c, k, a, now)
<1>1. r = rememberReplay(s, k, guardUntil(a.issuedAt), now)
  BY DEF acceptOutcome, stored
<1>2. guardUntil(a.issuedAt) \in Nat /\ guardUntil(a.issuedAt) > 0
  BY Times DEF Attempt
<1>3. /\ s \in Coordinator /\ s.attempts[k] = a
      /\ \A l \in Key : l # k => s.attempts[l] = c.attempts[l]
      /\ s.tombstones = c.tombstones /\ s.saturatedUntil = c.saturatedUntil
  BY StoredFields
<1>4. /\ guards(s) = guards(c)
      /\ Cardinality(activeKeys(s)) =
             Cardinality(activeKeys(c)) - (IF live(c.attempts[k]) THEN 1 ELSE 0)
  BY StoredCounts, Counts
<1>5. Shape(s)
  BY StoredShape DEF Sound
<1> HIDE DEF s, r
<1>6. Nearly(s, k)
  <2>1. c.tombstones[k] \in Nat
    BY Fields
  <2>2. Cardinality(guards(s)) + Cardinality(activeKeys(s))
            + (IF s.tombstones[k] = 0 THEN 1 ELSE 0) <= MaxTombstones
    BY <1>3, <1>4, <2>1, Counts, Times DEF Sound
  <2>3. \A l \in Key : l # k /\ s.attempts[l].state \in Terminal => s.tombstones[l] > 0
    BY <1>3 DEF Sound
  <2> QED
    BY <1>5, <2>2, <2>3 DEF Nearly
<1>7. Quiet(s, r, now) /\ Guarded(r, k, guardUntil(a.issuedAt), now)
  BY <1>1, <1>2, <1>3, <1>6, RememberReplay
<1>8. GuardsStay(c, s, now)
  BY <1>3, Fields DEF GuardsStay
<1> QED
  BY <1>3, <1>7, <1>8 DEF s, r

LEMMA AcceptEnds ==
    ASSUME NEW c \in Coordinator, Sound(c), NEW k \in Key, NEW a \in Attempt, Allowed(a),
           ~ live(a), a.state # "none", Same(c.attempts[k], a), c.attempts[k].state # "none",
           live(c.attempts[k]) \/ a = c.attempts[k], NEW now \in Nat
    PROVE  Quiet(c, acceptOutcome(c, k, a, now), now)
<1> DEFINE s == stored(c, k, a)
           r == acceptOutcome(c, k, a, now)
<1>0. live(c.attempts[k]) \/ c.tombstones[k] > 0
  BY DEF Sound, live
<1>1. /\ s \in Coordinator /\ GuardsStay(c, s, now)
      /\ s.attempts[k] = a /\ \A l \in Key : l # k => s.attempts[l] = c.attempts[l]
      /\ Quiet(s, r, now) /\ Guarded(r, k, guardUntil(a.issuedAt), now)
  BY <1>0, Remembered
<1> HIDE DEF s, r
<1>2. r \in Coordinator /\ Sound(r) /\ GuardsStay(c, r, now)
  BY <1>1, GuardsStayAgain DEF Quiet
<1>3. ASSUME NEW l \in Key PROVE Rests(c, r, l, now)
  <2>1. CASE l # k
    BY <1>1, <2>1 DEF Quiet, Rests
  <2>2. CASE l = k
    <3>1. Rests(s, r, k, now) /\ s.attempts[k] = a /\ a.issuedAt = c.attempts[k].issuedAt
      BY <1>1 DEF Quiet, Same
    <3> QED
      BY <1>1, <2>2, <3>1 DEF Rests, Same
  <2> QED
    BY <2>1, <2>2
<1>4. Quiet(c, r, now)
  BY <1>2, <1>3 DEF Quiet
<1> QED
  BY <1>4 DEF r

\* A new attempt is there, or ended at once; the others rest.
Begins(c, r, k, a, now) ==
    /\ r \in Coordinator /\ Sound(r) /\ GuardsStay(c, r, now)
    /\ \A l \in Key : l # k => Rests(c, r, l, now)
    /\ c.attempts[k].state = "none" /\ r.attempts[k].state # "none" => Same(a, r.attempts[k])
    /\ live(r.attempts[k]) => r.attempts[k] = a
    /\ ~ live(r.attempts[k]) => Guarded(r, k, guardUntil(a.issuedAt), now)

LEMMA AcceptBegins ==
    ASSUME NEW c \in Coordinator, Sound(c), NEW k \in Key, NEW a \in Attempt, Allowed(a),
           a.state # "none", c.attempts[k].state = "none",
           hasReplayCapacity(c), \A l \in Key : l[1] = k[1] => ~ live(c.attempts[l]),
           NEW now \in Nat
    PROVE  Begins(c, acceptOutcome(c, k, a, now), k, a, now)
<1> DEFINE s == stored(c, k, a)
           r == acceptOutcome(c, k, a, now)
<1>1. ASSUME live(a) PROVE Begins(c, r, k, a, now)
  <2>1. r = s
    BY <1>1 DEF acceptOutcome, stored
  <2>2. /\ s \in Coordinator /\ s.attempts[k] = a
        /\ \A l \in Key : l # k => s.attempts[l] = c.attempts[l]
        /\ s.tombstones = c.tombstones /\ s.saturatedUntil = c.saturatedUntil
    BY StoredFields
  <2>3. Shape(s)
    BY StoredShape DEF Sound
  <2>4. Cardinality(guards(s)) + Cardinality(activeKeys(s)) <= MaxTombstones
    <3>1. ~ live(c.attempts[k])
      BY DEF live
    <3>2. guards(s) = guards(c) /\ Cardinality(activeKeys(s)) = Cardinality(activeKeys(c)) + 1
      BY <1>1, <3>1, StoredCounts, Counts
    <3> QED
      BY <3>2, Counts, Times DEF hasReplayCapacity
  <2> HIDE DEF s, r
  <2>5. Sound(s)
    <3>1. a.state \notin Terminal
      BY <1>1 DEF live
    <3> QED
      BY <2>2, <2>3, <2>4, <3>1 DEF Sound
  <2>6. GuardsStay(c, s, now) /\ \A l \in Key : l # k => Rests(c, s, l, now)
    BY <2>2, Fields DEF GuardsStay, Rests
  <2> QED
    BY <1>1, <2>1, <2>2, <2>5, <2>6 DEF Begins, Same
<1>2. ASSUME ~ live(a) PROVE Begins(c, r, k, a, now)
  <2>1. /\ s \in Coordinator /\ GuardsStay(c, s, now)
        /\ s.attempts[k] = a /\ \A l \in Key : l # k => s.attempts[l] = c.attempts[l]
        /\ Quiet(s, r, now) /\ Guarded(r, k, guardUntil(a.issuedAt), now)
    BY <1>2, Remembered DEF hasReplayCapacity
  <2> HIDE DEF s, r
  <2>2. r \in Coordinator /\ Sound(r) /\ GuardsStay(c, r, now)
    BY <2>1, GuardsStayAgain DEF Quiet
  <2>3. \A l \in Key : l # k => Rests(c, r, l, now)
    BY <2>1 DEF Quiet, Rests
  <2>4. Rests(s, r, k, now)
    BY <2>1 DEF Quiet
  <2> QED
    BY <1>2, <2>1, <2>2, <2>3, <2>4 DEF Begins, Rests, Same
<1>3. Begins(c, r, k, a, now)
  BY <1>1, <1>2
<1> QED
  BY <1>3 DEF r

\* The attempt k goes on, and nothing else changes.
Continues(c, r, k, event, now) ==
    /\ r \in Coordinator /\ Sound(r)
    /\ live(c.attempts[k]) /\ live(r.attempts[k])
    /\ Follows(c.attempts[k], r.attempts[k], event, now)
    /\ \A l \in Key : l # k => r.attempts[l] = c.attempts[l]
    /\ r.tombstones = c.tombstones /\ r.saturatedUntil = c.saturatedUntil

LEMMA DispatchLeaves ==
    ASSUME NEW c \in Coordinator, Sound(c), NEW k \in Key, c.attempts[k].state # "none",
           NEW event, NEW now \in Nat
    PROVE  LET r == dispatch(c, k, event, now)
           IN Quiet(c, r, now) \/ Continues(c, r, k, event, now)
<1> DEFINE a == c.attempts[k]
           b == transitionAttempt(a, event, now)
           r == dispatch(c, k, event, now)
<1>1. a \in Attempt /\ Allowed(a)
  BY Fields DEF Sound, Shape
<1>2. r = acceptOutcome(c, k, b, now)
  BY DEF dispatch
<1>3. ~ live(a) => b = a
  BY DEF transitionAttempt
<1>4. live(a) => Follows(a, b, event, now)
  BY <1>1, TransitionFollows
<1> HIDE DEF b, r
<1>5. ASSUME ~ live(b) PROVE Quiet(c, r, now)
  <2>1. b \in Attempt /\ Allowed(b) /\ b.state # "none" /\ Same(a, b) /\ (live(a) \/ b = a)
    BY <1>1, <1>3, <1>4, <1>5 DEF Follows, Same
  <2> QED
    BY <1>2, <1>5, <2>1, AcceptEnds
<1>6. ASSUME live(b) PROVE Continues(c, r, k, event, now)
  <2>1. live(a) /\ Follows(a, b, event, now) /\ b \in Attempt /\ Allowed(b)
    BY <1>3, <1>4, <1>6 DEF Follows
  <2>2. r = stored(c, k, b)
    BY <1>2, <1>6 DEF acceptOutcome, stored
  <2>3. /\ r \in Coordinator /\ r.attempts[k] = b
        /\ \A l \in Key : l # k => r.attempts[l] = c.attempts[l]
        /\ r.tombstones = c.tombstones /\ r.saturatedUntil = c.saturatedUntil
    BY <2>1, <2>2, StoredFields
  <2>4. Shape(r)
    <3>1. \A l \in Key : l # k /\ l[1] = k[1] => ~ live(c.attempts[l])
      BY <2>1, KeyFacts DEF Sound, Shape
    <3> QED
      BY <2>1, <2>2, <3>1, StoredShape DEF Sound
  <2>5. guards(r) = guards(c) /\ Cardinality(activeKeys(r)) = Cardinality(activeKeys(c))
    BY <1>6, <2>1, <2>2, StoredCounts, Counts
  <2>6. Sound(r)
    <3>1. b.state \notin Terminal
      BY <1>6 DEF live
    <3> QED
      BY <2>3, <2>4, <2>5, <3>1 DEF Sound
  <2> QED
    BY <1>6, <2>1, <2>3, <2>6 DEF Continues
<1>7. Quiet(c, r, now) \/ Continues(c, r, k, event, now)
  BY <1>5, <1>6
<1> QED
  BY <1>7 DEF r

-----------------------------------------------------------------------------
(* Operations of the coordinator.                                          *)

\* What takes up room for guards.
Load(c) == Cardinality(guards(c)) + Cardinality(activeKeys(c))

LEMMA RememberLoad ==
    ASSUME NEW c \in Coordinator, Shape(c), NEW k \in Key, NEW until \in Nat, until > 0,
           NEW now \in Nat
    PROVE  Load(rememberReplay(c, k, until, now)) <=
               Load(c) + (IF c.tombstones[k] = 0 THEN 1 ELSE 0)
<1> DEFINE q == prune(c, now)
           r == rememberReplay(c, k, until, now)
<1>1. q \in Coordinator /\ activeKeys(q) = activeKeys(c)
      /\ Cardinality(guards(q)) <= Cardinality(guards(c))
      /\ (c.tombstones[k] = 0 => q.tombstones[k] = 0)
  BY Pruned
<1>2. c.tombstones[k] \in Nat
  BY Fields
<1>3. CASE r = c
  BY <1>3, Counts DEF Load
<1>4. CASE r = [c EXCEPT !.tombstones[k] = until]
  <2>1. Load(r) = Load(c) + (IF c.tombstones[k] = 0 THEN 1 ELSE 0)
    BY <1>4, GuardCount, Counts DEF Load
  <2> HIDE DEF r
  <2> QED
    BY <2>1, Counts DEF Load, r
<1>5. CASE c.tombstones[k] = 0 /\ r = [q EXCEPT !.tombstones[k] = until]
  <2>1. Load(r) = Load(q) + 1
    <3> HIDE DEF q
    <3> QED
      BY <1>1, <1>5, GuardCount, Counts DEF Load
  <2>2. Load(q) <= Load(c) /\ Load(q) \in Nat /\ Load(c) \in Nat
    BY <1>1, Counts DEF Load
  <2> HIDE DEF r, q
  <2>3. Load(r) <= Load(c) + (IF c.tombstones[k] = 0 THEN 1 ELSE 0)
    BY <1>5, <2>1, <2>2
  <2> QED
    BY <2>3 DEF r
<1>6. CASE r = saturate(q, until)
  <2> HIDE DEF q
  <2>1. r.attempts = q.attempts /\ r.tombstones = q.tombstones
    BY <1>1, <1>6, SaturateFields
  <2>2. guards(r) = guards(q) /\ activeKeys(r) = activeKeys(c)
    BY <1>1, <2>1 DEF guards, activeKeys
  <2> HIDE DEF r
  <2>3. Load(r) <= Load(c) + (IF c.tombstones[k] = 0 THEN 1 ELSE 0)
    BY <1>1, <2>2, Counts DEF Load
  <2> QED
    BY <2>3 DEF r
<1>7. \/ r = c \/ r = [c EXCEPT !.tombstones[k] = until]
      \/ c.tombstones[k] = 0 /\ r = [q EXCEPT !.tombstones[k] = until]
      \/ r = saturate(q, until)
  BY <1>2 DEF rememberReplay
<1> QED
  BY <1>3, <1>4, <1>5, <1>6, <1>7

LEMMA DispatchEnds ==
    ASSUME NEW c \in Coordinator, Sound(c), NEW k \in Key, live(c.attempts[k]),
           NEW event \in {"expire", "fail", "abort"}, NEW now \in Nat
    PROVE  LET r == dispatch(c, k, event, now)
           IN Quiet(c, r, now) /\ ~ live(r.attempts[k]) /\ Load(r) <= Load(c)
<1> DEFINE a == c.attempts[k]
           b == transitionAttempt(a, event, now)
           s == stored(c, k, b)
           r == dispatch(c, k, event, now)
<1>1. a \in Attempt /\ Allowed(a) /\ a.state # "none"
  BY Fields DEF Sound, Shape, live
<1>2. Follows(a, b, event, now)
  BY <1>1, TransitionFollows
<1>3. b.state \in Terminal
  <2>1. b \in {[a EXCEPT !.state = e] : e \in Terminal}
    BY DEF transitionAttempt, Terminal
  <2> QED
    BY <1>1, <2>1 DEF Attempt
<1>4. r = acceptOutcome(c, k, b, now)
  BY DEF dispatch
<1> HIDE DEF b, r
<1>5. ~ live(b) /\ b.state # "none" /\ b \in Attempt /\ Allowed(b) /\ Same(a, b)
  BY <1>2, <1>3 DEF Follows, live
<1>6. Quiet(c, r, now)
  BY <1>1, <1>4, <1>5, AcceptEnds
<1>7. /\ s \in Coordinator /\ s.attempts[k] = b /\ Quiet(s, r, now)
  BY <1>4, <1>5, Remembered
<1>8. Load(r) <= Load(c)
  <2>1. r = rememberReplay(s, k, guardUntil(b.issuedAt), now)
    BY <1>4, <1>5 DEF acceptOutcome, stored
  <2>2. guardUntil(b.issuedAt) \in Nat /\ guardUntil(b.issuedAt) > 0
    BY <1>5, Times DEF Attempt
  <2>3. Shape(s)
    BY <1>5, StoredShape DEF Sound
  <2>4. Load(r) <= Load(s) + 1
    <3>1. Load(s) \in Nat /\ Load(r) \in Nat
      BY Counts DEF Load
    <3>2. Load(r) <= Load(s) + (IF s.tombstones[k] = 0 THEN 1 ELSE 0)
      BY <1>7, <2>1, <2>2, <2>3, RememberLoad
    <3> HIDE DEF s
    <3> QED
      BY <3>1, <3>2
  <2>5. guards(s) = guards(c) /\ Cardinality(activeKeys(s)) = Cardinality(activeKeys(c)) - 1
    <3>1. /\ guards(s) = guards(c)
          /\ Cardinality(activeKeys(s)) = Cardinality(activeKeys(c)) + 0 - 1
      BY <1>5, StoredCounts
    <3> QED
      BY <3>1, Counts
  <2> HIDE DEF s
  <2> QED
    BY <2>4, <2>5, Counts DEF Load
<1>9. ~ live(r.attempts[k])
  <2>1. Rests(s, r, k, now)
    BY <1>7 DEF Quiet
  <2> QED
    BY <1>5, <1>7, <2>1 DEF Rests
<1> QED
  BY <1>6, <1>8, <1>9 DEF r

LEMMA ExpirePeerIsQuiet ==
    ASSUME NEW c \in Coordinator, Sound(c), NEW p \in Device, NEW now \in Nat
    PROVE  Quiet(c, expirePeer(c, p, now), now)
<1> DEFINE k == <<p, activeId(c, p)>>
<1>1. CASE activeId(c, p) # NoId /\ now >= completionDeadline(c.attempts[k])
  <2>1. k \in Key /\ live(c.attempts[k])
    BY <1>1, ActiveIdFacts
  <2>2. expirePeer(c, p, now) = dispatch(c, k, "expire", now)
    BY <1>1 DEF expirePeer
  <2> QED
    BY <2>1, <2>2, DispatchEnds
<1>2. CASE ~ (activeId(c, p) # NoId /\ now >= completionDeadline(c.attempts[k]))
  <2>1. expirePeer(c, p, now) = c
    BY <1>2 DEF expirePeer
  <2> QED
    BY <2>1, QuietSelf
<1> QED
  BY <1>1, <1>2

\* No attempt with p.
LEMMA NobodyActive ==
    ASSUME NEW c \in Coordinator, Shape(c), NEW p \in Device, activeId(c, p) = NoId
    PROVE  \A l \in Key : l[1] = p => ~ live(c.attempts[l])
BY LiveIsActive, KeyFacts

\* What starts is an offer that is not made yet.
Offering(a, now) == a.state = "creating-offer" /\ a.role = "offerer" /\ ~ a.tokenEpochStarted

LEMMA CreateFacts ==
    ASSUME NEW role \in {"offerer", "answerer"}, NEW i \in Nat, NEW e \in Nat
    PROVE  LET o == createAttempt(role, i, e)
           IN /\ o \in Attempt /\ o.state = "idle" /\ o.role = role /\ live(o)
              /\ o.issuedAt = i /\ o.expiresAt = e
              /\ o.tokenEpochStarted <=> role = "answerer"
<1> DEFINE b == (role = "answerer")
           o == [NoAttempt EXCEPT !.state = "idle", !.role = role, !.issuedAt = i,
                                  !.expiresAt = e, !.tokenEpochStarted = b]
<1>1. createAttempt(role, i, e) = o
  BY DEF createAttempt
<1>2. b \in BOOLEAN /\ (b <=> role = "answerer")
  OBVIOUS
<1>3. "idle" \in AttemptState
  BY DEF AttemptState
<1> HIDE DEF b
<1>4. o \in Attempt /\ o.state = "idle" /\ o.role = role /\ o.issuedAt = i /\ o.expiresAt = e
      /\ o.tokenEpochStarted = b
  BY <1>2, <1>3 DEF NoAttempt, Attempt
<1> HIDE DEF o
<1>5. live(o)
  BY <1>4 DEF live, Terminal
<1> QED
  BY <1>1, <1>2, <1>4, <1>5

LEMMA StartBegins ==
    ASSUME NEW c \in Coordinator, Sound(c), NEW p \in Device, NEW id \in Id, NEW now \in Nat,
           c.attempts[<<p, id>>].state = "none", canStart(c, p, now)
    PROVE  \E a \in Attempt, m \in Coordinator :
               /\ Allowed(a) /\ live(a) /\ Offering(a, now) /\ Quiet(c, m, now)
               /\ m.attempts[<<p, id>>].state = "none"
               /\ Begins(m, start(c, <<p, id>>, now), <<p, id>>, a, now)
<1> DEFINE k == <<p, id>>
           o == createAttempt("offerer", now, receiveDeadline(now))
           a == transitionAttempt(o, "start", now)
           m == prune(c, now)
<1>1. k \in Key /\ k[1] = p
  BY KeyFacts
<1>2. receiveDeadline(now) \in Nat /\ receiveDeadline(now) > now
  BY Times
<1>3. /\ o \in Attempt /\ o.state = "idle" /\ o.role = "offerer" /\ live(o)
      /\ o.expiresAt = receiveDeadline(now) /\ ~ o.tokenEpochStarted
  BY <1>2, CreateFacts
<1>4. a = [o EXCEPT !.state = "creating-offer"]
  <2>1. ~ (now >= o.expiresAt)
    BY <1>2, <1>3
  <2> HIDE DEF o
  <2> QED
    BY <1>3, <2>1 DEF transitionAttempt, transitionOfferer
<1>5. a \in Attempt /\ Allowed(a) /\ live(a) /\ Offering(a, now) /\ a.state # "none"
  <2> HIDE DEF o
  <2>2. a \in Attempt /\ a.state = "creating-offer" /\ Same(o, a)
    <3>1. "creating-offer" \in AttemptState
      BY DEF AttemptState, Working
    <3> QED
      BY <1>3, <1>4, <3>1, StateFacts
  <2> HIDE DEF a
  <2> QED
    BY <1>3, <2>2 DEF Allowed, live, Offering, Same, Terminal
<1>6. Quiet(c, m, now)
  BY PruneIsQuiet
<1>7. m.attempts[k].state = "none" /\ activeId(m, p) = NoId /\ hasReplayCapacity(m)
  <2>1. m.attempts[k] = c.attempts[k] /\ activeId(m, p) = activeId(c, p)
    BY <1>1, Pruned DEF Sound
  <2> QED
    BY <2>1 DEF canStart, hasRoom
<1>8. start(c, k, now) = acceptOutcome(m, k, a, now)
  BY DEF start
<1> HIDE DEF m, a, o
<1>9. \A l \in Key : l[1] = k[1] => ~ live(m.attempts[l])
  BY <1>1, <1>6, <1>7, NobodyActive DEF Quiet, Sound
<1>10. Begins(m, start(c, k, now), k, a, now)
  BY <1>1, <1>5, <1>6, <1>7, <1>8, <1>9, AcceptBegins DEF Quiet
<1>11. m \in Coordinator
  BY <1>6 DEF Quiet
<1> QED
  BY <1>5, <1>6, <1>7, <1>10, <1>11

\* What answers t.
Answering(a, t) ==
    /\ a.role = "answerer" /\ a.issuedAt = t.issuedAt /\ a.expiresAt <= a.issuedAt + Lifetime

LEMMA InboundFacts ==
    ASSUME NEW t \in Token, NEW now \in Nat
    PROVE  LET a == inboundAttempt(t, now)
           IN a \in Attempt /\ Allowed(a) /\ a.state # "none" /\ Answering(a, t)
<1> DEFINE e == inboundDeadline(t, now)
           o == createAttempt("answerer", t.issuedAt, e)
           a == inboundAttempt(t, now)
<1>1. t.issuedAt \in Nat /\ e \in Nat /\ e <= t.issuedAt + Lifetime
  BY Times DEF Token, inboundDeadline
<1>2. a = transitionAttempt(o, "offer", now)
  BY DEF inboundAttempt
<1> HIDE DEF e
<1>4. /\ o \in Attempt /\ o.role = "answerer" /\ o.tokenEpochStarted /\ o.state = "idle" /\ live(o)
      /\ o.issuedAt = t.issuedAt /\ o.expiresAt = e
  BY <1>1, CreateFacts
<1>5. Answering(o, t)
  BY <1>1, <1>4 DEF Answering
<1> HIDE DEF o, a
<1>6. a = [o EXCEPT !.state = "expired"] \/ a = [o EXCEPT !.state = "applying-offer"]
  BY <1>2, <1>4 DEF transitionAttempt, transitionAnswerer
<1>7. "expired" \in AttemptState /\ "applying-offer" \in AttemptState
  BY DEF AttemptState, Terminal, Working
<1>8. a \in Attempt /\ a.state \in {"expired", "applying-offer"} /\ Same(o, a)
  BY <1>4, <1>6, <1>7, StateFacts
<1>9. a \in Attempt /\ Allowed(a) /\ a.state # "none" /\ Answering(a, t)
  BY <1>4, <1>5, <1>8 DEF Allowed, Answering, Same
<1> QED
  BY <1>9 DEF a

LEMMA RejectedIsGuarded ==
    ASSUME NEW c \in Coordinator, Sound(c), NEW t \in Token, keyOf(t) \in Key, NEW now \in Nat
    PROVE  LET r == rememberRejected(c, t, now)
           IN Quiet(c, r, now) /\ Guarded(r, keyOf(t), guardUntil(t.issuedAt), now)
<1> DEFINE k == keyOf(t)
           until == guardUntil(t.issuedAt)
<1>1. until \in Nat /\ until > 0
  BY Times DEF Token
<1> HIDE DEF until
<1>2. CASE hasReplayCapacity(c)
  <2>1. rememberRejected(c, t, now) = rememberReplay(c, k, until, now)
    BY <1>2 DEF rememberRejected, until
  <2>2. Nearly(c, k)
    <3>1. Cardinality(guards(c)) + Cardinality(activeKeys(c)) + 1 <= MaxTombstones
      BY <1>2, Counts, Times DEF hasReplayCapacity
    <3> QED
      BY <3>1, Counts, Times DEF Nearly, Sound
  <2>3. LET r == rememberReplay(c, k, until, now) IN Quiet(c, r, now) /\ Guarded(r, k, until, now)
    BY <1>1, <2>2, RememberReplay
  <2> QED
    BY <2>1, <2>3 DEF until
<1>3. CASE ~ hasReplayCapacity(c)
  <2>1. rememberRejected(c, t, now) = saturate(c, until)
    BY <1>3 DEF rememberRejected, until
  <2>2. Quiet(c, saturate(c, until), now) /\ Guarded(saturate(c, until), k, until, now)
    BY <1>1, SaturateIsQuiet
  <2> QED
    BY <2>1, <2>2 DEF until
<1> QED
  BY <1>2, <1>3

LEMMA MakeRoomIsQuiet ==
    ASSUME NEW c \in Coordinator, Sound(c), NEW t, NEW now \in Nat
    PROVE  Quiet(c, afterMakeRoom(c, t, now), now)
BY PruneIsQuiet, QuietSelf DEF afterMakeRoom

LEMMA TokenKey ==
    ASSUME NEW t \in Token
    PROVE  /\ keyOf(t) \in Key /\ keyOf(t)[1] = t.from /\ keyOf(t)[2] = t.id
           /\ t.from \in Device /\ t.id \in Id /\ t.issuedAt \in Nat
BY KeyFacts DEF Token, keyOf

\* The offer t begins an attempt, in the place of another or beside the others.
Answered(d, c, t, r, now) ==
    \E a \in Attempt, m \in Coordinator :
        /\ Allowed(a) /\ a.state # "none" /\ Answering(a, t)
        /\ Quiet(c, m, now) /\ m.attempts[keyOf(t)].state = "none"
        /\ Begins(m, r, keyOf(t), a, now)

LEMMA ReplacesAnswers ==
    ASSUME NEW d, NEW c \in Coordinator, Sound(c), NEW t \in Token, NEW now \in Nat,
           replaces(d, c, t, now)
    PROVE  Answered(d, c, t, receiveVerified(d, c, t, now), now)
<1> DEFINE k == keyOf(t)
           old == <<t.from, activeId(c, t.from)>>
           m == dispatch(c, old, "abort", now)
           a == inboundAttempt(t, now)
           r == receiveVerified(d, c, t, now)
<1>1. /\ unknown(c, k) /\ ~ (now < c.saturatedUntil) /\ activeId(c, t.from) # NoId
      /\ hasReplayCapacity(c) /\ c.attempts[k].state = "none"
  <2>1. now >= c.saturatedUntil /\ c.saturatedUntil \in Nat
    BY Fields DEF replaces, newOffer
  <2> QED
    BY <2>1 DEF replaces, newOffer, unknown
<1>2. r = acceptOutcome(m, k, a, now)
  <2>1. ~ joins(c, t, now) /\ accepts(d, c, t, now)
    BY <1>1 DEF joins, accepts
  <2> QED
    BY <1>1, <2>1 DEF receiveVerified
<1>3. k \in Key /\ k[1] = t.from /\ t.from \in Device
  BY TokenKey
<1>4. old \in Key /\ live(c.attempts[old]) /\ old[1] = t.from
  BY <1>1, <1>3, ActiveIdFacts
<1>5. Quiet(c, m, now) /\ ~ live(m.attempts[old]) /\ Load(m) <= Load(c)
  BY <1>4, DispatchEnds
<1>6. a \in Attempt /\ Allowed(a) /\ a.state # "none" /\ Answering(a, t)
  BY InboundFacts
<1>7. \A l \in Key : l[1] = k[1] => ~ live(m.attempts[l])
  <2> SUFFICES ASSUME NEW l \in Key, l[1] = k[1] PROVE ~ live(m.attempts[l])
    OBVIOUS
  <2>1. live(c.attempts[l]) => l = old
    <3>1. live(c.attempts[l]) => activeId(c, l[1]) = l[2]
      BY LiveIsActive DEF Sound
    <3> QED
      BY <1>3, <3>1, KeyFacts
  <2>2. Rests(c, m, l, now)
    BY <1>5 DEF Quiet
  <2> HIDE DEF m
  <2> QED
    BY <1>5, <2>1, <2>2 DEF Rests
<1> HIDE DEF m, a, r
<1>8. m \in Coordinator /\ Sound(m) /\ Rests(c, m, k, now)
  BY <1>3, <1>5 DEF Quiet
<1>9. m.attempts[k].state = "none"
  BY <1>1, <1>8 DEF Rests
<1>10. hasReplayCapacity(m)
  BY <1>1, <1>5, Counts, Times DEF hasReplayCapacity, Load
<1>11. Begins(m, r, k, a, now)
  BY <1>2, <1>3, <1>6, <1>7, <1>8, <1>9, <1>10, AcceptBegins
<1>12. Answered(d, c, t, r, now)
  BY <1>5, <1>6, <1>8, <1>9, <1>11 DEF Answered
<1> QED
  BY <1>12 DEF r

LEMMA JoinsAnswers ==
    ASSUME NEW d, NEW c \in Coordinator, Sound(c), NEW t \in Token, NEW now \in Nat,
           joins(c, t, now)
    PROVE  Answered(d, c, t, receiveVerified(d, c, t, now), now)
<1> DEFINE k == keyOf(t)
           m == prune(c, now)
           a == inboundAttempt(t, now)
           r == receiveVerified(d, c, t, now)
<1>1. /\ unknown(c, k) /\ ~ (now < c.saturatedUntil) /\ activeId(c, t.from) = NoId
      /\ hasReplayCapacity(m) /\ c.attempts[k].state = "none"
  <2>1. now >= c.saturatedUntil /\ c.saturatedUntil \in Nat
    BY Fields DEF joins, newOffer
  <2> QED
    BY <2>1 DEF joins, newOffer, unknown, hasRoom
<1>2. r = acceptOutcome(m, k, a, now)
  <2>1. ~ replaces(d, c, t, now) /\ accepts(d, c, t, now)
    BY <1>1 DEF replaces, accepts
  <2> QED
    BY <1>1, <2>1 DEF receiveVerified
<1>3. k \in Key /\ k[1] = t.from /\ t.from \in Device
  BY TokenKey
<1>4. Quiet(c, m, now)
  BY PruneIsQuiet
<1>5. m.attempts[k] = c.attempts[k] /\ activeId(m, t.from) = NoId
  BY <1>1, <1>3, Pruned DEF Sound
<1>6. a \in Attempt /\ Allowed(a) /\ a.state # "none" /\ Answering(a, t)
  BY InboundFacts
<1> HIDE DEF m, a, r
<1>7. m \in Coordinator /\ Sound(m)
  BY <1>4 DEF Quiet
<1>8. \A l \in Key : l[1] = k[1] => ~ live(m.attempts[l])
  BY <1>3, <1>5, <1>7, NobodyActive DEF Sound
<1>9. Begins(m, r, k, a, now)
  BY <1>1, <1>2, <1>3, <1>5, <1>6, <1>7, <1>8, AcceptBegins
<1>10. Answered(d, c, t, r, now)
  BY <1>1, <1>4, <1>5, <1>6, <1>7, <1>9 DEF Answered
<1> QED
  BY <1>10 DEF r

\* What a verified token does to the coordinator.
LEMMA Received ==
    ASSUME NEW d, NEW c \in Coordinator, Sound(c), NEW t \in Token, NEW now \in Nat
    PROVE  LET r == receiveVerified(d, c, t, now)
               k == keyOf(t)
           IN \/ /\ Quiet(c, r, now)
                 /\ unknown(c, k) => Guarded(r, k, guardUntil(t.issuedAt), now)
              \/ Continues(c, r, k, t.role, now)
              \/ /\ Answered(d, c, t, r, now)
                 /\ t.role = "offer" /\ unknown(c, k) /\ now >= c.saturatedUntil
<1> DEFINE k == keyOf(t)
           r == receiveVerified(d, c, t, now)
<1>0. k \in Key /\ c.saturatedUntil \in Nat /\ guardUntil(t.issuedAt) \in Nat
  BY TokenKey, Fields, Times
<1>1. CASE c.attempts[k].state # "none"
  <2>1. r = dispatch(c, k, t.role, now) \/ r = c
    BY <1>1 DEF receiveVerified, unknown, replaces, joins, newOffer
  <2>2. ~ unknown(c, k)
    BY <1>1 DEF unknown
  <2>3. LET s == dispatch(c, k, t.role, now)
        IN Quiet(c, s, now) \/ Continues(c, s, k, t.role, now)
    BY <1>0, <1>1, DispatchLeaves
  <2>4. Quiet(c, c, now)
    BY QuietSelf
  <2> QED
    BY <2>1, <2>2, <2>3, <2>4
<1>2. CASE c.attempts[k].state = "none" /\ ~ unknown(c, k)
  <2>1. r = c
    BY <1>2 DEF receiveVerified, unknown, replaces, joins, newOffer
  <2> QED
    BY <1>2, <2>1, QuietSelf
<1>3. CASE unknown(c, k) /\ now < c.saturatedUntil
  <2>1. ~ (now >= c.saturatedUntil) /\ ~ (c.attempts[k].state # "none")
    BY <1>0, <1>3 DEF unknown
  <2>2. r = saturate(c, guardUntil(t.issuedAt))
    BY <1>3, <2>1 DEF receiveVerified, replaces, joins, newOffer
  <2> QED
    BY <1>0, <2>2, SaturateIsQuiet
<1>4. CASE replaces(d, c, t, now)
  BY <1>4, ReplacesAnswers DEF replaces, newOffer
<1>5. CASE joins(c, t, now)
  BY <1>5, JoinsAnswers DEF joins, newOffer
<1>6. CASE unknown(c, k) /\ ~ (now < c.saturatedUntil) /\ ~ accepts(d, c, t, now)
  <2> DEFINE m == afterMakeRoom(c, t, now)
  <2>1. now >= c.saturatedUntil /\ ~ (c.attempts[k].state # "none")
    BY <1>0, <1>6 DEF unknown
  <2>2. r = rememberRejected(m, t, now)
    BY <1>6, <2>1 DEF receiveVerified, accepts
  <2>3. Quiet(c, m, now)
    BY MakeRoomIsQuiet
  <2> HIDE DEF m, r
  <2>4. m \in Coordinator /\ Sound(m)
    BY <2>3 DEF Quiet
  <2>5. Quiet(m, r, now) /\ Guarded(r, k, guardUntil(t.issuedAt), now)
    BY <1>0, <2>2, <2>4, RejectedIsGuarded
  <2>6. Quiet(c, r, now)
    BY <2>3, <2>5, QuietAgain
  <2> QED
    BY <2>5, <2>6 DEF r
<1> HIDE DEF r
<1> QED
  BY <1>1, <1>2, <1>3, <1>4, <1>5, <1>6 DEF accepts, r

-----------------------------------------------------------------------------
(* What the devices know of each other.                                    *)

\* Every attempt with an id of I that offers did before.
Offerers(C, D, I) ==
    \A e \in Device, l \in Key : l[2] \in I =>
        LET a == C[e].attempts[l]
            b == D[e].attempts[l]
        IN b.state # "none" /\ b.role = "offerer" => a.state # "none" /\ a.role = "offerer"

LEMMA OffererStays ==
    ASSUME NEW C, NEW D, Offerers(C, D, Id), OneOfferer(C)
    PROVE  OneOfferer(D)
<1> SUFFICES ASSUME NEW d \in Device, NEW e \in Device, NEW k \in Key, NEW l \in Key,
                    D[d].attempts[k].state # "none", D[d].attempts[k].role = "offerer",
                    D[e].attempts[l].state # "none", D[e].attempts[l].role = "offerer",
                    k[2] = l[2]
             PROVE  d = e /\ k = l
  BY DEF OneOfferer
<1>1. /\ C[d].attempts[k].state # "none" /\ C[d].attempts[k].role = "offerer"
      /\ C[e].attempts[l].state # "none" /\ C[e].attempts[l].role = "offerer"
  BY KeyFacts DEF Offerers
<1> QED
  BY <1>1 DEF OneOfferer

\* An attempt that keeps its description is known as before.
LEMMA StaysKnown ==
    ASSUME NEW C, NEW D, NEW P, NEW F, NEW e, NEW l, Known(C, P, F, e, l),
           D[e].attempts[l].state # "none" =>
               /\ C[e].attempts[l].state # "none" /\ Same(C[e].attempts[l], D[e].attempts[l])
               /\ D[e].attempts[l].role = "offerer" /\ D[e].attempts[l].state \in Sent =>
                      C[e].attempts[l].state \in Sent \/ \E t \in P : t.id = l[2]
    PROVE  Known(D, P, F, e, l)
<1> DEFINE a == C[e].attempts[l]
           b == D[e].attempts[l]
<1> SUFFICES ASSUME b.state # "none" PROVE Known(D, P, F, e, l)
  BY DEF Known
<1>1. a.state # "none" /\ Same(a, b)
  OBVIOUS
<1>2. b.role = "offerer" /\ b.state \in Sent => \E t \in P : t.id = l[2]
  BY <1>1 DEF Known, Same
<1> QED
  BY <1>1, <1>2 DEF Known, Same

\* What has ended stays ended.
LEMMA StaysEnded ==
    ASSUME NEW C, NEW D, NEW P \in SUBSET Token, NEW F, NEW e \in Device, NEW l \in Key,
           NEW now \in Nat,
           C[e] \in Coordinator, D[e] \in Coordinator, NEW I, l[2] \in I, Offerers(C, D, I),
           GuardsStay(C[e], D[e], now), ~ live(D[e].attempts[l]), Ended(C, P, F, now, e, l)
    PROVE  Ended(D, P, F, now, e, l)
<1>1. NeverOffered(C, P, e, l) => NeverOffered(D, P, e, l)
  <2>1. l[1] \in Device
    BY KeyFacts
  <2> QED
    BY <2>1 DEF NeverOffered, Offerers
<1>2. \A t \in P : Guarded(C[e], l, guardUntil(t.issuedAt), now) =>
          Guarded(D[e], l, guardUntil(t.issuedAt), now)
  <2>1. \A t \in P : guardUntil(t.issuedAt) \in Nat
    BY Times DEF Token
  <2> QED
    BY <2>1, StaysGuarded
<1> QED
  BY <1>1, <1>2 DEF Ended

\* An attempt that ends is over: it has a guard, or the device itself offered.
LEMMA EndsForGood ==
    ASSUME NEW C, NEW D, NEW P \in SUBSET Token, NEW F, NEW d \in Device, NEW k \in Key, NEW now,
           C[d].attempts[k] \in Attempt, NEW I, k[2] \in I, Offerers(C, D, I), OneOfferer(C), Known(C, P, F, d, k),
           live(C[d].attempts[k]), ~ live(D[d].attempts[k]),
           Guarded(D[d], k, guardUntil(C[d].attempts[k].issuedAt), now)
    PROVE  Ended(D, P, F, now, d, k)
<1> DEFINE a == C[d].attempts[k]
<1>1. a.state # "none" /\ k[1] # d /\ k[2] \notin F /\ k[1] \in Device
  BY KeyFacts DEF live, Known
<1>2. CASE a.role = "answerer"
  BY <1>1, <1>2 DEF Known, Ended
<1>3. CASE a.role = "offerer"
  <2>1. \A t \in P : t.id = k[2] /\ t.from = k[1] => t.role # "offer"
    BY <1>1, <1>3 DEF Known
  <2>2. ASSUME NEW l \in Key, l[2] = k[2], D[k[1]].attempts[l].state # "none"
        PROVE  D[k[1]].attempts[l].role # "offerer"
    <3> SUFFICES ASSUME D[k[1]].attempts[l].role = "offerer" PROVE FALSE
      OBVIOUS
    <3>1. C[k[1]].attempts[l].state # "none" /\ C[k[1]].attempts[l].role = "offerer"
      BY <1>1, <2>2 DEF Offerers
    <3> QED
      BY <1>1, <1>3, <2>2, <3>1 DEF OneOfferer
  <2> QED
    BY <1>1, <2>1, <2>2 DEF Ended, NeverOffered
<1> QED
  BY <1>2, <1>3 DEF Attempt

\* The device d has the coordinator r.
Put(C, d, r) == [C EXCEPT ![d] = r]

\* V has what is in W and what ends at d.
Ending(C, D, d, W, V) ==
    \A e \in Device :
        /\ V[e] \subseteq Key
        /\ \A k \in V[e] \ W[e] :
               e = d /\ live(C[d].attempts[k]) /\ ~ live(D[d].attempts[k])

LEMMA QuietKeeps ==
    ASSUME NEW C, NEW P, NEW F, NEW W, NEW T, Fine(C, P, F, W, T), NEW d \in Device, NEW r,
           Quiet(C[d], r, T[d]), NEW V, Ending(C, Put(C, d, r), d, W, V)
    PROVE  Fine(Put(C, d, r), P, F, V, T)
<1> DEFINE D == Put(C, d, r)
<1>1. /\ D \in [Device -> Coordinator] /\ D[d] = r /\ \A e \in Device : e # d => D[e] = C[e]
  BY DEF Put, Fine, Quiet
<1>2. \A e \in Device : C[e] \in Coordinator /\ D[e] \in Coordinator /\ T[e] \in Nat
  BY <1>1 DEF Fine
<1>3. Quiet(C[d], D[d], T[d]) /\ Ending(C, D, d, W, V)
  BY <1>1
<1> HIDE DEF D
<1>4. \A e \in Device : Sound(D[e]) /\ GuardsStay(C[e], D[e], T[e])
  BY <1>1, <1>2, <1>3, QuietSelf DEF Fine, Quiet
<1>5. \A e \in Device, l \in Key : Rests(C[e], D[e], l, T[e])
  BY <1>1, <1>3 DEF Quiet, Rests
<1>6. \A e \in Device, l \in Key :
          LET a == C[e].attempts[l]
              b == D[e].attempts[l]
          IN b.state # "none" => /\ a.state # "none" /\ Same(a, b)
                                 /\ b.state \in Sent => a.state \in Sent
  BY <1>5 DEF Rests, Same, live, Sent
<1>7. Offerers(C, D, Id)
  BY <1>6 DEF Offerers, Same
<1>8. Issued(D, P, F)
  <2>1. OneOfferer(D)
    BY <1>7, OffererStays DEF Fine, Issued
  <2>2. \A e \in Device, l \in Key : Known(D, P, F, e, l)
    BY <1>6, StaysKnown DEF Fine, Issued
  <2> QED
    BY <2>1, <2>2 DEF Fine, Issued
<1>9. ASSUME NEW e \in Device, NEW l \in V[e] PROVE Ended(D, P, F, T[e], e, l)
  <2>1. l \in Key /\ P \in SUBSET Token
    BY <1>3 DEF Ending, Fine
  <2>2. CASE l \in W[e]
    <3>1. Ended(C, P, F, T[e], e, l)
      BY <2>2 DEF Fine
    <3>2. ~ live(D[e].attempts[l])
      BY <1>5, <2>1, <3>1 DEF Ended, Rests
    <3> QED
      BY <1>2, <1>4, <1>7, <2>1, <3>1, <3>2, KeyFacts, StaysEnded
  <2>3. CASE l \notin W[e]
    <3>1. e = d /\ live(C[d].attempts[l]) /\ ~ live(D[d].attempts[l])
      BY <1>3, <2>3 DEF Ending
    <3>2. Guarded(D[d], l, guardUntil(C[d].attempts[l].issuedAt), T[d])
      BY <1>5, <2>1, <3>1 DEF Rests
    <3>3. C[d].attempts[l] \in Attempt
      BY <1>2, <2>1, Fields
    <3>4. OneOfferer(C) /\ Known(C, P, F, d, l)
      BY <2>1 DEF Fine, Issued
    <3> QED
      BY <1>7, <2>1, <3>1, <3>2, <3>3, <3>4, KeyFacts, EndsForGood
  <2> QED
    BY <2>2, <2>3
<1>10. Fine(D, P, F, V, T)
  BY <1>1, <1>3, <1>4, <1>8, <1>9 DEF Fine, Ending
<1> QED
  BY <1>10 DEF D

LEMMA ContinuesKeeps ==
    ASSUME NEW C, NEW P, NEW F, NEW W, NEW T, Fine(C, P, F, W, T), NEW d \in Device, NEW r,
           NEW k \in Key, NEW event, Continues(C[d], r, k, event, T[d]),
           event \in {"slot-stored", "answer"} => \E t \in P : t.id = k[2],
           NEW V, Ending(C, Put(C, d, r), d, W, V)
    PROVE  Fine(Put(C, d, r), P, F, V, T)
<1> DEFINE D == Put(C, d, r)
           a == C[d].attempts[k]
           b == D[d].attempts[k]
<1>1. /\ D \in [Device -> Coordinator] /\ D[d] = r /\ \A e \in Device : e # d => D[e] = C[e]
  BY DEF Put, Fine, Continues
<1>2. \A e \in Device : C[e] \in Coordinator /\ D[e] \in Coordinator /\ T[e] \in Nat
  BY <1>1 DEF Fine
<1>3. Continues(C[d], D[d], k, event, T[d]) /\ Ending(C, D, d, W, V)
  BY <1>1
<1> HIDE DEF D
<1>4. /\ \A e \in Device, l \in Key : e # d \/ l # k => D[e].attempts[l] = C[e].attempts[l]
      /\ live(a) /\ live(b) /\ a.state # "none" /\ b.state # "none"
      /\ Follows(a, b, event, T[d])
  BY <1>1, <1>3 DEF Continues, live
<1>5. \A e \in Device : Sound(D[e]) /\ GuardsStay(C[e], D[e], T[e])
  <2>1. \A e \in Device : D[e].tombstones = C[e].tombstones
                          /\ D[e].saturatedUntil = C[e].saturatedUntil
    BY <1>1, <1>3 DEF Continues
  <2>2. \A e \in Device : GuardsStay(C[e], D[e], T[e])
    BY <1>2, <2>1, Fields DEF GuardsStay
  <2> QED
    BY <1>1, <1>3, <2>2 DEF Fine, Continues
<1>6. Offerers(C, D, Id)
  <2> SUFFICES ASSUME NEW e \in Device, NEW l \in Key, D[e].attempts[l].state # "none",
                      D[e].attempts[l].role = "offerer"
               PROVE  C[e].attempts[l].state # "none" /\ C[e].attempts[l].role = "offerer"
    BY DEF Offerers
  <2>1. CASE e # d \/ l # k
    BY <1>4, <2>1
  <2>2. CASE e = d /\ l = k
    BY <1>4, <2>2 DEF Follows
  <2> QED
    BY <2>1, <2>2
<1>7. Known(D, P, F, d, k)
  <2>1. Known(C, P, F, d, k)
    BY DEF Fine, Issued
  <2>2. CASE Same(a, b)
    <3>1. b.role = "offerer" /\ b.state \in Sent =>
              a.state \in Sent \/ \E t \in P : t.id = k[2]
      BY <1>4 DEF Follows
    <3> QED
      BY <1>4, <2>1, <2>2, <3>1, StaysKnown
  <2>3. CASE ~ Same(a, b)
    <3>1. /\ b.role = "offerer" /\ a.role = "offerer" /\ ~ a.tokenEpochStarted
          /\ b.tokenEpochStarted /\ b.issuedAt = T[d]
          /\ b.expiresAt = receiveDeadline(b.issuedAt) /\ b.state \notin Sent
      BY <1>4, <2>3 DEF Follows
    <3>2. k[1] # d /\ k[2] \notin F /\ \A t \in P : t.id # k[2]
      BY <1>4, <2>1, <3>1 DEF Known
    <3> HIDE DEF b
    <3>3. D[d].attempts[k] = b
      BY DEF b
    <3> QED
      BY <3>1, <3>2, <3>3 DEF Known
  <2> QED
    BY <2>2, <2>3
<1>8. Issued(D, P, F)
  <2>1. OneOfferer(D)
    BY <1>6, OffererStays DEF Fine, Issued
  <2>2. ASSUME NEW e \in Device, NEW l \in Key, e # d \/ l # k PROVE Known(D, P, F, e, l)
    <3>1. Known(C, P, F, e, l) /\ D[e].attempts[l] = C[e].attempts[l]
      BY <1>4, <2>2 DEF Fine, Issued
    <3> QED
      BY <3>1, StaysKnown DEF Same
  <2> QED
    BY <1>7, <2>1, <2>2 DEF Fine, Issued
<1>9. ASSUME NEW e \in Device, NEW l \in V[e] PROVE Ended(D, P, F, T[e], e, l)
  <2>1. l \in Key /\ P \in SUBSET Token
    BY <1>3 DEF Ending, Fine
  <2>2. l \in W[e]
    BY <1>3, <1>4, <2>1 DEF Ending
  <2>3. Ended(C, P, F, T[e], e, l)
    BY <2>2 DEF Fine
  <2>4. e # d \/ l # k
    BY <1>4, <2>3 DEF Ended
  <2>5. ~ live(D[e].attempts[l])
    BY <1>4, <2>1, <2>3, <2>4 DEF Ended
  <2> QED
    BY <1>2, <1>5, <1>6, <2>1, <2>3, <2>5, KeyFacts, StaysEnded
<1>10. Fine(D, P, F, V, T)
  BY <1>1, <1>3, <1>5, <1>8, <1>9 DEF Fine, Ending
<1> QED
  BY <1>10 DEF D

\* A new answerer; its offer has been published, and is not over.
LEMMA AnswerKeeps ==
    ASSUME NEW C, NEW P, NEW F, NEW W, NEW T, Fine(C, P, F, W, T), NEW d \in Device, NEW r,
           NEW t \in P, t.role = "offer", t.to = d, keyOf(t) \notin W[d],
           C[d].attempts[keyOf(t)].state = "none",
           NEW a \in Attempt, Allowed(a), a.state # "none", Answering(a, t),
           Begins(C[d], r, keyOf(t), a, T[d]),
           NEW V, Ending(C, Put(C, d, r), d, W, V)
    PROVE  Fine(Put(C, d, r), P, F, V, T)
<1> DEFINE D == Put(C, d, r)
           k == keyOf(t)
           b == D[d].attempts[k]
<1>0. t \in Token /\ k \in Key /\ k[1] = t.from /\ k[2] = t.id /\ P \in SUBSET Token
  <2>1. P \in SUBSET Token
    BY DEF Fine
  <2> QED
    BY <2>1, TokenKey
<1>1. /\ D \in [Device -> Coordinator] /\ D[d] = r /\ \A e \in Device : e # d => D[e] = C[e]
  BY DEF Put, Fine, Begins
<1>2. \A e \in Device : C[e] \in Coordinator /\ D[e] \in Coordinator /\ T[e] \in Nat
  BY <1>1 DEF Fine
<1>3. Begins(C[d], D[d], k, a, T[d]) /\ Ending(C, D, d, W, V)
  BY <1>1
<1> HIDE DEF D, k
<1>4. \A e \in Device : Sound(D[e]) /\ GuardsStay(C[e], D[e], T[e])
  BY <1>1, <1>2, <1>3, QuietSelf DEF Fine, Begins, Quiet
<1>5. \A e \in Device, l \in Key : e # d \/ l # k => Rests(C[e], D[e], l, T[e])
  BY <1>1, <1>3 DEF Begins, Rests
<1>6. \A e \in Device, l \in Key : e # d \/ l # k =>
          LET o == C[e].attempts[l]
              n == D[e].attempts[l]
          IN n.state # "none" => /\ o.state # "none" /\ Same(o, n)
                                 /\ n.state \in Sent => o.state \in Sent
  BY <1>5 DEF Rests, Same, live, Sent
<1>7. b.state # "none" => Same(a, b)
  BY <1>3 DEF Begins, k
<1>8. Offerers(C, D, Id)
  <2> SUFFICES ASSUME NEW e \in Device, NEW l \in Key, D[e].attempts[l].state # "none",
                      D[e].attempts[l].role = "offerer"
               PROVE  C[e].attempts[l].state # "none" /\ C[e].attempts[l].role = "offerer"
    BY DEF Offerers
  <2>1. CASE e # d \/ l # k
    BY <1>6, <2>1 DEF Same
  <2>2. CASE e = d /\ l = k
    BY <1>7, <2>2 DEF Same, Answering
  <2> QED
    BY <2>1, <2>2
<1>9. Known(D, P, F, d, k)
  <2> SUFFICES ASSUME b.state # "none" PROVE Known(D, P, F, d, k)
    BY DEF Known
  <2>1. b.role = "answerer" /\ b.issuedAt = t.issuedAt /\ b.expiresAt <= b.issuedAt + Lifetime
    BY <1>7 DEF Same, Answering
  <2>2. t.id \notin F /\ t.from # d
    BY DEF Fine, Issued, OneIssue
  <2> HIDE DEF b
  <2>3. D[d].attempts[k] = b
    BY DEF b
  <2> QED
    BY <1>0, <2>1, <2>2, <2>3 DEF Known
<1>10. Issued(D, P, F)
  <2>1. OneOfferer(D)
    BY <1>8, OffererStays DEF Fine, Issued
  <2>2. ASSUME NEW e \in Device, NEW l \in Key, e # d \/ l # k PROVE Known(D, P, F, e, l)
    <3>1. Known(C, P, F, e, l)
      BY DEF Fine, Issued
    <3> QED
      BY <1>6, <2>2, <3>1, StaysKnown
  <2> QED
    BY <1>9, <2>1, <2>2 DEF Fine, Issued
<1>11. ASSUME NEW e \in Device, NEW l \in V[e] PROVE Ended(D, P, F, T[e], e, l)
  <2>1. l \in Key
    BY <1>3 DEF Ending
  <2>2. e # d \/ l # k
    <3> SUFFICES ASSUME e = d, l = k PROVE FALSE
      OBVIOUS
    <3>1. ~ live(C[d].attempts[k])
      BY DEF live, k
    <3> QED
      BY <1>3, <3>1 DEF Ending, k
  <2>3. CASE l \in W[e]
    <3>1. Ended(C, P, F, T[e], e, l)
      BY <2>3 DEF Fine
    <3>2. ~ live(D[e].attempts[l])
      BY <1>5, <2>1, <2>2, <3>1 DEF Ended, Rests
    <3> QED
      BY <1>0, <1>2, <1>4, <1>8, <2>1, <3>1, <3>2, KeyFacts, StaysEnded
  <2>4. CASE l \notin W[e]
    <3>1. e = d /\ live(C[d].attempts[l]) /\ ~ live(D[d].attempts[l])
      BY <1>3, <2>4 DEF Ending
    <3>2. Guarded(D[d], l, guardUntil(C[d].attempts[l].issuedAt), T[d])
      BY <1>5, <2>1, <2>2, <3>1 DEF Rests
    <3>3. C[d].attempts[l] \in Attempt
      BY <1>2, <2>1, Fields
    <3>4. OneOfferer(C) /\ Known(C, P, F, d, l)
      BY <2>1 DEF Fine, Issued
    <3> QED
      BY <1>0, <1>8, <2>1, <3>1, <3>2, <3>3, <3>4, KeyFacts, EndsForGood
  <2> QED
    BY <2>3, <2>4
<1>12. Fine(D, P, F, V, T)
  BY <1>1, <1>3, <1>4, <1>10, <1>11 DEF Fine, Ending
<1> QED
  BY <1>12 DEF D

\* A new offerer, with an id of its own.
LEMMA OfferKeeps ==
    ASSUME NEW C, NEW P, NEW F \in SUBSET Id, NEW W, NEW T, Fine(C, P, F, W, T),
           NEW d \in Device, NEW r, NEW k \in Key, k[1] # d, k[2] \in F,
           NEW a \in Attempt, live(a), Offering(a, T[d]), Begins(C[d], r, k, a, T[d]),
           NEW V, Ending(C, Put(C, d, r), d, W, V)
    PROVE  Fine(Put(C, d, r), P, F \ {k[2]}, V, T)
<1> DEFINE D == Put(C, d, r)
           G == F \ {k[2]}
           b == D[d].attempts[k]
<1>0. P \in SUBSET Token
  BY DEF Fine
<1>1. /\ D \in [Device -> Coordinator] /\ D[d] = r /\ \A e \in Device : e # d => D[e] = C[e]
  BY DEF Put, Fine, Begins
<1>2. \A e \in Device : C[e] \in Coordinator /\ D[e] \in Coordinator /\ T[e] \in Nat
  BY <1>1 DEF Fine
<1>3. Begins(C[d], D[d], k, a, T[d]) /\ Ending(C, D, d, W, V)
  BY <1>1
<1> HIDE DEF D, G
<1>4. \A e \in Device : Sound(D[e]) /\ GuardsStay(C[e], D[e], T[e])
  BY <1>1, <1>2, <1>3, QuietSelf DEF Fine, Begins, Quiet
<1>5. \A e \in Device, l \in Key : e # d \/ l # k => Rests(C[e], D[e], l, T[e])
  BY <1>1, <1>3 DEF Begins, Rests
<1>6. \A e \in Device, l \in Key : e # d \/ l # k =>
          LET o == C[e].attempts[l]
              n == D[e].attempts[l]
          IN n.state # "none" => /\ o.state # "none" /\ Same(o, n)
                                 /\ n.state \in Sent => o.state \in Sent
  BY <1>5 DEF Rests, Same, live, Sent
<1>7. \A e \in Device, l \in Key : C[e].attempts[l].state # "none" => l[2] # k[2]
  BY DEF Fine, Issued, Known
<1>8. C[d].attempts[k].state = "none"
  BY <1>7
<1>9. b.state # "none" => Same(a, b) /\ b.state \notin Sent
  <2>1. a.state \notin Sent
    BY DEF Offering, Sent
  <2>2. CASE live(b)
    BY <1>3, <2>1, <2>2 DEF Begins, Same
  <2>3. CASE ~ live(b)
    BY <1>3, <1>8, <2>3 DEF Begins, live, Sent
  <2> QED
    BY <2>2, <2>3
<1>10. Offerers(C, D, Id \ {k[2]})
  <2> SUFFICES ASSUME NEW e \in Device, NEW l \in Key, l[2] # k[2],
                      D[e].attempts[l].state # "none", D[e].attempts[l].role = "offerer"
               PROVE  C[e].attempts[l].state # "none" /\ C[e].attempts[l].role = "offerer"
    BY DEF Offerers
  <2> QED
    BY <1>6 DEF Same
<1>11. OneOfferer(D)
  <2> SUFFICES ASSUME NEW e \in Device, NEW f \in Device, NEW l \in Key, NEW m \in Key,
                      D[e].attempts[l].state # "none", D[e].attempts[l].role = "offerer",
                      D[f].attempts[m].state # "none", D[f].attempts[m].role = "offerer",
                      l[2] = m[2]
               PROVE  e = f /\ l = m
    BY DEF OneOfferer
  <2>1. CASE l[2] = k[2]
    BY <1>6, <1>7, <2>1
  <2>2. CASE l[2] # k[2]
    <3>1. /\ C[e].attempts[l].state # "none" /\ C[e].attempts[l].role = "offerer"
          /\ C[f].attempts[m].state # "none" /\ C[f].attempts[m].role = "offerer"
      BY <1>10, <2>2, KeyFacts DEF Offerers
    <3> QED
      BY <3>1 DEF Fine, Issued, OneOfferer
  <2> QED
    BY <2>1, <2>2
<1>12. Known(D, P, G, d, k)
  <2> SUFFICES ASSUME b.state # "none" PROVE Known(D, P, G, d, k)
    BY DEF Known
  <2>1. b.role = "offerer" /\ ~ b.tokenEpochStarted /\ b.state \notin Sent
    BY <1>9 DEF Same, Offering
  <2>2. \A t \in P : t.id # k[2]
    BY DEF Fine, Issued, OneIssue
  <2> HIDE DEF b
  <2>3. D[d].attempts[k] = b
    BY DEF b
  <2> QED
    BY <2>1, <2>2, <2>3 DEF Known, G
<1>13. Issued(D, P, G)
  <2>1. OneIssue(P, G)
    BY DEF Fine, Issued, OneIssue, G
  <2>2. ASSUME NEW e \in Device, NEW l \in Key, e # d \/ l # k PROVE Known(D, P, G, e, l)
    <3>1. Known(C, P, G, e, l)
      BY DEF Fine, Issued, Known, G
    <3> QED
      BY <1>6, <2>2, <3>1, StaysKnown
  <2> QED
    BY <1>11, <1>12, <2>1, <2>2 DEF Issued
<1>14. ASSUME NEW e \in Device, NEW l \in V[e] PROVE Ended(D, P, G, T[e], e, l)
  <2>1. l \in Key
    BY <1>3 DEF Ending
  <2>2. CASE l \in W[e]
    <3>1. Ended(C, P, G, T[e], e, l) /\ l[2] # k[2]
      BY <2>2 DEF Fine, Ended, G
    <3>2. ~ live(D[e].attempts[l])
      BY <1>5, <2>1, <3>1 DEF Ended, Rests
    <3>3. l[2] \in Id \ {k[2]}
      BY <2>1, <3>1, KeyFacts
    <3> QED
      BY <1>0, <1>2, <1>4, <1>10, <2>1, <3>1, <3>2, <3>3, StaysEnded
  <2>3. CASE l \notin W[e]
    <3>1. e = d /\ live(C[d].attempts[l]) /\ ~ live(D[d].attempts[l])
      BY <1>3, <2>3 DEF Ending
    <3>2. l[2] # k[2]
      BY <1>7, <2>1, <3>1 DEF live
    <3>3. Guarded(D[d], l, guardUntil(C[d].attempts[l].issuedAt), T[d])
      BY <1>5, <2>1, <3>1, <3>2 DEF Rests
    <3>4. C[d].attempts[l] \in Attempt
      BY <1>2, <2>1, Fields
    <3>5. OneOfferer(C) /\ Known(C, P, G, d, l)
      BY <2>1 DEF Fine, Issued, Known, G
    <3>6. l[2] \in Id \ {k[2]}
      BY <2>1, <3>2, KeyFacts
    <3> QED
      BY <1>0, <1>10, <2>1, <3>1, <3>3, <3>4, <3>5, <3>6, EndsForGood
  <2> QED
    BY <2>2, <2>3
<1>15. Fine(D, P, G, V, T)
  BY <1>0, <1>1, <1>3, <1>4, <1>13, <1>14 DEF Fine, Ending
<1> QED
  BY <1>15 DEF D, G

\* The attempt k of d says this in t.
Signed(C, d, k, t) ==
    LET a == C[d].attempts[k]
    IN /\ t \in Token /\ t.from = d /\ t.to = k[1] /\ t.id = k[2]
       /\ a.state # "none" /\ a.tokenEpochStarted /\ t.issuedAt = a.issuedAt
       /\ t.role = "offer" => a.role = "offerer"

LEMMA TokenKeeps ==
    ASSUME NEW C, NEW P, NEW F, NEW W, NEW T, Fine(C, P, F, W, T), NEW d \in Device,
           NEW k \in Key, NEW t, Signed(C, d, k, t)
    PROVE  Fine(C, P \cup {t}, F, W, T)
<1> DEFINE Q == P \cup {t}
           a == C[d].attempts[k]
<1>0. C[d].attempts[k] \in Attempt
  BY Fields DEF Fine
<1>1. Known(C, P, F, d, k) /\ OneIssue(P, F) /\ OneOfferer(C)
  BY DEF Fine, Issued
<1>2. k[1] # d /\ k[2] \notin F
  BY <1>1 DEF Known, Signed
<1>3. \A x \in P : x.id = t.id => x.issuedAt = t.issuedAt
  <2>1. CASE a.role = "offerer"
    BY <1>1, <2>1 DEF Known, Signed
  <2>2. CASE a.role = "answerer"
    BY <1>1, <2>2 DEF Known, Signed, OneIssue
  <2> QED
    BY <1>0, <2>1, <2>2 DEF Attempt
<1>4. OneIssue(Q, F)
  BY <1>1, <1>2, <1>3 DEF OneIssue, Signed
<1>5. ASSUME NEW e \in Device, NEW l \in Key PROVE Known(C, Q, F, e, l)
  <2> DEFINE o == C[e].attempts[l]
  <2>1. Known(C, P, F, e, l)
    BY DEF Fine, Issued
  <2>2. ASSUME o.state # "none", o.role = "offerer", t.id = l[2]
        PROVE  o.tokenEpochStarted /\ t.issuedAt = o.issuedAt /\ (t.role = "offer" => t.from = e)
    <3>1. CASE a.role = "offerer"
      <4>1. e = d /\ l = k
        BY <1>1, <2>2, <3>1 DEF OneOfferer, Signed
      <4> QED
        BY <4>1 DEF Signed
    <3>2. CASE a.role = "answerer"
      <4>1. \E x \in P : x.id = l[2]
        BY <1>1, <2>2, <3>2 DEF Known, Signed
      <4> QED
        BY <1>3, <2>1, <2>2, <3>2, <4>1 DEF Known, Signed
    <3> QED
      BY <1>0, <3>1, <3>2 DEF Attempt
  <2> QED
    BY <2>1, <2>2 DEF Known
<1>6. ASSUME NEW e \in Device, NEW l \in W[e] PROVE Ended(C, Q, F, T[e], e, l)
  <2>1. Ended(C, P, F, T[e], e, l) /\ l \in Key
    BY DEF Fine
  <2>2. NeverOffered(C, P, e, l) => NeverOffered(C, Q, e, l)
    BY DEF NeverOffered, Signed
  <2> QED
    BY <2>1, <2>2 DEF Ended
<1>7. Q \in SUBSET Token
  BY DEF Fine, Signed
<1> QED
  BY <1>1, <1>4, <1>5, <1>6, <1>7 DEF Fine, Issued

\* k has ended as well.
LEMMA AlsoEnded ==
    ASSUME NEW C, NEW P, NEW F, NEW W, NEW T, Fine(C, P, F, W, T), NEW d \in Device,
           NEW k \in Key, Ended(C, P, F, T[d], d, k),
           NEW V, \A e \in Device : \A l \in V[e] : l \in W[e] \/ (e = d /\ l = k)
    PROVE  Fine(C, P, F, V, T)
BY DEF Fine

-----------------------------------------------------------------------------
(* The steps of the devices.                                               *)

\* The variables that no guard depends on.
Others ==
    /\ boot \in [Device -> Nat] /\ remote \in [Device -> [Key -> Nat]]
    /\ refusals \subseteq Refusal /\ taken \subseteq Taken
    /\ failures \in Nat /\ reloads \in Nat

LEMMA ClocksAreTimes ==
    ASSUME TypeOK
    PROVE  clocks \in [Device -> Nat] /\ \A d \in Device : clocks[d] = clock(d) /\ clock(d) \in Nat
<1>1. \A d \in Device : clock(d) \in Nat
  BY Times DEF TypeOK, clock
<1> QED
  BY <1>1 DEF clocks

\* A step of one device that refuses no offer.
LEMMA StepKeeps ==
    ASSUME RepairInv, Others', fresh' \subseteq Id, UNCHANGED <<time, offset, refusals>>,
           published \subseteq published', finished' \in [Device -> SUBSET Key],
           Fine(coordinator', published', fresh', finished', clocks)
    PROVE  RepairInv'
<1>1. clocks' = clocks
  BY DEF clocks, clock
<1>2. Fine(coordinator, published, fresh, finished, clocks)'
  BY <1>1
<1>3. TypeOK'
  BY DEF RepairInv, TypeOK, Others, Fine
<1>4. (\A r \in refusals : Lost(published, r))'
  BY DEF RepairInv, Lost
<1> QED
  BY <1>2, <1>3, <1>4 DEF RepairInv

\* What ends when d's coordinator becomes r.
LEMMA SettleFacts ==
    ASSUME TypeOK, NEW d \in Device, NEW r, NEW R \in SUBSET Key, Settle(d, r, R)
    PROVE  /\ coordinator' = Put(coordinator, d, r)
           /\ finished' \in [Device -> SUBSET Key]
           /\ \A e \in Device : e # d => finished'[e] = finished[e]
           /\ finished'[d] = finished[d] \cup R \cup (activeKeys(coordinator[d]) \ activeKeys(r))
BY DEF Put, Settle, TypeOK, activeKeys

LEMMA SettleEnding ==
    ASSUME TypeOK, NEW d \in Device, NEW r, Settle(d, r, {})
    PROVE  Ending(coordinator, Put(coordinator, d, r), d, finished, finished')
<1>1. /\ finished' \in [Device -> SUBSET Key]
      /\ \A e \in Device : e # d => finished'[e] = finished[e]
      /\ finished'[d] = finished[d] \cup (activeKeys(coordinator[d]) \ activeKeys(r))
  BY SettleFacts
<1>2. Put(coordinator, d, r)[d] = r
  BY DEF Put, TypeOK
<1> QED
  BY <1>1, <1>2 DEF Ending, activeKeys

LEMMA DispatchKeeps ==
    ASSUME TypeOK, NEW P, Fine(coordinator, P, fresh, finished, clocks),
           NEW d \in Device, NEW k \in Key, NEW event, attempt(d, k).state # "none",
           Dispatch(d, k, event),
           event \in {"slot-stored", "answer"} => \E t \in P : t.id = k[2]
    PROVE  Fine(coordinator', P, fresh, finished', clocks) /\ finished' \in [Device -> SUBSET Key]
<1> DEFINE c == coordinator[d]
           r == dispatch(c, k, event, clock(d))
<1>1. c \in Coordinator /\ Sound(c) /\ clocks[d] = clock(d) /\ clock(d) \in Nat
  BY ClocksAreTimes DEF Fine
<1>2. Quiet(c, r, clocks[d]) \/ Continues(c, r, k, event, clocks[d])
  BY <1>1, DispatchLeaves DEF attempt
<1> HIDE DEF r
<1>3. Settle(d, r, {})
  BY DEF Dispatch, r
<1>4. coordinator' = Put(coordinator, d, r) /\ finished' \in [Device -> SUBSET Key]
      /\ Ending(coordinator, Put(coordinator, d, r), d, finished, finished')
  BY <1>3, SettleFacts, SettleEnding
<1>5. CASE Quiet(c, r, clocks[d])
  BY <1>4, <1>5, QuietKeeps
<1>6. CASE Continues(c, r, k, event, clocks[d])
  BY <1>4, <1>6, ContinuesKeeps
<1> QED
  BY <1>2, <1>4, <1>5, <1>6

\* The attempt k of d may sign this.
LEMMA SignedFacts ==
    ASSUME TypeOK, NEW d \in Device, NEW k \in Key, NEW role \in SlotRole,
           attempt(d, k).state # "none", attempt(d, k).tokenEpochStarted,
           role = "offer" => attempt(d, k).role = "offerer"
    PROVE  Signed(coordinator, d, k, token(d, k, role))
<1>1. attempt(d, k) \in Attempt /\ k[1] \in Device /\ k[2] \in Id /\ boot[d] \in Nat
  BY Fields, KeyFacts DEF TypeOK, attempt
<1>2. attempt(d, k).issuedAt \in Nat
  BY <1>1 DEF Attempt
<1> QED
  BY <1>1, <1>2 DEF Signed, token, Token, attempt

LEMMA AbortKeeps ==
    ASSUME RepairInv, NEW d \in Device, NEW k \in Key, PublishAbort(d, k)
    PROVE  Fine(coordinator, published', fresh, finished, clocks) /\ published \subseteq published'
<1>1. CASE published' = published
  BY <1>1 DEF RepairInv
<1>2. CASE publishesAbort(attempt(d, k), clock(d))
           /\ published' = published \cup {token(d, k, "abort")}
  <2>1. attempt(d, k).state # "none" /\ attempt(d, k).tokenEpochStarted
    BY <1>2 DEF publishesAbort, live
  <2>2. Signed(coordinator, d, k, token(d, k, "abort"))
    BY <2>1, SignedFacts DEF RepairInv, SlotRole
  <2> QED
    BY <1>2, <2>2, TokenKeeps DEF RepairInv
<1> QED
  BY <1>1, <1>2 DEF PublishAbort

LEMMA SlotKeeps ==
    ASSUME RepairInv, NEW d \in Device, NEW k \in Key, attempt(d, k).state \in Publishing,
           published' = published \cup {token(d, k, publishedRole(attempt(d, k)))}
    PROVE  /\ Fine(coordinator, published', fresh, finished, clocks)
           /\ published \subseteq published'
           /\ \E t \in published' : t.id = k[2]
<1> DEFINE a == attempt(d, k)
           role == publishedRole(a)
<1>1. a \in Attempt /\ Allowed(a)
  BY Fields DEF RepairInv, Fine, attempt, Sound, Shape
<1>2. a.role \in {"offerer", "answerer"} /\ a.state \in Publishing
  BY <1>1 DEF Attempt
<1>3. a.state # "none" /\ a.tokenEpochStarted
  BY <1>1, <1>2 DEF Allowed, Publishing, Terminal
<1>4. role \in SlotRole /\ (role = "offer" => a.state = "publishing-offer")
  BY <1>2 DEF publishedRole, Publishing, SlotRole
<1>5. role = "offer" => a.role = "offerer"
  BY <1>1, <1>2, <1>4 DEF Allowed
<1>6. Signed(coordinator, d, k, token(d, k, role))
  BY <1>3, <1>4, <1>5, SignedFacts DEF RepairInv
<1>7. Fine(coordinator, published', fresh, finished, clocks)
  BY <1>6, TokenKeeps DEF RepairInv
<1>8. token(d, k, role).id = k[2] /\ token(d, k, role) \in published'
  BY DEF token
<1> QED
  BY <1>7, <1>8

LEMMA PrepareKeeps ==
    ASSUME RepairInv, NEW d \in Device, NEW k \in Key, Prepare(d, k)
    PROVE  RepairInv'
<1> DEFINE a == attempt(d, k)
<1>1. a.state \in Working \ Publishing /\ a.state # "none"
  BY DEF Prepare, Working, Publishing
<1>2. completion(a) \notin {"slot-stored", "answer"}
  BY <1>1 DEF completion, Working, Publishing
<1>3. Fine(coordinator', published, fresh, finished', clocks)
      /\ finished' \in [Device -> SUBSET Key]
  BY <1>1, <1>2, DispatchKeeps DEF RepairInv, Prepare
<1> QED
  BY <1>3, StepKeeps DEF RepairInv, TypeOK, Others, Prepare, unrelated

LEMMA PublishKeeps ==
    ASSUME RepairInv, NEW d \in Device, NEW k \in Key, Publish(d, k)
    PROVE  RepairInv'
<1> DEFINE a == attempt(d, k)
<1>1. a.state \in Publishing /\ a.state # "none"
  BY DEF Publish, Publishing
<1>2. /\ Fine(coordinator, published', fresh, finished, clocks)
      /\ published \subseteq published'
      /\ \E t \in published' : t.id = k[2]
  BY <1>1, SlotKeeps DEF Publish
<1>3. Fine(coordinator', published', fresh, finished', clocks)
      /\ finished' \in [Device -> SUBSET Key]
  BY <1>1, <1>2, DispatchKeeps DEF RepairInv, Publish
<1> QED
  BY <1>2, <1>3, StepKeeps DEF RepairInv, TypeOK, Others, Publish, unrelated

LEMMA FailKeeps ==
    ASSUME RepairInv, NEW d \in Device, NEW k \in Key, Fail(d, k)
    PROVE  RepairInv'
<1> DEFINE a == attempt(d, k)
<1>1. a.state # "none"
  BY DEF Fail, Working, Publishing
<1>2. Fine(coordinator, published', fresh, finished, clocks) /\ published \subseteq published'
  <2>1. CASE PublishAbort(d, k)
    BY <2>1, AbortKeeps
  <2>2. CASE a.state \in Publishing
             /\ published' = published \cup {token(d, k, publishedRole(a))}
    BY <2>2, SlotKeeps
  <2> QED
    BY <2>1, <2>2 DEF Fail
<1>3. Fine(coordinator', published', fresh, finished', clocks)
      /\ finished' \in [Device -> SUBSET Key]
  BY <1>1, <1>2, DispatchKeeps DEF RepairInv, Fail
<1>4. failures' \in Nat
  BY DEF Fail, RepairInv, TypeOK
<1> QED
  BY <1>2, <1>3, <1>4, StepKeeps DEF RepairInv, TypeOK, Others, Fail

LEMMA EventKeeps ==
    ASSUME RepairInv, NEW d \in Device, NEW k \in Key,
           NEW event \in {"connectivity-timeout", "channel-open", "expire"},
           attempt(d, k).state # "none", Dispatch(d, k, event),
           UNCHANGED <<remote, published, refusals, taken, unrelated>>
    PROVE  RepairInv'
<1>1. Fine(coordinator', published, fresh, finished', clocks)
      /\ finished' \in [Device -> SUBSET Key]
  BY DispatchKeeps DEF RepairInv
<1> QED
  BY <1>1, StepKeeps DEF RepairInv, TypeOK, Others, unrelated

\* A quiet step before another one.
LEMMA QuietFirst ==
    ASSUME NEW C, NEW P, NEW F, NEW W, NEW T, Fine(C, P, F, W, T), NEW d \in Device, NEW m,
           Quiet(C[d], m, T[d]), NEW r, NEW V, Ending(C, Put(C, d, r), d, W, V)
    PROVE  LET D == Put(C, d, m)
           IN /\ D[d] = m /\ Put(D, d, r) = Put(C, d, r)
              /\ \E U : /\ Fine(D, P, F, U, T) /\ Ending(C, D, d, W, U)
                        /\ Ending(D, Put(C, d, r), d, U, V)
<1> DEFINE D == Put(C, d, m)
           E == Put(C, d, r)
           U == [e \in Device |-> W[e] \cup
                    {l \in Key : e = d /\ live(C[d].attempts[l]) /\ ~ live(m.attempts[l])}]
<1>1. D[d] = m /\ E[d] = r /\ Put(D, d, r) = E
  BY DEF Put, Fine
<1>2. Ending(C, D, d, W, U)
  <2>1. \A e \in Device : W[e] \subseteq Key
    BY DEF Fine
  <2> QED
    BY <1>1, <2>1 DEF Ending
<1>3. Fine(D, P, F, U, T)
  BY <1>2, QuietKeeps
<1>4. Ending(D, E, d, U, V)
  <2>1. Ending(C, E, d, W, V)
    OBVIOUS
  <2> HIDE DEF D, E
  <2> QED
    BY <1>1, <2>1 DEF Ending
<1> QED
  BY <1>1, <1>2, <1>3, <1>4

\* What a verified token does, when it is read.
LEMMA ReceivedKeeps ==
    ASSUME NEW C, NEW P, NEW F, NEW W, NEW T, Fine(C, P, F, W, T), NEW d \in Device,
           NEW t \in P, t.to = d, T[d] < t.issuedAt + Lifetime + Skew,
           NEW V, LET r == receiveVerified(d, C[d], t, T[d])
                  IN Ending(C, Put(C, d, r), d, W, V)
    PROVE  LET r == receiveVerified(d, C[d], t, T[d])
               k == keyOf(t)
           IN /\ Fine(Put(C, d, r), P, F, V, T)
              /\ unknown(C[d], k) /\ ~ live(r.attempts[k]) =>
                     Ended(Put(C, d, r), P, F, T[d], d, k)
<1> DEFINE c == C[d]
           k == keyOf(t)
           r == receiveVerified(d, c, t, T[d])
           D == Put(C, d, r)
<1>1. c \in Coordinator /\ Sound(c) /\ T[d] \in Nat /\ t \in Token /\ k \in Key /\ k[2] = t.id
  <2>1. c \in Coordinator /\ Sound(c) /\ T[d] \in Nat /\ t \in Token
    BY DEF Fine
  <2> QED
    BY <2>1, TokenKey
<1>2. \/ /\ Quiet(c, r, T[d])
         /\ unknown(c, k) => Guarded(r, k, guardUntil(t.issuedAt), T[d])
      \/ Continues(c, r, k, t.role, T[d])
      \/ /\ Answered(d, c, t, r, T[d])
         /\ t.role = "offer" /\ unknown(c, k) /\ T[d] >= c.saturatedUntil
  BY <1>1, Received
<1> HIDE DEF r
<1>3. Ending(C, D, d, W, V) /\ D[d] = r
  BY DEF r, Put, Fine
<1>4. ASSUME ~ live(r.attempts[k]), Guarded(r, k, guardUntil(t.issuedAt), T[d])
      PROVE  Ended(D, P, F, T[d], d, k)
  <2>1. k[2] \notin F
    BY <1>1 DEF Fine, Issued, OneIssue
  <2> HIDE DEF D
  <2> QED
    BY <1>1, <1>3, <1>4, <2>1 DEF Ended
<1>5. ASSUME Quiet(c, r, T[d]), unknown(c, k) => Guarded(r, k, guardUntil(t.issuedAt), T[d])
      PROVE  Fine(D, P, F, V, T)
             /\ (unknown(c, k) /\ ~ live(r.attempts[k]) => Ended(D, P, F, T[d], d, k))
  BY <1>3, <1>4, <1>5, QuietKeeps
<1>6. ASSUME Continues(c, r, k, t.role, T[d])
      PROVE  Fine(D, P, F, V, T) /\ ~ unknown(c, k)
  <2>1. t.role \in {"slot-stored", "answer"} => \E x \in P : x.id = k[2]
    BY <1>1
  <2>2. Fine(D, P, F, V, T)
    BY <1>1, <1>3, <1>6, <2>1, ContinuesKeeps
  <2>3. ~ unknown(c, k)
    BY <1>6 DEF Continues, unknown, live
  <2> QED
    BY <2>2, <2>3
<1>7. ASSUME Answered(d, c, t, r, T[d]), t.role = "offer", unknown(c, k), T[d] >= c.saturatedUntil
      PROVE  Fine(D, P, F, V, T) /\ (~ live(r.attempts[k]) => Ended(D, P, F, T[d], d, k))
  <2>1. PICK a \in Attempt, m \in Coordinator :
            /\ Allowed(a) /\ a.state # "none" /\ Answering(a, t)
            /\ Quiet(c, m, T[d]) /\ m.attempts[k].state = "none"
            /\ Begins(m, r, k, a, T[d])
    BY <1>7 DEF Answered
  <2>2. k \notin W[d]
    <3> SUFFICES ASSUME k \in W[d] PROVE FALSE
      OBVIOUS
    <3>1. Ended(C, P, F, T[d], d, k)
      BY DEF Fine
    <3>2. ~ NeverOffered(C, P, d, k)
      BY <1>7 DEF NeverOffered, keyOf
    <3>3. PICK x \in P : x.id = k[2] /\ Guarded(c, k, guardUntil(x.issuedAt), T[d])
      BY <3>1, <3>2 DEF Ended
    <3>4. x.issuedAt = t.issuedAt
      BY <1>1, <3>3 DEF Fine, Issued, OneIssue
    <3>5. t.issuedAt \in Nat /\ c.tombstones[k] = 0 /\ c.saturatedUntil \in Nat
      BY <1>1, <1>7, Fields DEF unknown, Token
    <3>6. guardUntil(t.issuedAt) > T[d] /\ guardUntil(t.issuedAt) \in Nat
      BY <1>1, <3>5, Times DEF guardUntil
    <3> QED
      BY <1>1, <1>7, <3>3, <3>4, <3>5, <3>6 DEF Guarded
  <2> DEFINE M == Put(C, d, m)
  <2>3. /\ M[d] = m /\ Put(M, d, r) = D
        /\ \E U : Fine(M, P, F, U, T) /\ Ending(C, M, d, W, U) /\ Ending(M, D, d, U, V)
    <3>1. Quiet(C[d], m, T[d]) /\ Ending(C, Put(C, d, r), d, W, V)
      BY <1>3, <2>1
    <3> QED
      BY <3>1, QuietFirst
  <2> HIDE DEF M
  <2>4. PICK U : Fine(M, P, F, U, T) /\ Ending(C, M, d, W, U) /\ Ending(M, D, d, U, V)
    BY <2>3
  <2>5. k \notin U[d]
    BY <1>7, <2>2, <2>4 DEF Ending, unknown, live
  <2>6. Begins(M[d], r, keyOf(t), a, T[d]) /\ M[d].attempts[keyOf(t)].state = "none"
    BY <2>1, <2>3
  <2>7. Fine(Put(M, d, r), P, F, V, T)
    BY <1>7, <2>1, <2>3, <2>4, <2>5, <2>6, AnswerKeeps
  <2>8. ~ live(r.attempts[k]) => Guarded(r, k, guardUntil(t.issuedAt), T[d])
    BY <2>1 DEF Begins, Answering
  <2> QED
    BY <1>4, <2>3, <2>7, <2>8
<1>8. Fine(D, P, F, V, T)
      /\ (unknown(c, k) /\ ~ live(r.attempts[k]) => Ended(D, P, F, T[d], d, k))
  BY <1>2, <1>5, <1>6, <1>7
<1> QED
  BY <1>8 DEF r

\* An offer that is refused is the older one.
LEMMA LosesIsLost ==
    ASSUME NEW C, NEW P, NEW F, NEW W, NEW T, Fine(C, P, F, W, T), NEW d \in Device,
           NEW t \in P, losesGlare(d, C[d], t, T[d]),
           LET old == <<t.from, activeId(C[d], t.from)>>
           IN C[d].attempts[old].state \notin Working
    PROVE  LET old == <<t.from, activeId(C[d], t.from)>>
               r == [lost |-> keyOf(t), won |-> <<offererOf(d, C[d], old), old[2]>>]
           IN r \in Refusal /\ Lost(P, r)
<1> DEFINE c == C[d]
           k == keyOf(t)
           old == <<t.from, activeId(c, t.from)>>
           a == c.attempts[old]
           won == <<offererOf(d, c, old), old[2]>>
           r == [lost |-> k, won |-> won]
<1>1. c \in Coordinator /\ Sound(c) /\ t \in Token
  BY DEF Fine
<1>2. k \in Key /\ k[1] = t.from /\ k[2] = t.id /\ t.from \in Device /\ t.issuedAt \in Nat
  BY <1>1, TokenKey
<1>3. activeId(c, t.from) # NoId /\ c.attempts[k].state = "none"
      /\ ~ incomingOfferWins(d, c, old, t)
  BY DEF losesGlare, newOffer, unknown
<1>4. old \in Key /\ live(a) /\ old[1] = t.from
  BY <1>1, <1>2, <1>3, ActiveIdFacts
<1>5. a \in Attempt /\ Allowed(a) /\ a.state \notin Working /\ Known(C, P, F, d, old)
  BY <1>1, <1>4, Fields DEF Fine, Sound, Shape, Issued
<1>6. old[2] # k[2]
  <2>1. old # k
    BY <1>3, <1>4 DEF live
  <2> QED
    BY <1>2, <1>4, <2>1, KeyFacts
<1>7. won \in Key /\ won[2] = old[2]
  BY <1>4, KeyFacts DEF offererOf
<1>8. \E y \in P : y.id = old[2] /\ y.issuedAt = a.issuedAt
  <2>1. CASE a.role = "answerer"
    BY <1>4, <1>5, <2>1 DEF Known, live
  <2>2. CASE a.role = "offerer"
    <3>1. a.state \in Sent
      BY <1>4, <1>5 DEF Attempt, Allowed, Sent, AttemptState, Working, Publishing, live
    <3>2. \E y \in P : y.id = old[2]
      BY <1>4, <1>5, <2>2, <3>1 DEF Known, live
    <3> QED
      BY <1>4, <1>5, <2>2, <3>2 DEF Known, live
  <2> QED
    BY <1>5, <2>1, <2>2 DEF Attempt
<1>9. a.issuedAt \in Nat
  BY <1>5 DEF Attempt
<1>10. t.issuedAt < a.issuedAt \/ (t.issuedAt = a.issuedAt /\ ~ precedes(k, won))
  BY <1>2, <1>3, <1>9 DEF incomingOfferWins
<1> HIDE DEF k, won, a, old
<1>11. r \in Refusal /\ Lost(P, r)
  BY <1>2, <1>6, <1>7, <1>8, <1>10 DEF Refusal, Lost
<1> QED
  BY <1>11 DEF k, won, a, old

LEMMA StartKeeps ==
    ASSUME RepairInv, NEW d \in Device, NEW k \in Key, Start(d, k[1], k[2])
    PROVE  RepairInv'
<1> DEFINE p == k[1]
           now == clock(d)
           c == expirePeer(coordinator[d], p, now)
           r == start(c, k, now)
<1>1. k = <<p, k[2]>> /\ p \in Device /\ k[2] \in fresh /\ p # d /\ k[2] \in Id
  BY KeyFacts DEF Start
<1>2. coordinator[d] \in Coordinator /\ Sound(coordinator[d]) /\ now \in Nat /\ clocks[d] = now
  BY ClocksAreTimes DEF RepairInv, Fine
<1>3. canStart(c, p, now) /\ Settle(d, r, {}) /\ fresh' = fresh \ {k[2]}
  BY <1>1 DEF Start
<1>4. Quiet(coordinator[d], c, now)
  BY <1>1, <1>2, ExpirePeerIsQuiet
<1> HIDE DEF c
<1>5. coordinator[d].attempts[k].state = "none"
  BY <1>1 DEF RepairInv, Fine, Issued, Known
<1>6. c.attempts[k].state = "none" /\ c \in Coordinator /\ Sound(c)
  BY <1>4, <1>5 DEF Quiet, Rests
<1>7. PICK a \in Attempt, m \in Coordinator :
          /\ Allowed(a) /\ live(a) /\ Offering(a, now) /\ Quiet(c, m, now)
          /\ m.attempts[k].state = "none" /\ Begins(m, r, k, a, now)
  BY <1>1, <1>2, <1>3, <1>6, StartBegins
<1> HIDE DEF r
<1>8. Quiet(coordinator[d], m, clocks[d])
  BY <1>2, <1>4, <1>7, QuietAgain
<1>9. coordinator' = Put(coordinator, d, r) /\ finished' \in [Device -> SUBSET Key]
      /\ Ending(coordinator, Put(coordinator, d, r), d, finished, finished')
  BY <1>3, SettleFacts, SettleEnding DEF RepairInv
<1> DEFINE M == Put(coordinator, d, m)
<1>10. /\ M[d] = m /\ Put(M, d, r) = Put(coordinator, d, r)
       /\ \E U : /\ Fine(M, published, fresh, U, clocks) /\ Ending(coordinator, M, d, finished, U)
                 /\ Ending(M, Put(coordinator, d, r), d, U, finished')
  BY <1>8, <1>9, QuietFirst DEF RepairInv
<1> HIDE DEF M
<1>11. PICK U : /\ Fine(M, published, fresh, U, clocks)
                /\ Ending(M, Put(M, d, r), d, U, finished')
  BY <1>10
<1>12. Begins(M[d], r, k, a, clocks[d]) /\ Offering(a, clocks[d]) /\ fresh \in SUBSET Id
  BY <1>2, <1>7, <1>10 DEF RepairInv, TypeOK
<1>13. Fine(Put(M, d, r), published, fresh \ {k[2]}, finished', clocks)
  BY <1>1, <1>7, <1>11, <1>12, OfferKeeps
<1>14. Fine(coordinator', published', fresh', finished', clocks)
  BY <1>3, <1>9, <1>10, <1>13 DEF Start
<1>15. UNCHANGED <<boot, remote, published, time, offset, refusals, taken, failures, reloads>>
  BY DEF Start
<1> QED
  BY <1>3, <1>9, <1>12, <1>14, <1>15, StepKeeps DEF RepairInv, TypeOK, Others

LEMMA ReceiveKeeps ==
    ASSUME RepairInv, NEW d \in Device, NEW t \in published, Receive(d, t)
    PROVE  RepairInv'
<1> DEFINE now == clock(d)
           C == coordinator
           c == expirePeer(C[d], t.from, now)
           k == keyOf(t)
           old == <<t.from, activeId(c, t.from)>>
           r == receiveVerified(d, c, t, now)
           refuses == unknown(c, k) /\ ~ live(r.attempts[k])
           R == IF refuses THEN {k} ELSE {}
           F == fresh
           T == clocks
           M == Put(C, d, c)
           V == [e \in Device |-> finished[e] \cup
                    {l \in Key : e = d /\ live(C[d].attempts[l]) /\ ~ live(r.attempts[l])}]
<1>1. /\ t.to = d /\ now < t.issuedAt + Lifetime + Skew
      /\ free(d, t.from) /\ Settle(d, r, R) /\ UNCHANGED unrelated
  BY DEF Receive, verifies
<1>2. /\ C[d] \in Coordinator /\ Sound(C[d]) /\ now \in Nat /\ T[d] = now
      /\ t \in Token /\ published \in SUBSET Token
  BY ClocksAreTimes DEF RepairInv, Fine
<1>3. k \in Key /\ t.from \in Device /\ k[1] = t.from /\ k[2] = t.id
  BY <1>2, TokenKey
<1>4. Quiet(C[d], c, T[d])
  BY <1>2, <1>3, ExpirePeerIsQuiet
<1>5. \A i \in Key : live(c.attempts[i]) => c.attempts[i] = C[d].attempts[i]
  BY <1>4 DEF Quiet, Rests
<1>6. c \in Coordinator
  BY <1>4 DEF Quiet
<1>7. R \in SUBSET Key
  BY <1>3
<1>8. published' = published \/ (old \in Key /\ PublishAbort(d, old))
  <2>1. CASE replaces(d, c, t, now)
    <3>1. activeId(c, t.from) # NoId /\ PublishAbort(d, old)
      BY <2>1 DEF Receive, replaces
    <3>2. old \in Key
      BY <1>3, <1>6, <3>1, ActiveIdFacts
    <3> QED
      BY <3>1, <3>2
  <2>2. CASE ~ replaces(d, c, t, now)
    BY <2>2 DEF Receive
  <2> QED
    BY <2>1, <2>2
<1>9. losesGlare(d, c, t, now) =>
          LET s == [lost |-> k, won |-> <<offererOf(d, c, old), old[2]>>]
          IN s \in Refusal /\ Lost(published, s)
  <2> SUFFICES ASSUME losesGlare(d, c, t, now)
               PROVE  LET s == [lost |-> k, won |-> <<offererOf(d, c, old), old[2]>>]
                      IN s \in Refusal /\ Lost(published, s)
    OBVIOUS
  <2>1. old \in Key /\ old[1] = t.from /\ live(c.attempts[old])
    BY <1>3, <1>6, ActiveIdFacts DEF losesGlare
  <2>2. c.attempts[old].state \notin Working
    <3>1. c.attempts[old] = C[d].attempts[old]
      BY <1>5, <2>1
    <3>2. old \in activeKeys(coordinator[d])
      BY <2>1, <3>1 DEF activeKeys
    <3> QED
      BY <1>1, <2>1, <3>1, <3>2 DEF free, attempt
  <2>3. M[d] = c
    BY DEF Put, RepairInv, Fine
  <2>4. \E U : Fine(M, published, F, U, T)
    <3>1. Fine(C, published, F, finished, T)
      BY DEF RepairInv
    <3> DEFINE U == [e \in Device |-> {}]
    <3>2. Fine(C, published, F, U, T)
      BY <3>1 DEF Fine
    <3>3. Ending(C, M, d, U, U)
      BY DEF Ending
    <3> HIDE DEF U
    <3> QED
      BY <1>4, <3>2, <3>3, QuietKeeps
  <2>5. PICK U : Fine(M, published, F, U, T)
    BY <2>4
  <2> HIDE DEF M, c, k
  <2> QED
    BY <1>2, <2>2, <2>3, <2>5, LosesIsLost DEF k
<1>10. refusals' = refusals
       \/ (losesGlare(d, c, t, now) /\
           refusals' = refusals \cup {[lost |-> k, won |-> <<offererOf(d, c, old), old[2]>>]})
  BY DEF Receive
<1>11. remote' \in [Device -> [Key -> Nat]] /\ taken' \subseteq Taken
  <2>1. t.boot \in Nat /\ boot[d] \in Nat /\ remote \in [Device -> [Key -> Nat]]
        /\ taken \subseteq Taken
    BY <1>2 DEF RepairInv, TypeOK, Token
  <2>2. [at |-> d, key |-> k, boot |-> boot[d]] \in Taken
    BY <1>3, <2>1 DEF Taken
  <2>3. taken' = taken \/ taken' = taken \cup {[at |-> d, key |-> k, boot |-> boot[d]]}
    BY DEF Receive
  <2>4. remote' = remote \/ remote' = [remote EXCEPT ![d][k] = t.boot]
    BY DEF Receive
  <2> HIDE DEF k
  <2>5. remote' \in [Device -> [Key -> Nat]]
    BY <1>3, <2>1, <2>4
  <2> QED
    BY <2>1, <2>2, <2>3, <2>5
<1> HIDE DEF c, k, r, R
<1>12. /\ C' = Put(C, d, r) /\ finished' \in [Device -> SUBSET Key]
       /\ \A e \in Device : e # d => finished'[e] = finished[e]
       /\ finished'[d] = finished[d] \cup R \cup (activeKeys(C[d]) \ activeKeys(r))
  BY <1>1, <1>7, SettleFacts DEF RepairInv
<1>13. Fine(C, published', F, finished, T) /\ published \subseteq published'
  BY <1>8, AbortKeeps DEF RepairInv
<1> DEFINE P == published'
<1>14. Ending(C, Put(C, d, r), d, finished, V)
  <2>1. Put(C, d, r)[d] = r /\ \A e \in Device : finished[e] \subseteq Key
    BY DEF Put, RepairInv, Fine
  <2> QED
    BY <2>1 DEF Ending
<1> HIDE DEF P, V
<1>15. /\ M[d] = c /\ Put(M, d, r) = Put(C, d, r)
       /\ \E U : /\ Fine(M, P, F, U, T) /\ Ending(C, M, d, finished, U)
                 /\ Ending(M, Put(C, d, r), d, U, V)
  <2>1. Fine(C, P, F, finished, T)
    BY <1>13 DEF P
  <2> QED
    BY <1>4, <1>14, <2>1, QuietFirst
<1> HIDE DEF M
<1>16. PICK U : Fine(M, P, F, U, T) /\ Ending(M, Put(M, d, r), d, U, V)
  BY <1>15
<1>17. /\ Fine(Put(M, d, r), P, F, V, T)
       /\ unknown(c, k) /\ ~ live(r.attempts[k]) => Ended(Put(M, d, r), P, F, T[d], d, k)
  <2>1. t \in P
    BY <1>13 DEF P
  <2>2. r = receiveVerified(d, M[d], t, T[d]) /\ T[d] < t.issuedAt + Lifetime + Skew
    BY <1>1, <1>2, <1>15 DEF r
  <2> QED
    BY <1>1, <1>15, <1>16, <2>1, <2>2, ReceivedKeeps DEF k
<1>18. Fine(C', P, F, finished', T)
  <2>1. \A e \in Device : \A l \in finished'[e] : l \in V[e] \/ (e = d /\ l \in R)
    BY <1>12 DEF V, activeKeys
  <2>2. CASE R = {}
    <3>1. \A e \in Device : \A l \in finished'[e] : l \in V[e]
      BY <2>1, <2>2
    <3> QED
      BY <1>12, <1>15, <1>17, <3>1 DEF Fine
  <2>3. CASE R # {}
    <3>1. R = {k} /\ Ended(C', P, F, T[d], d, k)
      BY <1>12, <1>15, <1>17, <2>3 DEF R
    <3>2. Fine(C', P, F, V, T)
      BY <1>12, <1>15, <1>17
    <3>3. \A e \in Device : \A l \in finished'[e] : l \in V[e] \/ (e = d /\ l = k)
      BY <2>1, <3>1
    <3> QED
      BY <1>3, <3>1, <3>2, <3>3, AlsoEnded
  <2> QED
    BY <2>2, <2>3
<1>19. fresh' = fresh /\ boot' = boot /\ time' = time /\ offset' = offset
       /\ failures' = failures /\ reloads' = reloads
  BY <1>1 DEF unrelated
<1>20. T' = T
  BY <1>19 DEF clocks, clock
<1>21. Fine(coordinator, published, fresh, finished, clocks)'
  BY <1>18, <1>19, <1>20 DEF P
<1>22. refusals' \subseteq Refusal /\ \A s \in refusals' : Lost(published, s)
  BY <1>9, <1>10 DEF RepairInv, TypeOK
<1>23. (\A s \in refusals : Lost(published, s))'
  BY <1>13, <1>22 DEF Lost
<1>24. TypeOK'
  BY <1>11, <1>12, <1>19, <1>21, <1>22 DEF RepairInv, TypeOK, Fine
<1> QED
  BY <1>21, <1>23, <1>24 DEF RepairInv

LEMMA ReloadKeeps ==
    ASSUME RepairInv, NEW d \in Device, Reload(d)
    PROVE  RepairInv'
<1> DEFINE c == coordinator[d]
           now == clock(d)
           restored == [k \in Key |-> IF c.tombstones[k] > now THEN c.tombstones[k] ELSE 0]
           s == savedSaturation(d)
           r == NewCoordinator(restored, s)
           C == coordinator
           D == Put(C, d, r)
<1>1. c \in Coordinator /\ Sound(c) /\ now \in Nat /\ clocks[d] = now
  BY ClocksAreTimes DEF RepairInv, Fine
<1>2. coordinator' = D
  BY DEF Reload, Put
<1>3. /\ restored \in [Key -> Nat] /\ s \in Nat
      /\ \A k \in Key : restored[k] = (IF c.tombstones[k] > now THEN c.tombstones[k] ELSE 0)
      /\ s = (IF c.saturatedUntil > now THEN c.saturatedUntil ELSE 0)
  BY <1>1, Fields DEF savedSaturation
<1> HIDE DEF restored, s, c
<1>4. /\ r.tombstones = restored /\ r.saturatedUntil = s
      /\ \A k \in Key : r.attempts[k] = NoAttempt
      /\ r \in Coordinator
  BY <1>3, NoAttemptFacts DEF NewCoordinator, Coordinator
<1> HIDE DEF r
<1>5. Sound(r)
  <2>1. guards(r) \subseteq guards(c) /\ activeKeys(r) = {}
    BY <1>1, <1>3, <1>4, NoAttemptFacts, Fields DEF guards, activeKeys
  <2>2. Cardinality(guards(r)) <= Cardinality(guards(c)) /\ Cardinality(activeKeys(r)) = 0
    BY <2>1, Counts, FS_Subset, FS_EmptySet
  <2>3. Cardinality(guards(r)) + Cardinality(activeKeys(r)) <= MaxTombstones
    BY <1>1, <2>2, Counts, Times DEF Sound
  <2> QED
    BY <1>4, <2>3, NoAttemptFacts DEF Sound, Shape, Terminal
<1>6. GuardsStay(c, r, now)
  <2>1. c.saturatedUntil \in Nat /\ \A k \in Key : c.tombstones[k] \in Nat
    BY <1>1, Fields
  <2>2. \A k \in Key : r.tombstones[k] >= c.tombstones[k] \/ now >= c.tombstones[k]
    BY <1>1, <1>3, <1>4, <2>1
  <2>3. r.saturatedUntil >= c.saturatedUntil \/ now >= c.saturatedUntil
    BY <1>1, <1>3, <1>4, <2>1
  <2> QED
    BY <2>2, <2>3 DEF GuardsStay
<1>7. /\ D \in [Device -> Coordinator] /\ D[d] = r /\ \A e \in Device : e # d => D[e] = C[e]
  BY <1>4 DEF Put, RepairInv, Fine
<1> HIDE DEF D
<1>8. \A e \in Device, k \in Key :
          D[e].attempts[k] = C[e].attempts[k] \/ D[e].attempts[k] = NoAttempt
  BY <1>4, <1>7
<1>9. \A e \in Device : /\ Sound(D[e]) /\ GuardsStay(C[e], D[e], clocks[e])
                        /\ C[e] \in Coordinator /\ D[e] \in Coordinator /\ clocks[e] \in Nat
  BY <1>1, <1>5, <1>6, <1>7, QuietSelf DEF RepairInv, Fine, Quiet, c
<1>10. Offerers(C, D, Id)
  BY <1>8, NoAttemptFacts DEF Offerers
<1>11. Issued(D, published, fresh)
  <2>1. OneOfferer(D)
    BY <1>10, OffererStays DEF RepairInv, Fine, Issued
  <2>2. ASSUME NEW e \in Device, NEW k \in Key PROVE Known(D, published, fresh, e, k)
    <3>1. Known(C, published, fresh, e, k)
      BY DEF RepairInv, Fine, Issued
    <3> QED
      BY <1>8, <3>1, StaysKnown, NoAttemptFacts DEF Same
  <2> QED
    BY <2>1, <2>2 DEF RepairInv, Fine, Issued
<1>12. ASSUME NEW e \in Device, NEW k \in finished[e]
       PROVE  Ended(D, published, fresh, clocks[e], e, k)
  <2>1. k \in Key /\ Ended(C, published, fresh, clocks[e], e, k) /\ published \in SUBSET Token
    BY DEF RepairInv, Fine
  <2>2. ~ live(D[e].attempts[k])
    BY <1>8, <2>1, NoAttemptFacts DEF Ended
  <2> QED
    BY <1>9, <1>10, <2>1, <2>2, KeyFacts, StaysEnded
<1>13. Fine(D, published, fresh, finished, clocks)
  BY <1>7, <1>9, <1>11, <1>12 DEF RepairInv, Fine
<1>14. Others' /\ UNCHANGED <<published, fresh, time, offset, finished, refusals>>
  BY DEF Reload, history, RepairInv, TypeOK, Others
<1>15. Fine(coordinator', published', fresh', finished', clocks)
  BY <1>2, <1>13, <1>14
<1> QED
  BY <1>14, <1>15, StepKeeps DEF RepairInv, TypeOK

LEMMA TickKeeps ==
    ASSUME RepairInv, Tick
    PROVE  RepairInv'
<1>1. /\ UNCHANGED <<coordinator, boot, remote, published, fresh, offset, finished, refusals,
                     taken, failures, reloads>>
      /\ time' = time + 1
  BY DEF Tick, history
<1>2. TypeOK'
  BY <1>1 DEF RepairInv, TypeOK
<1>3. \A d \in Device : clocks[d] \in Nat /\ clocks'[d] \in Nat /\ clocks'[d] >= clocks[d]
  BY <1>1, Times DEF clocks, clock, RepairInv, TypeOK
<1>4. clocks' \in [Device -> Nat]
  BY <1>3 DEF clocks
<1>5. ASSUME NEW d \in Device, NEW k \in finished[d]
      PROVE  Ended(coordinator, published, fresh, clocks'[d], d, k)
  <2>1. Ended(coordinator, published, fresh, clocks[d], d, k)
    BY DEF RepairInv, Fine
  <2>2. \A t \in published : guardUntil(t.issuedAt) \in Nat
    BY Times DEF RepairInv, Fine, Token
  <2>3. \A t \in published : Guarded(coordinator[d], k, guardUntil(t.issuedAt), clocks[d]) =>
            Guarded(coordinator[d], k, guardUntil(t.issuedAt), clocks'[d])
    BY <1>3, <2>2 DEF Guarded
  <2> QED
    BY <2>1, <2>3 DEF Ended
<1>6. Fine(coordinator, published, fresh, finished, clocks')
  BY <1>4, <1>5 DEF RepairInv, Fine
<1>7. Fine(coordinator, published, fresh, finished, clocks)'
  BY <1>1, <1>6
<1> QED
  BY <1>1, <1>2, <1>7 DEF RepairInv

-----------------------------------------------------------------------------
(* The invariant, and what follows from it.                                *)

LEMMA RepairInit == Init => RepairInv
<1> SUFFICES ASSUME Init PROVE RepairInv
  OBVIOUS
<1> DEFINE zero == [k \in Key |-> 0]
           r == NewCoordinator(zero, 0)
<1>1. zero \in [Key -> Nat] /\ \A k \in Key : zero[k] = 0
  OBVIOUS
<1> HIDE DEF zero
<1>2. /\ r.tombstones = zero /\ r.saturatedUntil = 0
      /\ \A k \in Key : r.attempts[k] = NoAttempt
      /\ r \in Coordinator
  BY <1>1, NoAttemptFacts DEF NewCoordinator, Coordinator
<1>3. coordinator = [d \in Device |-> r] /\ published = {} /\ fresh = Id
      /\ finished = [d \in Device |-> {}] /\ refusals = {}
  BY DEF Init, zero
<1> HIDE DEF r
<1>4. TypeOK
  BY <1>2, <1>3 DEF Init, TypeOK
<1>5. Sound(r)
  <2>1. guards(r) = {} /\ activeKeys(r) = {}
    BY <1>1, <1>2, NoAttemptFacts DEF guards, activeKeys
  <2>2. Cardinality(guards(r)) = 0 /\ Cardinality(activeKeys(r)) = 0
    BY <2>1, FS_EmptySet
  <2> QED
    BY <1>2, <2>2, NoAttemptFacts, Times DEF Sound, Shape, Terminal
<1>6. \A d \in Device : coordinator[d] = r
  BY <1>3
<1>7. Issued(coordinator, published, fresh)
  BY <1>2, <1>3, <1>6, NoAttemptFacts DEF Issued, OneIssue, OneOfferer, Known
<1>8. Fine(coordinator, published, fresh, finished, clocks)
  BY <1>2, <1>3, <1>4, <1>5, <1>6, <1>7, ClocksAreTimes DEF Fine
<1> QED
  BY <1>3, <1>4, <1>8 DEF RepairInv

LEMMA RepairNext == RepairInv /\ [Next]_vars => RepairInv'
<1> SUFFICES ASSUME RepairInv, [Next]_vars PROVE RepairInv'
  OBVIOUS
<1>1. ASSUME NEW d \in Device, NEW k \in Key, Start(d, k[1], k[2]) PROVE RepairInv'
  BY <1>1, StartKeeps
<1>2. ASSUME NEW d \in Device, NEW k \in Key, Prepare(d, k) PROVE RepairInv'
  BY <1>2, PrepareKeeps
<1>3. ASSUME NEW d \in Device, NEW k \in Key, Publish(d, k) PROVE RepairInv'
  BY <1>3, PublishKeeps
<1>4. ASSUME NEW d \in Device, NEW k \in Key, Fail(d, k) PROVE RepairInv'
  BY <1>4, FailKeeps
<1>5. ASSUME NEW d \in Device, NEW k \in Key, ConnectivityTimeout(d, k) PROVE RepairInv'
  BY <1>5, EventKeeps DEF ConnectivityTimeout
<1>6. ASSUME NEW d \in Device, NEW k \in Key, ChannelOpen(d, k) PROVE RepairInv'
  BY <1>6, EventKeeps DEF ChannelOpen
<1>7. ASSUME NEW d \in Device, NEW k \in Key, ExpiryTimer(d, k) PROVE RepairInv'
  BY <1>7, EventKeeps DEF ExpiryTimer, live
<1>8. ASSUME NEW d \in Device, NEW t \in published, Receive(d, t) PROVE RepairInv'
  BY <1>8, ReceiveKeeps
<1>9. ASSUME NEW d \in Device, Reload(d) PROVE RepairInv'
  BY <1>9, ReloadKeeps
<1>10. ASSUME Tick PROVE RepairInv'
  BY <1>10, TickKeeps
<1>11. ASSUME UNCHANGED vars PROVE RepairInv'
  BY <1>11 DEF vars, history, RepairInv, TypeOK, clocks, clock
<1> QED
  BY <1>1, <1>2, <1>3, <1>4, <1>5, <1>6, <1>7, <1>8, <1>9, <1>10, <1>11 DEF Next

\* The inductive invariant holds in every reachable state: the coordinators are
\* sound, the tokens and the attempts agree, what ended is over.
THEOREM RepairInvHolds == Spec => []RepairInv
  BY RepairInit, RepairNext, PTL DEF Spec

\* Every attempt, guard and token has its type (Attempt, Coordinator, Token).
THEOREM TypeCorrect == Spec => []TypeOK
<1>1. RepairInv => TypeOK
  BY DEF RepairInv
<1> QED
  BY <1>1, RepairInvHolds, PTL

\* Every active attempt has a tombstone kept for it (hasReplayCapacity), for any
\* number of devices and attempts and any capacity.
THEOREM ReserveIsKept == Spec => []ReserveKept
<1>1. RepairInv => ReserveKept
  BY DEF RepairInv, Fine, Sound, ReserveKept
<1> QED
  BY <1>1, RepairInvHolds, PTL

\* No attempt that goes on is lost sight of (activeByPeer).
THEOREM NoneIsOrphaned == Spec => []NoOrphan
<1>1. RepairInv => NoOrphan
  BY DEF RepairInv, Fine, Sound, Shape, NoOrphan, activeKeys
<1> QED
  BY <1>1, RepairInvHolds, PTL

\* What ended or was refused is not taken up again, however the clocks differ
\* and whatever is pruned, saturated, reloaded and replayed.
THEOREM StaysOver == Spec => []NeverTakenUpAgain
<1>1. RepairInv => NeverTakenUpAgain
  BY DEF RepairInv, Fine, Ended, NeverTakenUpAgain, attempt
<1> QED
  BY <1>1, RepairInvHolds, PTL

\* Two devices that call each other do not both refuse (incomingOfferWins).
THEOREM OneOfTwoWins == Spec => []NoMutualRefusal
<1>1. ASSUME RepairInv PROVE NoMutualRefusal
  <2> SUFFICES ASSUME NEW r \in refusals, NEW s \in refusals, r.lost = s.won, s.lost = r.won
               PROVE  FALSE
    BY DEF NoMutualRefusal
  <2>1. r \in Refusal /\ s \in Refusal /\ OneIssue(published, fresh)
    BY <1>1 DEF RepairInv, TypeOK, Fine, Issued
  <2>2. PICK x \in published, y \in published :
            /\ x.id = r.lost[2] /\ y.id = r.won[2] /\ r.lost[2] # r.won[2]
            /\ \/ x.issuedAt < y.issuedAt
               \/ x.issuedAt = y.issuedAt /\ ~ precedes(r.lost, r.won)
    BY <1>1 DEF RepairInv, Lost
  <2>3. PICK u \in published, v \in published :
            /\ u.id = r.won[2] /\ v.id = r.lost[2]
            /\ \/ u.issuedAt < v.issuedAt
               \/ u.issuedAt = v.issuedAt /\ ~ precedes(r.won, r.lost)
    BY <1>1 DEF RepairInv, Lost
  <2>4. u.issuedAt = y.issuedAt /\ v.issuedAt = x.issuedAt
    BY <2>1, <2>2, <2>3 DEF OneIssue
  <2>5. x.issuedAt \in Nat /\ y.issuedAt \in Nat
    BY <1>1 DEF RepairInv, TypeOK, Token
  <2>6. /\ r.lost[1] \in Nat /\ r.lost[2] \in Nat /\ r.won[1] \in Nat /\ r.won[2] \in Nat
    BY <2>1, KeyFacts, DeviceAssumption, IdAssumption DEF Refusal
  <2>7. ~ precedes(r.lost, r.won) /\ ~ precedes(r.won, r.lost)
    BY <2>2, <2>3, <2>4, <2>5
  <2> QED
    BY <2>2, <2>6, <2>7 DEF precedes
<1> QED
  BY <1>1, RepairInvHolds, PTL

\* The offerer listens for as long as the responder may answer, on whatever
\* clocks within the skew (receiveDeadline).
THEOREM ListensLongEnough == Spec => []OffererStillListens
<1>1. ASSUME RepairInv PROVE OffererStillListens
  <2> SUFFICES ASSUME NEW d \in Device, NEW k \in Key,
                      live(attempt(d, k)), attempt(d, k).role = "answerer",
                      clock(d) < publishDeadline(attempt(d, k)),
                      live(attempt(k[1], <<d, k[2]>>)),
                      attempt(k[1], <<d, k[2]>>).role = "offerer"
               PROVE  clock(k[1]) < attempt(k[1], <<d, k[2]>>).expiresAt
    BY DEF OffererStillListens
  <2> DEFINE a == attempt(d, k)
             o == attempt(k[1], <<d, k[2]>>)
  <2>1. k[1] \in Device /\ <<d, k[2]>> \in Key /\ <<d, k[2]>>[2] = k[2]
    BY KeyFacts
  <2>2. /\ Known(coordinator, published, fresh, d, k)
        /\ Known(coordinator, published, fresh, k[1], <<d, k[2]>>)
    BY <1>1, <2>1 DEF RepairInv, Fine, Issued
  <2>3. a.expiresAt <= a.issuedAt + Lifetime
        /\ \E t \in published : t.id = k[2] /\ t.issuedAt = a.issuedAt
    BY <2>2 DEF Known, attempt, live
  <2>4. o.issuedAt = a.issuedAt /\ o.expiresAt = receiveDeadline(o.issuedAt)
    BY <2>1, <2>2, <2>3 DEF Known, attempt, live
  <2>5. clock(d) < a.expiresAt
    BY DEF publishDeadline
  <2>6. a \in Attempt
    BY <1>1, Fields DEF RepairInv, Fine, attempt
  <2>7. a.issuedAt \in Nat /\ a.expiresAt \in Nat
    BY <2>6 DEF Attempt
  <2>8. /\ time \in Nat /\ offset[d] \in 0 .. Skew /\ offset[k[1]] \in 0 .. Skew
    BY <1>1, <2>1 DEF RepairInv, TypeOK
  <2> HIDE DEF a, o
  <2>9. clock(k[1]) < o.expiresAt
    BY <2>3, <2>4, <2>5, <2>7, <2>8, Times DEF clock, receiveDeadline
  <2> QED
    BY <2>9 DEF o
<1> QED
  BY <1>1, RepairInvHolds, PTL

=============================================================================
