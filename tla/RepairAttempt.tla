--------------------------- MODULE RepairAttempt ---------------------------
(***************************************************************************)
(* One attempt of two devices to connect, as one of them sees it:          *)
(* realm/src/rendezvous-v2-state.js.  An attempt is a value; a transition  *)
(* takes the attempt, an event and the device's time to the next one.      *)
(*                                                                         *)
(* The effects of a transition are what the adapter does in the new state, *)
(* so only the one that depends on more, the signed abort, is an operator  *)
(* here.  Duplicate, deferred and invalid events change nothing.  All      *)
(* devices use one token lifetime, and the unit of time is any.            *)
(***************************************************************************)
EXTENDS Integers

CONSTANTS
    Lifetime,  \* of a token, from its issue time (ttlMs)
    Skew,      \* verificationClockSkewMs
    Grace      \* completionGraceMs

ASSUME TimeAssumption == Lifetime \in Nat \ {0} /\ Skew \in Nat /\ Grace \in Nat

Publishing == {"publishing-offer", "publishing-answer", "publishing-need-candidate",
               "publishing-fallback"}

\* In these states the adapter is doing the work of the attempt.
Working == Publishing \cup
    {"creating-offer", "applying-offer", "creating-answer", "applying-answer",
     "creating-fallback", "applying-fallback"}

Terminal == {"open", "failed", "expired", "aborted"}

AttemptState == {"none", "idle", "waiting-answer", "connecting"} \cup Working \cup Terminal

SlotRole == {"offer", "answer", "needCandidate", "candidate", "abort"}

Attempt == [state : AttemptState, role : {"offerer", "answerer"},
            issuedAt : Nat, expiresAt : Nat, tokenEpochStarted : BOOLEAN,
            fallbackPending : BOOLEAN, fallbackRequested : BOOLEAN,
            fallbackApplied : BOOLEAN]

NoAttempt == [state |-> "none", role |-> "offerer", issuedAt |-> 0, expiresAt |-> 0,
              tokenEpochStarted |-> FALSE, fallbackPending |-> FALSE,
              fallbackRequested |-> FALSE, fallbackApplied |-> FALSE]

createAttempt(role, issuedAt, deadline) ==
    [NoAttempt EXCEPT !.state = "idle", !.role = role, !.issuedAt = issuedAt,
                      !.expiresAt = deadline, !.tokenEpochStarted = (role = "answerer")]

live(a) == a.state \notin Terminal \cup {"none"}

\* Mutant of receiveDeadline: the offerer stops listening at the signed expiry.
receiveDeadline_Signed(issuedAt) == issuedAt + Lifetime

\* An offerer listens for as long as a responder with the slowest clock sends.
receiveDeadline(issuedAt) == issuedAt + Lifetime + Skew

completionDeadline(a) == a.expiresAt + Grace

publishDeadline(a) == IF a.role = "offerer" THEN a.issuedAt + Lifetime ELSE a.expiresAt

-----------------------------------------------------------------------------

\* The offerer's events in the states that take them.
transitionOfferer(a, event, now) ==
    CASE a.state = "idle" /\ event = "start" ->
             [a EXCEPT !.state = "creating-offer"]
      [] a.state = "creating-offer" /\ event = "outbound-token-started"
             /\ ~ a.tokenEpochStarted ->
             [a EXCEPT !.issuedAt = now, !.expiresAt = receiveDeadline(now),
                       !.tokenEpochStarted = TRUE]
      [] a.state = "creating-offer" /\ event = "local-offer-ready" /\ a.tokenEpochStarted ->
             [a EXCEPT !.state = "publishing-offer"]
      [] a.state = "publishing-offer" /\ event = "slot-stored" ->
             [a EXCEPT !.state = "waiting-answer"]
      [] a.state \in {"publishing-offer", "waiting-answer"} /\ event = "answer" ->
             [a EXCEPT !.state = "applying-answer"]
      [] a.state = "applying-answer" /\ event = "remote-description-applied" ->
             IF a.fallbackPending /\ ~ a.fallbackRequested
             THEN [a EXCEPT !.state = "creating-fallback", !.fallbackPending = FALSE,
                            !.fallbackRequested = TRUE]
             ELSE [a EXCEPT !.state = "connecting"]
      [] a.state \in {"publishing-offer", "waiting-answer", "applying-answer"}
             /\ event = "needCandidate" /\ ~ a.fallbackRequested ->
             [a EXCEPT !.fallbackPending = TRUE]
      [] a.state = "connecting" /\ event = "needCandidate" /\ ~ a.fallbackRequested ->
             [a EXCEPT !.state = "creating-fallback", !.fallbackRequested = TRUE]
      [] a.state = "creating-fallback" /\ event = "local-fallback-ready" ->
             [a EXCEPT !.state = "publishing-fallback"]
      [] a.state = "publishing-fallback" /\ event = "slot-stored" ->
             [a EXCEPT !.state = "connecting"]
      [] OTHER -> a

\* The answerer's.
transitionAnswerer(a, event) ==
    CASE a.state = "idle" /\ event = "offer" ->
             [a EXCEPT !.state = "applying-offer"]
      [] a.state = "applying-offer" /\ event = "remote-description-applied" ->
             [a EXCEPT !.state = "creating-answer"]
      [] a.state = "creating-answer" /\ event = "local-answer-ready" ->
             [a EXCEPT !.state = "publishing-answer"]
      [] a.state \in {"publishing-answer", "publishing-need-candidate"}
             /\ event = "slot-stored" ->
             [a EXCEPT !.state = "connecting"]
      [] a.state = "connecting" /\ event = "connectivity-timeout" /\ ~ a.fallbackRequested ->
             [a EXCEPT !.state = "publishing-need-candidate", !.fallbackRequested = TRUE]
      [] a.state \in {"connecting", "publishing-need-candidate"} /\ event = "candidate"
             /\ a.fallbackRequested /\ ~ a.fallbackApplied ->
             [a EXCEPT !.state = "applying-fallback"]
      [] a.state = "applying-fallback" /\ event = "remote-fallback-applied" ->
             [a EXCEPT !.state = "connecting", !.fallbackApplied = TRUE]
      [] OTHER -> a

Negotiating == {"publishing-answer", "applying-answer", "connecting", "creating-fallback",
                "publishing-fallback", "publishing-need-candidate", "applying-fallback"}

transitionAttempt(a, event, now) ==
    IF ~ live(a) THEN a
    ELSE IF event = "channel-open"
    THEN IF now >= completionDeadline(a) THEN [a EXCEPT !.state = "expired"]
         ELSE IF a.state \in Negotiating THEN [a EXCEPT !.state = "open"] ELSE a
    ELSE IF event = "expire" \/ now >= a.expiresAt THEN [a EXCEPT !.state = "expired"]
    ELSE IF event = "fail" THEN [a EXCEPT !.state = "failed"]
    ELSE IF event = "abort" THEN [a EXCEPT !.state = "aborted"]
    ELSE IF a.role = "offerer" THEN transitionOfferer(a, event, now)
    ELSE transitionAnswerer(a, event)

\* The attempt publishes a signed abort when it ends by itself, early enough,
\* and the peer can know of it (terminal).  The abort that arrives is the event
\* "abort" too, but is not answered by one.
publishesAbort(a, now) ==
    live(a) /\ now < publishDeadline(a) /\ a.tokenEpochStarted

=============================================================================
