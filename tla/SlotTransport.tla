--------------------------- MODULE SlotTransport ---------------------------
(***************************************************************************)
(* Clients of the slot store: realm/src/rendezvous-v2-transport.js on one  *)
(* side, the relay's Allocate handler (realm/relay/server.mjs) on the      *)
(* other.  A call sends one user name on every lane.  The relay executes   *)
(* the operation once per lane, in any order, and answers each lane with   *)
(* its own five bytes of the result.  A read repeats this page by page and *)
(* joins the chunks.                                                       *)
(*                                                                         *)
(* One call at a time per actor.  A lane can be executed although the call *)
(* has given up on it, or twice.  The first RouteChunks chunks of a token  *)
(* hold the devices, the same in every slot of a route; up to HeaderChunks *)
(* they hold the attempt and the revision, from which the receipt is made. *)
(***************************************************************************)
EXTENDS RendezvousSlots

CONSTANTS
    Lanes,         \* laneCount (six in the code)
    RouteChunks,   \* chunks with the two device identifiers
    HeaderChunks,  \* chunks up to the end of the revision
    Chunks,        \* chunks of a whole response
    MaxCalls,      \* bound: calls of each actor
    MaxTimeouts,   \* bound: calls given up
    MaxRepeats,    \* bound: lanes executed twice
    MaxLapses,     \* bound: reader leases that end
    MaxExpiries    \* bound: slots that expire

ASSUME LaneAssumption == Lanes \in Nat \ {0}
ASSUME ChunkAssumption == /\ RouteChunks \in Nat /\ HeaderChunks \in Nat /\ Chunks \in Nat
                          /\ RouteChunks < HeaderChunks /\ HeaderChunks < Chunks
ASSUME TransportBoundAssumption == /\ MaxCalls \in [Actor -> Nat]
                                   /\ MaxTimeouts \in Nat /\ MaxRepeats \in Nat
                                   /\ MaxLapses \in Nat /\ MaxExpiries \in Nat

VARIABLES
    call,      \* call[a]: the call of actor a
    strays,    \* envelopes of lanes nobody waits for any more
    receipts,  \* receipts[a]: what a holds from its puts and its reads
    tokens,    \* tokens[a]: the slots each finished read of a took chunks from
    outcomes,  \* what finished acks and aborts reported
    calls,     \* calls[a]: calls of a so far
    timeouts, repeats, lapses, expiries

clients == <<call, strays, receipts, tokens, outcomes>>
faults == <<timeouts, repeats, lapses, expiries>>
vars == <<slots, created, clients, calls, faults>>

Lane == 0 .. (Lanes - 1)

Source == [key : Key, born : Nat, revision : Nat]

Receipt == [key : Key, revision : Nat, verified : BOOLEAN]

Outcome == [born : Nat, status : {"acked", "aborted"}]

NoResponse == [kind |-> "error", key |-> AnyKey, born |-> 0, revision |-> 0]

\* A call: got[l] is the answer on lane l if l is in done; head and all are the
\* sources of the chunks joined so far.
Call == [busy : BOOLEAN, env : Envelope, page : Nat, done : SUBSET Lane,
         got : [Lane -> Response], head : SUBSET Source, all : SUBSET Source]

started(e) == [busy |-> TRUE, env |-> e, page |-> 0, done |-> {},
               got |-> [l \in Lane |-> NoResponse], head |-> {}, all |-> {}]

idle(a) == [started([op |-> "discover", actor |-> a, key |-> AnyKey, revision |-> 0])
            EXCEPT !.busy = FALSE]

Init ==
    /\ InitSlots
    /\ call = [a \in Actor |-> idle(a)]
    /\ strays = {}
    /\ receipts = [a \in Actor |-> {}]
    /\ tokens = [a \in Actor |-> {}]
    /\ outcomes = {}
    /\ calls = [a \in Actor |-> 0]
    /\ timeouts = 0 /\ repeats = 0 /\ lapses = 0 /\ expiries = 0

-----------------------------------------------------------------------------
(* put, get, discover, ack and abort are called.                           *)

Begin(a, op, k, r) ==
    /\ ~ call[a].busy
    /\ calls[a] < MaxCalls[a]
    /\ calls' = [calls EXCEPT ![a] = @ + 1]
    /\ call' = [call EXCEPT ![a] =
                  started([op |-> op, actor |-> a, key |-> k, revision |-> r])]
    /\ UNCHANGED <<slots, created, strays, receipts, tokens, outcomes, faults>>

reads == {"get", "discover"}

\* The revisions of k that a knows.
known(a, k) == {rc.revision : rc \in {x \in receipts[a] : x.key = k}}

Put(w, k) == \E r \in {0} \cup known(w, k) : Begin(w, "put", k, r)

\* No caller of get names a revision it already has.
Get(a, k) == Begin(a, "get", k, 0)

Discover(a) == Begin(a, "discover", AnyKey, 0)

\* Only what the reader has verified is acknowledged.
Ack(a) == \E rc \in receipts[a] : rc.verified /\ Begin(a, "ack", rc.key, rc.revision)

\* A writer takes its value back; a reader ends one it could not verify.
Abort(a) ==
    \E rc \in receipts[a] :
        /\ a \in Writer \/ ~ rc.verified
        /\ Begin(a, "abort", rc.key, rc.revision)

-----------------------------------------------------------------------------
(* Lanes.                                                                  *)

\* Only the chunks of a read tell the lanes apart.
LaneExecuted(a, l) ==
    /\ call[a].busy /\ l \in Lane \ call[a].done
    /\ call[a].env.op \in reads \/ 0 .. (l - 1) \subseteq call[a].done
    /\ Execute(call[a].env)
    /\ call' = [call EXCEPT ![a].done = @ \cup {l}, ![a].got[l] = response(call[a].env)]
    /\ UNCHANGED <<strays, receipts, tokens, outcomes, calls, faults>>

\* The answer is lost, and the lane sends its request again.
LaneRepeats(a) ==
    /\ call[a].busy /\ call[a].done # Lane
    /\ repeats < MaxRepeats
    /\ repeats' = repeats + 1
    /\ Execute(call[a].env)
    /\ UNCHANGED <<clients, calls, timeouts, lapses, expiries>>

\* A lane has no answer in time: the call fails, the request may still come.
TimeOut(a) ==
    /\ call[a].busy /\ call[a].done # Lane
    /\ timeouts < MaxTimeouts
    /\ timeouts' = timeouts + 1
    /\ strays' = strays \cup {call[a].env}
    /\ call' = [call EXCEPT ![a] = idle(a)]
    /\ UNCHANGED <<slots, created, receipts, tokens, outcomes, calls, repeats, lapses, expiries>>

StrayExecuted(e) ==
    /\ Execute(e)
    /\ strays' = strays \ {e}
    /\ UNCHANGED <<call, receipts, tokens, outcomes, calls, faults>>

-----------------------------------------------------------------------------
(* All lanes have answered.                                                *)

kinds(c) == {c.got[l].kind : l \in Lane}
revisions(c) == {c.got[l].revision : l \in Lane}

Answered(a, ops) ==
    /\ call[a].busy /\ call[a].done = Lane
    /\ call[a].env.op \in ops
    /\ UNCHANGED <<slots, created, strays, calls, faults>>

Finish(a) == call' = [call EXCEPT ![a] = idle(a)]

\* #control for a put: every lane stored the value or found it acknowledged.
stored(c) == kinds(c) \subseteq {"stored", "acked"} /\ Cardinality(revisions(c)) = 1

PutStored(a) ==
    /\ Answered(a, {"put"})
    /\ stored(call[a])
    /\ receipts' = IF "acked" \in kinds(call[a]) THEN receipts
                   ELSE [receipts EXCEPT ![a] = @ \cup
                           {[key |-> call[a].env.key, revision |-> call[a].got[0].revision,
                             verified |-> TRUE]}]
    /\ Finish(a)
    /\ UNCHANGED <<tokens, outcomes>>

\* #lifecycle: every lane reports the same end of the same revision.
ended(c) == /\ kinds(c) \in {{"acked"}, {"aborted"}}
            /\ revisions(c) = {c.env.revision}

Ended(a) ==
    /\ Answered(a, {"ack", "abort"})
    /\ ended(call[a])
    /\ outcomes' = outcomes \cup
         {[born |-> call[a].got[l].born, status |-> call[a].got[l].kind] : l \in Lane}
    /\ Finish(a)
    /\ UNCHANGED <<receipts, tokens>>

\* The sources of the chunks from index first on, before index end.
source(r) == [key |-> r.key, born |-> r.born, revision |-> r.revision]

index(c, l) == c.page * Lanes + l

sources(c, first, end) ==
    {source(c.got[l]) : l \in {x \in Lane : first <= index(c, x) /\ index(c, x) < end}}

joined(c) == [c EXCEPT !.head = @ \cup sources(c, RouteChunks, HeaderChunks),
                       !.all = @ \cup sources(c, RouteChunks, Chunks)]

lastPage(c) == (c.page + 1) * Lanes >= Chunks

NextPage(a) ==
    /\ Answered(a, reads)
    /\ kinds(call[a]) = {"data"} /\ ~ lastPage(call[a])
    /\ call' = [call EXCEPT ![a] = [joined(call[a]) EXCEPT !.page = @ + 1, !.done = {},
                                                     !.got = [l \in Lane |-> NoResponse]]]
    /\ UNCHANGED <<receipts, tokens, outcomes>>

\* The final chunk is there.  A header of two slots names none; the token
\* verifies if all of it is one slot's.
ReadDone(a) ==
    /\ Answered(a, reads)
    /\ kinds(call[a]) = {"data"} /\ lastPage(call[a])
    /\ LET c == joined(call[a])
       IN /\ tokens' = [tokens EXCEPT ![a] = @ \cup {c.all}]
          /\ receipts' = [receipts EXCEPT ![a] = @ \cup
               {[key |-> s.key, revision |-> s.revision, verified |-> c.all = {s}] :
                   s \in {x \in c.head : c.head = {x}}}]
    /\ Finish(a)
    /\ UNCHANGED outcomes

\* Every other combination of answers: a status, an error, lanes that disagree.
Unusable(c) ==
    CASE c.env.op = "put" -> ~ stored(c)
      [] c.env.op \in {"ack", "abort"} -> ~ ended(c)
      [] c.env.op \in reads -> kinds(c) # {"data"}

CallFails(a) ==
    /\ Answered(a, Operation)
    /\ Unusable(call[a])
    /\ Finish(a)
    /\ UNCHANGED <<receipts, tokens, outcomes>>

-----------------------------------------------------------------------------

SlotExpires(k) ==
    /\ expiries < MaxExpiries
    /\ expiries' = expiries + 1
    /\ Expire(k)
    /\ UNCHANGED <<clients, calls, timeouts, repeats, lapses>>

LeaseLapses(k) ==
    /\ lapses < MaxLapses
    /\ lapses' = lapses + 1
    /\ Lapse(k)
    /\ UNCHANGED <<clients, calls, timeouts, repeats, expiries>>

Client(a) ==
    \/ \E l \in Lane : LaneExecuted(a, l)
    \/ LaneRepeats(a)
    \/ TimeOut(a)
    \/ PutStored(a)
    \/ Ended(a)
    \/ NextPage(a)
    \/ ReadDone(a)
    \/ CallFails(a)

Next ==
    \/ \E a \in Actor : Client(a)
    \/ \E w \in Writer, k \in Key : Put(w, k)
    \/ \E a \in Reader, k \in Key : Get(a, k)
    \/ \E a \in Reader : Discover(a) \/ Ack(a)
    \/ \E a \in Actor : Abort(a)
    \/ \E e \in strays : StrayExecuted(e)
    \/ \E k \in Key : SlotExpires(k) \/ LeaseLapses(k)

Spec == Init /\ [][Next]_vars

-----------------------------------------------------------------------------
(* Properties.                                                             *)

\* Every slot, call, receipt and token holds what the code puts there.
TypeOK ==
    /\ slots \in [Key -> Slot]
    /\ created \in Nat
    /\ call \in [Actor -> Call]
    /\ strays \subseteq Envelope
    /\ receipts \in [Actor -> SUBSET Receipt]
    /\ tokens \in [Actor -> SUBSET SUBSET Source]
    /\ outcomes \subseteq Outcome
    /\ calls \in [Actor -> Nat]
    /\ timeouts \in Nat /\ repeats \in Nat /\ lapses \in Nat /\ expiries \in Nat

\* The sources of everything reader a has read or is reading.
dataLanes(c) == {l \in c.done : c.env.op \in reads /\ c.got[l].kind = "data"}

pieces(a) == call[a].all \cup (UNION tokens[a]) \cup
                 {source(call[a].got[l]) : l \in dataLanes(call[a])}

\* The chunks a reader takes from one slot are of one revision, on whatever
\* lanes and pages and whatever the writer puts meanwhile (put: once a reader
\* starts paging a value, the byte stream is immutable).
OneRevision ==
    \A a \in Reader : \A p, q \in pieces(a) : p.born = q.born => p.revision = q.revision

\* A value that is acknowledged was read to the end and verified by the reader
\* that has claimed it (ack: readerActor and the exact revision; the writer
\* takes it as the release of its candidates).
AckedWasRead ==
    \A k \in Key : slots[k].state = "acked" =>
        /\ slots[k].reader \in Reader
        /\ [key |-> k, revision |-> slots[k].revision, verified |-> TRUE]
               \in receipts[slots[k].reader]

\* Whoever acks and aborts a slot, all of them are told the same end of it
\* (ack, abort, makeTerminal: the first one counts).
OneEnd == \A x, y \in outcomes : x.born = y.born => x.status = y.status

\* Two readers get one value only if the lease of the first one ended in
\* between (read: "without letting concurrent joiners consume one offer").
ReadersTakeTurns ==
    \A k \in Key : slots[k].state # "none" =>
        Cardinality({a \in Reader : \E t \in tokens[a] : \E s \in t : s.born = slots[k].born})
            <= 1 + lapses

\* A finished read is the token of one slot (discover: "so a newer offer cannot
\* splice a different token into the middle of the stream").
NothingSpliced == \A a \in Reader : \A t \in tokens[a] : Cardinality(t) = 1

=============================================================================
