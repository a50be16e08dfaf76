------------------------ MODULE SeededPublishProofs ------------------------
(***************************************************************************)
(* Proofs about SeededPublish, for every number of commands and of         *)
(* conversations: type correctness, that a receipt stays readable, that a  *)
(* mutation is attempted at most once, that what the receipt says has      *)
(* happened, that only the clone is touched, and the refinement of         *)
(* OneShot.                                                                *)
(*                                                                         *)
(* There are two layers.  PublishInv is about the receipt.  The stages     *)
(* have an order, and no record goes back in it.  A mutation that was      *)
(* asked for has left a last record at or behind its intent, and an intent *)
(* that is written is in front of that record.  So much holds because the  *)
(* command that holds the lock knows the last record, and nobody writes    *)
(* behind a part of a line.                                                *)
(*                                                                         *)
(* AccountInv is about the provider, and rests on PublishInv.  A mutation  *)
(* that is asked for once has one request in flight at most: the remix     *)
(* makes one conversation, and a mapping that is there, or was refused,    *)
(* leaves no request that could bring it back.                             *)
(***************************************************************************)
EXTENDS SeededPublish, TLAPS

\* How far a publication is.
Rank ==
    [s \in Stage |->
        CASE s = "prepared" -> 0
          [] s = "remix_pending" -> 1
          [] s = "clone_bound" -> 2
          [] s = "publish_pending" -> 3
          [] s = "publish_rejected" -> 4
          [] s = "public_bound" -> 5
          [] s = "published" -> 6
          [] s = "unpublish_pending" -> 7
          [] s = "unpublished" -> 8
          [] s = "delete_pending" -> 9
          [] s = "deleted" -> 10]

last == log[Len(log)]

\* A command that has loaded the receipt.
Working(p) == session[p].step \notin {"none", "creating", "opening"}

Locked == \A p \in Process : session[p].step \notin {"none", "creating"} => owner = p

Loaded ==
    \A p \in Process :
        Working(p) => log # <<>> /\ session[p].receipt = last /\ ~ torn

Fresh ==
    /\ ~ exists => log = <<>> /\ ~ torn /\ \A p \in Process : session[p].step # "creating"
    /\ \A p \in Process :
          session[p].step = "creating" =>
              /\ log = <<>> /\ ~ torn /\ session[p].receipt = Prepared
              /\ \A q \in Process : session[q].step = "creating" => q = p

Ordered == \A i \in 1 .. Len(log) : Rank[log[i].stage] <= Rank[last.stage]

Counted ==
    \A m \in Mutation :
        /\ attempts[m] \in {0, 1}
        /\ attempts[m] = 1 => log # <<>> /\ Rank[intent(m)] <= Rank[last.stage]

Asked ==
    \A p \in Process :
        session[p].step = "intended" =>
            \A m \in Mutation : intent(m) = session[p].receipt.stage => attempts[m] = 0

\* The inductive invariant.
PublishInv ==
    TypeOK /\ Locked /\ Loaded /\ Fresh /\ Readable /\ Ordered /\ Counted /\ Asked

-----------------------------------------------------------------------------
(* Stages and records.                                                     *)

\* What may come after a stage is a stage behind it.
LEMMA TransitionsRise ==
    ASSUME NEW s \in Stage, NEW t \in Transitions[s]
    PROVE  t \in Stage /\ Rank[s] < Rank[t]
BY DEF Transitions, Rank, Stage, Pending

LEMMA RankType == \A s \in Stage : Rank[s] \in Int
BY DEF Rank, Stage, Pending

\* Every mutation has an intent of its own.
LEMMA IntentsDiffer ==
    /\ \A m \in Mutation : intent(m) \in Stage
    /\ \A m, n \in Mutation : intent(m) = intent(n) => m = n
BY DEF Mutation, intent, Stage, Pending

LEMMA FragmentIsNoRecord == Fragment \notin Record /\ Prepared \in Record
BY DEF Fragment, Prepared, Record, Stage, Pending, MaybeConversation

LEMMA AdvanceFields ==
    ASSUME NEW r \in Record, NEW s \in Stage
    PROVE  /\ advance(r, s) \in Record /\ advance(r, s).stage = s
           /\ advance(r, s).clone = r.clone /\ advance(r, s).observed = r.observed
           /\ advance(r, s).public = r.public
BY DEF advance, Record

LEMMA BindCloneFields ==
    ASSUME NEW r \in Record, NEW c \in Conversation
    PROVE  /\ bindClone(r, c) \in Record /\ bindClone(r, c).stage = "clone_bound"
           /\ bindClone(r, c).clone = c /\ bindClone(r, c).observed = r.observed
           /\ bindClone(r, c).public = r.public
BY DEF bindClone, Record, MaybeConversation, Stage, Pending

LEMMA BindPublicFields ==
    ASSUME NEW r \in Record
    PROVE  /\ bindPublic(r) \in Record /\ bindPublic(r).stage = "public_bound"
           /\ bindPublic(r).clone = r.clone /\ bindPublic(r).observed = r.observed
           /\ bindPublic(r).public = TRUE
BY DEF bindPublic, Record, Stage, Pending

LEMMA ObserveFields ==
    ASSUME NEW r \in Record, NEW c \in Conversation
    PROVE  /\ observe(r, c) \in Record /\ observe(r, c).stage = r.stage
           /\ observe(r, c).clone = r.clone /\ observe(r, c).observed = c
           /\ observe(r, c).public = r.public
BY DEF observe, Record, MaybeConversation

\* A stage that binds nothing new gives a record that can be loaded.
LEMMA AdvanceIsValid ==
    ASSUME NEW r, validValue(r), NEW s \in Transitions[r.stage],
           s \notin {"clone_bound", "public_bound"}
    PROVE  /\ advance(r, s) \in Record /\ advance(r, s).stage = s
           /\ validValue(advance(r, s)) /\ validStep(r, advance(r, s))
<1> DEFINE n == advance(r, s)
<1>1. r \in Record /\ r.stage \in Stage
  BY DEF validValue, Record
<1>2. /\ n \in Record /\ n.stage = s /\ s # r.stage
      /\ n.clone = r.clone /\ n.observed = r.observed /\ n.public = r.public
  <2>1. s \in Stage /\ s # r.stage
    BY <1>1, TransitionsRise, RankType
  <2> QED
    BY <1>1, <2>1, AdvanceFields
<1>3. /\ r.stage \in unbound <=> s \in unbound
      /\ s \in needsPublic => r.stage \in needsPublic
      /\ s \in private => r.stage \in private
  BY <1>1 DEF Transitions, Stage, Pending, unbound, needsPublic, private
<1>4. validValue(n)
  BY <1>1, <1>2, <1>3 DEF validValue
<1>5. validStep(r, n)
  BY <1>1, <1>2 DEF validStep
<1> QED
  BY <1>2, <1>4, <1>5

LEMMA BindCloneIsValid ==
    ASSUME NEW r, validValue(r), NEW c, canBindClone(r, c)
    PROVE  /\ bindClone(r, c) \in Record
           /\ validValue(bindClone(r, c)) /\ validStep(r, bindClone(r, c))
<1> DEFINE n == bindClone(r, c)
<1>1. r \in Record /\ r.stage = "remix_pending" /\ c \in Conversation /\ c # NoConversation
  BY ConversationAssumption DEF validValue, canBindClone
<1>2. /\ n \in Record /\ n.stage = "clone_bound" /\ n.clone = c
      /\ n.observed = r.observed /\ n.public = r.public
  BY <1>1, BindCloneFields
<1>3. r.clone = NoConversation /\ ~ r.public
  BY <1>1 DEF validValue, unbound, private, Record
<1>4. validValue(n)
  BY <1>1, <1>2, <1>3 DEF validValue, canBindClone, unbound, private, needsPublic
<1>5. validStep(r, n)
  BY <1>1, <1>2, <1>3 DEF validStep, Transitions, Stage, Pending
<1> QED
  BY <1>2, <1>4, <1>5

LEMMA BindPublicIsValid ==
    ASSUME NEW r, validValue(r), r.stage = "publish_pending"
    PROVE  /\ bindPublic(r) \in Record /\ bindPublic(r).stage = "public_bound"
           /\ validValue(bindPublic(r)) /\ validStep(r, bindPublic(r))
<1> DEFINE n == bindPublic(r)
<1>1. r \in Record
  BY DEF validValue
<1>2. /\ n \in Record /\ n.stage = "public_bound" /\ n.clone = r.clone
      /\ n.observed = r.observed /\ n.public = TRUE
  BY <1>1, BindPublicFields
<1>3. validValue(n)
  BY <1>1, <1>2 DEF validValue, unbound, private, needsPublic
<1>4. validStep(r, n)
  BY <1>1, <1>2 DEF validStep, Transitions, Stage, Pending
<1> QED
  BY <1>2, <1>3, <1>4

LEMMA ObserveIsValid ==
    ASSUME NEW r, validValue(r), NEW c, observes(r, c)
    PROVE  /\ observe(r, c) \in Record
           /\ validValue(observe(r, c)) /\ validStep(r, observe(r, c))
<1> DEFINE n == observe(r, c)
<1>1. r \in Record /\ c \in Conversation /\ c # NoConversation
  BY ConversationAssumption DEF validValue, observes
<1>2. /\ n \in Record /\ n.stage = r.stage /\ n.clone = r.clone
      /\ n.observed = c /\ n.public = r.public
  BY <1>1, ObserveFields
<1>3. validValue(n)
  BY <1>1, <1>2 DEF validValue, observes
<1>4. validStep(r, n)
  <2>1. n = [r EXCEPT !.observed = n.observed] /\ n # r
    BY <1>1, <1>2 DEF observe, observes
  <2> QED
    BY <1>1, <1>2, <2>1 DEF validStep, observes
<1> QED
  BY <1>2, <1>3, <1>4

\* A record that may follow the last one keeps a receipt readable.
LEMMA HistoryGrows ==
    ASSUME NEW h, NEW T, h \in Seq(T), validHistory(h), NEW r, validValue(r),
           validStep(h[Len(h)], r)
    PROVE  validHistory(Append(h, r))
<1> DEFINE g == Append(h, r)
<1>1. /\ Len(h) \in Nat /\ Len(h) > 0 /\ Len(g) = Len(h) + 1
      /\ g[Len(h) + 1] = r /\ \A i \in 1 .. Len(h) : g[i] = h[i]
  BY DEF validHistory
<1>2. \A i \in 1 .. Len(g) : validValue(g[i])
  BY <1>1 DEF validHistory
<1>3. g[1].stage = "prepared" /\ g # <<>>
  BY <1>1 DEF validHistory
<1>4. ASSUME NEW i \in 1 .. Len(g) - 1
      PROVE  validStep(g[i], g[i + 1])
  <2>1. CASE i = Len(h)
    BY <1>1, <2>1
  <2>2. CASE i \in 1 .. Len(h) - 1
    BY <1>1, <2>2 DEF validHistory
  <2> QED
    BY <1>1, <2>1, <2>2
<1> QED
  BY <1>2, <1>3, <1>4 DEF validHistory

\* No record goes back, and one that stays at its stage only adds to it.
LEMMA StepsRise ==
    ASSUME NEW a \in Record, NEW b \in Record, validStep(a, b)
    PROVE  b.stage = a.stage \/ Rank[a.stage] < Rank[b.stage]
BY TransitionsRise DEF validStep, Record

-----------------------------------------------------------------------------
(* What a command that has loaded the receipt does to it.                  *)

\* A step of p that stores the record r and does nothing else.
Appending(p, r, step) ==
    /\ Working(p)
    /\ step \in Step \ {"creating", "opening", "sent"}
    /\ Store(p, r, step)
    /\ r \in Record /\ validValue(r) /\ validStep(session[p].receipt, r)
    /\ step = "intended" => r.stage # session[p].receipt.stage
    /\ UNCHANGED <<provider, flight, attempts>>

Storing(p) ==
    \/ Intend(p) \/ BindClone(p) \/ BindPublic(p) \/ VerifyPublic(p) \/ RecordMapping(p)
    \/ RecordRejection(p) \/ RecordRemoval(p) \/ NoteUnknown(p)

\* The receipt a working command holds can be loaded, and it is the last record.
LEMMA WorkingReceipt ==
    ASSUME PublishInv, NEW p \in Process, Working(p)
    PROVE  /\ log # <<>> /\ ~ torn /\ owner = p
           /\ session[p].receipt = last /\ validValue(last)
           /\ last \in Record /\ Len(log) \in Nat /\ Len(log) > 0
<1>1. log # <<>> /\ ~ torn /\ session[p].receipt = last /\ owner = p
  BY DEF PublishInv, Loaded, Locked, Working
<1>2. Len(log) \in Nat /\ Len(log) > 0
  BY <1>1 DEF PublishInv, TypeOK
<1>3. validValue(last)
  BY <1>1, <1>2 DEF PublishInv, Readable, validHistory, last
<1> QED
  BY <1>1, <1>2, <1>3 DEF validValue

\* What is stored by an Advance.
LEMMA AdvanceStores ==
    ASSUME PublishInv, NEW p \in Process, Working(p), NEW s, NEW step,
           step \in Step \ {"creating", "opening", "sent"},
           s \notin {"clone_bound", "public_bound"},
           Advance(p, s, step), UNCHANGED <<provider, flight, attempts>>
    PROVE  /\ Appending(p, advance(last, s), step) /\ advance(last, s) \in Record
           /\ s \in Transitions[last.stage]
<1> DEFINE r == advance(last, s)
<1>1. session[p].receipt = last /\ validValue(last) /\ last.stage \in Stage
  BY WorkingReceipt DEF Record
<1>2. s \in Transitions[last.stage] /\ Store(p, r, step)
  BY <1>1 DEF Advance
<1>3. r \in Record /\ r.stage = s /\ validValue(r) /\ validStep(last, r)
  BY <1>1, <1>2, AdvanceIsValid
<1>4. s # last.stage
  BY <1>1, <1>2, TransitionsRise, RankType
<1> QED
  BY <1>1, <1>2, <1>3, <1>4 DEF Appending

\* Every action that stores a record stores one that may follow the last.
LEMMA StoringAppends ==
    ASSUME PublishInv, NEW p \in Process, Storing(p)
    PROVE  \E r \in Record, step \in Step : Appending(p, r, step)
<1>0. session[p].step \in Step
  BY DEF PublishInv, TypeOK, Session
<1>1. CASE Intend(p)
  <2>1. PICK s \in planned(session[p]) : Advance(p, s, "intended")
    BY <1>1 DEF Intend
  <2>2. s \notin {"clone_bound", "public_bound"}
    BY <2>1 DEF planned
  <2> QED
    BY <1>1, <2>1, <2>2, AdvanceStores DEF Intend, Working, Step
<1>2. CASE BindClone(p)
  <2>1. PICK c \in cloneOf(session[p]) :
            /\ canBindClone(session[p].receipt, c)
            /\ Store(p, bindClone(session[p].receipt, c), "planning")
    BY <1>2 DEF BindClone
  <2>2. Working(p)
    BY <1>2 DEF BindClone, Working
  <2>3. validValue(session[p].receipt)
    BY <2>2, WorkingReceipt
  <2> QED
    BY <1>2, <2>1, <2>2, <2>3, BindCloneIsValid DEF Appending, Step, BindClone
<1>3. CASE BindPublic(p)
  <2>1. Working(p) /\ session[p].receipt.stage = "publish_pending"
    BY <1>3 DEF BindPublic, Working
  <2>2. validValue(session[p].receipt)
    BY <2>1, WorkingReceipt
  <2>3. PICK step \in {"unresolved", "planning", "published", "unpublished"} :
            Store(p, bindPublic(session[p].receipt), step)
    BY <1>3 DEF BindPublic
  <2> QED
    BY <1>3, <2>1, <2>2, <2>3, BindPublicIsValid DEF Appending, Step, BindPublic
<1>4. CASE VerifyPublic(p)
  BY <1>4, AdvanceStores DEF VerifyPublic, Working, Step
<1>5. CASE RecordMapping(p)
  <2>1. PICK s \in {"published", "unpublished"}, step \in {"none", "planning", "unresolved"} :
            Advance(p, s, step)
    BY <1>5 DEF RecordMapping
  <2>2. Working(p)
    BY <1>5 DEF RecordMapping, Working
  <2> QED
    BY <1>5, <2>1, <2>2, AdvanceStores DEF RecordMapping, Step
<1>6. CASE RecordRejection(p)
  BY <1>6, AdvanceStores DEF RecordRejection, Working, Step
<1>7. CASE RecordRemoval(p)
  <2>1. PICK s \in {"deleted", "unpublished"}, step \in {"none", "planning"} :
            Advance(p, s, step)
    BY <1>7 DEF RecordRemoval
  <2>2. Working(p)
    BY <1>7 DEF RecordRemoval, Working
  <2> QED
    BY <1>7, <2>1, <2>2, AdvanceStores DEF RecordRemoval, Step
<1>8. CASE NoteUnknown(p)
  <2>1. Working(p)
    BY <1>8 DEF NoteUnknown, noted, Working
  <2>2. validValue(session[p].receipt)
    BY <2>1, WorkingReceipt
  <2> QED
    BY <1>8, <2>1, <2>2, ObserveIsValid DEF Appending, Step, NoteUnknown
<1> QED
  BY <1>1, <1>2, <1>3, <1>4, <1>5, <1>6, <1>7, <1>8 DEF Storing

\* The sessions when p goes on with the record r.
moved(f, p, r, step) == [f EXCEPT ![p].receipt = r, ![p].step = step]

\* What such a step leaves: the record or nothing, and p with it or ended.
LEMMA AppendingLeaves ==
    ASSUME PublishInv, NEW p \in Process, NEW r \in Record, NEW step \in Step,
           Appending(p, r, step)
    PROVE  /\ exists' = exists
           /\ \/ log' = Append(log, r) /\ torn' = FALSE
              \/ log' = log
           /\ \/ /\ log' = Append(log, r) /\ torn' = FALSE /\ step # "none"
                 /\ session' = moved(session, p, r, step)
                 /\ owner' = p
              \/ session' = [session EXCEPT ![p] = Idle] /\ owner' = NoProcess
           /\ torn' \in BOOLEAN
<1>1. ~ torn /\ owner = p
  BY WorkingReceipt DEF Appending
<1> QED
  BY <1>1 DEF Appending, Store, written, Ends, GoesOn, moved

-----------------------------------------------------------------------------
(* The invariant.                                                          *)

LEMMA TypesOfSession == Idle \in Session
BY FragmentIsNoRecord DEF Idle, Session, Step, Command, MaybeConversation

\* Only the session of p changes, and of it the receipt and the step.
LEMMA SessionGoesOn ==
    ASSUME NEW f \in [Process -> Session], NEW p \in Process, NEW r \in Record, NEW step \in Step
    PROVE  /\ moved(f, p, r, step) \in [Process -> Session]
           /\ moved(f, p, r, step)[p].receipt = r /\ moved(f, p, r, step)[p].step = step
           /\ moved(f, p, r, step)[p].answer = f[p].answer
           /\ moved(f, p, r, step)[p].named = f[p].named
           /\ \A q \in Process : q # p => moved(f, p, r, step)[q] = f[q]
<1> DEFINE h == [f EXCEPT ![p].receipt = r]
           g == [h EXCEPT ![p].step = step]
<1>1. /\ h \in [Process -> Session] /\ h[p].receipt = r
      /\ h[p].answer = f[p].answer /\ h[p].named = f[p].named
      /\ \A q \in Process : q # p => h[q] = f[q]
  BY DEF Session
<1>2. /\ g \in [Process -> Session] /\ g[p].receipt = r /\ g[p].step = step
      /\ g[p].answer = f[p].answer /\ g[p].named = f[p].named
      /\ \A q \in Process : q # p => g[q] = h[q]
  <2> HIDE DEF h
  <2> QED
    BY <1>1 DEF Session
<1> QED
  BY <1>1, <1>2 DEF moved

\* The last record of a receipt that grew.
LEMMA LastOfAppend ==
    ASSUME TypeOK, NEW r \in Record, log' = Append(log, r)
    PROVE  /\ last' = r /\ log' # <<>> /\ Len(log') = Len(log) + 1 /\ Len(log) \in Nat
           /\ \A i \in 1 .. Len(log) : log'[i] = log[i]
           /\ log' \in Seq(Record \cup {Fragment})
BY DEF TypeOK, last

LEMMA AppendingKeepsReceipt ==
    ASSUME PublishInv, NEW p \in Process, NEW r \in Record, NEW step \in Step,
           Appending(p, r, step)
    PROVE  Readable' /\ Ordered' /\ Counted'
<1>1. /\ log # <<>> /\ session[p].receipt = last /\ last \in Record
      /\ validStep(last, r) /\ validValue(r) /\ attempts' = attempts
  BY WorkingReceipt DEF Appending
<1>2. CASE log' = log
  BY <1>1, <1>2 DEF PublishInv, Readable, Ordered, Counted, last
<1>3. CASE log' = Append(log, r)
  <2>1. /\ last' = r /\ log' # <<>> /\ Len(log') = Len(log) + 1 /\ Len(log) \in Nat
        /\ \A i \in 1 .. Len(log) : log'[i] = log[i]
    BY <1>3, LastOfAppend DEF PublishInv
  <2>2. Readable'
    BY <1>1, <1>3, HistoryGrows DEF PublishInv, Readable, TypeOK, last
  <2>3. Rank[last.stage] <= Rank[r.stage] /\ Rank[last.stage] \in Int /\ Rank[r.stage] \in Int
    BY <1>1, StepsRise, RankType DEF Record
  <2>4. Ordered'
    <3> SUFFICES ASSUME NEW i \in 1 .. Len(log')
                 PROVE  Rank[log'[i].stage] <= Rank[r.stage]
      BY <2>1 DEF Ordered
    <3>1. CASE i = Len(log) + 1
      BY <2>1, <2>3, <3>1 DEF last
    <3>2. CASE i \in 1 .. Len(log)
      <4>1. log[i] \in Record
        BY <1>1, <3>2 DEF PublishInv, Readable, validHistory, validValue
      <4>2. Rank[log[i].stage] \in Int /\ Rank[log[i].stage] <= Rank[last.stage]
        BY <3>2, <4>1, RankType DEF Record, PublishInv, Ordered
      <4> QED
        BY <2>1, <2>3, <3>2, <4>2
    <3> QED
      BY <2>1, <3>1, <3>2
  <2>5. Counted'
    <3> SUFFICES ASSUME NEW m \in Mutation, attempts[m] = 1
                 PROVE  Rank[intent(m)] <= Rank[r.stage]
      BY <1>1, <2>1 DEF PublishInv, Counted, intent
    <3> QED
      BY <2>3, IntentsDiffer, RankType DEF PublishInv, Counted
  <2> QED
    BY <2>2, <2>4, <2>5
<1> QED
  BY <1>2, <1>3, AppendingLeaves

LEMMA AppendingKeepsSessions ==
    ASSUME PublishInv, NEW p \in Process, NEW r \in Record, NEW step \in Step,
           Appending(p, r, step)
    PROVE  TypeOK' /\ Locked' /\ Loaded' /\ Fresh' /\ Asked'
<1>1. /\ log # <<>> /\ ~ torn /\ session[p].receipt = last /\ last \in Record /\ owner = p
      /\ attempts' = attempts /\ Working(p) /\ validStep(last, r)
      /\ step \notin {"creating", "opening", "sent"}
      /\ step = "intended" => r.stage # last.stage
  BY WorkingReceipt DEF Appending
<1>2. /\ exists' = exists /\ torn' \in BOOLEAN
      /\ \/ log' = Append(log, r) /\ torn' = FALSE
         \/ log' = log
      /\ \/ /\ log' = Append(log, r) /\ torn' = FALSE
            /\ session' = moved(session, p, r, step) /\ owner' = p
         \/ session' = [session EXCEPT ![p] = Idle] /\ owner' = NoProcess
  BY AppendingLeaves
<1>3. log' \in Seq(Record \cup {Fragment})
  BY <1>2, LastOfAppend DEF PublishInv, TypeOK
<1>4. session \in [Process -> Session]
  BY DEF PublishInv, TypeOK
<1>5. session' \in [Process -> Session]
  BY <1>2, <1>4, TypesOfSession, SessionGoesOn
<1>6. TypeOK'
  BY <1>1, <1>2, <1>3, <1>5 DEF PublishInv, TypeOK, Appending, provider
<1>7. \A q \in Process : q # p =>
          session'[q] = session[q] /\ session[q].step \in {"none", "creating"}
  BY <1>1, <1>2, <1>4, SessionGoesOn DEF PublishInv, Locked
<1>8. \/ /\ log' = Append(log, r) /\ torn' = FALSE /\ owner' = p
         /\ session'[p].receipt = r /\ session'[p].step = step
      \/ session'[p] = Idle
  BY <1>2, <1>4, SessionGoesOn
<1>9. Locked'
  BY <1>7, <1>8 DEF Locked, Idle
<1>10. Loaded'
  BY <1>7, <1>8, LastOfAppend DEF Loaded, Working, Idle, PublishInv
<1>11. Fresh'
  <2>1. exists /\ \A q \in Process : session[q].step # "creating"
    BY <1>1 DEF PublishInv, Fresh
  <2> QED
    BY <1>1, <1>2, <1>7, <1>8, <2>1 DEF Fresh, Idle
<1>12. Asked'
  <2> SUFFICES ASSUME NEW q \in Process, session'[q].step = "intended",
                      NEW m \in Mutation, intent(m) = session'[q].receipt.stage
               PROVE  attempts'[m] = 0
    BY DEF Asked, intent
  <2>1. q = p /\ session'[p].receipt = r /\ step = "intended"
    BY <1>7, <1>8 DEF Idle
  <2>2. Rank[last.stage] < Rank[r.stage] /\ r.stage = intent(m)
    BY <1>1, <2>1, StepsRise
  <2>3. Rank[last.stage] \in Int /\ Rank[r.stage] \in Int
    BY <1>1, RankType DEF Record
  <2> QED
    BY <1>1, <2>2, <2>3 DEF PublishInv, Counted
<1> QED
  BY <1>6, <1>9, <1>10, <1>11, <1>12

\* A step that leaves the receipt's records and the counts alone.
LEMMA RecordsStay ==
    ASSUME PublishInv, log' = log, attempts' = attempts
    PROVE  Readable' /\ Ordered' /\ Counted'
BY DEF PublishInv, Readable, Ordered, Counted, last

LEMMA CreateKeeps ==
    ASSUME PublishInv, NEW p \in Process, Create(p)
    PROVE  PublishInv'
<1> DEFINE new == [Idle EXCEPT !.step = "creating"]
<1>1. new \in Session /\ new.step = "creating" /\ new.receipt = Prepared
  BY TypesOfSession DEF Session, Step, Idle
<1>2. session \in [Process -> Session] /\ session' = [session EXCEPT ![p] = new]
  BY DEF PublishInv, TypeOK, Create
<1> HIDE DEF new
<1>3. /\ log = <<>> /\ ~ torn /\ exists' = TRUE /\ log' = log /\ torn' = torn
      /\ owner' = owner /\ attempts' = attempts
      /\ \A q \in Process : session[q].step # "creating"
  BY DEF PublishInv, Create, Fresh, file
<1>4. TypeOK'
  BY <1>1, <1>2, <1>3 DEF PublishInv, TypeOK, Create, provider
<1>5. Locked' /\ Loaded' /\ Fresh' /\ Asked'
  BY <1>1, <1>2, <1>3 DEF PublishInv, Locked, Loaded, Fresh, Asked, Working, last
<1> QED
  BY <1>3, <1>4, <1>5, RecordsStay DEF PublishInv

LEMMA OpenKeeps ==
    ASSUME PublishInv, NEW p \in Process, NEW command \in Command, Open(p, command)
    PROVE  PublishInv'
<1> DEFINE new == [Idle EXCEPT !.step = "opening", !.command = command]
<1>1. new \in Session /\ new.step = "opening"
  BY TypesOfSession DEF Session, Step, Idle
<1>2. session \in [Process -> Session] /\ session' = [session EXCEPT ![p] = new]
  BY DEF PublishInv, TypeOK, Open
<1> HIDE DEF new
<1>3. /\ exists' = exists /\ log' = log /\ torn' = torn /\ attempts' = attempts
      /\ owner' = p /\ exists /\ NoProcess # p
      /\ \A q \in Process : session[q].step \in {"none", "creating"}
  BY ProcessAssumption DEF PublishInv, Locked, Open, file, free
<1>4. TypeOK'
  BY <1>1, <1>2, <1>3 DEF PublishInv, TypeOK, Open, provider
<1>5. Locked' /\ Loaded' /\ Fresh' /\ Asked'
  BY <1>1, <1>2, <1>3 DEF PublishInv, Locked, Loaded, Fresh, Asked, Working, last
<1> QED
  BY <1>3, <1>4, <1>5, RecordsStay DEF PublishInv

LEMMA StopKeeps ==
    ASSUME PublishInv, NEW p \in Process, Stop(p)
    PROVE  PublishInv'
<1>1. session \in [Process -> Session] /\ session' = [session EXCEPT ![p] = Idle]
  BY DEF PublishInv, TypeOK, Stop, Ends
<1>2. /\ exists' = exists /\ log' = log /\ torn' = torn /\ attempts' = attempts
      /\ owner' = IF owner = p THEN NoProcess ELSE owner
  BY DEF Stop, file, Ends
<1>3. TypeOK'
  BY <1>1, <1>2, TypesOfSession DEF PublishInv, TypeOK, Stop, provider
<1>4. Idle.step = "none"
  BY DEF Idle
<1>5. Locked' /\ Loaded' /\ Fresh' /\ Asked'
  BY <1>1, <1>2, <1>4 DEF PublishInv, Locked, Loaded, Fresh, Asked, Working, last
<1> QED
  BY <1>2, <1>3, <1>5, RecordsStay DEF PublishInv

LEMMA LoadKeeps ==
    ASSUME PublishInv, NEW p \in Process, Load(p)
    PROVE  PublishInv'
<1>1. log # <<>> /\ ~ torn /\ validValue(last) /\ last \in Record
  BY DEF Load, usable, validHistory, last, validValue, PublishInv, TypeOK
<1>2. session \in [Process -> Session] /\ "planning" \in Step
  BY DEF PublishInv, TypeOK, Step
<1>3. /\ session' \in [Process -> Session]
      /\ session'[p].receipt = last /\ session'[p].step = "planning"
      /\ \A q \in Process : q # p => session'[q] = session[q]
  <2>1. session' = moved(session, p, last, "planning")
    BY DEF Load, last, moved
  <2> QED
    BY <1>1, <1>2, <2>1, SessionGoesOn
<1>4. /\ exists' = exists /\ log' = log /\ torn' = torn /\ attempts' = attempts
      /\ owner' = owner /\ session[p].step = "opening"
  BY DEF Load, file
<1>5. TypeOK'
  BY <1>3, <1>4 DEF PublishInv, TypeOK, Load, provider
<1>6. Locked' /\ Loaded' /\ Fresh' /\ Asked'
  BY <1>1, <1>3, <1>4 DEF PublishInv, Locked, Loaded, Fresh, Asked, Working, last
<1> QED
  BY <1>4, <1>5, <1>6, RecordsStay DEF PublishInv

LEMMA RepairKeeps ==
    ASSUME PublishInv, RepairPartialTail
    PROVE  PublishInv'
<1>1. /\ exists' = exists /\ log' = log /\ torn' = FALSE /\ attempts' = attempts
      /\ owner' = owner /\ session' = session /\ torn
  BY DEF RepairPartialTail
<1>2. TypeOK'
  BY <1>1 DEF PublishInv, TypeOK, RepairPartialTail, provider
<1>3. Loaded'
  BY <1>1 DEF PublishInv, Loaded, Working
<1>4. Locked' /\ Asked'
  BY <1>1 DEF PublishInv, Locked, Asked
<1>5. Fresh'
  BY <1>1 DEF PublishInv, Fresh
<1> QED
  BY <1>1, <1>2, <1>3, <1>4, <1>5, RecordsStay DEF PublishInv

\* What the first record of a receipt leaves.
LEMMA FirstRecord ==
    ASSUME PublishInv, log = <<>>, log' = <<Prepared>>
    PROVE  /\ validHistory(log') /\ Readable' /\ Ordered'
           /\ log' \in Seq(Record \cup {Fragment}) /\ log' # <<>> /\ last' = Prepared
<1>1. validValue(Prepared) /\ Prepared.stage = "prepared"
  BY FragmentIsNoRecord DEF validValue, Prepared, unbound, private, needsPublic
<1>2. Len(log') = 1 /\ log'[1] = Prepared /\ log' # <<>> /\ last' = Prepared
  BY DEF last
<1>3. validHistory(log')
  BY <1>1, <1>2 DEF validHistory
<1>4. Rank[Prepared.stage] \in Int
  BY <1>1, RankType DEF Stage
<1> QED
  BY <1>2, <1>3, <1>4, FragmentIsNoRecord DEF Readable, Ordered

LEMMA BeginKeeps ==
    ASSUME PublishInv, NEW p \in Process, Begin(p)
    PROVE  PublishInv'
<1>1. /\ log = <<>> /\ ~ torn /\ exists /\ exists' = exists /\ owner = NoProcess
      /\ session[p].step = "creating" /\ attempts' = attempts /\ torn' \in BOOLEAN
      /\ \A m \in Mutation : attempts[m] = 0
      /\ \A q \in Process : q # p => session[q].step = "none"
  BY ProcessAssumption DEF PublishInv, Begin, free, Fresh, Counted, Locked
<1>2. session \in [Process -> Session] /\ session[p] \in Session
  BY DEF PublishInv, TypeOK
<1>3. \/ log' = <<Prepared>> \/ log' = log
  BY <1>1 DEF Begin, written
<1>4. /\ session' \in [Process -> Session]
      /\ \A q \in Process : q # p => session'[q] = session[q]
      /\ \/ /\ log' = <<Prepared>> /\ torn' = FALSE /\ owner' = p
            /\ session'[p] = [session[p] EXCEPT !.step = "planning"]
            /\ session'[p].step = "planning" /\ session'[p].receipt = session[p].receipt
         \/ session'[p] = Idle /\ owner' = NoProcess
  <2>1. CASE /\ log' = written(Prepared) /\ torn' = FALSE /\ owner' = p
             /\ session' = [session EXCEPT ![p].step = "planning"]
    BY <1>1, <1>2, <2>1 DEF written, Session, Step
  <2>2. CASE Ends(p)
    BY <1>1, <1>2, <2>2, TypesOfSession, ProcessAssumption DEF Ends
  <2> QED
    BY <2>1, <2>2 DEF Begin
<1>5. session[p].receipt = Prepared /\ Idle.step = "none"
  BY <1>1 DEF PublishInv, Fresh, Idle
<1>6. Readable' /\ Ordered' /\ log' \in Seq(Record \cup {Fragment})
  <2>1. log \in Seq(Record \cup {Fragment})
    BY DEF PublishInv, TypeOK
  <2> QED
    BY <1>1, <1>3, <2>1, FirstRecord, RecordsStay
<1>7. TypeOK'
  BY <1>1, <1>4, <1>6 DEF PublishInv, TypeOK, Begin, provider
<1>8. Locked'
  BY <1>1, <1>4, <1>5 DEF Locked
<1>9. Loaded'
  BY <1>1, <1>4, <1>5, FirstRecord DEF Loaded, Working
<1>10. Fresh'
  BY <1>1, <1>4, <1>5 DEF Fresh
<1>11. Counted'
  BY <1>1 DEF Counted
<1>12. Asked'
  BY <1>1, <1>4, <1>5 DEF Asked
<1> QED
  BY <1>6, <1>7, <1>8, <1>9, <1>10, <1>11, <1>12 DEF PublishInv

\* A request: its intent is the last record, and nobody asked before.
LEMMA DispatchLeaves ==
    ASSUME PublishInv, NEW p \in Process, Dispatch(p)
    PROVE  \E m \in Mutation :
               /\ intent(m) = last.stage /\ ready(last.stage, last)
               /\ flight' = flight \cup {[mutation |-> m, on |-> last.clone, by |-> p]}
               /\ session[p].step = "intended" /\ session[p].receipt = last
               /\ log # <<>> /\ last \in Record /\ validValue(last)
               /\ attempts[m] = 0 /\ attempts' \in [Mutation -> Nat] /\ attempts'[m] = 1
               /\ \A n \in Mutation : n # m => attempts'[n] = attempts[n]
               /\ attempts' = [attempts EXCEPT ![m] = 1]
               /\ UNCHANGED <<file, owner, provider>>
               /\ session' \in [Process -> Session]
               /\ session'[p].step = "sent" /\ session'[p].receipt = last
               /\ session'[p].answer = "none" /\ session'[p].named = NoConversation
               /\ \A q \in Process : q # p => session'[q] = session[q]
<1>1. session[p].step = "intended" /\ Working(p) /\ UNCHANGED <<file, owner, provider>>
  BY DEF Dispatch, Working
<1>2. /\ log # <<>> /\ session[p].receipt = last /\ last \in Record /\ validValue(last)
  BY <1>1, WorkingReceipt
<1>3. PICK m \in Mutation :
          /\ intent(m) = last.stage /\ ready(last.stage, last)
          /\ flight' = flight \cup {[mutation |-> m, on |-> last.clone, by |-> p]}
          /\ attempts' = [attempts EXCEPT ![m] = @ + 1]
  BY <1>2 DEF Dispatch
<1>4. attempts[m] = 0
  BY <1>1, <1>2, <1>3 DEF PublishInv, Asked
<1>5. /\ attempts' \in [Mutation -> Nat] /\ attempts'[m] = 1
      /\ \A n \in Mutation : n # m => attempts'[n] = attempts[n]
      /\ attempts' = [attempts EXCEPT ![m] = 1]
  BY <1>3, <1>4 DEF PublishInv, TypeOK
<1> DEFINE s == [session[p] EXCEPT !.step = "sent", !.answer = "none", !.named = NoConversation]
<1>6. session \in [Process -> Session] /\ session[p] \in Session
  BY DEF PublishInv, TypeOK
<1>7. /\ s \in Session /\ s.step = "sent" /\ s.receipt = session[p].receipt
      /\ s.answer = "none" /\ s.named = NoConversation
  BY <1>6 DEF Session, Step, MaybeConversation
<1>8. session' = [session EXCEPT ![p] = s]
  BY <1>6 DEF Dispatch, Session
<1> HIDE DEF s
<1> QED
  BY <1>1, <1>2, <1>3, <1>4, <1>5, <1>6, <1>7, <1>8

LEMMA DispatchKeeps ==
    ASSUME PublishInv, NEW p \in Process, Dispatch(p)
    PROVE  PublishInv'
<1>1. PICK m \in Mutation :
          /\ intent(m) = session[p].receipt.stage
          /\ flight' = flight \cup {[mutation |-> m, on |-> session[p].receipt.clone, by |-> p]}
          /\ attempts[m] = 0 /\ attempts' \in [Mutation -> Nat] /\ attempts'[m] = 1
          /\ \A n \in Mutation : n # m => attempts'[n] = attempts[n]
          /\ UNCHANGED <<file, owner, provider>>
          /\ session[p].step = "intended"
          /\ session' \in [Process -> Session]
          /\ session'[p].step = "sent" /\ session'[p].receipt = session[p].receipt
          /\ \A q \in Process : q # p => session'[q] = session[q]
          /\ log # <<>> /\ session[p].receipt = last /\ last \in Record
  BY DispatchLeaves
<1>2. session[p].step = "intended" /\ UNCHANGED <<file, owner, provider>>
  BY <1>1
<1>3. /\ Working(p) /\ log # <<>> /\ session[p].receipt = last /\ last \in Record
  BY <1>1 DEF Working
<1>4. /\ session' \in [Process -> Session]
      /\ session'[p].step = "sent" /\ session'[p].receipt = session[p].receipt
      /\ \A q \in Process : q # p => session'[q] = session[q]
  BY <1>1
<1>5. /\ attempts' \in [Mutation -> Nat] /\ attempts'[m] = 1
      /\ \A n \in Mutation : n # m => attempts'[n] = attempts[n]
  BY <1>1
<1>6. TypeOK'
  <2>1. [mutation |-> m, on |-> session[p].receipt.clone, by |-> p] \in Request
    BY <1>3 DEF Request, Record
  <2> QED
    BY <1>1, <1>2, <1>4, <1>5, <2>1 DEF PublishInv, TypeOK, file, provider
<1>7. Locked' /\ Loaded' /\ Fresh'
  BY <1>2, <1>4 DEF PublishInv, Locked, Loaded, Fresh, Working, file, last
<1>8. Readable' /\ Ordered'
  BY <1>2 DEF PublishInv, Readable, Ordered, file, last
<1>9. Counted'
  <2> SUFFICES ASSUME NEW n \in Mutation
               PROVE  /\ attempts'[n] \in {0, 1}
                      /\ attempts'[n] = 1 => log # <<>> /\ Rank[intent(n)] <= Rank[last.stage]
    BY <1>2 DEF Counted, file, last
  <2>1. CASE n = m
    BY <1>1, <1>3, <1>5, <2>1, RankType DEF Record
  <2>2. CASE n # m
    BY <1>5, <2>2 DEF PublishInv, Counted
  <2> QED
    BY <2>1, <2>2
<1>10. Asked'
  <2> SUFFICES ASSUME NEW q \in Process, session'[q].step = "intended",
                      NEW n \in Mutation, intent(n) = session'[q].receipt.stage
               PROVE  FALSE
    BY DEF Asked
  <2>1. q # p /\ session[q].step = "intended"
    BY <1>4
  <2> QED
    BY <1>2, <2>1 DEF PublishInv, Locked
<1> QED
  BY <1>6, <1>7, <1>8, <1>9, <1>10 DEF PublishInv

\* Steps of the provider and of other users of the account.
Outside ==
    \/ \E q \in flight : Remix(q) \/ Publish(q) \/ Unpublish(q) \/ Delete(q) \/ Refuse(q)
    \/ CloneElsewhere \/ WithdrawByHand

LEMMA OutsideLeaves ==
    ASSUME PublishInv, Outside
    PROVE  /\ UNCHANGED <<file, owner, attempts>> /\ flight' \subseteq flight
           /\ session' \in [Process -> Session]
           /\ \A p \in Process :
                 session'[p].step = session[p].step /\ session'[p].receipt = session[p].receipt
<1>1. /\ UNCHANGED <<file, owner, attempts>>
      /\ \/ session' = session
         \/ \E p \in Process, answer \in {"done", "refused"}, named \in MaybeConversation :
                session' = [session EXCEPT ![p].answer = answer, ![p].named = named]
      /\ flight' \subseteq flight
  <2>1. ASSUME NEW q \in flight,
               Remix(q) \/ Publish(q) \/ Unpublish(q) \/ Delete(q) \/ Refuse(q)
        PROVE  \E answer \in {"done", "refused"}, named \in MaybeConversation :
                   Answer(q, answer, named)
    BY <2>1 DEF Remix, Publish, Unpublish, Delete, Refuse, MaybeConversation
  <2>2. \A q \in flight : q.by \in Process
    BY DEF PublishInv, TypeOK, Request
  <2> QED
    BY <2>1, <2>2 DEF Outside, Answer, CloneElsewhere, WithdrawByHand
<1>2. /\ session' \in [Process -> Session]
      /\ \A p \in Process :
            session'[p].step = session[p].step /\ session'[p].receipt = session[p].receipt
  <2>1. CASE session' = session
    BY <2>1 DEF PublishInv, TypeOK
  <2>2. ASSUME NEW p \in Process, NEW answer \in {"done", "refused"}, NEW named \in MaybeConversation,
               session' = [session EXCEPT ![p].answer = answer, ![p].named = named]
        PROVE  /\ session' \in [Process -> Session]
               /\ \A q \in Process :
                     session'[q].step = session[q].step /\ session'[q].receipt = session[q].receipt
    <3> DEFINE h == [session EXCEPT ![p].answer = answer]
    <3>1. /\ h \in [Process -> Session]
          /\ \A q \in Process : h[q].step = session[q].step /\ h[q].receipt = session[q].receipt
      BY DEF PublishInv, TypeOK, Session
    <3>2. session' = [h EXCEPT ![p].named = named]
      BY <2>2
    <3> HIDE DEF h
    <3> QED
      BY <3>1, <3>2 DEF Session
  <2> QED
    BY <1>1, <2>1, <2>2
<1> QED
  BY <1>1, <1>2

LEMMA OutsideKeeps ==
    ASSUME PublishInv, Outside
    PROVE  PublishInv'
<1>1. UNCHANGED <<file, owner, attempts>> /\ flight' \subseteq flight
  BY OutsideLeaves
<1>2. /\ session' \in [Process -> Session]
      /\ \A p \in Process :
            session'[p].step = session[p].step /\ session'[p].receipt = session[p].receipt
  BY OutsideLeaves
<1>3. TypeOK'
  <2>1. /\ conversation' \in [Conversation -> {"absent", "there", "deleted"}]
        /\ mapping' \in [Conversation -> {"none", "active", "deleted"}]
        /\ made' \subseteq Conversation
    BY DEF PublishInv, TypeOK, Outside, Remix, Publish, Unpublish, Delete, Refuse,
           CloneElsewhere, WithdrawByHand, provider
  <2> QED
    BY <1>1, <1>2, <2>1 DEF PublishInv, TypeOK, file
<1>4. Locked' /\ Loaded' /\ Fresh' /\ Asked'
  BY <1>1, <1>2 DEF PublishInv, Locked, Loaded, Fresh, Asked, Working, file, last
<1> QED
  BY <1>1, <1>3, <1>4, RecordsStay DEF PublishInv, file

LEMMA InitHolds == Init => PublishInv
<1> SUFFICES ASSUME Init PROVE PublishInv
  OBVIOUS
<1>1. session \in [Process -> Session] /\ \A p \in Process : session[p].step = "none"
  BY TypesOfSession DEF Init, Idle
<1>2. TypeOK
  <2>1. attempts \in [Mutation -> Nat] /\ log \in Seq(Record \cup {Fragment})
    BY DEF Init
  <2>2. /\ conversation \in [Conversation -> {"absent", "there", "deleted"}]
        /\ mapping \in [Conversation -> {"none", "active", "deleted"}]
    BY DEF Init
  <2> QED
    BY <1>1, <2>1, <2>2 DEF Init, TypeOK
<1> QED
  BY <1>1, <1>2 DEF Init, PublishInv, Locked, Loaded, Fresh, Readable, Ordered, Counted, Asked,
                    Working

LEMMA NextHolds == PublishInv /\ [Next]_vars => PublishInv'
<1> SUFFICES ASSUME PublishInv, [Next]_vars PROVE PublishInv'
  OBVIOUS
<1>1. ASSUME NEW p \in Process, Storing(p) PROVE PublishInv'
  BY <1>1, StoringAppends, AppendingKeepsReceipt, AppendingKeepsSessions DEF PublishInv
<1>2. ASSUME NEW p \in Process, Create(p) PROVE PublishInv'
  BY <1>2, CreateKeeps
<1>3. ASSUME NEW p \in Process, Begin(p) PROVE PublishInv'
  BY <1>3, BeginKeeps
<1>4. ASSUME NEW p \in Process, NEW command \in Command, Open(p, command) PROVE PublishInv'
  BY <1>4, OpenKeeps
<1>5. ASSUME NEW p \in Process, Load(p) PROVE PublishInv'
  BY <1>5, LoadKeeps
<1>6. ASSUME NEW p \in Process, Stop(p) PROVE PublishInv'
  BY <1>6, StopKeeps
<1>7. ASSUME NEW p \in Process, Dispatch(p) PROVE PublishInv'
  BY <1>7, DispatchKeeps
<1>8. CASE RepairPartialTail
  BY <1>8, RepairKeeps
<1>9. CASE Outside
  BY <1>9, OutsideKeeps
<1>10. CASE UNCHANGED vars
  BY <1>10 DEF vars, file, provider, PublishInv, TypeOK, Locked, Loaded, Fresh, Readable, Ordered,
               Counted, Asked, Working, last
<1> QED
  BY <1>1, <1>2, <1>3, <1>4, <1>5, <1>6, <1>7, <1>8, <1>9, <1>10 DEF Next, Storing, Outside

\* In every state the lock holder knows the last record, no record goes back
\* and a mutation that was asked for is behind its intent.
THEOREM PublishInvHolds == Spec => []PublishInv
BY InitHolds, NextHolds, PTL DEF Spec

\* The receipt, the sessions and the requests are of the kinds the code knows.
THEOREM TypeCorrect == Spec => []TypeOK
<1>1. PublishInv => TypeOK
  BY DEF PublishInv
<1> QED
  BY <1>1, PublishInvHolds, PTL

\* However the commands die, a receipt that was begun can be loaded again.
THEOREM StaysReadable == Spec => []Readable
<1>1. PublishInv => Readable
  BY DEF PublishInv
<1> QED
  BY <1>1, PublishInvHolds, PTL

\* However many commands run, every mutation is asked for at most once.
THEOREM AttemptedOnce == Spec => []AtMostOnce
<1>1. PublishInv => AtMostOnce
  BY DEF PublishInv, Counted, AtMostOnce
<1> QED
  BY <1>1, PublishInvHolds, PTL

-----------------------------------------------------------------------------
(* The account.                                                            *)

noneInFlight(m) == \A q \in flight : q.mutation # m

OwnRequests == \A q \in flight : q.mutation # "remix" => q.on \in made

OneInFlight ==
    \A q \in flight :
        /\ attempts[q.mutation] = 1
        /\ \A o \in flight : o.mutation = q.mutation => o = q

\* The remix makes one conversation.
OneMade ==
    /\ \A c, d \in made : c = d
    /\ made # {} => attempts["remix"] = 1 /\ noneInFlight("remix")

OnePublished == \A c \in Conversation : mapping[c] # "none" => noneInFlight("publish")

\* What is true of the account when r is the last record.
Tells(r) ==
    /\ r.clone # NoConversation => r.clone \in made
    /\ r.observed # NoConversation => r.observed \in made
    /\ r.public => mapping[r.clone] # "none"
    /\ r.stage \in {"publish_rejected", "delete_pending", "deleted"} /\ ~ r.public =>
           mapping[r.clone] = "none" /\ noneInFlight("publish")
    /\ r.stage \in {"unpublished", "delete_pending", "deleted"} /\ r.public =>
           mapping[r.clone] = "deleted"
    /\ r.stage = "deleted" => conversation[r.clone] = "deleted"

Told == log # <<>> => Tells(last)

\* What a command was told, or has seen and is about to record.
Claims(p) ==
    LET s == session[p]
    IN /\ s.named # NoConversation => s.named \in made
       /\ s.step = "unpublished" => s.receipt.clone \in made /\ mapping[s.receipt.clone] = "deleted"
       /\ s.step = "sent" /\ s.receipt.stage = "publish_pending" /\ s.answer = "refused" =>
              noneInFlight("publish")

\* The account, as the receipt and its commands know it.
AccountInv ==
    /\ OwnCloneOnly /\ OwnRequests /\ OneInFlight /\ OneMade /\ OnePublished
    /\ Told /\ \A p \in Process : Claims(p)

\* What was not asked for yet is not on its way.
LEMMA NothingYet ==
    ASSUME PublishInv, AccountInv, NEW m \in Mutation, log # <<>>, last \in Record,
           ~ (Rank[intent(m)] <= Rank[last.stage])
    PROVE  noneInFlight(m)
BY DEF PublishInv, Counted, AccountInv, OneInFlight, noneInFlight

\* A record at another stage, when what it says was seen.
LEMMA AdvanceTells ==
    ASSUME PublishInv, AccountInv, log # <<>>, last \in Record,
           NEW s \in Transitions[last.stage],
           s = "publish_rejected" => mapping[last.clone] = "none" /\ noneInFlight("publish"),
           s = "delete_pending" =>
               IF last.public THEN mapping[last.clone] = "deleted"
                              ELSE mapping[last.clone] = "none" /\ noneInFlight("publish"),
           s = "unpublished" => mapping[last.clone] = "deleted",
           s = "deleted" => conversation[last.clone] = "deleted"
    PROVE  Tells(advance(last, s))
<1> DEFINE r == advance(last, s)
<1>1. /\ r.stage = s /\ r.clone = last.clone /\ r.observed = last.observed
      /\ r.public = last.public
  <2>1. last.stage \in Stage /\ s \in Stage
    BY TransitionsRise DEF Record
  <2> QED
    BY <2>1, AdvanceFields
<1>2. Tells(last)
  BY DEF AccountInv, Told
<1>3. s = "deleted" => last.stage = "delete_pending"
  BY DEF Record, Transitions, Stage, Pending
<1> HIDE DEF r
<1>4. Tells(r)
  BY <1>1, <1>2, <1>3 DEF Tells
<1> QED
  BY <1>4 DEF r

\* A step of p that stores a record which tells what is so.
Telling(p) ==
    \E r \in Record, step \in Step :
        /\ Appending(p, r, step) /\ Tells(r)
        /\ step = "unpublished" => r.clone \in made /\ mapping[r.clone] = "deleted"

LEMMA AdvanceIsTelling ==
    ASSUME PublishInv, AccountInv, NEW p \in Process, Working(p), NEW s, NEW step,
           step \in Step \ {"creating", "opening", "sent", "unpublished"},
           s \notin {"clone_bound", "public_bound"},
           Advance(p, s, step), UNCHANGED <<provider, flight, attempts>>,
           s = "publish_rejected" => mapping[last.clone] = "none" /\ noneInFlight("publish"),
           s = "delete_pending" =>
               IF last.public THEN mapping[last.clone] = "deleted"
                              ELSE mapping[last.clone] = "none" /\ noneInFlight("publish"),
           s = "unpublished" => mapping[last.clone] = "deleted",
           s = "deleted" => conversation[last.clone] = "deleted"
    PROVE  Telling(p)
<1>1. log # <<>> /\ last \in Record
  BY WorkingReceipt
<1>2. /\ Appending(p, advance(last, s), step) /\ advance(last, s) \in Record
      /\ s \in Transitions[last.stage]
  BY AdvanceStores
<1>3. Tells(advance(last, s))
  BY <1>1, <1>2, AdvanceTells
<1> QED
  BY <1>2, <1>3 DEF Telling

LEMMA IntendTells ==
    ASSUME PublishInv, AccountInv, NEW p \in Process, Intend(p)
    PROVE  Telling(p)
<1>1. PICK s \in planned(session[p]) :
          ready(s, session[p].receipt) /\ Advance(p, s, "intended")
  BY DEF Intend
<1>2. Working(p) /\ UNCHANGED <<provider, flight, attempts>> /\ "intended" \in Step
  BY DEF Intend, Working, Step
<1>3. /\ session[p].receipt = last /\ log # <<>> /\ last \in Record /\ validValue(last)
  BY <1>2, WorkingReceipt
<1>4. Tells(last)
  BY <1>3 DEF AccountInv, Told
<1>5. /\ s \in {"remix_pending", "publish_pending", "unpublish_pending", "delete_pending"}
      /\ s = "delete_pending" => last.stage \in {"clone_bound", "publish_rejected", "unpublished"}
  BY <1>1, <1>3 DEF planned
<1>6. ASSUME s = "delete_pending"
      PROVE  IF last.public THEN mapping[last.clone] = "deleted"
                            ELSE mapping[last.clone] = "none" /\ noneInFlight("publish")
  <2>1. IF last.public THEN mapping[last.clone] = "deleted" ELSE mapping[last.clone] = "none"
    BY <1>1, <1>3, <1>6 DEF ready, tombstoneExact, privateExact
  <2>2. CASE last.stage = "clone_bound"
    <3>1. "publish" \in Mutation /\ ~ (Rank[intent("publish")] <= Rank[last.stage])
      BY <2>2 DEF Mutation, intent, Rank, Stage, Pending
    <3> QED
      BY <1>3, <2>1, <3>1, NothingYet
  <2>3. CASE last.stage = "publish_rejected"
    BY <1>3, <1>4, <2>1, <2>3 DEF Tells, validValue, private
  <2>4. CASE last.stage = "unpublished"
    BY <1>3, <2>1, <2>4 DEF validValue, needsPublic
  <2> QED
    BY <1>5, <1>6, <2>2, <2>3, <2>4
<1> QED
  BY <1>1, <1>2, <1>5, <1>6, AdvanceIsTelling

LEMMA BindCloneTells ==
    ASSUME PublishInv, AccountInv, NEW p \in Process, BindClone(p)
    PROVE  Telling(p)
<1>1. PICK c \in cloneOf(session[p]) :
          /\ canBindClone(session[p].receipt, c)
          /\ Store(p, bindClone(session[p].receipt, c), "planning")
  BY DEF BindClone
<1>2. Working(p) /\ UNCHANGED <<provider, flight, attempts>>
  BY DEF BindClone, Working
<1>3. session[p].receipt = last /\ log # <<>> /\ last \in Record /\ validValue(last)
  BY <1>2, WorkingReceipt
<1>4. Tells(last) /\ Claims(p) /\ c \in Conversation /\ c # NoConversation
  BY <1>1, <1>3, ConversationAssumption DEF AccountInv, Told, canBindClone
<1>5. c \in made
  BY <1>1, <1>3, <1>4 DEF cloneOf, Claims, Tells
<1> DEFINE r == bindClone(last, c)
<1>6. /\ r \in Record /\ r.stage = "clone_bound" /\ r.clone = c
      /\ r.observed = last.observed /\ r.public = last.public
  BY <1>3, <1>4, BindCloneFields
<1>7. Store(p, r, "planning") /\ validValue(r) /\ validStep(last, r)
  BY <1>1, <1>3, BindCloneIsValid
<1>8. ~ last.public
  BY <1>1, <1>3 DEF canBindClone, validValue, private, unbound
<1> HIDE DEF r
<1>9. Appending(p, r, "planning")
  BY <1>2, <1>3, <1>6, <1>7 DEF Appending, Step
<1>10. Tells(r)
  BY <1>4, <1>5, <1>6, <1>8 DEF Tells
<1> QED
  BY <1>6, <1>9, <1>10 DEF Telling, Step

LEMMA BindPublicTells ==
    ASSUME PublishInv, AccountInv, NEW p \in Process, BindPublic(p)
    PROVE  Telling(p)
<1>1. PICK step \in {"unresolved", "planning", "published", "unpublished"} :
          /\ Store(p, bindPublic(session[p].receipt), step)
          /\ mapping[session[p].receipt.clone] # "none"
          /\ step = "unpublished" => mapping[session[p].receipt.clone] = "deleted"
  BY DEF BindPublic, activeExact, tombstoneExact
<1>2. /\ Working(p) /\ UNCHANGED <<provider, flight, attempts>>
      /\ session[p].receipt.stage = "publish_pending"
  BY DEF BindPublic, Working
<1>3. session[p].receipt = last /\ log # <<>> /\ last \in Record /\ validValue(last)
  BY <1>2, WorkingReceipt
<1>4. Tells(last)
  BY <1>3 DEF AccountInv, Told
<1> DEFINE r == bindPublic(last)
<1>5. /\ r \in Record /\ r.stage = "public_bound" /\ r.clone = last.clone
      /\ r.observed = last.observed /\ r.public = TRUE
  BY <1>3, BindPublicFields
<1>6. Store(p, r, step) /\ validValue(r) /\ validStep(last, r)
  BY <1>1, <1>2, <1>3, BindPublicIsValid
<1> HIDE DEF r
<1>7. Appending(p, r, step)
  BY <1>1, <1>2, <1>3, <1>5, <1>6 DEF Appending, Step
<1>8. Tells(r) /\ r.clone \in made /\ (step = "unpublished" => mapping[r.clone] = "deleted")
  BY <1>1, <1>2, <1>3, <1>4, <1>5 DEF Tells, validValue, unbound
<1> QED
  BY <1>1, <1>5, <1>7, <1>8 DEF Telling, Step

LEMMA RecordsTell ==
    ASSUME PublishInv, AccountInv, NEW p \in Process,
           VerifyPublic(p) \/ RecordMapping(p) \/ RecordRejection(p) \/ RecordRemoval(p)
    PROVE  Telling(p)
<1>1. Working(p) /\ UNCHANGED <<provider, flight, attempts>>
  BY DEF VerifyPublic, RecordMapping, RecordRejection, RecordRemoval, Working
<1>2. session[p].receipt = last /\ log # <<>> /\ last \in Record /\ validValue(last) /\ Claims(p)
  BY <1>1, WorkingReceipt DEF AccountInv
<1>3. CASE VerifyPublic(p)
  <2>1. PICK s \in {"published", "unpublished"}, step \in {"none", "unresolved"} :
            /\ Advance(p, s, step)
            /\ s = "unpublished" => mapping[last.clone] = "deleted"
    BY <1>2, <1>3 DEF VerifyPublic, tombstoneExact
  <2> QED
    BY <1>1, <2>1, AdvanceIsTelling DEF Step
<1>4. CASE RecordMapping(p)
  <2>1. PICK s \in {"published", "unpublished"}, step \in {"none", "planning", "unresolved"} :
            /\ Advance(p, s, step)
            /\ s = "unpublished" => session[p].step = "unpublished"
    BY <1>4 DEF RecordMapping
  <2>2. s = "unpublished" => mapping[last.clone] = "deleted"
    BY <1>2, <2>1 DEF Claims
  <2> QED
    BY <1>1, <2>1, <2>2, AdvanceIsTelling DEF Step
<1>5. CASE RecordRejection(p)
  <2>1. /\ Advance(p, "publish_rejected", "none") /\ mapping[last.clone] = "none"
        /\ noneInFlight("publish")
    BY <1>2, <1>5 DEF RecordRejection, rejected, privateExact, Claims
  <2> QED
    BY <1>1, <2>1, AdvanceIsTelling DEF Step
<1>6. CASE RecordRemoval(p)
  <2>1. PICK s \in {"deleted", "unpublished"}, step \in {"none", "planning"} :
            /\ Advance(p, s, step)
            /\ s = "unpublished" => mapping[last.clone] = "deleted"
            /\ s = "deleted" => conversation[last.clone] = "deleted"
    BY <1>2, <1>6 DEF RecordRemoval, removed, tombstoneExact, deletedExact
  <2> QED
    BY <1>1, <2>1, AdvanceIsTelling DEF Step
<1> QED
  BY <1>3, <1>4, <1>5, <1>6

LEMMA NoteTells ==
    ASSUME PublishInv, AccountInv, NEW p \in Process, NoteUnknown(p)
    PROVE  Telling(p)
<1>1. Working(p) /\ UNCHANGED <<provider, flight, attempts>>
  BY DEF NoteUnknown, noted, Working
<1>2. session[p].receipt = last /\ log # <<>> /\ last \in Record /\ validValue(last)
  BY <1>1, WorkingReceipt
<1> DEFINE c == seen(session[p])
           r == observe(last, c)
<1>3. observes(last, c) /\ Store(p, r, "none")
  BY <1>2 DEF NoteUnknown
<1>4. Tells(last) /\ Claims(p) /\ c \in Conversation /\ c # NoConversation
  BY <1>2, <1>3, ConversationAssumption DEF AccountInv, Told, observes
<1>5. c \in made
  BY <1>2, <1>4 DEF seen, Claims, Tells
<1>6. /\ r \in Record /\ r.stage = last.stage /\ r.clone = last.clone
      /\ r.observed = c /\ r.public = last.public
  BY <1>2, <1>4, ObserveFields
<1>7. validValue(r) /\ validStep(last, r)
  BY <1>2, <1>3, ObserveIsValid
<1> HIDE DEF r
<1>8. Appending(p, r, "none")
  BY <1>1, <1>2, <1>3, <1>6, <1>7 DEF Appending, Step
<1>9. Tells(r)
  BY <1>4, <1>5, <1>6 DEF Tells
<1> QED
  BY <1>6, <1>8, <1>9 DEF Telling, Step

LEMMA StoringTells ==
    ASSUME PublishInv, AccountInv, NEW p \in Process, Storing(p)
    PROVE  Telling(p)
BY IntendTells, BindCloneTells, BindPublicTells, RecordsTell, NoteTells DEF Storing

\* Nothing that is about the account alone changes.
LEMMA AccountStays ==
    ASSUME AccountInv, UNCHANGED <<provider, flight, attempts>>
    PROVE  /\ OwnCloneOnly' /\ OwnRequests' /\ OneInFlight' /\ OneMade' /\ OnePublished'
           /\ \A r : Tells(r)' <=> Tells(r)
           /\ \A m : noneInFlight(m)' <=> noneInFlight(m)
<1>1. UNCHANGED <<conversation, mapping, made, flight, attempts>>
  BY DEF provider
<1>2. \A m : noneInFlight(m)' <=> noneInFlight(m)
  BY <1>1 DEF noneInFlight
<1>3. OwnCloneOnly' /\ OwnRequests' /\ OneInFlight'
  BY <1>1 DEF AccountInv, OwnCloneOnly, OwnRequests, OneInFlight
<1>4. OneMade' /\ OnePublished'
  BY <1>1, <1>2 DEF AccountInv, OneMade, OnePublished
<1>5. \A r : Tells(r)' <=> Tells(r)
  BY <1>1, <1>2 DEF Tells
<1> QED
  BY <1>2, <1>3, <1>4, <1>5

LEMMA StoringKeepsAccount ==
    ASSUME PublishInv, AccountInv, NEW p \in Process, Storing(p)
    PROVE  AccountInv'
<1>1. PICK r \in Record, step \in Step :
          /\ Appending(p, r, step) /\ Tells(r)
          /\ step = "unpublished" => r.clone \in made /\ mapping[r.clone] = "deleted"
  BY StoringTells DEF Telling
<1>2. UNCHANGED <<provider, flight, attempts>> /\ step # "sent"
  BY <1>1 DEF Appending
<1>3. /\ \/ log' = Append(log, r)
         \/ log' = log
      /\ \/ session' = moved(session, p, r, step)
         \/ session' = [session EXCEPT ![p] = Idle]
  BY <1>1, AppendingLeaves
<1>4. session \in [Process -> Session] /\ TypeOK
  BY DEF PublishInv, TypeOK
<1>5. /\ OwnCloneOnly' /\ OwnRequests' /\ OneInFlight' /\ OneMade' /\ OnePublished'
      /\ \A s : Tells(s)' <=> Tells(s)
  BY <1>2, AccountStays
<1>6. UNCHANGED <<mapping, made>>
  BY <1>2 DEF provider
<1>7. Told'
  <2>1. CASE log' = log
    BY <1>5, <2>1 DEF AccountInv, Told, last
  <2>2. CASE log' = Append(log, r)
    <3>1. last' = r
      BY <1>4, <2>2, LastOfAppend
    <3> QED
      BY <1>1, <1>5, <3>1 DEF Told
  <2> QED
    BY <1>3, <2>1, <2>2
<1>8. ASSUME NEW q \in Process PROVE Claims(q)'
  <2>1. Claims(q) /\ (\A m : noneInFlight(m)' <=> noneInFlight(m))
    BY <1>2, AccountStays DEF AccountInv
  <2>2. CASE q # p
    <3>1. session'[q] = session[q]
      BY <1>3, <1>4, <2>2, SessionGoesOn
    <3> QED
      BY <1>6, <2>1, <3>1 DEF Claims
  <2>3. CASE q = p /\ session' = moved(session, p, r, step)
    <3>1. /\ session'[p].receipt = r /\ session'[p].step = step
          /\ session'[p].named = session[p].named
      BY <1>4, <2>3, SessionGoesOn
    <3> QED
      BY <1>1, <1>2, <1>6, <2>1, <2>3, <3>1 DEF Claims
  <2>4. CASE q = p /\ session' = [session EXCEPT ![p] = Idle]
    BY <1>4, <2>4 DEF Claims, Idle
  <2> QED
    BY <1>3, <2>2, <2>3, <2>4
<1> QED
  BY <1>5, <1>7, <1>8 DEF AccountInv

LEMMA DispatchKeepsAccount ==
    ASSUME PublishInv, AccountInv, NEW p \in Process, Dispatch(p)
    PROVE  AccountInv'
<1>1. PICK m \in Mutation :
          /\ intent(m) = last.stage /\ ready(last.stage, last)
          /\ flight' = flight \cup {[mutation |-> m, on |-> last.clone, by |-> p]}
          /\ log # <<>> /\ last \in Record /\ validValue(last)
          /\ attempts[m] = 0 /\ attempts'[m] = 1
          /\ \A n \in Mutation : n # m => attempts'[n] = attempts[n]
          /\ UNCHANGED <<file, owner, provider>>
          /\ session'[p].step = "sent" /\ session'[p].receipt = last
          /\ session'[p].answer = "none" /\ session'[p].named = NoConversation
          /\ \A q \in Process : q # p => session'[q] = session[q]
  BY DispatchLeaves
<1>2. UNCHANGED <<conversation, mapping, made, log>> /\ last' = last
  BY <1>1 DEF file, provider, last
<1> DEFINE o == [mutation |-> m, on |-> last.clone, by |-> p]
<1>3. o.mutation = m /\ o.on = last.clone /\ flight' = flight \cup {o}
  BY <1>1
<1> HIDE DEF o
<1>4. Tells(last)
  BY <1>1 DEF AccountInv, Told
<1>5. m # "remix" => last.clone \in made
  BY <1>1, <1>4 DEF intent, Mutation, validValue, unbound, Tells
<1>6. noneInFlight(m) /\ (\A n : n # m => (noneInFlight(n)' <=> noneInFlight(n)))
  BY <1>1, <1>3 DEF AccountInv, OneInFlight, noneInFlight
<1>7. OwnCloneOnly' /\ OwnRequests'
  BY <1>2, <1>3, <1>5 DEF AccountInv, OwnCloneOnly, OwnRequests
<1>8. OneInFlight'
  <2>1. \A q \in flight : q.mutation \in Mutation
    BY DEF PublishInv, TypeOK, Request
  <2>2. \A q \in flight : q.mutation # m /\ attempts'[q.mutation] = 1
    BY <1>1, <1>6, <2>1 DEF noneInFlight, AccountInv, OneInFlight
  <2> QED
    BY <1>1, <1>3, <2>2 DEF AccountInv, OneInFlight
<1>9. OneMade'
  <2>1. m = "remix" => made = {}
    BY <1>1 DEF AccountInv, OneMade
  <2> QED
    BY <1>1, <1>2, <1>6, <2>1 DEF AccountInv, OneMade, Mutation
<1>10. m = "publish" => \A c \in Conversation : mapping[c] = "none"
  <2> SUFFICES ASSUME m = "publish", NEW c \in Conversation, mapping[c] # "none" PROVE FALSE
    OBVIOUS
  <2>1. c \in made
    BY DEF AccountInv, OwnCloneOnly
  <2>2. c = last.clone
    BY <1>5, <2>1 DEF AccountInv, OneMade
  <2> QED
    BY <1>1, <2>2 DEF ready, intent, privateExact
<1>11. OnePublished'
  BY <1>2, <1>6, <1>10 DEF AccountInv, OnePublished
<1>12. Told'
  <2>1. last.stage \in {"publish_rejected", "delete_pending", "deleted"} => m # "publish"
    BY <1>1 DEF intent
  <2> QED
    BY <1>2, <1>4, <1>6, <2>1 DEF Told, Tells
<1>13. ASSUME NEW q \in Process PROVE Claims(q)'
  <2>1. CASE q = p
    BY <1>1, <2>1 DEF Claims
  <2>2. CASE q # p
    <3>1. Claims(q) /\ session'[q] = session[q] /\ session[q].step # "sent"
      <4>1. session[p].step = "intended"
        BY DEF Dispatch
      <4> QED
        BY <1>1, <2>2, <4>1 DEF AccountInv, PublishInv, Locked
    <3> QED
      BY <1>2, <3>1 DEF Claims
  <2> QED
    BY <2>1, <2>2
<1> QED
  BY <1>7, <1>8, <1>9, <1>11, <1>12, <1>13 DEF AccountInv

\* The life of a process touches nothing of the account.
LEMMA LifeKeepsAccount ==
    ASSUME PublishInv, AccountInv,
           \/ \E p \in Process :
                 \/ Create(p) \/ Begin(p) \/ \E command \in Command : Open(p, command)
                 \/ Load(p) \/ Stop(p)
           \/ RepairPartialTail \/ UNCHANGED vars
    PROVE  AccountInv'
<1>1. session \in [Process -> Session]
  BY DEF PublishInv, TypeOK
<1>2. UNCHANGED <<provider, flight, attempts>>
  BY DEF Create, Begin, Open, Load, Stop, RepairPartialTail, vars
<1>3. /\ OwnCloneOnly' /\ OwnRequests' /\ OneInFlight' /\ OneMade' /\ OnePublished'
      /\ \A r : Tells(r)' <=> Tells(r)
      /\ \A m : noneInFlight(m)' <=> noneInFlight(m)
  BY <1>2, AccountStays
<1>4. \A q \in Process :
          \/ session'[q] = session[q]
          \/ /\ session'[q].named \in {NoConversation, session[q].named}
             /\ session'[q].step \notin {"sent", "unpublished"}
  <2>1. CASE RepairPartialTail \/ UNCHANGED vars
    BY <2>1 DEF RepairPartialTail, vars
  <2>2. ASSUME NEW p \in Process, Create(p) \/ \E command \in Command : Open(p, command)
        PROVE  \A q \in Process :
                   \/ session'[q] = session[q]
                   \/ /\ session'[q].named \in {NoConversation, session[q].named}
                      /\ session'[q].step \notin {"sent", "unpublished"}
    BY <1>1, <2>2 DEF Create, Open, Idle
  <2>3. ASSUME NEW p \in Process, Begin(p)
        PROVE  \A q \in Process :
                   \/ session'[q] = session[q]
                   \/ /\ session'[q].named \in {NoConversation, session[q].named}
                      /\ session'[q].step \notin {"sent", "unpublished"}
    BY <1>1, <2>3 DEF Begin, Ends, Idle, Session
  <2>4. ASSUME NEW p \in Process, Load(p)
        PROVE  \A q \in Process :
                   \/ session'[q] = session[q]
                   \/ /\ session'[q].named \in {NoConversation, session[q].named}
                      /\ session'[q].step \notin {"sent", "unpublished"}
    <3>1. session' = moved(session, p, last, "planning")
      BY <2>4 DEF Load, last, moved
    <3>2. last \in Record /\ "planning" \in Step
      BY <2>4 DEF Load, usable, validHistory, last, validValue, PublishInv, TypeOK, Step
    <3> QED
      BY <1>1, <3>1, <3>2, SessionGoesOn
  <2>5. ASSUME NEW p \in Process, Stop(p)
        PROVE  \A q \in Process :
                   \/ session'[q] = session[q]
                   \/ /\ session'[q].named \in {NoConversation, session[q].named}
                      /\ session'[q].step \notin {"sent", "unpublished"}
    BY <1>1, <2>5 DEF Stop, Ends, Idle
  <2> QED
    BY <2>1, <2>2, <2>3, <2>4, <2>5
<1>5. \A q \in Process : Claims(q)'
  <2>1. UNCHANGED <<mapping, made>>
    BY <1>2 DEF provider
  <2> QED
    BY <1>3, <1>4, <2>1 DEF AccountInv, Claims
<1>6. log' = log \/ \E p \in Process : Begin(p)
  BY DEF Create, Open, Load, Stop, RepairPartialTail, vars, file
<1>7. CASE log' = log
  BY <1>3, <1>5, <1>7 DEF AccountInv, Told, last
<1>8. ASSUME NEW p \in Process, Begin(p), log' # log PROVE AccountInv'
  <2>1. log = <<>> /\ log' = <<Prepared>>
    <3>1. log = <<>> /\ ~ torn
      BY <1>8 DEF Begin, PublishInv, Fresh
    <3> QED
      BY <1>8, <3>1 DEF Begin, written
  <2>2. last' = Prepared
    BY <2>1, FirstRecord
  <2>3. Tells(Prepared)
    BY DEF Tells, Prepared
  <2>4. Told'
    BY <1>3, <2>2, <2>3 DEF Told
  <2> QED
    BY <1>3, <1>5, <2>4 DEF AccountInv
<1> QED
  BY <1>6, <1>7, <1>8

\* The provider takes a request for m on c.
Takes(m, c) == \E q \in flight : q.mutation = m /\ q.on = c /\ flight' = flight \ {q}

\* What may happen to a conversation outside the commands.
Changes(c) ==
    /\ conversation[c] = "deleted" => conversation'[c] = "deleted"
    /\ conversation'[c] = "deleted" => conversation[c] = "deleted" \/ Takes("delete", c)
    /\ \/ mapping'[c] = mapping[c]
       \/ mapping[c] = "active" /\ mapping'[c] = "deleted"
       \/ mapping[c] = "none" /\ mapping'[c] = "active" /\ Takes("publish", c)

Provided ==
    /\ \A c \in Conversation : Changes(c)
    /\ \/ made' = made
       \/ \E c \in Conversation, d \in MaybeConversation :
              made' = made \cup {c} /\ Takes("remix", d)
    /\ \A p \in Process :
          /\ session'[p].named \in {session[p].named, NoConversation} \cup made'
          /\ session[p].step = "sent" /\ session[p].receipt.stage = "publish_pending"
             /\ session'[p].answer = "refused" =>
                 \/ session[p].answer = "refused"
                 \/ \E c \in MaybeConversation : Takes("publish", c)

\* A request that is answered is gone, and the answer is the one of its command.
LEMMA AnswerLeaves ==
    ASSUME PublishInv, NEW q \in flight, NEW answer \in {"done", "refused"},
           NEW named \in MaybeConversation, Answer(q, answer, named)
    PROVE  /\ Takes(q.mutation, q.on) /\ q.mutation \in Mutation /\ q.on \in MaybeConversation
           /\ \A p \in Process :
                 /\ session'[p].named \in {session[p].named, named}
                 /\ session[p].receipt.stage = "publish_pending" /\ session'[p].answer = "refused" =>
                        \/ session[p].answer = "refused"
                        \/ q.mutation = "publish" /\ answer = "refused"
<1>1. /\ Takes(q.mutation, q.on) /\ q.by \in Process
      /\ q.mutation \in Mutation /\ q.on \in MaybeConversation
  BY DEF Answer, Takes, PublishInv, TypeOK, Request
<1>2. CASE session' = session
  BY <1>1, <1>2
<1>3. CASE /\ session[q.by].receipt.stage = intent(q.mutation)
           /\ session' = [session EXCEPT ![q.by].answer = answer, ![q.by].named = named]
  <2>1. intent(q.mutation) = "publish_pending" => q.mutation = "publish"
    BY <1>1 DEF Mutation, intent
  <2>2. session \in [Process -> Session]
    BY DEF PublishInv, TypeOK
  <2>3. \A p \in Process : p # q.by => session'[p] = session[p]
    BY <1>1, <1>3, <2>2
  <2>4. session'[q.by].answer = answer /\ session'[q.by].named = named
    BY <1>1, <1>3, <2>2 DEF Session
  <2> QED
    BY <1>1, <1>3, <2>1, <2>3, <2>4
<1> QED
  BY <1>2, <1>3 DEF Answer

LEMMA OutsideProvides ==
    ASSUME PublishInv, Outside
    PROVE  Provided
<1> USE DEF PublishInv, TypeOK
<1>1. ASSUME NEW q \in flight, Remix(q) PROVE Provided
  <2>1. PICK c \in Conversation :
            /\ conversation[c] = "absent" /\ conversation' = [conversation EXCEPT ![c] = "there"]
            /\ made' = made \cup {c} /\ Answer(q, "done", c)
    BY <1>1 DEF Remix
  <2>2. Takes("remix", q.on) /\ q.on \in MaybeConversation
    BY <1>1, <2>1, AnswerLeaves DEF Remix, MaybeConversation
  <2>3. \A d \in Conversation : Changes(d)
    BY <1>1, <2>1 DEF Remix, Changes
  <2> QED
    BY <2>1, <2>2, <2>3, AnswerLeaves DEF Provided, MaybeConversation
<1>2. ASSUME NEW q \in flight, Publish(q) PROVE Provided
  <2>1. Answer(q, "done", NoConversation) /\ NoConversation \in MaybeConversation
    BY <1>2 DEF Publish, MaybeConversation
  <2>2. Takes("publish", q.on)
    BY <1>2, <2>1, AnswerLeaves DEF Publish
  <2>3. \A d \in Conversation : Changes(d)
    BY <1>2, <2>2 DEF Publish, Changes, privateExact
  <2> QED
    BY <1>2, <2>1, <2>3, AnswerLeaves DEF Provided, Publish
<1>3. ASSUME NEW q \in flight, Unpublish(q) PROVE Provided
  <2>1. Answer(q, "done", NoConversation) /\ NoConversation \in MaybeConversation
    BY <1>3 DEF Unpublish, MaybeConversation
  <2>3. \A d \in Conversation : Changes(d)
    BY <1>3 DEF Unpublish, Changes
  <2> QED
    BY <1>3, <2>1, <2>3, AnswerLeaves DEF Provided, Unpublish
<1>4. ASSUME NEW q \in flight, Delete(q) PROVE Provided
  <2>1. Answer(q, "done", NoConversation) /\ NoConversation \in MaybeConversation
    BY <1>4 DEF Delete, MaybeConversation
  <2>2. Takes("delete", q.on)
    BY <1>4, <2>1, AnswerLeaves DEF Delete
  <2>3. \A d \in Conversation : Changes(d)
    BY <1>4, <2>2 DEF Delete, Changes
  <2> QED
    BY <1>4, <2>1, <2>3, AnswerLeaves DEF Provided, Delete
<1>5. ASSUME NEW q \in flight, Refuse(q) PROVE Provided
  <2>1. Answer(q, "refused", NoConversation) /\ NoConversation \in MaybeConversation
    BY <1>5 DEF Refuse, MaybeConversation
  <2>2. Takes(q.mutation, q.on) /\ q.on \in MaybeConversation
    BY <2>1, AnswerLeaves
  <2>3. UNCHANGED <<conversation, mapping, made>>
    BY <1>5 DEF Refuse, provider
  <2>4. \A d \in Conversation : Changes(d)
    BY <2>3 DEF Changes
  <2> QED
    BY <2>1, <2>2, <2>3, <2>4, AnswerLeaves DEF Provided
<1>6. CASE CloneElsewhere
  <2>1. \A d \in Conversation : Changes(d)
    BY <1>6 DEF CloneElsewhere, Changes
  <2> QED
    BY <1>6, <2>1 DEF CloneElsewhere, Provided
<1>7. CASE WithdrawByHand
  <2>1. \A d \in Conversation : Changes(d)
    BY <1>7 DEF WithdrawByHand, Changes
  <2> QED
    BY <1>7, <2>1 DEF WithdrawByHand, Provided
<1> QED
  BY <1>1, <1>2, <1>3, <1>4, <1>5, <1>6, <1>7 DEF Outside

\* A request that is taken was the only one of its kind.
LEMMA TakenOnce ==
    ASSUME PublishInv, AccountInv, NEW m, NEW c, Takes(m, c)
    PROVE  /\ attempts[m] = 1 /\ ~ noneInFlight(m) /\ noneInFlight(m)'
           /\ m # "remix" => c \in made
BY DEF AccountInv, OneInFlight, OwnRequests, Takes, noneInFlight

LEMMA OutsideKeepsAccount ==
    ASSUME PublishInv, AccountInv, Outside
    PROVE  AccountInv'
<1>1. /\ UNCHANGED <<file, owner, attempts>> /\ flight' \subseteq flight
      /\ \A p \in Process :
            session'[p].step = session[p].step /\ session'[p].receipt = session[p].receipt
  BY OutsideLeaves
<1>2. Provided
  BY OutsideProvides
<1>3. made \subseteq made' /\ made \subseteq Conversation
  BY <1>2 DEF Provided, PublishInv, TypeOK
<1>4. \A m : noneInFlight(m) => noneInFlight(m)'
  BY <1>1 DEF noneInFlight
<1>5. OwnCloneOnly'
  <2> SUFFICES ASSUME NEW c \in Conversation, conversation'[c] = "deleted" \/ mapping'[c] # "none"
               PROVE  c \in made
    BY <1>3 DEF OwnCloneOnly
  <2>1. Changes(c)
    BY <1>2 DEF Provided
  <2> QED
    BY <2>1, TakenOnce DEF Changes, AccountInv, OwnCloneOnly
<1>6. OwnRequests' /\ OneInFlight'
  BY <1>1, <1>3 DEF AccountInv, OwnRequests, OneInFlight
<1>7. OneMade'
  <2>1. CASE made' = made
    BY <1>1, <1>4, <2>1 DEF AccountInv, OneMade
  <2>2. ASSUME NEW c \in Conversation, NEW d \in MaybeConversation,
               made' = made \cup {c}, Takes("remix", d)
        PROVE  OneMade'
    <3>1. attempts["remix"] = 1 /\ ~ noneInFlight("remix") /\ noneInFlight("remix")'
      BY <2>2, TakenOnce
    <3>2. made' = {c}
      BY <2>2, <3>1 DEF AccountInv, OneMade
    <3> QED
      BY <1>1, <3>1, <3>2 DEF OneMade
  <2> QED
    BY <1>2, <2>1, <2>2 DEF Provided
<1>8. OnePublished'
  <2> SUFFICES ASSUME NEW c \in Conversation, mapping'[c] # "none"
               PROVE  noneInFlight("publish")'
    BY DEF OnePublished
  <2>1. CASE mapping[c] # "none"
    BY <1>4, <2>1 DEF AccountInv, OnePublished
  <2>2. CASE mapping[c] = "none"
    BY <1>2, <2>2, TakenOnce DEF Provided, Changes
  <2> QED
    BY <2>1, <2>2
\* A mapping that is gone stays so, and one that cannot come any more does not.
<1>9. ASSUME NEW c \in Conversation
      PROVE  /\ mapping[c] # "none" => mapping'[c] # "none"
             /\ mapping[c] = "deleted" => mapping'[c] = "deleted"
             /\ mapping[c] = "none" /\ noneInFlight("publish") => mapping'[c] = "none"
             /\ conversation[c] = "deleted" => conversation'[c] = "deleted"
  <2>1. Changes(c)
    BY <1>2 DEF Provided
  <2> QED
    BY <2>1, TakenOnce DEF Changes
<1>10. Told'
  <2> SUFFICES ASSUME log # <<>> PROVE Tells(last)'
    BY <1>1 DEF Told, file
  <2>1. Tells(last) /\ last' = last
    BY <1>1 DEF AccountInv, Told, file, last
  <2>2. validValue(last)
    BY DEF PublishInv, TypeOK, Readable, validHistory, last
  <2>3. last.stage \notin unbound => last.clone \in Conversation
    BY <2>2, ConversationAssumption DEF validValue, Record, MaybeConversation
  <2>4. /\ last.public => last.stage \notin unbound
        /\ last.stage \in {"publish_rejected", "delete_pending", "deleted", "unpublished"} =>
               last.stage \notin unbound
    BY <2>2 DEF validValue, private, unbound
  <2> DEFINE r == last
  <2>5. r' = r
    BY <2>1
  <2> HIDE DEF r
  <2>6. Tells(r)'
    <3>1. /\ (r.clone # NoConversation => r.clone \in made)'
          /\ (r.observed # NoConversation => r.observed \in made)'
      BY <1>3, <2>1, <2>5 DEF Tells, r
    <3> QED
      BY <1>3, <1>4, <1>9, <2>1, <2>3, <2>4, <2>5, <3>1 DEF Tells, r
  <2> QED
    BY <2>6 DEF r
<1>11. ASSUME NEW p \in Process PROVE Claims(p)'
  <2>1. Claims(p) /\ session'[p].step = session[p].step /\ session'[p].receipt = session[p].receipt
    BY <1>1 DEF AccountInv
  <2>2. session'[p].named # NoConversation => session'[p].named \in made'
    BY <1>2, <1>3, <2>1 DEF Provided, Claims
  <2>3. session'[p].step = "unpublished" =>
            /\ session'[p].receipt.clone \in made'
            /\ mapping'[session'[p].receipt.clone] = "deleted"
    BY <1>3, <1>9, <2>1 DEF Claims
  <2>4. /\ session'[p].step = "sent" /\ session'[p].receipt.stage = "publish_pending"
        /\ session'[p].answer = "refused"
        => noneInFlight("publish")'
    BY <1>2, <1>4, <2>1, TakenOnce DEF Provided, Claims
  <2> QED
    BY <2>2, <2>3, <2>4 DEF Claims
<1> QED
  BY <1>5, <1>6, <1>7, <1>8, <1>10, <1>11 DEF AccountInv

LEMMA InitAccount == Init => AccountInv
BY DEF Init, AccountInv, OwnCloneOnly, OwnRequests, OneInFlight, OneMade, OnePublished, Told,
       Claims, Idle

LEMMA NextAccount == PublishInv /\ AccountInv /\ [Next]_vars => AccountInv'
<1> SUFFICES ASSUME PublishInv, AccountInv, [Next]_vars PROVE AccountInv'
  OBVIOUS
<1>1. ASSUME NEW p \in Process, Storing(p) PROVE AccountInv'
  BY <1>1, StoringKeepsAccount
<1>2. ASSUME NEW p \in Process, Dispatch(p) PROVE AccountInv'
  BY <1>2, DispatchKeepsAccount
<1>3. CASE Outside
  BY <1>3, OutsideKeepsAccount
<1> QED
  BY <1>1, <1>2, <1>3, LifeKeepsAccount DEF Next, Storing, Outside

\* In every state the account is what the receipt and its commands know of it.
THEOREM AccountInvHolds == Spec => []AccountInv
BY InitAccount, NextAccount, PublishInvHolds, PTL DEF Spec

\* However many commands run and die, and however late a request is carried
\* out, what the last record says of the clone and of its mapping has happened.
THEOREM ReceiptIsTrue == Spec => []ReceiptTells
<1>1. PublishInv /\ AccountInv => ReceiptTells
  <2> SUFFICES ASSUME PublishInv, AccountInv, log # <<>>
               PROVE  /\ last.public => mapping[last.clone] # "none"
                      /\ last.stage = "publish_rejected" => mapping[last.clone] = "none"
                      /\ last.stage \in {"unpublished", "delete_pending", "deleted"} =>
                             mapping[last.clone] # "active"
                      /\ last.stage = "deleted" => conversation[last.clone] = "deleted"
    BY DEF ReceiptTells, last
  <2>1. Tells(last)
    BY DEF AccountInv, Told
  <2>2. validValue(last)
    BY DEF PublishInv, TypeOK, Readable, validHistory, last
  <2>3. /\ last.stage = "publish_rejected" => ~ last.public
        /\ last.stage = "unpublished" => last.public
    BY <2>2 DEF validValue, private, needsPublic
  <2> QED
    BY <2>1, <2>3 DEF Tells
<1> QED
  BY <1>1, PublishInvHolds, AccountInvHolds, PTL

\* Only the conversation the provider made for this receipt is published from
\* or deleted, whoever else clones the same seed.
THEOREM OwnClone == Spec => []OwnCloneOnly
<1>1. AccountInv => OwnCloneOnly
  BY DEF AccountInv
<1> QED
  BY <1>1, AccountInvHolds, PTL

-----------------------------------------------------------------------------
(* The refinement.                                                         *)

LEMMA InitIsOneShot == Init => Requests!Init
BY DEF Init, Requests!Init, intendedNow

LEMMA AppendingIsOneShot ==
    ASSUME PublishInv, NEW p \in Process, NEW r \in Record, NEW step \in Step,
           Appending(p, r, step)
    PROVE  [Requests!Next]_(Requests!vars)
<1>1. /\ log # <<>> /\ last \in Record /\ validStep(last, r) /\ attempts' = attempts
      /\ Len(log) \in Nat /\ Len(log) > 0
  BY WorkingReceipt DEF Appending
<1>2. CASE log' = log
  BY <1>1, <1>2 DEF Requests!vars, intendedNow
<1>3. CASE log' = Append(log, r)
  <2>1. /\ Len(log') = Len(log) + 1 /\ log'[Len(log) + 1] = r
        /\ \A i \in 1 .. Len(log) : log'[i] = log[i]
    BY <1>1, <1>3, LastOfAppend DEF PublishInv, last
  <2>2. intendedNow' = intendedNow \cup {m \in Mutation : intent(m) = r.stage}
    <3>1. ASSUME NEW m \in Mutation
          PROVE  m \in intendedNow' <=> m \in intendedNow \/ intent(m) = r.stage
      <4>1. m \in intendedNow <=> \E i \in 1 .. Len(log) : log[i].stage = intent(m)
        BY DEF intendedNow
      <4>2. m \in intendedNow' <=> \E i \in 1 .. Len(log') : log'[i].stage = intent(m)
        BY DEF intendedNow
      <4>3. \A i \in 1 .. Len(log') : i \in 1 .. Len(log) \/ i = Len(log) + 1
        BY <1>1, <2>1
      <4>4. \A i \in 1 .. Len(log) : i \in 1 .. Len(log')
        BY <1>1, <2>1
      <4>5. Len(log) + 1 \in 1 .. Len(log')
        BY <1>1, <2>1
      <4> QED
        BY <2>1, <4>1, <4>2, <4>3, <4>4, <4>5
    <3>2. \A m \in intendedNow \cup intendedNow' : m \in Mutation
      BY DEF intendedNow
    <3> QED
      BY <3>1, <3>2
  <2>3. CASE \E m \in Mutation : intent(m) = r.stage /\ m \notin intendedNow
    <3>1. PICK m \in Mutation : intent(m) = r.stage /\ m \notin intendedNow
      BY <2>3
    <3>2. intendedNow' = intendedNow \cup {m}
      BY <2>2, <3>1, IntentsDiffer
    <3>3. Requests!Intend(m)
      BY <1>1, <3>1, <3>2 DEF Requests!Intend
    <3> QED
      BY <3>3 DEF Requests!Next
  <2>4. CASE ~ \E m \in Mutation : intent(m) = r.stage /\ m \notin intendedNow
    BY <1>1, <2>2, <2>4 DEF Requests!vars
  <2> QED
    BY <2>3, <2>4
<1> QED
  BY <1>2, <1>3, AppendingLeaves

LEMMA DispatchIsOneShot ==
    ASSUME PublishInv, NEW p \in Process, Dispatch(p)
    PROVE  Requests!Next
<1>1. PICK m \in Mutation :
          /\ intent(m) = last.stage /\ attempts[m] = 0 /\ log # <<>>
          /\ attempts' = [attempts EXCEPT ![m] = 1] /\ UNCHANGED <<file, owner, provider>>
  BY DispatchLeaves
<1>2. Len(log) \in 1 .. Len(log)
  BY <1>1 DEF PublishInv, TypeOK
<1>3. m \in intendedNow /\ intendedNow' = intendedNow
  BY <1>1, <1>2 DEF intendedNow, last, file
<1> QED
  BY <1>1, <1>3 DEF Requests!Next, Requests!Attempt

\* A step that is neither touches no request and no intent.
LEMMA OthersAreSilent ==
    ASSUME PublishInv, [Next]_vars, \A p \in Process : ~ Storing(p) /\ ~ Dispatch(p)
    PROVE  UNCHANGED Requests!vars
<1>1. attempts' = attempts /\ (log' = log \/ \E p \in Process : Begin(p))
  BY DEF Next, vars, file, Storing, Create, Begin, Open, Load, Stop, RepairPartialTail, Answer,
         Remix, Publish, Unpublish, Delete, Refuse, CloneElsewhere, WithdrawByHand
<1>2. CASE log' = log
  BY <1>1, <1>2 DEF Requests!vars, intendedNow
<1>3. ASSUME NEW p \in Process, Begin(p) PROVE UNCHANGED Requests!vars
  <2>1. log = <<>> /\ (log' = log \/ log' = <<Prepared>>)
    <3>1. log = <<>> /\ ~ torn
      BY <1>3 DEF Begin, PublishInv, Fresh
    <3> QED
      BY <1>3, <3>1 DEF Begin, written
  <2>2. intendedNow = {} /\ intendedNow' = {}
    BY <2>1 DEF intendedNow, intent, Mutation, Prepared
  <2> QED
    BY <1>1, <2>2 DEF Requests!vars
<1> QED
  BY <1>1, <1>2, <1>3

\* The commands on a receipt are, in everything they ask of the provider, a
\* publisher that writes each intent once and asks for each mutation once.
THEOREM ImplementsOneShot == Spec => RequestsAreOneShot
<1>1. PublishInv /\ [Next]_vars => [Requests!Next]_(Requests!vars)
  <2> SUFFICES ASSUME PublishInv, [Next]_vars PROVE [Requests!Next]_(Requests!vars)
    OBVIOUS
  <2>1. ASSUME NEW p \in Process, Storing(p) PROVE [Requests!Next]_(Requests!vars)
    BY <2>1, StoringAppends, AppendingIsOneShot
  <2>2. ASSUME NEW p \in Process, Dispatch(p) PROVE [Requests!Next]_(Requests!vars)
    BY <2>2, DispatchIsOneShot
  <2> QED
    BY <2>1, <2>2, OthersAreSilent
<1> QED
  BY <1>1, InitIsOneShot, PublishInvHolds, PTL DEF Spec, RequestsAreOneShot, Requests!Spec

=============================================================================
