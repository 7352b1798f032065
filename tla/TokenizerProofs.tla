--------------------------- MODULE TokenizerProofs ----------------------------
(***************************************************************************)
(* For every set of calls and updates: the reader-writer lock excludes     *)
(* them, an abort reply finds the state of its request, and a weight update*)
(* meets no request but those whose clients have left.                     *)
(***************************************************************************)
EXTENDS TokenizerManager, FiniteSetTheorems, SequenceTheorems, TLAPS

-----------------------------------------------------------------------------
(* Sequences of messages.                                                   *)

\* What Head and Tail hold, index by index.
LEMMA TailIndices ==
    ASSUME NEW S, NEW s \in Seq(S), s # <<>>
    PROVE  /\ Head(s) = s[1] /\ Head(s) \in S /\ 1 \in 1..Len(s)
           /\ Tail(s) \in Seq(S)
           /\ \A i \in 1..Len(Tail(s)) : i + 1 \in 1..Len(s) /\ Tail(s)[i] = s[i + 1]
  OBVIOUS

\* Only requests in the waiting queue are answered to an abort, and each
\* answer is a message.
LEMMA AbortReplies ==
    ASSUME NEW matched \in SUBSET Reqs, SchedAbort(matched), replies \in Seq(Messages)
    PROVE  /\ replies' \in Seq(Messages)
           /\ \A i \in 1..Len(replies') :
                  \/ i \in 1..Len(replies) /\ replies'[i] = replies[i]
                  \/ /\ replies'[i].kind = "abort"
                     /\ replies'[i].of \in Dequeued(matched)
  <1>1. PICK order \in SetToSeqs(Dequeued(matched)) :
            replies' = replies \o [i \in DOMAIN order |-> Message("abort", order[i])]
    BY DEF SchedAbort
  <1>. DEFINE answers == [i \in DOMAIN order |-> Message("abort", order[i])]
  <1>2. Cardinality(Dequeued(matched)) \in Nat
    BY FS_Subset, FS_CardinalityType, TokenizerAssumption DEF Dequeued
  <1>3. order \in [1..Cardinality(Dequeued(matched)) -> Dequeued(matched)]
    BY DEF SetToSeqs
  <1>4. \A i \in DOMAIN order :
            /\ answers[i] \in Messages
            /\ answers[i].kind = "abort" /\ answers[i].of \in Dequeued(matched)
    BY <1>3 DEF Message, Messages, Dequeued
  <1>5. answers \in Seq(Messages)
    BY <1>2, <1>3, <1>4
  <1>6. replies' = replies \o answers
    BY <1>1
  <1>7. replies' \in Seq(Messages)
    BY <1>5, <1>6
  <1>8. ASSUME NEW i \in 1..Len(replies')
        PROVE  \/ i \in 1..Len(replies) /\ replies'[i] = replies[i]
               \/ /\ replies'[i].kind = "abort"
                  /\ replies'[i].of \in Dequeued(matched)
    <2>1. CASE i \in 1..Len(replies)
      BY <1>5, <1>6, <2>1
    <2>2. CASE i \notin 1..Len(replies)
      <3>1. /\ i - Len(replies) \in 1..Len(answers)
            /\ replies'[i] = answers[i - Len(replies)]
        BY <1>5, <1>6, <1>8, <2>2
      <3>2. 1..Len(answers) = DOMAIN order
        BY <1>2, <1>3
      <3>. QED BY <1>4, <3>1, <3>2
    <2>. QED BY <2>1, <2>2
  <1>. QED BY <1>7, <1>8

-----------------------------------------------------------------------------
(* The lock, whoever calls it, keeps the kinds of its values.               *)

LockValues(tasks) == writerActive \in BOOLEAN /\ asleep \subseteq tasks

LEMMA LockStepValues ==
    ASSUME NEW tasks, NEW t \in tasks, NEW first \in BOOLEAN, LockValues(tasks),
           \/ EnterReader \/ LeaveReader \/ EnterWriter(first) \/ LeaveWriter
           \/ Sleep(t) \/ QueueWriter(t) \/ UNCHANGED lockVars
    PROVE  LockValues(tasks)'
  BY DEF LockValues, EnterReader, LeaveReader, EnterWriter, LeaveWriter, Sleep,
         QueueWriter, Woken, lockVars

Tasks == Reqs \cup Updates

\* every part of ValuesOK but the lock's
CallValues ==
    /\ task \in [Reqs -> Calls]
    /\ update \in [Updates -> {"new", "lock", "wait", "end"}]
    /\ paused \in BOOLEAN
    /\ toAbort \subseteq Reqs
    /\ pauses \in Nat
LoopValues ==
    /\ alive \in BOOLEAN
    /\ rids \subseteq Reqs
    /\ state \in [Reqs -> [finished : BOOLEAN, event : BOOLEAN]]
    /\ future \in {"none", "pending", "set"}
    /\ outputs \in Seq([of : Reqs, last : BOOLEAN])
    /\ replies \in Seq(Messages)
SchedValues ==
    /\ toSched \in Seq(Messages)
    /\ sched \in [Reqs -> [at : {"none", "waiting", "running", "done", "removed", "lost"},
                           abort : BOOLEAN]]
    /\ {produced, retracts} \subseteq Nat

LEMMA ValuesParts ==
    ValuesOK <=> LockValues(Tasks) /\ CallValues /\ LoopValues /\ SchedValues
  BY DEF ValuesOK, LockValues, CallValues, LoopValues, SchedValues, Tasks

LEMMA ValuesPartsNext ==
    ValuesOK' <=> LockValues(Tasks)' /\ CallValues' /\ LoopValues' /\ SchedValues'
  BY DEF ValuesOK, LockValues, CallValues, LoopValues, SchedValues, Tasks

LEMMA MessagesTyped ==
    /\ \A r \in Reqs : Message("generate", r) \in Messages
    /\ \A r \in Reqs : Message("abort", r) \in Messages
    /\ \A u \in Updates : Message("update", u) \in Messages
    /\ AbortAll \in Messages
  BY DEF Message, Messages, AbortAll

LEMMA SentTyped ==
    ASSUME toSched \in Seq(Messages)
    PROVE  /\ \A r \in Reqs : /\ Append(toSched, Message("generate", r)) \in Seq(Messages)
                              /\ Append(toSched, Message("abort", r)) \in Seq(Messages)
           /\ Append(toSched, AbortAll) \in Seq(Messages)
           /\ \A u \in Updates :
                 /\ Append(toSched, Message("update", u)) \in Seq(Messages)
                 /\ Append(Append(toSched, AbortAll), Message("update", u)) \in Seq(Messages)
  BY MessagesTyped, AppendProperties

LEMMA CallsKeepValues ==
    ASSUME ValuesOK, NEW r \in Reqs,
           \/ Generate(r) \/ Unpause(r) \/ TakeReaderLock(r) \/ SendOne(r)
           \/ Answer(r) \/ NextOutput(r) \/ Disconnect(r) \/ AbortOne(r)
    PROVE  ValuesOK'
  <1>. USE ValuesParts, ValuesPartsNext, MessagesTyped
  <1>l. LockValues(Tasks)'
    <2>1. \/ EnterReader \/ LeaveReader \/ Sleep(r) \/ UNCHANGED lockVars
      BY DEF Generate, Unpause, TakeReaderLock, SendOne, Answer, NextOutput, Disconnect,
             AbortOne
    <2>. QED BY <2>1, LockStepValues DEF Tasks
  <1>1. ASSUME Generate(r) \/ Unpause(r) PROVE ValuesOK'
    BY <1>l, <1>1 DEF Generate, Unpause, CallValues, LoopValues, SchedValues, loopVars,
                      schedVars, Calls
  <1>2. ASSUME TakeReaderLock(r) PROVE ValuesOK'
    BY <1>l, <1>2 DEF TakeReaderLock, CallValues, LoopValues, SchedValues, loopVars,
                      schedVars, Calls
  <1>3. ASSUME SendOne(r) PROVE ValuesOK'
    <2>1. toSched' \in Seq(Messages)
      BY <1>3, SentTyped DEF SendOne, SchedValues
    <2>2. SchedValues'
      BY <1>3, <2>1 DEF SendOne, SchedValues, schedVars
    <2>3. CallValues'
      BY <1>3 DEF SendOne, CallValues, Calls
    <2>4. LoopValues'
      BY <1>3 DEF SendOne, LoopValues, loopVars
    <2>. QED BY <1>l, <2>2, <2>3, <2>4
  <1>4. ASSUME Answer(r) PROVE ValuesOK'
    BY <1>l, <1>4 DEF Answer, CallValues, LoopValues, SchedValues, loopVars, schedVars,
                      Calls
  <1>5. ASSUME NextOutput(r) PROVE ValuesOK'
    BY <1>l, <1>5 DEF NextOutput, CallValues, LoopValues, SchedValues, schedVars
  <1>6. ASSUME Disconnect(r) PROVE ValuesOK'
    <2>1. toSched' \in Seq(Messages)
      BY <1>6, SentTyped DEF Disconnect, SendAbort, SchedValues
    <2>2. SchedValues'
      BY <1>6, <2>1 DEF Disconnect, SchedValues, schedVars
    <2>3. CallValues'
      BY <1>6 DEF Disconnect, CallValues, Calls
    <2>4. LoopValues'
      BY <1>6 DEF Disconnect, LoopValues, loopVars
    <2>. QED BY <1>l, <2>2, <2>3, <2>4
  <1>7. ASSUME AbortOne(r) PROVE ValuesOK'
    BY <1>l, <1>7 DEF AbortOne, SendAbort, CallValues, LoopValues, SchedValues, loopVars,
                      schedVars
  <1>. QED BY <1>1, <1>2, <1>3, <1>4, <1>5, <1>6, <1>7

LEMMA UpdatesKeepValues ==
    ASSUME ValuesOK, NEW u \in Updates, StartUpdate(u) \/ RetryWriter(u) \/ EndUpdate(u)
    PROVE  ValuesOK'
  <1>. USE ValuesParts, ValuesPartsNext, MessagesTyped
  <1>l. LockValues(Tasks)'
    <2>1. \/ EnterWriter(TRUE) \/ EnterWriter(FALSE) \/ LeaveWriter
          \/ Sleep(u) \/ QueueWriter(u)
      BY DEF StartUpdate, RetryWriter, EndUpdate
    <2>. QED BY <2>1, LockStepValues DEF Tasks
  <1>1. ASSUME StartUpdate(u) PROVE ValuesOK'
    <2>1. toSched' \in Seq(Messages)
      BY <1>1, SentTyped DEF StartUpdate, SchedValues
    <2>2. SchedValues'
      BY <1>1, <2>1 DEF StartUpdate, SchedValues, schedVars
    <2>3. CallValues'
      BY <1>1 DEF StartUpdate, CallValues, Calls
    <2>4. LoopValues'
      BY <1>1 DEF StartUpdate, LoopValues, loopVars
    <2>. QED BY <1>l, <2>2, <2>3, <2>4
  <1>2. ASSUME RetryWriter(u) PROVE ValuesOK'
    <2>1. toSched' \in Seq(Messages)
      BY <1>2, SentTyped DEF RetryWriter, SchedValues
    <2>2. SchedValues'
      BY <1>2, <2>1 DEF RetryWriter, SchedValues, schedVars
    <2>3. CallValues'
      BY <1>2 DEF RetryWriter, CallValues, Calls
    <2>4. LoopValues'
      BY <1>2 DEF RetryWriter, LoopValues, loopVars
    <2>. QED BY <1>l, <2>2, <2>3, <2>4
  <1>3. ASSUME EndUpdate(u) PROVE ValuesOK'
    BY <1>l, <1>3 DEF EndUpdate, CallValues, LoopValues, SchedValues, loopVars, schedVars
  <1>. QED BY <1>1, <1>2, <1>3

LEMMA PausesKeepValues ==
    ASSUME ValuesOK, PauseGeneration \/ ContinueGeneration
    PROVE  ValuesOK'
  <1>. USE ValuesParts, ValuesPartsNext
  <1>1. LockValues(Tasks)'
    BY DEF PauseGeneration, ContinueGeneration, LockValues, lockVars
  <1>5. CallValues'
    <2>1. CASE PauseGeneration
      BY <2>1 DEF PauseGeneration, CallValues
    <2>2. CASE ContinueGeneration
      BY <2>2 DEF ContinueGeneration, CallValues
    <2>. QED BY <2>1, <2>2
  <1>2. LoopValues'
    BY DEF PauseGeneration, ContinueGeneration, LoopValues, loopVars
  <1>3. toSched' \in Seq(Messages)
    BY SentTyped DEF PauseGeneration, ContinueGeneration, SchedValues
  <1>4. SchedValues'
    BY <1>3 DEF PauseGeneration, ContinueGeneration, SchedValues, schedVars
  <1>. QED BY <1>1, <1>5, <1>2, <1>4

LEMMA HandleLoopKeepsValues ==
    ASSUME ValuesOK, HandleLoop
    PROVE  ValuesOK'
  <1>. USE ValuesParts, ValuesPartsNext
  <1>l. LockValues(Tasks)' /\ CallValues' /\ SchedValues'
    BY DEF HandleLoop, HandleOutput, HandleAbort, HandleUpdate, LockValues, CallValues,
           SchedValues, lockVars, schedVars
  <1>1. ASSUME HandleOutput PROVE LoopValues'
    <2>1. /\ Tail(outputs) \in Seq([of : Reqs, last : BOOLEAN])
          /\ Head(outputs) \in [of : Reqs, last : BOOLEAN]
      BY <1>1, TailIndices DEF HandleOutput, LoopValues
    <2>2. /\ Head(outputs).of \in Reqs
          /\ [finished |-> Head(outputs).last, event |-> TRUE]
                \in [finished : BOOLEAN, event : BOOLEAN]
      BY <2>1
    <2>4. state' \in [Reqs -> [finished : BOOLEAN, event : BOOLEAN]]
      BY <1>1, <2>2 DEF HandleOutput, LoopValues
    <2>5. rids' \subseteq Reqs
      BY <1>1 DEF HandleOutput, LoopValues
    <2>3. outputs' \in Seq([of : Reqs, last : BOOLEAN])
      BY <1>1, <2>1 DEF HandleOutput
    <2>. QED BY <1>1, <2>3, <2>4, <2>5 DEF HandleOutput, LoopValues
  <1>2. ASSUME HandleAbort PROVE LoopValues'
    <2>1. Tail(replies) \in Seq(Messages) /\ Head(replies) \in Messages
      BY <1>2, TailIndices DEF HandleAbort, LoopValues
    <2>2. /\ alive' = (Head(replies).of \in rids)
          /\ state' = [state EXCEPT ![Head(replies).of] =
                          IF Head(replies).of \in rids THEN Abort(@) ELSE @]
          /\ UNCHANGED <<rids, future, outputs>> /\ replies' = Tail(replies)
      BY <1>2 DEF HandleAbort
    <2>3. \A s \in [finished : BOOLEAN, event : BOOLEAN] :
              Abort(s) \in [finished : BOOLEAN, event : BOOLEAN]
      BY DEF Abort
    <2>4. state' \in [Reqs -> [finished : BOOLEAN, event : BOOLEAN]]
      BY <2>2, <2>3 DEF LoopValues
    <2>. QED BY <2>1, <2>2, <2>4 DEF LoopValues
  <1>3. ASSUME HandleUpdate PROVE LoopValues'
    <2>1. Tail(replies) \in Seq(Messages)
      BY <1>3, TailIndices DEF HandleUpdate, LoopValues
    <2>. QED BY <1>3, <2>1 DEF HandleUpdate, LoopValues
  <1>. QED BY <1>l, <1>1, <1>2, <1>3 DEF HandleLoop

LEMMA SchedulerKeepsValues ==
    ASSUME ValuesOK, Scheduler
    PROVE  ValuesOK'
  <1>. USE ValuesParts, ValuesPartsNext
  <1>l. LockValues(Tasks)' /\ CallValues' /\ UNCHANGED <<rids, state, future>>
    BY DEF Scheduler, SchedReceive, SchedAdmit, SchedRetract, SchedOutput, SchedUnchanged,
           lockVars, LockValues, CallValues
  <1>1. ASSUME SchedReceive PROVE LoopValues' /\ SchedValues'
    <2>. DEFINE m == Head(toSched)
    <2>1. /\ toSched # <<>> /\ toSched' = Tail(toSched)
          /\ UNCHANGED <<produced, retracts>>
          /\ \/ /\ m.kind = "generate"
                /\ sched' = [sched EXCEPT ![m.of].at = "waiting"]
                /\ UNCHANGED <<outputs, replies, alive>>
             \/ m.kind = "abort" /\ SchedAbort({m.of})
             \/ m.kind = "abort_all" /\ SchedAbort(Reqs)
             \/ m.kind = "update" /\ SchedUpdate(m.of)
      BY <1>1 DEF SchedReceive
    <2>2. m \in Messages /\ toSched' \in Seq(Messages)
      BY <2>1, TailIndices DEF SchedValues
    <2>3. CASE m.kind = "generate"
      <3>1. /\ sched' = [sched EXCEPT ![m.of].at = "waiting"]
            /\ UNCHANGED <<outputs, replies, alive>>
        BY <2>1, <2>3 DEF SchedAbort, SchedUpdate
      <3>2. LoopValues'
        BY <1>l, <3>1 DEF LoopValues
      <3>3. sched' \in [Reqs -> [at : {"none", "waiting", "running", "done", "removed",
                                      "lost"}, abort : BOOLEAN]]
        BY <3>1 DEF SchedValues
      <3>. QED BY <2>1, <2>2, <3>2, <3>3 DEF SchedValues
    <2>4. ASSUME NEW matched \in SUBSET Reqs, SchedAbort(matched)
          PROVE  LoopValues' /\ SchedValues'
      <3>1. sched' \in [Reqs -> [at : {"none", "waiting", "running", "done", "removed",
                                      "lost"}, abort : BOOLEAN]]
        BY <2>4 DEF SchedAbort, SchedValues, Removed
      <3>2. replies' \in Seq(Messages) /\ UNCHANGED <<outputs, alive>>
        BY <2>4, AbortReplies DEF LoopValues, SchedAbort
      <3>. QED BY <1>l, <2>1, <2>2, <3>1, <3>2 DEF LoopValues, SchedValues
    <2>5. CASE m.kind = "abort" /\ SchedAbort({m.of})
      <3>1. {m.of} \in SUBSET Reqs
        BY <2>2, <2>5 DEF Messages, AbortAll, Message
      <3>. QED BY <2>4, <2>5, <3>1
    <2>6. CASE m.kind = "update" /\ SchedUpdate(m.of)
      <3>1. Message("update", m.of) \in Messages
        BY <2>2, <2>6 DEF Messages, AbortAll, Message
      <3>2. sched' \in [Reqs -> [at : {"none", "waiting", "running", "done", "removed",
                                      "lost"}, abort : BOOLEAN]]
        <4>1. \A s \in [at : {"none", "waiting", "running", "done", "removed", "lost"},
                        abort : BOOLEAN] :
                  Forgotten(s) \in [at : {"none", "waiting", "running", "done", "removed",
                                         "lost"}, abort : BOOLEAN]
          BY DEF Forgotten
        <4>. QED BY <2>6, <4>1 DEF SchedUpdate, SchedValues
      <3>3. replies' \in Seq(Messages) /\ alive' \in BOOLEAN /\ outputs' = outputs
        <4>1. replies' = replies \/ replies' = Append(replies, Message("update", m.of))
          BY <2>6 DEF SchedUpdate
        <4>2. replies' \in Seq(Messages)
          BY <3>1, <4>1, AppendProperties DEF LoopValues
        <4>. QED BY <2>6, <4>2 DEF SchedUpdate, LoopValues
      <3>. QED BY <1>l, <2>1, <2>2, <3>2, <3>3 DEF LoopValues, SchedValues
    <2>. QED BY <2>1, <2>3, <2>4, <2>5, <2>6
  <1>2. ASSUME NEW r \in Reqs, SchedAdmit(r) \/ SchedRetract(r)
        PROVE  LoopValues' /\ SchedValues'
    <2>1. sched' \in [Reqs -> [at : {"none", "waiting", "running", "done", "removed",
                                    "lost"}, abort : BOOLEAN]]
      BY <1>2 DEF SchedAdmit, SchedRetract, SchedValues
    <2>2. UNCHANGED <<toSched, outputs, replies, alive, produced>> /\ retracts' \in Nat
      BY <1>2 DEF SchedAdmit, SchedRetract, SchedValues
    <2>. QED BY <1>l, <2>1, <2>2 DEF LoopValues, SchedValues
  <1>3. ASSUME NEW r \in Reqs, NEW last \in BOOLEAN, SchedOutput(r, last)
        PROVE  LoopValues' /\ SchedValues'
    <2>1. [of |-> r, last |-> last] \in [of : Reqs, last : BOOLEAN]
      OBVIOUS
    <2>2. outputs' \in Seq([of : Reqs, last : BOOLEAN])
      BY <1>3, <2>1 DEF SchedOutput, LoopValues
    <2>. QED BY <1>l, <1>3, <2>2 DEF SchedOutput, Ended, LoopValues, SchedValues
  <1>. QED BY <1>l, <1>1, <1>2, <1>3 DEF Scheduler

\* Every step keeps every value of its kind.
LEMMA StepKeepsValues == ASSUME ValuesOK, [Next]_vars PROVE ValuesOK'
  <1>1. CASE UNCHANGED vars
    BY <1>1 DEF ValuesOK, vars, lockVars, loopVars, schedVars
  <1>2. CASE Next
    BY <1>2, CallsKeepValues, UpdatesKeepValues, PausesKeepValues, HandleLoopKeepsValues,
       SchedulerKeepsValues DEF Next, EventLoop, Clients
  <1>. QED BY <1>1, <1>2

LEMMA OutputsTyped ==
    ASSUME ValuesOK
    PROVE  \A i \in 1..Len(outputs) :
               outputs[i].of \in Reqs /\ outputs[i].last \in BOOLEAN
  <1>1. \A i \in 1..Len(outputs) : outputs[i] \in [of : Reqs, last : BOOLEAN]
    BY ElementOfSeq DEF ValuesOK
  <1>. QED BY <1>1

LEMMA InitValues == Init => ValuesOK
  <1>. SUFFICES ASSUME Init PROVE ValuesOK
    OBVIOUS
  <1>1. toSched \in Seq(Messages) /\ replies \in Seq(Messages)
    BY EmptySeq DEF Init
  <1>2. outputs \in Seq([of : Reqs, last : BOOLEAN])
    BY EmptySeq DEF Init
  <1>3. LockValues(Tasks) /\ CallValues
    BY TokenizerAssumption DEF Init, LockInit, LockValues, CallValues, Calls
  <1>4. LoopValues
    BY <1>1, <1>2 DEF Init, LoopValues, NewState
  <1>5. SchedValues
    BY <1>1 DEF Init, SchedValues, NotSent
  <1>. QED BY <1>3, <1>4, <1>5, ValuesParts

-----------------------------------------------------------------------------
(* The lock excludes.  Its counters count: the calls between taking and     *)
(* releasing reader_lock, and the updates that wait for writer_lock.        *)

Queued == {u \in Updates : update[u] = "lock"}

LockCounts ==
    /\ readers = Cardinality(Inside)
    /\ waitingWriters = Cardinality(Queued)
    /\ writerActive <=> Updating # {}
    /\ writerActive => readers = 0
    /\ \A u, v \in Updating : u = v

LEMMA Finite == IsFiniteSet(Inside) /\ IsFiniteSet(Queued)
  BY FS_Subset, TokenizerAssumption DEF Inside, Queued

LEMMA CountsAreNaturals == ASSUME LockCounts PROVE readers \in Nat /\ waitingWriters \in Nat
  BY Finite, FS_CardinalityType DEF LockCounts

\* a step of nobody at the lock
LEMMA AwayFromLock ==
    ASSUME LockCounts, UNCHANGED <<readers, writerActive, waitingWriters, update>>,
           Inside' = Inside
    PROVE  LockCounts'
  BY DEF LockCounts, Queued, Updating

\* A call goes in: no update holds the lock.
LEMMA ReaderEnters ==
    ASSUME LockCounts, NEW r, EnterReader, r \notin Inside, Inside' = Inside \cup {r},
           update' = update
    PROVE  LockCounts'
  <1>1. Cardinality(Inside') = Cardinality(Inside) + 1
    BY Finite, FS_AddElement
  <1>. QED BY <1>1 DEF LockCounts, EnterReader, ReaderMayEnter, Queued, Updating

\* A call comes out.
LEMMA ReaderLeaves ==
    ASSUME LockCounts, NEW r, LeaveReader, r \in Inside, Inside' = Inside \ {r},
           update' = update
    PROVE  LockCounts'
  <1>1. Cardinality(Inside') = Cardinality(Inside) - 1
    BY Finite, FS_RemoveElement
  <1>2. Cardinality(Inside) # 0
    BY Finite, FS_EmptySet
  <1>. QED BY <1>1, <1>2 DEF LockCounts, LeaveReader, Queued, Updating

\* An update goes in: no call is inside and no other update.
LEMMA WriterEnters ==
    ASSUME ValuesOK, LockCounts, NEW u \in Updates, update[u] \in {"new", "lock"},
           EnterWriter(update[u] = "new"), task' = task,
           update' = [update EXCEPT ![u] = "wait"]
    PROVE  LockCounts'
  <1>1. Updating = {} /\ readers = 0
    BY DEF EnterWriter, WriterMayEnter, LockCounts
  <1>2. Updating' = {u} /\ Inside' = Inside
    BY <1>1 DEF ValuesOK, Updating, Inside
  <1>3. waitingWriters' = Cardinality(Queued')
    <2>1. CASE update[u] = "new"
      <3>1. Queued' = Queued
        BY <2>1 DEF Queued, ValuesOK
      <3>. QED BY <2>1, <3>1 DEF EnterWriter, LockCounts
    <2>2. CASE update[u] = "lock"
      <3>1. Queued' = Queued \ {u} /\ u \in Queued
        BY <2>2 DEF Queued, ValuesOK
      <3>2. Cardinality(Queued') = Cardinality(Queued) - 1
        BY <3>1, Finite, FS_RemoveElement
      <3>. QED BY <2>2, <3>2 DEF EnterWriter, LockCounts
    <2>. QED BY <2>1, <2>2
  <1>. QED BY <1>1, <1>2, <1>3 DEF LockCounts, EnterWriter

\* An update joins the queue at its first attempt.
LEMMA WriterQueues ==
    ASSUME ValuesOK, LockCounts, NEW u \in Updates, update[u] = "new", QueueWriter(u),
           task' = task, update' = [update EXCEPT ![u] = "lock"]
    PROVE  LockCounts'
  <1>1. /\ Queued' = Queued \cup {u} /\ u \notin Queued
        /\ Updating' = Updating /\ Inside' = Inside
    BY DEF Queued, Updating, Inside, ValuesOK
  <1>2. Cardinality(Queued') = Cardinality(Queued) + 1
    BY <1>1, Finite, FS_AddElement
  <1>. QED BY <1>1, <1>2 DEF LockCounts, QueueWriter

\* The update that holds the lock comes out.
LEMMA WriterLeaves ==
    ASSUME ValuesOK, LockCounts, NEW u \in Updates, update[u] = "wait", LeaveWriter,
           task' = task, update' = [update EXCEPT ![u] = "end"]
    PROVE  LockCounts'
  <1>1. Updating = {u}
    BY DEF LockCounts, Updating
  <1>2. Updating' = {} /\ Queued' = Queued /\ Inside' = Inside
    BY <1>1 DEF ValuesOK, Updating, Queued, Inside
  <1>. QED BY <1>1, <1>2 DEF LockCounts, LeaveWriter

LEMMA CallsKeepCounts ==
    ASSUME ValuesOK, LockCounts, NEW r \in Reqs,
           \/ Generate(r) \/ Unpause(r) \/ TakeReaderLock(r) \/ SendOne(r)
           \/ Answer(r) \/ NextOutput(r) \/ Disconnect(r) \/ AbortOne(r)
    PROVE  LockCounts'
  <1>. USE DEF Inside, ValuesOK
  <1>1. CASE Generate(r) \/ Unpause(r) \/ NextOutput(r) \/ AbortOne(r)
    BY <1>1, AwayFromLock DEF Generate, Unpause, NextOutput, AbortOne, lockVars
  <1>2. CASE TakeReaderLock(r) /\ task' # task
    <2>1. /\ task[r] = "lock" /\ EnterReader /\ update' = update
          /\ task' = [task EXCEPT ![r] = "tokenize"]
      BY <1>2 DEF TakeReaderLock
    <2>2. r \notin Inside /\ Inside' = Inside \cup {r}
      BY <2>1
    <2>. QED BY <2>1, <2>2, ReaderEnters
  <1>3. CASE TakeReaderLock(r) /\ task' = task
    <2>1. Sleep(r) /\ update' = update
      BY <1>3 DEF TakeReaderLock
    <2>. QED BY <1>3, <2>1, AwayFromLock DEF Sleep
  <1>4. ASSUME task[r] \in {"tokenize", "wait"}, LeaveReader, update' = update,
               NEW to \in {"answered", "gone"}, task' = [task EXCEPT ![r] = to]
        PROVE  LockCounts'
    <2>1. r \in Inside /\ Inside' = Inside \ {r}
      BY <1>4
    <2>. QED BY <1>4, <2>1, ReaderLeaves
  <1>5. CASE SendOne(r)
    <2>1. CASE task' = [task EXCEPT ![r] = "wait"] /\ UNCHANGED lockVars
      <3>1. Inside' = Inside
        BY <1>5, <2>1 DEF SendOne
      <3>. QED BY <1>5, <2>1, <3>1, AwayFromLock DEF SendOne, lockVars
    <2>2. CASE task' = [task EXCEPT ![r] = "answered"] /\ LeaveReader
      BY <1>4, <1>5, <2>2 DEF SendOne
    <2>. QED BY <1>5, <2>1, <2>2 DEF SendOne
  <1>6. CASE Answer(r)
    BY <1>4, <1>6 DEF Answer
  <1>7. CASE Disconnect(r)
    BY <1>4, <1>7 DEF Disconnect
  <1>. QED BY <1>1, <1>2, <1>3, <1>5, <1>6, <1>7

LEMMA UpdatesKeepCounts ==
    ASSUME ValuesOK, LockCounts, NEW u \in Updates,
           StartUpdate(u) \/ RetryWriter(u) \/ EndUpdate(u)
    PROVE  LockCounts'
  <1>1. CASE StartUpdate(u)
    <2>1. update[u] = "new" /\ task' = task
      BY <1>1 DEF StartUpdate
    <2>2. CASE EnterWriter(TRUE) /\ update' = [update EXCEPT ![u] = "wait"]
      BY <2>1, <2>2, WriterEnters
    <2>3. CASE QueueWriter(u) /\ update' = [update EXCEPT ![u] = "lock"]
      BY <2>1, <2>3, WriterQueues
    <2>. QED BY <1>1, <2>2, <2>3 DEF StartUpdate
  <1>2. CASE RetryWriter(u)
    <2>1. update[u] = "lock" /\ task' = task
      BY <1>2 DEF RetryWriter
    <2>2. CASE EnterWriter(FALSE) /\ update' = [update EXCEPT ![u] = "wait"]
      BY <2>1, <2>2, WriterEnters
    <2>3. CASE Sleep(u) /\ update' = update
      BY <2>1, <2>3, AwayFromLock DEF Sleep, Inside
    <2>. QED BY <1>2, <2>2, <2>3 DEF RetryWriter
  <1>3. CASE EndUpdate(u)
    BY <1>3, WriterLeaves DEF EndUpdate
  <1>. QED BY <1>1, <1>2, <1>3

LEMMA StepKeepsCounts == ASSUME ValuesOK, LockCounts, [Next]_vars PROVE LockCounts'
  <1>1. CASE \/ UNCHANGED vars
             \/ PauseGeneration \/ ContinueGeneration \/ HandleLoop \/ Scheduler
    <2>1. UNCHANGED <<readers, writerActive, waitingWriters, update, task>>
      BY <1>1 DEF vars, lockVars, PauseGeneration, ContinueGeneration, HandleLoop,
                  HandleOutput, HandleAbort, HandleUpdate, Scheduler, SchedReceive,
                  SchedAdmit, SchedRetract, SchedOutput, SchedUnchanged
    <2>. QED BY <2>1, AwayFromLock DEF Inside
  <1>2. ASSUME NEW r \in Reqs,
               \/ Generate(r) \/ Unpause(r) \/ TakeReaderLock(r) \/ SendOne(r)
               \/ Answer(r) \/ NextOutput(r) \/ Disconnect(r) \/ AbortOne(r)
        PROVE  LockCounts'
    BY <1>2, CallsKeepCounts
  <1>3. ASSUME NEW u \in Updates, StartUpdate(u) \/ RetryWriter(u) \/ EndUpdate(u)
        PROVE  LockCounts'
    BY <1>3, UpdatesKeepCounts
  <1>. QED BY <1>1, <1>2, <1>3 DEF Next, EventLoop, Clients

LEMMA InitCounts == Init => LockCounts
  <1>. SUFFICES ASSUME Init PROVE LockCounts
    OBVIOUS
  <1>1. Inside = {} /\ Queued = {} /\ Updating = {}
    BY DEF Init, Inside, Queued, Updating
  <1>. QED BY <1>1, FS_EmptySet DEF Init, LockInit, LockCounts

LEMMA CountsInvariant == Spec => [](ValuesOK /\ LockCounts)
  BY InitValues, InitCounts, StepKeepsValues, StepKeepsCounts, PTL DEF Spec

\* TypeOK holds of every set of calls and updates: the counters of the lock
\* are numbers of tasks.
THEOREM TypeCorrect == Spec => []TypeOK
  <1>1. ValuesOK /\ LockCounts => TypeOK
    BY CountsAreNaturals DEF TypeOK
  <1>. QED BY <1>1, CountsInvariant, PTL

\* LockExcludes holds of every set of calls and updates: an update that holds
\* the lock has counted no call inside.
THEOREM LockCorrect == Spec => []LockExcludes
  <1>1. ValuesOK /\ LockCounts => LockExcludes
    <2>. SUFFICES ASSUME LockCounts, Updating # {} PROVE Inside = {}
      BY DEF LockExcludes, LockCounts
    <2>1. Cardinality(Inside) = 0
      BY DEF LockCounts
    <2>. QED BY <2>1, Finite, FS_EmptySet
  <1>. QED BY <1>1, CountsInvariant, PTL

-----------------------------------------------------------------------------
(* Where a request can be, from its call to its last answer.                *)

BeforeSend == {r \in Reqs : task[r] \in {"new", "paused", "lock", "tokenize"}}

\* The scheduler cannot have what has not been sent.
Unsent == \A r \in Reqs : r \in BeforeSend => sched[r].at = "none"

\* A request under way has been sent once, and has a state.
SentOnce ==
    \A i \in 1..Len(toSched) : toSched[i].kind = "generate" =>
        /\ toSched[i].of \notin BeforeSend
        /\ toSched[i].of \in rids
        /\ sched[toSched[i].of].at = "none"
        /\ \A j \in 1..Len(toSched) : toSched[j] = toSched[i] => i = j

\* Only a last output takes the state away.
Kept ==
    \A r \in Reqs :
        sched[r].at \in {"waiting", "running", "removed", "lost"} => r \in rids

\* What a call is told of its end is true.
ToldTrue ==
    /\ \A r \in Reqs : state[r].finished => sched[r].at \in {"done", "removed"}
    /\ \A i \in 1..Len(outputs) :
          outputs[i].last => sched[outputs[i].of].at = "done"
    /\ \A i \in 1..Len(replies) :
          replies[i].kind = "abort" => sched[replies[i].of].at = "removed"

\* The scheduler has no more to do with an answered call, or never had: its
\* request could not be sent.
AnsweredOver ==
    \A r \in Reqs : task[r] = "answered" =>
        \/ sched[r].at \in {"done", "removed"}
        \/ /\ sched[r].at = "none"
           /\ \A i \in 1..Len(toSched) : toSched[i] # Message("generate", r)

RequestInv == Unsent /\ SentOnce /\ Kept /\ ToldTrue /\ AnsweredOver

\* A step that sends no request, and leaves the states and the scheduler alone.
SendsNoRequest ==
    /\ UNCHANGED <<rids, state, sched, outputs, replies>>
    /\ \A i \in 1..Len(toSched') : toSched'[i].kind = "generate" =>
          i \in 1..Len(toSched) /\ toSched'[i] = toSched[i]
    /\ \A r \in Reqs :
          /\ r \in BeforeSend' <=> r \in BeforeSend
          /\ task'[r] = "answered" =>
                task[r] = "answered" \/ (task[r] = "wait" /\ state[r].finished)

LEMMA NoRequestKeepsInv ==
    ASSUME ValuesOK, RequestInv, SendsNoRequest
    PROVE  RequestInv'
  <1>1. Unsent' /\ Kept' /\ ToldTrue'
    BY DEF RequestInv, Unsent, Kept, ToldTrue, SendsNoRequest
  <1>2. SentOnce'
    <2>. SUFFICES ASSUME NEW i \in 1..Len(toSched'), toSched'[i].kind = "generate"
                  PROVE  /\ toSched'[i].of \notin BeforeSend'
                         /\ toSched'[i].of \in rids'
                         /\ sched'[toSched'[i].of].at = "none"
                         /\ \A j \in 1..Len(toSched') :
                               toSched'[j] = toSched'[i] => i = j
      BY DEF SentOnce
    <2>1. i \in 1..Len(toSched) /\ toSched'[i] = toSched[i] /\ toSched[i].kind = "generate"
      BY DEF SendsNoRequest
    <2>2. toSched[i].of \in Reqs
      BY <2>1 DEF ValuesOK, Messages, AbortAll, Message
    <2>3. \A j \in 1..Len(toSched') : toSched'[j] = toSched'[i] => i = j
      BY <2>1 DEF SendsNoRequest, RequestInv, SentOnce
    <2>. QED BY <2>1, <2>2, <2>3 DEF SendsNoRequest, RequestInv, SentOnce
  <1>3. AnsweredOver'
    <2>. SUFFICES ASSUME NEW r \in Reqs, task'[r] = "answered"
                  PROVE  \/ sched'[r].at \in {"done", "removed"}
                         \/ /\ sched'[r].at = "none"
                            /\ \A i \in 1..Len(toSched') :
                                  toSched'[i] # Message("generate", r)
      BY DEF AnsweredOver
    <2>1. CASE task[r] = "wait" /\ state[r].finished
      BY <2>1 DEF SendsNoRequest, RequestInv, ToldTrue
    <2>2. CASE task[r] = "answered"
      BY <2>2 DEF SendsNoRequest, RequestInv, AnsweredOver, Message
    <2>. QED BY <2>1, <2>2 DEF SendsNoRequest
  <1>. QED BY <1>1, <1>2, <1>3 DEF RequestInv

\* The messages that are not requests go behind what is under way.
LEMMA AppendsNoRequest ==
    ASSUME NEW s \in Seq(Messages), NEW m \in Messages, m.kind # "generate"
    PROVE  /\ Append(s, m) \in Seq(Messages)
           /\ \A i \in 1..Len(Append(s, m)) : Append(s, m)[i].kind = "generate" =>
                 i \in 1..Len(s) /\ Append(s, m)[i] = s[i]
  OBVIOUS

LEMMA CallsKeepInv ==
    ASSUME ValuesOK, RequestInv, NEW r \in Reqs,
           \/ Generate(r) \/ Unpause(r) \/ TakeReaderLock(r)
           \/ Answer(r) \/ Disconnect(r) \/ AbortOne(r)
    PROVE  RequestInv'
  <1>1. UNCHANGED <<rids, state, sched, outputs, replies>>
    BY DEF Generate, Unpause, TakeReaderLock, Answer, Disconnect, AbortOne, loopVars,
           schedVars
  <1>2. \A i \in 1..Len(toSched') : toSched'[i].kind = "generate" =>
            i \in 1..Len(toSched) /\ toSched'[i] = toSched[i]
    <2>1. toSched' = toSched \/ toSched' = Append(toSched, Message("abort", r))
      BY DEF Generate, Unpause, TakeReaderLock, Answer, Disconnect, AbortOne, SendAbort
    <2>2. Message("abort", r) \in Messages /\ Message("abort", r).kind # "generate"
      BY MessagesTyped DEF Message
    <2>3. toSched \in Seq(Messages)
      BY DEF ValuesOK
    <2>. QED BY <2>1, <2>2, <2>3, AppendsNoRequest
  <1>3. \A q \in Reqs :
            /\ q \in BeforeSend' <=> q \in BeforeSend
            /\ task'[q] = "answered" =>
                  task[q] = "answered" \/ (task[q] = "wait" /\ state[q].finished)
    <2>1. CASE Generate(r) \/ Unpause(r)
      BY <2>1 DEF ValuesOK, BeforeSend, Generate, Unpause
    <2>2. CASE TakeReaderLock(r)
      BY <2>2 DEF ValuesOK, BeforeSend, TakeReaderLock
    <2>3. CASE Answer(r)
      BY <2>3 DEF ValuesOK, BeforeSend, Answer
    <2>4. CASE Disconnect(r) \/ AbortOne(r)
      BY <2>4 DEF ValuesOK, BeforeSend, Disconnect, AbortOne
    <2>. QED BY <2>1, <2>2, <2>3, <2>4
  <1>. QED BY <1>1, <1>2, <1>3, NoRequestKeepsInv DEF SendsNoRequest

LEMMA UpdatesKeepInv ==
    ASSUME ValuesOK, RequestInv, NEW u \in Updates,
           StartUpdate(u) \/ RetryWriter(u) \/ EndUpdate(u)
    PROVE  RequestInv'
  <1>1. UNCHANGED <<rids, state, sched, outputs, replies, task>>
    BY DEF StartUpdate, RetryWriter, EndUpdate, loopVars, schedVars
  <1>2. \A i \in 1..Len(toSched') : toSched'[i].kind = "generate" =>
            i \in 1..Len(toSched) /\ toSched'[i] = toSched[i]
    <2>. DEFINE m == Message("update", u)
    <2>1. PICK sent \in {toSched, Append(toSched, AbortAll)} :
              toSched' \in {sent, Append(sent, m)}
      BY DEF StartUpdate, RetryWriter, EndUpdate
    <2>2. /\ m \in Messages /\ m.kind # "generate"
          /\ AbortAll \in Messages /\ AbortAll.kind # "generate"
      BY MessagesTyped DEF Message, AbortAll
    <2>3. toSched \in Seq(Messages)
      BY DEF ValuesOK
    <2>. HIDE DEF m
    <2>4. /\ sent \in Seq(Messages)
          /\ \A i \in 1..Len(sent) : sent[i].kind = "generate" =>
                i \in 1..Len(toSched) /\ sent[i] = toSched[i]
      BY <2>1, <2>2, <2>3, AppendsNoRequest
    <2>5. CASE toSched' = sent
      BY <2>4, <2>5
    <2>6. CASE toSched' = Append(sent, m)
      <3>1. \A i \in 1..Len(Append(sent, m)) : Append(sent, m)[i].kind = "generate" =>
                i \in 1..Len(sent) /\ Append(sent, m)[i] = sent[i]
        BY <2>2, <2>4, AppendsNoRequest
      <3>. QED BY <2>4, <2>6, <3>1
    <2>. QED BY <2>1, <2>5, <2>6
  <1>3. BeforeSend' = BeforeSend
    BY <1>1 DEF BeforeSend
  <1>. QED BY <1>1, <1>2, <1>3, NoRequestKeepsInv DEF SendsNoRequest

LEMMA PausesKeepInv ==
    ASSUME ValuesOK, RequestInv, PauseGeneration \/ ContinueGeneration
    PROVE  RequestInv'
  <1>1. UNCHANGED <<rids, state, sched, outputs, replies, task>>
    BY DEF PauseGeneration, ContinueGeneration, loopVars, schedVars
  <1>2. toSched' = toSched \/ toSched' = Append(toSched, AbortAll)
    BY DEF PauseGeneration, ContinueGeneration
  <1>3. \A i \in 1..Len(toSched') : toSched'[i].kind = "generate" =>
            i \in 1..Len(toSched) /\ toSched'[i] = toSched[i]
    <2>1. AbortAll \in Messages /\ AbortAll.kind # "generate"
      BY MessagesTyped DEF AbortAll, Message
    <2>2. toSched \in Seq(Messages)
      BY DEF ValuesOK
    <2>. QED BY <1>2, <2>1, <2>2, AppendsNoRequest
  <1>4. BeforeSend' = BeforeSend
    BY <1>1 DEF BeforeSend
  <1>. QED BY <1>1, <1>3, <1>4, NoRequestKeepsInv DEF SendsNoRequest

\* A request is sent, or cannot be.
LEMMA SendKeepsInv ==
    ASSUME ValuesOK, RequestInv, NEW r \in Reqs, SendOne(r)
    PROVE  RequestInv'
  <1>. DEFINE m == Message("generate", r)
  <1>1. /\ task[r] = "tokenize" /\ r \in BeforeSend /\ sched[r].at = "none"
        /\ UNCHANGED <<state, outputs, replies, sched>>
    BY DEF SendOne, schedVars, RequestInv, Unsent, BeforeSend
  <1>2. \A i \in 1..Len(toSched) : toSched[i] # m
    BY <1>1 DEF RequestInv, SentOnce, Message
  <1>3. \A i \in 1..Len(toSched) : toSched[i].kind = "generate" => toSched[i].of \in Reqs
    BY DEF ValuesOK, Messages, AbortAll, Message
  <1>4. Kept' /\ ToldTrue'
    BY <1>1 DEF RequestInv, Kept, ToldTrue, SendOne, ValuesOK
  <1>5. CASE task' = [task EXCEPT ![r] = "wait"]
    <2>1. toSched' = Append(toSched, m) /\ rids' = rids \cup {r}
      BY <1>1, <1>5 DEF SendOne, ValuesOK
    <2>2. Unsent'
      BY <1>1, <1>5 DEF RequestInv, Unsent, BeforeSend, ValuesOK
    <2>3. SentOnce'
      <3>. SUFFICES ASSUME NEW i \in 1..Len(toSched'), toSched'[i].kind = "generate"
                    PROVE  /\ toSched'[i].of \notin BeforeSend'
                           /\ toSched'[i].of \in rids'
                           /\ sched'[toSched'[i].of].at = "none"
                           /\ \A j \in 1..Len(toSched') :
                                 toSched'[j] = toSched'[i] => i = j
        BY DEF SentOnce
      <3>1. /\ Len(toSched') = Len(toSched) + 1 /\ toSched'[Len(toSched) + 1] = m
            /\ Len(toSched) \in Nat
            /\ \A j \in 1..Len(toSched) : toSched'[j] = toSched[j]
        BY <2>1 DEF ValuesOK
      <3>. HIDE DEF m
      <3>2. CASE i \in 1..Len(toSched)
        <4>1. toSched[i].kind = "generate" /\ toSched[i].of \in Reqs /\ toSched'[i] = toSched[i]
          BY <1>3, <3>1, <3>2
        <4>2. /\ toSched[i].of \notin BeforeSend /\ toSched[i].of \in rids
              /\ sched[toSched[i].of].at = "none"
              /\ \A j \in 1..Len(toSched) : toSched[j] = toSched[i] => i = j
          BY <3>2, <4>1 DEF RequestInv, SentOnce
        <4>3. toSched[i].of \notin BeforeSend'
          BY <1>5, <4>1, <4>2 DEF BeforeSend, ValuesOK
        <4>4. \A j \in 1..Len(toSched') : toSched'[j] = toSched'[i] => i = j
          <5>. TAKE j \in 1..Len(toSched')
          <5>1. CASE j \in 1..Len(toSched)
            BY <3>1, <4>1, <4>2, <5>1
          <5>2. CASE j = Len(toSched) + 1
            BY <1>2, <3>1, <3>2, <4>1, <5>2
          <5>. QED BY <3>1, <5>1, <5>2
        <4>. QED BY <1>1, <2>1, <4>1, <4>2, <4>3, <4>4
      <3>3. CASE i = Len(toSched) + 1
        <4>1. toSched'[i] = m /\ m.of = r
          BY <3>1, <3>3 DEF m, Message
        <4>2. r \notin BeforeSend'
          BY <1>5 DEF BeforeSend, ValuesOK
        <4>3. \A j \in 1..Len(toSched') : toSched'[j] = toSched'[i] => i = j
          BY <1>2, <3>1, <3>3, <4>1
        <4>. QED BY <1>1, <2>1, <4>1, <4>2, <4>3
      <3>. QED BY <3>1, <3>2, <3>3
    <2>4. AnsweredOver'
      <3>. SUFFICES ASSUME NEW q \in Reqs, task'[q] = "answered"
                    PROVE  \/ sched[q].at \in {"done", "removed"}
                           \/ /\ sched[q].at = "none"
                              /\ \A i \in 1..Len(toSched') :
                                    toSched'[i] # Message("generate", q)
        BY <1>1 DEF AnsweredOver
      <3>1. q # r /\ task[q] = "answered"
        BY <1>5 DEF ValuesOK
      <3>2. m # Message("generate", q) /\ m \in Messages
        BY <3>1, MessagesTyped DEF Message
      <3>3. \A i \in 1..Len(toSched') :
                (i \in 1..Len(toSched) /\ toSched'[i] = toSched[i]) \/ toSched'[i] = m
        BY <2>1, <3>2 DEF ValuesOK
      <3>. QED BY <3>1, <3>2, <3>3 DEF RequestInv, AnsweredOver
    <2>. QED BY <1>4, <2>2, <2>3, <2>4 DEF RequestInv
  <1>6. CASE task' = [task EXCEPT ![r] = "answered"]
    <2>1. UNCHANGED <<toSched, rids>>
      BY <1>1, <1>6 DEF SendOne, ValuesOK
    <2>2. \A q \in Reqs : q \in BeforeSend' => q \in BeforeSend
      BY <1>6 DEF BeforeSend, ValuesOK
    <2>3. Unsent' /\ SentOnce'
      BY <1>1, <1>3, <2>1, <2>2 DEF RequestInv, Unsent, SentOnce
    <2>4. AnsweredOver'
      <3>. SUFFICES ASSUME NEW q \in Reqs, task'[q] = "answered"
                    PROVE  \/ sched[q].at \in {"done", "removed"}
                           \/ /\ sched[q].at = "none"
                              /\ \A i \in 1..Len(toSched) :
                                    toSched[i] # Message("generate", q)
        BY <1>1, <2>1 DEF AnsweredOver
      <3>1. CASE q = r
        BY <1>1, <1>2, <3>1
      <3>2. CASE q # r
        BY <1>6, <3>2 DEF RequestInv, AnsweredOver, ValuesOK
      <3>. QED BY <3>1, <3>2
    <2>. QED BY <1>4, <2>3, <2>4 DEF RequestInv
  <1>. QED BY <1>5, <1>6 DEF SendOne

LEMMA NextOutputKeepsInv ==
    ASSUME ValuesOK, RequestInv, NEW r \in Reqs, NextOutput(r)
    PROVE  RequestInv'
  <1>1. /\ UNCHANGED <<task, toSched, rids, sched, outputs, replies>>
        /\ \A q \in Reqs : state'[q].finished = state[q].finished
    BY DEF NextOutput, schedVars, ValuesOK
  <1>. QED BY <1>1 DEF RequestInv, Unsent, SentOnce, Kept, ToldTrue, AnsweredOver,
                       BeforeSend

\* The event loop hears of outputs, aborts and updates.
LEMMA HandleLoopKeepsInv ==
    ASSUME ValuesOK, RequestInv, HandleLoop
    PROVE  RequestInv'
  <1>1. UNCHANGED <<task, toSched, sched>>
    BY DEF HandleLoop, HandleOutput, HandleAbort, HandleUpdate, schedVars
  <1>2. Unsent' /\ AnsweredOver'
    BY <1>1 DEF RequestInv, Unsent, AnsweredOver, BeforeSend
  <1>3. CASE HandleOutput
    <2>. DEFINE r == Head(outputs).of
                last == Head(outputs).last
    <2>1. /\ Head(outputs) = outputs[1] /\ 1 \in 1..Len(outputs)
          /\ Head(outputs) \in [of : Reqs, last : BOOLEAN]
          /\ \A i \in 1..Len(outputs') :
                i + 1 \in 1..Len(outputs) /\ outputs'[i] = outputs[i + 1]
      <3>1. outputs # <<>> /\ outputs' = Tail(outputs)
        BY <1>3 DEF HandleOutput
      <3>2. outputs \in Seq([of : Reqs, last : BOOLEAN])
        BY DEF ValuesOK
      <3>. QED BY <3>1, <3>2, TailIndices
    <2>2. r \in Reqs /\ last \in BOOLEAN /\ (last => sched[r].at = "done")
      BY <2>1 DEF RequestInv, ToldTrue
    <2>3. /\ rids' = rids \/ (last /\ rids' = rids \ {r})
          /\ \A q \in Reqs : state'[q].finished =>
                state[q].finished \/ (last /\ q = r)
          /\ replies' = replies
      <3>1. CASE r \in rids
        <4>1. /\ state' = [state EXCEPT ![r] = [finished |-> last, event |-> TRUE]]
              /\ rids' = IF last THEN rids \ {r} ELSE rids
              /\ replies' = replies
          BY <1>3, <3>1 DEF HandleOutput
        <4>2. \A q \in Reqs :
                  state'[q] = IF q = r THEN [finished |-> last, event |-> TRUE]
                              ELSE state[q]
          BY <2>2, <4>1 DEF ValuesOK
        <4>3. \A q \in Reqs : state'[q].finished => state[q].finished \/ (last /\ q = r)
          BY <4>2
        <4>. QED BY <4>1, <4>3
      <3>2. CASE r \notin rids
        BY <1>3, <3>2 DEF HandleOutput
      <3>. QED BY <3>1, <3>2
    <2>. HIDE DEF r, last
    <2>4. Kept'
      BY <1>1, <2>2, <2>3 DEF RequestInv, Kept
    <2>5. SentOnce'
      BY <1>1, <2>2, <2>3 DEF RequestInv, SentOnce, BeforeSend
    <2>6. ToldTrue'
      BY <1>1, <2>1, <2>2, <2>3 DEF RequestInv, ToldTrue
    <2>. QED BY <1>2, <2>4, <2>5, <2>6 DEF RequestInv
  <1>4. CASE HandleAbort \/ HandleUpdate
    <2>1. /\ replies # <<>> /\ replies' = Tail(replies)
          /\ UNCHANGED <<rids, outputs>>
      BY <1>4 DEF HandleAbort, HandleUpdate
    <2>2. /\ Head(replies) = replies[1] /\ 1 \in 1..Len(replies)
          /\ Head(replies) \in Messages
          /\ \A i \in 1..Len(replies') :
                i + 1 \in 1..Len(replies) /\ replies'[i] = replies[i + 1]
      BY <2>1, TailIndices DEF ValuesOK
    <2>3. \A q \in Reqs : state'[q].finished =>
              state[q].finished \/ sched[q].at = "removed"
      <3>1. CASE HandleUpdate
        BY <3>1 DEF HandleUpdate
      <3>2. CASE HandleAbort
        <4>. DEFINE r == Head(replies).of
        <4>1. sched[r].at = "removed"
          BY <2>2, <3>2 DEF HandleAbort, RequestInv, ToldTrue
        <4>2. \A q \in Reqs : q # r => state'[q] = state[q]
          BY <3>2 DEF HandleAbort, ValuesOK
        <4>. QED BY <4>1, <4>2
      <3>. QED BY <1>4, <3>1, <3>2
    <2>4. Kept' /\ SentOnce' /\ ToldTrue'
      BY <1>1, <2>1, <2>2, <2>3
         DEF RequestInv, Kept, SentOnce, ToldTrue, BeforeSend
    <2>. QED BY <1>2, <2>4 DEF RequestInv
  <1>. QED BY <1>3, <1>4 DEF HandleLoop

\* A step of the scheduler that moves requests on: it forgets none that is
\* done or removed, takes none that was not sent, and answers truthfully.
MovesOn ==
    /\ UNCHANGED <<task, rids, state>>
    /\ \A r \in Reqs :
          /\ sched[r].at = "none" <=> sched'[r].at = "none"
          /\ sched[r].at \in {"done", "removed"} => sched'[r].at = sched[r].at
          /\ sched'[r].at \in {"waiting", "running", "removed", "lost"} =>
                sched[r].at \in {"waiting", "running", "removed", "lost"}
    /\ \A i \in 1..Len(outputs') :
          \/ i \in 1..Len(outputs) /\ outputs'[i] = outputs[i]
          \/ outputs'[i].last => sched'[outputs'[i].of].at = "done"
    /\ \A i \in 1..Len(replies') :
          \/ i \in 1..Len(replies) /\ replies'[i] = replies[i]
          \/ replies'[i].kind = "abort" => sched'[replies'[i].of].at = "removed"

\* What is left to receive after a message has been taken, or before.
ReceivesOn ==
    \/ toSched' = toSched
    \/ toSched # <<>> /\ toSched' = Tail(toSched)

LEMMA MovingKeepsInv ==
    ASSUME ValuesOK, RequestInv, MovesOn, ReceivesOn
    PROVE  RequestInv'
  <1>1. PICK d \in {0, 1} : \A i \in 1..Len(toSched') :
            i + d \in 1..Len(toSched) /\ toSched'[i] = toSched[i + d]
    <2>1. CASE toSched' = toSched
      <3>1. \A i \in 1..Len(toSched') :
                i + 0 \in 1..Len(toSched) /\ toSched'[i] = toSched[i + 0]
        BY <2>1
      <3>. QED BY <3>1
    <2>2. CASE toSched # <<>> /\ toSched' = Tail(toSched)
      <3>1. \A i \in 1..Len(toSched') :
                i + 1 \in 1..Len(toSched) /\ toSched'[i] = toSched[i + 1]
        BY <2>2, TailIndices DEF ValuesOK
      <3>. QED BY <3>1
    <2>. QED BY <2>1, <2>2 DEF ReceivesOn
  <1>2. \A i \in 1..Len(toSched) : toSched[i].kind = "generate" => toSched[i].of \in Reqs
    BY DEF ValuesOK, Messages, AbortAll, Message
  <1>3. \A i \in 1..Len(outputs) : outputs[i].of \in Reqs
    BY OutputsTyped
  <1>4. \A i \in 1..Len(replies) : replies[i].kind = "abort" => replies[i].of \in Reqs
    BY DEF ValuesOK, Messages, AbortAll, Message
  <1>5. Unsent' /\ Kept'
    BY DEF MovesOn, RequestInv, Unsent, Kept, BeforeSend
  <1>6. SentOnce'
    <2>. SUFFICES ASSUME NEW i \in 1..Len(toSched'), toSched'[i].kind = "generate"
                  PROVE  /\ toSched'[i].of \notin BeforeSend'
                         /\ toSched'[i].of \in rids'
                         /\ sched'[toSched'[i].of].at = "none"
                         /\ \A j \in 1..Len(toSched') : toSched'[j] = toSched'[i] => i = j
      BY DEF SentOnce
    <2>1. /\ i + d \in 1..Len(toSched) /\ toSched[i + d].kind = "generate"
          /\ toSched'[i] = toSched[i + d]
      BY <1>1
    <2>2. \A j \in 1..Len(toSched') : toSched'[j] = toSched'[i] => i = j
      <3>. SUFFICES ASSUME NEW j \in 1..Len(toSched'), toSched'[j] = toSched'[i]
                    PROVE  i = j
        OBVIOUS
      <3>1. i + d = j + d
        BY <1>1, <2>1 DEF RequestInv, SentOnce
      <3>. QED BY <3>1
    <2>. QED BY <1>2, <2>1, <2>2 DEF RequestInv, SentOnce, MovesOn, BeforeSend
  <1>7. ToldTrue'
    BY <1>3, <1>4 DEF MovesOn, RequestInv, ToldTrue
  <1>8. AnsweredOver'
    BY <1>1 DEF MovesOn, RequestInv, AnsweredOver
  <1>. QED BY <1>5, <1>6, <1>7, <1>8 DEF RequestInv

\* A request arrives: the only one of its call.
LEMMA ArrivalKeepsInv ==
    ASSUME ValuesOK, RequestInv, toSched # <<>>, toSched' = Tail(toSched),
           Head(toSched).kind = "generate",
           sched' = [sched EXCEPT ![Head(toSched).of].at = "waiting"],
           UNCHANGED <<task, rids, state, outputs, replies>>
    PROVE  RequestInv'
  <1>. DEFINE r == Head(toSched).of
  <1>1. /\ Head(toSched) = toSched[1] /\ 1 \in 1..Len(toSched)
        /\ \A i \in 1..Len(toSched') :
              i + 1 \in 1..Len(toSched) /\ toSched'[i] = toSched[i + 1]
    BY TailIndices DEF ValuesOK
  <1>2. r \in Reqs
    BY <1>1 DEF ValuesOK, Messages, AbortAll, Message
  <1>3. /\ r \notin BeforeSend /\ r \in rids /\ sched[r].at = "none"
        /\ \A j \in 1..Len(toSched) : toSched[j] = toSched[1] => 1 = j
    BY <1>1 DEF RequestInv, SentOnce
  <1>4. toSched[1] = Message("generate", r)
    BY <1>1 DEF ValuesOK, Messages, AbortAll, Message
  <1>5. sched'[r].at = "waiting" /\ \A q \in Reqs : q # r => sched'[q] = sched[q]
    BY <1>2 DEF ValuesOK
  <1>6. \A i \in 1..Len(toSched) : toSched[i].kind = "generate" /\ i # 1 =>
            toSched[i].of \in Reqs /\ toSched[i].of # r
    <2>. TAKE i \in 1..Len(toSched)
    <2>. HAVE toSched[i].kind = "generate" /\ i # 1
    <2>1. toSched[i].of \in Reqs /\ toSched[i] = Message("generate", toSched[i].of)
      BY DEF ValuesOK, Messages, AbortAll, Message
    <2>. QED BY <1>3, <1>4, <2>1
  <1>. HIDE DEF r
  <1>7. Unsent' /\ Kept'
    BY <1>3, <1>5 DEF RequestInv, Unsent, Kept, BeforeSend
  <1>8. SentOnce'
    <2>. SUFFICES ASSUME NEW i \in 1..Len(toSched'), toSched'[i].kind = "generate"
                  PROVE  /\ toSched'[i].of \notin BeforeSend'
                         /\ toSched'[i].of \in rids'
                         /\ sched'[toSched'[i].of].at = "none"
                         /\ \A j \in 1..Len(toSched') : toSched'[j] = toSched'[i] => i = j
      BY DEF SentOnce
    <2>1. /\ i + 1 \in 1..Len(toSched) /\ toSched[i + 1].kind = "generate" /\ i + 1 # 1
          /\ toSched'[i] = toSched[i + 1]
      BY <1>1
    <2>2. \A j \in 1..Len(toSched') : toSched'[j] = toSched'[i] => i = j
      <3>. SUFFICES ASSUME NEW j \in 1..Len(toSched'), toSched'[j] = toSched'[i]
                    PROVE  i = j
        OBVIOUS
      <3>1. i + 1 = j + 1
        BY <1>1, <2>1 DEF RequestInv, SentOnce
      <3>. QED BY <3>1
    <2>3. /\ toSched[i + 1].of \notin BeforeSend /\ toSched[i + 1].of \in rids
          /\ sched[toSched[i + 1].of].at = "none"
      BY <2>1 DEF RequestInv, SentOnce
    <2>4. toSched[i + 1].of \notin BeforeSend'
      BY <2>3 DEF BeforeSend
    <2>5. sched'[toSched[i + 1].of] = sched[toSched[i + 1].of]
      BY <1>5, <1>6, <2>1
    <2>. QED BY <2>1, <2>2, <2>3, <2>4, <2>5
  <1>9. ToldTrue'
    <2>1. \A q \in Reqs : sched[q].at \in {"done", "removed"} => sched'[q] = sched[q]
      BY <1>3, <1>5
    <2>2. \A i \in 1..Len(outputs) : outputs[i].of \in Reqs
      BY OutputsTyped
    <2>3. \A i \in 1..Len(replies) : replies[i].kind = "abort" => replies[i].of \in Reqs
      BY DEF ValuesOK, Messages, AbortAll, Message
    <2>4. \A i \in 1..Len(replies) : replies[i].kind = "abort" =>
              sched'[replies[i].of].at = "removed"
      BY <2>1, <2>3 DEF RequestInv, ToldTrue
    <2>5. \A i \in 1..Len(outputs) : outputs[i].last => sched'[outputs[i].of].at = "done"
      BY <2>1, <2>2 DEF RequestInv, ToldTrue
    <2>6. \A q \in Reqs : state[q].finished => sched'[q].at \in {"done", "removed"}
      BY <2>1 DEF RequestInv, ToldTrue
    <2>. QED BY <2>4, <2>5, <2>6 DEF ToldTrue
  <1>10. AnsweredOver'
    <2>. SUFFICES ASSUME NEW q \in Reqs, task'[q] = "answered"
                  PROVE  \/ sched'[q].at \in {"done", "removed"}
                         \/ /\ sched'[q].at = "none"
                            /\ \A i \in 1..Len(toSched') :
                                  toSched'[i] # Message("generate", q)
      BY DEF AnsweredOver
    <2>1. task[q] = "answered"
      OBVIOUS
    <2>2. q # r
      BY <1>1, <1>3, <1>4, <2>1 DEF RequestInv, AnsweredOver
    <2>. QED BY <1>1, <1>5, <2>1, <2>2 DEF RequestInv, AnsweredOver
  <1>. QED BY <1>7, <1>8, <1>9, <1>10 DEF RequestInv

\* abort_request removes what waits, answers for it, and marks what runs.
LEMMA AbortMovesOn ==
    ASSUME ValuesOK, NEW matched \in SUBSET Reqs, SchedAbort(matched),
           UNCHANGED <<task, rids, state>>
    PROVE  MovesOn
  <1>1. \A r \in Reqs :
            /\ sched'[r].at # sched[r].at =>
                  sched[r].at = "waiting" /\ sched'[r].at = "removed"
            /\ r \in Dequeued(matched) => sched'[r].at = "removed"
    BY DEF SchedAbort, Dequeued, Removed, ValuesOK
  <1>2. \A i \in 1..Len(replies') :
            \/ i \in 1..Len(replies) /\ replies'[i] = replies[i]
            \/ replies'[i].kind = "abort" /\ replies'[i].of \in Dequeued(matched)
    BY AbortReplies DEF ValuesOK
  <1>3. Dequeued(matched) \subseteq Reqs
    BY DEF Dequeued
  <1>4. outputs' = outputs
    BY DEF SchedAbort
  <1>. QED BY <1>1, <1>2, <1>3, <1>4 DEF MovesOn

\* update_weights_from_disk forgets what runs, refuses, or changes nothing.
LEMMA UpdateMovesOn ==
    ASSUME ValuesOK, NEW u \in Updates, SchedUpdate(u), UNCHANGED <<task, rids, state>>
    PROVE  MovesOn
  <1>1. \A r \in Reqs : sched'[r].at # sched[r].at =>
            sched[r].at = "running" /\ sched'[r].at = "lost"
    BY DEF SchedUpdate, Forgotten, ValuesOK
  <1>2. \A i \in 1..Len(replies') :
            \/ i \in 1..Len(replies) /\ replies'[i] = replies[i]
            \/ replies'[i].kind # "abort"
    <2>1. replies' = replies \/ replies' = Append(replies, Message("update", u))
      BY DEF SchedUpdate
    <2>. QED BY <2>1 DEF Message, ValuesOK
  <1>3. outputs' = outputs
    BY DEF SchedUpdate
  <1>. QED BY <1>1, <1>2, <1>3 DEF MovesOn

LEMMA SchedulerKeepsInv ==
    ASSUME ValuesOK, RequestInv, Scheduler
    PROVE  RequestInv'
  <1>u. UNCHANGED <<task, rids, state>>
    BY DEF Scheduler, SchedReceive, SchedAdmit, SchedRetract, SchedOutput, SchedUnchanged
  <1>1. CASE SchedReceive
    <2>. DEFINE m == Head(toSched)
    <2>1. /\ toSched # <<>> /\ toSched' = Tail(toSched)
          /\ \/ /\ m.kind = "generate"
                /\ sched' = [sched EXCEPT ![m.of].at = "waiting"]
                /\ UNCHANGED <<outputs, replies, alive>>
             \/ m.kind = "abort" /\ SchedAbort({m.of})
             \/ m.kind = "abort_all" /\ SchedAbort(Reqs)
             \/ m.kind = "update" /\ SchedUpdate(m.of)
      BY <1>1 DEF SchedReceive
    <2>2. m \in Messages
      BY <2>1, TailIndices DEF ValuesOK
    <2>3. CASE m.kind = "generate"
      BY <1>u, <2>1, <2>3, ArrivalKeepsInv
    <2>4. CASE \/ m.kind = "abort" /\ SchedAbort({m.of})
               \/ m.kind = "abort_all" /\ SchedAbort(Reqs)
      <3>1. m.kind = "abort" => {m.of} \in SUBSET Reqs
        BY <2>2 DEF Messages, AbortAll, Message
      <3>2. MovesOn
        BY <1>u, <2>4, <3>1, AbortMovesOn
      <3>. QED BY <2>1, <3>2, MovingKeepsInv DEF ReceivesOn
    <2>5. CASE m.kind = "update" /\ SchedUpdate(m.of)
      <3>1. m.of \in Updates
        BY <2>2, <2>5 DEF Messages, AbortAll, Message
      <3>2. MovesOn
        BY <1>u, <2>5, <3>1, UpdateMovesOn
      <3>. QED BY <2>1, <3>2, MovingKeepsInv DEF ReceivesOn
    <2>. QED BY <2>1, <2>3, <2>4, <2>5
  <1>2. ASSUME NEW r \in Reqs, SchedAdmit(r) \/ SchedRetract(r)
        PROVE  RequestInv'
    <2>1. /\ \A q \in Reqs : sched'[q].at # sched[q].at =>
                {sched[q].at, sched'[q].at} = {"waiting", "running"}
          /\ UNCHANGED <<toSched, outputs, replies>>
      BY <1>2 DEF SchedAdmit, SchedRetract, ValuesOK
    <2>2. MovesOn
      BY <1>u, <2>1 DEF MovesOn
    <2>. QED BY <2>1, <2>2, MovingKeepsInv DEF ReceivesOn
  <1>3. ASSUME NEW r \in Reqs, NEW last \in BOOLEAN, SchedOutput(r, last)
        PROVE  RequestInv'
    <2>1. /\ sched[r].at = "running" /\ UNCHANGED <<toSched, replies>>
          /\ outputs' = Append(outputs, [of |-> r, last |-> last])
          /\ \A q \in Reqs : sched'[q].at =
                IF last /\ q = r THEN "done" ELSE sched[q].at
      BY <1>3 DEF SchedOutput, Ended, ValuesOK
    <2>2. \A i \in 1..Len(outputs') :
              \/ i \in 1..Len(outputs) /\ outputs'[i] = outputs[i]
              \/ outputs'[i] = [of |-> r, last |-> last]
      BY <2>1 DEF ValuesOK
    <2>3. MovesOn
      BY <1>u, <2>1, <2>2 DEF MovesOn
    <2>. QED BY <2>1, <2>3, MovingKeepsInv DEF ReceivesOn
  <1>. QED BY <1>1, <1>2, <1>3 DEF Scheduler

LEMMA StepKeepsInv == ASSUME ValuesOK, RequestInv, [Next]_vars PROVE RequestInv'
  <1>1. CASE UNCHANGED vars
    BY <1>1 DEF vars, loopVars, schedVars, RequestInv, Unsent, SentOnce, Kept, ToldTrue,
                AnsweredOver, BeforeSend
  <1>2. CASE Next
    BY <1>2, CallsKeepInv, SendKeepsInv, NextOutputKeepsInv, UpdatesKeepInv, PausesKeepInv,
       HandleLoopKeepsInv, SchedulerKeepsInv DEF Next, EventLoop, Clients
  <1>. QED BY <1>1, <1>2

LEMMA InitRequests == Init => RequestInv
  BY DEF Init, RequestInv, Unsent, SentOnce, Kept, ToldTrue, AnsweredOver, NewState, NotSent

LEMMA RequestsInvariant == Spec => [](ValuesOK /\ RequestInv)
  BY InitValues, InitRequests, StepKeepsValues, StepKeepsInv, PTL DEF Spec

\* AbortFindsState holds of every set of calls and updates: a request that is
\* answered to an abort has been removed, and only a last output, which a
\* removed request never has, deletes a state.
THEOREM AbortCorrect == Spec => []AbortFindsState
  <1>1. ValuesOK /\ RequestInv => AbortFindsState
    <2>. SUFFICES ASSUME ValuesOK, RequestInv, NEW r \in Reqs,
                         Pending(replies, "abort", r)
                  PROVE  r \in rids
      BY DEF AbortFindsState
    <2>1. PICK i \in 1..Len(replies) : replies[i] = Message("abort", r)
      <3>1. DOMAIN replies = 1..Len(replies)
        BY LenProperties DEF ValuesOK
      <3>. QED BY <3>1 DEF Pending, ToSet
    <2>2. sched[r].at = "removed"
      BY <2>1 DEF RequestInv, ToldTrue, Message
    <2>. QED BY <2>2 DEF RequestInv, Kept
  <1>. QED BY <1>1, RequestsInvariant, PTL

\* UpdateMeetsAbandoned holds of every set of calls and updates: under an
\* update no call is inside, and outside a call has not been sent, is over, or
\* is abandoned.
THEOREM UpdateCorrect == Spec => []UpdateMeetsAbandoned
  <1>1. ValuesOK /\ RequestInv /\ LockExcludes => UpdateMeetsAbandoned
    <2>. SUFFICES ASSUME ValuesOK, RequestInv, LockExcludes, Updating # {},
                         NEW r \in Reqs,
                         sched[r].at \in Live \/ Pending(toSched, "generate", r)
                  PROVE  task[r] = "gone"
      BY DEF UpdateMeetsAbandoned
    <2>1. r \notin Inside
      BY DEF LockExcludes
    <2>2. CASE sched[r].at \in Live
      <3>1. r \notin BeforeSend /\ task[r] # "answered"
        BY <2>2 DEF RequestInv, Unsent, AnsweredOver, Live
      <3>. QED BY <2>1, <3>1 DEF Inside, BeforeSend, ValuesOK, Calls
    <2>3. CASE Pending(toSched, "generate", r)
      <3>1. PICK i \in 1..Len(toSched) : toSched[i] = Message("generate", r)
        <4>1. DOMAIN toSched = 1..Len(toSched)
          BY LenProperties DEF ValuesOK
        <4>. QED BY <2>3, <4>1 DEF Pending, ToSet
      <3>2. r \notin BeforeSend /\ sched[r].at = "none"
        BY <3>1 DEF RequestInv, SentOnce, Message
      <3>3. task[r] # "answered"
        BY <3>1, <3>2 DEF RequestInv, AnsweredOver
      <3>. QED BY <2>1, <3>2, <3>3 DEF Inside, BeforeSend, ValuesOK, Calls
    <2>. QED BY <2>2, <2>3
  <1>. QED BY <1>1, RequestsInvariant, LockCorrect, PTL
=============================================================================
