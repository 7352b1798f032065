--------------------------- MODULE TokenizerManager ---------------------------
(***************************************************************************)
(* The asyncio tasks of TokenizerManager: the calls of generate_request,   *)
(* aborts, pause_generation, update_weights_from_disk and handle_loop; and *)
(* what the scheduler does with what they send.                            *)
(*                                                                         *)
(* A step of a task is what it does between two awaits.  The scheduler     *)
(* receives in order; its answers come back on two ways that do not wait   *)
(* for each other: outputs through the detokenizer, replies to aborts and  *)
(* updates directly.  Which requests the scheduler runs when is modelled   *)
(* by Scheduler; here it is arbitrary.  Not modelled: batches of requests  *)
(* in one call, data parallelism, LoRA, sessions, and aborts that match    *)
(* several request ids by a common prefix.                                 *)
(***************************************************************************)
EXTENDS RWLock, SequencesExt, FiniteSets

CONSTANTS
    Reqs,
    Streams,     \* requests with stream=True
    Leavers,     \* requests whose client may disconnect
    Aborted,     \* requests /abort_request may be called for, once
    Updates,     \* calls of update_weights_from_disk
    Aborting,    \* those with abort_all_requests
    MaxPauses,   \* bound on calls of pause_generation
    MaxOutputs,  \* bound on outputs that are not the last of their request
    MaxRetracts  \* bound on retractions

ASSUME TokenizerAssumption ==
    /\ IsFiniteSet(Reqs) /\ IsFiniteSet(Updates) /\ Reqs \cap Updates = {}
    /\ Aborting \subseteq Updates
    /\ Streams \cup Leavers \cup Aborted \subseteq Reqs
    /\ {MaxPauses, MaxOutputs, MaxRetracts} \subseteq Nat

VARIABLES
    task,      \* where each generate_request stands
    update,    \* where each update_weights_from_disk stands
    paused,    \* is_pause
    rids,      \* keys of rid_to_state
    state,     \* ReqState: finished and event
    future,    \* model_update_result
    toAbort,   \* abort calls still to come, and those of create_abort_task
    toSched,   \* send_to_scheduler
    sched,     \* where the scheduler has each request, and its to_abort
    outputs,   \* outputs under way through the detokenizer
    replies,   \* replies under way from the scheduler
    alive,     \* no exception has ended the server
    pauses,    \* calls of pause_generation so far
    produced,  \* outputs so far that were not the last of their request
    retracts   \* retractions so far

loopVars == <<rids, state, future, outputs, replies>>
schedVars == <<sched, produced, retracts>>
vars == <<lockVars, task, update, paused, loopVars, toAbort, toSched, schedVars, alive,
          pauses>>

NewState == [finished |-> FALSE, event |-> FALSE]
NotSent == [at |-> "none", abort |-> FALSE]

Init ==
    /\ LockInit
    /\ task = [r \in Reqs |-> "new"]
    /\ update = [u \in Updates |-> "new"]
    /\ paused = FALSE
    /\ rids = {}
    /\ state = [r \in Reqs |-> NewState]
    /\ future = "none"
    /\ toAbort = Aborted
    /\ toSched = <<>> /\ outputs = <<>> /\ replies = <<>>
    /\ sched = [r \in Reqs |-> NotSent]
    /\ alive = TRUE
    /\ pauses = 0 /\ produced = 0 /\ retracts = 0

Message(kind, of) == [kind |-> kind, of |-> of]
AbortAll == Message("abort_all", "all")
Pending(queue, kind, r) == Message(kind, r) \in ToSet(queue)

-----------------------------------------------------------------------------
(* generate_request.                                                        *)

\* is_pause_cond
Generate(r) ==
    /\ task[r] = "new"
    /\ task' = [task EXCEPT ![r] = IF paused THEN "paused" ELSE "lock"]
    /\ UNCHANGED <<lockVars, update, paused, loopVars, toAbort, toSched, schedVars, alive,
                   pauses>>

Unpause(r) ==
    /\ task[r] = "paused"
    /\ ~ paused
    /\ task' = [task EXCEPT ![r] = "lock"]
    /\ UNCHANGED <<lockVars, update, paused, loopVars, toAbort, toSched, schedVars, alive,
                   pauses>>

\* model_update_lock.reader_lock
TakeReaderLock(r) ==
    /\ task[r] = "lock"
    /\ r \notin asleep
    /\ \/ /\ EnterReader
          /\ task' = [task EXCEPT ![r] = "tokenize"]
       \/ /\ ~ ReaderMayEnter
          /\ Sleep(r)
          /\ UNCHANGED task
    /\ UNCHANGED <<update, paused, loopVars, toAbort, toSched, schedVars, alive, pauses>>

\* _tokenize_one_request, and _send_one_request unless it raises
SendOne(r) ==
    /\ task[r] = "tokenize"
    /\ \/ /\ task' = [task EXCEPT ![r] = "wait"]
          /\ toSched' = Append(toSched, Message("generate", r))
          /\ rids' = rids \cup {r}
          /\ UNCHANGED lockVars
       \/ /\ task' = [task EXCEPT ![r] = "answered"]
          /\ LeaveReader
          /\ UNCHANGED <<toSched, rids>>
    /\ UNCHANGED <<update, paused, state, future, outputs, replies, toAbort, schedVars,
                   alive, pauses>>

\* _wait_one_response: the last output ends the call
Answer(r) ==
    /\ task[r] = "wait"
    /\ state[r].event /\ state[r].finished
    /\ task' = [task EXCEPT ![r] = "answered"]
    /\ LeaveReader
    /\ UNCHANGED <<update, paused, loopVars, toAbort, toSched, schedVars, alive, pauses>>

\* and another one does not
NextOutput(r) ==
    /\ task[r] = "wait"
    /\ state[r].event /\ ~ state[r].finished
    /\ state' = [state EXCEPT ![r].event = FALSE]
    /\ UNCHANGED <<lockVars, task, update, paused, rids, future, outputs, replies, toAbort,
                   toSched, schedVars, alive, pauses>>

\* abort_request
SendAbort(r) ==
    toSched' = IF r \in rids THEN Append(toSched, Message("abort", r)) ELSE toSched

\* The client disconnects.  A stream ends at once and create_abort_task
\* aborts the request later; another call notices at its next poll, aborts
\* and raises.
Disconnect(r) ==
    /\ r \in Leavers
    /\ task[r] = "wait"
    /\ task' = [task EXCEPT ![r] = "gone"]
    /\ LeaveReader
    /\ IF r \in Streams
       THEN toAbort' = toAbort \cup {r} /\ UNCHANGED toSched
       ELSE SendAbort(r) /\ UNCHANGED toAbort
    /\ UNCHANGED <<update, paused, loopVars, schedVars, alive, pauses>>

\* /abort_request, or create_abort_task two seconds later
AbortOne(r) ==
    /\ r \in toAbort
    /\ toAbort' = toAbort \ {r}
    /\ SendAbort(r)
    /\ UNCHANGED <<lockVars, task, update, paused, loopVars, schedVars, alive, pauses>>

PauseGeneration ==
    /\ pauses < MaxPauses
    /\ pauses' = pauses + 1
    /\ paused' = TRUE
    /\ toSched' = Append(toSched, AbortAll)
    /\ UNCHANGED <<lockVars, task, update, loopVars, toAbort, schedVars, alive>>

ContinueGeneration ==
    /\ paused
    /\ paused' = FALSE
    /\ UNCHANGED <<lockVars, task, update, loopVars, toAbort, toSched, schedVars, alive,
                   pauses>>

-----------------------------------------------------------------------------
(* update_weights_from_disk.                                                *)

\* The call aborts every request first if it is told to; its first attempt
\* at writer_lock then sends the update, or sleeps.
StartUpdate(u) ==
    LET sent == IF u \in Aborting THEN Append(toSched, AbortAll) ELSE toSched IN
    /\ update[u] = "new"
    /\ \/ /\ EnterWriter(TRUE)
          /\ update' = [update EXCEPT ![u] = "wait"]
          /\ toSched' = Append(sent, Message("update", u))
          /\ future' = "pending"
       \/ /\ ~ WriterMayEnter
          /\ QueueWriter(u)
          /\ update' = [update EXCEPT ![u] = "lock"]
          /\ toSched' = sent
          /\ UNCHANGED future
    /\ UNCHANGED <<task, paused, rids, state, outputs, replies, toAbort, schedVars,
                   alive, pauses>>

\* the writer has been woken
RetryWriter(u) ==
    /\ update[u] = "lock"
    /\ u \notin asleep
    /\ \/ /\ EnterWriter(FALSE)
          /\ update' = [update EXCEPT ![u] = "wait"]
          /\ toSched' = Append(toSched, Message("update", u))
          /\ future' = "pending"
       \/ /\ ~ WriterMayEnter
          /\ Sleep(u)
          /\ UNCHANGED <<update, toSched, future>>
    /\ UNCHANGED <<task, paused, rids, state, outputs, replies, toAbort, schedVars, alive,
                   pauses>>

EndUpdate(u) ==
    /\ update[u] = "wait"
    /\ future = "set"
    /\ update' = [update EXCEPT ![u] = "end"]
    /\ LeaveWriter
    /\ UNCHANGED <<task, paused, loopVars, toAbort, toSched, schedVars, alive, pauses>>

-----------------------------------------------------------------------------
(* handle_loop.                                                             *)

\* _handle_batch_output.  It sets finished to what this output says, even
\* when an abort has set it before.
HandleOutput ==
    /\ outputs # <<>>
    /\ outputs' = Tail(outputs)
    /\ LET r == Head(outputs).of
           last == Head(outputs).last
       IN IF r \in rids
          THEN /\ state' = [state EXCEPT ![r] = [finished |-> last, event |-> TRUE]]
               /\ rids' = IF last THEN rids \ {r} ELSE rids
          ELSE UNCHANGED <<state, rids>>
    /\ UNCHANGED <<lockVars, task, update, paused, future, replies, toAbort, toSched,
                   schedVars, alive, pauses>>

Abort(s) == [s EXCEPT !.finished = TRUE, !.event = TRUE]

\* _handle_abort_req leaves the state in rid_to_state, and raises KeyError
\* where there is none
HandleAbort ==
    /\ replies # <<>> /\ Head(replies).kind = "abort"
    /\ replies' = Tail(replies)
    /\ LET r == Head(replies).of IN
        /\ alive' = (r \in rids)
        /\ state' = [state EXCEPT ![r] = IF r \in rids THEN Abort(@) ELSE @]
    /\ UNCHANGED <<lockVars, task, update, paused, rids, future, outputs, toAbort, toSched,
                   schedVars, pauses>>

\* _handle_update_weights_from_disk_req_output
HandleUpdate ==
    /\ replies # <<>> /\ Head(replies).kind = "update"
    /\ replies' = Tail(replies)
    /\ future' = "set"
    /\ UNCHANGED <<lockVars, task, update, paused, rids, state, outputs, toAbort, toSched,
                   schedVars, alive, pauses>>

-----------------------------------------------------------------------------
(* The scheduler, as far as a client can tell.                              *)

Live == {"waiting", "running"}
At(place) == {r \in Reqs : sched[r].at = place}
SchedUnchanged == UNCHANGED <<lockVars, task, update, paused, rids, state, future, toAbort,
                              pauses>>

\* faulty variant: an abort of a request that is done is answered too
Dequeued_Done(matched) == {r \in matched : sched[r].at \in {"waiting", "done"}}
\* abort_request pops what waits and marks what runs
Dequeued(matched) == {r \in matched : sched[r].at = "waiting"}

Removed == [at |-> "removed", abort |-> FALSE]
SchedAbort(matched) ==
    /\ sched' = [r \in Reqs |->
          IF r \in Dequeued(matched) THEN Removed
          ELSE IF r \in matched /\ sched[r].at = "running"
          THEN [sched[r] EXCEPT !.abort = TRUE]
          ELSE sched[r]]
    /\ \E order \in SetToSeqs(Dequeued(matched)) :
          replies' = replies \o [i \in DOMAIN order |-> Message("abort", order[i])]
    /\ UNCHANGED <<outputs, alive>>

\* update_weights_from_disk: when the weights are loaded the cache must be
\* flushed.  flush_cache refuses when it sees a request; one that runs only
\* in the last batch it does not see, and forgets.
Forgotten(s) == IF s.at = "running" THEN [at |-> "lost", abort |-> FALSE] ELSE s
SchedUpdate(u) ==
    /\ UNCHANGED outputs
    /\ \/ /\ At("waiting") = {}
          /\ sched' = [r \in Reqs |-> Forgotten(sched[r])]
          /\ replies' = Append(replies, Message("update", u))
          /\ UNCHANGED alive
       \/ /\ At("waiting") \cup At("running") # {}
          /\ alive' = FALSE
          /\ UNCHANGED <<sched, replies>>
       \/ /\ replies' = Append(replies, Message("update", u))   \* not loaded
          /\ UNCHANGED <<sched, alive>>

\* process_input_requests
SchedReceive ==
    /\ toSched # <<>>
    /\ toSched' = Tail(toSched)
    /\ LET m == Head(toSched) IN
        \/ /\ m.kind = "generate"
           /\ sched' = [sched EXCEPT ![m.of].at = "waiting"]
           /\ UNCHANGED <<outputs, replies, alive>>
        \/ m.kind = "abort" /\ SchedAbort({m.of})
        \/ m.kind = "abort_all" /\ SchedAbort(Reqs)
        \/ m.kind = "update" /\ SchedUpdate(m.of)
    /\ UNCHANGED <<produced, retracts>>
    /\ SchedUnchanged

\* the scheduler's choice of what to run
SchedAdmit(r) ==
    /\ sched[r].at = "waiting"
    /\ sched' = [sched EXCEPT ![r].at = "running"]
    /\ UNCHANGED <<toSched, outputs, replies, alive, produced, retracts>>
    /\ SchedUnchanged

SchedRetract(r) ==
    /\ sched[r].at = "running"
    /\ retracts < MaxRetracts
    /\ retracts' = retracts + 1
    /\ sched' = [sched EXCEPT ![r].at = "waiting"]
    /\ UNCHANGED <<toSched, outputs, replies, alive, produced>>
    /\ SchedUnchanged

\* an output of a running request; one that is to abort ends with it
Ended == [at |-> "done", abort |-> FALSE]
SchedOutput(r, last) ==
    /\ sched[r].at = "running"
    /\ ~ last => produced < MaxOutputs /\ ~ sched[r].abort
    /\ outputs' = Append(outputs, [of |-> r, last |-> last])
    /\ sched' = [sched EXCEPT ![r] = IF last THEN Ended ELSE @]
    /\ produced' = IF last THEN produced ELSE produced + 1
    /\ UNCHANGED <<toSched, replies, alive, retracts>>
    /\ SchedUnchanged

-----------------------------------------------------------------------------
HandleLoop == HandleOutput \/ HandleAbort \/ HandleUpdate
EventLoop ==
    \/ \E r \in Reqs :
          \/ Unpause(r) \/ TakeReaderLock(r) \/ SendOne(r) \/ Answer(r) \/ NextOutput(r)
    \/ \E u \in Updates : RetryWriter(u) \/ EndUpdate(u)
    \/ HandleLoop
Clients ==
    \/ \E r \in Reqs : Generate(r) \/ Disconnect(r) \/ AbortOne(r)
    \/ \E u \in Updates : StartUpdate(u)
    \/ PauseGeneration \/ ContinueGeneration
Scheduler ==
    \/ SchedReceive
    \/ \E r \in Reqs : SchedAdmit(r) \/ SchedRetract(r) \/ SchedOutput(r, FALSE)
                      \/ SchedOutput(r, TRUE)

Next == alive /\ (EventLoop \/ Clients \/ Scheduler)

\* The event loop of the tokenizer manager and the scheduler go on as long as
\* there is something to do; clients do what they like.  No fairness between
\* tasks is needed: each takes a bounded number of steps.
Fairness == WF_vars(alive /\ EventLoop) /\ WF_vars(alive /\ Scheduler)

Spec == Init /\ [][Next]_vars
FairSpec == Spec /\ Fairness

-----------------------------------------------------------------------------
Calls == {"new", "paused", "lock", "tokenize", "wait", "answered", "gone"}
Messages ==
    [kind : {"generate", "abort"}, of : Reqs] \cup [kind : {"update"}, of : Updates]
    \cup {AbortAll}

ValuesOK ==
    /\ writerActive \in BOOLEAN
    /\ asleep \subseteq Reqs \cup Updates
    /\ task \in [Reqs -> Calls]
    /\ update \in [Updates -> {"new", "lock", "wait", "end"}]
    /\ paused \in BOOLEAN /\ alive \in BOOLEAN
    /\ rids \subseteq Reqs /\ toAbort \subseteq Reqs
    /\ state \in [Reqs -> [finished : BOOLEAN, event : BOOLEAN]]
    /\ future \in {"none", "pending", "set"}
    /\ toSched \in Seq(Messages)
    /\ sched \in [Reqs -> [at : {"none", "waiting", "running", "done", "removed", "lost"},
                           abort : BOOLEAN]]
    /\ outputs \in Seq([of : Reqs, last : BOOLEAN])
    /\ replies \in Seq(Messages)
    /\ {pauses, produced, retracts} \subseteq Nat

\* TypeOK: every variable of the tokenizer manager, its lock and the
\* scheduler's side holds a value of its kind; the counters of the lock are
\* never negative, however its methods are interleaved.
TypeOK == readers \in Nat /\ waitingWriters \in Nat /\ ValuesOK

Inside == {r \in Reqs : task[r] \in {"tokenize", "wait"}}
Updating == {u \in Updates : update[u] = "wait"}

\* LockExcludes: while update_weights_from_disk holds writer_lock no call of
\* generate_request is between taking and releasing reader_lock, and no other
\* update holds it, whatever order tasks sleep and wake in.
LockExcludes ==
    /\ Updating # {} => Inside = {}
    /\ \A u, v \in Updating : u = v

\* UpdateMeetsAbandoned: from the send of a weight update until its reply is
\* handled, the only requests the scheduler has or will receive are those of
\* clients that have left; an answered request is no longer with it.
UpdateMeetsAbandoned ==
    Updating # {} =>
        \A r \in Reqs :
            sched[r].at \in Live \/ Pending(toSched, "generate", r) => task[r] = "gone"

\* AbortFindsState: _handle_abort_req looks up rid_to_state without a check;
\* whatever outputs, aborts and retractions came before, the request of an
\* abort reply under way is still there.
AbortFindsState == \A r \in Reqs : Pending(replies, "abort", r) => r \in rids

\* An output sent before its request was retracted and aborted has come after
\* the abort reply, on the other way, and has taken finished back before the
\* call saw it: the call has lost its end, and with it the update and the
\* calls that wait for it.
Reopened ==
    \E r \in At("removed") :
        task[r] = "wait" /\ ~ Pending(replies, "abort", r) /\ ~ state[r].finished

\* EverythingEnds: calls come a bounded number of times here, and at some
\* moment every call that got past the pause has been answered or left, and
\* every weight update that waited for the calls inside has ended, unless the
\* server dies or a late output reopens a call: no wake-up by the lock or an
\* event is lost, and no two tasks wait for each other.
EverythingEnds ==
    <>[] \/ ~ alive \/ Reopened
         \/ /\ \A r \in Reqs : task[r] \in {"new", "paused", "answered", "gone"}
            /\ \A u \in Updates : update[u] \in {"new", "end"}
=============================================================================
