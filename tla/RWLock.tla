-------------------------------- MODULE RWLock --------------------------------
(***************************************************************************)
(* RWLock of aio_rwlock.py.  Its methods run between two awaits, so each   *)
(* attempt to take the lock is one step: it succeeds, or the task sleeps   *)
(* on the condition until notify_all.                                      *)
(***************************************************************************)
EXTENDS Integers

VARIABLES
    readers,        \* _readers
    writerActive,   \* _writer_active
    waitingWriters, \* _waiting_writers
    asleep          \* tasks in _cond.wait()

lockVars == <<readers, writerActive, waitingWriters, asleep>>

LockInit ==
    /\ readers = 0
    /\ writerActive = FALSE
    /\ waitingWriters = 0
    /\ asleep = {}

\* faulty variant: a reader that comes while a writer holds the lock goes in
ReaderMayEnter_Anyway == waitingWriters = 0
ReaderMayEnter == ~ writerActive /\ waitingWriters = 0
\* faulty variant: a writer does not wait for the readers inside
WriterMayEnter_Anyway == ~ writerActive
WriterMayEnter == ~ writerActive /\ readers = 0

\* faulty variant: the first reader out notifies nobody
Woken_NotByReaders(last) == asleep
Woken(last) == IF last THEN {} ELSE asleep

\* acquire_reader
EnterReader ==
    /\ ReaderMayEnter
    /\ readers' = readers + 1
    /\ UNCHANGED <<writerActive, waitingWriters, asleep>>

\* faulty variant: the writer that did not wait is no longer waiting either
EnterWriter_NeverQueued(first) ==
    /\ WriterMayEnter
    /\ writerActive' = TRUE
    /\ waitingWriters' = waitingWriters - 1
    /\ UNCHANGED <<readers, asleep>>
\* acquire_writer; first is whether the task has not slept yet
EnterWriter(first) ==
    /\ WriterMayEnter
    /\ writerActive' = TRUE
    /\ waitingWriters' = IF first THEN waitingWriters ELSE waitingWriters - 1
    /\ UNCHANGED <<readers, asleep>>

\* the wait of either; a writer counts as waiting from its first attempt on
Sleep(task) ==
    /\ asleep' = asleep \cup {task}
    /\ UNCHANGED <<readers, writerActive, waitingWriters>>
QueueWriter(task) ==
    /\ asleep' = asleep \cup {task}
    /\ waitingWriters' = waitingWriters + 1
    /\ UNCHANGED <<readers, writerActive>>

\* release_reader
LeaveReader ==
    /\ readers' = readers - 1
    /\ asleep' = Woken(readers = 1)
    /\ UNCHANGED <<writerActive, waitingWriters>>

\* release_writer
LeaveWriter ==
    /\ writerActive' = FALSE
    /\ asleep' = {}
    /\ UNCHANGED <<readers, waitingWriters>>
=============================================================================
