------------------------------ MODULE Scheduler ------------------------------
(***************************************************************************)
(* CScheduler (src/src/scheduler.cpp): a queue of tasks ordered by time,   *)
(* serviced by the threads that run serviceQueue.  The node runs one such  *)
(* thread, the tests ten.                                                  *)
(*                                                                         *)
(* newTaskMutex is held except while waiting and while a task runs, so     *)
(* what a thread does between two of these is one step.  The clock is a    *)
(* number that grows up to MaxTime.                                        *)
(***************************************************************************)
EXTENDS Integers, Sequences, FiniteSets

CONSTANTS SchedulerThreads, Tasks, MaxTime

(* init.cpp starts a thread before anything is scheduled.                  *)
ASSUME SchedulerAssumption == IsFiniteSet(SchedulerThreads) /\ SchedulerThreads # {} /\ MaxTime \in Nat

VARIABLES
    now,
    taskQueue,      \* [task, time], in the order of the multimap
    started,        \* the tasks that were started
    stopRequested,
    stopWhenEmpty,
    nThreadsServicingQueue,
    thread          \* per thread: pc, and the time it waits for

schedulerVars == <<now, taskQueue, started, stopRequested, stopWhenEmpty, nThreadsServicingQueue, thread>>

Times == 0..MaxTime

SchedulerInit ==
    /\ now = 0
    /\ taskQueue = <<>>
    /\ started = {}
    /\ stopRequested = FALSE
    /\ stopWhenEmpty = FALSE
    /\ nThreadsServicingQueue = 0
    /\ thread = [th \in SchedulerThreads |-> [pc |-> "new", until |-> 0]]

ThreadAt(th, pc) == thread[th].pc = pc

ThreadGoto(th, pc) == thread' = [thread EXCEPT ![th].pc = pc]

Tick ==
    /\ now < MaxTime
    /\ now' = now + 1
    /\ UNCHANGED <<taskQueue, started, stopRequested, stopWhenEmpty, nThreadsServicingQueue, thread>>

------------------------------------------------------------------------------
(* newTaskScheduled.                                                       *)

Asleep == {th \in SchedulerThreads : ThreadAt(th, "waiting") \/ ThreadAt(th, "timed")}

Readied(woken) == [th \in SchedulerThreads |-> IF th \in woken THEN [thread[th] EXCEPT !.pc = "ready"] ELSE thread[th]]

(* Mutant: nobody is notified of a new task.                               *)
NobodyAsleep == {{}}

OneAsleep == IF Asleep = {} THEN {{}} ELSE {{th} : th \in Asleep}

SpuriousReady(th) ==
    /\ th \in Asleep
    /\ thread' = Readied({th})
    /\ UNCHANGED <<now, taskQueue, started, stopRequested, stopWhenEmpty, nThreadsServicingQueue>>

(* insert into the multimap: behind the tasks of the same time.            *)
Inserted(queue, new) ==
    LET NotLater(old) == old.time <= new.time
        Later(old) == old.time > new.time
    IN  SelectSeq(queue, NotLater) \o <<new>> \o SelectSeq(queue, Later)

Queued == {taskQueue[i].task : i \in 1..Len(taskQueue)}

(* schedule, called by a task that runs or by anybody else before stop.    *)
(* The notification follows the release of the mutex: a thread that gets   *)
(* to sleep in between has seen the task, and waking it is SpuriousReady.  *)
(* A task of scheduleEvery that is queued again counts as another task.    *)
Schedule(t, time) ==
    /\ t \notin Queued \cup started
    /\ (\E th \in SchedulerThreads : ThreadAt(th, "running")) \/ ~(stopRequested \/ stopWhenEmpty)
    /\ taskQueue' = Inserted(taskQueue, [task |-> t, time |-> time])
    /\ \E woken \in OneAsleep : thread' = Readied(woken)
    /\ UNCHANGED <<now, started, stopRequested, stopWhenEmpty, nThreadsServicingQueue>>

(* Mutant: the flag is set and nobody is told.                             *)
NoneReadied == thread

AllReadied == Readied(Asleep)

Stop(drain) ==
    /\ ~stopRequested /\ ~stopWhenEmpty
    /\ IF drain THEN stopWhenEmpty' = TRUE /\ UNCHANGED stopRequested
       ELSE stopRequested' = TRUE /\ UNCHANGED stopWhenEmpty
    /\ thread' = AllReadied
    /\ UNCHANGED <<now, taskQueue, started, nThreadsServicingQueue>>

------------------------------------------------------------------------------
(* serviceQueue.                                                           *)

ShouldStop == stopRequested \/ (stopWhenEmpty /\ taskQueue = <<>>)

Begin(th) ==
    /\ ThreadAt(th, "new")
    /\ nThreadsServicingQueue' = nThreadsServicingQueue + 1
    /\ ThreadGoto(th, "ready")
    /\ UNCHANGED <<now, taskQueue, started, stopRequested, stopWhenEmpty>>

(* The conditions of the loops up to the next wait, or the end.            *)
ServiceLoop(th) ==
    IF ShouldStop
    THEN ThreadGoto(th, "exited") /\ nThreadsServicingQueue' = nThreadsServicingQueue - 1
    ELSE /\ IF taskQueue = <<>> THEN ThreadGoto(th, "waiting")
            ELSE thread' = [thread EXCEPT ![th] = [pc |-> "timed", until |-> Head(taskQueue).time]]
         /\ UNCHANGED nThreadsServicingQueue

Continue(th) ==
    /\ ThreadAt(th, "ready")
    /\ ServiceLoop(th)
    /\ UNCHANGED <<now, taskQueue, started, stopRequested, stopWhenEmpty>>

(* wait_until times out; the thread still has to get the mutex again.      *)
TimeOut(th) ==
    /\ ThreadAt(th, "timed")
    /\ now >= thread[th].until
    /\ ThreadGoto(th, "timedout")
    /\ UNCHANGED <<now, taskQueue, started, stopRequested, stopWhenEmpty, nThreadsServicingQueue>>

TakeTask(th) ==
    /\ ThreadAt(th, "timedout")
    /\ IF ShouldStop \/ taskQueue = <<>>
       THEN ServiceLoop(th) /\ UNCHANGED <<taskQueue, started>>
       ELSE /\ started' = started \cup {Head(taskQueue).task}
            /\ taskQueue' = Tail(taskQueue)
            /\ ThreadGoto(th, "running")
            /\ UNCHANGED nThreadsServicingQueue
    /\ UNCHANGED <<now, stopRequested, stopWhenEmpty>>

TaskReturns(th) ==
    /\ ThreadAt(th, "running")
    /\ ThreadGoto(th, "ready")
    /\ UNCHANGED <<now, taskQueue, started, stopRequested, stopWhenEmpty, nThreadsServicingQueue>>

(* Mutant: a thread that is thrown out is still counted.                   *)
ServicingAfterThrowSame == nThreadsServicingQueue

ServicingAfterThrow == nThreadsServicingQueue - 1

(* boost::thread_interrupted out of a wait, or an exception out of a task. *)
Throw(th) ==
    /\ th \in Asleep \/ ThreadAt(th, "running")
    /\ ThreadGoto(th, "interrupted")
    /\ nThreadsServicingQueue' = ServicingAfterThrow
    /\ UNCHANGED <<now, taskQueue, started, stopRequested, stopWhenEmpty>>

ServiceQueue(th) == Begin(th) \/ Continue(th) \/ TimeOut(th) \/ TakeTask(th) \/ TaskReturns(th)

Gone(th) == ThreadAt(th, "exited") \/ ThreadAt(th, "interrupted")

SchedulerNext ==
    \/ Tick
    \/ \E t \in Tasks, time \in Times : Schedule(t, time)
    \/ \E drain \in BOOLEAN : Stop(drain)
    \/ \E th \in SchedulerThreads : ServiceQueue(th) \/ SpuriousReady(th) \/ Throw(th)
    \/ (\A th \in SchedulerThreads : Gone(th)) /\ UNCHANGED schedulerVars

(* Time passes, tasks return, the threads run, and a wait whose time has   *)
(* come times out, however often it is interrupted by spurious wake-ups.   *)
SchedulerFairness ==
    /\ WF_schedulerVars(Tick)
    /\ \A th \in SchedulerThreads : SF_schedulerVars(ServiceQueue(th)) /\ SF_schedulerVars(TimeOut(th))

SchedulerSpec == SchedulerInit /\ [][SchedulerNext]_schedulerVars /\ SchedulerFairness

------------------------------------------------------------------------------
(* Properties.                                                             *)

(* Once the threads are gone, whether they were stopped, drained or        *)
(* interrupted, nobody services the queue (the assertion of ~CScheduler),  *)
(* and if stop(true) made them leave no work was left to be done           *)
(* (scheduler.h:65), tasks scheduled by the last tasks included.           *)
SettledInTheEnd ==
    (\A th \in SchedulerThreads : Gone(th)) =>
        /\ nThreadsServicingQueue = 0
        /\ stopWhenEmpty /\ (\A th \in SchedulerThreads : ThreadAt(th, "exited")) => taskQueue = <<>>

(* A scheduled task is started in the end, unless the scheduler is stopped *)
(* or a thread, maybe the one that was notified of it, is interrupted.     *)
TasksStart ==
    \A t \in Tasks : t \in Queued ~>
        t \in started \/ stopRequested \/ \E th \in SchedulerThreads : ThreadAt(th, "interrupted")

(* After stop every thread leaves serviceQueue.                            *)
ThreadsLeave == (stopRequested \/ stopWhenEmpty) ~> \A th \in SchedulerThreads : Gone(th)

=============================================================================
