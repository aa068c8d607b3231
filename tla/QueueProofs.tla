----------------------------- MODULE QueueProofs -----------------------------
(***************************************************************************)
(* The safety properties of the two queues that the node's own threads     *)
(* service: CScheduler and AsyncRPCQueue, each for any number of threads   *)
(* and of entries.  They share no state.                                   *)
(***************************************************************************)
EXTENDS Scheduler, AsyncRPCQueue, SequenceTheorems, FiniteSetTheorems, TLAPS

------------------------------------------------------------------------------
(* CScheduler. *)

SchedulerLabels == {"new", "ready", "waiting", "timed", "timedout", "running", "exited", "interrupted"}

SchedulerTypeOK ==
    /\ nThreadsServicingQueue \in Int
    /\ thread = [th \in SchedulerThreads |-> thread[th]]
    /\ \A th \in SchedulerThreads : "pc" \in DOMAIN thread[th] /\ thread[th].pc \in SchedulerLabels

(* The threads inside serviceQueue.                                           *)
Serving == {th \in SchedulerThreads : thread[th].pc \notin {"new", "exited", "interrupted"}}

(* A thread leaves serviceQueue because it was told to stop, and the last one *)
(* that leaves after stop(true) leaves an empty queue.                        *)
SchedulerInv ==
    /\ SchedulerTypeOK
    /\ nThreadsServicingQueue = Cardinality(Serving)
    /\ ~ (stopRequested /\ stopWhenEmpty)
    /\ \A th \in SchedulerThreads : ThreadAt(th, "exited") => stopRequested \/ stopWhenEmpty
    /\ stopWhenEmpty /\ (\A th \in SchedulerThreads : ThreadAt(th, "exited")) => taskQueue = <<>>

------------------------------------------------------------------------------
(* Steps that move threads.                                                   *)

(* ThreadGoto moves one thread.                                               *)
LEMMA ThreadMoves ==
    ASSUME SchedulerTypeOK, NEW th \in SchedulerThreads, NEW l \in SchedulerLabels, ThreadGoto(th, l)
    PROVE  /\ SchedulerTypeOK' <=> nThreadsServicingQueue' \in Int
           /\ thread'[th].pc = l
           /\ \A u \in SchedulerThreads \ {th} : thread'[u].pc = thread[u].pc
<1>1. /\ thread' = [thread EXCEPT ![th].pc = l]
      /\ thread = [u \in SchedulerThreads |-> thread[u]]
      /\ \A u \in SchedulerThreads : "pc" \in DOMAIN thread[u] /\ thread[u].pc \in SchedulerLabels
  BY Zenon DEF ThreadGoto, SchedulerTypeOK
<1>2. thread'[th] = [thread[th] EXCEPT !.pc = l] /\ \A u \in SchedulerThreads \ {th} : thread'[u] = thread[u]
  BY <1>1, Zenon
<1>3. thread'[th].pc = l /\ "pc" \in DOMAIN thread'[th]
  BY <1>1, <1>2, Zenon
<1>4. thread' = [u \in SchedulerThreads |-> thread'[u]]
  BY <1>1, Zenon
<1> QED BY <1>1, <1>2, <1>3, <1>4, Zenon DEF SchedulerTypeOK

(* A wake-up makes sleepers ready and moves nobody else.                      *)
LEMMA ReadiedMoves ==
    ASSUME SchedulerTypeOK, NEW W \in SUBSET Asleep, thread' = Readied(W)
    PROVE  /\ SchedulerTypeOK' <=> nThreadsServicingQueue' \in Int
           /\ \A u \in SchedulerThreads : \/ thread'[u].pc = thread[u].pc
                                          \/ u \in Asleep /\ thread'[u].pc = "ready"
<1>1. /\ thread' = [u \in SchedulerThreads |-> IF u \in W THEN [thread[u] EXCEPT !.pc = "ready"] ELSE thread[u]]
      /\ \A u \in SchedulerThreads : "pc" \in DOMAIN thread[u] /\ thread[u].pc \in SchedulerLabels
  BY Zenon DEF Readied, SchedulerTypeOK
<1>2. ASSUME NEW u \in SchedulerThreads
      PROVE  /\ "pc" \in DOMAIN thread'[u] /\ thread'[u].pc \in SchedulerLabels
             /\ thread'[u].pc = thread[u].pc \/ (u \in Asleep /\ thread'[u].pc = "ready")
  <2>1. CASE u \in W
    <3>1. thread'[u] = [thread[u] EXCEPT !.pc = "ready"] /\ "pc" \in DOMAIN thread[u]
      BY <1>1, <2>1, Zenon
    <3>2. "pc" \in DOMAIN thread'[u] /\ thread'[u].pc = "ready"
      BY <3>1, Zenon
    <3> QED BY <2>1, <3>2, Zenon DEF SchedulerLabels
  <2>2. CASE u \notin W
    <3>1. thread'[u] = thread[u]
      BY <1>1, <2>2, Zenon
    <3> QED BY <1>1, <3>1, Zenon
  <2> QED BY <2>1, <2>2, Zenon
<1>3. thread' = [u \in SchedulerThreads |-> thread'[u]]
  BY <1>1, Zenon
<1>4. \A u \in SchedulerThreads : "pc" \in DOMAIN thread'[u] /\ thread'[u].pc \in SchedulerLabels
  BY <1>2, Zenon
<1>5. SchedulerTypeOK' <=> nThreadsServicingQueue' \in Int
  BY <1>3, <1>4, Zenon DEF SchedulerTypeOK
<1> QED BY <1>2, <1>5, Zenon

(* A step after which the same threads are inside and the same have exited    *)
(* keeps the invariant, if it does not leave a task behind for nobody.        *)
LEMMA SameThreads ==
    ASSUME SchedulerInv, SchedulerTypeOK', nThreadsServicingQueue' = nThreadsServicingQueue,
           \A u \in SchedulerThreads : /\ u \in Serving' <=> u \in Serving
                                       /\ thread'[u].pc = "exited" <=> thread[u].pc = "exited",
           stopRequested => stopRequested', stopWhenEmpty => stopWhenEmpty',
           ~ (stopRequested' /\ stopWhenEmpty'),
           stopWhenEmpty' /\ (\A th \in SchedulerThreads : ThreadAt(th, "exited")) => taskQueue' = <<>>
    PROVE  SchedulerInv'
<1>1. Serving' = Serving
  <2>1. Serving \subseteq SchedulerThreads /\ Serving' \subseteq SchedulerThreads
    BY Zenon DEF Serving
  <2>2. \A u : u \in Serving' <=> u \in Serving
    BY <2>1, Zenon
  <2> QED BY Zenon, <2>2
<1> QED BY <1>1, Zenon DEF SchedulerInv, ThreadAt

(* A thread that leaves is no longer counted.                                 *)
LEMMA ServingLess ==
    ASSUME SchedulerInv, NEW th \in SchedulerThreads, th \in Serving, thread'[th].pc \in {"exited", "interrupted"},
           \A u \in SchedulerThreads \ {th} : thread'[u].pc = thread[u].pc
    PROVE  Cardinality(Serving') = nThreadsServicingQueue - 1
<1>1. Serving' = Serving \ {th}
  BY Zenon DEF Serving
<1>2. IsFiniteSet(Serving)
  <2>1. Serving \subseteq SchedulerThreads
    BY Zenon DEF Serving
  <2> QED BY <2>1, SchedulerAssumption, FS_Subset
<1> QED BY Zenon, <1>1, <1>2, FS_RemoveElement DEF SchedulerInv

(* The loops of serviceQueue: a thread waits, or leaves because it should.    *)
LEMMA LoopStep ==
    ASSUME SchedulerInv, NEW th \in SchedulerThreads, thread[th].pc \in {"ready", "timedout"}, ServiceLoop(th),
           UNCHANGED <<taskQueue, stopRequested, stopWhenEmpty>>
    PROVE  SchedulerInv'
<1>0. taskQueue' = taskQueue /\ stopRequested' = stopRequested /\ stopWhenEmpty' = stopWhenEmpty /\ SchedulerTypeOK
  BY Zenon DEF SchedulerInv
<1>s. th \in Serving /\ thread[th].pc # "exited"
  BY DEF Serving
<1>1. CASE ShouldStop
  <2>1. ThreadGoto(th, "exited") /\ nThreadsServicingQueue' = nThreadsServicingQueue - 1
    BY <1>1, Zenon DEF ServiceLoop
  <2>2. nThreadsServicingQueue' \in Int
    BY <1>0, <2>1 DEF SchedulerTypeOK
  <2>3. /\ SchedulerTypeOK' /\ thread'[th].pc = "exited"
        /\ \A u \in SchedulerThreads \ {th} : thread'[u].pc = thread[u].pc
    <3>1. "exited" \in SchedulerLabels
      BY DEF SchedulerLabels
    <3> QED BY <1>0, <2>1, <2>2, <3>1, ThreadMoves, Zenon
  <2>4. nThreadsServicingQueue' = Cardinality(Serving')
    BY <1>s, <2>1, <2>3, ServingLess, Zenon
  <2>5. stopRequested \/ (stopWhenEmpty /\ taskQueue = <<>>)
    BY <1>1, Zenon DEF ShouldStop
  <2>6. \A u \in SchedulerThreads : thread'[u].pc = "exited" => stopRequested \/ stopWhenEmpty
    BY <2>5, Zenon
  <2>7. ~ (stopRequested /\ stopWhenEmpty)
    BY Zenon DEF SchedulerInv
  <2>8. stopWhenEmpty => taskQueue = <<>>
    BY <2>5, <2>7, Zenon
  <2>9. \A u \in SchedulerThreads : ThreadAt(u, "exited")' => stopRequested' \/ stopWhenEmpty'
    BY <1>0, <2>6 DEF ThreadAt
  <2>10. ~ (stopRequested' /\ stopWhenEmpty') /\ (stopWhenEmpty' => taskQueue' = <<>>)
    BY <1>0, <2>7, <2>8
  <2> QED BY <2>3, <2>4, <2>9, <2>10, Zenon DEF SchedulerInv
<1>2. CASE ~ShouldStop
  <2>1. /\ SchedulerTypeOK' /\ thread'[th].pc \in {"waiting", "timed"}
        /\ \A u \in SchedulerThreads \ {th} : thread'[u].pc = thread[u].pc
    <3>0. nThreadsServicingQueue' = nThreadsServicingQueue /\ nThreadsServicingQueue \in Int
      BY <1>0, <1>2, Zenon DEF ServiceLoop, SchedulerTypeOK
    <3>1. CASE taskQueue = <<>>
      <4>1. ThreadGoto(th, "waiting") /\ "waiting" \in SchedulerLabels
        BY <1>2, <3>1, Zenon DEF ServiceLoop, SchedulerLabels
      <4> QED BY <1>0, <3>0, <4>1, ThreadMoves, Zenon
    <3>2. CASE taskQueue # <<>>
      <4> DEFINE record == [pc |-> "timed", until |-> Head(taskQueue).time]
      <4>1. thread' = [thread EXCEPT ![th] = record]
        BY <1>2, <3>2, Zenon DEF ServiceLoop
      <4>2. record.pc = "timed" /\ "pc" \in DOMAIN record /\ "timed" \in SchedulerLabels
        BY DEF SchedulerLabels
      <4> HIDE DEF record
      <4>3. thread = [u \in SchedulerThreads |-> thread[u]]
        BY <1>0, Zenon DEF SchedulerTypeOK
      <4>4. thread'[th] = record /\ \A u \in SchedulerThreads \ {th} : thread'[u] = thread[u]
        BY <4>1, <4>3, Zenon
      <4>5. thread' = [u \in SchedulerThreads |-> thread'[u]]
        BY <4>1, <4>3, Zenon
      <4> QED BY <1>0, <3>0, <4>2, <4>4, <4>5, Zenon DEF SchedulerTypeOK
    <3> QED BY <3>1, <3>2, Zenon
  <2>2. nThreadsServicingQueue' = nThreadsServicingQueue
    BY <1>2, Zenon DEF ServiceLoop
  <2>3. \A u \in SchedulerThreads : /\ u \in Serving' <=> u \in Serving
                                    /\ thread'[u].pc = "exited" <=> thread[u].pc = "exited"
    BY <1>s, <2>1, Zenon DEF Serving
  <2>4. ~ (stopRequested /\ stopWhenEmpty) /\ ~ ThreadAt(th, "exited")
    BY <1>s, Zenon DEF SchedulerInv, ThreadAt
  <2>5. /\ (stopRequested => stopRequested') /\ (stopWhenEmpty => stopWhenEmpty')
        /\ ~ (stopRequested' /\ stopWhenEmpty')
    BY <1>0, <2>4
  <2> QED BY <2>1, <2>2, <2>3, <2>4, <2>5, SameThreads, Zenon
<1> QED BY <1>1, <1>2, Zenon

------------------------------------------------------------------------------
(* The invariant.                                                             *)

(* No thread services the queue yet.                                          *)
LEMMA SchedulerInvInit == SchedulerInit => SchedulerInv
<1> SUFFICES ASSUME SchedulerInit PROVE SchedulerInv
  OBVIOUS
<1>1. \A th \in SchedulerThreads : thread[th] = [pc |-> "new", until |-> 0]
  BY Zenon DEF SchedulerInit
<1>2. \A th \in SchedulerThreads : "pc" \in DOMAIN thread[th] /\ thread[th].pc = "new"
  BY <1>1
<1>3. SchedulerTypeOK
  <2>1. thread = [th \in SchedulerThreads |-> thread[th]]
    BY Zenon DEF SchedulerInit
  <2>2. nThreadsServicingQueue \in Int
    BY DEF SchedulerInit
  <2> QED BY <1>2, <2>1, <2>2, Zenon DEF SchedulerTypeOK, SchedulerLabels
<1>4. Serving = {}
  BY <1>2, Zenon DEF Serving
<1>5. nThreadsServicingQueue = Cardinality(Serving)
  BY <1>4, FS_EmptySet DEF SchedulerInit
<1>6. \A th \in SchedulerThreads : ~ThreadAt(th, "exited")
  BY <1>2 DEF ThreadAt
<1>7. ~stopRequested /\ ~stopWhenEmpty
  BY Zenon DEF SchedulerInit
<1> QED BY <1>3, <1>5, <1>6, <1>7, Zenon DEF SchedulerInv

(* schedule: a task comes only while a thread runs or nobody was told to stop. *)
LEMMA ScheduleStep ==
    ASSUME SchedulerInv, NEW t \in Tasks, NEW time \in Times, Schedule(t, time)
    PROVE  SchedulerInv'
<1>1. /\ stopRequested' = stopRequested /\ stopWhenEmpty' = stopWhenEmpty
      /\ nThreadsServicingQueue' = nThreadsServicingQueue /\ nThreadsServicingQueue \in Int /\ SchedulerTypeOK
      /\ ~ (stopRequested /\ stopWhenEmpty)
  BY Zenon DEF Schedule, SchedulerInv, SchedulerTypeOK
<1>2. PICK W \in OneAsleep : thread' = Readied(W)
  BY Zenon DEF Schedule
<1>3. W \in SUBSET Asleep
  BY DEF OneAsleep
<1>4. /\ SchedulerTypeOK'
      /\ \A u \in SchedulerThreads : \/ thread'[u].pc = thread[u].pc
                                     \/ u \in Asleep /\ thread'[u].pc = "ready"
  BY <1>1, <1>2, <1>3, ReadiedMoves, Zenon
<1>5. \A u \in SchedulerThreads : /\ u \in Serving' <=> u \in Serving
                                  /\ thread'[u].pc = "exited" <=> thread[u].pc = "exited"
  BY <1>4 DEF Serving, Asleep, ThreadAt
<1>6. (\A th \in SchedulerThreads : ThreadAt(th, "exited")) => ~stopWhenEmpty
  <2>1. SUFFICES ASSUME \A th \in SchedulerThreads : ThreadAt(th, "exited") PROVE ~stopWhenEmpty
    BY Zenon
  <2>2. \A th \in SchedulerThreads : ~ThreadAt(th, "running")
    BY <2>1 DEF ThreadAt
  <2> QED BY <2>2, Zenon DEF Schedule
<1> QED BY <1>1, <1>4, <1>5, <1>6, SameThreads, Zenon

(* stop wakes everybody; a thread that has exited was stopped before.         *)
LEMMA StopStep == ASSUME SchedulerInv, NEW drain \in BOOLEAN, Stop(drain) PROVE SchedulerInv'
<1>1. /\ nThreadsServicingQueue' = nThreadsServicingQueue /\ nThreadsServicingQueue \in Int /\ SchedulerTypeOK
      /\ ~stopRequested /\ ~stopWhenEmpty /\ ~ (stopRequested' /\ stopWhenEmpty')
  BY Zenon DEF Stop, SchedulerInv, SchedulerTypeOK
<1>2. thread' = Readied(Asleep) /\ Asleep \in SUBSET Asleep
  BY Zenon DEF Stop, AllReadied
<1>3. /\ SchedulerTypeOK'
      /\ \A u \in SchedulerThreads : \/ thread'[u].pc = thread[u].pc
                                     \/ u \in Asleep /\ thread'[u].pc = "ready"
  BY <1>1, <1>2, ReadiedMoves, Zenon
<1>4. \A u \in SchedulerThreads : /\ u \in Serving' <=> u \in Serving
                                  /\ thread'[u].pc = "exited" <=> thread[u].pc = "exited"
  BY <1>3 DEF Serving, Asleep, ThreadAt
<1>5. ~ (\A th \in SchedulerThreads : ThreadAt(th, "exited"))
  BY <1>1, SchedulerAssumption, Zenon DEF SchedulerInv
<1> QED BY <1>1, <1>3, <1>4, <1>5, SameThreads, Zenon

(* The steps of a thread.                                                     *)
LEMMA ThreadStep ==
    ASSUME SchedulerInv, NEW th \in SchedulerThreads, ServiceQueue(th) \/ SpuriousReady(th) \/ Throw(th)
    PROVE  SchedulerInv'
<1>0. /\ SchedulerTypeOK /\ nThreadsServicingQueue \in Int /\ ~ (stopRequested /\ stopWhenEmpty)
      /\ IsFiniteSet(Serving)
  <2>1. Serving \subseteq SchedulerThreads
    BY Zenon DEF Serving
  <2>2. IsFiniteSet(Serving)
    BY <2>1, SchedulerAssumption, FS_Subset
  <2> QED BY <2>2, Zenon DEF SchedulerInv, SchedulerTypeOK
<1>f. /\ "ready" \in SchedulerLabels /\ "timedout" \in SchedulerLabels /\ "running" \in SchedulerLabels /\ "interrupted" \in SchedulerLabels
  BY DEF SchedulerLabels
<1>1. CASE Begin(th)
  <2>0. /\ stopRequested' = stopRequested /\ stopWhenEmpty' = stopWhenEmpty /\ taskQueue' = taskQueue
        /\ nThreadsServicingQueue' = nThreadsServicingQueue + 1 /\ thread[th].pc = "new"
    BY <1>1, Zenon DEF Begin, ThreadAt
  <2>1. nThreadsServicingQueue' \in Int
    BY <1>0, <2>0
  <2>2. /\ SchedulerTypeOK' /\ thread'[th].pc = "ready"
        /\ \A u \in SchedulerThreads \ {th} : thread'[u].pc = thread[u].pc
    BY <1>0, <1>1, <1>f, <2>1, ThreadMoves, Zenon DEF Begin
  <2>3. Serving' = Serving \cup {th} /\ th \notin Serving
    BY <2>0, <2>2 DEF Serving
  <2>4. nThreadsServicingQueue' = Cardinality(Serving')
    BY Zenon, <1>0, <2>0, <2>3, FS_AddElement DEF SchedulerInv
  <2>5. /\ \A u \in SchedulerThreads : ThreadAt(u, "exited")' => ThreadAt(u, "exited")
        /\ ~ ThreadAt(th, "exited")'
    BY <2>2, Zenon DEF ThreadAt
  <2> QED BY <2>0, <2>2, <2>4, <2>5, Zenon DEF SchedulerInv
<1>2. CASE Continue(th)
  BY <1>2, LoopStep, Zenon DEF Continue, ThreadAt
<1>3. CASE TimeOut(th) \/ TaskReturns(th)
  <2>0. /\ stopRequested' = stopRequested /\ stopWhenEmpty' = stopWhenEmpty /\ taskQueue' = taskQueue
        /\ nThreadsServicingQueue' = nThreadsServicingQueue /\ thread[th].pc \in {"timed", "running"}
    BY <1>3, Zenon DEF TimeOut, TaskReturns, ThreadAt
  <2>1. /\ SchedulerTypeOK' /\ thread'[th].pc \in {"timedout", "ready"}
        /\ \A u \in SchedulerThreads \ {th} : thread'[u].pc = thread[u].pc
    BY <1>0, <1>3, <1>f, <2>0, ThreadMoves, Zenon DEF TimeOut, TaskReturns
  <2>2. \A u \in SchedulerThreads : /\ u \in Serving' <=> u \in Serving
                                    /\ thread'[u].pc = "exited" <=> thread[u].pc = "exited"
    BY <2>0, <2>1 DEF Serving
  <2>3. ~ ThreadAt(th, "exited")
    BY <2>0 DEF ThreadAt
  <2> QED BY <1>0, <2>0, <2>1, <2>2, <2>3, SameThreads, Zenon
<1>4. CASE TakeTask(th)
  <2>1. CASE ShouldStop \/ taskQueue = <<>>
    BY <1>4, <2>1, LoopStep, Zenon DEF TakeTask, ThreadAt
  <2>2. CASE ~ (ShouldStop \/ taskQueue = <<>>)
    <3>0. /\ stopRequested' = stopRequested /\ stopWhenEmpty' = stopWhenEmpty
          /\ nThreadsServicingQueue' = nThreadsServicingQueue /\ thread[th].pc = "timedout"
      BY <1>4, <2>2, Zenon DEF TakeTask, ThreadAt
    <3>1. /\ SchedulerTypeOK' /\ thread'[th].pc = "running"
          /\ \A u \in SchedulerThreads \ {th} : thread'[u].pc = thread[u].pc
      BY <1>0, <1>4, <1>f, <2>2, <3>0, ThreadMoves, Zenon DEF TakeTask
    <3>2. \A u \in SchedulerThreads : /\ u \in Serving' <=> u \in Serving
                                      /\ thread'[u].pc = "exited" <=> thread[u].pc = "exited"
      BY <3>0, <3>1 DEF Serving
    <3>3. ~ ThreadAt(th, "exited")
      BY <3>0 DEF ThreadAt
    <3> QED BY <1>0, <3>0, <3>1, <3>2, <3>3, SameThreads, Zenon
  <2> QED BY <2>1, <2>2, Zenon
<1>5. CASE SpuriousReady(th)
  <2>0. /\ stopRequested' = stopRequested /\ stopWhenEmpty' = stopWhenEmpty /\ taskQueue' = taskQueue
        /\ nThreadsServicingQueue' = nThreadsServicingQueue
        /\ thread' = Readied({th}) /\ {th} \in SUBSET Asleep /\ th \in Asleep
    BY <1>5, Zenon DEF SpuriousReady
  <2>1. /\ SchedulerTypeOK'
        /\ \A u \in SchedulerThreads : \/ thread'[u].pc = thread[u].pc
                                       \/ u \in Asleep /\ thread'[u].pc = "ready"
    BY <1>0, <2>0, ReadiedMoves, Zenon
  <2>2. \A u \in SchedulerThreads : /\ u \in Serving' <=> u \in Serving
                                    /\ thread'[u].pc = "exited" <=> thread[u].pc = "exited"
    BY <2>1 DEF Serving, Asleep, ThreadAt
  <2>3. ~ ThreadAt(th, "exited")
    BY <2>0 DEF ThreadAt, Asleep
  <2> QED BY <1>0, <2>0, <2>1, <2>2, <2>3, SameThreads, Zenon
<1>6. CASE Throw(th)
  <2>0. /\ stopRequested' = stopRequested /\ stopWhenEmpty' = stopWhenEmpty /\ taskQueue' = taskQueue
        /\ nThreadsServicingQueue' = nThreadsServicingQueue - 1
        /\ thread[th].pc \in {"waiting", "timed", "running"}
    BY <1>6, Zenon DEF Throw, ServicingAfterThrow, Asleep, ThreadAt
  <2>1. nThreadsServicingQueue' \in Int
    BY <1>0, <2>0
  <2>2. /\ SchedulerTypeOK' /\ thread'[th].pc = "interrupted"
        /\ \A u \in SchedulerThreads \ {th} : thread'[u].pc = thread[u].pc
    BY <1>0, <1>6, <1>f, <2>1, ThreadMoves, Zenon DEF Throw
  <2>3. th \in Serving /\ thread'[th].pc \in {"exited", "interrupted"}
    BY <2>0, <2>2 DEF Serving
  <2>4. nThreadsServicingQueue' = Cardinality(Serving')
    BY <2>0, <2>2, <2>3, ServingLess, Zenon
  <2>5. /\ \A u \in SchedulerThreads : ThreadAt(u, "exited")' => ThreadAt(u, "exited")
        /\ ~ ThreadAt(th, "exited")'
    BY <2>2, Zenon DEF ThreadAt
  <2> QED BY <2>0, <2>2, <2>4, <2>5, Zenon DEF SchedulerInv
<1> QED BY <1>1, <1>2, <1>3, <1>4, <1>5, <1>6, Zenon DEF ServiceQueue

(* The invariant survives every step.                                         *)
LEMMA SchedulerInvStep == SchedulerInv /\ [SchedulerNext]_schedulerVars => SchedulerInv'
<1> SUFFICES ASSUME SchedulerInv, [SchedulerNext]_schedulerVars PROVE SchedulerInv'
  OBVIOUS
<1>1. CASE Tick \/ UNCHANGED schedulerVars
  <2>1. /\ taskQueue' = taskQueue /\ stopRequested' = stopRequested /\ stopWhenEmpty' = stopWhenEmpty
        /\ nThreadsServicingQueue' = nThreadsServicingQueue /\ thread' = thread
    BY <1>1 DEF Tick, schedulerVars
  <2>2. Serving' = Serving
    BY <2>1, Zenon DEF Serving
  <2> QED BY <2>1, <2>2, Zenon DEF SchedulerInv, SchedulerTypeOK, ThreadAt
<1> QED BY <1>1, ScheduleStep, StopStep, ThreadStep, Zenon DEF SchedulerNext

(* ~CScheduler: once its threads are gone nobody is counted as servicing the  *)
(* queue, and after stop(true) no work is left.                               *)
THEOREM SchedulerSettles == SchedulerSpec => []SettledInTheEnd
<1>1. SchedulerInv => SettledInTheEnd
  <2> SUFFICES ASSUME SchedulerInv, \A th \in SchedulerThreads : Gone(th)
               PROVE  /\ nThreadsServicingQueue = 0
                      /\ stopWhenEmpty /\ (\A th \in SchedulerThreads : ThreadAt(th, "exited")) => taskQueue = <<>>
    BY Zenon DEF SettledInTheEnd
  <2>1. Serving = {}
    BY Zenon DEF Serving, Gone, ThreadAt
  <2>2. nThreadsServicingQueue = 0
    BY <2>1, FS_EmptySet DEF SchedulerInv
  <2> QED BY <2>2, Zenon DEF SchedulerInv
<1> QED BY <1>1, SchedulerInvInit, SchedulerInvStep, PTL DEF SchedulerSpec

------------------------------------------------------------------------------
(* AsyncRPCQueue. *)

Guarded == {"loop", "wait", "finishing", "closed", "take"}
Pending == {"test", "main", "execute"}
Executing == {"impl", "end"}

WorkerLabels == {"begin", "waiting", "exited"} \cup Guarded \cup Pending \cup Executing

WorkerStates == [Workers -> [pc : WorkerLabels, op : Ops \cup {NONE}, success : BOOLEAN]]

AsyncTypeOK ==
    /\ lock \in Workers \cup {Controller, NONE}
    /\ operation_id_queue \in Seq(Ops)
    /\ operation_map \subseteq Ops
    /\ closed \in BOOLEAN /\ finish \in BOOLEAN
    /\ state \in [Ops -> {"READY", "EXECUTING"} \cup Finished]
    /\ runs \in [Ops -> Nat]
    /\ worker \in WorkerStates
    /\ control \in [pc : {"open", "notify", "cancelAll", "cancel", "join", "joined", "finished"},
                    todo : SUBSET Ops, ready : Ops \cup {NONE}]
    /\ poll \in [pc : {"idle", "test", "pop"}, op : Ops \cup {NONE}]
    /\ \A w \in Workers : worker[w].pc \in {"execute"} \cup Executing => worker[w].op \in Ops
    /\ poll.pc # "idle" => poll.op \in Ops

(* The thread between the lock of lock_ and its release is its holder.       *)
LockHeld ==
    /\ \A w \in Workers : worker[w].pc \in Guarded => lock = w
    /\ control.pc = "cancel" => lock = Controller

(* What the tests of run leave behind while lock_ is held: the flags can be  *)
(* set meanwhile, but never reset, and the queue stays as it is.             *)
Tested ==
    \A w \in Workers :
        /\ worker[w].pc = "finishing" => ~NoOperation
        /\ worker[w].pc = "closed" => operation_id_queue # <<>> \/ closed
        /\ worker[w].pc = "take" => operation_id_queue # <<>>
        /\ worker[w].pc = "exited" => operation_id_queue = <<>> /\ (closed \/ finish)

(* How far shutting down is: what cancelAll has been through is not READY,   *)
(* and nobody collects results once the queue is closed.                     *)
ShuttingDown ==
    /\ control.pc \in {"cancelAll", "cancel", "joined"} => closed
    /\ control.pc \in {"open", "finished"} => ~closed
    /\ closed => poll.pc = "idle"
    /\ closed /\ control.pc # "cancelAll" =>
          \A o \in operation_map : state[o] = "READY" => control.pc = "cancel" /\ o \in control.todo \cup {control.ready}
    /\ control.pc \in {"joined", "finished"} => \A w \in Workers : worker[w].pc = "exited"

(* An operation in state EXECUTING is being executed.                        *)
ExecutedByWorker ==
    \A o \in Ops : state[o] = "EXECUTING" => \E w \in Workers : worker[w].op = o /\ worker[w].pc \in Executing

AsyncInv == AsyncTypeOK /\ LockHeld /\ Tested /\ ShuttingDown /\ ExecutedByWorker

(* Worker w has taken o from the queue and is not done with it.              *)
Has(w, o) == worker[w].op = o /\ worker[w].pc \in Pending \cup Executing

Waits(o) == \E i \in 1..Len(operation_id_queue) : operation_id_queue[i] = o

(* Until the queue is closed an accepted operation is in one place: in the   *)
(* queue, with one worker, or done.                                          *)
Uncancelled == \A o \in Ops : state[o] # "CANCELLED"

QueuedOnce == \A i, j \in 1..Len(operation_id_queue) : operation_id_queue[i] = operation_id_queue[j] => i = j

Placed(o) ==
    /\ state[o] = "READY" => runs[o] = 0
    /\ Waits(o) => o \in operation_map /\ state[o] = "READY" /\ \A w \in Workers : ~Has(w, o)
    /\ o \in operation_map /\ ~Waits(o) /\ (\A w \in Workers : ~Has(w, o)) =>
          runs[o] = 1 /\ state[o] \in {"SUCCESS", "FAILED"}

OperationHeld(w, o) ==
    Has(w, o) =>
        /\ o \in operation_map
        /\ worker[w].pc \in Pending => state[o] = "READY"
        /\ worker[w].pc \in Executing => state[o] = "EXECUTING"
        /\ worker[w].pc = "impl" => runs[o] = 0
        /\ worker[w].pc = "end" => runs[o] = 1
        /\ \A v \in Workers : Has(v, o) => v = w

Collected == poll.pc = "pop" => state[poll.op] \in {"SUCCESS", "FAILED"}

OnePlace ==
    /\ Uncancelled /\ QueuedOnce /\ Collected
    /\ \A o \in Ops : Placed(o)
    /\ \A w \in Workers, o \in Ops : OperationHeld(w, o)

OpenInv == ~closed => OnePlace

USE DEF AsyncRPCQueueAssumption, Controller, Guarded, Pending, Executing, Finished
USE DEF asyncVars

-----------------------------------------------------------------------------

(* The queue is empty and open at first.                                     *)
LEMMA AsyncInvInit == AsyncInit => AsyncInv /\ OpenInv
<1> SUFFICES ASSUME AsyncInit PROVE AsyncInv /\ OpenInv
  OBVIOUS
<1>1. operation_id_queue \in Seq(Ops) /\ Len(operation_id_queue) = 0
  BY EmptySeq DEF AsyncInit
<1>2. AsyncTypeOK
  <2>1. worker \in WorkerStates
    BY DEF AsyncInit, WorkerStates, WorkerLabels
  <2> QED BY Zenon, <1>1, <2>1 DEF AsyncInit, NoPoll, AsyncTypeOK
<1>3. LockHeld /\ Tested /\ ShuttingDown /\ ExecutedByWorker
  BY DEF AsyncInit, NoPoll, LockHeld, Tested, ShuttingDown, ExecutedByWorker
<1>4. OnePlace
  BY <1>1 DEF AsyncInit, NoPoll, OnePlace, Uncancelled, QueuedOnce, Collected, Placed, OperationHeld, Has, Waits
<1> QED BY <1>2, <1>3, <1>4 DEF AsyncInv, OpenInv

(* What Goto does to the workers.                                            *)
LEMMA GotoMoves ==
    ASSUME AsyncTypeOK, NEW w \in Workers, NEW p \in WorkerLabels, Goto(w, p)
    PROVE  /\ worker' \in WorkerStates
           /\ worker'[w].pc = p /\ worker'[w].op = worker[w].op
           /\ \A v \in Workers : v # w => worker'[v] = worker[v]
BY ZenonT(60) DEF AsyncTypeOK, Goto, WorkerStates, WorkerLabels

(* What a notification does to the workers.                                  *)
LEMMA WakeMoves ==
    ASSUME AsyncTypeOK, NEW woken \in SUBSET WaitingWorkers, worker' = WokenWorkers(woken)
    PROVE  /\ worker' \in WorkerStates
           /\ \A v \in Workers :
                 /\ worker'[v].op = worker[v].op
                 /\ worker'[v].pc = worker[v].pc \/ (worker[v].pc = "waiting" /\ worker'[v].pc = "begin")
<1>1. worker \in WorkerStates
  BY Zenon DEF AsyncTypeOK
<1>2. worker' \in WorkerStates
  BY ZenonT(60), <1>1 DEF WokenWorkers, WorkerStates, WorkerLabels
<1>3. ASSUME NEW v \in Workers
      PROVE  /\ worker'[v].op = worker[v].op
             /\ worker'[v].pc = worker[v].pc \/ (worker[v].pc = "waiting" /\ worker'[v].pc = "begin")
  BY ZenonT(60), <1>1 DEF WokenWorkers, WaitingWorkers, WorkerStates
<1> QED BY Zenon, <1>2, <1>3

(* Every step of every thread preserves the invariant.                       *)
LEMMA AsyncInvStep == AsyncInv /\ [AsyncNext]_asyncVars => AsyncInv'
<1> SUFFICES ASSUME AsyncInv, [AsyncNext]_asyncVars PROVE AsyncInv'
  OBVIOUS
<1> USE DEF AsyncInv
<1>1. ASSUME NEW o \in Ops, AddOperation(o) PROVE AsyncInv'
  <2>0. /\ worker' \in WorkerStates
        /\ \A v \in Workers :
              /\ worker'[v].op = worker[v].op
              /\ worker'[v].pc = worker[v].pc \/ (worker[v].pc = "waiting" /\ worker'[v].pc = "begin")
        /\ lock = NONE /\ ~closed /\ ~finish
        /\ operation_map' = operation_map \cup {o} /\ operation_id_queue' = Append(operation_id_queue, o)
        /\ UNCHANGED <<lock, closed, finish, state, runs, control, poll>>
    BY <1>1, WakeMoves DEF AddOperation, OneWaiting
  <2>1. AsyncTypeOK'
    <3>1. \A v \in Workers : worker'[v].pc \in {"execute"} \cup Executing => worker'[v].op \in Ops
      BY Zenon, <2>0 DEF AsyncTypeOK
    <3>2. operation_id_queue' \in Seq(Ops)
      BY <2>0, AppendProperties DEF AsyncTypeOK
    <3> QED BY <2>0, <3>1, <3>2 DEF AsyncTypeOK
  <2>2. LockHeld'
    BY <2>0, AsyncRPCQueueAssumption DEF LockHeld
  <2>3. Tested'
    BY <2>0 DEF LockHeld, Tested, NoOperation
  <2>4. ShuttingDown'
    BY <2>0 DEF ShuttingDown
  <2>5. ExecutedByWorker'
    BY <2>0 DEF ExecutedByWorker
  <2> QED BY <2>1, <2>2, <2>3, <2>4, <2>5
<1>2. ASSUME NEW w \in Workers, Lock(w) PROVE AsyncInv'
  <2>0. /\ worker[w].pc = "begin" /\ worker' \in WorkerStates /\ worker'[w].pc = "loop"
        /\ worker'[w].op = worker[w].op /\ \A v \in Workers : v # w => worker'[v] = worker[v]
        /\ UNCHANGED <<operation_id_queue, operation_map, closed, finish, state, runs, control, poll>>
        /\ lock = NONE /\ lock' = w
    BY <1>2, GotoMoves DEF Lock, At, WorkerLabels
  <2>1. AsyncTypeOK'
    BY Zenon, <2>0 DEF AsyncTypeOK
  <2>2. LockHeld'
    BY <2>0, AsyncRPCQueueAssumption DEF LockHeld
  <2>3. Tested'
    BY <2>0 DEF LockHeld, Tested, NoOperation
  <2>4. ShuttingDown'
    BY <2>0 DEF ShuttingDown
  <2>5. ExecutedByWorker'
    BY <2>0 DEF ExecutedByWorker
  <2> QED BY <2>1, <2>2, <2>3, <2>4, <2>5
<1>3. ASSUME NEW w \in Workers, TestQueue(w) PROVE AsyncInv'
  <2>0. /\ worker[w].pc = "loop" /\ worker' \in WorkerStates /\ worker'[w].pc \in {"wait", "finishing"}
        /\ worker'[w].op = worker[w].op /\ \A v \in Workers : v # w => worker'[v] = worker[v]
        /\ UNCHANGED <<lock, operation_id_queue, operation_map, closed, finish, state, runs, control, poll>>
        /\ worker'[w].pc = "finishing" => ~NoOperation
    BY <1>3, GotoMoves DEF TestQueue, At, WorkerLabels
  <2>1. AsyncTypeOK'
    BY ZenonT(60), <2>0 DEF AsyncTypeOK
  <2>2. LockHeld'
    BY <2>0, AsyncRPCQueueAssumption DEF LockHeld
  <2>3. Tested'
    BY <2>0 DEF LockHeld, Tested, NoOperation
  <2>4. ShuttingDown'
    BY <2>0 DEF ShuttingDown
  <2>5. ExecutedByWorker'
    BY <2>0 DEF ExecutedByWorker
  <2> QED BY <2>1, <2>2, <2>3, <2>4, <2>5
<1>4. ASSUME NEW w \in Workers, WaitForOperation(w) PROVE AsyncInv'
  <2>0. /\ worker[w].pc = "wait" /\ worker' \in WorkerStates /\ worker'[w].pc = "waiting"
        /\ worker'[w].op = worker[w].op /\ \A v \in Workers : v # w => worker'[v] = worker[v]
        /\ UNCHANGED <<operation_id_queue, operation_map, closed, finish, state, runs, control, poll>>
        /\ lock' = NONE
    BY <1>4, GotoMoves DEF WaitForOperation, At, WorkerLabels
  <2>1. AsyncTypeOK'
    BY <2>0 DEF AsyncTypeOK
  <2>2. LockHeld'
    BY <2>0, AsyncRPCQueueAssumption DEF LockHeld
  <2>3. Tested'
    BY <2>0 DEF LockHeld, Tested, NoOperation
  <2>4. ShuttingDown'
    BY <2>0 DEF ShuttingDown
  <2>5. ExecutedByWorker'
    BY <2>0 DEF ExecutedByWorker
  <2> QED BY <2>1, <2>2, <2>3, <2>4, <2>5
<1>5. ASSUME NEW w \in Workers, SpuriousWorkerWake(w) PROVE AsyncInv'
  <2>0. /\ worker[w].pc = "waiting" /\ worker' \in WorkerStates /\ worker'[w].pc = "begin"
        /\ worker'[w].op = worker[w].op /\ \A v \in Workers : v # w => worker'[v] = worker[v]
        /\ UNCHANGED <<lock, operation_id_queue, operation_map, closed, finish, state, runs, control, poll>>
    BY <1>5, GotoMoves DEF SpuriousWorkerWake, At, WorkerLabels
  <2>1. AsyncTypeOK'
    BY ZenonT(60), <2>0 DEF AsyncTypeOK
  <2>2. LockHeld'
    BY <2>0, AsyncRPCQueueAssumption DEF LockHeld
  <2>3. Tested'
    BY <2>0 DEF LockHeld, Tested, NoOperation
  <2>4. ShuttingDown'
    BY <2>0 DEF ShuttingDown
  <2>5. ExecutedByWorker'
    BY <2>0 DEF ExecutedByWorker
  <2> QED BY <2>1, <2>2, <2>3, <2>4, <2>5
<1>6. ASSUME NEW w \in Workers, TestFinishing(w) PROVE AsyncInv'
  <2>0. /\ worker[w].pc = "finishing" /\ worker' \in WorkerStates /\ worker'[w].pc \in {"exited", "closed"}
        /\ worker'[w].op = worker[w].op /\ \A v \in Workers : v # w => worker'[v] = worker[v]
        /\ UNCHANGED <<operation_id_queue, operation_map, closed, finish, state, runs, control, poll>>
        /\ worker'[w].pc = "exited" => lock' = NONE /\ finish /\ operation_id_queue = <<>>
        /\ worker'[w].pc = "closed" => lock' = lock /\ ~(finish /\ operation_id_queue = <<>>)
    BY <1>6, GotoMoves DEF TestFinishing, FinishedUp, Exit, At, WorkerLabels
  <2>1. AsyncTypeOK'
    BY ZenonT(60), <2>0 DEF AsyncTypeOK
  <2>2. LockHeld'
    BY <2>0, AsyncRPCQueueAssumption DEF LockHeld
  <2>3. Tested'
    BY <2>0 DEF LockHeld, Tested, NoOperation
  <2>4. ShuttingDown'
    BY <2>0 DEF ShuttingDown
  <2>5. ExecutedByWorker'
    BY <2>0 DEF ExecutedByWorker
  <2> QED BY <2>1, <2>2, <2>3, <2>4, <2>5
<1>7. ASSUME NEW w \in Workers, TestClosed(w) PROVE AsyncInv'
  <2>0. /\ worker[w].pc = "closed" /\ worker' \in WorkerStates /\ worker'[w].pc \in {"exited", "take"}
        /\ worker'[w].op = worker[w].op /\ \A v \in Workers : v # w => worker'[v] = worker[v]
        /\ UNCHANGED <<operation_map, closed, finish, state, runs, control, poll>>
        /\ worker'[w].pc = "exited" => lock' = NONE /\ closed /\ operation_id_queue' = <<>>
        /\ worker'[w].pc = "take" => ~closed /\ UNCHANGED <<lock, operation_id_queue>>
    BY <1>7, GotoMoves DEF TestClosed, Exit, At, WorkerLabels
  <2>1. AsyncTypeOK'
    <3>1. CASE worker'[w].pc = "exited"
      <4>1. operation_id_queue' \in Seq(Ops)
        BY <2>0, <3>1, EmptySeq
      <4> QED BY <2>0, <3>1, <4>1 DEF AsyncTypeOK
    <3>2. CASE worker'[w].pc = "take"
      BY <2>0, <3>2 DEF AsyncTypeOK
    <3> QED BY <2>0, <3>1, <3>2
  <2>2. LockHeld'
    BY <2>0, AsyncRPCQueueAssumption DEF LockHeld
  <2>3. Tested'
    BY <2>0 DEF LockHeld, Tested, NoOperation
  <2>4. ShuttingDown'
    BY <2>0 DEF ShuttingDown
  <2>5. ExecutedByWorker'
    BY <2>0 DEF ExecutedByWorker
  <2> QED BY <2>1, <2>2, <2>3, <2>4, <2>5
<1>8. ASSUME NEW w \in Workers, TakeOperation(w) PROVE AsyncInv'
  <2>0. /\ worker[w].pc = "take" /\ worker' \in WorkerStates /\ worker'[w].pc = "test"
        /\ worker'[w].op = IF Head(operation_id_queue) \in operation_map THEN Head(operation_id_queue) ELSE NONE
        /\ \A v \in Workers : v # w => worker'[v] = worker[v]
        /\ operation_id_queue # <<>> /\ operation_id_queue' = Tail(operation_id_queue) /\ lock' = NONE
        /\ UNCHANGED <<operation_map, closed, finish, state, runs, control, poll>>
    <3>1. worker[w].pc = "take" /\ operation_id_queue # <<>> /\ operation_id_queue' = Tail(operation_id_queue) /\ lock' = NONE
          /\ UNCHANGED <<operation_map, closed, finish, state, runs, control, poll>>
      BY <1>8 DEF TakeOperation, At
    <3>2. Head(operation_id_queue) \in Ops
      BY <3>1, HeadTailProperties DEF AsyncTypeOK
    <3>3. PICK op \in Ops \cup {NONE} :
             /\ op = IF Head(operation_id_queue) \in operation_map THEN Head(operation_id_queue) ELSE NONE
             /\ worker' = [worker EXCEPT ![w].pc = "test", ![w].op = op]
      BY Zenon, <1>8, <3>2 DEF TakeOperation
    <3>4. /\ worker' \in WorkerStates /\ worker'[w].pc = "test" /\ worker'[w].op = op
          /\ \A v \in Workers : v # w => worker'[v] = worker[v]
      <4>1. worker \in WorkerStates
        BY DEF AsyncTypeOK
      <4>2. worker'[w] = [pc |-> "test", op |-> op, success |-> worker[w].success]
        BY ZenonT(60), <3>3, <4>1 DEF WorkerStates
      <4>3. worker' = [worker EXCEPT ![w] = [pc |-> "test", op |-> op, success |-> worker[w].success]]
        BY Zenon, <3>3, <4>1, <4>2 DEF WorkerStates
      <4> QED BY <4>1, <4>3 DEF WorkerStates, WorkerLabels
    <3> QED BY Zenon, <3>1, <3>3, <3>4
  <2>1. AsyncTypeOK'
    <3>1. \A v \in Workers : worker'[v].pc \in {"execute"} \cup Executing => worker'[v].op \in Ops
      BY Zenon, <2>0 DEF AsyncTypeOK
    <3>2. operation_id_queue' \in Seq(Ops)
      BY <2>0, HeadTailProperties DEF AsyncTypeOK
    <3> QED BY <2>0, <3>1, <3>2 DEF AsyncTypeOK
  <2>2. LockHeld'
    BY <2>0, AsyncRPCQueueAssumption DEF LockHeld
  <2>3. Tested'
    BY <2>0 DEF LockHeld, Tested, NoOperation
  <2>4. ShuttingDown'
    BY <2>0 DEF ShuttingDown
  <2>5. ExecutedByWorker'
    <3> SUFFICES ASSUME NEW o \in Ops, state'[o] = "EXECUTING"
                 PROVE  \E v \in Workers : worker'[v].op = o /\ worker'[v].pc \in Executing
      BY DEF ExecutedByWorker
    <3>1. PICK v \in Workers : worker[v].op = o /\ worker[v].pc \in Executing
      BY <2>0 DEF ExecutedByWorker
    <3> QED BY <2>0, <3>1
  <2> QED BY <2>1, <2>2, <2>3, <2>4, <2>5
<1>9. ASSUME NEW w \in Workers, TestCancelled(w) PROVE AsyncInv'
  <2>0. /\ worker[w].pc \in {"test", "main"} /\ worker' \in WorkerStates /\ worker'[w].pc \in {"begin", "main", "execute"}
        /\ worker'[w].op = worker[w].op /\ \A v \in Workers : v # w => worker'[v] = worker[v]
        /\ UNCHANGED <<lock, operation_id_queue, operation_map, closed, finish, state, runs, control, poll>>
        /\ worker'[w].pc # "begin" => worker[w].op # NONE
        /\ worker'[w].pc = "begin" => worker[w].op = NONE \/ state[worker[w].op] = "CANCELLED"
    BY <1>9, GotoMoves DEF TestCancelled, At, WorkerLabels
  <2>1. AsyncTypeOK'
    <3>1. worker[w].op \in Ops \cup {NONE}
      BY DEF AsyncTypeOK, WorkerStates
    <3>2. \A v \in Workers : worker'[v].pc \in {"execute"} \cup Executing => worker'[v].op \in Ops
      BY Zenon, <2>0, <3>1 DEF AsyncTypeOK
    <3> QED BY <2>0, <3>1, <3>2 DEF AsyncTypeOK
  <2>2. LockHeld'
    BY Zenon, <2>0 DEF AsyncTypeOK, LockHeld
  <2>3. Tested'
    BY <2>0 DEF LockHeld, Tested, NoOperation
  <2>4. ShuttingDown'
    BY <2>0 DEF ShuttingDown
  <2>5. ExecutedByWorker'
    <3> SUFFICES ASSUME NEW o \in Ops, state'[o] = "EXECUTING"
                 PROVE  \E v \in Workers : worker'[v].op = o /\ worker'[v].pc \in Executing
      BY DEF ExecutedByWorker
    <3>1. PICK v \in Workers : worker[v].op = o /\ worker[v].pc \in Executing
      BY SMTT(30), <2>0 DEF ExecutedByWorker
    <3> QED BY <2>0, <3>1
  <2> QED BY <2>1, <2>2, <2>3, <2>4, <2>5
<1>10. ASSUME NEW w \in Workers, SetExecuting(w) PROVE AsyncInv'
  <2>0. /\ worker[w].pc = "execute" /\ worker' \in WorkerStates /\ worker'[w].pc = "impl"
        /\ worker'[w].op = worker[w].op /\ \A v \in Workers : v # w => worker'[v] = worker[v]
        /\ UNCHANGED <<lock, operation_id_queue, operation_map, closed, finish, runs, control, poll>>
        /\ state' = [state EXCEPT ![worker[w].op] = "EXECUTING"]
    BY <1>10, GotoMoves DEF SetExecuting, At, WorkerLabels
  <2>1. AsyncTypeOK'
    BY <2>0 DEF AsyncTypeOK
  <2>2. LockHeld'
    BY Zenon, <2>0 DEF AsyncTypeOK, LockHeld
  <2>3. Tested'
    BY <2>0 DEF LockHeld, Tested, NoOperation
  <2>4. ShuttingDown'
    BY <2>0 DEF ShuttingDown
  <2>5. ExecutedByWorker'
    <3> SUFFICES ASSUME NEW o \in Ops, state'[o] = "EXECUTING"
                 PROVE  \E v \in Workers : worker'[v].op = o /\ worker'[v].pc \in Executing
      BY DEF ExecutedByWorker
    <3>1. CASE o = worker[w].op
      BY <2>0, <3>1
    <3>2. CASE o # worker[w].op
      <4>1. PICK v \in Workers : worker[v].op = o /\ worker[v].pc \in Executing
        BY <2>0, <3>2 DEF ExecutedByWorker, AsyncTypeOK
      <4> QED BY <2>0, <3>2, <4>1
    <3> QED BY <3>1, <3>2
  <2> QED BY <2>1, <2>2, <2>3, <2>4, <2>5
<1>11. ASSUME NEW w \in Workers, MainImpl(w) PROVE AsyncInv'
  <2>0. /\ worker[w].pc = "impl" /\ worker' \in WorkerStates /\ worker'[w].pc = "end"
        /\ worker'[w].op = worker[w].op /\ \A v \in Workers : v # w => worker'[v] = worker[v]
        /\ UNCHANGED <<lock, operation_id_queue, operation_map, closed, finish, state, control, poll>>
        /\ runs' = [runs EXCEPT ![worker[w].op] = @ + 1]
    <3>1. PICK success \in BOOLEAN : worker' = [worker EXCEPT ![w].pc = "end", ![w].success = success]
      BY Zenon, <1>11 DEF MainImpl
    <3>2. /\ worker' \in WorkerStates /\ worker'[w].pc = "end" /\ worker'[w].op = worker[w].op
          /\ \A v \in Workers : v # w => worker'[v] = worker[v]
      <4>1. worker \in WorkerStates
        BY DEF AsyncTypeOK
      <4>2. worker'[w] = [pc |-> "end", op |-> worker[w].op, success |-> success]
        BY ZenonT(60), <3>1, <4>1 DEF WorkerStates
      <4>3. worker' = [worker EXCEPT ![w] = [pc |-> "end", op |-> worker[w].op, success |-> success]]
        BY Zenon, <3>1, <4>1, <4>2 DEF WorkerStates
      <4> QED BY <4>1, <4>3 DEF WorkerStates, WorkerLabels
    <3> QED BY Zenon, <1>11, <3>2 DEF MainImpl, At
  <2>1. AsyncTypeOK'
    <3>1. \A v \in Workers : worker'[v].pc \in {"execute"} \cup Executing => worker'[v].op \in Ops
      BY Zenon, <2>0 DEF AsyncTypeOK
    <3>2. runs' \in [Ops -> Nat]
      BY <2>0 DEF AsyncTypeOK
    <3> QED BY <2>0, <3>1, <3>2 DEF AsyncTypeOK
  <2>2. LockHeld'
    BY Zenon, <2>0 DEF AsyncTypeOK, LockHeld
  <2>3. Tested'
    BY <2>0 DEF LockHeld, Tested, NoOperation
  <2>4. ShuttingDown'
    BY <2>0 DEF ShuttingDown
  <2>5. ExecutedByWorker'
    <3> SUFFICES ASSUME NEW o \in Ops, state'[o] = "EXECUTING"
                 PROVE  \E v \in Workers : worker'[v].op = o /\ worker'[v].pc \in Executing
      BY DEF ExecutedByWorker
    <3>1. PICK v \in Workers : worker[v].op = o /\ worker[v].pc \in Executing
      BY <2>0 DEF ExecutedByWorker
    <3> QED BY <2>0, <3>1
  <2> QED BY <2>1, <2>2, <2>3, <2>4, <2>5
<1>12. ASSUME NEW w \in Workers, SetFinished(w) PROVE AsyncInv'
  <2>0. /\ worker[w].pc = "end" /\ worker' \in WorkerStates /\ worker'[w].pc = "begin"
        /\ worker'[w].op = worker[w].op /\ \A v \in Workers : v # w => worker'[v] = worker[v]
        /\ UNCHANGED <<lock, operation_id_queue, operation_map, closed, finish, runs, control, poll>>
        /\ state' = [state EXCEPT ![worker[w].op] = "SUCCESS"] \/ state' = [state EXCEPT ![worker[w].op] = "FAILED"]
    BY Zenon, <1>12, GotoMoves DEF SetFinished, At, WorkerLabels
  <2>1. AsyncTypeOK'
    BY ZenonT(60), <2>0 DEF AsyncTypeOK
  <2>2. LockHeld'
    BY Zenon, <2>0 DEF AsyncTypeOK, LockHeld
  <2>3. Tested'
    BY <2>0 DEF LockHeld, Tested, NoOperation
  <2>4. ShuttingDown'
    <3>1. \A o \in Ops : state'[o] = "READY" => state[o] = "READY"
      BY <2>0 DEF AsyncTypeOK
    <3>2. \A v \in Workers : worker[v].pc = "exited" => worker'[v].pc = "exited"
      BY <2>0
    <3>3. operation_map \subseteq Ops
      BY DEF AsyncTypeOK
    <3> QED BY <2>0, <3>1, <3>2, <3>3 DEF ShuttingDown
  <2>5. ExecutedByWorker'
    <3> SUFFICES ASSUME NEW o \in Ops, state'[o] = "EXECUTING"
                 PROVE  \E v \in Workers : worker'[v].op = o /\ worker'[v].pc \in Executing
      BY DEF ExecutedByWorker
    <3>1. state[o] = "EXECUTING" /\ o # worker[w].op
      BY <2>0 DEF AsyncTypeOK
    <3>2. PICK v \in Workers : worker[v].op = o /\ worker[v].pc \in Executing
      BY <3>1 DEF ExecutedByWorker
    <3> QED BY SMTT(30), <2>0, <3>1, <3>2
  <2> QED BY <2>1, <2>2, <2>3, <2>4, <2>5
<1>13. ASSUME Finish PROVE AsyncInv'
  <2>1. AsyncTypeOK'
    BY Zenon, <1>13 DEF Finish, Control, AsyncTypeOK
  <2>2. LockHeld'
    BY <1>13 DEF Finish, Control, AsyncTypeOK, LockHeld
  <2>3. Tested'
    BY <1>13 DEF Finish, Control, LockHeld, Tested, NoOperation
  <2>4. ShuttingDown'
    BY <1>13 DEF Finish, Control, AsyncTypeOK, ShuttingDown
  <2>5. ExecutedByWorker'
    BY <1>13 DEF Finish, Control, AsyncTypeOK, ExecutedByWorker
  <2> QED BY <2>1, <2>2, <2>3, <2>4, <2>5
<1>14. ASSUME Close PROVE AsyncInv'
  <2>1. AsyncTypeOK'
    BY Zenon, <1>14 DEF Close, Control, AsyncTypeOK
  <2>2. LockHeld'
    BY <1>14 DEF Close, Control, AsyncTypeOK, LockHeld
  <2>3. Tested'
    BY <1>14 DEF Close, Control, LockHeld, Tested, NoOperation
  <2>4. ShuttingDown'
    BY <1>14 DEF Close, Control, AsyncTypeOK, ShuttingDown
  <2>5. ExecutedByWorker'
    BY <1>14 DEF Close, Control, AsyncTypeOK, ExecutedByWorker
  <2> QED BY <2>1, <2>2, <2>3, <2>4, <2>5
<1>15. ASSUME BeginCancelAll PROVE AsyncInv'
  <2>1. AsyncTypeOK'
    BY ZenonT(60), <1>15 DEF BeginCancelAll, ToCancel, AsyncTypeOK
  <2>2. LockHeld'
    BY <1>15, AsyncRPCQueueAssumption DEF BeginCancelAll, LockHeld
  <2>3. Tested'
    BY <1>15 DEF BeginCancelAll, ToCancel, LockHeld, Tested, NoOperation
  <2>4. ShuttingDown'
    BY <1>15 DEF BeginCancelAll, ToCancel, AsyncTypeOK, ShuttingDown
  <2>5. ExecutedByWorker'
    BY <1>15 DEF BeginCancelAll, ToCancel, AsyncTypeOK, ExecutedByWorker
  <2> QED BY <2>1, <2>2, <2>3, <2>4, <2>5
<1>16. ASSUME NEW o \in Ops, TestReady(o) PROVE AsyncInv'
  <2>1. AsyncTypeOK'
    BY Zenon, <1>16 DEF TestReady, AsyncTypeOK
  <2>2. LockHeld'
    BY <1>16 DEF TestReady, AsyncTypeOK, LockHeld
  <2>3. Tested'
    BY <1>16 DEF TestReady, LockHeld, Tested, NoOperation
  <2>4. ShuttingDown'
    <3>1. /\ control.pc = "cancel" /\ control'.pc = "cancel" /\ control.ready = NONE
          /\ control'.todo = control.todo \ {o}
          /\ control'.ready = IF state[o] = "READY" THEN o ELSE NONE
          /\ UNCHANGED <<closed, operation_map, state, worker, poll>>
      BY <1>16 DEF TestReady, AsyncTypeOK
    <3> QED BY <3>1, AsyncRPCQueueAssumption DEF ShuttingDown, AsyncTypeOK
  <2>5. ExecutedByWorker'
    BY <1>16 DEF TestReady, AsyncTypeOK, ExecutedByWorker
  <2> QED BY <2>1, <2>2, <2>3, <2>4, <2>5
<1>17. ASSUME SetCancelled PROVE AsyncInv'
  <2>1. AsyncTypeOK'
    BY Zenon, <1>17 DEF SetCancelled, AsyncTypeOK
  <2>2. LockHeld'
    BY <1>17 DEF SetCancelled, AsyncTypeOK, LockHeld
  <2>3. Tested'
    BY <1>17 DEF SetCancelled, LockHeld, Tested, NoOperation
  <2>4. ShuttingDown'
    BY <1>17 DEF SetCancelled, AsyncTypeOK, ShuttingDown
  <2>5. ExecutedByWorker'
    BY SMTT(30), <1>17 DEF SetCancelled, AsyncTypeOK, ExecutedByWorker
  <2> QED BY <2>1, <2>2, <2>3, <2>4, <2>5
<1>18. ASSUME EndCancelAll PROVE AsyncInv'
  <2>0. /\ worker' \in WorkerStates
        /\ \A v \in Workers :
              /\ worker'[v].op = worker[v].op
              /\ worker'[v].pc = worker[v].pc \/ (worker[v].pc = "waiting" /\ worker'[v].pc = "begin")
        /\ control.pc = "cancel" /\ control.todo = {} /\ control.ready = NONE /\ lock' = NONE /\ Control("notify")
        /\ UNCHANGED <<operation_id_queue, operation_map, closed, finish, state, runs, poll>>
    BY <1>18, WakeMoves DEF EndCancelAll
  <2>1. AsyncTypeOK'
    BY Zenon, <2>0 DEF Control, AsyncTypeOK, WorkerStates
  <2>2. LockHeld'
    BY <2>0, AsyncRPCQueueAssumption DEF LockHeld, Control
  <2>3. Tested'
    BY <2>0 DEF Control, LockHeld, Tested, NoOperation
  <2>4. ShuttingDown'
    <3>1. control'.pc = "notify"
      BY ZenonT(60), <2>0 DEF Control, AsyncTypeOK
    <3> QED BY <2>0, <3>1, AsyncRPCQueueAssumption DEF ShuttingDown, AsyncTypeOK
  <2>5. ExecutedByWorker'
    BY <2>0 DEF ExecutedByWorker
  <2> QED BY <2>1, <2>2, <2>3, <2>4, <2>5
<1>19. ASSUME NotifyWorkers PROVE AsyncInv'
  <2>0. /\ worker' \in WorkerStates
        /\ \A v \in Workers :
              /\ worker'[v].op = worker[v].op
              /\ worker'[v].pc = worker[v].pc \/ (worker[v].pc = "waiting" /\ worker'[v].pc = "begin")
        /\ control.pc = "notify" /\ lock = NONE /\ Control("join")
        /\ UNCHANGED <<lock, operation_id_queue, operation_map, closed, finish, state, runs, poll>>
    BY <1>19, WakeMoves DEF NotifyWorkers, NotifiedAll
  <2>1. AsyncTypeOK'
    BY Zenon, <2>0 DEF Control, AsyncTypeOK, WorkerStates
  <2>2. LockHeld'
    BY <2>0, AsyncRPCQueueAssumption DEF LockHeld, Control
  <2>3. Tested'
    BY <2>0 DEF Control, LockHeld, Tested, NoOperation
  <2>4. ShuttingDown'
    BY <2>0 DEF Control, AsyncTypeOK, ShuttingDown
  <2>5. ExecutedByWorker'
    BY <2>0 DEF ExecutedByWorker
  <2> QED BY <2>1, <2>2, <2>3, <2>4, <2>5
<1>20. ASSUME JoinWorkers PROVE AsyncInv'
  <2>1. AsyncTypeOK'
    BY Zenon, <1>20 DEF JoinWorkers, Control, At, AsyncTypeOK
  <2>2. LockHeld'
    BY <1>20 DEF JoinWorkers, Control, At, AsyncTypeOK, LockHeld
  <2>3. Tested'
    BY <1>20 DEF JoinWorkers, Control, At, LockHeld, Tested, NoOperation
  <2>4. ShuttingDown'
    BY <1>20 DEF JoinWorkers, Control, At, AsyncTypeOK, ShuttingDown
  <2>5. ExecutedByWorker'
    BY SMTT(30), <1>20 DEF JoinWorkers, Control, At, AsyncTypeOK, ExecutedByWorker
  <2> QED BY <2>1, <2>2, <2>3, <2>4, <2>5
<1>21. ASSUME NEW o \in Ops, GetStatus(o) PROVE AsyncInv'
  <2>1. AsyncTypeOK'
    BY <1>21 DEF GetStatus, AsyncTypeOK
  <2>2. LockHeld'
    BY <1>21 DEF GetStatus, AsyncTypeOK, LockHeld
  <2>3. Tested'
    BY <1>21 DEF GetStatus, LockHeld, Tested, NoOperation
  <2>4. ShuttingDown'
    BY ZenonT(60), <1>21 DEF GetStatus, AsyncTypeOK, ShuttingDown
  <2>5. ExecutedByWorker'
    BY <1>21 DEF GetStatus, AsyncTypeOK, ExecutedByWorker
  <2> QED BY <2>1, <2>2, <2>3, <2>4, <2>5
<1>22. ASSUME TestFinished PROVE AsyncInv'
  <2>1. AsyncTypeOK'
    BY ZenonT(60), <1>22 DEF TestFinished, NoPoll, AsyncTypeOK
  <2>2. LockHeld'
    BY <1>22 DEF TestFinished, NoPoll, AsyncTypeOK, LockHeld
  <2>3. Tested'
    BY <1>22 DEF TestFinished, NoPoll, LockHeld, Tested, NoOperation
  <2>4. ShuttingDown'
    BY <1>22 DEF TestFinished, NoPoll, AsyncTypeOK, ShuttingDown
  <2>5. ExecutedByWorker'
    BY <1>22 DEF TestFinished, NoPoll, AsyncTypeOK, ExecutedByWorker
  <2> QED BY <2>1, <2>2, <2>3, <2>4, <2>5
<1>23. ASSUME PopOperation PROVE AsyncInv'
  <2>1. AsyncTypeOK'
    BY <1>23 DEF PopOperation, NoPoll, AsyncTypeOK
  <2>2. LockHeld'
    BY <1>23 DEF PopOperation, NoPoll, AsyncTypeOK, LockHeld
  <2>3. Tested'
    BY <1>23 DEF PopOperation, NoPoll, LockHeld, Tested, NoOperation
  <2>4. ShuttingDown'
    BY <1>23 DEF PopOperation, NoPoll, AsyncTypeOK, ShuttingDown
  <2>5. ExecutedByWorker'
    BY SMTT(30), <1>23 DEF PopOperation, NoPoll, AsyncTypeOK, ExecutedByWorker
  <2> QED BY <2>1, <2>2, <2>3, <2>4, <2>5
<1>24. ASSUME UNCHANGED asyncVars PROVE AsyncInv'
  <2>1. AsyncTypeOK'
    BY <1>24 DEF AsyncTypeOK
  <2>2. LockHeld'
    BY <1>24 DEF AsyncTypeOK, LockHeld
  <2>3. Tested'
    BY <1>24 DEF LockHeld, Tested, NoOperation
  <2>4. ShuttingDown'
    BY <1>24 DEF AsyncTypeOK, ShuttingDown
  <2>5. ExecutedByWorker'
    BY Zenon, <1>24 DEF AsyncTypeOK, ExecutedByWorker
  <2> QED BY <2>1, <2>2, <2>3, <2>4, <2>5
<1> QED BY Zenon, <1>1, <1>2, <1>3, <1>4, <1>5, <1>6, <1>7, <1>8, <1>9, <1>10, <1>11, <1>12, <1>13, <1>14, <1>15, <1>16, <1>17, <1>18, <1>19, <1>20, <1>21, <1>22, <1>23, <1>24
   DEF AsyncNext, Run, Shutdown, GetOperationResult

-----------------------------------------------------------------------------
(* Until the queue is closed.                                                *)

(* Steps that move no operation from one place to another.                   *)
LEMMA PlacesKept ==
    ASSUME OnePlace, Collected', UNCHANGED <<operation_id_queue, operation_map, state, runs>>,
           \A v \in Workers, o \in Ops : Has(v, o)' <=> Has(v, o),
           \A v \in Workers, o \in Ops : Has(v, o) => worker'[v].pc = worker[v].pc
                                                  \/ (worker'[v].pc \in Pending /\ worker[v].pc \in Pending)
    PROVE  OnePlace'
<1>1. \A o \in Ops : Waits(o)' <=> Waits(o)
  BY SMTT(30) DEF Waits
<1>2. ASSUME NEW o \in Ops PROVE Placed(o)'
  BY <1>1 DEF OnePlace, Placed
<1>3. ASSUME NEW w \in Workers, NEW o \in Ops PROVE OperationHeld(w, o)'
  BY ZenonT(60) DEF OnePlace, OperationHeld
<1>4. Uncancelled' /\ QueuedOnce'
  BY DEF OnePlace, Uncancelled, QueuedOnce
<1> QED BY <1>2, <1>3, <1>4 DEF OnePlace

(* Steps of the worker that has o.                                           *)
LEMMA HolderSteps ==
    ASSUME AsyncTypeOK, OnePlace, UNCHANGED <<operation_id_queue, operation_map, poll>>,
           NEW w \in Workers, NEW o \in Ops, Has(w, o), worker'[w].op = o,
           \A v \in Workers : v # w => worker'[v] = worker[v],
           \A q \in Ops : q # o => state'[q] = state[q] /\ runs'[q] = runs[q],
           state[o] \notin {"SUCCESS", "FAILED"},
           \/ worker'[w].pc = "impl" /\ state'[o] = "EXECUTING" /\ runs'[o] = 0
           \/ worker'[w].pc = "end" /\ state'[o] = "EXECUTING" /\ runs'[o] = 1
           \/ worker'[w].pc = "begin" /\ state'[o] \in {"SUCCESS", "FAILED"} /\ runs'[o] = 1
    PROVE  OnePlace'
<1>1. o \in operation_map /\ \A v \in Workers : Has(v, o) => v = w
  BY DEF OnePlace, OperationHeld
<1>2. \A v \in Workers, q \in Ops : Has(v, q)' <=> Has(v, q) /\ (v = w => worker'[w].pc # "begin")
  BY DEF Has
<1>3. \A q \in Ops : Waits(q)' <=> Waits(q)
  BY SMTT(30) DEF Waits
<1>4. ~Waits(o)
  BY DEF OnePlace, Placed
<1>5. \A q \in Ops : Has(w, q) => q = o
  BY DEF Has
<1>6. Uncancelled'
  <2> SUFFICES ASSUME NEW q \in Ops PROVE state'[q] # "CANCELLED"
    BY DEF Uncancelled
  <2>1. CASE q = o
    BY <2>1
  <2>2. CASE q # o
    BY <2>2 DEF OnePlace, Uncancelled
  <2> QED BY <2>1, <2>2
<1>7. QueuedOnce'
  BY DEF OnePlace, QueuedOnce
<1>8. Collected'
  <2> SUFFICES ASSUME poll.pc = "pop" PROVE state'[poll.op] \in {"SUCCESS", "FAILED"}
    BY DEF Collected
  <2>1. poll.op \in Ops /\ state[poll.op] \in {"SUCCESS", "FAILED"}
    BY DEF OnePlace, Collected, AsyncTypeOK
  <2> QED BY <2>1
<1>9. ASSUME NEW q \in Ops PROVE Placed(q)'
  <2>1. CASE q = o
    <3>1. ~Waits(o)' /\ state'[o] # "READY"
      BY <1>3, <1>4
    <3>2. (\A v \in Workers : ~Has(v, o)') => worker'[w].pc = "begin"
      BY <1>2
    <3>3. (\A v \in Workers : ~Has(v, o)') => runs'[o] = 1 /\ state'[o] \in {"SUCCESS", "FAILED"}
      BY ZenonT(60), <3>2
    <3> QED BY Zenon, <2>1, <3>1, <3>3 DEF Placed
  <2>2. CASE q # o
    <3>1. \A v \in Workers : Has(v, q)' <=> Has(v, q)
      BY Zenon, <1>2, <1>5, <2>2
    <3>2. Placed(q) /\ (Waits(q)' <=> Waits(q)) /\ state'[q] = state[q] /\ runs'[q] = runs[q]
      BY SMTT(30), <1>3, <2>2 DEF OnePlace
    <3>3. operation_map' = operation_map
      OBVIOUS
    <3> QED BY <3>1, <3>2, <3>3 DEF Placed
  <2> QED BY <2>1, <2>2
<1>10. ASSUME NEW v \in Workers, NEW q \in Ops PROVE OperationHeld(v, q)'
  <2>0. operation_map' = operation_map
    OBVIOUS
  <2>1. CASE v = w
    <3>1. \A u \in Workers : Has(u, o)' => u = w
      BY <1>1, <1>2
    <3>2. Has(w, q)' => q = o /\ worker'[w].pc # "begin"
      BY ZenonT(60), <1>2, <1>5
    <3> QED BY <1>1, <2>0, <2>1, <3>1, <3>2 DEF OperationHeld
  <2>2. CASE v # w
    <3>1. Has(v, q)' => q # o /\ Has(v, q) /\ worker'[v] = worker[v]
      BY ZenonT(60), <1>1, <1>2, <2>2
    <3>2. Has(v, q) => \A u \in Workers : Has(u, q) => u = v
      BY DEF OnePlace, OperationHeld
    <3>3. Has(v, q)' => \A u \in Workers : Has(u, q)' => u = v
      BY <1>2, <3>1, <3>2
    <3>4. OperationHeld(v, q) /\ (q # o => state'[q] = state[q] /\ runs'[q] = runs[q])
      BY SMTT(30) DEF OnePlace
    <3> QED BY <2>0, <3>1, <3>3, <3>4 DEF OperationHeld
  <2> QED BY ZenonT(60), <2>1, <2>2
<1> QED BY <1>6, <1>7, <1>8, <1>9, <1>10 DEF OnePlace

(* Every step preserves the places, for as long as the queue is open.        *)
LEMMA OpenStep == AsyncInv /\ OpenInv /\ [AsyncNext]_asyncVars => OpenInv'
<1> SUFFICES ASSUME AsyncInv, OpenInv, [AsyncNext]_asyncVars, ~closed' PROVE OnePlace'
  BY DEF OpenInv
<1>0. ~closed
  BY Zenon DEF AsyncNext, Run, Shutdown, GetOperationResult, AddOperation, GetStatus, Lock, TestQueue, WaitForOperation, TestFinishing,
     TestClosed, TakeOperation, TestCancelled, SetExecuting, MainImpl, SetFinished, SpuriousWorkerWake, Finish, Close,
     BeginCancelAll, TestReady, SetCancelled, EndCancelAll, NotifyWorkers, JoinWorkers, TestFinished, PopOperation
<1>i. AsyncTypeOK /\ ShuttingDown /\ OnePlace
  BY Zenon, <1>0 DEF OpenInv, AsyncInv
<1> USE <1>0, <1>i
<1>t. /\ operation_id_queue \in Seq(Ops) /\ worker \in WorkerStates
      /\ state \in [Ops -> {"READY", "EXECUTING"} \cup Finished] /\ runs \in [Ops -> Nat]
  BY DEF AsyncTypeOK
<1>h. \A w \in Workers, o \in Ops : OperationHeld(w, o)
  BY DEF OnePlace
<1>p. \A o \in Ops : Placed(o)
  BY DEF OnePlace
<1>u. Uncancelled /\ QueuedOnce /\ Collected
  BY DEF OnePlace
<1>1. ASSUME NEW o \in Ops, AddOperation(o) PROVE OnePlace'
  <2>1. \A v \in Workers : worker'[v].op = worker[v].op /\
          (worker'[v].pc = worker[v].pc \/ (worker[v].pc = "waiting" /\ worker'[v].pc = "begin"))
    BY <1>1, WakeMoves DEF AddOperation, OneWaiting
  <2>2. /\ operation_map' = operation_map \cup {o} /\ operation_id_queue' = Append(operation_id_queue, o)
        /\ o \notin operation_map /\ state[o] = "READY" /\ UNCHANGED <<state, runs, poll>>
    BY <1>1 DEF AddOperation
  <2>3. \A v \in Workers, q \in Ops : (Has(v, q)' <=> Has(v, q)) /\ (Has(v, q) => worker'[v].pc = worker[v].pc)
    BY ZenonT(60), <2>1 DEF Has
  <2>4. ~Waits(o) /\ \A v \in Workers : ~Has(v, o)
    BY <1>h, <1>p, <2>2 DEF Placed, OperationHeld
  <2>5. /\ Len(operation_id_queue') = Len(operation_id_queue) + 1
        /\ \A i \in 1..Len(operation_id_queue) : operation_id_queue'[i] = operation_id_queue[i]
        /\ operation_id_queue'[Len(operation_id_queue) + 1] = o
        /\ Len(operation_id_queue) \in Nat
    BY <2>2, <1>t, AppendProperties, LenProperties
  <2>6. \A q \in Ops : Waits(q)' <=> Waits(q) \/ q = o
    BY <2>5 DEF Waits
  <2>7. QueuedOnce'
    BY <1>u, <2>4, <2>5 DEF QueuedOnce, Waits
  <2>8. Uncancelled' /\ Collected'
    BY <1>u, <2>2 DEF Uncancelled, Collected
  <2>9. ASSUME NEW q \in Ops PROVE Placed(q)'
    <3>1. Placed(q) /\ state' = state /\ runs' = runs /\ operation_map' = operation_map \cup {o}
      BY ZenonT(60), <1>p, <2>2
    <3> QED BY Zenon, <2>2, <2>3, <2>4, <2>6, <3>1 DEF Placed
  <2>10. ASSUME NEW v \in Workers, NEW q \in Ops PROVE OperationHeld(v, q)'
    <3>1. OperationHeld(v, q) /\ state' = state /\ runs' = runs /\ operation_map' = operation_map \cup {o}
      BY <1>h, <2>2
    <3> QED BY <2>3, <3>1 DEF OperationHeld
  <2> QED BY ZenonT(60), <2>7, <2>8, <2>9, <2>10 DEF OnePlace
<1>2. ASSUME NEW w \in Workers, TakeOperation(w) PROVE OnePlace'
  <2>1. worker[w].pc = "take" /\ operation_id_queue # <<>> /\ operation_id_queue' = Tail(operation_id_queue)
        /\ operation_map' = operation_map /\ state' = state /\ runs' = runs /\ poll' = poll
    BY <1>2 DEF TakeOperation, At
  <2>2. PICK o \in Ops : o = Head(operation_id_queue)
    BY <2>1, <1>t, HeadTailProperties
  <2>3. /\ o = operation_id_queue[1] /\ Len(operation_id_queue) \in Nat \ {0}
        /\ Len(operation_id_queue') = Len(operation_id_queue) - 1
        /\ \A i \in 1..Len(operation_id_queue') : operation_id_queue'[i] = operation_id_queue[i + 1]
    BY SMTT(30), <2>1, <2>2, <1>t, HeadTailProperties, LenProperties, EmptySeq
  <2>4. o \in operation_map /\ state[o] = "READY" /\ runs[o] = 0 /\ \A v \in Workers : ~Has(v, o)
    <3>1. Waits(o)
      BY <2>3 DEF Waits
    <3> QED BY <1>p, <3>1 DEF Placed
  <2>5. \A v \in Workers : v # w => worker'[v] = worker[v]
    BY <1>2, <1>t DEF TakeOperation, WorkerStates
  <2>6. worker'[w].pc = "test" /\ worker'[w].op = o
    BY <1>2, <2>2, <2>4, <1>t DEF TakeOperation, WorkerStates
  <2>7. \A v \in Workers, q \in Ops : Has(v, q)' <=> (v = w /\ q = o) \/ (v # w /\ Has(v, q))
    BY <2>5, <2>6 DEF Has
  <2>8. \A q \in Ops : ~Has(w, q)
    BY <2>1 DEF Has
  <2>9. \A q \in Ops : Waits(q)' <=> Waits(q) /\ q # o
    <3> SUFFICES ASSUME NEW q \in Ops PROVE Waits(q)' <=> Waits(q) /\ q # o
      OBVIOUS
    <3>1. ASSUME Waits(q)' PROVE Waits(q) /\ q # o
      <4>1. PICK i \in 1..Len(operation_id_queue') : operation_id_queue'[i] = q
        BY <3>1 DEF Waits
      <4>2. i + 1 \in 1..Len(operation_id_queue) /\ operation_id_queue[i + 1] = q /\ i + 1 # 1
        BY <2>3, <4>1
      <4>3. 1 \in 1..Len(operation_id_queue)
        BY <2>3
      <4> QED BY <1>u, <2>3, <4>2, <4>3 DEF Waits, QueuedOnce
    <3>2. ASSUME Waits(q), q # o PROVE Waits(q)'
      <4>1. PICK i \in 1..Len(operation_id_queue) : operation_id_queue[i] = q
        BY <3>2 DEF Waits
      <4>2. i - 1 \in 1..Len(operation_id_queue') /\ (i - 1) + 1 = i
        BY <2>3, <3>2, <4>1
      <4> QED BY Zenon, <2>3, <4>1, <4>2 DEF Waits
    <3> QED BY <3>1, <3>2
  <2>10. QueuedOnce'
    <3> SUFFICES ASSUME NEW i \in 1..Len(operation_id_queue'), NEW j \in 1..Len(operation_id_queue'),
                        operation_id_queue'[i] = operation_id_queue'[j]
                 PROVE  i = j
      BY DEF QueuedOnce
    <3>1. i + 1 \in 1..Len(operation_id_queue) /\ j + 1 \in 1..Len(operation_id_queue)
          /\ operation_id_queue[i + 1] = operation_id_queue[j + 1]
      BY <2>3
    <3>2. i + 1 = j + 1
      BY Zenon, <1>u, <3>1 DEF QueuedOnce
    <3> QED BY <3>2
  <2>11. Uncancelled' /\ Collected'
    BY <1>u, <2>1 DEF Uncancelled, Collected
  <2>12. ASSUME NEW q \in Ops PROVE Placed(q)'
    <3>1. Placed(q)
      BY ZenonT(60), <1>p
    <3>2. CASE q = o
      BY ZenonT(60), <2>1, <2>4, <2>7, <2>9, <3>2 DEF Placed
    <3>3. CASE q # o
      <4>1. (Waits(q)' <=> Waits(q)) /\ \A v \in Workers : Has(v, q)' <=> Has(v, q)
        BY <2>7, <2>8, <2>9, <3>3
      <4> QED BY Zenon, <2>1, <3>1, <4>1 DEF Placed
    <3> QED BY <3>2, <3>3
  <2>13. ASSUME NEW v \in Workers, NEW q \in Ops PROVE OperationHeld(v, q)'
    <3>1. CASE v = w
      <4>1. Has(v, q)' => q = o /\ \A u \in Workers : Has(u, q)' => u = v
        BY ZenonT(60), <2>4, <2>7, <3>1
      <4> QED BY Zenon, <2>1, <2>4, <2>6, <3>1, <4>1 DEF OperationHeld
    <3>2. CASE v # w
      <4>1. Has(v, q)' => Has(v, q) /\ q # o /\ worker'[v] = worker[v]
        BY <2>4, <2>5, <2>7, <3>2
      <4>2. OperationHeld(v, q) /\ (Has(v, q)' => \A u \in Workers : Has(u, q)' => Has(u, q))
        BY <1>h, <2>7, <4>1
      <4> QED BY ZenonT(60), <2>1, <4>1, <4>2 DEF OperationHeld
    <3> QED BY ZenonT(60), <3>1, <3>2
  <2> QED BY <2>10, <2>11, <2>12, <2>13 DEF OnePlace
<1>3. ASSUME NEW w \in Workers, TestCancelled(w) PROVE OnePlace'
  <2>1. UNCHANGED <<operation_id_queue, operation_map, state, runs, poll>> /\ worker[w].pc \in {"test", "main"}
    BY ZenonT(60), <1>3 DEF TestCancelled, At
  <2>2. /\ worker'[w].op = worker[w].op /\ \A v \in Workers : v # w => worker'[v] = worker[v]
        /\ worker'[w].pc \in {"main", "execute"}
           \/ (worker'[w].pc = "begin" /\ (worker[w].op = NONE \/ state[worker[w].op] = "CANCELLED"))
    BY ZenonT(60), <1>3, GotoMoves DEF TestCancelled, At, WorkerLabels
  <2>3. \A o \in Ops : Has(w, o) => worker'[w].pc \in {"main", "execute"}
    BY <1>u, <2>2, AsyncRPCQueueAssumption DEF Has, Uncancelled
  <2>4. \A o \in Ops : Has(w, o)' <=> Has(w, o)
    BY <2>1, <2>2, <2>3 DEF Has
  <2>5. \A v \in Workers, o \in Ops : v # w => (Has(v, o)' <=> Has(v, o))
    BY <2>2 DEF Has
  <2>6. Collected'
    BY <1>u, <2>1 DEF Collected
  <2>7. ASSUME NEW v \in Workers, NEW o \in Ops, Has(v, o)
        PROVE  worker'[v].pc = worker[v].pc \/ (worker'[v].pc \in Pending /\ worker[v].pc \in Pending)
    BY <2>1, <2>2, <2>3, <2>7
  <2>8. \A v \in Workers, o \in Ops : Has(v, o)' <=> Has(v, o)
    BY ZenonT(60), <2>4, <2>5
  <2> QED BY Zenon, <2>1, <2>6, <2>7, <2>8, PlacesKept
<1>4. ASSUME NEW w \in Workers, SetExecuting(w) PROVE OnePlace'
  <2>1. PICK o \in Ops : o = worker[w].op
    BY ZenonT(60), <1>4 DEF SetExecuting, At, AsyncTypeOK
  <2>2. worker[w].pc = "execute" /\ state' = [state EXCEPT ![o] = "EXECUTING"]
        /\ UNCHANGED <<operation_id_queue, operation_map, poll>> /\ runs' = runs
    BY ZenonT(60), <1>4, <2>1 DEF SetExecuting, At
  <2>3. worker'[w].pc = "impl" /\ worker'[w].op = o /\ \A v \in Workers : v # w => worker'[v] = worker[v]
    BY Zenon, <1>4, <2>1, GotoMoves DEF SetExecuting, WorkerLabels
  <2>4. Has(w, o)
    BY ZenonT(60), <2>1, <2>2 DEF Has
  <2>5. state[o] = "READY" /\ runs[o] = 0
    BY <1>h, <1>p, <2>2, <2>4 DEF OperationHeld, Placed
  <2>6. state'[o] = "EXECUTING" /\ \A q \in Ops : q # o => state'[q] = state[q] /\ runs'[q] = runs[q]
    BY ZenonT(60), <1>t, <2>2
  <2> QED BY <2>2, <2>3, <2>4, <2>5, <2>6, HolderSteps
<1>5. ASSUME NEW w \in Workers, MainImpl(w) PROVE OnePlace'
  <2>1. PICK o \in Ops : o = worker[w].op
    BY <1>5 DEF MainImpl, At, AsyncTypeOK
  <2>2. worker[w].pc = "impl" /\ runs' = [runs EXCEPT ![o] = @ + 1]
        /\ UNCHANGED <<operation_id_queue, operation_map, poll>> /\ state' = state
    BY <1>5, <2>1 DEF MainImpl, At
  <2>3. worker'[w].pc = "end" /\ worker'[w].op = o /\ \A v \in Workers : v # w => worker'[v] = worker[v]
    <3>1. PICK success \in BOOLEAN : worker' = [worker EXCEPT ![w].pc = "end", ![w].success = success]
      BY Zenon, <1>5 DEF MainImpl
    <3> QED BY <1>t, <2>1, <3>1 DEF WorkerStates
  <2>4. Has(w, o)
    BY SMTT(30), <2>1, <2>2 DEF Has
  <2>5. state[o] = "EXECUTING" /\ runs[o] = 0
    BY <1>h, <2>2, <2>4 DEF OperationHeld
  <2>6. runs'[o] = 1 /\ \A q \in Ops : q # o => state'[q] = state[q] /\ runs'[q] = runs[q]
    BY SMTT(30), <1>t, <2>2, <2>5
  <2> QED BY <2>2, <2>3, <2>4, <2>5, <2>6, HolderSteps
<1>6. ASSUME NEW w \in Workers, SetFinished(w) PROVE OnePlace'
  <2>1. PICK o \in Ops : o = worker[w].op
    BY Zenon, <1>6 DEF SetFinished, At, AsyncTypeOK
  <2>2. worker[w].pc = "end" /\ UNCHANGED <<operation_id_queue, operation_map, poll>> /\ runs' = runs
        /\ (state' = [state EXCEPT ![o] = "SUCCESS"] \/ state' = [state EXCEPT ![o] = "FAILED"])
    BY Zenon, <1>6, <2>1 DEF SetFinished, At
  <2>3. worker'[w].pc = "begin" /\ worker'[w].op = o /\ \A v \in Workers : v # w => worker'[v] = worker[v]
    BY <1>6, <2>1, GotoMoves DEF SetFinished, WorkerLabels
  <2>4. Has(w, o)
    BY <2>1, <2>2 DEF Has
  <2>5. state[o] = "EXECUTING" /\ runs[o] = 1
    BY <1>h, <2>2, <2>4 DEF OperationHeld
  <2>6. state'[o] \in {"SUCCESS", "FAILED"} /\ \A q \in Ops : q # o => state'[q] = state[q] /\ runs'[q] = runs[q]
    BY <1>t, <2>2
  <2> QED BY <2>2, <2>3, <2>4, <2>5, <2>6, HolderSteps
<1>7. ASSUME PopOperation PROVE OnePlace'
  <2>1. /\ operation_map' = operation_map \ {poll.op} /\ poll'.pc = "idle" /\ poll.pc = "pop"
        /\ operation_id_queue' = operation_id_queue /\ state' = state /\ runs' = runs /\ worker' = worker
    BY <1>7 DEF PopOperation, NoPoll
  <2>2. poll.op \in Ops /\ state[poll.op] \in {"SUCCESS", "FAILED"}
    BY ZenonT(60), <1>u, <2>1 DEF Collected, AsyncTypeOK
  <2>3. ~Waits(poll.op) /\ \A v \in Workers : ~Has(v, poll.op)
    BY <1>h, <1>p, <2>2 DEF Placed, OperationHeld, Has
  <2>4. (\A q \in Ops : Waits(q)' <=> Waits(q)) /\ \A v \in Workers, q \in Ops : Has(v, q)' <=> Has(v, q)
    BY <2>1 DEF Waits, Has
  <2>5. Uncancelled' /\ QueuedOnce' /\ Collected'
    BY Zenon, <1>u, <2>1 DEF Uncancelled, QueuedOnce, Collected
  <2>6. ASSUME NEW q \in Ops PROVE Placed(q)'
    BY Zenon, <1>p, <2>1, <2>3, <2>4 DEF Placed
  <2>7. ASSUME NEW v \in Workers, NEW q \in Ops PROVE OperationHeld(v, q)'
    BY Zenon, <1>h, <2>1, <2>3, <2>4 DEF OperationHeld
  <2> QED BY <2>5, <2>6, <2>7 DEF OnePlace
<1>8. ASSUME TestFinished PROVE OnePlace'
  <2>1. /\ UNCHANGED <<operation_id_queue, operation_map, state, runs>> /\ worker' = worker
        /\ poll.pc = "test" /\ poll' = IF state[poll.op] \in Finished THEN [poll EXCEPT !.pc = "pop"] ELSE NoPoll
    BY <1>8 DEF TestFinished
  <2>2. poll'.pc = "pop" => poll'.op = poll.op /\ state[poll.op] \in Finished /\ poll.op \in Ops
    BY <2>1 DEF AsyncTypeOK, NoPoll
  <2>3. Collected'
    BY <1>u, <2>1, <2>2 DEF Uncancelled, Collected
  <2>4. \A v \in Workers, o \in Ops : (Has(v, o)' <=> Has(v, o)) /\ worker'[v].pc = worker[v].pc
    BY Zenon, <2>1 DEF Has
  <2> QED BY <2>1, <2>3, <2>4, PlacesKept
<1>9. ASSUME NEW w \in Workers, \/ Lock(w) \/ TestQueue(w) \/ WaitForOperation(w) \/ SpuriousWorkerWake(w) \/ TestFinishing(w) \/ TestClosed(w)
      PROVE  OnePlace'
  <2>1. UNCHANGED <<operation_id_queue, operation_map, state, runs, poll>>
    BY <1>9 DEF Lock, TestQueue, WaitForOperation, SpuriousWorkerWake, TestFinishing, TestClosed
  <2>2. PICK p \in WorkerLabels \ (Pending \cup Executing) : Goto(w, p)
    BY Zenon, <1>9 DEF Lock, TestQueue, WaitForOperation, SpuriousWorkerWake, TestFinishing, TestClosed, Exit, WorkerLabels
  <2>3. worker[w].pc \notin Pending \cup Executing
    BY ZenonT(60), <1>9 DEF Lock, TestQueue, WaitForOperation, SpuriousWorkerWake, TestFinishing, TestClosed, At
  <2>4. worker'[w].pc = p /\ \A v \in Workers : v # w => worker'[v] = worker[v]
    BY <2>2, GotoMoves
  <2>5. \A v \in Workers, o \in Ops : (Has(v, o)' <=> Has(v, o)) /\ (Has(v, o) => worker'[v].pc = worker[v].pc)
    BY Zenon, <2>2, <2>3, <2>4 DEF Has
  <2>6. Collected'
    BY Zenon, <1>u, <2>1 DEF Collected
  <2> QED BY SMTT(30), <2>1, <2>5, <2>6, PlacesKept
<1>10. ASSUME Finish \/ JoinWorkers \/ (\E o \in Ops : GetStatus(o)) \/ UNCHANGED asyncVars PROVE OnePlace'
  <2>1. UNCHANGED <<operation_id_queue, operation_map, state, runs>> /\ worker' = worker /\ (poll' = poll \/ poll'.pc = "test")
    BY <1>10 DEF Finish, JoinWorkers, GetStatus
  <2>2. \A v \in Workers, o \in Ops : (Has(v, o)' <=> Has(v, o)) /\ worker'[v].pc = worker[v].pc
    BY <2>1 DEF Has
  <2>3. Collected'
    BY SMTT(30), <1>u, <2>1 DEF Collected
  <2> QED BY Zenon, <2>1, <2>2, <2>3, PlacesKept
<1>11. ASSUME NotifyWorkers PROVE OnePlace'
  <2>1. \A v \in Workers : worker'[v].op = worker[v].op /\
          (worker'[v].pc = worker[v].pc \/ (worker[v].pc = "waiting" /\ worker'[v].pc = "begin"))
    BY Zenon, <1>11, WakeMoves DEF NotifyWorkers, NotifiedAll
  <2>2. UNCHANGED <<operation_id_queue, operation_map, runs>> /\ state' = state /\ poll' = poll
    BY <1>11 DEF NotifyWorkers
  <2>3. \A v \in Workers, o \in Ops : (Has(v, o)' <=> Has(v, o)) /\ (Has(v, o) => worker'[v].pc = worker[v].pc)
    BY <2>1 DEF Has
  <2>4. Collected'
    BY ZenonT(60), <1>u, <2>2 DEF Collected
  <2> QED BY <2>2, <2>3, <2>4, PlacesKept
<1>12. ~Close /\ ~BeginCancelAll /\ ~SetCancelled /\ ~EndCancelAll /\ \A o \in Ops : ~TestReady(o)
  BY Zenon DEF Close, BeginCancelAll, SetCancelled, EndCancelAll, TestReady, ShuttingDown
<1> QED BY SMTT(30), <1>1, <1>2, <1>3, <1>4, <1>5, <1>6, <1>7, <1>8, <1>9, <1>10, <1>11, <1>12
   DEF AsyncNext, Run, Shutdown, GetOperationResult

(* AsyncInv and OpenInv hold in every reachable state.                       *)
LEMMA Invariants == AsyncSpec => [](AsyncInv /\ OpenInv)
BY AsyncInvInit, AsyncInvStep, OpenStep, PTL DEF AsyncSpec

(* A worker never calls front() on an empty queue: between its tests and the *)
(* pop it holds lock_, and closed_ and finish_, which change without the     *)
(* lock, only ever change to TRUE.                                           *)
THEOREM FrontIsThere == AsyncSpec => []FrontExists
<1>1. AsyncInv => FrontExists
  BY DEF AsyncInv, Tested, FrontExists, At
<1> QED BY <1>1, Invariants, PTL

(* When closeAndWait returns no operation is left READY or EXECUTING, though *)
(* cancel() tests and sets the state in two steps, and no id is left in the  *)
(* queue.                                                                    *)
THEOREM CloseSettles == AsyncSpec => []SettledWhenJoined
<1>1. AsyncInv => SettledWhenJoined
  <2> SUFFICES ASSUME AsyncInv, control.pc = "joined"
               PROVE  (\A o \in operation_map : state[o] \in Finished) /\ operation_id_queue = <<>>
    BY DEF SettledWhenJoined
  <2>1. closed /\ \A w \in Workers : worker[w].pc = "exited"
    BY DEF AsyncInv, ShuttingDown
  <2>2. operation_id_queue = <<>>
    BY <2>1, AsyncRPCQueueAssumption DEF AsyncInv, Tested
  <2>3. ASSUME NEW o \in operation_map PROVE state[o] \in Finished
    <3>1. state[o] # "READY" /\ o \in Ops
      BY SMTT(30), <2>1 DEF AsyncInv, ShuttingDown, AsyncTypeOK
    <3>2. state[o] # "EXECUTING"
      BY <2>1, <3>1 DEF AsyncInv, ExecutedByWorker
    <3> QED BY <3>1, <3>2 DEF AsyncInv, AsyncTypeOK
  <2> QED BY <2>2, <2>3
<1> QED BY <1>1, Invariants, PTL

(* When finishAndWait returns, each operation that was accepted and not      *)
(* collected was executed exactly once, to its end.                          *)
THEOREM FinishDoesAll == AsyncSpec => []AllDoneWhenFinished
<1>1. AsyncInv /\ OpenInv => AllDoneWhenFinished
  <2> SUFFICES ASSUME AsyncInv, OpenInv, control.pc = "finished", NEW o \in operation_map
               PROVE  runs[o] = 1 /\ state[o] \in {"SUCCESS", "FAILED"}
    BY DEF AllDoneWhenFinished
  <2>1. ~closed /\ \A w \in Workers : worker[w].pc = "exited"
    BY DEF AsyncInv, ShuttingDown
  <2>2. operation_id_queue = <<>>
    BY <2>1, AsyncRPCQueueAssumption DEF AsyncInv, Tested
  <2>3. o \in Ops /\ ~Waits(o) /\ \A w \in Workers : ~Has(w, o)
    BY <2>1, <2>2 DEF AsyncInv, AsyncTypeOK, Waits, Has
  <2> QED BY Zenon, <2>1, <2>3 DEF OpenInv, OnePlace, Placed
<1> QED BY <1>1, Invariants, PTL

==============================================================================
