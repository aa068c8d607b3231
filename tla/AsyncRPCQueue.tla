---------------------------- MODULE AsyncRPCQueue ----------------------------
(***************************************************************************)
(* The queue of asynchronous RPC operations (src/src/asyncrpcqueue.cpp and *)
(* asyncrpcoperation.cpp), with its worker threads, the threads that add   *)
(* operations, the RPC call that collects results and the thread that      *)
(* shuts the queue down.                                                   *)
(*                                                                         *)
(* A critical section of lock_ that cannot block is one step.  The worker  *)
(* keeps lock_ from the test of its loop to the wait, and cancelAll        *)
(* keeps it over the whole map, so both hold it across steps; closed_,     *)
(* finish_ and the state_ of an operation are atomics that are read and    *)
(* written without it.                                                     *)
(***************************************************************************)
EXTENDS Integers, Sequences

CONSTANTS Workers, Ops, NONE

Controller == "controller"

(* Threads differ from each other.  StartRPCThreads adds a worker before   *)
(* the first operation can be added.                                       *)
ASSUME AsyncRPCQueueAssumption ==
    /\ Workers # {}
    /\ NONE \notin Workers \cup Ops \cup {Controller}
    /\ Controller \notin Workers

VARIABLES
    lock,                   \* the holder of lock_, or NONE
    operation_id_queue,
    operation_map,          \* the ids in operation_map_
    closed,
    finish,
    state,                  \* state_ of each operation
    runs,                   \* how often the work of each operation was done
    worker,                 \* per worker: pc, operation and outcome of main_impl
    control,                \* the thread in finishAndWait or closeAndWait
    poll                    \* z_getoperationresult: how far it is, and with which operation

asyncVars == <<lock, operation_id_queue, operation_map, closed, finish, state, runs, worker, control, poll>>

Finished == {"CANCELLED", "FAILED", "SUCCESS"}

NoPoll == [pc |-> "idle", op |-> NONE]

AsyncInit ==
    /\ lock = NONE
    /\ operation_id_queue = <<>>
    /\ operation_map = {}
    /\ closed = FALSE /\ finish = FALSE
    /\ state = [o \in Ops |-> "READY"]
    /\ runs = [o \in Ops |-> 0]
    /\ worker = [w \in Workers |-> [pc |-> "begin", op |-> NONE, success |-> FALSE]]
    /\ control = [pc |-> "open", todo |-> {}, ready |-> NONE]
    /\ poll = NoPoll

------------------------------------------------------------------------------
(* condition_.                                                             *)

WaitingWorkers == {w \in Workers : worker[w].pc = "waiting"}

(* The workers after those in woken were notified.                         *)
WokenWorkers(woken) == [w \in Workers |-> IF w \in woken THEN [worker[w] EXCEPT !.pc = "begin"] ELSE worker[w]]

(* Mutant: no worker is notified of a new operation.                       *)
NobodyWaiting == {{}}

(* notify_one wakes one of the waiting workers, if there is one.           *)
OneWaiting == IF WaitingWorkers = {} THEN {{}} ELSE {{w} : w \in WaitingWorkers}

(* A call after close or finish drops the operation and changes nothing.   *)
AddOperation(o) ==
    /\ lock = NONE
    /\ ~closed /\ ~finish
    /\ o \notin operation_map /\ state[o] = "READY"
    /\ operation_map' = operation_map \cup {o}
    /\ operation_id_queue' = Append(operation_id_queue, o)
    /\ \E woken \in OneWaiting : worker' = WokenWorkers(woken)
    /\ UNCHANGED <<lock, closed, finish, state, runs, control, poll>>

------------------------------------------------------------------------------
(* A worker thread in run.                                                 *)

At(w, pc) == worker[w].pc = pc

Goto(w, pc) == worker' = [worker EXCEPT ![w].pc = pc]

Lock(w) ==
    /\ At(w, "begin")
    /\ lock = NONE
    /\ lock' = w
    /\ Goto(w, "loop")
    /\ UNCHANGED <<operation_id_queue, operation_map, closed, finish, state, runs, control, poll>>

NoOperation == operation_id_queue = <<>> /\ ~closed /\ ~finish

(* The test of the inner while loop.                                       *)
TestQueue(w) ==
    /\ At(w, "loop")
    /\ Goto(w, IF NoOperation THEN "wait" ELSE "finishing")
    /\ UNCHANGED <<lock, operation_id_queue, operation_map, closed, finish, state, runs, control, poll>>

WaitForOperation(w) ==
    /\ At(w, "wait")
    /\ lock' = NONE
    /\ Goto(w, "waiting")
    /\ UNCHANGED <<operation_id_queue, operation_map, closed, finish, state, runs, control, poll>>

SpuriousWorkerWake(w) ==
    /\ At(w, "waiting")
    /\ Goto(w, "begin")
    /\ UNCHANGED <<lock, operation_id_queue, operation_map, closed, finish, state, runs, control, poll>>

Exit(w) == lock' = NONE /\ Goto(w, "exited")

(* Mutant: a worker does not exit because of finish_.                      *)
NeverFinishedUp == FALSE

(* Mutant: a worker exits as soon as finish_ is set.                       *)
FinishedUpAtOnce == finish

FinishedUp == finish /\ operation_id_queue = <<>>

TestFinishing(w) ==
    /\ At(w, "finishing")
    /\ IF FinishedUp THEN Exit(w) ELSE Goto(w, "closed") /\ UNCHANGED lock
    /\ UNCHANGED <<operation_id_queue, operation_map, closed, finish, state, runs, control, poll>>

TestClosed(w) ==
    /\ At(w, "closed")
    /\ IF closed THEN Exit(w) /\ operation_id_queue' = <<>>
       ELSE Goto(w, "take") /\ UNCHANGED <<lock, operation_id_queue>>
    /\ UNCHANGED <<operation_map, closed, finish, state, runs, control, poll>>

TakeOperation(w) ==
    /\ At(w, "take")
    /\ operation_id_queue # <<>>
    /\ LET key == Head(operation_id_queue)
       IN  worker' = [worker EXCEPT ![w].pc = "test", ![w].op = IF key \in operation_map THEN key ELSE NONE]
    /\ operation_id_queue' = Tail(operation_id_queue)
    /\ lock' = NONE
    /\ UNCHANGED <<operation_map, closed, finish, state, runs, control, poll>>

(* isCancelled is asked once by run and once by main.                      *)
TestCancelled(w) ==
    /\ At(w, "test") \/ At(w, "main")
    /\ LET op == worker[w].op
       IN  IF op = NONE THEN Goto(w, "begin")
           ELSE IF state[op] = "CANCELLED" THEN Goto(w, "begin")
           ELSE Goto(w, IF At(w, "test") THEN "main" ELSE "execute")
    /\ UNCHANGED <<lock, operation_id_queue, operation_map, closed, finish, state, runs, control, poll>>

SetExecuting(w) ==
    /\ At(w, "execute")
    /\ state' = [state EXCEPT ![worker[w].op] = "EXECUTING"]
    /\ Goto(w, "impl")
    /\ UNCHANGED <<lock, operation_id_queue, operation_map, closed, finish, runs, control, poll>>

(* main_impl, and the error or the result set after it.                    *)
MainImpl(w) ==
    /\ At(w, "impl")
    /\ runs' = [runs EXCEPT ![worker[w].op] = @ + 1]
    /\ \E success \in BOOLEAN : worker' = [worker EXCEPT ![w].pc = "end", ![w].success = success]
    /\ UNCHANGED <<lock, operation_id_queue, operation_map, closed, finish, state, control, poll>>

SetFinished(w) ==
    /\ At(w, "end")
    /\ state' = [state EXCEPT ![worker[w].op] = IF worker[w].success THEN "SUCCESS" ELSE "FAILED"]
    /\ Goto(w, "begin")
    /\ UNCHANGED <<lock, operation_id_queue, operation_map, closed, finish, runs, control, poll>>

Run(w) ==
    \/ Lock(w)
    \/ TestQueue(w)
    \/ WaitForOperation(w)
    \/ TestFinishing(w)
    \/ TestClosed(w)
    \/ TakeOperation(w)
    \/ TestCancelled(w)
    \/ SetExecuting(w)
    \/ MainImpl(w)
    \/ SetFinished(w)

------------------------------------------------------------------------------
(* finishAndWait, and closeAndWait, which the destructor calls as well.    *)

Control(pc) == control' = [control EXCEPT !.pc = pc]

Finish ==
    /\ control.pc = "open"
    /\ finish' = TRUE
    /\ Control("notify")
    /\ UNCHANGED <<lock, operation_id_queue, operation_map, closed, state, runs, worker, poll>>

(* StopRPCThreads has joined the threads that run RPC calls by now.        *)
Close ==
    /\ control.pc \in {"open", "finished"}
    /\ poll.pc = "idle"
    /\ closed' = TRUE
    /\ Control("cancelAll")
    /\ UNCHANGED <<lock, operation_id_queue, operation_map, finish, state, runs, worker, poll>>

(* Mutant: close does not cancel the operations.                           *)
ToCancelNone == {}

ToCancel == operation_map

BeginCancelAll ==
    /\ control.pc = "cancelAll"
    /\ lock = NONE
    /\ lock' = Controller
    /\ control' = [pc |-> "cancel", todo |-> ToCancel, ready |-> NONE]
    /\ UNCHANGED <<operation_id_queue, operation_map, closed, finish, state, runs, worker, poll>>

(* cancel of one operation: isReady, then set_state.                       *)
TestReady(o) ==
    /\ control.pc = "cancel"
    /\ control.ready = NONE
    /\ o \in control.todo
    /\ control' = [control EXCEPT !.todo = @ \ {o}, !.ready = IF state[o] = "READY" THEN o ELSE NONE]
    /\ UNCHANGED <<lock, operation_id_queue, operation_map, closed, finish, state, runs, worker, poll>>

SetCancelled ==
    /\ control.pc = "cancel"
    /\ control.ready # NONE
    /\ state' = [state EXCEPT ![control.ready] = "CANCELLED"]
    /\ control' = [control EXCEPT !.ready = NONE]
    /\ UNCHANGED <<lock, operation_id_queue, operation_map, closed, finish, runs, worker, poll>>

EndCancelAll ==
    /\ control.pc = "cancel"
    /\ control.todo = {} /\ control.ready = NONE
    /\ worker' = WokenWorkers(WaitingWorkers)
    /\ lock' = NONE
    /\ Control("notify")
    /\ UNCHANGED <<operation_id_queue, operation_map, closed, finish, state, runs, poll>>

(* Mutant: the workers are joined without a notification.                  *)
NotifiedNone == worker

NotifiedAll == WokenWorkers(WaitingWorkers)

(* wait_for_worker_threads.                                                *)
NotifyWorkers ==
    /\ control.pc = "notify"
    /\ lock = NONE
    /\ worker' = NotifiedAll
    /\ Control("join")
    /\ UNCHANGED <<lock, operation_id_queue, operation_map, closed, finish, state, runs, poll>>

JoinWorkers ==
    /\ control.pc = "join"
    /\ \A w \in Workers : At(w, "exited")
    /\ Control(IF closed THEN "joined" ELSE "finished")
    /\ UNCHANGED <<lock, operation_id_queue, operation_map, closed, finish, state, runs, worker, poll>>

Shutdown ==
    \/ BeginCancelAll
    \/ \E o \in Ops : TestReady(o)
    \/ SetCancelled
    \/ EndCancelAll
    \/ NotifyWorkers
    \/ JoinWorkers

------------------------------------------------------------------------------
(* z_getoperationresult, for one of the ids it goes through.  It holds     *)
(* cs_main and cs_wallet, so there is one such call at a time.             *)

(* getStatus, which changes nothing, before isSuccess, isFailed and        *)
(* isCancelled decide whether the operation is removed.                    *)
GetStatus(o) ==
    /\ poll.pc = "idle"
    /\ control.pc = "open"
    /\ lock = NONE
    /\ o \in operation_map
    /\ poll' = [pc |-> "test", op |-> o]
    /\ UNCHANGED <<lock, operation_id_queue, operation_map, closed, finish, state, runs, worker, control>>

TestFinished ==
    /\ poll.pc = "test"
    /\ poll' = IF state[poll.op] \in Finished THEN [poll EXCEPT !.pc = "pop"] ELSE NoPoll
    /\ UNCHANGED <<lock, operation_id_queue, operation_map, closed, finish, state, runs, worker, control>>

PopOperation ==
    /\ poll.pc = "pop"
    /\ lock = NONE
    /\ operation_map' = operation_map \ {poll.op}
    /\ poll' = NoPoll
    /\ UNCHANGED <<lock, operation_id_queue, closed, finish, state, runs, worker, control>>

GetOperationResult == TestFinished \/ PopOperation

AsyncNext ==
    \/ \E o \in Ops : AddOperation(o) \/ GetStatus(o)
    \/ \E w \in Workers : Run(w) \/ SpuriousWorkerWake(w)
    \/ Finish
    \/ Close
    \/ Shutdown
    \/ GetOperationResult
    \/ control.pc = "joined" /\ UNCHANGED asyncVars

(* Every thread that can run runs, and one that waits for lock_ gets it in *)
(* the end; main_impl returns.  Nobody has to add, poll, finish or close.  *)
AsyncFairness ==
    /\ \A w \in Workers : SF_asyncVars(Run(w))
    /\ SF_asyncVars(Shutdown)
    /\ SF_asyncVars(GetOperationResult)

AsyncSpec == AsyncInit /\ [][AsyncNext]_asyncVars /\ AsyncFairness

------------------------------------------------------------------------------
(* Properties.                                                             *)

(* operation_id_queue_.front() is only called on a queue that is not       *)
(* empty, whatever woke the worker and whoever else took operations or set *)
(* closed_ and finish_ in between.                                         *)
FrontExists == \A w \in Workers : At(w, "take") => operation_id_queue # <<>>

(* The test of closing with operations under way (rpc_wallet_tests.cpp):   *)
(* when closeAndWait returns, every operation that was accepted and not    *)
(* collected has finished or was cancelled, and the queue is empty.        *)
SettledWhenJoined ==
    control.pc = "joined" =>
        /\ \A o \in operation_map : state[o] \in Finished
        /\ operation_id_queue = <<>>

(* The test of finishing: when finishAndWait returns, every operation that *)
(* was accepted has been done.                                             *)
AllDoneWhenFinished ==
    control.pc = "finished" => \A o \in operation_map : runs[o] = 1 /\ state[o] \in {"SUCCESS", "FAILED"}

(* closeAndWait and finishAndWait return: no worker sleeps through them.   *)
ShutdownReturns == (closed \/ finish) ~> control.pc \in {"joined", "finished"}

(* An accepted operation is finished or cancelled in the end.              *)
OperationsEnd == \A o \in Ops : o \in operation_map ~> state[o] \in Finished

=============================================================================
