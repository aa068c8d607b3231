----------------------------- MODULE CheckQueue -----------------------------
(***************************************************************************)
(* CCheckQueue (src/src/checkqueue.h): script checks of a block are pushed *)
(* on a stack by one master thread and evaluated by the worker threads and *)
(* by the master itself, which joins them in Wait().  A check is modelled  *)
(* by its outcome, a Boolean.  The critical section of Loop() is cut in    *)
(* two steps, the clean-up on entry and the decision that ends it, with    *)
(* the mutex held in between (pc = "locked").                              *)
(***************************************************************************)
EXTENDS Integers, Sequences, FiniteSets, FiniteSetsExt

CONSTANTS Workers,      \* threads running ThreadScriptCheck
          Master,       \* the thread running ConnectBlock
          nBatchSize,   \* most checks one thread takes at a time
          MaxAdd,       \* bound: checks passed to one Add
          MaxChecks,    \* bound: checks added under one control object
          MaxRounds     \* bound: control objects constructed one after another

ASSUME CheckQueueAssumption ==
    /\ IsFiniteSet(Workers) /\ Master \notin Workers
    /\ nBatchSize \in Nat \ {0}
    /\ MaxAdd \in Nat /\ MaxChecks \in Nat /\ MaxRounds \in Nat

Threads == Workers \cup {Master}

VARIABLES queue,     \* the shared stack of checks
          nIdle, nTotal, fAllOk, nTodo,   \* the counters under the mutex
          pc,        \* where each thread is in Loop(), or outside it
          vChecks,   \* the batch a thread holds (empty before its first one)
          fOk,       \* the local result of a thread's batch
          added,     \* history: outcomes of all checks added this round
          result,    \* what the last Wait() returned
          rounds     \* control objects constructed so far

checkVars == <<queue, nIdle, nTotal, fAllOk, nTodo, pc, vChecks, fOk, added, result, rounds>>

CheckInit ==
    /\ queue = <<>> /\ nIdle = 0 /\ nTotal = 0 /\ fAllOk = TRUE /\ nTodo = 0
    /\ pc = [t \in Threads |-> IF t = Master THEN "none" ELSE "top"]
    /\ vChecks = [t \in Threads |-> <<>>]
    /\ fOk = [t \in Threads |-> TRUE]
    /\ added = <<>> /\ result = TRUE /\ rounds = 0

MutexFree == \A t \in Threads : pc[t] # "locked"
Waiting(S) == {t \in S : pc[t] = "wait"}

-----------------------------------------------------------------------------
(* The master: CCheckQueueControl, Add and Wait. *)

IsIdle == nTotal = nIdle /\ nTodo = 0 /\ fAllOk

\* CCheckQueueControl's constructor; its assertion is ControlFindsQueueIdle.
NewControl ==
    /\ pc[Master] = "none" /\ MutexFree /\ rounds < MaxRounds
    /\ pc' = [pc EXCEPT ![Master] = "open"]
    /\ rounds' = rounds + 1 /\ added' = <<>>
    /\ UNCHANGED <<queue, nIdle, nTotal, fAllOk, nTodo, vChecks, fOk, result>>

\* notify_one wakes some waiting worker, notify_all every one of them.
Woken(n) ==
    IF n = 0 THEN {{}}
    ELSE IF n = 1 THEN {{t} : t \in Waiting(Workers)} \cup {W \in {{}} : Waiting(Workers) = {}}
    ELSE {Waiting(Workers)}

Add(checks) ==
    /\ pc[Master] = "open" /\ MutexFree
    /\ Len(added) + Len(checks) <= MaxChecks
    /\ queue' = queue \o checks
    /\ nTodo' = nTodo + Len(checks)
    /\ \E W \in Woken(Len(checks)) :
          pc' = [t \in Threads |-> IF t \in W THEN "woken" ELSE pc[t]]
    /\ added' = added \o checks
    /\ UNCHANGED <<nIdle, nTotal, fAllOk, vChecks, fOk, result, rounds>>

\* Wait(), or the control object's destructor, which calls it.
Wait ==
    /\ pc[Master] = "open"
    /\ pc' = [pc EXCEPT ![Master] = "top"]
    /\ vChecks' = [vChecks EXCEPT ![Master] = <<>>]
    /\ UNCHANGED <<queue, nIdle, nTotal, fAllOk, nTodo, fOk, added, result, rounds>>

-----------------------------------------------------------------------------
(* Loop(), run by every worker and, inside Wait(), by the master.
   AccountOverwrites, AccountSilently and ReturnRegistered are
   mutants of Account and Return: bugs that the properties must detect. *)

\* Entering the critical section: a first iteration registers the thread, a
\* later one accounts for the batch just evaluated.
Register(t) ==
    /\ vChecks[t] = <<>>
    /\ nTotal' = nTotal + 1
    /\ pc' = [pc EXCEPT ![t] = "locked"]
    /\ UNCHANGED <<fAllOk, nTodo, vChecks>>

AccountOverwrites(t) ==
    /\ vChecks[t] # <<>>
    /\ fAllOk' = fOk[t]
    /\ nTodo' = nTodo - Len(vChecks[t])
    /\ pc' = [u \in Threads |->
                IF u = t THEN "locked"
                ELSE IF u = Master /\ nTodo' = 0 /\ pc[u] = "wait" THEN "woken"
                ELSE pc[u]]
    /\ vChecks' = [vChecks EXCEPT ![t] = <<>>]
    /\ UNCHANGED nTotal

AccountSilently(t) ==
    /\ vChecks[t] # <<>>
    /\ fAllOk' = (fAllOk /\ fOk[t])
    /\ nTodo' = nTodo - Len(vChecks[t])
    /\ pc' = [pc EXCEPT ![t] = "locked"]
    /\ vChecks' = [vChecks EXCEPT ![t] = <<>>]
    /\ UNCHANGED nTotal

Account(t) ==
    /\ vChecks[t] # <<>>
    /\ fAllOk' = (fAllOk /\ fOk[t])
    /\ nTodo' = nTodo - Len(vChecks[t])
    /\ pc' = [u \in Threads |->
                IF u = t THEN "locked"
                ELSE IF u = Master /\ nTodo' = 0 /\ pc[u] = "wait" THEN "woken"
                ELSE pc[u]]
    /\ vChecks' = [vChecks EXCEPT ![t] = <<>>]
    /\ UNCHANGED nTotal

Enter(t) ==
    /\ pc[t] = "top" /\ MutexFree
    /\ Register(t) \/ Account(t)
    /\ UNCHANGED <<queue, nIdle, fOk, added, result, rounds>>

\* cond.wait returns with the mutex held.
Wake(t) ==
    /\ pc[t] = "woken" /\ MutexFree
    /\ nIdle' = nIdle - 1
    /\ pc' = [pc EXCEPT ![t] = "locked"]
    /\ UNCHANGED <<queue, nTotal, fAllOk, nTodo, vChecks, fOk, added, result, rounds>>

SpuriousWake(t) ==
    /\ pc[t] = "wait"
    /\ pc' = [pc EXCEPT ![t] = "woken"]
    /\ UNCHANGED <<queue, nIdle, nTotal, fAllOk, nTodo, vChecks, fOk, added, result, rounds>>

ReturnRegistered ==
    /\ pc[Master] = "locked" /\ queue = <<>> /\ nTodo = 0
    /\ result' = fAllOk
    /\ fAllOk' = TRUE
    /\ pc' = [pc EXCEPT ![Master] = "none"]
    /\ UNCHANGED <<queue, nIdle, nTotal, nTodo, vChecks, fOk, added, rounds>>

\* The queue is empty: the master may return, anyone else sleeps.  fQuit is
\* never set in this version of the class, so a worker never returns.
Return ==
    /\ pc[Master] = "locked" /\ queue = <<>> /\ nTodo = 0
    /\ nTotal' = nTotal - 1
    /\ result' = fAllOk
    /\ fAllOk' = TRUE
    /\ pc' = [pc EXCEPT ![Master] = "none"]
    /\ UNCHANGED <<queue, nIdle, nTodo, vChecks, fOk, added, rounds>>

Sleep(t) ==
    /\ pc[t] = "locked" /\ queue = <<>>
    /\ ~ (t = Master /\ nTodo = 0)
    /\ nIdle' = nIdle + 1
    /\ pc' = [pc EXCEPT ![t] = "wait"]
    /\ UNCHANGED <<queue, nTotal, fAllOk, nTodo, vChecks, fOk, added, result, rounds>>

nNow == Max({1, Min({nBatchSize, Len(queue) \div (nTotal + nIdle + 1)})})

Take(t) ==
    /\ pc[t] = "locked" /\ queue # <<>>
    /\ vChecks' = [vChecks EXCEPT ![t] = SubSeq(queue, Len(queue) - nNow + 1, Len(queue))]
    /\ queue' = SubSeq(queue, 1, Len(queue) - nNow)
    /\ fOk' = [fOk EXCEPT ![t] = fAllOk]
    /\ pc' = [pc EXCEPT ![t] = "work"]
    /\ UNCHANGED <<nIdle, nTotal, fAllOk, nTodo, added, result, rounds>>

\* Outside the mutex: evaluate until one check fails.
Evaluate(t) ==
    /\ pc[t] = "work"
    /\ fOk' = [fOk EXCEPT ![t] = fOk[t] /\ \A i \in 1 .. Len(vChecks[t]) : vChecks[t][i]]
    /\ pc' = [pc EXCEPT ![t] = "top"]
    /\ UNCHANGED <<queue, nIdle, nTotal, fAllOk, nTodo, vChecks, added, result, rounds>>

Loop(t) == Enter(t) \/ Wake(t) \/ Sleep(t) \/ Take(t) \/ Evaluate(t) \/ (t = Master /\ Return)

Batches == UNION {[1 .. n -> BOOLEAN] : n \in 0 .. MaxAdd}

CheckNext ==
    \/ NewControl
    \/ \E checks \in Batches : Add(checks)
    \/ Wait
    \/ \E t \in Threads : Loop(t) \/ SpuriousWake(t)

\* Every thread that can run eventually does; the block's checks end at some
\* point, so the master eventually calls Wait.  A wake-up without a notify is
\* possible and never relied on.
Fairness == /\ WF_checkVars(Wait)
            /\ \A t \in Threads : SF_checkVars(Enter(t)) /\ SF_checkVars(Wake(t))
                                  /\ WF_checkVars(Sleep(t) \/ Take(t) \/ Evaluate(t) \/ (t = Master /\ Return))

CheckSpec == CheckInit /\ [][CheckNext]_checkVars
FairSpec == CheckSpec /\ Fairness
-----------------------------------------------------------------------------
(* Properties *)

\* "guarantees the passed queue is finished before continuing": once Wait has
\* returned, no check is queued or still in the batch of a slow worker, and what
\* it returned is the conjunction of exactly the checks added under this control
\* object, whatever the interleaving, the batches and the early exits: neither
\* an outcome of this block is lost nor one of the last block kept.
WaitReturnsConjunction ==
    pc[Master] = "none" =>
        /\ queue = <<>> /\ \A t \in Threads : vChecks[t] = <<>>
        /\ result <=> \A n \in 1 .. Len(added) : added[n]

\* The assertion of CCheckQueueControl's constructor: the next block always finds
\* every registered thread asleep, nothing to do and the result reset.
ControlFindsQueueIdle == pc[Master] = "none" /\ MutexFree => IsIdle

\* No wake-up is lost: a Wait in progress always returns, even when all workers
\* sleep or none was ever started.
WaitTerminates == pc[Master] = "top" ~> pc[Master] = "none"
=============================================================================
