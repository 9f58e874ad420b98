--------------------------- MODULE PjsuaLibProofs ---------------------------
(***************************************************************************)
(* Proofs about PjsuaLib: the type invariant for any set of Lib objects   *)
(* and any bound on destroy's wait, and, for a process with one Lib, that *)
(* destroy tears the engine down under a worker still inside              *)
(* handle_events only once its MaxPolls polls have run out.               *)
(***************************************************************************)
EXTENDS PjsuaLib, TLAPS

USE LibsAssumption, MaxPollsAssumption

-----------------------------------------------------------------------------
(* Type correctness.                                                       *)

LEMMA InitLibTypeOK == Init => TypeOK
BY DEF Init, TypeOK, NoLib, EngineStates, LibStates, WorkerPcs

\* Each application step keeps the types.
LEMMA AppStepTypeOK == TypeOK /\ AppStep => TypeOK'
<1> SUFFICES ASSUME TypeOK, AppStep PROVE TypeOK'
    OBVIOUS
<1>1. ASSUME NEW i \in Libs, NewLib(i) PROVE TypeOK'
    BY <1>1 DEF NewLib, TearDown, TypeOK, EngineStates, LibStates
<1>2. ASSUME NEW i \in Libs, LibInit(i) PROVE TypeOK'
    BY <1>2 DEF LibInit, TypeOK, EngineStates
<1>3. ASSUME NEW i \in Libs, Destroy(i) PROVE TypeOK'
    <2>1. CASE hasThread[i]
        BY <1>3, <2>1 DEF Destroy, TypeOK
    <2>2. CASE ~hasThread[i]
        BY <1>3, <2>2 DEF Destroy, Finish, TearDown, TypeOK, EngineStates,
                          LibStates, NoLib
    <2>. QED
        BY <2>1, <2>2
<1>4. ASSUME NEW i \in Libs, Drop(i) PROVE TypeOK'
    BY <1>4 DEF Drop, TearDown, TypeOK, EngineStates, LibStates
<1>5. ASSUME NEW i \in Libs, NEW t \in BOOLEAN, LibStart(i, t) PROVE TypeOK'
    BY <1>5 DEF LibStart, TypeOK, EngineStates, WorkerPcs
<1>6. ASSUME DestroyPoll PROVE TypeOK'
    BY <1>6 DEF DestroyPoll, TypeOK
<1>7. ASSUME DestroyFinish PROVE TypeOK'
    <2>1. appLib \in Libs \/ appLib = NoLib
        BY DEF TypeOK
    <2>. QED
        BY <1>7, <2>1 DEF DestroyFinish, Finish, TearDown, TypeOK, EngineStates,
                          LibStates, NoLib
<1>. QED
    BY <1>1, <1>2, <1>3, <1>4, <1>5, <1>6, <1>7 DEF AppStep

\* Each worker step keeps the types.
LEMMA WorkerStepTypeOK ==
    ASSUME TypeOK, NEW i \in Libs, WorkerStep(i) PROVE TypeOK'
<1>1. CASE WorkerRegister(i)
    BY <1>1 DEF WorkerRegister, TypeOK, WorkerPcs
<1>2. CASE WorkerCheck(i)
    BY <1>2 DEF WorkerCheck, TypeOK, WorkerPcs
<1>3. CASE WorkerPollReturn(i)
    BY <1>3 DEF WorkerPollReturn, TypeOK, WorkerPcs
<1>4. CASE WorkerExit(i)
    BY <1>4 DEF WorkerExit, TypeOK, WorkerPcs, NoLib
<1>. QED
    BY <1>1, <1>2, <1>3, <1>4 DEF WorkerStep

LEMMA NextLibTypeOK == TypeOK /\ [Next]_vars => TypeOK'
<1> SUFFICES ASSUME TypeOK, [Next]_vars PROVE TypeOK'
    OBVIOUS
<1>1. CASE AppStep
    BY <1>1, AppStepTypeOK
<1>2. CASE \E i \in Libs : WorkerStep(i)
    BY <1>2, WorkerStepTypeOK
<1>3. CASE UNCHANGED vars
    BY <1>3 DEF vars, TypeOK
<1>. QED
    BY <1>1, <1>2, <1>3 DEF Next

\* The Lib model's variables always have their types: glib is a Lib or
\* None, destroy's loop counter stays within 0..MaxPolls, every worker is
\* at a statement of _worker_thread_main.
THEOREM LibTypeCorrect == Spec => []TypeOK
BY InitLibTypeOK, NextLibTypeOK, PTL DEF Spec
-----------------------------------------------------------------------------
(* destroy waits for the worker (DestroyWaitsForWorker), with one Lib.     *)
(*                                                                         *)
(* The loop in Lib.destroy ends early only on _quit == 2, and the property *)
(* says the worker is then out of handle_events.  That _quit == 2 means   *)
(* "the worker has returned" is not inductive by itself: Lib.start could  *)
(* spawn a new worker after the old one signalled, and a worker of another *)
(* Lib sets the flag of the global _lib.  WorkerStopInv rules out the     *)
(* first (only a started Lib has a worker, and it cannot be started       *)
(* again); with one Lib the second cannot happen.  With two Libs TLC finds *)
(* the property violated.                                                 *)

LEMMA InitWorkerStop == Init => WorkerStopInv
BY InitLibTypeOK DEF Init, WorkerStopInv

LEMMA NextWorkerStop ==
    ASSUME NEW l, Libs = {l}
    PROVE  WorkerStopInv /\ [Next]_vars => WorkerStopInv'
<1> SUFFICES ASSUME WorkerStopInv, [Next]_vars PROVE WorkerStopInv'
    OBVIOUS
<1>0. TypeOK /\ TypeOK'
    BY NextLibTypeOK DEF WorkerStopInv
<1>1. ASSUME NEW i \in Libs, NewLib(i) PROVE WorkerStopInv'
    BY <1>0, <1>1 DEF NewLib, TearDown, WorkerStopInv, TypeOK
<1>2. ASSUME NEW i \in Libs, LibInit(i) PROVE WorkerStopInv'
    BY <1>0, <1>2 DEF LibInit, WorkerStopInv, TypeOK
<1>3. ASSUME NEW i \in Libs, Destroy(i) PROVE WorkerStopInv'
    BY <1>0, <1>3 DEF Destroy, Finish, TearDown, WorkerStopInv, TypeOK
<1>4. ASSUME NEW i \in Libs, Drop(i) PROVE WorkerStopInv'
    BY <1>0, <1>4 DEF Drop, TearDown, WorkerStopInv, TypeOK
<1>5. ASSUME NEW i \in Libs, NEW t \in BOOLEAN, LibStart(i, t) PROVE WorkerStopInv'
    BY <1>0, <1>5 DEF LibStart, WorkerStopInv, TypeOK
<1>6. ASSUME DestroyPoll PROVE WorkerStopInv'
    BY <1>0, <1>6 DEF DestroyPoll, WorkerStopInv, TypeOK
<1>7. ASSUME DestroyFinish PROVE WorkerStopInv'
    BY <1>0, <1>7 DEF DestroyFinish, Finish, TearDown, WorkerStopInv, TypeOK
<1>8. ASSUME NEW i \in Libs, WorkerRegister(i) \/ WorkerCheck(i) \/ WorkerPollReturn(i)
      PROVE WorkerStopInv'
    BY <1>0, <1>8 DEF WorkerRegister, WorkerCheck, WorkerPollReturn, WorkerStopInv,
                      TypeOK, NoLib
<1>9. ASSUME NEW i \in Libs, WorkerExit(i) PROVE WorkerStopInv'
    BY <1>0, <1>9 DEF WorkerExit, WorkerStopInv, TypeOK, NoLib
<1>10. CASE UNCHANGED vars
    BY <1>0, <1>10 DEF vars, WorkerStopInv
<1>. QED
    BY <1>1, <1>2, <1>3, <1>4, <1>5, <1>6, <1>7, <1>8, <1>9, <1>10
    DEF Next, AppStep, WorkerStep

\* In a process with one Lib, every reachable state satisfies WorkerStopInv:
\* a worker thread that set _quit to 2 has left _worker_thread_main, only a
\* Lib whose start() spawned a thread has one, and a live Lib's thread
\* runs only while the engine is started, for every bound MaxPolls.
THEOREM WorkerStopHolds ==
    ASSUME NEW l, Libs = {l}
    PROVE  Spec => []WorkerStopInv
BY InitWorkerStop, NextWorkerStop, PTL DEF Spec

\* In a process with one Lib, Lib.destroy's wait ends before its 400
\* polls only when the worker thread has left handle_events for good, so
\* _pjsua.destroy() never runs under a worker that is polling unless the
\* wait ran out.
THEOREM DestroyWaitsForWorkerHolds ==
    ASSUME NEW l, Libs = {l}
    PROVE  Spec => DestroyWaitsForWorker
<1>1. WorkerStopInv /\ [Next]_vars
        => [DestroyFinish => \A i \in Libs : wpc[i] = "poll" => loop = MaxPolls]_vars
    BY DEF WorkerStopInv, DestroyFinish
<1>2. Spec => []WorkerStopInv
    BY InitWorkerStop, NextWorkerStop, PTL DEF Spec
<1>. QED
    BY <1>1, <1>2, PTL DEF Spec, DestroyWaitsForWorker
=============================================================================
