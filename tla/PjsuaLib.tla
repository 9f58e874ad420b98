------------------------------ MODULE PjsuaLib ------------------------------
(***************************************************************************)
(* The life cycle of pjsua.py's Lib: the global _lib, the one native      *)
(* engine behind the _pjsua module, Lib.__init__, init, start, destroy and *)
(* __del__, and the worker thread that start(with_thread=True) spawns      *)
(* (_worker_thread_main).                                                  *)
(*                                                                         *)
(* The application thread makes the Lib calls one at a time; destroy is   *)
(* split into its bounded wait (one step per iteration of the while loop) *)
(* and the teardown after it.  Each worker is one thread whose every      *)
(* statement is a step; handle_events is entered in one step and returns  *)
(* in another, since the engine runs the application's callbacks inside   *)
(* it and a callback may block.  An engine call that fails makes          *)
(* _err_check raise Error and changes nothing, so such calls are left     *)
(* out.  A Lib object's __del__ runs when its last reference goes: for a  *)
(* Lib that is _lib, never; for one whose __init__ raised, at once.       *)
(***************************************************************************)
EXTENDS Naturals

CONSTANTS
    Libs,       \* the Lib objects the application may construct, in order
    MaxPolls    \* destroy's bound on waiting for the worker (400 in the code)

ASSUME LibsAssumption == Libs \subseteq Nat \ {0} /\ Libs # {}
ASSUME MaxPollsAssumption == MaxPolls \in Nat \ {0}

VARIABLES
    glib,       \* the module global _lib: a Lib, or NoLib for None
    engine,     \* the native engine: "none", "created", "inited", "started"
    libSt,      \* each Lib object: "unborn", "live", "destroyed", "deleted"
    quit,       \* each Lib's _quit (class default False, i.e. 0)
    hasThread,  \* each Lib's _has_thread (class default False)
    wpc,        \* each Lib's worker thread: where it is in _worker_thread_main
    appPc,      \* application thread: "idle", or "wait" inside destroy's loop
    appLib,     \* the Lib whose destroy the application thread is in
    loop        \* destroy's local loop counter

vars == <<glib, engine, libSt, quit, hasThread, wpc, appPc, appLib, loop>>

NoLib == 0
EngineStates == {"none", "created", "inited", "started"}
LibStates == {"unborn", "live", "destroyed", "deleted"}
\* "none": never spawned; "reg": before thread_register and its _err_check;
\* "check": at the while test; "poll": inside handle_events(50); "exit":
\* at _lib._quit = 2; "done": returned; "crashed": raised AttributeError on
\* a _lib that is None.
WorkerPcs == {"none", "reg", "check", "poll", "exit", "done", "crashed"}

TypeOK ==
    /\ glib \in Libs \union {NoLib}
    /\ engine \in EngineStates
    /\ libSt \in [Libs -> LibStates]
    /\ quit \in [Libs -> 0..2]
    /\ hasThread \in [Libs -> BOOLEAN]
    /\ wpc \in [Libs -> WorkerPcs]
    /\ appPc \in {"idle", "wait"}
    /\ appLib \in Libs \union {NoLib}
    /\ loop \in 0..MaxPolls

Init ==
    /\ glib = NoLib
    /\ engine = "none"
    /\ libSt = [i \in Libs |-> "unborn"]
    /\ quit = [i \in Libs |-> 0]
    /\ hasThread = [i \in Libs |-> FALSE]
    /\ wpc = [i \in Libs |-> "none"]
    /\ appPc = "idle"
    /\ appLib = NoLib
    /\ loop = 0
-----------------------------------------------------------------------------
(***************************************************************************)
(* Application thread.                                                     *)
(***************************************************************************)

\* _pjsua.destroy(): the engine is gone, whoever created it.
TearDown == engine' = "none"

\* Lib(): with a _lib already set, __init__ raises Error and the half-built
\* object's __del__ calls _pjsua.destroy(); otherwise _pjsua.create() and
\* _lib = self.
NewLib(i) ==
    /\ appPc = "idle"
    /\ libSt[i] = "unborn"
    /\ \A j \in Libs : j < i => libSt[j] # "unborn"
    /\ IF glib # NoLib
       THEN /\ TearDown
            /\ libSt' = [libSt EXCEPT ![i] = "deleted"]
            /\ UNCHANGED glib
       ELSE /\ engine' = "created"
            /\ libSt' = [libSt EXCEPT ![i] = "live"]
            /\ glib' = i
    /\ UNCHANGED <<quit, hasThread, wpc, appPc, appLib, loop>>

\* Lib.init: _pjsua.init with the callbacks installed.
LibInit(i) ==
    /\ appPc = "idle"
    /\ libSt[i] = "live"
    /\ engine = "created"
    /\ engine' = "inited"
    /\ UNCHANGED <<glib, libSt, quit, hasThread, wpc, appPc, appLib, loop>>

\* Lib.start(with_thread): _pjsua.start, then _has_thread and the worker.
LibStart(i, t) ==
    /\ appPc = "idle"
    /\ libSt[i] = "live"
    /\ engine = "inited"
    /\ engine' = "started"
    /\ hasThread' = [hasThread EXCEPT ![i] = t]
    /\ wpc' = IF t THEN [wpc EXCEPT ![i] = "reg"] ELSE wpc
    /\ UNCHANGED <<glib, libSt, quit, appPc, appLib, loop>>

\* The end of Lib.destroy: _pjsua.destroy() and _lib = None.
Finish(i) ==
    /\ TearDown
    /\ glib' = NoLib
    /\ libSt' = [libSt EXCEPT ![i] = "destroyed"]

\* Lib.destroy: with a worker, ask it to stop (_quit = 1) and enter the
\* wait; without one, tear down at once.  The method has no guard: on a Lib
\* already destroyed it waits again and runs _pjsua.destroy() and
\* _lib = None once more, whichever Lib is current by then.
Destroy(i) ==
    /\ appPc = "idle"
    /\ libSt[i] \in {"live", "destroyed"}
    /\ IF hasThread[i]
       THEN /\ quit' = [quit EXCEPT ![i] = 1]
            /\ appPc' = "wait"
            /\ appLib' = i
            /\ loop' = 0
            /\ UNCHANGED <<glib, engine, libSt>>
       ELSE /\ Finish(i)
            /\ UNCHANGED <<quit, appPc, appLib, loop>>
    /\ UNCHANGED <<hasThread, wpc>>

\* Mutant of DestroyPoll: the wait has no bound (while self._quit != 2).
DestroyPollUnbounded ==
    /\ appPc = "wait"
    /\ quit[appLib] # 2
    /\ loop' = loop + 1
    /\ UNCHANGED <<glib, engine, libSt, quit, hasThread, wpc, appPc, appLib>>

\* Mutant of DestroyPoll: the loop counter is never incremented.
DestroyPollNoCount ==
    /\ appPc = "wait"
    /\ quit[appLib] # 2 /\ loop < MaxPolls
    /\ UNCHANGED vars

\* One iteration of destroy's while loop: _pjsua.handle_events(50) on the
\* application thread while self._quit != 2 and loop < 400.
DestroyPoll ==
    /\ appPc = "wait"
    /\ quit[appLib] # 2 /\ loop < MaxPolls
    /\ loop' = loop + 1
    /\ UNCHANGED <<glib, engine, libSt, quit, hasThread, wpc, appPc, appLib>>

\* destroy's loop is left (the worker signalled, or 400 polls passed):
\* _pjsua.destroy() and _lib = None, whether or not the worker has stopped.
DestroyFinish ==
    /\ appPc = "wait"
    /\ quit[appLib] = 2 \/ loop = MaxPolls
    /\ Finish(appLib)
    /\ appPc' = "idle"
    /\ UNCHANGED <<quit, hasThread, wpc, appLib, loop>>

\* The application drops its last reference to a destroyed Lib (lib = None,
\* or lib = Lib() again): Lib.__del__ calls _pjsua.destroy().  Only the
\* application thread holds a reference, and not while it is in destroy.
Drop(i) ==
    /\ appPc = "idle"
    /\ libSt[i] = "destroyed"
    /\ TearDown
    /\ libSt' = [libSt EXCEPT ![i] = "deleted"]
    /\ UNCHANGED <<glib, quit, hasThread, wpc, appPc, appLib, loop>>
-----------------------------------------------------------------------------
(***************************************************************************)
(* Worker threads: _worker_thread_main reads the global _lib, not the Lib  *)
(* that started it.                                                        *)
(***************************************************************************)

\* thread_register, then _lib._err_check(...).
WorkerRegister(i) ==
    /\ wpc[i] = "reg"
    /\ wpc' = [wpc EXCEPT ![i] = IF glib = NoLib THEN "crashed" ELSE "check"]
    /\ UNCHANGED <<glib, engine, libSt, quit, hasThread, appPc, appLib, loop>>

\* Mutant of WorkerCheck: the loop runs until _quit is 2 instead of while
\* it is 0.
WorkerCheckWrongFlag(i) ==
    /\ wpc[i] = "check"
    /\ wpc' = [wpc EXCEPT ![i] = IF glib = NoLib THEN "crashed"
                                 ELSE IF quit[glib] # 2 THEN "poll" ELSE "exit"]
    /\ UNCHANGED <<glib, engine, libSt, quit, hasThread, appPc, appLib, loop>>

\* Mutant of WorkerCheck: completion is signalled before the last poll.
WorkerCheckEarlySignal(i) ==
    /\ wpc[i] = "check"
    /\ IF glib = NoLib
       THEN wpc' = [wpc EXCEPT ![i] = "crashed"] /\ UNCHANGED quit
       ELSE IF quit[glib] = 0
       THEN wpc' = [wpc EXCEPT ![i] = "poll"] /\ UNCHANGED quit
       ELSE /\ quit' = [quit EXCEPT ![glib] = 2]
            /\ wpc' = [wpc EXCEPT ![i] = "poll"]
    /\ UNCHANGED <<glib, engine, libSt, hasThread, appPc, appLib, loop>>

\* while _lib._quit == 0: enter _pjsua.handle_events(50), or leave the loop.
WorkerCheck(i) ==
    /\ wpc[i] = "check"
    /\ wpc' = [wpc EXCEPT ![i] = IF glib = NoLib THEN "crashed"
                                 ELSE IF quit[glib] = 0 THEN "poll" ELSE "exit"]
    /\ UNCHANGED <<glib, engine, libSt, quit, hasThread, appPc, appLib, loop>>

\* handle_events returns (its callbacks have run).
WorkerPollReturn(i) ==
    /\ wpc[i] = "poll"
    /\ wpc' = [wpc EXCEPT ![i] = "check"]
    /\ UNCHANGED <<glib, engine, libSt, quit, hasThread, appPc, appLib, loop>>

\* _lib._quit = 2.
WorkerExit(i) ==
    /\ wpc[i] = "exit"
    /\ IF glib = NoLib
       THEN wpc' = [wpc EXCEPT ![i] = "crashed"] /\ UNCHANGED quit
       ELSE /\ quit' = [quit EXCEPT ![glib] = 2]
            /\ wpc' = [wpc EXCEPT ![i] = "done"]
    /\ UNCHANGED <<glib, engine, libSt, hasThread, appPc, appLib, loop>>
-----------------------------------------------------------------------------

AppStep ==
    \/ \E i \in Libs : NewLib(i) \/ LibInit(i) \/ Destroy(i) \/ Drop(i)
    \/ \E i \in Libs, t \in BOOLEAN : LibStart(i, t)
    \/ DestroyPoll
    \/ DestroyFinish

WorkerStep(i) ==
    WorkerRegister(i) \/ WorkerCheck(i) \/ WorkerPollReturn(i) \/ WorkerExit(i)

Next == AppStep \/ \E i \in Libs : WorkerStep(i)

\* Assumed, not shown: each _pjsua.handle_events(50) the application thread
\* makes in destroy's loop returns (DestroyPoll is one whole call), and a
\* worker that is not inside handle_events keeps running.  A worker inside
\* it gets no fairness: it may be blocked for ever in an application
\* callback, which is what destroy's bound of 400 polls is for.
Fairness ==
    /\ WF_vars(DestroyPoll) /\ WF_vars(DestroyFinish)
    /\ \A i \in Libs : WF_vars(WorkerRegister(i) \/ WorkerCheck(i) \/ WorkerExit(i))

Spec == Init /\ [][Next]_vars /\ Fairness
-----------------------------------------------------------------------------
(***************************************************************************)
(* Properties.                                                             *)
(***************************************************************************)

\* Lib.destroy tears the engine down while a worker is still inside
\* handle_events only when its wait of 400 polls ran out: when the loop
\* ends because _quit is 2, the worker has left handle_events for good.
DestroyWaitsForWorker ==
    [][DestroyFinish => \A i \in Libs : wpc[i] = "poll" => loop = MaxPolls]_vars

\* The spec (shutdown): teardown proceeds even if the pump never observes
\* the flag -- destroy's wait ends however long a callback blocks the
\* worker, provided the application thread's own handle_events(50) calls
\* return (the fairness above); it rests on the loop counter's bound.
DestroyTerminates == appPc = "wait" ~> appPc = "idle"

\* A worker that is at its while test after its Lib asked it to stop goes
\* on to return (or dies on a _lib that is None); it does not poll again.
WorkerStops ==
    \A i \in Libs : (quit[i] = 1 /\ wpc[i] = "check") ~> wpc[i] \in {"done", "crashed"}

\* The spec (shutdown): after a Lib has requested shutdown, its event pump
\* issues no further poll.  _worker_thread_main tests the _quit of the
\* global _lib, which after the bounded wait ran out may be a new Lib.
NoPollAfterShutdown ==
    [][\A i \in Libs : wpc[i] = "check" /\ wpc'[i] = "poll" => quit[i] = 0]_vars

\* The spec (registry and engine lifetime): the engine lives as long as the
\* Lib that constructed it, until that Lib's destroy.  A Lib() refused
\* because _lib is set, and the __del__ of an earlier destroyed Lib, both
\* call _pjsua.destroy() on the current engine.
LiveLibHasEngine == \A i \in Libs : libSt[i] = "live" => engine # "none"

\* What the worker's stop signal means when the process has one Lib (the
\* documented usage): only a worker that has returned from
\* _worker_thread_main has set _quit to 2, only a Lib with a worker has
\* been asked to stop (destroy sets _quit = 1 only if _has_thread), and a
\* live Lib with a worker has its engine started, so Lib.start cannot
\* spawn a second worker after the first has signalled.  It is the
\* inductive strengthening behind DestroyWaitsForWorker.
WorkerStopInv ==
    /\ TypeOK
    /\ appPc = "wait" => appLib \in Libs
    /\ \A i \in Libs :
        /\ quit[i] = 2 => wpc[i] = "done"
        /\ quit[i] # 0 => hasThread[i]
        /\ wpc[i] # "none" => hasThread[i]
        /\ libSt[i] = "live" /\ hasThread[i] => engine = "started"
        /\ libSt[i] = "unborn" => ~hasThread[i]
=============================================================================
