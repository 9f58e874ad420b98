----------------------------- MODULE PjsuaSystem -----------------------------
(***************************************************************************)
(* Lib's life cycle (PjsuaLib) composed with the handle registry and the  *)
(* callback dispatch (PjsuaRegistry).  The two share the one application   *)
(* thread and the one native engine:                                       *)
(*                                                                         *)
(*   - a Lib call runs only when the application thread is not inside      *)
(*     Lib.create_account, make_call or add_buddy, and a registry call     *)
(*     only when it is not inside Lib.destroy's wait;                      *)
(*   - the application creates accounts, calls and buddies on an engine    *)
(*     that _pjsua.init has set up, and the engine runs callbacks only     *)
(*     once _pjsua.start has started it;                                   *)
(*   - a Lib step that runs _pjsua.destroy() (Lib.destroy, the __del__ of  *)
(*     a Lib, including the one whose __init__ raised) frees every engine *)
(*     handle, while the class-level dictionaries Lib.call, Lib.account,   *)
(*     Lib.buddy and Lib.buddy_by_uri keep their wrappers for the next Lib.*)
(*                                                                         *)
(* objLib is history: the Lib that was _lib when each wrapper object was   *)
(* constructed.                                                            *)
(***************************************************************************)
EXTENDS Naturals

CONSTANTS Libs, MaxPolls, CallIds, AccIds, BuddyIds, UriKeys, Ports, MaxObj

VARIABLES
    glib, engine, libSt, quit, hasThread, wpc, appPc, appLib, loop,
    engCall, engAcc, engBuddy, reg, buddyByUri, obj, nObj, app, owner,
    lastDispatch,
    objLib      \* history: wrapper object -> the _lib it was built under

\* The components, taken with their proof modules so that PjsuaSystemProofs
\* can cite the components' lemmas (the definitions are PjsuaLib's and
\* PjsuaRegistry's).
L == INSTANCE PjsuaLibProofs
R == INSTANCE PjsuaRegistryProofs

\* The components' assumptions on the constants, for the composition.
ASSUME ComponentAssumptions ==
    /\ L!LibsAssumption /\ L!MaxPollsAssumption
    /\ R!IdsAssumption /\ R!MaxObjAssumption /\ R!UriKeysAssumption

libVars == <<glib, engine, libSt, quit, hasThread, wpc, appPc, appLib, loop>>
regVars == <<engCall, engAcc, engBuddy, reg, buddyByUri, obj, nObj, app, owner,
            lastDispatch>>
vars == <<libVars, regVars, objLib>>

TypeOK ==
    /\ L!TypeOK
    /\ R!TypeOK
    /\ objLib \in [R!Obj -> Libs \union {L!NoLib}]

Init ==
    /\ L!Init
    /\ R!Init
    /\ objLib = [o \in R!Obj |-> L!NoLib]

\* A step of the application thread in Lib, taken outside the constructor
\* windows of the registry; when it ends in _pjsua.destroy() the engine's
\* handles all go with it.
LibAppStep ==
    /\ app.op = "idle"
    /\ L!AppStep
    /\ IF engine # "none" /\ engine' = "none"
       THEN R!EngineReset
       ELSE UNCHANGED regVars
    /\ UNCHANGED objLib

LibWorkerStep ==
    /\ \E i \in Libs : L!WorkerStep(i)
    /\ UNCHANGED <<regVars, objLib>>

\* A wrapper object constructed by this step belongs to the current _lib.
RecordLib ==
    objLib' = IF nObj' > nObj THEN [objLib EXCEPT ![nObj'] = glib] ELSE objLib

\* An account, call or buddy operation of the application thread, on an
\* engine that has been initialised, outside Lib.destroy.
RegAppStep ==
    /\ appPc = "idle"
    /\ engine \in {"inited", "started"}
    /\ R!AppStep
    /\ RecordLib
    /\ UNCHANGED libVars

\* A callback of a started engine (from the worker's handle_events, the
\* application's, or destroy's wait).
RegEngineStep ==
    /\ engine = "started"
    /\ R!EngineStep
    /\ RecordLib
    /\ UNCHANGED libVars

Next == LibAppStep \/ LibWorkerStep \/ RegAppStep \/ RegEngineStep

Spec == Init /\ [][Next]_vars
-----------------------------------------------------------------------------
\* An active call always has a Call object of its own incarnation (outside
\* make_call's window), across Lib.destroy and a new Lib: the teardown in
\* _pjsua.destroy() must free every call the old Lib's wrappers knew, or a
\* call of the new engine would be left to a stale wrapper.
CallsOwnedAcrossRestart == R!EveryActiveCallOwned

\* Spec: the registry's lifecycle is tied to the single engine instance.  A
\* callback of the engine reaches only a wrapper built under the current
\* Lib.  Broken because Lib.call, Lib.account, Lib.buddy and
\* Lib.buddy_by_uri are class attributes that Lib.destroy never clears: a
\* callback for a reused handle, or a message from a buddy's URI, after a
\* new Lib reaches the old Lib's wrapper.
DispatchStaysInLib ==
    lastDispatch.ev # "request" /\ lastDispatch.to # R!None
        => objLib[lastDispatch.to] = glib

\* The spec's registry contract (sections 3, 4.1 and 5) over any number of
\* Libs in turn: Lib.call, Lib.account and Lib.buddy change only when a
\* wrapper constructor registers its new object under its own kind and id.
\* Lib.destroy and Lib.__del__ run _pjsua.destroy() but neither clear nor
\* otherwise touch the class-level maps, so the contract's map carries over
\* from one Lib to the next.
ContractAcrossRestart == R!ImplementsContract
=============================================================================
