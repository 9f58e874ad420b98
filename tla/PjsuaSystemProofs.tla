------------------------- MODULE PjsuaSystemProofs -------------------------
(***************************************************************************)
(* Proofs about the composed system (PjsuaSystem) for every set of Lib    *)
(* objects, every bound on destroy's wait, every id space and every       *)
(* object bound: the type invariant, and that no engine call is left     *)
(* active without a Call object of its incarnation across Lib.destroy and *)
(* a new Lib (CallsOwnedAcrossRestart).                                    *)
(*                                                                         *)
(* Each component's steps keep its own invariants by the lemmas of        *)
(* PjsuaLibProofs and PjsuaRegistryProofs.  The one step they do not      *)
(* cover is _pjsua.destroy() inside a Lib step (EngineReset): it frees   *)
(* every engine call, so no call is active after it, whatever the class-  *)
(* level dictionaries still hold.                                          *)
(***************************************************************************)
EXTENDS PjsuaSystem, TLAPS

\* The constants satisfy what PjsuaLib and PjsuaRegistry assume of them.
LEMMA Constants ==
    /\ CallIds \subseteq Nat /\ AccIds \subseteq Nat /\ BuddyIds \subseteq Nat
    /\ CallIds # {} /\ AccIds # {} /\ BuddyIds # {}
    /\ MaxObj \in Nat /\ Libs \subseteq Nat \ {0} /\ Libs # {}
    /\ MaxPolls \in Nat \ {0} /\ "none" \notin UriKeys
BY ComponentAssumptions DEF L!LibsAssumption, L!MaxPollsAssumption,
   R!IdsAssumption, R!MaxObjAssumption, R!UriKeysAssumption

USE Constants

\* _pjsua.destroy() run by a Lib step leaves the registry well typed and
\* no call active, so no call can be active without its Call object.
LEMMA ResetCallOwned ==
    ASSUME R!CallOwnedInv, R!EngineReset PROVE R!CallOwnedInv'
<1>1. R!TypeOK'
    BY R!NoDispatchType DEF R!CallOwnedInv, R!EngineReset, R!TypeOK, R!EmptyMaps,
                            R!RegMaps, R!ObjOrNone, R!None, R!CallStates
<1>2. \A c \in CallIds : engCall'[c] = "null"
    BY DEF R!EngineReset
<1>. QED
    BY <1>1, <1>2 DEF R!CallOwnedInv, R!EngineReset, R!EveryActiveCallOwned,
                      R!AppCallStale

\* A wrapper constructed by a registry step is recorded under the current
\* _lib, a Lib or None.
LEMMA RecordLibType ==
    ASSUME objLib \in [R!Obj -> Libs \union {L!NoLib}],
           glib \in Libs \union {L!NoLib},
           nObj \in 0..MaxObj, nObj' \in 0..MaxObj, RecordLib
    PROVE  objLib' \in [R!Obj -> Libs \union {L!NoLib}]
BY DEF RecordLib, R!Obj

\* The inductive invariant: both components' types, the history's type,
\* and the registry's CallOwnedInv.
IInv == TypeOK /\ R!CallOwnedInv

\* The composition starts in the inductive invariant.
LEMMA InitIInv == Init => IInv
<1> SUFFICES ASSUME Init PROVE IInv
    OBVIOUS
<1>1. L!TypeOK
    BY L!InitLibTypeOK DEF Init
<1>2. R!CallOwnedInv
    BY R!InitCallOwned DEF Init
<1>3. objLib \in [R!Obj -> Libs \union {L!NoLib}]
    BY DEF Init
<1>. QED
    BY <1>1, <1>2, <1>3 DEF IInv, TypeOK, R!CallOwnedInv

\* Every step of the composition keeps the inductive invariant.
LEMMA NextIInv == IInv /\ [Next]_vars => IInv'
<1> SUFFICES ASSUME IInv, [Next]_vars PROVE IInv'
    OBVIOUS
<1>0. /\ L!TypeOK /\ R!CallOwnedInv /\ R!TypeOK
      /\ objLib \in [R!Obj -> Libs \union {L!NoLib}]
    BY DEF IInv, TypeOK, R!CallOwnedInv
<1> DEFINE Typed == objLib' \in [R!Obj -> Libs \union {L!NoLib}]
<1>q. ASSUME L!TypeOK', R!CallOwnedInv', Typed PROVE IInv'
    BY <1>q DEF IInv, TypeOK, R!CallOwnedInv
<1>1. CASE LibAppStep
    <2>1. L!TypeOK'
        BY <1>0, <1>1, L!NextLibTypeOK DEF LibAppStep, L!Next
    <2>2. R!CallOwnedInv'
        <3>1. CASE engine # "none" /\ engine' = "none"
            <4>1. R!EngineReset
                BY <1>1, <3>1 DEF LibAppStep
            <4>. QED
                BY <1>0, <4>1, ResetCallOwned
        <3>2. CASE ~(engine # "none" /\ engine' = "none")
            <4>1. UNCHANGED R!vars
                BY <1>1, <3>2 DEF LibAppStep, regVars, R!vars
            <4>2. [R!Next]_R!vars
                BY <4>1
            <4>. QED
                BY <1>0, <4>2, R!NextCallOwned
        <3>. QED
            BY <3>1, <3>2
    <2>4. Typed
        BY <1>0, <1>1 DEF LibAppStep
    <2>. QED
        BY <1>q, <2>1, <2>2, <2>4
<1>2. CASE LibWorkerStep
    <2>1. L!TypeOK'
        BY <1>0, <1>2, L!NextLibTypeOK DEF LibWorkerStep, L!Next
    <2>2. UNCHANGED R!vars
        BY <1>2 DEF LibWorkerStep, regVars, R!vars
    <2>3. R!CallOwnedInv'
        BY <1>0, <2>2, R!NextCallOwned
    <2>4. Typed
        BY <1>0, <1>2 DEF LibWorkerStep
    <2>. QED
        BY <1>q, <2>1, <2>3, <2>4
<1>3. CASE RegAppStep \/ RegEngineStep
    <2>1. UNCHANGED L!vars
        BY <1>3 DEF RegAppStep, RegEngineStep, libVars, L!vars
    <2>2. L!TypeOK'
        BY <1>0, <2>1, L!NextLibTypeOK
    <2>3. R!CallOwnedInv'
        BY <1>0, <1>3, R!NextCallOwned DEF RegAppStep, RegEngineStep, R!Next
    <2>4. Typed
        <3>1. RecordLib /\ glib \in Libs \union {L!NoLib}
            BY <1>0, <1>3 DEF RegAppStep, RegEngineStep, L!TypeOK
        <3>2. nObj \in 0..MaxObj /\ nObj' \in 0..MaxObj
            BY <1>0, <2>3 DEF R!CallOwnedInv, R!TypeOK
        <3>. QED
            BY <1>0, <3>1, <3>2, RecordLibType
    <2>. QED
        BY <1>q, <2>2, <2>3, <2>4
<1>4. CASE UNCHANGED vars
    <2>1. UNCHANGED L!vars /\ UNCHANGED R!vars
        BY <1>4 DEF vars, libVars, regVars, L!vars, R!vars
    <2>. QED
        BY <1>0, <1>4, <2>1, <1>q, L!NextLibTypeOK, R!NextCallOwned DEF vars
<1>. QED
    BY <1>1, <1>2, <1>3, <1>4 DEF Next

\* Every reachable state of the composed system is well typed, for every
\* set of Lib objects, bound on destroy's wait, id space and object bound.
THEOREM SystemTypeCorrect == Spec => []TypeOK
<1>1. IInv => TypeOK
    BY DEF IInv
<1>. QED
    BY InitIInv, NextIInv, <1>1, PTL DEF Spec

\* Across any number of Lib.destroy calls and new Libs, every active engine
\* call has a Call object constructed for its current incarnation (outside
\* make_call's window): the _pjsua.destroy() in Lib.destroy and Lib.__del__
\* frees every call, so the wrappers the class-level Lib.call keeps from
\* the old Lib never stand in for a call of the new engine.
THEOREM CallsOwnedAcrossRestartHolds == Spec => []CallsOwnedAcrossRestart
<1>1. IInv => CallsOwnedAcrossRestart
    BY DEF IInv, R!CallOwnedInv, CallsOwnedAcrossRestart
<1>. QED
    BY InitIInv, NextIInv, <1>1, PTL DEF Spec
-----------------------------------------------------------------------------
(* The registry contract across Lib restarts (ContractAcrossRestart).     *)
(*                                                                         *)
(* A registry step maps to a contract step by the registry's own          *)
(* ContractStep, which needs AppHandleOK.  A Lib step maps to a stutter:  *)
(* _pjsua.destroy() changes the engine's handles and the ghost owners but *)
(* neither the maps nor the constructed objects.                           *)

\* The application thread's pending constructor holds an id of its kind in
\* the composition too: Lib steps leave the thread's operation alone.
LEMMA NextAppHandleOK ==
    ASSUME R!TypeOK, R!AppHandleOK, [Next]_vars PROVE R!AppHandleOK'
<1>1. CASE LibAppStep /\ engine # "none" /\ engine' = "none"
    BY <1>1 DEF LibAppStep, R!EngineReset, R!AppHandleOK
<1>2. CASE (LibAppStep /\ ~(engine # "none" /\ engine' = "none"))
           \/ LibWorkerStep \/ UNCHANGED vars
    <2>1. [R!Next]_R!vars
        BY <1>2 DEF LibAppStep, LibWorkerStep, vars, regVars, R!vars
    <2>. QED
        BY <2>1, R!NextAppHandle
<1>3. CASE RegAppStep \/ RegEngineStep
    BY <1>3, R!NextAppHandle DEF RegAppStep, RegEngineStep, R!Next
<1>. QED
    BY <1>1, <1>2, <1>3 DEF Next

\* A Lib step, _pjsua.destroy() included, is a stutter of the contract.
LEMMA LibStepStutters ==
    ASSUME R!TypeOK, LibAppStep \/ LibWorkerStep
    PROVE  UNCHANGED <<R!RegView, R!SlotView>>
<1>1. reg' = reg /\ obj' = obj /\ nObj' = nObj
    BY DEF LibAppStep, LibWorkerStep, R!EngineReset, regVars
<1>. QED
    BY <1>1, R!ContractStutter

\* Every step of the composition maps to a Register of the contract or a
\* stutter.
LEMMA SystemContractStep ==
    ASSUME R!TypeOK, R!AppHandleOK, [Next]_vars
    PROVE  [R!Contract!Next]_<<R!RegView, R!SlotView>>
<1>1. CASE LibAppStep \/ LibWorkerStep
    BY <1>1, LibStepStutters
<1>2. CASE RegAppStep \/ RegEngineStep
    BY <1>2, R!ContractStep DEF RegAppStep, RegEngineStep, R!Next
<1>3. CASE UNCHANGED vars
    <2>1. [R!Next]_R!vars
        BY <1>3 DEF vars, regVars, R!vars
    <2>. QED
        BY <2>1, R!ContractStep
<1>. QED
    BY <1>1, <1>2, <1>3 DEF Next

\* Over any number of Libs in turn, Lib.call, Lib.account and Lib.buddy
\* behave as the spec's registry: they change only when a wrapper
\* constructor registers its new object under its own kind and id.
\* Lib.destroy and Lib.__del__ leave them, and the wrappers, as they are.
THEOREM SystemImplementsContract == Spec => ContractAcrossRestart
<1> DEFINE Inv == IInv /\ R!AppHandleOK
<1>1. Init => Inv
    BY InitIInv DEF Init, R!Init, R!AppHandleOK, R!Kinds
<1>2. Inv /\ [Next]_vars => Inv'
    BY NextIInv, NextAppHandleOK DEF IInv, TypeOK
<1>3. Inv /\ [Next]_vars => [R!Contract!Next]_<<R!RegView, R!SlotView>>
    BY SystemContractStep DEF IInv, TypeOK
<1>4. Init => R!Contract!Init
    BY R!ContractInit DEF Init
<1>. QED
    BY <1>1, <1>2, <1>3, <1>4, PTL
    DEF Spec, ContractAcrossRestart, R!ImplementsContract, R!Contract!Spec,
        R!Contract!cvars
====
