------------------------ MODULE PjsuaRegistryProofs ------------------------
(***************************************************************************)
(* Proofs about PjsuaRegistry for every choice of the id spaces, URI keys, *)
(* ports and object bound: the type invariant, and that no incoming call  *)
(* is left active without a Call object (EveryActiveCallOwned).           *)
(***************************************************************************)
EXTENDS PjsuaRegistry, TLAPS

USE IdsAssumption, MaxObjAssumption

-----------------------------------------------------------------------------
(* Type correctness.                                                       *)

LEMMA InitTypeOK == Init => TypeOK
<1> SUFFICES ASSUME Init PROVE TypeOK
    OBVIOUS
<1>1. /\ engCall \in [CallIds -> CallStates]
      /\ engAcc \in [AccIds -> BOOLEAN]
      /\ engBuddy \in [BuddyIds -> Uris \union {NoUri}]
    BY DEF Init, CallStates
<1>2. reg \in RegMaps /\ owner \in RegMaps /\ buddyByUri \in [UriKeys -> ObjOrNone]
    BY DEF Init, EmptyMaps, RegMaps, ObjOrNone, None
<1>3. /\ obj \in [Obj -> [kind: Kinds \union {"none"}, handle: Handles, cb: Callbacks]]
      /\ nObj \in 0..MaxObj
      /\ app \in [op: AppOps, h: Handles, fresh: BOOLEAN]
    BY IdsAssumption DEF Init, Handles, Callbacks, AppOps
<1>4. lastDispatch \in Dispatch
    BY DEF Init, NoDispatch, Dispatch, Events, NoCall, NoKey, ObjOrNone, None
<1>. QED
    BY <1>1, <1>2, <1>3, <1>4 DEF TypeOK

\* Storing an object or None under one id of one kind keeps a registry map
\* (Lib.call, Lib.account, Lib.buddy, or the owner history) typed.
LEMMA RegMapsExcept ==
    ASSUME NEW m \in RegMaps, NEW k \in Kinds, NEW h, NEW v \in ObjOrNone
    PROVE  [m EXCEPT ![k][h] = v] \in RegMaps
<1>1. CASE k = "call"
    BY <1>1 DEF RegMaps
<1>2. CASE k = "acc"
    BY <1>2 DEF RegMaps
<1>3. CASE k = "buddy"
    BY <1>3 DEF RegMaps
<1>. QED
    BY <1>1, <1>2, <1>3 DEF Kinds

\* The constructor keeps the object table, the counter and the maps typed.
LEMMA NewWrapperTypeOK ==
    ASSUME TypeOK, NEW k \in Kinds, NEW h \in Handles, NewWrapper(k, h)
    PROVE  /\ nObj' \in 0..MaxObj
           /\ nObj' = nObj + 1
           /\ nObj + 1 \in Obj
           /\ obj' \in [Obj -> [kind: Kinds \union {"none"}, handle: Handles,
                                cb: Callbacks]]
           /\ reg' \in RegMaps
<1>1. nObj' \in 0..MaxObj /\ nObj' = nObj + 1 /\ nObj + 1 \in Obj
    BY MaxObjAssumption DEF NewWrapper, TypeOK, Obj
<1>2. obj' \in [Obj -> [kind: Kinds \union {"none"}, handle: Handles, cb: Callbacks]]
    <2>1. [kind |-> k, handle |-> h, cb |-> "default"]
            \in [kind: Kinds \union {"none"}, handle: Handles, cb: Callbacks]
        BY DEF Callbacks
    <2>. QED
        BY <1>1, <2>1 DEF NewWrapper, TypeOK
<1>3. reg' \in RegMaps
    <2>1. nObj + 1 \in ObjOrNone
        BY <1>1 DEF Obj, ObjOrNone
    <2>2. [reg EXCEPT ![k][h] = nObj + 1] \in RegMaps
        BY <2>1, RegMapsExcept DEF TypeOK
    <2>. QED
        BY <2>2 DEF NewWrapper
<1>. QED
    BY <1>1, <1>2, <1>3

\* The application thread's constructor step keeps the types.
LEMMA AppWrapperTypeOK ==
    ASSUME TypeOK, NEW k \in {"acc", "call", "buddy"}, AppWrapper(k)
    PROVE  /\ nObj' \in 0..MaxObj
           /\ obj' \in [Obj -> [kind: Kinds \union {"none"}, handle: Handles,
                                cb: Callbacks]]
           /\ reg' \in RegMaps
           /\ owner' \in RegMaps
           /\ app' \in [op: AppOps, h: Handles, fresh: BOOLEAN]
           /\ nObj' = nObj + 1
<1>1. /\ nObj' \in 0..MaxObj /\ nObj' = nObj + 1 /\ nObj + 1 \in Obj
      /\ obj' \in [Obj -> [kind: Kinds \union {"none"}, handle: Handles, cb: Callbacks]]
      /\ reg' \in RegMaps
    <2>1. app.h \in Handles
        BY DEF TypeOK
    <2>2. NewWrapper(k, app.h)
        BY DEF AppWrapper
    <2>3. k \in Kinds
        BY DEF Kinds
    <2>. QED
        BY <2>1, <2>2, <2>3, NewWrapperTypeOK
<1>2. owner' \in RegMaps
    <2>1. CASE app.fresh
        <3>1. nObj + 1 \in ObjOrNone
            BY <1>1 DEF Obj, ObjOrNone
        <3>2. [owner EXCEPT ![k][app.h] = nObj + 1] \in RegMaps
            BY <3>1, RegMapsExcept DEF TypeOK, Kinds
        <3>. QED
            BY <2>1, <3>2 DEF AppWrapper
    <2>2. CASE ~app.fresh
        BY <2>2 DEF AppWrapper, TypeOK
    <2>. QED
        BY <2>1, <2>2
<1>3. app' \in [op: AppOps, h: Handles, fresh: BOOLEAN]
    BY DEF AppWrapper, TypeOK, AppOps
<1>. QED
    BY <1>1, <1>2, <1>3

\* The record a step stores when it dispatches nothing is typed.
LEMMA NoDispatchType == NoDispatch \in Dispatch
BY DEF NoDispatch, Dispatch, Events, NoCall, NoKey, ObjOrNone, None

\* _lookup_call / _lookup_account / _lookup_buddy return an object or None.
LEMMA LookupType ==
    ASSUME TypeOK, NEW k \in Kinds, NEW h
    PROVE  Lookup(k, h) \in ObjOrNone
<1>1. CASE k = "call"
    BY <1>1 DEF Lookup, Ids, TypeOK, RegMaps, ObjOrNone, None
<1>2. CASE k = "acc"
    BY <1>2 DEF Lookup, Ids, TypeOK, RegMaps, ObjOrNone, None
<1>3. CASE k = "buddy"
    BY <1>3 DEF Lookup, Ids, TypeOK, RegMaps, ObjOrNone, None
<1>. QED
    BY <1>1, <1>2, <1>3 DEF Kinds

\* The owner history read by a dispatch is an object or None.
LEMMA OwnerType ==
    ASSUME TypeOK, NEW k \in Kinds, NEW h
    PROVE  (IF h \in Ids(k) THEN owner[k][h] ELSE None) \in ObjOrNone
<1>1. CASE k = "call"
    BY <1>1 DEF Ids, TypeOK, RegMaps, ObjOrNone, None
<1>2. CASE k = "acc"
    BY <1>2 DEF Ids, TypeOK, RegMaps, ObjOrNone, None
<1>3. CASE k = "buddy"
    BY <1>3 DEF Ids, TypeOK, RegMaps, ObjOrNone, None
<1>. QED
    BY <1>1, <1>2, <1>3 DEF Kinds

\* Every record a _cb_on_* callback dispatches is typed.
LEMMA DispatchedType ==
    ASSUME TypeOK, NEW ev \in Events, NEW k \in Kinds,
           NEW h \in Handles \union {NoCall}, NEW key \in UriKeys \union {NoKey},
           NEW to \in ObjOrNone
    PROVE  Dispatched(ev, k, h, key, to) \in Dispatch
<1>1. (IF h \in Ids(k) THEN owner[k][h] ELSE None) \in ObjOrNone
    BY OwnerType
<1>. QED
    BY <1>1 DEF Dispatched, Dispatch

\* Recording whether the callback raised, or the value it answered, keeps a
\* dispatch record typed.
LEMMA DispatchFlags ==
    ASSUME NEW d \in Dispatch, NEW r \in BOOLEAN
    PROVE  /\ [d EXCEPT !.raised = r] \in Dispatch
           /\ [d EXCEPT !.suggested = r] \in Dispatch
BY DEF Dispatch

\* A request made through a wrapper object is recorded typed.
LEMMA RequestedType ==
    ASSUME TypeOK, NEW k \in Kinds, NEW o \in Obj
    PROVE  Requested(k, o) \in Dispatch
<1>1. obj[o].handle \in Handles /\ o \in ObjOrNone
    BY DEF TypeOK, Obj, ObjOrNone
<1>. QED
    BY <1>1, DispatchedType DEF Requested, Events, NoKey

\* The outcome of a wrapper constructor run by the application thread
\* (registered object, and whether info() raised) is recorded typed.
LEMMA ConstructedType ==
    ASSUME TypeOK, NEW k \in Kinds, AppWrapper(k)
    PROVE  lastDispatch' \in Dispatch
<1>1. nObj + 1 \in ObjOrNone
    BY AppWrapperTypeOK DEF Kinds, ObjOrNone
<1>2. Dispatched("construct", k, app.h, NoKey, nObj + 1) \in Dispatch
    BY <1>1, DispatchedType DEF TypeOK, Events, NoKey
<1>3. HandleFreed(k, app.h) \in BOOLEAN
    BY DEF HandleFreed, Kinds
<1>. QED
    BY <1>2, <1>3, DispatchFlags DEF AppWrapper

\* A callback that only dispatches keeps the types.
LEMMA DispatchOnlyTypeOK ==
    ASSUME TypeOK, lastDispatch' \in Dispatch,
           UNCHANGED <<engCall, engAcc, engBuddy, reg, buddyByUri, obj, nObj, app,
                       owner>>
    PROVE  TypeOK'
BY DEF TypeOK

LEMMA NextTypeOK == TypeOK /\ [Next]_vars => TypeOK'
<1> SUFFICES ASSUME TypeOK, [Next]_vars PROVE TypeOK'
    OBVIOUS
<1>0. /\ NoDispatch \in Dispatch
      /\ \A k \in Kinds, o \in Obj : Requested(k, o) \in Dispatch
      /\ None \in ObjOrNone
      /\ "acc" \in Kinds /\ "call" \in Kinds /\ "buddy" \in Kinds
      /\ CallIds \subseteq Handles /\ AccIds \subseteq Handles /\ BuddyIds \subseteq Handles
      /\ NoCall \notin Handles
    BY NoDispatchType, RequestedType DEF None, ObjOrNone, Kinds, Handles, NoCall
<1>1. ASSUME NEW h \in AccIds, CreateAccount(h) PROVE TypeOK'
    <2>1. owner' \in RegMaps
        BY <1>0, <1>1, RegMapsExcept, Zenon DEF CreateAccount, TypeOK
    <2>2. app' \in [op: AppOps, h: Handles, fresh: BOOLEAN]
        BY <1>0, <1>1 DEF CreateAccount, AppOps
    <2>. QED
        BY <1>0, <1>1, <2>1, <2>2 DEF CreateAccount, TypeOK
<1>2. CASE AccountInit
    <2>1. AppWrapper("acc")
        BY <1>2 DEF AccountInit
    <2>. QED
        BY <1>0, <1>2, <2>1, AppWrapperTypeOK, ConstructedType DEF AccountInit, TypeOK, Kinds
<1>3. ASSUME NEW o \in Obj, NEW c \in CallIds, MakeCall(o, c) PROVE TypeOK'
    <2>1. owner' \in RegMaps
        BY <1>0, <1>3, RegMapsExcept, Zenon DEF MakeCall, TypeOK
    <2>2. app' \in [op: AppOps, h: Handles, fresh: BOOLEAN]
        BY <1>0, <1>3 DEF MakeCall, AppOps
    <2>. QED
        BY <1>0, <1>3, <2>1, <2>2 DEF MakeCall, TypeOK, CallStates
<1>4. CASE CallInit
    <2>1. AppWrapper("call")
        BY <1>4 DEF CallInit
    <2>. QED
        BY <1>0, <1>4, <2>1, AppWrapperTypeOK, ConstructedType DEF CallInit, TypeOK, Kinds
<1>5. ASSUME NEW o \in Obj, NEW b \in BuddyIds, NEW u \in Uris, AddBuddy(o, b, u)
      PROVE TypeOK'
    <2>1. owner' \in RegMaps
        BY <1>0, <1>5, RegMapsExcept, Zenon DEF AddBuddy, TypeOK
    <2>2. app' \in [op: AppOps, h: Handles, fresh: BOOLEAN]
        BY <1>0, <1>5 DEF AddBuddy, AppOps
    <2>. QED
        BY <1>0, <1>5, <2>1, <2>2 DEF AddBuddy, TypeOK
<1>6. CASE BuddyInit
    <2>1. AppWrapper("buddy")
        BY <1>6 DEF BuddyInit
    <2>2. nObj + 1 \in ObjOrNone /\ nObj' = nObj + 1
        BY <1>0, <2>1, AppWrapperTypeOK DEF ObjOrNone, TypeOK
    <2>3. buddyByUri' \in [UriKeys -> ObjOrNone]
        BY <1>6, <2>2 DEF BuddyInit, TypeOK
    <2>. QED
        BY <1>0, <1>6, <2>1, <2>3, AppWrapperTypeOK, ConstructedType DEF BuddyInit, TypeOK, Kinds
<1>7. ASSUME NEW o \in Obj, AccountDelete(o) PROVE TypeOK'
    BY <1>0, <1>7 DEF AccountDelete, TypeOK
<1>8. ASSUME NEW o \in Obj, BuddyDelete(o) PROVE TypeOK'
    BY <1>0, <1>8 DEF BuddyDelete, TypeOK
<1>9. ASSUME NEW o \in Obj, CallHangup(o) PROVE TypeOK'
    BY <1>0, <1>9 DEF CallHangup, TypeOK, CallStates
<1>10. CASE HangupAll
    BY <1>0, <1>10 DEF HangupAll, TypeOK, CallStates
<1>11. ASSUME NEW o \in Obj, NEW cb \in Callbacks, SetCallback(o, cb) PROVE TypeOK'
    BY <1>0, <1>11 DEF SetCallback, TypeOK
<1>21. ASSUME NEW o \in Obj, AccountRequest(o) \/ CallRequest(o) \/ BuddyRequest(o)
       PROVE TypeOK'
    <2>1. lastDispatch' \in Dispatch
        BY <1>0, <1>21 DEF AccountRequest, CallRequest, BuddyRequest
    <2>. QED
        BY <1>21, <2>1, DispatchOnlyTypeOK DEF AccountRequest, CallRequest, BuddyRequest
<1>12. ASSUME NEW a \in AccIds, NEW c \in CallIds, IncomingCall(a, c) PROVE TypeOK'
    <2> DEFINE acc == Lookup("acc", a)
    <2>1. acc \in ObjOrNone
        BY <1>0, LookupType
    <2>2. lastDispatch' \in Dispatch
        <3>1. Dispatched("incoming_call", "acc", a, NoKey, acc) \in Dispatch
            BY <1>0, <2>1, DispatchedType DEF Events, NoKey
        <3>. QED
            BY <1>12, <3>1 DEF IncomingCall
    <2>3. engCall' \in [CallIds -> CallStates]
        <3>1. CASE acc # None
            <4>1. PICK keep \in BOOLEAN :
                    engCall' = [engCall EXCEPT ![c] = IF keep THEN "active"
                                                      ELSE "disconnecting"]
                BY <1>12, <3>1 DEF IncomingCall, IncomingCallKept
            <4>. QED
                BY <4>1 DEF TypeOK, CallStates
        <3>2. CASE acc = None
            <4>1. engCall' = [engCall EXCEPT ![c] = "disconnecting"]
                BY <1>12, <3>2 DEF IncomingCall
            <4>. QED
                BY <4>1 DEF TypeOK, CallStates
        <3>. QED
            BY <3>1, <3>2
    <2>4. CASE acc # None
        <3>1. NewWrapper("call", c)
            BY <1>12, <2>4 DEF IncomingCall
        <3>2. /\ nObj' \in 0..MaxObj /\ nObj' = nObj + 1 /\ nObj + 1 \in Obj
              /\ obj' \in [Obj -> [kind: Kinds \union {"none"}, handle: Handles, cb: Callbacks]]
              /\ reg' \in RegMaps
            BY <1>0, <3>1, NewWrapperTypeOK
        <3>3. owner' \in RegMaps
            <4>1. nObj + 1 \in ObjOrNone
                BY <3>2 DEF Obj, ObjOrNone
            <4>2. owner' = [owner EXCEPT !["call"][c] = nObj + 1]
                BY <1>12, <2>4 DEF IncomingCall
            <4>. QED
                BY <1>0, <4>1, <4>2, RegMapsExcept, Zenon DEF TypeOK
        <3>. QED
            BY <1>12, <2>2, <2>3, <3>2, <3>3 DEF IncomingCall, TypeOK
    <2>5. CASE acc = None
        <3>1. owner' \in RegMaps
            <4>1. owner' = [owner EXCEPT !["call"][c] = None]
                BY <1>12, <2>5 DEF IncomingCall
            <4>. QED
                BY <1>0, <4>1, RegMapsExcept, Zenon DEF TypeOK
        <3>. QED
            BY <1>12, <2>2, <2>3, <2>5, <3>1 DEF IncomingCall, TypeOK
    <2>. QED
        BY <2>4, <2>5
<1>13. ASSUME NEW c \in CallIds, NEW ev \in CallEvents, CallEvent(c, ev) PROVE TypeOK'
    <2> DEFINE call == Lookup("call", c)
    <2>1. call \in ObjOrNone
        BY <1>0, LookupType
    <2>2. PICK sug \in BOOLEAN :
            lastDispatch' = [Dispatched(ev, "call", c, NoKey, call) EXCEPT !.suggested = sug]
        BY <1>13 DEF CallEvent, CallAnswersSuggested
    <2>3. Dispatched(ev, "call", c, NoKey, call) \in Dispatch
        BY <1>0, <2>1, DispatchedType DEF Events, CallEvents, NoKey
    <2>4. lastDispatch' \in Dispatch
        BY <2>2, <2>3, DispatchFlags
    <2>. QED
        BY <1>13, <2>4, DispatchOnlyTypeOK DEF CallEvent
<1>14. ASSUME NEW c \in CallIds, RemoteHangup(c) PROVE TypeOK'
    BY <1>0, <1>14 DEF RemoteHangup, TypeOK, CallStates
<1>15. ASSUME NEW c \in CallIds, CallDisconnected(c) PROVE TypeOK'
    <2>1. Lookup("call", c) \in ObjOrNone
        BY <1>0, LookupType
    <2>2. lastDispatch' \in Dispatch
        <3>1. Dispatched("notify", "call", c, NoKey, Lookup("call", c)) \in Dispatch
            BY <1>0, <2>1, DispatchedType DEF Events, CallEvents, NoKey
        <3>. QED
            BY <1>15, <3>1 DEF CallDisconnected
    <2>3. app' \in [op: AppOps, h: Handles, fresh: BOOLEAN]
        BY <1>15 DEF CallDisconnected, TypeOK
    <2>. QED
        BY <1>15, <2>2, <2>3 DEF CallDisconnected, TypeOK, CallStates
<1>16. ASSUME NEW oc \in CallIds, NEW nc \in CallIds, CallReplaced(oc, nc) PROVE TypeOK'
    <2> DEFINE to == IF Lookup("call", oc) # None /\ Lookup("call", nc) # None
                     THEN Lookup("call", oc) ELSE None
    <2>1. to \in ObjOrNone
        BY <1>0, LookupType
    <2>2. Dispatched("replaced", "call", oc, NoKey, to) \in Dispatch
        BY <1>0, <2>1, DispatchedType DEF Events, NoKey
    <2>. QED
        BY <1>16, <2>2, DispatchOnlyTypeOK DEF CallReplaced
<1>17. ASSUME NEW a \in AccIds, RegState(a) PROVE TypeOK'
    <2>1. Lookup("acc", a) \in ObjOrNone
        BY <1>0, LookupType
    <2>2. Dispatched("reg_state", "acc", a, NoKey, Lookup("acc", a)) \in Dispatch
        BY <1>0, <2>1, DispatchedType DEF Events, NoKey
    <2>. QED
        BY <1>17, <2>2, DispatchOnlyTypeOK DEF RegState
<1>18. ASSUME NEW b \in BuddyIds, BuddyState(b) PROVE TypeOK'
    <2>1. Lookup("buddy", b) \in ObjOrNone
        BY <1>0, LookupType
    <2>2. Dispatched("buddy_state", "buddy", b, NoKey, Lookup("buddy", b)) \in Dispatch
        BY <1>0, <2>1, DispatchedType DEF Events, NoKey
    <2>. QED
        BY <1>18, <2>2, DispatchOnlyTypeOK DEF BuddyState
<1>19. ASSUME NEW cid \in CallIds \union {NoCall}, NEW u \in Uris, NEW a \in AccIds,
              InstantMessage(cid, u, a)
       PROVE TypeOK'
    <2> DEFINE call  == IF cid = NoCall THEN Lookup("call", cid) ELSE None
               acc   == Lookup("acc", a)
               buddy == LookupBuddy(NoCall, u)
               to    == IF call # None THEN call
                        ELSE IF buddy # None THEN buddy ELSE acc
    <2>1. /\ Lookup("call", cid) \in ObjOrNone
          /\ acc \in ObjOrNone
          /\ Lookup("buddy", NoCall) \in ObjOrNone
        BY <1>0, LookupType
    <2>2. UriKey(u) \in UriKeys
        BY DEF Uris, UriKey
    <2>3. buddy \in ObjOrNone
        BY <2>1, <2>2 DEF LookupBuddy, TypeOK
    <2>4. to \in ObjOrNone
        BY <2>1, <2>3 DEF ObjOrNone, None
    <2>5. Dispatched("message", "call", cid, UriKey(u), to) \in Dispatch
        BY <1>0, <2>2, <2>4, DispatchedType DEF Events, MsgEvents
    <2>6. [Dispatched("message", "call", cid, UriKey(u), to)
             EXCEPT !.raised = (to = None)] \in Dispatch
        BY <2>5, DispatchFlags
    <2>. QED
        BY <1>19, <2>6, DispatchOnlyTypeOK DEF InstantMessage
<1>20. CASE UNCHANGED vars
    BY <1>20 DEF vars, TypeOK
<1>. QED
    BY <1>1, <1>2, <1>3, <1>4, <1>5, <1>6, <1>7, <1>8, <1>9, <1>10, <1>11,
       <1>12, <1>13, <1>14, <1>15, <1>16, <1>17, <1>18, <1>19, <1>20, <1>21
    DEF Next, AppStep, EngineStep

\* The registry model is well typed in every reachable state.
THEOREM TypeCorrect == Spec => []TypeOK
BY InitTypeOK, NextTypeOK, PTL DEF Spec
-----------------------------------------------------------------------------
(* No active call without a Call object (EveryActiveCallOwned).            *)
(*                                                                         *)
(* The property alone is not inductive: the Call constructor that          *)
(* Account.make_call runs after call_make_call may find its call freed by  *)
(* the engine and the id active again.  CallOwnedInv adds that in that     *)
(* case _cb_on_incoming_call has already constructed a Call for the new    *)
(* incarnation (AppCallStale).                                             *)

LEMMA InitCallOwned == Init => CallOwnedInv
<1> SUFFICES ASSUME Init PROVE CallOwnedInv
    OBVIOUS
<1>1. TypeOK
    BY InitTypeOK
<1>2. engCall = [h \in CallIds |-> "null"] /\ app.op = "idle"
    BY DEF Init
<1>. QED
    BY <1>1, <1>2 DEF CallOwnedInv, EveryActiveCallOwned, AppCallStale

\* A step that activates no call, keeps the call owners and the thread's
\* call, and ages the thread's call only by freeing it, keeps the property.
LEMMA CallFrame ==
    ASSUME CallOwnedInv,
           owner'["call"] = owner["call"],
           app'.op = app.op, app'.h = app.h,
           \A c \in CallIds : engCall'[c] = "active" => engCall[c] = "active",
           app'.fresh = app.fresh \/ engCall'[app.h] # "active"
    PROVE  EveryActiveCallOwned' /\ AppCallStale'
           /\ (app'.op = "call" => app'.h \in CallIds)
BY DEF CallOwnedInv, EveryActiveCallOwned, AppCallStale

\* A step of the thread that starts or ends a non-call operation.
LEMMA NonCallAppStep ==
    ASSUME CallOwnedInv,
           owner'["call"] = owner["call"], engCall' = engCall,
           app.op # "call", app'.op # "call"
    PROVE  EveryActiveCallOwned' /\ AppCallStale'
           /\ (app'.op = "call" => app'.h \in CallIds)
BY DEF CallOwnedInv, EveryActiveCallOwned, AppCallStale

LEMMA NextCallOwned == CallOwnedInv /\ [Next]_vars => CallOwnedInv'
<1> SUFFICES ASSUME CallOwnedInv, [Next]_vars
             PROVE  EveryActiveCallOwned' /\ AppCallStale'
                    /\ (app'.op = "call" => app'.h \in CallIds)
    BY NextTypeOK DEF CallOwnedInv
<1>0. TypeOK
    BY DEF CallOwnedInv
<1>1. ASSUME NEW h \in AccIds, CreateAccount(h) PROVE
         EveryActiveCallOwned' /\ AppCallStale' /\ (app'.op = "call" => app'.h \in CallIds)
    <2>1. owner'["call"] = owner["call"]
        BY <1>0, <1>1 DEF CreateAccount, TypeOK, RegMaps
    <2>. QED
        BY <1>1, <2>1, NonCallAppStep DEF CreateAccount
<1>2. CASE AccountInit
    <2>1. owner'["call"] = owner["call"]
        BY <1>0, <1>2 DEF AccountInit, AppWrapper, TypeOK, RegMaps
    <2>. QED
        BY <1>2, <2>1, NonCallAppStep DEF AccountInit, AppWrapper
<1>3. ASSUME NEW o \in Obj, NEW c \in CallIds, MakeCall(o, c) PROVE
         EveryActiveCallOwned' /\ AppCallStale' /\ (app'.op = "call" => app'.h \in CallIds)
    <2>1. \A d \in CallIds \ {c} : owner'["call"][d] = owner["call"][d]
        BY <1>0, <1>3 DEF MakeCall, TypeOK, RegMaps
    <2>2. app.op = "idle" /\ app' = [op |-> "call", h |-> c, fresh |-> TRUE]
        BY <1>3 DEF MakeCall
    <2>3. \A d \in CallIds \ {c} : engCall'[d] = engCall[d]
        BY <1>0, <1>3 DEF MakeCall, TypeOK
    <2>. QED
        BY <2>1, <2>2, <2>3 DEF CallOwnedInv, EveryActiveCallOwned, AppCallStale
<1>4. CASE CallInit
    <2>1. app.op = "call" /\ app.h \in CallIds /\ app'.op = "idle"
        BY <1>4 DEF CallInit, AppWrapper, CallOwnedInv
    <2>2. \A d \in CallIds \ {app.h} : owner'["call"][d] = owner["call"][d]
        BY <1>0, <1>4, <2>1 DEF CallInit, AppWrapper, TypeOK, RegMaps
    <2>3. engCall[app.h] = "active" => owner'["call"][app.h] # None
        <3>1. CASE app.fresh
            <4>1. owner'["call"][app.h] = nObj + 1
                BY <1>0, <2>1, <1>4, <3>1 DEF CallInit, AppWrapper, TypeOK, RegMaps
            <4>. QED
                BY <1>0, <4>1 DEF TypeOK, None
        <3>2. CASE ~app.fresh
            BY <1>4, <2>1, <3>2 DEF CallInit, AppWrapper, CallOwnedInv, AppCallStale
        <3>. QED
            BY <3>1, <3>2
    <2>4. engCall' = engCall
        BY <1>4 DEF CallInit
    <2>. QED
        BY <2>1, <2>2, <2>3, <2>4 DEF CallOwnedInv, EveryActiveCallOwned, AppCallStale
<1>5. ASSUME NEW o \in Obj, NEW b \in BuddyIds, NEW u \in Uris, AddBuddy(o, b, u)
      PROVE EveryActiveCallOwned' /\ AppCallStale' /\ (app'.op = "call" => app'.h \in CallIds)
    <2>1. owner'["call"] = owner["call"]
        BY <1>0, <1>5 DEF AddBuddy, TypeOK, RegMaps
    <2>. QED
        BY <1>5, <2>1, NonCallAppStep DEF AddBuddy
<1>6. CASE BuddyInit
    <2>1. owner'["call"] = owner["call"]
        BY <1>0, <1>6 DEF BuddyInit, AppWrapper, TypeOK, RegMaps
    <2>. QED
        BY <1>6, <2>1, NonCallAppStep DEF BuddyInit, AppWrapper
<1>7. ASSUME NEW o \in Obj, AccountDelete(o) \/ BuddyDelete(o) \/ SetCallback(o, "default")
                 \/ SetCallback(o, "app") \/ CallHangup(o) \/ AccountRequest(o)
                 \/ CallRequest(o) \/ BuddyRequest(o)
      PROVE EveryActiveCallOwned' /\ AppCallStale' /\ (app'.op = "call" => app'.h \in CallIds)
    <2>1. /\ owner' = owner /\ app' = app
          /\ \A c \in CallIds : engCall'[c] = "active" => engCall[c] = "active"
        BY <1>0, <1>7 DEF AccountDelete, BuddyDelete, SetCallback, CallHangup,
                          AccountRequest, CallRequest, BuddyRequest, TypeOK
    <2>. QED
        BY <2>1, CallFrame
<1>8. CASE HangupAll
    <2>1. /\ owner' = owner /\ app' = app
          /\ \A c \in CallIds : engCall'[c] = "active" => engCall[c] = "active"
        BY <1>8 DEF HangupAll
    <2>. QED
        BY <2>1, CallFrame
<1>9. ASSUME NEW a \in AccIds, NEW c \in CallIds, IncomingCall(a, c) PROVE
         EveryActiveCallOwned' /\ AppCallStale' /\ (app'.op = "call" => app'.h \in CallIds)
    <2>1. \A d \in CallIds \ {c} : owner'["call"][d] = owner["call"][d]
                                    /\ engCall'[d] = engCall[d]
        BY <1>0, <1>9 DEF IncomingCall, NewWrapper, TypeOK, RegMaps
    <2>2. engCall'[c] = "active" => owner'["call"][c] # None
        <3>1. CASE Lookup("acc", a) # None
            <4>1. owner'["call"][c] = nObj + 1
                BY <1>0, <1>9, <3>1 DEF IncomingCall, TypeOK, RegMaps
            <4>. QED
                BY <1>0, <4>1 DEF TypeOK, None
        <3>2. CASE Lookup("acc", a) = None
            BY <1>0, <1>9, <3>2 DEF IncomingCall, TypeOK
        <3>. QED
            BY <3>1, <3>2
    <2>3. app' = app
        BY <1>9 DEF IncomingCall
    <2>. QED
        BY <2>1, <2>2, <2>3 DEF CallOwnedInv, EveryActiveCallOwned, AppCallStale
<1>10. ASSUME NEW c \in CallIds, RemoteHangup(c) \/ CallDisconnected(c) PROVE
         EveryActiveCallOwned' /\ AppCallStale' /\ (app'.op = "call" => app'.h \in CallIds)
    <2>1. /\ owner' = owner /\ app'.op = app.op /\ app'.h = app.h
          /\ \A d \in CallIds : engCall'[d] = "active" => engCall[d] = "active"
          /\ engCall'[c] # "active"
        BY <1>0, <1>10 DEF RemoteHangup, CallDisconnected, TypeOK
    <2>2. app'.fresh = app.fresh \/ app.h = c
        BY <1>10 DEF RemoteHangup, CallDisconnected
    <2>. QED
        BY <2>1, <2>2, CallFrame
<1>11. CASE \/ \E c \in CallIds, ev \in CallEvents : CallEvent(c, ev)
            \/ \E oc, nc \in CallIds : CallReplaced(oc, nc)
            \/ \E a \in AccIds : RegState(a)
            \/ \E b \in BuddyIds : BuddyState(b)
            \/ \E cid \in CallIds \union {NoCall}, u \in Uris, a \in AccIds :
                  InstantMessage(cid, u, a)
            \/ UNCHANGED vars
    <2>1. owner' = owner /\ app' = app /\ engCall' = engCall
        BY <1>11 DEF CallEvent, CallReplaced, RegState, BuddyState, InstantMessage, vars
    <2>. QED
        BY <2>1, CallFrame
<1>. QED
    <2>1. \A o \in Obj, cb \in Callbacks :
              SetCallback(o, cb) => SetCallback(o, "default") \/ SetCallback(o, "app")
        BY DEF Callbacks
    <2>. QED
        BY <1>1, <1>2, <1>3, <1>4, <1>5, <1>6, <1>7, <1>8, <1>9, <1>10, <1>11, <2>1
        DEF Next, AppStep, EngineStep

\* Every engine call that is active has had a Call object constructed for
\* its current incarnation (unless the application thread is between
\* call_make_call and the Call constructor for it), for every number of
\* call, account and buddy ids and every bound on objects.
THEOREM CallOwned == Spec => []EveryActiveCallOwned
<1>1. CallOwnedInv => EveryActiveCallOwned
    BY DEF CallOwnedInv
<1>. QED
    BY InitCallOwned, NextCallOwned, <1>1, PTL DEF Spec

\* The whole of CallOwnedInv holds in every reachable state: besides
\* EveryActiveCallOwned, a constructor make_call is about to run never finds
\* its call id active (AppCallStale), so Call.__init__ never overwrites the
\* wrapper of a live incarnation, for every choice of the constants.
THEOREM CallOwnedInvHolds == Spec => []CallOwnedInv
BY InitCallOwned, NextCallOwned, PTL DEF Spec
-----------------------------------------------------------------------------
(* Lib's maps implement the registry contract (ImplementsContract).        *)
(*                                                                         *)
(* Every step either runs a wrapper constructor, which is the contract's  *)
(* Register of the new object under its kind and id, or leaves the maps  *)
(* and the constructed objects' kinds and handles alone.  The id a        *)
(* constructor registers under is an id of its kind: for the application  *)
(* thread's constructors that is AppHandleOK.                             *)

AppHandleOK == app.op \in Kinds => app.h \in Ids(app.op)

LEMMA NextAppHandle ==
    ASSUME TypeOK, AppHandleOK, [Next]_vars PROVE AppHandleOK'
<1>1. CASE \E h \in AccIds : CreateAccount(h)
    BY <1>1 DEF CreateAccount, AppHandleOK, Ids, Kinds
<1>2. CASE \E o \in Obj, c \in CallIds : MakeCall(o, c)
    BY <1>2 DEF MakeCall, AppHandleOK, Ids, Kinds
<1>3. CASE \E o \in Obj, b \in BuddyIds, u \in Uris : AddBuddy(o, b, u)
    BY <1>3 DEF AddBuddy, AppHandleOK, Ids, Kinds
<1>4. CASE AccountInit \/ CallInit \/ BuddyInit
    <2>1. app'.op = "idle"
        BY <1>4 DEF AccountInit, CallInit, BuddyInit, AppWrapper, TypeOK
    <2>. QED
        BY <2>1 DEF AppHandleOK, Kinds
<1>5. CASE \E c \in CallIds : CallDisconnected(c)
    <2>1. app'.op = app.op /\ app'.h = app.h
        BY <1>5 DEF CallDisconnected, TypeOK
    <2>. QED
        BY <2>1 DEF AppHandleOK
<1>6. CASE ~(\E h \in AccIds : CreateAccount(h))
           /\ ~(\E o \in Obj, c \in CallIds : MakeCall(o, c))
           /\ ~(\E o \in Obj, b \in BuddyIds, u \in Uris : AddBuddy(o, b, u))
           /\ ~(AccountInit \/ CallInit \/ BuddyInit)
           /\ ~(\E c \in CallIds : CallDisconnected(c))
    <2>1. app' = app
        BY <1>6 DEF Next, AppStep, EngineStep, vars, AccountDelete, BuddyDelete,
                    CallHangup, HangupAll, SetCallback, AccountRequest, CallRequest,
                    BuddyRequest, IncomingCall, CallEvent, RemoteHangup, CallReplaced,
                    RegState, BuddyState, InstantMessage
    <2>. QED
        BY <2>1 DEF AppHandleOK
<1>. QED
    BY <1>1, <1>2, <1>3, <1>4, <1>5, <1>6

\* The type invariant together with AppHandleOK holds in every state.
LEMMA AppHandleInvariant == Spec => [](TypeOK /\ AppHandleOK)
<1>1. Init => AppHandleOK
    BY DEF Init, AppHandleOK, Kinds
<1>. QED
    BY <1>1, InitTypeOK, NextTypeOK, NextAppHandle, PTL DEF Spec

\* A wrapper constructor for an id of its kind is the contract's Register
\* of the new object under that slot.
LEMMA NewWrapperRegisters ==
    ASSUME TypeOK, NEW k \in Kinds, NEW h \in Ids(k), NewWrapper(k, h)
    PROVE  Contract!Register(<<k, h>>, nObj + 1)
<1> DEFINE nw == nObj + 1
<1>1. nw \in Obj /\ nObj' = nw /\ <<k, h>> \in RegSlots
    BY DEF NewWrapper, TypeOK, Obj, RegSlots
<1>2. SlotView[nw] = NoSlot
    BY <1>1 DEF SlotView, TypeOK, Obj
<1>3. SlotView' = [SlotView EXCEPT ![nw] = <<k, h>>]
    <2>1. obj' = [obj EXCEPT ![nw] = [kind |-> k, handle |-> h, cb |-> "default"]]
        BY DEF NewWrapper
    <2>2. SlotView' = [p \in Obj |-> IF p <= nw THEN <<obj'[p].kind, obj'[p].handle>>
                                    ELSE NoSlot]
        BY <1>1 DEF SlotView
    <2>3. ASSUME NEW p \in Obj
          PROVE  (IF p <= nw THEN <<obj'[p].kind, obj'[p].handle>> ELSE NoSlot)
                 = (IF p = nw THEN <<k, h>> ELSE SlotView[p])
        <3>1. nObj \in Nat /\ p \in Nat
            BY DEF TypeOK, Obj
        <3>2. CASE p = nw
            <4>1. obj'[p] = [kind |-> k, handle |-> h, cb |-> "default"]
                BY <1>1, <2>1, <3>2 DEF TypeOK
            <4>. QED
                BY <3>1, <3>2, <4>1
        <3>3. CASE p <= nObj
            <4>1. obj'[p] = obj[p] /\ p # nw
                BY <1>1, <2>1, <3>1, <3>3 DEF TypeOK
            <4>. QED
                BY <3>1, <3>3, <4>1 DEF SlotView
        <3>4. CASE p > nw
            BY <3>1, <3>4 DEF SlotView
        <3>. QED
            BY <3>1, <3>2, <3>3, <3>4
    <2>4. [SlotView EXCEPT ![nw] = <<k, h>>]
            = [p \in Obj |-> IF p = nw THEN <<k, h>> ELSE SlotView[p]]
        BY DEF SlotView
    <2>. QED
        BY <2>2, <2>3, <2>4
<1>4. RegView' = [RegView EXCEPT ![<<k, h>>] = nw]
    <2>1. reg' = [reg EXCEPT ![k][h] = nw]
        BY DEF NewWrapper
    <2>2. ASSUME NEW s \in RegSlots PROVE reg'[s[1]][s[2]] = IF s = <<k, h>> THEN nw
                                                        ELSE reg[s[1]][s[2]]
        <3>1. s[1] \in Kinds /\ s[2] \in Ids(s[1]) /\ s = <<s[1], s[2]>>
            BY DEF RegSlots
        <3>2. \A kk \in Kinds : DOMAIN reg[kk] = Ids(kk)
            BY DEF TypeOK, RegMaps, Ids, Kinds
        <3>. QED
            BY <2>1, <3>1, <3>2 DEF TypeOK, RegMaps, Kinds
    <2>. QED
        BY <1>1, <2>2 DEF RegView
<1>. QED
    BY <1>1, <1>2, <1>3, <1>4 DEF Contract!Register

\* A step that changes neither the maps nor which objects are constructed
\* with which kind and handle is a stutter of the contract.
LEMMA ContractStutter ==
    ASSUME TypeOK, reg' = reg, nObj' = nObj,
           \A o \in Obj : obj'[o].kind = obj[o].kind /\ obj'[o].handle = obj[o].handle
    PROVE  RegView' = RegView /\ SlotView' = SlotView
BY DEF RegView, SlotView

\* The initial state maps to the contract's: empty maps, nothing built.
LEMMA ContractInit == Init => Contract!Init
<1> SUFFICES ASSUME Init PROVE Contract!Init
    OBVIOUS
<1>1. RegView = [s \in RegSlots |-> None]
    BY DEF Init, EmptyMaps, RegView, RegSlots, Kinds, Ids
<1>2. SlotView = [o \in Obj |-> NoSlot]
    BY DEF Init, SlotView, Obj
<1>. QED
    BY <1>1, <1>2 DEF Contract!Init

\* Every step maps to a Register of the contract or to a stutter.
LEMMA ContractStep ==
    TypeOK /\ AppHandleOK /\ [Next]_vars => [Contract!Next]_<<RegView, SlotView>>
<1> SUFFICES ASSUME TypeOK, AppHandleOK, [Next]_vars
             PROVE  [Contract!Next]_<<RegView, SlotView>>
    OBVIOUS
<1>1. CASE AccountInit \/ CallInit \/ BuddyInit
    <2>1. app.op \in Kinds /\ NewWrapper(app.op, app.h)
        BY <1>1 DEF AccountInit, CallInit, BuddyInit, AppWrapper, Kinds
    <2>2. app.h \in Ids(app.op)
        BY <2>1 DEF AppHandleOK
    <2>3. Contract!Register(<<app.op, app.h>>, nObj + 1) /\ nObj + 1 \in Obj
        <3>1. nObj + 1 \in Obj
            BY <2>1 DEF NewWrapper, TypeOK, Obj
        <3>. QED
            BY <2>1, <2>2, <3>1, NewWrapperRegisters
    <2>4. <<app.op, app.h>> \in RegSlots
        BY <2>1, <2>2 DEF RegSlots
    <2>. QED
        BY <2>3, <2>4 DEF Contract!Next
<1>2. ASSUME NEW a \in AccIds, NEW c \in CallIds, IncomingCall(a, c)
      PROVE [Contract!Next]_<<RegView, SlotView>>
    <2>1. CASE Lookup("acc", a) # None
        <3>1. NewWrapper("call", c)
            BY <1>2, <2>1 DEF IncomingCall
        <3>2. Contract!Register(<<"call", c>>, nObj + 1) /\ nObj + 1 \in Obj
            <4>1. nObj + 1 \in Obj /\ "call" \in Kinds /\ c \in Ids("call")
                BY <3>1 DEF NewWrapper, TypeOK, Obj, Kinds, Ids
            <4>. QED
                BY <3>1, <4>1, NewWrapperRegisters
        <3>3. <<"call", c>> \in RegSlots
            BY DEF RegSlots, Kinds, Ids
        <3>. QED
            BY <3>2, <3>3 DEF Contract!Next
    <2>2. CASE Lookup("acc", a) = None
        <3>1. reg' = reg /\ obj' = obj /\ nObj' = nObj
            BY <1>2, <2>2 DEF IncomingCall
        <3>. QED
            BY <3>1, ContractStutter
    <2>. QED
        BY <2>1, <2>2
<1>3. ASSUME NEW o \in Obj, NEW cb \in Callbacks, SetCallback(o, cb)
      PROVE [Contract!Next]_<<RegView, SlotView>>
    <2>1. \A p \in Obj : obj'[p].kind = obj[p].kind /\ obj'[p].handle = obj[p].handle
        BY <1>3 DEF SetCallback, TypeOK
    <2>2. reg' = reg /\ nObj' = nObj
        BY <1>3 DEF SetCallback
    <2>. QED
        BY <2>1, <2>2, ContractStutter
<1>4. CASE ~(AccountInit \/ CallInit \/ BuddyInit)
           /\ ~(\E a \in AccIds, c \in CallIds : IncomingCall(a, c))
           /\ ~(\E o \in Obj, cb \in Callbacks : SetCallback(o, cb))
    <2>1. reg' = reg /\ obj' = obj /\ nObj' = nObj
        BY <1>4 DEF Next, AppStep, EngineStep, vars, CreateAccount, MakeCall,
                    AddBuddy, AccountDelete, BuddyDelete, CallHangup, HangupAll,
                    AccountRequest, CallRequest, BuddyRequest, CallEvent,
                    RemoteHangup, CallDisconnected, CallReplaced, RegState,
                    BuddyState, InstantMessage
    <2>. QED
        BY <2>1, ContractStutter
<1>. QED
    BY <1>1, <1>2, <1>3, <1>4

\* Lib.call, Lib.account and Lib.buddy, read through the refinement
\* mapping, behave as the spec's registry: they change only when a wrapper
\* constructor registers its new object under its own kind and id, and an
\* object's kind and handle never change after construction.
THEOREM Implements == Spec => ImplementsContract
BY ContractInit, ContractStep, AppHandleInvariant, PTL
DEF Spec, ImplementsContract, Contract!Spec, Contract!cvars

-----------------------------------------------------------------------------
(* Messages from a buddy reach a Buddy object (BuddyPrecedence).          *)
(*                                                                         *)
(* Every step sets lastDispatch, and only InstantMessage sets it to a      *)
(* message; so the property is about that one step, which routes by      *)
(* Lib.buddy_by_uri before the account.  What the step needs is that the  *)
(* index holds a Buddy object for the (user, host) of every live buddy    *)
(* with a current Buddy object (BuddyIndexed).  That is inductive with    *)
(* the types and AppHandleOK: Buddy.__init__ writes the index for its own *)
(* id's URI, add_buddy starts a new incarnation without an object, and    *)
(* the other steps keep the buddies, the index and the kinds of the       *)
(* objects constructed so far.                                            *)

\* A step that keeps the buddies, their owners and the index, and only adds
\* objects, keeps the index invariant.
LEMMA BuddyIndexFrame ==
    ASSUME TypeOK, BuddyIndexed,
           engBuddy' = engBuddy, owner'["buddy"] = owner["buddy"],
           buddyByUri' = buddyByUri,
           nObj' \in Nat, nObj <= nObj',
           \A o \in 1..nObj : obj'[o].kind = obj[o].kind
    PROVE  BuddyIndexed'
BY DEF BuddyIndexed, TypeOK

\* A constructor only adds the object nObj + 1.
LEMMA NewWrapperKeepsObjects ==
    ASSUME TypeOK, NEW k, NEW h, NewWrapper(k, h)
    PROVE  /\ nObj' \in Nat /\ nObj <= nObj'
           /\ \A o \in 1..nObj : obj'[o].kind = obj[o].kind
BY DEF NewWrapper, TypeOK

\* A step that dispatches no message keeps BuddyPrecedence vacuously.
LEMMA NotMessage ==
    ASSUME lastDispatch'.ev # "message" PROVE BuddyPrecedence'
BY DEF BuddyPrecedence, MsgEvents

\* The URI of a message is never the "no URI" marker.
LEMMA UriNotNone ==
    ASSUME NEW u \in Uris PROVE u # NoUri
BY UriKeysAssumption DEF Uris, NoUri

\* _cb_on_pager without a call context consults buddy_by_uri before the
\* account: with the index invariant, a message from a live, current
\* buddy's (user, host) reaches a Buddy object.
LEMMA MessageToBuddy ==
    ASSUME TypeOK, BuddyIndexed,
           NEW cid \in CallIds \union {NoCall}, NEW u \in Uris, NEW a \in AccIds,
           InstantMessage(cid, u, a)
    PROVE  BuddyPrecedence'
<1>0. /\ engBuddy' = engBuddy /\ owner' = owner /\ reg' = reg
      /\ obj' = obj /\ buddyByUri' = buddyByUri
    BY DEF InstantMessage
<1>1. CASE cid # NoCall
    <2>1. lastDispatch'.h = cid
        BY DEF InstantMessage, Dispatched
    <2>. QED
        BY <1>1, <2>1 DEF BuddyPrecedence
<1>2. CASE cid = NoCall
    <2>1. Lookup("call", NoCall) = None /\ Lookup("buddy", NoCall) = None
        BY IdsAssumption DEF Lookup, Ids, NoCall
    <2>2. LookupBuddy(NoCall, u) = buddyByUri[UriKey(u)]
        BY <2>1, UriNotNone DEF LookupBuddy
    <2>3. /\ lastDispatch'.key = UriKey(u)
          /\ lastDispatch'.to = IF buddyByUri[UriKey(u)] # None
                                THEN buddyByUri[UriKey(u)] ELSE Lookup("acc", a)
        BY <1>2, <2>1, <2>2 DEF InstantMessage, Dispatched
    <2>4. SUFFICES ASSUME NEW b \in BuddyIds,
                          engBuddy[b] # NoUri, UriKey(engBuddy[b]) = UriKey(u),
                          owner["buddy"][b] # None
                   PROVE  lastDispatch'.to # None /\ obj[lastDispatch'.to].kind = "buddy"
        BY <1>0, <2>3 DEF BuddyPrecedence
    <2>5. buddyByUri[UriKey(u)] \in 1..nObj /\ obj[buddyByUri[UriKey(u)]].kind = "buddy"
        BY <2>4 DEF BuddyIndexed
    <2>. QED
        BY <2>3, <2>5 DEF None
<1>. QED
    BY <1>1, <1>2

LEMMA NextBuddyIndexed ==
    ASSUME TypeOK, AppHandleOK, BuddyIndexed, [Next]_vars PROVE BuddyIndexed'
<1>1. ASSUME NEW o \in Obj, NEW b \in BuddyIds, NEW u \in Uris, AddBuddy(o, b, u)
      PROVE  BuddyIndexed'
    \* add_buddy starts an incarnation that has no Buddy object yet.
    <2>1. owner'["buddy"][b] = None
        BY <1>1 DEF AddBuddy, TypeOK, RegMaps
    <2>2. \A d \in BuddyIds \ {b} : engBuddy'[d] = engBuddy[d]
                                    /\ owner'["buddy"][d] = owner["buddy"][d]
        BY <1>1 DEF AddBuddy, TypeOK, RegMaps
    <2>. QED
        BY <1>1, <2>1, <2>2 DEF AddBuddy, BuddyIndexed
<1>2. ASSUME NEW o \in Obj, BuddyDelete(o) PROVE BuddyIndexed'
    <2>1. \A d \in BuddyIds : engBuddy'[d] = engBuddy[d] \/ engBuddy'[d] = NoUri
        BY <1>2 DEF BuddyDelete, TypeOK
    <2>. QED
        BY <1>2, <2>1 DEF BuddyDelete, BuddyIndexed
<1>3. CASE BuddyInit
    \* Buddy.__init__ indexes its own URI under the new object.
    <2> DEFINE b == app.h
               nw == nObj + 1
    <2>1. app.op = "buddy" /\ b \in BuddyIds
        BY <1>3 DEF BuddyInit, AppWrapper, AppHandleOK, Ids, Kinds
    <2>2. NewWrapper("buddy", b)
        BY <1>3 DEF BuddyInit, AppWrapper
    <2>3. /\ nObj' = nw /\ nw \in 1..MaxObj
          /\ obj'[nw].kind = "buddy"
          /\ \A p \in 1..nObj : obj'[p] = obj[p]
        BY <2>2 DEF NewWrapper, TypeOK, Obj
    <2>4. \A d \in BuddyIds \ {b} : owner'["buddy"][d] = owner["buddy"][d]
        BY <1>3, <2>1 DEF BuddyInit, AppWrapper, TypeOK, RegMaps
    <2>5. engBuddy' = engBuddy
        BY <1>3 DEF BuddyInit
    <2>6. CASE engBuddy[b] = NoUri
        <3>1. buddyByUri' = buddyByUri
            BY <1>3, <2>6 DEF BuddyInit, HandleFreed
        <3>2. SUFFICES ASSUME NEW d \in BuddyIds, engBuddy'[d] # NoUri,
                              owner'["buddy"][d] # None
                       PROVE  /\ buddyByUri'[UriKey(engBuddy'[d])] \in 1..nObj'
                              /\ obj'[buddyByUri'[UriKey(engBuddy'[d])]].kind = "buddy"
            BY DEF BuddyIndexed
        <3>3. d # b /\ owner'["buddy"][d] = owner["buddy"][d]
            BY <2>4, <2>5, <2>6, <3>2
        <3>4. /\ buddyByUri[UriKey(engBuddy[d])] \in 1..nObj
              /\ obj[buddyByUri[UriKey(engBuddy[d])]].kind = "buddy"
            BY <2>5, <3>2, <3>3 DEF BuddyIndexed
        <3>5. buddyByUri'[UriKey(engBuddy'[d])] = buddyByUri[UriKey(engBuddy[d])]
            BY <2>5, <3>1
        <3>6. 1..nObj \subseteq 1..nObj'
            BY <2>3 DEF TypeOK
        <3>. QED
            BY <2>3, <3>4, <3>5, <3>6
    <2>7. CASE engBuddy[b] # NoUri
        <3>1. buddyByUri' = [buddyByUri EXCEPT ![UriKey(engBuddy[b])] = nw]
            BY <1>3, <2>7 DEF BuddyInit, HandleFreed
        <3>2. UriKey(engBuddy[b]) \in UriKeys
            BY <2>1, <2>7 DEF TypeOK, Uris, UriKey
        <3>3. SUFFICES ASSUME NEW d \in BuddyIds, engBuddy'[d] # NoUri,
                              owner'["buddy"][d] # None
                       PROVE  /\ buddyByUri'[UriKey(engBuddy'[d])] \in 1..nObj'
                              /\ obj'[buddyByUri'[UriKey(engBuddy'[d])]].kind = "buddy"
            BY DEF BuddyIndexed
        <3>4. CASE UriKey(engBuddy[d]) = UriKey(engBuddy[b])
            <4>1. buddyByUri'[UriKey(engBuddy'[d])] = nw
                BY <2>5, <3>1, <3>2, <3>4 DEF TypeOK
            <4>. QED
                BY <2>3, <4>1
        <3>5. CASE UriKey(engBuddy[d]) # UriKey(engBuddy[b])
            <4>1. d # b /\ owner'["buddy"][d] = owner["buddy"][d]
                BY <2>4, <3>5
            <4>2. /\ buddyByUri[UriKey(engBuddy[d])] \in 1..nObj
                  /\ obj[buddyByUri[UriKey(engBuddy[d])]].kind = "buddy"
                BY <2>5, <3>3, <4>1 DEF BuddyIndexed
            <4>3. buddyByUri'[UriKey(engBuddy'[d])] = buddyByUri[UriKey(engBuddy[d])]
                BY <2>5, <3>1, <3>5
            <4>4. 1..nObj \subseteq 1..nObj'
                BY <2>3 DEF TypeOK
            <4>. QED
                BY <2>3, <4>2, <4>3, <4>4
        <3>. QED
            BY <3>4, <3>5
    <2>. QED
        BY <2>6, <2>7
<1>4. ASSUME NEW k \in {"acc", "call"}, NEW h, NewWrapper(k, h),
             owner' = owner \/ \E x \in Handles : owner' = [owner EXCEPT ![k][x] = nObj + 1]
             \/ \E y \in Handles : owner' = [owner EXCEPT ![k][y] = None],
             engBuddy' = engBuddy, buddyByUri' = buddyByUri
      PROVE  BuddyIndexed'
    <2>1. owner'["buddy"] = owner["buddy"]
        BY <1>4 DEF TypeOK, RegMaps
    <2>. QED
        BY <1>4, <2>1, NewWrapperKeepsObjects, BuddyIndexFrame
<1>5. CASE AccountInit \/ CallInit
    <2>1. app.op \in {"acc", "call"} /\ app.h \in Handles
        BY <1>5 DEF AccountInit, CallInit, AppWrapper, TypeOK
    <2>. QED
        BY <1>5, <2>1, <1>4 DEF AccountInit, CallInit, AppWrapper
<1>6. ASSUME NEW a \in AccIds, NEW c \in CallIds, IncomingCall(a, c) PROVE BuddyIndexed'
    <2>1. CASE Lookup("acc", a) # None
        BY <1>6, <2>1, <1>4 DEF IncomingCall, Handles
    <2>2. CASE Lookup("acc", a) = None
        <3>1. owner'["buddy"] = owner["buddy"]
            BY <1>6, <2>2 DEF IncomingCall, TypeOK, RegMaps
        <3>. QED
            BY <1>6, <2>2, <3>1, BuddyIndexFrame DEF IncomingCall, TypeOK
    <2>. QED
        BY <2>1, <2>2
<1>7. CASE \/ \E h \in AccIds : CreateAccount(h)
           \/ \E o \in Obj, c \in CallIds : MakeCall(o, c)
    <2>1. owner'["buddy"] = owner["buddy"]
        BY <1>7 DEF CreateAccount, MakeCall, TypeOK, RegMaps
    <2>. QED
        BY <1>7, <2>1, BuddyIndexFrame DEF CreateAccount, MakeCall, TypeOK
<1>8. ASSUME NEW o \in Obj, NEW cb \in Callbacks, SetCallback(o, cb) PROVE BuddyIndexed'
    <2>1. \A p \in 1..nObj : obj'[p].kind = obj[p].kind
        BY <1>8 DEF SetCallback, TypeOK
    <2>. QED
        BY <1>8, <2>1, BuddyIndexFrame DEF SetCallback, TypeOK
<1>9. CASE /\ UNCHANGED <<engBuddy, owner, buddyByUri, obj, nObj>>
    BY <1>9, BuddyIndexFrame DEF TypeOK
<1>. QED
    <2>1. CASE UNCHANGED vars
        BY <2>1, <1>9 DEF vars
    <2>2. CASE Next
        BY <2>2, <1>1, <1>2, <1>3, <1>5, <1>6, <1>7, <1>8, <1>9
        DEF Next, AppStep, EngineStep, AccountDelete, CallHangup, HangupAll,
            AccountRequest, CallRequest, BuddyRequest, CallEvent, RemoteHangup,
            CallDisconnected, CallReplaced, RegState, BuddyState, InstantMessage
    <2>. QED
        BY <2>1, <2>2

\* Of all the steps, only InstantMessage dispatches a message.
LEMMA OnlyInstantMessageDispatchesMessage ==
    ASSUME TypeOK, Next,
           ~\E cid \in CallIds \union {NoCall}, u \in Uris, a \in AccIds :
               InstantMessage(cid, u, a)
    PROVE  lastDispatch'.ev # "message"
<1>1. CASE AppStep
    <2>1. CASE AccountInit \/ CallInit \/ BuddyInit
        BY <2>1 DEF AccountInit, CallInit, BuddyInit, AppWrapper, Dispatched
    <2>2. ASSUME NEW h \in AccIds, CreateAccount(h) PROVE lastDispatch'.ev # "message"
        BY <2>2 DEF CreateAccount, NoDispatch
    <2>3. ASSUME NEW o \in Obj, NEW c \in CallIds, MakeCall(o, c)
          PROVE lastDispatch'.ev # "message"
        BY <2>3 DEF MakeCall, Requested, Dispatched
    <2>4. ASSUME NEW o \in Obj, NEW b \in BuddyIds, NEW u \in Uris, AddBuddy(o, b, u)
          PROVE lastDispatch'.ev # "message"
        BY <2>4 DEF AddBuddy, NoDispatch
    <2>5. ASSUME NEW o \in Obj, AccountDelete(o) \/ BuddyDelete(o) \/ CallHangup(o)
          PROVE lastDispatch'.ev # "message"
        <3>1. CASE AccountDelete(o)
            BY <3>1 DEF AccountDelete, Requested, Dispatched
        <3>2. CASE BuddyDelete(o)
            BY <3>2 DEF BuddyDelete, Requested, Dispatched
        <3>3. CASE CallHangup(o)
            BY <3>3 DEF CallHangup, Requested, Dispatched
        <3>. QED
            BY <2>5, <3>1, <3>2, <3>3
    <2>8. ASSUME NEW o \in Obj, AccountRequest(o) \/ CallRequest(o) \/ BuddyRequest(o)
          PROVE lastDispatch'.ev # "message"
        <3>1. CASE AccountRequest(o)
            BY <3>1 DEF AccountRequest, Requested, Dispatched
        <3>2. CASE CallRequest(o)
            BY <3>2 DEF CallRequest, Requested, Dispatched
        <3>3. CASE BuddyRequest(o)
            BY <3>3 DEF BuddyRequest, Requested, Dispatched
        <3>. QED
            BY <2>8, <3>1, <3>2, <3>3
    <2>6. ASSUME NEW o \in Obj, NEW cb \in Callbacks, SetCallback(o, cb)
          PROVE lastDispatch'.ev # "message"
        BY <2>6 DEF SetCallback, NoDispatch
    <2>7. CASE HangupAll
        BY <2>7 DEF HangupAll, NoDispatch
    <2>. QED
        BY <1>1, <2>1, <2>2, <2>3, <2>4, <2>5, <2>6, <2>7, <2>8 DEF AppStep
<1>2. CASE EngineStep
    <2>1. CASE \E c \in CallIds, ev \in CallEvents : CallEvent(c, ev)
        BY <2>1 DEF CallEvent, Dispatched, CallEvents
    <2>2. CASE ~\E c \in CallIds, ev \in CallEvents : CallEvent(c, ev)
        BY <1>2, <2>2 DEF EngineStep, IncomingCall, RemoteHangup, CallDisconnected,
                          CallReplaced, RegState, BuddyState, Dispatched, NoDispatch
    <2>. QED
        BY <2>1, <2>2
<1>. QED
    BY <1>1, <1>2 DEF Next

LEMMA NextBuddyPrecedence ==
    ASSUME TypeOK, BuddyIndexed, BuddyPrecedence, [Next]_vars PROVE BuddyPrecedence'
<1>1. CASE \E cid \in CallIds \union {NoCall}, u \in Uris, a \in AccIds :
               InstantMessage(cid, u, a)
    BY <1>1, MessageToBuddy
<1>2. CASE Next /\ ~\E cid \in CallIds \union {NoCall}, u \in Uris, a \in AccIds :
                      InstantMessage(cid, u, a)
    BY <1>2, OnlyInstantMessageDispatchesMessage, NotMessage
<1>3. CASE UNCHANGED vars
    BY <1>3 DEF vars, BuddyPrecedence
<1>. QED
    BY <1>1, <1>2, <1>3

\* Every reachable state satisfies BuddyPrecedenceInv: besides the routing
\* of _cb_on_pager, _pager_status and _typing (BuddyPrecedence), the
\* buddy_by_uri entry that _associate_buddy wrote for every live buddy
\* with a constructed Buddy object still names a Buddy object, although
\* Buddy.delete and a later Buddy for the same (user, host) never remove
\* or restore entries (BuddyIndexed), for every choice of the constants.
THEOREM BuddyPrecedenceInvHolds == Spec => []BuddyPrecedenceInv
<1> DEFINE IInv == TypeOK /\ AppHandleOK /\ BuddyIndexed /\ BuddyPrecedence
<1>1. Init => IInv
    <2> SUFFICES ASSUME Init PROVE IInv
        OBVIOUS
    <2>1. owner = EmptyMaps /\ lastDispatch = NoDispatch /\ app.op = "idle"
        BY DEF Init
    <2>. QED
        BY <2>1, InitTypeOK DEF AppHandleOK, Kinds, BuddyIndexed, EmptyMaps,
                                BuddyPrecedence, NoDispatch, MsgEvents
<1>2. IInv /\ [Next]_vars => IInv'
    BY NextTypeOK, NextAppHandle, NextBuddyIndexed, NextBuddyPrecedence
<1>3. IInv => BuddyPrecedenceInv
    BY DEF BuddyPrecedenceInv
<1>. QED
    BY <1>1, <1>2, <1>3, PTL DEF Spec

\* A message or typing indication without a call context from the
\* (user, host) of a live buddy whose Buddy object has been constructed is
\* delivered to a Buddy object's handler by _cb_on_pager, _pager_status and
\* _typing, never to the account's, for every choice of the constants.
THEOREM BuddyRouted == Spec => []BuddyPrecedence
<1>1. BuddyPrecedenceInv => BuddyPrecedence
    BY DEF BuddyPrecedenceInv
<1>. QED
    BY BuddyPrecedenceInvHolds, <1>1, PTL
=============================================================================
