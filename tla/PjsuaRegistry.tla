--------------------------- MODULE PjsuaRegistry ---------------------------
(***************************************************************************)
(* The handle registry and callback dispatcher of pjsua.py (class Lib),    *)
(* together with the wrapper constructors that fill it and the operations *)
(* of Account, Call and Buddy that create, end or re-handle engine         *)
(* entities.                                                               *)
(*                                                                         *)
(* Two threads act on it.  The application thread calls the wrapper's     *)
(* methods; each creating method first calls the engine (which assigns a  *)
(* handle) and only then runs the wrapper's constructor, which registers  *)
(* the object: the variable app holds the thread between the two.  The    *)
(* engine's thread (the worker of Lib.start or Lib.handle_events) invokes *)
(* the _cb_on_* callbacks; each callback is one atomic step here.         *)
(*                                                                         *)
(* The engine itself is abstracted to which handles are live.  owner is   *)
(* a history variable: the wrapper constructed for the current            *)
(* incarnation of a handle (None until the constructor has run).          *)
(***************************************************************************)
EXTENDS Integers, FiniteSets

CONSTANTS
    CallIds,    \* call ids the engine can assign
    AccIds,     \* account ids the engine can assign
    BuddyIds,   \* buddy ids the engine can assign
    UriKeys,    \* (user, host) pairs a SIP URI can parse to
    Ports,      \* port parts a URI can carry; SIPUri ignores them as keys
    MaxObj      \* bound on the number of wrapper objects ever constructed

ASSUME IdsAssumption ==
    /\ CallIds \subseteq Nat /\ AccIds \subseteq Nat /\ BuddyIds \subseteq Nat
    /\ CallIds # {} /\ AccIds # {} /\ BuddyIds # {}
ASSUME MaxObjAssumption == MaxObj \in Nat

VARIABLES
    engCall,     \* engine call slot: "null" (free), "active", "disconnecting"
    engAcc,      \* engine account slot: TRUE when the account exists
    engBuddy,    \* engine buddy slot: its URI, or NoUri when free
    reg,         \* Lib.call / Lib.account / Lib.buddy: kind -> handle -> obj
    buddyByUri,  \* Lib.buddy_by_uri: (user, host) -> obj
    obj,         \* the wrapper objects: kind, handle and installed callback
    nObj,        \* number of wrapper objects constructed so far
    app,         \* application thread: between engine call and constructor;
                 \* fresh is FALSE once the engine has freed that handle
    owner,       \* history: wrapper of the current incarnation of a handle
    lastDispatch \* history: the callback dispatched, or the engine request made
                 \* through a wrapper, by the step into this state

vars == <<engCall, engAcc, engBuddy, reg, buddyByUri, obj, nObj, app,
          owner, lastDispatch>>

Kinds == {"call", "acc", "buddy"}

\* The id space of each kind of engine entity.
Ids(k) == CASE k = "call" -> CallIds [] k = "acc" -> AccIds [] k = "buddy" -> BuddyIds
Handles == CallIds \union AccIds \union BuddyIds
None == 0
Obj == 1..MaxObj
ObjOrNone == 0..MaxObj

\* The reserved call id -1 that the engine passes when a message or typing
\* indication belongs to no call (PJSUA_INVALID_ID).
NoCall == -1

Uris == UriKeys \X Ports
NoUri == <<"none", "none">>

\* The "no URI" marker is not the (user, host) of any URI.
ASSUME UriKeysAssumption == "none" \notin UriKeys

\* SIPUri(uri) followed by (uri.user, uri.host): the port is dropped.
UriKey(u) == u[1]

CallStates == {"null", "active", "disconnecting"}
Callbacks == {"default", "app"}

\* The call-scoped notifications, grouped by how they are dispatched:
\* "notify" for _cb_on_call_state, _media_state and _dtmf_digit (no answer),
\* "transfer_request" for _cb_on_call_transfer_request, and "suggest" for
\* _cb_on_call_transfer_status and _replace_request (which answer with the
\* engine's suggested value when no Call object is found).
CallEvents == {"notify", "transfer_request", "suggest"}
\* _cb_on_pager, _cb_on_pager_status and _cb_on_typing route alike.
MsgEvents == {"message"}
NoKey == "none"
Events == CallEvents \union MsgEvents \union
          {"none", "incoming_call", "replaced", "reg_state", "buddy_state",
           "request", "construct"}

AppOps == {"idle", "acc", "call", "buddy"}

Dispatch == [ev: Events, h: Handles \union {NoCall}, key: UriKeys \union {NoKey},
             to: ObjOrNone, own: ObjOrNone, raised: BOOLEAN,
             suggested: BOOLEAN]

\* AccountCallback.on_incoming_call: whether the handler leaves the new call
\* ringing.  The default handler (the class-level AccountCallback that every
\* Account uses, since Account.__init__ only binds a local _cb) hangs it up;
\* an application's handler may answer it or leave it.
IncomingCallKept(cb) == IF cb = "app" THEN BOOLEAN ELSE {FALSE}

\* CallCallback.on_transfer_request, on_transfer_status, on_replace_request:
\* whether the handler answers the engine's suggested value.  The default
\* handlers return it; an application's handler may answer anything.
CallAnswersSuggested(cb) == IF cb = "app" THEN BOOLEAN ELSE {TRUE}

\* _lookup_call / _lookup_account / _lookup_buddy(id): has_key and the value.
Lookup(k, h) == IF h \in Ids(k) THEN reg[k][h] ELSE None

\* _lookup_buddy(buddy_id, uri): by id, then by the (user, host) of the URI.
LookupBuddy(h, u) ==
    IF Lookup("buddy", h) # None \/ u = NoUri THEN Lookup("buddy", h)
    ELSE buddyByUri[UriKey(u)]

NoDispatch == [ev |-> "none", h |-> NoCall, key |-> NoKey, to |-> None,
               own |-> None, raised |-> FALSE, suggested |-> TRUE]

Dispatched(ev, k, h, key, to) ==
    [ev |-> ev, h |-> h, key |-> key, to |-> to,
     own |-> IF h \in Ids(k) THEN owner[k][h] ELSE None,
     raised |-> FALSE, suggested |-> TRUE]

\* An engine request the application makes through wrapper o of kind k: on
\* the handle the object holds (self._id), whichever entity now has it.
Requested(k, o) == Dispatched("request", k, obj[o].handle, NoKey, o)

\* Mutant of NewWrapper: the bound on constructed objects is not checked.
NewWrapperUnbounded(k, h) ==
    LET o == nObj + 1 IN
    /\ nObj' = o
    /\ obj' = [obj EXCEPT ![o] = [kind |-> k, handle |-> h, cb |-> "default"]]
    /\ reg' = [reg EXCEPT ![k][h] = o]

\* Mutant of NewWrapper: the constructor does not call _associate_*.
NewWrapperNoAssociate(k, h) ==
    LET o == nObj + 1 IN
    /\ nObj < MaxObj
    /\ nObj' = o
    /\ obj' = [obj EXCEPT ![o] = [kind |-> k, handle |-> h, cb |-> "default"]]
    /\ reg' = reg

\* The constructor of a wrapper of kind k for handle h: a fresh object with
\* the default callback, stored by _associate_* under its handle.
NewWrapper(k, h) ==
    LET o == nObj + 1 IN
    /\ nObj < MaxObj
    /\ nObj' = o
    /\ obj' = [obj EXCEPT ![o] = [kind |-> k, handle |-> h, cb |-> "default"]]
    /\ reg' = [reg EXCEPT ![k][h] = o]

\* The engine has no entity under the handle: acc_get_info and call_get_info
\* give None (Account.info, Call.info then raise); Buddy.info has no check
\* and gives a BuddyInfo with the class default uri "".
HandleFreed(k, h) ==
    CASE k = "call" -> engCall[h] = "null"
      [] k = "acc" -> ~engAcc[h]
      [] k = "buddy" -> engBuddy[h] = NoUri

\* The constructor run by the application thread after its engine call:
\* _associate_* stores the object, then self.info() names it, which for an
\* account or a call raises when the engine has freed the handle in
\* between -- the object stays registered and create_account / make_call
\* raise instead of returning it (Buddy.info never raises).  The object becomes the owner of the handle only if the
\* engine has not freed and reassigned that handle in between.
AppWrapper(k) ==
    /\ app.op = k
    /\ NewWrapper(k, app.h)
    /\ owner' = IF app.fresh THEN [owner EXCEPT ![k][app.h] = nObj + 1] ELSE owner
    /\ app' = [app EXCEPT !.op = "idle"]
    /\ lastDispatch' = [Dispatched("construct", k, app.h, NoKey, nObj + 1)
                          EXCEPT !.raised = HandleFreed(k, app.h) /\ k # "buddy"]

\* Lib.call, Lib.account and Lib.buddy, each keyed by its own id space.
RegMaps == [call: [CallIds -> ObjOrNone], acc: [AccIds -> ObjOrNone],
            buddy: [BuddyIds -> ObjOrNone]]
EmptyMaps == [call |-> [h \in CallIds |-> None], acc |-> [h \in AccIds |-> None],
              buddy |-> [h \in BuddyIds |-> None]]

TypeOK ==
    /\ engCall \in [CallIds -> CallStates]
    /\ engAcc \in [AccIds -> BOOLEAN]
    /\ engBuddy \in [BuddyIds -> Uris \union {NoUri}]
    /\ reg \in RegMaps
    /\ buddyByUri \in [UriKeys -> ObjOrNone]
    /\ obj \in [Obj -> [kind: Kinds \union {"none"}, handle: Handles,
                        cb: Callbacks]]
    /\ nObj \in 0..MaxObj
    /\ app \in [op: AppOps, h: Handles, fresh: BOOLEAN]
    /\ owner \in RegMaps
    /\ lastDispatch \in Dispatch

Init ==
    /\ engCall = [h \in CallIds |-> "null"]
    /\ engAcc = [h \in AccIds |-> FALSE]
    /\ engBuddy = [h \in BuddyIds |-> NoUri]
    /\ reg = EmptyMaps
    /\ buddyByUri = [k \in UriKeys |-> None]
    /\ obj = [o \in Obj |-> [kind |-> "none", handle |-> CHOOSE h \in Handles : TRUE,
                             cb |-> "default"]]
    /\ nObj = 0
    /\ app = [op |-> "idle", h |-> CHOOSE h \in Handles : TRUE, fresh |-> TRUE]
    /\ owner = EmptyMaps
    /\ lastDispatch = NoDispatch
-----------------------------------------------------------------------------
(***************************************************************************)
(* Application thread.                                                     *)
(***************************************************************************)

\* Lib.create_account (and create_account_for_transport): _pjsua.acc_add
\* assigns a free account id.  The Account constructor has not run yet.
CreateAccount(h) ==
    /\ app.op = "idle"
    /\ ~engAcc[h]
    /\ engAcc' = [engAcc EXCEPT ![h] = TRUE]
    /\ owner' = [owner EXCEPT !["acc"][h] = None]
    /\ app' = [op |-> "acc", h |-> h, fresh |-> TRUE]
    /\ lastDispatch' = NoDispatch
    /\ UNCHANGED <<engCall, engBuddy, reg, buddyByUri, obj, nObj>>

\* Account.__init__: _associate_account(id, self); the account keeps the
\* class-level default AccountCallback.
AccountInit ==
    /\ AppWrapper("acc")
    /\ UNCHANGED <<engCall, engAcc, engBuddy, buddyByUri>>

\* Account.make_call: _pjsua.call_make_call on the account's id.  On an
\* account the engine no longer has, or with no free call slot, the call
\* fails and _err_check raises: no state changes.
MakeCall(o, c) ==
    /\ app.op = "idle"
    /\ obj[o].kind = "acc"
    /\ engAcc[obj[o].handle]
    /\ engCall[c] = "null"
    /\ engCall' = [engCall EXCEPT ![c] = "active"]
    /\ owner' = [owner EXCEPT !["call"][c] = None]
    /\ app' = [op |-> "call", h |-> c, fresh |-> TRUE]
    /\ lastDispatch' = Requested("acc", o)
    /\ UNCHANGED <<engAcc, engBuddy, reg, buddyByUri, obj, nObj>>

\* Call.__init__: _associate_call(call_id, self).
CallInit ==
    /\ AppWrapper("call")
    /\ UNCHANGED <<engCall, engAcc, engBuddy, buddyByUri>>

\* Account.add_buddy: _pjsua.buddy_add with the URI assigns a buddy id; the
\* call does not take the account's id.
AddBuddy(o, b, u) ==
    /\ app.op = "idle"
    /\ obj[o].kind = "acc"
    /\ engBuddy[b] = NoUri
    /\ engBuddy' = [engBuddy EXCEPT ![b] = u]
    /\ owner' = [owner EXCEPT !["buddy"][b] = None]
    /\ app' = [op |-> "buddy", h |-> b, fresh |-> TRUE]
    /\ lastDispatch' = NoDispatch
    /\ UNCHANGED <<engCall, engAcc, reg, buddyByUri, obj, nObj>>

\* Mutant of BuddyInit: _associate_buddy does not index the URI.
BuddyInitNoIndex ==
    /\ AppWrapper("buddy")
    /\ UNCHANGED <<engCall, engAcc, engBuddy, buddyByUri>>

\* Buddy.__init__: _associate_buddy stores the object under its id and
\* under the (user, host) of the URI the engine reports for that id.  For
\* an id the engine has freed, the URI is "" and the entry goes under a key
\* _lookup_buddy never reads (it skips an empty URI): left out here.
BuddyInit ==
    /\ AppWrapper("buddy")
    /\ buddyByUri' = IF HandleFreed("buddy", app.h) THEN buddyByUri
                     ELSE [buddyByUri EXCEPT ![UriKey(engBuddy[app.h])] = nObj + 1]
    /\ UNCHANGED <<engCall, engAcc, engBuddy>>

\* Account.delete: _pjsua.acc_del(self._id).  The wrapper stays in
\* Lib.account: __del__ never runs while the dictionary holds the object.
AccountDelete(o) ==
    /\ app.op = "idle"
    /\ obj[o].kind = "acc"
    /\ engAcc[obj[o].handle]
    /\ engAcc' = [engAcc EXCEPT ![obj[o].handle] = FALSE]
    /\ lastDispatch' = Requested("acc", o)
    /\ UNCHANGED <<engCall, engBuddy, reg, buddyByUri, obj, nObj, app, owner>>

\* Buddy.delete: _pjsua.buddy_del(self._id); Lib.buddy and
\* Lib.buddy_by_uri keep their entries.
BuddyDelete(o) ==
    /\ app.op = "idle"
    /\ obj[o].kind = "buddy"
    /\ engBuddy[obj[o].handle] # NoUri
    /\ engBuddy' = [engBuddy EXCEPT ![obj[o].handle] = NoUri]
    /\ lastDispatch' = Requested("buddy", o)
    /\ UNCHANGED <<engCall, engAcc, reg, buddyByUri, obj, nObj, app, owner>>

\* Call.hangup: _pjsua.call_hangup(self._id, 603, ...).
CallHangup(o) ==
    /\ app.op = "idle"
    /\ obj[o].kind = "call"
    /\ engCall[obj[o].handle] = "active"
    /\ engCall' = [engCall EXCEPT ![obj[o].handle] = "disconnecting"]
    /\ lastDispatch' = Requested("call", o)
    /\ UNCHANGED <<engAcc, engBuddy, reg, buddyByUri, obj, nObj, app, owner>>

\* Lib.hangup_all: _pjsua.call_hangup_all().
HangupAll ==
    /\ app.op = "idle"
    /\ \E c \in CallIds : engCall[c] = "active"
    /\ engCall' = [c \in CallIds |->
                     IF engCall[c] = "active" THEN "disconnecting" ELSE engCall[c]]
    /\ lastDispatch' = NoDispatch
    /\ UNCHANGED <<engAcc, engBuddy, reg, buddyByUri, obj, nObj, app, owner>>

\* Account/Call/Buddy.set_callback(cb): install cb, or a fresh default
\* callback object when cb is None.
SetCallback(o, cb) ==
    /\ app.op = "idle"
    /\ obj[o].kind # "none"
    /\ obj' = [obj EXCEPT ![o].cb = cb]
    /\ lastDispatch' = NoDispatch
    /\ UNCHANGED <<engCall, engAcc, engBuddy, reg, buddyByUri, nObj, app, owner>>

\* Account.set_default, set_basic_status, set_presence_status,
\* set_registration, set_transport (and the info queries): one engine call
\* on self._id.  On an id the engine does not have, the call fails and
\* _err_check raises.
AccountRequest(o) ==
    /\ app.op = "idle"
    /\ obj[o].kind = "acc"
    /\ engAcc[obj[o].handle]
    /\ lastDispatch' = Requested("acc", o)
    /\ UNCHANGED <<engCall, engAcc, engBuddy, reg, buddyByUri, obj, nObj, app, owner>>

\* Call.answer, hold, unhold, reinvite, update, transfer, transfer_to_call,
\* dial_dtmf, send_request (and info, dump_status): one engine call on
\* self._id.
CallRequest(o) ==
    /\ app.op = "idle"
    /\ obj[o].kind = "call"
    /\ engCall[obj[o].handle] = "active"
    /\ lastDispatch' = Requested("call", o)
    /\ UNCHANGED <<engCall, engAcc, engBuddy, reg, buddyByUri, obj, nObj, app, owner>>

\* Buddy.subscribe, unsubscribe, send_pager, send_typing_ind (and info):
\* one engine call on self._id.
BuddyRequest(o) ==
    /\ app.op = "idle"
    /\ obj[o].kind = "buddy"
    /\ engBuddy[obj[o].handle] # NoUri
    /\ lastDispatch' = Requested("buddy", o)
    /\ UNCHANGED <<engCall, engAcc, engBuddy, reg, buddyByUri, obj, nObj, app, owner>>

-----------------------------------------------------------------------------
(***************************************************************************)
(* Engine thread: the callbacks, each re-dispatched by Lib._cb_on_*.        *)
(***************************************************************************)

\* Mutant of IncomingCall: with no Account object the call is left alone
\* instead of being hung up with 603.
IncomingCallNoHangup(a, c) ==
    /\ engAcc[a]
    /\ engCall[c] = "null"
    /\ LET acc == Lookup("acc", a) IN
       /\ IF acc # None
          THEN /\ NewWrapper("call", c)
               /\ owner' = [owner EXCEPT !["call"][c] = nObj + 1]
               /\ \E keep \in IncomingCallKept(obj[acc].cb) :
                    engCall' = [engCall EXCEPT ![c] =
                                  IF keep THEN "active" ELSE "disconnecting"]
          ELSE /\ engCall' = [engCall EXCEPT ![c] = "active"]
               /\ owner' = [owner EXCEPT !["call"][c] = None]
               /\ UNCHANGED <<reg, obj, nObj>>
       /\ lastDispatch' = Dispatched("incoming_call", "acc", a, NoKey, acc)
    /\ UNCHANGED <<engAcc, engBuddy, buddyByUri, app>>

\* _cb_on_incoming_call: with an Account object for acc_id, construct the
\* Call and pass it to on_incoming_call (the default one hangs it up);
\* without one, _pjsua.call_hangup(call_id, 603).
IncomingCall(a, c) ==
    /\ engAcc[a]
    /\ engCall[c] = "null"
    /\ LET acc == Lookup("acc", a) IN
       /\ IF acc # None
          THEN /\ NewWrapper("call", c)
               /\ owner' = [owner EXCEPT !["call"][c] = nObj + 1]
               /\ \E keep \in IncomingCallKept(obj[acc].cb) :
                    engCall' = [engCall EXCEPT ![c] =
                                  IF keep THEN "active" ELSE "disconnecting"]
          ELSE /\ engCall' = [engCall EXCEPT ![c] = "disconnecting"]
               /\ owner' = [owner EXCEPT !["call"][c] = None]
               /\ UNCHANGED <<reg, obj, nObj>>
       /\ lastDispatch' = Dispatched("incoming_call", "acc", a, NoKey, acc)
    /\ UNCHANGED <<engAcc, engBuddy, buddyByUri, app>>

\* _cb_on_call_state .. _cb_on_call_replace_request: the call's handler, if
\* a Call object is found.  The default handlers return the suggested value;
\* with no object, on_transfer_request answers 603 and the others return
\* the suggested value.
CallEvent(c, ev) ==
    /\ engCall[c] # "null"
    /\ LET call == Lookup("call", c) IN
       \E sug \in IF call = None THEN {ev # "transfer_request"}
                  ELSE CallAnswersSuggested(obj[call].cb) :
         lastDispatch' = [Dispatched(ev, "call", c, NoKey, call)
                            EXCEPT !.suggested = sug]
    /\ UNCHANGED <<engCall, engAcc, engBuddy, reg, buddyByUri, obj, nObj, app,
                   owner>>

\* The engine ends a call on the remote side (BYE received or failure).
RemoteHangup(c) ==
    /\ engCall[c] = "active"
    /\ engCall' = [engCall EXCEPT ![c] = "disconnecting"]
    /\ lastDispatch' = NoDispatch
    /\ UNCHANGED <<engAcc, engBuddy, reg, buddyByUri, obj, nObj, app, owner>>

\* _cb_on_call_state for the DISCONNECTED state, after which the engine
\* frees the call id for reuse.
CallDisconnected(c) ==
    /\ engCall[c] = "disconnecting"
    /\ engCall' = [engCall EXCEPT ![c] = "null"]
    /\ lastDispatch' = Dispatched("notify", "call", c, NoKey, Lookup("call", c))
    /\ app' = IF app.op = "call" /\ app.h = c THEN [app EXCEPT !.fresh = FALSE]
              ELSE app
    /\ UNCHANGED <<engAcc, engBuddy, reg, buddyByUri, obj, nObj, owner>>

\* _cb_on_call_replaced: on_replaced of the old call, only when both calls
\* have Call objects.
CallReplaced(oc, nc) ==
    /\ engCall[oc] # "null"
    /\ engCall[nc] # "null"
    /\ LET old == Lookup("call", oc)
           new == Lookup("call", nc)
       IN lastDispatch' = Dispatched("replaced", "call", oc, NoKey,
                                     IF old # None /\ new # None THEN old ELSE None)
    /\ UNCHANGED <<engCall, engAcc, engBuddy, reg, buddyByUri, obj, nObj, app,
                   owner>>

\* _cb_on_reg_state.
RegState(a) ==
    /\ engAcc[a]
    /\ lastDispatch' = Dispatched("reg_state", "acc", a, NoKey, Lookup("acc", a))
    /\ UNCHANGED <<engCall, engAcc, engBuddy, reg, buddyByUri, obj, nObj, app,
                   owner>>

\* _cb_on_buddy_state.
BuddyState(b) ==
    /\ engBuddy[b] # NoUri
    /\ lastDispatch' = Dispatched("buddy_state", "buddy", b, NoKey,
                                  Lookup("buddy", b))
    /\ UNCHANGED <<engCall, engAcc, engBuddy, reg, buddyByUri, obj, nObj, app,
                   owner>>

\* Mutant of InstantMessage: the account is preferred to the buddy.
InstantMessageAccountFirst(cid, u, a) ==
    /\ cid \in CallIds => engCall[cid] # "null"
    /\ engAcc[a]
    /\ LET call  == IF cid = NoCall THEN Lookup("call", cid) ELSE None
           acc   == Lookup("acc", a)
           buddy == LookupBuddy(NoCall, u)
           to    == IF call # None THEN call
                    ELSE IF acc # None THEN acc ELSE buddy
       IN lastDispatch' = [Dispatched("message", "call", cid, UriKey(u), to)
                             EXCEPT !.raised = (to = None)]
    /\ UNCHANGED <<engCall, engAcc, engBuddy, reg, buddyByUri, obj, nObj, app,
                   owner>>

\* _cb_on_pager / _cb_on_pager_status / _cb_on_typing: the call is looked up
\* only when call_id == -1; otherwise the buddy found by the URI, otherwise
\* the account -- whose _cb is dereferenced even when the lookup gave None,
\* raising AttributeError into the engine.
InstantMessage(cid, u, a) ==
    /\ cid \in CallIds => engCall[cid] # "null"
    /\ engAcc[a]
    /\ LET call  == IF cid = NoCall THEN Lookup("call", cid) ELSE None
           acc   == Lookup("acc", a)
           buddy == LookupBuddy(NoCall, u)
           to    == IF call # None THEN call
                    ELSE IF buddy # None THEN buddy ELSE acc
       IN lastDispatch' = [Dispatched("message", "call", cid, UriKey(u), to)
                             EXCEPT !.raised = (to = None)]
    /\ UNCHANGED <<engCall, engAcc, engBuddy, reg, buddyByUri, obj, nObj, app,
                   owner>>

-----------------------------------------------------------------------------

\* Mutant of EngineReset: the teardown leaves the calls to the engine.
EngineResetKeepsCalls ==
    /\ engAcc' = [h \in AccIds |-> FALSE]
    /\ engBuddy' = [h \in BuddyIds |-> NoUri]
    /\ owner' = EmptyMaps
    /\ lastDispatch' = NoDispatch
    /\ UNCHANGED <<engCall, reg, buddyByUri, obj, nObj, app>>

\* _pjsua.destroy() (Lib.destroy, Lib.__del__): the engine frees every
\* call, account and buddy, so no handle has a current incarnation; Lib's
\* class-level dictionaries and the wrapper objects are left as they are.
EngineReset ==
    /\ engCall' = [h \in CallIds |-> "null"]
    /\ engAcc' = [h \in AccIds |-> FALSE]
    /\ engBuddy' = [h \in BuddyIds |-> NoUri]
    /\ owner' = EmptyMaps
    /\ lastDispatch' = NoDispatch
    /\ UNCHANGED <<reg, buddyByUri, obj, nObj, app>>

AppStep ==
    \/ \E h \in AccIds : CreateAccount(h)
    \/ AccountInit
    \/ \E o \in Obj, c \in CallIds : MakeCall(o, c)
    \/ CallInit
    \/ \E o \in Obj, b \in BuddyIds, u \in Uris : AddBuddy(o, b, u)
    \/ BuddyInit
    \/ \E o \in Obj : AccountDelete(o) \/ BuddyDelete(o) \/ CallHangup(o)
    \/ HangupAll
    \/ \E o \in Obj, cb \in Callbacks : SetCallback(o, cb)
    \/ \E o \in Obj : AccountRequest(o) \/ CallRequest(o) \/ BuddyRequest(o)

EngineStep ==
    \/ \E a \in AccIds, c \in CallIds : IncomingCall(a, c)
    \/ \E c \in CallIds, ev \in CallEvents : CallEvent(c, ev)
    \/ \E c \in CallIds : RemoteHangup(c) \/ CallDisconnected(c)
    \/ \E oc, nc \in CallIds : CallReplaced(oc, nc)
    \/ \E a \in AccIds : RegState(a)
    \/ \E b \in BuddyIds : BuddyState(b)
    \/ \E cid \in CallIds \union {NoCall}, u \in Uris, a \in AccIds :
          InstantMessage(cid, u, a)

Next == AppStep \/ EngineStep

Spec == Init /\ [][Next]_vars
-----------------------------------------------------------------------------
(***************************************************************************)
(* Properties.                                                             *)
(***************************************************************************)

\* No incoming call is left ringing unattended: every active engine call has
\* had a Call object constructed for its current incarnation, unless the
\* application thread is between call_make_call and the Call constructor
\* for it.  This is what _cb_on_incoming_call's hangup of a call on an
\* account without an Account object, and the default on_incoming_call's
\* hangup, are for; an incoming call that arrives on an account during
\* Lib.create_account, before Account.__init__ registers it, exercises it.
EveryActiveCallOwned ==
    \A c \in CallIds :
        engCall[c] = "active" /\ ~(app.op = "call" /\ app.h = c)
            => owner["call"][c] # None

\* The Call constructor of an application thread whose call was freed by
\* the engine (and whose id may have been reassigned) finds, if that id is
\* active again, a Call object already constructed for the new incarnation:
\* only _cb_on_incoming_call can have reactivated it.
AppCallStale ==
    app.op = "call" /\ ~app.fresh /\ engCall[app.h] = "active"
        => owner["call"][app.h] # None

\* The inductive strengthening of EveryActiveCallOwned: the types, the
\* property, the stale-constructor case, and that a thread inside
\* Account.make_call holds a call id.
CallOwnedInv ==
    /\ TypeOK
    /\ EveryActiveCallOwned
    /\ AppCallStale
    /\ app.op = "call" => app.h \in CallIds

\* A message or typing indication without a call context from a party that
\* is a live buddy whose Buddy object has been constructed is delivered to a Buddy object's handler,
\* never to the account's (the routing order of _cb_on_pager, _pager_status
\* and _typing through _lookup_buddy's URI index, which ignores the port).
BuddyPrecedence ==
    LET d == lastDispatch IN
    /\ d.ev \in MsgEvents
    /\ d.h = NoCall
    /\ \E b \in BuddyIds : /\ engBuddy[b] # NoUri
                         /\ UriKey(engBuddy[b]) = d.key
                         /\ owner["buddy"][b] # None
                         /\ reg["buddy"][b] = owner["buddy"][b]
    => d.to # None /\ obj[d.to].kind = "buddy"

\* Lib.buddy_by_uri indexes every live buddy whose Buddy object was
\* constructed for its current incarnation: the buddy's (user, host) maps to
\* a constructed Buddy object.  Buddy.__init__ writes the index through
\* _associate_buddy, and no step removes an entry (_disassociate_buddy,
\* which would, runs only from __del__).
BuddyIndexed ==
    \A b \in BuddyIds :
        engBuddy[b] # NoUri /\ owner["buddy"][b] # None
            => /\ buddyByUri[UriKey(engBuddy[b])] \in 1..nObj
               /\ obj[buddyByUri[UriKey(engBuddy[b])]].kind = "buddy"

\* The inductive strengthening of BuddyPrecedence.
BuddyPrecedenceInv == TypeOK /\ BuddyIndexed /\ BuddyPrecedence

\* The spec's registry contract (sections 3 and 8): an engine notification
\* for a handle reaches the wrapper constructed for the entity that
\* currently holds the handle, never a wrapper left from an earlier entity
\* with the same id.  Broken because Lib's dictionaries keep every wrapper
\* for ever and the constructors register only after the engine call.
DispatchToOwner ==
    LET d == lastDispatch IN
    d.ev \in CallEvents \union {"replaced", "reg_state", "buddy_state"} /\ d.to # None
        => d.to = d.own

\* The spec (section 4.1): a message or typing indication that belongs to a
\* call with a Call object is routed to that call's handler.
\* _cb_on_pager looks the call up only when call_id == -1.
PagerFollowsCall ==
    LET d == lastDispatch IN
    d.ev \in MsgEvents /\ d.h # NoCall /\ Lookup("call", d.h) # None
        => d.to = Lookup("call", d.h)

\* The spec (section 4.1): the dispatcher never raises into the engine.
\* _cb_on_pager dereferences acc._cb when neither a buddy nor an Account
\* object was found.
DispatchNeverRaises ==
    lastDispatch.ev \notin {"request", "construct"} => ~lastDispatch.raised

\* The spec (sections 3 and 4.1): a wrapper is created when the application
\* creates one, and construction registers it; failures surface only from
\* an engine request that failed.  A creating method whose engine call
\* succeeded (acc_add, call_make_call, buddy_add) therefore returns the
\* object its constructor registered.  Call.__init__ calls self.info()
\* after _associate_call, and call_get_info fails when the remote side has
\* ended the new call in the meantime: make_call raises, and Lib.call keeps
\* an object the application never received.
ConstructorCompletes ==
    lastDispatch.ev = "construct" => ~lastDispatch.raised

\* The spec (section 3): a handle is not reused while a wrapper object that
\* references it is alive, so a request the application makes through a
\* wrapper (delete, hangup, make_call, set_registration, send_pager, ...)
\* acts on the entity that wrapper was constructed for.  The wrappers stay
\* alive in Lib's dictionaries while the engine reuses their ids.
RequestReachesOwner ==
    LET d == lastDispatch IN d.ev = "request" => d.to = d.own
-----------------------------------------------------------------------------
(***************************************************************************)
(* Refinement: Lib's three maps implement the registry contract.  A slot  *)
(* is a kind with one of its ids; an object's slot is its kind and handle *)
(* once its constructor has run.                                           *)
(***************************************************************************)
RegSlots == UNION {{k} \X Ids(k) : k \in Kinds}
NoSlot == <<"none", None>>
RegView == [s \in RegSlots |-> reg[s[1]][s[2]]]
SlotView == [o \in Obj |-> IF o <= nObj THEN <<obj[o].kind, obj[o].handle>> ELSE NoSlot]

Contract == INSTANCE RegistryContract
    WITH Slots <- RegSlots, Objects <- Obj, NoObj <- None, NoSlot <- NoSlot,
         map <- RegView, slotOf <- SlotView

\* The spec's registry contract (sections 3, 4.1, 5): Lib.call, Lib.account
\* and Lib.buddy change only when a wrapper constructor registers its new
\* object under its own kind and id (last write wins), and an object's
\* handle never changes after construction.
ImplementsContract == Contract!Spec
=============================================================================
