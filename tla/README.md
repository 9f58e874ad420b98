# Verification of pjsua.py

TLA+ models, TLC runs and TLAPS proofs for the Python binding of the
pjsua SIP user agent, `src/pjsip-apps/src/python/pjsua.py`.

## The system

`pjsua.py` wraps a native engine (the `_pjsua` extension; the engine itself
is outside this repository) in Python objects. Its parts:

| Part | Code | What it does |
|---|---|---|
| Lib singleton | `Lib`, global `_lib` (1810–1914) | creates, initialises, starts and destroys the one engine; optionally spawns the worker thread |
| Worker thread | `_worker_thread_main` (2438–2445) | `while _lib._quit == 0: handle_events(50)`, then `_lib._quit = 2` |
| Registry | `Lib.call`, `Lib.account`, `Lib.buddy`, `Lib.buddy_by_uri` (1815–1818), `_associate_*`/`_lookup_*`/`_disassociate_*` (2239–2281) | maps engine handles, and buddy (user, host) keys, to wrapper objects |
| Dispatcher | `Lib._cb_on_*` (2283–2387) and the module-level trampolines (2396–2434) | finds the wrapper of an engine notification and calls its callback object |
| Wrappers | `Account` (915), `Call` (1307), `Buddy` (1609) | each holds a handle; its constructor registers it; its methods call the engine |
| Callback classes | `AccountCallback` (836), `CallCallback` (1105), `BuddyCallback` (1553) | default handlers; the application subclasses them |
| Data classes | config, info and codec classes, `SIPUri`, `Error` | conversion to and from engine structures |

Two threads interact. The application thread calls wrapper methods. The
engine's thread (the worker, or the application inside `handle_events`)
runs the callbacks. Each creating method calls the engine first (which
assigns the handle) and constructs the wrapper after it returns. Engine
notifications for the new handle can arrive in between.

## Modules

* `PjsuaRegistry.tla` models the registry, dispatcher and wrappers.
  * State:
    * the engine's live handles (`engCall`, `engAcc`, `engBuddy`);
    * the maps (`reg`, `buddyByUri`);
    * the wrapper objects (`obj`, with kind, handle and installed callback), with `nObj` counting the objects constructed so far;
    * `app`, the application thread between an engine call and the constructor it is followed by.
  * Two history variables:
    * `owner` is the wrapper constructed for the *current incarnation* of each handle;
    * `lastDispatch` is what the last callback dispatched: event, target object, owner, whether it raised, and whether it answered the suggested value (`_cb_on_call_transfer_request` answers 603 for a call without a Call object, where the spec says the suggested code; that divergence is recorded in the model but no run checks it). A request the application makes through a wrapper is recorded in it too, as event `request`, with the object used and the owner of the handle it reaches.
  * Actions:
    * one per application operation: `CreateAccount` with `AccountInit`, `MakeCall` with `CallInit`, `AddBuddy` with `BuddyInit`, `AccountDelete`, `BuddyDelete`, `CallHangup`, `HangupAll`, `SetCallback`;
    * `AccountRequest`, `CallRequest` and `BuddyRequest`, for the wrapper methods that pass one request on `self._id` to the engine (`set_registration`, `answer`, `hold`, `transfer`, `send_pager`, ...); they change no modelled state;
    * one per callback: `IncomingCall`, `CallEvent`, `CallDisconnected`, `CallReplaced`, `RegState`, `BuddyState`, `InstantMessage`;
    * plus the engine's own `RemoteHangup`, modelled from the engine's contract.
  * Data is abstracted:
    * a URI is a (key, port) pair, and `UriKey` keeps what `SIPUri` yields for the map key;
    * the notify-only call events are grouped, and so are pager, pager-status and typing, which route identically;
    * a callback is either the default or the application's, and the application's may answer anything.
  * A constructor (`AppWrapper`) registers the object and then calls `info()`. For an account or a call, that call raises when the engine has freed the handle in the window (`HandleFreed`). `Buddy.info` has no error check: for a freed buddy id it returns the class default `uri = ""`. `_associate_buddy` then files the object under a `buddy_by_uri` key that `_lookup_buddy` never reads, because it skips an empty URI, so the model leaves that entry out. The constructor is recorded as a `construct` dispatch.
* `AddBuddy` records no dispatch: `buddy_add` takes a buddy configuration, not the account's id.
* `RegistryContract.tla` is the abstract specification of the registry, written from the spec (sections 3, 4.1 and 5). It is a map from slots (a kind and a handle) to objects, with `Register` (last write wins, and an object's slot never changes) and `Unregister` (only if the entry is that object).
  * `PjsuaRegistry` instantiates it with a refinement mapping:
    * `RegView` reads `reg` as a slot-to-object map;
    * `SlotView` gives each constructed object its kind and handle.
  * `ImplementsContract` is the contract's `Spec` under that mapping.
* `PjsuaSystem.tla` composes `PjsuaLib` and `PjsuaRegistry` as two named instances over one set of variables:
  * Lib calls run only outside the constructor windows.
  * Registry calls run only outside `destroy`'s wait, on an engine that `init` has set up.
  * Callbacks run only on a started engine.
  * A Lib step that runs `_pjsua.destroy()` is also `EngineReset`: every engine handle is freed, while `Lib.call`, `Lib.account`, `Lib.buddy` and `Lib.buddy_by_uri` are left as they are.
  * The history variable `objLib` records the `_lib` under which each wrapper was built.
* `PjsuaRegistryProofs.tla` holds the TLAPS proofs about `PjsuaRegistry`.
* `PjsuaLibProofs.tla` holds the TLAPS proofs about `PjsuaLib`.
* `PjsuaSystemProofs.tla` holds the TLAPS proofs about `PjsuaSystem`.
* `PjsuaLib.tla` models the Lib life cycle and the worker threads.
  * State:
    * the global `_lib` (`glib`) and the engine's state;
    * each Lib object's state, `_quit` and `_has_thread`;
    * each worker's program counter (`reg`, `check`, `poll` meaning inside `handle_events`, `exit`, `done`, `crashed`);
    * the application's position in `destroy`'s wait loop and its counter.
  * `Destroy` is enabled on a live Lib and also on one already destroyed. `Lib.destroy` has no guard, so a second call waits again, calls `_pjsua.destroy()` and sets `_lib = None`, whichever Lib is current by then.
  * `Drop` (`Lib.__del__`) happens only while the application thread is outside `destroy`: only that thread holds the reference.
  * `handle_events` is entered and returned from in separate steps, because an application callback inside it may block.
* `MCPjsuaRegistry.tla`, `MCPjsuaLib.tla` and `MCPjsuaSystem.tla` are the model-checking instances.

## Runs

| Run | Expect | Checks |
|---|---|---|
| `registry` | pass | `TypeOK`, `EveryActiveCallOwned`, `CallOwnedInv`, `BuddyPrecedence`, `BuddyPrecedenceInv` |
| `registry_dispatch_to_owner` | violation | `DispatchToOwner` |
| `registry_pager_follows_call` | violation | `PagerFollowsCall` |
| `registry_never_raises` | violation | `DispatchNeverRaises` |
| `registry_contract` | pass | `ImplementsContract` |
| `registry_request_reaches_owner` | violation | `RequestReachesOwner` |
| `registry_constructor_completes` | violation | `ConstructorCompletes` |
| `system` | pass | `CallsOwnedAcrossRestart`, `ContractAcrossRestart` |
| `system_dispatch_stays_in_lib` | violation | `DispatchStaysInLib` |
| `lib_single` | pass | `TypeOK`, `WorkerStopInv`, `DestroyWaitsForWorker`, `DestroyTerminates`, `WorkerStops` |
| `lib_no_poll_after_shutdown` | violation | `NoPollAfterShutdown` |
| `lib_engine_lifetime` | violation | `LiveLibHasEngine` |

What the passing runs show:

* **EveryActiveCallOwned**: an active call always has a Call object for its current incarnation, except while `make_call` is between `call_make_call` and `Call(...)`. This rests on two things:
  * `_cb_on_incoming_call` hangs up calls on accounts that have no Account object;
  * the default `on_incoming_call` hangs up.

  `CallOwnedInv` is the inductive strengthening of the same property, and is checked too.
* **BuddyPrecedence**: a message without call context from a live, registered buddy's (user, host) reaches a Buddy handler, never the account's.
* **DestroyWaitsForWorker**: with one Lib, `destroy` tears the engine down under a worker that is inside `handle_events` only after all 400 polls. `WorkerStopInv` is its inductive strengthening and is checked too. With two Libs the property fails: the first Lib's worker may still be inside `handle_events` when the second Lib's worker signals `_quit = 2`. This has the same cause as the `NoPollAfterShutdown` violation below.
* **DestroyTerminates**: `destroy` always finishes, however long a callback blocks the worker. This assumes that each of the application thread's own `handle_events(50)` calls in the wait loop returns (see Fairness). What the run shows is that the counter bound of 400 ends the wait without any step from the worker.
* **ImplementsContract**: every change to Lib's maps is a `Register` of a newly constructed object under its own slot. The `registry_contract` run checks it with one call id, so a stale Call object and its successor share a slot; it runs without symmetry, which TLC does not apply soundly to temporal properties. The contract allows last-write-wins overwrites, so it says nothing about *which* object a callback reaches; `DispatchToOwner` covers that.
* **CallsOwnedAcrossRestart**: with two Libs in turn sharing the class-level maps, an active call still always has a Call object of its own incarnation. This holds only because `_pjsua.destroy()` frees every call of the old engine.
* **ContractAcrossRestart**: with two Libs in turn, Lib's maps still implement the registry contract. `_pjsua.destroy()` neither clears the maps nor touches the wrappers, so every Lib step is a stutter of the contract.
* **WorkerStops**: a worker at its loop test after being asked to stop does return.

What the violation runs show (see `findings` in `PROJECT.json`):

* **DispatchToOwner**: wrappers are never deregistered. Their `__del__` cannot run while the class-level dicts hold them, and would raise `TypeError` anyway. Events for a reused handle therefore reach the old object.
* **PagerFollowsCall**: `_cb_on_pager` consults the call only when `call_id == -1`.
* **DispatchNeverRaises**: `acc._cb` is dereferenced on `None`, for example during `create_account`'s window.
* **RequestReachesOwner**: `Account.delete` frees the id, but the Account object stays alive in `Lib.account`. A later `create_account` may get the same id, and a request through the old object then acts on the new account. The spec (section 3) says a handle is not reused while a wrapper referencing it is alive. `Call.hangup` on a kept Call object has the same hazard.
* **ConstructorCompletes**: `Call.__init__` calls `info()` after `_associate_call`. Suppose the call ended between `call_make_call` and the constructor (remote hangup, then disconnect). Then `make_call` raises `Error`, and the Call object stays in `Lib.call`. The Account constructor has the same shape, but account ids are freed only by the application thread, which is busy in the constructor. `Buddy.info` never raises.
* **DispatchStaysInLib**: after `destroy` and a new `Lib()`, the new engine hands out the same ids. `on_reg_state` for a new account, arriving before its `Account.__init__`, then reaches the Account object of the destroyed Lib. The spec ties the registry's lifecycle to the single engine.
* **NoPollAfterShutdown**: the worker tests the *global* `_lib`. If `destroy` gave up and a new Lib was constructed, the old worker keeps polling.
* **LiveLibHasEngine**: `Lib.__del__` always calls `_pjsua.destroy()`. A refused second `Lib()`, or dropping an old destroyed Lib, therefore kills the live engine.

### Bounds

The registry runs use these bounds:
* two call ids, one account id and one buddy id;
* URI keys `{alice, bob}` with ports `{0, 5060}`, so two URIs share a key;
* at most 3 wrapper objects;
* symmetry over the URI keys.

Three objects are enough for the interesting cases, for example:
* an account, then an incoming call, then a second call's stale constructor;
* an account, a buddy, and a message from the buddy's key on another port.

The run has about 217,000 distinct states.

The `system` runs compose the two with smaller bounds. They have two Libs in turn, `MaxPolls = 1`, one id of each kind, one URI key and port, and two wrapper objects. That is enough for an object of the first Lib to meet a reused id under the second. One poll is enough here: the wait bound itself is what the Lib runs check. The passing run uses a TLC `VIEW` (`MCView`) that leaves out `lastDispatch`. That variable is a history that no action reads, so states that differ only in it have the same futures. Neither `CallsOwnedAcrossRestart` nor `ContractAcrossRestart` reads it. With the view the run has about 130,000 distinct states; without it there are several times as many, and checking the contract there takes minutes. `system_dispatch_stays_in_lib` reads `lastDispatch` and runs without the view.

The Lib runs use the code's own bound of 400 polls. `lib_single` has one Lib, which is the documented usage. The two Lib violation runs have two, which is what the restart and refusal sequences need; so does `system`.

The `lib_single` and `system` runs do not check deadlock: when all its Lib objects are gone the process has nothing left to do.

`HangupAll` reaches no state that `RemoteHangup` steps do not also reach. It is enabled in the registry run and checked there, but it adds no distinct states.

### Fairness

`PjsuaLib` assumes weak fairness of the application's wait-loop steps (`DestroyPoll`, `DestroyFinish`), and of every worker step except the return from `handle_events`. `DestroyPoll` is one whole `_pjsua.handle_events(50)` call on the application thread. Its fairness is an assumption about the application's own callbacks: if one of them blocked the application thread, `destroy` would not finish either, and nothing in `pjsua.py` prevents that. `DestroyTerminates` therefore shows only that the wait ends without the worker's help. A worker inside `handle_events` runs application callbacks and may block for ever, so it gets no fairness for its return; that is why `destroy` has a bound. The registry runs check only safety.

## Proofs

`PjsuaRegistryProofs.tla` proves six theorems for every choice of id sets (subsets of Nat), URI keys, ports and `MaxObj \in Nat`, and for URI keys that do not include the marker `"none"` (`UriKeysAssumption`):

* `TypeCorrect` proves `Spec => []TypeOK`. It rests on:
  * lemmas about each map update (`RegMapsExcept`) and each constructor (`NewWrapperTypeOK`, `AppWrapperTypeOK`);
  * typing lemmas for lookups and dispatch records.
* `CallOwned` proves `Spec => []EveryActiveCallOwned`. It goes through the inductive invariant `CallOwnedInv`, which is the conjunction of:
  * `TypeOK`;
  * the property itself;
  * `AppCallStale`: if `make_call`'s thread holds a call id that the engine has freed and that is active again, a Call object was already constructed for the new incarnation;
  * a conjunct saying the thread's handle is a call id.

  Without `AppCallStale` the property is not inductive. A stale `Call(...)` after the id's reuse would take a step from a state where the call is unowned and exempt to one where it is owned. The strengthening shows that only `_cb_on_incoming_call` can have reactivated the id, and that it constructs the Call object.

  TLC checks `CallOwnedInv` in the `registry` run before it is proved.

* `CallOwnedInvHolds` states `Spec => []CallOwnedInv` as a result of its own. `AppCallStale` is a claim about `make_call`'s stale constructor that a reviewer of `Account.make_call` would want on its own terms.
* `BuddyRouted` proves `Spec => []BuddyPrecedence`. A message or typing indication with no call, from the (user, host) of a live buddy with a constructed Buddy object, reaches a Buddy object's handler and never the account's. The property alone is not inductive: a step that adds or removes a buddy changes which messages it constrains. The inductive invariant is `TypeOK /\ AppHandleOK /\ BuddyIndexed /\ BuddyPrecedence`. `BuddyIndexed` says that `buddy_by_uri` maps the key of every live buddy that has an owner to a constructed Buddy object. TLC checks that conjunction (less `AppHandleOK`) as `BuddyPrecedenceInv` in the `registry` run. `BuddyPrecedenceInvHolds` proves `Spec => []BuddyPrecedenceInv`, and `BuddyRouted` follows from it. The proof has four parts:
  * `NextBuddyIndexed`: one case per step, with constructors handled by `NewWrapperKeepsObjects` and frame steps by `BuddyIndexFrame`;
  * `OnlyInstantMessageDispatchesMessage`: every other step dispatches something other than a message, so the property holds trivially after it;
  * `MessageToBuddy`: `_cb_on_pager`'s lookup by URI key finds the indexed Buddy object;
  * `UriNotNone`: the `NoUri` marker of a free buddy slot is never a real URI.

* `Implements` proves `Spec => ImplementsContract`, following the usual refinement layout:
  * `Init` maps to the contract's `Init`;
  * each step maps to a contract step or a stutter.

  The step has four cases:
  * the constructors (`NewWrapperRegisters`: the new object `nObj + 1` is registered under its own slot, which was `NoSlot` before);
  * `IncomingCall`, which also constructs;
  * `SetCallback`, which changes `obj` but not the kind or handle;
  * everything else, which leaves both views unchanged (`ContractStutter`).

  It needs the invariant `AppHandleOK`: the constructor's handle is an id of its own kind. That invariant is proved together with `TypeOK`. The initial-state and step obligations are the lemmas `ContractInit` and `ContractStep`, which the system proof reuses.

`PjsuaLibProofs.tla` proves three theorems for every set of Lib ids and every `MaxPolls \in Nat \ {0}`:

* `LibTypeCorrect` proves `Spec => []TypeOK`. It has one step per application action and one per worker action.
* `DestroyWaitsForWorkerHolds` proves `Spec => DestroyWaitsForWorker` when `Libs` is a singleton. It goes through `WorkerStopInv`. That invariant says:
  * `_quit = 2` only for a Lib whose worker is `done`;
  * a Lib has a nonzero `_quit`, or a worker, only if `_has_thread` is set;
  * a live Lib with a worker has a started engine;
  * an unborn Lib has no worker.

  `WorkerStopHolds` states `Spec => []WorkerStopInv` itself, also for a singleton `Libs`; the `lib_single` run checks it.

  The first conjunct alone is not inductive. `Lib.start` could otherwise spawn a fresh worker under a Lib whose flag is already 2. The other conjuncts show that a Lib with a worker cannot be started again. The singleton assumption is needed because `_worker_thread_main` sets the flag of the global `_lib`, whichever Lib it was started by.

`PjsuaSystemProofs.tla` proves three theorems about the composition, for every set of Libs, `MaxPolls`, id space and object bound:
* `SystemTypeCorrect`: `Spec => []TypeOK`, the type invariant the other two rest on;
* `CallsOwnedAcrossRestartHolds`: `Spec => []CallsOwnedAcrossRestart`;
* `SystemImplementsContract`: `Spec => ContractAcrossRestart`.

Both use the inductive invariant `IInv == TypeOK /\ R!CallOwnedInv`. Each component's steps keep their own part of it by the component lemmas (`NextLibTypeOK`, `NextCallOwned`), cited through the instances. For this reason `PjsuaSystem` takes `L` and `R` as instances of the proof modules, whose definitions are those of `PjsuaLib` and `PjsuaRegistry`. The one step that no component covers is a Lib step that runs `_pjsua.destroy()`. `ResetCallOwned` shows that it leaves no call active and so keeps `CallOwnedInv`. This holds even though the class-level maps keep their wrappers. TLAPS does not take the components' assumptions as facts through an instance, so `PjsuaSystem` restates them as `ComponentAssumptions`. TLC evaluates that assumption on the `system` runs.

`SystemImplementsContract` is a refinement proof over any number of Libs. Registry steps map to a `Register` or a stutter by the registry's `ContractStep`. Every Lib step is a stutter (`LibStepStutters`): `_pjsua.destroy()` changes the engine's handles and the ghost owners, but not `reg`, `obj` or `nObj`. The proof needs `AppHandleOK` in the composition as well. It holds there because Lib steps leave the application thread's operation alone (`NextAppHandleOK`).

What stays with TLC:
* `DispatchStaysInLib`. It is false, so it is a violation run and not a theorem.
* `DestroyWaitsForWorker` with more than one Lib. It does not hold there, because a worker sets the flag of whichever Lib is the global `_lib`; the theorems assume a single Lib. `lib_no_poll_after_shutdown` shows the consequence of a second Lib.
* Liveness (`DestroyTerminates`, `WorkerStops`) is checked by TLC only. TLAPS cannot reason about liveness under fairness or about `ENABLED`.

## Not modelled

* The engine itself: SIP, media and transports are outside the repository. It appears only as which handles are live.
* The configuration, info and codec classes: these are pure conversions.
* The transport, media, conference, player and recorder methods: each is one engine call and an error check.
* `SIPUri.encode`: this is string building.
* In the composition, account and call operations are allowed once `init` has run, which is an over-approximation for `make_call` before `start`. The composition's type invariant, `CallsOwnedAcrossRestart` and its refinement of the registry contract are proved; `DispatchStaysInLib` is model-checked, and is violated.
