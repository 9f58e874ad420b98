-------------------------- MODULE RegistryContract --------------------------
(***************************************************************************)
(* What the handle registry promises (spec sections 3, 4.1 and 5), with    *)
(* no engine and no dispatch: a map from slots (a kind of entity and one  *)
(* of its handles) to wrapper objects.                                     *)
(*                                                                         *)
(*   register(kind, handle, object): a newly constructed object, whose     *)
(*     handle never changes afterwards, overwrites the slot (last write    *)
(*     wins);                                                              *)
(*   unregister(kind, object): removes the slot's entry only if it is that *)
(*     very object;                                                        *)
(*   lookup(kind, handle): reads the map and changes nothing.              *)
(***************************************************************************)
CONSTANTS
    Slots,      \* the (kind, handle) pairs
    Objects,    \* the wrapper objects that may ever be constructed
    NoObj,      \* "not found"
    NoSlot      \* the slot of an object not constructed yet

VARIABLES
    map,        \* slot -> the registered object, or NoObj
    slotOf      \* object -> its (immutable) slot, or NoSlot before construction

cvars == <<map, slotOf>>

Init ==
    /\ map = [s \in Slots |-> NoObj]
    /\ slotOf = [o \in Objects |-> NoSlot]

\* Construction registers the new object under its own slot.
Register(s, o) ==
    /\ slotOf[o] = NoSlot
    /\ slotOf' = [slotOf EXCEPT ![o] = s]
    /\ map' = [map EXCEPT ![s] = o]

\* Destruction removes the entry only where it still names the object.
Unregister(o) ==
    /\ slotOf[o] # NoSlot
    /\ map' = IF map[slotOf[o]] = o THEN [map EXCEPT ![slotOf[o]] = NoObj] ELSE map
    /\ UNCHANGED slotOf

Next ==
    \/ \E s \in Slots, o \in Objects : Register(s, o)
    \/ \E o \in Objects : Unregister(o)

Spec == Init /\ [][Next]_cvars

\* Spec section 5: lookup(k, h) returns the object most recently
\* registered under (k, h), so a registered object is found under its own
\* slot only.
MapHoldsOwnSlot ==
    \A s \in Slots : map[s] # NoObj => slotOf[map[s]] = s
=============================================================================
