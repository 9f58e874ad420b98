\* make_call's Call constructor against a remote hang-up in its window.
CONSTANTS
    CallIds <- MCCallIds
    AccIds <- MCAccIds
    BuddyIds <- MCBuddyIds
    UriKeys = {alice, bob}
    Ports <- MCPorts
    MaxObj = 3
SPECIFICATION Spec
INVARIANT ConstructorCompletes
SYMMETRY MCSymmetry
