CONSTANTS
    CallIds <- MCCallIds
    AccIds <- MCAccIds
    BuddyIds <- MCBuddyIds
    UriKeys = {alice, bob}
    Ports <- MCPorts
    MaxObj = 3
SPECIFICATION Spec
INVARIANT DispatchNeverRaises
SYMMETRY MCSymmetry
