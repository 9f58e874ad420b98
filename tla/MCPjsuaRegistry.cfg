CONSTANTS
    CallIds <- MCCallIds
    AccIds <- MCAccIds
    BuddyIds <- MCBuddyIds
    UriKeys = {alice, bob}
    Ports <- MCPorts
    MaxObj = 3
SPECIFICATION Spec
INVARIANT TypeOK
INVARIANT EveryActiveCallOwned
INVARIANT CallOwnedInv
INVARIANT BuddyPrecedence
INVARIANT BuddyPrecedenceInv
SYMMETRY MCSymmetry
