\* The refinement of RegistryContract, with one call id so that a stale
\* Call object and its successor share a slot.
CONSTANTS
    CallIds <- MCOneCallId
    AccIds <- MCAccIds
    BuddyIds <- MCBuddyIds
    UriKeys = {alice, bob}
    Ports <- MCPorts
    MaxObj = 3
SPECIFICATION Spec
PROPERTY ImplementsContract
