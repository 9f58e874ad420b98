\* Two Libs in turn, each destroyed without a worker or with one, one of
\* destroy's polls, one handle of each kind, two wrapper objects.
CONSTANTS
    Libs = {1, 2}
    MaxPolls = 1
    CallIds <- MCIds
    AccIds <- MCIds
    BuddyIds <- MCIds
    UriKeys = {alice}
    Ports <- MCIds
    MaxObj = 2
SPECIFICATION Spec
VIEW MCView
INVARIANT CallsOwnedAcrossRestart
PROPERTY ContractAcrossRestart
\* The process ends once its Libs are gone.
CHECK_DEADLOCK FALSE
