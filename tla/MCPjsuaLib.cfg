\* One Lib per process, as the documentation uses it: construct, init,
\* start with or without a worker, destroy, drop.  MaxPolls is the code's.
CONSTANTS
    Libs = {1}
    MaxPolls = 400
SPECIFICATION Spec
INVARIANT TypeOK
INVARIANT WorkerStopInv
PROPERTY DestroyWaitsForWorker
PROPERTY DestroyTerminates
PROPERTY WorkerStops
\* The process ends once its Lib is gone.
CHECK_DEADLOCK FALSE
