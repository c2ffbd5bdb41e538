\* Two sleepers and a signaller, or three of either, with up to two permits.
SPECIFICATION SemaphoreSpec
CONSTANTS
    t1 = t1
    t2 = t2
    t3 = t3
    NoThread = NoThread
    Threads <- MCThreads
    MaxCount = 2
INVARIANTS
    SemaphoreTypeOK
    MutexHeld
    NoLostWakeup
PROPERTY
    ImplementsSemaphore
