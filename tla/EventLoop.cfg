\* A worker and its parent: five calls of their scripts, and one input or signal.
SPECIFICATION Spec
CONSTANTS
    Main = Main
    Worker = Worker
    Nobody = Nobody
    MaxCalls = 5
    MaxEvents = 1
INVARIANT PipesCounted ByteForMessages DeliveredInOrder
PROPERTY MessageHandled
CHECK_DEADLOCK FALSE
