SPECIFICATION Spec
CHECK_DEADLOCK FALSE
CONSTANTS
    Packets <- ChatPackets
    CallbackTypes = {"Input"}
    Priorities = {0}
    MaxCallbacks = 1
    MaxEvents = 2
INVARIANTS
    ModificationForwarded
