SPECIFICATION Spec
CHECK_DEADLOCK FALSE
CONSTANTS
    Packets <- AllPackets
    CallbackTypes = {"Input", "ServerBoundPacket"}
    Priorities = {0, 200}
    MaxCallbacks = 2
    MaxEvents = 3
INVARIANTS
    OneRound
    ContextsDie
    Forwarded
PROPERTIES
    CancelIsFinal
    ScriptsSeeFirst
    DispatcherSpec
