\* A request of each kind, two places in the queue, one of them reserved, and two stops.
CONSTANTS
    telemetry = telemetry
    control = control
    launching = launching
    asking = asking
    QueueRequests <- Queued
    QueueMax = 2
    QueueReserve = 1
    QueueStops = 2
SPECIFICATION QueueSpec
INVARIANTS
    AnswersSound
PROPERTIES
    WaitersAnswered
CHECK_DEADLOCK FALSE
