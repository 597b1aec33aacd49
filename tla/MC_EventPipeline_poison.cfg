\* One user_event whose data is not a JobUserMessage, no transient failures:
\* is every verify event still applied?
CONSTANTS
    Users = {u1, u2}
    Replicas = {r1, r2}
    ForeignBodies <- MC_PoisonBodies
    MaxMessages <- MC_MaxMessages
    DelaySeconds <- MC_DelaySeconds
    MaxFaults = 0
SPECIFICATION Spec
PROPERTY EveryVerifyEventApplied
CHECK_DEADLOCK FALSE
