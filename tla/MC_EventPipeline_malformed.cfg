\* A body that is not JSON on the queue: does the consumer keep it?
CONSTANTS
    Users = {u1}
    Replicas = {r1}
    ForeignBodies <- MC_MalformedBodies
    MaxMessages <- MC_MaxMessages
    DelaySeconds <- MC_DelaySeconds
    MaxFaults = 0
SPECIFICATION Spec
PROPERTY MalformedEnvelopeKept
CHECK_DEADLOCK FALSE
