\* The admin layer admits only users who signed in as admins, every route
\* answers by the claims it is presented (expired tokens included), and a
\* profile URL is written only after its picture was stored.
CONSTANTS
    AccessExpirationSeconds <- MC_AccessExpirationSeconds
    RefreshExpirationSeconds <- MC_RefreshExpirationSeconds
    Leeway <- MC_Leeway
    MaxTime <- MC_MaxTime
    Users = {a1, u1}
    SeedAdmins = {a1}
    SessionIds = {s1, s2}
    Contents = {k1}
    Clients = {c1}
SPECIFICATION Spec
SYMMETRY MC_Symmetry
CONSTRAINT MC_HeldBound
INVARIANT TypeOK
INVARIANT AdminRequestsRequireAdminLogin
INVARIANT ProfileUrlAfterUpload
INVARIANT GateAnswersByClaims
\* The model stops only where every session id is used and the clock is at
\* MaxTime: the bounds, not the service, end those behaviours.
CHECK_DEADLOCK FALSE
