\* Sign-up through verification: every account whose event was enqueued is
\* verified, only created accounts are, and no enqueued event is lost.
CONSTANTS
    AccessExpirationSeconds <- MC_AccessExpirationSeconds
    RefreshExpirationSeconds <- MC_RefreshExpirationSeconds
    Leeway <- MC_Leeway
    MaxTime <- MC_MaxTime
    Lowercase <- MC_Lowercase
    OAuthEmail <- MC_OAuthEmail
    ForeignBodies <- MC_ForeignBodies
    MaxMessages <- MC_MaxMessages
    DelaySeconds <- MC_DelaySeconds
    Clients = {c1}
    UserIds = {u1, u2}
    SessionIds = {s1}
    DbReplicas = {d1}
    RawEmails = {"a@x.com", "b@x.com"}
    Passwords = {"p1"}
    OAuthSubs = {}
    ReplicaLag = FALSE
    EmailUnique = FALSE
    ConsumerReplicas = {r1, r2}
    MaxFaults = 1
SPECIFICATION Spec
INVARIANT NoLostVerifyEvent
INVARIANT VerifiedOnlyCreatedAccounts
PROPERTY SignedUpAccountEventuallyVerified
\* Once both accounts exist and the queue is drained, an idle consumer
\* polls an empty queue for ever; the model stops there.
CHECK_DEADLOCK FALSE
