CONSTANTS
    AccessExpirationSeconds <- MC_AccessExpirationSeconds
    RefreshExpirationSeconds <- MC_RefreshExpirationSeconds
    Leeway <- MC_Leeway
    MaxTime <- MC_MaxTime
    Lowercase <- MC_LowercaseOne
    OAuthEmail <- MC_OAuthEmail
    Clients = {c1, c2}
    UserIds = {u1, u2}
    SessionIds = {s1, s2}
    Replicas = {r1}
    RawEmails = {"a@x.com"}
    Passwords = {"p1", "p2"}
    OAuthSubs = {"g1"}
    ReplicaLag = TRUE
    EmailUnique = FALSE
SPECIFICATION Spec
PROPERTY IssuedOnlyForLiveSessions
