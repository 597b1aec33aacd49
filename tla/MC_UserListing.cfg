\* Does a client paging through GET /users/ in ascending order see every
\* user, while users sign up and replicas lag?
CONSTANTS
    Users = {u1, u2, u3}
    Names <- MC_Names
    PageInputs <- MC_PageInputs
    PerPageInputs <- MC_PerPageInputs
    OrderByInputs <- MC_OrderByInputs
    DirectionInputs <- MC_DirectionInputs
    Replicas = {r1, r2}
    ReplicaLag = TRUE
    UsizeBits = 30
    MaxPage = 4
SPECIFICATION Spec
INVARIANT TypeOK
INVARIANT PagingSeesEveryUser
PROPERTY WalkEnds
\* A walk of ?per_page=0 never gets a short page; the model stops it at
\* MaxPage, and once every user has signed up and replicated nothing else
\* is left to do.  That stop is the bound's, not the service's.
CHECK_DEADLOCK FALSE
