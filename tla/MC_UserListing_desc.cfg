\* Does a client paging through GET /users/ newest first see every user,
\* while users sign up and replicas lag?
CONSTANTS
    Users = {u1, u2, u3}
    Names <- MC_Names
    PageInputs <- MC_PageInputs
    PerPageInputs <- MC_PerPageInputs
    OrderByInputs <- MC_OrderByInputs
    DirectionInputs <- MC_DirectionInputsDesc
    Replicas = {r1, r2}
    ReplicaLag = TRUE
    UsizeBits = 30
    MaxPage = 4
SPECIFICATION Spec
INVARIANT PagingSeesEveryUser
