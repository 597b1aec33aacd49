------------------------------ MODULE UserService ------------------------------
(***************************************************************************)
(* The user routes of UserController (src/src/api/controller/users/        *)
(* user_controller.rs) and the sessions that authorise them.  GET /users/  *)
(* and PUT /users/role sit behind the Authorization::admin layer, which    *)
(* admits a request when the AccessTokenAuth extractor validates its       *)
(* bearer token and the token's role claim is admin.  POST /users/profile  *)
(* needs a valid access token only: it uploads the picture to S3 and then  *)
(* stores the profile URL in users.profile_url.                           *)
(*                                                                         *)
(* Sessions are created by sign_in (generate_tokens with the user's role  *)
(* as read at sign-in), extended by refresh_token (a new access token with *)
(* the role claim of the refresh token) and revoked by sign_out.  The     *)
(* database is one copy here: replica lag is AuthEngine's subject.  A     *)
(* token edited by its holder is not kept as state: any request may       *)
(* present an edited copy of a held token instead.                        *)
(***************************************************************************)
EXTENDS JwtCodec, FiniteSets

CONSTANTS
    Users,       \* rows of the users table
    SeedAdmins,  \* users whose row has role admin from the start
    SessionIds,  \* ids the refresh_tokens table can generate
    Contents,    \* picture files clients upload
    Clients,     \* concurrent profile uploads
    MaxTime      \* last second the clock reaches

ASSUME SeedAdmins \subseteq Users

\* enum UserRole
UserRole == {"user", "admin"}

NoObject == "no_object"     \* nothing stored at the user's S3 key yet
NoUrl    == [null |-> TRUE] \* users.profile_url IS NULL

\* The S3 key users/<id>/profile, which upload_object writes (objects[u]),
\* and formatted_key, the same key with ?t=<second of the request> after
\* it, which the row stores.  The second is left out: no property tells
\* two seconds apart.
ObjectKey(u)    == [user |-> u, query |-> FALSE]
FormattedKey(u) == [user |-> u, query |-> TRUE]
Idle     == [step |-> "idle"]

VARIABLES
    role,        \* role[u]: users.role
    sessions,    \* refresh_tokens rows
    held,        \* tokens handed out to clients
    now,         \* get_current_timestamp()
    objects,     \* objects[u]: content at S3 key users/<u>/profile
    profileUrl,  \* profileUrl[u]: users.profile_url, a formatted_key or NULL
    upReq,       \* upReq[c]: the upload request client c is in the middle of
    logins,      \* history: [user, role] pairs sign_in read and signed
    granted      \* history: the users whose admin-only requests ran

vars == <<role, sessions, held, now, objects, profileUrl, upReq, logins, granted>>

Token == [jti: SessionIds, token_type: TokenType, sub: Users, exp: Nat,
          role: UserRole, signed: BOOLEAN]

TypeOK ==
    /\ role \in [Users -> UserRole]
    /\ sessions \subseteq [id: SessionIds, user_id: Users]
    /\ held \subseteq Token
    /\ now \in 0..MaxTime
    /\ objects \in [Users -> Contents \cup {NoObject}]
    /\ profileUrl \in [Users -> {FormattedKey(u) : u \in Users} \cup {NoUrl}]
    /\ upReq \in [Clients -> {Idle} \cup
                    [step: {"next", "put", "db"}, user: Users, content: Contents,
                     key: {FormattedKey(u) : u \in Users}]]
    /\ logins \subseteq [user: Users, role: UserRole]
    /\ granted \subseteq Users

Init ==
    /\ role = [u \in Users |-> IF u \in SeedAdmins THEN "admin" ELSE "user"]
    /\ sessions = {}
    /\ held = {}
    /\ now = 0
    /\ objects = [u \in Users |-> NoObject]
    /\ profileUrl = [u \in Users |-> NoUrl]
    /\ upReq = [c \in Clients |-> Idle]
    /\ logins = {}
    /\ granted = {}

\* Session ids already generated: every created row's id is on its tokens.
UsedSessionIds == {t.jti : t \in held}

-----------------------------------------------------------------------------
(* The router: which layer and which bearer extractor stand before each    *)
(* handler, and the status an AppError is answered with.                  *)

\* A request without an Authorization: Bearer header.
NoBearer == [none |-> TRUE]

\* TokenValidator::extract_and_validate: the header is present and
\* validate_jwt accepts its token as the given type.
Bearer(t, ty) == t # NoBearer /\ Accepts(t, ty, now)

\* HealthController::configure.
HealthRoutes == {"GET /health"}

\* AuthController::configure, nested under /auth.
AuthRoutes == {"POST /auth/sign-up", "POST /auth/sign-in",
               "GET /auth/sign-in/:provider", "POST /auth/sign-in/:provider",
               "POST /auth/sign-out", "POST /auth/refresh-token"}

\* UserController::configure, nested under /users.
UserRoutes == {"GET /users/", "GET /users/me", "POST /users/profile", "PUT /users/role"}

\* Api::configure_routes merges the three under the path prefix.
Routes == HealthRoutes \cup AuthRoutes \cup UserRoutes

\* UserController::configure: the routes layered with Authorization::admin.
AdminRoutes == {"GET /users/", "PUT /users/role"}

\* all, me, upload_profile_url and update_role each take AccessTokenAuth.
UserHandlersWithAccessToken == UserRoutes

\* The bearer extractor among a handler's arguments: sign_out takes
\* AccessTokenAuth, refresh_token RefreshTokenAuth, the other auth
\* handlers and health none.
HandlerAuth(route) ==
    CASE route \in UserHandlersWithAccessToken \cup {"POST /auth/sign-out"} -> AccessToken
      [] route = "POST /auth/refresh-token"                              -> RefreshToken
      [] OTHER                                                           -> "none"

\* ApiError::status_code for AppError.
StatusCode ==
    [InvalidJwtToken |-> 401, PermissionDenied |-> 403, InvalidOauth2Provider |-> 400,
     UserNotFound |-> 404, UserExistingEmail |-> 409, UserPasswordIncorrect |-> 401,
     SomethingWentWrong |-> 500]

\* Mutant of HandleRoleBasedAccess: the role of a token that failed
\* validation is looked at.
HandleRoleBasedAccessUnvalidated(t, required) ==
    IF t # NoBearer /\ t.token_type = AccessToken /\ t.role \in required
    THEN "ok" ELSE "PermissionDenied"

\* Authorization::handle_role_based_access over the AccessTokenAuth
\* extraction: Err is InvalidJwtToken, a role outside the required ones
\* PermissionDenied.
HandleRoleBasedAccess(t, required) ==
    IF ~Bearer(t, AccessToken) THEN "InvalidJwtToken"
    ELSE IF t.role \in required THEN "ok" ELSE "PermissionDenied"

\* Mutant of Admin: the required roles of Authorization::user as well.
AdminAnyRole(t) == HandleRoleBasedAccess(t, {"user", "admin"})

\* Authorization::admin: required roles [Admin].
Admin(t) == HandleRoleBasedAccess(t, {"admin"})

\* The answer before the handler: none, the handler runs.
HandlerRuns == 0

\* What a request to route with bearer t meets before its body is read:
\* the layer runs first, then the handler's extractor; the status of the
\* first error, or HandlerRuns.
Answer(route, t) ==
    LET layer == IF route \in AdminRoutes THEN Admin(t) ELSE "ok"
    IN  IF layer # "ok" THEN StatusCode[layer]
        ELSE IF HandlerAuth(route) # "none" /\ ~Bearer(t, HandlerAuth(route))
             THEN StatusCode["InvalidJwtToken"]
             ELSE HandlerRuns

\* The handler of route runs for a request with bearer t.
Reaches(route, t) == Answer(route, t) = HandlerRuns

-----------------------------------------------------------------------------
(* Sessions.                                                                *)

\* Mutant of SignIn: generate_tokens without the -1 to exp = 0 mapping.
SignInNoSentinel(u) ==
    /\ \E sid \in SessionIds \ UsedSessionIds :
         /\ sessions' = sessions \cup {[id |-> sid, user_id |-> u]}
         /\ held' = held \cup
              {GenerateJwtNoSentinel(sid, u, AccessToken, role[u], now),
               GenerateJwtNoSentinel(sid, u, RefreshToken, role[u], now)}
    /\ logins' = logins \cup {[user |-> u, role |-> role[u]]}
    /\ UNCHANGED <<role, now, objects, profileUrl, upReq, granted>>

\* sign_in with the right password, then generate_tokens(user.id,
\* user.role): a refresh_tokens row, and an access and a refresh token
\* signed with the role the users row has now.
SignIn(u) ==
    /\ \E sid \in SessionIds \ UsedSessionIds :
         /\ sessions' = sessions \cup {[id |-> sid, user_id |-> u]}
         /\ held' = held \cup {GenerateJwt(sid, u, AccessToken, role[u], now),
                               GenerateJwt(sid, u, RefreshToken, role[u], now)}
    /\ logins' = logins \cup {[user |-> u, role |-> role[u]]}
    /\ UNCHANGED <<role, now, objects, profileUrl, upReq, granted>>

\* refresh_token behind RefreshTokenAuth: while the row exists, a new
\* access token with the jti, sub and role of the refresh token's claims.
Refresh(t) ==
    /\ Reaches("POST /auth/refresh-token", t)
    /\ \E s \in sessions : s.id = t.jti
    /\ held' = held \cup {GenerateJwt(t.jti, t.sub, AccessToken, t.role, now)}
    /\ UNCHANGED <<role, now, sessions, objects, profileUrl, upReq, logins, granted>>

\* sign_out behind AccessTokenAuth: delete the row of the token's jti.
SignOut(t) ==
    /\ Reaches("POST /auth/sign-out", t)
    /\ sessions' = {s \in sessions : s.id # t.jti}
    /\ UNCHANGED <<role, now, held, objects, profileUrl, upReq, logins, granted>>

\* The tokens a request can present: held ones, and held ones whose role
\* claim the holder edited to admin without the private key.
Presentable == held \cup {[t EXCEPT !.role = "admin", !.signed = FALSE] : t \in held}

-----------------------------------------------------------------------------
(* The admin routes.                                                        *)

\* The admin layer let a request by t's subject through.
Granted(t) == granted \cup {t.sub}

\* UserRepositoryImpl::update: UPDATE users SET column = value WHERE id.
Update(column, id, value) == [column EXCEPT ![id] = value]

\* UserRepositoryImpl::update_role: the role column of the row.
UpdateRoleRow(id, r) == Update(role, id, r)

\* PUT /users/role: update_role sets users.role of the target by id.
UpdateRole(t, target, newRole) ==
    /\ Reaches("PUT /users/role", t)
    /\ role' = UpdateRoleRow(target, newRole)
    /\ granted' = Granted(t)
    /\ UNCHANGED <<sessions, held, now, objects, profileUrl, upReq, logins>>

\* GET /users/: UserManagerImpl::all reads a page of users; no write.
ListUsers(t) ==
    /\ Reaches("GET /users/", t)
    /\ granted' = Granted(t)
    /\ UNCHANGED <<role, now, sessions, held, objects, profileUrl, upReq, logins>>

\* GET /users/me: UserManagerImpl::me reads the caller's row by id (not
\* deleted) on a replica with fetch_one; no write.
Me(t) ==
    /\ Reaches("GET /users/me", t)
    /\ UNCHANGED vars

-----------------------------------------------------------------------------
(* POST /users/profile: UserManagerImpl::upload_profile_url.                *)

\* The handler builds formatted_key (the key and the current second), then
\* reads the multipart fields one by one.
UploadStart(c, t) ==
    /\ upReq[c] = Idle
    /\ Reaches("POST /users/profile", t)
    /\ upReq' = [upReq EXCEPT ![c] = [step |-> "next", user |-> t.sub,
                                      content |-> CHOOSE k \in Contents : TRUE,
                                      key |-> FormattedKey(t.sub)]]
    /\ UNCHANGED <<role, now, sessions, held, objects, profileUrl, logins, granted>>

\* while let Some(field) = file.next_field().await.unwrap(): a field whose
\* bytes are read goes to the upload; a field whose bytes fail answers
\* SomethingWentWrong; no further field (or a malformed body, on which
\* unwrap panics and the request task ends) ends the request, after the
\* presigned URL of the key is generated.
UploadNext(c) ==
    /\ upReq[c].step = "next"
    /\ \/ \E k \in Contents : upReq' = [upReq EXCEPT ![c].step = "put", ![c].content = k]
       \/ upReq' = [upReq EXCEPT ![c] = Idle]
    /\ UNCHANGED <<role, now, sessions, held, objects, profileUrl, logins, granted>>

\* Mutant of UploadPut: the upload_object error is ignored.
UploadPutIgnoringError(c) ==
    /\ upReq[c].step = "put"
    /\ \/ objects' = [objects EXCEPT ![upReq[c].user] = upReq[c].content]
       \/ UNCHANGED objects
    /\ upReq' = [upReq EXCEPT ![c].step = "db"]
    /\ UNCHANGED <<role, now, sessions, held, profileUrl, logins, granted>>

\* s3_service.upload_object to users/<id>/profile: stored, or an error the
\* handler answers with SomethingWentWrong.
UploadPut(c) ==
    /\ upReq[c].step = "put"
    /\ \/ /\ objects' = [objects EXCEPT ![upReq[c].user] = upReq[c].content]
          /\ upReq' = [upReq EXCEPT ![c].step = "db"]
       \/ /\ upReq' = [upReq EXCEPT ![c] = Idle]
          /\ UNCHANGED objects
    /\ UNCHANGED <<role, now, sessions, held, profileUrl, logins, granted>>

\* update_profile_url: the profile_url column of the row.
UpdateProfileUrl(u, key) == Update(profileUrl, u, key)

\* update_profile_url(user_id, formatted_key.clone()): stored and the loop reads
\* the next field, or an error answered with SomethingWentWrong after the
\* object was already replaced.
UploadDb(c) ==
    /\ upReq[c].step = "db"
    /\ \/ /\ profileUrl' = UpdateProfileUrl(upReq[c].user, upReq[c].key)
          /\ upReq' = [upReq EXCEPT ![c].step = "next"]
       \/ /\ upReq' = [upReq EXCEPT ![c] = Idle]
          /\ UNCHANGED profileUrl
    /\ UNCHANGED <<role, now, sessions, held, objects, logins, granted>>

Tick ==
    /\ now < MaxTime
    /\ now' = now + 1
    /\ UNCHANGED <<role, sessions, held, objects, profileUrl, upReq, logins, granted>>

Next ==
    \/ \E u \in Users : SignIn(u)
    \/ \E t \in Presentable :
         \/ Refresh(t) \/ SignOut(t) \/ ListUsers(t) \/ Me(t)
         \/ \E u \in Users, r \in UserRole : UpdateRole(t, u, r)
         \/ \E c \in Clients : UploadStart(c, t)
    \/ \E c \in Clients : UploadNext(c) \/ UploadPut(c) \/ UploadDb(c)
    \/ Tick

Spec == Init /\ [][Next]_vars

-----------------------------------------------------------------------------
(* Properties.                                                              *)

\* spec.md section 4.5: only admins pass the admin layer.  Every request
\* it let through was made by a user who once signed in while the users
\* table said admin: neither an edited role claim, a refresh, nor a
\* refresh token presented as an access token yields admin rights.
AdminRequestsRequireAdminLogin ==
    \A g \in granted : [user |-> g, role |-> "admin"] \in logins

\* users.profile_url is set only for a user whose picture upload_object
\* has stored at users/<id>/profile, and it is a formatted_key built by a
\* request of that user: update_profile_url runs only after the put
\* succeeded, an upload that fails at the put writes no URL, and sign-in,
\* refresh and role changes never touch the column.  (The stored key still
\* names no object itself: it carries ?t=, see README.)
ProfileUrlAfterUpload ==
    \A u \in Users : profileUrl[u] # NoUrl =>
        /\ objects[u] # NoObject
        /\ profileUrl[u].user = u

\* The protection each operation needs: sign-out and the user routes act
\* on validated access-token claims, refresh on validated refresh-token
\* claims, listing users and changing roles are admin-only.
SpecClaims(route) ==
    CASE route \in {"POST /auth/sign-out", "GET /users/", "GET /users/me",
                    "POST /users/profile", "PUT /users/role"} -> AccessToken
      [] route = "POST /auth/refresh-token"                   -> RefreshToken
      [] OTHER                                                -> "none"
SpecAdminOnly == {"GET /users/", "PUT /users/role"}

\* spec.md sections 3 and 4.5: for every route and every bearer a request
\* can carry (none, genuine, expired, or with an edited role claim), the
\* router answers 401 unless the claims are valid for the route's token
\* type, then 403 on an admin-only route when the role claim is not admin,
\* and otherwise runs the handler.  Valid is signature, type, and exp the
\* never-expires sentinel or not older than jsonwebtoken's leeway: that
\* is the code's rule (validate_jwt), not section 3's "exp in the
\* future", which rejects sooner (README, observed divergences).  Ties the
\* route table, the admin layer, the handlers' extractors and the
\* AppError status mapping to the spec's rule; breaks if a route loses a
\* layer or extractor, the layer judges an unvalidated token's role, or
\* InvalidJwtToken and PermissionDenied are mapped to other statuses.
GateAnswersByClaims ==
    \A r \in Routes, t \in Presentable \cup {NoBearer} :
        LET valid == /\ t # NoBearer
                     /\ t.signed
                     /\ t.token_type = SpecClaims(r)
                     /\ t.exp = DEFAULT_EXPIRATION \/ now <= t.exp + Leeway
        IN  Answer(r, t) =
                CASE SpecClaims(r) = "none"                        -> HandlerRuns
                  [] ~valid                                        -> 401
                  [] r \in SpecAdminOnly /\ t.role # "admin"        -> 403
                  [] OTHER                                         -> HandlerRuns
====
