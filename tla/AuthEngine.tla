------------------------------ MODULE AuthEngine ------------------------------
(***************************************************************************)
(* The request handlers of AuthManagerImpl (src/src/api/manager/auth/      *)
(* auth_manager.rs) behind AuthController, over the users and              *)
(* refresh_tokens tables of a PostgresDatabase (src/src/db/db.rs) with one *)
(* primary and read replicas.  Writes (create, delete) go to the primary;  *)
(* reads (by_email, by_auth_provider, by_id) go to a replica picked at     *)
(* random by PostgresDatabase::replica.  A replica applies the primary's   *)
(* writes in order, possibly behind: the primary is the write log `log`    *)
(* and replica r has applied its first applied[r] entries.                 *)
(*                                                                         *)
(* Each client runs one request at a time; sign-up and OAuth2 sign-in are  *)
(* split at the await between their lookup and their insert, which is     *)
(* where concurrent requests interleave.                                   *)
(***************************************************************************)
EXTENDS JwtCodec, FiniteSets, Sequences, SequencesExt

CONSTANTS
    Clients,        \* concurrent HTTP requests in flight
    UserIds,        \* ids the users table can generate
    SessionIds,     \* ids the refresh_tokens table can generate
    Replicas,       \* read replicas listed in replica_urls
    RawEmails,      \* emails as clients type them
    Lowercase,      \* String::to_lowercase on RawEmails
    Passwords,      \* passwords clients send
    OAuthSubs,      \* subject ids the Google identity provider returns
    OAuthEmail,     \* the email the provider reports for each subject
    ReplicaLag,     \* TRUE: replicas apply the primary's writes asynchronously
    EmailUnique,    \* TRUE: the users table has a unique index on email
    MaxTime         \* last second the clock reaches

Emails == {Lowercase[e] : e \in RawEmails} \cup RawEmails
            \cup {OAuthEmail[s] : s \in OAuthSubs}

ASSUME /\ Replicas # {}
       /\ Lowercase \in [RawEmails -> RawEmails]
       /\ OAuthEmail \in [OAuthSubs -> RawEmails]
       /\ ReplicaLag \in BOOLEAN /\ EmailUnique \in BOOLEAN

NoPassword == [hash_of |-> "NULL"]   \* users.password IS NULL (a federated account)
NoAuthId   == "none"    \* users.auth_id IS NULL (a password account)
Idle       == [op |-> "idle"]

\* HashUtils::hash_password: a salted one-way hash, which verify_password
\* checks against the cleartext.
HashPassword(p) == [hash_of |-> p]
VerifyPassword(p, h) == h = HashPassword(p)

\* A users row is a password account (sign_up: a hash, auth_id NULL) or a
\* federated one (sign_in_oauth2: password NULL, the provider's subject).
UserRec    == [id: UserIds, email: Emails, password: {HashPassword(p) : p \in Passwords},
               auth_id: {NoAuthId}, role: {"user"}]
                \cup [id: UserIds, email: Emails, password: {NoPassword},
                       auth_id: OAuthSubs, role: {"user"}]
SessionRec == [id: SessionIds, user_id: UserIds]
Write      == [op: {"insert_user"}, user: UserRec]
                \cup [op: {"insert_session"}, session: SessionRec]
                \cup [op: {"delete_session"}, id: SessionIds]

VARIABLES
    log,        \* the primary's committed writes, in commit order
    applied,    \* applied[r]: how many of them replica r has applied
    req,        \* req[c]: the request client c is in the middle of
    issued,     \* every token the handlers have returned
    verifyEvents, \* users whose verify event the SQS producer enqueued
    now         \* get_current_timestamp()

vars == <<log, applied, req, issued, verifyEvents, now>>

-----------------------------------------------------------------------------
(* The database.                                                            *)

EmptyDb == [users |-> {}, sessions |-> {}]

\* Mutant of ApplyWrite: the refresh-token delete filters on user_id.
ApplyWriteDeleteByUser(db, w) ==
    CASE w.op = "insert_user"    -> [db EXCEPT !.users = @ \cup {w.user}]
      [] w.op = "insert_session" -> [db EXCEPT !.sessions = @ \cup {w.session}]
      [] w.op = "delete_session" ->
             [db EXCEPT !.sessions = {s \in @ : s.user_id # w.id}]

ApplyWrite(db, w) ==
    CASE w.op = "insert_user"    -> [db EXCEPT !.users = @ \cup {w.user}]
      [] w.op = "insert_session" -> [db EXCEPT !.sessions = @ \cup {w.session}]
      [] w.op = "delete_session" ->
             [db EXCEPT !.sessions = {s \in @ : s.id # w.id}]

DbAfter(n) == FoldLeft(ApplyWrite, EmptyDb, SubSeq(log, 1, n))
Primary == DbAfter(Len(log))
ReplicaDb(r) == DbAfter(applied[r])

\* Commits writes ws on the primary; without lag every replica has them
\* as soon as the commit returns.
Commit(ws) ==
    /\ log' = log \o ws
    /\ applied' = IF ReplicaLag THEN applied
                  ELSE [r \in Replicas |-> Len(log) + Len(ws)]

UsedUserIds == {u.id : u \in Primary.users}
UsedSessionIds ==
    {log[i].session.id : i \in {k \in DOMAIN log : log[k].op = "insert_session"}}

\* UserRepository::by_email: password accounts (auth_id IS NULL) with
\* exactly this email.
ByEmail(db, email) == {u \in db.users : u.email = email /\ u.auth_id = NoAuthId}
\* UserRepository::by_auth_provider.
ByAuthProvider(db, sub) == {u \in db.users : u.auth_id = sub}
\* RefreshTokenRepository::by_id.
SessionById(db, id) == {s \in db.sessions : s.id = id}

-----------------------------------------------------------------------------

\* The type of the state.  Every users row the handlers write is either a
\* password account or a federated account (UserRec): sign_up passes a
\* hash and no subject, sign_in_oauth2 no password and the subject, and a
\* row with neither could never sign in and would not stop a second
\* federated account for the subject.
TypeOK ==
    /\ log \in Seq(Write)
    /\ applied \in [Replicas -> 0..Len(log)]
    /\ req \in [Clients -> {Idle}
                  \cup [op: {"sign_up"}, email: Emails, password: Passwords]
                  \cup [op: {"oauth"}, sub: OAuthSubs]]
    /\ \A t \in issued : t.signed /\ t.token_type \in TokenType
    /\ verifyEvents \subseteq UserIds
    /\ now \in 0..MaxTime

Init ==
    /\ log = <<>>
    /\ applied = [r \in Replicas |-> 0]
    /\ req = [c \in Clients |-> Idle]
    /\ issued = {}
    /\ verifyEvents = {}
    /\ now = 0

\* AuthManagerImpl::send_verify_user_event: the producer's result is
\* discarded, so an enqueue failure leaves the account without an event.
SendVerifyUserEvent(userId) ==
    \/ verifyEvents' = verifyEvents \cup {userId}
    \/ UNCHANGED verifyEvents


\* UserRepositoryImpl::update_logged_in_at: an UPDATE on the primary that
\* succeeds or returns its sqlx error; logged_in_at itself is read by no
\* handler, so only the outcome is kept.
UpdateLoggedInAtSucceeds == BOOLEAN

\* AuthManagerImpl::generate_tokens, then update_logged_in_at: commit the
\* writes `before`, insert a refresh_tokens row for u and sign the access
\* and refresh tokens with its id as jti.  When update_logged_in_at fails
\* the handler answers SomethingWentWrong and the tokens are never handed
\* out, but the row stays.
IssueSession(u, before) ==
    \E sid \in SessionIds \ UsedSessionIds, ok \in UpdateLoggedInAtSucceeds :
        /\ Commit(before \o <<[op |-> "insert_session",
                               session |-> [id |-> sid, user_id |-> u.id]]>>)
        /\ IF ok THEN issued' = issued \cup
                          {GenerateJwt(sid, u.id, AccessToken, u.role, now),
                           GenerateJwt(sid, u.id, RefreshToken, u.role, now)}
                 ELSE UNCHANGED issued

\* An insert the unique index on users.email rejects, if there is one.
UniqueViolation(email) == EmailUnique /\ \E u \in Primary.users : u.email = email

\* Bound of the model: a request starts its insert only while the id pools
\* hold a fresh user id and a fresh session id for it and for every request
\* already between its lookup and its insert.
PoolsAllowCreate ==
    LET pending == Cardinality({c \in Clients : req[c] # Idle})
    IN  /\ Cardinality(UserIds \ UsedUserIds) > pending
        /\ Cardinality(SessionIds \ UsedSessionIds) > pending

NewUser(uid, email, password, sub) ==
    [id |-> uid, email |-> email, password |-> password, auth_id |-> sub, role |-> "user"]

-----------------------------------------------------------------------------
(* Handlers.  A handler that answers with an error and writes nothing is a  *)
(* step that changes no variable; the error it answers is in a comment.     *)

\* The key each handler passes to by_email: sign_up lowercases the email,
\* sign_in passes it as sent.
SignUpEmailKey(raw) == Lowercase[raw]
SignInEmailKey(raw) == raw

\* sign_up, up to the await on by_email: lowercase the email and look for
\* a password account with it on replica r; found: UserExistingEmail.
SignUpLookup(c, r, raw, pw) ==
    /\ req[c] = Idle
    /\ IF ByEmail(ReplicaDb(r), SignUpEmailKey(raw)) # {}
       THEN UNCHANGED req
       ELSE /\ PoolsAllowCreate
            /\ req' = [req EXCEPT ![c] = [op |-> "sign_up", email |-> SignUpEmailKey(raw),
                                          password |-> pw]]
    /\ UNCHANGED <<log, applied, issued, verifyEvents, now>>

\* Mutant of SignUpCreate: the verify event names another fresh id.
SignUpCreateFreshEventId(c) ==
    /\ req[c].op = "sign_up"
    /\ req' = [req EXCEPT ![c] = Idle]
    /\ IF UniqueViolation(req[c].email)
       THEN UNCHANGED <<log, applied, verifyEvents>>
       ELSE \E uid \in UserIds \ UsedUserIds, v \in UserIds \ UsedUserIds :
              /\ v # uid
              /\ Commit(<<[op |-> "insert_user",
                           user |-> NewUser(uid, req[c].email,
                                            HashPassword(req[c].password), NoAuthId)]>>)
              /\ SendVerifyUserEvent(v)
    /\ UNCHANGED <<issued, now>>

\* sign_up, after by_email found nothing: insert the user with the hashed
\* password (SomethingWentWrong if the insert fails), send the verify event.
SignUpCreate(c) ==
    /\ req[c].op = "sign_up"
    /\ req' = [req EXCEPT ![c] = Idle]
    /\ IF UniqueViolation(req[c].email)
       THEN UNCHANGED <<log, applied, verifyEvents>>
       ELSE \E uid \in UserIds \ UsedUserIds :
              /\ Commit(<<[op |-> "insert_user",
                           user |-> NewUser(uid, req[c].email,
                                            HashPassword(req[c].password), NoAuthId)]>>)
              /\ SendVerifyUserEvent(uid)
    /\ UNCHANGED <<issued, now>>

\* sign_in: by_email on replica r with the email as sent (none: UserNotFound),
\* verify the password of the row fetch_optional returns (wrong:
\* UserPasswordIncorrect), issue a session.
SignIn(c, r, raw, pw) ==
    /\ req[c] = Idle
    /\ LET found == ByEmail(ReplicaDb(r), SignInEmailKey(raw))
       IN  IF found = {}
           THEN UNCHANGED <<log, applied, issued>>
           ELSE \E u \in found :
                  IF VerifyPassword(pw, u.password)
                  THEN IssueSession(u, <<>>)
                  ELSE UNCHANGED <<log, applied, issued>>
    /\ UNCHANGED <<req, verifyEvents, now>>

\* sign_in_oauth2, up to the await on by_auth_provider: the code exchange
\* succeeded (a failed one answers SomethingWentWrong and changes nothing);
\* look the subject up on replica r.  An existing account signs in at once.
OAuthLookup(c, r, sub) ==
    /\ req[c] = Idle
    /\ LET found == ByAuthProvider(ReplicaDb(r), sub)
       IN  IF found # {}
           THEN /\ \E u \in found : IssueSession(u, <<>>)
                /\ UNCHANGED req
           ELSE /\ PoolsAllowCreate
                /\ req' = [req EXCEPT ![c] = [op |-> "oauth", sub |-> sub]]
                /\ UNCHANGED <<log, applied, issued>>
    /\ UNCHANGED <<verifyEvents, now>>

\* Mutant of OAuthCreate: create(email, None, name, None, Some(provider)),
\* the subject not passed, so the row has neither password nor auth_id.
OAuthCreateWithoutSub(c) ==
    /\ req[c].op = "oauth"
    /\ req' = [req EXCEPT ![c] = Idle]
    /\ LET sub == req[c].sub
       IN  IF UniqueViolation(OAuthEmail[sub])
           THEN UNCHANGED <<log, applied, issued, verifyEvents>>
           ELSE \E uid \in UserIds \ UsedUserIds :
                  LET u == NewUser(uid, OAuthEmail[sub], NoPassword, NoAuthId)
                  IN  /\ SendVerifyUserEvent(uid)
                      /\ IssueSession(u, <<[op |-> "insert_user", user |-> u]>>)
    /\ UNCHANGED now

\* sign_in_oauth2, after by_auth_provider found nothing: create the
\* federated account, send the verify event, issue a session.
OAuthCreate(c) ==
    /\ req[c].op = "oauth"
    /\ req' = [req EXCEPT ![c] = Idle]
    /\ LET sub == req[c].sub
       IN  IF UniqueViolation(OAuthEmail[sub])
           THEN UNCHANGED <<log, applied, issued, verifyEvents>>
           ELSE \E uid \in UserIds \ UsedUserIds :
                  LET u == NewUser(uid, OAuthEmail[sub], NoPassword, sub)
                  IN  /\ SendVerifyUserEvent(uid)
                      /\ IssueSession(u, <<[op |-> "insert_user", user |-> u]>>)
    /\ UNCHANGED now

\* sign_out behind AccessTokenAuth (InvalidJwtToken if the token does not
\* validate): delete the refresh_tokens row of the token's jti on the
\* primary, a no-op when the row is already gone.
SignOut(c, t) ==
    /\ req[c] = Idle
    /\ IF Accepts(t, AccessToken, now) /\ SessionById(Primary, t.jti) # {}
       THEN Commit(<<[op |-> "delete_session", id |-> t.jti]>>)
       ELSE UNCHANGED <<log, applied>>
    /\ UNCHANGED <<req, issued, verifyEvents, now>>

\* Mutant of Refresh: the by_id lookup of the refresh-token row is skipped.
RefreshWithoutLookup(c, r, t) ==
    /\ req[c] = Idle
    /\ IF Accepts(t, RefreshToken, now)
       THEN issued' = issued \cup {GenerateJwt(t.jti, t.sub, AccessToken, t.role, now)}
       ELSE UNCHANGED issued
    /\ UNCHANGED <<log, applied, req, verifyEvents, now>>

\* Mutant of Refresh: the new access token gets a fresh jti.
RefreshFreshJti(c, r, t) ==
    /\ req[c] = Idle
    /\ IF Accepts(t, RefreshToken, now) /\ SessionById(ReplicaDb(r), t.jti) # {}
       THEN \E j \in SessionIds \ {t.jti} :
              issued' = issued \cup {GenerateJwt(j, t.sub, AccessToken, t.role, now)}
       ELSE UNCHANGED issued
    /\ UNCHANGED <<log, applied, req, verifyEvents, now>>

\* refresh_token behind RefreshTokenAuth (InvalidJwtToken if the token does
\* not validate): by_id on replica r; if the row is there, a new access
\* token with the same jti, sub and role, else InvalidJwtToken.
Refresh(c, r, t) ==
    /\ req[c] = Idle
    /\ IF Accepts(t, RefreshToken, now) /\ SessionById(ReplicaDb(r), t.jti) # {}
       THEN issued' = issued \cup {GenerateJwt(t.jti, t.sub, AccessToken, t.role, now)}
       ELSE UNCHANGED issued
    /\ UNCHANGED <<log, applied, req, verifyEvents, now>>

\* Streaming replication: replica r applies the next write of the primary.
Replicate(r) ==
    /\ applied[r] < Len(log)
    /\ applied' = [applied EXCEPT ![r] = @ + 1]
    /\ UNCHANGED <<log, req, issued, verifyEvents, now>>

Tick ==
    /\ now < MaxTime
    /\ now' = now + 1
    /\ UNCHANGED <<log, applied, req, issued, verifyEvents>>

Next ==
    \/ \E c \in Clients, r \in Replicas, e \in RawEmails, p \in Passwords :
           SignUpLookup(c, r, e, p) \/ SignIn(c, r, e, p)
    \/ \E c \in Clients : SignUpCreate(c) \/ OAuthCreate(c)
    \/ \E c \in Clients, r \in Replicas, s \in OAuthSubs : OAuthLookup(c, r, s)
    \/ \E c \in Clients, t \in issued : SignOut(c, t)
    \/ \E c \in Clients, r \in Replicas, t \in issued : Refresh(c, r, t)
    \/ \E r \in Replicas : Replicate(r)
    \/ Tick

\* Replication keeps up: a replica with writes to apply eventually applies
\* them.  Requests are not assumed to be made.
Spec == Init /\ [][Next]_vars /\ \A r \in Replicas : WF_vars(Replicate(r))

-----------------------------------------------------------------------------
(* Properties.                                                              *)

\* Sessions whose refresh_tokens row sign-out deleted on the primary.
Revoked == {log[i].id : i \in {k \in DOMAIN log : log[k].op = "delete_session"}}

\* spec.md section 8: refresh fails immediately after sign-out deletes the
\* row.  Every token a handler hands out (by sign-in or by refresh_token)
\* belongs to a session whose row exists on the primary at that moment;
\* refresh_token reads the row on a replica, so this is about replicas.
IssuedOnlyForLiveSessions ==
    [][\A t \in issued' \ issued : SessionById(Primary', t.jti) # {}]_vars

\* A revocation eventually reaches every replica: from then on no
\* refresh_token call with that jti can succeed.
RevocationEventuallyEffective ==
    \A s \in SessionIds :
        s \in Revoked ~> \A r \in Replicas : SessionById(ReplicaDb(r), s) = {}

\* Every token handed out carries the jti of a refresh_tokens row created
\* for the token's subject: the access/refresh pair and every refreshed
\* access token stay bound to the session of the sign-in.
IssuedTokensBoundToSession ==
    \A t \in issued :
        \E i \in DOMAIN log :
            /\ log[i].op = "insert_session"
            /\ log[i].session = [id |-> t.jti, user_id |-> t.sub]

\* spec.md sections 4.4 and 8: an account created by sign-up can sign in
\* with the email it signed up with.  For every email a client can type,
\* if sign_up stored a password account under its key, sign_in's lookup
\* key finds one on an up-to-date replica.
SignInFindsSignedUpAccount ==
    \A e \in RawEmails :
        ByEmail(Primary, SignUpEmailKey(e)) # {} => ByEmail(Primary, SignInEmailKey(e)) # {}

\* spec.md section 4.4: an account is found by its login key, an email
\* among password accounts (sign-up answers a conflict for a taken one) or
\* a provider subject (sign_in_oauth2 finds or creates the account keyed
\* by it).  No login key names two accounts: otherwise fetch_optional
\* signs in whichever row the database returns first.
AtMostOneAccountPerLoginKey ==
    /\ \A e \in Emails : Cardinality(ByEmail(Primary, e)) <= 1
    /\ \A s \in OAuthSubs : Cardinality(ByAuthProvider(Primary, s)) <= 1

\* The abstract session store, seen through the primary: its open sessions
\* are the refresh_tokens rows, its used ids every id a row was inserted
\* under, and a handed-out token is its claims.  Expiries holds every exp
\* generate_jwt produces up to MaxTime (a lifetime is -1 or more).
Store == INSTANCE SessionStore
            WITH Ids <- SessionIds, Users <- UserIds, Roles <- {"user"},
                 Expiries <- 0 .. MaxTime + AccessExpirationSeconds
                                     + RefreshExpirationSeconds + 2,
                 open <- Primary.sessions, used <- UsedSessionIds,
                 tokens <- {[jti |-> t.jti, sub |-> t.sub, role |-> t.role,
                             token_type |-> t.token_type, exp |-> t.exp] : t \in issued}

\* spec.md sections 4.3 and 4.4: the handlers implement the session store.
\* Sign-in opens a session under a never-used id with one pair for its
\* user, sign-out revokes it for good, and refresh_token hands out access
\* tokens only for an open session, copying the refresh token's claims.
ImplementsSessionStore == Store!Spec
=============================================================================
