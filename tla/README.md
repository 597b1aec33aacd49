# TLA+ models of realworld-rust-axum-sqlx

These modules model the two coupled subsystems of the service, the dual-token
authentication engine and the asynchronous verify-user event pipeline, the
user routes behind the router and the admin role gate, the user listing and
the OAuth2 sign-in flow. They
are checked with TLC. Every definition is translated from the Rust source
under `src/src/`. `PROJECT.json` maps each definition to the source lines it
models.

## 1. The system

### Components

| Part | Source | State | Operations |
|---|---|---|---|
| Token Codec | `core/security/jwt_manager.rs`, `core/security/authentication.rs` | none (pure) | `generate_jwt`, `validate_jwt`, the `AccessTokenAuth` / `RefreshTokenAuth` extractors |
| Auth Engine | `api/manager/auth/auth_manager.rs`, `api/controller/auth/auth_controller.rs` | none of its own | sign_up, sign_in, sign_in_oauth2, sign_out, refresh_token, generate_tokens, send_verify_user_event |
| Refresh-Token Store | `api/repository/refresh_tokens/...` | `refresh_tokens` rows | create (primary), by_id (replica), delete (primary) |
| User store | `api/repository/users/...`, `api/manager/users/user_manager.rs` | `users` rows (email, password hash, auth_id, role, status) | create (primary), by_email and by_auth_provider (replica), update_status, update_role, update_logged_in_at (primary) |
| PostgresDatabase | `db/db.rs` | one primary pool, a list of replica pools | `primary()`, `replica()` (a random replica) |
| Role Gate | `core/security/authorization.rs` | none | `Authorization::admin` on `GET /users/` and `PUT /users/role` |
| Router and errors | `api/server.rs`, `api/controller/*`, `core/error/error.rs` | none | the route tables, which layer and bearer extractor stand before each handler, AppError status codes |
| Listing | `core/request/pagination.rs`, `core/request/sorting.rs`, `api/repository/{pagination,sorting}.rs`, `UserRepositoryImpl::all` | none | query-string parsing, ORDER BY / LIMIT / OFFSET on a random replica |
| OAuth2 client | `service/oauth2/...` | none | get_redirect_url, the code exchange and user info |
| Event Producer | `service/aws/sqs/producer/producer.rs` | the SQS queue | send: one message, with a delay only if it is in 1..=900 |
| Event Consumer | `service/aws/sqs/consumer/consumer.rs`, `job/consumer/consumer.rs` | one tokio task per configured replica | receive → process → delete loop |
| Event Envelope and Processor | `job/message.rs`, `job/event/event.rs`, `job/processor/users/user_event.rs` | none | get_job_event; process, which sets `users.status = verified` |
| S3 service | `service/aws/s3/s3.rs` | the object at `users/<id>/profile` | upload_object (put), generate_presigned_url |
| Not modelled | HTTP server setup, CORS, logging, config, health | — | see section 6 |

### How they interact

- **Request path.** The HTTP handlers call AuthManagerImpl. It reads users and sessions on a randomly chosen read replica, writes them on the primary, and signs JWTs whose `jti` is the id of a refresh_tokens row.
  - Sign-up and the first OAuth2 sign-in call `send_verify_user_event`. It awaits the SQS send and discards its result.
- **User routes.** `GET /users/` and `PUT /users/role` run only if `Authorization::admin` admits the request: a valid access token whose role claim is admin. `POST /users/profile` needs any valid access token; it puts the picture to S3 and then writes the URL to the users row.
- **Pipeline.** A fixed number of consumer tasks poll the queue. Each hands every message to `UserEventProcessor`, which updates the user's status, and then deletes the message.

### What makes it hard

- **Interleaving at awaits.** sign_up and sign_in_oauth2 check and then insert in separate awaits, so concurrent requests interleave there.
- **Replica lag.** Every read goes to a replica that may lag the primary. This matters most for refresh_token's `by_id` after a sign-out.
- **Token time boundaries.** Expiry is validated in two phases, with the `exp = 0` "never expires" sentinel and jsonwebtoken's default 60 s leeway.
- **Partial failure.** In sign-in, a refresh_tokens row may be created and then `update_logged_in_at` fail.
- **At-least-once delivery.** The broker redelivers a message after its visibility timeout, and a receipt handle can be stale by the time it is used.
- **Consumer replicas end for good.** A replica task ends on `unwrap`/`expect` panics and on a `delete_message` error returned with `?`. JobConsumerImpl spawns each replica once and never restarts it.

## 2. Modules

| Module | Models | State (VARIABLES) | Actions |
|---|---|---|---|
| `JwtCodec` | jwt_manager.rs and the extractors | none: operators `GenerateJwt`, `Decodes`, `ValidateJwt`, `Accepts` | — |
| `SessionStore` | what the session handlers promise (abstract) | `open`, `used`, `tokens` | `Open`, `Revoke`, `Extend` |
| `AuthEngine` | AuthManagerImpl over primary and replicas | `log`, `applied`, `req`, `issued`, `verifyEvents`, `now` | `SignUpLookup`, `SignUpCreate`, `SignIn`, `OAuthLookup`, `OAuthCreate`, `SignOut`, `Refresh`, `Replicate`, `Tick` |
| `OAuthFlow` | the Google sign-in round trip through the browser | `csrf`, `issued`, `spent`, `inbox`, `accounts`, `signedIn` | `GetRedirectUri`, `Consent`, `Plant`, `SignInOAuth2` |
| `EventPipeline` | producer, broker, consumer replicas, processor | `queue`, `pc`, `batch`, `cur`, `status`, `sent`, `signedUp`, `faults` | `SendVerifyUserEvent`, `SendForeign`, `DelayElapses`, `VisibilityTimeout`, `Receive`, `ReceiveFails`, `Process`, `ProcessFails`, `Delete`, `DeleteFails` |
| `UserService` | router, sessions, the admin layer, the user routes, the profile upload | `role`, `sessions`, `held`, `now`, `objects`, `profileUrl`, `upReq`, `logins`, `granted` | `SignIn`, `Refresh`, `SignOut`, `ListUsers`, `Me`, `UpdateRole`, `UploadStart`, `UploadNext`, `UploadPut`, `UploadDb`, `Tick` |
| `UserListing` | GET /users/ paging over replicas | `log`, `applied`, `walk` | `SignUp`, `Replicate`, `StartWalk`, `ListPage`, `FinishWalk` |
| `SignUpVerification` | sign_up composed with the verify-user pipeline | AuthEngine's and EventPipeline's variables | `SignUpCreateAndSend`, AuthEngine's `SignUpLookup`, EventPipeline's other actions |
| `MC_*` | instances for TLC | — | — |

### AuthEngine

- **Database.** The database is the primary's write log `log`. Replica `r` has applied the prefix `applied[r]`. `DbAfter` folds the log into sets of users and sessions.
- **Reads.** Every handler read takes the replica `r` as a parameter. This stands for `PostgresDatabase::replica()` choosing at random.
- **Split handlers.** Handlers that await between a lookup and an insert are split into two actions at that await, with `req[c]` holding the request in between: sign_up becomes `SignUpLookup`/`SignUpCreate`, and sign_in_oauth2 becomes `OAuthLookup`/`OAuthCreate`.
- **Error handlers.** A handler that answers an error and writes nothing is a step that changes no variable.
- **`IssueSession`** models generate_tokens plus update_logged_in_at, whose outcome is `UpdateLoggedInAtSucceeds`. The refresh_tokens row is committed, and either both tokens are handed out or update_logged_in_at failed and nothing is.
- **`Replicate`** is Postgres streaming replication. It is not repository code and is the only fairness assumption of the module.
- **Refinement.** `Store == INSTANCE SessionStore WITH ...` maps the primary's refresh_tokens rows to `open`, every inserted id to `used`, and the handed-out tokens' claims to `tokens`. `ImplementsSessionStore == Store!Spec` is checked as a PROPERTY of auth_sync.

### OAuthFlow

The browser, the provider and the API are three actors. The provider's codes are single-use and bound to the consenting subject and the authorize URL's state. `get_redirect_url` creates a CSRF state and drops it; the sign-in body carries only the code, so nothing ties a code to the browser that started the flow.

### EventPipeline

- **Queue.** A body identifies a message. `queue[b]` holds its broker state (delayed, visible or inflight) and the replica holding the latest receipt handle.
- **Replica loop.** `pc[r]` follows the loop of `SQSConsumerImpl::start`.
- **Envelope.** `JobMessageNew` builds the body the producer sends; `GetJobEventOk` follows get_job_event's early returns, with `JobEventTypeFromStr` for the tag. `UpdateStatus` is the processor's write.
- **`ProcessOutcome`** classifies a body by what `get_job_event` and `UserEventProcessor::process` do with it: `err`, `ok`, `effect` or `panic`.
- **Panics.** A panic or a `?` exit sets `pc[r] = "dead"`. Transient failures are bounded by `MaxFaults`; a panic on bad data is deterministic and not bounded.

### SignUpVerification

- **Composition.** `Auth` and `Pipe` are INSTANCEs of AuthEngine and EventPipeline over one set of variables; `Replicas` is renamed to `DbReplicas` and `ConsumerReplicas`, `Users` is `UserIds`.
- **The shared step.** `SignUpCreateAndSend` is AuthEngine's `SignUpCreate` and EventPipeline's `SendVerifyUserEvent` in one step (auth_manager.rs:85-97): the id AuthEngine records as handed to `send_verify_user_event` is the body the producer enqueues; a swallowed send failure enqueues nothing; a failed insert sends nothing.
- **Other steps.** Sign-up's replica lookup leaves the pipeline alone, and every pipeline step leaves the auth state alone. Sign-in, refresh and OAuth2 do not touch the pipeline and are left out.

### UserService

- **Database.** One copy: replica lag is AuthEngine's and UserListing's subject. `role[u]` is `users.role`, `sessions` the refresh_tokens rows, `profileUrl[u]` is `users.profile_url`: NULL or a `FormattedKey(u)`, the key `users/<id>/profile` with `?t=` after it. It is a different key from `ObjectKey(u)`, where `upload_object` writes `objects[u]`. `Update` is `UserRepositoryImpl::update`; `UpdateRoleRow` and `UpdateProfileUrl` are its two callers.
- **Tokens.** `held` is every token handed to a client. A request presents a token of `Presentable`: a held one, or a held one whose role claim the holder edited to admin (no longer signed).
- **Router.** `Routes` is the union of the controllers' route tables. `Answer(route, t)` is what the server answers a request with bearer `t`: the admin route layer (`Admin`, i.e. `handle_role_based_access` with `[Admin]`) runs first, then the handler's bearer extractor (`HandlerAuth`), and the first error is mapped to its status by `StatusCode`; otherwise the handler runs. Every action of a route is guarded by `Reaches(route, t)`.
- **History.** `logins` records every (user, role) pair sign_in read from the row and signed into tokens; `granted` every user whose admin-only request ran.
- **Profile upload.** `upload_profile_url` is split at its awaits: `UploadStart` (authenticated, key built), `UploadNext` (the multipart loop: another field, a field whose bytes fail, or the end), `UploadPut` (S3 put: stored, or SomethingWentWrong), `UploadDb` (URL stored and back to the loop, or SomethingWentWrong after the object was replaced). The `?t=` second is left out of the stored key: no property tells two seconds apart.

### UserListing

- **Query string.** `ParsePagination` and `ParseSorting` translate the extractors with their `DEFAULT_*` values; `PaginationHelperNew` is the repository's second application of the same defaults and clamps (defaults, `page` raised to 1, lower-casing, an unknown direction becoming asc); `MapOrderBy`, `MapOrderDirection`, `Limit` and `Offset` the repository helpers. `Offset` is `(page-1)*per_page` modulo `2^UsizeBits`.
- **Query.** Each page is read from a replica of the client's choice (random in the code) holding a prefix of the primary's rows. `Orders` is every arrangement ORDER BY may return, ties in any order; `Window` is LIMIT/OFFSET.
- **Walk.** An admin pages from page 1 until a page shorter than `per_page`, while users sign up.

## 3. Runs

| Run | cfg | Expect | What it shows |
|---|---|---|---|
| auth_sync | MC_AuthEngine.cfg | pass | with synchronous replicas, every handed-out token belongs to a live session row of its subject, and AuthEngine implements SessionStore. |
| auth_lag_revocation | MC_AuthEngine_lag.cfg | pass | with lag, a sign-out eventually reaches every replica. |
| auth_stale_refresh | MC_AuthEngine_stale_refresh.cfg | violation | refresh succeeds after sign-out via a lagging replica. |
| auth_signin_case | MC_AuthEngine_signin_case.cfg | violation | sign-in does not lowercase the email that sign-up lowercased. |
| auth_signup_race | MC_AuthEngine_signup_race.cfg | violation | concurrent sign-ups (or first OAuth2 sign-ins) create two accounts for one login key. |
| signup_verification | MC_SignUpVerification.cfg | pass | sign-up through verification (spec §8): no enqueued verify event is deleted unapplied, only accounts the users table holds become verified, and every account whose sign-up enqueued its event is eventually verified, with one transient failure of two consumer replicas. |
| pipeline_poison | MC_EventPipeline_poison.cfg | violation | one undecodable user_event kills every replica in turn. |
| pipeline_malformed | MC_EventPipeline_malformed.cfg | violation | a non-JSON body is deleted, although spec §4.7 says to keep it. |
| user_service | MC_UserService.cfg | pass | only users who once signed in as admins pass the admin layer; every route answers every bearer (none, genuine, expired, edited) with 401, 403 or its handler by token type and role (spec §3, §4.5), with expiry judged by validate_jwt's leeway rule (`GateAnswersByClaims`); `users.profile_url` is written only for a user whose picture was stored (`ProfileUrlAfterUpload`). |
| oauth_login_csrf | MC_OAuthFlow_csrf.cfg | violation | an attacker's code posted from a victim's browser signs the victim in as the attacker (no OAuth2 state check). |
| listing | MC_UserListing.cfg | pass | paging ascending by created_at sees every user all replicas held at the start, with sign-ups and lagging replicas; a client that keeps asking for the next page with a positive page size reaches a short page (`WalkEnds`). `?per_page=0` is among the inputs. That walk gets only empty pages, never a short one, and pages on until the model's `MaxPage`, so `WalkEnds` is stated for positive page sizes only. |
| listing_replica_desc | MC_UserListing_desc.cfg | violation | paging newest first across replicas at different points of the log skips an existing user. |

### Bounds, and why they are enough

- **Auth.** Two clients, two user ids and two session ids, one replica, two passwords and one OAuth subject. One replica is enough to lag, two clients are the least that can race, and two session ids allow a second sign-in after a sign-out. `PoolsAllowCreate` stops a lookup from starting an insert that the id pools could not serve.
- **Sign-up and pipeline.** One sign-up client, two user ids and two emails (two accounts), one session id, one database replica without lag, no OAuth subject, and a body without event_type on the queue. The pipeline runs have two users, two replicas, batches of up to 2, a delay of 5 s (so the delay path is taken) and `MaxFaults = 1`: one fault with two replicas leaves one alive, and liveness is only claimed for fewer faults than replicas.
- **User service.**
  - One seeded admin and one user, two session ids, one picture content and one upload client, an access lifetime of 1 s with a leeway of 1, refresh tokens that never expire (lifetime −1, so `exp = 0`), and clock values 0..3.
  - An access token issued at 0 has `exp = 1`. It is accepted at 2 (inside the leeway) and rejected at 3, so expiry, the leeway and the `exp = 0` sentinel all occur; refresh is needed to keep admin access. One client already reaches both partial failures of the upload and the loop's second field.
  - `MC_HeldBound` caps the tokens handed out at five (two sign-ins and three refreshes), enough for an access token minted at every second.
  - `SYMMETRY` over the session ids: they are fresh uuids that no action or property tells apart, and the run checks only invariants.
  - `CHECK_DEADLOCK FALSE`: behaviours end only when every session id is used, the token bound is reached and the clock is at `MaxTime`.
- **Listing.** Three users, two replicas, `MaxPage = 4`, raw page values {none, 0, 1}, per_page {none, 0, 1, 2}, order_by {none, CREATED_AT, updated_at, email}, direction {none, ASC, sideways}. Page 0 exercises the clamp. per_page 1 and 2 make a walk span several pages, and per_page 0 takes the `LIMIT 0` path. That walk stops only at `MaxPage`, and once every user has signed up nothing else is enabled, hence `CHECK_DEADLOCK FALSE`. and the odd strings exercise the fall-backs. `UsizeBits = 30` because TLC's integers cannot hold 2^64; no reachable offset comes near either bound. Names are all NULL in the pass run: with equal names, ORDER BY name may order ties differently per query, which also breaks the property (listed as a hazard).

### Fairness

- **SignUpVerification.** EventPipeline's fairness restated on the composed steps; no client is assumed to sign up.
- **AuthEngine.** Weak fairness on `Replicate` only, because streaming replication keeps applying. No request is assumed to be made.
- **EventPipeline, scheduling.** `Process` and `Delete` are weakly fair per replica, because a live tokio task keeps being polled. `DelayElapses` and `VisibilityTimeout` are weakly fair, because time passes.
- **EventPipeline, broker.** Every message that keeps becoming visible is eventually received by some replica (`SF_vars(ReceiveOf(b))`): long polling queries all servers, and siblings may win any single receive.
- **UserListing.** Weak fairness on `ClientKeepsPaging` only: the liveness claim is about a client that keeps asking for the next page, and any replica may answer. Sign-ups, replication and new walks are client or database activity nobody guarantees, so they are not fair.
- **UserService, OAuthFlow.** Only safety is checked, so no fairness is assumed. No failure action is fair anywhere.

## 4. Mutants

Each property of a passing run has a mutant: a plausible bug in a mapped definition that TLC must catch. Examples: the `-1` lifetime not mapped to `exp = 0`; an OAuth2 account created without its subject (`None` for auth_id), a row with neither password nor subject; refresh skipping `by_id`; the delete query filtering on `user_id`; `update_status` errors returned with `?`; the verify event sent for an id other than the inserted row's; the role layer accepting the user role; the role check reading an unvalidated token's claims; the S3 put error ignored before the URL is stored; the page clamp dropped; the offset not made zero-based; the `OFFSET` clause lost.

## 5. Plan for later work

1. **Concurrent uploads.** A property that the stored `?t=` second belongs to the upload whose content is at the key (user_manager.rs:86-98), with two clients and two contents in a reduced session model.
2. **Listing with name ties** as its own run, once a run slot is free.

### Observed while modelling, not run

- **Listed profile URLs.** `users_response_converter` (user_response_converter.rs:12-23) presigns the stored `profile_url` as an S3 key. That value is `formatted_key`, `users/<id>/profile?t=<second>` (user_manager.rs:71-75), while `upload_object` wrote `users/<id>/profile`. So the URLs GET /users/ answers name an object that was never written, whereas the upload's own answer presigns the right key. The presign result is unwrapped, so one failure panics the whole listing. UserService keeps the stored key apart from the object's key (`FormattedKey` against `ObjectKey`), but the listing's presign changes no state and is not modelled. Both points are listed as a hazard in PROJECT.json.
- **A repeated sign-up on a lagging replica.** sign_up's by_email (auth_manager.rs:79-84) reads a replica, and the insert goes to the primary. A single client that retries its sign-up before the replica has applied the first insert passes the check again and creates a second account for the same email. No concurrency is needed. With `Clients = {c1}` and `ReplicaLag = TRUE`, the auth_signup_race cfg finds AtMostOneAccountPerLoginKey violated by lookup, create, lookup on the lagging replica, create. The run keeps two clients to show the interleaving variant. Both come from the same missing unique constraint.
- **Expiry leeway.** `validate_jwt` (jwt_manager.rs:115-118) uses jsonwebtoken's default validation, which rejects a token only once `exp < now - 60`. spec.md §3 calls a token valid only while `exp` is in the future, and §8 has an expired token rejected. The user_service run reaches the boundary (`exp = 1` at `now = 2`): the code admits the token and the spec would not. `GateAnswersByClaims` states the code's rule. A run with the spec's rule would be a violation run of its own, and there is no free run slot.
- **Config placeholders without a default.** `replace_place_holders` (resources/config.rs:37-46) reads `&caps[2]` unconditionally. For `${VAR}` the optional default group is absent, so loading such a file would panic. Config loading is outside the models.

## 6. Not modelled

- **S3 presigned URLs:** generate_presigned_url computes a string and changes nothing.
- **The OAuth2 provider:** the environment; its codes are inputs of OAuthFlow.
- **The HTTP server setup, CORS, logging, config loading and the health endpoint:** wiring and formatting. The health endpoint always answers success, even when every consumer replica is dead.
- **Request bodies and error messages:** Json, Multipart and Path rejections are 4xx answers that change nothing; messages are text.
- **Password hashing:** an injective tag, because bcrypt is a one-way function whose only observable is `verify_password`.
- **A negative lifetime other than −1:** it wraps in `as u64`. It is excluded by an ASSUME as a configuration error.
