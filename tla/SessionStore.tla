----------------------------- MODULE SessionStore -----------------------------
(***************************************************************************)
(* What the sign-in, sign-out and refresh handlers promise about sessions, *)
(* with no database, replicas or clock: a session is opened under an id    *)
(* never used before and hands out an access/refresh pair for its user and *)
(* role; it is revoked for good; while it is open, a refresh token of it   *)
(* yields further access tokens of the same session, user and role.  A     *)
(* token is its session, subject, role, type and an expiry the store does  *)
(* not interpret.                                                          *)
(***************************************************************************)
CONSTANTS Ids, Users, Roles, Expiries

VARIABLES
    open,     \* the sessions that exist: [id, user_id] records
    used,     \* every id a session was ever opened under
    tokens    \* the tokens handed out: [jti, sub, role, token_type, exp]

vars == <<open, used, tokens>>

Tok(s, ty, role, e) ==
    [jti |-> s.id, sub |-> s.user_id, role |-> role, token_type |-> ty, exp |-> e]

TypeOK ==
    /\ open \subseteq [id: Ids, user_id: Users]
    /\ used \subseteq Ids
    /\ tokens \subseteq [jti: Ids, sub: Users, role: Roles,
                         token_type: {"access_token", "refresh_token"},
                         exp: Expiries]

Init ==
    /\ open = {}
    /\ used = {}
    /\ tokens = {}

\* A sign-in opens a session under a fresh id; the pair is handed out, or
\* the answer is an error and the session stays without tokens.
Open(id, u, role, ea, er) ==
    /\ id \notin used
    /\ open' = open \cup {[id |-> id, user_id |-> u]}
    /\ used' = used \cup {id}
    /\ LET s == [id |-> id, user_id |-> u]
       IN  \/ tokens' = tokens \cup {Tok(s, "access_token", role, ea),
                                     Tok(s, "refresh_token", role, er)}
           \/ UNCHANGED tokens

\* A sign-out revokes a session.
Revoke(id) ==
    /\ open' = {s \in open : s.id # id}
    /\ UNCHANGED <<used, tokens>>

\* A refresh of an open session hands out an access token with the
\* session, subject and role of the refresh token presented.
Extend(t, e) ==
    /\ t.token_type = "refresh_token"
    /\ [id |-> t.jti, user_id |-> t.sub] \in open
    /\ tokens' = tokens \cup {[t EXCEPT !.token_type = "access_token", !.exp = e]}
    /\ UNCHANGED <<open, used>>

Next ==
    \/ \E id \in Ids, u \in Users, r \in Roles, ea, er \in Expiries :
           Open(id, u, r, ea, er)
    \/ \E id \in Ids : Revoke(id)
    \/ \E t \in tokens, e \in Expiries : Extend(t, e)

Spec == Init /\ [][Next]_vars
====
