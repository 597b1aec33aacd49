------------------------------ MODULE OAuthFlow ------------------------------
(***************************************************************************)
(* The Google sign-in flow: GET /auth/sign-in/:provider answers the        *)
(* provider's authorize URL (OAuth2ServiceImpl::get_redirect_url), the     *)
(* browser's user consents at the provider, which redirects the browser    *)
(* with an authorization code, and the browser posts the code to POST      *)
(* /auth/sign-in/:provider (sign_in_oauth2), which exchanges it, fetches   *)
(* the user info, finds or creates the account of its subject and signs    *)
(* the browser in.  The request body carries the code only.                *)
(*                                                                         *)
(* Browsers in Attackers also forward codes to other browsers' callback    *)
(* (a crafted link).  The provider is the environment: its codes are      *)
(* single-use and bound to the subject who consented and the state of the *)
(* authorize URL.  The find-or-create of the account is one step here;    *)
(* its race is AuthEngine's subject.                                       *)
(***************************************************************************)
EXTENDS FiniteSets

CONSTANTS
    Browsers,    \* user agents that call the API
    Attackers,   \* browsers that plant their codes on other browsers
    Identity,    \* Identity[b]: the provider subject of b's user
    States,      \* values CsrfToken::new_random can produce
    Codes        \* authorization codes the provider can issue

ASSUME /\ Attackers \subseteq Browsers
       /\ Identity \in [Browsers -> STRING]

None == "none"
Subs == {Identity[b] : b \in Browsers}

\* enum OAuth2Provider: the :provider path segment.
Providers == {"google"}

VARIABLES
    csrf,      \* csrf[b]: state in the authorize URL browser b holds
    issued,    \* codes the provider issued: [code, sub, state]
    spent,     \* codes already exchanged at the provider
    inbox,     \* inbox[b]: codes that reached b's callback page
    accounts,  \* subjects with a users row (auth_id)
    signedIn   \* signedIn[b]: subject of the tokens the API handed to b

vars == <<csrf, issued, spent, inbox, accounts, signedIn>>

TypeOK ==
    /\ csrf \in [Browsers -> States \cup {None}]
    /\ issued \subseteq [code: Codes, sub: Subs, state: States]
    /\ spent \subseteq Codes
    /\ inbox \in [Browsers -> SUBSET Codes]
    /\ accounts \subseteq Subs
    /\ signedIn \in [Browsers -> Subs \cup {None}]

Init ==
    /\ csrf = [b \in Browsers |-> None]
    /\ issued = {}
    /\ spent = {}
    /\ inbox = [b \in Browsers |-> {}]
    /\ accounts = {}
    /\ signedIn = [b \in Browsers |-> None]

UsedStates == {csrf[b] : b \in Browsers} \cup {i.state : i \in issued}
CodeOf(c) == CHOOSE i \in issued : i.code = c

\* get_redirect_url: the authorize URL with a fresh CsrfToken; the pair
\* url() returns is split and the token dropped, so the API keeps no state.
AuthorizeUrl(st) == [provider |-> "google", state |-> st]

-----------------------------------------------------------------------------
(* Browsers and the provider.                                              *)

\* sign_in_oauth2_get_redirect_uri for :provider = google (any other
\* segment fails Path<OAuth2Provider> and changes nothing).
GetRedirectUri(b, p) ==
    /\ p \in Providers
    /\ \E st \in States \ UsedStates :
         csrf' = [csrf EXCEPT ![b] = AuthorizeUrl(st).state]
    /\ UNCHANGED <<issued, spent, inbox, accounts, signedIn>>

\* b's user consents at the provider for the URL b holds; the provider
\* redirects b to the callback with a fresh code bound to that state.
Consent(b) ==
    /\ csrf[b] # None
    /\ \E c \in Codes \ {i.code : i \in issued} :
         /\ issued' = issued \cup {[code |-> c, sub |-> Identity[b], state |-> csrf[b]]}
         /\ inbox' = [inbox EXCEPT ![b] = @ \cup {c}]
    /\ csrf' = [csrf EXCEPT ![b] = None]
    /\ UNCHANGED <<spent, accounts, signedIn>>

\* An attacker sends victim v a link to the callback page with one of its
\* own unspent codes.
Plant(a, v, c) ==
    /\ a \in Attackers /\ v # a
    /\ c \in inbox[a] \ spent
    /\ inbox' = [inbox EXCEPT ![v] = @ \cup {c}]
    /\ UNCHANGED <<csrf, issued, spent, accounts, signedIn>>

-----------------------------------------------------------------------------
(* The API.                                                                *)

\* OAuth2ServiceImpl::sign_in: exchange_code at the provider (a spent code
\* fails with SomethingWentWrong), then GET user_info with the provider's
\* access token; that request can fail after the code is spent.
ExchangeOutcomes(c) ==
    IF c \in spent THEN {"exchange_failed"} ELSE {"ok", "user_info_failed"}

\* sign_in_oauth2 from browser b with code c (body {code}): sign_in, then
\* by_auth_provider and create if missing, then generate_tokens and
\* update_logged_in_at; when that fails the tokens are not handed out.
SignInOAuth2(b, p, c) ==
    /\ p \in Providers
    /\ c \in inbox[b]
    /\ \E outcome \in ExchangeOutcomes(c) :
         /\ spent' = spent \cup {c}
         /\ IF outcome = "ok"
            THEN LET sub == CodeOf(c).sub
                 IN  /\ accounts' = accounts \cup {sub}
                     /\ \/ signedIn' = [signedIn EXCEPT ![b] = sub]
                        \/ UNCHANGED signedIn
            ELSE UNCHANGED <<accounts, signedIn>>
    /\ inbox' = [inbox EXCEPT ![b] = @ \ {c}]
    /\ UNCHANGED <<csrf, issued>>

Next ==
    \/ \E b \in Browsers, p \in Providers : GetRedirectUri(b, p)
    \/ \E b \in Browsers : Consent(b)
    \/ \E a, v \in Browsers, c \in Codes : Plant(a, v, c)
    \/ \E b \in Browsers, p \in Providers, c \in Codes : SignInOAuth2(b, p, c)

Spec == Init /\ [][Next]_vars

-----------------------------------------------------------------------------
(* Properties.                                                             *)

\* A browser that does not plant codes is only ever signed in as its own
\* user's provider identity: the API signs it in with a code only if the
\* code answers the authorize URL that browser asked for.  Breaks when the
\* state of the URL is neither kept nor compared (get_redirect_url drops
\* the CsrfToken and the request body has no state): login CSRF.
SignedInAsOwnIdentity ==
    \A b \in Browsers \ Attackers : signedIn[b] \in {None, Identity[b]}
====
