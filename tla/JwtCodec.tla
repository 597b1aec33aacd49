------------------------------ MODULE JwtCodec ------------------------------
(***************************************************************************)
(* The token codec of src/src/core/security/jwt_manager.rs: how JwtManager *)
(* mints the claims of a bearer token and how validate_jwt accepts or      *)
(* rejects a presented token.  Signing is abstracted to a flag: a token    *)
(* whose claims were produced by generate_jwt verifies against the public  *)
(* key (signed = TRUE); a token whose claims were altered by anyone        *)
(* without the private key does not (signed = FALSE).  Time is the epoch   *)
(* second of get_current_timestamp().                                      *)
(***************************************************************************)
EXTENDS Integers

CONSTANTS
    AccessExpirationSeconds,   \* JwtConfig.access_expiration_seconds
    RefreshExpirationSeconds,  \* JwtConfig.refresh_expiration_seconds
    Leeway                     \* Validation::new(alg).leeway of jsonwebtoken (60 s)

\* Lifetimes are -1 (never expires) or a non-negative number of seconds: a
\* negative lifetime other than -1 wraps around in `as u64` (jwt_manager.rs
\* line 79) and is a configuration error this model does not enter.
ASSUME /\ AccessExpirationSeconds \in {-1} \cup Nat
       /\ RefreshExpirationSeconds \in {-1} \cup Nat
       /\ Leeway \in Nat

\* enum TokenType
AccessToken  == "access_token"
RefreshToken == "refresh_token"
TokenType == {AccessToken, RefreshToken}

\* JwtManager::DEFAULT_EXPIRATION: the exp of a token that never expires.
DEFAULT_EXPIRATION == 0

\* The result of validate_jwt when it returns None.
NoClaims == [none |-> TRUE]

\* The lifetime generate_jwt reads for a token type.
ExpirationSeconds(tokenType) ==
    IF tokenType = AccessToken THEN AccessExpirationSeconds
                               ELSE RefreshExpirationSeconds

\* Mutant of GenerateJwt: the -1 lifetime is not mapped to the sentinel.
GenerateJwtNoSentinel(jti, userId, tokenType, role, now) ==
    [jti |-> jti, token_type |-> tokenType, sub |-> userId,
     exp |-> now + ExpirationSeconds(tokenType), role |-> role, signed |-> TRUE]

\* generate_jwt: the claims signed for (jti, user_id, token_type, role) at
\* second `now`; a lifetime of -1 gives exp = DEFAULT_EXPIRATION.
GenerateJwt(jti, userId, tokenType, role, now) ==
    LET seconds == ExpirationSeconds(tokenType)
    IN  [jti        |-> jti,
         token_type |-> tokenType,
         sub        |-> userId,
         exp        |-> IF seconds = -1 THEN DEFAULT_EXPIRATION
                                        ELSE now + seconds,
         role       |-> role,
         signed     |-> TRUE]

\* jsonwebtoken::decode with validation.validate_exp = validateExp: the
\* signature must verify, and when expiry is validated the token is
\* rejected once exp < now - leeway.
Decodes(token, validateExp, now) ==
    /\ token.signed
    /\ validateExp => ~(token.exp < now - Leeway)

\* The claims carried by a token, without the signature flag.
ClaimsOf(token) ==
    [jti |-> token.jti, token_type |-> token.token_type, sub |-> token.sub,
     exp |-> token.exp, role |-> token.role]

\* validate_jwt: a relaxed decode that ignores expiry and rejects a token of
\* the wrong type, then a hardened decode that validates expiry unless the
\* relaxed decode read exp = DEFAULT_EXPIRATION.
ValidateJwt(token, tokenType, now) ==
    IF ~Decodes(token, FALSE, now) \/ token.token_type # tokenType
    THEN NoClaims
    ELSE IF Decodes(token, token.exp # DEFAULT_EXPIRATION, now)
         THEN ClaimsOf(token)
         ELSE NoClaims

\* TokenValidator::extract_and_validate succeeds for the token.
Accepts(token, tokenType, now) == ValidateJwt(token, tokenType, now) # NoClaims
=============================================================================
