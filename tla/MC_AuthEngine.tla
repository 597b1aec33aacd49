--------------------------- MODULE MC_AuthEngine ---------------------------
(* AuthEngine instantiated for TLC.  Two concurrent requests, two user ids  *)
(* and two session ids (so that a user can sign in twice and sign out      *)
(* between), two passwords, one email (typed in two cases in the          *)
(* signin_case cfg), one federated subject reporting the same email, one  *)
(* read replica.  The access token lifetime and the leeway are one clock  *)
(* unit each; refresh tokens never expire (refresh_expiration_seconds =   *)
(* -1).                                                                    *)
EXTENDS AuthEngine

MC_AccessExpirationSeconds == 1
MC_RefreshExpirationSeconds == -1
MC_Leeway == 1
MC_MaxTime == 1
MC_Lowercase == [e \in {"a@x.com", "A@x.com"} |-> "a@x.com"]
MC_LowercaseOne == [e \in {"a@x.com"} |-> "a@x.com"]
MC_OAuthEmail == [s \in {"g1"} |-> "a@x.com"]
=============================================================================
