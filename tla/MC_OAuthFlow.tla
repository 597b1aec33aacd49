----------------------------- MODULE MC_OAuthFlow -----------------------------
(***************************************************************************)
(* A victim and an attacker browser with distinct Google identities, two   *)
(* CSRF states and two codes: enough for both to fetch a URL and consent  *)
(* once, and for the attacker to plant its code.                          *)
(***************************************************************************)
EXTENDS OAuthFlow

MC_Identity == [b \in {"victim", "attacker"} |-> IF b = "victim" THEN "g_victim" ELSE "g_attacker"]
====
