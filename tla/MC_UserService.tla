---------------------------- MODULE MC_UserService ----------------------------
(***************************************************************************)
(* One seeded admin and one user, two session ids, one picture content and *)
(* one upload client.  An access token lives one second with one second   *)
(* of leeway: one issued at 0 has exp = 1, is still accepted at 2 and is   *)
(* rejected at 3, where it must be refreshed; refresh tokens never expire  *)
(* (refresh_expiration_seconds = -1, exp = 0).                            *)
(***************************************************************************)
EXTENDS UserService, TLC, FiniteSets

\* Bound of the run: at most five tokens are handed out (two sign-ins and
\* three refreshes), enough for an access token minted at every second.
MC_MaxHeld == 5
MC_HeldBound == Cardinality(held) <= MC_MaxHeld

\* Session ids are fresh uuids no handler or property tells apart.
MC_Symmetry == Permutations(SessionIds)

MC_AccessExpirationSeconds  == 1
MC_RefreshExpirationSeconds == -1
MC_Leeway                   == 1
MC_MaxTime                  == 3
====
