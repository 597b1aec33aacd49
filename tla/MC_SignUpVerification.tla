------------------------- MODULE MC_SignUpVerification -------------------------
(***************************************************************************)
(* One sign-up client, two user ids and two emails (so two accounts can be *)
(* created), one password, one session id (AuthEngine's id-pool bound),   *)
(* one database replica in step with the primary and no OAuth2 subject;    *)
(* two consumer replicas, batches of up to two, the producer's delay on,   *)
(* one transient failure, and a body without event_type on the queue.     *)
(***************************************************************************)
EXTENDS SignUpVerification, Integers

MC_Lowercase  == [e \in {"a@x.com", "b@x.com"} |-> e]
MC_OAuthEmail == [s \in {} |-> "a@x.com"]
\* The producer test's {"key":"value"}: JSON without event_type (the data
\* is EventPipeline's MalformedData).
MC_ForeignBodies == {[json |-> TRUE, event_type |-> "absent", data |-> [malformed |-> TRUE]]}
MC_MaxMessages   == 2
MC_DelaySeconds  == 5
MC_AccessExpirationSeconds  == 1
MC_RefreshExpirationSeconds == -1
MC_Leeway                   == 1
MC_MaxTime                  == 0
====
