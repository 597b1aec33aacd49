--------------------------- MODULE MC_EventPipeline ---------------------------
(***************************************************************************)
(* Instances of the verify-user pipeline for TLC: two users, two consumer  *)
(* replicas, batches of up to two messages and the producer's delay on.   *)
(* The foreign bodies stand for the shapes get_job_event and the processor *)
(* tell apart.                                                             *)
(***************************************************************************)
EXTENDS EventPipeline

\* A non-JSON string, the producer test's {"key":"value"} (no event_type),
\* and a user_event whose data is not a JobUserMessage.
NotJson       == [json |-> FALSE, event_type |-> "absent", data |-> MalformedData]
NoEventType   == [json |-> TRUE, event_type |-> "absent", data |-> MalformedData]
BadUserData   == [json |-> TRUE, event_type |-> "user_event", data |-> MalformedData]
\* A JobUserMessage with verified = false: processed without effect.
Unverified(u) == [json |-> TRUE, event_type |-> "user_event",
                  data |-> [id |-> u, verified |-> FALSE]]

MC_HarmlessBodies == {NoEventType}
MC_PoisonBodies   == {BadUserData}
MC_MalformedBodies == {NotJson}
MC_MaxMessages    == 2
MC_DelaySeconds   == 5
====
