----------------------------- MODULE EventPipeline -----------------------------
(***************************************************************************)
(* The asynchronous verify-user pipeline: SQSProducerImpl::send            *)
(* (src/src/service/aws/sqs/producer/producer.rs) enqueues a JobMessage on *)
(* the "local" SQS queue; JobConsumerImpl::start                           *)
(* (src/src/job/consumer/consumer.rs) spawns `replicas` tasks each running *)
(* SQSConsumerImpl::start (src/src/service/aws/sqs/consumer/consumer.rs),  *)
(* which receives a batch, hands each message to UserEventProcessor        *)
(* (src/src/job/processor/users/user_event.rs) and deletes it.  The        *)
(* processor sets users.status to verified through UserManagerImpl.        *)
(*                                                                         *)
(* The broker is at-least-once: a received message is hidden until it is  *)
(* deleted or its visibility timeout expires, and a later receive hands    *)
(* out a new receipt handle.  A message body is sent at most once here,    *)
(* so the body identifies the message.                                     *)
(***************************************************************************)
EXTENDS Naturals, FiniteSets, Functions, TLC

CONSTANTS
    Users,          \* users whose sign-up sends a verify event
    ForeignBodies,  \* other bodies on the queue (e.g. the producer test's {"key":"value"})
    Replicas,       \* consumer tasks: AWSSQSJobConfig.replicas
    MaxMessages,    \* AWSSQSJobConfig.max_number_of_messages
    DelaySeconds,   \* AWSSQSJobConfig.delay_seconds
    MaxFaults       \* bound on transient SQS / database failures in a behaviour

None == "none"

\* cur[r] when replica r is not deleting a message.
NoMessage == [none |-> TRUE]

\* A JobMessage as the consumer sees it, classified by what
\* JobEvent::get_job_event and the processor make of it.
\*   json:       the body string parses as JSON
\*   event_type: "user_event", "" , another tag, or missing ("absent")
\*   data:       JobUserMessage {id, verified}, or MalformedData
MalformedData == [malformed |-> TRUE]

\* JobMessage::new(event_type, data).to_value(): a JSON envelope.
JobMessageNew(eventType, data) == [json |-> TRUE, event_type |-> eventType, data |-> data]

\* The body send_verify_user_event enqueues for user u.
VerifyBody(u) == JobMessageNew("user_event", [id |-> u, verified |-> TRUE])

\* enum UserStatus: the users.status values.
UserStatus == {"registered", "verified"}
Body == {VerifyBody(u) : u \in Users} \cup ForeignBodies

ASSUME /\ \A b \in ForeignBodies :
            b.json \in BOOLEAN /\ b.event_type \in {"user_event", "", "other", "absent"}
       /\ MaxMessages \in 1..10 /\ MaxFaults \in Nat

VARIABLES
    queue,      \* queue[b]: a message on the queue: visibility state and last receiver
    pc,         \* pc[r]: where replica r is in SQSConsumerImpl::start
    batch,      \* batch[r]: messages of the current receive not yet handled
    cur,        \* cur[r]: the message replica r is deleting
    status,     \* status[u]: users.status
    sent,       \* bodies the producer has enqueued
    signedUp,   \* users whose sign-up has called send_verify_user_event
    faults      \* transient failures so far

vars == <<queue, pc, batch, cur, status, sent, signedUp, faults>>

QueueEntry == [state: {"delayed", "visible", "inflight"}, holder: Replicas \cup {None}]

TypeOK ==
    /\ DOMAIN queue \subseteq Body /\ \A b \in DOMAIN queue : queue[b] \in QueueEntry
    /\ pc \in [Replicas -> {"poll", "process", "delete", "dead"}]
    /\ batch \in [Replicas -> SUBSET Body]
    /\ cur \in [Replicas -> Body \cup {NoMessage}]
    /\ status \in [Users -> UserStatus]
    /\ sent \subseteq Body /\ signedUp \subseteq Users
    /\ faults \in 0..MaxFaults

Init ==
    /\ queue = <<>>
    /\ pc = [r \in Replicas |-> "poll"]
    /\ batch = [r \in Replicas |-> {}]
    /\ cur = [r \in Replicas |-> NoMessage]
    /\ status = [u \in Users |-> "registered"]
    /\ sent = {}
    /\ signedUp = {}
    /\ faults = 0

-----------------------------------------------------------------------------
(* Producer.                                                                *)

\* send: the delay is applied only when it lies in 1..=900.
DelayApplied(d) == d \in 1..900

Enqueue(b) ==
    /\ queue' = queue @@ (b :> [state  |-> IF DelayApplied(DelaySeconds)
                                            THEN "delayed" ELSE "visible",
                                holder |-> None])
    /\ sent' = sent \cup {b}

\* AuthManagerImpl::send_verify_user_event for a newly created user: the
\* spawned send either enqueues the message or fails, and the failure is
\* swallowed by sign-up.
SendVerifyUserEvent(u) ==
    /\ u \notin signedUp
    /\ signedUp' = signedUp \cup {u}
    /\ \/ Enqueue(VerifyBody(u))
       \/ UNCHANGED <<queue, sent>>
    /\ UNCHANGED <<pc, batch, cur, status, faults>>

\* Another sender puts a body on the same queue.
SendForeign(b) ==
    /\ b \notin sent
    /\ Enqueue(b)
    /\ UNCHANGED <<pc, batch, cur, status, signedUp, faults>>

-----------------------------------------------------------------------------
(* Broker.                                                                  *)

DelayElapses(b) ==
    /\ b \in DOMAIN queue /\ queue[b].state = "delayed"
    /\ queue' = [queue EXCEPT ![b].state = "visible"]
    /\ UNCHANGED <<pc, batch, cur, status, sent, signedUp, faults>>

\* The visibility timeout of a received, undeleted message expires.
VisibilityTimeout(b) ==
    /\ b \in DOMAIN queue /\ queue[b].state = "inflight"
    /\ queue' = [queue EXCEPT ![b].state = "visible"]
    /\ UNCHANGED <<pc, batch, cur, status, sent, signedUp, faults>>

Visible == {b \in DOMAIN queue : queue[b].state = "visible"}

-----------------------------------------------------------------------------
(* Consumer replica r: the loop of SQSConsumerImpl::start.                   *)

\* The task of replica r ends: a panic (unwrap/expect) or `?` returning Err
\* from SQSConsumerImpl::start.  JobConsumerImpl::start spawned it once and
\* only logs its end; nothing restarts it.
Crash(r) == pc' = [pc EXCEPT ![r] = "dead"]

\* A transient SQS or database failure that ends the task.
Die(r) ==
    /\ faults < MaxFaults
    /\ faults' = faults + 1
    /\ Crash(r)

\* receive_message returns up to max_number_of_messages visible messages,
\* each hidden and now held by r.  An empty poll changes nothing.
Receive(r) ==
    /\ pc[r] = "poll"
    /\ \E got \in SUBSET Visible :
         /\ got # {} /\ Cardinality(got) <= MaxMessages
         /\ queue' = [b \in DOMAIN queue |->
                        IF b \in got THEN [state |-> "inflight", holder |-> r]
                                     ELSE queue[b]]
         /\ batch' = [batch EXCEPT ![r] = got]
         /\ pc' = [pc EXCEPT ![r] = "process"]
    /\ UNCHANGED <<cur, status, sent, signedUp, faults>>

\* receive_message(...).send().await.unwrap() panics on an SQS error.
ReceiveFails(r) ==
    /\ pc[r] = "poll"
    /\ Die(r)
    /\ UNCHANGED <<queue, batch, cur, status, sent, signedUp>>

\* JobEvent::get_job_event returns Ok: the string parses as JSON, into a
\* JobMessage, whose event_type is non-empty and names a JobEventType.
\* UserManagerImpl::update_status: users.status of the row by id.
UpdateStatus(id, st) == [status EXCEPT ![id] = st]

\* JobEventType::from_str: only "user_event" names a JobEventType.
JobEventTypeFromStr(s) == IF s = "user_event" THEN "UserEvent" ELSE "SomethingWentWrong"

GetJobEventOk(b) ==
    /\ b.json                          \* serde_json::from_str of the string
    /\ b.event_type # "absent"         \* from_value into a JobMessage
    /\ b.event_type # ""               \* the is_empty early return
    /\ JobEventTypeFromStr(b.event_type) = "UserEvent"

\* Mutant of ProcessOutcome: the verified test is inverted.
ProcessOutcomeInverted(b) ==
    IF ~GetJobEventOk(b) THEN "err"
    ELSE IF b.data = MalformedData THEN "panic"
    ELSE IF ~b.data.verified THEN "effect"
    ELSE "ok"

\* What UserEventProcessor::process does with a body: "effect" (update the
\* status to verified), "ok" (nothing to do), "err" (get_job_event fails:
\* the consumer logs it) or "panic" (the expect on the JobUserMessage parse).
ProcessOutcome(b) ==
    IF ~GetJobEventOk(b) THEN "err"
    ELSE IF b.data = MalformedData THEN "panic"
    ELSE IF b.data.verified THEN "effect"
    ELSE "ok"

\* The next message of the batch: serde_json::to_value of the body string
\* always yields a non-null Value, so the skip-deletion branch is never
\* taken; the processor's Err is logged and the message goes on to deletion;
\* a panic in the processor ends the task.
Process(r) ==
    /\ pc[r] = "process"
    /\ \E b \in batch[r] :
         /\ batch' = [batch EXCEPT ![r] = @ \ {b}]
         /\ IF ProcessOutcome(b) = "panic"
            THEN Crash(r) /\ UNCHANGED <<cur, status, faults>>
            ELSE /\ status' = IF ProcessOutcome(b) = "effect"
                              THEN UpdateStatus(b.data.id, "verified")
                              ELSE status
                 /\ cur' = [cur EXCEPT ![r] = b]
                 /\ pc' = [pc EXCEPT ![r] = "delete"]
                 /\ UNCHANGED faults
    /\ UNCHANGED <<queue, sent, signedUp>>

\* Mutant of ProcessFails: update_status's error is returned with `?`, so
\* the consumer logs it and deletes the message.
ProcessFailsReturnsErr(r) ==
    /\ pc[r] = "process"
    /\ \E b \in batch[r] :
         /\ ProcessOutcome(b) = "effect"
         /\ batch' = [batch EXCEPT ![r] = @ \ {b}]
         /\ cur' = [cur EXCEPT ![r] = b]
         /\ pc' = [pc EXCEPT ![r] = "delete"]
    /\ faults < MaxFaults /\ faults' = faults + 1
    /\ UNCHANGED <<queue, status, sent, signedUp>>

\* update_status fails (database error) and its expect panics.
ProcessFails(r) ==
    /\ pc[r] = "process"
    /\ \E b \in batch[r] : ProcessOutcome(b) = "effect"
    /\ Die(r)
    /\ UNCHANGED <<queue, batch, cur, status, sent, signedUp>>

\* delete_message with r's receipt handle.  With the latest handle the
\* message goes; with a stale one (another receive happened since) SQS
\* answers success but may keep it.  Then the next message of the batch,
\* or the sleep and the next poll.
Delete(r) ==
    /\ pc[r] = "delete"
    /\ LET b == cur[r]
       IN  \/ /\ b \in DOMAIN queue
              /\ queue' = Restrict(queue, DOMAIN queue \ {b})
           \/ /\ ~(b \in DOMAIN queue /\ queue[b].holder = r)
              /\ UNCHANGED queue
    /\ cur' = [cur EXCEPT ![r] = NoMessage]
    /\ pc' = [pc EXCEPT ![r] = IF batch[r] = {} THEN "poll" ELSE "process"]
    /\ UNCHANGED <<batch, status, sent, signedUp, faults>>

\* delete_message returns Err and `?` ends SQSConsumerImpl::start.
DeleteFails(r) ==
    /\ pc[r] = "delete"
    /\ Die(r)
    /\ UNCHANGED <<queue, batch, cur, status, sent, signedUp>>

Next ==
    \/ \E u \in Users : SendVerifyUserEvent(u)
    \/ \E b \in ForeignBodies : SendForeign(b)
    \/ \E b \in Body : DelayElapses(b) \/ VisibilityTimeout(b)
    \/ \E r \in Replicas :
         \/ Receive(r) \/ ReceiveFails(r)
         \/ Process(r) \/ ProcessFails(r)
         \/ Delete(r) \/ DeleteFails(r)

\* Some live replica's receive returns message b.
ReceiveOf(b) == \E r \in Replicas : Receive(r) /\ b \in batch'[r]

\* A live replica's task keeps being polled by the tokio runtime, and time
\* passes for delays and visibility timeouts.  The broker hands every
\* message that keeps becoming visible to some polling replica (long
\* polling queries all of its servers): strong fairness per message, since
\* sibling replicas and other messages may take the receive first.
\* Failures get no fairness.
Spec ==
    /\ Init /\ [][Next]_vars
    /\ \A r \in Replicas : WF_vars(Process(r)) /\ WF_vars(Delete(r))
    /\ \A b \in Body : /\ SF_vars(ReceiveOf(b))
                      /\ WF_vars(DelayElapses(b)) /\ WF_vars(VisibilityTimeout(b))

-----------------------------------------------------------------------------
(* Properties.                                                              *)

\* A verify event that the producer enqueued is never gone from the queue
\* before its user is verified: the consumer deletes a message only after
\* the processor applied it, and a failed update_status ends the task
\* (expect) instead of letting the delete run.
NoLostVerifyEvent ==
    \A u \in Users :
        VerifyBody(u) \in sent => VerifyBody(u) \in DOMAIN queue \/ status[u] = "verified"

\* spec.md section 8 end-to-end: an enqueued verify event is eventually
\* applied, through redelivery after a replica dies holding it.
EveryVerifyEventApplied ==
    \A u \in Users : VerifyBody(u) \in sent ~> status[u] = "verified"

\* The envelope of a body parses: a JSON string holding an event_type.
EnvelopeParses(b) == b.json /\ b.event_type # "absent"

\* spec.md section 4.7 step 2: a body that does not parse as an envelope
\* is not deleted, so it stays on the queue for redelivery.
MalformedEnvelopeKept ==
    [][\A b \in DOMAIN queue \ DOMAIN queue' : EnvelopeParses(b)]_vars
====
