-------------------------- MODULE SignUpVerification --------------------------
(***************************************************************************)
(* Sign-up composed with the verify-user pipeline: the two subsystems of   *)
(* spec.md section 1 meet where AuthManagerImpl::sign_up, after inserting  *)
(* the user, calls send_verify_user_event(new_user.id), which builds the   *)
(* JobMessage {user_event, {id, verified: true}} and awaits               *)
(* SQSProducerImpl::send, discarding its result.  The consumer replicas    *)
(* then apply it to users.status.                                          *)
(*                                                                         *)
(* AuthEngine supplies the sign-up steps over the users table (lookup on a *)
(* replica, insert on the primary); EventPipeline supplies the broker, the *)
(* replicas and the processor.  The insert-and-send of sign-up is one step *)
(* of both: the id AuthEngine records as sent is the body the producer     *)
(* enqueues.  The other handlers of AuthEngine do not touch the pipeline   *)
(* and are left out.                                                       *)
(***************************************************************************)
EXTENDS Naturals, FiniteSets, Sequences

CONSTANTS
    \* AuthEngine and its token codec
    Clients, UserIds, SessionIds, DbReplicas, RawEmails, Lowercase, Passwords,
    OAuthSubs, OAuthEmail, ReplicaLag, EmailUnique, MaxTime,
    AccessExpirationSeconds, RefreshExpirationSeconds, Leeway,
    \* EventPipeline
    ForeignBodies, ConsumerReplicas, MaxMessages, DelaySeconds, MaxFaults

VARIABLES
    log, applied, req, issued, verifyEvents, now,           \* AuthEngine
    queue, pc, batch, cur, status, sent, signedUp, faults   \* EventPipeline

authVars == <<log, applied, req, issued, verifyEvents, now>>
pipeVars == <<queue, pc, batch, cur, status, sent, signedUp, faults>>
vars     == <<authVars, pipeVars>>

Auth == INSTANCE AuthEngine WITH Replicas <- DbReplicas
Pipe == INSTANCE EventPipeline WITH Users <- UserIds, Replicas <- ConsumerReplicas

\* The accounts on the primary.
Created == Auth!UsedUserIds

\* The accounts a step inserts: the users of the writes it appends to the log.
Inserted == {log'[i].user.id : i \in {k \in Len(log)+1..Len(log') : log'[k].op = "insert_user"}}

Init == Auth!Init /\ Pipe!Init

-----------------------------------------------------------------------------
(* Steps.                                                                   *)

\* sign_up's insert and its send_verify_user_event in one step.  The id
\* sign_up hands to the producer (AuthEngine's verifyEvents) is the one the
\* producer enqueues; a send that fails (its result is discarded) enqueues
\* nothing, and a failed insert sends nothing.
SignUpCreateAndSend(c) ==
    /\ Auth!SignUpCreate(c)
    /\ \/ /\ Inserted = {}
          /\ UNCHANGED pipeVars
       \/ \E u \in Inserted :
            /\ verifyEvents' = verifyEvents
            /\ Pipe!SendVerifyUserEvent(u)
            /\ UNCHANGED sent
       \/ \E x \in verifyEvents' \ verifyEvents :
            /\ Pipe!SendVerifyUserEvent(x)
            /\ sent' # sent

\* A step of the pipeline other than the producer's verify send.
PipeStep(A) == A /\ UNCHANGED authVars

Next ==
    \/ \E c \in Clients, r \in DbReplicas, e \in RawEmails, p \in Passwords :
         Auth!SignUpLookup(c, r, e, p) /\ UNCHANGED pipeVars
    \/ \E c \in Clients : SignUpCreateAndSend(c)
    \/ \E b \in ForeignBodies : PipeStep(Pipe!SendForeign(b))
    \/ \E b \in Pipe!Body :
         PipeStep(Pipe!DelayElapses(b)) \/ PipeStep(Pipe!VisibilityTimeout(b))
    \/ \E r \in ConsumerReplicas :
         \/ PipeStep(Pipe!Receive(r)) \/ PipeStep(Pipe!ReceiveFails(r))
         \/ PipeStep(Pipe!Process(r)) \/ PipeStep(Pipe!ProcessFails(r))
         \/ PipeStep(Pipe!Delete(r)) \/ PipeStep(Pipe!DeleteFails(r))

\* The pipeline's fairness (EventPipeline's Spec): live replica tasks keep
\* being polled, time passes, and every message that keeps becoming visible
\* is received by some replica.  No client is assumed to sign up.
Spec ==
    /\ Init /\ [][Next]_vars
    /\ \A r \in ConsumerReplicas : /\ WF_vars(PipeStep(Pipe!Process(r)))
                                  /\ WF_vars(PipeStep(Pipe!Delete(r)))
    /\ \A b \in Pipe!Body : /\ SF_vars(PipeStep(Pipe!ReceiveOf(b)))
                           /\ WF_vars(PipeStep(Pipe!DelayElapses(b)))
                           /\ WF_vars(PipeStep(Pipe!VisibilityTimeout(b)))

-----------------------------------------------------------------------------
(* Properties.                                                              *)

\* EventPipeline's safety, with the producer driven by sign-up: an enqueued
\* verify event is not deleted before its account is verified.
NoLostVerifyEvent == Pipe!NoLostVerifyEvent

\* spec.md section 8, end-to-end: sign-up stores the account, the verify
\* event carries the new id, a consumer delivers it and the processor sets
\* that account's status to verified.  Only accounts the users table holds
\* are ever verified: the event sign-up sends names the inserted row.
VerifiedOnlyCreatedAccounts ==
    \A u \in UserIds : status[u] = "verified" => u \in Created

\* spec.md section 8, end-to-end: an account whose sign-up enqueued its
\* verify event (the send is best effort, so not every account has one)
\* is eventually verified, through redelivery after a replica dies
\* holding it.
SignedUpAccountEventuallyVerified ==
    \A u \in UserIds : u \in verifyEvents ~> status[u] = "verified"
=============================================================================
