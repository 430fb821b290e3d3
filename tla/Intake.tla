------------------------------- MODULE Intake -------------------------------
(***************************************************************************)
(* How requests enter FieldOps: messages from outside (webhook, e-mail),    *)
(* operators' POST /service-requests under an Idempotency-Key, and the      *)
(* customer's conversation with the assistant, which ends in a confirmation.*)
(* All three go through InboundRequestService.handle, which keeps a row of  *)
(* inbound_events and runs the workflow between two short transactions.     *)
(*                                                                         *)
(* A call is one HTTP request, and each of its actions below one            *)
(* transaction (or the workflow run between two).  A call that has ended    *)
(* keeps its record, so that the properties can speak of it.                *)
(***************************************************************************)
EXTENDS Naturals, Sequences

CONSTANTS
    Calls,        \* the HTTP requests that may be made
    Messages,     \* external message ids, each with its source
    Keys,         \* values of the Idempotency-Key header
    Payloads,     \* request bodies, as far as their hashes tell them apart
    NoPayload,
    NoKey,
    MaxVersion    \* bound on the versions of the conversation's draft

ASSUME IntakeAssumption ==
    /\ MaxVersion \in Nat \ {0}
    /\ NoPayload \notin Payloads \cup Calls
    /\ Payloads \cap Calls = {}
    /\ NoKey \notin Keys

VARIABLES
    requests,      \* the service_requests that intake made, in order
    events,        \* inbound_events, by what identifies them
    records,       \* idempotency_records of create_service_request, by key
    conversation,  \* one conversation of a customer
    pc,            \* what a call does next
    call,          \* what a call was asked, what it has read and what it made
    dead           \* calls whose process died, at the step in pc

vars == <<requests, events, records, conversation, pc, call, dead>>

-----------------------------------------------------------------------------
(* Inbound events are unique by source and external message id.  A          *)
(* confirmation uses the draft's version as its message id; a POST has none *)
(* and gets a row that no other call can find.                              *)

Versions == 1 .. MaxVersion
DraftMessage(v) == <<"conversation", v>>
EventIds == Messages \cup {DraftMessage(v) : v \in Versions} \cup Calls

ASSUME DraftAssumption ==
    \A v \in Versions : DraftMessage(v) \notin Messages \cup Calls

\* The hash of a confirmation covers the time at which it was received, so
\* no two confirmations have the same: the call itself stands for it.
Bodies == Payloads \cup Calls

Request == [event : EventIds, payload : Bodies, key : Keys \cup {NoKey}]

InboundEvent ==
    [status  : {"none", "received", "processing", "completed", "failed"},
     payload : Bodies \cup {NoPayload},
     request : Nat]

IdempotencyRecord ==
    [status  : {"none", "processing", "completed", "failed"},
     payload : Bodies \cup {NoPayload}]

Conversation ==
    [status   : {"active", "awaiting_confirmation", "submitted", "cancelled"},
     complete : BOOLEAN,
     version  : Versions,
     ticket   : Nat]

Call ==
    [kind    : {"none", "deliver", "post", "send", "confirm", "cancel"},
     event   : EventIds,
     payload : Bodies,
     key     : Keys \cup {NoKey},
     made    : Nat,
     outcome : {"none", "completed", "failed", "duplicate", "raised"},
     seen    : Conversation]

NewConversation ==
    [status |-> "active", complete |-> FALSE, version |-> 1, ticket |-> 0]

NoCall(c) ==
    [kind |-> "none", event |-> c, payload |-> c, key |-> NoKey,
     made |-> 0, outcome |-> "none", seen |-> NewConversation]

Steps == {"idle", "lookKey", "claimKey", "insertKey", "look", "claim",
          "insert", "begin", "run", "settle", "record", "submit",
          "reply", "withdraw", "done"}

Init ==
    /\ requests = <<>>
    /\ events = [e \in EventIds |->
                    [status |-> "none", payload |-> NoPayload, request |-> 0]]
    /\ records = [k \in Keys |-> [status |-> "none", payload |-> NoPayload]]
    /\ conversation = NewConversation
    /\ pc = [c \in Calls |-> "idle"]
    /\ call = [c \in Calls |-> NoCall(c)]
    /\ dead = {}

-----------------------------------------------------------------------------
(* Calls arrive.                                                            *)

Goto(c, step) == pc' = [pc EXCEPT ![c] = step]

EventOf(c) == events[call[c].event]

\* POST /intake/webhook and /intake/fake-email.
Deliver(c) ==
    /\ pc[c] = "idle"
    /\ \E m \in Messages, p \in Payloads :
          call' = [call EXCEPT ![c].kind = "deliver", ![c].event = m,
                               ![c].payload = p]
    /\ Goto(c, "look")
    /\ UNCHANGED <<requests, events, records, conversation>>

\* POST /service-requests with an Idempotency-Key.
Post(c) ==
    /\ pc[c] = "idle"
    /\ \E k \in Keys, p \in Payloads :
          call' = [call EXCEPT ![c].kind = "post", ![c].key = k,
                               ![c].payload = p]
    /\ Goto(c, "lookKey")
    /\ UNCHANGED <<requests, events, records, conversation>>

-----------------------------------------------------------------------------
(* InboundRequestService.handle.                                            *)

\* What the caller of handle does when it returns or raises.  The conflict
\* that a confirmation meets leaves it without a trace.
AfterHandle(c, outcome) ==
    CASE call[c].kind = "post"                          -> "record"
      [] call[c].kind = "confirm" /\ outcome # "raised" -> "submit"
      [] OTHER                                          -> "done"

Return(c, outcome, request) ==
    /\ call' = [call EXCEPT ![c].outcome = outcome, ![c].made = request]
    /\ Goto(c, AfterHandle(c, outcome))

LookAbsent(c) ==
    /\ pc[c] = "look"
    /\ EventOf(c).status = "none"
    /\ Goto(c, "insert")
    /\ UNCHANGED <<requests, events, records, conversation, call>>

\* Another payload under the same id, or a call at work on it: 409.
LookConflict(c) ==
    /\ pc[c] = "look"
    /\ EventOf(c).status # "none"
    /\ EventOf(c).payload # call[c].payload \/ EventOf(c).status = "processing"
    /\ Return(c, "raised", 0)
    /\ UNCHANGED <<requests, events, records, conversation>>

LookCompleted(c) ==
    /\ pc[c] = "look"
    /\ EventOf(c).status = "completed"
    /\ EventOf(c).payload = call[c].payload
    /\ Return(c, "duplicate", EventOf(c).request)
    /\ UNCHANGED <<requests, events, records, conversation>>

\* Mutant of LookRetry: the hash of the payload is not compared.
RetryAnyPayload(c) ==
    /\ pc[c] = "look"
    /\ EventOf(c).status \in {"received", "failed"}
    /\ Goto(c, "claim")
    /\ UNCHANGED <<requests, events, records, conversation, call>>

\* Neither completed nor processing: taken for a failed one, though it may
\* be one that another call has just received.
LookRetry(c) ==
    /\ pc[c] = "look"
    /\ EventOf(c).status \in {"received", "failed"}
    /\ EventOf(c).payload = call[c].payload
    /\ Goto(c, "claim")
    /\ UNCHANGED <<requests, events, records, conversation, call>>

\* The row was read without a lock, and is written whatever it holds now.
Claim(c) ==
    /\ pc[c] = "claim"
    /\ events' = [events EXCEPT ![call[c].event].status = "processing"]
    /\ Goto(c, "run")
    /\ UNCHANGED <<requests, records, conversation, call>>

InsertReceived(c) ==
    /\ pc[c] = "insert"
    /\ EventOf(c).status = "none"
    /\ events' = [events EXCEPT ![call[c].event] =
                     [status |-> "received", payload |-> call[c].payload,
                      request |-> 0]]
    /\ Goto(c, "begin")
    /\ UNCHANGED <<requests, records, conversation, call>>

\* The unique key of inbound_events refuses a second row.
InsertRefused(c) ==
    /\ pc[c] = "insert"
    /\ EventOf(c).status # "none"
    /\ Return(c, "raised", 0)
    /\ UNCHANGED <<requests, events, records, conversation>>

MarkProcessing(c) ==
    /\ pc[c] = "begin"
    /\ events' = [events EXCEPT ![call[c].event].status = "processing"]
    /\ Goto(c, "run")
    /\ UNCHANGED <<requests, records, conversation, call>>

\* The workflow commits a service request, or ends before it does; what
\* comes after the commit may still raise.
RunWorkflow(c) ==
    /\ pc[c] = "run"
    /\ \E outcome \in {"completed", "failed", "raised"}, persists \in BOOLEAN :
          /\ persists => outcome # "failed"
          /\ requests' = IF persists
                         THEN Append(requests, [event   |-> call[c].event,
                                                payload |-> call[c].payload,
                                                key     |-> call[c].key])
                         ELSE requests
          /\ call' = [call EXCEPT ![c].outcome = outcome,
                                  ![c].made = IF persists /\ outcome = "completed"
                                              THEN Len(requests) + 1 ELSE 0]
    /\ Goto(c, "settle")
    /\ UNCHANGED <<events, records, conversation>>

\* Mutant of Settle: a run that made no request clears the one named before.
SettleForgets(c) ==
    /\ pc[c] = "settle"
    /\ LET e == call[c].event
           completed == call[c].outcome = "completed"
       IN  events' = [events EXCEPT
              ![e].status = IF completed THEN "completed" ELSE "failed",
              ![e].request = call[c].made]
    /\ Goto(c, AfterHandle(c, call[c].outcome))
    /\ UNCHANGED <<requests, records, conversation, call>>

\* mark_completed and mark_failed.  A failed run is reported, not raised.
Settle(c) ==
    /\ pc[c] = "settle"
    /\ LET e == call[c].event
           completed == call[c].outcome = "completed"
       IN  events' = [events EXCEPT
              ![e].status = IF completed THEN "completed" ELSE "failed",
              ![e].request = IF completed /\ call[c].made # 0
                             THEN call[c].made ELSE @]
    /\ Goto(c, AfterHandle(c, call[c].outcome))
    /\ UNCHANGED <<requests, records, conversation, call>>

\* The transaction that would mark the event completed fails: the handler of
\* the exception marks it failed and raises.
SettleFails(c) ==
    /\ pc[c] = "settle"
    /\ call[c].outcome \in {"completed", "failed"}
    /\ call' = [call EXCEPT ![c].outcome = "raised", ![c].made = 0]
    /\ UNCHANGED <<requests, events, records, conversation, pc>>

Handle(c) ==
    \/ LookAbsent(c) \/ LookConflict(c) \/ LookCompleted(c) \/ LookRetry(c)
    \/ Claim(c) \/ InsertReceived(c) \/ InsertRefused(c) \/ MarkProcessing(c)
    \/ RunWorkflow(c) \/ Settle(c) \/ SettleFails(c)

-----------------------------------------------------------------------------
(* The idempotency record around a POST.                                    *)

RecordOf(c) == records[call[c].key]

LookKeyAbsent(c) ==
    /\ pc[c] = "lookKey"
    /\ RecordOf(c).status = "none"
    /\ Goto(c, "insertKey")
    /\ UNCHANGED <<requests, events, records, conversation, call>>

\* Another body (409), a kept answer (replayed), a POST in flight (409).
LookKeyAnswered(c) ==
    /\ pc[c] = "lookKey"
    /\ RecordOf(c).status # "none"
    /\ \/ RecordOf(c).payload # call[c].payload
       \/ RecordOf(c).status \in {"completed", "processing"}
    /\ Goto(c, "done")
    /\ UNCHANGED <<requests, events, records, conversation, call>>

\* Mutant of LookKeyRetry: whatever is not completed may be repeated.
RetryUnlessCompleted(c) ==
    /\ pc[c] = "lookKey"
    /\ RecordOf(c).status \notin {"none", "completed"}
    /\ RecordOf(c).payload = call[c].payload
    /\ Goto(c, "claimKey")
    /\ UNCHANGED <<requests, events, records, conversation, call>>

LookKeyRetry(c) ==
    /\ pc[c] = "lookKey"
    /\ RecordOf(c).status = "failed"
    /\ RecordOf(c).payload = call[c].payload
    /\ Goto(c, "claimKey")
    /\ UNCHANGED <<requests, events, records, conversation, call>>

ClaimKey(c) ==
    /\ pc[c] = "claimKey"
    /\ records' = [records EXCEPT ![call[c].key].status = "processing"]
    /\ Goto(c, "insert")
    /\ UNCHANGED <<requests, events, conversation, call>>

InsertKey(c) ==
    /\ pc[c] = "insertKey"
    /\ RecordOf(c).status = "none"
    /\ records' = [records EXCEPT ![call[c].key] =
                      [status |-> "processing", payload |-> call[c].payload]]
    /\ Goto(c, "insert")
    /\ UNCHANGED <<requests, events, conversation, call>>

InsertKeyRefused(c) ==
    /\ pc[c] = "insertKey"
    /\ RecordOf(c).status # "none"
    /\ Goto(c, "done")
    /\ UNCHANGED <<requests, events, records, conversation, call>>

\* Mutant of RecordAnswer: an exception leaves the record as it is.
RecordSuccessOnly(c) ==
    /\ pc[c] = "record"
    /\ records' = IF call[c].outcome = "raised" THEN records
                  ELSE [records EXCEPT ![call[c].key].status = "completed"]
    /\ Goto(c, "done")
    /\ UNCHANGED <<requests, events, conversation, call>>

\* The answer is kept, that of a failed run too; an exception marks the
\* record failed.
RecordAnswer(c) ==
    /\ pc[c] = "record"
    /\ records' = [records EXCEPT ![call[c].key].status =
                      IF call[c].outcome = "raised" THEN "failed" ELSE "completed"]
    /\ Goto(c, "done")
    /\ UNCHANGED <<requests, events, conversation, call>>

\* The transaction that keeps the answer fails, and the record is marked
\* failed although the workflow has run.
RecordFails(c) ==
    /\ pc[c] = "record"
    /\ call[c].outcome # "raised"
    /\ call' = [call EXCEPT ![c].outcome = "raised"]
    /\ UNCHANGED <<requests, events, records, conversation, pc>>

Keyed(c) ==
    \/ LookKeyAbsent(c) \/ LookKeyAnswered(c) \/ LookKeyRetry(c)
    \/ ClaimKey(c) \/ InsertKey(c) \/ InsertKeyRefused(c)
    \/ RecordAnswer(c) \/ RecordFails(c)

-----------------------------------------------------------------------------
(* The conversation.  An endpoint reads the row, works, and commits: the    *)
(* session writes a column only when its new value differs from the one it  *)
(* has read, whatever others have written meanwhile.                        *)

Written(new, seen, now) == IF new = seen THEN now ELSE new

\* send_conversation_message reads the conversation and appends the message.
SendLook(c) ==
    /\ pc[c] = "idle"
    /\ conversation.status \notin {"submitted", "cancelled"}
    /\ call' = [call EXCEPT ![c].kind = "send", ![c].seen = conversation]
    /\ Goto(c, "reply")
    /\ UNCHANGED <<requests, events, records, conversation>>

\* The turn is processed: fields that are filled stay filled, and a draft
\* left the same is not written.
SendCommit(c) ==
    /\ pc[c] = "reply"
    /\ call[c].seen.version < MaxVersion
    /\ LET seen == call[c].seen IN
       \E complete, same \in BOOLEAN :
          /\ seen.complete => complete
          /\ same => complete = seen.complete
          /\ conversation' =
                [conversation EXCEPT
                   !.complete = IF same THEN @ ELSE complete,
                   !.version = seen.version + 1,
                   !.status = Written(IF complete THEN "awaiting_confirmation"
                                                  ELSE "active", seen.status, @)]
    /\ Goto(c, "done")
    /\ UNCHANGED <<requests, events, records, call>>

\* Mutant of ConfirmLook: the hash covers the draft without the time.
ConfirmUntimed(c) ==
    /\ pc[c] = "idle"
    /\ conversation.status = "awaiting_confirmation"
    /\ conversation.complete
    /\ \E p \in Payloads :
          call' = [call EXCEPT ![c].kind = "confirm",
                               ![c].event = DraftMessage(conversation.version),
                               ![c].payload = p,
                               ![c].seen = conversation]
    /\ Goto(c, "look")
    /\ UNCHANGED <<requests, events, records, conversation>>

\* confirm_conversation: only a complete draft that awaits it is submitted.
ConfirmLook(c) ==
    /\ pc[c] = "idle"
    /\ conversation.status = "awaiting_confirmation"
    /\ conversation.complete
    /\ call' = [call EXCEPT ![c].kind = "confirm",
                            ![c].event = DraftMessage(conversation.version),
                            ![c].payload = c,
                            ![c].seen = conversation]
    /\ Goto(c, "look")
    /\ UNCHANGED <<requests, events, records, conversation>>

\* Mutant of ConfirmCommit: the conversation gets a status of its own.
ConfirmedStatus(c) ==
    /\ pc[c] = "submit"
    /\ conversation' = [conversation EXCEPT !.status = "confirmed"]
    /\ Goto(c, "done")
    /\ UNCHANGED <<requests, events, records, call>>

\* A run that made no service request is given the customer's latest one.
ConfirmCommit(c) ==
    /\ pc[c] = "submit"
    /\ LET seen == call[c].seen
           ticket == IF call[c].made # 0 THEN call[c].made ELSE Len(requests)
       IN  conversation' =
              [conversation EXCEPT
                 !.status = Written("submitted", seen.status, @),
                 !.ticket = Written(ticket, seen.ticket, @)]
    /\ Goto(c, "done")
    /\ UNCHANGED <<requests, events, records, call>>

CancelLook(c) ==
    /\ pc[c] = "idle"
    /\ conversation.status # "submitted"
    /\ call' = [call EXCEPT ![c].kind = "cancel", ![c].seen = conversation]
    /\ Goto(c, "withdraw")
    /\ UNCHANGED <<requests, events, records, conversation>>

CancelCommit(c) ==
    /\ pc[c] = "withdraw"
    /\ conversation' = [conversation EXCEPT
                           !.status = Written("cancelled", call[c].seen.status, @)]
    /\ Goto(c, "done")
    /\ UNCHANGED <<requests, events, records, call>>

Converse(c) ==
    \/ SendLook(c) \/ SendCommit(c) \/ ConfirmLook(c) \/ ConfirmCommit(c)
    \/ CancelLook(c) \/ CancelCommit(c)

-----------------------------------------------------------------------------

\* The API process dies, or loses its database, between two transactions.
Crash(c) ==
    /\ pc[c] \notin {"idle", "done"}
    /\ dead' = dead \cup {c}
    /\ UNCHANGED <<requests, events, records, conversation, pc, call>>

Step(c) == Deliver(c) \/ Post(c) \/ Handle(c) \/ Keyed(c) \/ Converse(c)

Next == \E c \in Calls \ dead : Crash(c) \/ (Step(c) /\ UNCHANGED dead)

Spec == Init /\ [][Next]_vars

-----------------------------------------------------------------------------

TypeOK ==
    /\ requests \in Seq(Request)
    /\ events \in [EventIds -> InboundEvent]
    /\ records \in [Keys -> IdempotencyRecord]
    /\ conversation \in Conversation
    /\ pc \in [Calls -> Steps]
    /\ call \in [Calls -> Call]
    /\ dead \subseteq Calls

\* Whatever a sender repeats or changes under one message id, the requests
\* made for it were all made from one payload: the check of the hash and the
\* unique key of inbound_events together let no second one in.
OnePayloadPerMessage ==
    \A i, j \in DOMAIN requests :
        requests[i].event = requests[j].event
            => requests[i].payload = requests[j].payload

\* One version of a draft makes at most one service request, however many
\* confirmations of it are made, fail or are repeated at once.
OneTicketPerVersion ==
    \A v \in Versions : \A i, j \in DOMAIN requests :
        requests[i].event = DraftMessage(v) /\ requests[j].event = DraftMessage(v)
            => i = j

\* A POST with key k that ended in an error, which lets it be repeated.
Errored(k) == \E c \in Calls : call[c].key = k /\ call[c].outcome = "raised"

\* Until a POST under a key ends in an error, at most one service request is
\* made under it.
KeyedOnce ==
    \A k \in Keys : ~Errored(k) =>
        \A i, j \in DOMAIN requests :
            requests[i].key = k /\ requests[j].key = k => i = j

\* These hold of a dead call at the step where it died, too.
WorksOnEvent(c) == pc[c] \in {"begin", "run", "settle"}
WorksUnderKey(c) == pc[c] \in {"insert", "begin", "run", "settle", "record"}

\* While an event or an idempotency record bars other calls as being
\* processed, a call is at work on it or has died doing so: no order of
\* failures, retries and duplicates leaves it barred otherwise.
InFlightIsOwned ==
    /\ \A e \in EventIds : events[e].status \in {"received", "processing"} =>
          \E c \in Calls : call[c].event = e /\ WorksOnEvent(c)
    /\ \A k \in Keys : records[k].status = "processing" =>
          \E c \in Calls : call[c].key = k /\ WorksUnderKey(c)

\* Once an event names a service request it goes on naming one made for it:
\* a second run of the same message that makes none does not take it away.
NamedRequestStays ==
    [][\A e \in EventIds : events[e].request # 0 =>
          /\ events'[e].request \in DOMAIN requests
          /\ requests[events'[e].request].event = e]_vars

\* docs/reliability.md:70: confirming again spawns no second ticket.
OneTicketPerConversation ==
    \A i, j \in DOMAIN requests :
        /\ requests[i].event \in {DraftMessage(v) : v \in Versions}
        /\ requests[j].event \in {DraftMessage(v) : v \in Versions}
        => i = j
=============================================================================
