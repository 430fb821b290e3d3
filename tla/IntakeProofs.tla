---------------------------- MODULE IntakeProofs ----------------------------
(***************************************************************************)
(* What intake keeps true for any number of calls, messages and keys,       *)
(* whatever is repeated, fails or dies.                                     *)
(***************************************************************************)
EXTENDS Intake, SequenceTheorems, TLAPS

USE IntakeAssumption, DraftAssumption

Drafts == {DraftMessage(v) : v \in Versions}

\* What a call carries is what its endpoint gave it.
CallsWellFormed ==
    \A c \in Calls :
        /\ pc[c] = "idle" => call[c] = NoCall(c)
        /\ call[c].key # NoKey =>
              call[c].kind = "post" /\ pc[c] \notin {"look", "claim"}
        /\ call[c].event \in Drafts => call[c].payload = c
        /\ call[c].outcome = "raised" => pc[c] \in {"settle", "record", "done"}

\* A call that has passed the checks of its event has the event's payload,
\* and so have the requests made for it.
PayloadsAgree ==
    /\ \A c \in Calls : pc[c] \in {"claim", "begin", "run", "settle"} =>
          /\ EventOf(c).status # "none"
          /\ EventOf(c).payload = call[c].payload
    /\ \A i \in DOMAIN requests :
          /\ events[requests[i].event].status # "none"
          /\ events[requests[i].event].payload = requests[i].payload

\* A confirmation whose request exists has left its run behind.
ConfirmedOnce ==
    \A i \in DOMAIN requests : requests[i].event \in Drafts =>
        /\ requests[i].payload \in Calls
        /\ pc[requests[i].payload] \in {"settle", "record", "submit", "done"}

\* Until a POST under the key fails: its record says whether a call is under
\* way, there is only one, and it has made its request when it leaves its run.
KeyHeldOnce ==
    \A k \in Keys : ~Errored(k) =>
        /\ records[k].status # "failed"
        /\ \A c \in Calls : call[c].key = k =>
              /\ pc[c] # "claimKey"
              /\ WorksUnderKey(c) => records[k].status # "none"
              /\ \A d \in Calls :
                    call[d].key = k /\ WorksUnderKey(c) /\ WorksUnderKey(d)
                        => c = d
              /\ \A i \in DOMAIN requests :
                    requests[i].key = k => pc[c] \notin {"insert", "begin", "run"}
        /\ \A i \in DOMAIN requests :
              requests[i].key = k => records[k].status # "none"

\* The requests that calls and events name were made for their event.
NamesAreOwn ==
    /\ \A c \in Calls : call[c].made # 0 =>
          /\ call[c].made \in DOMAIN requests
          /\ requests[call[c].made].event = call[c].event
    /\ \A e \in EventIds : events[e].request # 0 =>
          /\ events[e].request \in DOMAIN requests
          /\ requests[events[e].request].event = e
          /\ events[e].status # "none"

IInv ==
    /\ TypeOK
    /\ CallsWellFormed
    /\ PayloadsAgree
    /\ ConfirmedOnce
    /\ OneTicketPerVersion
    /\ KeyHeldOnce
    /\ KeyedOnce
    /\ InFlightIsOwned
    /\ NamesAreOwn

-----------------------------------------------------------------------------
(* Types                                                                    *)

Outcomes == {"none", "completed", "failed", "duplicate", "raised"}

\* A request appended to the table.
LEMMA AppendRequest ==
  ASSUME NEW table \in Seq(Request), NEW r \in Request
  PROVE  /\ Append(table, r) \in Seq(Request)
         /\ Len(table) \in Nat
         /\ DOMAIN table = 1 .. Len(table)
         /\ DOMAIN Append(table, r) = 1 .. Len(table) + 1
         /\ \A i \in DOMAIN table : Append(table, r)[i] = table[i]
         /\ Append(table, r)[Len(table) + 1] = r
BY AppendProperties, LenProperties

\* What the record of a call is made of.
LEMMA CallParts ==
  ASSUME call \in [Calls -> Call], NEW c \in Calls
  PROVE  /\ call[c] \in Call
         /\ call[c].event \in EventIds
         /\ call[c].payload \in Bodies
         /\ call[c].key \in Keys \cup {NoKey}
         /\ call[c].made \in Nat
         /\ call[c].outcome \in Outcomes
         /\ call[c].seen \in Conversation
BY DEF Call, Outcomes

\* The updates that actions make to the record of one call.
LEMMA CallFields ==
  ASSUME NEW r \in Call
  PROVE  /\ \A e \in EventIds, p \in Bodies :
              [r EXCEPT !.kind = "deliver", !.event = e, !.payload = p] \in Call
         /\ \A k \in Keys, p \in Bodies :
              [r EXCEPT !.kind = "post", !.key = k, !.payload = p] \in Call
         /\ \A o \in Outcomes, n \in Nat :
              [r EXCEPT !.outcome = o, !.made = n] \in Call
         /\ \A o \in Outcomes : [r EXCEPT !.outcome = o] \in Call
         /\ \A k \in {"send", "cancel"}, s \in Conversation :
              [r EXCEPT !.kind = k, !.seen = s] \in Call
         /\ \A e \in EventIds, p \in Bodies, s \in Conversation :
              [r EXCEPT !.kind = "confirm", !.event = e, !.payload = p,
                        !.seen = s] \in Call
BY DEF Call, Outcomes

LEMMA CallsTyped ==
  ASSUME NEW f \in [Calls -> Call], NEW c \in Calls
  PROVE  /\ \A e \in EventIds, p \in Bodies :
              [f EXCEPT ![c].kind = "deliver", ![c].event = e, ![c].payload = p]
                \in [Calls -> Call]
         /\ \A k \in Keys, p \in Bodies :
              [f EXCEPT ![c].kind = "post", ![c].key = k, ![c].payload = p]
                \in [Calls -> Call]
         /\ \A o \in Outcomes, n \in Nat :
              [f EXCEPT ![c].outcome = o, ![c].made = n] \in [Calls -> Call]
         /\ \A o \in Outcomes :
              [f EXCEPT ![c].outcome = o] \in [Calls -> Call]
         /\ \A k \in {"send", "cancel"}, s \in Conversation :
              [f EXCEPT ![c].kind = k, ![c].seen = s] \in [Calls -> Call]
<1>1. f[c] \in Call
  OBVIOUS
<1> QED
  BY <1>1, CallFields

LEMMA ConfirmTyped ==
  ASSUME NEW f \in [Calls -> Call], NEW c \in Calls,
         NEW e \in EventIds, NEW p \in Bodies, NEW s \in Conversation
  PROVE  [f EXCEPT ![c].kind = "confirm", ![c].event = e,
                   ![c].payload = p, ![c].seen = s] \in [Calls -> Call]
<1>1. f[c] \in Call
  OBVIOUS
<1> QED
  BY <1>1, CallFields

\* The updates that actions make to a row of inbound_events.
LEMMA EventFields ==
  ASSUME NEW r \in InboundEvent,
         NEW s \in {"received", "processing", "completed", "failed"}
  PROVE  /\ [r EXCEPT !.status = s] \in InboundEvent
         /\ \A n \in Nat :
              [r EXCEPT !.status = s, !.request = n] \in InboundEvent
BY DEF InboundEvent

LEMMA EventsTyped ==
  ASSUME NEW f \in [EventIds -> InboundEvent], NEW e \in EventIds,
         NEW s \in {"received", "processing", "completed", "failed"}
  PROVE  /\ [f EXCEPT ![e].status = s] \in [EventIds -> InboundEvent]
         /\ \A n \in Nat : [f EXCEPT ![e].status = s, ![e].request = n]
                             \in [EventIds -> InboundEvent]
         /\ f[e].request \in Nat
<1>1. f[e] \in InboundEvent /\ f[e].request \in Nat
  BY DEF InboundEvent
<1> QED
  BY <1>1, EventFields

\* And to an idempotency record.
LEMMA RecordsTyped ==
  ASSUME NEW f \in [Keys -> IdempotencyRecord], NEW k,
         NEW s \in {"processing", "completed", "failed"}
  PROVE  [f EXCEPT ![k].status = s] \in [Keys -> IdempotencyRecord]
<1>1. \A r \in IdempotencyRecord : [r EXCEPT !.status = s] \in IdempotencyRecord
  BY DEF IdempotencyRecord
<1> QED
  BY <1>1

\* And to the conversation.
LEMMA ConversationTyped ==
  ASSUME NEW r \in Conversation
  PROVE  /\ \A b \in BOOLEAN, v \in Versions,
               s \in {"active", "awaiting_confirmation", "submitted", "cancelled"} :
              [r EXCEPT !.complete = b, !.version = v, !.status = s]
                \in Conversation
         /\ \A n \in Nat,
               s \in {"active", "awaiting_confirmation", "submitted", "cancelled"} :
              [r EXCEPT !.status = s, !.ticket = n] \in Conversation
         /\ \A s \in {"active", "awaiting_confirmation", "submitted", "cancelled"} :
              [r EXCEPT !.status = s] \in Conversation
BY DEF Conversation

\* Types, at the start and across every step.
LEMMA TypedInitially == Init => TypeOK
<1> SUFFICES ASSUME Init PROVE TypeOK
  OBVIOUS
<1>1. NewConversation \in Conversation
  BY DEF NewConversation, Conversation, Versions
<1>2. \A c \in Calls : NoCall(c) \in Call
  BY <1>1 DEF NoCall, Call, EventIds, Bodies
<1>3. requests \in Seq(Request)
  BY DEF Init
<1> QED
  BY <1>1, <1>2, <1>3
     DEF Init, TypeOK, InboundEvent, IdempotencyRecord, Steps

LEMMA TypedAlways == TypeOK /\ [Next]_vars => TypeOK'
<1> SUFFICES ASSUME TypeOK, Next PROVE TypeOK'
  BY DEF TypeOK, vars
<1> USE DEF Goto
<1>1. PICK c \in Calls \ dead : Crash(c) \/ (Step(c) /\ UNCHANGED dead)
  BY DEF Next
<1>2. /\ requests \in Seq(Request)
      /\ events \in [EventIds -> InboundEvent]
      /\ records \in [Keys -> IdempotencyRecord]
      /\ conversation \in Conversation
      /\ pc \in [Calls -> Steps]
      /\ call \in [Calls -> Call]
      /\ dead \subseteq Calls
  BY DEF TypeOK
<1>3. /\ c \in Calls
      /\ call[c].event \in EventIds
      /\ call[c].payload \in Bodies
      /\ call[c].made \in Nat
      /\ call[c].outcome \in Outcomes
      /\ call[c].seen \in Conversation
  BY <1>2, CallParts
<1>4. CASE Crash(c)
  BY <1>2, <1>4 DEF Crash, TypeOK
<1>5. CASE Step(c) /\ UNCHANGED dead
  <2>0. \A o, n : AfterHandle(c, o) \in Steps
    BY DEF AfterHandle, Steps
  <2>1. CASE Deliver(c)
    <3>1. PICK m \in Messages, p \in Payloads :
            call' = [call EXCEPT ![c].kind = "deliver", ![c].event = m,
                                 ![c].payload = p]
      BY <2>1 DEF Deliver
    <3>2. m \in EventIds /\ p \in Bodies
      BY DEF EventIds, Bodies
    <3>3. call' \in [Calls -> Call]
      BY <1>2, <1>3, <3>1, <3>2, CallsTyped
    <3> QED
      BY <1>2, <1>5, <2>1, <3>3 DEF Deliver, TypeOK, Steps
  <2>2. CASE Post(c)
    <3>1. PICK k \in Keys, p \in Payloads :
            call' = [call EXCEPT ![c].kind = "post", ![c].key = k,
                                 ![c].payload = p]
      BY <2>2 DEF Post
    <3>2. p \in Bodies
      BY DEF Bodies
    <3>3. call' \in [Calls -> Call]
      BY <1>2, <1>3, <3>1, <3>2, CallsTyped
    <3> QED
      BY <1>2, <1>5, <2>2, <3>3 DEF Post, TypeOK, Steps
  <2>3. CASE LookAbsent(c)
    BY <1>2, <1>5, <2>3 DEF LookAbsent, TypeOK, Steps
  <2>4. CASE LookConflict(c)
    <3>1. call' = [call EXCEPT ![c].outcome = "raised", ![c].made = 0]
      BY <2>4 DEF LookConflict, Return
    <3>2. "raised" \in Outcomes /\ 0 \in Nat
      BY DEF Outcomes
    <3>3. call' \in [Calls -> Call]
      BY <1>2, <1>3, <3>1, <3>2, CallsTyped
    <3> QED
      BY <1>2, <1>5, <2>0, <2>4, <3>3
         DEF LookConflict, TypeOK, Steps, Return
  <2>5. CASE LookCompleted(c)
    <3> DEFINE n == EventOf(c).request
    <3>1. n \in Nat
      BY <1>2, <1>3, EventsTyped DEF EventOf
    <3>2. call' = [call EXCEPT ![c].outcome = "duplicate", ![c].made = n]
      BY <2>5 DEF LookCompleted, Return
    <3> HIDE DEF n
    <3>3. call' \in [Calls -> Call]
      BY <1>2, <1>3, <3>1, <3>2, CallsTyped DEF Outcomes
    <3> QED
      BY <1>2, <1>5, <2>0, <2>5, <3>3 DEF LookCompleted, Return, TypeOK
  <2>6. CASE LookRetry(c)
    BY <1>2, <1>5, <2>6 DEF LookRetry, TypeOK, Steps
  <2>7. CASE Claim(c)
    <3>1. events' = [events EXCEPT ![call[c].event].status = "processing"]
      BY <2>7 DEF Claim
    <3>2. events' \in [EventIds -> InboundEvent]
      BY <1>2, <1>3, <3>1, EventsTyped
    <3> QED
      BY <1>2, <1>5, <2>7, <3>2 DEF Claim, TypeOK, Steps
  <2>8. CASE InsertReceived(c)
    <3>1. events' \in [EventIds -> InboundEvent]
      BY <2>8, <1>2, <1>3 DEF InsertReceived, InboundEvent
    <3> QED
      BY <1>2, <1>3, <1>5, <2>0, <2>8, <3>1 DEF InsertReceived, TypeOK, Steps
  <2>9. CASE InsertRefused(c)
    <3> "raised" \in Outcomes /\ 0 \in Nat
      BY DEF Outcomes
    <3>0. call' = [call EXCEPT ![c].outcome = "raised", ![c].made = 0]
      BY <2>9 DEF InsertRefused, Return
    <3>1. call' \in [Calls -> Call]
      BY <3>0, <1>2, <1>3, CallsTyped
    <3> QED
      BY <1>2, <1>3, <1>5, <2>0, <2>9, <3>1
         DEF InsertRefused, TypeOK, Steps, Return
  <2>10. CASE MarkProcessing(c)
    <3>1. events' = [events EXCEPT ![call[c].event].status = "processing"]
      BY <2>10 DEF MarkProcessing
    <3>2. events' \in [EventIds -> InboundEvent]
      BY <1>2, <1>3, <3>1, EventsTyped
    <3> QED
      BY <1>2, <1>5, <2>10, <3>2 DEF MarkProcessing, TypeOK, Steps
  <2>11. CASE RunWorkflow(c)
    <3> DEFINE new == [event |-> call[c].event, payload |-> call[c].payload,
                       key |-> call[c].key]
    <3>1. PICK outcome \in {"completed", "failed", "raised"},
               persists \in BOOLEAN :
            /\ requests' = IF persists THEN Append(requests, new) ELSE requests
            /\ call' = [call EXCEPT ![c].outcome = outcome,
                        ![c].made = IF persists /\ outcome = "completed"
                                    THEN Len(requests) + 1 ELSE 0]
      BY <2>11 DEF RunWorkflow
    <3>2. new \in Request
      BY <1>2, <1>3, CallParts DEF Request
    <3>3. requests' \in Seq(Request) /\ Len(requests) + 1 \in Nat
      BY <1>2, <3>1, <3>2, AppendRequest, LenProperties
    <3>4. call' \in [Calls -> Call]
      <4> DEFINE n == IF persists /\ outcome = "completed"
                      THEN Len(requests) + 1 ELSE 0
      <4>1. n \in Nat /\ outcome \in Outcomes
        BY <3>3 DEF Outcomes
      <4>2. call' = [call EXCEPT ![c].outcome = outcome, ![c].made = n]
        BY <3>1
      <4> HIDE DEF n
      <4> QED
        BY <1>2, <1>3, <4>1, <4>2, CallsTyped
    <3> QED
      BY <1>2, <1>5, <2>11, <3>3, <3>4 DEF RunWorkflow, TypeOK, Steps
  <2>12. CASE Settle(c)
    <3> DEFINE e == call[c].event
               s == IF call[c].outcome = "completed" THEN "completed"
                                                     ELSE "failed"
               n == IF call[c].outcome = "completed" /\ call[c].made # 0
                    THEN call[c].made ELSE events[e].request
    <3>2. /\ n \in Nat
          /\ s \in {"received", "processing", "completed", "failed"}
      BY <1>2, <1>3, EventsTyped
    <3>3. events' = [events EXCEPT ![e].status = s, ![e].request = n]
      <4>1. events[e] \in InboundEvent
        BY <1>2, <1>3
      <4>2. [events[e] EXCEPT !.status = s].request = events[e].request
        BY <4>1 DEF InboundEvent
      <4> QED
        BY <1>2, <1>3, <2>12, <4>2 DEF Settle
    <3> HIDE DEF e, s, n
    <3>4. e \in EventIds
      BY <1>3 DEF e
    <3>1. events' \in [EventIds -> InboundEvent]
      BY <1>2, <3>2, <3>3, <3>4, EventsTyped
    <3>5. pc' \in [Calls -> Steps]
      BY <1>2, <1>5, <2>0, <2>12 DEF Settle
    <3> QED
      BY <1>2, <1>5, <2>12, <3>1, <3>5 DEF Settle, TypeOK
  <2>13. CASE SettleFails(c)
    <3>1. call' = [call EXCEPT ![c].outcome = "raised", ![c].made = 0]
      BY <2>13 DEF SettleFails
    <3>2. "raised" \in Outcomes /\ 0 \in Nat
      BY DEF Outcomes
    <3>3. call' \in [Calls -> Call]
      BY <1>2, <1>3, <3>1, <3>2, CallsTyped
    <3> QED
      BY <1>2, <1>5, <2>13, <3>3 DEF SettleFails, TypeOK
  <2>14. CASE LookKeyAbsent(c)
    BY <1>2, <1>5, <2>14 DEF LookKeyAbsent, TypeOK, Steps
  <2>15. CASE LookKeyAnswered(c)
    BY <1>2, <1>5, <2>15 DEF LookKeyAnswered, TypeOK, Steps
  <2>16. CASE LookKeyRetry(c)
    BY <1>2, <1>5, <2>16 DEF LookKeyRetry, TypeOK, Steps
  <2>17. CASE ClaimKey(c)
    <3>1. records' \in [Keys -> IdempotencyRecord]
      BY <2>17, <1>2, RecordsTyped DEF ClaimKey
    <3> QED
      BY <1>2, <1>3, <1>5, <2>0, <2>17, <3>1 DEF ClaimKey, TypeOK, Steps
  <2>18. CASE InsertKey(c)
    <3>1. records' \in [Keys -> IdempotencyRecord]
      BY <2>18, <1>2, <1>3 DEF InsertKey, IdempotencyRecord
    <3> QED
      BY <1>2, <1>3, <1>5, <2>0, <2>18, <3>1 DEF InsertKey, TypeOK, Steps
  <2>19. CASE InsertKeyRefused(c)
    BY <1>2, <1>5, <2>19 DEF InsertKeyRefused, TypeOK, Steps
  <2>20. CASE RecordAnswer(c)
    <3>1. records' \in [Keys -> IdempotencyRecord]
      BY <2>20, <1>2, RecordsTyped DEF RecordAnswer
    <3> QED
      BY <1>2, <1>3, <1>5, <2>0, <2>20, <3>1 DEF RecordAnswer, TypeOK, Steps
  <2>21. CASE RecordFails(c)
    <3>1. call' = [call EXCEPT ![c].outcome = "raised"]
      BY <2>21 DEF RecordFails
    <3>2. "raised" \in Outcomes
      BY DEF Outcomes
    <3>3. call' \in [Calls -> Call]
      BY <1>2, <1>3, <3>1, <3>2, CallsTyped
    <3> QED
      BY <1>2, <1>5, <2>21, <3>3 DEF RecordFails, TypeOK
  <2>22. CASE SendLook(c)
    <3>1. call' = [call EXCEPT ![c].kind = "send", ![c].seen = conversation]
      BY <2>22 DEF SendLook
    <3>2. call' \in [Calls -> Call]
      BY <1>2, <1>3, <3>1, CallsTyped
    <3> QED
      BY <1>2, <1>5, <2>22, <3>2 DEF SendLook, TypeOK, Steps
  <2>23. CASE SendCommit(c)
    <3> DEFINE seen == call[c].seen
    <3>1. PICK complete \in BOOLEAN, same \in BOOLEAN :
            conversation' =
                [conversation EXCEPT
                   !.complete = IF same THEN @ ELSE complete,
                   !.version = seen.version + 1,
                   !.status = Written(IF complete THEN "awaiting_confirmation"
                                                  ELSE "active", seen.status, @)]
      BY <2>23 DEF SendCommit
    <3>2. /\ seen.version + 1 \in Versions
          /\ seen.status \in {"active", "awaiting_confirmation",
                              "submitted", "cancelled"}
          /\ conversation.status \in {"active", "awaiting_confirmation",
                                      "submitted", "cancelled"}
      BY <1>2, <1>3, <2>23 DEF SendCommit, Conversation, Versions
    <3>3. (IF same THEN conversation.complete ELSE complete) \in BOOLEAN
      BY <1>2 DEF Conversation
    <3>4. conversation' \in Conversation
      BY <1>2, <3>1, <3>2, <3>3, ConversationTyped DEF Written
    <3> QED
      BY <1>2, <1>5, <2>23, <3>4 DEF SendCommit, TypeOK, Steps
  <2>24. CASE ConfirmLook(c)
    <3>1. conversation.version \in Versions
      BY <2>24, <1>2 DEF Conversation
    <3>2. DraftMessage(conversation.version) \in EventIds /\ c \in Bodies
      BY <2>24, <1>3, <3>1 DEF EventIds, Bodies
    <3> DEFINE e == DraftMessage(conversation.version)
    <3>3. call' = [call EXCEPT ![c].kind = "confirm", ![c].event = e,
                               ![c].payload = c, ![c].seen = conversation]
      BY <2>24 DEF ConfirmLook
    <3> HIDE DEF e
    <3>4. e \in EventIds /\ c \in Bodies /\ conversation \in Conversation
      BY <1>2, <3>2 DEF e
    <3>5. call' \in [Calls -> Call]
      BY <1>2, <1>3, <3>3, <3>4, ConfirmTyped
    <3>6. pc' \in [Calls -> Steps]
      BY <1>2, <1>5, <2>24 DEF ConfirmLook, Steps
    <3> QED
      BY <1>2, <1>5, <2>24, <3>5, <3>6 DEF ConfirmLook, TypeOK
  <2>25. CASE ConfirmCommit(c)
    <3>1. /\ Len(requests) \in Nat
          /\ conversation.ticket \in Nat
          /\ conversation.status \in {"active", "awaiting_confirmation",
                                      "submitted", "cancelled"}
      BY <1>2, LenProperties DEF Conversation
    <3>2. conversation' \in Conversation
      BY <1>2, <1>3, <2>25, <3>1, ConversationTyped DEF ConfirmCommit, Written
    <3> QED
      BY <1>2, <1>5, <2>25, <3>2 DEF ConfirmCommit, TypeOK, Steps
  <2>26. CASE CancelLook(c)
    <3>1. call' = [call EXCEPT ![c].kind = "cancel", ![c].seen = conversation]
      BY <2>26 DEF CancelLook
    <3>2. call' \in [Calls -> Call]
      BY <1>2, <1>3, <3>1, CallsTyped
    <3> QED
      BY <1>2, <1>5, <2>26, <3>2 DEF CancelLook, TypeOK, Steps
  <2>27. CASE CancelCommit(c)
    <3>1. conversation' \in Conversation
      BY <2>27, <1>2, <1>3, ConversationTyped
         DEF CancelCommit, Written, Conversation
    <3> QED
      BY <1>2, <1>3, <1>5, <2>0, <2>27, <3>1 DEF CancelCommit, TypeOK, Steps
  <2> QED
    BY <1>5, <2>1, <2>2, <2>3, <2>4, <2>5, <2>6, <2>7, <2>8, <2>9, <2>10, <2>11,
       <2>12, <2>13, <2>14, <2>15, <2>16, <2>17, <2>18, <2>19, <2>20, <2>21,
       <2>22, <2>23, <2>24, <2>25, <2>26, <2>27
       DEF Step, Handle, Keyed, Converse
<1> QED
  BY <1>1, <1>4, <1>5

\* Type correctness: every transaction of every call leaves rows of the
\* tables and records of the calls in their domains.
THEOREM TypeCorrect == Spec => []TypeOK
<1> QED
  BY TypedInitially, TypedAlways, PTL DEF Spec

-----------------------------------------------------------------------------
(* Safety                                                                   *)

\* What types say of the rows, as the lemmas on the steps use it.
LEMMA Rows ==
  ASSUME TypeOK
  PROVE  /\ pc \in [Calls -> Steps]
         /\ call \in [Calls -> Call]
         /\ events \in [EventIds -> InboundEvent]
         /\ records \in [Keys -> IdempotencyRecord]
         /\ \A d \in Calls : call[d] \in Call /\ call[d].event \in EventIds
         /\ 0 \notin DOMAIN requests
         /\ \A i \in DOMAIN requests : requests[i].event \in EventIds
<1>1. requests \in Seq(Request) /\ call \in [Calls -> Call]
  BY DEF TypeOK
<1>2. DOMAIN requests = 1 .. Len(requests) /\ Len(requests) \in Nat
  BY <1>1, LenProperties
<1>3. \A i \in DOMAIN requests : requests[i] \in Request
  BY <1>1, <1>2
<1> QED
  BY <1>1, <1>2, <1>3, CallParts DEF TypeOK, Request

\* What the answer of handle changes in a call's record.
LEMMA AnswerSet ==
  ASSUME NEW f \in [Calls -> Call], NEW c \in Calls, NEW o, NEW n, NEW g,
         g = [f EXCEPT ![c].outcome = o, ![c].made = n]
  PROVE  /\ g[c].outcome = o /\ g[c].made = n
         /\ g[c].event = f[c].event /\ g[c].payload = f[c].payload
         /\ g[c].key = f[c].key /\ g[c].kind = f[c].kind
         /\ \A d \in Calls \ {c} : g[d] = f[d]
<1>1. \A r \in Call :
        LET t == [[r EXCEPT !.outcome = o] EXCEPT !.made = n]
        IN  /\ t.outcome = o /\ t.made = n
            /\ t.event = r.event /\ t.payload = r.payload
            /\ t.key = r.key /\ t.kind = r.kind
  BY DEF Call
<1>2. /\ f[c] \in Call
      /\ g[c] = [[f[c] EXCEPT !.outcome = o] EXCEPT !.made = n]
      /\ \A d \in Calls \ {c} : g[d] = f[d]
  OBVIOUS
<1> QED
  BY <1>1, <1>2

\* What the end of a run does to the row of its event.
LEMMA EventSet ==
  ASSUME NEW f \in [EventIds -> InboundEvent], NEW e \in EventIds,
         NEW s, NEW n, NEW g, g = [f EXCEPT ![e].status = s, ![e].request = n]
  PROVE  /\ g[e].status = s /\ g[e].request = n
         /\ g[e].payload = f[e].payload
         /\ \A d \in EventIds \ {e} : g[d] = f[d]
<1>1. \A r \in InboundEvent :
        LET t == [[r EXCEPT !.status = s] EXCEPT !.request = n]
        IN  t.status = s /\ t.request = n /\ t.payload = r.payload
  BY DEF InboundEvent
<1>2. /\ f[e] \in InboundEvent
      /\ g[e] = [[f[e] EXCEPT !.status = s] EXCEPT !.request = n]
      /\ \A d \in EventIds \ {e} : g[d] = f[d]
  OBVIOUS
<1> QED
  BY <1>1, <1>2

Arrives(c) ==
    Deliver(c) \/ Post(c) \/ SendLook(c) \/ ConfirmLook(c) \/ CancelLook(c)

\* A call that arrives has read and made nothing, and touches no table.
LEMMA Arrival ==
  ASSUME TypeOK, CallsWellFormed, NEW c \in Calls, Arrives(c)
  PROVE  /\ UNCHANGED <<requests, events, records>>
         /\ \A d \in Calls \ {c} : call'[d] = call[d] /\ pc'[d] = pc[d]
         /\ pc[c] = "idle" /\ call[c].key = NoKey
         /\ call[c].outcome = "none" /\ call[c].event = c
         /\ pc'[c] \in {"look", "lookKey", "reply", "withdraw"}
         /\ call'[c].made = 0 /\ call'[c].outcome = "none"
         /\ call'[c].key # NoKey =>
               call'[c].kind = "post" /\ pc'[c] = "lookKey"
         /\ call'[c].event \in Drafts => call'[c].payload = c
<1> USE DEF Goto
<1>1. /\ pc \in [Calls -> Steps]
      /\ call \in [Calls -> Call]
      /\ call[c] \in Call
  BY CallParts DEF TypeOK
<1>2. /\ pc[c] = "idle"
      /\ UNCHANGED <<requests, events, records>>
      /\ \A d \in Calls \ {c} : call'[d] = call[d] /\ pc'[d] = pc[d]
      /\ pc'[c] \in {"look", "lookKey", "reply", "withdraw"}
  <2>1. CASE Deliver(c)
    BY <1>1, <2>1 DEF Deliver
  <2>2. CASE Post(c)
    BY <1>1, <2>2 DEF Post
  <2>3. CASE SendLook(c)
    BY <1>1, <2>3 DEF SendLook
  <2>4. CASE ConfirmLook(c)
    BY <1>1, <2>4 DEF ConfirmLook
  <2>5. CASE CancelLook(c)
    BY <1>1, <2>5 DEF CancelLook
  <2> QED
    BY <2>1, <2>2, <2>3, <2>4, <2>5 DEF Arrives
<1>3. /\ call[c] = NoCall(c) /\ call[c].key = NoKey /\ call[c].event = c
      /\ call[c].outcome = "none" /\ call[c].made = 0 /\ call[c].kind = "none"
  BY <1>2 DEF CallsWellFormed, NoCall
<1>4. c \notin Drafts /\ \A m \in Messages : m \notin Drafts
  BY DEF Drafts
<1>5. /\ call'[c].made = 0 /\ call'[c].outcome = "none"
      /\ call'[c].key # NoKey =>
            call'[c].kind = "post" /\ pc'[c] = "lookKey"
      /\ call'[c].event \in Drafts => call'[c].payload = c
  <2>1. CASE Deliver(c)
    <3>1. PICK m \in Messages, p \in Payloads :
            call' = [call EXCEPT ![c].kind = "deliver", ![c].event = m,
                                 ![c].payload = p]
      BY <2>1 DEF Deliver
    <3>2. /\ call'[c].event = m /\ call'[c].key = call[c].key
          /\ call'[c].outcome = call[c].outcome
          /\ call'[c].made = call[c].made
      <4>1. call'[c] = [call[c] EXCEPT !.kind = "deliver", !.event = m,
                                       !.payload = p]
        BY <1>1, <3>1
      <4> QED
        BY <1>1, <4>1 DEF Call
    <3> QED
      BY <1>3, <1>4, <3>2
  <2>2. CASE Post(c)
    <3>1. PICK k \in Keys, p \in Payloads :
            call' = [call EXCEPT ![c].kind = "post", ![c].key = k,
                                 ![c].payload = p]
      BY <2>2 DEF Post
    <3>2. /\ call'[c].event = call[c].event /\ call'[c].kind = "post"
          /\ call'[c].outcome = call[c].outcome
          /\ call'[c].made = call[c].made
      <4>1. call'[c] = [call[c] EXCEPT !.kind = "post", !.key = k,
                                       !.payload = p]
        BY <1>1, <3>1
      <4> QED
        BY <1>1, <4>1 DEF Call
    <3>3. pc'[c] = "lookKey"
      BY <1>1, <2>2 DEF Post
    <3> QED
      BY <1>3, <1>4, <3>2, <3>3
  <2>3. CASE SendLook(c)
    BY <1>1, <1>3, <1>4, <2>3 DEF SendLook, Call
  <2>4. CASE ConfirmLook(c)
    <3>1. call' = [call EXCEPT ![c].kind = "confirm",
                            ![c].event = DraftMessage(conversation.version),
                            ![c].payload = c, ![c].seen = conversation]
      BY <2>4 DEF ConfirmLook
    <3>2. /\ call'[c].payload = c /\ call'[c].key = NoKey
          /\ call'[c].outcome = "none" /\ call'[c].made = 0
      BY <1>1, <1>3, <3>1 DEF Call
    <3> QED
      BY <3>2
  <2>5. CASE CancelLook(c)
    BY <1>1, <1>3, <1>4, <2>5 DEF CancelLook, Call
  <2> QED
    BY <2>1, <2>2, <2>3, <2>4, <2>5 DEF Arrives
<1> QED
  BY <1>2, <1>3, <1>5

\* A run of the workflow adds request number n for its event.
Adds(c, n) ==
    /\ n \notin DOMAIN requests
    /\ DOMAIN requests' = DOMAIN requests \cup {n}
    /\ \A i \in DOMAIN requests : requests'[i] = requests[i]
    /\ requests'[n].event = call[c].event
    /\ requests'[n].payload = call[c].payload
    /\ requests'[n].key = call[c].key
    /\ call'[c].made \in {0, n}

\* A run ends at the step that settles it, with a request or without.
LEMMA Run ==
  ASSUME TypeOK, NEW c \in Calls, RunWorkflow(c)
  PROVE  /\ pc[c] = "run" /\ pc'[c] = "settle"
         /\ UNCHANGED <<events, records>>
         /\ \A d \in Calls \ {c} : call'[d] = call[d] /\ pc'[d] = pc[d]
         /\ call'[c].event = call[c].event /\ call'[c].key = call[c].key
         /\ call'[c].kind = call[c].kind /\ call'[c].payload = call[c].payload
         /\ \/ UNCHANGED requests /\ call'[c].made = 0
            \/ \E n : Adds(c, n)
<1>1. /\ requests \in Seq(Request) /\ pc \in [Calls -> Steps]
      /\ call \in [Calls -> Call] /\ call[c] \in Call
      /\ pc[c] = "run" /\ pc' = [pc EXCEPT ![c] = "settle"]
      /\ UNCHANGED <<events, records>>
  BY CallParts DEF TypeOK, RunWorkflow, Goto
<1> DEFINE new == [event |-> call[c].event, payload |-> call[c].payload,
                   key |-> call[c].key]
<1>2. new \in Request
  BY <1>1, CallParts DEF Request
<1>3. PICK outcome \in {"completed", "failed", "raised"}, persists \in BOOLEAN :
        /\ requests' = IF persists THEN Append(requests, new) ELSE requests
        /\ call' = [call EXCEPT ![c].outcome = outcome,
                    ![c].made = IF persists /\ outcome = "completed"
                                THEN Len(requests) + 1 ELSE 0]
  BY DEF RunWorkflow
<1>4. /\ Len(requests) \in Nat /\ DOMAIN requests = 1 .. Len(requests)
  BY <1>1, LenProperties
<1> DEFINE n == IF persists /\ outcome = "completed" THEN Len(requests) + 1 ELSE 0
<1>5. call' = [call EXCEPT ![c].outcome = outcome, ![c].made = n]
  BY <1>3
<1>6. /\ n \in {0, Len(requests) + 1}
      /\ ~persists => n = 0
  OBVIOUS
<1> HIDE DEF n
<1>7. /\ \A d \in Calls \ {c} : call'[d] = call[d]
      /\ call'[c].event = call[c].event /\ call'[c].key = call[c].key
      /\ call'[c].kind = call[c].kind /\ call'[c].payload = call[c].payload
      /\ call'[c].made = n
  BY <1>1, <1>5, AnswerSet
<1> HIDE DEF new
<1>8. CASE persists
  <2>1. requests' = Append(requests, new)
    BY <1>3, <1>8
  <2>2. /\ DOMAIN requests' = 1 .. Len(requests) + 1
        /\ \A i \in DOMAIN requests : requests'[i] = requests[i]
        /\ requests'[Len(requests) + 1] = new
    BY <1>1, <1>2, <2>1, AppendRequest
  <2>3. /\ Len(requests) + 1 \notin DOMAIN requests
        /\ DOMAIN requests' = DOMAIN requests \cup {Len(requests) + 1}
    BY <1>4, <2>2
  <2>4. new.event = call[c].event /\ new.payload = call[c].payload
        /\ new.key = call[c].key
    BY DEF new
  <2>5. Adds(c, Len(requests) + 1)
    BY <1>6, <1>7, <2>2, <2>3, <2>4 DEF Adds
  <2> QED
    BY <1>1, <1>7, <2>5
<1>9. CASE ~persists
  <2>1. requests' = requests
    BY <1>3, <1>9
  <2> QED
    BY <1>1, <1>4, <1>6, <1>7, <1>9, <2>1
<1> QED
  BY <1>8, <1>9

Returns(c) == LookConflict(c) \/ LookCompleted(c) \/ InsertRefused(c)

\* What a call takes with it when handle returns or raises before a run.
LEMMA Returned ==
  ASSUME TypeOK, CallsWellFormed, NEW c \in Calls, Returns(c)
  PROVE  /\ UNCHANGED <<requests, events, records>>
         /\ \A d \in Calls \ {c} : call'[d] = call[d] /\ pc'[d] = pc[d]
         /\ call'[c].event = call[c].event /\ call'[c].key = call[c].key
         /\ call'[c].kind = call[c].kind /\ call'[c].payload = call[c].payload
         /\ call'[c].made \in {0, EventOf(c).request}
         /\ call'[c].outcome \in {"raised", "duplicate"}
         /\ \/ pc[c] = "insert" /\ call'[c].outcome = "raised"
            \/ pc[c] = "look" /\ call[c].key = NoKey
         /\ pc'[c] \in {"record", "submit", "done"}
         /\ pc'[c] = "submit" => call'[c].outcome # "raised"
         /\ call[c].key # NoKey => pc'[c] = "record"
<1>1. PICK o \in {"raised", "duplicate"}, n \in {0, EventOf(c).request} :
        /\ Return(c, o, n)
        /\ UNCHANGED <<requests, events, records>>
        /\ \/ pc[c] = "insert" /\ o = "raised"
           \/ pc[c] = "look"
  BY DEF Returns, LookConflict, LookCompleted, InsertRefused
<1>2. /\ call \in [Calls -> Call] /\ pc \in [Calls -> Steps]
  BY DEF TypeOK
<1>3. call' = [call EXCEPT ![c].outcome = o, ![c].made = n]
  BY <1>1 DEF Return
<1>4. /\ call'[c].outcome = o /\ call'[c].made = n
      /\ call'[c].event = call[c].event /\ call'[c].payload = call[c].payload
      /\ call'[c].key = call[c].key /\ call'[c].kind = call[c].kind
      /\ \A d \in Calls \ {c} : call'[d] = call[d]
  BY <1>2, <1>3, AnswerSet
<1>5. pc' = [pc EXCEPT ![c] = AfterHandle(c, o)]
  BY <1>1 DEF Return, Goto
<1>6. /\ AfterHandle(c, o) \in {"record", "submit", "done"}
      /\ AfterHandle(c, o) = "submit" => o # "raised"
      /\ call[c].kind = "post" => AfterHandle(c, o) = "record"
  BY DEF AfterHandle
<1>7. /\ call[c].key # NoKey => call[c].kind = "post"
      /\ pc[c] = "look" => call[c].key = NoKey
  BY DEF CallsWellFormed
<1> QED
  BY <1>1, <1>2, <1>4, <1>5, <1>6, <1>7

\* How a run that has ended leaves its event and its call.
LEMMA Settled ==
  ASSUME TypeOK, CallsWellFormed, NEW c \in Calls, Settle(c),
         NEW e, e = call[c].event
  PROVE  /\ UNCHANGED <<requests, records, call>>
         /\ e \in EventIds
         /\ \A x \in EventIds \ {e} : events'[x] = events[x]
         /\ events'[e].status \in {"completed", "failed"}
         /\ events'[e].payload = events[e].payload
         /\ events'[e].request \in {events[e].request, call[c].made}
         /\ events[e].request # 0 => events'[e].request # 0
         /\ pc[c] = "settle"
         /\ \A d \in Calls \ {c} : pc'[d] = pc[d]
         /\ pc'[c] \in {"record", "submit", "done"}
         /\ pc'[c] = "submit" => call[c].outcome # "raised"
         /\ call[c].key # NoKey => pc'[c] = "record"
<1>1. /\ call \in [Calls -> Call] /\ pc \in [Calls -> Steps]
      /\ events \in [EventIds -> InboundEvent] /\ e \in EventIds
      /\ events[e] \in InboundEvent
  BY CallParts DEF TypeOK
<1> DEFINE s == IF call[c].outcome = "completed" THEN "completed" ELSE "failed"
           n == IF call[c].outcome = "completed" /\ call[c].made # 0
                THEN call[c].made ELSE events[e].request
<1>2. /\ s \in {"completed", "failed"}
      /\ n \in {events[e].request, call[c].made}
      /\ events[e].request # 0 => n # 0
  OBVIOUS
<1>3. events' = [events EXCEPT ![e].status = s, ![e].request = n]
  <2>1. [events[e] EXCEPT !.status = s].request = events[e].request
    BY <1>1 DEF InboundEvent
  <2> QED
    BY <1>1, <2>1 DEF Settle
<1> HIDE DEF s, n
<1>4. /\ events'[e].status = s /\ events'[e].request = n
      /\ events'[e].payload = events[e].payload
      /\ \A x \in EventIds \ {e} : events'[x] = events[x]
  BY <1>1, <1>3, EventSet
<1>5. /\ pc' = [pc EXCEPT ![c] = AfterHandle(c, call[c].outcome)]
      /\ pc[c] = "settle" /\ UNCHANGED <<requests, records, call>>
  BY DEF Settle, Goto
<1>6. /\ AfterHandle(c, call[c].outcome) \in {"record", "submit", "done"}
      /\ AfterHandle(c, call[c].outcome) = "submit" => call[c].outcome # "raised"
      /\ call[c].kind = "post" => AfterHandle(c, call[c].outcome) = "record"
  BY DEF AfterHandle
<1>7. call[c].key # NoKey => call[c].kind = "post"
  BY DEF CallsWellFormed
<1> QED
  BY <1>1, <1>2, <1>4, <1>5, <1>6, <1>7

\* What calls carry stays what their endpoints gave them.
LEMMA WellFormedStep ==
  ASSUME TypeOK, CallsWellFormed,
         NEW c \in Calls, Step(c)
  PROVE  CallsWellFormed'
<1> USE DEF CallsWellFormed
<1>0. /\ pc \in [Calls -> Steps]
      /\ call \in [Calls -> Call]
      /\ events \in [EventIds -> InboundEvent]
      /\ records \in [Keys -> IdempotencyRecord]
      /\ \A d \in Calls : call[d] \in Call /\ call[d].event \in EventIds
      /\ \A i \in DOMAIN requests : requests[i].event \in EventIds
  BY Rows
<1>1. CASE Arrives(c)
  BY <1>0, <1>1, Arrival, CallParts
<1>2. CASE Returns(c)
  BY <1>0, <1>2, Returned
<1>3. CASE LookAbsent(c)
  BY <1>0, <1>3, CallParts DEF LookAbsent, Goto
<1>4. CASE LookRetry(c)
  BY <1>0, <1>4, CallParts DEF LookRetry, Goto
<1>5. CASE Claim(c)
  BY <1>0, <1>5, CallParts DEF Claim, Goto
<1>6. CASE InsertReceived(c)
  BY <1>0, <1>6, CallParts DEF InsertReceived, Goto
<1>7. CASE MarkProcessing(c)
  BY <1>0, <1>7, CallParts DEF MarkProcessing, Goto
<1>8. CASE RunWorkflow(c)
  BY <1>0, <1>8, Run
<1>9. CASE Settle(c)
  BY <1>0, <1>9, Settled
<1>10. CASE SettleFails(c)
  BY <1>0, <1>10, CallParts DEF SettleFails, Goto
<1>11. CASE LookKeyAbsent(c)
  BY <1>0, <1>11, CallParts DEF LookKeyAbsent, Goto
<1>12. CASE LookKeyAnswered(c)
  BY <1>0, <1>12, CallParts DEF LookKeyAnswered, Goto
<1>13. CASE LookKeyRetry(c)
  BY <1>0, <1>13, CallParts DEF LookKeyRetry, Goto
<1>14. CASE ClaimKey(c)
  BY <1>0, <1>14, CallParts DEF ClaimKey, Goto
<1>15. CASE InsertKey(c)
  BY <1>0, <1>15, CallParts DEF InsertKey, Goto
<1>16. CASE InsertKeyRefused(c)
  BY <1>0, <1>16, CallParts DEF InsertKeyRefused, Goto
<1>17. CASE RecordAnswer(c)
  BY <1>0, <1>17, CallParts DEF RecordAnswer, Goto
<1>18. CASE RecordFails(c)
  BY <1>0, <1>18, CallParts DEF RecordFails, Goto
<1>19. CASE SendCommit(c)
  BY <1>0, <1>19, CallParts DEF SendCommit, Goto
<1>20. CASE ConfirmCommit(c)
  BY <1>0, <1>20, CallParts DEF ConfirmCommit, Goto
<1>21. CASE CancelCommit(c)
  BY <1>0, <1>21, CallParts DEF CancelCommit, Goto
<1> QED
  BY <1>1, <1>2, <1>3, <1>4, <1>5, <1>6, <1>7, <1>8, <1>9, <1>10, <1>11, <1>12,
     <1>13, <1>14, <1>15, <1>16, <1>17, <1>18, <1>19, <1>20, <1>21
     DEF Step, Handle, Keyed, Converse, Arrives, Returns

\* The check of the payload hash lets no second payload past an event.
LEMMA PayloadsStep ==
  ASSUME TypeOK, CallsWellFormed, PayloadsAgree,
         NEW c \in Calls, Step(c)
  PROVE  PayloadsAgree'
<1> USE DEF PayloadsAgree, EventOf
<1>0. /\ pc \in [Calls -> Steps]
      /\ call \in [Calls -> Call]
      /\ events \in [EventIds -> InboundEvent]
      /\ records \in [Keys -> IdempotencyRecord]
      /\ \A d \in Calls : call[d] \in Call /\ call[d].event \in EventIds
      /\ \A i \in DOMAIN requests : requests[i].event \in EventIds
  BY Rows
<1>1. CASE Arrives(c)
  BY <1>0, <1>1, Arrival
<1>2. CASE Returns(c)
  BY <1>0, <1>2, Returned
<1>3. CASE LookAbsent(c)
  BY <1>0, <1>3 DEF LookAbsent, Goto
<1>4. CASE LookRetry(c)
  BY <1>0, <1>4 DEF LookRetry, Goto
<1>5. CASE Claim(c)
  BY <1>0, <1>5 DEF Claim, Goto
<1>6. CASE InsertReceived(c)
  BY <1>0, <1>6 DEF InsertReceived, Goto
<1>7. CASE MarkProcessing(c)
  BY <1>0, <1>7 DEF MarkProcessing, Goto
<1>8. CASE RunWorkflow(c)
  <2>1. CASE UNCHANGED requests /\ call'[c].made = 0
    BY <1>0, <1>8, <2>1, Run
  <2>2. CASE \E n : Adds(c, n)
    <3>1. PICK n : Adds(c, n)
      BY <2>2
    <3> QED
      BY <1>0, <1>8, <3>1, Run DEF Adds
  <2> QED
    BY <1>8, <2>1, <2>2, Run
<1>9. CASE Settle(c)
  BY <1>0, <1>9, Settled
<1>10. CASE SettleFails(c)
  BY <1>0, <1>10 DEF SettleFails, Goto
<1>11. CASE LookKeyAbsent(c)
  BY <1>0, <1>11 DEF LookKeyAbsent, Goto
<1>12. CASE LookKeyAnswered(c)
  BY <1>0, <1>12 DEF LookKeyAnswered, Goto
<1>13. CASE LookKeyRetry(c)
  BY <1>0, <1>13 DEF LookKeyRetry, Goto
<1>14. CASE ClaimKey(c)
  BY <1>0, <1>14 DEF ClaimKey, Goto
<1>15. CASE InsertKey(c)
  BY <1>0, <1>15 DEF InsertKey, Goto
<1>16. CASE InsertKeyRefused(c)
  BY <1>0, <1>16 DEF InsertKeyRefused, Goto
<1>17. CASE RecordAnswer(c)
  BY <1>0, <1>17 DEF RecordAnswer, Goto
<1>18. CASE RecordFails(c)
  BY <1>0, <1>18 DEF RecordFails, Goto
<1>19. CASE SendCommit(c)
  BY <1>0, <1>19 DEF SendCommit, Goto
<1>20. CASE ConfirmCommit(c)
  BY <1>0, <1>20 DEF ConfirmCommit, Goto
<1>21. CASE CancelCommit(c)
  BY <1>0, <1>21 DEF CancelCommit, Goto
<1> QED
  BY <1>1, <1>2, <1>3, <1>4, <1>5, <1>6, <1>7, <1>8, <1>9, <1>10, <1>11, <1>12,
     <1>13, <1>14, <1>15, <1>16, <1>17, <1>18, <1>19, <1>20, <1>21
     DEF Step, Handle, Keyed, Converse, Arrives, Returns

\* Every event and key that a step bars has a call at work on it.
LEMMA InFlightStep ==
  ASSUME TypeOK, CallsWellFormed, InFlightIsOwned,
         NEW c \in Calls, Step(c)
  PROVE  InFlightIsOwned'
<1> USE DEF InFlightIsOwned, WorksOnEvent, WorksUnderKey, EventOf
<1>0. /\ pc \in [Calls -> Steps]
      /\ call \in [Calls -> Call]
      /\ events \in [EventIds -> InboundEvent]
      /\ records \in [Keys -> IdempotencyRecord]
      /\ \A d \in Calls : call[d] \in Call /\ call[d].event \in EventIds
      /\ \A i \in DOMAIN requests : requests[i].event \in EventIds
  BY Rows
<1>1. CASE Arrives(c)
  BY <1>0, <1>1, Arrival
<1>2. CASE Returns(c)
  BY <1>0, <1>2, Returned
<1>3. CASE LookAbsent(c)
  BY <1>0, <1>3 DEF LookAbsent, Goto
<1>4. CASE LookRetry(c)
  BY <1>0, <1>4 DEF LookRetry, Goto
<1>5. CASE Claim(c)
  BY <1>0, <1>5 DEF Claim, Goto
<1>6. CASE InsertReceived(c)
  BY <1>0, <1>6 DEF InsertReceived, Goto
<1>7. CASE MarkProcessing(c)
  BY <1>0, <1>7 DEF MarkProcessing, Goto
<1>8. CASE RunWorkflow(c)
  BY <1>0, <1>8, Run
<1>9. CASE Settle(c)
  BY <1>0, <1>9, Settled
<1>10. CASE SettleFails(c)
  BY <1>0, <1>10 DEF SettleFails, Goto
<1>11. CASE LookKeyAbsent(c)
  BY <1>0, <1>11 DEF LookKeyAbsent, Goto
<1>12. CASE LookKeyAnswered(c)
  BY <1>0, <1>12 DEF LookKeyAnswered, Goto
<1>13. CASE LookKeyRetry(c)
  BY <1>0, <1>13 DEF LookKeyRetry, Goto
<1>14. CASE ClaimKey(c)
  BY <1>0, <1>14 DEF ClaimKey, Goto
<1>15. CASE InsertKey(c)
  BY <1>0, <1>15 DEF InsertKey, Goto
<1>16. CASE InsertKeyRefused(c)
  BY <1>0, <1>16 DEF InsertKeyRefused, Goto
<1>17. CASE RecordAnswer(c)
  BY <1>0, <1>17 DEF RecordAnswer, Goto
<1>18. CASE RecordFails(c)
  BY <1>0, <1>18 DEF RecordFails, Goto
<1>19. CASE SendCommit(c)
  BY <1>0, <1>19 DEF SendCommit, Goto
<1>20. CASE ConfirmCommit(c)
  BY <1>0, <1>20 DEF ConfirmCommit, Goto
<1>21. CASE CancelCommit(c)
  BY <1>0, <1>21 DEF CancelCommit, Goto
<1> QED
  BY <1>1, <1>2, <1>3, <1>4, <1>5, <1>6, <1>7, <1>8, <1>9, <1>10, <1>11, <1>12,
     <1>13, <1>14, <1>15, <1>16, <1>17, <1>18, <1>19, <1>20, <1>21
     DEF Step, Handle, Keyed, Converse, Arrives, Returns

\* Calls and events go on naming requests made for their event.
LEMMA NamesStep ==
  ASSUME TypeOK, CallsWellFormed, NamesAreOwn,
         NEW c \in Calls, Step(c)
  PROVE  NamesAreOwn'
<1> USE DEF NamesAreOwn, EventOf
<1>0. /\ pc \in [Calls -> Steps]
      /\ call \in [Calls -> Call]
      /\ events \in [EventIds -> InboundEvent]
      /\ records \in [Keys -> IdempotencyRecord]
      /\ \A d \in Calls : call[d] \in Call /\ call[d].event \in EventIds
      /\ \A i \in DOMAIN requests : requests[i].event \in EventIds
  BY Rows
<1>1. CASE Arrives(c)
  BY <1>0, <1>1, Arrival
<1>2. CASE Returns(c)
  BY <1>0, <1>2, Returned
<1>3. CASE LookAbsent(c)
  BY <1>0, <1>3 DEF LookAbsent, Goto
<1>4. CASE LookRetry(c)
  BY <1>0, <1>4 DEF LookRetry, Goto
<1>5. CASE Claim(c)
  BY <1>0, <1>5 DEF Claim, Goto
<1>6. CASE InsertReceived(c)
  BY <1>0, <1>6 DEF InsertReceived, Goto
<1>7. CASE MarkProcessing(c)
  BY <1>0, <1>7 DEF MarkProcessing, Goto
<1>8. CASE RunWorkflow(c)
  <2>1. CASE UNCHANGED requests /\ call'[c].made = 0
    BY <1>0, <1>8, <2>1, Run
  <2>2. CASE \E n : Adds(c, n)
    <3>1. PICK n : Adds(c, n)
      BY <2>2
    <3> QED
      BY <1>0, <1>8, <3>1, Run DEF Adds
  <2> QED
    BY <1>8, <2>1, <2>2, Run
<1>9. CASE Settle(c)
  BY <1>0, <1>9, Settled
<1>10. CASE SettleFails(c)
  BY <1>0, <1>10 DEF SettleFails, Goto
<1>11. CASE LookKeyAbsent(c)
  BY <1>0, <1>11 DEF LookKeyAbsent, Goto
<1>12. CASE LookKeyAnswered(c)
  BY <1>0, <1>12 DEF LookKeyAnswered, Goto
<1>13. CASE LookKeyRetry(c)
  BY <1>0, <1>13 DEF LookKeyRetry, Goto
<1>14. CASE ClaimKey(c)
  BY <1>0, <1>14 DEF ClaimKey, Goto
<1>15. CASE InsertKey(c)
  BY <1>0, <1>15 DEF InsertKey, Goto
<1>16. CASE InsertKeyRefused(c)
  BY <1>0, <1>16 DEF InsertKeyRefused, Goto
<1>17. CASE RecordAnswer(c)
  BY <1>0, <1>17 DEF RecordAnswer, Goto
<1>18. CASE RecordFails(c)
  BY <1>0, <1>18 DEF RecordFails, Goto
<1>19. CASE SendCommit(c)
  BY <1>0, <1>19 DEF SendCommit, Goto
<1>20. CASE ConfirmCommit(c)
  BY <1>0, <1>20 DEF ConfirmCommit, Goto
<1>21. CASE CancelCommit(c)
  BY <1>0, <1>21 DEF CancelCommit, Goto
<1> QED
  BY <1>1, <1>2, <1>3, <1>4, <1>5, <1>6, <1>7, <1>8, <1>9, <1>10, <1>11, <1>12,
     <1>13, <1>14, <1>15, <1>16, <1>17, <1>18, <1>19, <1>20, <1>21
     DEF Step, Handle, Keyed, Converse, Arrives, Returns

\* The request of a confirmation appears only as its run ends.
LEMMA ConfirmedStep ==
  ASSUME TypeOK, CallsWellFormed, ConfirmedOnce,
         NEW c \in Calls, Step(c)
  PROVE  ConfirmedOnce'
<1> USE DEF CallsWellFormed, ConfirmedOnce
<1>0. /\ pc \in [Calls -> Steps]
      /\ call \in [Calls -> Call]
      /\ events \in [EventIds -> InboundEvent]
      /\ records \in [Keys -> IdempotencyRecord]
      /\ \A d \in Calls : call[d] \in Call /\ call[d].event \in EventIds
      /\ \A i \in DOMAIN requests : requests[i].event \in EventIds
  BY Rows
<1>1. CASE Arrives(c)
  BY <1>0, <1>1, Arrival
<1>2. CASE Returns(c)
  BY <1>0, <1>2, Returned
<1>3. CASE LookAbsent(c)
  BY <1>0, <1>3 DEF LookAbsent, Goto
<1>4. CASE LookRetry(c)
  BY <1>0, <1>4 DEF LookRetry, Goto
<1>5. CASE Claim(c)
  BY <1>0, <1>5 DEF Claim, Goto
<1>6. CASE InsertReceived(c)
  BY <1>0, <1>6 DEF InsertReceived, Goto
<1>7. CASE MarkProcessing(c)
  BY <1>0, <1>7 DEF MarkProcessing, Goto
<1>8. CASE RunWorkflow(c)
  <2>1. CASE UNCHANGED requests /\ call'[c].made = 0
    BY <1>0, <1>8, <2>1, Run
  <2>2. CASE \E n : Adds(c, n)
    <3>1. PICK n : Adds(c, n)
      BY <2>2
    <3> QED
      BY <1>0, <1>8, <3>1, Run DEF Adds
  <2> QED
    BY <1>8, <2>1, <2>2, Run
<1>9. CASE Settle(c)
  BY <1>0, <1>9, Settled
<1>10. CASE SettleFails(c)
  BY <1>0, <1>10 DEF SettleFails, Goto
<1>11. CASE LookKeyAbsent(c)
  BY <1>0, <1>11 DEF LookKeyAbsent, Goto
<1>12. CASE LookKeyAnswered(c)
  BY <1>0, <1>12 DEF LookKeyAnswered, Goto
<1>13. CASE LookKeyRetry(c)
  BY <1>0, <1>13 DEF LookKeyRetry, Goto
<1>14. CASE ClaimKey(c)
  BY <1>0, <1>14 DEF ClaimKey, Goto
<1>15. CASE InsertKey(c)
  BY <1>0, <1>15 DEF InsertKey, Goto
<1>16. CASE InsertKeyRefused(c)
  BY <1>0, <1>16 DEF InsertKeyRefused, Goto
<1>17. CASE RecordAnswer(c)
  BY <1>0, <1>17 DEF RecordAnswer, Goto
<1>18. CASE RecordFails(c)
  BY <1>0, <1>18 DEF RecordFails, Goto
<1>19. CASE SendCommit(c)
  BY <1>0, <1>19 DEF SendCommit, Goto
<1>20. CASE ConfirmCommit(c)
  BY <1>0, <1>20 DEF ConfirmCommit, Goto
<1>21. CASE CancelCommit(c)
  BY <1>0, <1>21 DEF CancelCommit, Goto
<1> QED
  BY <1>1, <1>2, <1>3, <1>4, <1>5, <1>6, <1>7, <1>8, <1>9, <1>10, <1>11, <1>12,
     <1>13, <1>14, <1>15, <1>16, <1>17, <1>18, <1>19, <1>20, <1>21
     DEF Step, Handle, Keyed, Converse, Arrives, Returns

\* A run for a draft's version finds no request made for it before: that
\* request would have the payload of this very call, which is still running.
LEMMA TicketStep ==
  ASSUME TypeOK, CallsWellFormed, PayloadsAgree,
         ConfirmedOnce, OneTicketPerVersion,
         NEW c \in Calls, Step(c)
  PROVE  OneTicketPerVersion'
<1> USE DEF OneTicketPerVersion, EventOf
<1>0. /\ pc \in [Calls -> Steps]
      /\ call \in [Calls -> Call]
      /\ events \in [EventIds -> InboundEvent]
      /\ records \in [Keys -> IdempotencyRecord]
      /\ \A d \in Calls : call[d] \in Call /\ call[d].event \in EventIds
      /\ \A i \in DOMAIN requests : requests[i].event \in EventIds
  BY Rows
<1>1. CASE Arrives(c)
  BY <1>0, <1>1, Arrival
<1>2. CASE Returns(c)
  BY <1>0, <1>2, Returned
<1>3. CASE LookAbsent(c)
  BY <1>0, <1>3 DEF LookAbsent, Goto
<1>4. CASE LookRetry(c)
  BY <1>0, <1>4 DEF LookRetry, Goto
<1>5. CASE Claim(c)
  BY <1>0, <1>5 DEF Claim, Goto
<1>6. CASE InsertReceived(c)
  BY <1>0, <1>6 DEF InsertReceived, Goto
<1>7. CASE MarkProcessing(c)
  BY <1>0, <1>7 DEF MarkProcessing, Goto
<1>8. CASE RunWorkflow(c)
  <2>1. CASE UNCHANGED requests
    BY <1>8, <2>1
  <2>2. CASE \E n : Adds(c, n)
    <3>1. PICK n : Adds(c, n)
      BY <2>2
    <3>2. \A i \in DOMAIN requests : call[c].event \in Drafts
                                       => requests[i].event # call[c].event
      <4> SUFFICES ASSUME NEW i \in DOMAIN requests, call[c].event \in Drafts,
                          requests[i].event = call[c].event
                   PROVE  FALSE
        OBVIOUS
      <4>1. call[c].payload = c
        BY DEF CallsWellFormed
      <4>2. requests[i].payload = call[c].payload /\ pc[c] = "run"
        BY <1>0, <1>8, Run DEF PayloadsAgree
      <4> QED
        BY <4>1, <4>2 DEF ConfirmedOnce
    <3>3. \A v \in Versions : DraftMessage(v) \in Drafts
      BY DEF Drafts
    <3> QED
      BY <3>1, <3>2, <3>3 DEF Adds
  <2> QED
    BY <1>8, <2>1, <2>2, Run
<1>9. CASE Settle(c)
  BY <1>0, <1>9, Settled
<1>10. CASE SettleFails(c)
  BY <1>0, <1>10 DEF SettleFails, Goto
<1>11. CASE LookKeyAbsent(c)
  BY <1>0, <1>11 DEF LookKeyAbsent, Goto
<1>12. CASE LookKeyAnswered(c)
  BY <1>0, <1>12 DEF LookKeyAnswered, Goto
<1>13. CASE LookKeyRetry(c)
  BY <1>0, <1>13 DEF LookKeyRetry, Goto
<1>14. CASE ClaimKey(c)
  BY <1>0, <1>14 DEF ClaimKey, Goto
<1>15. CASE InsertKey(c)
  BY <1>0, <1>15 DEF InsertKey, Goto
<1>16. CASE InsertKeyRefused(c)
  BY <1>0, <1>16 DEF InsertKeyRefused, Goto
<1>17. CASE RecordAnswer(c)
  BY <1>0, <1>17 DEF RecordAnswer, Goto
<1>18. CASE RecordFails(c)
  BY <1>0, <1>18 DEF RecordFails, Goto
<1>19. CASE SendCommit(c)
  BY <1>0, <1>19 DEF SendCommit, Goto
<1>20. CASE ConfirmCommit(c)
  BY <1>0, <1>20 DEF ConfirmCommit, Goto
<1>21. CASE CancelCommit(c)
  BY <1>0, <1>21 DEF CancelCommit, Goto
<1> QED
  BY <1>1, <1>2, <1>3, <1>4, <1>5, <1>6, <1>7, <1>8, <1>9, <1>10, <1>11, <1>12,
     <1>13, <1>14, <1>15, <1>16, <1>17, <1>18, <1>19, <1>20, <1>21
     DEF Step, Handle, Keyed, Converse, Arrives, Returns

\* Until a POST under a key fails, one call at most is under way with it.
LEMMA KeyHeldStep ==
  ASSUME TypeOK, CallsWellFormed, KeyHeldOnce,
         NEW c \in Calls, Step(c)
  PROVE  KeyHeldOnce'
<1> USE DEF CallsWellFormed, KeyHeldOnce, WorksUnderKey, Errored, RecordOf
<1>0. /\ pc \in [Calls -> Steps]
      /\ call \in [Calls -> Call]
      /\ events \in [EventIds -> InboundEvent]
      /\ records \in [Keys -> IdempotencyRecord]
      /\ \A d \in Calls : call[d] \in Call /\ call[d].event \in EventIds
      /\ \A i \in DOMAIN requests : requests[i].event \in EventIds
  BY Rows
<1>1. CASE Arrives(c)
  BY <1>0, <1>1, Arrival
<1>2. CASE Returns(c)
  BY <1>0, <1>2, Returned
<1>3. CASE LookAbsent(c)
  BY <1>0, <1>3 DEF LookAbsent, Goto
<1>4. CASE LookRetry(c)
  BY <1>0, <1>4 DEF LookRetry, Goto
<1>5. CASE Claim(c)
  BY <1>0, <1>5 DEF Claim, Goto
<1>6. CASE InsertReceived(c)
  BY <1>0, <1>6 DEF InsertReceived, Goto
<1>7. CASE MarkProcessing(c)
  BY <1>0, <1>7 DEF MarkProcessing, Goto
<1>8. CASE RunWorkflow(c)
  <2>1. CASE UNCHANGED requests /\ call'[c].made = 0
    BY <1>0, <1>8, <2>1, Run
  <2>2. CASE \E n : Adds(c, n)
    <3>1. PICK n : Adds(c, n)
      BY <2>2
    <3> QED
      BY <1>0, <1>8, <3>1, Run DEF Adds
  <2> QED
    BY <1>8, <2>1, <2>2, Run
<1>9. CASE Settle(c)
  BY <1>0, <1>9, Settled
<1>10. CASE SettleFails(c)
  <2>1. /\ \A d \in Calls \ {c} : call'[d] = call[d]
        /\ call'[c].key = call[c].key
        /\ call'[c].outcome = "raised"
        /\ UNCHANGED <<requests, records, pc>>
    BY <1>0, <1>10, AnswerSet DEF SettleFails
  <2> QED
    BY <1>0, <2>1
<1>11. CASE LookKeyAbsent(c)
  BY <1>0, <1>11 DEF LookKeyAbsent, Goto
<1>12. CASE LookKeyAnswered(c)
  BY <1>0, <1>12 DEF LookKeyAnswered, Goto
<1>13. CASE LookKeyRetry(c)
  BY <1>0, <1>13 DEF LookKeyRetry, Goto
<1>14. CASE ClaimKey(c)
  BY <1>0, <1>14 DEF ClaimKey, Goto
<1>15. CASE InsertKey(c)
  BY <1>0, <1>15 DEF InsertKey, Goto
<1>16. CASE InsertKeyRefused(c)
  BY <1>0, <1>16 DEF InsertKeyRefused, Goto
<1>17. CASE RecordAnswer(c)
  BY <1>0, <1>17 DEF RecordAnswer, Goto
<1>18. CASE RecordFails(c)
  BY <1>0, <1>18 DEF RecordFails, Goto
<1>19. CASE SendCommit(c)
  BY <1>0, <1>19 DEF SendCommit, Goto
<1>20. CASE ConfirmCommit(c)
  BY <1>0, <1>20 DEF ConfirmCommit, Goto
<1>21. CASE CancelCommit(c)
  BY <1>0, <1>21 DEF CancelCommit, Goto
<1> QED
  BY <1>1, <1>2, <1>3, <1>4, <1>5, <1>6, <1>7, <1>8, <1>9, <1>10, <1>11, <1>12,
     <1>13, <1>14, <1>15, <1>16, <1>17, <1>18, <1>19, <1>20, <1>21
     DEF Step, Handle, Keyed, Converse, Arrives, Returns

\* So no run under the key finds a request made under it before.
LEMMA KeyedStep ==
  ASSUME TypeOK, CallsWellFormed, KeyHeldOnce, KeyedOnce,
         NEW c \in Calls, Step(c)
  PROVE  KeyedOnce'
<1> USE DEF CallsWellFormed, KeyHeldOnce, KeyedOnce, Errored, WorksUnderKey
<1>0. /\ pc \in [Calls -> Steps]
      /\ call \in [Calls -> Call]
      /\ events \in [EventIds -> InboundEvent]
      /\ records \in [Keys -> IdempotencyRecord]
      /\ \A d \in Calls : call[d] \in Call /\ call[d].event \in EventIds
      /\ \A i \in DOMAIN requests : requests[i].event \in EventIds
  BY Rows
<1>1. CASE Arrives(c)
  BY <1>0, <1>1, Arrival
<1>2. CASE Returns(c)
  BY <1>0, <1>2, Returned
<1>3. CASE LookAbsent(c)
  BY <1>0, <1>3 DEF LookAbsent, Goto
<1>4. CASE LookRetry(c)
  BY <1>0, <1>4 DEF LookRetry, Goto
<1>5. CASE Claim(c)
  BY <1>0, <1>5 DEF Claim, Goto
<1>6. CASE InsertReceived(c)
  BY <1>0, <1>6 DEF InsertReceived, Goto
<1>7. CASE MarkProcessing(c)
  BY <1>0, <1>7 DEF MarkProcessing, Goto
<1>8. CASE RunWorkflow(c)
  <2>1. CASE UNCHANGED requests /\ call'[c].made = 0
    BY <1>0, <1>8, <2>1, Run
  <2>2. CASE \E n : Adds(c, n)
    <3>1. PICK n : Adds(c, n)
      BY <2>2
    <3> QED
      BY <1>0, <1>8, <3>1, Run DEF Adds
  <2> QED
    BY <1>8, <2>1, <2>2, Run
<1>9. CASE Settle(c)
  BY <1>0, <1>9, Settled
<1>10. CASE SettleFails(c)
  BY <1>0, <1>10 DEF SettleFails, Goto
<1>11. CASE LookKeyAbsent(c)
  BY <1>0, <1>11 DEF LookKeyAbsent, Goto
<1>12. CASE LookKeyAnswered(c)
  BY <1>0, <1>12 DEF LookKeyAnswered, Goto
<1>13. CASE LookKeyRetry(c)
  BY <1>0, <1>13 DEF LookKeyRetry, Goto
<1>14. CASE ClaimKey(c)
  BY <1>0, <1>14 DEF ClaimKey, Goto
<1>15. CASE InsertKey(c)
  BY <1>0, <1>15 DEF InsertKey, Goto
<1>16. CASE InsertKeyRefused(c)
  BY <1>0, <1>16 DEF InsertKeyRefused, Goto
<1>17. CASE RecordAnswer(c)
  BY <1>0, <1>17 DEF RecordAnswer, Goto
<1>18. CASE RecordFails(c)
  BY <1>0, <1>18 DEF RecordFails, Goto
<1>19. CASE SendCommit(c)
  BY <1>0, <1>19 DEF SendCommit, Goto
<1>20. CASE ConfirmCommit(c)
  BY <1>0, <1>20 DEF ConfirmCommit, Goto
<1>21. CASE CancelCommit(c)
  BY <1>0, <1>21 DEF CancelCommit, Goto
<1> QED
  BY <1>1, <1>2, <1>3, <1>4, <1>5, <1>6, <1>7, <1>8, <1>9, <1>10, <1>11, <1>12,
     <1>13, <1>14, <1>15, <1>16, <1>17, <1>18, <1>19, <1>20, <1>21
     DEF Step, Handle, Keyed, Converse, Arrives, Returns

-----------------------------------------------------------------------------
(* The invariant is inductive, and what follows from it.                    *)

LEMMA InvariantInitially == Init => IInv
<1> SUFFICES ASSUME Init PROVE IInv
  OBVIOUS
<1>1. TypeOK
  BY TypedInitially
<1>2. DOMAIN requests = {}
  BY DEF Init
<1>3. /\ \A c \in Calls : pc[c] = "idle" /\ call[c] = NoCall(c)
      /\ \A e \in EventIds : events[e].status = "none" /\ events[e].request = 0
      /\ \A k \in Keys : records[k].status = "none"
  BY DEF Init
<1>4. \A c \in Calls : /\ call[c].key = NoKey /\ call[c].event \notin Drafts
                       /\ call[c].outcome = "none" /\ call[c].made = 0
  <2> SUFFICES ASSUME NEW c \in Calls
               PROVE  /\ call[c].key = NoKey /\ call[c].event \notin Drafts
                      /\ call[c].outcome = "none" /\ call[c].made = 0
    OBVIOUS
  <2>1. c \notin Drafts
    BY DEF Drafts
  <2>2. /\ NoCall(c).key = NoKey /\ NoCall(c).event = c
        /\ NoCall(c).outcome = "none" /\ NoCall(c).made = 0
    BY DEF NoCall
  <2>3. call[c] = NoCall(c)
    BY <1>3
  <2> QED
    BY <2>1, <2>2, <2>3
<1>5. CallsWellFormed
  BY <1>3, <1>4 DEF CallsWellFormed
<1>6. PayloadsAgree /\ ConfirmedOnce
  BY <1>2, <1>3 DEF PayloadsAgree, ConfirmedOnce
<1>7. OneTicketPerVersion /\ KeyedOnce
  BY <1>2 DEF OneTicketPerVersion, KeyedOnce
<1>8. KeyHeldOnce
  BY <1>2, <1>3, <1>4 DEF KeyHeldOnce
<1>9. InFlightIsOwned /\ NamesAreOwn
  BY <1>3, <1>4 DEF InFlightIsOwned, NamesAreOwn
<1> QED
  BY <1>1, <1>5, <1>6, <1>7, <1>8, <1>9 DEF IInv

LEMMA InvariantKept == IInv /\ [Next]_vars => IInv'
<1> SUFFICES ASSUME IInv, [Next]_vars PROVE IInv'
  OBVIOUS
<1>1. TypeOK'
  BY TypedAlways DEF IInv
<1>2. CASE UNCHANGED <<requests, events, records, pc, call>>
  BY <1>1, <1>2 DEF IInv, CallsWellFormed, PayloadsAgree, ConfirmedOnce,
       OneTicketPerVersion, KeyHeldOnce, KeyedOnce, InFlightIsOwned, NamesAreOwn,
       EventOf, Errored, WorksOnEvent, WorksUnderKey
<1>3. ASSUME NEW c \in Calls, Step(c) PROVE IInv'
  <2>1. CallsWellFormed' /\ PayloadsAgree'
    BY <1>3, WellFormedStep, PayloadsStep DEF IInv
  <2>2. ConfirmedOnce' /\ OneTicketPerVersion'
    BY <1>3, ConfirmedStep, TicketStep DEF IInv
  <2>3. KeyHeldOnce' /\ KeyedOnce'
    BY <1>3, KeyHeldStep, KeyedStep DEF IInv
  <2>4. InFlightIsOwned' /\ NamesAreOwn'
    BY <1>3, InFlightStep, NamesStep DEF IInv
  <2> QED
    BY <1>1, <2>1, <2>2, <2>3, <2>4 DEF IInv
<1>4. CASE UNCHANGED vars
  BY <1>2, <1>4 DEF vars
<1>5. CASE Next
  <2>1. PICK c \in Calls \ dead : Crash(c) \/ (Step(c) /\ UNCHANGED dead)
    BY <1>5 DEF Next
  <2> QED
    BY <1>2, <1>3, <2>1 DEF Crash
<1> QED
  BY <1>4, <1>5

\* The invariant of intake, of which the theorems below name the parts.
THEOREM InvariantHolds == Spec => []IInv
<1> QED
  BY InvariantInitially, InvariantKept, PTL DEF Spec

\* Whatever is sent, repeated, changed or lost under one message id, the
\* service requests made for it come from one payload.
THEOREM OnePayload == Spec => []OnePayloadPerMessage
<1>1. IInv => OnePayloadPerMessage
  BY DEF IInv, PayloadsAgree, OnePayloadPerMessage
<1> QED
  BY <1>1, InvariantHolds, PTL

\* One version of a draft makes one service request at most, whatever number
\* of confirmations of it is made.
THEOREM OneTicket == Spec => []OneTicketPerVersion
<1>1. IInv => OneTicketPerVersion
  BY DEF IInv
<1> QED
  BY <1>1, InvariantHolds, PTL

\* Until a POST under a key ends in an error, one service request at most is
\* made under it.
THEOREM OneRequestPerKey == Spec => []KeyedOnce
<1>1. IInv => KeyedOnce
  BY DEF IInv
<1> QED
  BY <1>1, InvariantHolds, PTL

\* Events and keys that bar other calls have a call at work on them, or one
\* that died doing so.
THEOREM BarredIsOwned == Spec => []InFlightIsOwned
<1>1. IInv => InFlightIsOwned
  BY DEF IInv
<1> QED
  BY <1>1, InvariantHolds, PTL

\* The steps that write inbound_events, of which none writes service_requests.
LEMMA EventSteps ==
  ASSUME NEW c \in Calls, Step(c)
  PROVE  \/ UNCHANGED events
         \/ Settle(c) \/ Claim(c) \/ MarkProcessing(c) \/ InsertReceived(c)
BY DEF Step, Handle, Keyed, Converse, Deliver, Post, LookAbsent, LookConflict,
       LookCompleted, LookRetry, InsertRefused, RunWorkflow, SettleFails,
       LookKeyAbsent, LookKeyAnswered, LookKeyRetry, ClaimKey, InsertKey,
       InsertKeyRefused, RecordAnswer, RecordFails, SendLook, SendCommit,
       ConfirmLook, ConfirmCommit, CancelLook, CancelCommit

LEMMA EventOrRequest ==
  ASSUME NEW c \in Calls, Step(c), events' # events
  PROVE  UNCHANGED requests
BY EventSteps DEF Settle, Claim, MarkProcessing, InsertReceived

\* No step takes away the service request that an event names.
LEMMA RequestKept ==
  ASSUME TypeOK, CallsWellFormed, NamesAreOwn, NEW c \in Calls, Step(c)
  PROVE  \A e \in EventIds : events[e].request # 0 => events'[e].request # 0
<1>1. /\ events \in [EventIds -> InboundEvent] /\ call[c].event \in EventIds
      /\ \A e \in EventIds : events[e] \in InboundEvent
  BY Rows
<1>2. CASE Settle(c)
  BY <1>1, <1>2, Settled
<1>3. CASE Claim(c) \/ MarkProcessing(c)
  BY <1>1, <1>3 DEF Claim, MarkProcessing, InboundEvent
<1>4. CASE InsertReceived(c)
  BY <1>1, <1>4 DEF InsertReceived, NamesAreOwn, EventOf
<1>5. CASE UNCHANGED events
  BY <1>5
<1> QED
  BY <1>2, <1>3, <1>4, <1>5, EventSteps

\* Once an event names a service request it goes on naming one made for it.
THEOREM NamedStays == Spec => NamedRequestStays
<1>1. ASSUME IInv, IInv', [Next]_vars
      PROVE  [\A e \in EventIds : events[e].request # 0 =>
                /\ events'[e].request \in DOMAIN requests
                /\ requests[events'[e].request].event = e]_vars
  <2> SUFFICES ASSUME Next, NEW e \in EventIds, events[e].request # 0
               PROVE  /\ events'[e].request \in DOMAIN requests
                      /\ requests[events'[e].request].event = e
    BY <1>1
  <2>1. CASE UNCHANGED events
    BY <1>1, <2>1 DEF IInv, NamesAreOwn
  <2>2. CASE events' # events
    <3>1. PICK c \in Calls : Step(c)
      BY <2>2 DEF Next, Crash
    <3>2. events'[e].request # 0
      BY <1>1, <3>1, RequestKept DEF IInv
    <3>3. UNCHANGED requests
      BY <2>2, <3>1, EventOrRequest
    <3> QED
      BY <1>1, <3>2, <3>3 DEF IInv, NamesAreOwn
  <2> QED
    BY <2>1, <2>2
<1> QED
  BY <1>1, InvariantHolds, PTL DEF Spec, NamedRequestStays
=============================================================================
