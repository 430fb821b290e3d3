-------------------------- MODULE AppointmentStories --------------------------
(****************************************************************************)
(* What the business side promises to those who learn of appointments only  *)
(* from the outbox (the publisher, the calendar, the notifications): an     *)
(* appointment is created once, its status changes in the ways below and no *)
(* others, and every change stages one event in the same step.  Requests,   *)
(* reschedules and technicians are left out.  Lifecycle is shown to tell    *)
(* such stories; CalendarSync and Notifications to be ready for all of them.*)
(****************************************************************************)
EXTENDS Naturals, Sequences

CONSTANT Ids         \* primary keys of appointments

VARIABLE stories     \* per appointment, its status and the events staged

------------------------------------------------------------------------------
Statuses == {"none", "scheduled", "in_progress", "completed", "cancelled"}

EventTypes ==
  {"appointment.created", "appointment.started", "appointment.completed",
   "appointment.cancelled", "appointment.reassigned"}

Stories == [status : Statuses, staged : Seq(EventTypes)]

Untold == [status |-> "none", staged |-> <<>>]

Tell(s, status, type) ==
  [status |-> status, staged |-> Append(s.staged, type)]

Begun == Tell(Untold, "scheduled", "appointment.created")

------------------------------------------------------------------------------
(* How story t follows story s                                              *)

Created(s, t) == s = Untold /\ t = Begun

Reassigned(s, t) ==
  s.status = "scheduled" /\ t = Tell(s, "scheduled", "appointment.reassigned")

Started(s, t) ==
  s.status = "scheduled" /\ t = Tell(s, "in_progress", "appointment.started")

Completed(s, t) ==
  /\ s.status \in {"scheduled", "in_progress"}
  /\ t = Tell(s, "completed", "appointment.completed")

(* A visit that was completed, or cancelled before, may be cancelled too: a *)
(* reschedule request that still waits for it is approved.                  *)
Cancelled(s, t) ==
  s.status # "none" /\ t = Tell(s, "cancelled", "appointment.cancelled")

GoesOn(s, t) ==
  Reassigned(s, t) \/ Started(s, t) \/ Completed(s, t) \/ Cancelled(s, t)

Follows(s, t) == Created(s, t) \/ GoesOn(s, t)

------------------------------------------------------------------------------
(* Stories are followed from before the creation or from right after it.    *)
Init == stories \in [Ids -> {Untold, Begun}]

(* A transaction may carry on several stories, each by one event.           *)
Next ==
  \A a \in Ids : stories'[a] = stories[a] \/ Follows(stories[a], stories'[a])

Spec == Init /\ [][Next]_stories

==============================================================================
