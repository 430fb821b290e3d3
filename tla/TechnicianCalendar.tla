-------------------------- MODULE TechnicianCalendar --------------------------
(****************************************************************************)
(* What FieldOps promises of its technicians' time, stated without requests,*)
(* reschedules, threads or transactions: a ledger of bookings in which a    *)
(* step may give up any bookings and take at most one, a booking is taken   *)
(* only where the technician is free, and a booking that was given up never *)
(* returns.  Lifecycle and Booking are shown to implement it.               *)
(****************************************************************************)
EXTENDS Naturals

CONSTANTS Technicians, Windows

VARIABLES
  bookings,   \* set of [appointment, technician, window]
  used        \* the appointment ids that were ever booked

Overlaps(v, w) == v.start < w.end /\ v.end > w.start

Clash(b, c) == b.technician = c.technician /\ Overlaps(b.window, c.window)

Init == bookings = {} /\ used = {}

(* Some bookings end.                                                       *)
Release ==
  /\ \E kept \in SUBSET bookings : bookings' = kept
  /\ UNCHANGED used

(* A booking under a new id, with some others given up in the same step.    *)
Book(b, kept) ==
  /\ b.appointment \notin used
  /\ \A c \in kept : ~ Clash(b, c)
  /\ bookings' = kept \cup {b}
  /\ used' = used \cup {b.appointment}

(* A booking goes to another technician.                                    *)
Move(b, t) ==
  LET moved == [b EXCEPT !.technician = t]
      kept  == bookings \ {b}
  IN
  /\ \A c \in kept : ~ Clash(moved, c)
  /\ bookings' = kept \cup {moved}
  /\ UNCHANGED used

Next ==
  \/ Release
  \/ \E t \in Technicians, w \in Windows, kept \in SUBSET bookings :
       \E a \in used' \ used :
         Book([appointment |-> a, technician |-> t, window |-> w], kept)
  \/ \E b \in bookings, t \in Technicians : Move(b, t)

Spec == Init /\ [][Next]_<<bookings, used>>

==============================================================================
