-------------------------------- MODULE Booking --------------------------------
(***************************************************************************)
(* What a push promises for one transaction of Fold: it is booked in       *)
(* Firefly once at most, and the row points to a booking only after there  *)
(* is one.  A person may correct the booking in place; nothing unbooks it, *)
(* and the row never forgets where it is.                                  *)
(***************************************************************************)
EXTENDS Naturals

VARIABLES
    bookings,        \* how many bookings carry the transaction's external id
    pointer          \* which one the row points to, 0 for none

bookingVars == <<bookings, pointer>>

BookingInit == bookings = 0 /\ pointer = 0

Book  == bookings = 0 /\ bookings' = 1 /\ UNCHANGED pointer
Point == bookings = 1 /\ pointer' = 1 /\ UNCHANGED bookings

BookingNext == Book \/ Point
BookingSpec == BookingInit /\ [][BookingNext]_bookingVars
=============================================================================
