--------------------------- MODULE MCDeliverySlot ---------------------------
(***************************************************************************)
(* DeliverySlot for TLC, at the ends of the months of a common year and a  *)
(* leap year.                                                              *)
(***************************************************************************)
EXTENDS DeliverySlot

MCStartDays ==
    {CalendarDate(y, m, d) : y \in {2023, 2024}, m \in {1, 2, 4, 12}, d \in 28..31}
=============================================================================
