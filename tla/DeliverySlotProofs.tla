------------------------- MODULE DeliverySlotProofs -------------------------
(***************************************************************************)
(* Proofs about DeliverySlot, for any days, years, and time that goes by:  *)
(* the cell offers a month, the slot shown is one that was offered, and it *)
(* lies ahead unless the cell is from an earlier day.                      *)
(*                                                                         *)
(* The first half is about the calendar: that the components of a day      *)
(* exist, and what adding one to the day or the month does to it.  The     *)
(* invariant adds to OffersAMonth that the clock stays within the years    *)
(* the calendar is asked for (Clock) and what has become of the slot       *)
(* between the cell, the database and the list (Sent).                     *)
(***************************************************************************)
EXTENDS DeliverySlot, TLAPS

(***************************************************************************)
(* A year has 365 days, a leap year 366: the counts of leap years of the   *)
(* calendar agree with the rule that tells one.                            *)
(***************************************************************************)
LEMMA YearLength ==
    ASSUME NEW y \in Int
    PROVE  /\ DaysBeforeYear(y) \in Int
           /\ DaysBeforeYear(y + 1) = DaysBeforeYear(y) + IF Leap(y) THEN 366 ELSE 365
<1> QED BY DEF DaysBeforeYear, Leap

(***************************************************************************)
(* What the table of months says.                                          *)
(***************************************************************************)
LEMMA MonthTable ==
    ASSUME NEW y \in Int, NEW m \in 1..12
    PROVE  /\ DaysBeforeMonth(y, m) \in Int
           /\ MonthLength(y, m) \in 28..31
           /\ DaysBeforeMonth(y, 1) = 0
           /\ DaysBeforeMonth(y, 12) = IF Leap(y) THEN 335 ELSE 334
<1> QED BY DEF DaysBeforeMonth, MonthLength

(***************************************************************************)
(* A day later is a day more; a month later is as many days more as the    *)
(* month has, in December too.                                             *)
(***************************************************************************)
LEMMA NextMonth ==
    ASSUME NEW y \in Int, NEW m \in 1..12, NEW d \in Int
    PROVE  /\ CalendarDate(y, m, d) \in Int
           /\ CalendarDate(y, m, d + 1) = CalendarDate(y, m, d) + 1
           /\ CalendarDate(y, m + 1, d) = CalendarDate(y, m, d) + MonthLength(y, m)
<1>1. DaysBeforeYear(y) \in Int /\ DaysBeforeMonth(y, m) \in Int
  <2>1. DaysBeforeYear(y) \in Int
    BY YearLength
  <2>2. DaysBeforeMonth(y, m) \in Int
    BY MonthTable
  <2> QED BY <2>1, <2>2
<1>2. ((m - 1) \div 12) = 0 /\ ((m - 1) % 12) + 1 = m
  OBVIOUS
<1>3. \A e \in Int :
        CalendarDate(y, m, e) = DaysBeforeYear(y) + DaysBeforeMonth(y, m) + e - 1
  BY <1>1, <1>2 DEF CalendarDate
<1>4. /\ CalendarDate(y, m, d) \in Int
      /\ CalendarDate(y, m, d + 1) = CalendarDate(y, m, d) + 1
  BY <1>1, <1>3
<1>5. CASE m = 12
  <2>1. ((12 + 1 - 1) \div 12) = 1 /\ ((12 + 1 - 1) % 12) + 1 = 1
    OBVIOUS
  <2>2. CalendarDate(y, m + 1, d) = DaysBeforeYear(y + 1) + DaysBeforeMonth(y + 1, 1) + d - 1
    BY <1>5, <2>1 DEF CalendarDate
  <2>3. DaysBeforeMonth(y + 1, 1) = 0
    BY MonthTable
  <2>4. DaysBeforeYear(y + 1) = DaysBeforeYear(y) + DaysBeforeMonth(y, 12) + 31
    <3>1. DaysBeforeYear(y + 1) = DaysBeforeYear(y) + IF Leap(y) THEN 366 ELSE 365
      BY YearLength
    <3>2. DaysBeforeMonth(y, 12) = IF Leap(y) THEN 335 ELSE 334
      BY MonthTable
    <3> QED BY <1>1, <3>1, <3>2
  <2>5. MonthLength(y, 12) = 31
    BY DEF MonthLength
  <2> QED BY <1>1, <1>3, <1>4, <1>5, <2>2, <2>3, <2>4, <2>5
<1>6. CASE m < 12
  <2>1. ((m + 1 - 1) \div 12) = 0 /\ ((m + 1 - 1) % 12) + 1 = m + 1
    BY <1>6
  <2>2. CalendarDate(y, m + 1, d) = DaysBeforeYear(y) + DaysBeforeMonth(y, m + 1) + d - 1
    BY <1>1, <2>1 DEF CalendarDate
  <2>3. MonthLength(y, m) = DaysBeforeMonth(y, m + 1) - DaysBeforeMonth(y, m)
    BY <1>6 DEF MonthLength
  <2>4. DaysBeforeMonth(y, m + 1) \in Int
    <3>1. m + 1 \in 1..12
      BY <1>6
    <3> QED BY <3>1, MonthTable
  <2> QED BY <1>1, <1>3, <1>4, <2>2, <2>3, <2>4
<1> QED BY <1>4, <1>5, <1>6

(***************************************************************************)
(* c are the components of a day.                                          *)
(***************************************************************************)
IsDate(c, day) ==
    /\ c.day <= MonthLength(c.year, c.month)
    /\ CalendarDate(c.year, c.month, c.day) = day

(***************************************************************************)
(* Every day of a year has components.                                     *)
(***************************************************************************)
LEMMA DateExists ==
    ASSUME NEW y \in Years, NEW day \in Int,
           DaysBeforeYear(y) <= day, day < DaysBeforeYear(y + 1)
    PROVE  \E c \in [year: Years, month: 1..12, day: 1..31] : IsDate(c, day)
<1>1. y \in Int
  BY YearsAssumption
<1>2. PICK n : n = day - DaysBeforeYear(y)
  OBVIOUS
<1>3. n \in 0..365 /\ (n = 365 => Leap(y)) /\ DaysBeforeYear(y) \in Int
  <2>1. DaysBeforeYear(y) \in Int
    BY <1>1, YearLength
  <2>2. DaysBeforeYear(y + 1) = DaysBeforeYear(y) + IF Leap(y) THEN 366 ELSE 365
    BY <1>1, YearLength
  <2> QED BY <1>2, <2>1, <2>2
<1>4. PICK m \in 1..12 : /\ DaysBeforeMonth(y, m) <= n
                         /\ n < DaysBeforeMonth(y, m) + MonthLength(y, m)
  BY <1>3 DEF DaysBeforeMonth, MonthLength
<1>5. DaysBeforeMonth(y, m) \in Int /\ MonthLength(y, m) \in 28..31
  BY <1>1, MonthTable
<1>6. PICK d \in 1..31 : d = n - DaysBeforeMonth(y, m) + 1
  BY <1>3, <1>4, <1>5
<1>7. CalendarDate(y, m, d) = day
  <2>1. ((m - 1) \div 12) = 0 /\ ((m - 1) % 12) + 1 = m
    OBVIOUS
  <2>2. CalendarDate(y, m, d) = DaysBeforeYear(y) + DaysBeforeMonth(y, m) + d - 1
    BY <1>1, <2>1 DEF CalendarDate
  <2> QED BY <1>2, <1>3, <1>5, <1>6, <2>2
<1>8. d <= MonthLength(y, m)
  BY <1>3, <1>4, <1>5, <1>6
<1>9. PICK c : c = [year |-> y, month |-> m, day |-> d]
  OBVIOUS
<1>10. c \in [year: Years, month: 1..12, day: 1..31]
  BY <1>9
<1>11. IsDate(c, day)
  BY <1>7, <1>8, <1>9 DEF IsDate
<1> QED BY <1>10, <1>11

-----------------------------------------------------------------------------
Clock ==
    /\ ticks \in 0..MaxTicks
    /\ \E d \in StartDays : now = 24 * d + ticks * Step

Types ==
    /\ stage \in {"closed", "open", "sent", "read"}
    /\ made \in Int /\ minimumDate \in Int /\ maximumDate \in Int /\ date \in Int
    /\ row \in 1..6

Slot == date * 24 + timeIntervals[row]

Sent ==
    /\ stage \in {"sent", "read"} => sentAt \in Int /\ posted = Slot * 1000
    /\ shown = IF stage = "read" THEN Slot ELSE None

\* The inductive invariant.
DInv == Clock /\ Types /\ OffersAMonth /\ Sent

(***************************************************************************)
(* The cell asks the calendar for tomorrow and for this day next month.    *)
(***************************************************************************)
LEMMA MonthAhead ==
    ASSUME Clock
    PROVE  /\ now \in Int /\ Today \in Int
           /\ tomorrowDate = Today + 1
           /\ nextMonthDate \in Int
           /\ nextMonthDate - Today \in 28..31
<1>1. PICK d \in StartDays : now = 24 * d + ticks * Step
  BY DEF Clock
<1>2. now \in Int /\ Today \in Int
  BY <1>1, StartDaysAssumption, StepAssumption, MaxTicksAssumption DEF Clock, Today
<1>3. PICK y \in Years : DaysBeforeYear(y) <= Today /\ Today < DaysBeforeYear(y + 1)
  BY <1>1, YearsAssumption DEF Clock, Today
<1>4. \E c \in [year: Years, month: 1..12, day: 1..31] : IsDate(c, Today)
  BY <1>2, <1>3, DateExists
<1>5. PICK c : c = dateComponents(Today)
  OBVIOUS
<1>6. c \in [year: Years, month: 1..12, day: 1..31] /\ IsDate(c, Today)
  BY <1>4, <1>5 DEF dateComponents, IsDate
<1>7. c.year \in Int /\ c.month \in 1..12 /\ c.day \in Int
  <2>1. Years \subseteq Int
    BY YearsAssumption
  <2>2. c.year \in Years /\ c.month \in 1..12 /\ c.day \in 1..31
    BY <1>6
  <2>3. \A n \in 1..31 : n \in Int
    OBVIOUS
  <2>4. c.year \in Int
    BY <2>1, <2>2
  <2>5. c.day \in Int
    BY <2>2, <2>3
  <2> QED BY <2>2, <2>4, <2>5
<1>8. /\ CalendarDate(c.year, c.month, c.day + 1) = CalendarDate(c.year, c.month, c.day) + 1
      /\ CalendarDate(c.year, c.month + 1, c.day)
            = CalendarDate(c.year, c.month, c.day) + MonthLength(c.year, c.month)
  BY <1>7, NextMonth
<1>9. MonthLength(c.year, c.month) \in 28..31
  <2>1. \A z \in Int, m \in 1..12 : MonthLength(z, m) \in 28..31
    BY MonthTable
  <2> QED BY <1>7, <2>1
<1>10. CalendarDate(c.year, c.month, c.day) = Today
  BY <1>6 DEF IsDate
<1>11. tomorrowDate = Today + 1
  BY <1>5, <1>8, <1>10 DEF tomorrowDate
<1>12. nextMonthDate = Today + MonthLength(c.year, c.month)
  BY <1>5, <1>8, <1>10 DEF nextMonthDate
<1> QED BY <1>2, <1>9, <1>11, <1>12

(***************************************************************************)
(* A cell that is made offers a month from its first day on.               *)
(***************************************************************************)
LEMMA MadeHolds ==
    ASSUME Clock, awakeFromNib
    PROVE  /\ made' = now /\ made' \in Int
           /\ minimumDate' \in Int /\ maximumDate' \in Int /\ date' \in Int
           /\ row' \in 1..6
           /\ minimumDate' = (made' \div 24) + 1
           /\ maximumDate' - (made' \div 24) \in 28..31
           /\ date' \in minimumDate'..maximumDate'
<1>1. /\ made' = now /\ minimumDate' = tomorrowDate /\ maximumDate' = nextMonthDate
      /\ date' = minimumDate' /\ row' = 1
  BY DEF awakeFromNib
<1>2. PICK t \in Int : t = now \div 24 /\ t = Today
  BY MonthAhead DEF Today
<1>3. /\ minimumDate' = t + 1 /\ maximumDate' \in Int
      /\ maximumDate' - t \in 28..31
      /\ now \in Int
  BY <1>1, <1>2, MonthAhead
<1>4. made' \div 24 = t
  BY <1>1, <1>2
<1> QED BY <1>1, <1>2, <1>3, <1>4

(***************************************************************************)
(* The slot survives the milliseconds of the database.                     *)
(***************************************************************************)
LEMMA RoundTrip ==
    ASSUME NEW s \in Int
    PROVE  Posted(s) = s * 1000 /\ (s * 1000) \div 1000 = s
<1>1. s # None
  BY NoneAssumption
<1>2. (s * 1000) \div 1000 = s
  OBVIOUS
<1> QED BY <1>1, <1>2 DEF Posted

(***************************************************************************)
(* The slot is a number of hours, and starts between eight and six.        *)
(***************************************************************************)
LEMMA SlotIsInt ==
    ASSUME Types
    PROVE  Slot \in Int /\ Slot = getStartDelSlot /\ timeIntervals[row] \in 8..18
<1>1. timeIntervals[row] \in 8..18
  BY DEF Types, timeIntervals
<1> QED BY <1>1 DEF Types, Slot, getStartDelSlot

(***************************************************************************)
(* At first no checkout is open.                                           *)
(***************************************************************************)
LEMMA SlotInit == Init => DInv
<1> SUFFICES ASSUME Init PROVE DInv
    OBVIOUS
<1>1. PICK d \in StartDays : now = 24 * d
  BY DEF Init
<1>2. ticks = 0 /\ 24 * d = 24 * d + 0 * Step
  BY StartDaysAssumption, StepAssumption DEF Init
<1>3. Clock
  BY <1>1, <1>2, MaxTicksAssumption DEF Clock
<1>4. Types /\ OffersAMonth /\ Sent
  BY DEF Init, Types, OffersAMonth, Sent
<1> QED BY <1>3, <1>4 DEF DInv

(***************************************************************************)
(* Every step keeps the invariant.                                         *)
(***************************************************************************)
LEMMA SlotStep == DInv /\ [Next]_vars => DInv'
<1> SUFFICES ASSUME DInv, [Next]_vars PROVE DInv'
    OBVIOUS
<1>1. CASE OpenCheckout
  <2>1. /\ stage' = "open" /\ now' = now /\ ticks' = ticks /\ shown' = shown
        /\ awakeFromNib /\ stage = "closed"
    BY <1>1 DEF OpenCheckout
  <2>2. Clock'
    BY <2>1 DEF DInv, Clock
  <2>3. Types' /\ OffersAMonth'
    BY <2>1, MadeHolds DEF DInv, Types, OffersAMonth
  <2> QED BY <2>1, <2>2, <2>3 DEF DInv, Sent
<1>2. CASE ScrollAway \/ UNCHANGED vars
  <2>1. /\ stage' = stage /\ now' = now /\ ticks' = ticks /\ shown' = shown
        /\ made' = made /\ minimumDate' = minimumDate /\ maximumDate' = maximumDate
        /\ date' = date /\ row' = row /\ sentAt' = sentAt /\ posted' = posted
    BY <1>2 DEF ScrollAway, vars, cell
  <2>2. Clock' /\ Types' /\ OffersAMonth'
    BY <2>1 DEF DInv, Clock, Types, OffersAMonth
  <2> QED BY <2>1, <2>2 DEF DInv, Sent, Slot
<1>3. CASE ScrollBack
  <2>1. /\ stage' = "open" /\ stage = "open" /\ now' = now /\ ticks' = ticks
        /\ shown' = shown
    BY <1>3 DEF ScrollBack
  <2>2. Clock'
    BY <2>1 DEF DInv, Clock
  <2>3. CASE awakeFromNib
    <3>1. Types' /\ OffersAMonth'
      BY <2>1, <2>3, MadeHolds DEF DInv, Types, OffersAMonth
    <3> QED BY <2>1, <2>2, <3>1 DEF DInv, Sent
  <2>4. CASE UNCHANGED cell
    <3>1. Types' /\ OffersAMonth'
      BY <2>1, <2>4 DEF cell, DInv, Types, OffersAMonth
    <3> QED BY <2>1, <2>2, <3>1 DEF DInv, Sent
  <2> QED BY <1>3, <2>3, <2>4 DEF ScrollBack
<1>4. ASSUME NEW d \in minimumDate..maximumDate, PickDate(d) PROVE DInv'
  <2>1. /\ stage' = stage /\ stage = "open" /\ now' = now /\ ticks' = ticks
        /\ shown' = shown /\ date' = d
        /\ made' = made /\ minimumDate' = minimumDate /\ maximumDate' = maximumDate
        /\ row' = row
    BY <1>4 DEF PickDate
  <2>2. Clock' /\ Types' /\ OffersAMonth'
    BY <2>1 DEF DInv, Clock, Types, OffersAMonth
  <2> QED BY <2>1, <2>2 DEF DInv, Sent
<1>5. ASSUME NEW r \in 1..Len(timeIntervals), PickSlot(r) PROVE DInv'
  <2>1. /\ stage' = stage /\ stage = "open" /\ now' = now /\ ticks' = ticks
        /\ shown' = shown /\ date' = date
        /\ made' = made /\ minimumDate' = minimumDate /\ maximumDate' = maximumDate
        /\ row' = r
    BY <1>5 DEF PickSlot
  <2>2. r \in 1..6
    BY DEF timeIntervals
  <2>3. Clock' /\ Types' /\ OffersAMonth'
    BY <2>1, <2>2 DEF DInv, Clock, Types, OffersAMonth
  <2> QED BY <2>1, <2>3 DEF DInv, Sent
<1>6. CASE clickedSend
  <2>1. /\ stage = "open" /\ stage' = "sent" /\ now' = now /\ ticks' = ticks
        /\ shown' = shown /\ sentAt' = now /\ posted' = Posted(getStartDelSlot)
        /\ made' = made /\ minimumDate' = minimumDate /\ maximumDate' = maximumDate
        /\ date' = date /\ row' = row
    BY <1>6 DEF clickedSend, cell
  <2>2. Clock' /\ Types' /\ OffersAMonth'
    BY <2>1 DEF DInv, Clock, Types, OffersAMonth
  <2>3. posted' = Slot * 1000
    BY <2>1, SlotIsInt, RoundTrip DEF DInv
  <2>4. now \in Int
    BY MonthAhead DEF DInv
  <2>5. Slot' = Slot
    BY <2>1 DEF Slot
  <2> QED BY <2>1, <2>2, <2>3, <2>4, <2>5 DEF DInv, Sent
<1>7. CASE getRequest
  <2>1. /\ stage = "sent" /\ stage' = "read" /\ now' = now /\ ticks' = ticks
        /\ shown' = posted \div 1000 /\ sentAt' = sentAt /\ posted' = posted
        /\ made' = made /\ minimumDate' = minimumDate /\ maximumDate' = maximumDate
        /\ date' = date /\ row' = row
    BY <1>7 DEF getRequest, cell
  <2>2. Clock' /\ Types' /\ OffersAMonth'
    BY <2>1 DEF DInv, Clock, Types, OffersAMonth
  <2>3. sentAt \in Int /\ posted = Slot * 1000
    BY <2>1 DEF DInv, Sent
  <2>4. shown' = Slot
    BY <2>1, <2>3, SlotIsInt, RoundTrip DEF DInv
  <2>5. Slot' = Slot
    BY <2>1 DEF Slot
  <2> QED BY <2>1, <2>2, <2>3, <2>4, <2>5 DEF DInv, Sent
<1>8. CASE Close
  <2>1. Clock' /\ Types' /\ OffersAMonth' /\ Sent'
    BY <1>8 DEF Close, DInv, Clock, Types, OffersAMonth, Sent
  <2> QED BY <2>1 DEF DInv
<1>9. CASE Tick
  <2>1. /\ stage' = stage /\ now' = now + Step /\ ticks' = ticks + 1 /\ shown' = shown
        /\ made' = made /\ minimumDate' = minimumDate /\ maximumDate' = maximumDate
        /\ date' = date /\ row' = row /\ sentAt' = sentAt /\ posted' = posted
        /\ ticks < MaxTicks
    BY <1>9 DEF Tick, cell
  <2>2. Clock'
    <3>1. PICK d \in StartDays : now = 24 * d + ticks * Step
      BY DEF DInv, Clock
    <3>2. ticks \in Nat /\ d \in Int /\ Step \in Nat
      BY StartDaysAssumption, StepAssumption DEF DInv, Clock
    <3>3. now' = 24 * d + ticks' * Step
      BY <2>1, <3>1, <3>2
    <3>4. ticks' \in 0..MaxTicks
      BY <2>1, MaxTicksAssumption DEF DInv, Clock
    <3> QED BY <3>3, <3>4 DEF Clock
  <2>3. Types' /\ OffersAMonth'
    BY <2>1 DEF DInv, Types, OffersAMonth
  <2> QED BY <2>1, <2>2, <2>3 DEF DInv, Sent, Slot
<1> QED BY <1>1, <1>2, <1>3, <1>4, <1>5, <1>6, <1>7, <1>8, <1>9 DEF Next

(***************************************************************************)
(* The invariant holds, in every year and however long the checkout stays  *)
(* open.                                                                   *)
(***************************************************************************)
THEOREM Inductive == Spec => []DInv
<1> QED BY SlotInit, SlotStep, PTL DEF Spec

(***************************************************************************)
(* The cell always offers a month, whatever the day it was made.           *)
(***************************************************************************)
THEOREM MonthOffered == Spec => []OffersAMonth
<1>1. DInv => OffersAMonth
  BY DEF DInv
<1> QED BY <1>1, Inductive, PTL

(***************************************************************************)
(* A slot read back falls on the day and the hour that were picked.        *)
(***************************************************************************)
LEMMA SlotOf ==
    ASSUME Types
    PROVE  Slot \div 24 = date /\ Slot % 24 = timeIntervals[row]
<1>1. timeIntervals[row] \in 8..18 /\ date \in Int
  BY SlotIsInt DEF Types
<1> QED BY <1>1 DEF Slot

(***************************************************************************)
(* The slot shown for a request is one the cell offered: the conversion to *)
(* milliseconds and back loses nothing.                                    *)
(***************************************************************************)
THEOREM ShownIsOffered == Spec => []ShownSlotWasOffered
<1>1. ASSUME DInv, shown # None
      PROVE  /\ shown \div 24 \in minimumDate..maximumDate
             /\ \E r \in DOMAIN timeIntervals : shown % 24 = timeIntervals[r]
  <2>1. shown = Slot /\ stage = "read"
    BY <1>1 DEF DInv, Sent
  <2>2. date \in minimumDate..maximumDate
    BY <1>1, <2>1 DEF DInv, OffersAMonth
  <2>3. row \in DOMAIN timeIntervals
    BY <1>1 DEF DInv, Types, timeIntervals
  <2> QED BY <1>1, <2>1, <2>2, <2>3, SlotOf DEF DInv
<1>2. DInv => ShownSlotWasOffered
  BY <1>1 DEF ShownSlotWasOffered
<1> QED BY <1>2, Inductive, PTL

(***************************************************************************)
(* A slot that had begun when it was asked for was offered by a cell made  *)
(* on an earlier day.                                                      *)
(***************************************************************************)
THEOREM SlotAhead == Spec => []SlotIsAhead
<1>1. ASSUME DInv, shown # None, shown <= sentAt
      PROVE  made \div 24 < sentAt \div 24
  <2>1. shown = Slot /\ stage = "read" /\ sentAt \in Int
    BY <1>1 DEF DInv, Sent
  <2>2. PICK t \in Int : t = made \div 24
    BY <1>1 DEF DInv, Types
  <2>3. date \in Int /\ date >= t + 1
    BY <1>1, <2>1, <2>2 DEF DInv, OffersAMonth, Types
  <2>4. Slot \in Int /\ Slot >= date * 24 + 8
    BY <1>1, <2>3, SlotIsInt DEF DInv, Slot
  <2>5. sentAt >= (t + 1) * 24
    BY <1>1, <2>1, <2>3, <2>4
  <2> QED BY <2>1, <2>2, <2>5
<1>2. DInv => SlotIsAhead
  BY <1>1 DEF SlotIsAhead
<1> QED BY <1>2, Inductive, PTL
=============================================================================
