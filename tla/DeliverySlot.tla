---------------------------- MODULE DeliverySlot ----------------------------
(***************************************************************************)
(* The delivery slot: CheckoutDetailCell (the dates and slots it offers,   *)
(* computed once, when the cell is made), its use by the checkout while    *)
(* time goes by, and the conversions of postRequest and getRequest.        *)
(*                                                                         *)
(* Time is counted in hours since 1970, local time, and dates in days;     *)
(* there is no daylight saving.  Calendar and UIDatePicker are external.   *)
(* Assumed, as the cell does: the calendar takes a day or month past the   *)
(* end for one of the next month or year, and the date of the picker is a  *)
(* midnight between its bounds.                                            *)
(***************************************************************************)
EXTENDS Integers, Sequences

CONSTANTS
    Years,      \* the years the calendar is asked for
    StartDays,  \* days on which the app may be started
    Step,       \* hours that go by at a time
    MaxTicks,   \* bound on how often they do
    None        \* nil

ASSUME StepAssumption == Step \in Nat \ {0}
ASSUME MaxTicksAssumption == MaxTicks \in Nat
ASSUME StartDaysAssumption == StartDays \subseteq Int
ASSUME NoneAssumption == None \notin Int

VARIABLES
    stage,      \* "closed", "open", "sent" or "read"
    now,        \* the clock
    ticks,      \* how often it has moved
    made,       \* history: when the detail cell was made
    minimumDate, maximumDate,   \* of its date picker
    date, row,  \* what its pickers have selected
    visible,    \* cellForRow(at:) finds the cell
    sentAt,     \* history: when the request was sent
    posted,     \* delSlotStart of the request in the database
    shown       \* delSlotStart of the request as fetched

cell == <<made, minimumDate, maximumDate, date, row>>
vars == <<stage, now, ticks, cell, visible, sentAt, posted, shown>>

-----------------------------------------------------------------------------
(***************************************************************************)
(* The Gregorian calendar.                                                 *)
(***************************************************************************)
Leap(y) == y % 4 = 0 /\ (y % 100 # 0 \/ y % 400 = 0)

DaysBeforeMonth(y, m) ==
    <<0, 31, 59, 90, 120, 151, 181, 212, 243, 273, 304, 334>>[m]
        + IF m > 2 /\ Leap(y) THEN 1 ELSE 0

DaysBeforeYear(y) ==
    LET n == y - 1
    IN  365 * n + (n \div 4) - (n \div 100) + (n \div 400) - 719162

\* The years asked for are those of the days the clock can show.
ASSUME YearsAssumption ==
    /\ Years \subseteq Int
    /\ \A d \in StartDays, n \in 0..MaxTicks :
        \E y \in Years :
            LET day == (24 * d + n * Step) \div 24
            IN  DaysBeforeYear(y) <= day /\ day < DaysBeforeYear(y + 1)

MonthLength(y, m) ==
    IF m = 12 THEN 31 ELSE DaysBeforeMonth(y, m + 1) - DaysBeforeMonth(y, m)

(***************************************************************************)
(* Calendar.date(from:) at midnight: a month 13 is January of the next     *)
(* year, a day past the end of the month counts on into the next.          *)
(***************************************************************************)
CalendarDate(y, m, d) ==
    LET year == y + ((m - 1) \div 12)
        month == ((m - 1) % 12) + 1
    IN  DaysBeforeYear(year) + DaysBeforeMonth(year, month) + d - 1

(***************************************************************************)
(* Calendar.dateComponents(in:from:).                                      *)
(***************************************************************************)
dateComponents(day) ==
    CHOOSE c \in [year: Years, month: 1..12, day: 1..31] :
        /\ c.day <= MonthLength(c.year, c.month)
        /\ CalendarDate(c.year, c.month, c.day) = day

-----------------------------------------------------------------------------
Today == now \div 24

\* Mutant of tomorrowDate: the day is not moved on.
tomorrowDateToday ==
    LET c == dateComponents(Today) IN CalendarDate(c.year, c.month, c.day)

tomorrowDate ==
    LET c == dateComponents(Today) IN CalendarDate(c.year, c.month, c.day + 1)

\* Mutant of nextMonthDate: the month wraps, the year stays.
nextMonthDateSameYear ==
    LET c == dateComponents(Today)
    IN  CalendarDate(c.year, (c.month % 12) + 1, c.day)

nextMonthDate ==
    LET c == dateComponents(Today) IN CalendarDate(c.year, c.month + 1, c.day)

(***************************************************************************)
(* timeIntervals: the hour each of the six slots starts.                   *)
(***************************************************************************)
timeIntervals == <<8, 10, 12, 14, 16, 18>>

(***************************************************************************)
(* awakeFromNib: the picker, which starts at now, is moved to its minimum. *)
(***************************************************************************)
awakeFromNib ==
    /\ made' = now
    /\ minimumDate' = tomorrowDate
    /\ maximumDate' = nextMonthDate
    /\ date' = minimumDate'
    /\ row' = 1

getStartDelSlot == date * 24 + timeIntervals[row]

(***************************************************************************)
(* The checkout is opened: its table makes the cell.                       *)
(***************************************************************************)
OpenCheckout ==
    /\ stage = "closed"
    /\ stage' = "open"
    /\ visible' = TRUE
    /\ awakeFromNib
    /\ UNCHANGED <<now, ticks, sentAt, posted, shown>>

(***************************************************************************)
(* The cell is scrolled out of sight, and back: the table takes it from    *)
(* its reuse queue as it was, or makes another if it has been purged.      *)
(***************************************************************************)
ScrollAway ==
    /\ stage = "open" /\ visible
    /\ visible' = FALSE
    /\ UNCHANGED <<stage, now, ticks, cell, sentAt, posted, shown>>

ScrollBack ==
    /\ stage = "open" /\ ~visible
    /\ visible' = TRUE
    /\ awakeFromNib \/ UNCHANGED cell
    /\ UNCHANGED <<stage, now, ticks, sentAt, posted, shown>>

PickDate(d) ==
    /\ stage = "open" /\ visible
    /\ date' = d
    /\ UNCHANGED <<stage, now, ticks, made, minimumDate, maximumDate, row,
                   visible, sentAt, posted, shown>>

PickSlot(r) ==
    /\ stage = "open" /\ visible
    /\ row' = r
    /\ UNCHANGED <<stage, now, ticks, made, minimumDate, maximumDate, date,
                   visible, sentAt, posted, shown>>

\* Mutant of Posted: seconds are sent for milliseconds.
PostedSeconds(slot) == slot

(***************************************************************************)
(* What postRequest makes of the request's slot.  Without one it takes     *)
(* eight o'clock of the same day, with a factor of 1000 too many.          *)
(***************************************************************************)
Posted(slot) ==
    (IF slot = None THEN (Today * 24 + 8) * 1000 ELSE slot) * 1000

(***************************************************************************)
(* clickedSend, with the cell in sight; else it returns at once.           *)
(***************************************************************************)
clickedSend ==
    /\ stage = "open" /\ visible
    /\ stage' = "sent"
    /\ sentAt' = now
    /\ posted' = Posted(getStartDelSlot)
    /\ UNCHANGED <<now, ticks, cell, visible, shown>>

(***************************************************************************)
(* getRequest, when the list is fetched.                                   *)
(***************************************************************************)
getRequest ==
    /\ stage = "sent"
    /\ stage' = "read"
    /\ shown' = posted \div 1000
    /\ UNCHANGED <<now, ticks, cell, visible, sentAt, posted>>

(***************************************************************************)
(* The checkout is dismissed, or the app has returned to the main screen;  *)
(* the cell is gone.                                                       *)
(***************************************************************************)
Close ==
    /\ stage \in {"open", "read"}
    /\ stage' = "closed"
    /\ visible' = FALSE
    /\ made' = 0 /\ minimumDate' = 0 /\ maximumDate' = 0 /\ date' = 0 /\ row' = 1
    /\ sentAt' = None /\ posted' = None /\ shown' = None
    /\ UNCHANGED <<now, ticks>>

Tick ==
    /\ ticks < MaxTicks
    /\ ticks' = ticks + 1
    /\ now' = now + Step
    /\ UNCHANGED <<stage, cell, visible, sentAt, posted, shown>>

Init ==
    /\ stage = "closed"
    /\ now \in {24 * d : d \in StartDays}
    /\ ticks = 0
    /\ made = 0 /\ minimumDate = 0 /\ maximumDate = 0 /\ date = 0 /\ row = 1
    /\ visible = FALSE
    /\ sentAt = None /\ posted = None /\ shown = None

Next ==
    \/ OpenCheckout
    \/ ScrollAway
    \/ ScrollBack
    \/ \E d \in minimumDate..maximumDate : PickDate(d)
    \/ \E r \in 1..Len(timeIntervals) : PickSlot(r)
    \/ clickedSend
    \/ getRequest
    \/ Close
    \/ Tick

Spec == Init /\ [][Next]_vars

-----------------------------------------------------------------------------
(***************************************************************************)
(* The cell always offers a month: from the day after it was made to 28 to *)
(* 31 days after, in December, at the end of January and in a leap year    *)
(* too; and the date it has selected is one of them, also after the cell   *)
(* was made anew.                                                          *)
(***************************************************************************)
OffersAMonth ==
    stage # "closed" =>
        /\ minimumDate = (made \div 24) + 1
        /\ maximumDate - (made \div 24) \in 28..31
        /\ date \in minimumDate..maximumDate

(***************************************************************************)
(* The slot shown for a request that was sent is one that was offered: it  *)
(* starts at one of the six hours, on a day of the cell's month.           *)
(***************************************************************************)
ShownSlotWasOffered ==
    shown # None =>
        /\ shown \div 24 \in minimumDate..maximumDate
        /\ \E r \in DOMAIN timeIntervals : shown % 24 = timeIntervals[r]

(***************************************************************************)
(* A request asks for a slot that has begun before it was sent only if the *)
(* cell was made on an earlier day: the dates are computed once, and a     *)
(* checkout left open overnight offers a day that is today.                *)
(***************************************************************************)
SlotIsAhead ==
    (shown # None /\ shown <= sentAt) => made \div 24 < sentAt \div 24
=============================================================================
