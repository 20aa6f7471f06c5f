-------------------------- MODULE BusinessCalendar --------------------------
(***************************************************************************)
(* The calendar of the point cycles.  An instant is a whole number of      *)
(* hours since the epoch, in UTC; business days are days of Asia/Shanghai. *)
(* In production HoursPerDay = 24, ZoneOffset = 8 and SettleHour = 2.      *)
(***************************************************************************)
EXTENDS Integers

CONSTANTS HoursPerDay, ZoneOffset, SettleHour

ASSUME CalendarAssumption ==
    /\ HoursPerDay \in Nat \ {0}
    /\ ZoneOffset \in Nat
    /\ SettleHour \in 0..(HoursPerDay - 1)

Instant == Int

\* The local calendar day and the hour within it, as shanghaiIsoDate formats them.
LocalDay(t)  == (t + ZoneOffset) \div HoursPerDay
LocalHour(t) == (t + ZoneOffset) % HoursPerDay

\* Mutant: the calendar day is taken in UTC.
nextSettlementAtUtc(approvedAt) ==
    (approvedAt \div HoursPerDay + 1) * HoursPerDay + SettleHour - ZoneOffset

\* "Calendar day after approval, at 02:00 Asia/Shanghai", in UTC.
nextSettlementAt(approvedAt) ==
    (LocalDay(approvedAt) + 1) * HoursPerDay + SettleHour - ZoneOffset
=============================================================================
