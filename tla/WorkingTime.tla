----------------------------- MODULE WorkingTime -----------------------------
(***************************************************************************)
(* What an employee has to work in a month, twice: MonthlySummaryService adds   *)
(* up target, leave and sickness for the month that is to be locked, row by row *)
(* of the tables; WorkingTimeOverviewService shows the employee every day, one  *)
(* reason per day.  Neither calls the other.                                  *)
(*                                                                          *)
(* Everything here is computed from the rows of LeaveRequests; there is no state *)
(* of its own.  A working day has DayMinutes, and Python rounds half of an odd   *)
(* number to the even one.  Entries of the time account go into both alike and *)
(* are left out.                                                            *)
(* The months compared are the ones the two years of LeaveRequests stand for.   *)
(***************************************************************************)
EXTENDS LeaveRequests, Functions

CONSTANT DayMinutes

ASSUME DayAssumption == DayMinutes \in Nat /\ DayMinutes > 1 /\ IsFiniteSet(Vacations)

Abs(n) == IF n < 0 THEN -n ELSE n
Month(y) == YearStart(y) .. YearStop(y)

(* Minutes of so many half days: Decimal.quantize, half to even.             *)
MinutesOf(halves) ==
  LET n == DayMinutes * halves IN
  IF n % 4 = 3 THEN (n + 1) \div 2 ELSE n \div 2

HalfDays(row) == IF row.half THEN 1 ELSE 2

(* Half days of leave a request grants on a day.                             *)
Granted(r, d) ==
  2 - Half(leave[r].halfStart /\ leave[r].from = d) - Half(leave[r].halfEnd /\ leave[r].to = d)

-----------------------------------------------------------------------------
(* The month's summary.                                                     *)
MutantForgetsPublicHolidays(d) ==
  IF d \notin WorkDays THEN 0
  ELSE IF HolidaysOn(d) # {} THEN MinutesOf(2 - HalfDays(HolidayOn(d)))
  ELSE DayMinutes

TargetMinutes(d) ==
  IF d \notin WorkDays \/ d \in public THEN 0
  ELSE IF HolidaysOn(d) # {} THEN MinutesOf(2 - HalfDays(HolidayOn(d)))
  ELSE DayMinutes

MonthTarget(y) == SumFunction([d \in Month(y) |-> TargetMinutes(d)])

(* Half targets are added as they are, and the sum is cut once.              *)
LeaveOf(r, y) ==
  SumFunction([d \in Month(y) |-> IF Covers(leave[r], d) THEN TargetMinutes(d) * Granted(r, d) ELSE 0])
MonthLeave(y) == SumFunction([r \in Approved |-> LeaveOf(r, y)]) \div 2

SickOf(s, y) == SumFunction([d \in Month(y) |-> IF Covers(s, d) THEN TargetMinutes(d) ELSE 0])
MonthSick(y) == SumFunction([s \in sick |-> SickOf(s, y)])

(* Company holidays that count as vacation, bridge days or not, by the schedule  *)
(* alone.                                                                   *)
CompanyOf(h, y) ==
  SumFunction([d \in Month(y) |-> IF Covers(h, d) /\ d \in WorkDays THEN MinutesOf(HalfDays(h)) ELSE 0])
MonthCompany(y) == SumFunction([h \in {g \in company : g.counts} |-> CompanyOf(h, y)])

-----------------------------------------------------------------------------
(* The overview: of several rows for a day the last one read is shown.        *)
ShownHoliday(d) == CHOOSE h \in HolidaysOn(d) : \A g \in HolidaysOn(d) : h.from >= g.from
LeavesOn(d) == {r \in Approved : Covers(leave[r], d)}
ShownLeave(d) == CHOOSE r \in LeavesOn(d) : \A q \in LeavesOn(d) : leave[r].from >= leave[q].from
SickOn(d) == \E s \in sick : Covers(s, d)

(* The reason a day is shown with; the first that applies.                   *)
Reason(d) ==
  IF d \notin WorkDays THEN "free"
  ELSE IF HolidaysOn(d) # {} THEN "company"
  ELSE IF d \in public THEN "public"
  ELSE IF SickOn(d) THEN "sick"
  ELSE IF LeavesOn(d) # {} THEN "leave"
  ELSE "work"

(* Half days of the day that are vacation, bridge days with it.               *)
ShownVacation(d) ==
  CASE Reason(d) = "leave" -> Granted(ShownLeave(d), d)
    [] Reason(d) = "company" /\ ShownHoliday(d).bridge -> HalfDays(ShownHoliday(d))
    [] OTHER -> 0

ShownPlan(d) ==
  CASE Reason(d) = "work" -> DayMinutes
    [] Reason(d) = "leave" -> DayMinutes - MinutesOf(ShownVacation(d))
    [] Reason(d) = "company" -> DayMinutes - MinutesOf(HalfDays(ShownHoliday(d)))
    [] OTHER -> 0

(* Minutes it shows as company holiday, not as vacation, although the month      *)
(* counts them as vacation.                                                 *)
ShownClosed(d) ==
  IF Reason(d) = "company" /\ ShownHoliday(d).counts /\ ~ShownHoliday(d).bridge
  THEN MinutesOf(HalfDays(ShownHoliday(d))) ELSE 0

-----------------------------------------------------------------------------
(* Properties                                                               *)

(* Days the two treat differently: half a company holiday declared over leave   *)
(* or sickness that was there before, or a public holiday within a company one. *)
Clashing(d) ==
  /\ HolidaysOn(d) # {}
  /\ d \in public \/ (HolidayOn(d).half /\ (SickOn(d) \/ LeavesOn(d) # {}))

(* Something was entered: otherwise every working day is worked.             *)
Entered == Approved # {} \/ sick # {} \/ company # {} \/ public # {}

Halved(d) == \/ \E h \in HolidaysOn(d) : h.half
             \/ \E r \in LeavesOn(d) : Granted(r, d) = 1

(* However leave, sickness and holidays came about, in whatever order and with  *)
(* whatever half days: without clashing days, and without rows saved over newer *)
(* ones, the month to be locked says what the employee was shown.  What is left  *)
(* of the target is what the overview plans, up to a minute for each half day.   *)
(* The vacation of the month is what the overview shows as vacation and bridge   *)
(* days, and, on top of it, the company holidays that count as vacation and are  *)
(* no bridge days: these the overview shows as company holidays, and the         *)
(* accounts of vacation, charged for exactly what it shows, are not charged.    *)
OverviewAgrees ==
  \A y \in Years :
    Entered /\ rushed = {} /\ ~(\E d \in Month(y) : Clashing(d)) =>
      LET slack == Cardinality({d \in Month(y) : Halved(d)})
          plan == SumFunction([d \in Month(y) |-> ShownPlan(d)])
          vacation == SumFunction([d \in Month(y) |-> MinutesOf(ShownVacation(d))])
          closed == SumFunction([d \in Month(y) |-> ShownClosed(d)])
          charged == SumFunction([r \in Approved |-> DaysInYear(leave[r], y)])
          bridges == SumFunction([d \in Month(y) |-> BridgeCost(d)])
      IN
      /\ Abs(MonthTarget(y) - MonthLeave(y) - MonthSick(y) - plan) <= slack
      /\ Abs(MonthLeave(y) + MonthCompany(y) - vacation - closed) <= slack
      /\ charged + bridges = SumFunction([d \in Month(y) |-> ShownVacation(d)])
=============================================================================
