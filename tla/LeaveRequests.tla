--------------------------- MODULE LeaveRequests ---------------------------
(***************************************************************************)
(* One employee's vacation: requests with half days, sick leaves, company      *)
(* holidays (some of them counted as vacation, some of these bridge days that   *)
(* the account is charged for, some of half a day) and public holidays, and     *)
(* what they cost in each of two years.                                      *)
(*                                                                          *)
(* People work on forms and admin actions at desks.  A form is loaded, checked *)
(* and saved; no lock is held in between, and saving writes the whole row.     *)
(*                                                                          *)
(* Days are numbered, YearEnd is the last day of the first year.  Costs are    *)
(* counted in half days, so every number is natural.  Another employee's rows  *)
(* are never looked at, and leave that costs no vacation only adds conflicts,  *)
(* so both are left out.  Inactive company holidays count as deleted.         *)
(***************************************************************************)
EXTENDS Integers, FiniteSets

CONSTANTS
  Vacations,    \* the rows of LeaveRequest
  Desks,        \* people at work
  LastDay,      \* the calendar is 1 .. LastDay
  YearEnd,      \* last day of the first year
  WorkDays,     \* days with a target in the employee's schedule
  MaxForms,     \* bound: forms and actions that are begun
  MaxHalves     \* bound: requests with half days in a state

ASSUME CalendarAssumption ==
  /\ LastDay \in Nat \ {0} /\ YearEnd \in 0 .. LastDay
  /\ WorkDays \subseteq 1 .. LastDay
  /\ MaxForms \in Nat

VARIABLES
  leave,        \* the requests
  sick,         \* the sick leaves
  company,      \* the active company holidays
  public,       \* the public holidays of the employee's calendar
  desk,         \* per desk: what it has loaded and checked
  rushed,       \* history: rows saved although another was saved since they were loaded
  forms

leaveVars == <<leave, sick, company, public, desk, rushed, forms>>

-----------------------------------------------------------------------------
Days == 1 .. LastDay
Statuses == {"none", "requested", "approved", "rejected", "cancelled"}
LeaveRow == [status : Statuses, from : Days, to : Days, halfStart : BOOLEAN, halfEnd : BOOLEAN]
SickRow == {s \in [from : Days, to : Days] : s.from <= s.to}
CompanyRow ==
  {h \in [from : Days, to : Days, counts : BOOLEAN, bridge : BOOLEAN, half : BOOLEAN] :
     h.from <= h.to /\ (h.bridge => h.counts)}

NoRow == [status |-> "none", from |-> 1, to |-> 1, halfStart |-> FALSE, halfEnd |-> FALSE]
NoForm == [pc |-> "free", table |-> "none", old |-> {}, row |-> NoRow, late |-> FALSE]

Covers(i, d) == i.from <= d /\ d <= i.to
Overlap(i, j) == i.from <= j.to /\ j.from <= i.to

(* The company holiday of a day: the first that covers it.                   *)
HolidaysOn(d) == {h \in company : Covers(h, d)}
HolidayOn(d) == CHOOSE h \in HolidaysOn(d) : \A g \in HolidaysOn(d) : h.from <= g.from

(* Days on which the employee has something to work: half a company holiday    *)
(* leaves half of the target.                                               *)
Target(d) ==
  /\ d \in WorkDays /\ d \notin public
  /\ HolidaysOn(d) # {} => HolidayOn(d).half

Half(b) == IF b THEN 1 ELSE 0

(* Half days a span costs.                                                  *)
LeaveDays(from, to, halfStart, halfEnd) ==
  2 * Cardinality({d \in from .. to : Target(d)})
    - Half(halfStart /\ from <= to /\ Target(from)) - Half(halfEnd /\ from <= to /\ Target(to))

DaysOf(r) == LeaveDays(r.from, r.to, r.halfStart, r.halfEnd)

(* What a request costs on the account of a year.                            *)
Years == {1, 2}
YearStart(y) == IF y = 1 THEN 1 ELSE YearEnd + 1
YearStop(y) == IF y = 1 THEN YearEnd ELSE LastDay
Later(x, y) == IF x > y THEN x ELSE y
Earlier(x, y) == IF x < y THEN x ELSE y

MutantKeepsHalfDays(r, y) ==
  IF r.from > YearStop(y) \/ r.to < YearStart(y) THEN 0
  ELSE LeaveDays(Later(r.from, YearStart(y)), Earlier(r.to, YearStop(y)), r.halfStart, r.halfEnd)

DaysInYear(r, y) ==
  IF r.from > YearStop(y) \/ r.to < YearStart(y) THEN 0
  ELSE LeaveDays(Later(r.from, YearStart(y)), Earlier(r.to, YearStop(y)),
                 r.halfStart /\ r.from >= YearStart(y), r.halfEnd /\ r.to <= YearStop(y))

(* What bridge days cost on a day; a public holiday is free anyway.          *)
BridgeCost(d) ==
  LET bridges == {h \in HolidaysOn(d) : h.bridge}
  IN  IF d \in WorkDays \ public
      THEN 2 * Cardinality({h \in bridges : ~h.half}) + Cardinality({h \in bridges : h.half})
      ELSE 0

-----------------------------------------------------------------------------
(* What the forms and actions check.                                        *)
Approved == {r \in Vacations : leave[r].status = "approved"}

MutantIgnoresSickness(r, row) ==
  /\ \A q \in Approved \ {r} : ~Overlap(leave[q], row)
  /\ \A h \in company : ~Overlap(h, row)

NoConflict(r, row) ==
  /\ \A q \in Approved \ {r} : ~Overlap(leave[q], row)
  /\ \A s \in sick : ~Overlap(s, row)
  /\ \A h \in company : ~Overlap(h, row)

(* LeaveRequest.clean: its check of conflicts repeats the one approval makes.  *)
Clean(r, row) ==
  /\ row.from <= row.to
  /\ ~(row.from = row.to /\ row.halfStart /\ row.halfEnd)
  /\ DaysOf(row) > 0
  /\ row.status = "approved" => NoConflict(r, row)

CleanSick(old, row) ==
  /\ \A s \in sick \ old : ~Overlap(s, row)
  /\ \A r \in Approved : ~Overlap(leave[r], row)
  /\ \A h \in company : ~Overlap(h, row)

CleanCompany(old, row) == \A h \in company \ old : ~Overlap(h, row)

May(from, to) ==
  \/ from = to
  \/ from = "requested" /\ to \in {"approved", "rejected", "cancelled"}
  \/ from = "approved" /\ to = "cancelled"

(* Some requests are there, open or approved.                                *)
LeaveInit ==
  /\ leave \in [Vacations -> {NoRow} \cup
                 {r \in LeaveRow : /\ r.status \in {"requested", "approved"} /\ r.from <= r.to
                                  /\ ~r.halfStart /\ ~r.halfEnd
                                  /\ \E d \in WorkDays : Covers(r, d)}]
  /\ \A r \in Approved : \A q \in Approved \ {r} : ~Overlap(leave[r], leave[q])
  /\ sick = {} /\ company = {} /\ public = {}
  /\ desk = [x \in Desks |-> NoForm]
  /\ rushed = {}
  /\ forms = 0

Bounded == forms < MaxForms /\ forms' = forms + 1
IdleDesk(x) == desk[x].pc = "free"

-----------------------------------------------------------------------------
(* A page or an admin action loads a request; "none" is the form for a new one. *)
OpensRequest(x, r) ==
  /\ IdleDesk(x) /\ Bounded
  /\ desk' = [desk EXCEPT ![x] = [pc |-> "loaded", table |-> "leave", old |-> {r},
                                  row |-> leave[r], late |-> FALSE]]
  /\ UNCHANGED <<leave, sick, company, public, rushed>>

(* What was loaded passes the checks with what is to be saved.               *)
Checked(x, row) ==
  /\ desk' = [desk EXCEPT ![x].pc = "checked", ![x].row = row]
  /\ UNCHANGED <<leave, sick, company, public, rushed, forms>>

(* The actions approve, reject and cancel: the status allowed is the loaded one's. *)
Decides(x, to) ==
  LET row == [desk[x].row EXCEPT !.status = to] IN
  /\ desk[x].pc = "loaded" /\ desk[x].table = "leave" /\ desk[x].row.status # "none"
  /\ May(desk[x].row.status, to)
  /\ \A r \in desk[x].old : Clean(r, row)
  /\ Checked(x, row)

(* The form: an employee changes what is only requested, a manager anything, the *)
(* status included.  The two statuses in which a row does nothing are left to    *)
(* Decides.                                                                *)
FillsIn(x, row) ==
  /\ desk[x].pc = "loaded" /\ desk[x].table = "leave"
  /\ row.status \in {"requested", "approved"}
  /\ row.halfStart \/ row.halfEnd =>
       Cardinality({r \in Vacations \ desk[x].old : leave[r].halfStart \/ leave[r].halfEnd}) < MaxHalves
  /\ \A r \in desk[x].old : Clean(r, row)
  /\ Checked(x, row)

(* Sick leaves and company holidays: a new row, or an old one edited.        *)
FilesSick(x, old, row) ==
  /\ IdleDesk(x) /\ Bounded
  /\ CleanSick(old, row)
  /\ desk' = [desk EXCEPT ![x] = [pc |-> "checked", table |-> "sick", old |-> old,
                                  row |-> row, late |-> FALSE]]
  /\ UNCHANGED <<leave, sick, company, public, rushed>>

FilesCompany(x, old, row) ==
  /\ IdleDesk(x) /\ Bounded
  /\ CleanCompany(old, row)
  /\ desk' = [desk EXCEPT ![x] = [pc |-> "checked", table |-> "company", old |-> old,
                                  row |-> row, late |-> FALSE]]
  /\ UNCHANGED <<leave, sick, company, public, rushed>>

(* A refused form or action leaves everything as it is.                      *)
Refused(x) ==
  /\ desk[x].pc = "loaded"
  /\ desk' = [desk EXCEPT ![x] = NoForm]
  /\ UNCHANGED <<leave, sick, company, public, rushed, forms>>

(* save() writes the whole row, also when it was changed or deleted meanwhile. *)
Saves(x) ==
  LET f == desk[x] IN
  /\ f.pc = "checked"
  /\ leave' = IF f.table = "leave" THEN [r \in Vacations |-> IF r \in f.old THEN f.row ELSE leave[r]] ELSE leave
  /\ sick' = IF f.table = "sick" THEN (sick \ f.old) \cup {f.row} ELSE sick
  /\ company' = IF f.table = "company" THEN (company \ f.old) \cup {f.row} ELSE company
  /\ rushed' = IF f.late THEN rushed \cup (IF f.table = "leave" THEN f.old ELSE {f.row}) ELSE rushed
  /\ desk' = [y \in Desks |-> IF y = x THEN NoForm ELSE [desk[y] EXCEPT !.late = desk[y].pc # "free"]]
  /\ UNCHANGED <<public, forms>>

Deletes ==
  /\ Bounded
  /\ \/ \E r \in Vacations : /\ leave[r].status # "none" /\ leave' = [leave EXCEPT ![r] = NoRow]
                            /\ UNCHANGED <<sick, company>>
     \/ \E s \in sick : sick' = sick \ {s} /\ UNCHANGED <<leave, company>>
     \/ \E h \in company : company' = company \ {h} /\ UNCHANGED <<leave, sick>>
  /\ UNCHANGED <<public, desk, rushed>>

(* The import of public holidays looks at no other table.                    *)
PublicHolidayImported(d) ==
  /\ Bounded
  /\ public' = public \cup {d}
  /\ UNCHANGED <<leave, sick, company, desk, rushed>>

LeaveNext ==
  \/ \E x \in Desks :
       \/ \E r \in Vacations : OpensRequest(x, r)
       \/ \E to \in {"approved", "rejected", "cancelled"} : Decides(x, to)
       \/ \E row \in LeaveRow : FillsIn(x, row)
       \/ \E old \in {{}} \cup {{s} : s \in sick}, row \in SickRow : FilesSick(x, old, row)
       \/ \E old \in {{}} \cup {{h} : h \in company}, row \in CompanyRow : FilesCompany(x, old, row)
       \/ Refused(x) \/ Saves(x)
  \/ Deletes
  \/ \E d \in Days : PublicHolidayImported(d)

LeaveSpec == LeaveInit /\ [][LeaveNext]_leaveVars

-----------------------------------------------------------------------------
(* Every variable keeps its type.                                            *)
LeaveTypeOK ==
  /\ leave \in [Vacations -> LeaveRow]
  /\ sick \subseteq SickRow /\ company \subseteq CompanyRow /\ public \subseteq Days
  /\ \A x \in Desks :
       /\ desk[x].pc \in {"free", "loaded", "checked"} /\ desk[x].late \in BOOLEAN
       /\ \/ desk[x].table \in {"none", "leave"} /\ desk[x].row \in LeaveRow /\ desk[x].old \subseteq Vacations
          \/ desk[x].table = "sick" /\ desk[x].row \in SickRow
          \/ desk[x].table = "company" /\ desk[x].row \in CompanyRow
  /\ rushed \subseteq Vacations \cup SickRow \cup CompanyRow
  /\ forms \in 0 .. MaxForms

(* Half days the account is charged for a day by a request.                  *)
Charge(r, d) ==
  IF Covers(leave[r], d) /\ Target(d)
  THEN 2 - Half(leave[r].halfStart /\ leave[r].from = d) - Half(leave[r].halfEnd /\ leave[r].to = d)
  ELSE 0

(* However requests are filed, edited, approved and cancelled, and holidays     *)
(* declared in between: no day is charged for by two requests, or by a request  *)
(* and a whole bridge day, and nobody is on vacation while sick.  Half a bridge *)
(* day declared over approved vacation is charged on top of it.  Rows saved     *)
(* although another was saved since they were loaded are excepted: nothing locks. *)
NoDayIsChargedTwice ==
  \A d \in Days :
    LET paying == {r \in Approved \ rushed : Charge(r, d) > 0} IN
    /\ Cardinality(paying) <= 1
    /\ HolidaysOn(d) \cap rushed = {} =>
         \A r \in paying :
           Charge(r, d) + BridgeCost(d) <= IF \E h \in HolidaysOn(d) : h.half THEN 3 ELSE 2
    /\ \A r \in Approved \ rushed, s \in sick \ rushed : ~(Covers(s, d) /\ Covers(leave[r], d))

(* The accounts of the years add up: what an approved request costs the two    *)
(* years together is what it says it costs, wherever the year ends in it, half  *)
(* days, holidays and weekends included.                                     *)
YearsAddUp ==
  \A r \in Approved : DaysInYear(leave[r], 1) + DaysInYear(leave[r], 2) = DaysOf(leave[r])
=============================================================================
