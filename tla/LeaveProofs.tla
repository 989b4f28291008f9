----------------------------- MODULE LeaveProofs -----------------------------
(***************************************************************************)
(* What holds of LeaveRequests for any calendar, any number of requests, desks  *)
(* and forms.  Nothing locks, so the rows that conflict with a form may change   *)
(* after its check; the invariant says what is left of that check on every      *)
(* desk (Fits): it still stands if nobody has saved since the form was loaded,   *)
(* for deleting a row and importing a holiday create no conflict.              *)
(***************************************************************************)
EXTENDS WorkingTime, FiniteSetTheorems, WellFoundedInduction, TLAPS

Forms == [pc : {"free", "loaded", "checked"}, table : {"none", "leave", "sick", "company"},
          old : SUBSET (Vacations \cup SickRow \cup CompanyRow), row : LeaveRow \cup SickRow \cup CompanyRow,
          late : BOOLEAN]

(* What is on a desk belongs together ...                                    *)
FormOK(f) ==
  /\ f.table = "none" => f.row \in LeaveRow /\ f.old \subseteq Vacations
  /\ f.table = "leave" => f.row \in LeaveRow /\ \E r \in Vacations : f.old = {r}
  /\ f.table = "sick" => f.row \in SickRow
  /\ f.table = "company" => f.row \in CompanyRow
  /\ f.pc = "loaded" => f.table = "leave"
  /\ f.pc = "checked" => f.table # "none"

(* ... and what is checked and not late fits the tables as they are.          *)
Fits(f) ==
  /\ f.table = "leave" /\ f.row.status = "approved" =>
       /\ f.row.from <= f.row.to
       /\ f.late = FALSE => \A r \in f.old : NoConflict(r, f.row)
  /\ f.table = "sick" /\ f.late = FALSE => CleanSick(f.old, f.row)
  /\ f.table = "company" /\ f.late = FALSE => CleanCompany(f.old, f.row)

DesksOK ==
  /\ desk \in [Desks -> Forms]
  /\ \A x \in Desks : FormOK(desk[x])
  /\ \A x \in Desks : desk[x].pc = "checked" => Fits(desk[x])

LeaveTables ==
  /\ leave \in [Vacations -> LeaveRow] /\ sick \subseteq SickRow /\ company \subseteq CompanyRow
  /\ public \subseteq Days /\ rushed \subseteq Vacations \cup SickRow \cup CompanyRow
  /\ forms \in 0 .. MaxForms

(* No two rows that were saved in turn are about the same day.                *)
Apart ==
  /\ \A r, q \in Approved \ rushed : r # q => ~Overlap(leave[r], leave[q])
  /\ \A r \in Approved \ rushed, s \in sick \ rushed : ~Overlap(leave[r], s)
  /\ \A g, h \in company \ rushed : g # h => ~Overlap(g, h)
  /\ \A s, t \in sick \ rushed : s # t => ~Overlap(s, t)

Straight == \A r \in Approved : leave[r].from <= leave[r].to

LeaveIInv == LeaveTables /\ DesksOK /\ Apart /\ Straight

-----------------------------------------------------------------------------
LEMMA RowFacts ==
  /\ NoRow \in LeaveRow /\ NoRow.status = "none"
  /\ NoForm \in Forms /\ FormOK(NoForm) /\ NoForm.pc = "free"
<1>1. NoRow \in LeaveRow /\ NoRow.status = "none"
  BY CalendarAssumption DEF NoRow, LeaveRow, Statuses, Days
<1>2. NoForm \in Forms /\ NoForm.pc = "free" /\ NoForm.table = "none" /\ NoForm.row = NoRow /\ NoForm.old = {}
  BY <1>1 DEF NoForm, Forms
<1> QED
  BY <1>1, <1>2 DEF FormOK

LEMMA SpanFacts ==
  /\ \A r \in LeaveRow : r.from \in Int /\ r.to \in Int
  /\ \A r \in SickRow : r.from \in Int /\ r.to \in Int /\ r.from <= r.to
  /\ \A r \in CompanyRow : r.from \in Int /\ r.to \in Int /\ r.from <= r.to
  BY DEF LeaveRow, SickRow, CompanyRow, Days

LEMMA OverlapFacts ==
  /\ \A i, j : Overlap(i, j) <=> Overlap(j, i)
  BY Zenon DEF Overlap

LEMMA LeaveTypeParts ==
  LeaveTables /\ DesksOK => LeaveTypeOK
<1> SUFFICES ASSUME LeaveTables, DesksOK PROVE LeaveTypeOK
  OBVIOUS
<1>1. ASSUME NEW x \in Desks
      PROVE  /\ desk[x].pc \in {"free", "loaded", "checked"} /\ desk[x].late \in BOOLEAN
             /\ \/ desk[x].table \in {"none", "leave"} /\ desk[x].row \in LeaveRow /\ desk[x].old \subseteq Vacations
                \/ desk[x].table = "sick" /\ desk[x].row \in SickRow
                \/ desk[x].table = "company" /\ desk[x].row \in CompanyRow
  <2>1. PICK f \in Forms : f = desk[x]
    BY DEF DesksOK
  <2>2. f.late \in BOOLEAN
    BY Zenon DEF Forms
  <2>3. f.pc \in {"free", "loaded", "checked"} /\ f.table \in {"none", "leave", "sick", "company"} /\ FormOK(f)
    BY <2>1 DEF DesksOK, Forms
  <2>4. /\ \/ f.table \in {"none", "leave"} /\ f.row \in LeaveRow /\ f.old \subseteq Vacations
           \/ f.table = "sick" /\ f.row \in SickRow
           \/ f.table = "company" /\ f.row \in CompanyRow
    BY <2>3 DEF FormOK
  <2> QED
    BY <2>1, <2>2, <2>3, <2>4, Zenon
<1> QED
  BY <1>1, Zenon DEF LeaveTables, LeaveTypeOK

(* A step at one desk only.                                                  *)
LEMMA DeskStep ==
  ASSUME LeaveIInv, NEW x \in Desks, NEW f \in Forms, FormOK(f), f.pc = "checked" => Fits(f),
         desk' = [desk EXCEPT ![x] = f], UNCHANGED <<leave, sick, company, public, rushed>>,
         forms' = forms \/ Bounded
  PROVE  LeaveIInv'
<1>1. desk' \in [Desks -> Forms] /\ desk'[x] = f /\ \A y \in Desks \ {x} : desk'[y] = desk[y]
  BY DEF LeaveIInv, DesksOK
<1>2. \A g : Fits(g) => Fits(g)'
  BY Zenon DEF Fits, NoConflict, CleanSick, CleanCompany, Approved
<1>3. LeaveTables'
  BY CalendarAssumption DEF LeaveIInv, LeaveTables, Bounded
<1>4. Apart' /\ Straight'
  BY Zenon DEF LeaveIInv, Apart, Straight, Approved
<1>5. \A y \in Desks : FormOK(desk'[y]) /\ (desk'[y].pc = "checked" => Fits(desk'[y]))
  BY <1>1 DEF LeaveIInv, DesksOK
<1> QED
  BY <1>1, <1>2, <1>3, <1>4, <1>5, Zenon DEF LeaveIInv, DesksOK, FormOK

LEMMA OpensRequestKeeps ==
  ASSUME LeaveIInv, NEW x \in Desks, NEW r \in Vacations, OpensRequest(x, r)
  PROVE  LeaveIInv'
<1> DEFINE f == [pc |-> "loaded", table |-> "leave", old |-> {r}, row |-> leave[r], late |-> FALSE]
<1>1. leave[r] \in LeaveRow
  BY DEF LeaveIInv, LeaveTables
<1>2. f \in Forms /\ f.pc = "loaded" /\ f.table = "leave" /\ f.row = leave[r] /\ f.old = {r}
  BY <1>1 DEF Forms
<1>3. /\ desk' = [desk EXCEPT ![x] = f] /\ UNCHANGED <<leave, sick, company, public, rushed>> /\ Bounded
  BY Zenon DEF OpensRequest
<1> HIDE DEF f
<1>4. FormOK(f)
  BY <1>1, <1>2 DEF FormOK
<1> QED
  BY <1>2, <1>3, <1>4, DeskStep

(* A form that was loaded passes its checks with this row.                   *)
LEMMA CheckedKeeps ==
  ASSUME LeaveIInv, NEW x \in Desks, NEW row \in LeaveRow, desk[x].pc = "loaded",
         \A r \in desk[x].old : Clean(r, row), Checked(x, row)
  PROVE  LeaveIInv'
<1> DEFINE f == [desk[x] EXCEPT !.pc = "checked", !.row = row]
<1>1. desk[x] \in Forms /\ FormOK(desk[x])
  BY DEF LeaveIInv, DesksOK
<1>2. /\ f \in Forms /\ f.pc = "checked" /\ f.row = row
      /\ f.table = desk[x].table /\ f.old = desk[x].old
  BY <1>1 DEF Forms
<1>3. /\ desk' = [desk EXCEPT ![x] = f] /\ UNCHANGED <<leave, sick, company, public, rushed>> /\ forms' = forms
  BY Zenon DEF Checked
<1> HIDE DEF f
<1>4. f.table = "leave" /\ \E r \in Vacations : f.old = {r}
  BY <1>1, <1>2 DEF FormOK
<1>5. FormOK(f)
  BY <1>2, <1>4 DEF FormOK
<1>6. Fits(f)
  BY <1>2, <1>4 DEF Fits, Clean
<1> QED
  BY <1>2, <1>3, <1>5, <1>6, DeskStep

LEMMA DecidesKeeps ==
  ASSUME LeaveIInv, NEW x \in Desks, NEW to \in {"approved", "rejected", "cancelled"}, Decides(x, to)
  PROVE  LeaveIInv'
<1>1. PICK row : row = [desk[x].row EXCEPT !.status = to]
  OBVIOUS
<1>2. /\ desk[x].pc = "loaded" /\ desk[x].table = "leave" /\ \A r \in desk[x].old : Clean(r, row) /\ Checked(x, row)
  BY <1>1, Zenon DEF Decides
<1>3. Checked(x, row)
  BY <1>1, Zenon DEF Decides
<1>4. desk[x].row \in LeaveRow
  BY <1>2 DEF LeaveIInv, DesksOK, FormOK
<1>5. row \in LeaveRow
  BY <1>1, <1>4 DEF LeaveRow, Statuses
<1> QED
  BY <1>2, <1>3, <1>5, CheckedKeeps

LEMMA FillsInKeeps ==
  ASSUME LeaveIInv, NEW x \in Desks, NEW row \in LeaveRow, FillsIn(x, row)
  PROVE  LeaveIInv'
  BY CheckedKeeps DEF FillsIn

LEMMA FilesSickKeeps ==
  ASSUME LeaveIInv, NEW x \in Desks, NEW old \in {{}} \cup {{s} : s \in sick}, NEW row \in SickRow, FilesSick(x, old, row)
  PROVE  LeaveIInv'
<1> DEFINE f == [pc |-> "checked", table |-> "sick", old |-> old, row |-> row, late |-> FALSE]
<1>1. old \subseteq SickRow
  BY DEF LeaveIInv, LeaveTables
<1>2. f \in Forms /\ f.pc = "checked" /\ f.table = "sick" /\ f.row = row /\ f.old = old
  BY <1>1 DEF Forms
<1>3. /\ desk' = [desk EXCEPT ![x] = f] /\ UNCHANGED <<leave, sick, company, public, rushed>> /\ Bounded
      /\ CleanSick(old, row)
  BY Zenon DEF FilesSick
<1> HIDE DEF f
<1>4. FormOK(f) /\ Fits(f)
  BY <1>2, <1>3 DEF FormOK, Fits
<1> QED
  BY <1>2, <1>3, <1>4, DeskStep

LEMMA FilesCompanyKeeps ==
  ASSUME LeaveIInv, NEW x \in Desks, NEW old \in {{}} \cup {{h} : h \in company}, NEW row \in CompanyRow,
         FilesCompany(x, old, row)
  PROVE  LeaveIInv'
<1> DEFINE f == [pc |-> "checked", table |-> "company", old |-> old, row |-> row, late |-> FALSE]
<1>1. old \subseteq CompanyRow
  BY DEF LeaveIInv, LeaveTables
<1>2. f \in Forms /\ f.pc = "checked" /\ f.table = "company" /\ f.row = row /\ f.old = old
  BY <1>1 DEF Forms
<1>3. /\ desk' = [desk EXCEPT ![x] = f] /\ UNCHANGED <<leave, sick, company, public, rushed>> /\ Bounded
      /\ CleanCompany(old, row)
  BY Zenon DEF FilesCompany
<1> HIDE DEF f
<1>4. FormOK(f) /\ Fits(f)
  BY <1>2, <1>3 DEF FormOK, Fits
<1> QED
  BY <1>2, <1>3, <1>4, DeskStep

LEMMA RefusedKeeps ==
  ASSUME LeaveIInv, NEW x \in Desks, Refused(x)
  PROVE  LeaveIInv'
<1>1. desk' = [desk EXCEPT ![x] = NoForm] /\ UNCHANGED <<leave, sick, company, public, rushed>> /\ forms' = forms
  BY Zenon DEF Refused
<1> QED
  BY <1>1, RowFacts, DeskStep

-----------------------------------------------------------------------------
(* Saving.  The desk's row goes into its table; whoever else has a form there  *)
(* is late.                                                                 *)
LEMMA LateForms ==
  ASSUME NEW f \in Forms, NEW b \in BOOLEAN, FormOK(f)
  PROVE  /\ [f EXCEPT !.late = b] \in Forms /\ FormOK([f EXCEPT !.late = b])
         /\ [f EXCEPT !.late = b].pc = f.pc /\ [f EXCEPT !.late = b].late = b
         /\ [f EXCEPT !.late = b].table = f.table /\ [f EXCEPT !.late = b].old = f.old
         /\ [f EXCEPT !.late = b].row = f.row
<1>1. PICK g : g = [f EXCEPT !.late = b]
  OBVIOUS
<1>2. g \in Forms /\ g.pc = f.pc /\ g.late = b /\ g.table = f.table /\ g.old = f.old /\ g.row = f.row
  BY <1>1 DEF Forms
<1>3. FormOK(g)
  BY <1>2 DEF FormOK
<1> QED
  BY <1>1, <1>2, <1>3, Zenon

LEMMA DesksAfterSave ==
  ASSUME LeaveIInv, NEW x \in Desks, Saves(x)
  PROVE  /\ desk' \in [Desks -> Forms]
         /\ \A y \in Desks : FormOK(desk'[y])
         /\ \A y \in Desks : desk'[y].pc = "checked" =>
              /\ y # x /\ desk[y].pc = "checked" /\ desk'[y].late = TRUE
              /\ desk'[y].table = desk[y].table /\ desk'[y].row = desk[y].row /\ desk'[y].old = desk[y].old
<1>1. desk' = [y \in Desks |-> IF y = x THEN NoForm ELSE [desk[y] EXCEPT !.late = desk[y].pc # "free"]]
  BY Zenon DEF Saves
<1>2. ASSUME NEW y \in Desks
      PROVE  /\ desk'[y] \in Forms /\ FormOK(desk'[y])
             /\ desk'[y].pc = "checked" =>
                  /\ y # x /\ desk[y].pc = "checked" /\ desk'[y].late = TRUE
                  /\ desk'[y].table = desk[y].table /\ desk'[y].row = desk[y].row /\ desk'[y].old = desk[y].old
  <2>1. CASE y = x
    BY <1>1, <2>1, RowFacts
  <2>2. CASE y # x
    <3>1. PICK b \in BOOLEAN : b = (desk[y].pc # "free")
      BY Zenon
    <3>2. PICK f \in Forms : f = desk[y] /\ FormOK(f)
      BY DEF LeaveIInv, DesksOK
    <3>3. PICK g : g = [f EXCEPT !.late = b]
      OBVIOUS
    <3>4. desk'[y] = g
      BY <1>1, <2>2, <3>1, <3>2, <3>3, Zenon
    <3>5. /\ g \in Forms /\ FormOK(g) /\ g.pc = f.pc /\ g.late = b
          /\ g.table = f.table /\ g.row = f.row /\ g.old = f.old
      BY <3>2, <3>3, LateForms
    <3>6. f.pc = "checked" => b = TRUE
      BY <3>1, <3>2, Zenon
    <3> QED
      BY <2>2, <3>2, <3>4, <3>5, <3>6, Zenon
  <2> QED
    BY <2>1, <2>2
<1> QED
  BY <1>1, <1>2

LEMMA SavesKeeps ==
  ASSUME LeaveIInv, NEW x \in Desks, Saves(x)
  PROVE  LeaveIInv'
<1>1. PICK f \in Forms : f = desk[x]
  BY DEF LeaveIInv, DesksOK
<1>2. f.pc = "checked" /\ FormOK(f) /\ Fits(f)
  BY <1>1 DEF LeaveIInv, DesksOK, Saves
<1>3. /\ leave' = IF f.table = "leave" THEN [r \in Vacations |-> IF r \in f.old THEN f.row ELSE leave[r]] ELSE leave
      /\ sick' = IF f.table = "sick" THEN (sick \ f.old) \cup {f.row} ELSE sick
      /\ company' = IF f.table = "company" THEN (company \ f.old) \cup {f.row} ELSE company
      /\ rushed' = IF f.late THEN rushed \cup (IF f.table = "leave" THEN f.old ELSE {f.row}) ELSE rushed
      /\ public' = public /\ forms' = forms
  BY <1>1, Zenon DEF Saves
<1>4. PICK b \in BOOLEAN : b = f.late
  BY Zenon DEF Forms
<1>5. rushed' = IF b = FALSE THEN rushed ELSE rushed \cup (IF f.table = "leave" THEN f.old ELSE {f.row})
  BY <1>3, <1>4, Zenon
<1>6. f.late = FALSE <=> b = FALSE
  BY <1>4, Zenon
<1>7. ASSUME f.table = "leave"
      PROVE  LeaveTables' /\ Apart' /\ Straight'
  <2>1. PICK r \in Vacations : f.old = {r}
    BY <1>2, <1>7 DEF FormOK
  <2>2. f.row \in LeaveRow
    BY <1>2, <1>7 DEF FormOK
  <2>3. /\ leave' = [leave EXCEPT ![r] = f.row] /\ sick' = sick /\ company' = company
        /\ rushed' = IF b = FALSE THEN rushed ELSE rushed \cup {r}
    BY <1>3, <1>5, <1>7, <2>1 DEF LeaveIInv, LeaveTables
  <2>4. /\ leave' \in [Vacations -> LeaveRow] /\ leave'[r] = f.row
        /\ \A q \in Vacations \ {r} : leave'[q] = leave[q]
    BY <2>2, <2>3 DEF LeaveIInv, LeaveTables
  <2>5. LeaveTables'
    BY <1>3, <2>3, <2>4 DEF LeaveIInv, LeaveTables
  <2>6. /\ \A q \in Approved' \ {r} : q \in Approved
        /\ r \in Approved' => f.row.status = "approved"
    BY <2>4 DEF Approved
  <2>7. Straight'
    BY <1>2, <1>7, <2>4, <2>6 DEF LeaveIInv, Straight, Fits, Approved
  <2>8. rushed \subseteq rushed'
    BY <2>3
  <2>9. r \in Approved' \ rushed' => NoConflict(r, f.row)
    BY <1>2, <1>6, <1>7, <2>1, <2>3, <2>6 DEF Fits
  <2>10. Apart'
    <3>1. \A q, p \in Approved' \ rushed' : q # p => ~Overlap(leave'[q], leave'[p])
      <4> SUFFICES ASSUME NEW q \in Approved' \ rushed', NEW p \in Approved' \ rushed', q # p
                   PROVE  ~Overlap(leave'[q], leave'[p])
        OBVIOUS
      <4>1. q \in Vacations /\ p \in Vacations
        BY DEF Approved
      <4>2. CASE q # r /\ p # r
        BY <2>4, <2>6, <2>8, <4>1, <4>2 DEF LeaveIInv, Apart
      <4>3. CASE q = r
        BY <2>4, <2>6, <2>9, <4>1, <4>3, OverlapFacts DEF NoConflict
      <4>4. CASE p = r
        BY <2>4, <2>6, <2>9, <4>1, <4>4, OverlapFacts DEF NoConflict
      <4> QED
        BY <4>2, <4>3, <4>4
    <3>2. \A q \in Approved' \ rushed', s \in sick' \ rushed' : ~Overlap(leave'[q], s)
      <4> SUFFICES ASSUME NEW q \in Approved' \ rushed', NEW s \in sick' \ rushed'
                   PROVE  ~Overlap(leave'[q], s)
        OBVIOUS
      <4>1. q \in Vacations /\ s \in sick \ rushed
        BY <2>3, <2>8 DEF Approved
      <4>2. CASE q # r
        BY <2>4, <2>6, <2>8, <4>1, <4>2 DEF LeaveIInv, Apart
      <4>3. CASE q = r
        BY <2>4, <2>9, <4>1, <4>3, OverlapFacts DEF NoConflict
      <4> QED
        BY <4>2, <4>3
    <3>3. /\ \A g, h \in company' \ rushed' : g # h => ~Overlap(g, h)
          /\ \A s, t \in sick' \ rushed' : s # t => ~Overlap(s, t)
      BY <2>3, <2>8 DEF LeaveIInv, Apart
    <3> QED
      BY <3>1, <3>2, <3>3, Zenon DEF Apart
  <2> QED
    BY <2>5, <2>7, <2>10
<1>8. ASSUME f.table = "sick"
      PROVE  LeaveTables' /\ Apart' /\ Straight'
  <2>1. /\ leave' = leave /\ sick' = (sick \ f.old) \cup {f.row} /\ company' = company /\ f.row \in SickRow
        /\ rushed' = IF b = FALSE THEN rushed ELSE rushed \cup {f.row}
    BY <1>2, <1>3, <1>5, <1>8 DEF FormOK
  <2>2. LeaveTables'
    BY <1>3, <2>1 DEF LeaveIInv, LeaveTables
  <2>3. Straight' /\ Approved' = Approved
    BY <2>1, Zenon DEF LeaveIInv, Straight, Approved
  <2>4. rushed \subseteq rushed'
    BY <2>1
  <2>5. f.row \notin rushed' => CleanSick(f.old, f.row)
    BY <1>2, <1>6, <1>8, <2>1 DEF Fits
  <2>6. \A q \in Approved' \ rushed', s \in sick' \ rushed' : ~Overlap(leave'[q], s)
    <3> SUFFICES ASSUME NEW q \in Approved' \ rushed', NEW s \in sick' \ rushed'
                 PROVE  ~Overlap(leave'[q], s)
      OBVIOUS
    <3>1. q \in Approved \ rushed /\ (s = f.row \/ s \in sick \ rushed)
      BY <2>1, <2>3, <2>4
    <3>2. CASE s = f.row
      BY <2>1, <2>5, <3>1, <3>2, OverlapFacts DEF CleanSick
    <3>3. CASE s \in sick \ rushed
      BY <2>1, <3>1, <3>3 DEF LeaveIInv, Apart
    <3> QED
      BY <3>1, <3>2, <3>3
  <2>8. \A s, t \in sick' \ rushed' : s # t => ~Overlap(s, t)
    <3> SUFFICES ASSUME NEW s \in sick' \ rushed', NEW t \in sick' \ rushed', s # t
                 PROVE  ~Overlap(s, t)
      OBVIOUS
    <3>1. CASE s = f.row
      BY <2>1, <2>5, <3>1, OverlapFacts DEF CleanSick
    <3>2. CASE t = f.row
      BY <2>1, <2>5, <3>2, OverlapFacts DEF CleanSick
    <3>3. CASE s # f.row /\ t # f.row
      BY <2>1, <2>4, <3>3 DEF LeaveIInv, Apart
    <3> QED
      BY <3>1, <3>2, <3>3
  <2>7. Apart'
    BY <2>1, <2>3, <2>4, <2>6, <2>8 DEF LeaveIInv, Apart
  <2> QED
    BY <2>2, <2>3, <2>7
<1>9. ASSUME f.table = "company"
      PROVE  LeaveTables' /\ Apart' /\ Straight'
  <2>1. /\ leave' = leave /\ sick' = sick /\ company' = (company \ f.old) \cup {f.row} /\ f.row \in CompanyRow
        /\ rushed' = IF b = FALSE THEN rushed ELSE rushed \cup {f.row}
    BY <1>2, <1>3, <1>5, <1>9 DEF FormOK
  <2>2. LeaveTables'
    BY <1>3, <2>1 DEF LeaveIInv, LeaveTables
  <2>3. Straight' /\ Approved' = Approved
    BY <2>1, Zenon DEF LeaveIInv, Straight, Approved
  <2>4. rushed \subseteq rushed'
    BY <2>1
  <2>5. f.row \notin rushed' => CleanCompany(f.old, f.row)
    BY <1>2, <1>6, <1>9, <2>1 DEF Fits
  <2>6. \A g, h \in company' \ rushed' : g # h => ~Overlap(g, h)
    <3> SUFFICES ASSUME NEW g \in company' \ rushed', NEW h \in company' \ rushed', g # h
                 PROVE  ~Overlap(g, h)
      OBVIOUS
    <3>1. CASE g = f.row
      BY <2>1, <2>5, <3>1, OverlapFacts DEF CleanCompany
    <3>2. CASE h = f.row
      BY <2>1, <2>5, <3>2, OverlapFacts DEF CleanCompany
    <3>3. CASE g # f.row /\ h # f.row
      BY <2>1, <2>4, <3>3 DEF LeaveIInv, Apart
    <3> QED
      BY <3>1, <3>2, <3>3
  <2>7. Apart'
    BY <2>1, <2>3, <2>4, <2>6 DEF LeaveIInv, Apart
  <2> QED
    BY <2>2, <2>3, <2>7
<1>10. f.table \in {"leave", "sick", "company"}
  BY <1>2 DEF FormOK, Forms
<1>11. ASSUME NEW y \in Desks, NEW h, h = desk'[y], h.pc = "checked"
       PROVE  Fits(h)'
  <2>1. PICK g : g = desk[y]
    OBVIOUS
  <2>2. g.pc = "checked" /\ h.late = TRUE /\ h.table = g.table /\ h.row = g.row /\ h.old = g.old
    BY <1>11, <2>1, DesksAfterSave
  <2>3. Fits(g)
    BY <2>1, <2>2 DEF LeaveIInv, DesksOK
  <2>4. h.late # FALSE
    BY <2>2, Zenon
  <2> QED
    BY <2>2, <2>3, <2>4, Zenon DEF Fits
<1>12. DesksOK'
  BY <1>11, DesksAfterSave, Zenon DEF DesksOK, FormOK
<1> QED
  BY <1>7, <1>8, <1>9, <1>10, <1>12 DEF LeaveIInv

-----------------------------------------------------------------------------
(* Deletes takes rows away, which were in nobody's way.                      *)
LEMMA FewerRows ==
  ASSUME LeaveIInv, UNCHANGED <<public, desk, rushed>>, Bounded,
         leave' \in [Vacations -> LeaveRow], sick' \subseteq sick, company' \subseteq company,
         \A r \in Approved' : r \in Approved /\ leave'[r] = leave[r]
  PROVE  LeaveIInv'
<1>1. LeaveTables'
  BY CalendarAssumption DEF LeaveIInv, LeaveTables, Bounded
<1>2. \A r : r \in Approved' => r \in Approved
  OBVIOUS
<1>3. Straight'
  BY DEF LeaveIInv, Straight
<1>4. Apart'
  BY DEF LeaveIInv, Apart
<1>5. ASSUME NEW f, Fits(f)
      PROVE  Fits(f)'
  <2>1. \A r, row : NoConflict(r, row) => NoConflict(r, row)'
    BY DEF NoConflict
  <2>2. \A old, row : CleanSick(old, row) => CleanSick(old, row)'
    BY DEF CleanSick
  <2>3. \A old, row : CleanCompany(old, row) => CleanCompany(old, row)'
    BY DEF CleanCompany
  <2> QED
    BY <1>5, <2>1, <2>2, <2>3, Zenon DEF Fits
<1>6. DesksOK'
  BY <1>5, Zenon DEF LeaveIInv, DesksOK, FormOK
<1> QED
  BY <1>1, <1>3, <1>4, <1>6 DEF LeaveIInv

LEMMA DeletesKeeps ==
  ASSUME LeaveIInv, Deletes
  PROVE  LeaveIInv'
<1>1. CASE \E r \in Vacations : leave' = [leave EXCEPT ![r] = NoRow] /\ UNCHANGED <<sick, company>>
  <2>1. PICK r \in Vacations : leave' = [leave EXCEPT ![r] = NoRow] /\ UNCHANGED <<sick, company>>
    BY <1>1
  <2>2. leave' \in [Vacations -> LeaveRow] /\ leave'[r].status = "none" /\ \A q \in Vacations \ {r} : leave'[q] = leave[q]
    BY <2>1, RowFacts DEF LeaveIInv, LeaveTables
  <2>3. \A q \in Approved' : q \in Approved /\ leave'[q] = leave[q]
    BY <2>2 DEF Approved
  <2> QED
    BY <2>1, <2>2, <2>3, FewerRows DEF Deletes
<1>2. CASE leave' = leave /\ sick' \subseteq sick /\ company' \subseteq company
  <2>1. Approved' = Approved
    BY <1>2, Zenon DEF Approved
  <2> QED
    BY <1>2, <2>1, FewerRows DEF Deletes, LeaveIInv, LeaveTables
<1> QED
  BY <1>1, <1>2 DEF Deletes

LEMMA PublicHolidayImportedKeeps ==
  ASSUME LeaveIInv, NEW d \in Days, PublicHolidayImported(d)
  PROVE  LeaveIInv'
<1>1. /\ Bounded /\ public' = public \cup {d} /\ UNCHANGED <<leave, sick, company, desk, rushed>>
  BY Zenon DEF PublicHolidayImported
<1>2. LeaveTables'
  BY <1>1, CalendarAssumption DEF LeaveIInv, LeaveTables, Bounded
<1>3. Apart' /\ Straight' /\ DesksOK'
  BY <1>1, Zenon DEF LeaveIInv, Apart, Straight, DesksOK, FormOK, Fits, NoConflict, CleanSick, CleanCompany, Approved
<1> QED
  BY <1>2, <1>3 DEF LeaveIInv

LEMMA LeaveInitIInv == LeaveInit => LeaveIInv
<1> SUFFICES ASSUME LeaveInit PROVE LeaveIInv
  OBVIOUS
<1>1. leave \in [Vacations -> LeaveRow]
  BY RowFacts DEF LeaveInit
<1>2. LeaveTables
  BY <1>1, CalendarAssumption DEF LeaveInit, LeaveTables
<1>3. Apart
  BY Zenon DEF LeaveInit, Apart
<1>4. Straight
  BY RowFacts DEF LeaveInit, Straight, Approved
<1>5. DesksOK
  BY RowFacts DEF LeaveInit, DesksOK
<1> QED
  BY <1>2, <1>3, <1>4, <1>5 DEF LeaveIInv

LEMMA LeaveNextIInv == LeaveIInv /\ [LeaveNext]_leaveVars => LeaveIInv'
<1> SUFFICES ASSUME LeaveIInv, [LeaveNext]_leaveVars PROVE LeaveIInv'
  OBVIOUS
<1>1. CASE LeaveNext
  <2>1. ASSUME NEW x \in Desks, NEW r \in Vacations, OpensRequest(x, r) PROVE LeaveIInv'
    BY <2>1, OpensRequestKeeps
  <2>2. ASSUME NEW x \in Desks, NEW to \in {"approved", "rejected", "cancelled"}, Decides(x, to) PROVE LeaveIInv'
    BY <2>2, DecidesKeeps
  <2>3. ASSUME NEW x \in Desks, NEW row \in LeaveRow, FillsIn(x, row) PROVE LeaveIInv'
    BY <2>3, FillsInKeeps
  <2>4. ASSUME NEW x \in Desks, NEW old \in {{}} \cup {{s} : s \in sick}, NEW row \in SickRow, FilesSick(x, old, row)
        PROVE  LeaveIInv'
    BY <2>4, FilesSickKeeps
  <2>5. ASSUME NEW x \in Desks, NEW old \in {{}} \cup {{h} : h \in company}, NEW row \in CompanyRow,
               FilesCompany(x, old, row)
        PROVE  LeaveIInv'
    BY <2>5, FilesCompanyKeeps
  <2>6. ASSUME NEW x \in Desks, Refused(x) \/ Saves(x) PROVE LeaveIInv'
    BY <2>6, RefusedKeeps, SavesKeeps
  <2>7. ASSUME NEW d \in Days, PublicHolidayImported(d) PROVE LeaveIInv'
    BY <2>7, PublicHolidayImportedKeeps
  <2> QED
    BY <1>1, <2>1, <2>2, <2>3, <2>4, <2>5, <2>6, <2>7, DeletesKeeps, Zenon DEF LeaveNext
<1>2. CASE UNCHANGED leaveVars
  <2>1. LeaveTables'
    BY <1>2, Zenon DEF leaveVars, LeaveIInv, LeaveTables
  <2>2. Apart' /\ Straight' /\ DesksOK'
    BY <1>2, Zenon DEF leaveVars, LeaveIInv, Apart, Straight, DesksOK, FormOK, Fits, NoConflict, CleanSick, CleanCompany,
                       Approved
  <2> QED
    BY <2>1, <2>2 DEF LeaveIInv
<1> QED
  BY <1>1, <1>2

(* The tables and the desks are always of their types.                       *)
THEOREM LeaveTypeCorrect == LeaveSpec => []LeaveTypeOK
<1>1. LeaveIInv => LeaveTypeOK
  BY LeaveTypeParts DEF LeaveIInv
<1> QED
  BY <1>1, LeaveInitIInv, LeaveNextIInv, PTL DEF LeaveSpec

-----------------------------------------------------------------------------
(* What a day is charged.                                                   *)
LEMMA HalfFacts == \A c : Half(c) \in {0, 1}
  BY Zenon DEF Half

(* Rows of one table that are apart cannot cover a day together.             *)
LEMMA BothCover ==
  ASSUME NEW i, NEW j, NEW d \in Days, i.from \in Int, i.to \in Int, j.from \in Int, j.to \in Int,
         Covers(i, d), Covers(j, d)
  PROVE  Overlap(i, j)
  BY DEF Covers, Overlap, Days

LEMMA ChargeFacts ==
  ASSUME NEW r, NEW d, Charge(r, d) > 0
  PROVE  Covers(leave[r], d) /\ Target(d) /\ Charge(r, d) <= 2
<1>1. PICK m \in {0, 1}, n \in {0, 1} :
        /\ m = Half(leave[r].halfStart /\ leave[r].from = d)
        /\ n = Half(leave[r].halfEnd /\ leave[r].to = d)
  BY HalfFacts
<1>2. Charge(r, d) = IF Covers(leave[r], d) /\ Target(d) THEN 2 - m - n ELSE 0
  BY <1>1, Zenon DEF Charge
<1> QED
  BY <1>2

(* A day with something to work has no company holiday or half a one, whose    *)
(* bridge takes the other half.                                             *)
LEMMA BridgeFacts ==
  ASSUME LeaveIInv, NEW d \in Days, Target(d), HolidaysOn(d) \cap rushed = {}
  PROVE  IF \E h \in HolidaysOn(d) : h.half THEN BridgeCost(d) \in Int /\ BridgeCost(d) <= 1 ELSE BridgeCost(d) = 0
<1> DEFINE bridges == {h \in HolidaysOn(d) : h.bridge}
           whole == {h \in bridges : ~h.half}
           half == {h \in bridges : h.half}
<1>1. BridgeCost(d) = IF d \in WorkDays \ public THEN 2 * Cardinality(whole) + Cardinality(half) ELSE 0
  BY Zenon DEF BridgeCost
<1>2. CASE HolidaysOn(d) = {}
  <2>1. whole = {} /\ half = {}
    BY <1>2, Zenon
  <2>2. ~ \E h \in HolidaysOn(d) : h.half
    BY <1>2, Zenon
  <2> HIDE DEF whole, half
  <2>3. BridgeCost(d) = 0
    BY <1>1, <2>1, FS_EmptySet
  <2> QED
    BY <2>2, <2>3, Zenon
<1>3. CASE HolidaysOn(d) # {}
  <2>1. PICK g \in HolidaysOn(d) : TRUE
    BY <1>3, Zenon
  <2>2. ASSUME NEW h \in HolidaysOn(d)
        PROVE  h = g
    <3>1. g \in company \ rushed /\ h \in company \ rushed /\ Covers(g, d) /\ Covers(h, d)
      BY DEF HolidaysOn
    <3>2. g \in CompanyRow /\ h \in CompanyRow
      BY <3>1 DEF LeaveIInv, LeaveTables
    <3>3. Overlap(g, h)
      BY <3>1, <3>2, SpanFacts, BothCover
    <3> QED
      BY <3>1, <3>3 DEF LeaveIInv, Apart
  <2>3. HolidayOn(d) = g
    <3>1. g \in CompanyRow
      BY DEF HolidaysOn, LeaveIInv, LeaveTables
    <3>2. \A h \in HolidaysOn(d) : g.from <= h.from
      BY <2>2, <3>1, SpanFacts
    <3>3. HolidayOn(d) \in HolidaysOn(d)
      BY <3>2, Zenon DEF HolidayOn
    <3> QED
      BY <2>2, <3>3, Zenon
  <2>4. g.half
    BY <1>3, <2>3, Zenon DEF Target
  <2>5. whole = {} /\ (half = {} \/ half = {g})
    <3>1. whole = {}
      BY <2>2, <2>4, Zenon
    <3>2. \A h \in half : h = g
      BY <2>2, Zenon
    <3> HIDE DEF half
    <3> QED
      BY <3>1, <3>2
  <2>6. \E h \in HolidaysOn(d) : h.half
    BY <2>1, <2>4, Zenon
  <2> HIDE DEF whole, half
  <2>7. BridgeCost(d) \in Int /\ BridgeCost(d) <= 1
    <3>1. Cardinality(whole) = 0
      BY <2>5, FS_EmptySet, Zenon
    <3>2. Cardinality(half) \in {0, 1}
      BY <2>5, FS_EmptySet, FS_Singleton, Zenon
    <3> QED
      BY <1>1, <3>1, <3>2
  <2> QED
    BY <2>6, <2>7, Zenon
<1> QED
  BY <1>2, <1>3

LEMMA ApartChargesOnce == LeaveIInv => NoDayIsChargedTwice
<1> SUFFICES ASSUME LeaveIInv, NEW d \in Days
             PROVE  LET paying == {r \in Approved \ rushed : Charge(r, d) > 0} IN
                    /\ Cardinality(paying) <= 1
                    /\ HolidaysOn(d) \cap rushed = {} =>
                         \A r \in paying :
                           Charge(r, d) + BridgeCost(d) <= IF \E h \in HolidaysOn(d) : h.half THEN 3 ELSE 2
                    /\ \A r \in Approved \ rushed, s \in sick \ rushed : ~(Covers(s, d) /\ Covers(leave[r], d))
  BY Zenon DEF NoDayIsChargedTwice
<1> DEFINE paying == {r \in Approved \ rushed : Charge(r, d) > 0}
<1>1. \A r \in Approved : leave[r] \in LeaveRow
  BY DEF LeaveIInv, LeaveTables, Approved
<1>2. \A r, q \in paying : r = q
  <2> SUFFICES ASSUME NEW r \in paying, NEW q \in paying, r # q PROVE FALSE
    OBVIOUS
  <2>1. Covers(leave[r], d) /\ Covers(leave[q], d)
    BY ChargeFacts
  <2>2. Overlap(leave[r], leave[q])
    BY <1>1, <2>1, SpanFacts, BothCover
  <2> QED
    BY <2>2 DEF LeaveIInv, Apart
<1>3. Cardinality(paying) <= 1
  <2>1. CASE paying = {}
    BY <2>1, FS_EmptySet
  <2>2. CASE paying # {}
    <3>1. PICK r : r \in paying
      BY <2>2
    <3>2. paying = {r}
      BY <1>2, <3>1
    <3>3. Cardinality(paying) = 1
      BY <3>2, FS_Singleton, Zenon
    <3> QED
      BY <3>3
  <2> QED
    BY <2>1, <2>2
<1>4. ASSUME HolidaysOn(d) \cap rushed = {}, NEW r \in paying
      PROVE  Charge(r, d) + BridgeCost(d) <= IF \E h \in HolidaysOn(d) : h.half THEN 3 ELSE 2
  <2>1. Charge(r, d) > 0 /\ Target(d) /\ Charge(r, d) <= 2
    BY ChargeFacts
  <2>2. IF \E h \in HolidaysOn(d) : h.half THEN BridgeCost(d) \in Int /\ BridgeCost(d) <= 1 ELSE BridgeCost(d) = 0
    BY <1>4, <2>1, BridgeFacts
  <2>3. Charge(r, d) \in Int
    <3>1. PICK m \in {0, 1}, n \in {0, 1} :
            /\ m = Half(leave[r].halfStart /\ leave[r].from = d)
            /\ n = Half(leave[r].halfEnd /\ leave[r].to = d)
      BY HalfFacts
    <3>2. Charge(r, d) = 2 - m - n
      BY <2>1, <3>1, ChargeFacts, Zenon DEF Charge
    <3> QED
      BY <3>2
  <2>4. CASE \E h \in HolidaysOn(d) : h.half
    <3>1. BridgeCost(d) \in Int /\ BridgeCost(d) <= 1
      BY <2>2, <2>4, Zenon
    <3>2. Charge(r, d) + BridgeCost(d) <= 3
      BY <2>1, <2>3, <3>1
    <3> QED
      BY <2>4, <3>2, Zenon
  <2>5. CASE ~ \E h \in HolidaysOn(d) : h.half
    <3>1. BridgeCost(d) = 0
      BY <2>2, <2>5, Zenon
    <3>2. Charge(r, d) + BridgeCost(d) <= 2
      BY <2>1, <2>3, <3>1
    <3> QED
      BY <2>5, <3>2, Zenon
  <2> QED
    BY <2>4, <2>5
<1>5. ASSUME NEW r \in Approved \ rushed, NEW s \in sick \ rushed, Covers(s, d), Covers(leave[r], d)
      PROVE  FALSE
  <2>1. s \in SickRow
    BY DEF LeaveIInv, LeaveTables
  <2>2. Overlap(leave[r], s)
    BY <1>1, <1>5, <2>1, SpanFacts, BothCover
  <2> QED
    BY <2>2 DEF LeaveIInv, Apart
<1> QED
  BY <1>3, <1>4, <1>5, Zenon

(* However forms are loaded, checked and saved at any number of desks, no day  *)
(* is charged twice (LeaveRequest.clean, the actions of hr/admin.py), unless a  *)
(* row was saved although another had been saved since it was loaded.         *)
THEOREM ADayIsChargedOnce == LeaveSpec => []NoDayIsChargedTwice
  BY ApartChargesOnce, LeaveInitIInv, LeaveNextIInv, PTL DEF LeaveSpec

-----------------------------------------------------------------------------
(* The two years of a request.                                              *)
TargetDays(m, n) == {d \in m .. n : Target(d)}

LEMMA TargetDaysFinite ==
  ASSUME NEW m \in Int, NEW n \in Int
  PROVE  IsFiniteSet(TargetDays(m, n)) /\ Cardinality(TargetDays(m, n)) \in Nat
<1>1. IsFiniteSet(m .. n) /\ TargetDays(m, n) \in SUBSET (m .. n)
  BY FS_Interval DEF TargetDays
<1>2. IsFiniteSet(TargetDays(m, n))
  BY <1>1, FS_Subset
<1> QED
  BY <1>2, FS_CardinalityType

(* The days with something to work of a span are those of its two parts.      *)
LEMMA DaysSplit ==
  ASSUME NEW m \in Int, NEW n \in Int, NEW k \in Int, m <= k, k < n
  PROVE  Cardinality(TargetDays(m, n)) = Cardinality(TargetDays(m, k)) + Cardinality(TargetDays(k + 1, n))
<1>1. TargetDays(m, n) = TargetDays(m, k) \cup TargetDays(k + 1, n) /\ TargetDays(m, k) \cap TargetDays(k + 1, n) = {}
  BY DEF TargetDays
<1>2. IsFiniteSet(TargetDays(m, k)) /\ IsFiniteSet(TargetDays(k + 1, n))
  BY TargetDaysFinite
<1>3. PICK S, T : S = TargetDays(m, k) /\ T = TargetDays(k + 1, n)
  OBVIOUS
<1>4. /\ Cardinality(S \cup T) = Cardinality(S) + Cardinality(T) - Cardinality(S \cap T)
      /\ Cardinality(S) \in Nat /\ Cardinality(T) \in Nat
  BY <1>2, <1>3, FS_Union, FS_CardinalityType
<1>5. Cardinality(S \cap T) = 0
  BY <1>1, <1>3, FS_EmptySet, Zenon
<1>6. Cardinality(S \cup T) = Cardinality(S) + Cardinality(T)
  BY <1>4, <1>5
<1> QED
  BY <1>1, <1>3, <1>6, Zenon

LEMMA YearsOfARequest ==
  ASSUME NEW r \in LeaveRow, r.from <= r.to
  PROVE  DaysInYear(r, 1) + DaysInYear(r, 2) = DaysOf(r)
<1>1. PICK m, n : m = r.from /\ n = r.to
  OBVIOUS
<1>2. m \in 1 .. LastDay /\ n \in 1 .. LastDay /\ m <= n /\ YearEnd \in Int /\ LastDay \in Int /\ YearEnd >= 0 /\ YearEnd <= LastDay
  BY <1>1, CalendarAssumption DEF LeaveRow, Days
<1>3. YearStart(1) = 1 /\ YearStart(2) = YearEnd + 1 /\ YearStop(1) = YearEnd /\ YearStop(2) = LastDay
  BY DEF YearStart, YearStop
<1>4. PICK a \in {0, 1}, z \in {0, 1} :
        /\ a = Half(r.halfStart /\ m <= n /\ Target(m))
        /\ z = Half(r.halfEnd /\ m <= n /\ Target(n))
  BY HalfFacts
<1>5. DaysOf(r) = 2 * Cardinality(TargetDays(m, n)) - a - z
  BY <1>1, <1>4, Zenon DEF DaysOf, LeaveDays, TargetDays
<1>6. Cardinality(TargetDays(m, n)) \in Nat
  BY <1>2, TargetDaysFinite
<1>7. CASE n <= YearEnd
  <2>1. DaysInYear(r, 2) = 0
    BY <1>1, <1>2, <1>3, <1>7 DEF DaysInYear
  <2>2. Later(m, 1) = m /\ Earlier(n, YearEnd) = n /\ ~(m > YearEnd) /\ ~(n < 1) /\ m >= 1
    BY <1>2, <1>7 DEF Later, Earlier
  <2>3. DaysInYear(r, 1) = LeaveDays(m, n, r.halfStart /\ m >= 1, r.halfEnd /\ n <= YearEnd)
    BY <1>1, <1>3, <2>2, Zenon DEF DaysInYear
  <2>4. a = Half((r.halfStart /\ m >= 1) /\ m <= n /\ Target(m)) /\ z = Half((r.halfEnd /\ n <= YearEnd) /\ m <= n /\ Target(n))
    BY <1>4, <1>7, <2>2, Zenon DEF Half
  <2>5. DaysInYear(r, 1) = 2 * Cardinality(TargetDays(m, n)) - a - z
    BY <2>3, <2>4, Zenon DEF LeaveDays, TargetDays
  <2> QED
    BY <1>4, <1>5, <1>6, <2>1, <2>5
<1>8. CASE m > YearEnd
  <2>1. DaysInYear(r, 1) = 0
    BY <1>1, <1>2, <1>3, <1>8 DEF DaysInYear
  <2>2. Later(m, YearEnd + 1) = m /\ Earlier(n, LastDay) = n /\ ~(m > LastDay) /\ ~(n < YearEnd + 1)
        /\ m >= YearEnd + 1 /\ n <= LastDay
    BY <1>2, <1>8 DEF Later, Earlier
  <2>3. DaysInYear(r, 2) = LeaveDays(m, n, r.halfStart /\ m >= YearEnd + 1, r.halfEnd /\ n <= LastDay)
    BY <1>1, <1>3, <2>2, Zenon DEF DaysInYear
  <2>4. /\ a = Half((r.halfStart /\ m >= YearEnd + 1) /\ m <= n /\ Target(m))
        /\ z = Half((r.halfEnd /\ n <= LastDay) /\ m <= n /\ Target(n))
    BY <1>4, <2>2, Zenon DEF Half
  <2>5. DaysInYear(r, 2) = 2 * Cardinality(TargetDays(m, n)) - a - z
    BY <2>3, <2>4, Zenon DEF LeaveDays, TargetDays
  <2> QED
    BY <1>4, <1>5, <1>6, <2>1, <2>5
<1>9. CASE m <= YearEnd /\ YearEnd < n
  <2>1. /\ Later(m, 1) = m /\ Earlier(n, YearEnd) = YearEnd /\ Later(m, YearEnd + 1) = YearEnd + 1 /\ Earlier(n, LastDay) = n
        /\ ~(m > YearEnd) /\ ~(n < 1) /\ ~(m > LastDay) /\ ~(n < YearEnd + 1)
        /\ m >= 1 /\ ~(n <= YearEnd) /\ ~(m >= YearEnd + 1) /\ n <= LastDay /\ YearEnd + 1 <= n /\ m <= n
    BY <1>2, <1>9 DEF Later, Earlier
  <2>2. /\ DaysInYear(r, 1) = LeaveDays(m, YearEnd, r.halfStart /\ m >= 1, r.halfEnd /\ n <= YearEnd)
        /\ DaysInYear(r, 2) = LeaveDays(YearEnd + 1, n, r.halfStart /\ m >= YearEnd + 1, r.halfEnd /\ n <= LastDay)
    BY <1>1, <1>3, <2>1, Zenon DEF DaysInYear
  <2>3. /\ a = Half((r.halfStart /\ m >= 1) /\ m <= YearEnd /\ Target(m))
        /\ 0 = Half((r.halfEnd /\ n <= YearEnd) /\ m <= YearEnd /\ Target(YearEnd))
        /\ 0 = Half((r.halfStart /\ m >= YearEnd + 1) /\ YearEnd + 1 <= n /\ Target(YearEnd + 1))
        /\ z = Half((r.halfEnd /\ n <= LastDay) /\ YearEnd + 1 <= n /\ Target(n))
    BY <1>4, <1>9, <2>1, Zenon DEF Half
  <2>4. /\ DaysInYear(r, 1) = 2 * Cardinality(TargetDays(m, YearEnd)) - a - 0
        /\ DaysInYear(r, 2) = 2 * Cardinality(TargetDays(YearEnd + 1, n)) - 0 - z
    BY <2>2, <2>3, Zenon DEF LeaveDays, TargetDays
  <2>5. Cardinality(TargetDays(m, n)) = Cardinality(TargetDays(m, YearEnd)) + Cardinality(TargetDays(YearEnd + 1, n))
    BY <1>2, <1>9, DaysSplit
  <2>6. Cardinality(TargetDays(m, YearEnd)) \in Nat /\ Cardinality(TargetDays(YearEnd + 1, n)) \in Nat
    BY <1>2, TargetDaysFinite
  <2> QED
    BY <1>4, <1>5, <2>4, <2>5, <2>6
<1> QED
  BY <1>2, <1>7, <1>8, <1>9

(* The accounts of the years share what an approved request costs            *)
(* (LeaveRequest.get_leave_days_for_year): an approved row ends no earlier than *)
(* it starts, and a span that is cut at the end of a year loses no day.        *)
THEOREM TheYearsAddUp == LeaveSpec => []YearsAddUp
<1>1. LeaveIInv => YearsAddUp
  <2> SUFFICES ASSUME LeaveIInv, NEW r \in Approved
               PROVE  DaysInYear(leave[r], 1) + DaysInYear(leave[r], 2) = DaysOf(leave[r])
    BY Zenon DEF YearsAddUp
  <2>1. leave[r] \in LeaveRow /\ leave[r].from <= leave[r].to
    BY DEF LeaveIInv, LeaveTables, Straight, Approved
  <2> QED
    BY <2>1, YearsOfARequest
<1> QED
  BY <1>1, LeaveInitIInv, LeaveNextIInv, PTL DEF LeaveSpec

-----------------------------------------------------------------------------
(* Sums over a finite set, by taking out the element that CHOOSE takes.        *)
LEMMA UpFrom ==
  ASSUME NEW N \in Nat, NEW S, 0 \in S, \A n \in 1 .. N : n - 1 \in S => n \in S
  PROVE  \A n \in 0 .. N : n \in S
<1> DEFINE Bad == {n \in 0 .. N : n \notin S}
<1> SUFFICES ASSUME Bad # {} PROVE FALSE
  OBVIOUS
<1>1. PICK R : R = OpToRel(<, Nat)
  OBVIOUS
<1>2. R = {ss \in Nat \X Nat : ss[1] < ss[2]}
  BY <1>1, Zenon DEF OpToRel
<1>3. IsWellFoundedOn(R, Nat)
  BY <1>1, NatLessThanWellFounded, Zenon
<1>4. Bad \subseteq Nat
  OBVIOUS
<1>5. PICK m \in Bad : \A n \in Bad : ~ (<<n, m>> \in R)
  <2> HIDE DEF Bad
  <2> QED
    BY <1>3, <1>4, WFMin
<1>6. m \in 0 .. N /\ m \notin S /\ m # 0
  BY <1>5
<1>7. m - 1 \in 0 .. N /\ m - 1 \notin S /\ m - 1 \in Nat /\ m \in Nat /\ m - 1 < m
  BY <1>6
<1>8. <<m - 1, m>> \in R
  BY <1>2, <1>7
<1> QED
  BY <1>5, <1>7, <1>8

Pick(T) == CHOOSE x \in T : TRUE

LEMMA TakeOut ==
  ASSUME NEW T, IsFiniteSet(T), T # {}
  PROVE  /\ Pick(T) \in T /\ T \ {Pick(T)} \in SUBSET T /\ IsFiniteSet(T \ {Pick(T)})
         /\ Cardinality(T) \in Nat \ {0} /\ Cardinality(T \ {Pick(T)}) = Cardinality(T) - 1
<1>1. Pick(T) \in T
  BY Zenon DEF Pick
<1>2. Cardinality(T) \in Nat /\ Cardinality(T) # 0
  BY FS_CardinalityType, FS_EmptySet
<1> QED
  BY <1>1, <1>2, FS_RemoveElement

LEMMA SetsFrom ==
  ASSUME NEW S, IsFiniteSet(S), NEW G, {} \in G,
         \A T \in SUBSET S : T # {} /\ T \ {Pick(T)} \in G => T \in G
  PROVE  \A T \in SUBSET S : T \in G
<1> DEFINE Good == {n \in 0 .. Cardinality(S) : \A T \in SUBSET S : Cardinality(T) = n => T \in G}
<1>1. Cardinality(S) \in Nat
  BY FS_CardinalityType
<1>2. \A T \in SUBSET S : IsFiniteSet(T) /\ Cardinality(T) \in 0 .. Cardinality(S)
  BY <1>1, FS_Subset, FS_CardinalityType
<1>3. 0 \in Good
  <2>1. \A T \in SUBSET S : Cardinality(T) = 0 => T = {}
    BY <1>2, FS_EmptySet
  <2> QED
    BY <1>1, <2>1
<1>4. ASSUME NEW n \in 1 .. Cardinality(S), n - 1 \in Good
      PROVE  n \in Good
  <2>1. ASSUME NEW T \in SUBSET S, Cardinality(T) = n
        PROVE  T \in G
    <3>1. IsFiniteSet(T) /\ T # {}
      BY <1>2, <2>1, FS_EmptySet
    <3>2. PICK U : U = T \ {Pick(T)}
      OBVIOUS
    <3>3. U \in SUBSET S /\ Cardinality(U) = n - 1
      BY <2>1, <3>1, <3>2, TakeOut
    <3>4. U \in G
      BY <1>4, <3>3
    <3> QED
      BY <3>1, <3>2, <3>4
  <2> QED
    BY <2>1
<1> HIDE DEF Good
<1>5. \A n \in 0 .. Cardinality(S) : n \in Good
  BY <1>1, <1>3, <1>4, UpFrom
<1> QED
  BY <1>2, <1>5 DEF Good

(* The function that SumFunction unrolls.                                     *)
Sums(h, f, S) ==
  /\ h[{}] = 0
  /\ \A T \in SUBSET S : T # {} => h[T] = f[Pick(T)] + h[T \ {Pick(T)}]

LEMMA SumsExist ==
  ASSUME NEW S, IsFiniteSet(S), NEW f \in [S -> Int]
  PROVE  \E h \in [SUBSET S -> Int] : Sums(h, f, S)
<1> DEFINE Good == {n \in 0 .. Cardinality(S) : \E h \in [SUBSET S -> Int] :
                       h[{}] = 0 /\ \A T \in SUBSET S : T # {} /\ Cardinality(T) <= n => h[T] = f[Pick(T)] + h[T \ {Pick(T)}]}
<1>1. Cardinality(S) \in Nat
  BY FS_CardinalityType
<1>2. \A T \in SUBSET S : IsFiniteSet(T) /\ Cardinality(T) \in Nat /\ Cardinality(T) <= Cardinality(S)
  BY <1>1, FS_Subset, FS_CardinalityType
<1>3. 0 \in Good
  <2>1. PICK h : h = [T \in SUBSET S |-> 0]
    OBVIOUS
  <2>2. h \in [SUBSET S -> Int] /\ h[{}] = 0
    BY <2>1
  <2>3. \A T \in SUBSET S : T # {} => ~(Cardinality(T) <= 0)
    BY <1>2, FS_EmptySet
  <2> QED
    BY <1>1, <2>2, <2>3
<1>4. ASSUME NEW n \in 1 .. Cardinality(S), n - 1 \in Good
      PROVE  n \in Good
  <2>1. PICK h \in [SUBSET S -> Int] :
          h[{}] = 0 /\ \A T \in SUBSET S : T # {} /\ Cardinality(T) <= n - 1 => h[T] = f[Pick(T)] + h[T \ {Pick(T)}]
    BY <1>4
  <2>2. PICK g : g = [T \in SUBSET S |-> IF Cardinality(T) = n THEN f[Pick(T)] + h[T \ {Pick(T)}] ELSE h[T]]
    OBVIOUS
  <2>3. ASSUME NEW T \in SUBSET S, Cardinality(T) = n
        PROVE  Pick(T) \in S /\ T \ {Pick(T)} \in SUBSET S /\ T # {}
               /\ Cardinality(T \ {Pick(T)}) = n - 1
    <3>1. IsFiniteSet(T) /\ T # {}
      BY <1>2, <2>3, FS_EmptySet
    <3> QED
      BY <2>3, <3>1, TakeOut
  <2>4. g \in [SUBSET S -> Int]
    BY <2>2, <2>3
  <2>5. g[{}] = 0
    <3>1. Cardinality({}) = 0 /\ {} \in SUBSET S
      BY FS_EmptySet
    <3> QED
      BY <2>1, <2>2, <3>1
  <2>6. ASSUME NEW T \in SUBSET S, T # {}, Cardinality(T) <= n
        PROVE  g[T] = f[Pick(T)] + g[T \ {Pick(T)}]
    <3>1. PICK U, x : U = T \ {Pick(T)} /\ x = Pick(T)
      OBVIOUS
    <3>2. U \in SUBSET S /\ Cardinality(U) = Cardinality(T) - 1 /\ Cardinality(T) \in Nat
      BY <1>2, <2>6, <3>1, TakeOut
    <3>3. g[U] = h[U]
      BY <2>2, <2>6, <3>2
    <3>4. CASE Cardinality(T) = n
      BY <2>2, <3>1, <3>3, <3>4
    <3>5. CASE Cardinality(T) # n
      <4>1. g[T] = h[T]
        BY <2>2, <3>5
      <4>2. h[T] = f[x] + h[U]
        BY <2>1, <2>6, <3>1, <3>2, <3>5
      <4> QED
        BY <3>1, <3>3, <4>1, <4>2
    <3> QED
      BY <3>4, <3>5
  <2>7. \E k \in [SUBSET S -> Int] :
          k[{}] = 0 /\ \A T \in SUBSET S : T # {} /\ Cardinality(T) <= n => k[T] = f[Pick(T)] + k[T \ {Pick(T)}]
    BY <2>4, <2>5, <2>6, Zenon
  <2> QED
    BY <1>1, <2>7
<1> HIDE DEF Good
<1>5. \A n \in 0 .. Cardinality(S) : n \in Good
  BY <1>1, <1>3, <1>4, UpFrom
<1>6. Cardinality(S) \in Good
  BY <1>1, <1>5
<1>7. PICK h \in [SUBSET S -> Int] :
        h[{}] = 0 /\ \A T \in SUBSET S : T # {} /\ Cardinality(T) <= Cardinality(S) => h[T] = f[Pick(T)] + h[T \ {Pick(T)}]
  BY <1>6 DEF Good
<1> QED
  BY <1>2, <1>7 DEF Sums

LEMMA SumUnrolls ==
  ASSUME NEW S, IsFiniteSet(S), NEW f \in [S -> Int]
  PROVE  \E h \in [SUBSET S -> Int] : Sums(h, f, S) /\ SumFunction(f) = h[S]
<1>1. PICK iter : iter = CHOOSE h : h = [T \in SUBSET S |-> IF T = {} THEN 0 ELSE f[Pick(T)] + h[T \ {Pick(T)}]]
  OBVIOUS
<1>2. DOMAIN f = S
  OBVIOUS
<1>3. SumFunction(f) = iter[S]
  BY <1>1, <1>2, Zenon DEF SumFunction, SumFunctionOnSet, FoldFunctionOnSet, MapThenFoldSet, Pick
<1>4. PICK g \in [SUBSET S -> Int] : Sums(g, f, S)
  BY SumsExist
<1>5. g = [T \in SUBSET S |-> IF T = {} THEN 0 ELSE f[Pick(T)] + g[T \ {Pick(T)}]]
  BY <1>4 DEF Sums
<1>6. iter = [T \in SUBSET S |-> IF T = {} THEN 0 ELSE f[Pick(T)] + iter[T \ {Pick(T)}]]
  BY <1>1, <1>5, Zenon
<1>7. Sums(iter, f, S)
  <2>1. iter[{}] = 0
    <3>1. {} \in SUBSET S
      OBVIOUS
    <3> QED
      BY <1>6, <3>1
  <2>2. \A T \in SUBSET S : T # {} => iter[T] = f[Pick(T)] + iter[T \ {Pick(T)}]
    BY <1>6
  <2> QED
    BY <2>1, <2>2 DEF Sums
<1>8. \A T \in SUBSET S : iter[T] \in Int
  <2>1. PICK G : G = {T \in SUBSET S : iter[T] \in Int}
    OBVIOUS
  <2>2. {} \in G
    BY <1>7, <2>1 DEF Sums
  <2>3. ASSUME NEW T \in SUBSET S, T # {}, T \ {Pick(T)} \in G PROVE T \in G
    <3>1. IsFiniteSet(T)
      BY FS_Subset
    <3>2. Pick(T) \in S
      BY <2>3, <3>1, TakeOut
    <3>3. iter[T] = f[Pick(T)] + iter[T \ {Pick(T)}]
      BY <1>7, <2>3 DEF Sums
    <3> QED
      BY <2>1, <2>3, <3>2, <3>3
  <2>4. \A T \in SUBSET S : T \in G
    BY <2>2, <2>3, SetsFrom
  <2> QED
    BY <2>1, <2>4
<1>9. iter \in [SUBSET S -> Int]
  <2>1. PICK k : k = [T \in SUBSET S |-> IF T = {} THEN 0 ELSE f[Pick(T)] + iter[T \ {Pick(T)}]]
    OBVIOUS
  <2>2. iter = k
    BY <1>6, <2>1, Zenon
  <2> QED
    BY <1>8, <2>1, <2>2
<1> QED
  BY <1>3, <1>7, <1>9

LEMMA SumType ==
  ASSUME NEW S, IsFiniteSet(S), NEW f \in [S -> Int]
  PROVE  SumFunction(f) \in Int
<1>1. PICK h \in [SUBSET S -> Int] : Sums(h, f, S) /\ SumFunction(f) = h[S]
  BY SumUnrolls
<1>2. S \in SUBSET S
  OBVIOUS
<1> QED
  BY <1>1, <1>2

LEMMA SumAdds ==
  ASSUME NEW S, IsFiniteSet(S), NEW f \in [S -> Int], NEW g \in [S -> Int]
  PROVE  SumFunction([x \in S |-> f[x] + g[x]]) = SumFunction(f) + SumFunction(g)
<1>1. PICK e : e = [x \in S |-> f[x] + g[x]]
  OBVIOUS
<1>2. e \in [S -> Int]
  BY <1>1
<1>3. PICK hf \in [SUBSET S -> Int] : Sums(hf, f, S) /\ SumFunction(f) = hf[S]
  BY SumUnrolls
<1>4. PICK hg \in [SUBSET S -> Int] : Sums(hg, g, S) /\ SumFunction(g) = hg[S]
  BY SumUnrolls
<1>5. PICK he \in [SUBSET S -> Int] : Sums(he, e, S) /\ SumFunction(e) = he[S]
  BY <1>2, SumUnrolls
<1>6. PICK G : G = {T \in SUBSET S : he[T] = hf[T] + hg[T]}
  OBVIOUS
<1>7. {} \in G
  <2>1. he[{}] = 0 /\ hf[{}] = 0 /\ hg[{}] = 0
    BY <1>3, <1>4, <1>5 DEF Sums
  <2> QED
    BY <1>6, <2>1
<1>8. ASSUME NEW T \in SUBSET S, T # {}, T \ {Pick(T)} \in G
      PROVE  T \in G
  <2>1. PICK U, x : U = T \ {Pick(T)} /\ x = Pick(T)
    OBVIOUS
  <2>2. U \in SUBSET S /\ x \in S
    BY <1>8, <2>1, FS_Subset, TakeOut
  <2>3. he[T] = e[x] + he[U] /\ hf[T] = f[x] + hf[U] /\ hg[T] = g[x] + hg[U]
    BY <1>3, <1>4, <1>5, <1>8, <2>1, Zenon DEF Sums
  <2>4. e[x] = f[x] + g[x] /\ f[x] \in Int /\ g[x] \in Int
    BY <1>1, <2>2
  <2>5. he[U] = hf[U] + hg[U] /\ hf[U] \in Int /\ hg[U] \in Int
    BY <1>6, <1>8, <2>1, <2>2
  <2> QED
    BY <1>6, <2>3, <2>4, <2>5
<1>9. S \in G
  <2>1. \A T \in SUBSET S : T \in G
    BY <1>7, <1>8, SetsFrom
  <2> QED
    BY <2>1
<1> QED
  BY <1>1, <1>3, <1>4, <1>5, <1>6, <1>9

LEMMA SumGrows ==
  ASSUME NEW S, IsFiniteSet(S), NEW f \in [S -> Int], NEW g \in [S -> Int], \A x \in S : f[x] <= g[x]
  PROVE  SumFunction(f) <= SumFunction(g)
<1>3. PICK hf \in [SUBSET S -> Int] : Sums(hf, f, S) /\ SumFunction(f) = hf[S]
  BY SumUnrolls
<1>4. PICK hg \in [SUBSET S -> Int] : Sums(hg, g, S) /\ SumFunction(g) = hg[S]
  BY SumUnrolls
<1>6. PICK G : G = {T \in SUBSET S : hf[T] <= hg[T]}
  OBVIOUS
<1>7. {} \in G
  <2>1. hf[{}] = 0 /\ hg[{}] = 0
    BY <1>3, <1>4 DEF Sums
  <2> QED
    BY <1>6, <2>1
<1>8. ASSUME NEW T \in SUBSET S, T # {}, T \ {Pick(T)} \in G
      PROVE  T \in G
  <2>1. PICK U, x : U = T \ {Pick(T)} /\ x = Pick(T)
    OBVIOUS
  <2>2. U \in SUBSET S /\ x \in S
    BY <1>8, <2>1, FS_Subset, TakeOut
  <2>3. hf[T] = f[x] + hf[U] /\ hg[T] = g[x] + hg[U]
    BY <1>3, <1>4, <1>8, <2>1, Zenon DEF Sums
  <2>4. f[x] <= g[x] /\ f[x] \in Int /\ g[x] \in Int
    BY <2>2
  <2>5. hf[U] <= hg[U] /\ hf[U] \in Int /\ hg[U] \in Int
    BY <1>6, <1>8, <2>1, <2>2
  <2> QED
    BY <1>6, <2>3, <2>4, <2>5
<1>9. S \in G
  <2>1. \A T \in SUBSET S : T \in G
    BY <1>7, <1>8, SetsFrom
  <2> QED
    BY <2>1
<1> QED
  BY <1>3, <1>4, <1>6, <1>9

(* A sum of which at most one term counts, and a sum that counts.              *)
LEMMA SumOfOne ==
  ASSUME NEW S, IsFiniteSet(S), NEW f \in [S -> Int], NEW a, \A x \in S : x # a => f[x] = 0
  PROVE  SumFunction(f) = IF a \in S THEN f[a] ELSE 0
<1>3. PICK hf \in [SUBSET S -> Int] : Sums(hf, f, S) /\ SumFunction(f) = hf[S]
  BY SumUnrolls
<1>6. PICK G : G = {T \in SUBSET S : hf[T] = IF a \in T THEN f[a] ELSE 0}
  OBVIOUS
<1>7. {} \in G
  <2>1. hf[{}] = 0
    BY <1>3 DEF Sums
  <2> QED
    BY <1>6, <2>1
<1>8. ASSUME NEW T \in SUBSET S, T # {}, T \ {Pick(T)} \in G
      PROVE  T \in G
  <2>1. PICK U, x : U = T \ {Pick(T)} /\ x = Pick(T)
    OBVIOUS
  <2>2. U \in SUBSET S /\ x \in T
    BY <1>8, <2>1, FS_Subset, TakeOut
  <2>3. hf[T] = f[x] + hf[U]
    BY <1>3, <1>8, <2>1, Zenon DEF Sums
  <2>4. hf[U] = IF a \in U THEN f[a] ELSE 0
    BY <1>6, <1>8, <2>1
  <2>5. CASE x = a
    BY <1>6, <2>1, <2>2, <2>3, <2>4, <2>5
  <2>6. CASE x # a
    <3>1. f[x] = 0 /\ (a \in T <=> a \in U)
      BY <2>1, <2>2, <2>6
    <3>2. hf[U] \in Int
      BY <2>2
    <3>3. hf[T] = hf[U]
      BY <2>3, <3>1, <3>2
    <3> QED
      BY <1>6, <2>4, <3>1, <3>3
  <2> QED
    BY <2>5, <2>6
<1>9. S \in G
  <2>1. \A T \in SUBSET S : T \in G
    BY <1>7, <1>8, SetsFrom
  <2> QED
    BY <2>1
<1> QED
  BY <1>3, <1>6, <1>9

LEMMA SumCounts ==
  ASSUME NEW S, IsFiniteSet(S), NEW H, H \subseteq S
  PROVE  SumFunction([x \in S |-> IF x \in H THEN 1 ELSE 0]) = Cardinality(H)
<1>1. PICK f : f = [x \in S |-> IF x \in H THEN 1 ELSE 0]
  OBVIOUS
<1>2. f \in [S -> Int]
  BY <1>1
<1>3. PICK hf \in [SUBSET S -> Int] : Sums(hf, f, S) /\ SumFunction(f) = hf[S]
  BY <1>2, SumUnrolls
<1>6. PICK G : G = {T \in SUBSET S : hf[T] = Cardinality(H \cap T)}
  OBVIOUS
<1>7. {} \in G
  <2>1. hf[{}] = 0
    BY <1>3 DEF Sums
  <2>2. H \cap {} = {}
    OBVIOUS
  <2> QED
    BY <1>6, <2>1, <2>2, FS_EmptySet
<1>8. ASSUME NEW T \in SUBSET S, T # {}, T \ {Pick(T)} \in G
      PROVE  T \in G
  <2>1. PICK U, x : U = T \ {Pick(T)} /\ x = Pick(T)
    OBVIOUS
  <2>2. U \in SUBSET S /\ x \in T /\ x \in S /\ IsFiniteSet(U) /\ x \notin U
    BY <1>8, <2>1, FS_Subset, TakeOut
  <2>3. hf[T] = f[x] + hf[U]
    BY <1>3, <1>8, <2>1, Zenon DEF Sums
  <2>4. hf[U] = Cardinality(H \cap U)
    BY <1>6, <1>8, <2>1
  <2>5. PICK K : K = H \cap U
    OBVIOUS
  <2>6. IsFiniteSet(K) /\ Cardinality(K) \in Nat
    BY <2>2, <2>5, FS_Intersection, FS_CardinalityType
  <2>7. CASE x \in H
    <3>1. H \cap T = K \cup {x} /\ x \notin K
      BY <2>1, <2>2, <2>5, <2>7
    <3>2. Cardinality(K \cup {x}) = Cardinality(K) + 1
      BY <2>6, <3>1, FS_AddElement
    <3>3. f[x] = 1
      BY <1>1, <2>2, <2>7
    <3>4. hf[T] = Cardinality(K) + 1
      BY <2>3, <2>4, <2>5, <2>6, <3>3
    <3>5. hf[T] = Cardinality(H \cap T)
      BY <3>1, <3>2, <3>4, Zenon
    <3> QED
      BY <1>6, <3>5, Zenon
  <2>8. CASE x \notin H
    <3>1. H \cap T = K
      BY <2>1, <2>2, <2>5, <2>8
    <3>2. f[x] = 0
      BY <1>1, <2>2, <2>8
    <3>4. hf[T] = Cardinality(K)
      BY <2>3, <2>4, <2>5, <2>6, <3>2
    <3>5. hf[T] = Cardinality(H \cap T)
      BY <3>1, <3>4, Zenon
    <3> QED
      BY <1>6, <3>5, Zenon
  <2> QED
    BY <2>7, <2>8
<1>9. S \in G
  <2>1. \A T \in SUBSET S : T \in G
    BY <1>7, <1>8, SetsFrom
  <2> QED
    BY <2>1
<1>10. H \cap S = H
  OBVIOUS
<1> QED
  BY <1>1, <1>3, <1>6, <1>9, <1>10

(* Row by row or day by day: f sums the rows of a table, g its columns.         *)
Table(A, B, row, col, f, g) ==
  /\ IsFiniteSet(A) /\ IsFiniteSet(B)
  /\ \A a \in A : row[a] \in [B -> Int]
  /\ \A b \in B : col[b] \in [A -> Int]
  /\ \A a \in A, b \in B : row[a][b] = col[b][a]
  /\ f \in [A -> Int] /\ \A a \in A : f[a] = SumFunction(row[a])
  /\ g \in [B -> Int] /\ \A b \in B : g[b] = SumFunction(col[b])

LEMMA SumSwaps ==
  ASSUME NEW A, NEW B, NEW row, NEW col, NEW f, NEW g, Table(A, B, row, col, f, g)
  PROVE  SumFunction(f) = SumFunction(g)
<1>1. /\ IsFiniteSet(A) /\ IsFiniteSet(B) /\ f \in [A -> Int] /\ g \in [B -> Int]
      /\ \A a \in A : row[a] \in [B -> Int]
      /\ \A b \in B : col[b] \in [A -> Int]
      /\ \A a \in A, b \in B : row[a][b] = col[b][a]
      /\ \A a \in A : f[a] = SumFunction(row[a])
      /\ \A b \in B : g[b] = SumFunction(col[b])
  BY DEF Table
<1>2. PICK h \in [SUBSET A -> Int] : Sums(h, f, A) /\ SumFunction(f) = h[A]
  BY <1>1, SumUnrolls
<1>3. PICK k : k = [b \in B |-> CHOOSE e \in [SUBSET A -> Int] : Sums(e, col[b], A) /\ SumFunction(col[b]) = e[A]]
  OBVIOUS
<1>4. \A b \in B : k[b] \in [SUBSET A -> Int] /\ Sums(k[b], col[b], A) /\ SumFunction(col[b]) = k[b][A]
  <2> SUFFICES ASSUME NEW b \in B
               PROVE  k[b] \in [SUBSET A -> Int] /\ Sums(k[b], col[b], A) /\ SumFunction(col[b]) = k[b][A]
    OBVIOUS
  <2>1. \E e \in [SUBSET A -> Int] : Sums(e, col[b], A) /\ SumFunction(col[b]) = e[A]
    BY <1>1, SumUnrolls
  <2>2. k[b] = CHOOSE e \in [SUBSET A -> Int] : Sums(e, col[b], A) /\ SumFunction(col[b]) = e[A]
    BY <1>3
  <2> QED
    BY <2>1, <2>2, Zenon
<1>5. PICK part : part = [T \in SUBSET A |-> [b \in B |-> k[b][T]]]
  OBVIOUS
<1>6. \A T \in SUBSET A : part[T] \in [B -> Int]
  BY <1>4, <1>5
<1>7. PICK G : G = {T \in SUBSET A : h[T] = SumFunction(part[T])}
  OBVIOUS
<1>8. {} \in G
  <2>1. h[{}] = 0 /\ \A b \in B : k[b][{}] = 0
    BY <1>2, <1>4 DEF Sums
  <2>2. part[{}] \in [B -> Int] /\ \A b \in B : b # 0 => part[{}][b] = 0
    BY <1>5, <1>6, <2>1
  <2>3. SumFunction(part[{}]) = IF 0 \in B THEN part[{}][0] ELSE 0
    BY <1>1, <2>2, SumOfOne
  <2>4. SumFunction(part[{}]) = 0
    BY <1>5, <2>1, <2>3
  <2> QED
    BY <1>7, <2>1, <2>4
<1>9. ASSUME NEW T \in SUBSET A, T # {}, T \ {Pick(T)} \in G
       PROVE  T \in G
  <2>1. PICK U, x : U = T \ {Pick(T)} /\ x = Pick(T)
    OBVIOUS
  <2>2. U \in SUBSET A /\ x \in A
    BY <1>1, <1>9, <2>1, FS_Subset, TakeOut
  <2>3. h[T] = f[x] + h[U] /\ \A b \in B : k[b][T] = col[b][x] + k[b][U]
    BY <1>2, <1>4, <1>9, <2>1, Zenon DEF Sums
  <2>4. part[T] = [b \in B |-> row[x][b] + part[U][b]]
    <3>1. \A b \in B : part[T][b] = row[x][b] + part[U][b]
      BY <1>1, <1>5, <2>2, <2>3
    <3> QED
      BY <1>5, <3>1
  <2>5. SumFunction(part[T]) = SumFunction(row[x]) + SumFunction(part[U])
    <3>1. PICK p, q, s : p = row[x] /\ q = part[U] /\ s = part[T]
      OBVIOUS
    <3>2. IsFiniteSet(B) /\ p \in [B -> Int] /\ q \in [B -> Int] /\ s = [b \in B |-> p[b] + q[b]]
      BY <1>1, <1>5, <1>6, <2>2, <2>4, <3>1
    <3>3. SumFunction(s) = SumFunction(p) + SumFunction(q)
      BY <3>2, SumAdds
    <3> QED
      BY <3>1, <3>3
  <2>6. f[x] = SumFunction(row[x]) /\ h[U] = SumFunction(part[U])
    BY <1>1, <1>7, <1>9, <2>1, <2>2
  <2> QED
    BY <1>7, <2>3, <2>5, <2>6
<1>10. A \in G
  <2>1. \A T \in SUBSET A : T \in G
    BY <1>1, <1>8, <1>9, SetsFrom
  <2> QED
    BY <2>1
<1>11. part[A] = g
  <2>1. \A b \in B : part[A][b] = g[b]
    BY <1>1, <1>4, <1>5
  <2> QED
    BY <1>1, <1>5, <2>1
<1> QED
  BY <1>2, <1>7, <1>10, <1>11

(* Sums compared term by term.                                               *)
LEMMA SumsCompare ==
  ASSUME NEW S, IsFiniteSet(S), NEW a \in [S -> Int], NEW b \in [S -> Int], NEW c \in [S -> Int], NEW e \in [S -> Int],
         \A x \in S : a[x] + 2 * b[x] <= c[x] + 2 * e[x]
  PROVE  SumFunction(a) + 2 * SumFunction(b) <= SumFunction(c) + 2 * SumFunction(e)
<1> DEFINE plus(f, g) == [x \in S |-> f[x] + g[x]]
<1>1. PICK bb, ee, left, right : bb = plus(b, b) /\ ee = plus(e, e) /\ left = plus(a, bb) /\ right = plus(c, ee)
  OBVIOUS
<1>2. bb \in [S -> Int] /\ ee \in [S -> Int] /\ \A x \in S : bb[x] = b[x] + b[x] /\ ee[x] = e[x] + e[x]
  BY <1>1
<1>3. left \in [S -> Int] /\ right \in [S -> Int] /\ \A x \in S : left[x] = a[x] + bb[x] /\ right[x] = c[x] + ee[x]
  BY <1>1, <1>2
<1>4. \A x \in S : left[x] <= right[x]
  <2> SUFFICES ASSUME NEW x \in S PROVE left[x] <= right[x]
    OBVIOUS
  <2>1. a[x] \in Int /\ b[x] \in Int /\ c[x] \in Int /\ e[x] \in Int
    OBVIOUS
  <2> QED
    BY <1>2, <1>3, <2>1
<1>5. SumFunction(left) <= SumFunction(right)
  BY <1>3, <1>4, SumGrows
<1>6. SumFunction(bb) = SumFunction(b) + SumFunction(b) /\ SumFunction(ee) = SumFunction(e) + SumFunction(e)
  <2>1. SumFunction(bb) = SumFunction(b) + SumFunction(b)
    BY <1>1, SumAdds
  <2>2. SumFunction(ee) = SumFunction(e) + SumFunction(e)
    BY <1>1, SumAdds
  <2> QED
    BY <2>1, <2>2, Zenon
<1>7. SumFunction(left) = SumFunction(a) + SumFunction(bb) /\ SumFunction(right) = SumFunction(c) + SumFunction(ee)
  <2>1. bb \in [S -> Int] /\ ee \in [S -> Int] /\ left = [x \in S |-> a[x] + bb[x]] /\ right = [x \in S |-> c[x] + ee[x]]
    BY <1>1, <1>2
  <2> HIDE DEF plus
  <2>2. SumFunction(left) = SumFunction(a) + SumFunction(bb)
    BY <2>1, SumAdds
  <2>3. SumFunction(right) = SumFunction(c) + SumFunction(ee)
    BY <2>1, SumAdds
  <2> QED
    BY <2>2, <2>3, Zenon
<1>8. SumFunction(a) \in Int /\ SumFunction(b) \in Int /\ SumFunction(c) \in Int /\ SumFunction(e) \in Int
  BY SumType
<1> QED
  BY <1>5, <1>6, <1>7, <1>8

LEMMA SumOfNothing ==
  ASSUME NEW S, IsFiniteSet(S), NEW f \in [S -> Int], \A x \in S : f[x] = 0
  PROVE  SumFunction(f) = 0
<1>1. SumFunction(f) = IF 0 \in S THEN f[0] ELSE 0
  BY SumOfOne
<1> QED
  BY <1>1

-----------------------------------------------------------------------------
(* One day of the two computations.  Nobody's forms crossed, so the rows are     *)
(* apart: at most one of each table is about the day.                         *)
LEMMA RowsOfADay ==
  ASSUME LeaveIInv, rushed = {}, NEW d \in Days
  PROVE  /\ \A q, r \in LeavesOn(d) : q = r
         /\ \A s, t \in sick : Covers(s, d) /\ Covers(t, d) => s = t
         /\ \A g, h \in HolidaysOn(d) : g = h
         /\ LeavesOn(d) # {} => ~SickOn(d)
<1>1. /\ \A r \in Approved : leave[r].from \in Int /\ leave[r].to \in Int
      /\ \A s \in sick : s.from \in Int /\ s.to \in Int
      /\ \A h \in company : h.from \in Int /\ h.to \in Int
  <2>1. /\ \A r \in Approved : leave[r] \in LeaveRow
        /\ \A s \in sick : s \in SickRow
        /\ \A h \in company : h \in CompanyRow
    BY DEF LeaveIInv, LeaveTables, Approved
  <2> QED
    BY <2>1, SpanFacts
<1>2. /\ \A r, q \in Approved : r # q => ~Overlap(leave[r], leave[q])
      /\ \A r \in Approved, s \in sick : ~Overlap(leave[r], s)
      /\ \A g, h \in company : g # h => ~Overlap(g, h)
      /\ \A s, t \in sick : s # t => ~Overlap(s, t)
  BY DEF LeaveIInv, Apart
<1>3. ASSUME NEW q \in LeavesOn(d), NEW r \in LeavesOn(d) PROVE q = r
  <2>1. q \in Approved /\ r \in Approved /\ Covers(leave[q], d) /\ Covers(leave[r], d)
    BY Zenon DEF LeavesOn
  <2>2. Overlap(leave[q], leave[r])
    BY <1>1, <2>1, BothCover
  <2> QED
    BY <1>2, <2>1, <2>2, Zenon
<1>4. ASSUME NEW s \in sick, NEW t \in sick, Covers(s, d), Covers(t, d) PROVE s = t
  <2>1. Overlap(s, t)
    BY <1>1, <1>4, BothCover
  <2> QED
    BY <1>2, <2>1, Zenon
<1>5. ASSUME NEW g \in HolidaysOn(d), NEW h \in HolidaysOn(d) PROVE g = h
  <2>1. g \in company /\ h \in company /\ Covers(g, d) /\ Covers(h, d)
    BY Zenon DEF HolidaysOn
  <2>2. Overlap(g, h)
    BY <1>1, <2>1, BothCover
  <2> QED
    BY <1>2, <2>1, <2>2, Zenon
<1>6. ASSUME LeavesOn(d) # {}, SickOn(d) PROVE FALSE
  <2>1. PICK r \in Approved, s \in sick : Covers(leave[r], d) /\ Covers(s, d)
    BY <1>6, Zenon DEF LeavesOn, SickOn
  <2>2. Overlap(leave[r], s)
    BY <1>1, <2>1, BothCover
  <2> QED
    BY <1>2, <2>2, Zenon
<1> QED
  BY <1>3, <1>4, <1>5, <1>6, Zenon

(* ... and it is the one that is shown.                                      *)
LEMMA ShownRows ==
  ASSUME LeaveIInv, rushed = {}, NEW d \in Days
  PROVE  /\ \A r \in LeavesOn(d) : r = ShownLeave(d)
         /\ \A h \in HolidaysOn(d) : h = ShownHoliday(d) /\ h = HolidayOn(d)
         /\ LeavesOn(d) # {} => ShownLeave(d) \in LeavesOn(d)
         /\ HolidaysOn(d) # {} => ShownHoliday(d) \in HolidaysOn(d)
<1>1. ASSUME NEW r \in LeavesOn(d) PROVE r = ShownLeave(d)
  <2>1. leave[r].from \in Int
    BY SpanFacts DEF LeaveIInv, LeaveTables, LeavesOn, Approved
  <2>2. leave[r].from >= leave[r].from
    BY <2>1
  <2>3. \A q \in LeavesOn(d) : leave[r].from >= leave[q].from
    BY <2>2, RowsOfADay, Zenon
  <2>4. ShownLeave(d) \in LeavesOn(d)
    BY <2>3, Zenon DEF ShownLeave
  <2> QED
    BY <2>4, RowsOfADay, Zenon
<1>2. ASSUME NEW h \in HolidaysOn(d) PROVE h = ShownHoliday(d) /\ h = HolidayOn(d)
  <2>1. h.from \in Int
    BY SpanFacts DEF LeaveIInv, LeaveTables, HolidaysOn
  <2>2. h.from >= h.from /\ h.from <= h.from
    BY <2>1
  <2>3. \A g \in HolidaysOn(d) : h.from >= g.from /\ h.from <= g.from
    BY <2>2, RowsOfADay, Zenon
  <2>4. ShownHoliday(d) \in HolidaysOn(d) /\ HolidayOn(d) \in HolidaysOn(d)
    BY <2>3, Zenon DEF ShownHoliday, HolidayOn
  <2> QED
    BY <2>4, RowsOfADay, Zenon
<1> QED
  BY <1>1, <1>2, Zenon

(* The three numbers of minutes there are.                                   *)
LEMMA MinutesFacts ==
  /\ MinutesOf(0) = 0 /\ MinutesOf(2) = DayMinutes
  /\ MinutesOf(1) \in Nat /\ DayMinutes - 1 <= 2 * MinutesOf(1) /\ 2 * MinutesOf(1) <= DayMinutes + 1
<1>1. DayMinutes \in Nat
  BY DayAssumption
<1>2. PICK n, m : n = DayMinutes /\ m = MinutesOf(1)
  OBVIOUS
<1>3. n \in Nat /\ m = IF n % 4 = 3 THEN (n + 1) \div 2 ELSE n \div 2
  BY <1>1, <1>2 DEF MinutesOf
<1>4. m \in Nat /\ n - 1 <= 2 * m /\ 2 * m <= n + 1
  BY <1>3
<1>5. MinutesOf(0) = 0
  BY <1>1 DEF MinutesOf
<1>6. MinutesOf(2) = n
  <2>1. (2 * n) % 4 # 3 /\ (2 * n) \div 2 = n
    BY <1>3
  <2>2. n * 2 = 2 * n
    BY <1>3
  <2> QED
    BY <1>2, <2>1, <2>2 DEF MinutesOf
<1> QED
  BY <1>2, <1>4, <1>5, <1>6

LEMMA GrantedFacts ==
  ASSUME NEW r, NEW d
  PROVE  Granted(r, d) \in {0, 1, 2}
<1>1. PICK m \in {0, 1}, n \in {0, 1} :
        /\ m = Half(leave[r].halfStart /\ leave[r].from = d)
        /\ n = Half(leave[r].halfEnd /\ leave[r].to = d)
  BY HalfFacts
<1>2. Granted(r, d) = 2 - m - n
  BY <1>1, Zenon DEF Granted
<1> QED
  BY <1>2

-----------------------------------------------------------------------------
(* What the rows come to on a day.                                           *)
LeaveMinutes(r, d) == IF Covers(leave[r], d) THEN TargetMinutes(d) * Granted(r, d) ELSE 0
SickMinutes(s, d) == IF Covers(s, d) THEN TargetMinutes(d) ELSE 0
CompanyMinutes(h, d) == IF Covers(h, d) /\ d \in WorkDays THEN MinutesOf(HalfDays(h)) ELSE 0

LeaveOn(d) == SumFunction([r \in Approved |-> LeaveMinutes(r, d)])
SickMinutesOn(d) == SumFunction([s \in sick |-> SickMinutes(s, d)])
Counting == {g \in company : g.counts}
CompanyOn(d) == SumFunction([h \in Counting |-> CompanyMinutes(h, d)])
ChargedOn(d) == SumFunction([r \in Approved |-> Charge(r, d)])

LEMMA RowsAreFinite ==
  ASSUME LeaveIInv
  PROVE  IsFiniteSet(Approved) /\ IsFiniteSet(sick) /\ IsFiniteSet(Counting)
<1>1. IsFiniteSet(Days) /\ IsFiniteSet(BOOLEAN)
  <2>1. BOOLEAN = {TRUE} \cup {FALSE}
    OBVIOUS
  <2>2. IsFiniteSet({TRUE}) /\ IsFiniteSet({FALSE})
    BY FS_Singleton
  <2>3. IsFiniteSet({TRUE} \cup {FALSE})
    BY <2>2, FS_Union
  <2>4. IsFiniteSet(Days)
    BY FS_Interval, CalendarAssumption DEF Days
  <2> QED
    BY <2>1, <2>3, <2>4, Zenon
<1>2. IsFiniteSet(Approved)
  <2>1. Approved \in SUBSET Vacations
    BY DEF Approved
  <2> QED
    BY <2>1, DayAssumption, FS_Subset
<1>3. IsFiniteSet((Days \X Days) \X (BOOLEAN \X (BOOLEAN \X BOOLEAN)))
  <2>1. IsFiniteSet(Days \X Days) /\ IsFiniteSet(BOOLEAN \X BOOLEAN)
    BY <1>1, FS_Product
  <2>2. IsFiniteSet(BOOLEAN \X (BOOLEAN \X BOOLEAN))
    BY <1>1, <2>1, FS_Product
  <2> QED
    BY <2>1, <2>2, FS_Product
<1>4. IsFiniteSet(sick)
  <2>1. PICK g : g = [s \in sick |-> <<s.from, s.to>>]
    OBVIOUS
  <2>2. g \in [sick -> Days \X Days] /\ \A s, t \in sick : g[s] = g[t] => s = t
    BY <2>1 DEF LeaveIInv, LeaveTables, SickRow
  <2>3. g \in Injection(sick, Days \X Days)
    BY <2>2 DEF Injection, IsInjective
  <2>4. IsFiniteSet(Days \X Days)
    BY <1>1, FS_Product
  <2> QED
    BY <2>3, <2>4, FS_Injection
<1>5. IsFiniteSet(company)
  <2>1. PICK g : g = [s \in company |-> <<<<s.from, s.to>>, <<s.counts, <<s.bridge, s.half>>>>>>]
    OBVIOUS
  <2>2. g \in [company -> (Days \X Days) \X (BOOLEAN \X (BOOLEAN \X BOOLEAN))] /\ \A s, t \in company : g[s] = g[t] => s = t
    BY <2>1 DEF LeaveIInv, LeaveTables, CompanyRow
  <2>3. g \in Injection(company, (Days \X Days) \X (BOOLEAN \X (BOOLEAN \X BOOLEAN)))
    BY <2>2 DEF Injection, IsInjective
  <2> QED
    BY <1>3, <2>3, FS_Injection
<1>6. Counting \in SUBSET company
  BY DEF Counting
<1> QED
  BY <1>2, <1>4, <1>5, <1>6, FS_Subset

LEMMA TargetFacts ==
  ASSUME LeaveIInv, rushed = {}, NEW d \in Days
  PROVE  /\ TargetMinutes(d) \in Nat
         /\ d \notin WorkDays \/ d \in public => TargetMinutes(d) = 0
         /\ d \in WorkDays /\ d \notin public /\ HolidaysOn(d) = {} => TargetMinutes(d) = DayMinutes
         /\ d \in WorkDays /\ d \notin public /\ HolidaysOn(d) # {} =>
              TargetMinutes(d) = IF ShownHoliday(d).half THEN MinutesOf(1) ELSE 0
<1>1. ASSUME d \in WorkDays, d \notin public, HolidaysOn(d) # {}
      PROVE  TargetMinutes(d) = IF ShownHoliday(d).half THEN MinutesOf(1) ELSE 0
  <2>1. HolidayOn(d) = ShownHoliday(d)
    BY <1>1, ShownRows, Zenon
  <2>2. TargetMinutes(d) = MinutesOf(2 - HalfDays(ShownHoliday(d)))
    BY <1>1, <2>1, Zenon DEF TargetMinutes
  <2>3. 2 - 1 = 1 /\ 2 - 2 = 0
    OBVIOUS
  <2> QED
    BY <2>2, <2>3, MinutesFacts, Zenon DEF HalfDays
<1>2. d \notin WorkDays \/ d \in public => TargetMinutes(d) = 0
  BY Zenon DEF TargetMinutes
<1>3. d \in WorkDays /\ d \notin public /\ HolidaysOn(d) = {} => TargetMinutes(d) = DayMinutes
  BY Zenon DEF TargetMinutes
<1>4. DayMinutes \in Nat /\ 0 \in Nat /\ MinutesOf(1) \in Nat
  BY DayAssumption, MinutesFacts
<1>5. TargetMinutes(d) \in Nat
  BY <1>1, <1>2, <1>3, <1>4, Zenon
<1> QED
  BY <1>1, <1>2, <1>3, <1>5, Zenon

LEMMA LeaveOfADay ==
  ASSUME LeaveIInv, rushed = {}, NEW d \in Days
  PROVE  /\ LeaveOn(d) = IF LeavesOn(d) # {} THEN TargetMinutes(d) * Granted(ShownLeave(d), d) ELSE 0
         /\ ChargedOn(d) = IF LeavesOn(d) # {} /\ Target(d) THEN Granted(ShownLeave(d), d) ELSE 0
<1>1. PICK a : a = ShownLeave(d)
  OBVIOUS
<1>2. PICK f : f = [r \in Approved |-> LeaveMinutes(r, d)]
  OBVIOUS
<1>3. PICK g : g = [r \in Approved |-> Charge(r, d)]
  OBVIOUS
<1>4. \A r \in Approved : LeaveMinutes(r, d) = IF r \in LeavesOn(d) THEN TargetMinutes(d) * Granted(r, d) ELSE 0
  BY Zenon DEF LeaveMinutes, LeavesOn
<1>5. \A r \in Approved : Charge(r, d) = IF r \in LeavesOn(d) /\ Target(d) THEN Granted(r, d) ELSE 0
  BY Zenon DEF Charge, Granted, LeavesOn
<1>6. \A r : TargetMinutes(d) * Granted(r, d) \in Int /\ Granted(r, d) \in Int
  BY GrantedFacts, TargetFacts
<1>7. f \in [Approved -> Int] /\ g \in [Approved -> Int]
  BY <1>2, <1>3, <1>4, <1>5, <1>6
<1>8. \A r \in Approved : r # a => r \notin LeavesOn(d)
  BY <1>1, ShownRows, Zenon
<1>9. SumFunction(f) = (IF a \in Approved THEN f[a] ELSE 0) /\ SumFunction(g) = (IF a \in Approved THEN g[a] ELSE 0)
  BY <1>2, <1>3, <1>4, <1>5, <1>7, <1>8, RowsAreFinite, SumOfOne
<1>10. CASE LeavesOn(d) # {}
  <2>1. a \in LeavesOn(d) /\ a \in Approved
    BY <1>1, <1>10, ShownRows, Zenon DEF LeavesOn
  <2> QED
    BY <1>1, <1>2, <1>3, <1>4, <1>5, <1>9, <1>10, <2>1 DEF LeaveOn, ChargedOn
<1>11. CASE LeavesOn(d) = {}
  <2>1. \A r \in Approved : f[r] = 0 /\ g[r] = 0
    BY <1>2, <1>3, <1>4, <1>5, <1>11
  <2> QED
    BY <1>2, <1>3, <1>9, <1>11, <2>1 DEF LeaveOn, ChargedOn
<1> QED
  BY <1>10, <1>11

LEMMA SickOfADay ==
  ASSUME LeaveIInv, rushed = {}, NEW d \in Days
  PROVE  SickMinutesOn(d) = IF SickOn(d) THEN TargetMinutes(d) ELSE 0
<1>1. PICK a : a = CHOOSE s \in sick : Covers(s, d)
  OBVIOUS
<1>2. PICK f : f = [s \in sick |-> SickMinutes(s, d)]
  OBVIOUS
<1>3. TargetMinutes(d) \in Int
  BY TargetFacts
<1>4. \A s \in sick : SickMinutes(s, d) = IF Covers(s, d) THEN TargetMinutes(d) ELSE 0
  BY Zenon DEF SickMinutes
<1>5. f \in [sick -> Int]
  BY <1>2, <1>3, <1>4
<1>6. SickOn(d) => a \in sick /\ Covers(a, d)
  BY <1>1, Zenon DEF SickOn
<1>7. \A s \in sick : s # a => ~Covers(s, d)
  BY <1>6, RowsOfADay, Zenon DEF SickOn
<1>8. SumFunction(f) = IF a \in sick THEN f[a] ELSE 0
  BY <1>2, <1>4, <1>5, <1>7, RowsAreFinite, SumOfOne
<1>9. CASE SickOn(d)
  BY <1>2, <1>4, <1>6, <1>8, <1>9 DEF SickMinutesOn
<1>10. CASE ~SickOn(d)
  <2>1. \A s \in sick : ~Covers(s, d)
    BY <1>10, Zenon DEF SickOn
  <2> QED
    BY <1>2, <1>4, <1>8, <1>10, <2>1 DEF SickMinutesOn
<1> QED
  BY <1>9, <1>10

LEMMA HalfDaysFacts ==
  ASSUME NEW h
  PROVE  HalfDays(h) = (IF h.half THEN 1 ELSE 2) /\ MinutesOf(HalfDays(h)) = IF h.half THEN MinutesOf(1) ELSE DayMinutes
  BY MinutesFacts, Zenon DEF HalfDays

LEMMA CompanyOfADay ==
  ASSUME LeaveIInv, rushed = {}, NEW d \in Days
  PROVE  /\ CompanyOn(d) = IF d \in WorkDays /\ HolidaysOn(d) # {} /\ ShownHoliday(d).counts
                          THEN MinutesOf(HalfDays(ShownHoliday(d))) ELSE 0
         /\ BridgeCost(d) = IF d \in WorkDays \ public /\ HolidaysOn(d) # {} /\ ShownHoliday(d).bridge
                            THEN HalfDays(ShownHoliday(d)) ELSE 0
         /\ HolidaysOn(d) # {} /\ ShownHoliday(d).bridge => ShownHoliday(d).counts
<1>1. PICK a : a = ShownHoliday(d)
  OBVIOUS
<1>2. PICK f : f = [h \in Counting |-> CompanyMinutes(h, d)]
  OBVIOUS
<1>3. \A h \in Counting : CompanyMinutes(h, d) = IF h \in HolidaysOn(d) /\ d \in WorkDays THEN MinutesOf(HalfDays(h)) ELSE 0
  BY Zenon DEF CompanyMinutes, HolidaysOn, Counting
<1>4. \A h : MinutesOf(HalfDays(h)) \in Int
  <2>1. MinutesOf(1) \in Int /\ DayMinutes \in Int
    BY MinutesFacts, DayAssumption
  <2> QED
    BY <2>1, HalfDaysFacts, Zenon
<1>5. f \in [Counting -> Int]
  BY <1>2, <1>3, <1>4
<1>6. \A h \in Counting : h # a => h \notin HolidaysOn(d)
  BY <1>1, ShownRows, Zenon
<1>7. SumFunction(f) = IF a \in Counting THEN f[a] ELSE 0
  BY <1>2, <1>3, <1>5, <1>6, RowsAreFinite, SumOfOne
<1>8. a \in Counting /\ a \in HolidaysOn(d) <=> HolidaysOn(d) # {} /\ a.counts
  BY <1>1, ShownRows, Zenon DEF Counting, HolidaysOn
<1>9. CompanyOn(d) = IF d \in WorkDays /\ HolidaysOn(d) # {} /\ a.counts THEN MinutesOf(HalfDays(a)) ELSE 0
  <2>1. CompanyOn(d) = SumFunction(f)
    BY <1>2, Zenon DEF CompanyOn
  <2>2. a \in Counting => f[a] = IF a \in HolidaysOn(d) /\ d \in WorkDays THEN MinutesOf(HalfDays(a)) ELSE 0
    BY <1>2, <1>3
  <2> QED
    BY <1>7, <1>8, <2>1, <2>2, Zenon
<1>10. PICK bridges, whole, half :
         /\ bridges = {h \in HolidaysOn(d) : h.bridge}
         /\ whole = {h \in bridges : ~h.half} /\ half = {h \in bridges : h.half}
  OBVIOUS
<1>11. BridgeCost(d) = IF d \in WorkDays \ public THEN 2 * Cardinality(whole) + Cardinality(half) ELSE 0
  BY <1>10, Zenon DEF BridgeCost
<1>12. ASSUME HolidaysOn(d) # {}, a.bridge
       PROVE  BridgeCost(d) = IF d \in WorkDays \ public THEN HalfDays(a) ELSE 0
  <2>1. bridges = {a}
    <3>1. \A h : h \in bridges <=> h = a
      BY <1>1, <1>10, <1>12, ShownRows, Zenon
    <3> QED
      BY <3>1
  <2>2. CASE a.half
    <3>1. \A h : h \notin whole
      BY <1>10, <2>1, <2>2, Zenon
    <3>2. \A h : h \in half <=> h = a
      BY <1>10, <2>1, <2>2, Zenon
    <3>3. whole = {} /\ half = {a}
      BY <3>1, <3>2
    <3>4. Cardinality(whole) = 0 /\ Cardinality(half) = 1
      BY <3>3, FS_EmptySet, FS_Singleton
    <3>5. 2 * Cardinality(whole) + Cardinality(half) = 1
      BY <3>4
    <3> QED
      BY <1>11, <2>2, <3>5, HalfDaysFacts, Zenon
  <2>3. CASE ~a.half
    <3>1. \A h : h \notin half
      BY <1>10, <2>1, <2>3, Zenon
    <3>2. \A h : h \in whole <=> h = a
      BY <1>10, <2>1, <2>3, Zenon
    <3>3. half = {} /\ whole = {a}
      BY <3>1, <3>2
    <3>4. Cardinality(half) = 0 /\ Cardinality(whole) = 1
      BY <3>3, FS_EmptySet, FS_Singleton
    <3>5. 2 * Cardinality(whole) + Cardinality(half) = 2
      BY <3>4
    <3> QED
      BY <1>11, <2>3, <3>5, HalfDaysFacts, Zenon
  <2> QED
    BY <2>2, <2>3
<1>13. ASSUME ~(HolidaysOn(d) # {} /\ a.bridge)
       PROVE  BridgeCost(d) = 0
  <2>1. \A h : h \notin bridges
    BY <1>1, <1>10, <1>13, ShownRows, Zenon
  <2>2. \A h : h \notin whole /\ h \notin half
    BY <1>10, <2>1, Zenon
  <2>3. whole = {} /\ half = {}
    BY <2>2
  <2>4. 2 * Cardinality(whole) + Cardinality(half) = 0
    <3>1. Cardinality(whole) = 0 /\ Cardinality(half) = 0
      BY <2>3, FS_EmptySet
    <3> QED
      BY <3>1
  <2> QED
    BY <1>11, <2>4, Zenon
<1>14. ASSUME HolidaysOn(d) # {}, a.bridge PROVE a.counts
  <2>1. a \in CompanyRow
    BY <1>1, <1>14, ShownRows DEF HolidaysOn, LeaveIInv, LeaveTables
  <2> QED
    BY <1>14, <2>1 DEF CompanyRow
<1> QED
  BY <1>1, <1>9, <1>12, <1>13, <1>14, Zenon

(* What is shown of a day, reason by reason.                                 *)
LEMMA ShownFacts ==
  ASSUME NEW d
  PROVE  /\ d \notin WorkDays => ShownPlan(d) = 0 /\ ShownVacation(d) = 0
         /\ d \in WorkDays /\ HolidaysOn(d) # {} =>
              /\ ShownPlan(d) = DayMinutes - MinutesOf(HalfDays(ShownHoliday(d)))
              /\ ShownVacation(d) = IF ShownHoliday(d).bridge THEN HalfDays(ShownHoliday(d)) ELSE 0
         /\ d \in WorkDays /\ HolidaysOn(d) = {} /\ (d \in public \/ SickOn(d)) =>
              ShownPlan(d) = 0 /\ ShownVacation(d) = 0
         /\ d \in WorkDays /\ HolidaysOn(d) = {} /\ d \notin public /\ ~SickOn(d) /\ LeavesOn(d) # {} =>
              /\ ShownVacation(d) = Granted(ShownLeave(d), d)
              /\ ShownPlan(d) = DayMinutes - MinutesOf(Granted(ShownLeave(d), d))
         /\ d \in WorkDays /\ HolidaysOn(d) = {} /\ d \notin public /\ ~SickOn(d) /\ LeavesOn(d) = {} =>
              ShownPlan(d) = DayMinutes /\ ShownVacation(d) = 0
<1>1. PICK w : w = Reason(d)
  OBVIOUS
<1>2. /\ w = "work" => ShownPlan(d) = DayMinutes /\ ShownVacation(d) = 0
      /\ w = "leave" => ShownVacation(d) = Granted(ShownLeave(d), d) /\ ShownPlan(d) = DayMinutes - MinutesOf(Granted(ShownLeave(d), d))
      /\ w = "company" => /\ ShownPlan(d) = DayMinutes - MinutesOf(HalfDays(ShownHoliday(d)))
                          /\ ShownVacation(d) = IF ShownHoliday(d).bridge THEN HalfDays(ShownHoliday(d)) ELSE 0
      /\ w \in {"free", "public", "sick"} => ShownPlan(d) = 0 /\ ShownVacation(d) = 0
  <2>1. PICK g, hd, m, mh : g = Granted(ShownLeave(d), d) /\ hd = HalfDays(ShownHoliday(d)) /\ m = MinutesOf(g) /\ mh = MinutesOf(hd)
    OBVIOUS
  <2>2. CASE w = "work"
    <3>1. w # "leave" /\ w # "company" /\ w \notin {"free", "public", "sick"}
      BY <2>2
    <3> QED
      BY <1>1, <2>2, <3>1 DEF ShownPlan, ShownVacation
  <2>3. CASE w = "leave"
    <3>1. w # "work" /\ w # "company" /\ w \notin {"free", "public", "sick"}
      BY <2>3
    <3>2. ShownVacation(d) = Granted(ShownLeave(d), d)
      BY <1>1, <2>3 DEF ShownVacation
    <3>3. ShownPlan(d) = DayMinutes - MinutesOf(ShownVacation(d))
      BY <1>1, <2>3, <3>1 DEF ShownPlan
    <3> QED
      BY <3>1, <3>2, <3>3, Zenon
  <2>4. CASE w = "company"
    <3>1. w # "work" /\ w # "leave" /\ w \notin {"free", "public", "sick"}
      BY <2>4
    <3>2. ShownPlan(d) = DayMinutes - MinutesOf(HalfDays(ShownHoliday(d)))
      BY <1>1, <2>4, <3>1 DEF ShownPlan
    <3>3. PICK b \in BOOLEAN : b <=> ShownHoliday(d).bridge
      BY Zenon
    <3>4. ShownVacation(d) = IF ShownHoliday(d).bridge THEN HalfDays(ShownHoliday(d)) ELSE 0
      BY <1>1, <2>4, <3>1 DEF ShownVacation
    <3> QED
      BY <3>1, <3>2, <3>4, Zenon
  <2>5. CASE w \in {"free", "public", "sick"}
    <3>1. w # "work" /\ w # "leave" /\ w # "company"
      BY <2>5
    <3>2. ShownPlan(d) = 0
      BY <1>1, <3>1 DEF ShownPlan
    <3>3. ShownVacation(d) = 0
      BY <1>1, <3>1 DEF ShownVacation
    <3> QED
      BY <3>1, <3>2, <3>3, Zenon
  <2> QED
    BY <2>2, <2>3, <2>4, <2>5, Zenon
<1>3. /\ d \notin WorkDays => w = "free"
      /\ d \in WorkDays /\ HolidaysOn(d) # {} => w = "company"
      /\ d \in WorkDays /\ HolidaysOn(d) = {} /\ (d \in public \/ SickOn(d)) => w \in {"public", "sick"}
      /\ d \in WorkDays /\ HolidaysOn(d) = {} /\ d \notin public /\ ~SickOn(d) /\ LeavesOn(d) # {} => w = "leave"
      /\ d \in WorkDays /\ HolidaysOn(d) = {} /\ d \notin public /\ ~SickOn(d) /\ LeavesOn(d) = {} => w = "work"
  BY <1>1, Zenon DEF Reason
<1> QED
  BY <1>2, <1>3, Zenon

(* What is closed without being charged: of an ordinary company holiday only.  *)
LEMMA ClosedFacts ==
  ASSUME NEW d
  PROVE  ShownClosed(d) = IF d \in WorkDays /\ HolidaysOn(d) # {} /\ ShownHoliday(d).counts /\ ~ShownHoliday(d).bridge
                          THEN MinutesOf(HalfDays(ShownHoliday(d))) ELSE 0
<1>1. PICK w : w = Reason(d)
  OBVIOUS
<1>2. "free" # "company" /\ "public" # "company" /\ "sick" # "company" /\ "leave" # "company" /\ "work" # "company"
  OBVIOUS
<1>3. w = "company" <=> d \in WorkDays /\ HolidaysOn(d) # {}
  BY <1>1, <1>2, Zenon DEF Reason
<1> QED
  BY <1>1, <1>3, Zenon DEF ShownClosed

HalfOf(d) == IF Halved(d) THEN 1 ELSE 0

(* A day that does not clash: twice what is left of the target is twice the plan, *)
(* but for a minute if the day is halved, and so for the vacation; the accounts  *)
(* are charged what is shown.                                               *)
LEMMA DaysAgree ==
  ASSUME LeaveIInv, rushed = {}, NEW d \in Days, ~Clashing(d)
  PROVE  /\ LeaveOn(d) + 2 * (SickMinutesOn(d) + ShownPlan(d)) <= 2 * (TargetMinutes(d) + HalfOf(d))
         /\ 2 * TargetMinutes(d) <= LeaveOn(d) + 2 * (SickMinutesOn(d) + ShownPlan(d) + HalfOf(d))
         /\ LeaveOn(d) + 2 * CompanyOn(d) <= HalfOf(d) + 2 * (MinutesOf(ShownVacation(d)) + ShownClosed(d))
         /\ 2 * (MinutesOf(ShownVacation(d)) + ShownClosed(d)) <= LeaveOn(d) + HalfOf(d) + 2 * CompanyOn(d)
         /\ ChargedOn(d) + BridgeCost(d) = ShownVacation(d)
         /\ LeaveOn(d) \in Int /\ SickMinutesOn(d) \in Int /\ ShownPlan(d) \in Int /\ CompanyOn(d) \in Int
         /\ MinutesOf(ShownVacation(d)) \in Int /\ ShownClosed(d) \in Int /\ ShownVacation(d) \in Int /\ ChargedOn(d) \in Int /\ BridgeCost(d) \in Int
<1>1. PICK t, l, s, p, b, v, m, c, k, hv, z :
        /\ t = TargetMinutes(d) /\ l = LeaveOn(d) /\ s = SickMinutesOn(d) /\ p = ShownPlan(d)
        /\ b = CompanyOn(d) /\ v = ShownVacation(d) /\ m = MinutesOf(v) /\ c = ChargedOn(d) /\ k = BridgeCost(d)
        /\ hv = HalfOf(d) /\ z = ShownClosed(d)
  OBVIOUS
<1>2. PICK D, one, g : D = DayMinutes /\ one = MinutesOf(1) /\ g = Granted(ShownLeave(d), d)
  OBVIOUS
<1>3. D \in Nat /\ one \in Nat /\ D - 1 <= 2 * one /\ 2 * one <= D + 1 /\ g \in {0, 1, 2} /\ hv \in {0, 1}
  BY <1>1, <1>2, DayAssumption, MinutesFacts, GrantedFacts DEF HalfOf
<1>4. SUFFICES /\ l + 2 * (s + p) <= 2 * (t + hv) /\ 2 * t <= l + 2 * (s + p + hv)
               /\ l + 2 * b <= hv + 2 * (m + z) /\ 2 * (m + z) <= l + hv + 2 * b /\ c + k = v
               /\ l \in Int /\ s \in Int /\ p \in Int /\ b \in Int /\ m \in Int /\ v \in Int /\ c \in Int /\ k \in Int /\ z \in Int
  BY <1>1, Zenon
<1>5. MinutesOf(0) = 0 /\ MinutesOf(2) = D
  BY <1>2, MinutesFacts
<1>6. CASE d \notin WorkDays
  <2>1. t = 0 /\ s = 0 /\ p = 0 /\ b = 0 /\ v = 0 /\ m = 0 /\ k = 0 /\ z = 0
    BY <1>1, <1>5, <1>6, TargetFacts, SickOfADay, CompanyOfADay, ShownFacts, ClosedFacts, Zenon
  <2>2. ~Target(d)
    BY <1>6, Zenon DEF Target
  <2>3. l = (IF LeavesOn(d) # {} THEN t * g ELSE 0) /\ c = 0
    BY <1>1, <1>2, <2>2, LeaveOfADay, Zenon
  <2>4. l = 0
    BY <1>3, <2>1, <2>3
  <2> QED
    BY <1>3, <2>1, <2>3, <2>4
<1>7. CASE d \in WorkDays /\ HolidaysOn(d) # {}
  <2>1. PICK h : h = ShownHoliday(d)
    OBVIOUS
  <2>2. h \in HolidaysOn(d) /\ h = HolidayOn(d)
    BY <1>7, <2>1, ShownRows, Zenon
  <2>3. d \notin public
    BY <1>7, Zenon DEF Clashing
  <2>4. CASE h.half
    <3>1. LeavesOn(d) = {} /\ ~SickOn(d)
      BY <1>7, <2>2, <2>4, Zenon DEF Clashing
    <3>2. t = one /\ p = D - one
      BY <1>1, <1>2, <1>7, <2>1, <2>3, <2>4, TargetFacts, ShownFacts, HalfDaysFacts, Zenon
    <3>3. l = 0 /\ s = 0 /\ c = 0
      BY <1>1, <3>1, LeaveOfADay, SickOfADay, Zenon
    <3>4. hv = 1
      BY <1>1, <2>2, <2>4, Zenon DEF HalfOf, Halved
    <3>5. CASE h.bridge
      <4>1. v = 1 /\ m = one /\ b = one /\ k = 1 /\ z = 0
        BY <1>1, <1>2, <1>7, <2>1, <2>3, <2>4, <3>5, CompanyOfADay, ShownFacts, ClosedFacts, HalfDaysFacts, Zenon
      <4> QED
        BY <1>3, <3>2, <3>3, <3>4, <4>1
    <3>6. CASE ~h.bridge
      <4>1. v = 0 /\ m = 0 /\ k = 0 /\ z = b /\ b \in {0, MinutesOf(HalfDays(h))}
        BY <1>1, <1>2, <1>5, <1>7, <2>1, <2>3, <2>4, <3>6, CompanyOfADay, ShownFacts, ClosedFacts, HalfDaysFacts, Zenon
      <4>2. MinutesOf(HalfDays(h)) \in Int
        BY HalfDaysFacts, MinutesFacts, DayAssumption
      <4> QED
        BY <1>3, <3>2, <3>3, <3>4, <4>1, <4>2
    <3> QED
      BY <3>5, <3>6
  <2>5. CASE ~h.half
    <3>1. ~Target(d)
      BY <1>7, <2>2, <2>5, Zenon DEF Target
    <3>2. t = 0 /\ p = D - D
      BY <1>1, <1>2, <1>7, <2>1, <2>3, <2>5, TargetFacts, ShownFacts, HalfDaysFacts, Zenon
    <3>3. l = (IF LeavesOn(d) # {} THEN t * g ELSE 0) /\ c = 0 /\ s = 0
      BY <1>1, <1>2, <3>1, <3>2, LeaveOfADay, SickOfADay, Zenon
    <3>4. l = 0
      BY <1>3, <3>2, <3>3
    <3>5. CASE h.bridge
      <4>1. v = 2 /\ m = D /\ b = D /\ k = 2 /\ z = 0
        BY <1>1, <1>2, <1>5, <1>7, <2>1, <2>3, <2>5, <3>5, CompanyOfADay, ShownFacts, ClosedFacts, HalfDaysFacts, Zenon
      <4> QED
        BY <1>3, <3>2, <3>3, <3>4, <4>1
    <3>6. CASE ~h.bridge
      <4>1. v = 0 /\ m = 0 /\ k = 0 /\ z = b /\ b \in {0, MinutesOf(HalfDays(h))}
        BY <1>1, <1>2, <1>5, <1>7, <2>1, <2>3, <2>5, <3>6, CompanyOfADay, ShownFacts, ClosedFacts, HalfDaysFacts, Zenon
      <4>2. MinutesOf(HalfDays(h)) \in Int
        BY HalfDaysFacts, MinutesFacts, DayAssumption
      <4> QED
        BY <1>3, <3>2, <3>3, <3>4, <4>1, <4>2
    <3> QED
      BY <3>5, <3>6
  <2> QED
    BY <2>4, <2>5
<1>8. CASE d \in WorkDays /\ HolidaysOn(d) = {}
  <2>1. b = 0 /\ k = 0 /\ z = 0
    BY <1>1, <1>8, CompanyOfADay, ClosedFacts, Zenon
  <2>2. CASE d \in public
    <3>1. t = 0 /\ s = 0 /\ p = 0 /\ v = 0 /\ m = 0
      BY <1>1, <1>5, <1>8, <2>2, TargetFacts, SickOfADay, ShownFacts, Zenon
    <3>2. ~Target(d)
      BY <2>2, Zenon DEF Target
    <3>3. l = (IF LeavesOn(d) # {} THEN t * g ELSE 0) /\ c = 0
      BY <1>1, <1>2, <3>2, LeaveOfADay, Zenon
    <3>4. l = 0
      BY <1>3, <3>1, <3>3
    <3> QED
      BY <1>3, <2>1, <3>1, <3>3, <3>4
  <2>3. CASE d \notin public /\ SickOn(d)
    <3>1. t = D /\ s = D /\ p = 0 /\ v = 0 /\ m = 0
      BY <1>1, <1>2, <1>5, <1>8, <2>3, TargetFacts, SickOfADay, ShownFacts, Zenon
    <3>2. LeavesOn(d) = {}
      BY <2>3, RowsOfADay, Zenon
    <3>3. l = 0 /\ c = 0
      BY <1>1, <3>2, LeaveOfADay, Zenon
    <3> QED
      BY <1>3, <2>1, <3>1, <3>3
  <2>4. CASE d \notin public /\ ~SickOn(d) /\ LeavesOn(d) # {}
    <3>1. t = D /\ s = 0 /\ v = g /\ m = MinutesOf(g) /\ p = D - MinutesOf(g)
      BY <1>1, <1>2, <1>8, <2>4, TargetFacts, SickOfADay, ShownFacts, Zenon
    <3>2. Target(d)
      BY <1>8, <2>4, Zenon DEF Target
    <3>3. l = t * g /\ c = g
      BY <1>1, <1>2, <2>4, <3>2, LeaveOfADay, Zenon
    <3>4. CASE g = 0
      <4>1. m = 0 /\ p = D - 0
        BY <1>5, <3>1, <3>4, Zenon
      <4>2. l = 0
        BY <1>3, <3>1, <3>3, <3>4
      <4> QED
        BY <1>3, <2>1, <3>1, <3>3, <3>4, <4>1, <4>2
    <3>5. CASE g = 2
      <4>1. m = D /\ p = D - D
        BY <1>5, <3>1, <3>5, Zenon
      <4>2. l = 2 * D
        <5>1. l = D * 2
          BY <3>1, <3>3, <3>5, Zenon
        <5> QED
          BY <1>3, <5>1
      <4>3. c = 2 /\ v = 2 /\ t = D /\ s = 0
        BY <3>1, <3>3, <3>5, Zenon
      <4> QED
        BY <1>3, <2>1, <4>1, <4>2, <4>3
    <3>6. CASE g = 1
      <4>1. m = one /\ p = D - one
        BY <1>2, <3>1, <3>6, Zenon
      <4>2. l = D
        BY <1>3, <3>1, <3>3, <3>6
      <4>3. ShownLeave(d) \in LeavesOn(d)
        BY <2>4, ShownRows, Zenon
      <4>4. hv = 1
        BY <1>1, <1>2, <3>6, <4>3, Zenon DEF HalfOf, Halved
      <4> QED
        BY <1>3, <2>1, <3>1, <3>3, <3>6, <4>1, <4>2, <4>4
    <3> QED
      BY <1>3, <3>4, <3>5, <3>6
  <2>5. CASE d \notin public /\ ~SickOn(d) /\ LeavesOn(d) = {}
    <3>1. t = D /\ s = 0 /\ p = D /\ v = 0 /\ m = 0 /\ l = 0 /\ c = 0
      BY <1>1, <1>2, <1>5, <1>8, <2>5, TargetFacts, SickOfADay, ShownFacts, LeaveOfADay, Zenon
    <3> QED
      BY <1>3, <2>1, <3>1
  <2> QED
    BY <2>2, <2>3, <2>4, <2>5
<1> QED
  BY <1>6, <1>7, <1>8

-----------------------------------------------------------------------------
(* What a request costs in a year is what its days in that year cost.         *)
LEMMA MonthFacts ==
  ASSUME NEW y \in Years
  PROVE  /\ YearStart(y) \in Int /\ YearStop(y) \in Int /\ YearStart(y) >= 1 /\ YearStop(y) <= LastDay
         /\ Month(y) \subseteq Days /\ IsFiniteSet(Month(y))
         /\ (YearStart(y) = 1 \/ YearStop(y) = LastDay)
         /\ \A d : d \in Month(y) <=> d \in Int /\ YearStart(y) <= d /\ d <= YearStop(y)
<1>1. PICK a, z : a = YearStart(y) /\ z = YearStop(y)
  OBVIOUS
<1>2. a \in Int /\ z \in Int /\ a >= 1 /\ z <= LastDay /\ LastDay \in Int /\ (a = 1 \/ z = LastDay)
  BY <1>1, CalendarAssumption DEF Years, YearStart, YearStop
<1>3. Month(y) = a .. z
  BY <1>1, Zenon DEF Month
<1>4. IsFiniteSet(a .. z) /\ a .. z \subseteq Days
  BY <1>2, FS_Interval DEF Days
<1> QED
  BY <1>1, <1>2, <1>3, <1>4

LEMMA YearOfARequest ==
  ASSUME LeaveIInv, NEW r \in Approved, NEW y \in Years
  PROVE  DaysInYear(leave[r], y) = SumFunction([d \in Month(y) |-> Charge(r, d)])
<1>1. PICK ys, ye, M : ys = YearStart(y) /\ ye = YearStop(y) /\ M = Month(y)
  OBVIOUS
<1>2. ys \in Int /\ ye \in Int /\ IsFiniteSet(M) /\ ys >= 1 /\ ye <= LastDay
       /\ (ys = 1 \/ ye = LastDay) /\ \A d : d \in M <=> d \in Int /\ ys <= d /\ d <= ye
  BY <1>1, MonthFacts
<1>3. PICK row, m, n : row = leave[r] /\ m = row.from /\ n = row.to
  OBVIOUS
<1>4. m \in Int /\ n \in Int /\ m <= n /\ m >= 1 /\ n <= LastDay /\ LastDay \in Int
  <2>1. row \in LeaveRow /\ row.from <= row.to
    BY <1>3 DEF LeaveIInv, LeaveTables, Straight, Approved
  <2>2. row.from \in 1 .. LastDay /\ row.to \in 1 .. LastDay
    BY <2>1 DEF LeaveRow, Days
  <2> QED
    BY <1>3, <2>1, <2>2, CalendarAssumption
<1>5. PICK c : c = [d \in M |-> Charge(r, d)]
  OBVIOUS
<1>6. PICK A, Z, W :
        /\ W = {d \in M : m <= d /\ d <= n /\ Target(d)}
        /\ A = {d \in W : row.halfStart /\ m = d}
        /\ Z = {d \in W : row.halfEnd /\ n = d}
  OBVIOUS
<1> DEFINE one(S) == [d \in M |-> IF d \in S THEN 1 ELSE 0]
<1>7. W \subseteq M /\ A \subseteq M /\ Z \subseteq M
  BY <1>6
<1>8. PICK w, a, z, ac, acz, ww :
        /\ w = one(W) /\ a = one(A) /\ z = one(Z)
        /\ ac = [d \in M |-> a[d] + c[d]] /\ acz = [d \in M |-> z[d] + ac[d]] /\ ww = [d \in M |-> w[d] + w[d]]
  OBVIOUS
<1>9. ASSUME NEW d \in M
      PROVE  c[d] \in Int /\ z[d] + (a[d] + c[d]) = w[d] + w[d]
             /\ a[d] \in Int /\ z[d] \in Int /\ w[d] \in Int
  <2>1. a[d] = (IF d \in A THEN 1 ELSE 0) /\ z[d] = (IF d \in Z THEN 1 ELSE 0) /\ w[d] = (IF d \in W THEN 1 ELSE 0)
    BY <1>8
  <2>2. Covers(row, d) <=> m <= d /\ d <= n
    BY <1>3, Zenon DEF Covers
  <2>3. d \in W <=> Covers(row, d) /\ Target(d)
    BY <1>6, <2>2, Zenon
  <2>4. d \in W => (d \in A <=> row.halfStart /\ row.from = d) /\ (d \in Z <=> row.halfEnd /\ row.to = d)
    BY <1>3, <1>6, Zenon
  <2>5. d \notin W => d \notin A /\ d \notin Z
    BY <1>6
  <2>6. c[d] = Charge(r, d)
    BY <1>5
  <2>7. CASE d \in W
    <3>1. Half(row.halfStart /\ row.from = d) = a[d] /\ Half(row.halfEnd /\ row.to = d) = z[d]
      BY <2>1, <2>4, <2>7, Zenon DEF Half
    <3>2. c[d] = 2 - a[d] - z[d]
      BY <1>3, <2>3, <2>6, <2>7, <3>1, Zenon DEF Charge
    <3> QED
      BY <2>1, <2>7, <3>2
  <2>8. CASE d \notin W
    <3>1. c[d] = 0
      BY <1>3, <2>3, <2>6, <2>8, Zenon DEF Charge
    <3> QED
      BY <2>1, <2>5, <2>8, <3>1
  <2> QED
    BY <2>7, <2>8
<1>10. c \in [M -> Int] /\ a \in [M -> Int] /\ z \in [M -> Int] /\ w \in [M -> Int] /\ ac \in [M -> Int]
  BY <1>5, <1>8, <1>9
<1>11. acz = ww
  BY <1>8, <1>9
<1>12. /\ SumFunction(w) = Cardinality(W) /\ SumFunction(a) = Cardinality(A) /\ SumFunction(z) = Cardinality(Z)
  <2>1. SumFunction(w) = Cardinality(W)
    BY <1>2, <1>7, <1>8, SumCounts
  <2>2. SumFunction(a) = Cardinality(A)
    BY <1>2, <1>7, <1>8, SumCounts
  <2>3. SumFunction(z) = Cardinality(Z)
    BY <1>2, <1>7, <1>8, SumCounts
  <2> QED
    BY <2>1, <2>2, <2>3, Zenon
<1> HIDE DEF one
<1>13. IsFiniteSet(M) /\ ac = [d \in M |-> a[d] + c[d]] /\ acz = [d \in M |-> z[d] + ac[d]] /\ ww = [d \in M |-> w[d] + w[d]]
       /\ c \in [M -> Int] /\ a \in [M -> Int] /\ z \in [M -> Int] /\ w \in [M -> Int] /\ ac \in [M -> Int]
  BY <1>2, <1>8, <1>10, Zenon
<1>14. SumFunction(acz) = SumFunction(z) + SumFunction(ac) /\ SumFunction(ac) = SumFunction(a) + SumFunction(c)
  <2>1. SumFunction(ac) = SumFunction(a) + SumFunction(c)
    BY <1>13, SumAdds
  <2>2. SumFunction(acz) = SumFunction(z) + SumFunction(ac)
    BY <1>13, SumAdds
  <2> QED
    BY <2>1, <2>2, Zenon
<1>15. SumFunction(ww) = SumFunction(w) + SumFunction(w)
  BY <1>13, SumAdds
<1>16. PICK nW, nA, nZ, sc : nW = Cardinality(W) /\ nA = Cardinality(A) /\ nZ = Cardinality(Z) /\ sc = SumFunction(c)
  OBVIOUS
<1>17. nW \in Int /\ nA \in Int /\ nZ \in Int /\ sc \in Int
  <2>1. IsFiniteSet(W) /\ IsFiniteSet(A) /\ IsFiniteSet(Z)
    BY <1>2, <1>7, FS_Subset
  <2>2. nW \in Nat /\ nA \in Nat /\ nZ \in Nat
    BY <1>16, <2>1, FS_CardinalityType
  <2>3. sc \in Int
    BY <1>2, <1>10, <1>16, SumType
  <2> QED
    BY <2>2, <2>3
<1>18. nZ + (nA + sc) = nW + nW
  BY <1>11, <1>12, <1>14, <1>15, <1>16
<1>19. sc = 2 * nW - nA - nZ
  BY <1>17, <1>18
<1>20. SumFunction([d \in Month(y) |-> Charge(r, d)]) = sc
  BY <1>1, <1>5, <1>16, Zenon
<1>21. CASE m > ye \/ n < ys
  <2>1. W = {}
    BY <1>2, <1>4, <1>6, <1>21
  <2>2. A = {} /\ Z = {}
    BY <1>6, <2>1
  <2>3. nW = 0 /\ nA = 0 /\ nZ = 0
    BY <1>16, <2>1, <2>2, FS_EmptySet
  <2>4. DaysInYear(row, y) = 0
    BY <1>1, <1>3, <1>21, Zenon DEF DaysInYear
  <2> QED
    BY <1>3, <1>19, <1>20, <2>3, <2>4
<1>22. CASE ~(m > ye) /\ ~(n < ys)
  <2>1. PICK i, j : i = Later(m, ys) /\ j = Earlier(n, ye)
    OBVIOUS
  <2>2. i \in Int /\ j \in Int /\ i <= j /\ (m >= ys => i = m) /\ (~(m >= ys) => i = ys) /\ (n <= ye => j = n) /\ (~(n <= ye) => j = ye)
    <3>1. i = (IF m > ys THEN m ELSE ys) /\ j = (IF n < ye THEN n ELSE ye)
      BY <2>1, Zenon DEF Later, Earlier
    <3>2. ys <= ye
      BY <1>2, <1>4, <1>22
    <3> QED
      BY <1>2, <1>4, <1>22, <3>1, <3>2
  <2>3. DaysInYear(row, y) = LeaveDays(i, j, row.halfStart /\ m >= ys, row.halfEnd /\ n <= ye)
    BY <1>1, <1>3, <1>22, <2>1, Zenon DEF DaysInYear
  <2>4. {d \in i .. j : Target(d)} = W
    <3>1. \A d : d \in i .. j <=> d \in M /\ m <= d /\ d <= n
      BY <1>2, <1>4, <2>2
    <3> QED
      BY <1>6, <3>1
  <2>5. nA = Half((row.halfStart /\ m >= ys) /\ i <= j /\ Target(i))
    <3>1. m \in M <=> m >= ys
      BY <1>2, <1>4, <1>22
    <3>2. m <= m
      BY <1>4
    <3>3. CASE (row.halfStart /\ m >= ys) /\ Target(i)
      <4>1. \A d : d \in A <=> d = m
        BY <1>4, <1>6, <2>2, <3>1, <3>2, <3>3, Zenon
      <4>2. A = {m}
        BY <4>1
      <4>3. nA = 1
        BY <1>16, <4>2, FS_Singleton
      <4> QED
        BY <2>2, <3>3, <4>3, Zenon DEF Half
    <3>4. CASE ~((row.halfStart /\ m >= ys) /\ Target(i))
      <4>1. \A d : d \notin A
        BY <1>6, <2>2, <3>1, <3>4, Zenon
      <4>2. A = {}
        BY <4>1
      <4>3. nA = 0
        BY <1>16, <4>2, FS_EmptySet
      <4> QED
        BY <3>4, <4>3, Zenon DEF Half
    <3> QED
      BY <3>3, <3>4
  <2>6. nZ = Half((row.halfEnd /\ n <= ye) /\ i <= j /\ Target(j))
    <3>1. n \in M <=> n <= ye
      BY <1>2, <1>4, <1>22
    <3>2. n <= n
      BY <1>4
    <3>3. CASE (row.halfEnd /\ n <= ye) /\ Target(j)
      <4>1. \A d : d \in Z <=> d = n
        BY <1>4, <1>6, <2>2, <3>1, <3>2, <3>3, Zenon
      <4>2. Z = {n}
        BY <4>1
      <4>3. nZ = 1
        BY <1>16, <4>2, FS_Singleton
      <4> QED
        BY <2>2, <3>3, <4>3, Zenon DEF Half
    <3>4. CASE ~((row.halfEnd /\ n <= ye) /\ Target(j))
      <4>1. \A d : d \notin Z
        BY <1>6, <2>2, <3>1, <3>4, Zenon
      <4>2. Z = {}
        BY <4>1
      <4>3. nZ = 0
        BY <1>16, <4>2, FS_EmptySet
      <4> QED
        BY <3>4, <4>3, Zenon DEF Half
    <3> QED
      BY <3>3, <3>4
  <2>7. DaysInYear(row, y) = 2 * nW - nA - nZ
    BY <1>16, <2>3, <2>4, <2>5, <2>6, Zenon DEF LeaveDays
  <2> QED
    BY <1>3, <1>19, <1>20, <2>7
<1> QED
  BY <1>21, <1>22

-----------------------------------------------------------------------------
(* The sums of a month, row by row, are those of its days.                     *)
LEMMA MonthByDays ==
  ASSUME LeaveIInv, rushed = {}, NEW y \in Years
  PROVE  /\ SumFunction([r \in Approved |-> LeaveOf(r, y)]) = SumFunction([d \in Month(y) |-> LeaveOn(d)])
         /\ MonthSick(y) = SumFunction([d \in Month(y) |-> SickMinutesOn(d)])
         /\ MonthCompany(y) = SumFunction([d \in Month(y) |-> CompanyOn(d)])
         /\ SumFunction([r \in Approved |-> DaysInYear(leave[r], y)]) = SumFunction([d \in Month(y) |-> ChargedOn(d)])
<1>1. PICK M : M = Month(y)
  OBVIOUS
<1>2. IsFiniteSet(M) /\ M \subseteq Days
  BY <1>1, MonthFacts
<1>3. \A d \in M : /\ TargetMinutes(d) \in Int /\ (\A r : LeaveMinutes(r, d) \in Int) /\ (\A s : SickMinutes(s, d) \in Int)
                   /\ (\A h : CompanyMinutes(h, d) \in Int) /\ (\A r : Charge(r, d) \in Int)
  <2> SUFFICES ASSUME NEW d \in M
               PROVE  /\ TargetMinutes(d) \in Int /\ (\A r : LeaveMinutes(r, d) \in Int) /\ (\A s : SickMinutes(s, d) \in Int)
                      /\ (\A h : CompanyMinutes(h, d) \in Int) /\ (\A r : Charge(r, d) \in Int)
    BY Zenon
  <2>1. TargetMinutes(d) \in Nat
    BY <1>2, TargetFacts
  <2>2. ASSUME NEW r PROVE LeaveMinutes(r, d) \in Int /\ Charge(r, d) \in Int
    <3>1. PICK t, g, lm, ch, inside, counts :
            /\ t = TargetMinutes(d) /\ g = Granted(r, d) /\ lm = LeaveMinutes(r, d) /\ ch = Charge(r, d)
            /\ inside = Covers(leave[r], d) /\ counts = (Covers(leave[r], d) /\ Target(d))
      OBVIOUS
    <3>2. lm = (IF inside THEN t * g ELSE 0) /\ ch = IF counts THEN g ELSE 0
      BY <3>1, Zenon DEF LeaveMinutes, Charge, Granted
    <3>3. t \in Int /\ g \in Int
      BY <2>1, <3>1, GrantedFacts
    <3> QED
      BY <3>1, <3>2, <3>3
  <2>3. ASSUME NEW s PROVE SickMinutes(s, d) \in Int
    BY <2>1 DEF SickMinutes
  <2>4. ASSUME NEW h PROVE CompanyMinutes(h, d) \in Int
    <3>1. MinutesOf(HalfDays(h)) \in Int
      BY HalfDaysFacts, MinutesFacts, DayAssumption
    <3>2. CompanyMinutes(h, d) = MinutesOf(HalfDays(h)) \/ CompanyMinutes(h, d) = 0
      BY Zenon DEF CompanyMinutes
    <3> QED
      BY <3>1, <3>2
  <2> QED
    BY <2>1, <2>2, <2>3, <2>4
<1>4. IsFiniteSet(Approved) /\ IsFiniteSet(sick) /\ IsFiniteSet(Counting)
  BY RowsAreFinite
<1>5. SumFunction([r \in Approved |-> LeaveOf(r, y)]) = SumFunction([d \in Month(y) |-> LeaveOn(d)])
  <2>1. PICK A, row, col : A = Approved /\ row = [x \in A |-> [d \in M |-> LeaveMinutes(x, d)]] /\ col = [d \in M |-> [x \in A |-> LeaveMinutes(x, d)]]
    OBVIOUS
  <2>2. /\ IsFiniteSet(A)
        /\ \A x \in A : row[x] \in [M -> Int]
        /\ \A d \in M : col[d] \in [A -> Int]
        /\ \A x \in A, d \in M : row[x][d] = col[d][x]
    BY <1>3, <1>4, <2>1
  <2>3. \A x \in A : LeaveOf(x, y) = SumFunction(row[x])
    BY <1>1, <2>1, Zenon DEF LeaveOf, LeaveMinutes
  <2>4. \A d \in M : LeaveOn(d) = SumFunction(col[d])
    BY <2>1, Zenon DEF LeaveOn
  <2>5. PICK f, g : f = [x \in A |-> LeaveOf(x, y)] /\ g = [d \in M |-> LeaveOn(d)]
    OBVIOUS
  <2>6. SumFunction([r \in Approved |-> LeaveOf(r, y)]) = SumFunction(f)
    BY <2>1, <2>5, Zenon
  <2>7. /\ f \in [A -> Int] /\ \A x \in A : f[x] = SumFunction(row[x])
        /\ g \in [M -> Int] /\ \A d \in M : g[d] = SumFunction(col[d])
    <3>1. /\ \A x \in A : SumFunction(row[x]) \in Int
          /\ \A d \in M : SumFunction(col[d]) \in Int
      BY <1>2, <2>2, SumType
    <3> QED
      BY <2>3, <2>4, <2>5, <3>1
  <2>8. SumFunction(f) = SumFunction(g)
    <3>1. Table(A, M, row, col, f, g)
      BY <1>2, <2>2, <2>7, Zenon DEF Table
    <3> QED
      BY <3>1, SumSwaps
  <2> QED
    BY <1>1, <2>5, <2>6, <2>8, Zenon
<1>6. MonthSick(y) = SumFunction([d \in Month(y) |-> SickMinutesOn(d)])
  <2>1. PICK A, row, col : A = sick /\ row = [x \in A |-> [d \in M |-> SickMinutes(x, d)]] /\ col = [d \in M |-> [x \in A |-> SickMinutes(x, d)]]
    OBVIOUS
  <2>2. /\ IsFiniteSet(A)
        /\ \A x \in A : row[x] \in [M -> Int]
        /\ \A d \in M : col[d] \in [A -> Int]
        /\ \A x \in A, d \in M : row[x][d] = col[d][x]
    BY <1>3, <1>4, <2>1
  <2>3. \A x \in A : SickOf(x, y) = SumFunction(row[x])
    BY <1>1, <2>1, Zenon DEF SickOf, SickMinutes
  <2>4. \A d \in M : SickMinutesOn(d) = SumFunction(col[d])
    BY <2>1, Zenon DEF SickMinutesOn
  <2>5. PICK f, g : f = [x \in A |-> SickOf(x, y)] /\ g = [d \in M |-> SickMinutesOn(d)]
    OBVIOUS
  <2>6. MonthSick(y) = SumFunction(f)
    BY <2>1, <2>5, Zenon DEF MonthSick
  <2>7. /\ f \in [A -> Int] /\ \A x \in A : f[x] = SumFunction(row[x])
        /\ g \in [M -> Int] /\ \A d \in M : g[d] = SumFunction(col[d])
    <3>1. /\ \A x \in A : SumFunction(row[x]) \in Int
          /\ \A d \in M : SumFunction(col[d]) \in Int
      BY <1>2, <2>2, SumType
    <3> QED
      BY <2>3, <2>4, <2>5, <3>1
  <2>8. SumFunction(f) = SumFunction(g)
    <3>1. Table(A, M, row, col, f, g)
      BY <1>2, <2>2, <2>7, Zenon DEF Table
    <3> QED
      BY <3>1, SumSwaps
  <2> QED
    BY <1>1, <2>5, <2>6, <2>8, Zenon
<1>7. MonthCompany(y) = SumFunction([d \in Month(y) |-> CompanyOn(d)])
  <2>1. PICK A, row, col : A = Counting /\ row = [x \in A |-> [d \in M |-> CompanyMinutes(x, d)]] /\ col = [d \in M |-> [x \in A |-> CompanyMinutes(x, d)]]
    OBVIOUS
  <2>2. /\ IsFiniteSet(A)
        /\ \A x \in A : row[x] \in [M -> Int]
        /\ \A d \in M : col[d] \in [A -> Int]
        /\ \A x \in A, d \in M : row[x][d] = col[d][x]
    BY <1>3, <1>4, <2>1
  <2>3. \A x \in A : CompanyOf(x, y) = SumFunction(row[x])
    BY <1>1, <2>1, Zenon DEF CompanyOf, CompanyMinutes
  <2>4. \A d \in M : CompanyOn(d) = SumFunction(col[d])
    BY <2>1, Zenon DEF CompanyOn
  <2>5. PICK f, g : f = [x \in A |-> CompanyOf(x, y)] /\ g = [d \in M |-> CompanyOn(d)]
    OBVIOUS
  <2>6. MonthCompany(y) = SumFunction(f)
    BY <2>1, <2>5, Zenon DEF MonthCompany, Counting
  <2>7. /\ f \in [A -> Int] /\ \A x \in A : f[x] = SumFunction(row[x])
        /\ g \in [M -> Int] /\ \A d \in M : g[d] = SumFunction(col[d])
    <3>1. /\ \A x \in A : SumFunction(row[x]) \in Int
          /\ \A d \in M : SumFunction(col[d]) \in Int
      BY <1>2, <2>2, SumType
    <3> QED
      BY <2>3, <2>4, <2>5, <3>1
  <2>8. SumFunction(f) = SumFunction(g)
    <3>1. Table(A, M, row, col, f, g)
      BY <1>2, <2>2, <2>7, Zenon DEF Table
    <3> QED
      BY <3>1, SumSwaps
  <2> QED
    BY <1>1, <2>5, <2>6, <2>8, Zenon
<1>8. SumFunction([r \in Approved |-> DaysInYear(leave[r], y)]) = SumFunction([d \in Month(y) |-> ChargedOn(d)])
  <2>1. PICK A, row, col : A = Approved /\ row = [x \in A |-> [d \in M |-> Charge(x, d)]] /\ col = [d \in M |-> [x \in A |-> Charge(x, d)]]
    OBVIOUS
  <2>2. /\ IsFiniteSet(A)
        /\ \A x \in A : row[x] \in [M -> Int]
        /\ \A d \in M : col[d] \in [A -> Int]
        /\ \A x \in A, d \in M : row[x][d] = col[d][x]
    BY <1>3, <1>4, <2>1
  <2>3. \A x \in A : DaysInYear(leave[x], y) = SumFunction(row[x])
    BY <1>1, <2>1, YearOfARequest, Zenon
  <2>4. \A d \in M : ChargedOn(d) = SumFunction(col[d])
    BY <2>1, Zenon DEF ChargedOn
  <2>5. PICK f, g : f = [x \in A |-> DaysInYear(leave[x], y)] /\ g = [d \in M |-> ChargedOn(d)]
    OBVIOUS
  <2>6. SumFunction([r \in Approved |-> DaysInYear(leave[r], y)]) = SumFunction(f)
    BY <2>1, <2>5, Zenon
  <2>7. /\ f \in [A -> Int] /\ \A x \in A : f[x] = SumFunction(row[x])
        /\ g \in [M -> Int] /\ \A d \in M : g[d] = SumFunction(col[d])
    <3>1. /\ \A x \in A : SumFunction(row[x]) \in Int
          /\ \A d \in M : SumFunction(col[d]) \in Int
      BY <1>2, <2>2, SumType
    <3> QED
      BY <2>3, <2>4, <2>5, <3>1
  <2>8. SumFunction(f) = SumFunction(g)
    <3>1. Table(A, M, row, col, f, g)
      BY <1>2, <2>2, <2>7, Zenon DEF Table
    <3> QED
      BY <3>1, SumSwaps
  <2> QED
    BY <1>1, <2>5, <2>6, <2>8, Zenon
<1> QED
  BY <1>5, <1>6, <1>7, <1>8, Zenon

(* A month's two sets of figures, from the days' (DaysAgree).                  *)
LEMMA MonthsAgree ==
  ASSUME LeaveIInv, rushed = {}, NEW y \in Years, ~(\E d \in Month(y) : Clashing(d)),
         NEW slack, slack = Cardinality({d \in Month(y) : Halved(d)}),
         NEW plan, plan = SumFunction([d \in Month(y) |-> ShownPlan(d)]),
         NEW vacation, vacation = SumFunction([d \in Month(y) |-> MinutesOf(ShownVacation(d))]),
         NEW closed, closed = SumFunction([d \in Month(y) |-> ShownClosed(d)])
  PROVE  /\ Abs(MonthTarget(y) - MonthLeave(y) - MonthSick(y) - plan) <= slack
         /\ Abs(MonthLeave(y) + MonthCompany(y) - vacation - closed) <= slack
         /\ SumFunction([r \in Approved |-> DaysInYear(leave[r], y)]) + SumFunction([d \in Month(y) |-> BridgeCost(d)])
              = SumFunction([d \in Month(y) |-> ShownVacation(d)])
<1>1. PICK M : M = Month(y)
  OBVIOUS
<1>2. IsFiniteSet(M) /\ M \subseteq Days
  BY <1>1, MonthFacts
<1>3. PICK t, l, s, p, b, n, z, c, k, v, hv, m :
        /\ t = [d \in M |-> TargetMinutes(d)] /\ l = [d \in M |-> LeaveOn(d)] /\ s = [d \in M |-> SickMinutesOn(d)]
        /\ p = [d \in M |-> ShownPlan(d)] /\ b = [d \in M |-> CompanyOn(d)] /\ n = [d \in M |-> MinutesOf(ShownVacation(d))]
        /\ c = [d \in M |-> ChargedOn(d)] /\ k = [d \in M |-> BridgeCost(d)] /\ v = [d \in M |-> ShownVacation(d)]
        /\ hv = [d \in M |-> HalfOf(d)] /\ z = [d \in M |-> ShownClosed(d)] /\ m = [d \in M |-> n[d] + z[d]]
  OBVIOUS
<1>4. ASSUME NEW d \in M
      PROVE  /\ l[d] + 2 * (s[d] + p[d]) <= 2 * (t[d] + hv[d])
             /\ 2 * t[d] <= l[d] + 2 * (s[d] + p[d] + hv[d])
             /\ l[d] + 2 * b[d] <= hv[d] + 2 * m[d] /\ 2 * m[d] <= l[d] + hv[d] + 2 * b[d]
             /\ c[d] + k[d] = v[d]
             /\ t[d] \in Int /\ l[d] \in Int /\ s[d] \in Int /\ p[d] \in Int /\ b[d] \in Int
             /\ m[d] \in Int /\ n[d] \in Int /\ z[d] \in Int /\ c[d] \in Int /\ k[d] \in Int /\ v[d] \in Int /\ hv[d] \in Int
  <2>1. d \in Days /\ ~Clashing(d)
    BY <1>1, <1>2
  <2>2. /\ t[d] = TargetMinutes(d) /\ l[d] = LeaveOn(d) /\ s[d] = SickMinutesOn(d) /\ p[d] = ShownPlan(d)
        /\ b[d] = CompanyOn(d) /\ n[d] = MinutesOf(ShownVacation(d)) /\ c[d] = ChargedOn(d) /\ k[d] = BridgeCost(d)
        /\ v[d] = ShownVacation(d) /\ hv[d] = HalfOf(d) /\ z[d] = ShownClosed(d) /\ m[d] = n[d] + z[d]
    BY <1>3
  <2>3. TargetMinutes(d) \in Int /\ HalfOf(d) \in Int
    BY <2>1, TargetFacts DEF HalfOf
  <2>4. /\ l[d] + 2 * (s[d] + p[d]) <= 2 * (t[d] + hv[d])
        /\ 2 * t[d] <= l[d] + 2 * (s[d] + p[d] + hv[d])
        /\ l[d] + 2 * b[d] <= hv[d] + 2 * (n[d] + z[d]) /\ 2 * (n[d] + z[d]) <= l[d] + hv[d] + 2 * b[d]
        /\ c[d] + k[d] = v[d]
        /\ t[d] \in Int /\ l[d] \in Int /\ s[d] \in Int /\ p[d] \in Int /\ b[d] \in Int
        /\ n[d] \in Int /\ z[d] \in Int /\ c[d] \in Int /\ k[d] \in Int /\ v[d] \in Int /\ hv[d] \in Int
    BY <2>1, <2>2, <2>3, DaysAgree, Zenon
  <2> QED
    BY <2>2, <2>4
<1>5. /\ t \in [M -> Int] /\ l \in [M -> Int] /\ s \in [M -> Int] /\ p \in [M -> Int] /\ b \in [M -> Int]
      /\ m \in [M -> Int] /\ n \in [M -> Int] /\ z \in [M -> Int] /\ c \in [M -> Int] /\ k \in [M -> Int] /\ v \in [M -> Int] /\ hv \in [M -> Int]
  BY <1>3, <1>4
<1>6. PICK sp, th, sph, lh, zero :
        /\ sp = [d \in M |-> s[d] + p[d]] /\ th = [d \in M |-> t[d] + hv[d]] /\ sph = [d \in M |-> sp[d] + hv[d]]
        /\ lh = [d \in M |-> l[d] + hv[d]] /\ zero = [d \in M |-> 0]
  OBVIOUS
<1>7. /\ sp \in [M -> Int] /\ th \in [M -> Int] /\ sph \in [M -> Int] /\ lh \in [M -> Int] /\ zero \in [M -> Int]
  BY <1>5, <1>6
<1>8. PICK T, L, S, P, B, V, N, Z, K, C, D, H :
        /\ T = SumFunction(t) /\ L = SumFunction(l) /\ S = SumFunction(s) /\ P = SumFunction(p) /\ B = SumFunction(b)
        /\ V = SumFunction(m) /\ N = SumFunction(n) /\ Z = SumFunction(z) /\ K = SumFunction(k) /\ C = SumFunction(c) /\ D = SumFunction(v) /\ H = SumFunction(hv)
  OBVIOUS
<1>9. /\ T \in Int /\ L \in Int /\ S \in Int /\ P \in Int /\ B \in Int
      /\ V \in Int /\ N \in Int /\ Z \in Int /\ H \in Int
  BY <1>2, <1>5, <1>8, SumType
<1>10. /\ SumFunction(sp) = S + P /\ SumFunction(th) = T + H /\ SumFunction(lh) = L + H /\ SumFunction(zero) = 0
  <2>1. SumFunction(sp) = S + P
    <3>1. IsFiniteSet(M) /\ s \in [M -> Int] /\ p \in [M -> Int] /\ sp = [d \in M |-> s[d] + p[d]]
      BY <1>2, <1>5, <1>6, Zenon
    <3>2. SumFunction(sp) = SumFunction(s) + SumFunction(p)
      BY <3>1, SumAdds
    <3> QED
      BY <1>8, <3>2, Zenon
  <2>2. SumFunction(th) = T + H
    <3>1. IsFiniteSet(M) /\ t \in [M -> Int] /\ hv \in [M -> Int] /\ th = [d \in M |-> t[d] + hv[d]]
      BY <1>2, <1>5, <1>6, Zenon
    <3>2. SumFunction(th) = SumFunction(t) + SumFunction(hv)
      BY <3>1, SumAdds
    <3> QED
      BY <1>8, <3>2, Zenon
  <2>3. SumFunction(lh) = L + H
    <3>1. IsFiniteSet(M) /\ l \in [M -> Int] /\ hv \in [M -> Int] /\ lh = [d \in M |-> l[d] + hv[d]]
      BY <1>2, <1>5, <1>6, Zenon
    <3>2. SumFunction(lh) = SumFunction(l) + SumFunction(hv)
      BY <3>1, SumAdds
    <3> QED
      BY <1>8, <3>2, Zenon
  <2>4. SumFunction(zero) = 0
    BY <1>2, <1>6, <1>7, SumOfNothing
  <2> QED
    BY <2>1, <2>2, <2>3, <2>4
<1>11. SumFunction(sph) = (S + P) + H
  <2>1. IsFiniteSet(M) /\ sp \in [M -> Int] /\ hv \in [M -> Int] /\ sph = [d \in M |-> sp[d] + hv[d]]
    BY <1>2, <1>5, <1>6, <1>7, Zenon
  <2>2. SumFunction(sph) = SumFunction(sp) + SumFunction(hv)
    BY <2>1, SumAdds
  <2> QED
    BY <1>8, <1>10, <2>2
<1>12. D = C + K
  <2>1. v = [d \in M |-> c[d] + k[d]]
    BY <1>3, <1>4
  <2>2. IsFiniteSet(M) /\ c \in [M -> Int] /\ k \in [M -> Int]
    BY <1>2, <1>5, Zenon
  <2>3. SumFunction(v) = SumFunction(c) + SumFunction(k)
    BY <2>1, <2>2, SumAdds
  <2> QED
    BY <1>8, <2>3, Zenon
<1>13. L + 2 * (S + P) <= 2 * (T + H)
  <2>1. \A d \in M : l[d] + 2 * sp[d] <= zero[d] + 2 * th[d]
    BY <1>4, <1>6
  <2>2. SumFunction(l) + 2 * SumFunction(sp) <= SumFunction(zero) + 2 * SumFunction(th)
    BY <1>2, <1>5, <1>7, <2>1, SumsCompare
  <2> QED
    BY <1>8, <1>9, <1>10, <2>2
<1>14. 2 * T <= L + 2 * (S + P + H)
  <2>1. \A d \in M : zero[d] + 2 * t[d] <= l[d] + 2 * sph[d]
    BY <1>4, <1>6
  <2>2. SumFunction(zero) + 2 * SumFunction(t) <= SumFunction(l) + 2 * SumFunction(sph)
    BY <1>2, <1>5, <1>7, <2>1, SumsCompare
  <2> QED
    BY <1>8, <1>9, <1>10, <1>11, <2>2
<1>15. L + 2 * B <= H + 2 * V
  <2>1. \A d \in M : l[d] + 2 * b[d] <= hv[d] + 2 * m[d]
    BY <1>4
  <2> QED
    BY <1>2, <1>5, <1>8, <2>1, SumsCompare
<1>16. 2 * V <= L + H + 2 * B
  <2>1. \A d \in M : zero[d] + 2 * m[d] <= lh[d] + 2 * b[d]
    BY <1>4, <1>6
  <2>2. SumFunction(zero) + 2 * SumFunction(m) <= SumFunction(lh) + 2 * SumFunction(b)
    BY <1>2, <1>5, <1>7, <2>1, SumsCompare
  <2> QED
    BY <1>8, <1>9, <1>10, <2>2
<1>17. slack = H /\ H >= 0
  <2>1. PICK A : A = {d \in M : Halved(d)}
    OBVIOUS
  <2>2. hv = [d \in M |-> IF d \in A THEN 1 ELSE 0]
    BY <1>3, <2>1 DEF HalfOf
  <2>3. IsFiniteSet(A) /\ A \subseteq M
    BY <1>2, <2>1, FS_Subset
  <2>4. H = Cardinality(A)
    BY <1>2, <1>8, <2>2, <2>3, SumCounts
  <2>5. Cardinality(A) \in Nat
    BY <2>3, FS_CardinalityType
  <2> QED
    BY <1>1, <2>1, <2>4, <2>5
<1>18. MonthTarget(y) = T /\ MonthLeave(y) = L \div 2 /\ MonthSick(y) = S /\ MonthCompany(y) = B
  <2>1. MonthTarget(y) = T
    BY <1>1, <1>3, <1>8, Zenon DEF MonthTarget
  <2>2. SumFunction([r \in Approved |-> LeaveOf(r, y)]) = L
    BY <1>1, <1>3, <1>8, MonthByDays, Zenon
  <2>3. MonthSick(y) = S /\ MonthCompany(y) = B
    BY <1>1, <1>3, <1>8, MonthByDays, Zenon
  <2> QED
    BY <2>1, <2>2, <2>3, Zenon DEF MonthLeave
<1>19. plan = P /\ vacation = N /\ closed = Z
  BY <1>1, <1>3, <1>8, Zenon
<1>20. V = N + Z
  <2>1. IsFiniteSet(M) /\ n \in [M -> Int] /\ z \in [M -> Int] /\ m = [d \in M |-> n[d] + z[d]]
    BY <1>2, <1>3, <1>5, Zenon
  <2>2. SumFunction(m) = SumFunction(n) + SumFunction(z)
    BY <2>1, SumAdds
  <2> QED
    BY <1>8, <2>2, Zenon
<1>21. PICK h : h = L \div 2
  OBVIOUS
<1>22. h \in Int /\ (L = 2 * h \/ L = 2 * h + 1)
  BY <1>9, <1>21
<1>23. Abs(MonthTarget(y) - MonthLeave(y) - MonthSick(y) - plan) <= slack
  <2>1. PICK X : X = T - h - S - P
    OBVIOUS
  <2>2. X \in Int /\ X <= H /\ -X <= H
    BY <1>9, <1>13, <1>14, <1>22, <2>1
  <2>3. Abs(X) <= H
    BY <2>2 DEF Abs
  <2> QED
    BY <1>17, <1>18, <1>19, <1>21, <2>1, <2>3, Zenon
<1>24. Abs(MonthLeave(y) + MonthCompany(y) - vacation - closed) <= slack
  <2>1. PICK X : X = h + B - N - Z
    OBVIOUS
  <2>2. X \in Int /\ X <= H /\ -X <= H
    BY <1>9, <1>15, <1>16, <1>17, <1>22, <1>20, <2>1
  <2>3. Abs(X) <= H
    BY <2>2 DEF Abs
  <2> QED
    BY <1>17, <1>18, <1>19, <1>21, <2>1, <2>3, Zenon
<1>25. SumFunction([r \in Approved |-> DaysInYear(leave[r], y)]) = C
  BY <1>1, <1>3, <1>8, MonthByDays, Zenon
<1>26. SumFunction([d \in Month(y) |-> BridgeCost(d)]) = K /\ SumFunction([d \in Month(y) |-> ShownVacation(d)]) = D
  BY <1>1, <1>3, <1>8, Zenon
<1> QED
  BY <1>12, <1>23, <1>24, <1>25, <1>26, Zenon

(* OverviewAgrees, for every calendar, every length of a working day and every   *)
(* set of requests: the month that MonthlySummaryService locks and the days that *)
(* WorkingTimeOverviewService shows come to the same, day by day.              *)
THEOREM OverviewIsTrue == LeaveSpec => []OverviewAgrees
<1>1. LeaveIInv => OverviewAgrees
  <2> SUFFICES ASSUME LeaveIInv, NEW y \in Years, rushed = {}, ~(\E d \in Month(y) : Clashing(d))
               PROVE  LET slack == Cardinality({d \in Month(y) : Halved(d)})
                          plan == SumFunction([d \in Month(y) |-> ShownPlan(d)])
                          vacation == SumFunction([d \in Month(y) |-> MinutesOf(ShownVacation(d))])
                          closed == SumFunction([d \in Month(y) |-> ShownClosed(d)])
                          charged == SumFunction([r \in Approved |-> DaysInYear(leave[r], y)])
                          bridges == SumFunction([d \in Month(y) |-> BridgeCost(d)])
                      IN
                      /\ Abs(MonthTarget(y) - MonthLeave(y) - MonthSick(y) - plan) <= slack
                      /\ Abs(MonthLeave(y) + MonthCompany(y) - vacation - closed) <= slack
                      /\ charged + bridges = SumFunction([d \in Month(y) |-> ShownVacation(d)])
    BY Zenon DEF OverviewAgrees
  <2> QED
    BY MonthsAgree, Zenon
<1> QED
  BY <1>1, LeaveInitIInv, LeaveNextIInv, PTL DEF LeaveSpec
=============================================================================
