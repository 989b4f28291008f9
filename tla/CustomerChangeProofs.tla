------------------------ MODULE CustomerChangeProofs ------------------------
(***************************************************************************)
(* What holds of the customers and the orders they own, for any number of    *)
(* agents, requests, continuations, rows and faults.                         *)
(*                                                                          *)
(* CustomerChange: LatestRequestWins speaks of requests that were applied;    *)
(* what makes it true is what the agents who are about to apply one may rely  *)
(* on (Careful), as long as nothing has crossed.                             *)
(*                                                                          *)
(* AddressBook: that an import leaves the order its addresses needs that what  *)
(* a row bears is passed on by each address that is written after it (Bears,   *)
(* Passes); that no order is lost needs that nobody waits to be deleted who    *)
(* owns one (DoomedOwnNothing).                                              *)
(*                                                                          *)
(* CustomerUpsert: that an upsert lands needs to hold while processes are     *)
(* under way (UpsertInv): what one that is alone may rely on (LonelyGood),     *)
(* and that the number of an address that is clear means it (NumbersMean).    *)
(*                                                                          *)
(* AddressMirror: that a transfer brings over all there was needs what one     *)
(* that nothing has disturbed yet has brought about so far, in each direction   *)
(* (PullGood, PushGood, ImportGood).                                         *)
(***************************************************************************)
EXTENDS CustomerChange, AddressBook, CustomerUpsert, AddressMirror, FiniteSetTheorems, WellFoundedInduction, Integers, TLAPS

Places == {"free", "asked", "created", "checked", "linked"}

ChangeRows ==
  /\ read \in [Requests -> {"none", "OPEN", "SUCCEEDED", "FAILED"}]
  /\ linked \in Int
  /\ applied \subseteq Requests
  /\ crossed \in BOOLEAN
  /\ agent \in [Agents -> [pc : Places, req : 0 .. MaxRequests]]
  /\ \A a \in Agents : agent[a].pc \in {"created", "checked", "linked"} => agent[a].req \in Requests

(* A request that was applied has kept the status it was applied with.       *)
AppliedSucceeded == \A r \in applied : read[r] = "SUCCEEDED"

(* A request that is being submitted belongs to one agent and is open.       *)
Submitting ==
  \A a \in Agents : agent[a].pc = "created" =>
    /\ read[agent[a].req] = "OPEN"
    /\ \A b \in Agents \ {a} : agent[b].pc = "created" => agent[b].req # agent[a].req

(* One that is about to be applied has succeeded, and no later one is active   *)
(* or has succeeded.                                                        *)
Careful ==
  \A a \in Agents : agent[a].pc = "checked" =>
    /\ read[agent[a].req] = "SUCCEEDED"
    /\ \A n \in Requests : n > agent[a].req => read[n] \notin {"OPEN", "SUCCEEDED"}

Uncrossed == AppliedSucceeded /\ Submitting /\ Careful /\ \A r \in applied : r <= linked

ChangeIInv == ChangeRows /\ (~crossed => Uncrossed)

-----------------------------------------------------------------------------
LEMMA RequestNumbers == Requests \subseteq Int /\ 0 \in 0 .. MaxRequests /\ Requests \subseteq 0 .. MaxRequests
  BY ChangeAssumption DEF Requests

LEMMA InitCase == ChangeInit => ChangeIInv
<1> SUFFICES ASSUME ChangeInit PROVE ChangeIInv
  OBVIOUS
<1>1. read \in [Requests -> {"none", "OPEN", "SUCCEEDED", "FAILED"}]
  BY DEF ChangeInit
<1>6. linked = 0 /\ linked \in Int
  BY DEF ChangeInit
<1>7. crossed = FALSE
  BY DEF ChangeInit
<1>2. agent \in [Agents -> [pc : Places, req : 0 .. MaxRequests]] /\ \A a \in Agents : agent[a].pc = "free"
  BY RequestNumbers DEF ChangeInit, Places
<1>3. applied = {}
  BY DEF ChangeInit
<1>4. ChangeRows
  BY <1>1, <1>2, <1>3, <1>6, <1>7 DEF ChangeRows
<1>5. QED
  BY <1>2, <1>3, <1>4 DEF ChangeIInv, Uncrossed, AppliedSucceeded, Submitting, Careful

(* What a step of agent a that takes it to place p with request r leaves of   *)
(* the agents.                                                              *)
Moved(a, p, r) ==
  /\ agent' \in [Agents -> [pc : Places, req : 0 .. MaxRequests]]
  /\ \A b \in Agents : agent'[b].pc \in {"created", "checked", "linked"} => agent'[b].req \in Requests
  /\ agent'[a].pc = p /\ agent'[a].req = r
  /\ \A b \in Agents \ {a} : agent'[b] = agent[b]

LEMMA ToEffect ==
  ASSUME ChangeRows, NEW a \in Agents, NEW p \in Places, NEW r \in 0 .. MaxRequests, To(a, p, r),
         p \in {"created", "checked", "linked"} => r \in Requests
  PROVE  Moved(a, p, r)
  BY DEF To, ChangeRows, Moved

LEMMA LeavesEffect ==
  ASSUME ChangeRows, NEW a \in Agents, Leaves(a)
  PROVE  Moved(a, "free", 0)
  BY ToEffect, RequestNumbers DEF Leaves, Places

-----------------------------------------------------------------------------
(* The agent who asks has nothing to be careful with.                        *)
LEMMA RequestChecksCase ==
  ASSUME ChangeIInv, NEW a \in Agents, RequestChecks(a) PROVE ChangeIInv'
<1>1. Moved(a, "asked", 0)
  BY ToEffect, RequestNumbers DEF ChangeIInv, RequestChecks, Places
<1>2. QED
  BY <1>1 DEF Moved, ChangeIInv, RequestChecks, ChangeRows, Uncrossed, AppliedSucceeded, Submitting, Careful

(* A new request crosses whoever is about to apply an older one.             *)
LEMMA RequestCreatesCase ==
  ASSUME ChangeIInv, NEW a \in Agents, RequestCreates(a) PROVE ChangeIInv'
<1>1. PICK r \in Requests : /\ read[r] = "none"
                            /\ read' = [read EXCEPT ![r] = "OPEN"]
                            /\ To(a, "created", r)
  BY DEF RequestCreates
<1>2. Moved(a, "created", r)
  BY <1>1, ToEffect, RequestNumbers DEF ChangeIInv, Places
<1>3. ChangeRows'
  BY <1>1, <1>2 DEF Moved, ChangeIInv, ChangeRows, RequestCreates
<1>4. ASSUME ~crossed' PROVE Uncrossed'
  <2>1. Uncrossed /\ \A b \in Agents : agent[b].pc # "checked"
    <3>1. SUFFICES ASSUME NEW b \in Agents, agent[b].pc = "checked" PROVE FALSE
      BY <1>4 DEF ChangeIInv, ChangeRows, RequestCreates
    <3>2. agent[b] = [pc |-> "checked", req |-> agent[b].req] /\ agent[b].req \in Requests
      BY <3>1 DEF ChangeIInv, ChangeRows
    <3>3. QED
      BY <1>4, <3>2 DEF RequestCreates, Applying
  <2>2. \A b \in Agents : agent'[b].pc # "checked"
    BY <1>2, <2>1 DEF Moved
  <2>3. AppliedSucceeded' /\ \A q \in applied' : q <= linked'
    BY <1>1, <2>1 DEF ChangeIInv, ChangeRows, RequestCreates, Uncrossed, AppliedSucceeded
  <2>4. Submitting'
    BY <1>1, <1>2, <2>1 DEF Moved, ChangeIInv, ChangeRows, Uncrossed, Submitting
  <2>5. QED
    BY <2>2, <2>3, <2>4 DEF Uncrossed, Careful
<1>5. QED
  BY <1>3, <1>4 DEF ChangeIInv

LEMMA SubmittedCase ==
  ASSUME ChangeIInv, NEW a \in Agents, Submitted(a) PROVE ChangeIInv'
<1>1. Moved(a, "free", 0)
  BY LeavesEffect DEF ChangeIInv, Submitted
<1>2. QED
  BY <1>1 DEF Moved, ChangeIInv, Submitted, ChangeRows, Uncrossed, AppliedSucceeded, Submitting, Careful

(* The request that is refused was open, so nobody has applied it or is about  *)
(* to.                                                                      *)
LEMMA SubmitRefusedCase ==
  ASSUME ChangeIInv, NEW a \in Agents, SubmitRefused(a) PROVE ChangeIInv'
<1>1. Moved(a, "free", 0)
  BY LeavesEffect DEF ChangeIInv, SubmitRefused
<1> DEFINE r == agent[a].req
<1>2. r \in Requests /\ read' = [read EXCEPT ![r] = "FAILED"] /\ agent[a].pc = "created"
  BY DEF ChangeIInv, ChangeRows, SubmitRefused, Is
<1> HIDE DEF r
<1>3. ChangeRows'
  BY <1>1, <1>2 DEF Moved, ChangeIInv, ChangeRows, SubmitRefused
<1>4. ASSUME ~crossed' PROVE Uncrossed'
  <2>1. Uncrossed
    BY <1>4 DEF ChangeIInv, SubmitRefused
  <2>2. AppliedSucceeded' /\ \A q \in applied' : q <= linked'
    BY <1>2, <2>1 DEF ChangeIInv, ChangeRows, SubmitRefused, Uncrossed, AppliedSucceeded, Submitting, r
  <2>3. Submitting'
    BY <1>1, <1>2, <2>1 DEF Moved, ChangeIInv, ChangeRows, Uncrossed, Submitting, r
  <2>4. Careful'
    BY <1>1, <1>2, <2>1 DEF Moved, ChangeIInv, ChangeRows, Uncrossed, Submitting, Careful, r
  <2>5. QED
    BY <2>2, <2>3, <2>4 DEF Uncrossed
<1>5. QED
  BY <1>3, <1>4 DEF ChangeIInv

(* An open request ends: later requests of one about to be applied are not     *)
(* open.                                                                    *)
LEMMA ReadEndsCase ==
  ASSUME ChangeIInv, NEW r \in Requests, ReadEnds(r) PROVE ChangeIInv'
<1>1. PICK st \in {"SUCCEEDED", "FAILED"} : read' = [read EXCEPT ![r] = st]
  BY DEF ReadEnds
<1>2. ChangeRows'
  BY <1>1 DEF ChangeIInv, ChangeRows, ReadEnds
<1>3. ASSUME ~crossed' PROVE Uncrossed'
  <2>1. Uncrossed /\ read[r] = "OPEN"
    BY <1>3 DEF ChangeIInv, ReadEnds
  <2>2. AppliedSucceeded' /\ \A q \in applied' : q <= linked'
    BY <1>1, <2>1 DEF ChangeIInv, ChangeRows, ReadEnds, Uncrossed, AppliedSucceeded
  <2>3. ASSUME NEW b \in Agents, agent[b].pc = "created" PROVE agent[b].req # r
    <3>1. agent[b] = [pc |-> "created", req |-> agent[b].req]
      BY <2>3 DEF ChangeIInv, ChangeRows
    <3>2. QED
      BY <3>1 DEF ReadEnds, Applying
  <2>4. Submitting'
    BY <1>1, <2>1, <2>3 DEF ChangeIInv, ChangeRows, ReadEnds, Uncrossed, Submitting
  <2>5. Careful'
    BY <1>1, <2>1 DEF ChangeIInv, ChangeRows, ReadEnds, Uncrossed, Careful
  <2>6. QED
    BY <2>2, <2>4, <2>5 DEF Uncrossed
<1>4. QED
  BY <1>2, <1>3 DEF ChangeIInv

(* The continuation looks for later requests: this makes it careful.         *)
LEMMA ApplyChecksCase ==
  ASSUME ChangeIInv, NEW a \in Agents, NEW r \in Requests, ApplyChecks(a, r) PROVE ChangeIInv'
<1>1. CASE read[r] # "SUCCEEDED" \/ Superseded(r)
  BY <1>1 DEF ChangeIInv, ApplyChecks, ChangeRows, Uncrossed, AppliedSucceeded, Submitting, Careful
<1>2. CASE ~(read[r] # "SUCCEEDED" \/ Superseded(r))
  <2>1. Moved(a, "checked", r)
    BY <1>2, ToEffect, RequestNumbers DEF ChangeIInv, ApplyChecks, Places
  <2>2. ChangeRows'
    BY <2>1 DEF Moved, ChangeIInv, ChangeRows, ApplyChecks
  <2>3. ASSUME ~crossed' PROVE Uncrossed'
    <3>1. Uncrossed
      BY <2>3 DEF ChangeIInv, ApplyChecks
    <3>2. Submitting'
      BY <2>1, <3>1 DEF Moved, ApplyChecks, Uncrossed, Submitting
    <3>3. Careful'
      BY <1>2, <2>1, <3>1 DEF Moved, ApplyChecks, Superseded, Uncrossed, Careful
    <3>4. QED
      BY <3>1, <3>2, <3>3 DEF Uncrossed, AppliedSucceeded, ApplyChecks
  <2>4. QED
    BY <2>2, <2>3 DEF ChangeIInv
<1>3. QED
  BY <1>1, <1>2

(* A rejected answer takes nothing back that was applied, or has crossed.     *)
LEMMA ApplyRejectsCase ==
  ASSUME ChangeIInv, NEW a \in Agents, ApplyRejects(a) PROVE ChangeIInv'
<1>1. Moved(a, "free", 0)
  BY LeavesEffect DEF ChangeIInv, ApplyRejects
<1> DEFINE r == agent[a].req
<1>2. r \in Requests /\ read' = [read EXCEPT ![r] = "FAILED"] /\ agent[a].pc = "checked"
  BY DEF ChangeIInv, ChangeRows, ApplyRejects, Is
<1>3. ChangeRows'
  BY <1>1, <1>2 DEF Moved, ChangeIInv, ChangeRows, ApplyRejects
<1>4. ASSUME ~crossed' PROVE Uncrossed'
  <2>1. Uncrossed /\ r \notin applied /\ \A b \in Agents \ {a} : agent[b] # agent[a]
    BY <1>4 DEF ChangeIInv, ApplyRejects, ChangeRows
  <2>2. ASSUME NEW b \in Agents \ {a}, agent[b].pc = "checked" PROVE agent[b].req # r
    BY <1>2, <2>1, <2>2 DEF ChangeIInv, ChangeRows
  <2>3. AppliedSucceeded' /\ \A q \in applied' : q <= linked'
    BY <1>2, <2>1 DEF ChangeIInv, ChangeRows, ApplyRejects, Uncrossed, AppliedSucceeded
  <2>4. Submitting'
    BY <1>1, <1>2, <2>1 DEF Moved, ChangeIInv, ChangeRows, Uncrossed, Submitting, Careful
  <2>5. Careful'
    BY <1>1, <1>2, <2>1, <2>2 DEF Moved, ChangeIInv, ChangeRows, Uncrossed, Careful
  <2>6. QED
    BY <2>3, <2>4, <2>5 DEF Uncrossed
<1>5. QED
  BY <1>3, <1>4 DEF ChangeIInv

(* The transaction: no later request has been applied.                       *)
LEMMA ApplyCommitsCase ==
  ASSUME ChangeIInv, NEW a \in Agents, ApplyCommits(a) PROVE ChangeIInv'
<1> DEFINE r == agent[a].req
<1>1. r \in Requests /\ agent[a].pc = "checked" /\ r \in Int
  BY RequestNumbers DEF ChangeIInv, ChangeRows, ApplyCommits, Is
<1>2. Moved(a, "linked", r)
  BY <1>1, ToEffect, RequestNumbers DEF ChangeIInv, ApplyCommits, Places
<1>3. ChangeRows'
  BY <1>1, <1>2 DEF Moved, ChangeIInv, ChangeRows, ApplyCommits
<1>4. ASSUME ~crossed' PROVE Uncrossed'
  <2>1. Uncrossed
    BY <1>4 DEF ChangeIInv, ApplyCommits
  <2>2. AppliedSucceeded'
    BY <1>1, <2>1 DEF ApplyCommits, Uncrossed, AppliedSucceeded, Careful
  <2>3. \A q \in applied : q <= r
    BY <1>1, <2>1, RequestNumbers DEF ChangeIInv, ChangeRows, Uncrossed, AppliedSucceeded, Careful
  <2>4. Submitting' /\ Careful'
    BY <1>2, <2>1 DEF Moved, ApplyCommits, Uncrossed, Submitting, Careful
  <2>5. QED
    BY <1>1, <2>2, <2>3, <2>4 DEF Uncrossed, ApplyCommits
<1>5. QED
  BY <1>3, <1>4 DEF ChangeIInv

LEMMA ApplyEndsCase ==
  ASSUME ChangeIInv, NEW a \in Agents, ApplyEnds(a) PROVE ChangeIInv'
<1>1. Moved(a, "free", 0)
  BY LeavesEffect DEF ChangeIInv, ApplyEnds
<1>2. QED
  BY <1>1 DEF Moved, ChangeIInv, ApplyEnds, ChangeRows, Uncrossed, AppliedSucceeded, Submitting, Careful

(* What is recorded as failed after it was applied has crossed.              *)
LEMMA NoteFailsCase ==
  ASSUME ChangeIInv, NEW a \in Agents, NoteFails(a) PROVE ChangeIInv'
<1>1. Moved(a, "free", 0)
  BY LeavesEffect DEF ChangeIInv, NoteFails
<1>2. QED
  BY <1>1 DEF Moved, ChangeIInv, NoteFails, ChangeRows

LEMMA AgentDiesCase ==
  ASSUME ChangeIInv, NEW a \in Agents, AgentDies(a) PROVE ChangeIInv'
<1>1. Moved(a, "free", 0)
  BY LeavesEffect DEF ChangeIInv, AgentDies
<1>2. QED
  BY <1>1 DEF Moved, ChangeIInv, AgentDies, ChangeRows, Uncrossed, AppliedSucceeded, Submitting, Careful

-----------------------------------------------------------------------------
LEMMA StepCase == ChangeIInv /\ [ChangeNext]_changeVars => ChangeIInv'
<1> SUFFICES ASSUME ChangeIInv, [ChangeNext]_changeVars PROVE ChangeIInv'
  OBVIOUS
<1>1. CASE UNCHANGED changeVars
  BY <1>1 DEF changeVars, ChangeIInv, ChangeRows, Uncrossed, AppliedSucceeded, Submitting, Careful
<1>2. ASSUME NEW r \in Requests, SentTwice(r) PROVE ChangeIInv'
  BY <1>2 DEF SentTwice, ChangeIInv, ChangeRows, Uncrossed, AppliedSucceeded, Submitting, Careful
<1>3. QED
  BY <1>1, <1>2, ReadEndsCase, RequestChecksCase, RequestCreatesCase, SubmittedCase, SubmitRefusedCase,
     ApplyRejectsCase, ApplyCommitsCase, ApplyEndsCase, NoteFailsCase, AgentDiesCase, ApplyChecksCase
     DEF ChangeNext

(* The order is linked to the customer of the latest request that was applied, *)
(* unless a request came while an older one was being applied, or an applied    *)
(* one was recorded as failed (apply_result, order_customer_change.py).         *)
THEOREM NewestChoiceStands == ChangeSpec => []LatestRequestWins
<1>1. ChangeIInv => LatestRequestWins
  BY DEF ChangeIInv, Uncrossed, LatestRequestWins
<1>2. QED
  BY <1>1, InitCase, StepCase, PTL DEF ChangeSpec

-----------------------------------------------------------------------------
(* AddressBook: the customers, their addresses and the orders.                *)
Told == Complete \cup {NoContact}
BookRow == [owner : Customers \cup {"nobody"}, contact : Told,
            api : ApiIds, number : 0 .. 2, inv : BOOLEAN, ship : BOOLEAN]
Books == [Rows -> BookRow]
OrderRecord == [owner : Customers \cup {"nobody"}, bill : 0 .. MaxRows, ship : 0 .. MaxRows]
ImportRecord == [order : Orders \cup {"none"}, bill : Told, ship : Told, others : SUBSET Told, own : BOOLEAN]

(* Who owns an order, and that nobody waits to be deleted who owns one.       *)
OrdersOwned == \A o \in Orders : orderRow[o] = NoOrder \/ orderRow[o].owner \in Customers
DoomedOwnNothing == ~raced => \A c \in doomed, o \in Orders : orderRow[o].owner # c

AddressRest ==
  /\ known \subseteq Customers /\ doomed \subseteq Customers
  /\ latest \in ImportRecord /\ errands \in 0 .. MaxErrands
AddressFlags == merging \in BOOLEAN /\ raced \in BOOLEAN
OrderRows == orderRow \in [Orders -> OrderRecord]

AddressIInv ==
  /\ book \in Books /\ OrderRows /\ AddressRest /\ AddressFlags
  /\ OrdersOwned /\ DoomedOwnNothing /\ ImportSettlesAddresses

LEMMA AddressTypeParts ==
  AddressTypeOK <=> book \in Books /\ OrderRows /\ AddressRest /\ AddressFlags
  BY Zenon DEF AddressTypeOK, Books, BookRow, OrderRows, OrderRecord, AddressRest, AddressFlags, ImportRecord, Told

LEMMA ApiFacts ==
  /\ NoApi \in ApiIds
  /\ \A o \in Orders : OfOrder(o, "bill") \in ApiIds /\ OfOrder(o, "ship") \in ApiIds
  /\ \A c \in Customers : OfCustomer(c, "first") \in ApiIds /\ OfCustomer(c, "second") \in ApiIds
  /\ \A o, c : /\ OfOrder(o, "bill") # OfOrder(o, "ship") /\ OfCustomer(c, "first") # OfCustomer(c, "second")
               /\ OfOrder(o, "bill") # OfCustomer(c, "first") /\ OfOrder(o, "bill") # OfCustomer(c, "second")
               /\ OfOrder(o, "ship") # OfCustomer(c, "first") /\ OfOrder(o, "ship") # OfCustomer(c, "second")
  BY DEF ApiIds, NoApi, OfOrder, OfCustomer

LEMMA EmptyFacts ==
  /\ Empty \in BookRow /\ Empty.owner = "nobody"
  /\ "nobody" \notin Customers
  BY ApiFacts DEF Empty, BookRow, Customers, Told

(* The e-mail of the customer is filled in, and nothing else is changed.      *)
LEMMA FilledFacts ==
  ASSUME NEW k \in Given, NEW mail \in Mails
  PROVE  /\ Filled(k, mail) \in Told /\ (Filled(k, mail) = NoContact <=> k = NoContact)
         /\ Filled(k, mail).place = k.place /\ Filled(k, mail).name = k.name
<1>1. CASE k = NoContact
  BY <1>1 DEF Filled, Told
<1>2. CASE k # NoContact
  <2>1. k \in Contacts /\ k = [place |-> k.place, name |-> k.name, mail |-> k.mail, rest |-> k.rest]
    BY <1>2, ContactsAssumption DEF Given
  <2>2. Filled(k, mail) \in Complete
    BY <2>1 DEF Complete
  <2>3. PICK f : f = [k EXCEPT !.mail = mail]
    OBVIOUS
  <2>4. f = [place |-> k.place, name |-> k.name, mail |-> mail, rest |-> k.rest]
    BY <2>1, <2>3
  <2>5. Filled(k, mail) = IF k.mail # "none" THEN k ELSE f
    BY <1>2, <2>3 DEF Filled
  <2>6. Filled(k, mail).place = k.place /\ Filled(k, mail).name = k.name
    BY <2>4, <2>5
  <2>7. Filled(k, mail) = NoContact => k = NoContact
    <3>1. SUFFICES ASSUME f = NoContact, k.mail = "none" PROVE k = NoContact
      BY <1>2, <2>5
    <3>2. k.place = "none" /\ k.name = "none" /\ k.rest = "none"
      BY <2>4, <3>1 DEF NoContact
    <3> QED
      BY <2>1, <3>1, <3>2 DEF NoContact
  <2> QED
    BY <1>2, <2>2, <2>6, <2>7 DEF Told
<1> QED
  BY <1>1, <1>2

(* A row that says j says the address k, as far as an import that was told T   *)
(* can tell them apart.                                                      *)
Bears(j, k, T, own) ==
  j = k \/ (j \in T /\ k.place # "none" /\ j.place = k.place /\ (j.name = k.name \/ own))

LEMMA SaysBears == \A r, k : Says(r, k) <=> Bears(book[r].contact, k, latest.others, latest.own)
  BY DEF Says, Bears

(* a is one of the addresses an import was told.                             *)
AddressOf(a, T, own) ==
  /\ a.id \in ApiIds /\ a.says.place = a.is.place /\ a.says.name = a.is.name
  /\ a.is # NoContact => a.says \in Complete /\ a.says \in T
  /\ a.is.mail # "none" => own

(* w is b with the address a of c written to row r.                          *)
WrittenTo(b, w, r, c, a) ==
  /\ w \in Books
  /\ w[r].owner = c /\ w[r].contact = a.says /\ w[r].api = a.id
  /\ \A x \in Rows \ {r} : w[x] = b[x]

LEMMA WriteFacts ==
  ASSUME NEW b \in Books, NEW r \in Rows, NEW c \in Customers, NEW a, a.id \in ApiIds, a.says \in Complete,
         NEW inv \in BOOLEAN, NEW ship \in BOOLEAN
  PROVE  WrittenTo(b, Write(b, r, c, a, inv, ship), r, c, a)
<1> DEFINE row == [b[r] EXCEPT !.owner = c, !.contact = a.says, !.inv = inv, !.ship = ship, !.api = a.id]
<1>1. b[r] \in BookRow
  BY DEF Books
<1>2. row \in BookRow /\ row.owner = c /\ row.contact = a.says /\ row.api = a.id
  BY <1>1 DEF BookRow, Told
<1>3. Write(b, r, c, a, inv, ship) = [b EXCEPT ![r] = row]
  BY DEF Write
<1> HIDE DEF row
<1> QED
  BY <1>2, <1>3 DEF Books, WrittenTo

LEMMA MatchingFacts ==
  ASSUME NEW b \in Books, NEW c \in Customers, NEW a, NEW r \in Matching(b, c, a)
  PROVE  /\ r \in Rows
         /\ b[r].owner = c \/ b[r] = Empty
         /\ b[r].owner = c => \/ b[r].api = a.id
                             \/ /\ a.is.place # "none" /\ b[r].contact.place = a.is.place
                                /\ b[r].contact.name = a.is.name \/ a.is.mail # "none"
<1>1. \/ /\ r \in Rows /\ b[r].owner = c
         /\ \/ b[r].api = a.id
            \/ /\ a.is.place # "none" /\ b[r].contact.place = a.is.place
               /\ b[r].contact.name = a.is.name \/ a.is.mail # "none"
      \/ r \in NewRow(b)
  BY DEF Matching, Of
<1>2. r \in NewRow(b) => r \in Rows /\ b[r] = Empty
  BY DEF NewRow, Free
<1> QED
  BY <1>1, <1>2, EmptyFacts

(* Row r has the address a of c, under one of these ids.                      *)
Has(b, r, c, a, ids, T, own) ==
  IF a.is = NoContact THEN r = 0
  ELSE r \in Rows /\ b[r].owner = c /\ b[r].api \in ids /\ Bears(b[r].contact, a.says, T, own)

(* What the rows of c bore in b under other ids than these, they do in w.     *)
Passes(b, w, c, ids, T, own) ==
  \A x \in Rows : b[x].owner = c /\ b[x].api \notin ids =>
    /\ w[x].owner = c /\ w[x].api \in {b[x].api} \cup ids
    /\ \A k : Bears(b[x].contact, k, T, own) => Bears(w[x].contact, k, T, own)

(* w is an outcome of writing the address a of c to b.                       *)
WrittenWell(b, w, c, a, T, own) ==
  /\ w.book \in Books /\ Has(w.book, w.row, c, a, {a.id}, T, own)
  /\ Passes(b, w.book, c, {a.id}, T, own) /\ (a.is # NoContact => w.book[w.row].contact = a.says)
  /\ \A x \in Rows : b[x].owner = c /\ b[x].contact = a.says =>
       w.book[x].owner = c /\ w.book[x].contact = a.says /\ w.book[x].api \in {b[x].api, a.id}
  /\ \A x \in Rows : w.book[x].api = b[x].api \/ w.book[x].contact = a.says

(* An address is written to a row that has its id, or whose place it has, and   *)
(* its name, unless e-mails are compared.                                    *)
LEMMA WrittenFacts ==
  ASSUME NEW b \in Books, NEW c \in Customers, NEW a, NEW T, NEW own \in BOOLEAN, AddressOf(a, T, own),
         NEW inv \in BOOLEAN, NEW ship \in BOOLEAN, NEW w \in Written(b, c, a, inv, ship)
  PROVE  WrittenWell(b, w, c, a, T, own)
<1>1. CASE a.is = NoContact
  <2>1. w = [book |-> b, row |-> 0]
    BY <1>1 DEF Written
  <2>2. w.book = b /\ w.row = 0
    BY <2>1
  <2> QED
    BY <1>1, <2>2 DEF Has, Passes, WrittenWell
<1>2. CASE a.is # NoContact
  <2>1. PICK r \in Matching(b, c, a) : w = [book |-> Write(b, r, c, a, inv, ship), row |-> r]
    BY <1>2 DEF Written
  <2>2. w.book = Write(b, r, c, a, inv, ship) /\ w.row = r
    BY <2>1
  <2>3. a.id \in ApiIds /\ a.says \in Complete /\ a.says \in T /\ a.says.place = a.is.place /\ a.says.name = a.is.name
        /\ (a.is.mail # "none" => own)
    BY <1>2 DEF AddressOf
  <2>4. r \in Rows
    BY MatchingFacts
  <2>5. WrittenTo(b, w.book, r, c, a)
    BY <2>2, <2>3, <2>4, WriteFacts
  <2>6. Has(w.book, w.row, c, a, {a.id}, T, own)
    BY <1>2, <2>2, <2>4, <2>5 DEF Has, WrittenTo, Bears
  <2>7. ASSUME NEW x \in Rows, b[x].owner = c, b[x].api # a.id
        PROVE  /\ w.book[x].owner = c /\ w.book[x].api \in {b[x].api, a.id}
               /\ \A k : Bears(b[x].contact, k, T, own) => Bears(w.book[x].contact, k, T, own)
    <3>1. CASE x # r
      BY <2>5, <2>7, <3>1 DEF WrittenTo
    <3>2. CASE x = r
      <4>1. /\ a.is.place # "none" /\ b[x].contact.place = a.is.place
            /\ b[x].contact.name = a.is.name \/ a.is.mail # "none"
        BY <2>7, <3>2, MatchingFacts
      <4>2. w.book[x].owner = c /\ w.book[x].api = a.id /\ w.book[x].contact = a.says
        BY <2>5, <3>2 DEF WrittenTo
      <4>3. \A k : Bears(b[x].contact, k, T, own) => Bears(a.says, k, T, own)
        BY <2>3, <4>1 DEF Bears
      <4> QED
        BY <4>2, <4>3
    <3> QED
      BY <3>1, <3>2
  <2>8. Passes(b, w.book, c, {a.id}, T, own)
    BY <2>7 DEF Passes
  <2>9. \A x \in Rows : b[x].owner = c /\ b[x].contact = a.says =>
          w.book[x].owner = c /\ w.book[x].contact = a.says /\ w.book[x].api \in {b[x].api, a.id}
    BY <2>5 DEF WrittenTo
  <2>10. \A x \in Rows : w.book[x].api = b[x].api \/ w.book[x].contact = a.says
    BY <2>5 DEF WrittenTo
  <2> QED
    BY <2>2, <2>5, <2>6, <2>8, <2>9, <2>10 DEF WrittenTo, WrittenWell
<1> QED
  BY <1>1, <1>2

(* ... for one purpose or for both.                                          *)
LEMMA WrittenForFacts ==
  ASSUME NEW b \in Books, NEW c \in Customers, NEW a, NEW T, NEW own \in BOOLEAN, AddressOf(a, T, own)
  PROVE  /\ \A w \in Written(b, c, a, TRUE, TRUE) : WrittenWell(b, w, c, a, T, own)
         /\ \A w \in Written(b, c, a, TRUE, FALSE) : WrittenWell(b, w, c, a, T, own)
         /\ \A w \in Written(b, c, a, FALSE, TRUE) : WrittenWell(b, w, c, a, T, own)
<1>1. \A inv, ship \in BOOLEAN : \A w \in Written(b, c, a, inv, ship) : WrittenWell(b, w, c, a, T, own)
  BY WrittenFacts
<1> QED
  BY <1>1, Zenon

(* w is an outcome of writing these two addresses of c to b.                  *)
PairWell(b, w, c, bill, ship, T, own) ==
  /\ w = [book |-> w.book, bill |-> w.bill, ship |-> w.ship] /\ w.book \in Books
  /\ Has(w.book, w.bill, c, bill, {bill.id, ship.id}, T, own)
  /\ Has(w.book, w.ship, c, ship, {bill.id, ship.id}, T, own)
  /\ Passes(b, w.book, c, {bill.id, ship.id}, T, own)

(* The second address of a pair may overwrite the row of the first.           *)
LEMMA PairFacts ==
  ASSUME NEW b \in Books, NEW c \in Customers, NEW bill, NEW ship, NEW T, NEW own \in BOOLEAN,
         AddressOf(bill, T, own), AddressOf(ship, T, own), bill.id = ship.id => bill.says = ship.says,
         NEW w \in PairWritten(b, c, bill, ship)
  PROVE  PairWell(b, w, c, bill, ship, T, own)
<1>1. PICK u \in Written(b, c, bill, TRUE, FALSE) :
        \E v \in Written(u.book, c, ship, FALSE, TRUE) : w = [book |-> v.book, bill |-> u.row, ship |-> v.row]
  BY Zenon DEF PairWritten
<1>2. PICK v \in Written(u.book, c, ship, FALSE, TRUE) : w = [book |-> v.book, bill |-> u.row, ship |-> v.row]
  BY <1>1
<1>3. w.book = v.book /\ w.bill = u.row /\ w.ship = v.row
      /\ w = [book |-> w.book, bill |-> w.bill, ship |-> w.ship]
  BY <1>2
<1>4. /\ u.book \in Books /\ Has(u.book, u.row, c, bill, {bill.id}, T, own)
      /\ Passes(b, u.book, c, {bill.id}, T, own) /\ (bill.is # NoContact => u.book[u.row].contact = bill.says)
      /\ \A x \in Rows : u.book[x].api = b[x].api \/ u.book[x].contact = bill.says
  <2>1. WrittenWell(b, u, c, bill, T, own)
    BY WrittenForFacts, Zenon
  <2> QED
    BY <2>1, Zenon DEF WrittenWell
<1>5. /\ v.book \in Books /\ Has(v.book, v.row, c, ship, {ship.id}, T, own)
      /\ Passes(u.book, v.book, c, {ship.id}, T, own)
      /\ \A x \in Rows : u.book[x].owner = c /\ u.book[x].contact = ship.says =>
           v.book[x].owner = c /\ v.book[x].contact = ship.says /\ v.book[x].api \in {u.book[x].api, ship.id}
  <2>1. WrittenWell(u.book, v, c, ship, T, own)
    BY <1>4, WrittenForFacts, Zenon
  <2> QED
    BY <2>1, Zenon DEF WrittenWell
<1>6. Has(v.book, v.row, c, ship, {bill.id, ship.id}, T, own)
  BY <1>5 DEF Has
<1>7. Passes(b, v.book, c, {bill.id, ship.id}, T, own)
  <2> SUFFICES ASSUME NEW x \in Rows, b[x].owner = c, b[x].api # bill.id, b[x].api # ship.id
               PROVE  /\ v.book[x].owner = c /\ v.book[x].api \in {b[x].api, bill.id, ship.id}
                      /\ \A k : Bears(b[x].contact, k, T, own) => Bears(v.book[x].contact, k, T, own)
    BY DEF Passes
  <2>1. /\ u.book[x].owner = c /\ u.book[x].api \in {b[x].api, bill.id}
        /\ \A k : Bears(b[x].contact, k, T, own) => Bears(u.book[x].contact, k, T, own)
    BY <1>4 DEF Passes
  <2>2. CASE u.book[x].api # ship.id
    BY <1>5, <2>1, <2>2 DEF Passes
  <2>3. CASE u.book[x].api = ship.id
    <3>1. bill.id = ship.id /\ u.book[x].contact = ship.says
      BY <1>4, <2>1, <2>3
    <3>2. v.book[x].owner = c /\ v.book[x].contact = u.book[x].contact /\ v.book[x].api \in {u.book[x].api, ship.id}
      BY <1>5, <2>1, <3>1
    <3> QED
      BY <2>1, <3>1, <3>2
  <2> QED
    BY <2>2, <2>3
<1>8. Has(v.book, u.row, c, bill, {bill.id, ship.id}, T, own)
  <2>1. CASE bill.is = NoContact
    BY <1>4, <2>1 DEF Has
  <2>2. CASE bill.is # NoContact /\ bill.id # ship.id
    BY <1>4, <1>5, <2>2 DEF Has, Passes
  <2>3. CASE bill.is # NoContact /\ bill.id = ship.id
    BY <1>4, <1>5, <2>3 DEF Has, Bears
  <2> QED
    BY <2>1, <2>2, <2>3
<1> QED
  BY <1>3, <1>5, <1>6, <1>7, <1>8 DEF PairWell

(* Customer.set_billing_address and set_shipping_address, if there is one.     *)
Row0 == Rows \cup {0}

LEMMA BillingFacts ==
  ASSUME NEW b \in Books, NEW c \in Customers, NEW r \in Row0
  PROVE  /\ SetBilling(b, c, r) \in Books
         /\ \A x \in Rows :
              /\ SetBilling(b, c, r)[x].owner = b[x].owner /\ SetBilling(b, c, r)[x].contact = b[x].contact
              /\ SetBilling(b, c, r)[x].ship = b[x].ship /\ SetBilling(b, c, r)[x].api = b[x].api
              /\ b[x].owner = c => (SetBilling(b, c, r)[x].inv <=> IF r = 0 THEN b[x].inv ELSE x = r)
<1>1. ASSUME NEW x \in Rows
      PROVE  /\ SetBilling(b, c, r)[x] \in BookRow
             /\ SetBilling(b, c, r)[x].owner = b[x].owner /\ SetBilling(b, c, r)[x].contact = b[x].contact
             /\ SetBilling(b, c, r)[x].ship = b[x].ship /\ SetBilling(b, c, r)[x].api = b[x].api
             /\ b[x].owner = c => (SetBilling(b, c, r)[x].inv <=> IF r = 0 THEN b[x].inv ELSE x = r)
  <2> DEFINE row == [b[x] EXCEPT !.inv = (x = r)]
  <2>1. b[x] \in BookRow
    BY DEF Books
  <2>2. row \in BookRow /\ row.owner = b[x].owner /\ row.contact = b[x].contact /\ row.api = b[x].api
    BY <2>1 DEF BookRow
  <2>3. row.inv = (x = r) /\ row.ship = b[x].ship
    BY <2>1 DEF BookRow
  <2>4. SetBilling(b, c, r)[x] = IF r # 0 /\ b[x].owner = c THEN row ELSE b[x]
    BY DEF SetBilling
  <2> HIDE DEF row
  <2> QED
    BY <2>1, <2>2, <2>3, <2>4
<1>2. SetBilling(b, c, r) \in Books
  BY <1>1 DEF Books, SetBilling
<1> QED
  BY <1>1, <1>2

LEMMA ShippingFacts ==
  ASSUME NEW b \in Books, NEW c \in Customers, NEW r \in Row0
  PROVE  /\ SetShipping(b, c, r) \in Books
         /\ \A x \in Rows :
              /\ SetShipping(b, c, r)[x].owner = b[x].owner /\ SetShipping(b, c, r)[x].contact = b[x].contact
              /\ SetShipping(b, c, r)[x].inv = b[x].inv /\ SetShipping(b, c, r)[x].api = b[x].api
              /\ b[x].owner = c => (SetShipping(b, c, r)[x].ship <=> IF r = 0 THEN b[x].ship ELSE x = r)
<1>1. ASSUME NEW x \in Rows
      PROVE  /\ SetShipping(b, c, r)[x] \in BookRow
             /\ SetShipping(b, c, r)[x].owner = b[x].owner /\ SetShipping(b, c, r)[x].contact = b[x].contact
             /\ SetShipping(b, c, r)[x].inv = b[x].inv /\ SetShipping(b, c, r)[x].api = b[x].api
             /\ b[x].owner = c => (SetShipping(b, c, r)[x].ship <=> IF r = 0 THEN b[x].ship ELSE x = r)
  <2> DEFINE row == [b[x] EXCEPT !.ship = (x = r)]
  <2>1. b[x] \in BookRow
    BY DEF Books
  <2>2. row \in BookRow /\ row.owner = b[x].owner /\ row.contact = b[x].contact /\ row.api = b[x].api
    BY <2>1 DEF BookRow
  <2>3. row.ship = (x = r) /\ row.inv = b[x].inv
    BY <2>1 DEF BookRow
  <2>4. SetShipping(b, c, r)[x] = IF r # 0 /\ b[x].owner = c THEN row ELSE b[x]
    BY DEF SetShipping
  <2> HIDE DEF row
  <2> QED
    BY <2>1, <2>2, <2>3, <2>4
<1>2. SetShipping(b, c, r) \in Books
  BY <1>1 DEF Books, SetShipping
<1> QED
  BY <1>1, <1>2

(* v has the owners and contacts of b, and the flags that are set to rows.     *)
FlagsSet(b, v, c, bill, ship) ==
  /\ v \in Books
  /\ \A x \in Rows : /\ v[x].owner = b[x].owner /\ v[x].contact = b[x].contact /\ v[x].api = b[x].api
                     /\ b[x].owner = c => (v[x].inv <=> IF bill = 0 THEN b[x].inv ELSE x = bill)
                     /\ b[x].owner = c => (v[x].ship <=> IF ship = 0 THEN b[x].ship ELSE x = ship)

LEMMA DefaultsSet ==
  ASSUME NEW b \in Books, NEW c \in Customers, NEW bill \in Row0, NEW ship \in Row0,
         NEW v, v = SetShipping(SetBilling(b, c, bill), c, ship)
  PROVE  FlagsSet(b, v, c, bill, ship)
<1>1. PICK u : u = SetBilling(b, c, bill)
  OBVIOUS
<1>2. /\ u \in Books
      /\ \A x \in Rows : /\ u[x].owner = b[x].owner /\ u[x].contact = b[x].contact
                         /\ u[x].ship = b[x].ship /\ u[x].api = b[x].api
                         /\ b[x].owner = c => (u[x].inv <=> IF bill = 0 THEN b[x].inv ELSE x = bill)
  BY <1>1, BillingFacts
<1>3. /\ v \in Books
      /\ \A x \in Rows : /\ v[x].owner = u[x].owner /\ v[x].contact = u[x].contact /\ v[x].inv = u[x].inv
                         /\ v[x].api = u[x].api
                         /\ u[x].owner = c => (v[x].ship <=> IF ship = 0 THEN u[x].ship ELSE x = ship)
  BY <1>1, <1>2, ShippingFacts
<1>4. \A x \in Rows : b[x].owner = c => (v[x].inv <=> IF bill = 0 THEN b[x].inv ELSE x = bill)
  BY <1>2, <1>3, Zenon
<1>5. \A x \in Rows : b[x].owner = c => (v[x].ship <=> IF ship = 0 THEN b[x].ship ELSE x = ship)
  BY <1>2, <1>3, Zenon
<1> QED
  BY <1>2, <1>3, <1>4, <1>5, Zenon DEF FlagsSet

(* One row of c is flagged, for billing and for shipping.                     *)
OneBilling(b, c) == Cardinality({r \in Of(b, c) : b[r].inv}) = 1
OneShipping(b, c) == Cardinality({r \in Of(b, c) : b[r].ship}) = 1

LEMMA OneFlagged ==
  ASSUME NEW b \in Books, NEW c \in Customers, NEW r \in Rows, b[r].owner = c
  PROVE  /\ (\A x \in Rows : b[x].owner = c => (b[x].inv <=> x = r)) => OneBilling(b, c)
         /\ (\A x \in Rows : b[x].owner = c => (b[x].ship <=> x = r)) => OneShipping(b, c)
<1>1. (\A x \in Rows : b[x].owner = c => (b[x].inv <=> x = r)) => {x \in Of(b, c) : b[x].inv} = {r}
  BY Zenon DEF Of
<1>2. (\A x \in Rows : b[x].owner = c => (b[x].ship <=> x = r)) => {x \in Of(b, c) : b[x].ship} = {r}
  BY Zenon DEF Of
<1> QED
  BY <1>1, <1>2, FS_Singleton DEF OneBilling, OneShipping

(* The customer's defaults: where there is one, it alone is flagged.          *)
DefaultsWell(b, d, c, T, own) ==
  /\ d.book \in Books /\ d.bill \in Row0 /\ d.ship \in Row0
  /\ Passes(b, d.book, c, {OfCustomer(c, "first"), OfCustomer(c, "second")}, T, own)
  /\ d.bill # 0 => d.book[d.bill].owner = c /\ \A x \in Rows : d.book[x].owner = c => (d.book[x].inv <=> x = d.bill)
  /\ d.ship # 0 => d.book[d.ship].owner = c /\ \A x \in Rows : d.book[x].owner = c => (d.book[x].ship <=> x = d.ship)

LEMMA DefaultsFacts ==
  ASSUME NEW b \in Books, NEW c \in Customers, NEW t \in ShopTells, NEW T, NEW own \in BOOLEAN,
         \A id \in ApiIds : AddressOf(Address(id, t.home, t.mail), T, own) /\ AddressOf(Address(id, t.away, t.mail), T, own),
         NEW d \in DefaultsWritten(b, c, t)
  PROVE  DefaultsWell(b, d, c, T, own)
<1>1. PICK home : home = Address(OfCustomer(c, "first"), t.home, t.mail)
  OBVIOUS
<1>2. PICK away : away = Address(OfCustomer(c, t.awayId), t.away, t.mail)
  OBVIOUS
<1>3. t.awayId \in {"first", "second"}
  BY TellingsAssumption
<1>4. AddressOf(home, T, own) /\ AddressOf(away, T, own)
  BY <1>1, <1>2, <1>3, ApiFacts
<1>5. home.id = OfCustomer(c, "first") /\ away.id = OfCustomer(c, t.awayId)
  BY <1>1, <1>2 DEF Address
<1>13. OfCustomer(c, "first") # OfCustomer(c, "second")
  BY DEF OfCustomer
<1>6. PICK u : /\ u = [book |-> u.book, bill |-> u.bill, ship |-> u.ship]
               /\ IF t.awayId = "second" THEN u \in PairWritten(b, c, home, away)
                  ELSE \E w \in Written(b, c, home, TRUE, TRUE) : u = [book |-> w.book, bill |-> w.row, ship |-> w.row]
               /\ d = [u EXCEPT !.book = SetShipping(SetBilling(@, c, u.bill), c, u.ship)]
  <2>1. PICK u : /\ IF t.awayId = "second" THEN u \in PairWritten(b, c, home, away)
                    ELSE \E w \in Written(b, c, home, TRUE, TRUE) : u = [book |-> w.book, bill |-> w.row, ship |-> w.row]
                 /\ d = [u EXCEPT !.book = SetShipping(SetBilling(@, c, u.bill), c, u.ship)]
    <3>1. PICK written : written = IF t.awayId = "second" THEN PairWritten(b, c, home, away)
                         ELSE {[book |-> w.book, bill |-> w.row, ship |-> w.row] : w \in Written(b, c, home, TRUE, TRUE)}
      OBVIOUS
    <3>2. d \in {[w EXCEPT !.book = SetShipping(SetBilling(@, c, w.bill), c, w.ship)] : w \in written}
      BY <1>1, <1>2, <3>1, Zenon DEF DefaultsWritten
    <3>3. PICK u \in written : d = [u EXCEPT !.book = SetShipping(SetBilling(@, c, u.bill), c, u.ship)]
      BY <3>2
    <3>4. IF t.awayId = "second" THEN u \in PairWritten(b, c, home, away)
          ELSE \E w \in Written(b, c, home, TRUE, TRUE) : u = [book |-> w.book, bill |-> w.row, ship |-> w.row]
      BY <3>1
    <3> QED
      BY <3>3, <3>4
  <2>2. u = [book |-> u.book, bill |-> u.bill, ship |-> u.ship]
    <3>1. CASE t.awayId = "second"
      <4>1. home.id # away.id
        BY <1>5, <1>13, <3>1
      <4>2. u \in PairWritten(b, c, home, away)
        BY <2>1, <3>1
      <4>3. PairWell(b, u, c, home, away, T, own)
        BY <1>4, <4>1, <4>2, PairFacts, Zenon
      <4> QED
        BY <4>3 DEF PairWell
    <3>2. CASE t.awayId # "second"
      <4>1. PICK w : u = [book |-> w.book, bill |-> w.row, ship |-> w.row]
        BY <2>1, <3>2, Zenon
      <4>2. u.book = w.book /\ u.bill = w.row /\ u.ship = w.row
        BY <4>1
      <4> QED
        BY <4>1, <4>2
    <3> QED
      BY <3>1, <3>2
  <2> QED
    BY <2>1, <2>2
<1> DEFINE ids == {OfCustomer(c, "first"), OfCustomer(c, "second")}
<1>7. /\ u.book \in Books /\ u.bill \in Row0 /\ u.ship \in Row0
      /\ u.bill # 0 => u.book[u.bill].owner = c
      /\ u.ship # 0 => u.book[u.ship].owner = c
      /\ Passes(b, u.book, c, ids, T, own)
  <2>1. CASE t.awayId = "second"
    <3>1. home.id # away.id /\ ids = {home.id, away.id}
      BY <1>5, <1>13, <2>1
    <3>2. /\ u.book \in Books
          /\ Has(u.book, u.bill, c, home, ids, T, own)
          /\ Has(u.book, u.ship, c, away, ids, T, own)
          /\ Passes(b, u.book, c, ids, T, own)
      <4>1. PairWell(b, u, c, home, away, T, own)
        BY <1>4, <1>6, <2>1, <3>1, PairFacts, Zenon
      <4> QED
        BY <3>1, <4>1, Zenon DEF PairWell
    <3> QED
      BY <3>2 DEF Has, Row0
  <2>2. CASE t.awayId # "second"
    <3>1. PICK w \in Written(b, c, home, TRUE, TRUE) : u = [book |-> w.book, bill |-> w.row, ship |-> w.row]
      BY <1>6, <2>2
    <3>2. WrittenWell(b, w, c, home, T, own)
      BY <1>4, WrittenForFacts, Zenon
    <3>3. w.book \in Books /\ Has(w.book, w.row, c, home, {home.id}, T, own) /\ Passes(b, w.book, c, {home.id}, T, own)
      BY <3>2, Zenon DEF WrittenWell
    <3>4. u.book = w.book /\ u.bill = w.row /\ u.ship = w.row
      BY <3>1
    <3>5. Passes(b, w.book, c, ids, T, own)
      BY <1>5, <3>3 DEF Passes
    <3> QED
      BY <3>3, <3>4, <3>5 DEF Has, Row0
  <2> QED
    BY <2>1, <2>2
<1>8. d.book = SetShipping(SetBilling(u.book, c, u.bill), c, u.ship) /\ d.bill = u.bill /\ d.ship = u.ship
  BY <1>6
<1>9. FlagsSet(u.book, d.book, c, d.bill, d.ship)
  BY <1>7, <1>8, DefaultsSet
<1>10. Passes(b, d.book, c, ids, T, own)
  <2> SUFFICES ASSUME NEW x \in Rows, b[x].owner = c, b[x].api \notin ids
               PROVE  /\ d.book[x].owner = c /\ d.book[x].api \in {b[x].api} \cup ids
                      /\ \A k : Bears(b[x].contact, k, T, own) => Bears(d.book[x].contact, k, T, own)
    BY DEF Passes
  <2> QED
    BY <1>7, <1>9 DEF Passes, FlagsSet
<1>11. d.bill # 0 => d.book[d.bill].owner = c /\ \A x \in Rows : d.book[x].owner = c => (d.book[x].inv <=> x = d.bill)
  BY <1>7, <1>8, <1>9 DEF FlagsSet, Row0
<1>12. d.ship # 0 => d.book[d.ship].owner = c /\ \A x \in Rows : d.book[x].owner = c => (d.book[x].ship <=> x = d.ship)
  BY <1>7, <1>8, <1>9 DEF FlagsSet, Row0
<1> QED
  BY <1>7, <1>8, <1>9, <1>10, <1>11, <1>12 DEF FlagsSet, DefaultsWell

(* An address of the order alone serves both purposes.                        *)
Served(b, v, w) ==
  /\ v \in Books
  /\ \A x \in Rows : /\ v[x].owner = b[x].owner /\ v[x].contact = b[x].contact
                     /\ w.bill # 0 => v[x].inv = b[x].inv
                     /\ w.ship # 0 => v[x].ship = b[x].ship

LEMMA ServesBothFacts ==
  ASSUME NEW b \in Books, NEW w
  PROVE  Served(b, ServesBoth(b, w), w)
<1>1. ASSUME NEW x \in Rows
      PROVE  /\ ServesBoth(b, w)[x] \in BookRow
             /\ ServesBoth(b, w)[x].owner = b[x].owner /\ ServesBoth(b, w)[x].contact = b[x].contact
             /\ w.bill # 0 => ServesBoth(b, w)[x].inv = b[x].inv
             /\ w.ship # 0 => ServesBoth(b, w)[x].ship = b[x].ship
  <2>1. PICK inv \in BOOLEAN : inv = (b[x].inv \/ (w.bill = 0 /\ x = w.ship))
    BY Zenon
  <2>2. PICK ship \in BOOLEAN : ship = (b[x].ship \/ (w.ship = 0 /\ x = w.bill))
    BY Zenon
  <2>3. b[x] \in BookRow /\ b[x].inv \in BOOLEAN /\ b[x].ship \in BOOLEAN
    BY DEF Books, BookRow
  <2>4. ServesBoth(b, w)[x] = [b[x] EXCEPT !.inv = inv, !.ship = ship]
    BY <2>1, <2>2 DEF ServesBoth
  <2>5. \A row \in BookRow : LET e == [row EXCEPT !.inv = inv, !.ship = ship] IN
          e \in BookRow /\ e.owner = row.owner /\ e.contact = row.contact /\ e.inv = inv /\ e.ship = ship
    BY DEF BookRow
  <2>6. w.bill # 0 => inv = b[x].inv
    BY <2>1, <2>3
  <2>7. w.ship # 0 => ship = b[x].ship
    BY <2>2, <2>3
  <2> QED
    BY <2>3, <2>4, <2>5, <2>6, <2>7
<1>2. ServesBoth(b, w) \in Books
  BY <1>1 DEF Books, ServesBoth
<1> QED
  BY <1>1, <1>2 DEF Served

(* What the customer has in the end, if the order's addresses w and the        *)
(* defaults d are what they should be.                                       *)
LEMMA SettledFacts ==
  ASSUME NEW c \in Customers, NEW w, NEW d, d.book \in Books,
         w.bill \in Row0, w.ship \in Row0, d.bill \in Row0, d.ship \in Row0,
         w.bill # 0 => d.book[w.bill].owner = c,
         w.ship # 0 => d.book[w.ship].owner = c,
         d.bill # 0 => d.book[d.bill].owner = c /\ \A x \in Rows : d.book[x].owner = c => (d.book[x].inv <=> x = d.bill),
         d.ship # 0 => d.book[d.ship].owner = c /\ \A x \in Rows : d.book[x].owner = c => (d.book[x].ship <=> x = d.ship),
         NEW s, s = Settled(c, w, d)
  PROVE  /\ s.book \in Books /\ s.bill \in Row0 /\ s.ship \in Row0
         /\ \A x \in Rows : s.book[x].contact = d.book[x].contact
         /\ w.bill # 0 => s.bill = w.bill /\ OneBilling(s.book, c)
         /\ w.ship # 0 => s.ship = w.ship /\ OneShipping(s.book, c)
<1>1. PICK bill : bill = First(w.bill, First(w.ship, d.bill))
  OBVIOUS
<1>2. PICK ship : ship = First(w.ship, First(w.bill, d.ship))
  OBVIOUS
<1>3. bill \in Row0 /\ ship \in Row0 /\ (w.bill # 0 => bill = w.bill) /\ (w.ship # 0 => ship = w.ship)
  BY <1>1, <1>2 DEF First
<1>4. PICK b1 : b1 = ServesBoth(d.book, w)
  OBVIOUS
<1>5. /\ b1 \in Books
      /\ \A x \in Rows : /\ b1[x].owner = d.book[x].owner /\ b1[x].contact = d.book[x].contact
                         /\ w.bill # 0 => b1[x].inv = d.book[x].inv
                         /\ w.ship # 0 => b1[x].ship = d.book[x].ship
  <2>1. Served(d.book, b1, w)
    BY <1>4, ServesBothFacts, Zenon
  <2> QED
    BY <2>1 DEF Served
<1>6. PICK b2 : b2 = IF d.bill = 0 THEN SetBilling(b1, c, bill) ELSE b1
  OBVIOUS
<1>7. PICK b3 : b3 = IF d.ship = 0 THEN SetShipping(b2, c, ship) ELSE b2
  OBVIOUS
<1>8. s.book = b3 /\ s.bill = bill /\ s.ship = ship
  <2>1. s = [book |-> b3, bill |-> bill, ship |-> ship]
    BY <1>1, <1>2, <1>4, <1>6, <1>7, Zenon DEF Settled
  <2> QED
    BY <2>1
<1>9. /\ b2 \in Books
      /\ \A x \in Rows : b2[x].owner = b1[x].owner /\ b2[x].contact = b1[x].contact /\ b2[x].ship = b1[x].ship
      /\ d.bill # 0 => b2 = b1
      /\ d.bill = 0 /\ bill # 0 => \A x \in Rows : b1[x].owner = c => (b2[x].inv <=> x = bill)
  <2>1. CASE d.bill = 0
    <3>1. b2 = SetBilling(b1, c, bill)
      BY <1>6, <2>1
    <3> QED
      BY <1>3, <1>5, <2>1, <3>1, BillingFacts
  <2>2. CASE d.bill # 0
    BY <1>5, <1>6, <2>2
  <2> QED
    BY <2>1, <2>2
<1>10. /\ b3 \in Books
       /\ \A x \in Rows : b3[x].owner = b2[x].owner /\ b3[x].contact = b2[x].contact /\ b3[x].inv = b2[x].inv
       /\ d.ship # 0 => b3 = b2
       /\ d.ship = 0 /\ ship # 0 => \A x \in Rows : b2[x].owner = c => (b3[x].ship <=> x = ship)
  <2>1. CASE d.ship = 0
    <3>1. b3 = SetShipping(b2, c, ship)
      BY <1>7, <2>1
    <3> QED
      <4>1. /\ b3 \in Books
            /\ \A x \in Rows :
                 /\ b3[x].owner = b2[x].owner /\ b3[x].contact = b2[x].contact /\ b3[x].inv = b2[x].inv
                 /\ b2[x].owner = c => (b3[x].ship <=> IF ship = 0 THEN b2[x].ship ELSE x = ship)
        BY <1>3, <1>9, <3>1, ShippingFacts
      <4> QED
        BY <2>1, <4>1, Zenon
  <2>2. CASE d.ship # 0
    BY <1>7, <1>9, <2>2
  <2> QED
    BY <2>1, <2>2
<1>11. \A x \in Rows : b3[x].owner = d.book[x].owner /\ b3[x].contact = d.book[x].contact
  BY <1>5, <1>9, <1>10
<1>12. ASSUME w.bill # 0 PROVE OneBilling(b3, c)
  <2>1. PICK r : r = IF d.bill = 0 THEN w.bill ELSE d.bill
    OBVIOUS
  <2>2. r \in Rows /\ b3[r].owner = c
    BY <1>11, <1>12, <2>1 DEF Row0
  <2>3. CASE d.bill = 0
    <3>1. \A x \in Rows : b1[x].owner = c => (b2[x].inv <=> x = r)
      BY <1>3, <1>9, <1>12, <2>1, <2>3
    <3>2. \A x \in Rows : b3[x].owner = c => (b3[x].inv <=> x = r)
      BY <1>9, <1>10, <3>1, Zenon
    <3> QED
      BY <1>10, <2>2, <3>2, OneFlagged, Zenon
  <2>4. CASE d.bill # 0
    <3>1. \A x \in Rows : d.book[x].owner = c => (d.book[x].inv <=> x = r)
      BY <2>1, <2>4
    <3>2. \A x \in Rows : b3[x].inv = d.book[x].inv
      BY <1>5, <1>9, <1>10, <1>12, <2>4
    <3>3. \A x \in Rows : b3[x].owner = c => (b3[x].inv <=> x = r)
      BY <1>11, <3>1, <3>2, Zenon
    <3> QED
      BY <1>10, <2>2, <3>3, OneFlagged, Zenon
  <2> QED
    BY <2>3, <2>4
<1>13. ASSUME w.ship # 0 PROVE OneShipping(b3, c)
  <2>1. PICK r : r = IF d.ship = 0 THEN w.ship ELSE d.ship
    OBVIOUS
  <2>2. r \in Rows /\ b3[r].owner = c
    BY <1>11, <1>13, <2>1 DEF Row0
  <2>3. CASE d.ship = 0
    <3>1. \A x \in Rows : b2[x].owner = c => (b3[x].ship <=> x = r)
      BY <1>3, <1>10, <1>13, <2>1, <2>3
    <3>2. \A x \in Rows : b3[x].owner = c => (b3[x].ship <=> x = r)
      BY <1>10, <3>1, Zenon
    <3> QED
      BY <1>10, <2>2, <3>2, OneFlagged, Zenon
  <2>4. CASE d.ship # 0
    <3>1. \A x \in Rows : d.book[x].owner = c => (d.book[x].ship <=> x = r)
      BY <2>1, <2>4
    <3>2. \A x \in Rows : b3[x].ship = d.book[x].ship
      BY <1>5, <1>9, <1>10, <1>13, <2>4
    <3>3. \A x \in Rows : b3[x].owner = c => (b3[x].ship <=> x = r)
      BY <1>11, <3>1, <3>2, Zenon
    <3> QED
      BY <1>10, <2>2, <3>3, OneFlagged, Zenon
  <2> QED
    BY <2>3, <2>4
<1> QED
  BY <1>3, <1>8, <1>10, <1>11, <1>12, <1>13

(* What an import leaves, whichever it is.                                   *)
LEMMA ImportKeeps ==
  ASSUME AddressIInv, NEW o \in Orders, NEW c \in Customers, NEW bill \in Row0, NEW ship \in Row0,
         orderRow' = [orderRow EXCEPT ![o] = [owner |-> c, bill |-> bill, ship |-> ship]],
         known' = known \cup {c}, raced' = (raced \/ c \in doomed), UNCHANGED <<merging, doomed>>,
         Errand, book' \in Books, latest' \in ImportRecord, latest'.order = o,
         latest'.bill # NoContact => /\ Bears(book'[bill].contact, latest'.bill, latest'.others, latest'.own)
                                     /\ Cardinality({r \in Of(book', c) : book'[r].inv}) = 1,
         latest'.ship # NoContact => /\ Bears(book'[ship].contact, latest'.ship, latest'.others, latest'.own)
                                     /\ Cardinality({r \in Of(book', c) : book'[r].ship}) = 1
  PROVE  AddressIInv'
<1> DEFINE row == [owner |-> c, bill |-> bill, ship |-> ship]
<1>1. row \in OrderRecord /\ row.owner = c /\ row.bill = bill /\ row.ship = ship
  BY AddressBounds DEF OrderRecord, Rows, Row0
<1>2. orderRow' = [orderRow EXCEPT ![o] = row]
  OBVIOUS
<1> HIDE DEF row
<1>3. orderRow' \in [Orders -> OrderRecord] /\ orderRow'[o] = row /\ \A p \in Orders \ {o} : orderRow'[p] = orderRow[p]
  BY <1>1, <1>2 DEF AddressIInv, OrderRows
<1>4. AddressRest'
  BY AddressBounds DEF AddressIInv, AddressRest, Errand
<1>5. AddressFlags'
  BY Zenon DEF AddressIInv, AddressFlags
<1>6. OrdersOwned'
  BY <1>1, <1>3 DEF AddressIInv, OrdersOwned
<1>7. ~raced' => ~raced /\ c \notin doomed
  BY Zenon
<1>8. DoomedOwnNothing'
  BY <1>1, <1>3, <1>7 DEF AddressIInv, DoomedOwnNothing
<1>9. ImportSettlesAddresses'
  <2>1. orderRow'[latest'.order].owner = c /\ orderRow'[latest'.order].bill = bill
        /\ orderRow'[latest'.order].ship = ship
    BY <1>1, <1>3
  <2> QED
    BY <2>1, Zenon DEF ImportSettlesAddresses, Says, Bears, Of
<1> QED
  BY <1>3, <1>4, <1>5, <1>6, <1>8, <1>9 DEF AddressIInv, OrderRows

LEMMA OrderArrivesKeeps ==
  ASSUME AddressIInv, NEW o \in Orders, NEW c \in Customers, NEW t \in ShopTells, OrderArrives(o, c, t)
  PROVE  AddressIInv'
<1>1. PICK told : told = {t.bill, t.ship, t.home, t.away}
  OBVIOUS
<1>2. PICK T : T = {Filled(k, t.mail) : k \in told}
  OBVIOUS
<1>3. PICK own \in BOOLEAN : own = (\E k \in told : k.mail # "none")
  BY Zenon
<1>4. /\ t.bill \in Given /\ t.ship \in Given /\ t.home \in Given /\ t.away \in Given /\ t.mail \in Mails
      /\ t.shipId \in {"bill", "ship"} /\ (t.shipId = "bill" => t.ship = t.bill)
  <2>1. t \in [bill : Given, ship : Given, home : Given, away : Given,
              shipId : {"bill", "ship"}, awayId : {"first", "second"}, mail : Mails]
    BY TellingsAssumption
  <2>2. t.shipId = "bill" => t.ship = t.bill
    BY TellingsAssumption
  <2> QED
    BY <2>1, <2>2
<1>5. /\ latest' = [order |-> o, bill |-> Filled(t.bill, t.mail), ship |-> Filled(t.ship, t.mail), others |-> T, own |-> own]
      /\ known' = known \cup {c} /\ raced' = (raced \/ c \in doomed) /\ UNCHANGED <<merging, doomed>> /\ Errand
  BY <1>1, <1>2, <1>3, Zenon DEF OrderArrives
<1>6. /\ latest'.order = o /\ latest'.bill = Filled(t.bill, t.mail) /\ latest'.ship = Filled(t.ship, t.mail)
      /\ latest'.others = T /\ latest'.own = own
  BY <1>5
<1>7. T \subseteq Told
  BY <1>1, <1>2, <1>4, FilledFacts
<1>8. latest' \in ImportRecord
  <2>1. Filled(t.bill, t.mail) \in Told /\ Filled(t.ship, t.mail) \in Told
    BY <1>4, FilledFacts
  <2> QED
    BY <1>5, <1>7, <2>1 DEF ImportRecord
<1>9. ASSUME NEW k \in told, NEW id \in ApiIds
      PROVE  AddressOf(Address(id, k, t.mail), T, own)
  <2>1. PICK f : f = Filled(k, t.mail)
    OBVIOUS
  <2>2. k \in Given /\ f \in Told /\ (f = NoContact <=> k = NoContact) /\ f.place = k.place /\ f.name = k.name
    BY <1>1, <1>4, <2>1, FilledFacts
  <2>3. f \in T
    BY <1>2, <2>1
  <2>4. k.mail # "none" => own
    BY <1>3, Zenon
  <2>5. PICK a : a = [id |-> id, is |-> k, says |-> f]
    OBVIOUS
  <2>6. Address(id, k, t.mail) = a /\ a.id = id /\ a.is = k /\ a.says = f
    BY <2>1, <2>5 DEF Address
  <2>7. k # NoContact => f \in Complete
    BY <2>2 DEF Told
  <2> QED
    BY <2>2, <2>3, <2>4, <2>6, <2>7, Zenon DEF AddressOf
<1>10. PICK B, S : B = Address(OfOrder(o, "bill"), t.bill, t.mail) /\ S = Address(OfOrder(o, t.shipId), t.ship, t.mail)
  OBVIOUS
<1>11. /\ AddressOf(B, T, own) /\ AddressOf(S, T, own)
       /\ B.id = OfOrder(o, "bill") /\ S.id = OfOrder(o, t.shipId) /\ B.is = t.bill /\ S.is = t.ship
       /\ B.says = Filled(t.bill, t.mail) /\ S.says = Filled(t.ship, t.mail)
  <2>1. OfOrder(o, "bill") \in ApiIds /\ OfOrder(o, t.shipId) \in ApiIds
    BY <1>4, ApiFacts
  <2>2. AddressOf(B, T, own) /\ AddressOf(S, T, own)
    BY <1>1, <1>9, <1>10, <2>1
  <2> QED
    BY <1>10, <2>2 DEF Address
<1>12. B.id = S.id => B.says = S.says
  <2>1. OfOrder(o, "bill") # OfOrder(o, "ship")
    BY DEF OfOrder
  <2> QED
    BY <1>4, <1>11, <2>1
<1>13. PICK w \in PairWritten(book, c, B, S) : \E d \in DefaultsWritten(w.book, c, t) :
         LET s == Settled(c, w, d) IN
         book' = s.book /\ orderRow' = [orderRow EXCEPT ![o] = [owner |-> c, bill |-> s.bill, ship |-> s.ship]]
  BY <1>10, Zenon DEF OrderArrives
<1>14. PICK d \in DefaultsWritten(w.book, c, t) :
         LET s == Settled(c, w, d) IN
         book' = s.book /\ orderRow' = [orderRow EXCEPT ![o] = [owner |-> c, bill |-> s.bill, ship |-> s.ship]]
  BY <1>13
<1>15. PICK s : /\ s = Settled(c, w, d) /\ book' = s.book
                /\ orderRow' = [orderRow EXCEPT ![o] = [owner |-> c, bill |-> s.bill, ship |-> s.ship]]
  BY <1>14
<1>16. book \in Books
  BY DEF AddressIInv
<1>17. PairWell(book, w, c, B, S, T, own)
  BY <1>11, <1>12, <1>16, PairFacts, Zenon
<1>18. /\ w.book \in Books
       /\ Has(w.book, w.bill, c, B, {B.id, S.id}, T, own)
       /\ Has(w.book, w.ship, c, S, {B.id, S.id}, T, own)
  BY <1>17, Zenon DEF PairWell
<1>19. /\ d.book \in Books /\ d.bill \in Row0 /\ d.ship \in Row0
       /\ Passes(w.book, d.book, c, {OfCustomer(c, "first"), OfCustomer(c, "second")}, T, own)
       /\ d.bill # 0 => d.book[d.bill].owner = c /\ \A x \in Rows : d.book[x].owner = c => (d.book[x].inv <=> x = d.bill)
       /\ d.ship # 0 => d.book[d.ship].owner = c /\ \A x \in Rows : d.book[x].owner = c => (d.book[x].ship <=> x = d.ship)
  <2>1. \A id \in ApiIds : AddressOf(Address(id, t.home, t.mail), T, own) /\ AddressOf(Address(id, t.away, t.mail), T, own)
    BY <1>1, <1>9
  <2> QED
    <3>1. DefaultsWell(w.book, d, c, T, own)
      BY <1>18, <2>1, DefaultsFacts, Zenon
    <3> QED
      BY <3>1, Zenon DEF DefaultsWell
<1>20. {B.id, S.id} \cap {OfCustomer(c, "first"), OfCustomer(c, "second")} = {}
  BY <1>4, <1>11 DEF OfOrder, OfCustomer, Customers
<1>21. ASSUME NEW r, NEW a, Has(w.book, r, c, a, {B.id, S.id}, T, own)
       PROVE  /\ r \in Row0 /\ (a.is # NoContact <=> r # 0)
              /\ r # 0 => d.book[r].owner = c /\ Bears(d.book[r].contact, a.says, T, own)
  <2>1. 0 \notin Rows
    BY AddressBounds DEF Rows
  <2>2. CASE a.is = NoContact
    BY <1>21, <2>2 DEF Has, Row0
  <2>3. CASE a.is # NoContact
    BY <1>19, <1>20, <1>21, <2>1, <2>3 DEF Has, Passes, Row0
  <2> QED
    BY <2>2, <2>3
<1>22. /\ w.bill \in Row0 /\ (t.bill # NoContact <=> w.bill # 0)
       /\ w.bill # 0 => d.book[w.bill].owner = c /\ Bears(d.book[w.bill].contact, latest'.bill, T, own)
  BY <1>6, <1>11, <1>18, <1>21
<1>23. /\ w.ship \in Row0 /\ (t.ship # NoContact <=> w.ship # 0)
       /\ w.ship # 0 => d.book[w.ship].owner = c /\ Bears(d.book[w.ship].contact, latest'.ship, T, own)
  BY <1>6, <1>11, <1>18, <1>21
<1>24. /\ s.book \in Books /\ s.bill \in Row0 /\ s.ship \in Row0
       /\ \A x \in Rows : s.book[x].contact = d.book[x].contact
       /\ w.bill # 0 => s.bill = w.bill /\ OneBilling(s.book, c)
       /\ w.ship # 0 => s.ship = w.ship /\ OneShipping(s.book, c)
  BY <1>15, <1>19, <1>22, <1>23, SettledFacts
<1>25. (latest'.bill # NoContact <=> w.bill # 0) /\ (latest'.ship # NoContact <=> w.ship # 0)
  BY <1>4, <1>6, <1>22, <1>23, FilledFacts
<1>26. latest'.bill # NoContact => /\ Bears(book'[s.bill].contact, latest'.bill, latest'.others, latest'.own)
                                   /\ Cardinality({r \in Of(book', c) : book'[r].inv}) = 1
  BY <1>6, <1>15, <1>22, <1>24, <1>25 DEF Row0, OneBilling, OneShipping
<1>27. latest'.ship # NoContact => /\ Bears(book'[s.ship].contact, latest'.ship, latest'.others, latest'.own)
                                   /\ Cardinality({r \in Of(book', c) : book'[r].ship}) = 1
  BY <1>6, <1>15, <1>23, <1>24, <1>25 DEF Row0, OneBilling, OneShipping
<1>28. book' \in Books
  BY <1>15, <1>24
<1> QED
  BY <1>5, <1>6, <1>8, <1>15, <1>24, <1>26, <1>27, <1>28, ImportKeeps

-----------------------------------------------------------------------------
(* The import of a customer from Microtech.                                  *)
LEMMA ByNumberFacts ==
  ASSUME NEW b \in Books, NEW c \in Customers, NEW n, NEW r \in ByNumber(b, c, n)
  PROVE  /\ r \in Rows
         /\ (b[r].owner = c /\ b[r].number = n) \/ b[r] = Empty
<1>1. \/ r \in Rows /\ b[r].owner = c /\ b[r].number = n
      \/ r \in NewRow(b)
  BY DEF ByNumber, Of
<1>2. r \in NewRow(b) => r \in Rows /\ b[r] = Empty
  BY DEF NewRow, Free
<1> QED
  BY <1>1, <1>2

(* w is b with an address of c of this number written to row r.               *)
NumberedTo(b, w, r, c, n, contact) ==
  /\ w \in Books
  /\ w[r].owner = c /\ w[r].contact = contact /\ w[r].number = n
  /\ \A x \in Rows \ {r} : w[x] = b[x]

LEMMA NumberedFacts ==
  ASSUME NEW b \in Books, NEW r \in Rows, NEW c \in Customers, NEW n \in 0 .. 2, NEW contact \in Complete
  PROVE  \A inv, ship \in BOOLEAN : NumberedTo(b, Numbered(b, r, c, n, contact, inv, ship), r, c, n, contact)
<1> SUFFICES ASSUME NEW inv \in BOOLEAN, NEW ship \in BOOLEAN
             PROVE  NumberedTo(b, Numbered(b, r, c, n, contact, inv, ship), r, c, n, contact)
  BY Zenon
<1> DEFINE row == [b[r] EXCEPT !.owner = c, !.contact = contact, !.number = n, !.inv = inv, !.ship = ship]
<1>1. b[r] \in BookRow
  BY DEF Books
<1>2. row \in BookRow /\ row.owner = c /\ row.contact = contact /\ row.number = n
  BY <1>1 DEF BookRow, Told
<1>3. Numbered(b, r, c, n, contact, inv, ship) = [b EXCEPT ![r] = row]
  BY DEF Numbered
<1> HIDE DEF row
<1> QED
  BY <1>2, <1>3 DEF Books, NumberedTo

LEMMA CustomerReadKeeps ==
  ASSUME AddressIInv, NEW o \in Orders, NEW c \in Customers, NEW t \in ErpTells, CustomerRead(o, c, t)
  PROVE  AddressIInv'
<1>1. PICK n \in 1 .. 2 : t \in [contacts : [1 .. n -> Complete], bill : 0 .. n, ship : 0 .. n]
  BY TellingsAssumption, Zenon
<1>2. t.contacts \in [1 .. n -> Complete]
  BY <1>1
<1>3. t.bill \in 0 .. n /\ t.ship \in 0 .. n
  BY <1>1
<1>4. book \in Books /\ t.contacts[1] \in Complete /\ (n = 2 => t.contacts[2] \in Complete) /\ Len(t.contacts) = n
  BY <1>2 DEF AddressIInv
<1>5. PICK r \in ByNumber(book, c, 1) :
        LET b1 == Numbered(book, r, c, 1, t.contacts[1], t.bill = 1, t.ship = 1)
            one == Len(t.contacts) = 1
        IN \E s \in IF one THEN {r} ELSE ByNumber(b1, c, 2) :
          LET b2 == IF one THEN b1 ELSE Numbered(b1, s, c, 2, t.contacts[2], t.bill = 2, t.ship = 2)
              ship == IF t.ship = 2 THEN s ELSE r
              bill == CASE t.bill = 1 -> r [] t.bill = 2 -> s [] OTHER -> ship
          IN /\ book' = SetShipping(SetBilling(b2, c, bill), c, ship)
             /\ orderRow' = [orderRow EXCEPT ![o] = [owner |-> c, bill |-> bill, ship |-> ship]]
  BY Zenon DEF CustomerRead
<1>6. PICK b1 : b1 = Numbered(book, r, c, 1, t.contacts[1], t.bill = 1, t.ship = 1)
  OBVIOUS
<1>7. PICK s \in IF Len(t.contacts) = 1 THEN {r} ELSE ByNumber(b1, c, 2) :
          LET b2 == IF Len(t.contacts) = 1 THEN b1 ELSE Numbered(b1, s, c, 2, t.contacts[2], t.bill = 2, t.ship = 2)
              ship == IF t.ship = 2 THEN s ELSE r
              bill == CASE t.bill = 1 -> r [] t.bill = 2 -> s [] OTHER -> ship
          IN /\ book' = SetShipping(SetBilling(b2, c, bill), c, ship)
             /\ orderRow' = [orderRow EXCEPT ![o] = [owner |-> c, bill |-> bill, ship |-> ship]]
  BY <1>5, <1>6, Zenon
<1>8. PICK b2 : b2 = IF n = 1 THEN b1 ELSE Numbered(b1, s, c, 2, t.contacts[2], t.bill = 2, t.ship = 2)
  OBVIOUS
<1>9. PICK ship : ship = IF t.ship = 2 THEN s ELSE r
  OBVIOUS
<1>10. PICK bill : bill = IF t.bill = 1 THEN r ELSE IF t.bill = 2 THEN s ELSE ship
  OBVIOUS
<1>11. /\ book' = SetShipping(SetBilling(b2, c, bill), c, ship)
       /\ orderRow' = [orderRow EXCEPT ![o] = [owner |-> c, bill |-> bill, ship |-> ship]]
  <2>1. bill = CASE t.bill = 1 -> r [] t.bill = 2 -> s [] OTHER -> ship
    BY <1>10
  <2> QED
    BY <1>4, <1>7, <1>8, <1>9, <2>1
<1>12. r \in Rows /\ b1 \in Books /\ b1[r].owner = c /\ b1[r].contact = t.contacts[1] /\ b1[r].number = 1
  <2>1. r \in Rows
    BY <1>4, ByNumberFacts
  <2>2. (t.bill = 1) \in BOOLEAN /\ (t.ship = 1) \in BOOLEAN
    BY Zenon
  <2>3. 1 \in 0 .. 2
    OBVIOUS
  <2>4. NumberedTo(book, b1, r, c, 1, t.contacts[1])
    BY <1>4, <1>6, <2>1, <2>2, <2>3, NumberedFacts, Zenon
  <2> QED
    BY <2>1, <2>4 DEF NumberedTo
<1>13. /\ s \in Rows /\ b2 \in Books /\ b2[r].owner = c /\ b2[r].contact = t.contacts[1]
       /\ b2[s].owner = c /\ (n = 2 => b2[s].contact = t.contacts[2])
  <2>1. CASE n = 1
    BY <1>4, <1>7, <1>8, <1>12, <2>1
  <2>2. CASE n = 2
    <3>1. s \in ByNumber(b1, c, 2)
      BY <1>4, <1>7, <2>2
    <3>2. s \in Rows /\ s # r
      BY <1>12, <3>1, ByNumberFacts, EmptyFacts
    <3>3. b2 = Numbered(b1, s, c, 2, t.contacts[2], t.bill = 2, t.ship = 2)
      BY <1>8, <2>2
    <3>4. (t.bill = 2) \in BOOLEAN /\ (t.ship = 2) \in BOOLEAN /\ t.contacts[2] \in Complete
      BY <1>4, <2>2, Zenon
    <3>5. 2 \in 0 .. 2
      OBVIOUS
    <3>6. NumberedTo(b1, b2, s, c, 2, t.contacts[2])
      BY <1>12, <3>2, <3>3, <3>4, <3>5, NumberedFacts, Zenon
    <3> QED
      BY <1>12, <3>2, <3>6 DEF NumberedTo
  <2> QED
    BY <2>1, <2>2
<1>14. bill \in Rows /\ ship \in Rows /\ b2[bill].owner = c /\ b2[ship].owner = c
  BY <1>9, <1>10, <1>12, <1>13
<1>15. bill \in Row0 /\ ship \in Row0 /\ bill # 0 /\ ship # 0
  BY <1>14, AddressBounds DEF Row0, Rows
<1>16. FlagsSet(b2, book', c, bill, ship)
  BY <1>11, <1>13, <1>15, DefaultsSet
<1>17. /\ book' \in Books /\ \A x \in Rows : book'[x].owner = b2[x].owner /\ book'[x].contact = b2[x].contact
       /\ \A x \in Rows : book'[x].owner = c => (book'[x].inv <=> x = bill)
       /\ \A x \in Rows : book'[x].owner = c => (book'[x].ship <=> x = ship)
  BY <1>15, <1>16 DEF FlagsSet
<1>18. /\ Cardinality({x \in Of(book', c) : book'[x].inv}) = 1
       /\ Cardinality({x \in Of(book', c) : book'[x].ship}) = 1
  <2>1. PICK b : b = book'
    OBVIOUS
  <2>2. OneBilling(b, c) /\ OneShipping(b, c)
    <3>1. b \in Books /\ b[bill].owner = c /\ b[ship].owner = c
      BY <1>14, <1>17, <2>1
    <3> QED
      BY <1>14, <1>17, <2>1, <3>1, OneFlagged, Zenon
  <2> QED
    BY <2>1, <2>2 DEF OneBilling, OneShipping
<1>19. PICK y : y = First(t.ship, 1)
  OBVIOUS
<1>20. PICK x : x = First(t.bill, y)
  OBVIOUS
<1>21. /\ latest' = [order |-> o, bill |-> t.contacts[x], ship |-> t.contacts[y], others |-> {}, own |-> FALSE]
       /\ known' = known \cup {c} /\ raced' = (raced \/ c \in doomed) /\ UNCHANGED <<merging, doomed>>
       /\ Errand
  BY <1>19, <1>20, Zenon DEF CustomerRead
<1>22. t.contacts[x] \in Complete /\ t.contacts[y] \in Complete
       /\ book'[bill].contact = t.contacts[x] /\ book'[ship].contact = t.contacts[y]
  BY <1>3, <1>4, <1>9, <1>10, <1>12, <1>13, <1>14, <1>17, <1>19, <1>20 DEF First
<1>23. latest'.order = o /\ latest'.bill = t.contacts[x] /\ latest'.ship = t.contacts[y] /\ latest' \in ImportRecord
  BY <1>21, <1>22 DEF ImportRecord, Told
<1>24. /\ Bears(book'[bill].contact, latest'.bill, latest'.others, latest'.own)
       /\ Bears(book'[ship].contact, latest'.ship, latest'.others, latest'.own)
  BY <1>22, <1>23, Zenon DEF Bears
<1> QED
  BY <1>11, <1>15, <1>17, <1>18, <1>21, <1>23, <1>24, ImportKeeps

-----------------------------------------------------------------------------
(* The merge and the two ways to delete.                                     *)
LEMMA UnlinkedFacts ==
  ASSUME OrderRows, NEW rows
  PROVE  /\ Unlinked(rows) \in [Orders -> OrderRecord]
         /\ \A o \in Orders : /\ Unlinked(rows)[o].owner = orderRow[o].owner
                              /\ orderRow[o] = NoOrder => Unlinked(rows)[o] = NoOrder
<1>1. ASSUME NEW o \in Orders
      PROVE  /\ Unlinked(rows)[o] \in OrderRecord /\ Unlinked(rows)[o].owner = orderRow[o].owner
             /\ orderRow[o] = NoOrder => Unlinked(rows)[o] = NoOrder
  <2>1. PICK b, s : b = (IF orderRow[o].bill \in rows THEN 0 ELSE orderRow[o].bill)
                    /\ s = (IF orderRow[o].ship \in rows THEN 0 ELSE orderRow[o].ship)
    OBVIOUS
  <2>2. orderRow[o] \in OrderRecord
    BY DEF OrderRows
  <2>3. b \in 0 .. MaxRows /\ s \in 0 .. MaxRows
    BY <2>1, <2>2, AddressBounds DEF OrderRecord
  <2>4. Unlinked(rows)[o] = [orderRow[o] EXCEPT !.bill = b, !.ship = s]
    BY <2>1 DEF Unlinked
  <2>5. Unlinked(rows)[o] \in OrderRecord /\ Unlinked(rows)[o].owner = orderRow[o].owner
    BY <2>2, <2>3, <2>4 DEF OrderRecord
  <2>6. orderRow[o] = NoOrder => b = 0 /\ s = 0
    BY <2>1 DEF NoOrder
  <2>7. orderRow[o] = NoOrder => Unlinked(rows)[o] = NoOrder
    <3>1. \A r \in OrderRecord : r.bill = 0 /\ r.ship = 0 => [r EXCEPT !.bill = 0, !.ship = 0] = r
      BY DEF OrderRecord
    <3>2. orderRow[o] = NoOrder => orderRow[o].bill = 0 /\ orderRow[o].ship = 0
      BY DEF NoOrder
    <3> QED
      BY <2>2, <2>4, <2>6, <3>1, <3>2
  <2> QED
    BY <2>5, <2>7
<1> QED
  BY <1>1 DEF Unlinked

(* An order of nobody: it is none, whoever has unlinked its addresses.        *)
LEMMA NoOrderFacts == NoOrder \in OrderRecord /\ NoOrder.owner = "nobody"
  BY AddressBounds DEF NoOrder, OrderRecord

(* A step that imports nothing settles nothing.                              *)
LEMMA NoImportSettles ==
  ASSUME NoImport
  PROVE  ImportSettlesAddresses' /\ latest' \in ImportRecord
<1>1. latest'.order = "none" /\ latest' \in ImportRecord
  BY DEF NoImport, NotImported, ImportRecord, Told
<1> QED
  BY <1>1, Zenon DEF ImportSettlesAddresses

LEMMA MergeMovesOrdersKeeps ==
  ASSUME AddressIInv, MergeMovesOrders
  PROVE  AddressIInv'
<1>1. orderRow' \in [Orders -> OrderRecord]
  BY DEF MergeMovesOrders, AddressIInv, OrderRows, OrderRecord, Customers
<1>2. \A o \in Orders : IF orderRow[o].owner = "source" THEN orderRow'[o].owner = "target" ELSE orderRow'[o] = orderRow[o]
  BY DEF MergeMovesOrders, AddressIInv, OrderRows, OrderRecord
<1>3. OrdersOwned'
  BY <1>2 DEF AddressIInv, OrdersOwned, Customers
<1>4. DoomedOwnNothing'
  <2>1. doomed' = doomed /\ raced' = (raced \/ ("target" \in doomed /\ orderRow' # orderRow))
    BY Zenon DEF MergeMovesOrders
  <2>2. CASE orderRow' = orderRow
    <3>1. ~raced' => ~raced
      BY <2>1, Zenon
    <3> QED
      BY <2>1, <2>2, <3>1, Zenon DEF AddressIInv, DoomedOwnNothing
  <2>3. CASE orderRow' # orderRow
    <3>1. ~raced' => ~raced /\ "target" \notin doomed
      BY <2>1, <2>3, Zenon
    <3> QED
      BY <1>2, <2>1, <3>1 DEF AddressIInv, DoomedOwnNothing
  <2> QED
    BY <2>2, <2>3
<1>5. AddressFlags'
  BY Zenon DEF MergeMovesOrders, AddressIInv, AddressFlags
<1>6. AddressRest' /\ book' \in Books
  BY NoImportSettles, AddressBounds DEF MergeMovesOrders, AddressIInv, AddressRest, Errand
<1> QED
  BY <1>1, <1>3, <1>4, <1>5, <1>6, NoImportSettles DEF MergeMovesOrders, AddressIInv, OrderRows

(* Only the addresses are moved, and the orders keep their owners.           *)
LEMMA OnlyAddressesKeeps ==
  ASSUME AddressIInv, NoImport, book' \in Books, NEW rows, orderRow' = orderRow \/ orderRow' = Unlinked(rows),
         UNCHANGED <<known, doomed, raced>>, merging' \in BOOLEAN, errands' = errands \/ Errand
  PROVE  AddressIInv'
<1>1. /\ orderRow' \in [Orders -> OrderRecord]
      /\ \A o \in Orders : /\ orderRow'[o].owner = orderRow[o].owner
                           /\ orderRow[o] = NoOrder => orderRow'[o] = NoOrder
  BY UnlinkedFacts DEF AddressIInv, OrderRows
<1>2. OrdersOwned'
  BY <1>1 DEF AddressIInv, OrdersOwned
<1>3. DoomedOwnNothing'
  BY <1>1, Zenon DEF AddressIInv, DoomedOwnNothing
<1>4. AddressFlags'
  BY Zenon DEF AddressIInv, AddressFlags
<1>5. AddressRest'
  BY NoImportSettles, AddressBounds DEF AddressIInv, AddressRest, Errand
<1> QED
  BY <1>1, <1>2, <1>3, <1>4, <1>5, NoImportSettles DEF AddressIInv, OrderRows

LEMMA MergeEndsKeeps ==
  ASSUME AddressIInv, MergeEnds
  PROVE  AddressIInv'
<1>1. /\ NoImport /\ book' = book /\ orderRow' = orderRow /\ UNCHANGED <<known, doomed, raced>>
      /\ merging' \in BOOLEAN /\ errands' = errands
  BY Zenon DEF MergeEnds
<1> QED
  BY <1>1, OnlyAddressesKeeps DEF AddressIInv

LEMMA MergeMovesAddressKeeps ==
  ASSUME AddressIInv, NEW x \in Rows, MergeMovesAddress(x)
  PROVE  AddressIInv'
<1>1. /\ NoImport /\ orderRow' = orderRow /\ UNCHANGED <<known, doomed, raced>>
      /\ merging' = merging /\ errands' = errands /\ book' = [book EXCEPT ![x].owner = "target"]
  BY Zenon DEF MergeMovesAddress
<1>2. book' \in Books
  BY <1>1 DEF AddressIInv, Books, BookRow, Customers
<1>3. merging' \in BOOLEAN
  BY <1>1, Zenon DEF AddressIInv, AddressFlags
<1> QED
  BY <1>1, <1>2, <1>3, OnlyAddressesKeeps

LEMMA MergeReplacesAddressKeeps ==
  ASSUME AddressIInv, NEW x \in Rows, NEW y \in Rows, MergeReplacesAddress(x, y)
  PROVE  AddressIInv'
<1>1. /\ NoImport /\ orderRow' = Unlinked({x}) /\ UNCHANGED <<known, doomed, raced>>
      /\ merging' = merging /\ errands' = errands
      /\ book' = [book EXCEPT ![y].contact = book[x].contact, ![x] = Empty]
  BY Zenon DEF MergeReplacesAddress
<1>2. book' \in Books
  <2>1. book[x] \in BookRow /\ book[y] \in BookRow
    BY DEF AddressIInv, Books
  <2>2. PICK row : row = [book[y] EXCEPT !.contact = book[x].contact]
    OBVIOUS
  <2>3. row \in BookRow
    BY <2>1, <2>2 DEF BookRow
  <2>4. book' = [[book EXCEPT ![y] = row] EXCEPT ![x] = Empty]
    BY <1>1, <2>2
  <2> QED
    BY <2>3, <2>4, EmptyFacts DEF AddressIInv, Books
<1>3. merging' \in BOOLEAN
  BY <1>1, Zenon DEF AddressIInv, AddressFlags
<1> QED
  BY <1>1, <1>2, <1>3, OnlyAddressesKeeps

LEMMA AddressesDeletedKeeps ==
  ASSUME AddressIInv, NEW c \in Customers, NEW rows, AddressesDeleted(c, rows)
  PROVE  AddressIInv'
<1>1. /\ NoImport /\ orderRow' = Unlinked(rows) /\ UNCHANGED <<known, doomed, raced>>
      /\ merging' = merging /\ Errand
      /\ book' = [r \in Rows |-> IF r \in rows THEN Empty ELSE book[r]]
  BY Zenon DEF AddressesDeleted
<1>2. book' \in Books
  BY <1>1, EmptyFacts DEF AddressIInv, Books
<1>3. merging' \in BOOLEAN
  BY <1>1, Zenon DEF AddressIInv, AddressFlags
<1> QED
  BY <1>1, <1>2, <1>3, OnlyAddressesKeeps

LEMMA DeleteChecksKeeps ==
  ASSUME AddressIInv, NEW c \in Customers, DeleteChecks(c)
  PROVE  AddressIInv'
<1>1. /\ NoImport /\ UNCHANGED <<known, book, orderRow, merging, raced>>
      /\ Errand /\ doomed' = doomed \cup {c} /\ \A o \in Orders : orderRow[o].owner # c
  BY Zenon DEF DeleteChecks
<1>2. DoomedOwnNothing'
  BY <1>1, Zenon DEF AddressIInv, DoomedOwnNothing
<1>3. AddressFlags'
  BY <1>1, Zenon DEF AddressIInv, AddressFlags
<1>4. AddressRest'
  BY <1>1, NoImportSettles, AddressBounds DEF AddressIInv, AddressRest, Errand
<1> QED
  BY <1>1, <1>2, <1>3, <1>4, NoImportSettles DEF AddressIInv, OrderRows, OrdersOwned

LEMMA DeleteCascadesKeeps ==
  ASSUME AddressIInv, NEW c \in Customers, DeleteCascades(c)
  PROVE  AddressIInv'
<1>1. /\ NoImport /\ UNCHANGED <<merging, raced, errands>> /\ doomed' = doomed \ {c} /\ known' = known \ {c}
      /\ book' = [r \in Rows |-> IF book[r].owner = c THEN Empty ELSE book[r]]
      /\ orderRow' = [o \in Orders |-> IF orderRow[o].owner = c THEN NoOrder ELSE Unlinked(Of(book, c))[o]]
  BY Zenon DEF DeleteCascades
<1>2. book' \in Books
  BY <1>1, EmptyFacts DEF AddressIInv, Books
<1>3. PICK u : u = Unlinked(Of(book, c))
  OBVIOUS
<1>4. /\ u \in [Orders -> OrderRecord]
      /\ \A o \in Orders : u[o].owner = orderRow[o].owner /\ (orderRow[o] = NoOrder => u[o] = NoOrder)
  BY <1>3, UnlinkedFacts DEF AddressIInv
<1>5. \A o \in Orders : orderRow'[o] = NoOrder \/ orderRow'[o] = u[o]
  BY <1>1, <1>3
<1>6. orderRow' \in [Orders -> OrderRecord]
  BY <1>1, <1>3, <1>4, NoOrderFacts
<1>7. OrdersOwned'
  BY <1>4, <1>5 DEF AddressIInv, OrdersOwned
<1>8. DoomedOwnNothing'
  <2>1. \A o \in Orders, d \in Customers : orderRow[o].owner # d => orderRow'[o].owner # d
    BY <1>4, <1>5, NoOrderFacts, EmptyFacts
  <2>2. doomed' \subseteq doomed /\ raced' = raced /\ doomed \subseteq Customers
    BY <1>1 DEF AddressIInv, AddressRest
  <2> QED
    BY <2>1, <2>2, Zenon DEF AddressIInv, DoomedOwnNothing
<1>9. AddressFlags'
  BY <1>1, Zenon DEF AddressIInv, AddressFlags
<1>10. AddressRest'
  BY <1>1, NoImportSettles, AddressBounds DEF AddressIInv, AddressRest
<1> QED
  BY <1>1, <1>2, <1>6, <1>7, <1>8, <1>9, <1>10, NoImportSettles DEF AddressIInv, OrderRows

-----------------------------------------------------------------------------
LEMMA AddressInitIInv == AddressInit => AddressIInv
<1> SUFFICES ASSUME AddressInit PROVE AddressIInv
  OBVIOUS
<1>1. book \in Books
  BY EmptyFacts DEF AddressInit, Books
<1>2. OrderRows /\ OrdersOwned
  BY NoOrderFacts DEF AddressInit, OrderRows, OrdersOwned
<1>3. AddressRest
  BY AddressBounds DEF AddressInit, AddressRest, NotImported, ImportRecord, Told
<1>4. AddressFlags
  BY Zenon DEF AddressInit, AddressFlags
<1>5. DoomedOwnNothing
  BY Zenon DEF AddressInit, DoomedOwnNothing
<1>6. ImportSettlesAddresses
  <2>1. latest.order = "none"
    BY DEF AddressInit, NotImported
  <2> QED
    BY <2>1, Zenon DEF ImportSettlesAddresses
<1> QED
  BY <1>1, <1>2, <1>3, <1>4, <1>5, <1>6 DEF AddressIInv

LEMMA AddressNextIInv == AddressIInv /\ [AddressNext]_addressVars => AddressIInv'
<1> SUFFICES ASSUME AddressIInv, [AddressNext]_addressVars PROVE AddressIInv'
  OBVIOUS
<1>1. CASE AddressNext
  <2>1. ASSUME NEW o \in Orders, NEW c \in Customers, NEW t \in ShopTells, OrderArrives(o, c, t)
        PROVE  AddressIInv'
    BY <2>1, OrderArrivesKeeps
  <2>2. ASSUME NEW o \in Orders, NEW c \in Customers, NEW t \in ErpTells, CustomerRead(o, c, t)
        PROVE  AddressIInv'
    BY <2>2, CustomerReadKeeps
  <2>3. CASE MergeMovesOrders \/ MergeEnds
    BY <2>3, MergeMovesOrdersKeeps, MergeEndsKeeps
  <2>4. ASSUME NEW x \in Rows, MergeMovesAddress(x) \/ \E y \in Rows : MergeReplacesAddress(x, y)
        PROVE  AddressIInv'
    BY <2>4, MergeMovesAddressKeeps, MergeReplacesAddressKeeps
  <2>5. ASSUME NEW c \in Customers,
               (\E rows \in SUBSET Of(book, c) : AddressesDeleted(c, rows)) \/ DeleteChecks(c) \/ DeleteCascades(c)
        PROVE  AddressIInv'
    BY <2>5, AddressesDeletedKeeps, DeleteChecksKeeps, DeleteCascadesKeeps
  <2> QED
    BY <1>1, <2>1, <2>2, <2>3, <2>4, <2>5, Zenon DEF AddressNext
<1>2. CASE UNCHANGED addressVars
  BY <1>2, Zenon DEF addressVars, AddressIInv, OrderRows, AddressRest, AddressFlags, OrdersOwned, DoomedOwnNothing,
                     ImportSettlesAddresses, Says, Of
<1> QED
  BY <1>1, <1>2

(* Addresses and orders are always of their types.                           *)
THEOREM AddressTypeCorrect == AddressSpec => []AddressTypeOK
<1>1. AddressIInv => AddressTypeOK
  BY AddressTypeParts DEF AddressIInv
<1> QED
  BY <1>1, AddressInitIInv, AddressNextIInv, PTL DEF AddressSpec

(* The order an import wrote has rows that say what it says, or at least its    *)
(* place and name and the rest of another address of the same import, and its  *)
(* customer one default of each kind the order has                            *)
(* (OrderSyncService.upsert_from_shopware_order,                              *)
(* OrderCustomerChangeService._import_customer), whatever rows matched.        *)
THEOREM ImportSettles == AddressSpec => []ImportSettlesAddresses
<1>1. AddressIInv => ImportSettlesAddresses
  BY Zenon DEF AddressIInv
<1> QED
  BY <1>1, AddressInitIInv, AddressNextIInv, PTL DEF AddressSpec

(* An order with an owner keeps one: the delete takes those of its customer,   *)
(* who has none unless an order came after the check.                        *)
LEMMA StepLosesNoOrder ==
  ASSUME AddressIInv, [AddressNext]_addressVars, NEW o \in Orders, orderRow[o] # NoOrder, ~raced
  PROVE  orderRow'[o] # NoOrder
<1>1. orderRow[o].owner \in Customers /\ orderRow[o] \in OrderRecord
  BY DEF AddressIInv, OrdersOwned, OrderRows
<1>2. SUFFICES orderRow'[o].owner \in Customers
  BY NoOrderFacts, EmptyFacts
<1>3. ASSUME NEW p \in Orders, NEW c \in Customers, NEW row, row.owner = c, orderRow' = [orderRow EXCEPT ![p] = row]
      PROVE  orderRow'[o].owner \in Customers
  BY <1>1, <1>3 DEF AddressIInv, OrderRows
<1>4. ASSUME NEW p \in Orders, NEW c \in Customers, NEW t \in ShopTells, OrderArrives(p, c, t)
      PROVE  orderRow'[o].owner \in Customers
  <2>1. PICK s : orderRow' = [orderRow EXCEPT ![p] = [owner |-> c, bill |-> s.bill, ship |-> s.ship]]
    BY <1>4, Zenon DEF OrderArrives
  <2>2. PICK row : row = [owner |-> c, bill |-> s.bill, ship |-> s.ship]
    OBVIOUS
  <2> QED
    BY <1>3, <2>1, <2>2
<1>5. ASSUME NEW p \in Orders, NEW c \in Customers, NEW t \in ErpTells, CustomerRead(p, c, t)
      PROVE  orderRow'[o].owner \in Customers
  <2>1. PICK r \in ByNumber(book, c, 1) :
          LET b1 == Numbered(book, r, c, 1, t.contacts[1], t.bill = 1, t.ship = 1) IN
          \E s \in IF Len(t.contacts) = 1 THEN {r} ELSE ByNumber(b1, c, 2) :
            LET ship == IF t.ship = 2 THEN s ELSE r
                bill == CASE t.bill = 1 -> r [] t.bill = 2 -> s [] OTHER -> ship
            IN orderRow' = [orderRow EXCEPT ![p] = [owner |-> c, bill |-> bill, ship |-> ship]]
    BY <1>5, Zenon DEF CustomerRead
  <2>2. PICK s : LET ship == IF t.ship = 2 THEN s ELSE r
                     bill == CASE t.bill = 1 -> r [] t.bill = 2 -> s [] OTHER -> ship
                 IN orderRow' = [orderRow EXCEPT ![p] = [owner |-> c, bill |-> bill, ship |-> ship]]
    BY <2>1, Zenon
  <2>3. PICK ship : ship = IF t.ship = 2 THEN s ELSE r
    OBVIOUS
  <2>4. PICK bill : bill = CASE t.bill = 1 -> r [] t.bill = 2 -> s [] OTHER -> ship
    OBVIOUS
  <2>5. PICK row : row = [owner |-> c, bill |-> bill, ship |-> ship]
    OBVIOUS
  <2> QED
    BY <1>3, <2>2, <2>3, <2>4, <2>5
<1>6. ASSUME MergeMovesOrders
      PROVE  orderRow'[o].owner \in Customers
  BY <1>1, <1>6 DEF MergeMovesOrders, OrderRecord, Customers
<1>7. ASSUME NEW rows, orderRow' = Unlinked(rows)
      PROVE  orderRow'[o].owner \in Customers
  BY <1>1, <1>7, UnlinkedFacts DEF AddressIInv
<1>8. ASSUME NEW c \in Customers, DeleteCascades(c)
      PROVE  orderRow'[o].owner \in Customers
  <2>1. orderRow[o].owner # c
    BY <1>8, Zenon DEF DeleteCascades, AddressIInv, DoomedOwnNothing
  <2>2. orderRow'[o] = Unlinked(Of(book, c))[o]
    BY <1>8, <2>1 DEF DeleteCascades
  <2> QED
    BY <1>1, <2>2, UnlinkedFacts DEF AddressIInv
<1>9. ASSUME orderRow' = orderRow
      PROVE  orderRow'[o].owner \in Customers
  BY <1>1, <1>9
<1>10. CASE AddressNext
  <2>1. CASE \E x \in Rows : MergeMovesAddress(x) \/ \E y \in Rows : MergeReplacesAddress(x, y)
    <3>1. orderRow' = orderRow \/ \E x \in Rows : orderRow' = Unlinked({x})
      BY <2>1, Zenon DEF MergeMovesAddress, MergeReplacesAddress
    <3> QED
      BY <1>7, <1>9, <3>1
  <2>2. CASE \E c \in Customers : \/ \E rows \in SUBSET Of(book, c) : AddressesDeleted(c, rows)
                                \/ DeleteChecks(c) \/ DeleteCascades(c)
    <3>1. \/ \E c \in Customers, rows \in SUBSET Rows : orderRow' = Unlinked(rows)
          \/ orderRow' = orderRow
          \/ \E c \in Customers : DeleteCascades(c)
      BY <2>2, Zenon DEF AddressesDeleted, DeleteChecks, Of
    <3> QED
      BY <1>7, <1>8, <1>9, <3>1
  <2>3. CASE MergeEnds
    BY <1>9, <2>3, Zenon DEF MergeEnds
  <2> QED
    BY <1>4, <1>5, <1>6, <1>10, <2>1, <2>2, <2>3, Zenon DEF AddressNext
<1>11. CASE UNCHANGED addressVars
  BY <1>9, <1>11, Zenon DEF addressVars
<1> QED
  BY <1>10, <1>11

(* Merging and deleting customers loses no order, unless it came between the   *)
(* check of CustomerDeleteService.delete_django and its delete.               *)
THEOREM OrdersStay == AddressSpec => OrdersAreNotLost
<1>1. AddressIInv /\ [AddressNext]_addressVars
        => [\A o \in Orders : orderRow[o] # NoOrder => orderRow'[o] # NoOrder \/ raced]_addressVars
  BY StepLosesNoOrder, Zenon
<1> QED
  BY <1>1, AddressInitIInv, AddressNextIInv, PTL DEF AddressSpec, OrdersAreNotLost

-----------------------------------------------------------------------------
(* CustomerUpsert.  An address is clear of doubt, and of the processes that    *)
(* may bring it there: those that have met another one.                      *)
Lone(c) == client[c].alone
Clear(a) == a \notin doubt /\ \A c \in Clients : Lone(c) \/ a \notin Writing(c)

ClientGood(c) ==
  /\ ClientAt(c, "off") => client[c] = NoClient
  /\ Writing(c) \subseteq mine /\ client[c].wrote \cap In(client[c].todo) = {}
  /\ ClientAt(c, "save") => client[c].todo # <<>> /\ client[c].got \in Numbers
  /\ ClientAt(c, "transfer") =>
       Writing(c) \subseteq doubt /\ \A a \in Writing(c) : client[c].known[a] \in Numbers

(* What a process that is alone may rely on: it knows the numbers of what is    *)
(* left, and what it has written is there, where nothing was put over it.     *)
Over(c, a) == \/ \E x \in client[c].wrote \ {a} : numbers[x] = numbers[a]
              \/ ClientAt(c, "save") /\ client[c].got = numbers[a]
Saving(c, h, n) == ClientAt(c, "save") /\ Head(client[c].todo) = h /\ client[c].got = n
LonelyGood(c) ==
  Lone(c) /\ (ClientAt(c, "write") \/ ClientAt(c, "save")) =>
    /\ \A a \in In(client[c].todo) : client[c].known[a] = numbers[a]
    /\ \A a \in client[c].wrote :
         numbers[a] # 0 /\ (~Over(c, a) => account[numbers[a]] = Card(a, client[c].says[a]))
    /\ \A h \in Addresses, n \in Numbers : Saving(c, h, n) =>
         /\ account[n] = Card(h, client[c].says[h])
         /\ client[c].known[h] # 0 => n = client[c].known[h]
         /\ h \notin doubt => \A x \in Addresses \ {h} : Clear(x) => numbers[x] # n

OneAlone == \A c, d \in Clients : c # d /\ Lone(c) /\ ~ClientAt(c, "off") => ClientAt(d, "off")

(* The number of an address that is clear means it and nothing else.           *)
NumbersMean ==
  \A a \in Addresses : Clear(a) =>
    /\ \A n \in Numbers : account[n].of = a => n = numbers[a] \/ \E c \in Clients : Lone(c) /\ Saving(c, a, n)
    /\ numbers[a] # 0 => account[numbers[a]].of # "nobody"
    /\ \A x \in Addresses \ {a} : Clear(x) /\ numbers[x] = numbers[a] => numbers[a] = 0

OthersUnknown == \A a \in Addresses \ mine : numbers[a] = 0 /\ \A n \in Numbers : account[n].of # a

LandedStands ==
  /\ landed # {} => \A c \in Clients : ClientAt(c, "off")
  /\ \A a \in landed :
       /\ numbers[a] # 0
       /\ (\A x \in landed \ {a} : numbers[x] # numbers[a]) => account[numbers[a]] = Card(a, version[a])

UpsertInv ==
  /\ \A c \in Clients : ClientGood(c) /\ LonelyGood(c)
  /\ OneAlone /\ NumbersMean /\ OthersUnknown /\ LandedStands

ClientRecords == [at : {"off", "write", "save", "transfer"}, todo : Sendings \cup {<<>>},
  wrote : SUBSET Addresses, got : 0 .. MaxNumbers, alone : BOOLEAN,
  known : [Addresses -> 0 .. MaxNumbers], says : [Addresses -> Versions]]

UpsertTyped ==
  /\ mine \subseteq Addresses
  /\ numbers \in [Addresses -> 0 .. MaxNumbers] /\ version \in [Addresses -> Versions]
  /\ account \in [Numbers -> Cards]
  /\ client \in [Clients -> ClientRecords]
  /\ landed \subseteq Addresses /\ doubt \subseteq Addresses
  /\ upsertEvents \in 0 .. MaxUpsertEvents /\ upsertFaults \in 0 .. MaxUpsertFaults

UpsertIInv == UpsertTyped /\ UpsertInv

(* Addresses that are still to be written.                                   *)
LEMMA SendingParts ==
  ASSUME NEW s \in Sendings
  PROVE  /\ s # <<>> /\ Head(s) \in In(s) /\ In(s) \subseteq Addresses
         /\ Tail(s) \in Sendings \cup {<<>>} /\ In(Tail(s)) = In(s) \ {Head(s)}
<1>1. Cardinality(Addresses) \in Nat
  BY UpsertBounds, FS_CardinalityType
<1>2. PICK n \in 1 .. Cardinality(Addresses) : s \in [1 .. n -> Addresses] /\ \A i, j \in 1 .. n : s[i] = s[j] => i = j
  BY DEF Sendings
<1>3. n \in Nat \ {0} /\ DOMAIN s = 1 .. n /\ s \in Seq(Addresses) /\ Len(s) = n
  BY <1>1, <1>2
<1>4. s # <<>> /\ Head(s) = s[1] /\ 1 \in 1 .. n
  BY <1>2, <1>3
<1>5. In(s) \subseteq Addresses /\ Head(s) \in In(s)
  BY <1>2, <1>3, <1>4 DEF In
<1>6. Tail(s) \in [1 .. n - 1 -> Addresses] /\ Len(Tail(s)) = n - 1 /\ \A i \in 1 .. n - 1 : Tail(s)[i] = s[i + 1]
  <2>1. Len(Tail(s)) = n - 1 /\ Tail(s) \in Seq(Addresses)
    BY <1>3, <1>4
  <2>2. \A i \in 1 .. n - 1 : Tail(s)[i] = s[i + 1]
    BY <1>3, <1>4, <2>1
  <2>3. Tail(s) \in [1 .. n - 1 -> Addresses]
    <3>1. PICK q : q = Tail(s)
      OBVIOUS
    <3>2. q \in Seq(Addresses)
      BY <2>1, <3>1
    <3>3. q \in [1 .. Len(q) -> Addresses]
      BY <3>2
    <3> QED
      BY <2>1, <3>1, <3>3
  <2> QED
    BY <2>1, <2>2, <2>3
<1>7. Tail(s) \in Sendings \cup {<<>>}
  <2>1. CASE n = 1
    BY <1>3, <1>6, <2>1
  <2>2. CASE n # 1
    <3>1. n - 1 \in 1 .. Cardinality(Addresses)
      BY <1>1, <1>3, <2>2
    <3>2. \A i, j \in DOMAIN Tail(s) : Tail(s)[i] = Tail(s)[j] => i = j
      <4> SUFFICES ASSUME NEW i \in 1 .. n - 1, NEW j \in 1 .. n - 1, Tail(s)[i] = Tail(s)[j] PROVE i = j
        BY <1>6
      <4>1. s[i + 1] = s[j + 1] /\ i + 1 \in 1 .. n /\ j + 1 \in 1 .. n
        BY <1>3, <1>6
      <4> QED
        BY <1>2, <4>1
    <3> QED
      BY <1>6, <3>1, <3>2 DEF Sendings
  <2> QED
    BY <2>1, <2>2
<1>8. In(Tail(s)) = In(s) \ {Head(s)}
  <2>1. In(Tail(s)) = {s[i + 1] : i \in 1 .. n - 1}
    BY <1>6 DEF In
  <2>2. In(s) = {s[i] : i \in 1 .. n}
    BY <1>3 DEF In
  <2>3. ASSUME NEW a \in In(Tail(s)) PROVE a \in In(s) \ {Head(s)}
    <3>1. PICK i \in 1 .. n - 1 : a = s[i + 1]
      BY <2>1, <2>3
    <3>2. i + 1 \in 1 .. n /\ i + 1 # 1
      BY <1>3
    <3> QED
      BY <1>2, <1>4, <2>2, <3>1, <3>2
  <2>4. ASSUME NEW a \in In(s) \ {Head(s)} PROVE a \in In(Tail(s))
    <3>1. PICK i \in 1 .. n : a = s[i]
      BY <2>2, <2>4
    <3>2. i # 1
      BY <1>4, <2>4, <3>1
    <3>3. i - 1 \in 1 .. n - 1 /\ i = (i - 1) + 1
      BY <1>3, <3>2
    <3> QED
      BY <2>1, <3>1, <3>3
  <2> QED
    BY <2>3, <2>4
<1> QED
  BY <1>4, <1>5, <1>7, <1>8

LEMMA NothingLeft == In(<<>>) = {}
  BY DEF In

LEMMA UpsertTypes == UpsertTypeOK <=> UpsertTyped
  BY Zenon DEF UpsertTypeOK, UpsertTyped, ClientRecords

LEMMA CardFacts ==
  /\ \A a \in Addresses, v \in Versions : Card(a, v) \in Cards /\ Card(a, v).of = a /\ Card(a, v).of # "nobody"
  /\ NoCard \in Cards /\ Stranger \in Cards /\ NoCard.of = "nobody"
  /\ \A a \in Addresses : NoCard.of # a /\ Stranger.of # a
  /\ \A x \in Cards : x.of = "nobody" => x = NoCard
<1>1. "nobody" \notin Addresses /\ "somebody" \notin Addresses
  BY UpsertBounds
<1>2. \A a \in Addresses, v \in Versions : Card(a, v) \in Cards /\ Card(a, v).of = a /\ Card(a, v).of # "nobody"
  BY <1>1 DEF Card, Cards
<1>3. /\ NoCard \in Cards /\ Stranger \in Cards /\ NoCard.of = "nobody" /\ Stranger.of = "somebody"
  BY DEF Cards, NoCard, Stranger, Card
<1>4. \A x \in Cards : x = NoCard \/ x = Stranger \/ x.of \in Addresses
  BY <1>2 DEF Cards
<1> QED
  BY <1>1, <1>2, <1>3, <1>4

LEMMA NoClientFacts ==
  /\ NoClient \in ClientRecords
  /\ NoClient.at = "off" /\ NoClient.todo = <<>> /\ NoClient.wrote = {} /\ NoClient.alone = TRUE
<1>1. 0 \in 0 .. MaxNumbers /\ 0 \in Versions
  BY UpsertBounds DEF Versions
<1> QED
  BY <1>1 DEF NoClient, ClientRecords

LEMMA ClientParts ==
  ASSUME UpsertTyped, NEW c \in Clients
  PROVE  /\ client[c] \in ClientRecords
         /\ client[c].todo \in Sendings \cup {<<>>} /\ client[c].wrote \subseteq Addresses
         /\ client[c].got \in 0 .. MaxNumbers /\ client[c].known \in [Addresses -> 0 .. MaxNumbers]
         /\ client[c].says \in [Addresses -> Versions]
         /\ In(client[c].todo) \subseteq Addresses /\ Writing(c) \subseteq Addresses
<1>1. client[c] \in ClientRecords
  BY DEF UpsertTyped
<1>2. /\ client[c].todo \in Sendings \cup {<<>>} /\ client[c].wrote \subseteq Addresses
      /\ client[c].got \in 0 .. MaxNumbers /\ client[c].known \in [Addresses -> 0 .. MaxNumbers]
      /\ client[c].says \in [Addresses -> Versions]
  BY <1>1 DEF ClientRecords
<1>3. In(client[c].todo) \subseteq Addresses
  BY <1>2, SendingParts, NothingLeft
<1> QED
  BY <1>1, <1>2, <1>3 DEF Writing

LEMMA BusyFacts ==
  ASSUME UpsertInv, NEW c \in Clients, ~ClientAt(c, "off")
  PROVE  /\ landed = {}
         /\ \A d \in Clients \ {c} : (Lone(d) => ClientAt(d, "off")) /\ (Lone(c) => ClientAt(d, "off"))
<1>1. landed = {}
  BY Zenon DEF UpsertInv, LandedStands
<1>2. \A d \in Clients \ {c} : (Lone(d) => ClientAt(d, "off")) /\ (Lone(c) => ClientAt(d, "off"))
  BY Zenon DEF UpsertInv, OneAlone
<1> QED
  BY <1>1, <1>2

(* A process that is under way takes a step, or stops.                        *)
Steps_(c) ==
  /\ ~ClientAt(c, "off") /\ mine' = mine /\ doubt \subseteq doubt'
  /\ \A d \in Clients \ {c} : client'[d] = client[d]
  /\ (Lone(c)' <=> Lone(c)) \/ ClientAt(c, "off")'

LEMMA StepKeeps ==
  ASSUME UpsertIInv, NEW c \in Clients, Steps_(c), UpsertTyped', ClientGood(c)', LonelyGood(c)',
         NumbersMean', OthersUnknown', LandedStands'
  PROVE  UpsertIInv'
<1>1. /\ ~ClientAt(c, "off") /\ mine' = mine /\ doubt \subseteq doubt'
      /\ \A d \in Clients \ {c} : client'[d] = client[d]
      /\ (Lone(c)' <=> Lone(c)) \/ ClientAt(c, "off")'
  BY Zenon DEF Steps_
<1>2. \A d \in Clients \ {c} : (Lone(d) => ClientAt(d, "off")) /\ (Lone(c) => ClientAt(d, "off"))
  BY <1>1, BusyFacts DEF UpsertIInv
<1>3. /\ \A d \in Clients \ {c} : ClientAt(d, "off")' <=> ClientAt(d, "off")
      /\ \A d \in Clients \ {c} : Lone(d)' <=> Lone(d)
  BY <1>1, Zenon DEF ClientAt, Lone
<1>4. ASSUME NEW d \in Clients PROVE ClientGood(d)'
  <2>1. CASE d = c
    BY <2>1
  <2>2. CASE d # c
    <3>1. PICK r : r = client[d] /\ r = client'[d]
      BY <1>1, <2>2
    <3>2. /\ r.at = "off" => r = NoClient
          /\ r.wrote \cup In(r.todo) \subseteq mine /\ r.wrote \cap In(r.todo) = {}
          /\ r.at = "save" => r.todo # <<>> /\ r.got \in Numbers
          /\ r.at = "transfer" =>
               r.wrote \cup In(r.todo) \subseteq doubt /\ \A a \in r.wrote \cup In(r.todo) : r.known[a] \in Numbers
      BY <3>1, Zenon DEF UpsertIInv, UpsertInv, ClientGood, ClientAt, Writing
    <3>3. r.wrote \cup In(r.todo) \subseteq doubt => r.wrote \cup In(r.todo) \subseteq doubt'
      BY <1>1
    <3> QED
      BY <1>1, <3>1, <3>2, <3>3, Zenon DEF ClientGood, ClientAt, Writing
  <2> QED
    BY <2>1, <2>2
<1>5. ASSUME NEW d \in Clients PROVE LonelyGood(d)'
  <2>1. CASE d = c
    BY <2>1
  <2>2. CASE d # c
    <3>1. Lone(d)' => ClientAt(d, "off")'
      BY <1>2, <1>3, <2>2, Zenon
    <3>2. ClientAt(d, "off")' => ~ (ClientAt(d, "write")' \/ ClientAt(d, "save")')
      BY DEF ClientAt
    <3> QED
      BY <3>1, <3>2, Zenon DEF LonelyGood
  <2> QED
    BY <2>1, <2>2
<1>6. OneAlone'
  <2> SUFFICES ASSUME NEW x \in Clients, NEW y \in Clients, x # y, Lone(x)', ~ClientAt(x, "off")'
               PROVE  ClientAt(y, "off")'
    BY Zenon DEF OneAlone
  <2>1. CASE x = c
    BY <1>1, <1>2, <1>3, <2>1, Zenon
  <2>2. CASE x # c
    BY <1>2, <1>3, <2>2, Zenon
  <2> QED
    BY <2>1, <2>2
<1> QED
  BY <1>4, <1>5, <1>6, Zenon DEF UpsertIInv, UpsertInv

(* Nothing lands while a process is under way.                                *)
LEMMA NothingLanded ==
  ASSUME UpsertIInv, NEW c \in Clients, ~ClientAt(c, "off"), landed' = landed
  PROVE  LandedStands' /\ landed' = {}
<1>1. landed' = {}
  BY BusyFacts DEF UpsertIInv
<1> QED
  BY <1>1, Zenon DEF LandedStands

LEMMA ClientGone ==
  ASSUME UpsertIInv, NEW c \in Clients, client' = [client EXCEPT ![c] = NoClient]
  PROVE  /\ client'[c] = NoClient /\ \A d \in Clients \ {c} : client'[d] = client[d]
         /\ client' \in [Clients -> ClientRecords]
         /\ ClientAt(c, "off")' /\ ClientGood(c)' /\ LonelyGood(c)' /\ Lone(c)' /\ Writing(c)' = {}
<1>1. /\ client'[c] = NoClient /\ \A d \in Clients \ {c} : client'[d] = client[d]
      /\ client' \in [Clients -> ClientRecords]
  BY NoClientFacts DEF UpsertIInv, UpsertTyped
<1>2. PICK r : r = NoClient /\ r = client'[c]
  BY <1>1
<1>3. r.at = "off" /\ r.wrote = {} /\ In(r.todo) = {} /\ r.alone
  BY <1>2, NoClientFacts, NothingLeft, Zenon
<1>4. ClientAt(c, "off")' /\ Writing(c)' = {} /\ Lone(c)'
  BY <1>2, <1>3 DEF ClientAt, Writing, Lone
<1>5. ~ClientAt(c, "save")' /\ ~ClientAt(c, "transfer")' /\ ~ClientAt(c, "write")'
  BY <1>4 DEF ClientAt
<1>6. ClientGood(c)'
  <2>1. Writing(c)' \subseteq mine' /\ r.wrote \cap In(r.todo) = {}
    BY <1>3, <1>4
  <2> QED
    BY <1>1, <1>2, <1>5, <2>1, Zenon DEF ClientGood
<1>7. LonelyGood(c)'
  BY <1>5, Zenon DEF LonelyGood
<1> QED
  BY <1>1, <1>4, <1>6, <1>7

(* It is through, or has raised.                                              *)
LEMMA LetsGoKeeps ==
  ASSUME UpsertIInv, NEW c \in Clients, ~ClientAt(c, "off"), LetsGo(c), UNCHANGED <<mine, numbers, version, account>>,
         upsertEvents' = upsertEvents, upsertFaults' \in 0 .. MaxUpsertFaults, landed' \subseteq Addresses, LandedStands'
  PROVE  UpsertIInv'
<1>1. /\ client'[c] = NoClient /\ \A d \in Clients \ {c} : client'[d] = client[d]
      /\ client' \in [Clients -> ClientRecords]
      /\ ClientAt(c, "off")' /\ ClientGood(c)' /\ LonelyGood(c)' /\ Lone(c)' /\ Writing(c)' = {}
  BY ClientGone DEF LetsGo
<1>2. \A d \in Clients \ {c} : (Lone(d) => ClientAt(d, "off")) /\ (Lone(c) => ClientAt(d, "off"))
  BY BusyFacts DEF UpsertIInv
<1>3. UpsertTyped /\ Writing(c) \subseteq Addresses /\ (ClientAt(c, "save") => client[c].todo # <<>>)
      /\ client[c].todo \in Sendings \cup {<<>>}
  BY ClientParts, Zenon DEF UpsertIInv, UpsertInv, ClientGood
<1>4. /\ doubt \subseteq doubt' /\ doubt' \subseteq Addresses
      /\ ~Lone(c) => Writing(c) \subseteq doubt'
      /\ ClientAt(c, "save") => Head(client[c].todo) \in doubt'
  <2>1. ClientAt(c, "save") => Head(client[c].todo) \in Addresses
    BY <1>3, SendingParts
  <2>2. doubt' = doubt \cup (IF Lone(c) THEN {} ELSE Writing(c))
                       \cup (IF ClientAt(c, "save") THEN {Head(client[c].todo)} ELSE {})
    BY Zenon DEF LetsGo, Lone
  <2>3. doubt \subseteq Addresses
    BY <1>3 DEF UpsertTyped
  <2> QED
    BY <1>3, <2>1, <2>2, <2>3
<1>5. UpsertTyped'
  BY <1>1, <1>3, <1>4, Zenon DEF UpsertTyped
<1>6. \A a \in Addresses : Clear(a)' => Clear(a) /\ ~ (ClientAt(c, "save") /\ Head(client[c].todo) = a)
  <2> SUFFICES ASSUME NEW a \in Addresses, Clear(a)'
               PROVE  Clear(a) /\ ~ (ClientAt(c, "save") /\ Head(client[c].todo) = a)
    OBVIOUS
  <2>1. a \notin doubt'
    BY Zenon DEF Clear
  <2>2. a \notin doubt /\ ~ (ClientAt(c, "save") /\ Head(client[c].todo) = a) /\ (Lone(c) \/ a \notin Writing(c))
    BY <1>4, <2>1
  <2>3. \A d \in Clients \ {c} : Lone(d) \/ a \notin Writing(d)
    <3> SUFFICES ASSUME NEW d \in Clients \ {c} PROVE Lone(d) \/ a \notin Writing(d)
      OBVIOUS
    <3>1. Lone(d)' \/ a \notin Writing(d)'
      BY Zenon DEF Clear
    <3> QED
      BY <1>1, <3>1, Zenon DEF Lone, Writing
  <2> QED
    BY <2>2, <2>3, Zenon DEF Clear
<1>7. NumbersMean'
  <2> SUFFICES ASSUME NEW a \in Addresses, Clear(a)'
               PROVE  /\ \A n \in Numbers : account[n].of = a => n = numbers[a]
                      /\ numbers[a] # 0 => account[numbers[a]].of # "nobody"
                      /\ \A x \in Addresses \ {a} : Clear(x)' /\ numbers[x] = numbers[a] => numbers[a] = 0
    BY Zenon DEF NumbersMean
  <2>1. /\ \A n \in Numbers : account[n].of = a => n = numbers[a] \/ \E d \in Clients : Lone(d) /\ Saving(d, a, n)
        /\ numbers[a] # 0 => account[numbers[a]].of # "nobody"
        /\ \A x \in Addresses \ {a} : Clear(x) /\ numbers[x] = numbers[a] => numbers[a] = 0
    BY <1>6, Zenon DEF UpsertIInv, UpsertInv, NumbersMean
  <2>2. ASSUME NEW d \in Clients, NEW n \in Numbers, Lone(d), Saving(d, a, n) PROVE FALSE
    <3>1. ~ClientAt(d, "off")
      BY <2>2 DEF Saving, ClientAt
    <3>2. d = c
      BY <1>2, <2>2, <3>1, Zenon
    <3> QED
      BY <1>6, <2>2, <3>2, Zenon DEF Saving
  <2> QED
    BY <1>6, <2>1, <2>2, Zenon
<1>8. OthersUnknown'
  BY Zenon DEF UpsertIInv, UpsertInv, OthersUnknown
<1>9. Steps_(c)
  BY <1>1, <1>4, Zenon DEF Steps_
<1> QED
  BY <1>1, <1>5, <1>7, <1>8, <1>9, StepKeeps

(* A process begins; if it is not alone, neither are those it meets.           *)
LEMMA BeginKeeps ==
  ASSUME UpsertIInv, NEW c \in Clients, NEW r \in ClientRecords, r.at \in {"write", "transfer"}, r.wrote = {},
         In(r.todo) \subseteq mine, r.alone, Begins(c, r), UNCHANGED <<mine, numbers, version, account, upsertFaults>>,
         doubt \subseteq doubt', doubt' \subseteq Addresses, upsertEvents' \in 0 .. MaxUpsertEvents,
         r.at = "write" => \A a \in In(r.todo) : r.known[a] = numbers[a],
         r.at = "transfer" => In(r.todo) \subseteq doubt' /\ \A a \in In(r.todo) : r.known[a] \in Numbers
  PROVE  UpsertIInv'
<1> DEFINE busy == {o \in Clients : ~ClientAt(o, "off")}
<1>0. UpsertTyped /\ OneAlone /\ \A d \in Clients : ClientGood(d) /\ LonelyGood(d)
  BY Zenon DEF UpsertIInv, UpsertInv
<1>1. client \in [Clients -> ClientRecords]
  BY <1>0 DEF UpsertTyped
<1>2. PICK q \in ClientRecords : /\ client'[c] = q /\ q.at = r.at /\ q.wrote = {} /\ q.todo = r.todo
                                 /\ q.known = r.known /\ q.got = r.got
  <2>1. client'[c] = [r EXCEPT !.alone = (busy = {})]
    BY Zenon DEF Begins
  <2>2. [r EXCEPT !.alone = (busy = {})] \in ClientRecords
    BY DEF ClientRecords
  <2>3. PICK p \in ClientRecords : p = [r EXCEPT !.alone = (busy = {})]
    BY <2>2
  <2>4. p.at = r.at /\ p.wrote = {} /\ p.todo = r.todo /\ p.known = r.known /\ p.got = r.got
    BY <2>3 DEF ClientRecords
  <2> QED
    BY <2>1, <2>3, <2>4, Zenon
<1>3. Lone(c)' => \A d \in Clients : ClientAt(d, "off")
  <2>1. client'[c] = [r EXCEPT !.alone = (busy = {})]
    BY Zenon DEF Begins
  <2>2. "alone" \in DOMAIN r
    BY DEF ClientRecords
  <2>3. client'[c].alone = (busy = {})
    BY <2>1, <2>2, Zenon
  <2>4. Lone(c)' => busy = {}
    BY <2>3, Zenon DEF Lone
  <2> QED
    BY <2>4
<1>4. \A d \in Clients \ {c} : ClientAt(d, "off") => client'[d] = client[d]
  BY Zenon DEF Begins
<1>5. ASSUME NEW d \in Clients \ {c}, ~ClientAt(d, "off")
      PROVE  /\ client'[d] \in ClientRecords /\ ~Lone(d)' /\ Writing(d)' = Writing(d)
             /\ client'[d].at = client[d].at /\ client'[d].todo = client[d].todo /\ client'[d].wrote = client[d].wrote
             /\ client'[d].known = client[d].known /\ client'[d].got = client[d].got
  <2>1. client'[d] = [client[d] EXCEPT !.alone = FALSE]
    BY <1>5, Zenon DEF Begins
  <2>2. PICK o \in ClientRecords : o = client[d]
    BY <1>1
  <2>3. PICK p \in ClientRecords : p = [o EXCEPT !.alone = FALSE]
    BY DEF ClientRecords
  <2>4. p.at = o.at /\ p.todo = o.todo /\ p.wrote = o.wrote /\ p.known = o.known /\ p.got = o.got
    BY <2>3 DEF ClientRecords
  <2>5. ~p.alone
    <3>1. "alone" \in DOMAIN o
      BY DEF ClientRecords
    <3> QED
      BY <2>3, <3>1, Zenon
  <2>6. client'[d] = p
    BY <2>1, <2>2, <2>3
  <2> QED
    BY <2>2, <2>4, <2>5, <2>6, Zenon DEF Lone, Writing
<1>6. client[c] = NoClient /\ ClientAt(c, "off") /\ client[c].at = "off"
  <2>1. ClientAt(c, "off")
    BY Zenon DEF Begins
  <2> QED
    BY <1>0, <2>1, Zenon DEF ClientGood, ClientAt
<1>7. UpsertTyped'
  <2>1. client' = [o \in Clients |-> client'[o]]
    BY DEF Begins
  <2>2. \A d \in Clients : client'[d] \in ClientRecords
    BY <1>1, <1>2, <1>4, <1>5
  <2>3. client' \in [Clients -> ClientRecords]
    BY <2>1, <2>2
  <2>4. landed' \subseteq Addresses
    BY DEF Begins
  <2> QED
    BY <1>0, <2>3, <2>4, Zenon DEF UpsertTyped
<1>8. Writing(c)' = In(r.todo) /\ ~ClientAt(c, "save")' /\ ~ClientAt(c, "off")'
  BY <1>2 DEF Writing, ClientAt
<1>9. ASSUME NEW d \in Clients PROVE ClientGood(d)'
  <2>1. CASE d = c
    <3>1. client'[c].wrote \cap In(client'[c].todo) = {}
      BY <1>2
    <3>2. Writing(c)' \subseteq mine'
      BY <1>8
    <3>3. ClientAt(c, "transfer")' => r.at = "transfer"
      BY <1>2 DEF ClientAt
    <3>4. client'[c].known = r.known
      BY <1>2
    <3> QED
      BY <1>8, <2>1, <3>1, <3>2, <3>3, <3>4, Zenon DEF ClientGood
  <2>2. CASE d # c /\ ClientAt(d, "off")
    <3>1. PICK p : p = client[d] /\ p = client'[d]
      BY <1>4, <2>2
    <3>2. p = NoClient /\ p.at = "off"
      BY <1>0, <2>2, <3>1, Zenon DEF ClientGood, ClientAt
    <3>3. p.wrote \cup In(p.todo) \subseteq mine' /\ p.wrote \cap In(p.todo) = {}
      BY <3>2, NoClientFacts, NothingLeft
    <3>4. p.at # "save" /\ p.at # "transfer"
      BY <3>2
    <3> QED
      BY <3>1, <3>2, <3>3, <3>4, Zenon DEF ClientGood, ClientAt, Writing
  <2>3. CASE d # c /\ ~ClientAt(d, "off")
    <3>1. /\ Writing(d)' = Writing(d)
          /\ client'[d].at = client[d].at /\ client'[d].todo = client[d].todo /\ client'[d].wrote = client[d].wrote
          /\ client'[d].known = client[d].known /\ client'[d].got = client[d].got
      BY <1>5, <2>3
    <3>2. ClientGood(d)
      BY <1>0
    <3>3. Writing(d) \subseteq doubt => Writing(d) \subseteq doubt'
      OBVIOUS
    <3>4. mine' = mine
      OBVIOUS
    <3> QED
      BY <2>3, <3>1, <3>2, <3>3, <3>4, Zenon DEF ClientGood, ClientAt
  <2> QED
    BY <2>1, <2>2, <2>3
<1>10. ASSUME NEW d \in Clients PROVE LonelyGood(d)'
  <2>1. CASE d = c
    <3>1. \A h, n : ~ Saving(c, h, n)'
      BY <1>8, Zenon DEF Saving
    <3>2. client'[c].todo = r.todo /\ client'[c].wrote = {} /\ client'[c].known = r.known
          /\ (ClientAt(c, "write")' => r.at = "write")
      BY <1>2 DEF ClientAt
    <3>3. numbers' = numbers
      OBVIOUS
    <3> QED
      BY <1>8, <2>1, <3>1, <3>2, <3>3, Zenon DEF LonelyGood
  <2>2. CASE d # c /\ ClientAt(d, "off")
    <3>1. ClientAt(d, "off")'
      BY <1>4, <2>2, Zenon DEF ClientAt
    <3>2. ~ (ClientAt(d, "write")' \/ ClientAt(d, "save")')
      BY <3>1 DEF ClientAt
    <3> QED
      BY <3>2, Zenon DEF LonelyGood
  <2>3. CASE d # c /\ ~ClientAt(d, "off")
    <3>1. ~Lone(d)'
      BY <1>5, <2>3, Zenon
    <3> QED
      BY <3>1, Zenon DEF LonelyGood
  <2> QED
    BY <2>1, <2>2, <2>3
<1>11. OneAlone'
  <2> SUFFICES ASSUME NEW x \in Clients, NEW y \in Clients, x # y, Lone(x)', ~ClientAt(x, "off")'
               PROVE  ClientAt(y, "off")'
    BY Zenon DEF OneAlone
  <2>1. x = c
    <3>1. ASSUME x # c PROVE FALSE
      <4>1. ClientAt(x, "off")
        BY <1>5, <3>1, Zenon
      <4>2. ClientAt(x, "off")'
        BY <1>4, <3>1, <4>1, Zenon DEF ClientAt
      <4> QED
        BY <4>2
    <3> QED
      BY <3>1
  <2>2. ClientAt(y, "off")
    BY <1>3, <2>1, Zenon
  <2> QED
    BY <1>4, <2>1, <2>2, Zenon DEF ClientAt
<1>12. \A a \in Addresses : Clear(a)' => Clear(a)
  <2> SUFFICES ASSUME NEW a \in Addresses, Clear(a)' PROVE Clear(a)
    OBVIOUS
  <2>1. a \notin doubt
    <3>1. a \notin doubt'
      BY Zenon DEF Clear
    <3> QED
      BY <3>1
  <2>2. ASSUME NEW d \in Clients PROVE Lone(d) \/ a \notin Writing(d)
    <3>1. CASE ClientAt(d, "off")
      <4>1. client[d] = NoClient
        BY <1>0, <3>1, Zenon DEF ClientGood
      <4>2. Writing(d) = {}
        BY <4>1, NoClientFacts, NothingLeft DEF Writing
      <4> QED
        BY <4>2
    <3>2. CASE ~ClientAt(d, "off")
      <4>1. d # c
        BY <1>6, <3>2
      <4>2. ~Lone(d)' /\ Writing(d)' = Writing(d)
        BY <1>5, <3>2, <4>1
      <4> QED
        BY <4>2, Zenon DEF Clear
    <3> QED
      BY <3>1, <3>2
  <2> QED
    BY <2>1, <2>2, Zenon DEF Clear
<1>13. NumbersMean'
  <2> SUFFICES ASSUME NEW a \in Addresses, Clear(a)'
               PROVE  /\ \A n \in Numbers : account[n].of = a => n = numbers[a]
                      /\ numbers[a] # 0 => account[numbers[a]].of # "nobody"
                      /\ \A x \in Addresses \ {a} : Clear(x)' /\ numbers[x] = numbers[a] => numbers[a] = 0
    BY Zenon DEF NumbersMean
  <2>1. /\ \A n \in Numbers : account[n].of = a => n = numbers[a] \/ \E d \in Clients : Lone(d) /\ Saving(d, a, n)
        /\ numbers[a] # 0 => account[numbers[a]].of # "nobody"
        /\ \A x \in Addresses \ {a} : Clear(x) /\ numbers[x] = numbers[a] => numbers[a] = 0
    BY <1>12, Zenon DEF UpsertIInv, UpsertInv, NumbersMean
  <2>2. ASSUME NEW d \in Clients, NEW n \in Numbers, Saving(d, a, n) PROVE FALSE
    <3>1. ~ClientAt(d, "off") /\ d # c
      BY <1>6, <2>2 DEF Saving, ClientAt
    <3>2. client[d].todo \in Sendings
      <4>1. client[d].todo # <<>> /\ client[d].todo \in Sendings \cup {<<>>}
        BY <1>0, <2>2, ClientParts, Zenon DEF Saving, ClientGood
      <4> QED
        BY <4>1
    <3>3. a \in In(client[d].todo)
      <4>1. Head(client[d].todo) \in In(client[d].todo)
        BY <3>2, SendingParts
      <4> QED
        BY <2>2, <4>1, Zenon DEF Saving
    <3>4. a \in Writing(d)' /\ ~Lone(d)'
      BY <1>5, <3>1, <3>3 DEF Writing
    <3> QED
      BY <3>4, Zenon DEF Clear
  <2> QED
    BY <1>12, <2>1, <2>2, Zenon
<1>14. OthersUnknown'
  BY Zenon DEF UpsertIInv, UpsertInv, OthersUnknown
<1>15. LandedStands'
  BY DEF Begins, LandedStands
<1> QED
  BY <1>7, <1>9, <1>10, <1>11, <1>13, <1>14, <1>15, Zenon DEF UpsertIInv, UpsertInv

LEMMA StartsUpsertKeeps ==
  ASSUME UpsertIInv, NEW c \in Clients, NEW s \in Sendings, StartsUpsert(c, s)
  PROVE  UpsertIInv'
<1> DEFINE knows == [a \in Addresses |-> IF a \in In(s) THEN numbers[a] ELSE 0]
           saying == [a \in Addresses |-> IF a \in In(s) THEN version[a] ELSE 0]
           was == [a \in Addresses |-> 0]
<1>0. UpsertTyped
  BY DEF UpsertIInv
<1>1. knows \in [Addresses -> 0 .. MaxNumbers] /\ saying \in [Addresses -> Versions]
  <2>1. 0 \in 0 .. MaxNumbers /\ 0 \in Versions
    BY UpsertBounds DEF Versions
  <2> QED
    BY <1>0, <2>1 DEF UpsertTyped
<1>2. NoClient = [at |-> "off", todo |-> <<>>, wrote |-> {}, got |-> 0, alone |-> TRUE, known |-> was, says |-> was]
  BY Zenon DEF NoClient
<1>3. Begins(c, [NoClient EXCEPT !.at = "write", !.todo = s, !.known = knows, !.says = saying])
  BY Zenon DEF StartsUpsert
<1> HIDE DEF knows, saying, was
<1>4. PICK r : r = [NoClient EXCEPT !.at = "write", !.todo = s, !.known = knows, !.says = saying]
  OBVIOUS
<1>5. r = [at |-> "write", todo |-> s, wrote |-> {}, got |-> 0, alone |-> TRUE, known |-> knows, says |-> saying]
  BY <1>2, <1>4
<1>6. r \in ClientRecords
  BY <1>1, <1>5, UpsertBounds DEF ClientRecords
<1>7. r.at = "write" /\ r.todo = s /\ r.wrote = {} /\ r.known = knows
  BY <1>5
<1>8. r.alone
  BY <1>5, Zenon
<1>9. \A a \in In(s) : knows[a] = numbers[a]
  <2>1. In(s) \subseteq Addresses
    BY SendingParts
  <2> QED
    BY <2>1 DEF knows
<1>10. In(s) \subseteq mine /\ UNCHANGED <<mine, numbers, version, account, upsertFaults>>
       /\ doubt' = doubt /\ upsertEvents' = upsertEvents
  BY DEF StartsUpsert
<1>11. doubt \subseteq Addresses /\ upsertEvents \in 0 .. MaxUpsertEvents
  BY <1>0 DEF UpsertTyped
<1>12. Begins(c, r)
  BY <1>3, <1>4
<1>13. r.at \in {"write", "transfer"} /\ r.at # "transfer" /\ In(r.todo) \subseteq mine
       /\ \A a \in In(r.todo) : r.known[a] = numbers[a]
  BY <1>7, <1>9, <1>10
<1> QED
  BY <1>6, <1>7, <1>8, <1>10, <1>11, <1>12, <1>13, BeginKeeps

LEMMA StartsLinkingKeeps ==
  ASSUME UpsertIInv, NEW c \in Clients, NEW s \in Sendings, NEW chosen \in [Addresses -> Numbers], StartsLinking(c, s, chosen)
  PROVE  UpsertIInv'
<1> DEFINE knows == [a \in Addresses |-> IF a \in In(s) THEN chosen[a] ELSE 0]
           was == [a \in Addresses |-> 0]
<1>0. UpsertTyped
  BY DEF UpsertIInv
<1>1. knows \in [Addresses -> 0 .. MaxNumbers] /\ version \in [Addresses -> Versions]
  <2>1. 0 \in 0 .. MaxNumbers /\ Numbers \subseteq 0 .. MaxNumbers
    BY UpsertBounds DEF Numbers
  <2> QED
    BY <1>0, <2>1 DEF UpsertTyped
<1>2. NoClient = [at |-> "off", todo |-> <<>>, wrote |-> {}, got |-> 0, alone |-> TRUE, known |-> was, says |-> was]
  BY Zenon DEF NoClient
<1>3. Begins(c, [NoClient EXCEPT !.at = "transfer", !.todo = s, !.says = version, !.known = knows])
  BY Zenon DEF StartsLinking
<1>9. In(s) \subseteq Addresses /\ \A a \in In(s) : knows[a] \in Numbers
  <2>1. In(s) \subseteq Addresses
    BY SendingParts
  <2> QED
    BY <2>1
<1> HIDE DEF knows, was
<1>4. PICK r : r = [NoClient EXCEPT !.at = "transfer", !.todo = s, !.says = version, !.known = knows]
  OBVIOUS
<1>5. r = [at |-> "transfer", todo |-> s, wrote |-> {}, got |-> 0, alone |-> TRUE, known |-> knows, says |-> version]
  BY <1>2, <1>4
<1>6. r \in ClientRecords
  BY <1>1, <1>5, UpsertBounds DEF ClientRecords
<1>7. r.at = "transfer" /\ r.todo = s /\ r.wrote = {} /\ r.known = knows
  BY <1>5
<1>8. r.alone
  BY <1>5, Zenon
<1>10. In(s) \subseteq mine /\ UNCHANGED <<mine, numbers, version, account, upsertFaults>>
       /\ doubt' = doubt \cup In(s) /\ upsertEvents < MaxUpsertEvents /\ upsertEvents' = upsertEvents + 1
  BY DEF StartsLinking, UpsertEvent
<1>11. doubt' \subseteq Addresses /\ doubt \subseteq doubt' /\ upsertEvents' \in 0 .. MaxUpsertEvents
  BY <1>0, <1>9, <1>10, UpsertBounds DEF UpsertTyped
<1>12. Begins(c, r)
  BY <1>3, <1>4
<1>13. r.at \in {"write", "transfer"} /\ r.at # "write" /\ In(r.todo) \subseteq mine /\ In(r.todo) \subseteq doubt'
       /\ \A a \in In(r.todo) : r.known[a] \in Numbers
  BY <1>7, <1>9, <1>10
<1> QED
  BY <1>6, <1>7, <1>8, <1>10, <1>11, <1>12, <1>13, BeginKeeps

LEMMA AddressRefusedKeeps ==
  ASSUME UpsertIInv, NEW c \in Clients, AddressRefused(c)
  PROVE  UpsertIInv'
<1>1. ~ClientAt(c, "off") /\ LetsGo(c) /\ UNCHANGED <<mine, numbers, version, account, landed, upsertEvents, upsertFaults>>
  BY DEF AddressRefused, ClientAt
<1>2. upsertFaults' \in 0 .. MaxUpsertFaults /\ landed' \subseteq Addresses
  BY <1>1 DEF UpsertIInv, UpsertTyped
<1>3. LandedStands'
  BY <1>1, NothingLanded
<1> QED
  BY <1>1, <1>2, <1>3, LetsGoKeeps

LEMMA ClientBreaksKeeps ==
  ASSUME UpsertIInv, NEW c \in Clients, ClientBreaks(c)
  PROVE  UpsertIInv'
<1>1. ~ClientAt(c, "off") /\ LetsGo(c) /\ UNCHANGED <<mine, numbers, version, account, landed, upsertEvents>>
      /\ upsertFaults < MaxUpsertFaults /\ upsertFaults' = upsertFaults + 1
  BY DEF ClientBreaks
<1>2. upsertFaults' \in 0 .. MaxUpsertFaults /\ landed' \subseteq Addresses
  BY <1>1, UpsertBounds DEF UpsertIInv, UpsertTyped
<1>3. LandedStands'
  BY <1>1, NothingLanded
<1> QED
  BY <1>1, <1>2, <1>3, LetsGoKeeps

LEMMA EndsUpsertKeeps ==
  ASSUME UpsertIInv, NEW c \in Clients, EndsUpsert(c)
  PROVE  UpsertIInv'
<1>1. /\ ClientAt(c, "write") /\ client[c].todo = <<>> /\ LetsGo(c)
      /\ UNCHANGED <<mine, numbers, version, account, upsertEvents, upsertFaults>>
      /\ landed' = IF Lone(c) /\ \A a \in Writing(c) : client[c].says[a] = version[a] THEN Writing(c) ELSE {}
  BY Zenon DEF EndsUpsert, Lone
<1>2. ~ClientAt(c, "off") /\ ~ClientAt(c, "save")
  BY <1>1 DEF ClientAt
<1>3. Writing(c) \subseteq Addresses /\ Writing(c) = client[c].wrote
  BY <1>1, ClientParts, NothingLeft DEF UpsertIInv, Writing
<1>4. upsertFaults' \in 0 .. MaxUpsertFaults /\ landed' \subseteq Addresses
  BY <1>1, <1>3 DEF UpsertIInv, UpsertTyped
<1>5. LandedStands'
  <2>1. CASE landed' = {}
    BY <2>1, Zenon DEF LandedStands
  <2>2. CASE landed' # {}
    <3>1. Lone(c) /\ (\A a \in Writing(c) : client[c].says[a] = version[a]) /\ landed' = client[c].wrote
      BY <1>1, <1>3, <2>2, Zenon
    <3>2. \A d \in Clients \ {c} : ClientAt(d, "off")
      BY <1>2, <3>1, BusyFacts DEF UpsertIInv
    <3>3. ClientAt(c, "off")' /\ \A d \in Clients \ {c} : client'[d] = client[d]
      BY <1>1, ClientGone DEF LetsGo
    <3>4. \A d \in Clients : ClientAt(d, "off")'
      BY <3>2, <3>3, Zenon DEF ClientAt
    <3>5. \A a \in client[c].wrote :
             numbers[a] # 0 /\ (~Over(c, a) => account[numbers[a]] = Card(a, client[c].says[a]))
      BY <1>1, <3>1, Zenon DEF UpsertIInv, UpsertInv, LonelyGood
    <3>6. ASSUME NEW a \in landed'
          PROVE  numbers[a] # 0 /\ ((\A x \in landed' \ {a} : numbers[x] # numbers[a]) => account[numbers[a]] = Card(a, version[a]))
      <4>1. a \in client[c].wrote /\ client[c].says[a] = version[a]
        BY <1>3, <3>1
      <4>2. (\A x \in landed' \ {a} : numbers[x] # numbers[a]) => ~Over(c, a)
        BY <1>2, <3>1, Zenon DEF Over
      <4> QED
        BY <3>5, <4>1, <4>2, Zenon
    <3> QED
      BY <1>1, <3>4, <3>6, Zenon DEF LandedStands
  <2> QED
    BY <2>1, <2>2
<1> QED
  BY <1>1, <1>2, <1>4, <1>5, LetsGoKeeps

LEMMA OffFacts ==
  ASSUME UpsertIInv, NEW c \in Clients, ClientAt(c, "off")
  PROVE  client[c] = NoClient /\ Writing(c) = {}
<1>1. client[c] = NoClient
  BY Zenon DEF UpsertIInv, UpsertInv, ClientGood
<1> QED
  BY <1>1, NoClientFacts, NothingLeft DEF Writing

(* What a process is about to write: clear of doubt just where it is alone.    *)
LEMMA HeadFacts ==
  ASSUME UpsertIInv, NEW c \in Clients, ~ClientAt(c, "off"), client[c].todo # <<>>
  PROVE  LET h == Head(client[c].todo)
         IN /\ client[c].todo \in Sendings /\ h \in Addresses /\ h \in mine /\ h \in In(client[c].todo)
            /\ h \in Writing(c)
            /\ ~Lone(c) => ~Clear(h)
            /\ Lone(c) /\ h \notin doubt => Clear(h)
<1> DEFINE h == Head(client[c].todo)
<1>1. client[c].todo \in Sendings
  BY ClientParts DEF UpsertIInv
<1>2. h \in In(client[c].todo) /\ h \in Addresses
  BY <1>1, SendingParts
<1>3. h \in Writing(c)
  BY <1>2 DEF Writing
<1>4. h \in mine
  <2>1. Writing(c) \subseteq mine
    BY Zenon DEF UpsertIInv, UpsertInv, ClientGood
  <2> QED
    BY <1>3, <2>1
<1>5. ~Lone(c) => ~Clear(h)
  BY <1>3, Zenon DEF Clear
<1>6. ASSUME Lone(c), h \notin doubt PROVE Clear(h)
  <2>1. \A d \in Clients \ {c} : Writing(d) = {}
    BY <1>6, BusyFacts, OffFacts DEF UpsertIInv
  <2>2. \A d \in Clients : Lone(d) \/ h \notin Writing(d)
    <3> SUFFICES ASSUME NEW d \in Clients PROVE Lone(d) \/ h \notin Writing(d)
      OBVIOUS
    <3>1. CASE d = c
      BY <1>6, <3>1, Zenon
    <3>2. CASE d # c
      <4>1. h \notin Writing(d)
        BY <2>1, <3>2
      <4> QED
        BY <4>1
    <3> QED
      BY <3>1, <3>2
  <2> QED
    BY <1>6, <2>2, Zenon DEF Clear
<1> HIDE DEF h
<1>7. /\ client[c].todo \in Sendings /\ h \in Addresses /\ h \in mine /\ h \in In(client[c].todo)
      /\ h \in Writing(c)
      /\ ~Lone(c) => ~Clear(h)
      /\ Lone(c) /\ h \notin doubt => Clear(h)
  BY <1>1, <1>2, <1>3, <1>4, <1>5, <1>6, Zenon
<1> QED
  BY <1>7, Zenon DEF h

LEMMA WritesAddressKeeps ==
  ASSUME UpsertIInv, NEW c \in Clients, NEW n \in Numbers, WritesAddress(c, n)
  PROVE  UpsertIInv'
<1>0. /\ UpsertTyped /\ NumbersMean /\ OthersUnknown /\ ClientGood(c) /\ LonelyGood(c)
      /\ client \in [Clients -> ClientRecords]
  BY Zenon DEF UpsertIInv, UpsertInv, UpsertTyped
<1>1. PICK h : h = Head(client[c].todo)
  OBVIOUS
<1>2. PICK o \in ClientRecords : o = client[c]
  BY <1>0
<1>3. /\ ClientAt(c, "write") /\ o.todo # <<>> /\ Takes(c, h, n) /\ account' = [account EXCEPT ![n] = Card(h, o.says[h])]
      /\ client' = [client EXCEPT ![c].at = "save", ![c].got = n]
      /\ UNCHANGED <<mine, numbers, version, landed, doubt, upsertEvents, upsertFaults>>
  BY <1>1, <1>2, Zenon DEF WritesAddress
<1>4. ~ClientAt(c, "off") /\ ~ClientAt(c, "save") /\ o.at = "write"
  BY <1>2, <1>3 DEF ClientAt
<1>5. /\ o.todo \in Sendings /\ h \in Addresses /\ h \in mine /\ h \in In(o.todo) /\ h \in Writing(c)
      /\ ~Lone(c) => ~Clear(h)
      /\ Lone(c) /\ h \notin doubt => Clear(h)
  BY <1>1, <1>2, <1>3, <1>4, HeadFacts
<1>6. PICK q \in ClientRecords : /\ client'[c] = q /\ q.at = "save" /\ q.got = n /\ q.todo = o.todo /\ q.wrote = o.wrote
                                 /\ q.known = o.known /\ q.says = o.says
  <2>1. client' = [client EXCEPT ![c] = [@ EXCEPT !.at = "save", !.got = n]]
    BY <1>3
  <2>2. client'[c] = [o EXCEPT !.at = "save", !.got = n]
    BY <1>0, <1>2, <2>1
  <2>3. n \in 0 .. MaxNumbers
    BY UpsertBounds DEF Numbers
  <2>4. PICK p \in ClientRecords : p = [o EXCEPT !.at = "save", !.got = n]
    BY <2>3 DEF ClientRecords
  <2>5. p.at = "save" /\ p.got = n /\ p.todo = o.todo /\ p.wrote = o.wrote /\ p.known = o.known /\ p.says = o.says
    BY <2>4 DEF ClientRecords
  <2> QED
    BY <2>2, <2>4, <2>5, Zenon
<1>7. Lone(c)' <=> Lone(c)
  <2>1. client' = [client EXCEPT ![c] = [@ EXCEPT !.at = "save", !.got = n]]
    BY <1>3
  <2>2. client'[c] = [o EXCEPT !.at = "save", !.got = n]
    BY <1>0, <1>2, <2>1
  <2>3. "alone" \in DOMAIN o
    BY <1>2 DEF ClientRecords
  <2>4. client'[c].alone = o.alone
    BY <2>2, <2>3, Zenon
  <2> QED
    BY <1>2, <2>4, Zenon DEF Lone
<1>8. \A d \in Clients \ {c} : client'[d] = client[d]
  BY <1>0, <1>3
<1>9. client' \in [Clients -> ClientRecords]
  <2>1. DOMAIN client' = Clients /\ client' = [d \in Clients |-> client'[d]]
    BY <1>0, <1>3
  <2>2. \A d \in Clients : client'[d] \in ClientRecords
    BY <1>0, <1>6, <1>8
  <2> QED
    BY <2>1, <2>2
<1>10. PICK k : k = Card(h, o.says[h])
  OBVIOUS
<1>11. k \in Cards /\ k.of = h /\ k.of # "nobody"
  <2>1. o.says[h] \in Versions
    BY <1>5 DEF ClientRecords
  <2> QED
    BY <1>5, <1>10, <2>1, CardFacts
<1>12. account' \in [Numbers -> Cards] /\ account'[n] = k /\ \A m \in Numbers \ {n} : account'[m] = account[m]
  BY <1>0, <1>3, <1>10, <1>11 DEF UpsertTyped
<1>13. UpsertTyped'
  BY <1>0, <1>3, <1>9, <1>12, Zenon DEF UpsertTyped
<1>14. Writing(c)' = Writing(c) /\ \A d \in Clients \ {c} : Writing(d)' = Writing(d) /\ (Lone(d)' <=> Lone(d))
  <2>1. Writing(c)' = Writing(c)
    BY <1>2, <1>6, Zenon DEF Writing
  <2>2. ASSUME NEW d \in Clients \ {c} PROVE Writing(d)' = Writing(d) /\ (Lone(d)' <=> Lone(d))
    BY <1>8, Zenon DEF Writing, Lone
  <2> QED
    BY <2>1, <2>2
<1>15. \A a : Clear(a)' <=> Clear(a)
  BY <1>3, <1>7, <1>14, Zenon DEF Clear
<1>16. ClientAt(c, "save")' /\ ~ClientAt(c, "off")' /\ ~ClientAt(c, "transfer")'
  BY <1>6 DEF ClientAt
<1>17. ClientGood(c)'
  <2>1. client'[c].todo # <<>> /\ client'[c].got \in Numbers
    BY <1>3, <1>6
  <2>2. Writing(c) \subseteq mine /\ o.wrote \cap In(o.todo) = {}
    BY <1>0, <1>2, Zenon DEF ClientGood
  <2>3. Writing(c)' \subseteq mine' /\ client'[c].wrote \cap In(client'[c].todo) = {}
    BY <1>3, <1>6, <1>14, <2>2
  <2> QED
    BY <1>16, <2>1, <2>3, Zenon DEF ClientGood
<1>18. ASSUME NEW a \in Addresses, NEW m \in Numbers PROVE Saving(c, a, m)' <=> a = h /\ m = n
  BY <1>1, <1>2, <1>6, <1>16, Zenon DEF Saving
<1>19. LonelyGood(c)'
  <2> SUFFICES ASSUME Lone(c)
               PROVE  /\ \A a \in In(client'[c].todo) : client'[c].known[a] = numbers'[a]
                      /\ \A a \in client'[c].wrote :
                           numbers'[a] # 0 /\ (~Over(c, a)' => account'[numbers'[a]] = Card(a, client'[c].says[a]))
                      /\ \A b \in Addresses, m \in Numbers : Saving(c, b, m)' =>
                           /\ account'[m] = Card(b, client'[c].says[b])
                           /\ client'[c].known[b] # 0 => m = client'[c].known[b]
                           /\ b \notin doubt' => \A x \in Addresses \ {b} : Clear(x)' => numbers'[x] # m
    BY <1>7, Zenon DEF LonelyGood
  <2>1. /\ \A a \in In(o.todo) : o.known[a] = numbers[a]
        /\ \A a \in o.wrote :
             numbers[a] # 0 /\ (~Over(c, a) => account[numbers[a]] = Card(a, o.says[a]))
    BY <1>0, <1>2, <1>3, Zenon DEF LonelyGood
  <2>2. ASSUME NEW a \in o.wrote, ~Over(c, a)' PROVE account'[numbers[a]] = Card(a, o.says[a])
    <3>1. (\A x \in o.wrote \ {a} : numbers[x] # numbers[a]) /\ numbers[a] # n
      BY <1>3, <1>6, <1>16, <2>2, Zenon DEF Over
    <3>2. ~Over(c, a)
      BY <1>2, <1>4, <3>1, Zenon DEF Over
    <3>3. numbers[a] \in Numbers
      <4>1. a \in Addresses /\ numbers[a] # 0
        BY <2>1, <2>2 DEF ClientRecords
      <4>2. numbers[a] \in 0 .. MaxNumbers
        BY <1>0, <4>1 DEF UpsertTyped
      <4> QED
        BY <4>1, <4>2, UpsertBounds DEF Numbers
    <3> QED
      BY <1>12, <2>1, <3>1, <3>2, <3>3, Zenon
  <2>3. n # 0
    BY UpsertBounds DEF Numbers
  <2>4. o.known[h] # 0 => n = o.known[h]
    BY <1>2, <1>3, Zenon DEF Takes
  <2>5. o.known[h] = 0 => account[n] = NoCard
    BY <1>2, <1>3, Zenon DEF Takes
  <2>6. ASSUME h \notin doubt, NEW x \in Addresses \ {h}, Clear(x), numbers[x] = n PROVE FALSE
    <3>1. Clear(h)
      BY <1>5, <2>6, Zenon
    <3>2. /\ numbers[x] # 0 => account[numbers[x]].of # "nobody"
          /\ numbers[x] = numbers[h] => numbers[h] = 0
      BY <1>0, <1>5, <2>6, <3>1, Zenon DEF NumbersMean
    <3>3. o.known[h] = numbers[h]
      BY <1>5, <2>1
    <3> QED
      BY <2>3, <2>4, <2>5, <2>6, <3>2, <3>3, CardFacts
  <2>7. \A a \in In(client'[c].todo) : client'[c].known[a] = numbers'[a]
    BY <1>3, <1>6, <2>1, Zenon
  <2>8. \A a \in client'[c].wrote :
          numbers'[a] # 0 /\ (~Over(c, a)' => account'[numbers'[a]] = Card(a, client'[c].says[a]))
    BY <1>3, <1>6, <2>1, <2>2, Zenon
  <2>9. \A b \in Addresses, m \in Numbers : Saving(c, b, m)' =>
          /\ account'[m] = Card(b, client'[c].says[b])
          /\ client'[c].known[b] # 0 => m = client'[c].known[b]
          /\ b \notin doubt' => \A x \in Addresses \ {b} : Clear(x)' => numbers'[x] # m
    <3> SUFFICES ASSUME NEW b \in Addresses, NEW m \in Numbers, Saving(c, b, m)'
                 PROVE  /\ account'[m] = Card(b, client'[c].says[b])
                        /\ client'[c].known[b] # 0 => m = client'[c].known[b]
                        /\ b \notin doubt' => \A x \in Addresses \ {b} : Clear(x)' => numbers'[x] # m
      BY Zenon
    <3>1. b = h /\ m = n
      BY <1>18
    <3> QED
      BY <1>3, <1>6, <1>10, <1>12, <1>15, <2>4, <2>6, <3>1, Zenon
  <2> QED
    BY <2>7, <2>8, <2>9, Zenon
<1>20. NumbersMean'
  <2> SUFFICES ASSUME NEW a \in Addresses, Clear(a)
               PROVE  /\ \A m \in Numbers : account'[m].of = a => m = numbers[a] \/ \E d \in Clients : Lone(d)' /\ Saving(d, a, m)'
                      /\ numbers[a] # 0 => account'[numbers[a]].of # "nobody"
                      /\ \A x \in Addresses \ {a} : Clear(x) /\ numbers[x] = numbers[a] => numbers[a] = 0
    BY <1>3, <1>15, Zenon DEF NumbersMean
  <2>1. /\ \A m \in Numbers : account[m].of = a => m = numbers[a] \/ \E d \in Clients : Lone(d) /\ Saving(d, a, m)
        /\ numbers[a] # 0 => account[numbers[a]].of # "nobody"
        /\ \A x \in Addresses \ {a} : Clear(x) /\ numbers[x] = numbers[a] => numbers[a] = 0
    BY <1>0, Zenon DEF NumbersMean
  <2>2. ASSUME NEW m \in Numbers, account'[m].of = a
        PROVE  m = numbers[a] \/ \E d \in Clients : Lone(d)' /\ Saving(d, a, m)'
    <3>1. CASE m = n
      <4>1. a = h
        BY <1>11, <1>12, <2>2, <3>1
      <4>2. Lone(c)
        BY <1>5, <4>1, Zenon
      <4> QED
        BY <1>7, <1>18, <3>1, <4>1, <4>2, Zenon
    <3>2. CASE m # n
      <4>1. account[m].of = a
        BY <1>12, <2>2, <3>2
      <4>2. ASSUME NEW d \in Clients, Lone(d), Saving(d, a, m) PROVE Lone(d)' /\ Saving(d, a, m)'
        <5>1. d # c
          BY <1>4, <4>2, Zenon DEF Saving
        <5> QED
          BY <1>8, <4>2, <5>1, Zenon DEF Saving, Lone, ClientAt
      <4> QED
        BY <2>1, <4>1, <4>2, Zenon
    <3> QED
      BY <3>1, <3>2
  <2>3. numbers[a] # 0 => account'[numbers[a]].of # "nobody"
    <3>1. numbers[a] \in 0 .. MaxNumbers
      BY <1>0 DEF UpsertTyped
    <3>2. numbers[a] # 0 => numbers[a] \in Numbers
      BY <3>1, UpsertBounds DEF Numbers
    <3> QED
      BY <1>11, <1>12, <2>1, <3>2, Zenon
  <2> QED
    BY <2>1, <2>2, <2>3, Zenon
<1>21. OthersUnknown'
  <2>1. \A a \in Addresses \ mine : numbers[a] = 0 /\ \A m \in Numbers : account[m].of # a
    BY <1>0, Zenon DEF OthersUnknown
  <2>2. \A a \in Addresses \ mine : a # h
    BY <1>5
  <2> QED
    BY <1>3, <1>11, <1>12, <2>1, <2>2, Zenon DEF OthersUnknown
<1>22. LandedStands'
  BY <1>3, <1>4, NothingLanded
<1>23. Steps_(c)
  <2>1. doubt \subseteq doubt' /\ mine' = mine
    BY <1>3
  <2> QED
    BY <1>4, <1>7, <1>8, <2>1, Zenon DEF Steps_
<1> QED
  BY <1>13, <1>17, <1>19, <1>20, <1>21, <1>22, <1>23, StepKeeps

LEMMA SavesNumberKeeps ==
  ASSUME UpsertIInv, NEW c \in Clients, SavesNumber(c)
  PROVE  UpsertIInv'
<1>0. /\ UpsertTyped /\ NumbersMean /\ OthersUnknown /\ ClientGood(c) /\ LonelyGood(c)
      /\ client \in [Clients -> ClientRecords]
  BY Zenon DEF UpsertIInv, UpsertInv, UpsertTyped
<1>1. PICK h : h = Head(client[c].todo)
  OBVIOUS
<1>2. PICK o \in ClientRecords : o = client[c]
  BY <1>0
<1>3. /\ ClientAt(c, "save") /\ numbers' = IF o.known[h] = o.got THEN numbers ELSE [numbers EXCEPT ![h] = o.got]
      /\ client' = [client EXCEPT ![c].at = "write", ![c].todo = Tail(@), ![c].got = 0,
                                    ![c].known[h] = 0, ![c].wrote = @ \cup {h}]
      /\ UNCHANGED <<mine, version, account, landed, doubt, upsertEvents, upsertFaults>>
  BY <1>1, <1>2, Zenon DEF SavesNumber
<1>4. ~ClientAt(c, "off") /\ o.at = "save" /\ o.todo # <<>> /\ o.got \in Numbers
  <2>1. client[c].todo # <<>> /\ client[c].got \in Numbers
    BY <1>0, <1>3, Zenon DEF ClientGood
  <2> QED
    BY <1>2, <1>3, <2>1 DEF ClientAt
<1>5. /\ o.todo \in Sendings /\ h \in Addresses /\ h \in mine /\ h \in In(o.todo) /\ h \in Writing(c)
      /\ ~Lone(c) => ~Clear(h)
      /\ Lone(c) /\ h \notin doubt => Clear(h)
  BY <1>1, <1>2, <1>4, HeadFacts
<1>6. PICK q \in ClientRecords : /\ client'[c] = q /\ q.at = "write" /\ q.todo = Tail(o.todo) /\ q.wrote = o.wrote \cup {h}
                                 /\ q.known = [o.known EXCEPT ![h] = 0] /\ q.says = o.says
  <2>2. client'[c] = [o EXCEPT !.at = "write", !.todo = Tail(o.todo), !.got = 0,
                               !.known = [o.known EXCEPT ![h] = 0], !.wrote = o.wrote \cup {h}]
    BY <1>0, <1>2, <1>3, <1>5 DEF ClientRecords
  <2>3. 0 \in 0 .. MaxNumbers /\ Tail(o.todo) \in Sendings \cup {<<>>} /\ o.wrote \cup {h} \subseteq Addresses
    BY <1>5, SendingParts, UpsertBounds DEF ClientRecords
  <2>4. PICK k : k = [o.known EXCEPT ![h] = 0]
    OBVIOUS
  <2>5. k \in [Addresses -> 0 .. MaxNumbers]
    BY <2>3, <2>4 DEF ClientRecords
  <2>6. PICK t : t = Tail(o.todo)
    OBVIOUS
  <2>7. client'[c] = [o EXCEPT !.at = "write", !.todo = t, !.got = 0, !.known = k, !.wrote = o.wrote \cup {h}]
    BY <2>2, <2>4, <2>6, Zenon
  <2>8. PICK p \in ClientRecords : p = [o EXCEPT !.at = "write", !.todo = t, !.got = 0, !.known = k, !.wrote = o.wrote \cup {h}]
    BY <2>3, <2>5, <2>6 DEF ClientRecords
  <2>9. p.at = "write" /\ p.todo = t /\ p.wrote = o.wrote \cup {h} /\ p.known = k /\ p.says = o.says
    BY <2>8 DEF ClientRecords
  <2> QED
    BY <2>4, <2>6, <2>7, <2>8, <2>9, Zenon
<1>7. Lone(c)' <=> Lone(c)
  <2>2. client'[c] = [o EXCEPT !.at = "write", !.todo = Tail(o.todo), !.got = 0,
                               !.known = [o.known EXCEPT ![h] = 0], !.wrote = o.wrote \cup {h}]
    BY <1>0, <1>2, <1>3, <1>5 DEF ClientRecords
  <2>3. "alone" \in DOMAIN o
    BY <1>2 DEF ClientRecords
  <2>4. client'[c].alone = o.alone
    BY <2>2, <2>3, Zenon
  <2> QED
    BY <1>2, <2>4, Zenon DEF Lone
<1>8. \A d \in Clients \ {c} : client'[d] = client[d]
  BY <1>0, <1>3
<1>9. client' \in [Clients -> ClientRecords]
  <2>1. DOMAIN client' = Clients /\ client' = [d \in Clients |-> client'[d]]
    BY <1>0, <1>3
  <2>2. \A d \in Clients : client'[d] \in ClientRecords
    BY <1>0, <1>6, <1>8
  <2> QED
    BY <2>1, <2>2
<1>10. numbers' \in [Addresses -> 0 .. MaxNumbers] /\ \A x \in Addresses \ {h} : numbers'[x] = numbers[x]
  <2>1. o.got \in 0 .. MaxNumbers /\ numbers \in [Addresses -> 0 .. MaxNumbers]
    BY <1>0 DEF ClientRecords, UpsertTyped
  <2> QED
    BY <1>3, <1>5, <2>1
<1>11. o.known[h] = numbers[h] => numbers'[h] = o.got
  <2>1. numbers \in [Addresses -> 0 .. MaxNumbers]
    BY <1>0 DEF UpsertTyped
  <2> QED
    BY <1>3, <1>5, <2>1
<1>12. In(q.todo) = In(o.todo) \ {h}
  BY <1>1, <1>2, <1>5, <1>6, SendingParts
<1>13. UpsertTyped'
  BY <1>0, <1>3, <1>9, <1>10, Zenon DEF UpsertTyped
<1>14. Writing(c)' = Writing(c) /\ \A d \in Clients \ {c} : Writing(d)' = Writing(d) /\ (Lone(d)' <=> Lone(d))
  <2>1. q.wrote \cup In(q.todo) = o.wrote \cup In(o.todo)
    BY <1>5, <1>6, <1>12
  <2>2. Writing(c)' = Writing(c)
    BY <1>2, <1>6, <2>1, Zenon DEF Writing
  <2>3. ASSUME NEW d \in Clients \ {c} PROVE Writing(d)' = Writing(d) /\ (Lone(d)' <=> Lone(d))
    BY <1>8, Zenon DEF Writing, Lone
  <2> QED
    BY <2>2, <2>3
<1>15. \A a : Clear(a)' <=> Clear(a)
  BY <1>3, <1>7, <1>14, Zenon DEF Clear
<1>16. ClientAt(c, "write")' /\ ~ClientAt(c, "save")' /\ ~ClientAt(c, "off")' /\ ~ClientAt(c, "transfer")'
  BY <1>6 DEF ClientAt
<1>17. Writing(c) \subseteq mine /\ o.wrote \cap In(o.todo) = {} /\ h \notin o.wrote
  <2>1. Writing(c) \subseteq mine /\ o.wrote \cap In(o.todo) = {}
    BY <1>0, <1>2, Zenon DEF ClientGood
  <2> QED
    BY <1>5, <2>1
<1>18. ClientGood(c)'
  <2>1. Writing(c)' \subseteq mine' /\ client'[c].wrote \cap In(client'[c].todo) = {}
    BY <1>3, <1>6, <1>12, <1>14, <1>17
  <2> QED
    BY <1>16, <2>1, Zenon DEF ClientGood
<1>19. ASSUME Lone(c)
       PROVE  /\ \A a \in In(o.todo) : o.known[a] = numbers[a]
              /\ \A a \in o.wrote :
                   numbers[a] # 0 /\ (~Over(c, a) => account[numbers[a]] = Card(a, o.says[a]))
              /\ account[o.got] = Card(h, o.says[h])
              /\ o.known[h] # 0 => o.got = o.known[h]
              /\ h \notin doubt => \A x \in Addresses \ {h} : Clear(x) => numbers[x] # o.got
              /\ numbers'[h] = o.got
  <2>1. Saving(c, h, o.got)
    BY <1>1, <1>2, <1>3, Zenon DEF Saving
  <2>2. /\ \A a \in In(o.todo) : o.known[a] = numbers[a]
        /\ \A a \in o.wrote :
             numbers[a] # 0 /\ (~Over(c, a) => account[numbers[a]] = Card(a, o.says[a]))
        /\ account[o.got] = Card(h, o.says[h])
        /\ o.known[h] # 0 => o.got = o.known[h]
        /\ h \notin doubt => \A x \in Addresses \ {h} : Clear(x) => numbers[x] # o.got
    BY <1>0, <1>2, <1>3, <1>4, <1>5, <1>19, <2>1, Zenon DEF LonelyGood
  <2> QED
    BY <1>5, <1>11, <2>2, Zenon
<1>20. o.got # 0
  BY <1>4, UpsertBounds DEF Numbers
<1>21. o.wrote \subseteq Addresses /\ In(o.todo) \subseteq Addresses
  BY <1>5, SendingParts DEF ClientRecords
<1>22. LonelyGood(c)'
  <2> SUFFICES ASSUME Lone(c)
               PROVE  /\ \A a \in In(client'[c].todo) : client'[c].known[a] = numbers'[a]
                      /\ \A a \in client'[c].wrote :
                           numbers'[a] # 0 /\ (~Over(c, a)' => account'[numbers'[a]] = Card(a, client'[c].says[a]))
    BY <1>7, <1>16, Zenon DEF LonelyGood, Saving
  <2>1. \A a \in In(q.todo) : q.known[a] = numbers'[a]
    <3> SUFFICES ASSUME NEW a \in In(q.todo) PROVE q.known[a] = numbers'[a]
      OBVIOUS
    <3>1. a \in In(o.todo) /\ a # h /\ a \in Addresses
      BY <1>12, <1>21
    <3>2. q.known[a] = o.known[a]
      <4>1. o.known \in [Addresses -> 0 .. MaxNumbers]
        BY DEF ClientRecords
      <4>2. PICK k : k = q.known
        OBVIOUS
      <4>3. k = [o.known EXCEPT ![h] = 0]
        BY <1>6, <4>2
      <4> QED
        BY <3>1, <4>1, <4>2, <4>3
    <3> QED
      BY <1>10, <1>19, <3>1, <3>2, Zenon
  <2>2. ASSUME NEW a \in o.wrote
        PROVE  numbers'[a] # 0 /\ (~Over(c, a)' => account'[numbers'[a]] = Card(a, o.says[a]))
    <3>1. a # h /\ a \in Addresses /\ numbers'[a] = numbers[a]
      BY <1>10, <1>17, <1>21
    <3>2. ASSUME ~Over(c, a)' PROVE ~Over(c, a)
      <4>1. \A x \in o.wrote \cup {h} : x # a => numbers'[x] # numbers'[a]
        BY <1>6, <3>2, Zenon DEF Over
      <4>2. numbers'[h] = o.got
        BY <1>19
      <4>3. o.got # numbers[a]
        BY <3>1, <4>1, <4>2
      <4>4. \A x \in o.wrote \ {a} : numbers[x] # numbers[a]
        BY <1>10, <1>17, <1>21, <3>1, <4>1
      <4> QED
        BY <1>2, <4>3, <4>4, Zenon DEF Over
    <3> QED
      BY <1>3, <1>19, <3>1, <3>2, Zenon
  <2>3. numbers'[h] # 0 /\ account'[numbers'[h]] = Card(h, o.says[h])
    BY <1>3, <1>19, <1>20, Zenon
  <2>4. \A a \in client'[c].wrote : a \in o.wrote \/ a = h
    BY <1>6
  <2> QED
    BY <1>6, <2>1, <2>2, <2>3, <2>4, Zenon
<1>23. \A d \in Clients \ {c} : (Lone(d) => ClientAt(d, "off")) /\ (Lone(c) => ClientAt(d, "off"))
  BY <1>4, BusyFacts DEF UpsertIInv
<1>24. ASSUME NEW d \in Clients, NEW a, NEW m, Lone(d), Saving(d, a, m) PROVE d = c /\ Lone(c) /\ a = h /\ m = o.got
  <2>1. ~ClientAt(d, "off")
    BY <1>24 DEF Saving, ClientAt
  <2>2. d = c
    BY <1>23, <1>24, <2>1, Zenon
  <2> QED
    BY <1>1, <1>2, <1>24, <2>2, Zenon DEF Saving
<1>25. NumbersMean'
  <2> SUFFICES ASSUME NEW a \in Addresses, Clear(a)
               PROVE  /\ \A m \in Numbers : account[m].of = a => m = numbers'[a]
                      /\ numbers'[a] # 0 => account[numbers'[a]].of # "nobody"
                      /\ \A x \in Addresses \ {a} : Clear(x) /\ numbers'[x] = numbers'[a] => numbers'[a] = 0
    BY <1>3, <1>15, Zenon DEF NumbersMean
  <2>1. /\ \A m \in Numbers : account[m].of = a => m = numbers[a] \/ \E d \in Clients : Lone(d) /\ Saving(d, a, m)
        /\ numbers[a] # 0 => account[numbers[a]].of # "nobody"
        /\ \A x \in Addresses \ {a} : Clear(x) /\ numbers[x] = numbers[a] => numbers[a] = 0
    BY <1>0, Zenon DEF NumbersMean
  <2>2. \A m \in Numbers : account[m].of = a => m = numbers[a] \/ (Lone(c) /\ a = h /\ m = o.got)
    BY <1>24, <2>1, Zenon
  <2>3. CASE a # h
    <3>1. numbers'[a] = numbers[a]
      BY <1>10, <2>3
    <3>2. ASSUME NEW x \in Addresses \ {a}, Clear(x), numbers'[x] = numbers[a] PROVE numbers[a] = 0
      <4>1. CASE x = h
        <5>1. Lone(c)
          BY <1>5, <3>2, <4>1, Zenon
        <5>2. h \notin doubt
          BY <3>2, <4>1, Zenon DEF Clear
        <5>3. numbers[a] # o.got /\ numbers'[h] = o.got
          BY <1>19, <2>3, <5>1, <5>2
        <5> QED
          BY <3>2, <4>1, <5>3
      <4>2. CASE x # h
        <5>1. numbers'[x] = numbers[x]
          BY <1>10, <4>2
        <5> QED
          BY <2>1, <3>2, <5>1, Zenon
      <4> QED
        BY <4>1, <4>2
    <3> QED
      BY <2>1, <2>2, <2>3, <3>1, <3>2, Zenon
  <2>4. CASE a = h
    <3>1. Lone(c)
      BY <1>5, <2>4, Zenon
    <3>2. h \notin doubt
      BY <2>4, Zenon DEF Clear
    <3>3. numbers'[h] = o.got /\ account[o.got] = Card(h, o.says[h]) /\ (o.known[h] # 0 => o.got = o.known[h])
          /\ o.known[h] = numbers[h] /\ \A x \in Addresses \ {h} : Clear(x) => numbers[x] # o.got
      BY <1>5, <1>19, <3>1, <3>2
    <3>4. \A m \in Numbers : account[m].of = h => m = o.got
      <4> SUFFICES ASSUME NEW m \in Numbers, account[m].of = h PROVE m = o.got
        OBVIOUS
      <4>1. m = numbers[h] \/ m = o.got
        BY <2>2, <2>4, Zenon
      <4>2. m # 0
        BY UpsertBounds DEF Numbers
      <4> QED
        BY <3>3, <4>1, <4>2
    <3>5. account[o.got].of # "nobody"
      <4>1. o.says[h] \in Versions
        BY <1>5 DEF ClientRecords
      <4> QED
        BY <1>5, <3>3, <4>1, CardFacts
    <3>6. ASSUME NEW x \in Addresses \ {h}, Clear(x), numbers'[x] = o.got PROVE FALSE
      BY <1>10, <3>3, <3>6
    <3> QED
      BY <2>4, <3>3, <3>4, <3>5, <3>6, Zenon
  <2> QED
    BY <2>3, <2>4
<1>26. OthersUnknown'
  <2>1. \A a \in Addresses \ mine : numbers[a] = 0 /\ \A m \in Numbers : account[m].of # a
    BY <1>0, Zenon DEF OthersUnknown
  <2>2. \A a \in Addresses \ mine : numbers'[a] = numbers[a]
    BY <1>5, <1>10
  <2> QED
    BY <1>3, <2>1, <2>2, Zenon DEF OthersUnknown
<1>27. LandedStands'
  BY <1>3, <1>4, NothingLanded
<1>28. Steps_(c)
  <2>1. doubt \subseteq doubt' /\ mine' = mine
    BY <1>3
  <2> QED
    BY <1>4, <1>7, <1>8, <2>1, Zenon DEF Steps_
<1> QED
  BY <1>13, <1>18, <1>22, <1>25, <1>26, <1>27, <1>28, StepKeeps

LEMMA TransfersValuesKeeps ==
  ASSUME UpsertIInv, NEW c \in Clients, TransfersValues(c)
  PROVE  UpsertIInv'
<1>0. /\ UpsertTyped /\ NumbersMean /\ OthersUnknown /\ ClientGood(c)
      /\ client \in [Clients -> ClientRecords]
  BY Zenon DEF UpsertIInv, UpsertInv, UpsertTyped
<1>1. PICK h : h = Head(client[c].todo)
  OBVIOUS
<1>2. PICK o \in ClientRecords : o = client[c]
  BY <1>0
<1>3. /\ ClientAt(c, "transfer") /\ o.todo # <<>>
      /\ account' = [account EXCEPT ![o.known[h]] = Card(h, o.says[h])] \/ account' = account
      /\ client' = [client EXCEPT ![c].todo = Tail(@), ![c].wrote = @ \cup {h}]
      /\ UNCHANGED <<mine, numbers, version, landed, doubt, upsertEvents, upsertFaults>>
  BY <1>1, <1>2, Zenon DEF TransfersValues
<1>4. ~ClientAt(c, "off") /\ ~ClientAt(c, "save") /\ o.at = "transfer"
  BY <1>2, <1>3 DEF ClientAt
<1>5. o.todo \in Sendings /\ h \in Addresses /\ h \in mine /\ h \in In(o.todo) /\ h \in Writing(c)
  BY <1>1, <1>2, <1>3, <1>4, HeadFacts
<1>6. client'[c] = [o EXCEPT !.todo = Tail(o.todo), !.wrote = o.wrote \cup {h}]
  BY <1>0, <1>2, <1>3, <1>5 DEF ClientRecords
<1>7. PICK q \in ClientRecords : /\ client'[c] = q /\ q.at = "transfer" /\ q.todo = Tail(o.todo) /\ q.wrote = o.wrote \cup {h}
                                 /\ q.known = o.known
  <2>1. Tail(o.todo) \in Sendings \cup {<<>>} /\ o.wrote \cup {h} \subseteq Addresses
    BY <1>5, SendingParts DEF ClientRecords
  <2>2. PICK t : t = Tail(o.todo)
    OBVIOUS
  <2>3. PICK p \in ClientRecords : p = [o EXCEPT !.todo = t, !.wrote = o.wrote \cup {h}]
    BY <2>1, <2>2 DEF ClientRecords
  <2>4. p.at = o.at /\ p.todo = t /\ p.wrote = o.wrote \cup {h} /\ p.known = o.known
    BY <2>3 DEF ClientRecords
  <2> QED
    BY <1>4, <1>6, <2>2, <2>3, <2>4, Zenon
<1>8. Lone(c)' <=> Lone(c)
  <2>1. "alone" \in DOMAIN o
    BY <1>2 DEF ClientRecords
  <2>2. client'[c].alone = o.alone
    BY <1>6, <2>1, Zenon
  <2> QED
    BY <1>2, <2>2, Zenon DEF Lone
<1>9. \A d \in Clients \ {c} : client'[d] = client[d]
  BY <1>0, <1>3
<1>10. client' \in [Clients -> ClientRecords]
  <2>1. DOMAIN client' = Clients /\ client' = [d \in Clients |-> client'[d]]
    BY <1>0, <1>3
  <2>2. \A d \in Clients : client'[d] \in ClientRecords
    BY <1>0, <1>7, <1>9
  <2> QED
    BY <2>1, <2>2
<1>11. Writing(c) \subseteq mine /\ Writing(c) \subseteq doubt /\ o.wrote \cap In(o.todo) = {}
       /\ \A a \in Writing(c) : o.known[a] \in Numbers
  BY <1>0, <1>2, <1>3, Zenon DEF ClientGood
<1>12. In(q.todo) = In(o.todo) \ {h}
  BY <1>1, <1>2, <1>5, <1>7, SendingParts
<1>13. PICK k : k = Card(h, o.says[h])
  OBVIOUS
<1>14. k \in Cards /\ k.of = h /\ k.of # "nobody"
  <2>1. o.says[h] \in Versions
    BY <1>5 DEF ClientRecords
  <2> QED
    BY <1>5, <1>13, <2>1, CardFacts
<1>15. account' \in [Numbers -> Cards] /\ \A m \in Numbers : account'[m] = k \/ account'[m] = account[m]
  BY <1>0, <1>3, <1>13, <1>14 DEF UpsertTyped
<1>16. UpsertTyped'
  BY <1>0, <1>3, <1>10, <1>15, Zenon DEF UpsertTyped
<1>17. Writing(c)' = Writing(c) /\ \A d \in Clients \ {c} : Writing(d)' = Writing(d) /\ (Lone(d)' <=> Lone(d))
  <2>1. q.wrote \cup In(q.todo) = o.wrote \cup In(o.todo)
    BY <1>5, <1>7, <1>12
  <2>2. Writing(c)' = Writing(c)
    BY <1>2, <1>7, <2>1, Zenon DEF Writing
  <2>3. ASSUME NEW d \in Clients \ {c} PROVE Writing(d)' = Writing(d) /\ (Lone(d)' <=> Lone(d))
    BY <1>9, Zenon DEF Writing, Lone
  <2> QED
    BY <2>2, <2>3
<1>18. \A a : Clear(a)' <=> Clear(a)
  BY <1>3, <1>8, <1>17, Zenon DEF Clear
<1>19. ~ClientAt(c, "write")' /\ ~ClientAt(c, "save")' /\ ~ClientAt(c, "off")'
  BY <1>7 DEF ClientAt
<1>20. ClientGood(c)'
  <2>1. /\ Writing(c)' \subseteq mine' /\ client'[c].wrote \cap In(client'[c].todo) = {} /\ Writing(c)' \subseteq doubt'
        /\ \A a \in Writing(c)' : client'[c].known[a] \in Numbers
    BY <1>3, <1>7, <1>11, <1>12, <1>17
  <2> QED
    BY <1>19, <2>1, Zenon DEF ClientGood
<1>21. LonelyGood(c)'
  BY <1>19, Zenon DEF LonelyGood
<1>22. NumbersMean'
  <2> SUFFICES ASSUME NEW a \in Addresses, Clear(a)
               PROVE  /\ \A m \in Numbers : account'[m].of = a => m = numbers[a] \/ \E d \in Clients : Lone(d)' /\ Saving(d, a, m)'
                      /\ numbers[a] # 0 => account'[numbers[a]].of # "nobody"
                      /\ \A x \in Addresses \ {a} : Clear(x) /\ numbers[x] = numbers[a] => numbers[a] = 0
    BY <1>3, <1>18, Zenon DEF NumbersMean
  <2>1. /\ \A m \in Numbers : account[m].of = a => m = numbers[a] \/ \E d \in Clients : Lone(d) /\ Saving(d, a, m)
        /\ numbers[a] # 0 => account[numbers[a]].of # "nobody"
        /\ \A x \in Addresses \ {a} : Clear(x) /\ numbers[x] = numbers[a] => numbers[a] = 0
    BY <1>0, Zenon DEF NumbersMean
  <2>2. a # h
    BY <1>5, <1>11, Zenon DEF Clear
  <2>3. ASSUME NEW m \in Numbers, account'[m].of = a
        PROVE  m = numbers[a] \/ \E d \in Clients : Lone(d)' /\ Saving(d, a, m)'
    <3>1. account[m].of = a
      BY <1>14, <1>15, <2>2, <2>3
    <3>2. ASSUME NEW d \in Clients, Lone(d), Saving(d, a, m) PROVE Lone(d)' /\ Saving(d, a, m)'
      <4>1. d # c
        BY <1>4, <3>2, Zenon DEF Saving
      <4> QED
        BY <1>9, <3>2, <4>1, Zenon DEF Saving, Lone, ClientAt
    <3> QED
      BY <2>1, <3>1, <3>2, Zenon
  <2>4. numbers[a] # 0 => account'[numbers[a]].of # "nobody"
    <3>1. numbers[a] \in 0 .. MaxNumbers
      BY <1>0 DEF UpsertTyped
    <3>2. numbers[a] # 0 => numbers[a] \in Numbers
      BY <3>1, UpsertBounds DEF Numbers
    <3> QED
      BY <1>14, <1>15, <2>1, <3>2, Zenon
  <2> QED
    BY <2>1, <2>3, <2>4, Zenon
<1>23. OthersUnknown'
  <2>1. \A a \in Addresses \ mine : numbers[a] = 0 /\ \A m \in Numbers : account[m].of # a
    BY <1>0, Zenon DEF OthersUnknown
  <2>2. \A a \in Addresses \ mine : a # h
    BY <1>5
  <2> QED
    BY <1>3, <1>14, <1>15, <2>1, <2>2, Zenon DEF OthersUnknown
<1>24. LandedStands'
  BY <1>3, <1>4, NothingLanded
<1>25. Steps_(c)
  <2>1. doubt \subseteq doubt' /\ mine' = mine
    BY <1>3
  <2> QED
    BY <1>4, <1>8, <1>9, <2>1, Zenon DEF Steps_
<1> QED
  BY <1>16, <1>20, <1>21, <1>22, <1>23, <1>24, <1>25, StepKeeps

LEMMA SavesLinksKeeps ==
  ASSUME UpsertIInv, NEW c \in Clients, SavesLinks(c)
  PROVE  UpsertIInv'
<1>0. /\ UpsertTyped /\ NumbersMean /\ OthersUnknown /\ ClientGood(c)
  BY Zenon DEF UpsertIInv, UpsertInv
<1>1. PICK o : o = client[c]
  OBVIOUS
<1>2. /\ ClientAt(c, "transfer")
      /\ numbers' = [a \in Addresses |-> IF a \in o.wrote THEN o.known[a] ELSE numbers[a]]
      /\ client' = [client EXCEPT ![c] = NoClient]
      /\ UNCHANGED <<mine, version, account, landed, doubt, upsertEvents, upsertFaults>>
  BY <1>1, Zenon DEF SavesLinks
<1>3. ~ClientAt(c, "off") /\ ~ClientAt(c, "save")
  BY <1>2 DEF ClientAt
<1>4. /\ client'[c] = NoClient /\ \A d \in Clients \ {c} : client'[d] = client[d]
      /\ client' \in [Clients -> ClientRecords]
      /\ ClientAt(c, "off")' /\ ClientGood(c)' /\ LonelyGood(c)' /\ Lone(c)' /\ Writing(c)' = {}
  BY <1>2, ClientGone
<1>5. Writing(c) \subseteq mine /\ Writing(c) \subseteq doubt /\ o.wrote \subseteq Writing(c)
  <2>1. Writing(c) \subseteq mine /\ Writing(c) \subseteq doubt
    BY <1>0, <1>2, Zenon DEF ClientGood
  <2> QED
    BY <1>1, <2>1 DEF Writing
<1>6. numbers' \in [Addresses -> 0 .. MaxNumbers] /\ \A a \in Addresses : a \notin doubt \/ a \notin mine => numbers'[a] = numbers[a]
  <2>1. numbers \in [Addresses -> 0 .. MaxNumbers] /\ o.known \in [Addresses -> 0 .. MaxNumbers]
    BY <1>0, <1>1, ClientParts DEF UpsertTyped
  <2> QED
    BY <1>2, <1>5, <2>1
<1>7. UpsertTyped'
  BY <1>0, <1>2, <1>4, <1>6, Zenon DEF UpsertTyped
<1>8. ASSUME NEW a \in Addresses, Clear(a)' PROVE Clear(a) /\ a \notin doubt
  <2>1. a \notin doubt
    BY <1>2, <1>8, Zenon DEF Clear
  <2>2. ASSUME NEW d \in Clients PROVE Lone(d) \/ a \notin Writing(d)
    <3>1. CASE d = c
      <4>1. a \notin Writing(c)
        BY <1>5, <2>1
      <4> QED
        BY <3>1, <4>1
    <3>2. CASE d # c
      <4>1. Lone(d)' \/ a \notin Writing(d)'
        BY <1>8, Zenon DEF Clear
      <4>2. client'[d] = client[d]
        BY <1>4, <3>2
      <4> QED
        BY <4>1, <4>2, Zenon DEF Lone, Writing
    <3> QED
      BY <3>1, <3>2
  <2> QED
    BY <2>1, <2>2, Zenon DEF Clear
<1>9. NumbersMean'
  <2> SUFFICES ASSUME NEW a \in Addresses, Clear(a)'
               PROVE  /\ \A m \in Numbers : account[m].of = a => m = numbers'[a] \/ \E d \in Clients : Lone(d)' /\ Saving(d, a, m)'
                      /\ numbers'[a] # 0 => account[numbers'[a]].of # "nobody"
                      /\ \A x \in Addresses \ {a} : Clear(x)' /\ numbers'[x] = numbers'[a] => numbers'[a] = 0
    BY <1>2, Zenon DEF NumbersMean
  <2>1. /\ \A m \in Numbers : account[m].of = a => m = numbers[a] \/ \E d \in Clients : Lone(d) /\ Saving(d, a, m)
        /\ numbers[a] # 0 => account[numbers[a]].of # "nobody"
        /\ \A x \in Addresses \ {a} : Clear(x) /\ numbers[x] = numbers[a] => numbers[a] = 0
    BY <1>0, <1>8, Zenon DEF NumbersMean
  <2>2. \A x \in Addresses : Clear(x)' => numbers'[x] = numbers[x] /\ Clear(x)
    BY <1>6, <1>8
  <2>3. ASSUME NEW d \in Clients, NEW m, Lone(d), Saving(d, a, m) PROVE Lone(d)' /\ Saving(d, a, m)'
    <3>1. d # c
      BY <1>3, <2>3, Zenon DEF Saving
    <3> QED
      BY <1>4, <2>3, <3>1, Zenon DEF Saving, Lone, ClientAt
  <2> QED
    BY <2>1, <2>2, <2>3, Zenon
<1>10. OthersUnknown'
  <2>1. \A a \in Addresses \ mine : numbers[a] = 0 /\ \A m \in Numbers : account[m].of # a
    BY <1>0, Zenon DEF OthersUnknown
  <2>2. \A a \in Addresses \ mine : numbers'[a] = numbers[a]
    BY <1>6
  <2> QED
    BY <1>2, <2>1, <2>2, Zenon DEF OthersUnknown
<1>11. LandedStands'
  BY <1>2, <1>3, NothingLanded
<1>12. Steps_(c)
  <2>1. doubt \subseteq doubt' /\ mine' = mine
    BY <1>2
  <2> QED
    BY <1>3, <1>4, <2>1, Zenon DEF Steps_
<1> QED
  BY <1>4, <1>7, <1>9, <1>10, <1>11, <1>12, StepKeeps

(* Nobody's step: the processes stay as they are.                             *)
LEMMA ClientsStay ==
  ASSUME client' = client
  PROVE  /\ \A c, s : ClientAt(c, s)' <=> ClientAt(c, s)
         /\ \A c : (Lone(c)' <=> Lone(c)) /\ Writing(c)' = Writing(c)
         /\ \A c, h, n : Saving(c, h, n)' <=> Saving(c, h, n)
  BY Zenon DEF ClientAt, Lone, Writing, Saving

LEMMA GoodsStay ==
  ASSUME UNCHANGED <<mine, numbers, account, client, doubt>>, NEW c \in Clients, ClientGood(c), LonelyGood(c)
  PROVE  ClientGood(c)' /\ LonelyGood(c)'
<1>1. ClientGood(c)'
  BY ClientsStay, Zenon DEF ClientGood
<1>2. /\ \A a : Over(c, a)' <=> Over(c, a)
      /\ \A a : Clear(a)' <=> Clear(a)
  BY ClientsStay, Zenon DEF Over, Clear
<1>3. LonelyGood(c)'
  <2> SUFFICES ASSUME Lone(c)', ClientAt(c, "write")' \/ ClientAt(c, "save")'
               PROVE  /\ \A a \in In(client'[c].todo) : client'[c].known[a] = numbers'[a]
                      /\ \A a \in client'[c].wrote :
                           numbers'[a] # 0 /\ (~Over(c, a)' => account'[numbers'[a]] = Card(a, client'[c].says[a]))
                      /\ \A h \in Addresses, n \in Numbers : Saving(c, h, n)' =>
                           /\ account'[n] = Card(h, client'[c].says[h])
                           /\ client'[c].known[h] # 0 => n = client'[c].known[h]
                           /\ h \notin doubt' => \A x \in Addresses \ {h} : Clear(x)' => numbers'[x] # n
    BY Zenon DEF LonelyGood
  <2>1. Lone(c) /\ (ClientAt(c, "write") \/ ClientAt(c, "save"))
    BY ClientsStay, Zenon
  <2>2. /\ \A a \in In(client[c].todo) : client[c].known[a] = numbers[a]
        /\ \A a \in client[c].wrote :
             numbers[a] # 0 /\ (~Over(c, a) => account[numbers[a]] = Card(a, client[c].says[a]))
        /\ \A h \in Addresses, n \in Numbers : Saving(c, h, n) =>
             /\ account[n] = Card(h, client[c].says[h])
             /\ client[c].known[h] # 0 => n = client[c].known[h]
             /\ h \notin doubt => \A x \in Addresses \ {h} : Clear(x) => numbers[x] # n
    BY <2>1, Zenon DEF LonelyGood
  <2>3. \A a \in client'[c].wrote :
          numbers'[a] # 0 /\ (~Over(c, a)' => account'[numbers'[a]] = Card(a, client'[c].says[a]))
    BY <1>2, <2>2, Zenon
  <2>4. \A a \in In(client'[c].todo) : client'[c].known[a] = numbers'[a]
    BY <2>2, Zenon
  <2>5. ASSUME NEW h \in Addresses, NEW n \in Numbers, Saving(c, h, n)'
        PROVE  /\ account'[n] = Card(h, client'[c].says[h])
               /\ client'[c].known[h] # 0 => n = client'[c].known[h]
               /\ h \notin doubt' => \A x \in Addresses \ {h} : Clear(x)' => numbers'[x] # n
    <3>1. Saving(c, h, n)
      BY <2>5, ClientsStay, Zenon
    <3>2. /\ account[n] = Card(h, client[c].says[h])
          /\ client[c].known[h] # 0 => n = client[c].known[h]
          /\ h \notin doubt => \A x \in Addresses \ {h} : Clear(x) => numbers[x] # n
      BY <2>2, <3>1, Zenon
    <3> QED
      BY <1>2, <3>2, Zenon
  <2> QED
    BY <2>3, <2>4, <2>5, Zenon
<1> QED
  BY <1>1, <1>3

LEMMA EditsAddressKeeps ==
  ASSUME UpsertIInv, NEW b \in Addresses, EditsAddress(b)
  PROVE  UpsertIInv'
<1>1. /\ upsertEvents < MaxUpsertEvents /\ upsertEvents' = upsertEvents + 1
      /\ version' = [version EXCEPT ![b] = upsertEvents + 1] /\ landed' = {}
      /\ UNCHANGED <<mine, numbers, account, client, doubt, upsertFaults>>
  BY DEF EditsAddress, UpsertEvent
<1>2. UpsertTyped /\ UpsertInv
  BY DEF UpsertIInv
<1>3. version' \in [Addresses -> Versions] /\ upsertEvents' \in 0 .. MaxUpsertEvents /\ landed' \subseteq Addresses
  BY <1>1, <1>2, UpsertBounds DEF UpsertTyped, Versions
<1>4. UpsertTyped'
  BY <1>1, <1>2, <1>3, Zenon DEF UpsertTyped
<1>5. \A c \in Clients : ClientGood(c)' /\ LonelyGood(c)'
  BY <1>1, <1>2, GoodsStay, Zenon DEF UpsertInv
<1>6. OneAlone' /\ NumbersMean'
  BY <1>1, <1>2, ClientsStay, Zenon DEF UpsertInv, OneAlone, NumbersMean, Clear
<1>7. OthersUnknown'
  BY <1>1, <1>2, Zenon DEF UpsertInv, OthersUnknown
<1>8. LandedStands'
  BY <1>1, Zenon DEF LandedStands
<1> QED
  BY <1>4, <1>5, <1>6, <1>7, <1>8, Zenon DEF UpsertIInv, UpsertInv

LEMMA MovesInKeeps ==
  ASSUME UpsertIInv, NEW b \in Addresses, NEW n \in 0 .. MaxNumbers, MovesIn(b, n)
  PROVE  UpsertIInv'
<1>1. /\ upsertEvents < MaxUpsertEvents /\ upsertEvents' = upsertEvents + 1
      /\ b \notin mine /\ mine' = mine \cup {b} /\ numbers' = [numbers EXCEPT ![b] = n]
      /\ doubt' = IF n = 0 THEN doubt ELSE doubt \cup {b}
      /\ landed' = {}
      /\ UNCHANGED <<version, account, client, upsertFaults>>
  BY DEF MovesIn, UpsertEvent
<1>2. UpsertTyped /\ UpsertInv
  BY DEF UpsertIInv
<1>3. /\ numbers' \in [Addresses -> 0 .. MaxNumbers] /\ upsertEvents' \in 0 .. MaxUpsertEvents /\ landed' \subseteq Addresses
      /\ mine' \subseteq Addresses /\ doubt' \subseteq Addresses /\ doubt \subseteq doubt'
      /\ numbers'[b] = n /\ (n # 0 => b \in doubt')
      /\ \A x \in Addresses \ {b} : numbers'[x] = numbers[x] /\ (x \in doubt' <=> x \in doubt)
  BY <1>1, <1>2, UpsertBounds DEF UpsertTyped
<1>4. UpsertTyped'
  BY <1>1, <1>2, <1>3, Zenon DEF UpsertTyped
<1>5. \A c \in Clients : ClientGood(c) /\ LonelyGood(c) /\ Writing(c) \subseteq mine /\ b \notin Writing(c)
  <2>1. \A c \in Clients : ClientGood(c) /\ LonelyGood(c)
    BY <1>2, Zenon DEF UpsertInv
  <2>2. \A c \in Clients : Writing(c) \subseteq mine
    BY <2>1, Zenon DEF ClientGood
  <2> QED
    BY <1>1, <2>1, <2>2
<1>6. \A x \in Addresses : Clear(x)' => Clear(x)
  <2>1. \A x : x \in doubt => x \in doubt'
    BY <1>3
  <2> QED
    BY <1>1, <2>1, ClientsStay, Zenon DEF Clear
<1>7. ASSUME NEW c \in Clients PROVE ClientGood(c)'
  <2>1. Writing(c) \subseteq mine' /\ (Writing(c) \subseteq doubt => Writing(c) \subseteq doubt')
    BY <1>1, <1>3, <1>5
  <2> QED
    BY <1>1, <1>5, <2>1, ClientsStay, Zenon DEF ClientGood
<1>8. ASSUME NEW c \in Clients PROVE LonelyGood(c)'
  <2> SUFFICES ASSUME Lone(c), ClientAt(c, "write") \/ ClientAt(c, "save")
               PROVE  /\ \A a \in In(client[c].todo) : client[c].known[a] = numbers'[a]
                      /\ \A a \in client[c].wrote :
                           numbers'[a] # 0 /\ (~Over(c, a)' => account[numbers'[a]] = Card(a, client[c].says[a]))
                      /\ \A h \in Addresses, m \in Numbers : Saving(c, h, m) =>
                           /\ account[m] = Card(h, client[c].says[h])
                           /\ client[c].known[h] # 0 => m = client[c].known[h]
                           /\ h \notin doubt' => \A x \in Addresses \ {h} : Clear(x)' => numbers'[x] # m
    BY <1>1, ClientsStay, Zenon DEF LonelyGood
  <2>1. /\ \A a \in In(client[c].todo) : client[c].known[a] = numbers[a]
        /\ \A a \in client[c].wrote :
             numbers[a] # 0 /\ (~Over(c, a) => account[numbers[a]] = Card(a, client[c].says[a]))
        /\ \A h \in Addresses, m \in Numbers : Saving(c, h, m) =>
             /\ account[m] = Card(h, client[c].says[h])
             /\ client[c].known[h] # 0 => m = client[c].known[h]
             /\ h \notin doubt => \A x \in Addresses \ {h} : Clear(x) => numbers[x] # m
    BY <1>5, Zenon DEF LonelyGood
  <2>2. \A a \in Writing(c) : a \in Addresses \ {b}
    BY <1>2, <1>5, ClientParts
  <2>3. \A a \in In(client[c].todo) : numbers'[a] = numbers[a]
    BY <1>3, <2>2, Zenon DEF Writing
  <2>4. \A a \in client[c].wrote : numbers'[a] = numbers[a]
    BY <1>3, <2>2, Zenon DEF Writing
  <2>5. \A a \in client[c].wrote : Over(c, a)' <=> Over(c, a)
    BY <1>1, <2>4, ClientsStay, Zenon DEF Over
  <2>6. ASSUME NEW h \in Addresses, NEW m \in Numbers, Saving(c, h, m), h \notin doubt', NEW x \in Addresses \ {h}, Clear(x)'
        PROVE  numbers'[x] # m
    <3>1. CASE x = b
      <4>1. x \notin doubt'
        BY <2>6, Zenon DEF Clear
      <4>2. numbers'[x] = 0
        BY <1>3, <3>1, <4>1
      <4> QED
        BY <4>2, UpsertBounds DEF Numbers
    <3>2. CASE x # b
      <4>1. Clear(x)
        BY <1>6, <2>6
      <4>2. h \notin doubt
        BY <1>3, <2>6
      <4>3. Saving(c, h, m) /\ h \in Addresses /\ m \in Numbers
        BY <2>6
      <4>4. \A y \in Addresses \ {h} : Clear(y) => numbers[y] # m
        BY <2>1, <4>2, <4>3, Zenon
      <4>5. numbers[x] # m
        BY <2>6, <4>1, <4>4, Zenon
      <4> QED
        BY <1>3, <2>6, <3>2, <4>5
    <3> QED
      BY <3>1, <3>2
  <2> QED
    BY <2>1, <2>3, <2>4, <2>5, <2>6, Zenon
<1>9. OneAlone'
  BY <1>1, <1>2, ClientsStay, Zenon DEF UpsertInv, OneAlone
<1>10. \A a \in Addresses \ mine : numbers[a] = 0 /\ \A m \in Numbers : account[m].of # a
  BY <1>2, Zenon DEF UpsertInv, OthersUnknown
<1>11. NumbersMean'
  <2> SUFFICES ASSUME NEW a \in Addresses, Clear(a)'
               PROVE  /\ \A m \in Numbers : account[m].of = a => m = numbers'[a] \/ \E d \in Clients : Lone(d) /\ Saving(d, a, m)
                      /\ numbers'[a] # 0 => account[numbers'[a]].of # "nobody"
                      /\ \A x \in Addresses \ {a} : Clear(x)' /\ numbers'[x] = numbers'[a] => numbers'[a] = 0
    BY <1>1, ClientsStay, Zenon DEF NumbersMean
  <2>1. /\ \A m \in Numbers : account[m].of = a => m = numbers[a] \/ \E d \in Clients : Lone(d) /\ Saving(d, a, m)
        /\ numbers[a] # 0 => account[numbers[a]].of # "nobody"
        /\ \A x \in Addresses \ {a} : Clear(x) /\ numbers[x] = numbers[a] => numbers[a] = 0
    BY <1>2, <1>6, Zenon DEF UpsertInv, NumbersMean
  <2>2. \A x \in Addresses : Clear(x)' => Clear(x) /\ (x = b => numbers'[x] = 0)
    <3>1. \A x \in Addresses : Clear(x)' => x \notin doubt'
      BY Zenon DEF Clear
    <3> QED
      BY <1>3, <1>6, <3>1, Zenon
  <2>3. CASE a = b
    BY <1>1, <1>10, <2>2, <2>3
  <2>4. CASE a # b
    <3>1. numbers'[a] = numbers[a]
      BY <1>3, <2>4
    <3>2. ASSUME NEW x \in Addresses \ {a}, Clear(x)', numbers'[x] = numbers[a] PROVE numbers[a] = 0
      <4>1. CASE x = b
        BY <2>2, <3>2, <4>1
      <4>2. CASE x # b
        <5>1. Clear(x) /\ numbers'[x] = numbers[x]
          BY <1>3, <2>2, <3>2, <4>2
        <5> QED
          BY <2>1, <3>2, <5>1, Zenon
      <4> QED
        BY <4>1, <4>2
    <3> QED
      BY <2>1, <3>1, <3>2, Zenon
  <2> QED
    BY <2>3, <2>4
<1>12. OthersUnknown'
  <2>1. \A a \in Addresses \ mine' : a \in Addresses \ mine /\ numbers'[a] = numbers[a]
    BY <1>1, <1>3
  <2> QED
    BY <1>1, <1>10, <2>1, Zenon DEF OthersUnknown
<1>13. LandedStands'
  BY <1>1, Zenon DEF LandedStands
<1> QED
  BY <1>4, <1>7, <1>8, <1>9, <1>11, <1>12, <1>13, Zenon DEF UpsertIInv, UpsertInv

LEMMA OthersFacts ==
  ASSUME NEW other \in OthersAccounts
  PROVE  other \in [Numbers -> Cards] /\ \A m \in Numbers, a \in Addresses : other[m].of # a
  BY CardFacts DEF OthersAccounts, NoCards

LEMMA ChangesCustomerNumberKeeps ==
  ASSUME UpsertIInv, NEW other \in OthersAccounts, ChangesCustomerNumber(other)
  PROVE  UpsertIInv'
<1>1. /\ upsertEvents < MaxUpsertEvents /\ upsertEvents' = upsertEvents + 1
      /\ account' = other /\ landed' = {} /\ doubt' = doubt \cup {a \in mine : numbers[a] # 0}
      /\ \A c \in Clients : ClientAt(c, "off")
      /\ UNCHANGED <<mine, numbers, version, client, upsertFaults>>
  BY DEF ChangesCustomerNumber, UpsertEvent
<1>2. UpsertTyped /\ UpsertInv
  BY DEF UpsertIInv
<1>3. /\ upsertEvents' \in 0 .. MaxUpsertEvents /\ landed' \subseteq Addresses
      /\ doubt' \subseteq Addresses /\ account' \in [Numbers -> Cards]
      /\ \A m \in Numbers, a \in Addresses : account'[m].of # a
  BY <1>1, <1>2, OthersFacts, UpsertBounds DEF UpsertTyped
<1>4. UpsertTyped'
  BY <1>1, <1>2, <1>3, Zenon DEF UpsertTyped
<1>5. ASSUME NEW c \in Clients PROVE ClientGood(c)' /\ LonelyGood(c)'
  <2>1. ClientAt(c, "off") /\ ~ClientAt(c, "write") /\ ~ClientAt(c, "save") /\ ~ClientAt(c, "transfer")
    BY <1>1 DEF ClientAt
  <2>2. ClientGood(c)
    BY <1>2, Zenon DEF UpsertInv
  <2>3. ClientGood(c)'
    BY <1>1, <2>1, <2>2, ClientsStay, Zenon DEF ClientGood
  <2>4. LonelyGood(c)'
    BY <1>1, <2>1, ClientsStay, Zenon DEF LonelyGood
  <2> QED
    BY <2>3, <2>4
<1>6. OneAlone'
  BY <1>1, <1>2, ClientsStay, Zenon DEF UpsertInv, OneAlone
<1>7. \A a \in Addresses \ mine : numbers[a] = 0
  BY <1>2, Zenon DEF UpsertInv, OthersUnknown
<1>8. NumbersMean'
  <2>1. ASSUME NEW a \in Addresses, Clear(a)' PROVE numbers'[a] = 0
    <3>1. a \notin doubt'
      BY <2>1, Zenon DEF Clear
    <3> QED
      BY <1>1, <1>7, <3>1
  <2> QED
    BY <1>3, <2>1, Zenon DEF NumbersMean
<1>9. OthersUnknown'
  BY <1>1, <1>3, <1>7, Zenon DEF OthersUnknown
<1>10. LandedStands'
  BY <1>1, Zenon DEF LandedStands
<1> QED
  BY <1>4, <1>5, <1>6, <1>8, <1>9, <1>10, Zenon DEF UpsertIInv, UpsertInv

LEMMA UpsertStarts == UpsertInit => UpsertIInv
<1> SUFFICES ASSUME UpsertInit PROVE UpsertIInv
  OBVIOUS
<1>1. /\ mine \subseteq Addresses
      /\ numbers = [a \in Addresses |-> 0] /\ version = [a \in Addresses |-> 0]
      /\ account \in OthersAccounts
      /\ client = [c \in Clients |-> NoClient]
      /\ landed = {} /\ doubt = {} /\ upsertEvents = 0 /\ upsertFaults = 0
  BY DEF UpsertInit
<1>2. /\ numbers \in [Addresses -> 0 .. MaxNumbers] /\ version \in [Addresses -> Versions]
      /\ client \in [Clients -> ClientRecords] /\ upsertEvents \in 0 .. MaxUpsertEvents /\ upsertFaults \in 0 .. MaxUpsertFaults
  BY <1>1, NoClientFacts, UpsertBounds DEF Versions
<1>3. account \in [Numbers -> Cards] /\ \A m \in Numbers, a \in Addresses : account[m].of # a
  BY <1>1, OthersFacts
<1>4. UpsertTyped
  BY <1>1, <1>2, <1>3 DEF UpsertTyped
<1>5. \A c \in Clients : client[c] = NoClient
  BY <1>1
<1>6. \A c \in Clients : client[c].wrote = {} /\ In(client[c].todo) = {} /\ client[c].at = "off"
  BY <1>5, NoClientFacts, NothingLeft, Zenon
<1>7. \A c \in Clients : Writing(c) = {} /\ ClientAt(c, "off") /\ ~ClientAt(c, "write") /\ ~ClientAt(c, "save") /\ ~ClientAt(c, "transfer")
  BY <1>6 DEF Writing, ClientAt
<1>8. ASSUME NEW c \in Clients PROVE ClientGood(c) /\ LonelyGood(c)
  <2>1. Writing(c) \subseteq mine /\ client[c].wrote \cap In(client[c].todo) = {}
    BY <1>6, <1>7
  <2> QED
    BY <1>5, <1>7, <2>1, Zenon DEF ClientGood, LonelyGood
<1>9. OneAlone
  BY <1>7, Zenon DEF OneAlone
<1>10. \A a \in Addresses : numbers[a] = 0
  BY <1>1
<1>11. NumbersMean /\ OthersUnknown
  BY <1>3, <1>10, Zenon DEF NumbersMean, OthersUnknown
<1>12. LandedStands
  BY <1>1, Zenon DEF LandedStands
<1> QED
  BY <1>4, <1>8, <1>9, <1>11, <1>12, Zenon DEF UpsertIInv, UpsertInv

LEMMA UpsertStutters == UpsertIInv /\ UNCHANGED upsertVars => UpsertIInv'
<1> SUFFICES ASSUME UpsertIInv, UNCHANGED upsertVars PROVE UpsertIInv'
  OBVIOUS
<1>1. UNCHANGED <<mine, numbers, version, account, client, landed, doubt, upsertEvents, upsertFaults>>
  BY Zenon DEF upsertVars
<1>2. UpsertTyped /\ UpsertInv
  BY DEF UpsertIInv
<1>3. UpsertTyped'
  BY <1>1, <1>2, Zenon DEF UpsertTyped
<1>4. \A c \in Clients : ClientGood(c)' /\ LonelyGood(c)'
  BY <1>1, <1>2, GoodsStay, Zenon DEF UpsertInv
<1>5. OneAlone' /\ NumbersMean'
  BY <1>1, <1>2, ClientsStay, Zenon DEF UpsertInv, OneAlone, NumbersMean, Clear
<1>6. OthersUnknown' /\ LandedStands'
  BY <1>1, <1>2, ClientsStay, Zenon DEF UpsertInv, OthersUnknown, LandedStands
<1> QED
  BY <1>3, <1>4, <1>5, <1>6, Zenon DEF UpsertIInv, UpsertInv

LEMMA UpsertSteps == UpsertIInv /\ [UpsertNext]_upsertVars => UpsertIInv'
<1> SUFFICES ASSUME UpsertIInv, [UpsertNext]_upsertVars PROVE UpsertIInv'
  OBVIOUS
<1>1. CASE \E c \in Clients : ClientStep(c) \/ ClientBreaks(c)
  <2> PICK c \in Clients : ClientStep(c) \/ ClientBreaks(c)
    BY <1>1
  <2>1. \/ AddressRefused(c) \/ SavesNumber(c) \/ EndsUpsert(c) \/ TransfersValues(c) \/ SavesLinks(c)
        \/ (\E n \in Numbers : WritesAddress(c, n)) \/ ClientBreaks(c)
    BY Zenon DEF ClientStep
  <2> QED
    BY <2>1, AddressRefusedKeeps, SavesNumberKeeps, EndsUpsertKeeps, TransfersValuesKeeps, SavesLinksKeeps,
       WritesAddressKeeps, ClientBreaksKeeps, Zenon
<1>2. CASE \E c \in Clients, s \in Sendings : StartsUpsert(c, s)
  BY <1>2, StartsUpsertKeeps, Zenon
<1>3. CASE \E c \in Clients, s \in Sendings, chosen \in [Addresses -> Numbers] : StartsLinking(c, s, chosen)
  BY <1>3, StartsLinkingKeeps, Zenon
<1>4. CASE \E a \in Addresses : EditsAddress(a) \/ \E n \in 0 .. MaxNumbers : MovesIn(a, n)
  BY <1>4, EditsAddressKeeps, MovesInKeeps, Zenon
<1>5. CASE \E other \in OthersAccounts : ChangesCustomerNumber(other)
  BY <1>5, ChangesCustomerNumberKeeps, Zenon
<1>6. CASE UNCHANGED upsertVars
  BY <1>6, UpsertStutters
<1> QED
  BY <1>1, <1>2, <1>3, <1>4, <1>5, <1>6, Zenon DEF UpsertNext

(* Customer, addresses, numbers and processes stay of their types, whatever    *)
(* the number of addresses, processes, edits and faults.                      *)
THEOREM UpsertTypeCorrect == UpsertSpec => []UpsertTypeOK
<1>1. UpsertIInv => UpsertTypeOK
  BY UpsertTypes DEF UpsertIInv
<1> QED
  BY <1>1, UpsertStarts, UpsertSteps, PTL DEF UpsertSpec

(* upsert_customer: what the last undisturbed upsert wrote is in Microtech as   *)
(* Django says, under its number and once, but for addresses in doubt.        *)
THEOREM UpsertsLand == UpsertSpec => []UpsertLands
<1>1. UpsertIInv => UpsertLands
  <2> SUFFICES ASSUME UpsertIInv, NEW a \in landed
               PROVE  /\ (\A x \in landed \ {a} : numbers[x] # numbers[a])
                           => numbers[a] # 0 /\ account[numbers[a]] = Card(a, version[a])
                      /\ \A x \in landed \ {a} : numbers[x] = numbers[a] => a \in doubt \/ x \in doubt
                      /\ a \notin doubt => \A n \in Numbers : account[n].of = a => n = numbers[a]
    BY Zenon DEF UpsertLands
  <2>1. landed \subseteq Addresses /\ NumbersMean /\ LandedStands
    BY Zenon DEF UpsertIInv, UpsertInv, UpsertTyped
  <2>2. numbers[a] # 0 /\ ((\A x \in landed \ {a} : numbers[x] # numbers[a]) => account[numbers[a]] = Card(a, version[a]))
    BY <2>1, Zenon DEF LandedStands
  <2>3. \A c \in Clients : ClientAt(c, "off") /\ ~ClientAt(c, "save") /\ Writing(c) = {}
    <3>1. \A c \in Clients : ClientAt(c, "off")
      BY <2>1, Zenon DEF LandedStands
    <3> QED
      BY <3>1, OffFacts DEF ClientAt
  <2>4. \A x \in Addresses : x \notin doubt => Clear(x)
    <3>1. \A x, c : c \in Clients => x \notin Writing(c)
      BY <2>3
    <3> QED
      BY <3>1, Zenon DEF Clear
  <2>5. a \in Addresses /\ \A x \in landed : x \in Addresses
    BY <2>1
  <2>6. ASSUME a \notin doubt
        PROVE  /\ \A n \in Numbers : account[n].of = a => n = numbers[a]
               /\ \A x \in Addresses \ {a} : Clear(x) /\ numbers[x] = numbers[a] => numbers[a] = 0
    BY <2>1, <2>3, <2>4, <2>5, <2>6, Zenon DEF NumbersMean, Saving
  <2> QED
    BY <2>2, <2>4, <2>5, <2>6, Zenon
<1> QED
  BY <1>1, UpsertStarts, UpsertSteps, PTL DEF UpsertSpec

-----------------------------------------------------------------------------
(* AddressMirror.  What a transfer is that nothing has disturbed: how far it   *)
(* has brought the other side.                                               *)
Carrying(t, p) == transfer[t].clean /\ Stage(t, p)

PullGood(t) ==
  Carrying(t, "pull") =>
    /\ transfer[t].list = shopEntries /\ transfer[t].bill = shopBill
    /\ transfer[t].todo \subseteq InShop
    /\ \A e \in transfer[t].seen :
         /\ e \in Held /\ entries[e].api \in InShop \ transfer[t].todo
         /\ entries[e].is = shopEntries[entries[e].api].is /\ entries[e].inv = (entries[e].api = shopBill)
    /\ \A i \in InShop \ transfer[t].todo : \E e \in transfer[t].seen : entries[e].api = i
    /\ \A e, f \in transfer[t].seen : entries[e].api = entries[f].api => e = f

PushGood(t) ==
  LET r == transfer[t]
  IN Carrying(t, "push") /\ inShopware /\ ~Meet(r.list, r.rows) =>
       /\ \A e \in Entries : entries[e].here = r.rows[e].here /\ entries[e].is = r.rows[e].is
       /\ r.todo \subseteq Held
       /\ \A i \in ShopSlots : r.list[i].here => shopEntries[i].here
       /\ \A e \in Held \ r.todo :
            IF Goal(r.list, r.rows, e) # 0
            THEN Carries(shopEntries[Goal(r.list, r.rows, e)].is, r.rows[e].is)
            ELSE \E i \in InShop : ~r.list[i].here /\ Carries(shopEntries[i].is, r.rows[e].is)

ImportGood(t) ==
  Carrying(t, "import") =>
    /\ transfer[t].list = erpEntries
    /\ \A c \in transfer[t].todo : erpEntries[c].here
    /\ \A e \in transfer[t].seen : e \in Held /\ entries[e].card \in ErpCards /\ erpEntries[entries[e].card].here
    /\ \A c \in ErpCards : erpEntries[c].here /\ c \notin transfer[t].todo =>
         \E e \in transfer[t].seen : entries[e].card = c /\ entries[e].is = erpEntries[c].is

EntryRecords == [here : BOOLEAN, is : Content, api : 0 .. MaxShopEntries, card : ErpCards \cup {<<0, 0>>}, inv : BOOLEAN]
TransferRecords ==
  [pc : {"rest", "pull", "push", "import", "unlink"},
   list : {AtRest.list} \cup [ShopSlots -> Copies] \cup [ErpCards -> Copies],
   rows : {AtRest.rows, <<>>} \cup [Entries -> EntryRecords], bill : 0 .. MaxShopEntries,
   todo : (SUBSET ShopSlots) \cup (SUBSET Entries) \cup (SUBSET ErpCards), seen : SUBSET Entries, clean : BOOLEAN]

Fits(r) ==
  /\ r.pc = "push" => r.todo \subseteq Entries /\ r.rows \in [Entries -> EntryRecords]
  /\ r.pc = "import" => r.todo \subseteq ErpCards /\ r.list \in [ErpCards -> Copies]
  /\ r.pc \notin {"push", "import"} => r.todo \subseteq ShopSlots
  /\ r.pc \in {"pull", "push"} => r.list \in [ShopSlots -> Copies]

MirrorTyped ==
  /\ entries \in [Entries -> EntryRecords]
  /\ shopEntries \in [ShopSlots -> Copies] /\ erpEntries \in [ErpCards -> Copies]
  /\ shopBill \in 0 .. MaxShopEntries /\ shopLinked \in BOOLEAN /\ inShopware \in BOOLEAN
  /\ transfer \in [Transfers -> TransferRecords] /\ \A t \in Transfers : Fits(transfer[t])
  /\ lastTransfer \in {"nothing", "pull", "push", "import"} /\ entryEdits \in 0 .. MaxEntryEdits

MirrorInv == CardsPossible(erpEntries) /\ MirrorHolds /\ \A t \in Transfers : PullGood(t) /\ PushGood(t) /\ ImportGood(t)
MirrorIInv == MirrorTyped /\ MirrorInv

(* A set of numbers has a smallest one; up to a bound, a largest one.         *)
LEMMA SomeMin ==
  ASSUME NEW S, S \subseteq Nat, S # {}
  PROVE  Min(S) \in S /\ \A y \in S : Min(S) <= y
<1>1. PICK R : R = OpToRel(<, Nat)
  OBVIOUS
<1>2. R = {ss \in Nat \X Nat : ss[1] < ss[2]}
  BY <1>1, Zenon DEF OpToRel
<1>3. IsWellFoundedOn(R, Nat)
  BY <1>1, NatLessThanWellFounded, Zenon
<1>4. PICK x \in S : \A y \in S : ~ (<<y, x>> \in R)
  BY <1>3, WFMin
<1>5. \A y \in S : x <= y
  <2> SUFFICES ASSUME NEW y \in S PROVE x <= y
    OBVIOUS
  <2>1. x \in Nat /\ y \in Nat
    OBVIOUS
  <2>2. y < x => <<y, x>> \in R
    BY <1>2, <2>1
  <2> QED
    BY <1>4, <2>1, <2>2
<1> QED
  BY <1>4, <1>5 DEF Min

LEMMA SomeMax ==
  ASSUME NEW N \in Nat, NEW S, S \subseteq 1 .. N, S # {}
  PROVE  Max(S) \in S
<1> DEFINE T == {y \in Nat : N - y \in S}
<1>1. T \subseteq Nat
  OBVIOUS
<1>2. T # {}
  <2>1. PICK x \in S : TRUE
    OBVIOUS
  <2>2. N - x \in Nat /\ N - (N - x) = x
    OBVIOUS
  <2>3. N - x \in T
    BY <2>1, <2>2
  <2> QED
    BY <2>3
<1>3. PICK m : m = Min(T)
  OBVIOUS
<1>4. m \in T /\ \A y \in T : m <= y
  BY <1>1, <1>2, <1>3, SomeMin
<1>5. PICK x \in S : m = N - x
  <2>1. m \in Nat /\ N - m \in S /\ m = N - (N - m)
    BY <1>4
  <2> QED
    BY <2>1
<1>6. \A y \in S : x >= y
  <2> SUFFICES ASSUME NEW y \in S PROVE x >= y
    OBVIOUS
  <2>1. N - y \in Nat /\ N - (N - y) = y
    OBVIOUS
  <2>2. N - y \in T
    BY <2>1
  <2>3. m <= N - y
    BY <1>4, <2>2
  <2> QED
    BY <1>5, <2>1, <2>3
<1> QED
  BY <1>6 DEF Max

LEMMA MirrorRecords ==
  /\ Somewhere \in Content /\ NoCopy \in Copies /\ NoEntry \in EntryRecords /\ NoEntry.here = FALSE
  /\ AtRest \in TransferRecords /\ Fits(AtRest) /\ AtRest.pc = "rest"
<1>1. Somewhere \in Content
  BY MirrorBounds DEF Somewhere, Content
<1>2. NoCopy \in Copies
  BY <1>1 DEF NoCopy, Copies
<1>3. NoEntry \in EntryRecords /\ NoEntry.here = FALSE
  BY <1>1, MirrorBounds DEF NoEntry, EntryRecords
<1>4. AtRest.pc = "rest" /\ AtRest.todo = {} /\ AtRest.seen = {} /\ AtRest.bill = 0 /\ AtRest.clean = TRUE
  BY Zenon DEF AtRest
<1>5. AtRest \in TransferRecords
  <2>1. PICK l : l = AtRest.list
    OBVIOUS
  <2>2. PICK w : w = AtRest.rows
    OBVIOUS
  <2>3. l = [i \in {} |-> NoCopy] /\ w = [e \in {} |-> NoEntry]
    BY <2>1, <2>2, Zenon DEF AtRest
  <2>4. AtRest = [pc |-> "rest", list |-> l, rows |-> w, bill |-> 0, todo |-> {}, seen |-> {}, clean |-> TRUE]
    BY <2>3, Zenon DEF AtRest
  <2>5. 0 \in 0 .. MaxShopEntries
    BY MirrorBounds
  <2> QED
    BY <2>1, <2>2, <2>4, <2>5 DEF TransferRecords
<1>6. Fits(AtRest)
  BY <1>4 DEF Fits
<1> QED
  BY <1>1, <1>2, <1>3, <1>4, <1>5, <1>6

LEMMA TypedContent == Typed \subseteq Content
  BY MirrorBounds DEF Content

LEMMA MirrorTypes == MirrorTyped => MirrorTypeOK
<1> SUFFICES ASSUME MirrorTyped PROVE MirrorTypeOK
  OBVIOUS
<1>1. /\ DOMAIN entries = Entries /\ DOMAIN shopEntries = ShopSlots /\ DOMAIN erpEntries = ErpCards
      /\ \A e \in Entries : entries[e] \in EntryRecords
      /\ \A i \in ShopSlots : shopEntries[i] \in Copies
      /\ \A c \in ErpCards : erpEntries[c] \in Copies
  BY DEF MirrorTyped
<1>2. ASSUME NEW t \in Transfers
      PROVE  /\ transfer[t].pc \in {"rest", "pull", "push", "import", "unlink"}
             /\ transfer[t].seen \subseteq Entries /\ transfer[t].clean \in BOOLEAN
             /\ transfer[t].todo \subseteq CASE transfer[t].pc = "push" -> Entries
                                             [] transfer[t].pc = "import" -> ErpCards [] OTHER -> ShopSlots
  <2>1. PICK r \in TransferRecords : r = transfer[t] /\ Fits(r)
    BY DEF MirrorTyped
  <2>2. r.pc \in {"rest", "pull", "push", "import", "unlink"} /\ r.seen \subseteq Entries /\ r.clean \in BOOLEAN
    BY DEF TransferRecords
  <2>3. r.todo \subseteq CASE r.pc = "push" -> Entries [] r.pc = "import" -> ErpCards [] OTHER -> ShopSlots
    BY <2>1, <2>2 DEF Fits
  <2> QED
    BY <2>1, <2>2, <2>3
<1> QED
  BY <1>1, <1>2, Zenon DEF MirrorTyped, MirrorTypeOK, EntryRecords

(* A transfer that something has disturbed promises nothing.                  *)
LEMMA DisturbedIsGood ==
  ASSUME NEW u, ~transfer'[u].clean
  PROVE  PullGood(u)' /\ PushGood(u)' /\ ImportGood(u)'
BY Zenon DEF PullGood, PushGood, ImportGood, Carrying

LEMMA AtRestIsGood ==
  ASSUME NEW u, transfer'[u].pc \in {"rest", "unlink"}
  PROVE  PullGood(u)' /\ PushGood(u)' /\ ImportGood(u)'
<1>1. ~Stage(u, "pull")' /\ ~Stage(u, "push")' /\ ~Stage(u, "import")'
  BY DEF Stage
<1> QED
  BY <1>1, Zenon DEF PullGood, PushGood, ImportGood, Carrying

LEMMA NothingHolds == lastTransfer' = "nothing" => MirrorHolds'
  BY DEF MirrorHolds

(* A record that is disturbed keeps all but that.                            *)
LEMMA Disturbed ==
  ASSUME NEW r \in TransferRecords, Fits(r)
  PROVE  LET q == [r EXCEPT !.clean = FALSE] IN q \in TransferRecords /\ Fits(q) /\ ~q.clean
<1>1. PICK q : q = [r EXCEPT !.clean = FALSE]
  OBVIOUS
<1>2. q \in TransferRecords /\ q.pc = r.pc /\ q.todo = r.todo /\ q.rows = r.rows /\ q.list = r.list
  BY <1>1 DEF TransferRecords
<1>3. Fits(q)
  BY <1>2, Zenon DEF Fits
<1>4. ~q.clean
  <2>1. "clean" \in DOMAIN r
    BY DEF TransferRecords
  <2> QED
    BY <1>1, <2>1, Zenon
<1> QED
  BY <1>1, <1>2, <1>3, <1>4, Zenon

(* A step of t leaves the promises of t to be shown, and nobody else's.        *)
LEMMA NowKeeps ==
  ASSUME MirrorIInv, NEW t \in Transfers, NEW r \in TransferRecords, Fits(r), Now(t, r)
  PROVE  /\ transfer' \in [Transfers -> TransferRecords] /\ \A u \in Transfers : Fits(transfer'[u])
         /\ transfer'[t] = r /\ lastTransfer' = "nothing" /\ MirrorHolds'
         /\ \A u \in Transfers \ {t} : PullGood(u)' /\ PushGood(u)' /\ ImportGood(u)'
<1>1. /\ transfer' = [u \in Transfers |-> IF u = t THEN r ELSE [transfer[u] EXCEPT !.clean = FALSE]]
      /\ lastTransfer' = "nothing"
  BY DEF Now
<1>2. \A u \in Transfers : transfer[u] \in TransferRecords /\ Fits(transfer[u])
  BY DEF MirrorIInv, MirrorTyped
<1>3. ASSUME NEW u \in Transfers
      PROVE  LET q == [transfer[u] EXCEPT !.clean = FALSE] IN q \in TransferRecords /\ Fits(q) /\ ~q.clean
  BY <1>2, Disturbed
<1>4. transfer'[t] = r
  BY <1>1, Zenon
<1>5. \A u \in Transfers \ {t} : transfer'[u] \in TransferRecords /\ Fits(transfer'[u]) /\ ~transfer'[u].clean
  BY <1>1, <1>3, Zenon
<1>6. \A u \in Transfers : transfer'[u] \in TransferRecords /\ Fits(transfer'[u])
  BY <1>4, <1>5, Zenon
<1>7. transfer' = [u \in Transfers |-> transfer'[u]]
  BY <1>1, Zenon
<1>8. transfer' \in [Transfers -> TransferRecords]
  BY <1>6, <1>7
<1>9. \A u \in Transfers \ {t} : PullGood(u)' /\ PushGood(u)' /\ ImportGood(u)'
  BY <1>5, DisturbedIsGood, Zenon
<1>10. MirrorHolds'
  BY <1>1, NothingHolds
<1> QED
  BY <1>1, <1>4, <1>6, <1>8, <1>9, <1>10

LEMMA EndKeeps ==
  ASSUME MirrorIInv, NEW t \in Transfers, NEW way, TransferEnds(t, way)
  PROVE  /\ transfer' \in [Transfers -> TransferRecords] /\ \A u \in Transfers : Fits(transfer'[u])
         /\ lastTransfer' \in {way, "nothing"} /\ (lastTransfer' # "nothing" => transfer[t].clean)
         /\ \A u \in Transfers : PullGood(u)' /\ PushGood(u)' /\ ImportGood(u)'
<1>1. /\ transfer' = [u \in Transfers |-> IF u = t THEN AtRest ELSE [transfer[u] EXCEPT !.clean = FALSE]]
      /\ lastTransfer' = IF transfer[t].clean /\ (\A u \in Transfers \ {t} : transfer[u].pc = "rest") THEN way ELSE "nothing"
  BY DEF TransferEnds
<1>2. \A u \in Transfers : transfer[u] \in TransferRecords /\ Fits(transfer[u])
  BY DEF MirrorIInv, MirrorTyped
<1>3. ASSUME NEW u \in Transfers
      PROVE  LET q == [transfer[u] EXCEPT !.clean = FALSE] IN q \in TransferRecords /\ Fits(q) /\ ~q.clean
  BY <1>2, Disturbed
<1>4. transfer'[t] = AtRest
  BY <1>1, Zenon
<1>5. \A u \in Transfers \ {t} : transfer'[u] \in TransferRecords /\ Fits(transfer'[u]) /\ ~transfer'[u].clean
  BY <1>1, <1>3, Zenon
<1>6. \A u \in Transfers : transfer'[u] \in TransferRecords /\ Fits(transfer'[u])
  BY <1>4, <1>5, MirrorRecords, Zenon
<1>7. transfer' = [u \in Transfers |-> transfer'[u]]
  BY <1>1, Zenon
<1>8. transfer' \in [Transfers -> TransferRecords]
  BY <1>6, <1>7
<1>9. \A u \in Transfers : PullGood(u)' /\ PushGood(u)' /\ ImportGood(u)'
  <2>1. transfer'[t].pc \in {"rest", "unlink"}
    BY <1>4, MirrorRecords
  <2>2. ASSUME NEW u \in Transfers PROVE PullGood(u)' /\ PushGood(u)' /\ ImportGood(u)'
    <3>1. CASE u = t
      BY <2>1, <3>1, AtRestIsGood
    <3>2. CASE u # t
      BY <1>5, <3>2, DisturbedIsGood
    <3> QED
      BY <3>1, <3>2
  <2> QED
    BY <2>2
<1>10. lastTransfer' \in {way, "nothing"} /\ (lastTransfer' # "nothing" => transfer[t].clean)
  BY <1>1, Zenon
<1> QED
  BY <1>6, <1>8, <1>9, <1>10

LEMMA TouchedKeeps ==
  ASSUME MirrorIInv, Touched
  PROVE  /\ transfer' \in [Transfers -> TransferRecords] /\ \A u \in Transfers : Fits(transfer'[u])
         /\ lastTransfer' = "nothing" /\ MirrorHolds' /\ entryEdits' \in 0 .. MaxEntryEdits
         /\ \A u \in Transfers : PullGood(u)' /\ PushGood(u)' /\ ImportGood(u)'
<1>1. /\ transfer' = [u \in Transfers |-> [transfer[u] EXCEPT !.clean = FALSE]]
      /\ lastTransfer' = "nothing" /\ entryEdits < MaxEntryEdits /\ entryEdits' = entryEdits + 1
  BY DEF Touched
<1>2. \A u \in Transfers : transfer[u] \in TransferRecords /\ Fits(transfer[u])
  BY DEF MirrorIInv, MirrorTyped
<1>3. ASSUME NEW u \in Transfers
      PROVE  LET q == [transfer[u] EXCEPT !.clean = FALSE] IN q \in TransferRecords /\ Fits(q) /\ ~q.clean
  BY <1>2, Disturbed
<1>5. \A u \in Transfers : transfer'[u] \in TransferRecords /\ Fits(transfer'[u]) /\ ~transfer'[u].clean
  BY <1>1, <1>3, Zenon
<1>7. transfer' = [u \in Transfers |-> transfer'[u]]
  BY <1>1, Zenon
<1>8. transfer' \in [Transfers -> TransferRecords]
  BY <1>5, <1>7
<1>9. \A u \in Transfers : PullGood(u)' /\ PushGood(u)' /\ ImportGood(u)'
  BY <1>5, DisturbedIsGood, Zenon
<1>10. MirrorHolds' /\ entryEdits' \in 0 .. MaxEntryEdits
  BY <1>1, NothingHolds, MirrorBounds DEF MirrorIInv, MirrorTyped
<1> QED
  BY <1>1, <1>5, <1>8, <1>9, <1>10

LEMMA StartFacts ==
  ASSUME MirrorTyped, NEW p \in {"pull", "push", "import"}, NEW list, NEW todo, NEW rows,
         list \in [ShopSlots -> Copies] \cup [ErpCards -> Copies],
         todo \in (SUBSET ShopSlots) \cup (SUBSET Entries) \cup (SUBSET ErpCards), rows \in {<<>>} \cup [Entries -> EntryRecords],
         p = "push" => todo \subseteq Entries /\ rows \in [Entries -> EntryRecords] /\ list \in [ShopSlots -> Copies],
         p = "import" => todo \subseteq ErpCards /\ list \in [ErpCards -> Copies],
         p = "pull" => todo \subseteq ShopSlots /\ list \in [ShopSlots -> Copies]
  PROVE  LET r == Starts(p, list, todo, rows)
         IN /\ r \in TransferRecords /\ Fits(r) /\ r.clean
            /\ r.pc = p /\ r.list = list /\ r.todo = todo /\ r.rows = rows /\ r.bill = shopBill /\ r.seen = {}
<1>1. PICK r : r = Starts(p, list, todo, rows)
  OBVIOUS
<1>2. r = [pc |-> p, list |-> list, rows |-> rows, bill |-> shopBill, todo |-> todo, seen |-> {}, clean |-> TRUE]
  <2>1. PICK l : l = AtRest.list
    OBVIOUS
  <2>2. PICK w : w = AtRest.rows
    OBVIOUS
  <2>3. l = [i \in {} |-> NoCopy] /\ w = [e \in {} |-> NoEntry]
    BY <2>1, <2>2, Zenon DEF AtRest
  <2>4. PICK a : a = AtRest
    OBVIOUS
  <2>5. a = [pc |-> "rest", list |-> l, rows |-> w, bill |-> 0, todo |-> {}, seen |-> {}, clean |-> TRUE]
    BY <2>3, <2>4, Zenon DEF AtRest
  <2>6. r = [a EXCEPT !.pc = p, !.list = list, !.todo = todo, !.rows = rows, !.bill = shopBill]
    BY <1>1, <2>4, Zenon DEF Starts
  <2> QED
    BY <2>5, <2>6
<1>3. r.pc = p /\ r.list = list /\ r.todo = todo /\ r.rows = rows /\ r.bill = shopBill /\ r.seen = {}
  BY <1>2
<1>4. r.clean
  BY <1>2, Zenon
<1>5. r \in TransferRecords
  BY <1>2 DEF TransferRecords, MirrorTyped
<1>6. Fits(r)
  BY <1>3 DEF Fits
<1> QED
  BY <1>1, <1>3, <1>4, <1>5, <1>6, Zenon

LEMMA InShopSlots == MirrorTyped => InShop \subseteq ShopSlots /\ Held \subseteq Entries
BY DEF InShop, Held

LEMMA PullStartsKeeps ==
  ASSUME MirrorIInv, NEW t \in Transfers, PullStarts(t)
  PROVE  MirrorIInv'
<1>1. PICK r : r = Starts("pull", shopEntries, InShop, <<>>)
  OBVIOUS
<1>2. /\ shopLinked' = TRUE /\ Now(t, r)
      /\ UNCHANGED <<entries, shopEntries, shopBill, erpEntries, inShopware, entryEdits>>
  BY <1>1 DEF PullStarts
<1>3. MirrorTyped /\ CardsPossible(erpEntries)
  BY DEF MirrorIInv, MirrorInv
<1>4. /\ r \in TransferRecords /\ Fits(r) /\ r.clean
      /\ r.pc = "pull" /\ r.list = shopEntries /\ r.todo = InShop /\ r.bill = shopBill /\ r.seen = {}
  BY <1>1, <1>3, StartFacts, InShopSlots DEF MirrorTyped
<1>5. /\ transfer' \in [Transfers -> TransferRecords] /\ \A u \in Transfers : Fits(transfer'[u])
      /\ transfer'[t] = r /\ lastTransfer' = "nothing" /\ MirrorHolds'
      /\ \A u \in Transfers \ {t} : PullGood(u)' /\ PushGood(u)' /\ ImportGood(u)'
  BY <1>2, <1>4, NowKeeps
<1>6. MirrorTyped'
  BY <1>2, <1>3, <1>5, Zenon DEF MirrorTyped
<1>7. PullGood(t)'
  <2>1. InShop' = InShop
    BY <1>2 DEF InShop
  <2>2. transfer'[t].list = shopEntries' /\ transfer'[t].bill = shopBill' /\ transfer'[t].todo = InShop' /\ transfer'[t].seen = {}
    BY <1>2, <1>4, <1>5, <2>1
  <2> QED
    BY <2>2 DEF PullGood
<1>8. PushGood(t)' /\ ImportGood(t)'
  <2>1. ~Stage(t, "push")' /\ ~Stage(t, "import")'
    BY <1>4, <1>5 DEF Stage
  <2> QED
    BY <2>1, Zenon DEF PushGood, ImportGood, Carrying
<1>9. CardsPossible(erpEntries')
  BY <1>2, <1>3
<1> QED
  BY <1>5, <1>6, <1>7, <1>8, <1>9, Zenon DEF MirrorIInv, MirrorInv

(* What one of several choices gives.                                        *)
LEMMA FirstOfFacts ==
  ASSUME NEW x, NEW y, NEW z, NEW e \in FirstOf(x, y, z)
  PROVE  e \in x \/ e \in y \/ e \in z
BY DEF FirstOf

LEMMA RestFacts ==
  ASSUME NEW t, transfer[t] \in TransferRecords, Fits(transfer[t]), NEW m, m = Min(transfer[t].todo), NEW s \in SUBSET Entries
  PROVE  LET q == [Rest(t) EXCEPT !.seen = s]
         IN /\ q \in TransferRecords /\ Fits(q) /\ (q.clean <=> transfer[t].clean)
            /\ q.pc = transfer[t].pc /\ q.list = transfer[t].list /\ q.bill = transfer[t].bill
            /\ q.todo = transfer[t].todo \ {m} /\ q.seen = s
<1>1. PICK r \in TransferRecords : r = transfer[t] /\ Fits(r)
  OBVIOUS
<1>2. PICK todo : todo = r.todo \ {m}
  OBVIOUS
<1>3. PICK q : q = [r EXCEPT !.todo = todo, !.seen = s]
  OBVIOUS
<1>4. [Rest(t) EXCEPT !.seen = s] = q
  BY <1>1, <1>2, <1>3 DEF Rest, TransferRecords
<1>5. todo \in (SUBSET ShopSlots) \cup (SUBSET Entries) \cup (SUBSET ErpCards) /\ todo \subseteq r.todo
  BY <1>2 DEF TransferRecords
<1>6. /\ q \in TransferRecords /\ q.pc = r.pc /\ q.list = r.list /\ q.bill = r.bill /\ q.rows = r.rows
      /\ q.todo = todo /\ q.seen = s
  BY <1>3, <1>5 DEF TransferRecords
<1>7. q.clean <=> r.clean
  <2>1. "clean" \in DOMAIN r
    BY DEF TransferRecords
  <2>2. q.clean = r.clean
    BY <1>3, <2>1, Zenon
  <2> QED
    BY <2>2, Zenon
<1>8. Fits(q)
  BY <1>1, <1>5, <1>6 DEF Fits
<1> QED
  BY <1>1, <1>2, <1>4, <1>6, <1>7, <1>8, Zenon

LEMMA PullSavesKeeps ==
  ASSUME MirrorIInv, NEW t \in Transfers, PullSaves(t)
  PROVE  MirrorIInv'
<1>1. MirrorTyped /\ CardsPossible(erpEntries) /\ PullGood(t)
  BY DEF MirrorIInv, MirrorInv
<1>2. PICK r \in TransferRecords : r = transfer[t] /\ Fits(r)
  BY <1>1 DEF MirrorTyped
<1>3. PICK i : i = Min(r.todo)
  OBVIOUS
<1>4. /\ r.pc = "pull" /\ r.todo # {} /\ UNCHANGED <<shopEntries, shopBill, erpEntries, shopLinked, inShopware, entryEdits>>
      /\ \E e \in FirstOf(ById(i), BySpot(t, i), Unused) :
           /\ entries' = [entries EXCEPT ![e] =
               [here |-> TRUE, is |-> r.list[i].is, api |-> i,
                card |-> IF @.here THEN @.card ELSE <<0, 0>>, inv |-> i = r.bill]]
           /\ Now(t, [Rest(t) EXCEPT !.seen = @ \cup {e}])
  BY <1>2, <1>3, Zenon DEF PullSaves, Stage
<1>5. r.todo \subseteq ShopSlots /\ r.list \in [ShopSlots -> Copies]
  BY <1>2, <1>4 DEF Fits
<1>6. i \in r.todo /\ i \in ShopSlots
  <2>1. r.todo \subseteq Nat
    BY <1>5 DEF ShopSlots
  <2> QED
    BY <1>3, <1>4, <1>5, <2>1, SomeMin
<1>7. PICK e \in FirstOf(ById(i), BySpot(t, i), Unused) :
           /\ entries' = [entries EXCEPT ![e] =
               [here |-> TRUE, is |-> r.list[i].is, api |-> i,
                card |-> IF @.here THEN @.card ELSE <<0, 0>>, inv |-> i = r.bill]]
           /\ Now(t, [Rest(t) EXCEPT !.seen = @ \cup {e}])
  BY <1>4
<1>8. e \in Entries /\ (e \in r.seen => e \notin Held \/ entries[e].api = i)
  BY <1>2, <1>7, FirstOfFacts DEF ById, BySpot, Unused, Held
<1>9. PICK k \in EntryRecords :
        /\ entries' = [entries EXCEPT ![e] = k]
        /\ k.here = TRUE /\ k.is = r.list[i].is /\ k.api = i /\ k.inv = (i = r.bill)
  <2>1. PICK card : card = IF entries[e].here THEN entries[e].card ELSE <<0, 0>>
    OBVIOUS
  <2>2. PICK k : k = [here |-> TRUE, is |-> r.list[i].is, api |-> i, card |-> card, inv |-> i = r.bill]
    OBVIOUS
  <2>3. entries' = [entries EXCEPT ![e] = k]
    BY <1>7, <2>1, <2>2, Zenon
  <2>4. card \in ErpCards \cup {<<0, 0>>} /\ r.list[i].is \in Content
    BY <1>1, <1>5, <1>6, <1>8, <2>1 DEF MirrorTyped, EntryRecords, Copies
  <2>5. i \in 0 .. MaxShopEntries
    BY <1>6, MirrorBounds DEF ShopSlots
  <2>6. k \in EntryRecords
    BY <2>2, <2>4, <2>5 DEF EntryRecords
  <2>7. k.here = TRUE /\ k.is = r.list[i].is /\ k.api = i /\ k.inv = (i = r.bill)
    BY <2>2, Zenon
  <2> QED
    BY <2>3, <2>6, <2>7
<1>10. entries' \in [Entries -> EntryRecords] /\ entries'[e] = k /\ \A f \in Entries \ {e} : entries'[f] = entries[f]
  BY <1>1, <1>8, <1>9 DEF MirrorTyped
<1>11. PICK q \in TransferRecords :
         /\ Fits(q) /\ (q.clean <=> r.clean) /\ Now(t, q)
         /\ q.pc = "pull" /\ q.list = r.list /\ q.bill = r.bill /\ q.todo = r.todo \ {i} /\ q.seen = r.seen \cup {e}
  <2>1. Rest(t).seen = r.seen
    <3>1. PICK m : m = Min(r.todo)
      OBVIOUS
    <3>2. Rest(t) = [r EXCEPT !.todo = r.todo \ {m}]
      BY <1>2, <3>1 DEF Rest
    <3> QED
      BY <3>2 DEF TransferRecords
  <2>2. PICK s : s = r.seen \cup {e}
    OBVIOUS
  <2>3. s \in SUBSET Entries
    BY <1>8, <2>2 DEF TransferRecords
  <2>4. PICK q : q = [Rest(t) EXCEPT !.seen = s]
    OBVIOUS
  <2>5. Now(t, q)
    BY <1>7, <2>1, <2>2, <2>4, Zenon
  <2>6. transfer[t] \in TransferRecords /\ Fits(transfer[t]) /\ i = Min(transfer[t].todo)
    BY <1>2, <1>3
  <2>7. /\ q \in TransferRecords /\ Fits(q) /\ (q.clean <=> transfer[t].clean)
        /\ q.pc = transfer[t].pc /\ q.list = transfer[t].list /\ q.bill = transfer[t].bill
        /\ q.todo = transfer[t].todo \ {i} /\ q.seen = s
    BY <2>3, <2>4, <2>6, RestFacts
  <2> QED
    BY <1>2, <1>4, <2>2, <2>5, <2>7, Zenon
<1>12. /\ transfer' \in [Transfers -> TransferRecords] /\ \A u \in Transfers : Fits(transfer'[u])
       /\ transfer'[t] = q /\ lastTransfer' = "nothing" /\ MirrorHolds'
       /\ \A u \in Transfers \ {t} : PullGood(u)' /\ PushGood(u)' /\ ImportGood(u)'
  BY <1>11, NowKeeps
<1>13. MirrorTyped'
  BY <1>1, <1>4, <1>10, <1>12, Zenon DEF MirrorTyped
<1>14. InShop' = InShop /\ Held' = Held \cup {e} /\ k.here
  <2>1. k.here
    BY <1>9, Zenon
  <2> QED
    BY <1>4, <1>8, <1>10, <2>1 DEF InShop, Held
<1>15. PullGood(t)'
  <2> SUFFICES ASSUME r.clean
               PROVE  /\ q.list = shopEntries /\ q.bill = shopBill /\ q.todo \subseteq InShop
                      /\ \A f \in q.seen :
                           /\ f \in Held' /\ entries'[f].api \in InShop \ q.todo
                           /\ entries'[f].is = shopEntries[entries'[f].api].is /\ entries'[f].inv = (entries'[f].api = shopBill)
                      /\ \A j \in InShop \ q.todo : \E f \in q.seen : entries'[f].api = j
                      /\ \A f, g \in q.seen : entries'[f].api = entries'[g].api => f = g
    BY <1>4, <1>11, <1>12, <1>14, Zenon DEF PullGood, Carrying
  <2>1. /\ r.list = shopEntries /\ r.bill = shopBill /\ r.todo \subseteq InShop
        /\ \A f \in r.seen :
             /\ f \in Held /\ entries[f].api \in InShop \ r.todo
             /\ entries[f].is = shopEntries[entries[f].api].is /\ entries[f].inv = (entries[f].api = shopBill)
        /\ \A j \in InShop \ r.todo : \E f \in r.seen : entries[f].api = j
        /\ \A f, g \in r.seen : entries[f].api = entries[g].api => f = g
    BY <1>1, <1>2, <1>4, Zenon DEF PullGood, Carrying, Stage
  <2>2. e \notin r.seen
    BY <1>6, <1>8, <2>1
  <2>3. r.seen \subseteq Entries
    BY DEF TransferRecords
  <2>4. \A f \in r.seen : entries'[f] = entries[f] /\ f # e
    BY <1>10, <2>2, <2>3
  <2>5. entries'[e].api = i /\ entries'[e].is = shopEntries[i].is /\ entries'[e].inv = (i = shopBill)
    BY <1>9, <1>10, <2>1, Zenon
  <2>6. q.list = shopEntries /\ q.bill = shopBill /\ q.todo \subseteq InShop /\ i \in InShop /\ i \notin q.todo
    BY <1>6, <1>11, <2>1
  <2>7. ASSUME NEW f \in q.seen
        PROVE  /\ f \in Held' /\ entries'[f].api \in InShop \ q.todo
               /\ entries'[f].is = shopEntries[entries'[f].api].is /\ entries'[f].inv = (entries'[f].api = shopBill)
    <3>1. CASE f = e
      <4>1. f \in Held' /\ entries'[f].api \in InShop \ q.todo
        BY <1>14, <2>5, <2>6, <3>1
      <4> QED
        BY <2>5, <3>1, <4>1, Zenon
    <3>2. CASE f # e
      <4>1. f \in r.seen
        BY <1>11, <3>2
      <4>2. f \in Held' /\ entries'[f].api \in InShop \ q.todo
        BY <1>11, <1>14, <2>1, <2>4, <4>1
      <4> QED
        BY <2>1, <2>4, <4>1, <4>2, Zenon
    <3> QED
      BY <3>1, <3>2
  <2>8. ASSUME NEW j \in InShop \ q.todo PROVE \E f \in q.seen : entries'[f].api = j
    <3>1. CASE j = i
      BY <1>11, <2>5, <3>1
    <3>2. CASE j # i
      BY <1>11, <2>1, <2>4, <3>2
    <3> QED
      BY <3>1, <3>2
  <2>9. ASSUME NEW f \in q.seen, NEW g \in q.seen, entries'[f].api = entries'[g].api PROVE f = g
    BY <1>6, <1>11, <2>1, <2>4, <2>5, <2>9
  <2> QED
    BY <2>6, <2>7, <2>8, <2>9, Zenon
<1>16. PushGood(t)' /\ ImportGood(t)'
  <2>1. ~Stage(t, "push")' /\ ~Stage(t, "import")'
    BY <1>11, <1>12 DEF Stage
  <2> QED
    BY <2>1, Zenon DEF PushGood, ImportGood, Carrying
<1>17. CardsPossible(erpEntries')
  BY <1>1, <1>4
<1> QED
  BY <1>12, <1>13, <1>15, <1>16, <1>17, Zenon DEF MirrorIInv, MirrorInv

(* Rows the other side does not know are deleted, unless it knows none.       *)
LEMMA KeepsFacts ==
  ASSUME MirrorTyped, NEW seen, OnlyKeeps(seen)
  PROVE  /\ entries' \in [Entries -> EntryRecords]
         /\ seen \subseteq Held => \A e \in seen : entries'[e] = entries[e]
         /\ seen \subseteq Held /\ seen # {} => Held' = seen
<1>1. entries' \in [Entries -> EntryRecords]
  BY MirrorRecords DEF OnlyKeeps, MirrorTyped
<1>2. ASSUME seen \subseteq Held PROVE \A e \in seen : entries'[e] = entries[e] /\ e \in Entries /\ entries[e].here
  BY <1>2 DEF OnlyKeeps, Held
<1>3. ASSUME seen \subseteq Held, seen # {} PROVE Held' = seen
  <2>1. \A e \in Entries \ seen : entries'[e] = NoEntry
    BY <1>3 DEF OnlyKeeps
  <2>2. \A e \in seen : entries'[e] = entries[e] /\ e \in Entries /\ entries[e].here
    BY <1>2, <1>3
  <2> QED
    BY <2>1, <2>2, MirrorRecords DEF Held
<1> QED
  BY <1>1, <1>2, <1>3

LEMMA PullEndsKeeps ==
  ASSUME MirrorIInv, NEW t \in Transfers, PullEnds(t)
  PROVE  MirrorIInv'
<1>1. MirrorTyped /\ CardsPossible(erpEntries) /\ PullGood(t)
  BY DEF MirrorIInv, MirrorInv
<1>2. PICK r \in TransferRecords : r = transfer[t]
  BY <1>1 DEF MirrorTyped
<1>3. /\ r.pc = "pull" /\ r.todo = {} /\ OnlyKeeps(r.seen) /\ TransferEnds(t, "pull")
      /\ UNCHANGED <<shopEntries, shopBill, erpEntries, shopLinked, inShopware, entryEdits>>
  BY <1>2, Zenon DEF PullEnds, Stage
<1>4. /\ transfer' \in [Transfers -> TransferRecords] /\ \A u \in Transfers : Fits(transfer'[u])
      /\ lastTransfer' \in {"pull", "nothing"} /\ (lastTransfer' # "nothing" => transfer[t].clean)
      /\ \A u \in Transfers : PullGood(u)' /\ PushGood(u)' /\ ImportGood(u)'
  BY <1>3, EndKeeps
<1>5. /\ entries' \in [Entries -> EntryRecords]
      /\ r.seen \subseteq Held => \A e \in r.seen : entries'[e] = entries[e]
      /\ r.seen \subseteq Held /\ r.seen # {} => Held' = r.seen
  BY <1>1, <1>3, KeepsFacts
<1>6. MirrorTyped'
  <2>1. lastTransfer' \in {"nothing", "pull", "push", "import"}
    BY <1>4
  <2> QED
    BY <1>1, <1>3, <1>4, <1>5, <2>1, Zenon DEF MirrorTyped
<1>7. InShop' = InShop
  BY <1>3 DEF InShop
<1>8. MirrorHolds'
  <2>1. CASE lastTransfer' = "nothing"
    BY <2>1, NothingHolds
  <2>2. CASE lastTransfer' = "pull" /\ InShop = {}
    BY <1>7, <2>2 DEF MirrorHolds
  <2>3. CASE lastTransfer' = "pull" /\ InShop # {}
    <3>1. r.clean
      <4>1. lastTransfer' # "nothing"
        BY <2>3
      <4> QED
        BY <1>2, <1>4, <4>1, Zenon
    <3>2. /\ \A e \in r.seen :
               /\ e \in Held /\ entries[e].api \in InShop
               /\ entries[e].is = shopEntries[entries[e].api].is /\ entries[e].inv = (entries[e].api = shopBill)
          /\ \A i \in InShop : \E e \in r.seen : entries[e].api = i
          /\ \A e, f \in r.seen : entries[e].api = entries[f].api => e = f
      <4>1. InShop \ r.todo = InShop
        BY <1>3
      <4> QED
        BY <1>1, <1>2, <1>3, <3>1, <4>1, Zenon DEF PullGood, Carrying, Stage
    <3>3. r.seen \subseteq Held /\ r.seen # {}
      BY <2>3, <3>2
    <3>4. Held' = r.seen /\ \A e \in r.seen : entries'[e] = entries[e]
      BY <1>5, <3>3
    <3>5. \A i \in InShop : \E e \in Held' : entries'[e].api = i /\ entries'[e].is = shopEntries[i].is
                                             /\ entries'[e].inv = (i = shopBill)
      <4> SUFFICES ASSUME NEW i \in InShop
                   PROVE  \E e \in r.seen : entries'[e].api = i /\ entries'[e].is = shopEntries[i].is
                                             /\ entries'[e].inv = (i = shopBill)
        BY <3>4, Zenon
      <4>1. PICK e \in r.seen : entries[e].api = i
        BY <3>2
      <4>2. entries[e].is = shopEntries[entries[e].api].is /\ entries[e].inv = (entries[e].api = shopBill)
        BY <3>2, Zenon
      <4>3. entries'[e] = entries[e]
        BY <3>4
      <4>4. entries'[e].api = i /\ entries'[e].is = shopEntries[i].is /\ entries'[e].inv = (i = shopBill)
        BY <4>1, <4>2, <4>3, Zenon
      <4> QED
        BY <4>4
    <3>6. Cardinality(r.seen) = Cardinality(InShop)
      <4>1. IsFiniteSet(r.seen)
        <5>1. IsFiniteSet(Entries)
          BY FS_Interval, MirrorBounds DEF Entries
        <5>2. r.seen \subseteq Entries
          BY DEF TransferRecords
        <5> QED
          BY <5>1, <5>2, FS_Subset
      <4>2. PICK f : f = [e \in r.seen |-> entries[e].api]
        OBVIOUS
      <4>3. f \in [r.seen -> InShop] /\ \A e \in r.seen : f[e] = entries[e].api
        BY <3>2, <4>2
      <4>4. f \in Bijection(r.seen, InShop)
        BY <3>2, <4>3 DEF Bijection, Injection, Surjection, IsInjective
      <4>5. ExistsBijection(r.seen, InShop)
        BY <4>4 DEF ExistsBijection
      <4> QED
        BY <4>1, <4>5, FS_Bijection
    <3>7. Cardinality(Held') = Cardinality(InShop')
      BY <1>7, <3>4, <3>6
    <3>8. lastTransfer' # "import" /\ lastTransfer' # "push" /\ shopEntries' = shopEntries /\ shopBill' = shopBill
      BY <1>3, <2>3
    <3> QED
      BY <1>7, <3>5, <3>7, <3>8, Zenon DEF MirrorHolds
  <2> QED
    BY <1>4, <2>1, <2>2, <2>3
<1>9. CardsPossible(erpEntries')
  BY <1>1, <1>3
<1> QED
  BY <1>4, <1>6, <1>8, <1>9, Zenon DEF MirrorIInv, MirrorInv

-----------------------------------------------------------------------------
(* Where an address goes is there.                                            *)
LEMMA GoalFacts ==
  ASSUME NEW list \in [ShopSlots -> Copies], NEW rows \in [Entries -> EntryRecords], NEW e \in Entries,
         Goal(list, rows, e) # 0
  PROVE  Goal(list, rows, e) \in ShopSlots /\ list[Goal(list, rows, e)].here
<1> DEFINE at == {i \in DOMAIN list : list[i].here /\ list[i].is.spot = rows[e].is.spot /\ rows[e].is.spot # NoSpot}
<1>1. rows[e].api \in 0 .. MaxShopEntries
  BY DEF EntryRecords
<1>2. CASE rows[e].api # 0 /\ list[rows[e].api].here
  <2>1. Goal(list, rows, e) = rows[e].api
    BY <1>2, Zenon DEF Goal
  <2>2. rows[e].api \in ShopSlots
    BY <1>1, <1>2, MirrorBounds DEF ShopSlots
  <2> QED
    BY <1>2, <2>1, <2>2, Zenon
<1>3. CASE ~ (rows[e].api # 0 /\ list[rows[e].api].here) /\ at # {}
  <2>1. Goal(list, rows, e) = Max(at)
    BY <1>3, Zenon DEF Goal
  <2>2. at \subseteq 1 .. MaxShopEntries
    BY DEF ShopSlots
  <2>3. Max(at) \in at
    BY <1>3, <2>2, MirrorBounds, SomeMax
  <2>4. PICK m : m = Max(at)
    OBVIOUS
  <2>5. m \in ShopSlots /\ list[m].here
    BY <2>3, <2>4
  <2> QED
    BY <2>1, <2>4, <2>5, Zenon
<1>4. CASE ~ (rows[e].api # 0 /\ list[rows[e].api].here) /\ at = {}
  <2>1. Goal(list, rows, e) = 0
    BY <1>4, Zenon DEF Goal
  <2> QED
    BY <2>1
<1> QED
  BY <1>2, <1>3, <1>4, Zenon

LEMMA SendStartsKeeps ==
  ASSUME MirrorIInv, NEW t \in Transfers, SendStarts(t)
  PROVE  MirrorIInv'
<1>0. PICK list : list = IF inShopware THEN shopEntries ELSE [i \in ShopSlots |-> NoCopy]
  OBVIOUS
<1>1. PICK r : r = Starts("push", list, Held, entries)
  OBVIOUS
<1>2. /\ shopLinked' = TRUE /\ Now(t, r)
      /\ UNCHANGED <<entries, shopEntries, shopBill, erpEntries, inShopware, entryEdits>>
  BY <1>0, <1>1, Zenon DEF SendStarts
<1>3. MirrorTyped /\ CardsPossible(erpEntries)
  BY DEF MirrorIInv, MirrorInv
<1>4. list \in [ShopSlots -> Copies] /\ (inShopware => list = shopEntries)
  BY <1>0, <1>3, MirrorRecords DEF MirrorTyped
<1>5. Held \subseteq Entries /\ entries \in [Entries -> EntryRecords]
  BY <1>3 DEF MirrorTyped, Held
<1>6. /\ r \in TransferRecords /\ Fits(r) /\ r.clean
      /\ r.pc = "push" /\ r.list = list /\ r.todo = Held /\ r.rows = entries
  <2>1. list \in [ShopSlots -> Copies] \cup [ErpCards -> Copies]
    BY <1>4
  <2>2. Held \in (SUBSET ShopSlots) \cup (SUBSET Entries) \cup (SUBSET ErpCards)
    BY <1>5
  <2>3. entries \in {<<>>} \cup [Entries -> EntryRecords]
    BY <1>5
  <2>4. PICK p : p = "push"
    OBVIOUS
  <2>5. p \in {"pull", "push", "import"} /\ p # "pull" /\ p # "import"
    BY <2>4
  <2>6. /\ Starts(p, list, Held, entries) \in TransferRecords /\ Fits(Starts(p, list, Held, entries))
        /\ Starts(p, list, Held, entries).clean
        /\ Starts(p, list, Held, entries).pc = p /\ Starts(p, list, Held, entries).list = list
        /\ Starts(p, list, Held, entries).todo = Held /\ Starts(p, list, Held, entries).rows = entries
    BY <1>3, <1>4, <1>5, <2>1, <2>2, <2>3, <2>5, StartFacts
  <2> QED
    BY <1>1, <2>4, <2>6, Zenon
<1>7. /\ transfer' \in [Transfers -> TransferRecords] /\ \A u \in Transfers : Fits(transfer'[u])
      /\ transfer'[t] = r /\ lastTransfer' = "nothing" /\ MirrorHolds'
      /\ \A u \in Transfers \ {t} : PullGood(u)' /\ PushGood(u)' /\ ImportGood(u)'
  BY <1>2, <1>6, NowKeeps
<1>8. MirrorTyped'
  BY <1>2, <1>3, <1>7, Zenon DEF MirrorTyped
<1>9. PushGood(t)'
  <2>1. Held' = Held
    BY <1>2 DEF Held
  <2>2. transfer'[t].rows = entries' /\ transfer'[t].todo = Held' /\ (inShopware' => transfer'[t].list = shopEntries')
    BY <1>2, <1>4, <1>6, <1>7, <2>1
  <2>3. inShopware' => /\ \A e \in Entries : entries'[e].here = transfer'[t].rows[e].here /\ entries'[e].is = transfer'[t].rows[e].is
                       /\ transfer'[t].todo \subseteq Held' /\ Held' \ transfer'[t].todo = {}
                       /\ \A i \in ShopSlots : transfer'[t].list[i].here => shopEntries'[i].here
    BY <2>2
  <2> QED
    BY <2>3, Zenon DEF PushGood
<1>10. PullGood(t)' /\ ImportGood(t)'
  <2>1. ~Stage(t, "pull")' /\ ~Stage(t, "import")'
    BY <1>6, <1>7 DEF Stage
  <2> QED
    BY <2>1, Zenon DEF PullGood, ImportGood, Carrying
<1>11. CardsPossible(erpEntries')
  BY <1>2, <1>3
<1> QED
  BY <1>7, <1>8, <1>9, <1>10, <1>11, Zenon DEF MirrorIInv, MirrorInv

(* What is done is no longer to do.                                           *)
LEMMA TodoFacts ==
  ASSUME NEW r \in TransferRecords, Fits(r), NEW e, NEW q, q = [r EXCEPT !.todo = @ \ {e}]
  PROVE  /\ q \in TransferRecords /\ Fits(q) /\ (q.clean <=> r.clean)
         /\ q.pc = r.pc /\ q.list = r.list /\ q.rows = r.rows /\ q.seen = r.seen /\ q.todo = r.todo \ {e}
<1>1. PICK todo : todo = r.todo \ {e}
  OBVIOUS
<1>2. todo \in (SUBSET ShopSlots) \cup (SUBSET Entries) \cup (SUBSET ErpCards) /\ todo \subseteq r.todo
  BY <1>1 DEF TransferRecords
<1>3. q = [r EXCEPT !.todo = todo]
  BY <1>1
<1>4. q \in TransferRecords /\ q.pc = r.pc /\ q.list = r.list /\ q.rows = r.rows /\ q.seen = r.seen /\ q.todo = todo
  BY <1>2, <1>3 DEF TransferRecords
<1>5. q.clean <=> r.clean
  <2>1. q.clean = r.clean
    BY <1>3, Zenon DEF TransferRecords
  <2> QED
    BY <2>1, Zenon
<1>6. Fits(q)
  BY <1>2, <1>4 DEF Fits
<1> QED
  BY <1>1, <1>4, <1>5, <1>6

LEMMA SpoiltFacts ==
  ASSUME NEW r \in TransferRecords, Fits(r), NEW e, NEW q, q = [r EXCEPT !.todo = @ \ {e}, !.clean = FALSE]
  PROVE  q \in TransferRecords /\ Fits(q) /\ ~q.clean
<1>1. PICK p : p = [r EXCEPT !.todo = @ \ {e}]
  OBVIOUS
<1>2. p \in TransferRecords /\ Fits(p)
  BY <1>1, TodoFacts
<1>3. q = [p EXCEPT !.clean = FALSE]
  BY <1>1 DEF TransferRecords
<1> QED
  BY <1>2, <1>3, Disturbed

(* Keeping an id changes nothing an address says.                             *)
LEMMA KeepsIdFacts ==
  ASSUME MirrorTyped, NEW e \in Entries, NEW i \in ShopSlots,
         entries' = IF entries[e].here THEN [entries EXCEPT ![e].api = i] ELSE entries
  PROVE  /\ entries' \in [Entries -> EntryRecords]
         /\ \A f \in Entries : entries'[f].here = entries[f].here /\ entries'[f].is = entries[f].is
<1>1. entries \in [Entries -> EntryRecords] /\ i \in 0 .. MaxShopEntries
  BY MirrorBounds DEF MirrorTyped, ShopSlots
<1>2. CASE entries' = entries
  BY <1>1, <1>2
<1>3. CASE entries' = [entries EXCEPT ![e].api = i]
  <2>1. PICK o \in EntryRecords : o = entries[e]
    BY <1>1
  <2>2. PICK k : k = [o EXCEPT !.api = i]
    OBVIOUS
  <2>3. k \in EntryRecords /\ k.is = o.is
    BY <1>1, <2>2 DEF EntryRecords
  <2>4. k.here = o.here
    BY <2>2, Zenon DEF EntryRecords
  <2>5. entries' = [entries EXCEPT ![e] = k]
    BY <1>1, <1>3, <2>1, <2>2
  <2>6. entries' \in [Entries -> EntryRecords] /\ entries'[e] = k /\ \A f \in Entries \ {e} : entries'[f] = entries[f]
    BY <1>1, <2>3, <2>5
  <2>7. ASSUME NEW f \in Entries PROVE entries'[f].here = entries[f].here /\ entries'[f].is = entries[f].is
    <3>1. CASE f = e
      BY <2>1, <2>3, <2>4, <2>6, <3>1, Zenon
    <3>2. CASE f # e
      <4>1. entries'[f] = entries[f]
        BY <2>6, <3>2
      <4> QED
        BY <4>1, Zenon
    <3> QED
      BY <3>1, <3>2
  <2> QED
    BY <2>6, <2>7
<1> QED
  BY <1>2, <1>3, Zenon

(* An address goes to where no other one goes.                                *)
LEMMA GoalsDiffer ==
  ASSUME NEW list, NEW rows, NEW e \in Entries, NEW f \in Entries, rows[e].here, rows[f].here, e # f,
         ~Meet(list, rows), Goal(list, rows, e) # 0
  PROVE  Goal(list, rows, f) # Goal(list, rows, e)
BY Zenon DEF Meet

(* What the sending of one address to a place comes to: i is where it goes, or  *)
(* is new.                                                                    *)
LEMMA SentKeeps ==
  ASSUME MirrorIInv, NEW t \in Transfers, Stage(t, "push"), NEW e \in transfer[t].todo, NEW i \in ShopSlots, NEW card \in Copies,
         card.here, Carries(card.is, transfer[t].rows[e].is), shopEntries' = [shopEntries EXCEPT ![i] = card],
         \/ Goal(transfer[t].list, transfer[t].rows, e) = i
         \/ Goal(transfer[t].list, transfer[t].rows, e) = 0 /\ i \notin InShop,
         entries' = entries \/ entries' = IF entries[e].here THEN [entries EXCEPT ![e].api = i] ELSE entries,
         Now(t, [transfer[t] EXCEPT !.todo = @ \ {e}]),
         UNCHANGED <<shopBill, erpEntries, shopLinked, inShopware, entryEdits>>
  PROVE  MirrorIInv'
<1>1. MirrorTyped /\ CardsPossible(erpEntries) /\ PushGood(t)
  BY DEF MirrorIInv, MirrorInv
<1>2. PICK r \in TransferRecords : r = transfer[t] /\ Fits(r) /\ r.pc = "push"
  BY <1>1 DEF MirrorTyped, Stage
<1>3. r.todo \subseteq Entries /\ r.rows \in [Entries -> EntryRecords] /\ r.list \in [ShopSlots -> Copies] /\ e \in r.todo
  BY <1>2 DEF Fits
<1>4. PICK q : q = [r EXCEPT !.todo = @ \ {e}]
  OBVIOUS
<1>5. /\ q \in TransferRecords /\ Fits(q) /\ (q.clean <=> r.clean)
      /\ q.pc = r.pc /\ q.list = r.list /\ q.rows = r.rows /\ q.seen = r.seen /\ q.todo = r.todo \ {e}
  BY <1>2, <1>4, TodoFacts
<1>6. /\ transfer' \in [Transfers -> TransferRecords] /\ \A u \in Transfers : Fits(transfer'[u])
      /\ transfer'[t] = q /\ lastTransfer' = "nothing" /\ MirrorHolds'
      /\ \A u \in Transfers \ {t} : PullGood(u)' /\ PushGood(u)' /\ ImportGood(u)'
  BY <1>2, <1>4, <1>5, NowKeeps
<1>7. /\ entries' \in [Entries -> EntryRecords]
      /\ \A f \in Entries : entries'[f].here = entries[f].here /\ entries'[f].is = entries[f].is
  <2>1. e \in Entries
    BY <1>3
  <2>2. CASE entries' = entries
    BY <1>1, <2>2 DEF MirrorTyped
  <2>3. CASE entries' = IF entries[e].here THEN [entries EXCEPT ![e].api = i] ELSE entries
    BY <1>1, <2>1, <2>3, KeepsIdFacts
  <2> QED
    BY <2>2, <2>3, Zenon
<1>8. /\ shopEntries' \in [ShopSlots -> Copies] /\ shopEntries'[i] = card
      /\ \A j \in ShopSlots \ {i} : shopEntries'[j] = shopEntries[j]
  BY <1>1 DEF MirrorTyped
<1>9. MirrorTyped'
  BY <1>1, <1>6, <1>7, <1>8, Zenon DEF MirrorTyped
<1>10. PushGood(t)'
  <2>1. Held' = Held
    BY <1>7, Zenon DEF Held
  <2> DEFINE Goes(list, rows, todo, held) ==
               /\ \A f \in Entries : entries'[f].here = rows[f].here /\ entries'[f].is = rows[f].is
               /\ todo \subseteq held
               /\ \A j \in ShopSlots : list[j].here => shopEntries'[j].here
               /\ \A f \in held \ todo :
                    IF Goal(list, rows, f) # 0
                    THEN Carries(shopEntries'[Goal(list, rows, f)].is, rows[f].is)
                    ELSE \E j \in InShop' : ~list[j].here /\ Carries(shopEntries'[j].is, rows[f].is)
  <2>20. (transfer'[t].clean /\ inShopware' /\ ~Meet(transfer'[t].list, transfer'[t].rows) =>
            Goes(transfer'[t].list, transfer'[t].rows, transfer'[t].todo, Held')) => PushGood(t)'
    BY Zenon DEF PushGood, Carrying
  <2> SUFFICES ASSUME r.clean, inShopware, ~Meet(r.list, r.rows)
               PROVE  Goes(r.list, r.rows, q.todo, Held)
    <3> HIDE DEF Goes
    <3> QED
      BY <1>5, <1>6, <2>1, <2>20, Zenon
  <2>2. /\ \A f \in Entries : entries[f].here = r.rows[f].here /\ entries[f].is = r.rows[f].is
        /\ r.todo \subseteq Held
        /\ \A j \in ShopSlots : r.list[j].here => shopEntries[j].here
        /\ \A f \in Held \ r.todo :
             IF Goal(r.list, r.rows, f) # 0
             THEN Carries(shopEntries[Goal(r.list, r.rows, f)].is, r.rows[f].is)
             ELSE \E j \in InShop : ~r.list[j].here /\ Carries(shopEntries[j].is, r.rows[f].is)
    BY <1>1, <1>2, Zenon DEF PushGood, Carrying
  <2>3. \A f \in Entries : entries'[f].here = r.rows[f].here /\ entries'[f].is = r.rows[f].is
    BY <1>7, <2>2, Zenon
  <2>4. q.todo \subseteq Held
    BY <1>5, <2>2
  <2>5. \A j \in ShopSlots : shopEntries[j].here => shopEntries'[j].here
    BY <1>8, Zenon
  <2>6. \A f \in Held : f \in Entries /\ r.rows[f].here
    <3>1. \A f \in Held : f \in Entries /\ entries[f].here
      BY DEF Held
    <3> QED
      BY <2>2, <3>1, Zenon
  <2>7. e \in Held /\ e \in Entries
    BY <1>3, <2>2
  <2>8. Goal(r.list, r.rows, e) = i => r.list[i].here
    <3>1. i # 0
      BY MirrorBounds DEF ShopSlots
    <3> QED
      BY <1>3, <2>7, <3>1, GoalFacts
  <2>9. Goal(r.list, r.rows, e) = i \/ (Goal(r.list, r.rows, e) = 0 /\ i \notin InShop /\ ~r.list[i].here)
    <3>1. i \notin InShop => ~shopEntries[i].here
      BY DEF InShop
    <3> QED
      BY <1>2, <2>2, <3>1, Zenon
  <2>10. \A j : j \in InShop <=> j \in ShopSlots /\ shopEntries[j].here
    BY DEF InShop
  <2>11. \A j : j \in InShop' <=> j \in ShopSlots /\ shopEntries'[j].here
    BY DEF InShop
  <2>12. ASSUME NEW f \in Held \ q.todo, Goal(r.list, r.rows, f) # 0
         PROVE  Carries(shopEntries'[Goal(r.list, r.rows, f)].is, r.rows[f].is)
    <3>1. f \in Entries /\ Goal(r.list, r.rows, f) \in ShopSlots /\ r.list[Goal(r.list, r.rows, f)].here
      BY <1>3, <2>6, <2>12, GoalFacts
    <3>2. CASE f = e
      <4>1. Goal(r.list, r.rows, f) = i
        BY <2>9, <2>12, <3>2, Zenon
      <4> QED
        BY <1>2, <1>8, <3>2, <4>1, Zenon
    <3>3. CASE f # e
      <4>1. Goal(r.list, r.rows, e) # Goal(r.list, r.rows, f)
        BY <2>6, <2>7, <2>12, <3>1, <3>3, GoalsDiffer, Zenon
      <4>2. Goal(r.list, r.rows, f) # i
        BY <2>9, <3>1, <4>1, Zenon
      <4>3. f \in Held \ r.todo
        BY <1>5, <3>3
      <4>4. Carries(shopEntries[Goal(r.list, r.rows, f)].is, r.rows[f].is)
        BY <2>2, <2>12, <4>3, Zenon
      <4>5. shopEntries'[Goal(r.list, r.rows, f)] = shopEntries[Goal(r.list, r.rows, f)]
        BY <1>8, <3>1, <4>2
      <4> QED
        BY <4>4, <4>5, Zenon
    <3> QED
      BY <3>2, <3>3
  <2>13. ASSUME NEW f \in Held \ q.todo, Goal(r.list, r.rows, f) = 0
         PROVE  \E j \in InShop' : ~r.list[j].here /\ Carries(shopEntries'[j].is, r.rows[f].is)
    <3>1. CASE f = e
      <4>1. ~r.list[i].here
        <5>1. i # 0
          BY MirrorBounds DEF ShopSlots
        <5> QED
          BY <2>9, <2>13, <3>1, <5>1, Zenon
      <4>2. i \in InShop'
        BY <1>8, <2>11, Zenon
      <4> QED
        BY <1>2, <1>8, <3>1, <4>1, <4>2, Zenon
    <3>2. CASE f # e
      <4>1. f \in Held \ r.todo
        BY <1>5, <3>2
      <4>2. PICK j \in InShop : ~r.list[j].here /\ Carries(shopEntries[j].is, r.rows[f].is)
        BY <2>2, <2>13, <4>1, Zenon
      <4>3. j # i
        BY <2>8, <2>9, <4>2, Zenon
      <4>4. j \in ShopSlots /\ shopEntries'[j] = shopEntries[j]
        BY <1>8, <2>10, <4>3
      <4>5. j \in InShop'
        BY <2>5, <2>10, <2>11, Zenon
      <4> QED
        BY <4>2, <4>4, <4>5, Zenon
    <3> QED
      BY <3>1, <3>2
  <2>14. \A j \in ShopSlots : r.list[j].here => shopEntries'[j].here
    BY <2>2, <2>5, Zenon
  <2> QED
    BY <2>3, <2>4, <2>12, <2>13, <2>14, Zenon
<1>11. PullGood(t)' /\ ImportGood(t)'
  <2>1. ~Stage(t, "pull")' /\ ~Stage(t, "import")'
    BY <1>2, <1>5, <1>6 DEF Stage
  <2> QED
    BY <2>1, Zenon DEF PullGood, ImportGood, Carrying
<1>12. CardsPossible(erpEntries')
  BY <1>1
<1> QED
  BY <1>6, <1>9, <1>10, <1>11, <1>12, Zenon DEF MirrorIInv, MirrorInv

LEMMA PatchFacts ==
  ASSUME MirrorTyped, NEW i \in ShopSlots, NEW is \in Content, shopEntries' = [shopEntries EXCEPT ![i].is = is]
  PROVE  \E card \in Copies : /\ card.is = is /\ card.here = shopEntries[i].here
                              /\ shopEntries' = [shopEntries EXCEPT ![i] = card]
<1>1. PICK o \in Copies : o = shopEntries[i]
  BY DEF MirrorTyped
<1>2. PICK card : card = [o EXCEPT !.is = is]
  OBVIOUS
<1>3. card \in Copies /\ card.is = is
  BY <1>2 DEF Copies
<1>4. card.here = o.here
  BY <1>2, Zenon DEF Copies
<1>5. shopEntries' = [shopEntries EXCEPT ![i] = card]
  BY <1>1, <1>2 DEF MirrorTyped
<1> QED
  BY <1>1, <1>3, <1>4, <1>5, Zenon

(* What an address is sent as is what it carries, and the shop can have it.     *)
LEMMA PatchedCarries ==
  ASSUME NEW old \in Content, NEW is \in Content
  PROVE  Patched(old, is) \in Content /\ Carries(Patched(old, is), is)
<1>1. PICK new : new = Patched(old, is)
  OBVIOUS
<1>2. PICK phone \in Phones : phone = (IF is.phone = NoPhone THEN old.phone ELSE is.phone)
  BY DEF Content
<1>3. Placed[is.spot] \in Spots /\ Worded[is.wording] \in Wordings
  BY MirrorBounds DEF Content
<1>4. new = [[[old EXCEPT !.spot = Placed[is.spot]] EXCEPT !.wording = Worded[is.wording]] EXCEPT !.phone = phone]
  BY <1>1, <1>2 DEF Patched, Content
<1>5. new \in Content /\ new.spot = Placed[is.spot] /\ new.wording = Worded[is.wording] /\ new.phone = phone
  BY <1>3, <1>4 DEF Content
<1>6. Carries(new, is)
  BY <1>2, <1>5 DEF Carries
<1> QED
  BY <1>1, <1>5, <1>6

LEMMA NewOnesFacts ==
  ASSUME NEW list \in [ShopSlots -> Copies], NEW new \in NewOnes(list)
  PROVE  new \in Content
<1>1. NewRests(list) \subseteq Rests
  <2>1. \A i \in Listed(list) : list[i].is.rest \in Rests
    BY DEF Listed, Copies, Content
  <2>2. \A i \in Listed(list) : Country[list[i].is.rest] \in Rests
    BY <2>1, MirrorBounds
  <2> QED
    BY <2>2 DEF NewRests
<1>2. Somewhere.spot \in Spots /\ Somewhere.wording \in Wordings
  BY MirrorRecords DEF Content
<1> QED
  BY <1>1, <1>2, MirrorBounds DEF NewOnes, Content

(* What a sent address does to the shop.                                      *)
LEMMA PatchesFacts ==
  ASSUME MirrorTyped, NEW t \in Transfers, Stage(t, "push"), NEW e \in transfer[t].todo, PatchesThere(t, e)
  PROVE  \E i \in ShopSlots, card \in Copies :
           /\ i = Goal(transfer[t].list, transfer[t].rows, e)
           /\ card.here /\ Carries(card.is, transfer[t].rows[e].is)
           /\ shopEntries' = [shopEntries EXCEPT ![i] = card]
<1>1. PICK r \in TransferRecords : r = transfer[t] /\ Fits(r) /\ r.pc = "push"
  BY DEF MirrorTyped, Stage
<1>2. r.todo \subseteq Entries /\ r.rows \in [Entries -> EntryRecords] /\ r.list \in [ShopSlots -> Copies] /\ e \in Entries
  BY <1>1 DEF Fits
<1>3. PICK i : i = Goal(r.list, r.rows, e)
  OBVIOUS
<1>4. /\ i # 0 /\ shopEntries[i].here
      /\ shopEntries' = [shopEntries EXCEPT ![i].is = Patched(@, r.rows[e].is)]
  BY <1>1, <1>3, Zenon DEF PatchesThere
<1>5. i \in ShopSlots
  BY <1>2, <1>3, <1>4, GoalFacts
<1>6. PICK o : o = shopEntries[i].is
  OBVIOUS
<1>7. o \in Content /\ r.rows[e].is \in Content
  BY <1>2, <1>5, <1>6 DEF MirrorTyped, Copies, EntryRecords
<1>8. PICK new : new = Patched(o, r.rows[e].is)
  OBVIOUS
<1>9. new \in Content /\ Carries(new, r.rows[e].is)
  BY <1>7, <1>8, PatchedCarries
<1>10. shopEntries' = [shopEntries EXCEPT ![i].is = new]
  BY <1>4, <1>6, <1>8
<1>11. PICK card \in Copies : /\ card.is = new /\ card.here = shopEntries[i].here
                              /\ shopEntries' = [shopEntries EXCEPT ![i] = card]
  BY <1>5, <1>9, <1>10, PatchFacts
<1>12. card.here
  BY <1>4, <1>11, Zenon
<1>13. Carries(card.is, transfer[t].rows[e].is) /\ i = Goal(transfer[t].list, transfer[t].rows, e)
  BY <1>1, <1>3, <1>9, <1>11
<1> QED
  BY <1>5, <1>11, <1>12, <1>13, Zenon

LEMMA CreatesFacts ==
  ASSUME MirrorTyped, NEW t \in Transfers, Stage(t, "push"), NEW e \in transfer[t].todo, NEW i \in ShopSlots,
         CreatesThere(t, e, i)
  PROVE  \E card \in Copies : /\ card.here /\ Carries(card.is, transfer[t].rows[e].is)
                              /\ shopEntries' = [shopEntries EXCEPT ![i] = card]
<1>1. PICK r \in TransferRecords : r = transfer[t] /\ Fits(r) /\ r.pc = "push"
  BY DEF MirrorTyped, Stage
<1>2. r.rows \in [Entries -> EntryRecords] /\ r.list \in [ShopSlots -> Copies] /\ e \in Entries
  BY <1>1 DEF Fits
<1>3. PICK new \in NewOnes(r.list) : shopEntries' = [shopEntries EXCEPT ![i] = [here |-> TRUE, is |-> Patched(new, r.rows[e].is)]]
  BY <1>1, Zenon DEF CreatesThere
<1>4. new \in Content /\ r.rows[e].is \in Content
  BY <1>2, NewOnesFacts DEF EntryRecords
<1>5. PICK is : is = Patched(new, r.rows[e].is)
  OBVIOUS
<1>6. is \in Content /\ Carries(is, r.rows[e].is)
  BY <1>4, <1>5, PatchedCarries
<1>7. PICK card : card = [here |-> TRUE, is |-> is]
  OBVIOUS
<1>8. card \in Copies /\ card.is = is
  BY <1>6, <1>7 DEF Copies
<1>9. card.here
  BY <1>7, Zenon
<1>10. Carries(card.is, transfer[t].rows[e].is)
  BY <1>1, <1>6, <1>8
<1> QED
  BY <1>3, <1>5, <1>7, <1>8, <1>9, <1>10, Zenon

LEMMA SendPatchesKeeps ==
  ASSUME MirrorIInv, NEW t \in Transfers, SendPatches(t)
  PROVE  MirrorIInv'
<1>1. PICK e \in transfer[t].todo :
        /\ PatchesThere(t, e)
        /\ IF transfer[t].rows[e].api = 0 THEN KeepsId(e, Goal(transfer[t].list, transfer[t].rows, e)) ELSE UNCHANGED entries
        /\ Now(t, [transfer[t] EXCEPT !.todo = @ \ {e}])
  BY Zenon DEF SendPatches
<1>2. Stage(t, "push") /\ UNCHANGED <<shopBill, erpEntries, shopLinked, inShopware, entryEdits>>
  BY DEF SendPatches
<1>3. MirrorTyped
  BY DEF MirrorIInv
<1>4. PICK i \in ShopSlots, card \in Copies :
        /\ i = Goal(transfer[t].list, transfer[t].rows, e)
        /\ card.here /\ Carries(card.is, transfer[t].rows[e].is)
        /\ shopEntries' = [shopEntries EXCEPT ![i] = card]
  BY <1>1, <1>2, <1>3, PatchesFacts
<1>5. entries' = entries \/ entries' = IF entries[e].here THEN [entries EXCEPT ![e].api = i] ELSE entries
  BY <1>1, <1>4, Zenon DEF KeepsId
<1>6. Now(t, [transfer[t] EXCEPT !.todo = @ \ {e}])
  BY <1>1, Zenon
<1> QED
  BY <1>2, <1>4, <1>5, <1>6, SentKeeps

LEMMA SendCreatesKeeps ==
  ASSUME MirrorIInv, NEW t \in Transfers, SendCreates(t)
  PROVE  MirrorIInv'
<1>1. PICK e \in transfer[t].todo, i \in ShopSlots \ InShop :
        CreatesThere(t, e, i) /\ KeepsId(e, i) /\ Now(t, [transfer[t] EXCEPT !.todo = @ \ {e}])
  BY Zenon DEF SendCreates
<1>2. Stage(t, "push") /\ UNCHANGED <<shopBill, erpEntries, shopLinked, inShopware, entryEdits>>
  BY DEF SendCreates
<1>3. MirrorTyped
  BY DEF MirrorIInv
<1>4. i \in ShopSlots /\ i \notin InShop
  OBVIOUS
<1>5. PICK card \in Copies : /\ card.here /\ Carries(card.is, transfer[t].rows[e].is)
                             /\ shopEntries' = [shopEntries EXCEPT ![i] = card]
  BY <1>1, <1>2, <1>3, <1>4, CreatesFacts
<1>6. Goal(transfer[t].list, transfer[t].rows, e) = 0
  BY <1>1, Zenon DEF CreatesThere
<1>7. entries' = entries \/ entries' = IF entries[e].here THEN [entries EXCEPT ![e].api = i] ELSE entries
  BY <1>1, Zenon DEF KeepsId
<1>8. Now(t, [transfer[t] EXCEPT !.todo = @ \ {e}])
  BY <1>1, Zenon
<1> QED
  BY <1>2, <1>4, <1>5, <1>6, <1>7, <1>8, SentKeeps

LEMMA SpoiltKeeps ==
  ASSUME MirrorIInv, NEW t \in Transfers, NEW e, Now(t, [transfer[t] EXCEPT !.todo = @ \ {e}, !.clean = FALSE]),
         shopEntries' \in [ShopSlots -> Copies], entryEdits' \in 0 .. MaxEntryEdits,
         UNCHANGED <<entries, shopBill, erpEntries, shopLinked, inShopware>>
  PROVE  MirrorIInv'
<1>1. MirrorTyped /\ CardsPossible(erpEntries)
  BY DEF MirrorIInv, MirrorInv
<1>2. PICK q : q = [transfer[t] EXCEPT !.todo = @ \ {e}, !.clean = FALSE]
  OBVIOUS
<1>3. q \in TransferRecords /\ Fits(q) /\ ~q.clean
  BY <1>1, <1>2, SpoiltFacts DEF MirrorTyped
<1>4. Now(t, q)
  BY <1>2
<1>5. /\ transfer' \in [Transfers -> TransferRecords] /\ \A u \in Transfers : Fits(transfer'[u])
      /\ transfer'[t] = q /\ lastTransfer' = "nothing" /\ MirrorHolds'
      /\ \A u \in Transfers \ {t} : PullGood(u)' /\ PushGood(u)' /\ ImportGood(u)'
  BY <1>3, <1>4, NowKeeps
<1>6. MirrorTyped'
  BY <1>1, <1>5, Zenon DEF MirrorTyped
<1>7. PullGood(t)' /\ PushGood(t)' /\ ImportGood(t)'
  <2>1. ~transfer'[t].clean
    BY <1>3, <1>5, Zenon
  <2> QED
    BY <2>1, DisturbedIsGood
<1>8. CardsPossible(erpEntries')
  BY <1>1
<1> QED
  BY <1>5, <1>6, <1>7, <1>8, Zenon DEF MirrorIInv, MirrorInv

LEMMA SendMissesKeeps ==
  ASSUME MirrorIInv, NEW t \in Transfers, SendMisses(t)
  PROVE  MirrorIInv'
<1>1. PICK e \in transfer[t].todo : Now(t, [transfer[t] EXCEPT !.todo = @ \ {e}, !.clean = FALSE])
  BY Zenon DEF SendMisses
<1>2. UNCHANGED <<entries, shopEntries, shopBill, erpEntries, shopLinked, inShopware, entryEdits>>
  BY DEF SendMisses
<1>3. shopEntries' \in [ShopSlots -> Copies] /\ entryEdits' \in 0 .. MaxEntryEdits
  BY <1>2 DEF MirrorIInv, MirrorTyped
<1> QED
  BY <1>1, <1>2, <1>3, SpoiltKeeps

LEMMA SendFailsKeeps ==
  ASSUME MirrorIInv, NEW t \in Transfers, SendFails(t)
  PROVE  MirrorIInv'
<1>1. PICK e \in transfer[t].todo :
        /\ UNCHANGED shopEntries \/ PatchesThere(t, e) \/ \E i \in ShopSlots \ InShop : CreatesThere(t, e, i)
        /\ Now(t, [transfer[t] EXCEPT !.todo = @ \ {e}, !.clean = FALSE])
  BY Zenon DEF SendFails
<1>2. Stage(t, "push") /\ entryEdits < MaxEntryEdits /\ entryEdits' = entryEdits + 1
      /\ UNCHANGED <<entries, shopBill, erpEntries, shopLinked, inShopware>>
  BY DEF SendFails
<1>3. MirrorTyped
  BY DEF MirrorIInv
<1>4. shopEntries' \in [ShopSlots -> Copies]
  <2>1. CASE UNCHANGED shopEntries
    BY <1>3, <2>1 DEF MirrorTyped
  <2>2. CASE PatchesThere(t, e)
    <3>1. PICK i \in ShopSlots, card \in Copies : shopEntries' = [shopEntries EXCEPT ![i] = card]
      BY <1>2, <1>3, <2>2, PatchesFacts
    <3> QED
      BY <1>3, <3>1 DEF MirrorTyped
  <2>3. CASE \E i \in ShopSlots \ InShop : CreatesThere(t, e, i)
    <3>1. PICK i \in ShopSlots : CreatesThere(t, e, i)
      BY <2>3
    <3>2. PICK card \in Copies : shopEntries' = [shopEntries EXCEPT ![i] = card]
      BY <1>2, <1>3, <3>1, CreatesFacts
    <3> QED
      BY <1>3, <3>2 DEF MirrorTyped
  <2> QED
    BY <1>1, <2>1, <2>2, <2>3
<1>5. entryEdits' \in 0 .. MaxEntryEdits
  BY <1>2, <1>3, MirrorBounds DEF MirrorTyped
<1> QED
  BY <1>1, <1>2, <1>4, <1>5, SpoiltKeeps

LEMMA SendEndsKeeps ==
  ASSUME MirrorIInv, NEW t \in Transfers, SendEnds(t)
  PROVE  MirrorIInv'
<1>1. MirrorTyped /\ CardsPossible(erpEntries) /\ PushGood(t)
  BY DEF MirrorIInv, MirrorInv
<1>2. PICK r \in TransferRecords : r = transfer[t] /\ Fits(r)
  BY <1>1 DEF MirrorTyped
<1>3. PICK way : way = IF inShopware /\ ~Meet(r.list, r.rows) THEN "push" ELSE "nothing"
  OBVIOUS
<1>4. /\ r.pc = "push" /\ r.todo = {} /\ TransferEnds(t, way)
      /\ UNCHANGED <<entries, shopEntries, shopBill, erpEntries, shopLinked, inShopware, entryEdits>>
  BY <1>2, <1>3, Zenon DEF SendEnds, Stage
<1>5. /\ transfer' \in [Transfers -> TransferRecords] /\ \A u \in Transfers : Fits(transfer'[u])
      /\ lastTransfer' \in {way, "nothing"} /\ (lastTransfer' # "nothing" => transfer[t].clean)
      /\ \A u \in Transfers : PullGood(u)' /\ PushGood(u)' /\ ImportGood(u)'
  BY <1>4, EndKeeps
<1>6. lastTransfer' = "nothing" \/ (lastTransfer' = "push" /\ inShopware /\ ~Meet(r.list, r.rows) /\ r.clean)
  <2>1. way = "nothing" \/ (way = "push" /\ inShopware /\ ~Meet(r.list, r.rows))
    BY <1>3, Zenon
  <2> QED
    BY <1>2, <1>5, <2>1, Zenon
<1>7. MirrorTyped'
  <2>1. lastTransfer' \in {"nothing", "pull", "push", "import"}
    BY <1>6
  <2> QED
    BY <1>1, <1>4, <1>5, <2>1, Zenon DEF MirrorTyped
<1>8. MirrorHolds'
  <2>1. CASE lastTransfer' = "nothing"
    BY <2>1, NothingHolds
  <2>2. CASE lastTransfer' = "push" /\ inShopware /\ ~Meet(r.list, r.rows) /\ r.clean
    <3>1. /\ \A f \in Entries : entries[f].here = r.rows[f].here /\ entries[f].is = r.rows[f].is
          /\ \A j \in ShopSlots : r.list[j].here => shopEntries[j].here
          /\ \A f \in Held \ r.todo :
               IF Goal(r.list, r.rows, f) # 0
               THEN Carries(shopEntries[Goal(r.list, r.rows, f)].is, r.rows[f].is)
               ELSE \E j \in InShop : ~r.list[j].here /\ Carries(shopEntries[j].is, r.rows[f].is)
      BY <1>1, <1>2, <1>4, <2>2, Zenon DEF PushGood, Carrying, Stage
    <3>2. r.rows \in [Entries -> EntryRecords] /\ r.list \in [ShopSlots -> Copies]
      BY <1>2, <1>4 DEF Fits
    <3>3. ASSUME NEW f \in Held PROVE \E j \in InShop : Carries(shopEntries[j].is, entries[f].is)
      <4>1. f \in Held \ r.todo /\ f \in Entries
        BY <1>4 DEF Held
      <4>2. entries[f].is = r.rows[f].is
        BY <3>1, <4>1, Zenon
      <4>3. CASE Goal(r.list, r.rows, f) # 0
        <5>1. PICK j : j = Goal(r.list, r.rows, f)
          OBVIOUS
        <5>2. j \in ShopSlots /\ r.list[j].here
          BY <3>2, <4>1, <4>3, <5>1, GoalFacts
        <5>3. shopEntries[j].here /\ Carries(shopEntries[j].is, r.rows[f].is)
          BY <3>1, <4>1, <4>3, <5>1, <5>2, Zenon
        <5>4. j \in InShop
          BY <5>2, <5>3 DEF InShop
        <5> QED
          BY <4>2, <5>3, <5>4
      <4>4. CASE Goal(r.list, r.rows, f) = 0
        <5>1. PICK j \in InShop : Carries(shopEntries[j].is, r.rows[f].is)
          BY <3>1, <4>1, <4>4, Zenon
        <5> QED
          BY <4>2, <5>1
      <4> QED
        BY <4>3, <4>4
    <3>4. InShop' = InShop /\ Held' = Held
      BY <1>4 DEF InShop, Held
    <3>5. lastTransfer' # "pull" /\ lastTransfer' # "import"
      BY <2>2
    <3> QED
      BY <1>4, <3>3, <3>4, <3>5, Zenon DEF MirrorHolds
  <2> QED
    BY <1>6, <2>1, <2>2
<1>9. CardsPossible(erpEntries')
  BY <1>1, <1>4
<1> QED
  BY <1>5, <1>7, <1>8, <1>9, Zenon DEF MirrorIInv, MirrorInv

-----------------------------------------------------------------------------
LEMMA FetchStartsKeeps ==
  ASSUME MirrorIInv, NEW t \in Transfers, FetchStarts(t)
  PROVE  MirrorIInv'
<1>0. PICK todo : todo = {c \in ErpCards : erpEntries[c].here}
  OBVIOUS
<1>1. PICK r : r = Starts("import", erpEntries, todo, <<>>)
  OBVIOUS
<1>2. Now(t, r) /\ UNCHANGED <<entries, shopEntries, shopBill, erpEntries, shopLinked, inShopware, entryEdits>>
  BY <1>0, <1>1, Zenon DEF FetchStarts
<1>3. MirrorTyped /\ CardsPossible(erpEntries)
  BY DEF MirrorIInv, MirrorInv
<1>4. todo \subseteq ErpCards /\ \A c \in ErpCards : c \in todo <=> erpEntries[c].here
  BY <1>0
<1>5. /\ r \in TransferRecords /\ Fits(r) /\ r.clean
      /\ r.pc = "import" /\ r.list = erpEntries /\ r.todo = todo /\ r.seen = {}
  <2>1. erpEntries \in [ShopSlots -> Copies] \cup [ErpCards -> Copies] /\ erpEntries \in [ErpCards -> Copies]
    BY <1>3 DEF MirrorTyped
  <2>2. todo \in (SUBSET ShopSlots) \cup (SUBSET Entries) \cup (SUBSET ErpCards)
    BY <1>4
  <2>3. PICK rows : rows = <<>>
    OBVIOUS
  <2>4. rows \in {<<>>} \cup [Entries -> EntryRecords]
    BY <2>3
  <2>5. PICK p : p = "import"
    OBVIOUS
  <2>6. p \in {"pull", "push", "import"} /\ p # "pull" /\ p # "push"
    BY <2>5
  <2>7. /\ Starts(p, erpEntries, todo, rows) \in TransferRecords /\ Fits(Starts(p, erpEntries, todo, rows))
        /\ Starts(p, erpEntries, todo, rows).clean
        /\ Starts(p, erpEntries, todo, rows).pc = p /\ Starts(p, erpEntries, todo, rows).list = erpEntries
        /\ Starts(p, erpEntries, todo, rows).todo = todo /\ Starts(p, erpEntries, todo, rows).seen = {}
    BY <1>3, <1>4, <2>1, <2>2, <2>4, <2>6, StartFacts
  <2> QED
    BY <1>1, <2>3, <2>5, <2>7, Zenon
<1>6. /\ transfer' \in [Transfers -> TransferRecords] /\ \A u \in Transfers : Fits(transfer'[u])
      /\ transfer'[t] = r /\ lastTransfer' = "nothing" /\ MirrorHolds'
      /\ \A u \in Transfers \ {t} : PullGood(u)' /\ PushGood(u)' /\ ImportGood(u)'
  BY <1>2, <1>5, NowKeeps
<1>7. MirrorTyped'
  BY <1>2, <1>3, <1>6, Zenon DEF MirrorTyped
<1>8. ImportGood(t)'
  <2>1. transfer'[t].list = erpEntries' /\ transfer'[t].todo = todo /\ transfer'[t].seen = {} /\ erpEntries' = erpEntries
    BY <1>2, <1>5, <1>6
  <2>2. \A c \in todo : erpEntries[c].here
    BY <1>4, Zenon
  <2> QED
    BY <1>4, <2>1, <2>2 DEF ImportGood
<1>9. PullGood(t)' /\ PushGood(t)'
  <2>1. ~Stage(t, "pull")' /\ ~Stage(t, "push")'
    BY <1>5, <1>6 DEF Stage
  <2> QED
    BY <2>1, Zenon DEF PullGood, PushGood, Carrying
<1>10. CardsPossible(erpEntries')
  BY <1>2, <1>3
<1> QED
  BY <1>6, <1>7, <1>8, <1>9, <1>10, Zenon DEF MirrorIInv, MirrorInv

(* A card whose postal address lost its only row was never done: with a        *)
(* contact, there is none without.                                           *)
LEMMA NotBoth ==
  ASSUME CardsPossible(erpEntries), NEW c \in ErpCards, erpEntries[c].here, NEW d \in ErpCards, erpEntries[d].here,
         d = <<c[1], 0>>
  PROVE  d = c
<1>1. c \in {<<1, 0>>, <<1, 1>>, <<1, 2>>, <<2, 0>>}
  BY DEF ErpCards
<1>2. erpEntries[<<1, 0>>].here => ~erpEntries[<<1, 1>>].here /\ ~erpEntries[<<1, 2>>].here
  BY DEF CardsPossible
<1>3. CASE c = <<1, 0>> \/ c = <<2, 0>>
  BY <1>3
<1>4. CASE c = <<1, 1>>
  <2>1. d = <<1, 0>>
    BY <1>4
  <2> QED
    BY <1>2, <1>4, <2>1, Zenon
<1>5. CASE c = <<1, 2>>
  <2>1. d = <<1, 0>>
    BY <1>5
  <2> QED
    BY <1>2, <1>5, <2>1, Zenon
<1> QED
  BY <1>1, <1>3, <1>4, <1>5

LEMMA FetchSavesKeeps ==
  ASSUME MirrorIInv, NEW t \in Transfers, FetchSaves(t)
  PROVE  MirrorIInv'
<1>1. MirrorTyped /\ CardsPossible(erpEntries) /\ ImportGood(t)
  BY DEF MirrorIInv, MirrorInv
<1>2. PICK r \in TransferRecords : r = transfer[t] /\ Fits(r)
  BY <1>1 DEF MirrorTyped
<1>3. /\ r.pc = "import" /\ UNCHANGED <<shopEntries, shopBill, erpEntries, shopLinked, inShopware, entryEdits>>
      /\ \E c \in r.todo : \E e \in FirstOf(ByCard(c), WithoutContact(c), Unused) :
           /\ entries' = [entries EXCEPT ![e] =
               [here |-> TRUE, is |-> r.list[c].is, api |-> IF @.here THEN @.api ELSE 0, card |-> c, inv |-> c[1] = 1]]
           /\ Now(t, [r EXCEPT !.todo = @ \ {c}, !.seen = @ \cup {e}])
  BY <1>2, Zenon DEF FetchSaves, Stage
<1>4. PICK c \in r.todo : \E e \in FirstOf(ByCard(c), WithoutContact(c), Unused) :
           /\ entries' = [entries EXCEPT ![e] =
               [here |-> TRUE, is |-> r.list[c].is, api |-> IF @.here THEN @.api ELSE 0, card |-> c, inv |-> c[1] = 1]]
           /\ Now(t, [r EXCEPT !.todo = @ \ {c}, !.seen = @ \cup {e}])
  BY <1>3
<1>5. PICK e \in FirstOf(ByCard(c), WithoutContact(c), Unused) :
           /\ entries' = [entries EXCEPT ![e] =
               [here |-> TRUE, is |-> r.list[c].is, api |-> IF @.here THEN @.api ELSE 0, card |-> c, inv |-> c[1] = 1]]
           /\ Now(t, [r EXCEPT !.todo = @ \ {c}, !.seen = @ \cup {e}])
  BY <1>4
<1>6. r.todo \subseteq ErpCards /\ r.list \in [ErpCards -> Copies] /\ c \in ErpCards
  BY <1>2, <1>3 DEF Fits
<1>7. e \in Entries /\ (e \in Held => entries[e].card = c \/ entries[e].card = <<c[1], 0>>)
  BY <1>5, FirstOfFacts DEF ByCard, WithoutContact, Unused, Held
<1>8. PICK k \in EntryRecords :
        /\ entries' = [entries EXCEPT ![e] = k]
        /\ k.here = TRUE /\ k.is = r.list[c].is /\ k.card = c
  <2>1. PICK api : api = IF entries[e].here THEN entries[e].api ELSE 0
    OBVIOUS
  <2>2. PICK k : k = [here |-> TRUE, is |-> r.list[c].is, api |-> api, card |-> c, inv |-> c[1] = 1]
    OBVIOUS
  <2>3. entries' = [entries EXCEPT ![e] = k]
    BY <1>5, <2>1, <2>2, Zenon
  <2>4. api \in 0 .. MaxShopEntries /\ r.list[c].is \in Content
    BY <1>1, <1>6, <1>7, <2>1, MirrorBounds DEF MirrorTyped, EntryRecords, Copies
  <2>5. k \in EntryRecords
    BY <1>6, <2>2, <2>4 DEF EntryRecords
  <2>6. k.here = TRUE /\ k.is = r.list[c].is /\ k.card = c
    BY <2>2, Zenon
  <2> QED
    BY <2>3, <2>5, <2>6
<1>9. entries' \in [Entries -> EntryRecords] /\ entries'[e] = k /\ \A f \in Entries \ {e} : entries'[f] = entries[f]
  BY <1>1, <1>7, <1>8 DEF MirrorTyped
<1>10. PICK p, met, q : p = [r EXCEPT !.todo = @ \ {c}] /\ met = r.seen \cup {e} /\ q = [p EXCEPT !.seen = met]
  OBVIOUS
<1>11. /\ q \in TransferRecords /\ Fits(q) /\ (q.clean <=> r.clean)
       /\ q.pc = "import" /\ q.list = r.list /\ q.seen = r.seen \cup {e} /\ q.todo = r.todo \ {c}
  <2>1. /\ p \in TransferRecords /\ Fits(p) /\ (p.clean <=> r.clean)
        /\ p.pc = r.pc /\ p.list = r.list /\ p.seen = r.seen /\ p.todo = r.todo \ {c}
    BY <1>2, <1>10, TodoFacts
  <2>2. met \in SUBSET Entries /\ met = r.seen \cup {e}
    BY <1>7, <1>10 DEF TransferRecords
  <2>3. q = [p EXCEPT !.seen = met]
    BY <1>10
  <2>4. q \in TransferRecords /\ q.pc = p.pc /\ q.list = p.list /\ q.rows = p.rows /\ q.todo = p.todo /\ q.seen = met
    BY <2>1, <2>2, <2>3 DEF TransferRecords
  <2>5. q.clean = p.clean
    BY <2>1, <2>3, Zenon DEF TransferRecords
  <2>6. Fits(q)
    BY <2>1, <2>4, Zenon DEF Fits
  <2> QED
    BY <1>3, <2>1, <2>2, <2>4, <2>5, <2>6, Zenon
<1>12. Now(t, q)
  <2>1. q = [r EXCEPT !.todo = @ \ {c}, !.seen = @ \cup {e}]
    BY <1>10 DEF TransferRecords
  <2> QED
    BY <1>5, <2>1, Zenon
<1>13. /\ transfer' \in [Transfers -> TransferRecords] /\ \A u \in Transfers : Fits(transfer'[u])
       /\ transfer'[t] = q /\ lastTransfer' = "nothing" /\ MirrorHolds'
       /\ \A u \in Transfers \ {t} : PullGood(u)' /\ PushGood(u)' /\ ImportGood(u)'
  BY <1>11, <1>12, NowKeeps
<1>14. MirrorTyped'
  BY <1>1, <1>3, <1>9, <1>13, Zenon DEF MirrorTyped
<1>15. Held' = Held \cup {e}
  <2>1. k.here
    BY <1>8, Zenon
  <2> QED
    BY <1>7, <1>9, <2>1 DEF Held
<1>16. ImportGood(t)'
  <2>0. erpEntries' = erpEntries
    BY <1>3
  <2> DEFINE Goes(list, todo, seen, cards) ==
               /\ list = cards
               /\ \A d \in todo : cards[d].here
               /\ \A f \in seen : f \in Held' /\ entries'[f].card \in ErpCards /\ cards[entries'[f].card].here
               /\ \A d \in ErpCards : cards[d].here /\ d \notin todo =>
                    \E f \in seen : entries'[f].card = d /\ entries'[f].is = cards[d].is
  <2>10. (transfer'[t].clean => Goes(transfer'[t].list, transfer'[t].todo, transfer'[t].seen, erpEntries')) => ImportGood(t)'
    BY Zenon DEF ImportGood, Carrying
  <2> SUFFICES ASSUME r.clean
               PROVE  Goes(q.list, q.todo, q.seen, erpEntries)
    <3> HIDE DEF Goes
    <3> QED
      BY <1>11, <1>13, <2>0, <2>10, Zenon
  <2>1. /\ r.list = erpEntries
        /\ \A d \in r.todo : erpEntries[d].here
        /\ \A f \in r.seen : f \in Held /\ entries[f].card \in ErpCards /\ erpEntries[entries[f].card].here
        /\ \A d \in ErpCards : erpEntries[d].here /\ d \notin r.todo =>
             \E f \in r.seen : entries[f].card = d /\ entries[f].is = erpEntries[d].is
    BY <1>1, <1>2, <1>3, Zenon DEF ImportGood, Carrying, Stage
  <2>2. q.list = erpEntries /\ \A d \in q.todo : erpEntries[d].here
    BY <1>11, <2>1
  <2>3. erpEntries[c].here
    BY <2>1, Zenon
  <2>4. entries'[e].card = c /\ entries'[e].is = erpEntries[c].is
    BY <1>8, <1>9, <2>1
  <2>5. r.seen \subseteq Entries
    BY DEF TransferRecords
  <2>6. ASSUME NEW f \in q.seen
        PROVE  f \in Held' /\ entries'[f].card \in ErpCards /\ erpEntries[entries'[f].card].here
    <3>1. CASE f = e
      BY <1>6, <1>15, <2>3, <2>4, <3>1, Zenon
    <3>2. CASE f # e
      <4>1. f \in r.seen /\ entries'[f] = entries[f]
        BY <1>9, <1>11, <2>5, <3>2
      <4>2. f \in Held'
        BY <1>15, <2>1, <4>1
      <4> QED
        BY <2>1, <4>1, <4>2, Zenon
    <3> QED
      BY <3>1, <3>2
  <2>7. ASSUME NEW d \in ErpCards, erpEntries[d].here, d \notin q.todo
        PROVE  \E f \in q.seen : entries'[f].card = d /\ entries'[f].is = erpEntries[d].is
    <3>1. CASE d = c
      BY <1>11, <2>4, <3>1
    <3>2. CASE d # c
      <4>1. d \notin r.todo
        BY <1>11, <2>7, <3>2
      <4>2. PICK f \in r.seen : entries[f].card = d /\ entries[f].is = erpEntries[d].is
        BY <2>1, <2>7, <4>1, Zenon
      <4>3. f # e
        <5> SUFFICES ASSUME f = e PROVE FALSE
          OBVIOUS
        <5>1. e \in Held
          BY <2>1, Zenon
        <5>2. d = <<c[1], 0>>
          BY <1>7, <3>2, <4>2, <5>1
        <5>3. d = c
          BY <1>1, <1>6, <2>3, <2>7, <5>2, NotBoth
        <5> QED
          BY <3>2, <5>3
      <4>4. f \in q.seen /\ entries'[f] = entries[f]
        BY <1>9, <1>11, <2>5, <4>3
      <4> QED
        BY <4>2, <4>4
    <3> QED
      BY <3>1, <3>2
  <2> QED
    BY <2>2, <2>6, <2>7, Zenon
<1>17. PullGood(t)' /\ PushGood(t)'
  <2>1. ~Stage(t, "pull")' /\ ~Stage(t, "push")'
    BY <1>11, <1>13 DEF Stage
  <2> QED
    BY <2>1, Zenon DEF PullGood, PushGood, Carrying
<1>18. CardsPossible(erpEntries')
  BY <1>1, <1>3
<1> QED
  BY <1>13, <1>14, <1>16, <1>17, <1>18, Zenon DEF MirrorIInv, MirrorInv

LEMMA FetchEndsKeeps ==
  ASSUME MirrorIInv, NEW t \in Transfers, FetchEnds(t)
  PROVE  MirrorIInv'
<1>1. MirrorTyped /\ CardsPossible(erpEntries) /\ ImportGood(t)
  BY DEF MirrorIInv, MirrorInv
<1>2. PICK r \in TransferRecords : r = transfer[t]
  BY <1>1 DEF MirrorTyped
<1>3. /\ r.pc = "import" /\ r.todo = {} /\ OnlyKeeps(r.seen) /\ TransferEnds(t, "import")
      /\ UNCHANGED <<shopEntries, shopBill, erpEntries, shopLinked, inShopware, entryEdits>>
  BY <1>2, Zenon DEF FetchEnds, Stage
<1>4. /\ transfer' \in [Transfers -> TransferRecords] /\ \A u \in Transfers : Fits(transfer'[u])
      /\ lastTransfer' \in {"import", "nothing"} /\ (lastTransfer' # "nothing" => transfer[t].clean)
      /\ \A u \in Transfers : PullGood(u)' /\ PushGood(u)' /\ ImportGood(u)'
  BY <1>3, EndKeeps
<1>5. /\ entries' \in [Entries -> EntryRecords]
      /\ r.seen \subseteq Held => \A e \in r.seen : entries'[e] = entries[e]
      /\ r.seen \subseteq Held /\ r.seen # {} => Held' = r.seen
  BY <1>1, <1>3, KeepsFacts
<1>6. MirrorTyped'
  <2>1. lastTransfer' \in {"nothing", "pull", "push", "import"}
    BY <1>4
  <2> QED
    BY <1>1, <1>3, <1>4, <1>5, <2>1, Zenon DEF MirrorTyped
<1>7. MirrorHolds'
  <2>1. CASE lastTransfer' = "nothing"
    BY <2>1, NothingHolds
  <2>2. CASE lastTransfer' = "import"
    <3>0. lastTransfer' # "pull" /\ lastTransfer' # "push" /\ erpEntries' = erpEntries
      BY <1>3, <2>2
    <3>1. r.clean
      <4>1. lastTransfer' # "nothing"
        BY <2>2
      <4> QED
        BY <1>2, <1>4, <4>1, Zenon
    <3>2. /\ \A e \in r.seen : e \in Held /\ erpEntries[entries[e].card].here
          /\ \A c \in ErpCards : erpEntries[c].here => \E e \in r.seen : entries[e].card = c /\ entries[e].is = erpEntries[c].is
      <4>1. \A c : c \notin r.todo
        BY <1>3
      <4> QED
        BY <1>1, <1>2, <1>3, <3>1, <4>1, Zenon DEF ImportGood, Carrying, Stage
    <3>3. ASSUME \E c \in ErpCards : erpEntries[c].here
          PROVE  /\ \A c \in ErpCards : erpEntries[c].here => \E e \in Held' : entries'[e].card = c /\ entries'[e].is = erpEntries[c].is
                 /\ \A e \in Held' : erpEntries[entries'[e].card].here
      <4>1. r.seen \subseteq Held /\ r.seen # {}
        BY <3>2, <3>3
      <4>2. Held' = r.seen /\ \A e \in r.seen : entries'[e] = entries[e]
        BY <1>5, <4>1
      <4>3. \A e \in r.seen : erpEntries[entries'[e].card].here
        BY <3>2, <4>2, Zenon
      <4>4. ASSUME NEW c \in ErpCards, erpEntries[c].here
            PROVE  \E e \in r.seen : entries'[e].card = c /\ entries'[e].is = erpEntries[c].is
        <5>1. PICK e \in r.seen : entries[e].card = c /\ entries[e].is = erpEntries[c].is
          BY <3>2, <4>4, Zenon
        <5> QED
          BY <4>2, <5>1
      <4> QED
        BY <4>2, <4>3, <4>4, Zenon
    <3> QED
      BY <3>0, <3>3, Zenon DEF MirrorHolds
  <2> QED
    BY <1>4, <2>1, <2>2
<1>8. CardsPossible(erpEntries')
  BY <1>1, <1>3
<1> QED
  BY <1>4, <1>6, <1>7, <1>8, Zenon DEF MirrorIInv, MirrorInv

-----------------------------------------------------------------------------
LEMMA DeletesInShopKeeps ==
  ASSUME MirrorIInv, NEW t \in Transfers, DeletesInShop(t)
  PROVE  MirrorIInv'
<1>1. MirrorTyped /\ CardsPossible(erpEntries)
  BY DEF MirrorIInv, MirrorInv
<1>2. PICK r : r = IF shopLinked THEN [AtRest EXCEPT !.pc = "unlink"] ELSE AtRest
  OBVIOUS
<1>3. /\ entryEdits < MaxEntryEdits /\ entryEdits' = entryEdits + 1
      /\ inShopware' = FALSE /\ shopEntries' = [i \in ShopSlots |-> NoCopy] /\ shopBill' = 0
      /\ UNCHANGED <<entries, erpEntries, shopLinked>>
  BY DEF DeletesInShop
<1>4. Now(t, r)
  BY <1>2, Zenon DEF DeletesInShop
<1>5. r \in TransferRecords /\ Fits(r) /\ r.pc \in {"rest", "unlink"}
  <2>1. PICK a \in TransferRecords : a = AtRest /\ Fits(a) /\ a.pc = "rest" /\ a.todo = {}
    <3>1. AtRest.todo = {}
      BY Zenon DEF AtRest
    <3> QED
      BY <3>1, MirrorRecords
  <2>2. PICK b : b = [a EXCEPT !.pc = "unlink"]
    OBVIOUS
  <2>3. b \in TransferRecords /\ b.pc = "unlink" /\ b.todo = {}
    BY <2>1, <2>2 DEF TransferRecords
  <2>4. Fits(b)
    BY <2>3 DEF Fits
  <2>5. r = a \/ r = b
    BY <1>2, <2>1, <2>2, Zenon
  <2> QED
    BY <2>1, <2>3, <2>4, <2>5
<1>6. /\ transfer' \in [Transfers -> TransferRecords] /\ \A u \in Transfers : Fits(transfer'[u])
      /\ transfer'[t] = r /\ lastTransfer' = "nothing" /\ MirrorHolds'
      /\ \A u \in Transfers \ {t} : PullGood(u)' /\ PushGood(u)' /\ ImportGood(u)'
  BY <1>4, <1>5, NowKeeps
<1>7. MirrorTyped'
  <2>1. shopEntries' \in [ShopSlots -> Copies] /\ shopBill' \in 0 .. MaxShopEntries /\ entryEdits' \in 0 .. MaxEntryEdits
    BY <1>1, <1>3, MirrorRecords, MirrorBounds DEF MirrorTyped
  <2>2. inShopware' \in BOOLEAN
    BY <1>3
  <2> QED
    BY <1>1, <1>3, <1>6, <2>1, <2>2, Zenon DEF MirrorTyped
<1>8. PullGood(t)' /\ PushGood(t)' /\ ImportGood(t)'
  BY <1>5, <1>6, AtRestIsGood
<1>9. CardsPossible(erpEntries')
  BY <1>1, <1>3
<1> QED
  BY <1>6, <1>7, <1>8, <1>9, Zenon DEF MirrorIInv, MirrorInv

LEMMA UnlinksKeeps ==
  ASSUME MirrorIInv, NEW t \in Transfers, Unlinks(t)
  PROVE  MirrorIInv'
<1>1. MirrorTyped /\ CardsPossible(erpEntries)
  BY DEF MirrorIInv, MirrorInv
<1>2. /\ shopLinked' = FALSE /\ Now(t, AtRest)
      /\ UNCHANGED <<entries, shopEntries, shopBill, erpEntries, inShopware, entryEdits>>
  BY DEF Unlinks
<1>3. /\ transfer' \in [Transfers -> TransferRecords] /\ \A u \in Transfers : Fits(transfer'[u])
      /\ transfer'[t] = AtRest /\ lastTransfer' = "nothing" /\ MirrorHolds'
      /\ \A u \in Transfers \ {t} : PullGood(u)' /\ PushGood(u)' /\ ImportGood(u)'
  BY <1>2, MirrorRecords, NowKeeps
<1>4. MirrorTyped'
  BY <1>1, <1>2, <1>3, Zenon DEF MirrorTyped
<1>5. PullGood(t)' /\ PushGood(t)' /\ ImportGood(t)'
  <2>1. transfer'[t].pc \in {"rest", "unlink"}
    BY <1>3, MirrorRecords
  <2> QED
    BY <2>1, AtRestIsGood
<1>6. CardsPossible(erpEntries')
  BY <1>1, <1>2
<1> QED
  BY <1>3, <1>4, <1>5, <1>6, Zenon DEF MirrorIInv, MirrorInv

(* A change by a person disturbs all, so that only the types are left to show. *)
LEMMA PeopleKeep ==
  ASSUME MirrorIInv, Touched, entries' \in [Entries -> EntryRecords], shopEntries' \in [ShopSlots -> Copies],
         shopBill' \in 0 .. MaxShopEntries, erpEntries' \in [ErpCards -> Copies], CardsPossible(erpEntries'),
         shopLinked' \in BOOLEAN, inShopware' \in BOOLEAN
  PROVE  MirrorIInv'
<1>1. /\ transfer' \in [Transfers -> TransferRecords] /\ \A u \in Transfers : Fits(transfer'[u])
      /\ lastTransfer' = "nothing" /\ MirrorHolds' /\ entryEdits' \in 0 .. MaxEntryEdits
      /\ \A u \in Transfers : PullGood(u)' /\ PushGood(u)' /\ ImportGood(u)'
  BY TouchedKeeps
<1>2. MirrorTyped'
  <2>1. lastTransfer' \in {"nothing", "pull", "push", "import"}
    BY <1>1
  <2> QED
    BY <1>1, <2>1, Zenon DEF MirrorTyped
<1> QED
  BY <1>1, <1>2, Zenon DEF MirrorIInv, MirrorInv

LEMMA RelinksKeeps ==
  ASSUME MirrorIInv, Relinks
  PROVE  MirrorIInv'
<1>1. MirrorTyped /\ CardsPossible(erpEntries)
  BY DEF MirrorIInv, MirrorInv
<1>2. Touched /\ shopLinked' \in {FALSE, inShopware} /\ UNCHANGED <<entries, shopEntries, shopBill, erpEntries, inShopware>>
  BY DEF Relinks
<1>3. shopLinked' \in BOOLEAN /\ inShopware' \in BOOLEAN
  BY <1>1, <1>2, Zenon DEF MirrorTyped
<1>4. /\ entries' \in [Entries -> EntryRecords] /\ shopEntries' \in [ShopSlots -> Copies]
      /\ shopBill' \in 0 .. MaxShopEntries /\ erpEntries' \in [ErpCards -> Copies] /\ CardsPossible(erpEntries')
  BY <1>1, <1>2 DEF MirrorTyped
<1> QED
  BY <1>2, <1>3, <1>4, PeopleKeep

LEMMA EntryEditedKeeps ==
  ASSUME MirrorIInv, EntryEdited
  PROVE  MirrorIInv'
<1>1. MirrorTyped /\ CardsPossible(erpEntries)
  BY DEF MirrorIInv, MirrorInv
<1>2. Touched /\ UNCHANGED <<shopEntries, shopBill, erpEntries, shopLinked, inShopware>>
  BY DEF EntryEdited
<1>3. entries' \in [Entries -> EntryRecords]
  <2>1. CASE \E e \in Held, c \in Typed : entries' = [entries EXCEPT ![e].is = c]
    <3>1. PICK e \in Held, c \in Typed : entries' = [entries EXCEPT ![e].is = c]
      BY <2>1
    <3>2. e \in Entries
      BY DEF Held
    <3>3. PICK o \in EntryRecords : o = entries[e]
      BY <1>1, <3>2 DEF MirrorTyped
    <3>4. PICK k : k = [o EXCEPT !.is = c]
      OBVIOUS
    <3>5. k \in EntryRecords
      BY <3>4, TypedContent DEF EntryRecords
    <3>6. entries' = [entries EXCEPT ![e] = k]
      BY <1>1, <3>1, <3>2, <3>3, <3>4 DEF MirrorTyped
    <3> QED
      BY <1>1, <3>2, <3>5, <3>6 DEF MirrorTyped
  <2>2. CASE \E e \in Unused, c \in Typed, k \in {<<0, 0>>, <<1, 0>>} :
               entries' = [entries EXCEPT ![e] = [NoEntry EXCEPT !.here = TRUE, !.is = c, !.card = k]]
    <3>1. PICK e \in Unused, c \in Typed, n \in {<<0, 0>>, <<1, 0>>} :
               entries' = [entries EXCEPT ![e] = [NoEntry EXCEPT !.here = TRUE, !.is = c, !.card = n]]
      BY <2>2
    <3>2. e \in Entries
      BY DEF Unused
    <3>3. PICK o \in EntryRecords : o = NoEntry
      BY MirrorRecords
    <3>4. PICK k : k = [o EXCEPT !.here = TRUE, !.is = c, !.card = n]
      OBVIOUS
    <3>5. n \in ErpCards \cup {<<0, 0>>}
      BY DEF ErpCards
    <3>6. k \in EntryRecords
      BY <3>4, <3>5, TypedContent DEF EntryRecords
    <3>7. entries' = [entries EXCEPT ![e] = k]
      BY <3>1, <3>3, <3>4, Zenon
    <3> QED
      BY <1>1, <3>2, <3>6, <3>7 DEF MirrorTyped
  <2> QED
    BY <2>1, <2>2 DEF EntryEdited
<1>4. shopLinked' \in BOOLEAN /\ inShopware' \in BOOLEAN
  BY <1>1, <1>2, Zenon DEF MirrorTyped
<1>5. /\ shopEntries' \in [ShopSlots -> Copies]
      /\ shopBill' \in 0 .. MaxShopEntries /\ erpEntries' \in [ErpCards -> Copies] /\ CardsPossible(erpEntries')
  BY <1>1, <1>2 DEF MirrorTyped
<1> QED
  BY <1>2, <1>3, <1>4, <1>5, PeopleKeep

LEMMA ShopEntryEditedKeeps ==
  ASSUME MirrorIInv, ShopEntryEdited
  PROVE  MirrorIInv'
<1>1. MirrorTyped /\ CardsPossible(erpEntries)
  BY DEF MirrorIInv, MirrorInv
<1>2. Touched /\ UNCHANGED <<entries, erpEntries, shopLinked, inShopware>>
  BY DEF ShopEntryEdited
<1>3. shopEntries' \in [ShopSlots -> Copies] /\ shopBill' \in 0 .. MaxShopEntries
  <2>0. InShop \subseteq ShopSlots /\ ShopSlots \subseteq 0 .. MaxShopEntries
    BY MirrorBounds DEF InShop, ShopSlots
  <2>1. CASE \E i \in InShop, c \in Typed : shopEntries' = [shopEntries EXCEPT ![i].is = c] /\ shopBill' \in InShop
    <3>1. PICK i \in InShop, c \in Typed : shopEntries' = [shopEntries EXCEPT ![i].is = c] /\ shopBill' \in InShop
      BY <2>1
    <3>2. i \in ShopSlots /\ shopEntries' = [shopEntries EXCEPT ![i].is = c]
      BY <2>0, <3>1
    <3>3. PICK card \in Copies : shopEntries' = [shopEntries EXCEPT ![i] = card]
      BY <1>1, <3>2, TypedContent, PatchFacts
    <3> QED
      BY <1>1, <2>0, <3>1, <3>2, <3>3 DEF MirrorTyped
  <2>2. CASE \E i \in InShop \ {shopBill} : shopEntries' = [shopEntries EXCEPT ![i] = NoCopy] /\ UNCHANGED shopBill
    BY <1>1, <2>0, <2>2, MirrorRecords DEF MirrorTyped
  <2> QED
    BY <2>1, <2>2 DEF ShopEntryEdited
<1>4. shopLinked' \in BOOLEAN /\ inShopware' \in BOOLEAN
  BY <1>1, <1>2, Zenon DEF MirrorTyped
<1>5. entries' \in [Entries -> EntryRecords] /\ erpEntries' \in [ErpCards -> Copies] /\ CardsPossible(erpEntries')
  BY <1>1, <1>2 DEF MirrorTyped
<1> QED
  BY <1>2, <1>3, <1>4, <1>5, PeopleKeep

LEMMA ErpEntryEditedKeeps ==
  ASSUME MirrorIInv, ErpEntryEdited
  PROVE  MirrorIInv'
<1>1. MirrorTyped
  BY DEF MirrorIInv
<1>2. Touched /\ CardsPossible(erpEntries') /\ UNCHANGED <<entries, shopEntries, shopBill, shopLinked, inShopware>>
  BY DEF ErpEntryEdited
<1>3. erpEntries' \in [ErpCards -> Copies]
  <2>1. PICK c \in ErpCards : erpEntries' = [erpEntries EXCEPT ![c].here = ~@, ![c].is = Somewhere]
    BY DEF ErpEntryEdited
  <2>2. PICK o \in Copies : o = erpEntries[c]
    BY <1>1 DEF MirrorTyped
  <2>3. PICK b : b = ~o.here
    OBVIOUS
  <2>4. b \in BOOLEAN
    BY <2>3
  <2>5. PICK k : k = [[o EXCEPT !.here = b] EXCEPT !.is = Somewhere]
    OBVIOUS
  <2>6. k \in Copies
    BY <2>4, <2>5, MirrorRecords DEF Copies
  <2>7. erpEntries' = [erpEntries EXCEPT ![c].here = b, ![c].is = Somewhere]
    BY <2>1, <2>2, <2>3, Zenon
  <2>8. erpEntries' = [erpEntries EXCEPT ![c] = k]
    BY <1>1, <2>2, <2>5, <2>7 DEF MirrorTyped
  <2> QED
    BY <1>1, <2>6, <2>8 DEF MirrorTyped
<1>4. shopLinked' \in BOOLEAN /\ inShopware' \in BOOLEAN
  BY <1>1, <1>2, Zenon DEF MirrorTyped
<1>5. entries' \in [Entries -> EntryRecords] /\ shopEntries' \in [ShopSlots -> Copies] /\ shopBill' \in 0 .. MaxShopEntries
  BY <1>1, <1>2 DEF MirrorTyped
<1> QED
  BY <1>2, <1>3, <1>4, <1>5, PeopleKeep

-----------------------------------------------------------------------------
LEMMA MirrorStarts == MirrorInit => MirrorIInv
<1> SUFFICES ASSUME MirrorInit PROVE MirrorIInv
  OBVIOUS
<1>1. /\ transfer = [t \in Transfers |-> AtRest]
      /\ lastTransfer = "nothing" /\ entryEdits = 0 /\ CardsPossible(erpEntries)
  BY Zenon DEF MirrorInit
<1>2. \A w : w \in Typed => w \in Content
  BY MirrorBounds DEF Content
<1>3. entries \in [Entries -> EntryRecords]
  <2>1. entries \in [Entries -> {NoEntry} \cup [here : {TRUE}, is : Typed, api : 0 .. 1,
                                             card : {<<0, 0>>, <<1, 0>>}, inv : {FALSE}]]
    BY Zenon DEF MirrorInit
  <2>2. \A i : i \in 0 .. 1 => i \in 0 .. MaxShopEntries
    BY MirrorBounds
  <2>3. \A c : c \in {<<0, 0>>, <<1, 0>>} => c \in ErpCards \cup {<<0, 0>>}
    BY DEF ErpCards
  <2>4. \A k : k \in [here : {TRUE}, is : Typed, api : 0 .. 1, card : {<<0, 0>>, <<1, 0>>}, inv : {FALSE}] => k \in EntryRecords
    BY <1>2, <2>2, <2>3 DEF EntryRecords
  <2> QED
    BY <2>1, <2>4, MirrorRecords
<1>4. shopEntries \in [ShopSlots -> Copies]
  <2>1. shopEntries \in [ShopSlots -> {NoCopy} \cup [here : {TRUE}, is : Typed]]
    BY Zenon DEF MirrorInit
  <2>2. \A k : k \in [here : {TRUE}, is : Typed] => k \in Copies
    BY <1>2 DEF Copies
  <2> QED
    BY <2>1, <2>2, MirrorRecords
<1>5. erpEntries \in [ErpCards -> Copies]
  <2>1. erpEntries \in [ErpCards -> {NoCopy} \cup [here : {TRUE}, is : {Somewhere}]]
    BY Zenon DEF MirrorInit
  <2>2. \A k : k \in [here : {TRUE}, is : {Somewhere}] => k \in Copies
    BY MirrorRecords DEF Copies
  <2> QED
    BY <2>1, <2>2, MirrorRecords
<1>6. shopBill \in 0 .. MaxShopEntries
  <2>1. shopBill = IF InShop = {} THEN 0 ELSE 1
    BY Zenon DEF MirrorInit
  <2> QED
    BY <2>1, MirrorBounds
<1>7. inShopware \in BOOLEAN /\ shopLinked \in BOOLEAN
  <2>1. inShopware \in BOOLEAN /\ shopLinked \in {FALSE, inShopware}
    BY Zenon DEF MirrorInit
  <2> QED
    BY <2>1, Zenon
<1>8. transfer \in [Transfers -> TransferRecords] /\ \A t \in Transfers : transfer[t] = AtRest /\ Fits(transfer[t])
  BY <1>1, MirrorRecords
<1>9. MirrorTyped
  <2>1. lastTransfer \in {"nothing", "pull", "push", "import"} /\ entryEdits \in 0 .. MaxEntryEdits
    BY <1>1, MirrorBounds
  <2> QED
    BY <1>3, <1>4, <1>5, <1>6, <1>7, <1>8, <2>1, Zenon DEF MirrorTyped
<1>10. MirrorHolds
  BY <1>1 DEF MirrorHolds
<1>11. ASSUME NEW t \in Transfers PROVE PullGood(t) /\ PushGood(t) /\ ImportGood(t)
  <2>1. ~Stage(t, "pull") /\ ~Stage(t, "push") /\ ~Stage(t, "import")
    BY <1>8, MirrorRecords DEF Stage
  <2> QED
    BY <2>1, Zenon DEF PullGood, PushGood, ImportGood, Carrying
<1> QED
  BY <1>1, <1>9, <1>10, <1>11, Zenon DEF MirrorIInv, MirrorInv

LEMMA MirrorStutters == MirrorIInv /\ UNCHANGED mirrorVars => MirrorIInv'
<1> SUFFICES ASSUME MirrorIInv, UNCHANGED mirrorVars PROVE MirrorIInv'
  OBVIOUS
<1>1. /\ entries' = entries /\ shopEntries' = shopEntries /\ shopBill' = shopBill /\ erpEntries' = erpEntries
      /\ shopLinked' = shopLinked /\ inShopware' = inShopware /\ transfer' = transfer
      /\ lastTransfer' = lastTransfer /\ entryEdits' = entryEdits
  BY Zenon DEF mirrorVars
<1>2. Held' = Held /\ InShop' = InShop
  BY <1>1 DEF Held, InShop
<1>3. MirrorTyped' /\ CardsPossible(erpEntries')
  BY <1>1, Zenon DEF MirrorIInv, MirrorInv, MirrorTyped
<1>4. MirrorHolds'
  <2> DEFINE Equal(last, shop, bill, cards, rows, held, inShop) ==
               /\ last = "pull" /\ inShop # {} =>
                    /\ \A i \in inShop : \E e \in held : rows[e].api = i /\ rows[e].is = shop[i].is
                                                         /\ rows[e].inv = (i = bill)
                    /\ Cardinality(held) = Cardinality(inShop)
               /\ last = "import" /\ (\E c \in ErpCards : cards[c].here) =>
                    /\ \A c \in ErpCards : cards[c].here => \E e \in held : rows[e].card = c /\ rows[e].is = cards[c].is
                    /\ \A e \in held : cards[rows[e].card].here
               /\ last = "push" => \A e \in held : \E i \in inShop : Carries(shop[i].is, rows[e].is)
  <2>1. MirrorHolds <=> Equal(lastTransfer, shopEntries, shopBill, erpEntries, entries, Held, InShop)
    BY Zenon DEF MirrorHolds
  <2>2. MirrorHolds' <=> Equal(lastTransfer', shopEntries', shopBill', erpEntries', entries', Held', InShop')
    BY Zenon DEF MirrorHolds
  <2>3. MirrorHolds
    BY DEF MirrorIInv, MirrorInv
  <2> HIDE DEF Equal
  <2> QED
    BY <1>1, <1>2, <2>1, <2>2, <2>3, Zenon
<1>5. ASSUME NEW t \in Transfers PROVE PullGood(t)' /\ PushGood(t)' /\ ImportGood(t)'
  <2>1. PullGood(t) /\ PushGood(t) /\ ImportGood(t)
    BY DEF MirrorIInv, MirrorInv
  <2>2. PullGood(t)'
    BY <1>1, <1>2, <2>1, Zenon DEF PullGood, Carrying, Stage
  <2>3. PushGood(t)'
    BY <1>1, <1>2, <2>1, Zenon DEF PushGood, Carrying, Stage
  <2>4. ImportGood(t)'
    BY <1>1, <1>2, <2>1, Zenon DEF ImportGood, Carrying, Stage
  <2> QED
    BY <2>2, <2>3, <2>4
<1> QED
  BY <1>3, <1>4, <1>5, Zenon DEF MirrorIInv, MirrorInv

LEMMA MirrorSteps == MirrorIInv /\ [MirrorNext]_mirrorVars => MirrorIInv'
<1> SUFFICES ASSUME MirrorIInv, [MirrorNext]_mirrorVars PROVE MirrorIInv'
  OBVIOUS
<1>1. ASSUME NEW t \in Transfers,
             \/ PullStarts(t) \/ PullSaves(t) \/ PullEnds(t)
             \/ SendStarts(t) \/ SendPatches(t) \/ SendCreates(t) \/ SendMisses(t) \/ SendFails(t) \/ SendEnds(t)
             \/ FetchStarts(t) \/ FetchSaves(t) \/ FetchEnds(t)
             \/ DeletesInShop(t) \/ Unlinks(t)
      PROVE  MirrorIInv'
  BY <1>1, PullStartsKeeps, PullSavesKeeps, PullEndsKeeps,
     SendStartsKeeps, SendPatchesKeeps, SendCreatesKeeps, SendMissesKeeps, SendFailsKeeps, SendEndsKeeps,
     FetchStartsKeeps, FetchSavesKeeps, FetchEndsKeeps, DeletesInShopKeeps, UnlinksKeeps, Zenon
<1>2. CASE Relinks
  BY <1>2, RelinksKeeps
<1>3. CASE EntryEdited
  BY <1>3, EntryEditedKeeps
<1>4. CASE ShopEntryEdited
  BY <1>4, ShopEntryEditedKeeps
<1>5. CASE ErpEntryEdited
  BY <1>5, ErpEntryEditedKeeps
<1>6. CASE UNCHANGED mirrorVars
  BY <1>6, MirrorStutters
<1> QED
  BY <1>1, <1>2, <1>3, <1>4, <1>5, <1>6, Zenon DEF MirrorNext

(* The carrying of addresses stays within its types: what is left to do of a  *)
(* transfer are slots of the shop, rows or cards, as its direction has it.     *)
THEOREM MirrorTypeCorrect == MirrorSpec => []MirrorTypeOK
<1>1. MirrorInit => MirrorIInv
  BY MirrorStarts
<1>2. MirrorIInv /\ [MirrorNext]_mirrorVars => MirrorIInv'
  BY MirrorSteps
<1>3. MirrorIInv => MirrorTypeOK
  BY MirrorTypes DEF MirrorIInv
<1> QED
  BY <1>1, <1>2, <1>3, PTL DEF MirrorSpec

(* _shopware_to_django, _django_to_shopware and sync_from_microtech: a         *)
(* transfer nothing disturbed has brought over all there was, to Shopware as    *)
(* far as it is sent, for any number of rows, of addresses in the shop, of      *)
(* requests and of changes by people, and whatever the sending makes of spots  *)
(* and wordings.                                                              *)
THEOREM TransfersBringOver == MirrorSpec => []MirrorHolds
<1>1. MirrorInit => MirrorIInv
  BY MirrorStarts
<1>2. MirrorIInv /\ [MirrorNext]_mirrorVars => MirrorIInv'
  BY MirrorSteps
<1>3. MirrorIInv => MirrorHolds
  BY DEF MirrorIInv, MirrorInv
<1> QED
  BY <1>1, <1>2, <1>3, PTL DEF MirrorSpec
=============================================================================
