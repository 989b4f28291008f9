----------------------------- MODULE AddressBook -----------------------------
(***************************************************************************)
(* The customers, their addresses, and the orders that refer to both: the    *)
(* order import from Shopware (orders/services/order_sync.py), the import of *)
(* a customer from Microtech that changes an order's customer                *)
(* (order_customer_change.py), and the merging and deleting of customers     *)
(* (customer/services/customer_merge.py, customer/views.py).                 *)
(*                                                                          *)
(* An address row is shared: by the default addresses of its customer and by *)
(* every order whose address is matched with it.  Of what an address says,    *)
(* place is street, zip and city, name the first and last name, and rest      *)
(* company, department, phone and country; only place, name and e-mail are    *)
(* compared, but all is overwritten.  api and number are the address in       *)
(* Shopware and in Microtech.  One transaction is one action.  Where several  *)
(* rows match, the code takes the one saved last; here any.                  *)
(***************************************************************************)
EXTENDS Naturals, Sequences, FiniteSets

CONSTANTS
  Orders,       \* orders in Shopware
  Contacts,     \* what an address in Shopware or Microtech says
  Mails,        \* the e-mail addresses of customers
  ShopTells,    \* what Shopware may tell with an order
  ErpTells,     \* what Microtech may tell of a customer
  MaxRows,      \* bound: Address rows
  MaxErrands    \* bound: imports and people's actions

(* No address; of one, place is "none" without street or zip.                *)
NoContact == [place |-> "none", name |-> "none", mail |-> "none", rest |-> "none"]

ASSUME AddressBounds == MaxRows \in Nat /\ MaxErrands \in Nat
ASSUME ContactsAssumption ==
  /\ NoContact \notin Contacts
  /\ \A k \in Contacts : k = [place |-> k.place, name |-> k.name, mail |-> k.mail, rest |-> k.rest]

Customers == {"target", "source"}
Rows == 1 .. MaxRows
Given == Contacts \cup {NoContact}

(* The e-mail of an address is its own or else the customer's.                *)
Filled(k, mail) == IF k = NoContact \/ k.mail # "none" THEN k ELSE [k EXCEPT !.mail = mail]
Complete == {Filled(k, mail) : k \in Contacts, mail \in Mails}

(* With an order Shopware tells its addresses, the customer's defaults (none,  *)
(* if the customer cannot be loaded) and e-mail.  One address may serve both    *)
(* purposes.  Microtech tells one or two addresses, which have the customer's   *)
(* e-mail already, and which of them, if any, are the defaults.              *)
ASSUME TellingsAssumption ==
  /\ ShopTells \subseteq [bill : Given, ship : Given, home : Given, away : Given,
                         shipId : {"bill", "ship"}, awayId : {"first", "second"}, mail : Mails]
  /\ \A t \in ShopTells : (t.shipId = "bill" => t.ship = t.bill) /\ (t.awayId = "first" => t.away = t.home)
  /\ \A t \in ErpTells : \E n \in 1 .. 2 : t \in [contacts : [1 .. n -> Complete], bill : 0 .. n, ship : 0 .. n]

VARIABLES
  known,     \* the Customer rows
  book,      \* the Address rows
  orderRow,  \* the Order rows
  latest,    \* history: what the last step has imported
  merging,   \* has merge_customers moved the orders of "source" to "target"
  doomed,    \* customers that a delete request has found without orders
  raced,     \* history: an order came between this check and the delete
  errands

addressVars == <<known, book, orderRow, latest, merging, doomed, raced, errands>>

-----------------------------------------------------------------------------
NoApi == <<"none", "none">>
OfOrder(o, kind) == <<o, kind>>             \* an order address in Shopware
OfCustomer(c, kind) == <<c, kind>>          \* an address of the customer there
ApiIds == {NoApi} \cup (Orders \X {"bill", "ship"}) \cup (Customers \X {"first", "second"})

Empty == [owner |-> "nobody", contact |-> NoContact, api |-> NoApi, number |-> 0,
          inv |-> FALSE, ship |-> FALSE]
NoOrder == [owner |-> "nobody", bill |-> 0, ship |-> 0]

(* others are all addresses this import was told, own says that one of them    *)
(* has an e-mail of its own.                                                 *)
NotImported == [order |-> "none", bill |-> NoContact, ship |-> NoContact, others |-> {}, own |-> FALSE]

AddressTypeOK ==
  /\ known \subseteq Customers /\ doomed \subseteq Customers
  /\ book \in [Rows -> [owner : Customers \cup {"nobody"}, contact : Complete \cup {NoContact},
                        api : ApiIds, number : 0 .. 2, inv : BOOLEAN, ship : BOOLEAN]]
  /\ orderRow \in [Orders -> [owner : Customers \cup {"nobody"}, bill : 0 .. MaxRows, ship : 0 .. MaxRows]]
  /\ latest \in [order : Orders \cup {"none"}, bill : Complete \cup {NoContact}, ship : Complete \cup {NoContact},
                 others : SUBSET (Complete \cup {NoContact}), own : BOOLEAN]
  /\ merging \in BOOLEAN /\ raced \in BOOLEAN
  /\ errands \in 0 .. MaxErrands

AddressInit ==
  /\ known \in SUBSET Customers /\ doomed = {}
  /\ book = [r \in Rows |-> Empty]
  /\ orderRow = [o \in Orders |-> NoOrder]
  /\ latest = NotImported /\ merging = FALSE /\ raced = FALSE /\ errands = 0

Errand == errands < MaxErrands /\ errands' = errands + 1
NoImport == latest' = NotImported
Of(b, c) == {r \in Rows : b[r].owner = c}
Free(b) == {r \in Rows : b[r] = Empty}
NewRow(b) == {r \in Free(b) : \A x \in Free(b) : r <= x}
First(n, otherwise) == IF n = 0 THEN otherwise ELSE n

-----------------------------------------------------------------------------
(* Customer.set_billing_address and set_shipping_address, if there is one.     *)
SetBilling(b, c, r) ==
  [x \in Rows |-> IF r # 0 /\ b[x].owner = c THEN [b[x] EXCEPT !.inv = (x = r)] ELSE b[x]]

SetShipping(b, c, r) ==
  [x \in Rows |-> IF r # 0 /\ b[x].owner = c THEN [b[x] EXCEPT !.ship = (x = r)] ELSE b[x]]

(* An address in Shopware: as it is there, and as a row will say it.           *)
Address(id, k, mail) == [id |-> id, is |-> k, says |-> Filled(k, mail)]

(* OrderSyncService._upsert_address and _find_contact_address: the row of this *)
(* address, else one of the same place and name, else one of the same place   *)
(* and e-mail, if the address has its own, else a new one ...                *)
Matching(b, c, a) ==
  LET same  == {r \in Of(b, c) : b[r].api = a.id}
      there == {r \in Of(b, c) : a.is.place # "none" /\ b[r].contact.place = a.is.place}
      named == {r \in there : a.is.name # "none" /\ b[r].contact.name = a.is.name}
      heard == {r \in there : a.is.mail # "none" /\ b[r].contact.mail = a.is.mail}
  IN  IF same # {} THEN same ELSE IF named # {} THEN named
      ELSE IF heard # {} THEN heard ELSE NewRow(b)

MutantWrite(b, r, c, a, inv, ship) ==
  [b EXCEPT ![r] = [@ EXCEPT !.owner = c, !.contact = a.says, !.inv = inv, !.ship = ship,
                             !.api = IF @ = NoApi THEN a.id ELSE @]]

(* ... which takes over all the address says, its id and both flags.          *)
Write(b, r, c, a, inv, ship) ==
  [b EXCEPT ![r] = [@ EXCEPT !.owner = c, !.contact = a.says, !.inv = inv, !.ship = ship,
                             !.api = a.id]]

(* The outcomes of writing an address, a pair of them, and the customer's      *)
(* defaults (_upsert_default_customer_addresses): a book and the rows; 0 is    *)
(* that of no address.                                                       *)
Written(b, c, a, inv, ship) ==
  IF a.is = NoContact THEN {[book |-> b, row |-> 0]}
  ELSE {[book |-> Write(b, r, c, a, inv, ship), row |-> r] : r \in Matching(b, c, a)}

PairWritten(b, c, bill, ship) ==
  UNION {{[book |-> v.book, bill |-> w.row, ship |-> v.row] : v \in Written(w.book, c, ship, FALSE, TRUE)}
         : w \in Written(b, c, bill, TRUE, FALSE)}

DefaultsWritten(b, c, t) ==
  LET home == Address(OfCustomer(c, "first"), t.home, t.mail)
      away == Address(OfCustomer(c, t.awayId), t.away, t.mail)
      written == IF t.awayId = "second" THEN PairWritten(b, c, home, away)
                 ELSE {[book |-> w.book, bill |-> w.row, ship |-> w.row] : w \in Written(b, c, home, TRUE, TRUE)}
  IN  {[w EXCEPT !.book = SetShipping(SetBilling(@, c, w.bill), c, w.ship)] : w \in written}

(* _upsert_customer_block, when the addresses w of the order and the defaults d *)
(* have been written: an address of the order alone serves both purposes, then *)
(* the defaults stand in for what the order lacks, and the order's addresses   *)
(* for missing defaults.                                                     *)
ServesBoth(b, w) ==
  [r \in Rows |-> [b[r] EXCEPT !.inv = @ \/ (w.bill = 0 /\ r = w.ship),
                              !.ship = @ \/ (w.ship = 0 /\ r = w.bill)]]

Settled(c, w, d) ==
  LET bill == First(w.bill, First(w.ship, d.bill))
      ship == First(w.ship, First(w.bill, d.ship))
      b1 == ServesBoth(d.book, w)
      b2 == IF d.bill = 0 THEN SetBilling(b1, c, bill) ELSE b1
  IN  [book |-> IF d.ship = 0 THEN SetShipping(b2, c, ship) ELSE b2, bill |-> bill, ship |-> ship]

(* upsert_from_shopware_order.                                               *)
OrderArrives(o, c, t) ==
  /\ Errand
  /\ \E w \in PairWritten(book, c, Address(OfOrder(o, "bill"), t.bill, t.mail),
                                   Address(OfOrder(o, t.shipId), t.ship, t.mail)) :
       \E d \in DefaultsWritten(w.book, c, t) :
         LET s == Settled(c, w, d) IN
         /\ book' = s.book
         /\ orderRow' = [orderRow EXCEPT ![o] = [owner |-> c, bill |-> s.bill, ship |-> s.ship]]
  /\ known' = known \cup {c}
  /\ LET told == {t.bill, t.ship, t.home, t.away} IN
     latest' = [order |-> o, bill |-> Filled(t.bill, t.mail), ship |-> Filled(t.ship, t.mail),
                others |-> {Filled(k, t.mail) : k \in told}, own |-> \E k \in told : k.mail # "none"]
  /\ raced' = (raced \/ c \in doomed)
  /\ UNCHANGED <<merging, doomed>>

-----------------------------------------------------------------------------
(* OrderCustomerChangeService._import_customer: one or two addresses, matched *)
(* by number only.                                                          *)
ByNumber(b, c, n) ==
  LET same == {r \in Of(b, c) : b[r].number = n} IN IF same # {} THEN same ELSE NewRow(b)

Numbered(b, r, c, n, contact, inv, ship) ==
  [b EXCEPT ![r] = [@ EXCEPT !.owner = c, !.contact = contact, !.number = n, !.inv = inv, !.ship = ship]]

(* Where no number is the default, the first address is it.                  *)
CustomerRead(o, c, t) ==
  /\ Errand
  /\ \E r \in ByNumber(book, c, 1) :
       LET b1 == Numbered(book, r, c, 1, t.contacts[1], t.bill = 1, t.ship = 1)
           one == Len(t.contacts) = 1
       IN \E s \in IF one THEN {r} ELSE ByNumber(b1, c, 2) :
         LET b2 == IF one THEN b1 ELSE Numbered(b1, s, c, 2, t.contacts[2], t.bill = 2, t.ship = 2)
             ship == IF t.ship = 2 THEN s ELSE r
             bill == CASE t.bill = 1 -> r [] t.bill = 2 -> s [] OTHER -> ship
         IN /\ book' = SetShipping(SetBilling(b2, c, bill), c, ship)
            /\ orderRow' = [orderRow EXCEPT ![o] = [owner |-> c, bill |-> bill, ship |-> ship]]
  /\ orderRow[o] # NoOrder
  /\ known' = known \cup {c}
  /\ LET ship == First(t.ship, 1) IN
     latest' = [order |-> o, bill |-> t.contacts[First(t.bill, ship)], ship |-> t.contacts[ship],
                others |-> {}, own |-> FALSE]
  /\ raced' = (raced \/ c \in doomed)
  /\ UNCHANGED <<merging, doomed>>

-----------------------------------------------------------------------------
(* merge_customers: first the orders ...                                     *)
MergeMovesOrders ==
  /\ Errand /\ known = Customers
  /\ orderRow' = [o \in Orders |-> IF orderRow[o].owner = "source" THEN [orderRow[o] EXCEPT !.owner = "target"]
                                ELSE orderRow[o]]
  /\ merging' = TRUE
  /\ raced' = (raced \/ ("target" \in doomed /\ orderRow' # orderRow))
  /\ NoImport
  /\ UNCHANGED <<known, book, doomed>>

(* ... then, each with a save of its own, the addresses the mapping names: a  *)
(* new one for the target, or one that replaces an address of the target.    *)
MergeMovesAddress(x) ==
  /\ merging
  /\ book[x].owner = "source" /\ "target" \in known
  /\ book' = [book EXCEPT ![x].owner = "target"]
  /\ NoImport
  /\ UNCHANGED <<known, orderRow, merging, doomed, raced, errands>>

Unlinked(rows) ==
  [o \in Orders |-> [orderRow[o] EXCEPT !.bill = IF @ \in rows THEN 0 ELSE @,
                                     !.ship = IF @ \in rows THEN 0 ELSE @]]

MergeReplacesAddress(x, y) ==
  /\ merging
  /\ book[x].owner = "source" /\ book[y].owner = "target"
  /\ book' = [book EXCEPT ![y].contact = book[x].contact, ![x] = Empty]
  /\ orderRow' = Unlinked({x})
  /\ NoImport
  /\ UNCHANGED <<known, merging, doomed, raced, errands>>

MergeEnds ==
  /\ merging /\ merging' = FALSE
  /\ NoImport
  /\ UNCHANGED <<known, book, orderRow, doomed, raced, errands>>

(* customer_delete_addresses_api, as far as Django is concerned.             *)
AddressesDeleted(c, rows) ==
  /\ Errand
  /\ rows # {} /\ rows \subseteq Of(book, c)
  /\ book' = [r \in Rows |-> IF r \in rows THEN Empty ELSE book[r]]
  /\ orderRow' = Unlinked(rows)
  /\ NoImport
  /\ UNCHANGED <<known, merging, doomed, raced>>

(* CustomerDeleteService.delete_django counts the orders and then deletes     *)
(* whatever refers to the customer.                                          *)
MutantDeleteUnchecked(c) ==
  /\ Errand
  /\ c \in known
  /\ doomed' = doomed \cup {c}
  /\ NoImport
  /\ UNCHANGED <<known, book, orderRow, merging, raced>>

DeleteChecks(c) ==
  /\ Errand
  /\ c \in known /\ \A o \in Orders : orderRow[o].owner # c
  /\ doomed' = doomed \cup {c}
  /\ NoImport
  /\ UNCHANGED <<known, book, orderRow, merging, raced>>

DeleteCascades(c) ==
  /\ c \in doomed /\ doomed' = doomed \ {c}
  /\ known' = known \ {c}
  /\ book' = [r \in Rows |-> IF book[r].owner = c THEN Empty ELSE book[r]]
  /\ orderRow' = [o \in Orders |-> IF orderRow[o].owner = c THEN NoOrder ELSE Unlinked(Of(book, c))[o]]
  /\ NoImport
  /\ UNCHANGED <<merging, raced, errands>>

-----------------------------------------------------------------------------
AddressNext ==
  \/ \E o \in Orders, c \in Customers :
       \/ \E t \in ShopTells : OrderArrives(o, c, t)
       \/ \E t \in ErpTells : CustomerRead(o, c, t)
  \/ MergeMovesOrders \/ MergeEnds
  \/ \E x \in Rows : MergeMovesAddress(x) \/ \E y \in Rows : MergeReplacesAddress(x, y)
  \/ \E c \in Customers : \/ \E rows \in SUBSET Of(book, c) : AddressesDeleted(c, rows)
                          \/ DeleteChecks(c) \/ DeleteCascades(c)

AddressSpec == AddressInit /\ [][AddressNext]_addressVars

-----------------------------------------------------------------------------
(* Properties                                                               *)

(* A row says an address that was asked for: all of it, or the place and name  *)
(* of it and the rest of another address of the same import, written to the    *)
(* same row later.  The name too may be the other's if one of them has an      *)
(* e-mail of its own, by which rows of one place are matched.                *)
Says(r, k) ==
  \/ book[r].contact = k
  \/ \E j \in latest.others :
       /\ book[r].contact = j
       /\ k.place # "none" /\ j.place = k.place
       /\ j.name = k.name \/ latest.own

(* An import links an order to rows that say what the order (or Microtech)    *)
(* says, although writing one address may match, and overwrite, the row of   *)
(* another, and the customer's defaults are written after the order's.       *)
(* It leaves the customer with one billing and one shipping default, unless   *)
(* the order lacks such an address: another is then one more of that kind.    *)
ImportSettlesAddresses ==
  latest.order # "none" =>
    LET o == orderRow[latest.order]
        mine == Of(book, o.owner)
    IN /\ latest.bill # NoContact =>
            Says(o.bill, latest.bill) /\ Cardinality({r \in mine : book[r].inv}) = 1
       /\ latest.ship # NoContact =>
            Says(o.ship, latest.ship) /\ Cardinality({r \in mine : book[r].ship}) = 1

(* An imported order never disappears, however customers are merged and       *)
(* deleted, unless it came between the check and the delete.                 *)
OrdersAreNotLost ==
  [][\A o \in Orders : orderRow[o] # NoOrder => orderRow'[o] # NoOrder \/ raced]_addressVars
=============================================================================
