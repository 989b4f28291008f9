---------------------------- MODULE CustomerUpsert ----------------------------
(***************************************************************************)
(* CustomerUpsertMicrotechService, the direct way of writing the addresses of  *)
(* a customer to Microtech, call by call: by admin actions, a command, before  *)
(* an order's upsert, and by the customer page.  An address is found again by  *)
(* the number Microtech gave it (erp_ans_nr), saved after the call that made   *)
(* it; merging customers, changing the customer's number and linking by hand   *)
(* change what that number means.                                             *)
(*                                                                          *)
(* One customer.  Microtech, through the wrapper, is external: it refuses to   *)
(* update an address it does not have, and gives a new one the first free      *)
(* number.  The wrapper carries out jobs in their order, so a call whose       *)
(* answer is lost has its effect before any later one.  What an address says   *)
(* are its filled fields: an emptied one is not sent.  Contact persons go the   *)
(* way of addresses; they, the customer's own fields and default addresses,     *)
(* and the number written back to Shopware are left out.                      *)
(***************************************************************************)
EXTENDS Naturals, FiniteSets, Sequences

CONSTANTS
  Addresses,        \* Address rows in Django
  Clients,          \* processes
  MaxNumbers,       \* bound: addresses in Microtech
  MaxUpsertEvents,  \* bound: edits, merges, changes of the number, links by hand
  MaxUpsertFaults   \* bound: calls that fail, processes that die

ASSUME UpsertBounds ==
  /\ MaxNumbers \in Nat /\ MaxUpsertEvents \in Nat /\ MaxUpsertFaults \in Nat
  /\ IsFiniteSet(Addresses) /\ Addresses \cap {"nobody", "somebody"} = {}

VARIABLES
  mine,       \* the customer's addresses
  numbers,    \* Address.erp_ans_nr, 0 when empty
  version,    \* what an address says
  account,    \* Microtech: the customer's addresses by their number
  client,     \* per process: its step, what it writes, the rows as it has read them
  landed,     \* history: the addresses that the last undisturbed upsert has written
  doubt,      \* history: addresses that may be there twice, or under another's number
  upsertEvents, upsertFaults

upsertVars == <<mine, numbers, version, account, client, landed, doubt, upsertEvents, upsertFaults>>

-----------------------------------------------------------------------------
Numbers == 1 .. MaxNumbers
Versions == 0 .. MaxUpsertEvents
Card(a, v) == [of |-> a, says |-> v]
NoCard == Card("nobody", 0)
Stranger == Card("somebody", 0)
Cards == {NoCard, Stranger} \cup {Card(a, v) : a \in Addresses, v \in Versions}
NoCards == [n \in Numbers |-> NoCard]
OthersAccounts == {NoCards, [NoCards EXCEPT ![1] = Stranger]}

(* Addresses to be written one after the other.                              *)
Sendings == {s \in UNION {[1 .. n -> Addresses] : n \in 1 .. Cardinality(Addresses)} :
               \A i, j \in DOMAIN s : s[i] = s[j] => i = j}
In(s) == {s[i] : i \in DOMAIN s}

NoClient == [at |-> "off", todo |-> <<>>, wrote |-> {}, got |-> 0, alone |-> TRUE,
             known |-> [a \in Addresses |-> 0], says |-> [a \in Addresses |-> 0]]

UpsertTypeOK ==
  /\ mine \subseteq Addresses
  /\ numbers \in [Addresses -> 0 .. MaxNumbers] /\ version \in [Addresses -> Versions]
  /\ account \in [Numbers -> Cards]
  /\ client \in [Clients -> [at : {"off", "write", "save", "transfer"}, todo : Sendings \cup {<<>>},
       wrote : SUBSET Addresses, got : 0 .. MaxNumbers, alone : BOOLEAN,
       known : [Addresses -> 0 .. MaxNumbers], says : [Addresses -> Versions]]]
  /\ landed \subseteq Addresses /\ doubt \subseteq Addresses
  /\ upsertEvents \in 0 .. MaxUpsertEvents /\ upsertFaults \in 0 .. MaxUpsertFaults

(* The customer is new to Microtech, or has an address there that somebody    *)
(* made; an address of Django may still be another customer's.               *)
UpsertInit ==
  /\ mine \in (SUBSET Addresses) \ {{}}
  /\ numbers = [a \in Addresses |-> 0] /\ version = [a \in Addresses |-> 0]
  /\ account \in OthersAccounts
  /\ client = [c \in Clients |-> NoClient]
  /\ landed = {} /\ doubt = {} /\ upsertEvents = 0 /\ upsertFaults = 0

ClientAt(c, s) == client[c].at = s
Writing(c) == client[c].wrote \cup In(client[c].todo)

(* A process loads the addresses; two processes at once are not alone.       *)
Begins(c, r) ==
  LET busy == {o \in Clients : ~ClientAt(o, "off")}
  IN /\ ClientAt(c, "off")
     /\ client' = [o \in Clients |->
          CASE o = c -> [r EXCEPT !.alone = (busy = {})]
            [] o \in busy -> [client[o] EXCEPT !.alone = FALSE]
            [] OTHER -> client[o]]
     /\ landed' = {}

(* It is through, or has raised.  What two have written at once, and an        *)
(* address whose number was not saved, is in doubt.                          *)
LetsGo(c) ==
  /\ client' = [client EXCEPT ![c] = NoClient]
  /\ doubt' = doubt \cup (IF client[c].alone THEN {} ELSE Writing(c))
                    \cup (IF ClientAt(c, "save") THEN {Head(client[c].todo)} ELSE {})

-----------------------------------------------------------------------------
(* upsert_customer writes the delivery address, then the billing address when  *)
(* it is another; _django_to_microtech all the other addresses after them.    *)
StartsUpsert(c, s) ==
  /\ In(s) \subseteq mine
  /\ Len(s) > 2 => In(s) = mine
  /\ Begins(c, [NoClient EXCEPT !.at = "write", !.todo = s,
                  !.known = [a \in Addresses |-> IF a \in In(s) THEN numbers[a] ELSE 0],
                  !.says = [a \in Addresses |-> IF a \in In(s) THEN version[a] ELSE 0]])
  /\ UNCHANGED <<mine, numbers, version, account, doubt, upsertEvents, upsertFaults>>

(* _upsert_postal_address_graphql: an address with a number is updated, one    *)
(* without is created.                                                       *)
Takes(c, a, n) ==
  IF client[c].known[a] # 0
  THEN n = client[c].known[a] /\ account[n] # NoCard
  ELSE account[n] = NoCard /\ \A o \in 1 .. n - 1 : account[o] # NoCard

WritesAddress(c, n) ==
  /\ ClientAt(c, "write") /\ client[c].todo # <<>>
  /\ LET a == Head(client[c].todo)
     IN Takes(c, a, n) /\ account' = [account EXCEPT ![n] = Card(a, client[c].says[a])]
  /\ client' = [client EXCEPT ![c].at = "save", ![c].got = n]
  /\ UNCHANGED <<mine, numbers, version, landed, doubt, upsertEvents, upsertFaults>>

AddressRefused(c) ==
  /\ ClientAt(c, "write") /\ client[c].todo # <<>>
  /\ \A n \in Numbers : ~Takes(c, Head(client[c].todo), n)
  /\ LetsGo(c)
  /\ UNCHANGED <<mine, numbers, version, account, landed, upsertEvents, upsertFaults>>

(* The number is kept in memory and saved by nobody.                         *)
MutantSavesNumber(c) ==
  /\ ClientAt(c, "save")
  /\ LET a == Head(client[c].todo)
     IN client' = [client EXCEPT ![c].at = "write", ![c].todo = Tail(@), ![c].got = 0,
                                 ![c].wrote = @ \cup {a}]
  /\ UNCHANGED <<mine, numbers, version, account, landed, doubt, upsertEvents, upsertFaults>>

(* _persist_anschrift_identity, where the row that was read says otherwise.   *)
SavesNumber(c) ==
  /\ ClientAt(c, "save")
  /\ LET a == Head(client[c].todo)
     IN /\ numbers' = IF client[c].known[a] = client[c].got THEN numbers
                      ELSE [numbers EXCEPT ![a] = client[c].got]
        /\ client' = [client EXCEPT ![c].at = "write", ![c].todo = Tail(@), ![c].got = 0,
                                    ![c].known[a] = 0, ![c].wrote = @ \cup {a}]
  /\ UNCHANGED <<mine, version, account, landed, doubt, upsertEvents, upsertFaults>>

EndsUpsert(c) ==
  /\ ClientAt(c, "write") /\ client[c].todo = <<>>
  /\ LetsGo(c)
  /\ landed' = IF client[c].alone /\ \A a \in Writing(c) : client[c].says[a] = version[a]
               THEN Writing(c) ELSE {}
  /\ UNCHANGED <<mine, numbers, version, account, upsertEvents, upsertFaults>>

ClientBreaks(c) ==
  /\ ~ClientAt(c, "off") /\ upsertFaults < MaxUpsertFaults
  /\ upsertFaults' = upsertFaults + 1
  /\ LetsGo(c)
  /\ UNCHANGED <<mine, numbers, version, account, landed, upsertEvents>>

-----------------------------------------------------------------------------
UpsertEvent == upsertEvents < MaxUpsertEvents /\ upsertEvents' = upsertEvents + 1

(* OrderAddressReconciliationService: a person links an order's one or two     *)
(* addresses to addresses of Microtech, with the values that are to be written *)
(* there; all links are saved in one transaction at the end.                 *)
StartsLinking(c, s, chosen) ==
  /\ UpsertEvent
  /\ Len(s) <= 2 /\ In(s) \subseteq mine
  /\ \A a \in In(s) : account[chosen[a]] # NoCard
  /\ Begins(c, [NoClient EXCEPT !.at = "transfer", !.todo = s, !.says = version,
                  !.known = [a \in Addresses |-> IF a \in In(s) THEN chosen[a] ELSE 0]])
  /\ doubt' = doubt \cup In(s)
  /\ UNCHANGED <<mine, numbers, version, account, upsertFaults>>

TransfersValues(c) ==
  /\ ClientAt(c, "transfer") /\ client[c].todo # <<>>
  /\ LET a == Head(client[c].todo)
     IN /\ \/ account' = [account EXCEPT ![client[c].known[a]] = Card(a, client[c].says[a])]
           \/ UNCHANGED account
        /\ client' = [client EXCEPT ![c].todo = Tail(@), ![c].wrote = @ \cup {a}]
  /\ UNCHANGED <<mine, numbers, version, landed, doubt, upsertEvents, upsertFaults>>

SavesLinks(c) ==
  /\ ClientAt(c, "transfer") /\ client[c].todo = <<>>
  /\ numbers' = [a \in Addresses |-> IF a \in client[c].wrote THEN client[c].known[a] ELSE numbers[a]]
  /\ client' = [client EXCEPT ![c] = NoClient]
  /\ UNCHANGED <<mine, version, account, landed, doubt, upsertEvents, upsertFaults>>

(* An import or a person changes an address; what it says reaches Microtech    *)
(* with the next upsert.                                                     *)
EditsAddress(a) ==
  /\ UpsertEvent
  /\ version' = [version EXCEPT ![a] = upsertEvents + 1]
  /\ landed' = {}
  /\ UNCHANGED <<mine, numbers, account, client, doubt, upsertFaults>>

(* _merge_addresses moves an address here: its number was another customer's.  *)
MovesIn(a, n) ==
  /\ UpsertEvent
  /\ a \notin mine /\ mine' = mine \cup {a}
  /\ numbers' = [numbers EXCEPT ![a] = n]
  /\ doubt' = IF n = 0 THEN doubt ELSE doubt \cup {a}
  /\ landed' = {}
  /\ UNCHANGED <<version, account, client, upsertFaults>>

(* update_erp_nr, while nobody writes: the customer is another in Microtech     *)
(* from now on, and its addresses keep the numbers they had.                 *)
ChangesCustomerNumber(other) ==
  /\ UpsertEvent
  /\ account' = other
  /\ doubt' = doubt \cup {a \in mine : numbers[a] # 0}
  /\ landed' = {}
  /\ \A c \in Clients : ClientAt(c, "off")
  /\ UNCHANGED <<mine, numbers, version, client, upsertFaults>>

ClientStep(c) ==
  \/ AddressRefused(c) \/ SavesNumber(c) \/ EndsUpsert(c) \/ TransfersValues(c) \/ SavesLinks(c)
  \/ \E n \in Numbers : WritesAddress(c, n)

UpsertNext ==
  \/ \E c \in Clients : ClientStep(c) \/ ClientBreaks(c)
  \/ \E c \in Clients, s \in Sendings : StartsUpsert(c, s)
  \/ \E c \in Clients, s \in Sendings, chosen \in [Addresses -> Numbers] : StartsLinking(c, s, chosen)
  \/ \E a \in Addresses : EditsAddress(a) \/ \E n \in 0 .. MaxNumbers : MovesIn(a, n)
  \/ \E other \in OthersAccounts : ChangesCustomerNumber(other)

UpsertSpec == UpsertInit /\ [][UpsertNext]_upsertVars

-----------------------------------------------------------------------------
(* After an upsert that nobody disturbed Microtech has each address it wrote   *)
(* as Django says, under its number; and once, however often earlier upserts   *)
(* broke.  Except addresses in doubt: created without the number being saved,  *)
(* written by two at once, or with a number from a merge, from another         *)
(* customer number or from a person; two of these may have, and overwrite,     *)
(* the same address in Microtech.                                             *)
UpsertLands ==
  \A a \in landed :
    /\ (\A x \in landed \ {a} : numbers[x] # numbers[a])
         => numbers[a] # 0 /\ account[numbers[a]] = Card(a, version[a])
    /\ \A x \in landed \ {a} : numbers[x] = numbers[a] => a \in doubt \/ x \in doubt
    /\ a \notin doubt => \A n \in Numbers : account[n].of = a => n = numbers[a]
=============================================================================
