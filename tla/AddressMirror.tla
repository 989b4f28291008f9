---------------------------- MODULE AddressMirror ----------------------------
(***************************************************************************)
(* CustomerSyncDirectionService (customer/services/customer_merge.py) and    *)
(* CustomerSyncService (customer_sync.py): a person carries one customer's   *)
(* addresses from Shopware to Django, from Django to Shopware, or from        *)
(* Microtech to Django.  No transaction spans a transfer: it reads the other  *)
(* side once, then saves or sends address after address, while people and     *)
(* other transfers change both sides.                                       *)
(*                                                                          *)
(* A spot is street and postal code, both or neither given, by which          *)
(* addresses without a common id are matched; the wording is names, company   *)
(* and city; the rest is country, department and e-mail.  What the shop and    *)
(* Microtech have is told as Django reads it.  The shop is sent a converted    *)
(* spot and wording, the phone if there is one, and nothing of the rest.  A    *)
(* card is a postal address in Microtech with its contact, by number; the     *)
(* second number is 0 where it has no contact.  Left out are the ids of        *)
(* Microtech, which belong to numbers for good, the shipping default, which   *)
(* goes with the other one, and the title and third name, which the shop does *)
(* not have to give.  The contacts are read with their postal addresses here,  *)
(* and one by one in the code.  The way to Microtech is in CustomerUpsert.     *)
(***************************************************************************)
EXTENDS Naturals, FiniteSets, FiniteSetsExt

CONSTANTS
  Transfers,      \* requests of the customer page
  Spots, NoSpot,       \* NoSpot: neither street nor postal code
  Wordings, Phones, NoPhone, Rests,
  Placed,         \* how a spot reads that was sent to the shop: "." for what is missing
  Worded,         \* how a wording reads that was sent: the company only beside a second name,
                  \* the first and second name for missing ones, or "."
  Country,        \* of a rest: what an address keeps of it that only takes its country
  Typed,          \* bound: what people write and what there is at first
  MaxEntries,     \* bound: Address rows of the customer
  MaxShopEntries, \* bound: addresses of the customer in Shopware
  MaxEntryEdits   \* bound: changes by people, refused calls

ASSUME MirrorBounds ==
  /\ MaxEntries \in Nat /\ MaxShopEntries \in Nat \ {0} /\ MaxEntryEdits \in Nat
  /\ NoSpot \in Spots /\ NoPhone \in Phones
  /\ Placed \in [Spots -> Spots] /\ Worded \in [Wordings -> Wordings] /\ Country \in [Rests -> Rests]
  /\ Typed # {} /\ Typed \subseteq [spot : Spots, wording : Wordings, phone : Phones, rest : Rests]

Entries == 1 .. MaxEntries
ShopSlots == 1 .. MaxShopEntries
ErpCards == {<<1, 0>>, <<1, 1>>, <<1, 2>>, <<2, 0>>}

VARIABLES
  entries,     \* the Address rows
  shopEntries, \* the addresses in Shopware ...
  shopBill,    \* ... and which is the default
  erpEntries,  \* the cards in Microtech
  shopLinked,      \* has Customer.api_id the Shopware customer's id
  inShopware,  \* is there a Shopware customer with this number
  transfer,    \* per request: where it stands, what it has read and what is left
  lastTransfer,    \* history: the last transfer, if nothing disturbed it
  entryEdits

mirrorVars == <<entries, shopEntries, shopBill, erpEntries, shopLinked, inShopware, transfer, lastTransfer, entryEdits>>

-----------------------------------------------------------------------------
Content == [spot : Spots, wording : Wordings, phone : Phones, rest : Rests]
Somewhere == CHOOSE c \in Typed : TRUE
NoEntry == [here |-> FALSE, is |-> Somewhere, api |-> 0, card |-> <<0, 0>>, inv |-> FALSE]
NoCopy == [here |-> FALSE, is |-> Somewhere]
Copies == [here : BOOLEAN, is : Content]
AtRest == [pc |-> "rest", list |-> [i \in {} |-> NoCopy], rows |-> [e \in {} |-> NoEntry],
           bill |-> 0, todo |-> {}, seen |-> {}, clean |-> TRUE]
Held == {e \in Entries : entries[e].here}
InShop == {i \in ShopSlots : shopEntries[i].here}

MirrorTypeOK ==
  /\ DOMAIN entries = Entries /\ DOMAIN shopEntries = ShopSlots /\ DOMAIN erpEntries = ErpCards
  /\ \A e \in Entries : entries[e] \in [here : BOOLEAN, is : Content, api : 0 .. MaxShopEntries,
                                       card : ErpCards \cup {<<0, 0>>}, inv : BOOLEAN]
  /\ \A i \in ShopSlots : shopEntries[i] \in Copies
  /\ \A c \in ErpCards : erpEntries[c] \in Copies
  /\ shopBill \in 0 .. MaxShopEntries /\ shopLinked \in BOOLEAN /\ inShopware \in BOOLEAN
  /\ \A t \in Transfers :
       /\ transfer[t].pc \in {"rest", "pull", "push", "import", "unlink"}
       /\ transfer[t].seen \subseteq Entries /\ transfer[t].clean \in BOOLEAN
       /\ transfer[t].todo \subseteq CASE transfer[t].pc = "push" -> Entries
                                       [] transfer[t].pc = "import" -> ErpCards [] OTHER -> ShopSlots
  /\ lastTransfer \in {"nothing", "pull", "push", "import"}
  /\ entryEdits \in 0 .. MaxEntryEdits

CardsPossible(m) == m[<<1, 0>>].here => ~m[<<1, 1>>].here /\ ~m[<<1, 2>>].here

MirrorInit ==
  /\ entries \in [Entries -> {NoEntry} \cup [here : {TRUE}, is : Typed, api : 0 .. 1,
                                             card : {<<0, 0>>, <<1, 0>>}, inv : {FALSE}]]
  /\ \A e \in Held \ {1} : entries[e].api = 0 /\ entries[e].card = <<0, 0>> /\ e - 1 \in Held
  /\ shopEntries \in [ShopSlots -> {NoCopy} \cup [here : {TRUE}, is : Typed]]
  /\ \A i \in InShop \ {1} : i - 1 \in InShop
  /\ shopBill = IF InShop = {} THEN 0 ELSE 1
  /\ erpEntries \in [ErpCards -> {NoCopy} \cup [here : {TRUE}, is : {Somewhere}]] /\ CardsPossible(erpEntries)
  /\ inShopware \in BOOLEAN /\ shopLinked \in {FALSE, inShopware}
  /\ (InShop # {} => inShopware)
  /\ transfer = [t \in Transfers |-> AtRest]
  /\ lastTransfer = "nothing" /\ entryEdits = 0

-----------------------------------------------------------------------------
(* A step of t that changes something disturbs the transfers of the others;   *)
(* what a person changes, or a refused call leaves, disturbs all.            *)
Now(t, rec) ==
  /\ transfer' = [u \in Transfers |->
        IF u = t THEN rec ELSE [transfer[u] EXCEPT !.clean = FALSE]]
  /\ lastTransfer' = "nothing"
TransferEnds(t, way) ==
  /\ transfer' = [u \in Transfers |->
        IF u = t THEN AtRest ELSE [transfer[u] EXCEPT !.clean = FALSE]]
  /\ lastTransfer' = IF transfer[t].clean /\ (\A u \in Transfers \ {t} : transfer[u].pc = "rest") THEN way ELSE "nothing"
Touched ==
  /\ entryEdits < MaxEntryEdits /\ entryEdits' = entryEdits + 1
  /\ lastTransfer' = "nothing"
  /\ transfer' = [u \in Transfers |-> [transfer[u] EXCEPT !.clean = FALSE]]
Stage(t, p) == transfer[t].pc = p
Rest(t) == [transfer[t] EXCEPT !.todo = @ \ {Min(@)}]
Starts(p, list, todo, rows) ==
  [AtRest EXCEPT !.pc = p, !.list = list, !.todo = todo, !.rows = rows, !.bill = shopBill]

(* The row for something not matched yet is any unused one.                  *)
Unused == {e \in Entries : ~entries[e].here}
FirstOf(best, next, last) == IF best # {} THEN best ELSE IF next # {} THEN next ELSE last

-----------------------------------------------------------------------------
(* Shopware to Django (_shopware_to_django)                                 *)
PullStarts(t) ==
  /\ Stage(t, "rest") /\ inShopware
  /\ shopLinked' = TRUE
  /\ Now(t, Starts("pull", shopEntries, InShop, <<>>))
  /\ UNCHANGED <<entries, shopEntries, shopBill, erpEntries, inShopware, entryEdits>>

ById(i) == {e \in Held : entries[e].api = i}
MutantBySpot(t, i) == {e \in Held : entries[e].is.spot = transfer[t].list[i].is.spot}
BySpot(t, i) ==
  {e \in Held \ transfer[t].seen : entries[e].is.spot # NoSpot /\ entries[e].is.spot = transfer[t].list[i].is.spot}

PullSaves(t) ==
  /\ Stage(t, "pull") /\ transfer[t].todo # {}
  /\ LET i == Min(transfer[t].todo)
     IN \E e \in FirstOf(ById(i), BySpot(t, i), Unused) :
          /\ entries' = [entries EXCEPT ![e] =
               [here |-> TRUE, is |-> transfer[t].list[i].is, api |-> i,
                card |-> IF @.here THEN @.card ELSE <<0, 0>>, inv |-> i = transfer[t].bill]]
          /\ Now(t, [Rest(t) EXCEPT !.seen = @ \cup {e}])
  /\ UNCHANGED <<shopEntries, shopBill, erpEntries, shopLinked, inShopware, entryEdits>>

(* Rows the shop does not know are deleted, unless it knows none at all.      *)
OnlyKeeps(seen) ==
  entries' = [e \in Entries |-> IF e \in seen \/ seen = {} THEN entries[e] ELSE NoEntry]

PullEnds(t) ==
  /\ Stage(t, "pull") /\ transfer[t].todo = {}
  /\ OnlyKeeps(transfer[t].seen)
  /\ TransferEnds(t, "pull")
  /\ UNCHANGED <<shopEntries, shopBill, erpEntries, shopLinked, inShopware, entryEdits>>

-----------------------------------------------------------------------------
(* Django to Shopware (_django_to_shopware).  An address goes to the one of    *)
(* its id, or to the last one at its spot, or becomes a new one, of the        *)
(* country of one that was there.  With none there, there is no country to     *)
(* send: the shop refuses the address, or takes it with what it has itself.    *)
Patched(old, is) ==
  [old EXCEPT !.spot = Placed[is.spot], !.wording = Worded[is.wording],
              !.phone = IF is.phone = NoPhone THEN @ ELSE is.phone]
Carries(there, is) ==
  /\ there.spot = Placed[is.spot] /\ there.wording = Worded[is.wording]
  /\ is.phone # NoPhone => there.phone = is.phone
Listed(list) == {i \in DOMAIN list : list[i].here}
NewRests(list) == IF Listed(list) = {} THEN Rests ELSE {Country[list[i].is.rest] : i \in Listed(list)}
NewOnes(list) == [spot : {Somewhere.spot}, wording : {Somewhere.wording}, phone : {NoPhone}, rest : NewRests(list)]

SendStarts(t) ==
  /\ Stage(t, "rest") /\ (shopLinked \/ inShopware)
  /\ shopLinked' = TRUE
  /\ Now(t, Starts("push", IF inShopware THEN shopEntries ELSE [i \in ShopSlots |-> NoCopy], Held, entries))
  /\ UNCHANGED <<entries, shopEntries, shopBill, erpEntries, inShopware, entryEdits>>

Goal(list, rows, e) ==
  LET at == {i \in DOMAIN list : list[i].here /\ list[i].is.spot = rows[e].is.spot /\ rows[e].is.spot # NoSpot}
  IN IF rows[e].api # 0 /\ list[rows[e].api].here THEN rows[e].api
     ELSE IF at # {} THEN Max(at) ELSE 0

(* Two addresses that go to the same one: the second replaces the first.      *)
Meet(list, rows) ==
  \E e, f \in {g \in Entries : rows[g].here} : e # f /\ Goal(list, rows, e) = Goal(list, rows, f) /\ Goal(list, rows, e) # 0

KeepsId(e, i) ==       \* save(update_fields), which fails if the row is gone
  entries' = IF entries[e].here THEN [entries EXCEPT ![e].api = i] ELSE entries

PatchesThere(t, e) ==
  LET i == Goal(transfer[t].list, transfer[t].rows, e)
  IN /\ i # 0 /\ shopEntries[i].here
     /\ shopEntries' = [shopEntries EXCEPT ![i].is = Patched(@, transfer[t].rows[e].is)]

CreatesThere(t, e, i) ==
  /\ Goal(transfer[t].list, transfer[t].rows, e) = 0 /\ inShopware
  /\ \A f \in Entries : transfer[t].rows[f].api # i /\ entries[f].api # i
  /\ \E new \in NewOnes(transfer[t].list) :
       shopEntries' = [shopEntries EXCEPT ![i] = [here |-> TRUE, is |-> Patched(new, transfer[t].rows[e].is)]]

SendPatches(t) ==
  /\ Stage(t, "push")
  /\ \E e \in transfer[t].todo :
       /\ PatchesThere(t, e)
       /\ IF transfer[t].rows[e].api = 0 THEN KeepsId(e, Goal(transfer[t].list, transfer[t].rows, e)) ELSE UNCHANGED entries
       /\ Now(t, [transfer[t] EXCEPT !.todo = @ \ {e}])
  /\ UNCHANGED <<shopBill, erpEntries, shopLinked, inShopware, entryEdits>>

SendCreates(t) ==
  /\ Stage(t, "push")
  /\ \E e \in transfer[t].todo, i \in ShopSlots \ InShop :
       /\ CreatesThere(t, e, i) /\ KeepsId(e, i)
       /\ Now(t, [transfer[t] EXCEPT !.todo = @ \ {e}])
  /\ UNCHANGED <<shopBill, erpEntries, shopLinked, inShopware, entryEdits>>

(* What it would patch, or the customer, is gone, or there is no country.      *)
SendMisses(t) ==
  /\ Stage(t, "push")
  /\ \E e \in transfer[t].todo :
       LET i == Goal(transfer[t].list, transfer[t].rows, e)
       IN /\ IF i = 0 THEN ~inShopware \/ Listed(transfer[t].list) = {} ELSE ~shopEntries[i].here
          /\ Now(t, [transfer[t] EXCEPT !.todo = @ \ {e}, !.clean = FALSE])
  /\ UNCHANGED <<entries, shopEntries, shopBill, erpEntries, shopLinked, inShopware, entryEdits>>

(* A call fails, or only its answer is lost; the next address follows.        *)
SendFails(t) ==
  /\ Stage(t, "push") /\ entryEdits < MaxEntryEdits /\ entryEdits' = entryEdits + 1
  /\ \E e \in transfer[t].todo :
       /\ \/ UNCHANGED shopEntries
          \/ PatchesThere(t, e)
          \/ \E i \in ShopSlots \ InShop : CreatesThere(t, e, i)
       /\ Now(t, [transfer[t] EXCEPT !.todo = @ \ {e}, !.clean = FALSE])
  /\ UNCHANGED <<entries, shopBill, erpEntries, shopLinked, inShopware>>

SendEnds(t) ==
  /\ Stage(t, "push") /\ transfer[t].todo = {}
  /\ TransferEnds(t, IF inShopware /\ ~Meet(transfer[t].list, transfer[t].rows) THEN "push" ELSE "nothing")
  /\ UNCHANGED <<entries, shopEntries, shopBill, erpEntries, shopLinked, inShopware, entryEdits>>

-----------------------------------------------------------------------------
(* Microtech to Django (sync_from_microtech, _upsert_local_address)           *)
FetchStarts(t) ==
  /\ Stage(t, "rest")
  /\ Now(t, Starts("import", erpEntries, {c \in ErpCards : erpEntries[c].here}, <<>>))
  /\ UNCHANGED <<entries, shopEntries, shopBill, erpEntries, shopLinked, inShopware, entryEdits>>

(* A card without a row takes the row its postal address had without contact. *)
ByCard(c) == {e \in Held : entries[e].card = c}
WithoutContact(c) == ByCard(<<c[1], 0>>)

FetchSaves(t) ==
  /\ Stage(t, "import")
  /\ \E c \in transfer[t].todo :
       /\ \A d \in transfer[t].todo : d[1] > c[1] \/ (d[1] = c[1] /\ d[2] >= c[2])
       /\ \E e \in FirstOf(ByCard(c), WithoutContact(c), Unused) :
            /\ entries' = [entries EXCEPT ![e] =
                 [here |-> TRUE, is |-> transfer[t].list[c].is, api |-> IF @.here THEN @.api ELSE 0,
                  card |-> c, inv |-> c[1] = 1]]
            /\ Now(t, [transfer[t] EXCEPT !.todo = @ \ {c}, !.seen = @ \cup {e}])
  /\ UNCHANGED <<shopEntries, shopBill, erpEntries, shopLinked, inShopware, entryEdits>>

FetchEnds(t) ==
  /\ Stage(t, "import") /\ transfer[t].todo = {}
  /\ OnlyKeeps(transfer[t].seen)
  /\ TransferEnds(t, "import")
  /\ UNCHANGED <<shopEntries, shopBill, erpEntries, shopLinked, inShopware, entryEdits>>

-----------------------------------------------------------------------------
(* The customer is deleted in Shopware (delete_shopware), then its id here.   *)
DeletesInShop(t) ==
  /\ Stage(t, "rest") /\ inShopware /\ entryEdits < MaxEntryEdits /\ entryEdits' = entryEdits + 1
  /\ inShopware' = FALSE /\ shopEntries' = [i \in ShopSlots |-> NoCopy] /\ shopBill' = 0
  /\ Now(t, IF shopLinked THEN [AtRest EXCEPT !.pc = "unlink"] ELSE AtRest)
  /\ UNCHANGED <<entries, erpEntries, shopLinked>>

Unlinks(t) ==
  /\ Stage(t, "unlink")
  /\ shopLinked' = FALSE
  /\ Now(t, AtRest)
  /\ UNCHANGED <<entries, shopEntries, shopBill, erpEntries, inShopware, entryEdits>>

(* A person sets or clears the id (update_shopware_id).                      *)
Relinks ==
  /\ Touched
  /\ shopLinked' \in {FALSE, inShopware}
  /\ UNCHANGED <<entries, shopEntries, shopBill, erpEntries, inShopware>>

(* People change an address anywhere, a merge moves one in (_merge_addresses) *)
(* with the number it had under the other customer.                          *)
EntryEdited ==
  /\ Touched
  /\ \/ \E e \in Held, c \in Typed : entries' = [entries EXCEPT ![e].is = c]
     \/ \E e \in Unused, c \in Typed, k \in {<<0, 0>>, <<1, 0>>} :
          entries' = [entries EXCEPT ![e] = [NoEntry EXCEPT !.here = TRUE, !.is = c, !.card = k]]
  /\ UNCHANGED <<shopEntries, shopBill, erpEntries, shopLinked, inShopware>>

ShopEntryEdited ==
  /\ Touched /\ inShopware
  /\ \/ \E i \in InShop, c \in Typed : shopEntries' = [shopEntries EXCEPT ![i].is = c] /\ shopBill' \in InShop
     \/ \E i \in InShop \ {shopBill} : shopEntries' = [shopEntries EXCEPT ![i] = NoCopy] /\ UNCHANGED shopBill
  /\ UNCHANGED <<entries, erpEntries, shopLinked, inShopware>>

ErpEntryEdited ==
  /\ Touched
  /\ \E c \in ErpCards : erpEntries' = [erpEntries EXCEPT ![c].here = ~@, ![c].is = Somewhere]
  /\ CardsPossible(erpEntries')
  /\ UNCHANGED <<entries, shopEntries, shopBill, shopLinked, inShopware>>

MirrorNext ==
  \/ \E t \in Transfers : \/ PullStarts(t) \/ PullSaves(t) \/ PullEnds(t)
                          \/ SendStarts(t) \/ SendPatches(t) \/ SendCreates(t) \/ SendMisses(t) \/ SendFails(t) \/ SendEnds(t)
                          \/ FetchStarts(t) \/ FetchSaves(t) \/ FetchEnds(t)
                          \/ DeletesInShop(t) \/ Unlinks(t)
  \/ Relinks \/ EntryEdited \/ ShopEntryEdited \/ ErpEntryEdited

MirrorSpec == MirrorInit /\ [][MirrorNext]_mirrorVars

-----------------------------------------------------------------------------
(* Properties                                                               *)

(* A transfer that nothing disturbed has brought over all there was, whatever  *)
(* ids, numbers and doubles earlier ones left: after a pull Django has each    *)
(* address of the shop once, with its id and the default, and no other; after  *)
(* an import each card of Microtech; after a push, unless two addresses went   *)
(* to the same one, each address of Django is in the shop as far as it is      *)
(* sent: its converted spot and wording, and its phone if it has one.          *)
MirrorHolds ==
  /\ lastTransfer = "pull" /\ InShop # {} =>
       /\ \A i \in InShop : \E e \in Held : entries[e].api = i /\ entries[e].is = shopEntries[i].is
                                            /\ entries[e].inv = (i = shopBill)
       /\ Cardinality(Held) = Cardinality(InShop)
  /\ lastTransfer = "import" /\ (\E c \in ErpCards : erpEntries[c].here) =>
       /\ \A c \in ErpCards : erpEntries[c].here => \E e \in Held : entries[e].card = c /\ entries[e].is = erpEntries[c].is
       /\ \A e \in Held : erpEntries[entries[e].card].here
  /\ lastTransfer = "push" => \A e \in Held : \E i \in InShop : Carries(shopEntries[i].is, entries[e].is)
=============================================================================
