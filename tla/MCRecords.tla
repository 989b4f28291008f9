------------------------------ MODULE MCRecords ------------------------------
(***************************************************************************)
(* Small instances of the records that several people, tasks and imports write *)
(* without seeing each other: the order sync workflow (from the late states and *)
(* the middle of MCOrderSync's chain), the change of an order's customer, the   *)
(* address book, both direct upserts, the rules, the category tree, leave and   *)
(* working time, and the transfers of a customer's addresses.  Where they meet, *)
(* each models the other by what it can see of it; so they are checked side by  *)
(* side, and the variable focus, chosen at the beginning, says which of them   *)
(* moves.  The others stay in one of their initial states.                   *)
(***************************************************************************)
EXTENDS MCOrderSync, CustomerChange, AddressBook, VorgangUpsert, OrderRules, Categories, WorkingTime,
        CustomerUpsert, AddressMirror

CONSTANTS a1, a2, o1, v1, v2, p, q, variant, family, r1, r2, d1, d2, w1, w2, u1, u2, m1

(* Two addresses of one place and name, one of another name there with an     *)
(* e-mail of its own, and one elsewhere; and what is told of them.           *)
There(name, mail, rest) == [place |-> "there", name |-> name, mail |-> mail, rest |-> rest]
Away == [place |-> "away", name |-> "n", mail |-> "none", rest |-> "1"]
MCContacts == {There("n", "none", "1"), There("n", "none", "2"), There("m", "mail", "1"), Away}

Here == There("n", "none", "1")
Alike == There("n", "none", "2")
Other == There("m", "mail", "1")

(* An order tells one address, two, or none; the customer has both defaults,   *)
(* in one address or two, or one of them, or none.                           *)
MCOrderTells == {<<Here, "bill", Here>>, <<Here, "ship", Alike>>, <<Other, "ship", Alike>>,
                 <<Here, "ship", NoContact>>, <<NoContact, "ship", Alike>>, <<NoContact, "ship", NoContact>>}
MCDefaultTells == {<<Alike, "first", Alike>>, <<Away, "second", Here>>, <<NoContact, "second", Other>>,
                   <<NoContact, "second", NoContact>>}
MCShopTells == {[bill |-> x[1], shipId |-> x[2], ship |-> x[3], home |-> h[1], awayId |-> h[2], away |-> h[3],
                 mail |-> "mail"] : x \in MCOrderTells, h \in MCDefaultTells}

MCErpTells ==
  {[contacts |-> <<There("n", "mail", "2")>>, bill |-> n, ship |-> n] : n \in 0 .. 1}
    \cup [contacts : {<<There("n", "mail", "1"), There("m", "mail", "1")>>}, bill : 0 .. 2, ship : 0 .. 2]

(* Two threads, agents, commands, desks or clients do the same: what one does   *)
(* the other could have done.                                                *)
Doers == {t1, t2, a1, a2, v1, v2, d1, d2, u1, u2}
Partner == (t1 :> t2) @@ (t2 :> t1) @@ (a1 :> a2) @@ (a2 :> a1) @@ (v1 :> v2) @@ (v2 :> v1)
             @@ (d1 :> d2) @@ (d2 :> d1) @@ (u1 :> u2) @@ (u2 :> u1)
Interchanged == {[x \in Doers |-> IF swap THEN Partner[x] ELSE x] : swap \in BOOLEAN}

VARIABLE focus

everything == <<focus, vars, changeVars, addressVars, vorgangVars, ruleVars, catVars, leaveVars,
                upsertVars, mirrorVars>>

Parts == {"workflow", "chain", "change", "addresses", "vorgang", "rules", "categories", "leave", "upsert", "mirror"}

(* What the shop makes of what it is sent: 9 is a ".", wording 2 has the name  *)
(* in one field and comes back as 3.  What people write.                      *)
MCPlaced == [s \in {0, 1, 2, 9} |-> IF s = 0 THEN 9 ELSE s]
MCWorded == [w \in 1 .. 3 |-> IF w = 2 THEN 3 ELSE w]
MCCountry == [r \in {"at", "de", "desk"} |-> IF r = "desk" THEN "de" ELSE r]
Words(s, w, ph, co) == [spot |-> s, wording |-> w, phone |-> ph, rest |-> co]
MirrorAt == Words(1, 1, "phone", "desk")
FirstTyped == {MirrorAt, Words(2, 1, "", "at")}
MCTyped == FirstTyped \cup {Words(0, 2, "", "at")}

(* What the customer's addresses begin with.                                 *)
SomeEntries ==
  /\ entries[3] = NoEntry /\ shopLinked = inShopware
  /\ inShopware = (InShop # {})
  /\ \A e \in Held : entries[e].is \in FirstTyped
  /\ \A i \in InShop : shopEntries[i].is \in FirstTyped
  /\ 2 \in InShop => shopEntries[2].is # MirrorAt
  /\ InShop # {} => shopEntries[1].is = MirrorAt /\ erpEntries[<<1, 1>>] = NoCopy
  /\ erpEntries[<<2, 0>>] = NoCopy /\ erpEntries[<<1, 1>>] = erpEntries[<<1, 2>>]
  /\ entries[1].card = <<0, 0>> => erpEntries[<<1, 0>>] = NoCopy

NoEntries ==
  /\ entries = [e \in Entries |-> NoEntry] /\ shopEntries = [i \in ShopSlots |-> NoCopy] /\ shopBill = 0
  /\ erpEntries = [c \in ErpCards |-> NoCopy] /\ shopLinked = FALSE /\ inShopware = FALSE
  /\ transfer = [t \in Transfers |-> AtRest] /\ lastTransfer = "nothing" /\ entryEdits = 0

(* What its conditions say of an order, and what its actions do to one.       *)
NoConditions == \A c \in Conditions : ~conditions[c].here
EmptyOrder == order = [details |-> <<>>, costs |-> FALSE]

RecordsInit ==
  /\ focus \in Parts
  /\ CatInit /\ (IF focus = "categories" THEN Inside = Cats /\ shopRow[3].parent = Root /\ shopRow[2].parent = 3
                                        ELSE Remote = {Root})
  /\ LeaveInit /\ (IF focus = "leave" THEN leave[r1].from < LastDay /\ leave[r1].to = LastDay /\ leave[r1].status = "approved" /\ leave[r2] = NoRow
                                       ELSE \A r \in Vacations : leave[r] = NoRow)
  /\ (CASE focus = "workflow" -> LateInit [] focus = "chain" -> MiddleInit [] OTHER -> FreshInit)
  /\ ChangeInit /\ VorgangInit
  /\ AddressInit /\ (focus # "addresses" => known = {})
  /\ UpsertInit /\ (IF account = NoCards THEN mine = Addresses ELSE mine = {w1}) /\ (focus # "upsert" => account = NoCards)
  /\ (IF focus = "mirror" THEN MirrorInit /\ SomeEntries ELSE NoEntries)
  /\ RuleInit
  /\ conditions[q].here => conditions[p].here /\ (conditions[q].on => conditions[p].on)
  /\ focus # "rules" => logic = "all" /\ NoConditions /\ EmptyOrder
  /\ NoConditions \/ EmptyOrder

WorkflowStep ==
  /\ focus = "workflow" /\ Next
  /\ UNCHANGED <<focus, changeVars, addressVars, vorgangVars, ruleVars, catVars, leaveVars, upsertVars, mirrorVars>>
ChainStep ==
  /\ focus = "chain" /\ CalmNext
  /\ UNCHANGED <<focus, changeVars, addressVars, vorgangVars, ruleVars, catVars, leaveVars, upsertVars, mirrorVars>>
ChangeStep ==
  /\ focus = "change" /\ ChangeNext
  /\ UNCHANGED <<focus, vars, addressVars, vorgangVars, ruleVars, catVars, leaveVars, upsertVars, mirrorVars>>
AddressStep ==
  /\ focus = "addresses" /\ AddressNext
  /\ UNCHANGED <<focus, vars, changeVars, vorgangVars, ruleVars, catVars, leaveVars, upsertVars, mirrorVars>>
VorgangStep ==
  /\ focus = "vorgang" /\ VorgangNext
  /\ UNCHANGED <<focus, vars, changeVars, addressVars, ruleVars, catVars, leaveVars, upsertVars, mirrorVars>>
RuleStep ==
  /\ focus = "rules" /\ RuleNext
  /\ UNCHANGED <<focus, vars, changeVars, addressVars, vorgangVars, catVars, leaveVars, upsertVars, mirrorVars>>
CategoryStep ==
  /\ focus = "categories" /\ CatNext
  /\ UNCHANGED <<focus, vars, changeVars, addressVars, vorgangVars, ruleVars, leaveVars, upsertVars, mirrorVars>>
LeaveStep ==
  /\ focus = "leave" /\ LeaveNext
  /\ UNCHANGED <<focus, vars, changeVars, addressVars, vorgangVars, ruleVars, catVars, upsertVars, mirrorVars>>
UpsertStep ==
  /\ focus = "upsert" /\ UpsertNext
  /\ UNCHANGED <<focus, vars, changeVars, addressVars, vorgangVars, ruleVars, catVars, leaveVars, mirrorVars>>

MirrorStep ==
  /\ focus = "mirror" /\ MirrorNext
  /\ UNCHANGED <<focus, vars, changeVars, addressVars, vorgangVars, ruleVars, catVars, leaveVars, upsertVars>>

RecordsNext ==
  \/ WorkflowStep \/ ChainStep \/ ChangeStep \/ AddressStep \/ VorgangStep \/ RuleStep
  \/ CategoryStep \/ LeaveStep \/ UpsertStep \/ MirrorStep

RecordsSpec == RecordsInit /\ [][RecordsNext]_everything

-----------------------------------------------------------------------------
(* Every variable of the part that moves keeps its type.                      *)
TypesOK ==
  /\ focus \in {"workflow", "chain"} => TypeOK
  /\ focus = "change" => ChangeTypeOK
  /\ focus = "addresses" => AddressTypeOK
  /\ focus = "vorgang" => VorgangTypeOK
  /\ focus = "rules" => RuleTypeOK
  /\ focus = "categories" => CatTypeOK
  /\ focus = "leave" => LeaveTypeOK
  /\ focus = "upsert" => UpsertTypeOK
  /\ focus = "mirror" => MirrorTypeOK
=============================================================================
