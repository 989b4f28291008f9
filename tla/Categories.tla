---------------------------- MODULE Categories ----------------------------
(***************************************************************************)
(* The category tree between Shopware 6 and Django.  The import reads the      *)
(* categories page by page, keeps those below the root, and makes the local    *)
(* rows, their order and their product assignments follow Shopware.  A change  *)
(* of a category's products in Django is sent the other way by a task that     *)
(* makes the set in Shopware equal to the local one.  Shopware and Django are  *)
(* edited while both work.                                                  *)
(*                                                                          *)
(* Categories are numbered in the order of their names, which is also the      *)
(* order in which Shopware lists them; 0 is no category.  Texts and            *)
(* translations are left out, and so are dynamic product streams.            *)
(***************************************************************************)
EXTENDS Naturals, FiniteSets, SequencesExt

CONSTANTS
  Cats,         \* Shopware's categories, a set of numbers
  Root,         \* the category with the name of a root; its place in Shopware is fixed
  PageSize,     \* rows of a page
  Products,     \* products Django knows, by the id Shopware knows them by
  Parent,       \* the id of a variant family's parent in Shopware
  Variants,     \* the products of that family
  MaxLinks,     \* products the import gets for a category, 500 in the code
  MaxCatEvents, \* bound: edits in Shopware and in Django, tasks that break
  MaxImports    \* bound: imports

ASSUME CatAssumption ==
  /\ IsFiniteSet(Cats) /\ Cats \subseteq Nat \ {0} /\ Root \in Cats
  /\ Variants \subseteq Products /\ Parent \notin Products
  /\ PageSize \in Nat \ {0} /\ MaxCatEvents \in Nat /\ MaxImports \in Nat

VARIABLES
  shopRow,       \* the categories in Shopware
  local,         \* the rows of Category that have a Shopware id
  import,        \* the import: its step and what it has read
  push,          \* the task that writes a category's products to Shopware
  toSend,        \* categories with a message in the broker
  agreed,        \* history: categories last synchronised by nobody else's leave
  mirrored,      \* history: the same for the tree
  catEvents, imports

catVars == <<shopRow, local, import, push, toSend, agreed, mirrored, catEvents, imports>>

-----------------------------------------------------------------------------
Nowhere == 0
ShopIds == Products \cup {Parent}
RemoteRow == [here : BOOLEAN, parent : Cats \cup {Nowhere}, after : Cats \cup {Nowhere},
              products : SUBSET ShopIds]
LocalRow == [here : BOOLEAN, parent : Cats \cup {Nowhere}, place : 0 .. Cardinality(Cats),
             products : SUBSET Products]
NoCategory == [here |-> FALSE, parent |-> Nowhere, place |-> 0, products |-> {}]

Remote == {c \in Cats : shopRow[c].here}
Local == {c \in Cats : local[c].here}

(* Everything below the categories in S, themselves included.                *)
Below(S, parent, within) ==
  LET reach[n \in 0 .. Cardinality(within)] ==
        IF n = 0 THEN S \cap within
        ELSE reach[n - 1] \cup {c \in within : parent[c] \in reach[n - 1]}
  IN  reach[Cardinality(within)]

RemoteParent == [c \in Cats |-> shopRow[c].parent]
LocalParent == [c \in Cats |-> local[c].parent]
Inside == Below({Root}, RemoteParent, Remote)

(* A set of rows is a forest when every part of it has a member whose parent    *)
(* is not in that part.                                                     *)
Forest(S, parent) == \A T \in (SUBSET S) \ {{}} : \E c \in T : parent[c] \notin T

(* Shopware keeps siblings in a list: each names its predecessor.            *)
Siblings(S, parent, p) == {c \in S : parent[c] = p}

(* How many of S have an earlier name, and S in the order of the names.       *)
Ahead(S, c) == Cardinality({d \in S : d < c})
ByName(S) == [i \in 1 .. Cardinality(S) |-> CHOOSE c \in S : Ahead(S, c) = i - 1]

(* _sort_orders: a depth-first walk along the predecessors, by name where      *)
(* several follow the same one, and at last those on no chain that begins.     *)

InOrder(S, after) ==
  LET begins == {c \in S : after[c] \notin S \ {c}}
      following(b) == ByName({c \in S \ begins : after[c] = b})
      walk[n \in 0 .. 3 * Cardinality(S)] ==
        IF n = 0 THEN [todo |-> ByName(begins) \o ByName(S), done |-> <<>>]
        ELSE LET w == walk[n - 1] IN
             IF w.todo = <<>> THEN w
             ELSE IF Contains(w.done, Head(w.todo)) THEN [w EXCEPT !.todo = Tail(@)]
             ELSE [todo |-> following(Head(w.todo)) \o Tail(w.todo),
                   done |-> Append(w.done, Head(w.todo))]
  IN  walk[3 * Cardinality(S)].done

(* Products Django finds for ids of Shopware.                                *)
Resolved(ids) == (ids \cap Products) \cup (IF Parent \in ids THEN Variants ELSE {})

-----------------------------------------------------------------------------
NotImporting == [pc |-> "off", page |-> 1, rows |-> 0, known |-> {},
                 parent |-> [c \in Cats |-> Nowhere], after |-> [c \in Cats |-> Nowhere],
                 links |-> [c \in Cats |-> {}], whole |-> {}, old |-> [c \in Cats |-> {}], alone |-> FALSE]
NotPushing == [pc |-> "off", cat |-> Root, add |-> {}, remove |-> {}, alone |-> FALSE]

(* Shopware's tree in every shape, imported some time ago.                   *)
CatInit ==
  /\ shopRow \in [Cats -> {r \in RemoteRow : r.products = {}}]
  /\ Root \in Remote /\ shopRow[Root].parent = Nowhere
  /\ \A c \in Cats \ Remote : shopRow[c].parent = Nowhere /\ shopRow[c].after = Nowhere
  /\ \A c \in Remote : shopRow[c].parent \in Remote \cup {Nowhere}
  /\ Forest(Remote, RemoteParent)
  /\ \A p \in Remote \cup {Nowhere} :
       LET S == Siblings(Remote, RemoteParent, p) IN
       S # {} => \E s \in SetToSeqs(S) : \A i \in DOMAIN s : shopRow[s[i]].after = IF i = 1 THEN Nowhere ELSE s[i - 1]
  /\ local = [c \in Cats |-> IF c \notin Inside THEN NoCategory ELSE
       LET list == InOrder(Siblings(Inside, RemoteParent, shopRow[c].parent), [d \in Cats |-> shopRow[d].after])
       IN  [here |-> TRUE, parent |-> shopRow[c].parent, products |-> {},
            place |-> CHOOSE i \in DOMAIN list : list[i] = c]]
  /\ import = NotImporting /\ push = NotPushing
  /\ toSend = {} /\ agreed = {} /\ mirrored = FALSE
  /\ catEvents = 0 /\ imports = 0

(* Whoever changes something takes the others' certainty away.               *)
Disturbs == import' = [import EXCEPT !.alone = FALSE] /\ push' = [push EXCEPT !.alone = FALSE]

CatEvent == catEvents < MaxCatEvents /\ catEvents' = catEvents + 1
-----------------------------------------------------------------------------
(* Shopware's administration.                                               *)
ShopMoves(c, p, b) ==
  LET left == [d \in Cats |-> IF shopRow[d].after = c THEN shopRow[c].after ELSE shopRow[d].after]
      into == {d \in Remote \ {c} : shopRow[d].parent = p /\ left[d] = b} IN
  /\ CatEvent
  /\ c \in Remote \ {Root} /\ p \in (Remote \cup {Nowhere}) \ Below({c}, RemoteParent, Remote)
  /\ b = Nowhere \/ (b \in Remote \ {c} /\ shopRow[b].parent = p)
  /\ shopRow' = [d \in Cats |->
       IF d = c THEN [shopRow[c] EXCEPT !.parent = p, !.after = b]
       ELSE IF d \in into THEN [shopRow[d] EXCEPT !.after = c]
       ELSE [shopRow[d] EXCEPT !.after = left[d]]]
  /\ mirrored' = FALSE
  /\ Disturbs
  /\ UNCHANGED <<local, toSend, agreed, imports>>

ShopDeletes(c) ==
  LET gone == Below({c}, RemoteParent, Remote) IN
  /\ CatEvent
  /\ c \in Remote \ {Root}
  /\ shopRow' = [d \in Cats |->
       IF d \in gone THEN [here |-> FALSE, parent |-> Nowhere, after |-> Nowhere, products |-> {}]
       ELSE IF shopRow[d].after = c THEN [shopRow[d] EXCEPT !.after = shopRow[c].after] ELSE shopRow[d]]
  /\ agreed' = agreed \ gone
  /\ mirrored' = FALSE
  /\ Disturbs
  /\ UNCHANGED <<local, toSend, imports>>

ShopAssigns(c, ids) ==
  /\ CatEvent
  /\ c \in Remote
  /\ shopRow' = [shopRow EXCEPT ![c].products = ids]
  /\ agreed' = agreed \ {c}
  /\ Disturbs
  /\ UNCHANGED <<local, toSend, mirrored, imports>>

-----------------------------------------------------------------------------
(* Django's administration.  A move is not sent to Shopware; a change of the    *)
(* products is, by a message that the broker may refuse.                     *)
PersonMoves(c, p) ==
  /\ CatEvent
  /\ c \in Local /\ p \in (Local \cup {Nowhere}) \ Below({c}, LocalParent, Local)
  /\ local' = [local EXCEPT ![c].parent = p]
  /\ mirrored' = FALSE
  /\ Disturbs
  /\ UNCHANGED <<shopRow, toSend, agreed, imports>>

PersonAssigns(c, S) ==
  /\ CatEvent
  /\ c \in Local
  /\ local' = [local EXCEPT ![c].products = S]
  /\ toSend' \in {toSend, toSend \cup {c}}
  /\ agreed' = agreed \ {c}
  /\ Disturbs
  /\ UNCHANGED <<shopRow, mirrored, imports>>

PersonDeletes(c) ==
  LET gone == Below({c}, LocalParent, Local) IN
  /\ CatEvent
  /\ c \in Local
  /\ local' = [d \in Cats |-> IF d \in gone THEN NoCategory ELSE local[d]]
  /\ agreed' = agreed \ gone
  /\ mirrored' = FALSE
  /\ Disturbs
  /\ UNCHANGED <<shopRow, toSend, imports>>

-----------------------------------------------------------------------------
(* The import.  A page holds what Shopware lists there at that moment.       *)
ImportStarts ==
  /\ import.pc = "off" /\ imports < MaxImports
  /\ import' = [NotImporting EXCEPT !.pc = "reading", !.alone = TRUE]
  /\ imports' = imports + 1
  /\ UNCHANGED <<shopRow, local, push, toSend, agreed, mirrored, catEvents>>

Page(n) ==
  {c \in Remote : (n - 1) * PageSize <= Ahead(Remote, c) /\ Ahead(Remote, c) < n * PageSize}

ImportReadsPage ==
  LET batch == Page(import.page)
      rows == import.rows + Cardinality(batch)
      last == Cardinality(batch) < PageSize \/ rows >= Cardinality(Remote) IN
  /\ import.pc = "reading"
  /\ import' = [import EXCEPT
       !.pc = IF last THEN "read" ELSE "reading", !.page = @ + 1, !.rows = rows,
       !.known = @ \cup batch,
       !.parent = [c \in Cats |-> IF c \in batch THEN shopRow[c].parent ELSE @[c]],
       !.after = [c \in Cats |-> IF c \in batch THEN shopRow[c].after ELSE @[c]]]
  /\ UNCHANGED <<shopRow, local, push, toSend, agreed, mirrored, catEvents, imports>>

(* The categories below the root, as read; a parent outside of them is none.   *)
MutantEverything == import.known

Scope == Below({Root}, import.parent, import.known)

ScopedParent == [c \in Cats |-> IF import.parent[c] \in Scope THEN import.parent[c] ELSE Nowhere]

(* One transaction writes the rows and then the parents; without the root the   *)
(* import ends in an error.                                                 *)
ImportWritesTree ==
  /\ import.pc = "read"
  /\ IF Root \notin import.known
     THEN import' = NotImporting /\ UNCHANGED <<local, push, mirrored>>
     ELSE /\ local' = [c \in Cats |->
               IF c \in Scope
               THEN LET list == InOrder(Siblings(Scope, ScopedParent, ScopedParent[c]), import.after)
                    IN  [here |-> TRUE, parent |-> ScopedParent[c],
                         place |-> CHOOSE i \in DOMAIN list : list[i] = c,
                         products |-> local[c].products]
               ELSE local[c]]
          /\ import' = [import EXCEPT !.pc = "tree", !.known = Scope]
          /\ mirrored' = import.alone
          /\ push' = [push EXCEPT !.alone = FALSE]
  /\ UNCHANGED <<shopRow, toSend, agreed, catEvents, imports>>

(* The products of those categories, of each no more than the limit.         *)
ImportReadsLinks ==
  /\ import.pc = "tree"
  /\ \E links \in [Cats -> SUBSET ShopIds] :
       /\ \A c \in Cats :
            IF c \in import.known \cap Remote
            THEN /\ links[c] \subseteq shopRow[c].products
                 /\ Cardinality(links[c]) = IF Cardinality(shopRow[c].products) > MaxLinks
                                            THEN MaxLinks ELSE Cardinality(shopRow[c].products)
            ELSE links[c] = {}
       /\ import' = [import EXCEPT !.pc = "links",
            !.links = [c \in Cats |-> Resolved(links[c])],
            !.whole = {c \in import.known \cap Remote : links[c] = shopRow[c].products}]
  /\ UNCHANGED <<shopRow, local, push, toSend, agreed, mirrored, catEvents, imports>>

(* The local links are read, then new ones written and stale ones deleted.   *)
ImportReadsLocal ==
  /\ import.pc = "links"
  /\ import' = [import EXCEPT !.pc = "compare", !.old = [c \in Cats |-> local[c].products]]
  /\ UNCHANGED <<shopRow, local, push, toSend, agreed, mirrored, catEvents, imports>>

MutantKeepsStale ==
  /\ import.pc = "compare"
  /\ local' = [c \in Cats |->
       IF c \in import.known THEN [local[c] EXCEPT !.products = @ \cup import.links[c]] ELSE local[c]]
  /\ agreed' = IF import.alone THEN (agreed \ import.known) \cup import.whole ELSE agreed \ import.known
  /\ import' = NotImporting
  /\ push' = [push EXCEPT !.alone = FALSE]
  /\ UNCHANGED <<shopRow, toSend, mirrored, catEvents, imports>>

ImportWritesLinks ==
  LET new(c) == import.links[c] \ import.old[c]
      stale(c) == import.old[c] \ import.links[c] IN
  /\ import.pc = "compare"
  /\ \A c \in import.known : local[c].here \/ new(c) = {}
  /\ local' = [c \in Cats |->
       IF c \in import.known THEN [local[c] EXCEPT !.products = (@ \cup new(c)) \ stale(c)] ELSE local[c]]
  /\ agreed' = IF import.alone THEN (agreed \ import.known) \cup import.whole ELSE agreed \ import.known
  /\ import' = NotImporting
  /\ push' = [push EXCEPT !.alone = FALSE]
  /\ UNCHANGED <<shopRow, toSend, mirrored, catEvents, imports>>

(* A link to a category deleted meanwhile rolls the transaction back.        *)
ImportIsRolledBack ==
  /\ import.pc = "compare"
  /\ \E c \in import.known : ~local[c].here /\ import.links[c] \ import.old[c] # {}
  /\ import' = NotImporting
  /\ UNCHANGED <<shopRow, local, push, toSend, agreed, mirrored, catEvents, imports>>

ImportBreaks ==
  /\ import.pc # "off" /\ CatEvent
  /\ import' = NotImporting
  /\ UNCHANGED <<shopRow, local, push, toSend, agreed, mirrored, imports>>

-----------------------------------------------------------------------------
(* The task sync_category_to_shopware.                                       *)
PushStarts(c) ==
  /\ push.pc = "off" /\ c \in toSend
  /\ toSend' = toSend \ {c}
  /\ push' = IF local[c].here THEN [NotPushing EXCEPT !.pc = "content", !.cat = c, !.alone = TRUE] ELSE push
  /\ UNCHANGED <<shopRow, local, import, agreed, mirrored, catEvents, imports>>

(* The texts are upserted first: Shopware creates a category it has no more.   *)
PushWritesContent ==
  LET c == push.cat IN
  /\ push.pc = "content"
  /\ push' = [push EXCEPT !.pc = "read"]
  /\ IF c \in Remote THEN UNCHANGED <<shopRow, import>>
     ELSE /\ shopRow' = [shopRow EXCEPT ![c].here = TRUE]
          /\ import' = [import EXCEPT !.alone = FALSE]
  /\ UNCHANGED <<local, toSend, agreed, mirrored, catEvents, imports>>

PushCompares ==
  LET c == push.cat IN
  /\ push.pc = "read"
  /\ push' = [push EXCEPT !.pc = "add",
       !.add = local[c].products \ shopRow[c].products, !.remove = shopRow[c].products \ local[c].products]
  /\ UNCHANGED <<shopRow, local, import, toSend, agreed, mirrored, catEvents, imports>>

(* Shopware refuses to assign to a category it has not.                      *)
PushAdds ==
  LET c == push.cat IN
  /\ push.pc = "add"
  /\ IF push.add # {} /\ c \notin Remote
     THEN push' = NotPushing /\ UNCHANGED <<shopRow, import, agreed>>
     ELSE /\ shopRow' = IF c \in Remote THEN [shopRow EXCEPT ![c].products = @ \cup push.add] ELSE shopRow
          /\ push' = [push EXCEPT !.pc = "remove"]
          /\ import' = [import EXCEPT !.alone = @ /\ push.add = {}]
          /\ agreed' = IF push.add = {} THEN agreed ELSE agreed \ {c}
  /\ UNCHANGED <<local, toSend, mirrored, catEvents, imports>>

PushRemoves ==
  LET c == push.cat IN
  /\ push.pc = "remove"
  /\ shopRow' = IF c \in Remote THEN [shopRow EXCEPT ![c].products = @ \ push.remove] ELSE shopRow
  /\ import' = [import EXCEPT !.alone = @ /\ push.remove = {}]
  /\ agreed' = IF push.alone /\ c \in Remote THEN agreed \cup {c}
               ELSE IF push.remove = {} THEN agreed ELSE agreed \ {c}
  /\ push' = NotPushing
  /\ UNCHANGED <<local, toSend, mirrored, catEvents, imports>>

PushBreaks ==
  /\ push.pc # "off" /\ CatEvent
  /\ push' = NotPushing
  /\ UNCHANGED <<shopRow, local, import, toSend, agreed, mirrored, imports>>

CatNext ==
  \/ \E c \in Cats :
       \/ \E p, b \in Cats \cup {Nowhere} : ShopMoves(c, p, b)
       \/ ShopDeletes(c)
       \/ \E ids \in SUBSET ShopIds : ShopAssigns(c, ids)
       \/ \E p \in Cats \cup {Nowhere} : PersonMoves(c, p)
       \/ \E S \in SUBSET Products : PersonAssigns(c, S)
       \/ PersonDeletes(c)
       \/ PushStarts(c)
  \/ ImportStarts \/ ImportReadsPage \/ ImportWritesTree \/ ImportReadsLinks \/ ImportReadsLocal
  \/ ImportWritesLinks \/ ImportIsRolledBack \/ ImportBreaks
  \/ PushWritesContent \/ PushCompares \/ PushAdds \/ PushRemoves \/ PushBreaks

CatSpec == CatInit /\ [][CatNext]_catVars

-----------------------------------------------------------------------------
(* Every variable keeps its type.                                            *)
CatTypeOK ==
  /\ shopRow \in [Cats -> RemoteRow] /\ local \in [Cats -> LocalRow]
  /\ import.pc \in {"off", "reading", "read", "tree", "links", "compare"}
  /\ import.known \subseteq Cats /\ import.whole \subseteq Cats /\ import.alone \in BOOLEAN
  /\ push.pc \in {"off", "content", "read", "add", "remove"} /\ push.cat \in Cats /\ push.alone \in BOOLEAN
  /\ toSend \subseteq Cats /\ agreed \subseteq Cats /\ mirrored \in BOOLEAN
  /\ catEvents \in 0 .. MaxCatEvents /\ imports \in 0 .. MaxImports

(* The local tree stays a tree: pages read at different moments may tell of     *)
(* parents that go round in a circle, but the circle is never below the root,   *)
(* and what earlier imports or people have left hangs from nothing that is in   *)
(* one.                                                                     *)
TreeStaysATree == Forest(Local, LocalParent)

(* A synchronisation that nobody disturbed, in either direction, leaves both    *)
(* sides with the same: an import the tree below the root with the order of     *)
(* siblings and all products within its limit, a push the products of its       *)
(* category.                                                                *)
SyncsAgree ==
  /\ \A c \in agreed : Resolved(shopRow[c].products) = local[c].products
  /\ mirrored => \A c \in Inside :
       /\ local[c].here
       /\ c # Root => local[c].parent = shopRow[c].parent
       /\ shopRow[c].after \in Inside => local[c].place = local[shopRow[c].after].place + 1
=============================================================================
