--------------------------- MODULE Shopware5Mapping ---------------------------
(***************************************************************************)
(* The Shopware 5 ids of the categories.  A command reads the category tree  *)
(* of Shopware 5 and gives its ids to the local categories with the same     *)
(* complete path (shopware/services/shopware5_category_mapping.py); another  *)
(* moves the ids that a former import left in a duplicate tree below a        *)
(* technical root to the canonical tree, and may delete the duplicate         *)
(* (shopware5_duplicate_category_merge.py).  Both plan first and write in a   *)
(* transaction later; people edit categories meanwhile.                      *)
(*                                                                          *)
(* The roots are there, once each, and carry no ids here; the categories are  *)
(* directly below them.  The mapping compares paths without regard to case,   *)
(* the merging as they are spelt.  Category.sw5_id is unique or null.         *)
(* Assignments of products are not mapped any more and left out.             *)
(***************************************************************************)
EXTENDS Naturals, FiniteSets

CONSTANTS
  Paths,         \* names below the root, without regard to case
  TreeRows,      \* categories that may exist locally
  Sw5Ids,        \* categories in Shopware 5
  MaxTreeEdits   \* bound: changes by people

NoId == 0
ASSUME Sw5Assumption == Sw5Ids \subseteq Nat \ {NoId}
ASSUME Sw5Bound == MaxTreeEdits \in Nat

VARIABLES
  treeRow,   \* the Category rows: tree, path, spelling, sw5_id
  sw5Tree,   \* the categories in Shopware 5
  mapper,    \* shopware5_sync_category_mappings: snapshot and plan
  merger,    \* shopware5_merge_duplicate_category_roots: plan
  keptIds,   \* history: ids that were held and that no person has taken away
  mappedTo,  \* history: the path in Shopware 5 by which an id was mapped
  overtakenPlan,   \* history: categories changed between a plan and its writing
  treeEdits

sw5Vars == <<treeRow, sw5Tree, mapper, merger, keptIds, mappedTo, overtakenPlan, treeEdits>>

-----------------------------------------------------------------------------
Spellings == {"capital", "small"}
NoPath == CHOOSE path \in Paths : TRUE
NoTreeRow == [tree |-> "none", path |-> NoPath, spelt |-> "small", sw5 |-> NoId]
TreeRow == [tree : {"canonical", "duplicate"}, path : Paths, spelt : Spellings, sw5 : Sw5Ids \cup {NoId}]
Sw5Row == [here : BOOLEAN, path : Paths, active : BOOLEAN]
NoPlan == [pc |-> "idle", list |-> [i \in {} |-> NoId], plan |-> {}, deletes |-> FALSE]

Sw5TypeOK ==
  /\ treeRow \in [TreeRows -> TreeRow \cup {NoTreeRow}]
  /\ sw5Tree \in [Sw5Ids -> Sw5Row]
  /\ mapper.pc \in {"idle", "read", "planned"} /\ merger.pc \in {"idle", "planned"}
  /\ mapper.plan \subseteq TreeRows \X Sw5Ids
  /\ keptIds \subseteq Sw5Ids
  /\ mappedTo \in [Sw5Ids -> Paths \cup {"none"}]
  /\ overtakenPlan \in BOOLEAN /\ treeEdits \in 0 .. MaxTreeEdits

HeldIds(rows) == {rows[r].sw5 : r \in DOMAIN rows} \ {NoId}
UniqueIds(rows) ==
  \A r, s \in DOMAIN rows : r # s /\ rows[r].sw5 = rows[s].sw5 => rows[r].sw5 = NoId
InTree(tree) == {r \in TreeRows : treeRow[r].tree = tree}

Sw5Init ==
  /\ treeRow \in [TreeRows -> {t \in TreeRow : t.spelt = "small"} \cup {NoTreeRow}]
  /\ UniqueIds(treeRow)
  /\ sw5Tree \in [Sw5Ids -> [here : {TRUE}, path : Paths, active : {TRUE}]]
  /\ mapper = NoPlan /\ merger = NoPlan
  /\ keptIds = HeldIds(treeRow)
  /\ mappedTo = [i \in Sw5Ids |-> "none"]
  /\ overtakenPlan = FALSE /\ treeEdits = 0

-----------------------------------------------------------------------------
(* The snapshot leaves out what is inactive, if told to.                     *)
Scoped(skips) ==
  {i \in Sw5Ids : sw5Tree[i].here /\ (skips => sw5Tree[i].active)}

MapReads ==
  /\ mapper.pc = "idle"
  /\ \E skips \in BOOLEAN :
       mapper' = [NoPlan EXCEPT !.pc = "read", !.list = [i \in Scoped(skips) |-> sw5Tree[i].path]]
  /\ UNCHANGED <<treeRow, sw5Tree, merger, keptIds, mappedTo, overtakenPlan, treeEdits>>

(* Only one canonical category has the path, it has no id, and no other      *)
(* canonical one has this id (preview_sw5_id_mapping).                       *)
Candidates(path) == {r \in InTree("canonical") : treeRow[r].path = path}
WillMap(r, i) ==
  /\ Candidates(mapper.list[i]) = {r}
  /\ treeRow[r].sw5 = NoId
  /\ \A s \in InTree("canonical") : treeRow[s].sw5 # i

MapPlans ==
  /\ mapper.pc = "read"
  /\ mapper' = [mapper EXCEPT !.pc = "planned",
                  !.plan = {e \in TreeRows \X DOMAIN mapper.list : WillMap(e[1], e[2])}]
  /\ UNCHANGED <<treeRow, sw5Tree, merger, keptIds, mappedTo, overtakenPlan, treeEdits>>

(* apply_sw5_ids: of two ids for one category the last stays; a row that is   *)
(* gone is not updated; an id held elsewhere rolls everything back.           *)
FreeToTake(plan) == \A e \in plan : \A s \in TreeRows \ {e[1]} : treeRow[s].sw5 # e[2]
Overtakes(other) ==
  overtakenPlan' = (overtakenPlan \/ (other.pc = "planned" /\ treeRow' # treeRow))
Lasts(plan) == {f \in [{e[1] : e \in plan} -> {e[2] : e \in plan}] : \A r \in DOMAIN f : <<r, f[r]>> \in plan}

MapWrites ==
  /\ mapper.pc = "planned"
  /\ LET plan == {e \in mapper.plan : treeRow[e[1]].tree # "none"}
     IN IF ~FreeToTake(plan) THEN UNCHANGED <<treeRow, keptIds, mappedTo>>
        ELSE \E f \in Lasts(plan) :
               /\ treeRow' = [r \in TreeRows |-> IF r \in DOMAIN f THEN [treeRow[r] EXCEPT !.sw5 = f[r]] ELSE treeRow[r]]
               /\ keptIds' = keptIds \cup HeldIds(treeRow')
               /\ mappedTo' = [i \in Sw5Ids |-> IF \E r \in DOMAIN f : f[r] = i THEN mapper.list[i] ELSE mappedTo[i]]
  /\ mapper' = NoPlan
  /\ Overtakes(merger)
  /\ UNCHANGED <<sw5Tree, merger, treeEdits>>

-----------------------------------------------------------------------------
(* The merge refuses unless every duplicate has one partner and none has      *)
(* another id (_build_plan, _classify_pairs, _ensure_plan_is_safe).          *)
SamePath(r, s) == treeRow[r].path = treeRow[s].path /\ treeRow[r].spelt = treeRow[s].spelt
Partners(d) == {c \in InTree("canonical") : SamePath(c, d)}
MutantSafeToMerge ==
  \A d \in InTree("duplicate") :
    /\ \A e \in InTree("duplicate") \ {d} : ~SamePath(d, e)
    /\ \E c \in TreeRows : Partners(d) = {c}

SafeToMerge ==
  \A d \in InTree("duplicate") :
    /\ \A e \in InTree("duplicate") \ {d} : ~SamePath(d, e)
    /\ \E c \in TreeRows : /\ Partners(d) = {c}
                           /\ treeRow[d].sw5 = NoId \/ treeRow[c].sw5 = NoId

MergePlans ==
  /\ merger.pc = "idle" /\ SafeToMerge
  /\ \E deletes \in BOOLEAN :
       merger' = [NoPlan EXCEPT !.pc = "planned", !.deletes = deletes,
                    !.plan = {<<d, CHOOSE c \in Partners(d) : TRUE, treeRow[d].sw5>> :
                                d \in {e \in InTree("duplicate") : treeRow[e].sw5 # NoId}}]
  /\ UNCHANGED <<treeRow, sw5Tree, mapper, keptIds, mappedTo, overtakenPlan, treeEdits>>

(* apply: the duplicates lose their ids, the canonical ones get them, then    *)
(* everything below the duplicate roots may be deleted.                      *)
MergeWrites ==
  /\ merger.pc = "planned"
  /\ LET here == {e \in merger.plan : treeRow[e[2]].tree # "none"}
         cleared == [r \in TreeRows |-> IF \E e \in merger.plan : e[1] = r
                                        THEN [treeRow[r] EXCEPT !.sw5 = NoId] ELSE treeRow[r]]
         written == [r \in TreeRows |-> IF \E e \in here : e[2] = r
                                        THEN [cleared[r] EXCEPT !.sw5 = (CHOOSE e \in here : e[2] = r)[3]] ELSE cleared[r]]
     IN treeRow' = IF ~UniqueIds(written) THEN treeRow
                   ELSE [r \in TreeRows |-> IF merger.deletes /\ written[r].tree = "duplicate" THEN NoTreeRow ELSE written[r]]
  /\ merger' = NoPlan
  /\ Overtakes(mapper)
  /\ UNCHANGED <<sw5Tree, mapper, keptIds, mappedTo, treeEdits>>

-----------------------------------------------------------------------------
(* A person edits, adds or deletes a category: what had an id loses its claim.*)
TreeEdited ==
  /\ treeEdits < MaxTreeEdits /\ treeEdits' = treeEdits + 1
  /\ \E r \in TreeRows, row \in TreeRow \cup {NoTreeRow} :
       /\ row # treeRow[r]
       /\ treeRow' = [treeRow EXCEPT ![r] = row] /\ UniqueIds(treeRow')
       /\ keptIds' = (keptIds \ {treeRow[r].sw5}) \cup HeldIds(treeRow')
       /\ mappedTo' = [i \in Sw5Ids |-> IF i \in {treeRow[r].sw5, row.sw5} THEN "none" ELSE mappedTo[i]]
  /\ overtakenPlan' = (overtakenPlan \/ mapper.pc = "planned" \/ merger.pc = "planned")
  /\ UNCHANGED <<sw5Tree, mapper, merger>>

Sw5Edited ==
  /\ treeEdits < MaxTreeEdits /\ treeEdits' = treeEdits + 1
  /\ \E i \in Sw5Ids, row \in Sw5Row : row # sw5Tree[i] /\ sw5Tree' = [sw5Tree EXCEPT ![i] = row]
  /\ UNCHANGED <<treeRow, mapper, merger, keptIds, mappedTo, overtakenPlan>>

Sw5Next == MapReads \/ MapPlans \/ MapWrites \/ MergePlans \/ MergeWrites \/ TreeEdited \/ Sw5Edited

Sw5Spec == Sw5Init /\ [][Sw5Next]_sw5Vars

-----------------------------------------------------------------------------
(* Properties                                                               *)

(* However mapping, merging and editing follow each other: an id that a        *)
(* category once had is still held by one, and a mapped one by a canonical     *)
(* category whose path is the one it had in Shopware 5, unless a person has   *)
(* taken it, or categories changed between a plan and its writing.            *)
IdsAreKept ==
  ~overtakenPlan =>
    /\ keptIds \subseteq HeldIds(treeRow)
    /\ \A i \in Sw5Ids : mappedTo[i] # "none" =>
         \E r \in InTree("canonical") : treeRow[r].sw5 = i /\ treeRow[r].path = mappedTo[i]
=============================================================================
