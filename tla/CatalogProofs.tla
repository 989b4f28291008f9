---------------------------- MODULE CatalogProofs ----------------------------
(***************************************************************************)
(* What holds of Shopware5Mapping for trees of any size, any number of         *)
(* Shopware 5 categories and of edits, and of VariantFamilies for families,    *)
(* axes and processes of any number that break as often as they may; of         *)
(* PriceRoundTrip for any number of specials, rebates, edits and faults, and of *)
(* PriceIncreases for any requests, prices, targets and percentages; of         *)
(* ShopProduct for any processes, versions, images, edits and faults; of        *)
(* Categories for any finite tree, pages of any size, edits and imports.       *)
(***************************************************************************)
EXTENDS Shopware5Mapping, VariantFamilies, PriceRoundTrip, PriceIncreases, ShopProduct,
        Categories, Integers, FiniteSetTheorems, WellFoundedInduction, TLAPS

-----------------------------------------------------------------------------
(* Shopware 5 ids.  As long as no edit has overtaken a plan, what a planned   *)
(* mapping or merge is about to write still fits the rows it was read from,    *)
(* and from that follows that no write drops an id.  Whether or not an edit    *)
(* has, no two rows hold one id.                                              *)
Shaped(m) ==
  /\ m = [pc |-> m.pc, list |-> m.list, plan |-> m.plan, deletes |-> m.deletes]

MapperShape ==
  /\ Shaped(mapper) /\ mapper.pc \in {"idle", "read", "planned"}
  /\ DOMAIN mapper.list \subseteq Sw5Ids
  /\ \A i \in DOMAIN mapper.list : mapper.list[i] \in Paths
  /\ mapper.plan \subseteq TreeRows \X DOMAIN mapper.list

MergerShape ==
  /\ Shaped(merger) /\ merger.pc \in {"idle", "planned"}
  /\ merger.plan \subseteq TreeRows \X TreeRows \X Sw5Ids

Sw5Rows ==
  /\ treeRow \in [TreeRows -> TreeRow \cup {NoTreeRow}]
  /\ keptIds \subseteq Sw5Ids
  /\ mappedTo \in [Sw5Ids -> Paths \cup {"none"}]
Sw5Trees == sw5Tree \in [Sw5Ids -> Sw5Row]
Sw5Counts == treeEdits \in 0 .. MaxTreeEdits
Sw5Flag == overtakenPlan \in BOOLEAN

(* A plan to map gives an id to one row only. *)
OneRowEach == \A e, f \in mapper.plan : e[2] = f[2] => e = f

MapHolds ==
  mapper.pc = "planned" =>
    \A e \in mapper.plan :
      /\ treeRow[e[1]].tree = "canonical" /\ treeRow[e[1]].path = mapper.list[e[2]]
      /\ treeRow[e[1]].sw5 = NoId

MergeHolds ==
  merger.pc = "planned" =>
    /\ \A e \in merger.plan :
         /\ e[1] \in TreeRows /\ e[2] \in TreeRows /\ e[3] \in Sw5Ids
         /\ treeRow[e[1]].tree = "duplicate" /\ treeRow[e[1]].sw5 = e[3]
         /\ treeRow[e[2]].tree = "canonical" /\ treeRow[e[2]].sw5 = NoId
    /\ \A e, f \in merger.plan : e[2] = f[2] => e = f
    /\ \A r \in TreeRows :
         treeRow[r].tree = "duplicate" /\ treeRow[r].sw5 # NoId => \E e \in merger.plan : e[1] = r

KeptHeld == keptIds \subseteq HeldIds(treeRow)
MappedHeld ==
  \A i \in Sw5Ids : mappedTo[i] # "none" =>
     \E r \in TreeRows : treeRow[r].tree = "canonical" /\ treeRow[r].sw5 = i /\ treeRow[r].path = mappedTo[i]

Sw5Inv == MapHolds /\ MergeHolds /\ KeptHeld /\ MappedHeld

Sw5IInv ==
  /\ Sw5Rows /\ Sw5Trees /\ Sw5Counts /\ Sw5Flag
  /\ MapperShape /\ MergerShape /\ OneRowEach /\ UniqueIds(treeRow)
  /\ ~overtakenPlan => Sw5Inv

LEMMA NoPlanShape ==
  /\ Shaped(NoPlan) /\ NoPlan.pc = "idle" /\ NoPlan.plan = {} /\ DOMAIN NoPlan.list = {}
  BY DEF NoPlan, Shaped

LEMMA MapPlansKeeps ==
  ASSUME Sw5IInv, MapPlans
  PROVE  MapperShape' /\ OneRowEach' /\ MapHolds'
<1>1. Sw5Rows /\ MapperShape
  BY DEF Sw5IInv
<1> DEFINE P == {e \in TreeRows \X DOMAIN mapper.list : WillMap(e[1], e[2])}
<1>2. mapper' = [mapper EXCEPT !.pc = "planned", !.plan = P]
  BY DEF MapPlans
<1>3. \A e \in P : e \in TreeRows \X DOMAIN mapper.list /\ WillMap(e[1], e[2])
  OBVIOUS
<1> HIDE DEF P
<1>4. mapper'.pc = "planned" /\ mapper'.plan = P /\ mapper'.list = mapper.list /\ Shaped(mapper')
  BY <1>1, <1>2 DEF MapperShape, Shaped
<1>5. MapperShape'
  BY <1>1, <1>3, <1>4 DEF MapperShape
<1>6. treeRow' = treeRow
  BY DEF MapPlans
<1>7. \A e \in P : /\ Candidates(mapper.list[e[2]]) = {e[1]} /\ treeRow[e[1]].sw5 = NoId
                   /\ treeRow[e[1]].tree = "canonical" /\ treeRow[e[1]].path = mapper.list[e[2]]
  BY <1>3 DEF WillMap, Candidates, InTree
<1>8. OneRowEach'
  BY <1>3, <1>4, <1>7 DEF OneRowEach
<1>9. QED
  BY <1>4, <1>5, <1>6, <1>7, <1>8 DEF MapHolds

LEMMA SameRows ==
  ASSUME Sw5IInv, Sw5Trees', Sw5Counts',
         merger' = merger, mapper' = mapper, treeRow' = treeRow, keptIds' = keptIds,
         mappedTo' = mappedTo, overtakenPlan' = overtakenPlan
  PROVE  Sw5IInv'
<1>1. Sw5Rows' /\ Sw5Flag' /\ MapperShape' /\ MergerShape' /\ OneRowEach'
  BY Zenon DEF Sw5IInv, Sw5Rows, Sw5Flag, MapperShape, MergerShape, OneRowEach
<1>2. UniqueIds(treeRow)'
  <2>1. UniqueIds(treeRow)
    BY DEF Sw5IInv
  <2>2. QED
    BY <2>1, Zenon DEF UniqueIds
<1>3. ~overtakenPlan' => Sw5Inv'
  <2>1. ~overtakenPlan' => Sw5Inv
    BY Zenon DEF Sw5IInv
  <2>2. (MapHolds <=> MapHolds') /\ (MergeHolds <=> MergeHolds') /\ (MappedHeld <=> MappedHeld')
    BY Zenon DEF MapHolds, MergeHolds, MappedHeld
  <2>3. KeptHeld <=> KeptHeld'
    BY DEF KeptHeld
  <2>4. QED
    BY <2>1, <2>2, <2>3 DEF Sw5Inv
<1>4. QED
  BY <1>1, <1>2, <1>3 DEF Sw5IInv

LEMMA RowTyped ==
  ASSUME Sw5Rows, NEW r \in TreeRows
  PROVE  /\ treeRow[r].sw5 \in Sw5Ids \cup {NoId}
         /\ treeRow[r].tree \in {"canonical", "duplicate", "none"}
  BY DEF Sw5Rows, TreeRow, NoTreeRow

LEMMA RowWritten ==
  ASSUME NEW row \in TreeRow, NEW i \in Sw5Ids \cup {NoId}
  PROVE  /\ [row EXCEPT !.sw5 = i] \in TreeRow
         /\ [row EXCEPT !.sw5 = i].sw5 = i
         /\ [row EXCEPT !.sw5 = i].tree = row.tree /\ [row EXCEPT !.sw5 = i].path = row.path
  BY DEF TreeRow

LEMMA OneChanged ==
  ASSUME NEW S, NEW T, NEW f \in [S -> T], NEW r, NEW v \in T
  PROVE  /\ [f EXCEPT ![r] = v] \in [S -> T]
         /\ \A s \in S : s # r => [f EXCEPT ![r] = v][s] = f[s]
  OBVIOUS

LEMMA HeldBy ==
  ASSUME NEW rows, NEW S, NEW T, rows \in [S -> T]
  PROVE  \A i : i \in HeldIds(rows) <=> i # NoId /\ \E r \in S : rows[r].sw5 = i
  BY DEF HeldIds

LEMMA HeldNow ==
  ASSUME Sw5Rows
  PROVE  \A i : i \in HeldIds(treeRow) <=> i # NoId /\ \E r \in TreeRows : treeRow[r].sw5 = i
<1>1. treeRow \in [TreeRows -> TreeRow \cup {NoTreeRow}]
  BY DEF Sw5Rows
<1>2. QED
  BY <1>1, HeldBy

(* The mapping gives ids to rows that had none.                               *)
LEMMA MapWritesKeeps ==
  ASSUME Sw5IInv, MapWrites
  PROVE  Sw5IInv'
<1>1. /\ Sw5Rows /\ Sw5Trees /\ Sw5Counts /\ Sw5Flag /\ MapperShape /\ MergerShape /\ OneRowEach
      /\ UniqueIds(treeRow)
  BY DEF Sw5IInv
<1>2. /\ mapper' = NoPlan /\ merger' = merger /\ sw5Tree' = sw5Tree /\ treeEdits' = treeEdits
      /\ mapper.pc = "planned"
  BY DEF MapWrites
<1>3. /\ MapperShape' /\ MergerShape' /\ OneRowEach' /\ MapHolds' /\ Sw5Trees' /\ Sw5Counts'
  BY <1>1, <1>2, NoPlanShape DEF MapperShape, MergerShape, OneRowEach, MapHolds, Sw5Trees, Sw5Counts
<1>4. Sw5Flag' /\ (~overtakenPlan' => ~overtakenPlan /\ (merger.pc = "planned" => treeRow' = treeRow))
  BY Zenon DEF MapWrites, Overtakes, Sw5Flag
<1> DEFINE plan == {e \in mapper.plan : treeRow[e[1]].tree # "none"}
<1>5. CASE treeRow' = treeRow /\ keptIds' = keptIds /\ mappedTo' = mappedTo
  <2>1. Sw5Rows' /\ UniqueIds(treeRow)'
    <3>1. Sw5Rows'
      BY <1>1, <1>5 DEF Sw5Rows
    <3>2. UniqueIds(treeRow)'
      BY <1>1, <1>5, Zenon DEF UniqueIds
    <3>3. QED
      BY <3>1, <3>2
  <2>2. Sw5Inv => Sw5Inv'
    <3>1. MergeHolds => MergeHolds'
      BY <1>2, <1>5, Zenon DEF MergeHolds
    <3>2. KeptHeld => KeptHeld'
      BY <1>5 DEF KeptHeld
    <3>3. MappedHeld => MappedHeld'
      BY <1>5, Zenon DEF MappedHeld
    <3>4. QED
      BY <1>3, <3>1, <3>2, <3>3 DEF Sw5Inv
  <2>3. QED
    BY <1>3, <1>4, <2>1, <2>2 DEF Sw5IInv
<1>6. ASSUME FreeToTake(plan), NEW f \in Lasts(plan),
             treeRow' = [r \in TreeRows |-> IF r \in DOMAIN f THEN [treeRow[r] EXCEPT !.sw5 = f[r]] ELSE treeRow[r]],
             keptIds' = keptIds \cup HeldIds(treeRow'),
             mappedTo' = [i \in Sw5Ids |-> IF \E r \in DOMAIN f : f[r] = i THEN mapper.list[i] ELSE mappedTo[i]]
      PROVE  Sw5IInv'
  <2>1. \A r \in DOMAIN f : <<r, f[r]>> \in plan
    BY <1>6 DEF Lasts
  <2>2. \A e \in plan : e \in mapper.plan /\ treeRow[e[1]].tree # "none"
    OBVIOUS
  <2> HIDE DEF plan
  <2>3. ASSUME NEW r \in DOMAIN f
        PROVE  /\ <<r, f[r]>> \in mapper.plan /\ r \in TreeRows /\ f[r] \in DOMAIN mapper.list /\ f[r] \in Sw5Ids
               /\ treeRow[r] \in TreeRow /\ f[r] # NoId
               /\ \A s \in TreeRows \ {r} : treeRow[s].sw5 # f[r]
    <3>1. <<r, f[r]>> \in mapper.plan /\ treeRow[r].tree # "none"
      BY <2>1, <2>2
    <3>2. r \in TreeRows /\ f[r] \in DOMAIN mapper.list /\ f[r] \in Sw5Ids
      BY <1>1, <3>1 DEF MapperShape
    <3>3. treeRow[r] \in TreeRow
      BY <1>1, <3>1, <3>2 DEF Sw5Rows, NoTreeRow
    <3>4. \A s \in TreeRows \ {r} : treeRow[s].sw5 # f[r]
      BY <1>6, <2>1 DEF FreeToTake
    <3>5. f[r] # NoId
      BY <3>2, Sw5Assumption DEF NoId
    <3>6. QED
      BY <3>1, <3>2, <3>3, <3>4, <3>5
  <2>4. \A r, s \in DOMAIN f : f[r] = f[s] => r = s
    BY <1>1, <2>3 DEF OneRowEach
  <2>5. ASSUME NEW r \in TreeRows
        PROVE  /\ treeRow'[r] \in TreeRow \cup {NoTreeRow}
               /\ r \in DOMAIN f => /\ treeRow'[r].sw5 = f[r] /\ treeRow'[r].tree = treeRow[r].tree
                                    /\ treeRow'[r].path = treeRow[r].path
               /\ r \notin DOMAIN f => treeRow'[r] = treeRow[r]
    <3>1. CASE r \in DOMAIN f
      <4>1. r \in TreeRows /\ treeRow[r] \in TreeRow /\ f[r] \in Sw5Ids
        BY <2>3, <3>1, Zenon
      <4>2. treeRow'[r] = [treeRow[r] EXCEPT !.sw5 = f[r]]
        BY <1>6, <3>1, <4>1
      <4>3. PICK row \in TreeRow, i \in Sw5Ids \cup {NoId} : row = treeRow[r] /\ i = f[r]
        BY <4>1
      <4>4. treeRow'[r] \in TreeRow /\ treeRow'[r].sw5 = i /\ treeRow'[r].tree = row.tree /\ treeRow'[r].path = row.path
        <5>1. PICK x : x = [row EXCEPT !.sw5 = i]
          OBVIOUS
        <5>2. x \in TreeRow /\ x.sw5 = i /\ x.tree = row.tree /\ x.path = row.path
          BY <5>1 DEF TreeRow
        <5>3. treeRow'[r] = x
          BY <4>2, <4>3, <5>1
        <5> QED
          BY <5>2, <5>3, Zenon
      <4>5. treeRow'[r] \in TreeRow \cup {NoTreeRow}
        BY <4>4
      <4> QED
        BY <3>1, <4>3, <4>4, <4>5, Zenon
    <3>2. CASE r \notin DOMAIN f
      BY <1>1, <1>6, <3>2 DEF Sw5Rows
    <3>3. QED
      BY <3>1, <3>2
  <2>6. treeRow' \in [TreeRows -> TreeRow \cup {NoTreeRow}]
    <3>1. treeRow' = [r \in TreeRows |-> treeRow'[r]]
      BY <1>6
    <3>2. QED
      BY <2>5, <3>1
  <2>7. \A i : i \in HeldIds(treeRow') <=> i # NoId /\ \E r \in TreeRows : treeRow'[r].sw5 = i
    BY <2>6, HeldBy
  <2>8. keptIds' \subseteq Sw5Ids
    <3>1. \A r \in TreeRows : treeRow'[r].sw5 \in Sw5Ids \cup {NoId}
      BY <1>1, <2>3, <2>5, RowTyped
    <3>2. QED
      BY <1>1, <1>6, <2>7, <3>1 DEF Sw5Rows
  <2>9. mappedTo' \in [Sw5Ids -> Paths \cup {"none"}]
    <3>1. \A i \in Sw5Ids : (\E r \in DOMAIN f : f[r] = i) => mapper.list[i] \in Paths
      BY <1>1, <2>3 DEF MapperShape
    <3>2. QED
      BY <1>1, <1>6, <3>1 DEF Sw5Rows
  <2>10. UniqueIds(treeRow)'
    <3>0. ASSUME NEW r \in DOMAIN f, NEW s \in TreeRows \ DOMAIN f
          PROVE  treeRow'[r].sw5 # treeRow'[s].sw5
      <4>1. treeRow'[s] = treeRow[s] /\ s \in TreeRows \ {r}
        BY <2>5
      <4>2. treeRow'[r].sw5 = f[r]
        BY <2>3, <2>5
      <4>3. treeRow[s].sw5 # f[r]
        BY <2>3, <4>1
      <4>4. QED
        BY <4>1, <4>2, <4>3
    <3>1. ASSUME NEW r \in TreeRows, NEW s \in TreeRows, r # s, treeRow'[r].sw5 = treeRow'[s].sw5
          PROVE  treeRow'[r].sw5 = NoId
      <4>1. CASE r \in DOMAIN f /\ s \in DOMAIN f
        BY <2>4, <2>5, <3>1, <4>1
      <4>2. CASE r \in DOMAIN f /\ s \notin DOMAIN f
        BY <3>0, <3>1, <4>2
      <4>3. CASE r \notin DOMAIN f /\ s \in DOMAIN f
        BY <3>0, <3>1, <4>3
      <4>4. CASE r \notin DOMAIN f /\ s \notin DOMAIN f
        BY <1>1, <2>5, <3>1, <4>4 DEF UniqueIds, Sw5Rows
      <4>5. QED
        BY <4>1, <4>2, <4>3, <4>4
    <3>2. QED
      BY <2>6, <3>1 DEF UniqueIds
  <2>11. ASSUME ~overtakenPlan' PROVE Sw5Inv'
    <3>1. Sw5Inv /\ (merger.pc = "planned" => treeRow' = treeRow)
      BY <1>4, <2>11 DEF Sw5IInv
    <3>2. \A r \in DOMAIN f : /\ treeRow[r].tree = "canonical" /\ treeRow[r].path = mapper.list[f[r]]
                              /\ treeRow[r].sw5 = NoId
      BY <1>2, <2>3, <3>1 DEF Sw5Inv, MapHolds
    <3>3. MergeHolds'
      <4>1. CASE merger.pc = "planned"
        BY <1>2, <3>1, <4>1, Zenon DEF Sw5Inv, MergeHolds
      <4>2. CASE merger.pc # "planned"
        BY <1>2, <4>2, Zenon DEF MergeHolds
      <4> QED
        BY <4>1, <4>2, Zenon
    <3>4. KeptHeld'
      <4>1. ASSUME NEW i \in keptIds PROVE i \in HeldIds(treeRow')
        <5>0. i \in HeldIds(treeRow)
          BY <3>1, <4>1 DEF Sw5Inv, KeptHeld
        <5>1. PICK r \in TreeRows : treeRow[r].sw5 = i /\ i # NoId
          BY <1>1, <5>0, HeldNow
        <5>2. treeRow'[r].sw5 = i
          BY <2>5, <3>2, <5>1
        <5>3. QED
          BY <2>7, <5>1, <5>2
      <4>2. QED
        BY <1>6, <4>1 DEF KeptHeld
    <3>5. MappedHeld'
      <4>1. ASSUME NEW i \in Sw5Ids, mappedTo'[i] # "none"
            PROVE  \E r \in TreeRows : treeRow'[r].tree = "canonical" /\ treeRow'[r].sw5 = i /\ treeRow'[r].path = mappedTo'[i]
        <5>1. CASE \E r \in DOMAIN f : f[r] = i
          <6>1. PICK r \in DOMAIN f : f[r] = i
            BY <5>1
          <6>2. r \in TreeRows /\ mappedTo'[i] = mapper.list[i]
            BY <1>6, <2>3, <6>1
          <6>3. QED
            BY <2>5, <3>2, <6>1, <6>2
        <5>2. CASE ~ \E r \in DOMAIN f : f[r] = i
          <6>1. mappedTo'[i] = mappedTo[i]
            BY <1>6, <5>2
          <6>2. PICK r \in TreeRows : treeRow[r].tree = "canonical" /\ treeRow[r].sw5 = i /\ treeRow[r].path = mappedTo[i]
            BY <3>1, <4>1, <6>1 DEF Sw5Inv, MappedHeld
          <6>3. r \notin DOMAIN f
            BY <3>2, <6>2, Sw5Assumption DEF NoId
          <6>4. QED
            BY <2>5, <6>1, <6>2, <6>3
        <5>3. QED
          BY <5>1, <5>2
      <4>2. QED
        BY <4>1 DEF MappedHeld
    <3>6. QED
      BY <1>3, <3>3, <3>4, <3>5 DEF Sw5Inv
  <2>12. Sw5Rows'
    BY <2>6, <2>8, <2>9 DEF Sw5Rows
  <2>13. QED
    BY <1>3, <1>4, <2>10, <2>11, <2>12 DEF Sw5IInv
<1>7. QED
  BY <1>5, <1>6, Zenon DEF MapWrites

LEMMA MapReadsKeeps ==
  ASSUME Sw5IInv, MapReads
  PROVE  MapperShape' /\ OneRowEach' /\ MapHolds'
<1>1. Sw5Trees
  BY DEF Sw5IInv
<1>2. PICK skips \in BOOLEAN :
        mapper' = [NoPlan EXCEPT !.pc = "read", !.list = [i \in Scoped(skips) |-> sw5Tree[i].path]]
  BY Zenon DEF MapReads
<1>3. Scoped(skips) \subseteq Sw5Ids
  BY Zenon DEF Scoped
<1>4. \A i \in Sw5Ids : sw5Tree[i].path \in Paths
  BY <1>1 DEF Sw5Trees, Sw5Row
<1> DEFINE L == [i \in Scoped(skips) |-> sw5Tree[i].path]
<1>5. DOMAIN L \subseteq Sw5Ids /\ \A i \in DOMAIN L : L[i] \in Paths
  BY <1>3, <1>4
<1> HIDE DEF L
<1>6. mapper'.pc = "read" /\ mapper'.plan = {} /\ mapper'.list = L /\ Shaped(mapper')
  BY <1>2 DEF L, NoPlan, Shaped
<1>7. QED
  BY <1>5, <1>6 DEF MapperShape, OneRowEach, MapHolds

(* The merge's plan names every id below the duplicate root, each with the     *)
(* canonical row that shall have it.                                          *)
LEMMA MergePlansKeeps ==
  ASSUME Sw5IInv, MergePlans
  PROVE  MergerShape' /\ MergeHolds'
<1>1. Sw5Rows /\ SafeToMerge
  BY DEF Sw5IInv, MergePlans
<1> DEFINE D == {e \in InTree("duplicate") : treeRow[e].sw5 # NoId}
           P == {<<d, CHOOSE c \in Partners(d) : TRUE, treeRow[d].sw5>> : d \in D}
<1>2. PICK deletes \in BOOLEAN : merger' = [NoPlan EXCEPT !.pc = "planned", !.deletes = deletes, !.plan = P]
  BY Zenon DEF MergePlans
<1>3. treeRow' = treeRow
  BY DEF MergePlans
<1>4. ASSUME NEW d \in D
      PROVE  LET c == CHOOSE c \in Partners(d) : TRUE
             IN /\ d \in TreeRows /\ treeRow[d].tree = "duplicate" /\ treeRow[d].sw5 \in Sw5Ids
                /\ c \in TreeRows /\ treeRow[c].tree = "canonical" /\ treeRow[c].sw5 = NoId
                /\ SamePath(c, d)
  <2>1. d \in TreeRows /\ treeRow[d].tree = "duplicate" /\ treeRow[d].sw5 # NoId /\ d \in InTree("duplicate")
    BY DEF InTree
  <2>2. PICK c \in TreeRows : Partners(d) = {c} /\ (treeRow[d].sw5 = NoId \/ treeRow[c].sw5 = NoId)
    BY <1>1, <2>1 DEF SafeToMerge
  <2>3. (CHOOSE x \in Partners(d) : TRUE) = c
    BY <2>2
  <2>4. c \in Partners(d)
    BY <2>2
  <2>5. treeRow[c].tree = "canonical" /\ SamePath(c, d)
    BY <2>4 DEF Partners, InTree
  <2>6. treeRow[d].sw5 \in Sw5Ids
    BY <1>1, <2>1, RowTyped
  <2>7. QED
    BY <2>1, <2>2, <2>3, <2>5, <2>6
<1>5. merger'.pc = "planned" /\ merger'.plan = P /\ Shaped(merger')
  BY <1>2 DEF NoPlan, Shaped
<1>6. \A e \in P :
         /\ e[1] \in TreeRows /\ e[2] \in TreeRows /\ e[3] \in Sw5Ids
         /\ treeRow[e[1]].tree = "duplicate" /\ treeRow[e[1]].sw5 = e[3]
         /\ treeRow[e[2]].tree = "canonical" /\ treeRow[e[2]].sw5 = NoId
  BY <1>4
<1>7. \A e, f \in P : e[2] = f[2] => e = f
  <2>1. ASSUME NEW d \in D, NEW g \in D, (CHOOSE c \in Partners(d) : TRUE) = (CHOOSE c \in Partners(g) : TRUE)
        PROVE  d = g
    <3>1. SamePath(d, g)
      BY <1>4, <2>1 DEF SamePath
    <3>2. d \in InTree("duplicate") /\ g \in InTree("duplicate")
      OBVIOUS
    <3>3. QED
      BY <1>1, <3>1, <3>2 DEF SafeToMerge
  <2>2. QED
    BY <2>1
<1>8. \A r \in TreeRows :
         treeRow[r].tree = "duplicate" /\ treeRow[r].sw5 # NoId => \E e \in P : e[1] = r
  <2>1. ASSUME NEW r \in TreeRows, treeRow[r].tree = "duplicate", treeRow[r].sw5 # NoId
        PROVE  \E e \in P : e[1] = r
    <3>1. r \in D
      BY <2>1 DEF InTree
    <3>2. <<r, CHOOSE c \in Partners(r) : TRUE, treeRow[r].sw5>> \in P
      BY <3>1
    <3>3. QED
      BY <3>2
  <2>2. QED
    BY <2>1
<1>9. P \subseteq TreeRows \X TreeRows \X Sw5Ids
  BY <1>4
<1> HIDE DEF P
<1>10. QED
  BY <1>3, <1>5, <1>6, <1>7, <1>8, <1>9 DEF MergerShape, MergeHolds

(* IdsCleared, Written and Final are what MergeWrites computes, row by row.       *)
StillHere == {e \in merger.plan : treeRow[e[2]].tree # "none"}
IdsCleared == [r \in TreeRows |-> IF \E e \in merger.plan : e[1] = r
                               THEN [treeRow[r] EXCEPT !.sw5 = NoId] ELSE treeRow[r]]
Written == [r \in TreeRows |-> IF \E e \in StillHere : e[2] = r
                               THEN [IdsCleared[r] EXCEPT !.sw5 = (CHOOSE e \in StillHere : e[2] = r)[3]] ELSE IdsCleared[r]]
Final == [r \in TreeRows |-> IF merger.deletes /\ Written[r].tree = "duplicate" THEN NoTreeRow ELSE Written[r]]

LEMMA MergeComputes ==
  ASSUME MergeWrites
  PROVE  treeRow' = IF ~UniqueIds(Written) THEN treeRow ELSE Final
  BY DEF MergeWrites, StillHere, IdsCleared, Written, Final

LEMMA FinalRow ==
  ASSUME NEW r \in TreeRows
  PROVE  /\ Final[r] = Written[r] \/ Final[r] = NoTreeRow
         /\ Written[r].tree # "duplicate" => Final[r] = Written[r]
  BY DEF Final

LEMMA ClearedRow ==
  ASSUME Sw5Rows, NEW r \in TreeRows
  PROVE  /\ IdsCleared[r] \in TreeRow \cup {NoTreeRow} /\ IdsCleared[r].tree = treeRow[r].tree
         /\ treeRow[r].tree # "none" => IdsCleared[r] \in TreeRow
         /\ (~ \E e \in merger.plan : e[1] = r) => IdsCleared[r] = treeRow[r]
<1>0. treeRow[r] \in TreeRow \cup {NoTreeRow} /\ NoTreeRow.tree = "none"
  BY DEF Sw5Rows, NoTreeRow
<1>1. CASE (\E e \in merger.plan : e[1] = r) /\ treeRow[r] \in TreeRow
  <2>1. IdsCleared[r] = [treeRow[r] EXCEPT !.sw5 = NoId]
    BY <1>1 DEF IdsCleared
  <2>2. QED
    BY <1>1, <2>1, RowWritten
<1>2. CASE (\E e \in merger.plan : e[1] = r) /\ treeRow[r] = NoTreeRow
  <2>1. IdsCleared[r] = [NoTreeRow EXCEPT !.sw5 = NoId]
    BY <1>2 DEF IdsCleared
  <2>2. [NoTreeRow EXCEPT !.sw5 = NoId] = NoTreeRow
    BY DEF NoTreeRow
  <2>3. QED
    BY <1>0, <1>2, <2>1, <2>2
<1>3. CASE ~ \E e \in merger.plan : e[1] = r
  <2>1. IdsCleared[r] = treeRow[r]
    BY <1>3 DEF IdsCleared
  <2>2. QED
    BY <1>0, <1>3, <2>1
<1>4. QED
  BY <1>0, <1>1, <1>2, <1>3

LEMMA MergedTypes ==
  ASSUME Sw5Rows, UniqueIds(treeRow), MergerShape, MergeWrites
  PROVE  treeRow' \in [TreeRows -> TreeRow \cup {NoTreeRow}] /\ UniqueIds(treeRow')
<1>1. ASSUME NEW r \in TreeRows PROVE Written[r] \in TreeRow \cup {NoTreeRow}
  <2>1. CASE \E e \in StillHere : e[2] = r
    <3> DEFINE e == CHOOSE e \in StillHere : e[2] = r
    <3>1. e \in StillHere /\ e[2] = r
      BY <2>1
    <3>2. Written[r] = [IdsCleared[r] EXCEPT !.sw5 = e[3]]
      BY <2>1 DEF Written
    <3> HIDE DEF e
    <3>3. e[3] \in Sw5Ids /\ treeRow[r].tree # "none"
      BY <3>1 DEF StillHere, MergerShape
    <3>4. QED
      BY <3>2, <3>3, ClearedRow, RowWritten
  <2>2. CASE ~ \E e \in StillHere : e[2] = r
    BY <2>2, ClearedRow DEF Written
  <2>3. QED
    BY <2>1, <2>2
<1>2. \A r \in TreeRows : Final[r] \in TreeRow \cup {NoTreeRow}
  BY <1>1, FinalRow
<1>3. Final \in [TreeRows -> TreeRow \cup {NoTreeRow}]
  <2>1. Final = [r \in TreeRows |-> Final[r]]
    BY DEF Final
  <2>2. QED
    BY <1>2, <2>1
<1>4. ASSUME UniqueIds(Written) PROVE UniqueIds(Final)
  <2>1. DOMAIN Written = TreeRows /\ DOMAIN Final = TreeRows
    BY DEF Written, Final
  <2>2. ASSUME NEW r \in TreeRows, NEW s \in TreeRows, r # s, Final[r].sw5 = Final[s].sw5
        PROVE  Final[r].sw5 = NoId
    <3>1. NoTreeRow.sw5 = NoId
      BY DEF NoTreeRow
    <3>2. CASE Final[r] = NoTreeRow \/ Final[s] = NoTreeRow
      BY <2>2, <3>1, <3>2
    <3>3. CASE Final[r] = Written[r] /\ Final[s] = Written[s]
      BY <1>4, <2>1, <2>2, <3>3 DEF UniqueIds
    <3>4. QED
      BY <3>2, <3>3, FinalRow
  <2>3. QED
    BY <2>1, <2>2 DEF UniqueIds
<1>5. CASE UniqueIds(Written)
  <2>1. treeRow' = Final
    BY <1>5, MergeComputes
  <2>2. QED
    BY <1>3, <1>4, <1>5, <2>1
<1>6. CASE ~UniqueIds(Written)
  <2>1. treeRow' = treeRow
    BY <1>6, MergeComputes
  <2>2. treeRow' \in [TreeRows -> TreeRow \cup {NoTreeRow}]
    BY <2>1 DEF Sw5Rows
  <2>3. QED
    BY <2>1, <2>2
<1>7. QED
  BY <1>5, <1>6

(* Every id of a duplicate goes to its partner, and the others stay.          *)
LEMMA MergedRows ==
  ASSUME Sw5Rows, MergeHolds, MergeWrites, treeRow' # treeRow
  PROVE  /\ \A e \in merger.plan : treeRow'[e[2]].sw5 = e[3]
         /\ \A r \in TreeRows : treeRow[r].tree = "canonical" /\ treeRow[r].sw5 # NoId => treeRow'[r] = treeRow[r]
<1>1. merger.pc = "planned" /\ treeRow' = Final
  BY MergeComputes DEF MergeWrites
<1>2. StillHere = merger.plan
  BY <1>1 DEF MergeHolds, StillHere
<1>3. ASSUME NEW e \in merger.plan
      PROVE  /\ e[2] \in TreeRows /\ e[3] \in Sw5Ids /\ treeRow[e[1]].tree = "duplicate"
             /\ treeRow[e[2]].tree = "canonical" /\ treeRow[e[2]].sw5 = NoId
             /\ \A x \in merger.plan : x[2] = e[2] => x = e
  BY <1>1 DEF MergeHolds
<1>4. ASSUME NEW r \in TreeRows, treeRow[r].tree = "canonical"
      PROVE  IdsCleared[r] = treeRow[r]
  <2>1. ~ \E e \in merger.plan : e[1] = r
    BY <1>3, <1>4
  <2>2. QED
    BY <2>1, ClearedRow
<1>5. ASSUME NEW e \in merger.plan
      PROVE  treeRow'[e[2]].sw5 = e[3]
  <2>1. (CHOOSE x \in StillHere : x[2] = e[2]) = e
    BY <1>2, <1>3
  <2>2. treeRow[e[2]] \in TreeRow
    BY <1>3 DEF Sw5Rows, NoTreeRow
  <2>3. \E x \in StillHere : x[2] = e[2]
    BY <1>2
  <2>4. Written[e[2]] = [IdsCleared[e[2]] EXCEPT !.sw5 = e[3]]
    BY <1>3, <2>1, <2>3 DEF Written
  <2>5. Written[e[2]] = [treeRow[e[2]] EXCEPT !.sw5 = e[3]]
    BY <1>3, <1>4, <2>4
  <2>6. Written[e[2]].sw5 = e[3] /\ Written[e[2]].tree = "canonical"
    BY <1>3, <2>2, <2>5, RowWritten
  <2>7. Final[e[2]] = Written[e[2]]
    BY <1>3, <2>6, FinalRow
  <2>8. QED
    BY <1>1, <2>6, <2>7
<1>6. ASSUME NEW r \in TreeRows, treeRow[r].tree = "canonical", treeRow[r].sw5 # NoId
      PROVE  treeRow'[r] = treeRow[r]
  <2>1. ~ \E e \in StillHere : e[2] = r
    BY <1>2, <1>3, <1>6
  <2>2. Written[r] = treeRow[r]
    BY <1>4, <1>6, <2>1 DEF Written
  <2>3. Final[r] = Written[r]
    BY <1>6, <2>2, FinalRow
  <2>4. QED
    BY <1>1, <2>2, <2>3
<1>7. QED
  BY <1>5, <1>6

LEMMA MergeWritesKeeps ==
  ASSUME Sw5IInv, MergeWrites
  PROVE  Sw5IInv'
<1>1. /\ Sw5Rows /\ Sw5Trees /\ Sw5Counts /\ Sw5Flag /\ MapperShape /\ MergerShape /\ OneRowEach
      /\ UniqueIds(treeRow)
  BY DEF Sw5IInv
<1>2. /\ merger' = NoPlan /\ mapper' = mapper /\ sw5Tree' = sw5Tree /\ treeEdits' = treeEdits
      /\ merger.pc = "planned" /\ keptIds' = keptIds /\ mappedTo' = mappedTo
  BY DEF MergeWrites
<1>3. /\ MapperShape' /\ MergerShape' /\ OneRowEach' /\ MergeHolds' /\ Sw5Trees' /\ Sw5Counts'
  BY <1>1, <1>2, NoPlanShape DEF MapperShape, MergerShape, OneRowEach, MergeHolds, Sw5Trees, Sw5Counts
<1>4. Sw5Flag' /\ (~overtakenPlan' => ~overtakenPlan /\ (mapper.pc = "planned" => treeRow' = treeRow))
  BY Zenon DEF MergeWrites, Overtakes, Sw5Flag
<1>5. CASE treeRow' = treeRow
  <2>1. Sw5Rows'
    BY <1>1, <1>2, <1>5 DEF Sw5Rows
  <2>2. UniqueIds(treeRow)'
    BY <1>1, <1>5, Zenon DEF UniqueIds
  <2>3. Sw5Inv => Sw5Inv'
    <3>1. MapHolds => MapHolds'
      BY <1>2, <1>5, Zenon DEF MapHolds
    <3>2. KeptHeld => KeptHeld'
      BY <1>2, <1>5 DEF KeptHeld
    <3>3. MappedHeld => MappedHeld'
      BY <1>2, <1>5, Zenon DEF MappedHeld
    <3>4. QED
      BY <1>3, <3>1, <3>2, <3>3 DEF Sw5Inv
  <2>4. QED
    BY <1>3, <1>4, <2>1, <2>2, <2>3 DEF Sw5IInv
<1>6. CASE treeRow' # treeRow
  <2>1. treeRow' \in [TreeRows -> TreeRow \cup {NoTreeRow}] /\ UniqueIds(treeRow')
    BY <1>1, MergedTypes
  <2>2. Sw5Rows' /\ UniqueIds(treeRow)'
    BY <1>1, <1>2, <2>1 DEF Sw5Rows
  <2>3. ASSUME ~overtakenPlan' PROVE Sw5Inv'
    <3>1. Sw5Inv /\ mapper.pc # "planned"
      BY <1>4, <1>6, <2>3 DEF Sw5IInv
    <3>2. MapHolds'
      BY <1>2, <3>1 DEF MapHolds
    <3>3. /\ \A e \in merger.plan : treeRow'[e[2]].sw5 = e[3]
          /\ \A r \in TreeRows : treeRow[r].tree = "canonical" /\ treeRow[r].sw5 # NoId => treeRow'[r] = treeRow[r]
      BY <1>1, <1>6, <3>1, MergedRows DEF Sw5Inv
    <3>4. KeptHeld'
      <4>1. ASSUME NEW i \in keptIds PROVE i \in HeldIds(treeRow')
        <5>1. i \in HeldIds(treeRow)
          BY <3>1, <4>1 DEF Sw5Inv, KeptHeld
        <5>2. PICK r \in TreeRows : treeRow[r].sw5 = i /\ i # NoId
          BY <1>1, <5>1, HeldNow
        <5>3. \E s \in TreeRows : treeRow'[s].sw5 = i
          <6>1. CASE treeRow[r].tree = "canonical"
            BY <3>3, <5>2, <6>1
          <6>2. CASE treeRow[r].tree = "duplicate"
            <7>1. PICK e \in merger.plan : e[1] = r
              BY <1>2, <3>1, <5>2, <6>2 DEF Sw5Inv, MergeHolds
            <7>2. e[2] \in TreeRows /\ treeRow[e[1]].sw5 = e[3]
              BY <1>2, <3>1 DEF Sw5Inv, MergeHolds
            <7>3. QED
              BY <3>3, <5>2, <7>1, <7>2
          <6>3. CASE treeRow[r].tree = "none"
            <7>1. treeRow[r] \in TreeRow \cup {NoTreeRow}
              BY <1>1 DEF Sw5Rows
            <7>2. treeRow[r] = NoTreeRow
              BY <6>3, <7>1 DEF TreeRow
            <7>3. QED
              BY <5>2, <7>2 DEF NoTreeRow
          <6>4. QED
            BY <1>1, <6>1, <6>2, <6>3, RowTyped
        <5>4. QED
          BY <2>1, <5>2, <5>3, HeldBy
      <4>2. QED
        BY <1>2, <4>1 DEF KeptHeld
    <3>5. MappedHeld'
      <4>1. ASSUME NEW i \in Sw5Ids, mappedTo[i] # "none"
            PROVE  \E r \in TreeRows : treeRow'[r].tree = "canonical" /\ treeRow'[r].sw5 = i /\ treeRow'[r].path = mappedTo[i]
        <5>1. PICK r \in TreeRows : treeRow[r].tree = "canonical" /\ treeRow[r].sw5 = i /\ treeRow[r].path = mappedTo[i]
          BY <3>1, <4>1 DEF Sw5Inv, MappedHeld
        <5>2. i # NoId
          BY Sw5Assumption
        <5>3. QED
          BY <3>3, <5>1, <5>2
      <4>2. QED
        BY <1>2, <4>1 DEF MappedHeld
    <3>6. QED
      BY <1>3, <3>2, <3>4, <3>5 DEF Sw5Inv
  <2>4. QED
    BY <1>3, <1>4, <2>2, <2>3 DEF Sw5IInv
<1>7. QED
  BY <1>5, <1>6

(* A person's edit while nothing is planned.                                 *)
LEMMA TreeEditedKeeps ==
  ASSUME Sw5IInv, TreeEdited
  PROVE  Sw5IInv'
<1>1. /\ Sw5Rows /\ Sw5Trees /\ Sw5Counts /\ Sw5Flag /\ MapperShape /\ MergerShape /\ OneRowEach
      /\ UniqueIds(treeRow)
  BY DEF Sw5IInv
<1>2. /\ merger' = merger /\ mapper' = mapper /\ sw5Tree' = sw5Tree
      /\ treeEdits < MaxTreeEdits /\ treeEdits' = treeEdits + 1
  BY DEF TreeEdited
<1>3. MapperShape' /\ MergerShape' /\ OneRowEach' /\ Sw5Trees'
  BY <1>1, <1>2 DEF MapperShape, MergerShape, OneRowEach, Sw5Trees
<1>4. Sw5Counts'
  BY <1>1, <1>2, Sw5Bound DEF Sw5Counts
<1>5. Sw5Flag' /\ (~overtakenPlan' => ~overtakenPlan /\ mapper.pc # "planned" /\ merger.pc # "planned")
  BY Zenon DEF TreeEdited, Sw5Flag
<1>6. PICK r \in TreeRows, row \in TreeRow \cup {NoTreeRow} :
        /\ treeRow' = [treeRow EXCEPT ![r] = row] /\ UniqueIds(treeRow')
        /\ keptIds' = (keptIds \ {treeRow[r].sw5}) \cup HeldIds(treeRow')
        /\ mappedTo' = [i \in Sw5Ids |-> IF i \in {treeRow[r].sw5, row.sw5} THEN "none" ELSE mappedTo[i]]
  BY Zenon DEF TreeEdited
<1>7. /\ treeRow' \in [TreeRows -> TreeRow \cup {NoTreeRow}]
      /\ \A s \in TreeRows : s # r => treeRow'[s] = treeRow[s]
  <2>1. treeRow \in [TreeRows -> TreeRow \cup {NoTreeRow}]
    BY <1>1 DEF Sw5Rows
  <2>2. treeRow' = [treeRow EXCEPT ![r] = row] /\ row \in TreeRow \cup {NoTreeRow}
    BY <1>6
  <2>3. QED
    BY <2>1, <2>2, OneChanged
<1>8. \A i : i \in HeldIds(treeRow') <=> i # NoId /\ \E s \in TreeRows : treeRow'[s].sw5 = i
  <2>1. treeRow' \in [TreeRows -> TreeRow \cup {NoTreeRow}]
    BY <1>7
  <2>2. QED
    BY <2>1, HeldBy
<1>9. Sw5Rows'
  <2>1. mappedTo' \in [Sw5Ids -> Paths \cup {"none"}]
    BY <1>1, <1>6 DEF Sw5Rows
  <2>2. \A s \in TreeRows : treeRow'[s].sw5 \in Sw5Ids \cup {NoId}
    <3>1. \A t \in TreeRow \cup {NoTreeRow} : t.sw5 \in Sw5Ids \cup {NoId}
      BY DEF TreeRow, NoTreeRow
    <3>2. \A s \in TreeRows : treeRow'[s] \in TreeRow \cup {NoTreeRow}
      BY <1>7
    <3>3. QED
      BY <3>1, <3>2
  <2>3. keptIds' \subseteq Sw5Ids
    <3>1. HeldIds(treeRow') \subseteq Sw5Ids
      BY <1>8, <2>2
    <3>2. keptIds \subseteq Sw5Ids
      BY <1>1 DEF Sw5Rows
    <3>3. QED
      BY <1>6, <3>1, <3>2
  <2>4. QED
    BY <1>7, <2>1, <2>3 DEF Sw5Rows
<1>10. ASSUME ~overtakenPlan' PROVE Sw5Inv'
  <2>1. Sw5Inv /\ mapper.pc # "planned" /\ merger.pc # "planned"
    BY <1>5, <1>10 DEF Sw5IInv
  <2>2. MapHolds' /\ MergeHolds'
    BY <1>2, <2>1 DEF MapHolds, MergeHolds
  <2>3. KeptHeld'
    <3>1. ASSUME NEW i \in keptIds, i # treeRow[r].sw5 PROVE i \in HeldIds(treeRow')
      <4>1. i \in HeldIds(treeRow)
        BY <2>1, <3>1 DEF Sw5Inv, KeptHeld
      <4>2. PICK s \in TreeRows : treeRow[s].sw5 = i /\ i # NoId
        BY <1>1, <4>1, HeldNow
      <4>3. treeRow'[s].sw5 = i
        BY <1>7, <3>1, <4>2
      <4>4. QED
        BY <1>8, <4>2, <4>3
    <3>2. QED
      BY <1>6, <3>1 DEF KeptHeld
  <2>4. MappedHeld'
    <3>1. ASSUME NEW i \in Sw5Ids, mappedTo'[i] # "none"
          PROVE  \E s \in TreeRows : treeRow'[s].tree = "canonical" /\ treeRow'[s].sw5 = i /\ treeRow'[s].path = mappedTo'[i]
      <4>1. i # treeRow[r].sw5 /\ mappedTo'[i] = mappedTo[i]
        BY <1>6, <3>1
      <4>2. PICK s \in TreeRows : treeRow[s].tree = "canonical" /\ treeRow[s].sw5 = i /\ treeRow[s].path = mappedTo[i]
        BY <2>1, <3>1, <4>1 DEF Sw5Inv, MappedHeld
      <4>3. treeRow'[s] = treeRow[s]
        BY <1>7, <4>1, <4>2
      <4>4. QED
        BY <4>1, <4>2, <4>3
    <3>2. QED
      BY <3>1 DEF MappedHeld
  <2>5. QED
    BY <2>2, <2>3, <2>4 DEF Sw5Inv
<1>11. UniqueIds(treeRow)'
  BY <1>6
<1>12. QED
  BY <1>3, <1>4, <1>5, <1>9, <1>10, <1>11 DEF Sw5IInv

LEMMA Sw5EditedKeeps ==
  ASSUME Sw5IInv, Sw5Edited
  PROVE  Sw5IInv'
<1>1. /\ Sw5Rows /\ Sw5Trees /\ Sw5Counts /\ Sw5Flag /\ MapperShape /\ MergerShape /\ OneRowEach
      /\ UniqueIds(treeRow)
  BY DEF Sw5IInv
<1>2. /\ merger' = merger /\ mapper' = mapper /\ treeRow' = treeRow /\ keptIds' = keptIds
      /\ mappedTo' = mappedTo /\ overtakenPlan' = overtakenPlan
      /\ treeEdits < MaxTreeEdits /\ treeEdits' = treeEdits + 1
  BY DEF Sw5Edited
<1>3. Sw5Counts' /\ Sw5Trees'
  <2>1. Sw5Counts'
    BY <1>1, <1>2, Sw5Bound DEF Sw5Counts
  <2>2. PICK i \in Sw5Ids, row \in Sw5Row : sw5Tree' = [sw5Tree EXCEPT ![i] = row]
    BY Zenon DEF Sw5Edited
  <2>3. Sw5Trees'
    BY <1>1, <2>2 DEF Sw5Trees
  <2>4. QED
    BY <2>1, <2>3
<1>4. QED
  BY <1>2, <1>3, SameRows

LEMMA Sw5InitInv == Sw5Init => Sw5IInv
<1> SUFFICES ASSUME Sw5Init PROVE Sw5IInv
  OBVIOUS
<1>1. mapper = NoPlan /\ merger = NoPlan /\ UniqueIds(treeRow)
  BY DEF Sw5Init
<1>2. MapperShape /\ MergerShape /\ OneRowEach /\ MapHolds /\ MergeHolds
  BY <1>1, NoPlanShape DEF MapperShape, MergerShape, OneRowEach, MapHolds, MergeHolds
<1>3. treeRow \in [TreeRows -> TreeRow \cup {NoTreeRow}]
  BY DEF Sw5Init
<1>4. keptIds = HeldIds(treeRow)
  BY DEF Sw5Init
<1>5. mappedTo = [i \in Sw5Ids |-> "none"]
  BY DEF Sw5Init
<1>6. keptIds \subseteq Sw5Ids
  <2>1. \A t \in TreeRow \cup {NoTreeRow} : t.sw5 \in Sw5Ids \cup {NoId}
    BY DEF TreeRow, NoTreeRow
  <2>2. QED
    BY <1>3, <1>4, <2>1 DEF HeldIds
<1>7. Sw5Rows
  BY <1>3, <1>5, <1>6 DEF Sw5Rows
<1>8. Sw5Trees
  BY DEF Sw5Init, Sw5Trees, Sw5Row
<1>9. Sw5Counts
  BY Sw5Bound DEF Sw5Init, Sw5Counts
<1>10. Sw5Flag
  BY Zenon DEF Sw5Init, Sw5Flag
<1>11. KeptHeld /\ MappedHeld
  BY <1>4, <1>5 DEF KeptHeld, MappedHeld
<1>12. QED
  BY <1>1, <1>2, <1>7, <1>8, <1>9, <1>10, <1>11 DEF Sw5IInv, Sw5Inv

(* Planning changes no category.                                             *)
LEMMA PlanKeeps ==
  ASSUME Sw5IInv, MapReads \/ MapPlans \/ MergePlans
  PROVE  Sw5IInv'
<1>1. /\ treeRow' = treeRow /\ sw5Tree' = sw5Tree /\ keptIds' = keptIds /\ mappedTo' = mappedTo
      /\ overtakenPlan' = overtakenPlan /\ treeEdits' = treeEdits
  BY DEF MapReads, MapPlans, MergePlans
<1>2. Sw5Rows' /\ Sw5Trees' /\ Sw5Counts' /\ Sw5Flag'
  BY <1>1, Zenon DEF Sw5IInv, Sw5Rows, Sw5Trees, Sw5Counts, Sw5Flag
<1>3. UniqueIds(treeRow)'
  <2>1. UniqueIds(treeRow)
    BY DEF Sw5IInv
  <2>2. QED
    BY <1>1, <2>1, Zenon DEF UniqueIds
<1>4. (KeptHeld => KeptHeld') /\ (MappedHeld => MappedHeld')
  <2>1. KeptHeld => KeptHeld'
    BY <1>1 DEF KeptHeld
  <2>2. MappedHeld => MappedHeld'
    BY <1>1, Zenon DEF MappedHeld
  <2>3. QED
    BY <2>1, <2>2
<1>5. ~overtakenPlan' => Sw5Inv
  BY <1>1, Zenon DEF Sw5IInv
<1>6. MapperShape' /\ OneRowEach' /\ (Sw5Inv => MapHolds')
  <2>1. CASE MapReads \/ MapPlans
    BY <2>1, MapReadsKeeps, MapPlansKeeps
  <2>2. CASE MergePlans
    <3>1. mapper' = mapper
      BY <2>2 DEF MergePlans
    <3>2. QED
      BY <1>1, <3>1, Zenon DEF Sw5IInv, Sw5Inv, MapperShape, OneRowEach, MapHolds
  <2>3. QED
    BY <2>1, <2>2
<1>7. MergerShape' /\ (Sw5Inv => MergeHolds')
  <2>1. CASE MergePlans
    BY <2>1, MergePlansKeeps
  <2>2. CASE MapReads \/ MapPlans
    <3>1. merger' = merger
      BY <2>2 DEF MapReads, MapPlans
    <3>2. QED
      BY <1>1, <3>1, Zenon DEF Sw5IInv, Sw5Inv, MergerShape, MergeHolds
  <2>3. QED
    BY <2>1, <2>2
<1>8. ~overtakenPlan' => Sw5Inv'
  BY <1>4, <1>5, <1>6, <1>7 DEF Sw5Inv
<1>9. QED
  BY <1>2, <1>3, <1>6, <1>7, <1>8 DEF Sw5IInv

LEMMA Sw5NextKeeps == Sw5IInv /\ [Sw5Next]_sw5Vars => Sw5IInv'
<1>1. Sw5IInv /\ Sw5Next => Sw5IInv'
  BY PlanKeeps, MapWritesKeeps, MergeWritesKeeps, TreeEditedKeeps, Sw5EditedKeeps DEF Sw5Next
<1>2. Sw5IInv /\ UNCHANGED sw5Vars => Sw5IInv'
  <2> SUFFICES ASSUME Sw5IInv, UNCHANGED sw5Vars PROVE Sw5IInv'
    OBVIOUS
  <2>1. /\ merger' = merger /\ mapper' = mapper /\ treeRow' = treeRow /\ keptIds' = keptIds
        /\ mappedTo' = mappedTo /\ overtakenPlan' = overtakenPlan
        /\ sw5Tree' = sw5Tree /\ treeEdits' = treeEdits
    BY Zenon DEF sw5Vars
  <2>2. Sw5Trees' /\ Sw5Counts'
    BY <2>1, Zenon DEF Sw5IInv, Sw5Trees, Sw5Counts
  <2>3. QED
    BY <2>1, <2>2, SameRows
<1>3. QED
  BY <1>1, <1>2

(* Rows, trees, plans and histories keep their types.                         *)
THEOREM Sw5TypeCorrect == Sw5Spec => []Sw5TypeOK
<1>1. Sw5IInv => Sw5TypeOK
  <2> SUFFICES ASSUME Sw5IInv PROVE Sw5TypeOK
    OBVIOUS
  <2>1. mapper.plan \subseteq TreeRows \X Sw5Ids
    <3>1. mapper.plan \subseteq TreeRows \X DOMAIN mapper.list /\ DOMAIN mapper.list \subseteq Sw5Ids
      BY DEF Sw5IInv, MapperShape
    <3>2. QED
      BY <3>1
  <2>2. QED
    BY <2>1, Zenon DEF Sw5IInv, Sw5TypeOK, MapperShape, MergerShape, Sw5Rows, Sw5Trees, Sw5Counts, Sw5Flag
<1>2. QED
  BY <1>1, Sw5InitInv, Sw5NextKeeps, PTL DEF Sw5Spec

(* No Shopware 5 id is lost by apply_sw5_ids or by the merging of duplicate    *)
(* trees, and a mapped one stays at the path it was mapped to, in trees of any *)
(* size.                                                                     *)
THEOREM NoIdIsLost == Sw5Spec => []IdsAreKept
<1>1. Sw5IInv => IdsAreKept
  <2> SUFFICES ASSUME Sw5IInv, ~overtakenPlan
               PROVE  /\ keptIds \subseteq HeldIds(treeRow)
                      /\ \A i \in Sw5Ids : mappedTo[i] # "none" =>
                           \E r \in InTree("canonical") : treeRow[r].sw5 = i /\ treeRow[r].path = mappedTo[i]
    BY Zenon DEF IdsAreKept
  <2>1. KeptHeld /\ MappedHeld
    BY DEF Sw5IInv, Sw5Inv
  <2>2. QED
    BY <2>1 DEF KeptHeld, MappedHeld, InTree
<1>2. QED
  BY <1>1, Sw5InitInv, Sw5NextKeeps, PTL DEF Sw5Spec

-----------------------------------------------------------------------------
(* Variant families.  What lets a run be judged at its end is what holds at    *)
(* each of its steps: how far a run that is alone has brought Shopware         *)
(* (Progress), who has left and is on its way out (LetsGoOf), and that every   *)
(* child is remembered, written by a run under way, or forgotten.             *)
FamilyRecords == [parent : BOOLEAN, children : SUBSET Articles,
                  options : [Articles -> SUBSET Options], settings : SUBSET Options]
SyncRecords == [at : SyncSteps, wants : Resolutions, leaves : SUBSET Articles, alone : BOOLEAN]

VariantShape ==
  /\ option \in Resolutions /\ listed \subseteq Articles /\ synced \subseteq listed
  /\ shopFamily \in FamilyRecords /\ syncs \in [VariantRuns -> SyncRecords]
  /\ reached \subseteq Resolutions /\ forgotten \subseteq Articles
VariantCounts == familyEdits \in 0 .. MaxFamilyEdits /\ familyFaults \in 0 .. MaxFamilyFaults
VariantFlag == axis \in BOOLEAN

Alone(r) == syncs[r].alone
Mine(r) == VariantsOf(Wants(r))
Wrote(r) == syncs[r].at \in {"settings", "stale settings", "configure", "release", "detach", "remember"}
Marked(p) == p \in shopFamily.children \/ shopFamily.options[p] # {}
OtherWrote(r, p) == \E o \in VariantRuns \ {r} : Wrote(o) /\ p \in Mine(o)
Excused(r, p) == ~Alone(r) /\ (p \in forgotten \/ OtherWrote(r, p))

(* Nobody else runs beside a run that is alone.                              *)
AloneIsAlone == \A r \in VariantRuns : ~SyncAt(r, "off") /\ Alone(r) =>
                   \A o \in VariantRuns \ {r} : SyncAt(o, "off")

(* Children and options belong to articles that are remembered, that a run has *)
(* written, or that are forgotten.                                            *)
MarksAreKnown ==
  \A p \in Articles : Marked(p) => p \in synced \/ p \in forgotten \/ \E o \in VariantRuns : Wrote(o) /\ p \in Mine(o)

Placed(r) ==
  /\ syncs[r].at \in {"options", "parent", "children", "settings"} => Mine(r) # {}
  /\ syncs[r].at \notin {"off", "options"} => Mine(r) \subseteq listed
  /\ syncs[r].at = "detach" => syncs[r].leaves \cap Mine(r) = {}

HasDetached(r) ==
  \/ syncs[r].at = "remember"
  \/ Wants(r) = NoVariants /\ syncs[r].at \in {"stale settings", "configure"}

(* Who has left is on its way out, or out.                                    *)
LetsGoOf(r) ==
  /\ syncs[r].at = "detach" =>
       \A p \in synced \ Mine(r) : Excused(r, p) \/ (p \in syncs[r].leaves /\ shopFamily.options[p] = {})
  /\ HasDetached(r) => \A p \in synced \ Mine(r) : Excused(r, p) \/ ~Marked(p)

(* How far a run that is alone has brought Shopware.                          *)
Settled(w) == \A p \in VariantsOf(w) : p \in shopFamily.children /\ shopFamily.options[p] = {w[p]}

Progress(r) ==
  /\ syncs[r].at \in {"parent", "children"} => \A p \in Mine(r) : shopFamily.options[p] \subseteq {Wants(r)[p]}
  /\ Wrote(r) => Settled(Wants(r))
  /\ syncs[r].at = "stale settings" => UsedBy(Wants(r)) \subseteq shopFamily.settings
  /\ \/ syncs[r].at \in {"configure", "remember"}
     \/ syncs[r].at \in {"release", "detach"} /\ Wants(r) # NoVariants
     => shopFamily.settings = UsedBy(Wants(r))

RunHolds(r) == Placed(r) /\ LetsGoOf(r) /\ (Alone(r) => Progress(r))

Reaches(w) ==
  /\ Settled(w)
  /\ \A p \in Articles \ (VariantsOf(w) \cup forgotten) : ~Marked(p)
  /\ shopFamily.settings = UsedBy(w)

ReachedHolds == \A w \in reached : Reaches(w) /\ \A r \in VariantRuns : SyncAt(r, "off")

VariantIInv ==
  /\ VariantShape /\ VariantCounts /\ VariantFlag
  /\ AloneIsAlone /\ MarksAreKnown /\ (\A r \in VariantRuns : RunHolds(r)) /\ ReachedHolds

-----------------------------------------------------------------------------
LEMMA ResolutionFacts ==
  /\ NoVariants \in Resolutions /\ VariantsOf(NoVariants) = {} /\ UsedBy(NoVariants) = {}
  /\ \A w \in Resolutions : /\ VariantsOf(w) \subseteq Articles /\ UsedBy(w) \subseteq Options
                            /\ VariantsOf(w) = {} => w = NoVariants
                            /\ \A p \in VariantsOf(w) : w[p] \in UsedBy(w) /\ w[p] \in Options
<1>1. NoVariants \in Resolutions /\ VariantsOf(NoVariants) = {}
  BY DEF NoVariants, Resolutions, VariantsOf
<1>2. UsedBy(NoVariants) = {}
  BY <1>1 DEF UsedBy
<1>3. ASSUME NEW w \in Resolutions
      PROVE  /\ VariantsOf(w) \subseteq Articles /\ UsedBy(w) \subseteq Options
             /\ VariantsOf(w) = {} => w = NoVariants
             /\ \A p \in VariantsOf(w) : w[p] \in UsedBy(w) /\ w[p] \in Options
  <2>1. VariantsOf(w) \subseteq Articles
    BY DEF VariantsOf
  <2>2. \A p \in VariantsOf(w) : w[p] \in UsedBy(w) /\ w[p] \in Options
    BY DEF VariantsOf, UsedBy, Resolutions
  <2>3. UsedBy(w) \subseteq Options
    BY <2>2 DEF UsedBy
  <2>4. ASSUME VariantsOf(w) = {} PROVE w = NoVariants
    <3>1. \A p \in Articles : w[p] = NoOption
      BY <2>4 DEF VariantsOf
    <3>2. QED
      BY <3>1 DEF NoVariants, Resolutions
  <2>5. QED
    BY <2>1, <2>2, <2>3, <2>4
<1>4. QED
  BY <1>1, <1>2, <1>3

LEMMA NoSyncFacts ==
  /\ NoSync \in SyncRecords /\ NoSync.at = "off" /\ NoSync.wants = NoVariants
  BY ResolutionFacts DEF NoSync, SyncRecords, SyncSteps

LEMMA RunTyped ==
  ASSUME VariantShape, NEW r \in VariantRuns
  PROVE  /\ syncs[r] \in SyncRecords /\ Wants(r) \in Resolutions /\ syncs[r].leaves \subseteq Articles
         /\ Mine(r) \subseteq Articles
<1>1. syncs[r] \in SyncRecords
  BY DEF VariantShape
<1>2. Wants(r) \in Resolutions /\ syncs[r].leaves \subseteq Articles
  BY <1>1 DEF SyncRecords, Wants
<1>3. QED
  BY <1>1, <1>2, ResolutionFacts DEF Mine

LEMMA ShopTyped ==
  ASSUME VariantShape
  PROVE  /\ shopFamily.children \subseteq Articles /\ shopFamily.settings \subseteq Options
         /\ shopFamily.options \in [Articles -> SUBSET Options]
  BY DEF VariantShape, FamilyRecords

(* A step of a run that goes on: what it does to Shopware is to its own         *)
(* variants, or takes something away.                                         *)
LEMMA RunGoesOn ==
  ASSUME VariantIInv, NEW r \in VariantRuns, ~SyncAt(r, "off"), ~SyncAt(r, "off")',
         VariantShape', VariantCounts', VariantFlag',
         \A o \in VariantRuns \ {r} : syncs'[o] = syncs[o],
         Wants(r)' = Wants(r), Alone(r)' <=> Alone(r), Wrote(r) => Wrote(r)',
         synced' = synced, forgotten' = forgotten, reached' = reached, listed' = listed,
         \A p \in Articles : p \in shopFamily'.children => p \in shopFamily.children \/ (p \in Mine(r) /\ Wrote(r)'),
         \A p \in Articles : \/ shopFamily'.options[p] \subseteq shopFamily.options[p]
                             \/ p \in Mine(r) /\ Wrote(r)',
         RunHolds(r)'
  PROVE  VariantIInv'
<1>1. Mine(r)' = Mine(r)
  BY DEF Mine
<1>2. ASSUME NEW o \in VariantRuns, o # r
      PROVE  /\ Wants(o)' = Wants(o) /\ Mine(o)' = Mine(o) /\ (Alone(o)' <=> Alone(o)) /\ (Wrote(o)' <=> Wrote(o))
             /\ (HasDetached(o)' <=> HasDetached(o)) /\ syncs'[o] = syncs[o]
  BY <1>2, Zenon DEF Wants, Mine, Alone, Wrote, HasDetached
<1>3. \A p \in Articles : Marked(p)' => Marked(p) \/ (p \in Mine(r) /\ Wrote(r)')
  BY DEF Marked
<1>4. ASSUME NEW p, \E o \in VariantRuns : Wrote(o) /\ p \in Mine(o)
      PROVE  \E o \in VariantRuns : Wrote(o)' /\ p \in Mine(o)'
  BY <1>1, <1>2, <1>4
<1>5. MarksAreKnown'
  BY <1>1, <1>3, <1>4 DEF VariantIInv, MarksAreKnown
<1>6. AloneIsAlone'
  BY <1>2, Zenon DEF VariantIInv, AloneIsAlone, SyncAt
<1>7. reached = {}
  BY DEF VariantIInv, ReachedHolds
<1>8. ASSUME NEW o \in VariantRuns, o # r PROVE RunHolds(o)'
  <2>1. RunHolds(o)
    BY DEF VariantIInv
  <2>2. Placed(o)'
    BY <1>2, <1>8, <2>1, Zenon DEF RunHolds, Placed
  <2>3. CASE SyncAt(o, "off")
    BY <1>2, <1>8, <2>2, <2>3 DEF RunHolds, LetsGoOf, HasDetached, Progress, Wrote, SyncAt
  <2>4. CASE ~SyncAt(o, "off")
    <3>1. ~Alone(o)
      BY <1>8, <2>4 DEF VariantIInv, AloneIsAlone
    <3>2. ~Alone(o)'
      BY <1>2, <1>8, <3>1
    <3>3. ASSUME NEW p, OtherWrote(o, p) PROVE OtherWrote(o, p)'
      BY <1>1, <1>2, <3>3 DEF OtherWrote
    <3>4. ASSUME NEW p \in Articles, p \in Mine(r), Wrote(r)' PROVE Excused(o, p)'
      BY <1>1, <1>8, <3>2, <3>4 DEF Excused, OtherWrote
    <3>5. ASSUME NEW p, Excused(o, p) PROVE Excused(o, p)'
      BY <3>2, <3>3, <3>5 DEF Excused
    <3>6. synced \subseteq Articles
      BY DEF VariantIInv, VariantShape
    <3>7. ASSUME syncs'[o].at = "detach", NEW p \in synced \ Mine(o)
          PROVE  Excused(o, p)' \/ (p \in syncs'[o].leaves /\ shopFamily'.options[p] = {})
      <4>1. Excused(o, p) \/ (p \in syncs[o].leaves /\ shopFamily.options[p] = {})
        BY <1>2, <1>8, <2>1, <3>7 DEF RunHolds, LetsGoOf
      <4>2. p \in Articles /\ syncs'[o] = syncs[o]
        BY <1>2, <1>8, <3>6
      <4>3. QED
        BY <3>4, <3>5, <4>1, <4>2
    <3>8. ASSUME HasDetached(o)', NEW p \in synced \ Mine(o)
          PROVE  Excused(o, p)' \/ ~Marked(p)'
      <4>1. Excused(o, p) \/ ~Marked(p)
        BY <1>2, <1>8, <2>1, <3>8 DEF RunHolds, LetsGoOf
      <4>2. QED
        BY <1>3, <3>4, <3>5, <3>6, <4>1
    <3>9. LetsGoOf(o)'
      BY <1>2, <1>8, <3>7, <3>8 DEF LetsGoOf
    <3>10. QED
      BY <2>2, <3>2, <3>9 DEF RunHolds
  <2>5. QED
    BY <2>3, <2>4
<1>9. \A o \in VariantRuns : RunHolds(o)'
  BY <1>8
<1>10. ReachedHolds'
  BY <1>7 DEF ReachedHolds
<1>11. QED
  BY <1>5, <1>6, <1>9, <1>10 DEF VariantIInv

LEMMA Went ==
  ASSUME VariantShape, NEW r \in VariantRuns, NEW s \in SyncSteps, NEW L \in SUBSET Articles,
         syncs' = [syncs EXCEPT ![r] = [syncs[r] EXCEPT !.at = s, !.leaves = L]]
  PROVE  /\ syncs' \in [VariantRuns -> SyncRecords]
         /\ syncs'[r].at = s /\ syncs'[r].leaves = L
         /\ Wants(r)' = Wants(r) /\ Mine(r)' = Mine(r) /\ (Alone(r)' <=> Alone(r))
         /\ \A o \in VariantRuns \ {r} : syncs'[o] = syncs[o]
<1> DEFINE e == [syncs[r] EXCEPT !.at = s, !.leaves = L]
<1>1. syncs[r] \in SyncRecords /\ syncs \in [VariantRuns -> SyncRecords]
  BY DEF VariantShape
<1>2. e \in SyncRecords /\ e.at = s /\ e.leaves = L /\ e.wants = syncs[r].wants /\ e.alone = syncs[r].alone
  BY <1>1 DEF SyncRecords
<1> HIDE DEF e
<1>3. syncs' = [syncs EXCEPT ![r] = e]
  BY DEF e
<1>4. /\ syncs' \in [VariantRuns -> SyncRecords] /\ syncs'[r] = e
      /\ \A o \in VariantRuns \ {r} : syncs'[o] = syncs[o]
  BY <1>1, <1>2, <1>3
<1>5. Wants(r)' = Wants(r) /\ Mine(r)' = Mine(r) /\ (Alone(r)' <=> Alone(r))
  BY <1>2, <1>4, Zenon DEF Wants, Mine, Alone
<1>6. QED
  BY <1>2, <1>4, <1>5

LEMMA WentTo ==
  ASSUME VariantShape, NEW r \in VariantRuns, NEW s \in SyncSteps, SyncGoesTo(r, s)
  PROVE  /\ syncs' \in [VariantRuns -> SyncRecords]
         /\ syncs'[r].at = s /\ syncs'[r].leaves = syncs[r].leaves
         /\ Wants(r)' = Wants(r) /\ Mine(r)' = Mine(r) /\ (Alone(r)' <=> Alone(r))
         /\ \A o \in VariantRuns \ {r} : syncs'[o] = syncs[o]
<1>1. syncs[r] \in SyncRecords /\ syncs \in [VariantRuns -> SyncRecords] /\ syncs[r].leaves \in SUBSET Articles
  BY DEF VariantShape, SyncRecords
<1>2. [syncs[r] EXCEPT !.at = s] = [syncs[r] EXCEPT !.at = s, !.leaves = syncs[r].leaves]
  BY <1>1 DEF SyncRecords
<1>3. syncs' = [syncs EXCEPT ![r] = [syncs[r] EXCEPT !.at = s]]
  BY <1>1 DEF SyncGoesTo
<1>4. syncs' = [syncs EXCEPT ![r] = [syncs[r] EXCEPT !.at = s, !.leaves = syncs[r].leaves]]
  BY <1>2, <1>3
<1>5. QED
  BY <1>1, <1>4, Went

LEMMA StepShape ==
  ASSUME VariantShape, shopFamily' \in FamilyRecords, syncs' \in [VariantRuns -> SyncRecords],
         option' = option, listed' = listed, synced' = synced, reached' = reached, forgotten' = forgotten
  PROVE  VariantShape'
  BY DEF VariantShape

LEMMA ShopChanged ==
  ASSUME VariantShape
  PROVE  /\ \A F \in [Articles -> SUBSET Options] :
              LET s == [shopFamily EXCEPT !.options = F]
              IN s \in FamilyRecords /\ s.options = F /\ s.children = shopFamily.children /\ s.settings = shopFamily.settings
         /\ \A C \in SUBSET Articles :
              LET s == [shopFamily EXCEPT !.children = C]
              IN s \in FamilyRecords /\ s.options = shopFamily.options /\ s.children = C /\ s.settings = shopFamily.settings
         /\ \A G \in SUBSET Options :
              LET s == [shopFamily EXCEPT !.settings = G]
              IN s \in FamilyRecords /\ s.options = shopFamily.options /\ s.children = shopFamily.children /\ s.settings = G
         /\ LET s == [shopFamily EXCEPT !.parent = TRUE]
            IN s \in FamilyRecords /\ s.options = shopFamily.options /\ s.children = shopFamily.children
               /\ s.settings = shopFamily.settings
  BY DEF VariantShape, FamilyRecords

(* The calls to Shopware, one lemma each.                                    *)
LEMMA RemovesOptionsKeeps ==
  ASSUME VariantIInv, NEW r \in VariantRuns, RemovesOptions(r), Mine(r) \subseteq listed
  PROVE  VariantIInv'
<1>1. VariantShape /\ VariantCounts /\ VariantFlag /\ RunHolds(r)
  BY DEF VariantIInv
<1> DEFINE F == [p \in Articles |-> IF p \in Mine(r) THEN shopFamily.options[p] \cap {Wants(r)[p]} ELSE shopFamily.options[p]]
<1>2. shopFamily' = [shopFamily EXCEPT !.options = F] /\ SyncGoesTo(r, "parent") /\ syncs[r].at = "options"
  BY DEF RemovesOptions, Mine, SyncAt
<1>3. /\ synced' = synced /\ forgotten' = forgotten /\ reached' = reached /\ listed' = listed /\ option' = option
      /\ axis' = axis /\ familyEdits' = familyEdits /\ familyFaults' = familyFaults
  BY DEF RemovesOptions
<1>4. F \in [Articles -> SUBSET Options]
  BY <1>1, ShopTyped
<1>5. /\ \A p \in Articles : F[p] \subseteq shopFamily.options[p]
      /\ \A p \in Mine(r) : F[p] \subseteq {Wants(r)[p]}
  BY <1>1, RunTyped
<1> HIDE DEF F
<1>6. /\ shopFamily' \in FamilyRecords /\ shopFamily'.options = F
      /\ shopFamily'.children = shopFamily.children /\ shopFamily'.settings = shopFamily.settings
  BY <1>1, <1>2, <1>4, ShopChanged
<1>7. /\ syncs' \in [VariantRuns -> SyncRecords] /\ syncs'[r].at = "parent"
      /\ Wants(r)' = Wants(r) /\ Mine(r)' = Mine(r) /\ (Alone(r)' <=> Alone(r))
      /\ \A o \in VariantRuns \ {r} : syncs'[o] = syncs[o]
  BY <1>1, <1>2, WentTo DEF SyncSteps
<1>8. VariantShape'
  BY <1>1, <1>3, <1>6, <1>7, StepShape
<1>9. VariantCounts' /\ VariantFlag'
  BY <1>1, <1>3, Zenon DEF VariantCounts, VariantFlag
<1>10. Placed(r)'
  BY <1>1, <1>2, <1>3, <1>7 DEF RunHolds, Placed
<1>11. LetsGoOf(r)'
  BY <1>7 DEF LetsGoOf, HasDetached
<1>12. Progress(r)'
  BY <1>5, <1>6, <1>7 DEF Progress, Wrote
<1>13. QED
  BY <1>2, <1>3, <1>5, <1>6, <1>7, <1>8, <1>9, <1>10, <1>11, <1>12, RunGoesOn DEF RunHolds, SyncAt, Wrote

LEMMA EnsuresParentKeeps ==
  ASSUME VariantIInv, NEW r \in VariantRuns, EnsuresParent(r)
  PROVE  VariantIInv'
<1>1. VariantShape /\ VariantCounts /\ VariantFlag /\ RunHolds(r)
  BY DEF VariantIInv
<1>2. shopFamily' = [shopFamily EXCEPT !.parent = TRUE] /\ SyncGoesTo(r, "children") /\ syncs[r].at = "parent"
  BY DEF EnsuresParent, SyncAt
<1>3. /\ synced' = synced /\ forgotten' = forgotten /\ reached' = reached /\ listed' = listed /\ option' = option
      /\ axis' = axis /\ familyEdits' = familyEdits /\ familyFaults' = familyFaults
  BY DEF EnsuresParent
<1>6. /\ shopFamily' \in FamilyRecords /\ shopFamily'.options = shopFamily.options
      /\ shopFamily'.children = shopFamily.children /\ shopFamily'.settings = shopFamily.settings
  BY <1>1, <1>2, ShopChanged
<1>7. /\ syncs' \in [VariantRuns -> SyncRecords] /\ syncs'[r].at = "children"
      /\ Wants(r)' = Wants(r) /\ Mine(r)' = Mine(r) /\ (Alone(r)' <=> Alone(r))
      /\ \A o \in VariantRuns \ {r} : syncs'[o] = syncs[o]
  BY <1>1, <1>2, WentTo DEF SyncSteps
<1>8. VariantShape'
  BY <1>1, <1>3, <1>6, <1>7, StepShape
<1>9. VariantCounts' /\ VariantFlag'
  BY <1>1, <1>3, Zenon DEF VariantCounts, VariantFlag
<1>10. Placed(r)'
  BY <1>1, <1>2, <1>3, <1>7 DEF RunHolds, Placed
<1>11. LetsGoOf(r)'
  BY <1>7 DEF LetsGoOf, HasDetached
<1>12. Alone(r)' => Progress(r)'
  BY <1>1, <1>2, <1>6, <1>7 DEF RunHolds, Progress, Wrote
<1>13. QED
  BY <1>2, <1>3, <1>6, <1>7, <1>8, <1>9, <1>10, <1>11, <1>12, RunGoesOn DEF RunHolds, SyncAt, Wrote

LEMMA UpsertsChildrenKeeps ==
  ASSUME VariantIInv, NEW r \in VariantRuns, UpsertsChildren(r)
  PROVE  VariantIInv'
<1>1. VariantShape /\ VariantCounts /\ VariantFlag /\ RunHolds(r)
  BY DEF VariantIInv
<1> DEFINE F == [p \in Articles |-> IF p \in Mine(r) THEN shopFamily.options[p] \cup {Wants(r)[p]} ELSE shopFamily.options[p]]
           C == shopFamily.children \cup Mine(r)
<1>2. /\ shopFamily' = [shopFamily EXCEPT !.children = C, !.options = F]
      /\ SyncGoesTo(r, "settings") /\ syncs[r].at = "children"
  BY DEF UpsertsChildren, Mine, SyncAt
<1>3. /\ synced' = synced /\ forgotten' = forgotten /\ reached' = reached /\ listed' = listed /\ option' = option
      /\ axis' = axis /\ familyEdits' = familyEdits /\ familyFaults' = familyFaults
  BY DEF UpsertsChildren
<1>4. F \in [Articles -> SUBSET Options] /\ C \subseteq Articles
  <2>1. \A p \in Mine(r) : Wants(r)[p] \in Options
    BY <1>1, RunTyped, ResolutionFacts DEF Mine
  <2>2. shopFamily.options \in [Articles -> SUBSET Options]
    BY <1>1, ShopTyped
  <2>3. F \in [Articles -> SUBSET Options]
    BY <2>1, <2>2
  <2>4. C \subseteq Articles
    BY <1>1, ShopTyped, RunTyped
  <2>5. QED
    BY <2>3, <2>4
<1>5. /\ \A p \in Articles : p \in Mine(r) \/ F[p] = shopFamily.options[p]
      /\ \A p \in Mine(r) : F[p] = shopFamily.options[p] \cup {Wants(r)[p]}
  BY <1>1, RunTyped
<1>50. Mine(r) \subseteq C /\ \A p \in C : p \in shopFamily.children \/ p \in Mine(r)
  OBVIOUS
<1> HIDE DEF F, C
<1>6. /\ shopFamily' \in FamilyRecords /\ shopFamily'.options = F
      /\ shopFamily'.children = C /\ shopFamily'.settings = shopFamily.settings
  BY <1>1, <1>2, <1>4 DEF VariantShape, FamilyRecords
<1>7. /\ syncs' \in [VariantRuns -> SyncRecords] /\ syncs'[r].at = "settings"
      /\ Wants(r)' = Wants(r) /\ Mine(r)' = Mine(r) /\ (Alone(r)' <=> Alone(r))
      /\ \A o \in VariantRuns \ {r} : syncs'[o] = syncs[o]
  BY <1>1, <1>2, WentTo DEF SyncSteps
<1>8. VariantShape'
  BY <1>1, <1>3, <1>6, <1>7, StepShape
<1>9. VariantCounts' /\ VariantFlag'
  BY <1>1, <1>3, Zenon DEF VariantCounts, VariantFlag
<1>10. Placed(r)'
  BY <1>1, <1>2, <1>3, <1>7 DEF RunHolds, Placed
<1>11. LetsGoOf(r)'
  BY <1>7 DEF LetsGoOf, HasDetached
<1>12. Alone(r)' => Progress(r)'
  <2>1. ASSUME Alone(r) PROVE Settled(Wants(r))'
    <3>1. \A p \in Mine(r) : shopFamily.options[p] \subseteq {Wants(r)[p]}
      BY <1>1, <1>2, <2>1 DEF RunHolds, Progress
    <3>2. \A p \in Mine(r) : F[p] = {Wants(r)[p]}
      BY <1>5, <3>1
    <3>3. QED
      BY <1>6, <1>7, <1>50, <3>2 DEF Settled, Mine
  <2>2. QED
    BY <1>7, <2>1 DEF Progress
<1>13. /\ \A p \in Articles : p \in shopFamily'.children => p \in shopFamily.children \/ (p \in Mine(r) /\ Wrote(r)')
       /\ \A p \in Articles : \/ shopFamily'.options[p] \subseteq shopFamily.options[p]
                              \/ p \in Mine(r) /\ Wrote(r)'
  BY <1>5, <1>6, <1>7, <1>50 DEF Wrote
<1>14. QED
  BY <1>2, <1>3, <1>7, <1>8, <1>9, <1>10, <1>11, <1>12, <1>13, RunGoesOn DEF RunHolds, SyncAt, Wrote

(* The steps that touch no child and no option.                              *)
LEMMA SettingsStep ==
  ASSUME VariantIInv, NEW r \in VariantRuns, NEW s \in SyncSteps, NEW G \in SUBSET Options,
         syncs[r].at \in {"settings", "stale settings", "configure"}, Wrote(r)',
         shopFamily' = [shopFamily EXCEPT !.settings = G],
         syncs' \in [VariantRuns -> SyncRecords], syncs'[r].at = s, s # "detach",
         Wants(r)' = Wants(r), Alone(r)' <=> Alone(r),
         \A o \in VariantRuns \ {r} : syncs'[o] = syncs[o],
         HasDetached(r)' => HasDetached(r),
         synced' = synced, forgotten' = forgotten, reached' = reached, listed' = listed, option' = option,
         axis' = axis, familyEdits' = familyEdits, familyFaults' = familyFaults,
         s = "settings" => Mine(r) # {},
         Alone(r) => Progress(r)'
  PROVE  VariantIInv'
<1>1. VariantShape /\ VariantCounts /\ VariantFlag /\ RunHolds(r)
  BY DEF VariantIInv
<1>2. /\ shopFamily' \in FamilyRecords /\ shopFamily'.options = shopFamily.options
      /\ shopFamily'.children = shopFamily.children
  BY <1>1, ShopChanged
<1>3. VariantShape'
  BY <1>1, <1>2, StepShape
<1>4. VariantCounts' /\ VariantFlag'
  BY <1>1, Zenon DEF VariantCounts, VariantFlag
<1>5. Mine(r)' = Mine(r)
  BY DEF Mine
<1>6. Placed(r)'
  BY <1>1, <1>5 DEF RunHolds, Placed, Wrote
<1>7. \A p : /\ Excused(r, p)' <=> Excused(r, p)
             /\ Marked(p)' <=> Marked(p)
  <2>1. ASSUME NEW o \in VariantRuns, o # r PROVE (Wrote(o)' <=> Wrote(o)) /\ Mine(o)' = Mine(o)
    BY <2>1, Zenon DEF Wrote, Mine, Wants
  <2>2. \A p : OtherWrote(r, p)' <=> OtherWrote(r, p)
    BY <2>1 DEF OtherWrote
  <2>3. QED
    BY <1>2, <2>2 DEF Excused, Marked
<1>8. LetsGoOf(r)'
  BY <1>1, <1>5, <1>7 DEF RunHolds, LetsGoOf
<1>9. QED
  BY <1>1, <1>2, <1>3, <1>4, <1>6, <1>8, RunGoesOn DEF RunHolds, SyncAt, Wrote

LEMMA UpsertsSettingsKeeps ==
  ASSUME VariantIInv, NEW r \in VariantRuns, UpsertsSettings(r)
  PROVE  VariantIInv'
<1>1. VariantShape /\ RunHolds(r)
  BY DEF VariantIInv
<1> DEFINE G == shopFamily.settings \cup UsedBy(Wants(r))
<1>2. /\ shopFamily' = [shopFamily EXCEPT !.settings = G]
      /\ SyncGoesTo(r, "stale settings") /\ syncs[r].at = "settings"
  BY DEF UpsertsSettings, SyncAt
<1>3. /\ synced' = synced /\ forgotten' = forgotten /\ reached' = reached /\ listed' = listed /\ option' = option
      /\ axis' = axis /\ familyEdits' = familyEdits /\ familyFaults' = familyFaults
  BY DEF UpsertsSettings
<1>4. /\ G \subseteq Options /\ UsedBy(Wants(r)) \subseteq G
  BY <1>1, RunTyped, ShopTyped, ResolutionFacts
<1> HIDE DEF G
<1>5. /\ shopFamily'.options = shopFamily.options /\ shopFamily'.children = shopFamily.children
      /\ shopFamily'.settings = G
  BY <1>1, <1>2, <1>4, ShopChanged
<1>6. /\ syncs' \in [VariantRuns -> SyncRecords] /\ syncs'[r].at = "stale settings"
      /\ Wants(r)' = Wants(r) /\ Mine(r)' = Mine(r) /\ (Alone(r)' <=> Alone(r))
      /\ \A o \in VariantRuns \ {r} : syncs'[o] = syncs[o]
  BY <1>1, <1>2, WentTo DEF SyncSteps
<1>7. Wants(r) # NoVariants
  BY <1>1, <1>2, ResolutionFacts DEF RunHolds, Placed, Mine
<1>8. Alone(r) => Progress(r)'
  <2>1. ASSUME Alone(r) PROVE Settled(Wants(r))'
    BY <1>1, <1>2, <1>5, <1>6, <2>1 DEF RunHolds, Progress, Wrote, Settled
  <2>2. QED
    BY <1>4, <1>5, <1>6, <2>1 DEF Progress
<1>9. Wrote(r)' /\ ~HasDetached(r)'
  BY <1>6, <1>7 DEF Wrote, HasDetached
<1>10. "stale settings" \in SyncSteps
  BY DEF SyncSteps
<1>11. QED
  BY <1>2, <1>3, <1>4, <1>6, <1>8, <1>9, <1>10, SettingsStep

LEMMA RemovesSettingKeeps ==
  ASSUME VariantIInv, NEW r \in VariantRuns, RemovesSetting(r)
  PROVE  VariantIInv'
<1>1. VariantShape /\ RunHolds(r)
  BY DEF VariantIInv
<1>2. syncs[r].at = "stale settings"
  BY DEF RemovesSetting, SyncAt
<1>3. /\ synced' = synced /\ forgotten' = forgotten /\ reached' = reached /\ listed' = listed /\ option' = option
      /\ axis' = axis /\ familyEdits' = familyEdits /\ familyFaults' = familyFaults
  BY DEF RemovesSetting
<1>4. shopFamily.settings \subseteq Options /\ {"stale settings", "configure"} \subseteq SyncSteps
  BY <1>1, ShopTyped DEF SyncSteps
<1>5. CASE shopFamily.settings \ UsedBy(Wants(r)) = {} /\ SyncGoesTo(r, "configure") /\ shopFamily' = shopFamily
  <2>1. shopFamily' = [shopFamily EXCEPT !.settings = shopFamily.settings]
    BY <1>1, <1>5 DEF VariantShape, FamilyRecords
  <2>2. /\ syncs' \in [VariantRuns -> SyncRecords] /\ syncs'[r].at = "configure"
        /\ Wants(r)' = Wants(r) /\ Mine(r)' = Mine(r) /\ (Alone(r)' <=> Alone(r))
        /\ \A o \in VariantRuns \ {r} : syncs'[o] = syncs[o]
    BY <1>1, <1>4, <1>5, WentTo
  <2>3. Alone(r) => Progress(r)'
    <3>1. ASSUME Alone(r) PROVE Settled(Wants(r))' /\ shopFamily'.settings = UsedBy(Wants(r)')
      BY <1>1, <1>2, <1>5, <2>2, <3>1 DEF RunHolds, Progress, Wrote, Settled
    <3>2. QED
      BY <2>2, <3>1 DEF Progress
  <2>4. Wrote(r)' /\ (HasDetached(r)' => HasDetached(r))
    BY <1>2, <2>2 DEF Wrote, HasDetached
  <2>5. QED
    BY <1>2, <1>3, <1>4, <2>1, <2>2, <2>3, <2>4, SettingsStep
<1>6. ASSUME NEW o \in shopFamily.settings \ UsedBy(Wants(r)), syncs' = syncs,
             shopFamily' = [shopFamily EXCEPT !.settings = shopFamily.settings \ {o}]
      PROVE  VariantIInv'
  <2>1. /\ shopFamily'.options = shopFamily.options /\ shopFamily'.children = shopFamily.children
        /\ shopFamily'.settings = shopFamily.settings \ {o} /\ shopFamily.settings \ {o} \subseteq Options
    BY <1>1, <1>4, <1>6, ShopChanged
  <2>2. /\ syncs' \in [VariantRuns -> SyncRecords] /\ syncs'[r].at = "stale settings"
        /\ \A q \in VariantRuns \ {r} : syncs'[q] = syncs[q]
    BY <1>1, <1>2, <1>6 DEF VariantShape
  <2>3. /\ Wants(r)' = Wants(r) /\ Mine(r)' = Mine(r) /\ (Alone(r)' <=> Alone(r))
        /\ (Wrote(r)' <=> Wrote(r)) /\ (HasDetached(r)' <=> HasDetached(r))
    BY <1>6, Zenon DEF Wants, Mine, Alone, Wrote, HasDetached
  <2>4. Alone(r) => Progress(r)'
    <3>1. ASSUME Alone(r) PROVE Settled(Wants(r))' /\ UsedBy(Wants(r)') \subseteq shopFamily'.settings
      BY <1>1, <1>2, <1>6, <2>1, <2>3, <3>1 DEF RunHolds, Progress, Wrote, Settled
    <3>2. QED
      BY <2>2, <3>1 DEF Progress
  <2>5. Wrote(r)'
    BY <2>2 DEF Wrote
  <2>6. QED
    BY <1>2, <1>3, <1>4, <1>6, <2>1, <2>2, <2>3, <2>4, <2>5, SettingsStep
<1>7. QED
  BY <1>5, <1>6 DEF RemovesSetting

LEMMA ConfiguresKeeps ==
  ASSUME VariantIInv, NEW r \in VariantRuns, Configures(r)
  PROVE  VariantIInv'
<1>1. VariantShape /\ RunHolds(r)
  BY DEF VariantIInv
<1> DEFINE s == IF Wants(r) = NoVariants THEN "remember" ELSE "release"
<1>2. SyncGoesTo(r, s) /\ syncs[r].at = "configure" /\ shopFamily' = shopFamily
  BY DEF Configures, SyncAt
<1>3. /\ synced' = synced /\ forgotten' = forgotten /\ reached' = reached /\ listed' = listed /\ option' = option
      /\ axis' = axis /\ familyEdits' = familyEdits /\ familyFaults' = familyFaults
  BY DEF Configures
<1>4. s \in SyncSteps /\ s \in {"remember", "release"} /\ (s = "remember" => Wants(r) = NoVariants)
  BY DEF SyncSteps
<1> HIDE DEF s
<1>5. shopFamily.settings \in SUBSET Options
  BY <1>1, ShopTyped
<1>6. shopFamily' = [shopFamily EXCEPT !.settings = shopFamily.settings]
  BY <1>1, <1>2 DEF VariantShape, FamilyRecords
<1>7. /\ syncs' \in [VariantRuns -> SyncRecords] /\ syncs'[r].at = s
      /\ Wants(r)' = Wants(r) /\ Mine(r)' = Mine(r) /\ (Alone(r)' <=> Alone(r))
      /\ \A o \in VariantRuns \ {r} : syncs'[o] = syncs[o]
  BY <1>1, <1>2, <1>4, WentTo
<1>8. Alone(r) => Progress(r)'
  <2>1. ASSUME Alone(r) PROVE Settled(Wants(r))' /\ shopFamily'.settings = UsedBy(Wants(r)')
    BY <1>1, <1>2, <1>7, <2>1 DEF RunHolds, Progress, Wrote, Settled
  <2>2. QED
    BY <1>4, <1>7, <2>1 DEF Progress
<1>9. Wrote(r)' /\ (HasDetached(r)' => HasDetached(r))
  BY <1>2, <1>4, <1>7 DEF Wrote, HasDetached
<1>10. QED
  BY <1>2, <1>3, <1>4, <1>5, <1>6, <1>7, <1>8, <1>9, SettingsStep

(* The memory is read here: everybody in it who is no variant any more leaves. *)
LEMMA ReleasesOptionsKeeps ==
  ASSUME VariantIInv, NEW r \in VariantRuns, ReleasesOptions(r)
  PROVE  VariantIInv'
<1>1. VariantShape /\ VariantCounts /\ VariantFlag /\ RunHolds(r)
  BY DEF VariantIInv
<1> DEFINE F == [p \in Articles |-> IF p \in Leavers(r) THEN {} ELSE shopFamily.options[p]]
<1>2. /\ shopFamily' = [shopFamily EXCEPT !.options = F] /\ syncs[r].at = "release"
      /\ syncs' = [syncs EXCEPT ![r].at = "detach", ![r].leaves = Leavers(r)]
  BY DEF ReleasesOptions, SyncAt
<1>3. /\ synced' = synced /\ forgotten' = forgotten /\ reached' = reached /\ listed' = listed /\ option' = option
      /\ axis' = axis /\ familyEdits' = familyEdits /\ familyFaults' = familyFaults
  BY DEF ReleasesOptions
<1>4. Leavers(r) = synced \ Mine(r) /\ Leavers(r) \in SUBSET Articles /\ "detach" \in SyncSteps
  BY <1>1 DEF Leavers, VariantShape, Mine, SyncSteps
<1>5. F \in [Articles -> SUBSET Options]
  BY <1>1, ShopTyped
<1>6. /\ \A p \in Articles : F[p] \subseteq shopFamily.options[p] /\ (p \in Leavers(r) => F[p] = {})
      /\ \A p \in Mine(r) : F[p] = shopFamily.options[p]
  BY <1>1, <1>4, RunTyped
<1> HIDE DEF F
<1>7. /\ shopFamily' \in FamilyRecords /\ shopFamily'.options = F
      /\ shopFamily'.children = shopFamily.children /\ shopFamily'.settings = shopFamily.settings
  BY <1>1, <1>2, <1>5, ShopChanged
<1>8. syncs' = [syncs EXCEPT ![r] = [syncs[r] EXCEPT !.at = "detach", !.leaves = Leavers(r)]]
  BY <1>1, <1>2 DEF VariantShape, SyncRecords
<1>9. /\ syncs' \in [VariantRuns -> SyncRecords] /\ syncs'[r].at = "detach" /\ syncs'[r].leaves = Leavers(r)
      /\ Wants(r)' = Wants(r) /\ Mine(r)' = Mine(r) /\ (Alone(r)' <=> Alone(r))
      /\ \A o \in VariantRuns \ {r} : syncs'[o] = syncs[o]
  BY <1>1, <1>4, <1>8, Went
<1>10. VariantShape'
  BY <1>1, <1>3, <1>7, <1>9, StepShape
<1>11. VariantCounts' /\ VariantFlag'
  BY <1>1, <1>3, Zenon DEF VariantCounts, VariantFlag
<1>12. Placed(r)'
  BY <1>1, <1>2, <1>3, <1>4, <1>9 DEF RunHolds, Placed
<1>13. LetsGoOf(r)'
  BY <1>3, <1>4, <1>6, <1>7, <1>9 DEF LetsGoOf, HasDetached
<1>14. Alone(r) => Progress(r)'
  <2>1. ASSUME Alone(r)
        PROVE  /\ Settled(Wants(r))'
               /\ Wants(r)' # NoVariants => shopFamily'.settings = UsedBy(Wants(r)')
    <3>1. Progress(r) /\ Wrote(r)
      BY <1>1, <1>2, <2>1 DEF RunHolds, Wrote
    <3>2. Settled(Wants(r))'
      BY <1>6, <1>7, <1>9, <3>1 DEF Progress, Settled, Mine
    <3>3. QED
      BY <1>2, <1>7, <1>9, <3>1, <3>2 DEF Progress
  <2>2. QED
    BY <1>9, <2>1 DEF Progress
<1>15. QED
  BY <1>2, <1>3, <1>6, <1>7, <1>9, <1>10, <1>11, <1>12, <1>13, <1>14, RunGoesOn DEF RunHolds, SyncAt, Wrote

LEMMA DetachesKeeps ==
  ASSUME VariantIInv, NEW r \in VariantRuns, Detaches(r)
  PROVE  VariantIInv'
<1>1. VariantShape /\ VariantCounts /\ VariantFlag /\ RunHolds(r)
  BY DEF VariantIInv
<1> DEFINE s == IF Wants(r) = NoVariants THEN "stale settings" ELSE "remember"
           C == shopFamily.children \ syncs[r].leaves
<1>2. /\ shopFamily' = [shopFamily EXCEPT !.children = C] /\ syncs[r].at = "detach"
      /\ syncs' = [syncs EXCEPT ![r].leaves = {}, ![r].at = s]
  BY DEF Detaches, SyncAt
<1>3. /\ synced' = synced /\ forgotten' = forgotten /\ reached' = reached /\ listed' = listed /\ option' = option
      /\ axis' = axis /\ familyEdits' = familyEdits /\ familyFaults' = familyFaults
  BY DEF Detaches
<1>4. s \in SyncSteps /\ s \in {"stale settings", "remember"} /\ (s = "stale settings" <=> Wants(r) = NoVariants)
  BY DEF SyncSteps
<1>5. C \in SUBSET Articles
  BY <1>1, ShopTyped
<1> HIDE DEF s
<1>6. /\ shopFamily' \in FamilyRecords /\ shopFamily'.options = shopFamily.options
      /\ shopFamily'.children = C /\ shopFamily'.settings = shopFamily.settings
  BY <1>1, <1>2, <1>5, ShopChanged
<1>7. syncs' = [syncs EXCEPT ![r] = [syncs[r] EXCEPT !.at = s, !.leaves = {}]]
  BY <1>1, <1>2 DEF VariantShape, SyncRecords
<1>8. /\ syncs' \in [VariantRuns -> SyncRecords] /\ syncs'[r].at = s
      /\ Wants(r)' = Wants(r) /\ Mine(r)' = Mine(r) /\ (Alone(r)' <=> Alone(r))
      /\ \A o \in VariantRuns \ {r} : syncs'[o] = syncs[o]
  <2>1. {} \in SUBSET Articles
    OBVIOUS
  <2>2. QED
    BY <1>1, <1>4, <1>7, <2>1, Went
<1>9. VariantShape'
  BY <1>1, <1>3, <1>6, <1>8, StepShape
<1>10. VariantCounts' /\ VariantFlag'
  BY <1>1, <1>3, Zenon DEF VariantCounts, VariantFlag
<1>11. Placed(r)'
  BY <1>1, <1>2, <1>3, <1>4, <1>8 DEF RunHolds, Placed
<1>12. LetsGoOf(r)'
  <2>1. ASSUME NEW p \in synced \ Mine(r) PROVE Excused(r, p)' \/ ~Marked(p)'
    <3>1. Excused(r, p) \/ (p \in syncs[r].leaves /\ shopFamily.options[p] = {})
      BY <1>1, <1>2, <2>1 DEF RunHolds, LetsGoOf
    <3>2. ASSUME NEW o \in VariantRuns, o # r PROVE (Wrote(o)' <=> Wrote(o)) /\ Mine(o)' = Mine(o)
      BY <1>8, <3>2, Zenon DEF Wrote, Mine, Wants
    <3>3. OtherWrote(r, p) => OtherWrote(r, p)'
      BY <3>2 DEF OtherWrote
    <3>4. Excused(r, p) => Excused(r, p)'
      BY <1>3, <1>8, <3>3 DEF Excused
    <3>5. QED
      BY <1>6, <3>1, <3>4 DEF Marked
  <2>2. QED
    BY <1>3, <1>4, <1>8, <2>1 DEF LetsGoOf
<1>13. Alone(r) => Progress(r)'
  <2>1. ASSUME Alone(r)
        PROVE  /\ Settled(Wants(r))'
               /\ Wants(r)' # NoVariants => shopFamily'.settings = UsedBy(Wants(r)')
    <3>1. Progress(r) /\ Wrote(r) /\ syncs[r].leaves \cap Mine(r) = {}
      BY <1>1, <1>2, <2>1 DEF RunHolds, Wrote, Placed
    <3>2. Settled(Wants(r))'
      BY <1>6, <1>8, <3>1 DEF Progress, Settled, Mine
    <3>3. QED
      BY <1>2, <1>6, <1>8, <3>1, <3>2 DEF Progress
  <2>2. CASE s = "remember"
    BY <1>4, <1>8, <2>1, <2>2 DEF Progress
  <2>3. CASE s = "stale settings"
    BY <1>4, <1>8, <2>1, <2>3, ResolutionFacts DEF Progress
  <2>4. QED
    BY <1>4, <2>2, <2>3
<1>14. Wrote(r)'
  BY <1>4, <1>8 DEF Wrote
<1>15. QED
  BY <1>2, <1>3, <1>6, <1>8, <1>9, <1>10, <1>11, <1>12, <1>13, <1>14, RunGoesOn DEF RunHolds, SyncAt, Wrote

(* A run that stops for whatever reason leaves its mark, but nothing unknown.  *)
LEMMA RunIsGone ==
  ASSUME VariantIInv, NEW r \in VariantRuns, ~SyncAt(r, "off"),
         syncs' = [syncs EXCEPT ![r] = NoSync],
         VariantCounts', axis' = axis, option' = option, listed' = listed, shopFamily' = shopFamily,
         forgotten \subseteq forgotten', forgotten' \subseteq Articles, synced' \subseteq listed,
         \A p \in synced' : p \in synced \/ p \in forgotten',
         \A p \in Articles : Marked(p) /\ p \in synced => p \in synced' \/ p \in forgotten' \/ OtherWrote(r, p),
         Wrote(r) => Mine(r) \subseteq forgotten',
         reached' = reached
  PROVE  VariantIInv'
<1>1. VariantShape /\ VariantFlag
  BY DEF VariantIInv
<1>2. /\ syncs' \in [VariantRuns -> SyncRecords] /\ syncs'[r] = NoSync
      /\ \A o \in VariantRuns \ {r} : syncs'[o] = syncs[o]
  BY <1>1, NoSyncFacts DEF VariantShape
<1>3. VariantShape'
  BY <1>1, <1>2 DEF VariantShape
<1>4. VariantFlag'
  BY <1>1, Zenon DEF VariantFlag
<1>5. syncs'[r].at = "off"
  BY <1>2, NoSyncFacts
<1>6. ASSUME NEW o \in VariantRuns, o # r
      PROVE  /\ Wants(o)' = Wants(o) /\ Mine(o)' = Mine(o) /\ (Alone(o)' <=> Alone(o)) /\ (Wrote(o)' <=> Wrote(o))
             /\ (HasDetached(o)' <=> HasDetached(o)) /\ syncs'[o] = syncs[o]
  BY <1>2, <1>6, Zenon DEF Wants, Mine, Alone, Wrote, HasDetached
<1>7. AloneIsAlone'
  BY <1>5, <1>6, Zenon DEF VariantIInv, AloneIsAlone, SyncAt
<1>8. reached = {}
  BY DEF VariantIInv, ReachedHolds
<1>9. \A p : Marked(p)' <=> Marked(p)
  BY Zenon DEF Marked
<1>10. ASSUME NEW p \in Articles, Marked(p)'
       PROVE  p \in synced' \/ p \in forgotten' \/ \E o \in VariantRuns : Wrote(o)' /\ p \in Mine(o)'
  <2>1. ASSUME NEW o \in VariantRuns, o # r, Wrote(o), p \in Mine(o)
        PROVE  \E q \in VariantRuns : Wrote(q)' /\ p \in Mine(q)'
    BY <1>6, <2>1
  <2>2. p \in synced \/ p \in forgotten \/ \E o \in VariantRuns : Wrote(o) /\ p \in Mine(o)
    BY <1>9, <1>10 DEF VariantIInv, MarksAreKnown
  <2>3. CASE p \in synced
    BY <1>9, <1>10, <2>1, <2>3 DEF OtherWrote
  <2>4. CASE \E o \in VariantRuns : Wrote(o) /\ p \in Mine(o)
    BY <2>1, <2>4
  <2>5. QED
    BY <2>2, <2>3, <2>4
<1>11. MarksAreKnown'
  BY <1>10 DEF MarksAreKnown
<1>12. ASSUME NEW o \in VariantRuns PROVE RunHolds(o)'
  <2>1. CASE o = r
    BY <1>5, <2>1 DEF RunHolds, Placed, LetsGoOf, HasDetached, Progress, Wrote
  <2>2. CASE o # r /\ SyncAt(o, "off")
    <3>1. syncs'[o].at = "off"
      BY <1>6, <2>2 DEF SyncAt
    <3>2. QED
      BY <3>1 DEF RunHolds, Placed, LetsGoOf, HasDetached, Progress, Wrote
  <2>3. CASE o # r /\ ~SyncAt(o, "off")
    <3>1. ~Alone(o)
      BY <2>3 DEF VariantIInv, AloneIsAlone
    <3>2. ~Alone(o)'
      BY <1>6, <2>3, <3>1
    <3>3. RunHolds(o)
      BY DEF VariantIInv
    <3>4. Placed(o)'
      BY <1>6, <2>3, <3>3, Zenon DEF RunHolds, Placed
    <3>5. ASSUME NEW p, Excused(o, p) PROVE Excused(o, p)'
      <4>1. CASE p \in forgotten
        BY <3>2, <4>1 DEF Excused
      <4>2. ASSUME NEW q \in VariantRuns \ {o}, Wrote(q), p \in Mine(q) PROVE Excused(o, p)'
        <5>1. CASE q = r
          BY <3>2, <4>2, <5>1 DEF Excused
        <5>2. CASE q # r
          BY <1>6, <3>2, <4>2, <5>2 DEF Excused, OtherWrote
        <5>3. QED
          BY <5>1, <5>2
      <4>3. QED
        BY <3>5, <4>1, <4>2 DEF Excused, OtherWrote
    <3>6. ASSUME NEW p \in forgotten' PROVE Excused(o, p)'
      BY <3>2 DEF Excused
    <3>7. ASSUME syncs'[o].at = "detach", NEW p \in synced' \ Mine(o)'
          PROVE  Excused(o, p)' \/ (p \in syncs'[o].leaves /\ shopFamily'.options[p] = {})
      <4>1. CASE p \in synced
        <5>1. Excused(o, p) \/ (p \in syncs[o].leaves /\ shopFamily.options[p] = {})
          BY <1>6, <2>3, <3>3, <3>7, <4>1 DEF RunHolds, LetsGoOf
        <5>2. QED
          BY <1>6, <2>3, <3>5, <5>1
      <4>2. CASE p \in forgotten'
        BY <3>6, <4>2
      <4>3. QED
        BY <4>1, <4>2
    <3>8. ASSUME HasDetached(o)', NEW p \in synced' \ Mine(o)'
          PROVE  Excused(o, p)' \/ ~Marked(p)'
      <4>1. CASE p \in synced
        <5>1. Excused(o, p) \/ ~Marked(p)
          BY <1>6, <2>3, <3>3, <3>8, <4>1 DEF RunHolds, LetsGoOf
        <5>2. QED
          BY <1>9, <3>5, <5>1
      <4>2. CASE p \in forgotten'
        BY <3>6, <4>2
      <4>3. QED
        BY <4>1, <4>2
    <3>9. LetsGoOf(o)'
      BY <3>7, <3>8 DEF LetsGoOf
    <3>10. QED
      BY <3>2, <3>4, <3>9 DEF RunHolds
  <2>4. QED
    BY <2>1, <2>2, <2>3
<1>13. ReachedHolds'
  BY <1>8 DEF ReachedHolds
<1>14. QED
  BY <1>3, <1>4, <1>7, <1>11, <1>12, <1>13 DEF VariantIInv

LEMMA RunFailsKeeps ==
  ASSUME VariantIInv, NEW r \in VariantRuns,
         \/ SyncBreaks(r)
         \/ RemovesOptions(r) /\ ~(Mine(r) \subseteq listed)
  PROVE  VariantIInv'
<1>1. VariantShape /\ VariantCounts
  BY DEF VariantIInv
<1>2. /\ ~SyncAt(r, "off") /\ syncs' = [syncs EXCEPT ![r] = NoSync] /\ shopFamily' = shopFamily
      /\ option' = option /\ axis' = axis /\ listed' = listed /\ synced' = synced /\ reached' = reached
      /\ familyEdits' = familyEdits
  BY DEF SyncBreaks, RemovesOptions, Mine, SyncAt
<1>3. VariantCounts'
  BY <1>1, FamilyBounds DEF VariantCounts, SyncBreaks, RemovesOptions
<1>4. /\ forgotten \subseteq forgotten' /\ forgotten' \subseteq Articles
      /\ Wrote(r) => Mine(r) \subseteq forgotten'
  <2>1. CASE SyncBreaks(r)
    <3>1. Mine(r) \subseteq Articles /\ forgotten \subseteq Articles
      BY <1>1, RunTyped DEF VariantShape
    <3>2. forgotten' = forgotten \cup Mine(r) \/ (forgotten' = forgotten /\ ~Wrote(r))
      BY <2>1 DEF SyncBreaks, Mine, Wrote, SyncAt
    <3>3. QED
      BY <3>1, <3>2
  <2>2. CASE RemovesOptions(r)
    BY <1>1, <2>2 DEF RemovesOptions, SyncAt, Wrote, VariantShape
  <2>3. QED
    BY <2>1, <2>2
<1>5. synced \subseteq listed
  BY <1>1 DEF VariantShape
<1>6. QED
  BY <1>2, <1>3, <1>4, <1>5, RunIsGone

(* The family's memory is written: after a run that was not alone nobody knows  *)
(* who else is in it.                                                        *)
LEMMA RemembersKeeps ==
  ASSUME VariantIInv, NEW r \in VariantRuns, Remembers(r)
  PROVE  VariantIInv'
<1>1. VariantShape /\ VariantCounts /\ VariantFlag /\ RunHolds(r)
  BY DEF VariantIInv
<1>2. /\ syncs[r].at = "remember" /\ synced' = Mine(r) /\ syncs' = [syncs EXCEPT ![r] = NoSync]
      /\ option' = option /\ axis' = axis /\ listed' = listed /\ shopFamily' = shopFamily
      /\ familyEdits' = familyEdits /\ familyFaults' = familyFaults
  BY DEF Remembers, Mine, SyncAt
<1>3. Mine(r) \subseteq listed /\ Mine(r) \subseteq Articles /\ forgotten \subseteq Articles /\ synced \subseteq Articles
  BY <1>1, <1>2, RunTyped DEF RunHolds, Placed, VariantShape
<1>4. VariantCounts' /\ VariantFlag'
  BY <1>1, <1>2, Zenon DEF VariantCounts, VariantFlag
<1>5. HasDetached(r) /\ Wrote(r) /\ ~SyncAt(r, "off")
  BY <1>2 DEF HasDetached, Wrote, SyncAt
<1>6. CASE ~Alone(r)
  <2>1. forgotten' = forgotten \cup synced' /\ reached' = reached
    BY <1>6 DEF Remembers, Alone
  <2>2. ASSUME NEW p \in Articles, Marked(p), p \in synced
        PROVE  p \in synced' \/ p \in forgotten' \/ OtherWrote(r, p)
    BY <1>1, <1>2, <1>5, <2>1, <2>2 DEF RunHolds, LetsGoOf, Excused
  <2>3. QED
    BY <1>2, <1>3, <1>4, <1>5, <2>1, <2>2, RunIsGone
<1>7. CASE Alone(r)
  <2>1. reached' = {Wants(r)} /\ forgotten' = forgotten \ (synced \cup synced')
    BY <1>7 DEF Remembers, Alone
  <2>2. /\ syncs' \in [VariantRuns -> SyncRecords] /\ syncs'[r] = NoSync
        /\ \A o \in VariantRuns \ {r} : syncs'[o] = syncs[o]
    BY <1>1, <1>2, NoSyncFacts DEF VariantShape
  <2>3. \A o \in VariantRuns : syncs'[o].at = "off"
    <3>1. \A o \in VariantRuns \ {r} : syncs[o].at = "off"
      BY <1>5, <1>7 DEF VariantIInv, AloneIsAlone, SyncAt
    <3>2. QED
      BY <2>2, <3>1, NoSyncFacts
  <2>4. VariantShape'
    BY <1>1, <1>2, <1>3, <2>1, <2>2, RunTyped DEF VariantShape
  <2>5. ASSUME NEW p \in Articles, Marked(p) PROVE p \in Mine(r) \/ p \in forgotten \ synced
    <3>1. ~ \E o \in VariantRuns \ {r} : Wrote(o)
      BY <1>5, <1>7 DEF VariantIInv, AloneIsAlone, SyncAt, Wrote
    <3>2. p \in synced \/ p \in forgotten \/ p \in Mine(r)
      BY <2>5, <3>1 DEF VariantIInv, MarksAreKnown
    <3>3. p \notin synced \ Mine(r)
      BY <1>1, <1>5, <1>7, <2>5 DEF RunHolds, LetsGoOf, Excused
    <3>4. QED
      BY <3>2, <3>3
  <2>6. MarksAreKnown'
    BY <1>2, <2>1, <2>5 DEF MarksAreKnown, Marked
  <2>7. \A o \in VariantRuns : RunHolds(o)'
    BY <2>3 DEF RunHolds, Placed, LetsGoOf, HasDetached, Progress, Wrote
  <2>8. AloneIsAlone'
    BY <2>3 DEF AloneIsAlone, SyncAt
  <2>9. ASSUME NEW w, w = Wants(r) PROVE Reaches(w)'
    <3>1. Settled(w) /\ shopFamily.settings = UsedBy(w)
      BY <1>1, <1>2, <1>5, <1>7, <2>9 DEF RunHolds, Progress
    <3>2. VariantsOf(w) = Mine(r)
      BY <2>9 DEF Mine
    <3>3. ASSUME NEW p \in Articles \ (VariantsOf(w) \cup forgotten') PROVE ~Marked(p)
      BY <1>2, <2>1, <2>5, <3>2
    <3>4. Settled(w)' /\ \A p : Marked(p)' <=> Marked(p)
      BY <1>2, <3>1, Zenon DEF Settled, Marked
    <3>5. QED
      BY <1>2, <3>1, <3>3, <3>4 DEF Reaches
  <2>10. ReachedHolds'
    BY <2>1, <2>3, <2>9 DEF ReachedHolds, SyncAt
  <2>11. QED
    BY <1>4, <2>4, <2>6, <2>7, <2>8, <2>10 DEF VariantIInv
<1>8. QED
  BY <1>6, <1>7

(* Whoever starts beside another makes both of them not alone.               *)
LEMMA StartsSyncKeeps ==
  ASSUME VariantIInv, NEW r \in VariantRuns, StartsSync(r)
  PROVE  VariantIInv'
<1>1. VariantShape /\ VariantCounts /\ VariantFlag
  BY DEF VariantIInv
<1> DEFINE others == {o \in VariantRuns : ~SyncAt(o, "off")}
           first == [at |-> IF axis THEN "options" ELSE "release",
                     wants |-> Wanted, leaves |-> {}, alone |-> others = {}]
<1>2. /\ syncs[r].at = "off" /\ reached' = {}
      /\ option' = option /\ axis' = axis /\ listed' = listed /\ shopFamily' = shopFamily
      /\ synced' = synced /\ forgotten' = forgotten
      /\ familyEdits' = familyEdits /\ familyFaults' = familyFaults
  BY DEF StartsSync, SyncAt
<1>3. syncs' = [o \in VariantRuns |-> IF o = r THEN first
                                       ELSE IF o \in others THEN [syncs[o] EXCEPT !.alone = FALSE] ELSE syncs[o]]
  BY <1>2, Zenon DEF StartsSync, SyncAt
<1>4. VariantCounts' /\ VariantFlag'
  BY <1>1, <1>2, Zenon DEF VariantCounts, VariantFlag
<1>5. Wanted \in Resolutions /\ (axis => VariantsOf(Wanted) # {}) /\ (~axis => Wanted = NoVariants)
  <2>1. axis => Resolvable(option)
    BY Zenon DEF StartsSync
  <2>2. CASE axis
    BY <1>1, <2>1, <2>2 DEF Wanted, Resolvable, VariantShape
  <2>3. CASE ~axis
    BY <2>3, ResolutionFacts DEF Wanted
  <2>4. QED
    BY <2>2, <2>3
<1>6. /\ first.wants = Wanted /\ first.leaves = {} /\ (first.at = "options" \/ first.at = "release")
      /\ (first.at = "options" => VariantsOf(Wanted) # {}) /\ (first.at = "release" => Wanted = NoVariants)
  <2>1. CASE axis
    BY <1>5, <2>1
  <2>2. CASE ~axis
    BY <1>5, <2>2
  <2>3. QED
    BY <2>1, <2>2
<1>7. (first.alone <=> others = {}) /\ first.alone \in BOOLEAN
  BY Zenon
<1>8. first \in SyncRecords
  <2>1. first = [at |-> first.at, wants |-> first.wants, leaves |-> first.leaves, alone |-> first.alone]
    OBVIOUS
  <2>2. first.at \in SyncSteps
    BY <1>6 DEF SyncSteps
  <2> HIDE DEF first
  <2>3. QED
    BY <1>5, <1>6, <1>7, <2>1, <2>2 DEF SyncRecords
<1> HIDE DEF first
<1>9. ASSUME NEW o \in VariantRuns, o # r
      PROVE  /\ syncs'[o] \in SyncRecords /\ syncs'[o].at = syncs[o].at /\ syncs'[o].wants = syncs[o].wants
             /\ syncs'[o].leaves = syncs[o].leaves
  <2>1. syncs[o] \in SyncRecords
    BY <1>1, RunTyped
  <2>2. syncs'[o] = [syncs[o] EXCEPT !.alone = FALSE] \/ syncs'[o] = syncs[o]
    BY <1>3, <1>9
  <2>3. QED
    BY <2>1, <2>2 DEF SyncRecords
<1>10. ASSUME NEW o \in VariantRuns, o # r, ~SyncAt(o, "off")
       PROVE  ~Alone(o)'
  <2>1. syncs'[o] = [syncs[o] EXCEPT !.alone = FALSE]
    BY <1>3, <1>10
  <2>2. syncs[o] \in SyncRecords
    BY <1>1, RunTyped
  <2>3. syncs'[o].alone = FALSE
    BY <2>1, <2>2 DEF SyncRecords
  <2>4. QED
    BY <2>3, Zenon DEF Alone
<1>11. syncs'[r] = first
  BY <1>3
<1>12. syncs' \in [VariantRuns -> SyncRecords]
  <2>1. syncs' = [o \in VariantRuns |-> syncs'[o]]
    BY <1>3
  <2>2. QED
    BY <1>8, <1>9, <1>11, <2>1
<1>13. VariantShape'
  BY <1>1, <1>2, <1>12 DEF VariantShape
<1>14. ASSUME NEW o \in VariantRuns, o # r
       PROVE  /\ Wants(o)' = Wants(o) /\ Mine(o)' = Mine(o) /\ (Wrote(o)' <=> Wrote(o))
              /\ (HasDetached(o)' <=> HasDetached(o)) /\ (SyncAt(o, "off")' <=> SyncAt(o, "off"))
  BY <1>9, <1>14, Zenon DEF Wants, Mine, Wrote, HasDetached, SyncAt
<1>15. Alone(r)' <=> others = {}
  BY <1>7, <1>11, Zenon DEF Alone
<1>16. AloneIsAlone'
  <2>1. ASSUME Alone(r)' PROVE \A o \in VariantRuns \ {r} : SyncAt(o, "off")'
    BY <1>14, <1>15, <2>1
  <2>2. ASSUME NEW o \in VariantRuns, o # r, ~SyncAt(o, "off")' PROVE ~Alone(o)'
    BY <1>10, <1>14, <2>2
  <2>3. QED
    BY <2>1, <2>2 DEF AloneIsAlone
<1>17. Wants(r)' = Wanted /\ Mine(r)' = VariantsOf(Wanted)
  BY <1>6, <1>11 DEF Wants, Mine
<1>18. ~Wrote(r) /\ (\A p : Marked(p)' <=> Marked(p))
  BY <1>2 DEF Wrote, Marked
<1>19. MarksAreKnown'
  <2>1. ASSUME NEW p, \E o \in VariantRuns : Wrote(o) /\ p \in Mine(o)
        PROVE  \E o \in VariantRuns : Wrote(o)' /\ p \in Mine(o)'
    BY <1>14, <1>18, <2>1
  <2>2. QED
    BY <1>2, <1>18, <2>1 DEF VariantIInv, MarksAreKnown
<1>20. RunHolds(r)'
  <2>1. Placed(r)'
    BY <1>6, <1>11, <1>17, ResolutionFacts DEF Placed
  <2>2. LetsGoOf(r)'
    BY <1>6, <1>11 DEF LetsGoOf, HasDetached
  <2>3. Progress(r)'
    BY <1>6, <1>11, <1>17, ResolutionFacts DEF Progress, Settled, Wrote
  <2>4. QED
    BY <2>1, <2>2, <2>3 DEF RunHolds
<1>21. ASSUME NEW o \in VariantRuns, o # r PROVE RunHolds(o)'
  <2>1. RunHolds(o)
    BY DEF VariantIInv
  <2>2. Placed(o)'
    BY <1>2, <1>9, <1>14, <1>21, <2>1, Zenon DEF RunHolds, Placed
  <2>3. CASE SyncAt(o, "off")
    <3>1. syncs'[o].at = "off"
      BY <1>9, <1>21, <2>3 DEF SyncAt
    <3>2. QED
      BY <3>1 DEF RunHolds, Placed, LetsGoOf, HasDetached, Progress, Wrote
  <2>4. CASE ~SyncAt(o, "off")
    <3>1. ~Alone(o)'
      BY <1>10, <1>21, <2>4
    <3>2. ASSUME NEW p, Excused(o, p) PROVE Excused(o, p)'
      <4>1. OtherWrote(o, p) => OtherWrote(o, p)'
        BY <1>14, <1>18 DEF OtherWrote
      <4>2. QED
        BY <1>2, <3>1, <3>2, <4>1 DEF Excused
    <3>3. LetsGoOf(o)'
      BY <1>2, <1>9, <1>14, <1>18, <1>21, <2>1, <3>2 DEF RunHolds, LetsGoOf
    <3>4. QED
      BY <2>2, <3>1, <3>3 DEF RunHolds
  <2>5. QED
    BY <2>3, <2>4
<1>22. ReachedHolds'
  BY <1>2 DEF ReachedHolds
<1>23. QED
  BY <1>4, <1>13, <1>16, <1>19, <1>20, <1>21, <1>22 DEF VariantIInv

(* Edits in Django, and articles that are new in Shopware.                    *)
LEMMA EditKeeps ==
  ASSUME VariantIInv, VariantShape', VariantCounts', VariantFlag', listed \subseteq listed',
         synced' = synced, shopFamily' = shopFamily, syncs' = syncs, reached' = reached, forgotten' = forgotten
  PROVE  VariantIInv'
<1>1. AloneIsAlone'
  BY Zenon DEF VariantIInv, AloneIsAlone, SyncAt, Alone
<1>2. MarksAreKnown'
  BY Zenon DEF VariantIInv, MarksAreKnown, Marked, Wrote, Mine, Wants
<1>3. ReachedHolds'
  BY Zenon DEF VariantIInv, ReachedHolds, Reaches, Settled, Marked, SyncAt
<1>4. ASSUME NEW r \in VariantRuns PROVE RunHolds(r)'
  <2>1. RunHolds(r)
    BY DEF VariantIInv
  <2>2. Mine(r)' = Mine(r) /\ (Alone(r)' <=> Alone(r))
    BY Zenon DEF Mine, Wants, Alone
  <2>3. Placed(r)'
    BY <2>1, <2>2 DEF RunHolds, Placed
  <2>4. LetsGoOf(r)'
    BY <2>1, Zenon DEF RunHolds, LetsGoOf, HasDetached, Excused, OtherWrote, Marked, Wrote, Mine, Wants, Alone
  <2>5. Progress(r) => Progress(r)'
    BY Zenon DEF Progress, Settled, Wrote, Mine, Wants
  <2>6. QED
    BY <2>1, <2>2, <2>3, <2>4, <2>5 DEF RunHolds
<1>5. QED
  BY <1>1, <1>2, <1>3, <1>4 DEF VariantIInv

LEMMA EditsKeep ==
  ASSUME VariantIInv,
         \/ \E p \in Articles, o \in Options \cup {NoOption} : EditsOption(p, o)
         \/ EditsAxis
         \/ \E p \in Articles : NewArticle(p)
  PROVE  VariantIInv'
<1>1. VariantShape /\ VariantCounts /\ VariantFlag
  BY DEF VariantIInv
<1>2. /\ synced' = synced /\ shopFamily' = shopFamily /\ syncs' = syncs /\ reached' = reached /\ forgotten' = forgotten
      /\ familyEdits < MaxFamilyEdits /\ familyEdits' = familyEdits + 1 /\ familyFaults' = familyFaults
  BY DEF EditsOption, EditsAxis, NewArticle
<1>3. VariantCounts'
  BY <1>1, <1>2, FamilyBounds DEF VariantCounts
<1>4. VariantFlag'
  BY <1>1, Zenon DEF VariantFlag, EditsOption, EditsAxis, NewArticle
<1>5. option' \in Resolutions
  <2>1. CASE option' = option
    BY <1>1, <2>1 DEF VariantShape
  <2>2. ASSUME NEW p \in Articles, NEW o \in Options \cup {NoOption}, option' = [option EXCEPT ![p] = o]
        PROVE  option' \in Resolutions
    BY <1>1, <2>2 DEF VariantShape, Resolutions
  <2>3. QED
    BY <2>1, <2>2 DEF EditsOption, EditsAxis, NewArticle
<1>6. listed \subseteq listed' /\ listed' \subseteq Articles
  BY <1>1 DEF VariantShape, EditsOption, EditsAxis, NewArticle
<1>7. VariantShape'
  BY <1>1, <1>2, <1>5, <1>6 DEF VariantShape
<1>8. QED
  BY <1>2, <1>3, <1>4, <1>6, <1>7, EditKeeps

LEMMA VariantInitInv == VariantInit => VariantIInv
<1> SUFFICES ASSUME VariantInit PROVE VariantIInv
  OBVIOUS
<1>1. syncs = [r \in VariantRuns |-> NoSync] /\ reached = {} /\ forgotten = {}
      /\ option \in Resolutions /\ listed \subseteq Articles
  BY DEF VariantInit
<1>2. PICK w \in Resolutions : VariantsOf(w) \subseteq listed /\ synced = VariantsOf(w) /\ shopFamily = Carried(w)
  BY Zenon DEF VariantInit
<1>3. \A r \in VariantRuns : syncs[r].at = "off"
  BY <1>1, NoSyncFacts
<1> DEFINE F == [p \in Articles |-> IF w[p] = NoOption THEN {} ELSE {w[p]}]
<1>4. F \in [Articles -> SUBSET Options] /\ \A p \in Articles : F[p] # {} => p \in VariantsOf(w)
  BY DEF Resolutions, VariantsOf
<1> HIDE DEF F
<1>5. /\ shopFamily.children = VariantsOf(w) /\ shopFamily.options = F /\ shopFamily.settings = UsedBy(w)
      /\ shopFamily = [parent |-> shopFamily.parent, children |-> shopFamily.children,
                       settings |-> shopFamily.settings, options |-> shopFamily.options]
  BY <1>2 DEF Carried, F
<1>6. shopFamily.parent \in BOOLEAN
  <2>1. shopFamily.parent = (w # NoVariants)
    BY <1>2 DEF Carried
  <2>2. (w # NoVariants) \in BOOLEAN
    BY Zenon
  <2>3. QED
    BY <2>1, <2>2, Zenon
<1>7. shopFamily \in FamilyRecords
  BY <1>4, <1>5, <1>6, ResolutionFacts DEF FamilyRecords
<1>8. syncs \in [VariantRuns -> SyncRecords]
  BY <1>1, NoSyncFacts
<1>9. VariantShape
  BY <1>1, <1>2, <1>7, <1>8 DEF VariantShape
<1>10. VariantCounts
  BY FamilyBounds DEF VariantInit, VariantCounts
<1>11. VariantFlag
  BY Zenon DEF VariantInit, VariantFlag
<1>12. MarksAreKnown
  BY <1>2, <1>4, <1>5 DEF MarksAreKnown, Marked
<1>13. \A r \in VariantRuns : RunHolds(r)
  BY <1>3 DEF RunHolds, Placed, LetsGoOf, HasDetached, Progress, Wrote
<1>14. AloneIsAlone /\ ReachedHolds
  BY <1>1, <1>3 DEF AloneIsAlone, ReachedHolds, SyncAt
<1>15. QED
  BY <1>9, <1>10, <1>11, <1>12, <1>13, <1>14 DEF VariantIInv

LEMMA VariantNextKeeps == VariantIInv /\ [VariantNext]_variantVars => VariantIInv'
<1>1. ASSUME VariantIInv, NEW r \in VariantRuns, SyncStep(r) \/ SyncBreaks(r) PROVE VariantIInv'
  BY <1>1, StartsSyncKeeps, RemovesOptionsKeeps, EnsuresParentKeeps, UpsertsChildrenKeeps, UpsertsSettingsKeeps,
     RemovesSettingKeeps, ConfiguresKeeps, ReleasesOptionsKeeps, DetachesKeeps, RemembersKeeps, RunFailsKeeps
     DEF SyncStep
<1>2. VariantIInv /\ VariantNext => VariantIInv'
  BY <1>1, EditsKeep DEF VariantNext
<1>3. VariantIInv /\ UNCHANGED variantVars => VariantIInv'
  <2> SUFFICES ASSUME VariantIInv, UNCHANGED variantVars PROVE VariantIInv'
    OBVIOUS
  <2>1. /\ option' = option /\ axis' = axis /\ listed' = listed /\ synced' = synced /\ shopFamily' = shopFamily
        /\ syncs' = syncs /\ reached' = reached /\ forgotten' = forgotten
        /\ familyEdits' = familyEdits /\ familyFaults' = familyFaults
    BY Zenon DEF variantVars
  <2>2. VariantShape' /\ VariantCounts' /\ VariantFlag'
    BY <2>1, Zenon DEF VariantIInv, VariantShape, VariantCounts, VariantFlag
  <2>3. listed \subseteq listed'
    BY <2>1
  <2>4. QED
    BY <2>1, <2>2, <2>3, EditKeeps
<1>4. QED
  BY <1>2, <1>3

(* The family, the runs and the histories keep their types.                   *)
THEOREM VariantTypeCorrect == VariantSpec => []VariantTypeOK
<1>1. VariantIInv => VariantTypeOK
  <2> SUFFICES ASSUME VariantIInv PROVE VariantTypeOK
    OBVIOUS
  <2>1. synced \subseteq Articles
    BY DEF VariantIInv, VariantShape
  <2>2. QED
    BY <2>1, Zenon DEF VariantIInv, VariantTypeOK, VariantShape, VariantCounts, VariantFlag, FamilyRecords, SyncRecords
<1>2. QED
  BY <1>1, VariantInitInv, VariantNextKeeps, PTL DEF VariantSpec

(* ShopwareVariantSyncService.sync, with any number of runs at once, breaking    *)
(* anywhere, of families of any size: what the last run alone carried out is     *)
(* what Shopware has, but for articles that are forgotten.                    *)
THEOREM FamilyMatches == VariantSpec => []VariantsMatch
<1>1. VariantIInv => VariantsMatch
  <2> SUFFICES ASSUME VariantIInv, Wanted \in reached
               PROVE  /\ \A p \in VariantsOf(Wanted) : p \in shopFamily.children /\ shopFamily.options[p] = {Wanted[p]}
                      /\ \A p \in Articles \ (VariantsOf(Wanted) \cup forgotten) :
                           p \notin shopFamily.children /\ shopFamily.options[p] = {}
                      /\ shopFamily.settings = UsedBy(Wanted)
    BY DEF VariantsMatch
  <2>1. Reaches(Wanted)
    BY DEF VariantIInv, ReachedHolds
  <2>2. QED
    BY <2>1 DEF Reaches, Settled, Marked
<1>2. QED
  BY <1>1, VariantInitInv, VariantNextKeeps, PTL DEF VariantSpec

-----------------------------------------------------------------------------
(* The round trip of a price.  Its property is about Django; what goes wrong   *)
(* there was read from Microtech before, and written there before that.  So   *)
(* the invariant says what Microtech, a payload and a batch hold of the       *)
(* rebate: it, or nothing beside a special.                                  *)
Agrees(v) == v.rebate = wanted \/ (v.special # 0 /\ v.rebate = 0)

RebateInv ==
  /\ ~overtaken => price.rebate = wanted
  /\ knows => Agrees(microtech)
  /\ \A w \in Writers : writing[w].on /\ writing[w].fresh => Agrees(writing[w])
  /\ batch.knows => Agrees(batch)

PriceIInv == PriceTypeOK /\ RebateInv

(* PriceTypeOK in parts: records, numbers, flags.                            *)
DjangoPrices == [special : 0 .. MaxSpecials, percent : BOOLEAN, rebate : 0 .. MaxRebates]
Payloads == [on : BOOLEAN, special : 0 .. MaxSpecials, rebate : 0 .. MaxRebates, fresh : BOOLEAN]
Batches == [at : {"off", "read", "imported", "restore"}, special : 0 .. MaxSpecials,
            rebate : 0 .. MaxRebates, knows : BOOLEAN]

PriceCounts ==
  /\ ended \subseteq Specials /\ given \in 0 .. MaxSpecials /\ wanted \in 0 .. MaxRebates
  /\ priceEdits \in 0 .. MaxPriceEdits /\ priceFaults \in 0 .. MaxPriceFaults
PriceFlags == waiting \in BOOLEAN /\ knows \in BOOLEAN /\ overtaken \in BOOLEAN
PriceRecords ==
  /\ price \in DjangoPrices /\ microtech \in Vk0
  /\ writing \in [Writers -> Payloads] /\ batch \in Batches

LEMMA PriceTypeParts == PriceTypeOK <=> PriceCounts /\ PriceFlags /\ PriceRecords
  BY Zenon DEF PriceTypeOK, PriceCounts, PriceFlags, PriceRecords, DjangoPrices, Payloads, Batches

LEMMA PriceConstants ==
  /\ Nothing \in Payloads /\ ~ Nothing.on
  /\ NoPayload \in Batches /\ ~ NoPayload.knows
  BY PriceBounds DEF Nothing, NoPayload, Payloads, Batches

(* clear_expired_specials leaves the rebate.                                 *)
LEMMA ClearedKeeps ==
  ASSUME price \in DjangoPrices
  PROVE  Cleared \in DjangoPrices /\ Cleared.rebate = price.rebate
<1>1. [price EXCEPT !.special = 0] \in DjangoPrices /\ [price EXCEPT !.special = 0].rebate = price.rebate
  BY PriceBounds DEF DjangoPrices
<1>2. Cleared = [[price EXCEPT !.special = 0] EXCEPT !.percent = FALSE]
  BY DEF Cleared
<1>3. \A c \in DjangoPrices : [c EXCEPT !.percent = FALSE] \in DjangoPrices
                             /\ [c EXCEPT !.percent = FALSE].rebate = c.rebate
  BY DEF DjangoPrices
<1>4. QED
  BY <1>1, <1>2, <1>3

LEMMA PriceInitInv == PriceInit => PriceIInv
<1> SUFFICES ASSUME PriceInit PROVE PriceIInv
  OBVIOUS
<1>1. PriceCounts
  BY PriceBounds DEF PriceInit, PriceCounts
<1>2. PriceFlags
  BY Zenon DEF PriceInit, PriceFlags
<1>3. PriceRecords
  BY PriceBounds, PriceConstants DEF PriceInit, PriceRecords, DjangoPrices, Vk0
<1>4. RebateInv
  BY PriceConstants DEF PriceInit, RebateInv, Agrees
<1>5. QED
  BY <1>1, <1>2, <1>3, <1>4, PriceTypeParts DEF PriceIInv

(* build_complete_price_payload keeps the rebate, or blanks it for a special. *)
LEMMA PayloadAgrees ==
  ASSUME PriceRecords, NEW s \in 0 .. MaxSpecials
  PROVE  /\ Payload(s, price.rebate) \in Vk0
         /\ price.rebate = wanted => Agrees(Payload(s, price.rebate))
  BY PriceBounds DEF PriceRecords, DjangoPrices, Vk0, Payload, Agrees

(* Every step is one of these: what it does to each record is enough.        *)
LEMMA PriceStep ==
  ASSUME PriceIInv, PriceCounts', PriceFlags',
         price' \in DjangoPrices, microtech' \in Vk0,
         writing' \in [Writers -> Payloads], batch' \in Batches,
         RebateInv'
  PROVE  PriceIInv'
<1>1. PriceRecords'
  BY DEF PriceRecords
<1>2. PriceTypeOK'
  BY <1>1, PriceTypeParts, PTL
<1>3. QED
  BY <1>2 DEF PriceIInv

LEMMA ReadsKeeps ==
  ASSUME PriceIInv, NEW w \in Writers, NEW payload \in Vk0, Reads(w, payload),
         price.rebate = wanted => Agrees(payload), wanted' = wanted
  PROVE  /\ writing' \in [Writers -> Payloads]
         /\ \A u \in Writers : writing'[u].on /\ writing'[u].fresh => Agrees(writing[u])'
<1> DEFINE r == [on |-> TRUE, special |-> payload.special, rebate |-> payload.rebate, fresh |-> ~overtaken]
<1>1. PriceRecords /\ PriceFlags /\ RebateInv
  BY PriceTypeParts DEF PriceIInv
<1>2. writing'[w] = r /\ \A u \in Writers \ {w} : writing'[u] = writing[u]
  BY <1>1 DEF Reads, PriceRecords
<1>3. writing'[w].special = payload.special /\ writing'[w].rebate = payload.rebate
  BY <1>2
<1>4. writing'[w].fresh => ~ overtaken
  <2>1. CASE overtaken
    <3>1. (~overtaken) = FALSE
      BY <2>1
    <3>2. writing'[w] = [on |-> TRUE, special |-> payload.special, rebate |-> payload.rebate, fresh |-> FALSE]
      BY <1>2, <3>1, Zenon
    <3>3. QED
      BY <3>2
  <2>2. QED
    BY <2>1
<1>5. writing'[w].fresh => Agrees(writing[w])'
  BY <1>1, <1>3, <1>4, Zenon DEF Agrees, RebateInv
<1>6. \A u \in Writers \ {w} : writing'[u].on /\ writing'[u].fresh => Agrees(writing[u])'
  BY <1>1, <1>2 DEF RebateInv, Agrees
<1>7. r \in Payloads
  <2>1. (~overtaken) \in BOOLEAN
    OBVIOUS
  <2>2. QED
    BY <2>1 DEF Payloads, Vk0
<1>8. writing' = [writing EXCEPT ![w] = r]
  BY DEF Reads
<1> HIDE DEF r
<1>9. QED
  BY <1>1, <1>5, <1>6, <1>7, <1>8 DEF PriceRecords

(* The person: a new rebate is known nowhere yet.                            *)
LEMMA PersonKeeps ==
  ASSUME PriceIInv,
         SetsSpecial \/ RemovesSpecial \/ (\E r \in 0 .. MaxRebates : SetsRebate(r))
         \/ (\E s \in Specials : SpecialEnds(s))
  PROVE  PriceIInv'
<1>1. PriceCounts /\ PriceFlags /\ PriceRecords /\ RebateInv
  BY PriceTypeParts DEF PriceIInv
<1>2. CASE SetsSpecial
  <2>1. PriceCounts'
    <3>1. /\ given < MaxSpecials /\ given' = given + 1 /\ ended' = ended /\ wanted' = wanted
          /\ priceEdits < MaxPriceEdits /\ priceEdits' = priceEdits + 1 /\ priceFaults' = priceFaults
      BY <1>2 DEF SetsSpecial, Edited
    <3>2. QED
      BY <1>1, <3>1, PriceBounds DEF PriceCounts
  <2>2. PriceFlags'
    BY <1>1, <1>2, Zenon DEF SetsSpecial, Edited, PriceFlags
  <2>3. price' \in DjangoPrices /\ price'.rebate = price.rebate
    <3>1. PICK q \in BOOLEAN : price' = [price EXCEPT !.special = given', !.percent = q]
      BY <1>2 DEF SetsSpecial
    <3>2. \A g \in 0 .. MaxSpecials : [price EXCEPT !.special = g, !.percent = q] \in DjangoPrices
            /\ [price EXCEPT !.special = g, !.percent = q].rebate = price.rebate
      BY <1>1 DEF PriceRecords, DjangoPrices
    <3>3. QED
      BY <2>1, <3>1, <3>2 DEF PriceCounts
  <2>4. RebateInv'
    BY <1>1, <1>2, <2>3 DEF SetsSpecial, RebateInv, Agrees
  <2>5. QED
    BY <1>1, <1>2, <2>1, <2>2, <2>3, <2>4, PriceStep DEF SetsSpecial, PriceRecords
<1>3. CASE RemovesSpecial
  <2>1. PriceCounts'
    BY <1>1, <1>3, PriceBounds DEF RemovesSpecial, Edited, PriceCounts
  <2>2. PriceFlags'
    BY <1>1, <1>3, Zenon DEF RemovesSpecial, Edited, PriceFlags
  <2>3. price' \in DjangoPrices /\ price'.rebate = price.rebate
    BY <1>1, <1>3, ClearedKeeps DEF RemovesSpecial, Cleared, PriceRecords
  <2>4. RebateInv'
    BY <1>1, <1>3, <2>3 DEF RemovesSpecial, RebateInv, Agrees
  <2>5. QED
    BY <1>1, <1>3, <2>1, <2>2, <2>3, <2>4, PriceStep DEF RemovesSpecial, PriceRecords
<1>4. ASSUME NEW r \in 0 .. MaxRebates, SetsRebate(r) PROVE PriceIInv'
  <2>1. PriceCounts'
    BY <1>1, <1>4, PriceBounds DEF SetsRebate, Edited, PriceCounts
  <2>2. PriceFlags'
    BY <1>1, <1>4, Zenon DEF SetsRebate, Edited, PriceFlags
  <2>3. price' \in DjangoPrices /\ price'.rebate = r
    BY <1>1, <1>4 DEF SetsRebate, PriceRecords, DjangoPrices
  <2>4. writing' \in [Writers -> Payloads] /\ \A w \in Writers : ~ writing'[w].fresh
    BY <1>1, <1>4 DEF SetsRebate, PriceRecords, Payloads
  <2>5. batch' \in Batches /\ ~ batch'.knows
    BY <1>1, <1>4 DEF SetsRebate, PriceRecords, Batches
  <2>6. wanted' = r /\ ~ knows' /\ microtech' = microtech
    BY <1>4 DEF SetsRebate
  <2>7. RebateInv'
    BY <2>3, <2>4, <2>5, <2>6 DEF RebateInv
  <2>8. QED
    BY <1>1, <2>1, <2>2, <2>3, <2>4, <2>5, <2>6, <2>7, PriceStep DEF PriceRecords
<1>5. ASSUME NEW s \in Specials, SpecialEnds(s) PROVE PriceIInv'
  <2>1. PriceCounts'
    BY <1>1, <1>5 DEF SpecialEnds, PriceCounts
  <2>2. PriceFlags'
    BY <1>1, <1>5, Zenon DEF SpecialEnds, PriceFlags
  <2>3. RebateInv'
    BY <1>1, <1>5 DEF SpecialEnds, RebateInv, Agrees
  <2>4. QED
    BY <1>1, <1>5, <2>1, <2>2, <2>3, PriceStep DEF SpecialEnds, PriceRecords
<1>6. QED
  BY <1>2, <1>3, <1>4, <1>5

(* Writes to Microtech, taken and failed.                                    *)
LEMMA WriterKeeps ==
  ASSUME PriceIInv, PushReads \/ \E w \in Writers : Writes(w) \/ WriteFails(w)
  PROVE  PriceIInv'
<1>1. PriceCounts /\ PriceFlags /\ PriceRecords /\ RebateInv
  BY PriceTypeParts DEF PriceIInv
<1>2. CASE PushReads
  <2>1. PriceCounts'
    BY <1>1, <1>2 DEF PushReads, PriceCounts
  <2>2. PriceFlags'
    BY <1>1, <1>2, Zenon DEF PushReads, PriceFlags
  <2>3. price.special \in 0 .. MaxSpecials
    BY <1>1 DEF PriceRecords, DjangoPrices
  <2>4. Payload(price.special, price.rebate) \in Vk0
        /\ (price.rebate = wanted => Agrees(Payload(price.special, price.rebate)))
    BY <1>1, <2>3, PayloadAgrees
  <2>5. /\ writing' \in [Writers -> Payloads]
        /\ \A u \in Writers : writing'[u].on /\ writing'[u].fresh => Agrees(writing[u])'
    BY <1>2, <2>4, ReadsKeeps DEF PushReads, Writers
  <2>6. RebateInv'
    BY <1>1, <1>2, <2>5 DEF PushReads, RebateInv, Agrees
  <2>7. QED
    BY <1>1, <1>2, <2>1, <2>2, <2>5, <2>6, PriceStep DEF PushReads, PriceRecords
<1>3. ASSUME NEW w \in Writers, Writes(w) \/ WriteFails(w) PROVE PriceIInv'
  <2>1. PriceCounts'
    BY <1>1, <1>3, PriceBounds DEF Writes, WriteFails, PriceCounts
  <2>2. writing[w].fresh \in BOOLEAN
    BY <1>1 DEF PriceRecords, Payloads
  <2>3. PriceFlags'
    BY <1>1, <1>3, <2>2, Zenon DEF Writes, WriteFails, PriceFlags
  <2>4. writing' = [writing EXCEPT ![w] = Nothing]
        /\ wanted' = wanted /\ price' = price /\ overtaken' = overtaken
    BY <1>3 DEF Writes, WriteFails
  <2>5. writing' \in [Writers -> Payloads]
        /\ \A u \in Writers : writing'[u].on => writing'[u] = writing[u]
    BY <1>1, <2>4, PriceConstants DEF PriceRecords
  <2>6. batch' = batch \/ batch' = NoPayload
    BY <1>3 DEF Writes, WriteFails
  <2>7. batch' \in Batches /\ (batch'.knows => Agrees(batch)')
    BY <1>1, <2>4, <2>6, PriceConstants DEF PriceRecords, RebateInv, Agrees
  <2>8. microtech' \in Vk0 /\ (knows' => Agrees(microtech)')
    <3>1. CASE Writes(w)
      <4>1. microtech' \in Vk0 /\ microtech'.rebate = writing[w].rebate
            /\ microtech'.special = writing[w].special
        BY <1>1, <3>1 DEF Writes, PriceRecords, Payloads, Vk0
      <4>2. writing[w].on /\ (knows' => writing[w].fresh)
        BY <3>1, Zenon DEF Writes
      <4>3. QED
        BY <1>1, <2>4, <4>1, <4>2 DEF RebateInv, Agrees
    <3>2. CASE WriteFails(w)
      BY <1>1, <2>4, <3>2 DEF WriteFails, PriceRecords, RebateInv, Agrees
    <3>3. QED
      BY <1>3, <3>1, <3>2
  <2>9. \A u \in Writers : writing'[u].on /\ writing'[u].fresh => Agrees(writing[u])'
    BY <1>1, <2>4, <2>5 DEF RebateInv, Agrees
  <2>10. RebateInv'
    BY <1>1, <2>4, <2>7, <2>8, <2>9 DEF RebateInv
  <2>11. QED
    BY <1>1, <2>1, <2>3, <2>4, <2>5, <2>7, <2>8, <2>10, PriceStep DEF PriceRecords
<1>4. QED
  BY <1>2, <1>3

(* The scheduled sync and the task that clears expired specials.             *)
LEMMA SyncKeeps ==
  ASSUME PriceIInv,
         BatchReads \/ Imports \/ SyncClears \/ SyncRestores \/ ExpiryClears \/ WorkerDies
  PROVE  PriceIInv'
<1>1. PriceCounts /\ PriceFlags /\ PriceRecords /\ RebateInv
  BY PriceTypeParts DEF PriceIInv
<1>2. PriceCounts'
  BY <1>1, PriceBounds DEF BatchReads, Imports, SyncClears, SyncRestores, ExpiryClears, WorkerDies, PriceCounts
<1>3. PriceFlags'
  <2>1. CASE Imports
    BY <1>1, <2>1, Zenon DEF Imports, PriceFlags
  <2>2. CASE BatchReads \/ SyncClears \/ SyncRestores \/ ExpiryClears \/ WorkerDies
    <3>1. waiting' = waiting /\ knows' = knows /\ overtaken' = overtaken
      BY <2>2 DEF BatchReads, SyncClears, SyncRestores, ExpiryClears, WorkerDies
    <3>2. QED
      BY <1>1, <3>1, Zenon DEF PriceFlags
  <2>3. QED
    BY <2>1, <2>2
<1>4. wanted' = wanted /\ microtech' = microtech /\ knows' = knows
  BY DEF BatchReads, Imports, SyncClears, SyncRestores, ExpiryClears, WorkerDies
<1>5. CASE BatchReads
  <2>1. batch' = [at |-> "read", special |-> microtech.special, rebate |-> microtech.rebate, knows |-> knows]
    BY <1>5 DEF BatchReads
  <2>2. batch' \in Batches /\ batch'.special = microtech.special /\ batch'.rebate = microtech.rebate
    BY <1>1, <2>1 DEF PriceRecords, PriceFlags, Batches, Vk0
  <2>3. batch'.knows => knows
    <3>1. CASE knows = FALSE
      <4>1. batch' = [at |-> "read", special |-> microtech.special, rebate |-> microtech.rebate, knows |-> FALSE]
        BY <2>1, <3>1, Zenon
      <4>2. QED
        BY <4>1
    <3>2. QED
      BY <1>1, <3>1 DEF PriceFlags
  <2>4. RebateInv'
    BY <1>1, <1>4, <1>5, <2>2, <2>3 DEF BatchReads, RebateInv, Agrees
  <2>5. QED
    BY <1>1, <1>2, <1>3, <1>5, <2>2, <2>4, PriceStep DEF BatchReads, PriceRecords
<1>6. CASE Imports
  <2>1. ImportedSpecial \in 0 .. MaxSpecials /\ ImportedRebate \in 0 .. MaxRebates
    BY <1>1 DEF ImportedSpecial, ImportedRebate, PriceRecords, DjangoPrices, Batches
  <2>2. price' \in DjangoPrices /\ price'.rebate = ImportedRebate
    BY <1>1, <1>6, <2>1 DEF Imports, PriceRecords, DjangoPrices
  <2>3. batch' \in Batches
        /\ batch'.knows = batch.knows /\ batch'.special = batch.special /\ batch'.rebate = batch.rebate
    BY <1>1, <1>6 DEF Imports, PriceRecords, Batches
  <2>4. ~ overtaken /\ batch.knows => ImportedRebate = wanted
    BY <1>1 DEF RebateInv, Agrees, ImportedRebate
  <2>5. ~ overtaken' => ~ overtaken /\ batch.knows
    BY <1>6, Zenon DEF Imports
  <2>6. RebateInv'
    BY <1>1, <1>4, <1>6, <2>2, <2>3, <2>4, <2>5 DEF Imports, RebateInv, Agrees
  <2>7. QED
    BY <1>1, <1>2, <1>3, <1>6, <2>2, <2>3, <2>6, PriceStep DEF Imports, PriceRecords
<1>7. ASSUME NEW p \in {"read", "restore"}, batch' = NoPayload \/ batch' = [batch EXCEPT !.at = p]
      PROVE  batch' \in Batches
             /\ (batch'.knows => batch.knows /\ batch'.special = batch.special /\ batch'.rebate = batch.rebate)
  <2>1. [batch EXCEPT !.at = p] \in Batches /\ [batch EXCEPT !.at = p].special = batch.special
        /\ [batch EXCEPT !.at = p].rebate = batch.rebate /\ [batch EXCEPT !.at = p].knows = batch.knows
    BY <1>1 DEF PriceRecords, Batches
  <2>2. QED
    BY <1>7, <2>1, PriceConstants
<1>8. CASE SyncClears
  <2>1. price' \in {Cleared, price} /\ (batch' = NoPayload \/ batch' = [batch EXCEPT !.at = "restore"])
    BY <1>8 DEF SyncClears
  <2>2. price' \in DjangoPrices /\ price'.rebate = price.rebate
    BY <1>1, <2>1, ClearedKeeps DEF PriceRecords
  <2>3. RebateInv'
    BY <1>1, <1>4, <1>7, <1>8, <2>1, <2>2 DEF SyncClears, RebateInv, Agrees
  <2>4. QED
    BY <1>1, <1>2, <1>3, <1>7, <1>8, <2>1, <2>2, <2>3, PriceStep DEF SyncClears, PriceRecords
<1>9. Payload(0, price.rebate) \in Vk0 /\ (price.rebate = wanted => Agrees(Payload(0, price.rebate)))
  BY <1>1, PayloadAgrees, PriceBounds
<1>10. CASE SyncRestores
  <2>1. /\ writing' \in [Writers -> Payloads]
        /\ \A u \in Writers : writing'[u].on /\ writing'[u].fresh => Agrees(writing[u])'
    BY <1>9, <1>10, ReadsKeeps DEF SyncRestores, Writers
  <2>2. RebateInv'
    BY <1>1, <1>4, <1>10, <2>1 DEF SyncRestores, RebateInv, Agrees
  <2>3. QED
    BY <1>1, <1>2, <1>3, <1>10, <2>1, <2>2, PriceStep DEF SyncRestores, PriceRecords
<1>11. CASE ExpiryClears
  <2>1. /\ writing' \in [Writers -> Payloads]
        /\ \A u \in Writers : writing'[u].on /\ writing'[u].fresh => Agrees(writing[u])'
    BY <1>9, <1>11, ReadsKeeps DEF ExpiryClears, Writers
  <2>2. price' \in DjangoPrices /\ price'.rebate = price.rebate
    BY <1>1, <1>11, ClearedKeeps DEF ExpiryClears, PriceRecords
  <2>3. RebateInv'
    BY <1>1, <1>4, <1>11, <2>1, <2>2 DEF ExpiryClears, RebateInv, Agrees
  <2>4. QED
    BY <1>1, <1>2, <1>3, <1>11, <2>1, <2>2, <2>3, PriceStep DEF ExpiryClears, PriceRecords
<1>12. CASE WorkerDies
  <2>1. writing' = [writing EXCEPT !["sync"] = Nothing]
        /\ (batch' = NoPayload \/ batch' = [batch EXCEPT !.at = "read"])
    BY <1>12 DEF WorkerDies
  <2>2. writing' \in [Writers -> Payloads]
        /\ \A u \in Writers : writing'[u].on => writing'[u] = writing[u]
    BY <1>1, <2>1, PriceConstants DEF PriceRecords, Writers
  <2>3. RebateInv'
    BY <1>1, <1>4, <1>7, <1>12, <2>1, <2>2 DEF WorkerDies, RebateInv, Agrees
  <2>4. QED
    BY <1>1, <1>2, <1>3, <1>7, <1>12, <2>1, <2>2, <2>3, PriceStep DEF WorkerDies, PriceRecords
<1>13. QED
  BY <1>5, <1>6, <1>8, <1>10, <1>11, <1>12

LEMMA PriceNextKeeps == PriceIInv /\ [PriceNext]_priceVars => PriceIInv'
<1>1. PriceIInv /\ PriceNext => PriceIInv'
  BY PersonKeeps, WriterKeeps, SyncKeeps DEF PriceNext
<1>2. PriceIInv /\ UNCHANGED priceVars => PriceIInv'
  <2> SUFFICES ASSUME PriceIInv, UNCHANGED priceVars PROVE PriceIInv'
    OBVIOUS
  <2>1. /\ price' = price /\ microtech' = microtech /\ ended' = ended /\ given' = given
        /\ waiting' = waiting /\ writing' = writing /\ batch' = batch /\ wanted' = wanted
        /\ knows' = knows /\ overtaken' = overtaken /\ priceEdits' = priceEdits
        /\ priceFaults' = priceFaults
    BY DEF priceVars
  <2>2. QED
    BY <2>1, Zenon DEF PriceIInv, PriceTypeOK, RebateInv, Agrees, Vk0
<1>3. QED
  BY <1>1, <1>2

(* The price, the payloads under way and the batch keep their types.          *)
THEOREM PriceTypeCorrect == PriceSpec => []PriceTypeOK
<1>1. PriceIInv => PriceTypeOK
  BY DEF PriceIInv
<1>2. QED
  BY <1>1, PriceInitInv, PriceNextKeeps, PTL DEF PriceSpec

(* Whatever pushes, batches, expiries, failures and edits interleave, the      *)
(* rebate a person set is the one in Django (Price.save,                      *)
(* _save_microtech_price, clear_expired_specials).                           *)
THEOREM RebateIsKept == PriceSpec => []RebateSurvives
<1>1. PriceIInv => RebateSurvives
  BY DEF PriceIInv, RebateInv, RebateSurvives
<1>2. QED
  BY <1>1, PriceInitInv, PriceNextKeeps, PTL DEF PriceSpec

-----------------------------------------------------------------------------
(* The price increase.  What was written when it was applied is what its      *)
(* position and percentage give, as long as no page loaded before that has    *)
(* written; and such pages are all that could reopen it or change a position. *)
Promises ==
  promised = [price |-> NewPrice(position, increase.percent),
              rebate |-> NewRebate(position, increase.percent)]

OfficeInv ==
  /\ \A d \in Offices : office[d].at \in {"reload", "loaded", "target"} => office[d].status = "draft"
  /\ ~tooLate /\ increase.status = "draft" => \A d \in Offices : office[d].status = "draft"

IncreaseIInv ==
  /\ IncreaseTypeOK
  /\ OfficeInv
  /\ increase.status = "applied" /\ ~tooLate /\ ~retuned => Promises
  /\ IncreasedOnce

Visits == [at : {"out", "reload", "loaded", "apply", "announce", "target", "form"},
           status : IncreaseStatuses, percent : Percents \cup {0}, position : PositionRow]
Increases == [status : IncreaseStatuses, percent : Percents]

IncreaseCounts == visitsPaid \in 0 .. MaxVisitsPaid /\ priceMoves \in 0 .. MaxPriceMoves
IncreaseFlags == /\ active \in BOOLEAN /\ touched \in BOOLEAN /\ passedOn \in BOOLEAN
                 /\ tooLate \in BOOLEAN /\ retuned \in BOOLEAN
IncreaseRecords ==
  /\ basePrice \in PriceRow /\ channelPrice \in PriceRow /\ increase \in Increases
  /\ position \in PositionRow /\ office \in [Offices -> Visits]
  /\ promised \in [price : Nat, rebate : Nat]

LEMMA IncreaseTypeParts == IncreaseTypeOK <=> IncreaseCounts /\ IncreaseFlags /\ IncreaseRecords
  BY Zenon DEF IncreaseTypeOK, IncreaseCounts, IncreaseFlags, IncreaseRecords, Visits, Increases

LEMMA NoPositionType == NoPosition \in PositionRow /\ NoVisit \in Visits /\ NoVisit.status = "draft" /\ NoVisit.at = "out"
<1>1. NoPosition \in PositionRow
  BY DEF NoPosition, PositionRow
<1>2. QED
  BY <1>1 DEF NoVisit, Visits, IncreaseStatuses

LEMMA ReadFromType ==
  ASSUME NEW b, b \in PriceRow \cup PositionRow, NEW old \in PositionRow
  PROVE  ReadFrom(b, old) \in PositionRow
  BY DEF ReadFrom, PriceRow, PositionRow

LEMMA ForChannelType == \A b \in PriceRow : ForChannel(b) \in PriceRow
<1>1. \A n \in Nat : n * Factor \in Nat
  BY IncreaseBounds
<1>2. QED
  BY <1>1 DEF ForChannel, PriceRow

(* Targets are numbers: an explicit one, or the percentage on top.           *)
LEMMA TargetType ==
  ASSUME NEW i \in PositionRow, NEW n \in Percents \cup {0}
  PROVE  NewPrice(i, n) \in Nat /\ NewRebate(i, n) \in Nat
<1>1. n \in Nat
  BY IncreaseBounds
<1>2. i.price \in Nat /\ i.rebate \in Nat /\ i.newPrice \in Nat /\ i.newRebate \in Nat
  BY DEF PositionRow
<1>3. QED
  BY <1>1, <1>2 DEF NewPrice, NewRebate

LEMMA IncreaseInitInv == IncreaseInit => IncreaseIInv
<1> SUFFICES ASSUME IncreaseInit PROVE IncreaseIInv
  OBVIOUS
<1>1. IncreaseCounts
  BY IncreaseBounds DEF IncreaseInit, IncreaseCounts
<1>2. IncreaseFlags
  BY Zenon DEF IncreaseInit, IncreaseFlags
<1>3. basePrice \in PriceRow
  BY IncreaseBounds DEF IncreaseInit, PriceRow
<1>4. IncreaseRecords
  <2>1. increase \in Increases /\ promised \in [price : Nat, rebate : Nat]
    BY DEF IncreaseInit, Increases, IncreaseStatuses
  <2>2. position \in PositionRow /\ channelPrice \in PriceRow
    BY <1>3, NoPositionType, ReadFromType, ForChannelType DEF IncreaseInit
  <2>3. office \in [Offices -> Visits]
    BY NoPositionType DEF IncreaseInit
  <2>4. QED
    BY <1>3, <2>1, <2>2, <2>3 DEF IncreaseRecords
<1>5. increase.status = "draft"
  BY DEF IncreaseInit
<1>6. OfficeInv
  BY NoPositionType DEF IncreaseInit, OfficeInv
<1>7. QED
  BY <1>1, <1>2, <1>4, <1>5, <1>6, IncreaseTypeParts DEF IncreaseIInv, IncreasedOnce

LEMMA IncreaseStep ==
  ASSUME IncreaseCounts', IncreaseFlags', IncreaseRecords', OfficeInv',
         increase'.status = "applied" /\ ~tooLate' /\ ~retuned' => Promises',
         increase'.status = "applied" /\ ~tooLate' /\ ~retuned' /\ ~touched' => IncreasedOnce'
  PROVE  IncreaseIInv'
<1>1. IncreaseTypeOK'
  BY IncreaseTypeParts, PTL
<1>2. IncreasedOnce'
  BY DEF IncreasedOnce
<1>3. QED
  BY <1>1, <1>2 DEF IncreaseIInv

(* A request that loads keeps everything but its own page ...                *)
LEMMA LoadKeeps ==
  ASSUME IncreaseIInv, NEW d \in Offices, NEW at \in {"reload", "apply", "target", "form"},
         OfficeLoads(d, at), at \in {"reload", "target"} => increase.status # "applied",
         UNCHANGED <<basePrice, channelPrice, active, increase, position, promised, touched, passedOn,
                     tooLate, retuned, priceMoves>>
  PROVE  IncreaseIInv'
<1>1. IncreaseCounts /\ IncreaseFlags /\ IncreaseRecords
  BY IncreaseTypeParts DEF IncreaseIInv
<1> DEFINE r == [at |-> at, status |-> increase.status, percent |-> increase.percent, position |-> position]
<1>2. office' = [office EXCEPT ![d] = r]
  BY DEF OfficeLoads
<1>3. r \in Visits
  BY <1>1 DEF IncreaseRecords, Visits, Increases
<1>4. r.at = at /\ r.status = increase.status
  OBVIOUS
<1> HIDE DEF r
<1>5. IncreaseRecords'
  BY <1>1, <1>2, <1>3 DEF IncreaseRecords
<1>6. IncreaseCounts'
  BY <1>1, IncreaseBounds DEF OfficeLoads, IncreaseCounts
<1>7. IncreaseFlags'
  BY <1>1 DEF IncreaseFlags
<1>8. increase.status \in {"draft", "applied"}
  BY <1>1 DEF IncreaseRecords, Increases, IncreaseStatuses
<1>9. OfficeInv'
  BY <1>1, <1>2, <1>4, <1>8 DEF OfficeInv, IncreaseIInv, IncreaseRecords
<1>10. QED
  BY <1>5, <1>6, <1>7, <1>9, IncreaseStep DEF IncreaseIInv, Promises, IncreasedOnce

(* ... and one that leaves what it has not written.                          *)
LEMMA LeaveEffect ==
  ASSUME IncreaseIInv, NEW d \in Offices, LeavesOffice(d)
  PROVE  /\ office' \in [Offices -> Visits]
         /\ \A e \in Offices : office'[e] = office[e] \/ office'[e] = NoVisit
<1>1. office \in [Offices -> Visits]
  BY IncreaseTypeParts DEF IncreaseIInv, IncreaseRecords
<1>2. QED
  BY <1>1, NoPositionType DEF LeavesOffice

LEMMA PagesShrink ==
  ASSUME OfficeInv, \A e \in Offices : office'[e] = office[e] \/ office'[e] = NoVisit,
         ~tooLate' => ~tooLate,
         ~tooLate' /\ increase'.status = "draft" => increase.status = "draft"
  PROVE  OfficeInv'
  BY NoPositionType DEF OfficeInv

(* Prices and products move by themselves.                                   *)
LEMMA MovesKeep ==
  ASSUME IncreaseIInv, PriceMoves \/ ProductMoves \/ \E d \in Offices : OfficeDies(d)
  PROVE  IncreaseIInv'
<1>1. IncreaseCounts /\ IncreaseFlags /\ IncreaseRecords
  BY IncreaseTypeParts DEF IncreaseIInv
<1>2. CASE PriceMoves
  <2>1. IncreaseCounts'
    BY <1>1, <1>2, IncreaseBounds DEF PriceMoves, IncreaseCounts
  <2>2. IncreaseFlags'
    BY <1>1, <1>2 DEF PriceMoves, IncreaseFlags
  <2>3. basePrice' \in PriceRow
    BY <1>2, IncreaseBounds DEF PriceMoves, PriceRow
  <2>4. IncreaseRecords'
    BY <1>1, <1>2, <2>3 DEF PriceMoves, IncreaseRecords
  <2>5. QED
    BY <1>2, <2>1, <2>2, <2>4, IncreaseStep DEF PriceMoves, IncreaseIInv, OfficeInv, Promises, IncreasedOnce
<1>3. CASE ProductMoves
  <2>1. IncreaseCounts'
    BY <1>1, <1>3, IncreaseBounds DEF ProductMoves, IncreaseCounts
  <2>2. IncreaseFlags'
    BY <1>1, <1>3 DEF ProductMoves, IncreaseFlags
  <2>3. IncreaseRecords'
    BY <1>1, <1>3 DEF ProductMoves, IncreaseRecords
  <2>4. QED
    BY <1>3, <2>1, <2>2, <2>3, IncreaseStep DEF ProductMoves, IncreaseIInv, OfficeInv, Promises, IncreasedOnce
<1>4. ASSUME NEW d \in Offices, OfficeDies(d) PROVE IncreaseIInv'
  <2>1. IncreaseCounts'
    BY <1>1, <1>4, IncreaseBounds DEF OfficeDies, IncreaseCounts
  <2>2. IncreaseFlags'
    BY <1>1, <1>4 DEF OfficeDies, IncreaseFlags
  <2>3. office' \in [Offices -> Visits] /\ \A e \in Offices : office'[e] = office[e] \/ office'[e] = NoVisit
    BY <1>4, LeaveEffect DEF OfficeDies
  <2>4. OfficeInv'
    BY <1>4, <2>3, PagesShrink DEF OfficeDies, IncreaseIInv
  <2>5. IncreaseRecords'
    BY <1>1, <1>4, <2>3 DEF OfficeDies, IncreaseRecords
  <2>6. QED
    BY <1>4, <2>1, <2>2, <2>4, <2>5, IncreaseStep DEF OfficeDies, IncreaseIInv, Promises, IncreasedOnce
<1>5. QED
  BY <1>2, <1>3, <1>4

(* The pages that write a position.                                          *)
LEMMA PagesKeep ==
  ASSUME IncreaseIInv, NEW d \in Offices,
         \/ ReloadChecks(d) \/ ReloadReads(d) \/ ReloadWrites(d) \/ TargetLoads(d) \/ TargetSaves(d)
  PROVE  IncreaseIInv'
<1>1. IncreaseCounts /\ IncreaseFlags /\ IncreaseRecords
  BY IncreaseTypeParts DEF IncreaseIInv
<1>2. CASE ReloadChecks(d) \/ TargetLoads(d)
  BY <1>2, LoadKeeps DEF ReloadChecks, ReloadUnchecked, TargetLoads
<1>3. CASE ReloadReads(d)
  <2> DEFINE i == IF active THEN ReadFrom(basePrice, NoPosition) ELSE NoPosition
             r == [office[d] EXCEPT !.at = "loaded", !.position = i]
  <2>1. i \in PositionRow
    BY <1>1, NoPositionType, ReadFromType DEF IncreaseRecords
  <2>2. office' = [office EXCEPT ![d] = r]
    BY <1>3 DEF ReloadReads
  <2> HIDE DEF i
  <2>3. r \in Visits /\ r.status = office[d].status
    BY <1>1, <2>1 DEF IncreaseRecords, Visits
  <2>4. office[d].status = "draft"
    BY <1>3 DEF ReloadReads, OfficeAt, IncreaseIInv, OfficeInv
  <2> HIDE DEF r
  <2>5. office' \in [Offices -> Visits] /\ \A e \in Offices : office'[e].status = office[e].status
        /\ (e # d => office'[e] = office[e])
    BY <1>1, <2>2, <2>3 DEF IncreaseRecords
  <2>6. OfficeInv'
    BY <1>3, <2>4, <2>5 DEF ReloadReads, IncreaseIInv, OfficeInv
  <2>7. IncreaseRecords' /\ IncreaseCounts'
    BY <1>1, <1>3, <2>5 DEF ReloadReads, IncreaseRecords, IncreaseCounts
  <2>8. IncreaseFlags'
    BY <1>1, <1>3 DEF ReloadReads, IncreaseFlags
  <2>9. QED
    BY <1>3, <2>6, <2>7, <2>8, IncreaseStep DEF ReloadReads, IncreaseIInv, Promises, IncreasedOnce
<1>4. CASE ReloadWrites(d) \/ TargetSaves(d)
  <2>1. office[d].status = "draft" /\ office[d] \in Visits
    BY <1>1, <1>4 DEF ReloadWrites, TargetSaves, OfficeAt, IncreaseIInv, OfficeInv, IncreaseRecords
  <2>2. Missed(d) /\ LeavesOffice(d) /\ increase' = increase
    BY <1>4 DEF ReloadWrites, TargetSaves
  <2>3. (tooLate' <=> tooLate \/ increase.status = "applied") /\ tooLate' \in BOOLEAN
    BY <2>1, <2>2, Zenon DEF Missed
  <2>4. position' \in PositionRow
    <3>1. CASE ReloadWrites(d)
      <4>1. office[d].position \in PositionRow /\ position \in PositionRow
        BY <1>1, <2>1 DEF Visits, IncreaseRecords
      <4>2. QED
        BY <3>1, <4>1, NoPositionType, ReadFromType DEF ReloadWrites
    <3>2. CASE TargetSaves(d)
      <4>1. PICK v \in NewTargets, m \in NewTargets :
              position' = [office[d].position EXCEPT !.newPrice = v, !.newRebate = m]
        BY <3>2 DEF TargetSaves
      <4>2. office[d].position \in PositionRow /\ v \in Nat /\ m \in Nat
        BY <2>1, IncreaseBounds DEF Visits
      <4>3. QED
        BY <4>1, <4>2 DEF PositionRow
    <3>3. QED
      BY <1>4, <3>1, <3>2
  <2>5. office' \in [Offices -> Visits] /\ \A e \in Offices : office'[e] = office[e] \/ office'[e] = NoVisit
    BY <2>2, LeaveEffect
  <2>6. OfficeInv'
    BY <2>2, <2>3, <2>5, PagesShrink DEF IncreaseIInv
  <2>7. IncreaseRecords' /\ IncreaseCounts'
    BY <1>1, <1>4, <2>4, <2>5 DEF ReloadWrites, TargetSaves, IncreaseRecords, IncreaseCounts
  <2>8. IncreaseFlags'
    <3>1. active' = active /\ touched' = touched /\ passedOn' = passedOn /\ retuned' = retuned
      BY <1>4 DEF ReloadWrites, TargetSaves
    <3>2. QED
      BY <1>1, <2>3, <3>1 DEF IncreaseFlags
  <2>9. QED
    BY <2>2, <2>3, <2>6, <2>7, <2>8, IncreaseStep
<1>5. QED
  BY <1>2, <1>3, <1>4

(* The form saves status and percentage together.                            *)
LEMMA FormKeeps ==
  ASSUME IncreaseIInv, NEW d \in Offices, FormLoads(d) \/ FormSaves(d)
  PROVE  IncreaseIInv'
<1>1. IncreaseCounts /\ IncreaseFlags /\ IncreaseRecords
  BY IncreaseTypeParts DEF IncreaseIInv
<1>2. CASE FormLoads(d)
  BY <1>2, LoadKeeps DEF FormLoads
<1>3. CASE FormSaves(d)
  <2>1. PICK n \in Percents : /\ increase' = [status |-> office[d].status, percent |-> n]
                             /\ retuned' = (retuned \/ (increase.status = "applied" /\ n # increase.percent))
    BY <1>3 DEF FormSaves
  <2>2. /\ office[d].status \in {"draft", "applied"} /\ increase.status \in {"draft", "applied"}
        /\ increase' \in Increases /\ increase'.status = office[d].status /\ increase'.percent = n
    BY <1>1, <2>1 DEF IncreaseRecords, Visits, Increases, IncreaseStatuses
  <2>3. (tooLate' <=> tooLate \/ (increase.status = "applied" /\ office[d].status = "draft"))
        /\ tooLate' \in BOOLEAN
    BY <1>3, Zenon DEF FormSaves, Missed
  <2>4. (retuned' <=> retuned \/ (increase.status = "applied" /\ n # increase.percent))
        /\ retuned' \in BOOLEAN
    BY <2>1, Zenon
  <2>5. office' \in [Offices -> Visits] /\ \A e \in Offices : office'[e] = office[e] \/ office'[e] = NoVisit
    BY <1>3, LeaveEffect DEF FormSaves
  <2>6. OfficeInv'
    BY <2>2, <2>3, <2>5, PagesShrink DEF IncreaseIInv
  <2>7. IncreaseRecords' /\ IncreaseCounts'
    BY <1>1, <1>3, <2>2, <2>5 DEF FormSaves, IncreaseRecords, IncreaseCounts
  <2>8. /\ active' = active /\ touched' = touched /\ passedOn' = passedOn /\ promised' = promised
        /\ position' = position /\ basePrice' = basePrice /\ channelPrice' = channelPrice
    BY <1>3 DEF FormSaves
  <2>9. IncreaseFlags'
    BY <1>1, <2>3, <2>4, <2>8 DEF IncreaseFlags
  <2>10. ASSUME increase'.status = "applied", ~tooLate', ~retuned'
         PROVE  increase.status = "applied" /\ ~tooLate /\ ~retuned /\ increase'.percent = increase.percent
    BY <2>2, <2>3, <2>4, <2>10 DEF IncreaseIInv, OfficeInv
  <2>11. QED
    BY <2>6, <2>7, <2>8, <2>9, <2>10, IncreaseStep DEF IncreaseIInv, Promises, IncreasedOnce
<1>4. QED
  BY <1>2, <1>3

(* Applying: the transaction, and the signal after it.                       *)
LEMMA ApplyKeeps ==
  ASSUME IncreaseIInv, NEW d \in Offices,
         IncreaseLoads(d) \/ IncreaseRefuses(d) \/ IncreaseCommits(d) \/ IncreaseAnnounces(d)
  PROVE  IncreaseIInv'
<1>1. IncreaseCounts /\ IncreaseFlags /\ IncreaseRecords
  BY IncreaseTypeParts DEF IncreaseIInv
<1>2. CASE IncreaseLoads(d)
  BY <1>2, LoadKeeps DEF IncreaseLoads
<1>3. CASE IncreaseRefuses(d)
  <2>1. office' \in [Offices -> Visits] /\ \A e \in Offices : office'[e] = office[e] \/ office'[e] = NoVisit
    BY <1>3, LeaveEffect DEF IncreaseRefuses
  <2>2. OfficeInv'
    BY <1>3, <2>1, PagesShrink DEF IncreaseRefuses, IncreaseIInv
  <2>3. IncreaseRecords' /\ IncreaseCounts' /\ IncreaseFlags'
    BY <1>1, <1>3, <2>1 DEF IncreaseRefuses, IncreaseRecords, IncreaseCounts, IncreaseFlags
  <2>4. QED
    BY <1>3, <2>2, <2>3, IncreaseStep DEF IncreaseRefuses, IncreaseIInv, Promises, IncreasedOnce
<1>4. CASE IncreaseCommits(d)
  <2> DEFINE n == office[d].percent
  <2>1. /\ promised' = [price |-> NewPrice(position, n), rebate |-> NewRebate(position, n)]
        /\ basePrice' = [basePrice EXCEPT !.price = promised'.price, !.rebate = promised'.rebate]
        /\ increase' = [increase EXCEPT !.status = "applied"]
        /\ office' = [office EXCEPT ![d].at = "announce"]
        /\ touched' = FALSE /\ passedOn' = FALSE
        /\ retuned' = (retuned \/ n # increase.percent)
        /\ channelPrice' = channelPrice /\ active' = active /\ position' = position
        /\ tooLate' = tooLate /\ visitsPaid' = visitsPaid /\ priceMoves' = priceMoves
    BY <1>4, Zenon DEF IncreaseCommits
  <2>2. office[d] \in Visits /\ n \in Percents \cup {0} /\ position \in PositionRow
    BY <1>1 DEF IncreaseRecords, Visits
  <2>3. NewPrice(position, n) \in Nat /\ NewRebate(position, n) \in Nat
    BY <2>2, TargetType
  <2>4. promised' \in [price : Nat, rebate : Nat]
        /\ promised'.price = NewPrice(position, n) /\ promised'.rebate = NewRebate(position, n)
    BY <2>1, <2>3
  <2>5. basePrice' \in PriceRow
        /\ basePrice'.price = promised'.price /\ basePrice'.rebate = promised'.rebate
    BY <1>1, <2>1, <2>3, <2>4 DEF IncreaseRecords, PriceRow
  <2>6. increase' \in Increases /\ increase'.status = "applied" /\ increase'.percent = increase.percent
    BY <1>1, <2>1 DEF IncreaseRecords, Increases, IncreaseStatuses
  <2>7. [office[d] EXCEPT !.at = "announce"] \in Visits /\ [office[d] EXCEPT !.at = "announce"].at = "announce"
    BY <2>2 DEF Visits
  <2>8. office' \in [Offices -> Visits] /\ office'[d].at = "announce"
        /\ \A e \in Offices \ {d} : office'[e] = office[e]
    BY <1>1, <2>1, <2>7 DEF IncreaseRecords
  <2>9. OfficeInv'
    BY <2>6, <2>8 DEF IncreaseIInv, OfficeInv
  <2>10. (retuned' <=> retuned \/ n # increase.percent) /\ retuned' \in BOOLEAN
    BY <2>1, Zenon
  <2>11. IncreaseFlags'
    BY <1>1, <2>1, <2>10, Zenon DEF IncreaseFlags
  <2>12. touched' = FALSE /\ passedOn' = FALSE /\ position' = position /\ channelPrice' = channelPrice
         /\ visitsPaid' = visitsPaid /\ priceMoves' = priceMoves
    BY <2>1, Zenon
  <2>13. IncreaseRecords' /\ IncreaseCounts'
    BY <1>1, <2>4, <2>5, <2>6, <2>8, <2>12 DEF IncreaseRecords, IncreaseCounts
  <2>14. ~retuned' => Promises'
    BY <2>1, <2>6, <2>10, <2>12 DEF Promises
  <2>15. IncreasedOnce'
    BY <2>5, <2>12 DEF IncreasedOnce
  <2>16. QED
    BY <2>9, <2>11, <2>13, <2>14, <2>15, IncreaseStep
<1>5. CASE IncreaseAnnounces(d)
  <2>1. office' \in [Offices -> Visits] /\ \A e \in Offices : office'[e] = office[e] \/ office'[e] = NoVisit
    BY <1>5, LeaveEffect DEF IncreaseAnnounces
  <2>2. OfficeInv'
    BY <1>5, <2>1, PagesShrink DEF IncreaseAnnounces, IncreaseIInv
  <2>3. channelPrice' \in PriceRow
    BY <1>1, <1>5, ForChannelType DEF IncreaseAnnounces, IncreaseRecords
  <2>4. IncreaseRecords' /\ IncreaseCounts' /\ IncreaseFlags'
    BY <1>1, <1>5, <2>1, <2>3 DEF IncreaseAnnounces, IncreaseRecords, IncreaseCounts, IncreaseFlags
  <2>5. QED
    BY <1>5, <2>2, <2>4, IncreaseStep DEF IncreaseAnnounces, IncreaseIInv, Promises, IncreasedOnce
<1>6. QED
  BY <1>2, <1>3, <1>4, <1>5

(* Restoring computes the targets a second time.                             *)
LEMMA RestoreKeeps ==
  ASSUME IncreaseIInv, Restores
  PROVE  IncreaseIInv'
<1>1. IncreaseCounts /\ IncreaseFlags /\ IncreaseRecords
  BY IncreaseTypeParts DEF IncreaseIInv
<1> DEFINE v == NewPrice(position, increase.percent)
           m == NewRebate(position, increase.percent)
           s == IF basePrice.special = "direct" THEN "none" ELSE basePrice.special
<1>2. v \in Nat /\ m \in Nat /\ s \in SpecialKinds
  BY <1>1, TargetType DEF IncreaseRecords, Increases, PriceRow, SpecialKinds
<1>3. basePrice' = [price |-> v, rebate |-> m, special |-> s]
  BY DEF Restores
<1>4. /\ channelPrice' = ForChannel(basePrice') /\ increase' = increase /\ position' = position
      /\ office' = office /\ promised' = promised /\ tooLate' = tooLate /\ retuned' = retuned
      /\ priceMoves' = priceMoves /\ active' = active /\ touched' = FALSE /\ passedOn' = TRUE
      /\ visitsPaid < MaxVisitsPaid /\ visitsPaid' = visitsPaid + 1
  BY DEF Restores
<1> HIDE DEF v, m, s
<1>5. basePrice' \in PriceRow /\ basePrice'.price = v /\ basePrice'.rebate = m
  BY <1>2, <1>3 DEF PriceRow
<1>6. channelPrice' \in PriceRow
  BY <1>4, <1>5, ForChannelType
<1>7. IncreaseRecords'
  BY <1>1, <1>4, <1>5, <1>6 DEF IncreaseRecords
<1>8. IncreaseCounts'
  BY <1>1, <1>4, IncreaseBounds DEF IncreaseCounts
<1>9. IncreaseFlags'
  BY <1>1, <1>4, Zenon DEF IncreaseFlags
<1>10. Promises => basePrice'.price = promised'.price /\ basePrice'.rebate = promised'.rebate
  BY <1>4, <1>5 DEF Promises, v, m
<1>11. QED
  BY <1>4, <1>7, <1>8, <1>9, <1>10, IncreaseStep DEF IncreaseIInv, OfficeInv, Promises, IncreasedOnce

LEMMA IncreaseNextKeeps == IncreaseIInv /\ [IncreaseNext]_increaseVars => IncreaseIInv'
<1>1. IncreaseIInv /\ IncreaseNext => IncreaseIInv'
  BY MovesKeep, PagesKeep, FormKeeps, ApplyKeeps, RestoreKeeps DEF IncreaseNext
<1>2. IncreaseIInv /\ UNCHANGED increaseVars => IncreaseIInv'
  <2> SUFFICES ASSUME IncreaseIInv, UNCHANGED increaseVars PROVE IncreaseIInv'
    OBVIOUS
  <2>1. /\ basePrice' = basePrice /\ channelPrice' = channelPrice /\ active' = active
        /\ increase' = increase /\ position' = position /\ office' = office /\ promised' = promised
        /\ touched' = touched /\ passedOn' = passedOn /\ tooLate' = tooLate /\ retuned' = retuned
        /\ visitsPaid' = visitsPaid /\ priceMoves' = priceMoves
    BY DEF increaseVars
  <2>2. QED
    BY <2>1, Zenon DEF IncreaseIInv, IncreaseTypeOK, OfficeInv, Promises, IncreasedOnce
<1>3. QED
  BY <1>1, <1>2

(* Prices, positions and the pages that are open keep their types.            *)
THEOREM IncreaseTypeCorrect == IncreaseSpec => []IncreaseTypeOK
<1>1. IncreaseIInv => IncreaseTypeOK
  BY DEF IncreaseIInv
<1>2. QED
  BY <1>1, IncreaseInitInv, IncreaseNextKeeps, PTL DEF IncreaseSpec

(* Applied by any number of requests and restored any number of times, an      *)
(* increase is written once: the price stays what applying it gave            *)
(* (apply, restore_applied and sync_items of price_increase.py).              *)
THEOREM NeverIncreasedTwice == IncreaseSpec => []IncreasedOnce
<1>1. IncreaseIInv => IncreasedOnce
  BY DEF IncreaseIInv
<1>2. QED
  BY <1>1, IncreaseInitInv, IncreaseNextKeeps, PTL DEF IncreaseSpec


-----------------------------------------------------------------------------
(* The images of a product in Shopware.  As long as no two runs met and no     *)
(* earlier images came back, a run that is to write images has newer ones than  *)
(* the hash says; so the hash of the current images is stored, and shown, only  *)
(* when nobody has purged them since.                                        *)
Running(r) == running[r].at # "off"

RunFits(r) ==
  /\ running[r].changed => imageHash < running[r].images
  /\ running[r].images <= images
  /\ running[r].at \in {"purge media", "purge new media", "relate", "save hash"} => running[r].changed
  /\ running[r].at = "upsert" /\ running[r].changed => shop.media = {}
  /\ running[r].at = "relate" => shop.media = {}
  /\ running[r].at = "save hash" => shop.media = {running[r].images}

MediaInv ==
  /\ ~crossedRuns => \A r, o \in Runs : Running(r) /\ Running(o) => r = o
  /\ ~crossedRuns /\ ~reverted =>
       /\ imageHash <= images /\ (imageHash = images => shop.media = {images})
       /\ \A r \in Runs : Running(r) => RunFits(r)

RunRecord == [at : Steps, prices : 0 .. MaxPrices, images : 0 .. MaxImages, changed : BOOLEAN, sku : BOOLEAN]
ShopRecord == [here : BOOLEAN, rows : [Kinds -> 0 .. MaxPrices], media : SUBSET (1 .. MaxImages)]
ShopRows == shop \in ShopRecord /\ running \in [Runs -> RunRecord]
ShopCounts ==
  /\ prices \in 1 .. MaxPrices /\ images \in 1 .. MaxImages /\ imageHash \in 0 .. MaxImages
  /\ shopEdits \in 0 .. MaxShopEdits /\ shopFaults \in 0 .. MaxShopFaults
ShopFlags == sku \in BOOLEAN /\ crossedRuns \in BOOLEAN /\ reverted \in BOOLEAN

LEMMA ShopTypeParts == ShopTypeOK <=> ShopRows /\ ShopCounts /\ ShopFlags
  BY Zenon DEF ShopTypeOK, ShopRows, ShopCounts, ShopFlags, RunRecord, ShopRecord

LEMMA NotRunningFacts == NotRunning \in RunRecord /\ NotRunning.at = "off"
  BY ShopBound DEF NotRunning, RunRecord, Steps

LEMMA CountFacts ==
  ASSUME ShopCounts
  PROVE  /\ prices \in 0 .. MaxPrices /\ images \in 0 .. MaxImages
         /\ prices \in Nat /\ images \in Nat /\ imageHash \in Nat
<1>1. prices \in 1 .. MaxPrices /\ images \in 1 .. MaxImages /\ imageHash \in 0 .. MaxImages
  BY Zenon DEF ShopCounts
<1>2. MaxPrices \in Nat /\ MaxImages \in Nat
  BY ShopBound
<1> QED
  BY <1>1, <1>2

LEMMA RunFacts ==
  ASSUME ShopRows, NEW r \in Runs
  PROVE  running[r] \in RunRecord /\ running[r].images \in Nat
<1>1. running[r] \in RunRecord
  BY DEF ShopRows
<1>2. running[r].images \in 0 .. MaxImages
  BY <1>1 DEF RunRecord
<1>3. MaxImages \in Nat
  BY ShopBound
<1> QED
  BY <1>1, <1>2, <1>3

(* A run goes on, or comes to its end.                                       *)
LEMMA GoesTo ==
  ASSUME ShopRows, NEW r \in Runs, NEW p \in Steps, RunGoesTo(r, p)
  PROVE  /\ running' \in [Runs -> RunRecord]
         /\ running'[r].at = p /\ running'[r].images = running[r].images /\ running'[r].changed = running[r].changed
         /\ running'[r].prices = running[r].prices
         /\ \A o \in Runs \ {r} : running'[o] = running[o]
<1>1. PICK x : x = [running[r] EXCEPT !.at = p]
  OBVIOUS
<1>2. running[r] \in RunRecord
  BY DEF ShopRows
<1>3. x \in RunRecord /\ x.at = p /\ x.images = running[r].images /\ x.changed = running[r].changed /\ x.prices = running[r].prices
  BY <1>1, <1>2 DEF RunRecord
<1>4. running' = [running EXCEPT ![r] = x]
  BY <1>1 DEF RunGoesTo
<1> QED
  BY <1>3, <1>4 DEF ShopRows

LEMMA Ends ==
  ASSUME ShopRows, NEW r \in Runs, Finishes(r)
  PROVE  /\ running' \in [Runs -> RunRecord] /\ running'[r].at = "off"
         /\ \A o \in Runs \ {r} : running'[o] = running[o]
  BY NotRunningFacts DEF Finishes, ShopRows

OnlyRun(r) == \A o \in Runs \ {r} : running'[o] = running[o]
MediaFits == imageHash <= images /\ (imageHash = images => shop.media = {images})

(* A step of the one run under way.                                          *)
LEMMA RunMoves ==
  ASSUME MediaInv, NEW r \in Runs, Running(r), OnlyRun(r), UNCHANGED <<crossedRuns, reverted>>,
         RunFits(r) /\ MediaFits => MediaFits' /\ (Running(r)' => RunFits(r)')
  PROVE  MediaInv'
<1>1. \A o \in Runs \ {r} : Running(o)' <=> Running(o)
  BY DEF OnlyRun, Running
<1>2. ASSUME ~crossedRuns'
      PROVE  \A o, p \in Runs : Running(o)' /\ Running(p)' => o = p
  BY <1>1, <1>2, Zenon DEF MediaInv
<1>3. ASSUME ~crossedRuns', ~reverted'
      PROVE  MediaFits' /\ \A o \in Runs : Running(o)' => RunFits(o)'
  <2>1. ~crossedRuns /\ ~reverted
    BY <1>3, Zenon
  <2>2. RunFits(r) /\ MediaFits
    BY <2>1, Zenon DEF MediaInv, MediaFits
  <2>3. \A o \in Runs \ {r} : ~Running(o)'
    BY <1>1, <2>1, Zenon DEF MediaInv
  <2> QED
    BY <2>2, <2>3, Zenon
<1> QED
  BY <1>2, <1>3, Zenon DEF MediaInv, MediaFits

(* The parts of RunFits that a step decides, by where it leads.               *)
LEMMA FitsBy ==
  ASSUME NEW r \in Runs, RunFits(r), running'[r].images = running[r].images, running'[r].changed = running[r].changed,
         UNCHANGED <<imageHash, images>>,
         running'[r].at \in {"purge media", "purge new media", "relate", "save hash"} => running[r].changed,
         running'[r].at = "upsert" /\ running[r].changed => shop'.media = {},
         running'[r].at = "relate" => shop'.media = {},
         running'[r].at = "save hash" => shop'.media = {running[r].images}
  PROVE  RunFits(r)'
  BY Zenon DEF RunFits

LEMMA StartsRunKeeps ==
  ASSUME ShopRows, ShopCounts, ShopFlags, MediaInv, NEW r \in Runs, StartsRun(r)
  PROVE  MediaInv' /\ running' \in [Runs -> RunRecord] /\ OnlyRun(r) /\ running'[r].images = images
<1>1. PICK c, s : c = (imageHash # images) /\ s = sku
  OBVIOUS
<1>2. PICK x : x = [at |-> "build", prices |-> 0, images |-> images, changed |-> c, sku |-> s]
  OBVIOUS
<1>3. x.at = "build" /\ x.images = images /\ x.changed = c
  BY <1>2
<1>4. running' = [running EXCEPT ![r] = x]
  BY <1>1, <1>2, Zenon DEF StartsRun
<1>5. running'[r] = x /\ OnlyRun(r)
  BY <1>4 DEF ShopRows, OnlyRun
<1>6. /\ crossedRuns' = (crossedRuns \/ \E o \in Runs : ~IsAt(o, "off"))
      /\ UNCHANGED <<prices, images, imageHash, sku, shop, reverted, shopEdits, shopFaults>>
  BY Zenon DEF StartsRun
<1>7. ~crossedRuns' => ~crossedRuns /\ \A o \in Runs : ~Running(o)
  BY <1>6, Zenon DEF IsAt, Running
<1>8. \A o \in Runs \ {r} : Running(o)' <=> Running(o)
  BY <1>5 DEF OnlyRun, Running
<1>9. \A o, p \in Runs : ~crossedRuns' /\ Running(o)' /\ Running(p)' => o = p
  BY <1>7, <1>8, Zenon
<1>10. ASSUME ~crossedRuns', ~reverted'
       PROVE  MediaFits' /\ RunFits(r)'
  <2>1. MediaFits
    BY <1>6, <1>7, <1>10, Zenon DEF MediaInv, MediaFits
  <2>2. MediaFits'
    BY <1>6, <2>1, Zenon DEF MediaFits
  <2>3. imageHash <= images /\ images \in Nat /\ (c => imageHash < images)
    <3>1. imageHash <= images
      BY <2>1, Zenon DEF MediaFits
    <3>2. c => imageHash # images
      BY <1>1, Zenon
    <3>3. imageHash \in Nat /\ images \in Nat
      BY DEF ShopCounts
    <3>4. imageHash # images => imageHash < images
      BY <3>1, <3>3
    <3> QED
      BY <3>1, <3>2, <3>3, <3>4, Zenon
  <2>4. running'[r].at = "build" /\ running'[r].images = images /\ running'[r].changed = c
    BY <1>3, <1>5, Zenon
  <2>5. /\ running'[r].at \notin {"purge media", "purge new media", "relate", "save hash"}
        /\ running'[r].at # "upsert"
    BY <2>4
  <2>6. running'[r].changed => imageHash' < running'[r].images
    BY <1>6, <2>3, <2>4, Zenon
  <2>7. running'[r].images <= images'
    BY <1>6, <2>3, <2>4
  <2>8. RunFits(r)'
    BY <2>4, <2>5, <2>6, <2>7, Zenon DEF RunFits
  <2> QED
    BY <2>2, <2>8, Zenon
<1>11. MediaInv'
  BY <1>7, <1>8, <1>9, <1>10, Zenon DEF MediaInv, MediaFits
<1>12. c \in BOOLEAN /\ s \in BOOLEAN
  BY <1>1, Zenon DEF ShopFlags
<1>13. x \in RunRecord
  <2>1. images \in 0 .. MaxImages /\ 0 \in 0 .. MaxPrices /\ "build" \in Steps
    BY CountFacts, ShopBound DEF Steps
  <2> QED
    BY <1>2, <1>12, <2>1 DEF RunRecord
<1> QED
  BY <1>3, <1>4, <1>5, <1>11, <1>13 DEF ShopRows

LEMMA Between == \A a, b, c \in Nat : a < b /\ b <= c => a # c
  OBVIOUS

LEMMA Upwards == \A a, b, c \in Nat : a <= b /\ b < c => a <= c
  OBVIOUS

(* A run moves on without touching hash or images in Django.                  *)
LEMMA QuietMove ==
  ASSUME ShopRows, ShopCounts, MediaInv, NEW r \in Runs, Running(r), NEW p \in Steps, RunGoesTo(r, p),
         UNCHANGED <<images, imageHash, crossedRuns, reverted>>,
         shop'.media = shop.media \/ running[r].changed,
         p \in {"purge media", "purge new media", "relate", "save hash"} => running[r].changed,
         RunFits(r) => /\ (p = "upsert" /\ running[r].changed => shop'.media = {})
                       /\ (p = "relate" => shop'.media = {})
                       /\ (p = "save hash" => shop'.media = {running[r].images})
  PROVE  MediaInv'
<1>1. /\ running'[r].at = p /\ running'[r].images = running[r].images /\ running'[r].changed = running[r].changed
      /\ OnlyRun(r)
  BY GoesTo, Zenon DEF OnlyRun
<1>2. ASSUME RunFits(r), MediaFits PROVE MediaFits' /\ RunFits(r)'
  <2>1. RunFits(r)'
    <3>1. running'[r].at \in {"purge media", "purge new media", "relate", "save hash"} => running[r].changed
      BY <1>1, Zenon
    <3>2. /\ running'[r].at = "upsert" /\ running[r].changed => shop'.media = {}
          /\ running'[r].at = "relate" => shop'.media = {}
          /\ running'[r].at = "save hash" => shop'.media = {running[r].images}
      BY <1>1, <1>2, Zenon
    <3>3. UNCHANGED <<imageHash, images>>
      OBVIOUS
    <3> QED
      BY <1>1, <1>2, <3>1, <3>2, <3>3, FitsBy, Zenon
  <2>2. running[r].images \in Nat /\ images \in Nat /\ imageHash \in Nat
    BY CountFacts, RunFacts, Zenon
  <2>3. running[r].changed => imageHash < running[r].images /\ running[r].images <= images
    BY <1>2, Zenon DEF RunFits
  <2>4. imageHash < running[r].images /\ running[r].images <= images => imageHash # images
    BY <2>2, Between, Zenon
  <2>5. MediaFits'
    BY <1>2, <2>3, <2>4, Zenon DEF MediaFits
  <2> QED
    BY <2>1, <2>5, Zenon
<1> QED
  BY <1>1, <1>2, RunMoves, Zenon

(* A run ends, and has left the images in the shop alone or has shown the ones  *)
(* of the hash that it stores.                                               *)
LEMMA QuietEnd ==
  ASSUME ShopRows, MediaInv, NEW r \in Runs, Running(r), Finishes(r),
         UNCHANGED <<images, crossedRuns, reverted>>,
         RunFits(r) /\ MediaFits => MediaFits'
  PROVE  MediaInv'
<1>1. running'[r].at = "off" /\ OnlyRun(r)
  BY Ends, Zenon DEF OnlyRun
<1>2. ~Running(r)'
  BY <1>1 DEF Running
<1> QED
  BY <1>1, <1>2, RunMoves, Zenon

LEMMA BuildsKeeps ==
  ASSUME ShopRows, ShopCounts, MediaInv, NEW r \in Runs, Builds(r)
  PROVE  /\ MediaInv' /\ running' \in [Runs -> RunRecord] /\ OnlyRun(r)
         /\ running'[r].changed = running[r].changed /\ running'[r].images = running[r].images
<1>1. PICK p \in {"purge prices", "create"} :
        running' = [running EXCEPT ![r].prices = prices, ![r].at = p]
  BY Zenon DEF Builds
<1>2. Running(r) /\ UNCHANGED <<images, imageHash, shop, crossedRuns, reverted>>
  BY DEF Builds, IsAt, Running
<1>3. PICK x : x = [running[r] EXCEPT !.prices = prices, !.at = p]
  OBVIOUS
<1>4. running[r] \in RunRecord
  BY DEF ShopRows
<1>5. x \in RunRecord /\ x.at = p /\ x.images = running[r].images /\ x.changed = running[r].changed
  <2>1. prices \in 0 .. MaxPrices
    BY CountFacts
  <2>2. p \in Steps
    BY DEF Steps
  <2> QED
    BY <1>3, <1>4, <2>1, <2>2 DEF RunRecord
<1>6. running' = [running EXCEPT ![r] = x]
  BY <1>1, <1>3
<1>7. running' \in [Runs -> RunRecord] /\ running'[r] = x /\ OnlyRun(r)
  BY <1>5, <1>6 DEF ShopRows, OnlyRun
<1>8. p \notin {"purge media", "purge new media", "relate", "save hash", "upsert"}
  OBVIOUS
<1>9. ASSUME RunFits(r) PROVE RunFits(r)'
  <2>1. /\ running'[r].at = p /\ running'[r].images = running[r].images
        /\ running'[r].changed = running[r].changed
    BY <1>5, <1>7, Zenon
  <2>2. /\ p \notin {"purge media", "purge new media", "relate", "save hash"}
        /\ p # "upsert" /\ p # "relate" /\ p # "save hash"
    OBVIOUS
  <2> QED
    BY <1>2, <1>9, <2>1, <2>2, FitsBy, Zenon
<1>10. MediaFits => MediaFits'
  BY <1>2, Zenon DEF MediaFits
<1> QED
  BY <1>2, <1>5, <1>7, <1>9, <1>10, RunMoves, Zenon

LEMMA EditsImagesKeeps ==
  ASSUME ShopRows, ShopCounts, MediaInv, NEW v \in 1 .. MaxImages, EditsImages(v)
  PROVE  MediaInv'
<1>1. /\ v # images /\ images' = v /\ reverted' = (reverted \/ v < images)
      /\ UNCHANGED <<imageHash, shop, running, crossedRuns>>
  BY Zenon DEF EditsImages
<1>2. /\ UNCHANGED crossedRuns /\ UNCHANGED running /\ UNCHANGED imageHash /\ UNCHANGED shop
      /\ (~crossedRuns' => ~crossedRuns) /\ (~reverted' => ~reverted /\ ~(v < images))
  <2>1. UNCHANGED crossedRuns /\ UNCHANGED running /\ UNCHANGED imageHash /\ UNCHANGED shop
    BY <1>1, Zenon
  <2>2. ~crossedRuns' => ~crossedRuns
    BY <2>1, Zenon
  <2>3. ~reverted' => ~reverted /\ ~(v < images)
    BY <1>1, Zenon
  <2> QED
    BY <2>1, <2>2, <2>3, Zenon
<1>3. ~crossedRuns' => \A r, o \in Runs : Running(r)' /\ Running(o)' => r = o
  BY <1>2, Zenon DEF MediaInv, Running
<1>4. ASSUME ~crossedRuns', ~reverted'
      PROVE  MediaFits' /\ \A r \in Runs : Running(r)' => RunFits(r)'
  <2>1. ~crossedRuns /\ ~reverted /\ ~(v < images)
    BY <1>2, <1>4, Zenon
  <2>2. images \in Nat /\ v \in Nat /\ imageHash \in Nat
    BY ShopBound DEF ShopCounts
  <2>3. images < v
    BY <1>1, <2>1, <2>2
  <2>4. imageHash <= images
    BY <2>1, Zenon DEF MediaInv
  <2>5. imageHash <= v /\ imageHash # v
    BY <2>2, <2>3, <2>4
  <2>6. MediaFits'
    BY <1>1, <1>2, <2>5, Zenon DEF MediaFits
  <2>7. ASSUME NEW r \in Runs, Running(r)' PROVE RunFits(r)'
    <3>1. RunFits(r)
      BY <1>2, <2>1, <2>7, Zenon DEF MediaInv, Running
    <3>2. running[r].images \in Nat
      BY ShopBound DEF ShopRows, RunRecord
    <3>3. running[r].images <= images
      BY <3>1, Zenon DEF RunFits
    <3>4. running[r].images <= v
      BY <2>2, <2>3, <3>2, <3>3, Upwards, Zenon
    <3> QED
      BY <1>1, <1>2, <3>1, <3>4, Zenon DEF RunFits
  <2> QED
    BY <2>6, <2>7, Zenon
<1> QED
  BY <1>3, <1>4, Zenon DEF MediaInv, MediaFits

-----------------------------------------------------------------------------
LEMMA WithRowsFacts ==
  ASSUME ShopRows, NEW v \in 0 .. MaxPrices
  PROVE  WithRows(shop, v) \in ShopRecord /\ WithRows(shop, v).media = shop.media
<1>1. KindOf(v) \in Kinds
  BY DEF KindOf, Kinds
<1>2. PICK k \in Kinds : k = KindOf(v)
  BY <1>1
<1>3. PICK m : m = [shop.rows EXCEPT ![k] = v]
  OBVIOUS
<1>4. shop \in ShopRecord
  BY DEF ShopRows
<1>5. m \in [Kinds -> 0 .. MaxPrices]
  BY <1>3, <1>4 DEF ShopRecord
<1>6. WithRows(shop, v) = [shop EXCEPT !.rows = m]
  BY <1>2, <1>3 DEF WithRows
<1> QED
  BY <1>4, <1>5, <1>6 DEF ShopRecord

LEMMA WithMediaFacts ==
  ASSUME ShopRows, NEW s \in ShopRecord, NEW r \in Runs,
         running[r].changed => running[r].images \in 1 .. MaxImages
  PROVE  /\ WithMedia(s, r) \in ShopRecord
         /\ WithMedia(s, r).media = IF running[r].changed THEN s.media \cup {running[r].images} ELSE s.media
<1>1. CASE running[r].changed
  <2>1. PICK m : m = s.media \cup {running[r].images}
    OBVIOUS
  <2>2. m \in SUBSET (1 .. MaxImages)
    BY <1>1, <2>1 DEF ShopRecord
  <2>3. WithMedia(s, r) = [s EXCEPT !.media = m]
    BY <1>1, <2>1 DEF WithMedia
  <2>4. [s EXCEPT !.media = m] \in ShopRecord /\ [s EXCEPT !.media = m].media = m
    BY <2>2 DEF ShopRecord
  <2> QED
    BY <1>1, <2>1, <2>3, <2>4, Zenon
<1>2. CASE ~running[r].changed
  BY <1>2, Zenon DEF WithMedia
<1> QED
  BY <1>1, <1>2, Zenon

(* Only a run with images of its own is to write them.                        *)
ImagesRead == \A r \in Runs : running[r].changed => running[r].images \in 1 .. MaxImages

LEMMA KeepsMarks ==
  ASSUME ImagesRead, NEW r \in Runs, OnlyRun(r),
         running'[r].changed => running[r].changed /\ running'[r].images = running[r].images
  PROVE  ImagesRead'
  BY Zenon DEF ImagesRead, OnlyRun

LEMMA EndKeepsMarks ==
  ASSUME ShopRows, ImagesRead, NEW r \in Runs, Finishes(r)
  PROVE  ImagesRead' /\ running' \in [Runs -> RunRecord] /\ OnlyRun(r) /\ ~Running(r)'
<1>1. PICK x : x = NotRunning
  OBVIOUS
<1>2. ~x.changed /\ x.at = "off"
  BY <1>1 DEF NotRunning
<1>3. running' = [running EXCEPT ![r] = x]
  BY <1>1 DEF Finishes
<1>4. running'[r] = x
  BY <1>3 DEF ShopRows
<1>5. running' \in [Runs -> RunRecord] /\ OnlyRun(r)
  BY Ends, Zenon DEF OnlyRun
<1>6. ImagesRead'
  BY <1>2, <1>4, <1>5, KeepsMarks, Zenon
<1> QED
  BY <1>2, <1>4, <1>5, <1>6 DEF Running

LEMMA GoesKeepsMarks ==
  ASSUME ShopRows, ImagesRead, NEW r \in Runs, NEW p \in Steps, RunGoesTo(r, p)
  PROVE  ImagesRead' /\ running' \in [Runs -> RunRecord] /\ OnlyRun(r)
<1>1. /\ running' \in [Runs -> RunRecord] /\ OnlyRun(r)
      /\ running'[r].images = running[r].images /\ running'[r].changed = running[r].changed
  BY GoesTo, Zenon DEF OnlyRun
<1> QED
  BY <1>1, KeepsMarks, Zenon

LEMMA PurgesPricesKeeps ==
  ASSUME ShopRows, ShopCounts, ImagesRead, MediaInv, NEW r \in Runs, PurgesPrices(r)
  PROVE  MediaInv' /\ ImagesRead' /\ running' \in [Runs -> RunRecord] /\ shop' \in ShopRecord
<1>1. PICK p : p = CASE IsAt(r, "purge new") -> "upsert new" [] running[r].changed -> "purge media" [] OTHER -> "upsert"
  OBVIOUS
<1>2. RunGoesTo(r, p) /\ shop' = [shop EXCEPT !.rows = NoRows] /\ Running(r)
      /\ UNCHANGED <<images, imageHash, crossedRuns, reverted>>
  BY <1>1 DEF PurgesPrices, Running, IsAt
<1>3. /\ p \in {"upsert new", "purge media", "upsert"}
      /\ (p = "purge media" => running[r].changed) /\ (p = "upsert" => ~running[r].changed)
  BY <1>1, Zenon
<1>4. p \in Steps
  BY <1>3 DEF Steps
<1>5. shop' \in ShopRecord /\ shop'.media = shop.media
  BY <1>2, ShopBound DEF ShopRows, ShopRecord, NoRows
<1>6. p # "relate" /\ p # "save hash" /\ p # "purge new media"
  BY <1>3
<1>7. p \in {"purge media", "purge new media", "relate", "save hash"} => running[r].changed
  BY <1>3, <1>6, Zenon
<1> QED
  BY <1>2, <1>3, <1>4, <1>5, <1>6, <1>7, QuietMove, GoesKeepsMarks, Zenon

LEMMA PurgesMediaKeeps ==
  ASSUME ShopRows, ShopCounts, ImagesRead, MediaInv, NEW r \in Runs, PurgesMedia(r)
  PROVE  MediaInv' /\ ImagesRead' /\ running' \in [Runs -> RunRecord] /\ shop' \in ShopRecord
<1>1. PICK p : p = IF IsAt(r, "purge media") THEN "upsert" ELSE "relate"
  OBVIOUS
<1>2. RunGoesTo(r, p) /\ shop' = [shop EXCEPT !.media = {}] /\ Running(r)
      /\ UNCHANGED <<images, imageHash, crossedRuns, reverted>>
  BY <1>1 DEF PurgesMedia, Running, IsAt
<1>3. p \in Steps /\ p # "save hash"
  BY <1>1 DEF Steps
<1>4. shop' \in ShopRecord /\ shop'.media = {}
  BY <1>2 DEF ShopRows, ShopRecord
<1>5. RunFits(r) => running[r].changed
  BY Zenon DEF PurgesMedia, RunFits, IsAt
<1>6. ASSUME RunFits(r), MediaFits PROVE MediaInv'
  BY <1>2, <1>3, <1>4, <1>5, <1>6, QuietMove, Zenon
<1>7. ImagesRead' /\ running' \in [Runs -> RunRecord] /\ OnlyRun(r)
  BY <1>2, <1>3, GoesKeepsMarks, Zenon
<1>8. ASSUME ~(RunFits(r) /\ MediaFits) PROVE MediaInv'
  BY <1>2, <1>7, <1>8, RunMoves, Zenon
<1> QED
  BY <1>4, <1>6, <1>7, <1>8, Zenon

MediaIInv == ShopRows /\ ShopCounts /\ ImagesRead /\ MediaInv
Moved == running' \in [Runs -> RunRecord] /\ shop' \in ShopRecord /\ ImagesRead' /\ MediaInv'

LEMMA UpsertsKeeps ==
  ASSUME MediaIInv, NEW r \in Runs, Upserts(r)
  PROVE  Moved
<1> USE DEF MediaIInv
<1>1. /\ IsAt(r, "upsert") /\ shop' = WithMedia(WithRows(shop, running[r].prices), r)
      /\ (running[r].changed => RunGoesTo(r, "save hash")) /\ (~running[r].changed => Finishes(r))
      /\ UNCHANGED <<images, imageHash, crossedRuns, reverted>>
  BY Zenon DEF Upserts
<1>2. PICK s : s = WithRows(shop, running[r].prices)
  OBVIOUS
<1>3. running[r].prices \in 0 .. MaxPrices
  BY RunFacts DEF RunRecord
<1>4. s \in ShopRecord /\ s.media = shop.media
  BY <1>2, <1>3, WithRowsFacts, Zenon
<1>5. shop' \in ShopRecord /\ shop'.media = IF running[r].changed THEN s.media \cup {running[r].images} ELSE s.media
  BY <1>1, <1>2, <1>4, WithMediaFacts, Zenon DEF ImagesRead
<1>6. Running(r) /\ running[r].at = "upsert"
  BY <1>1 DEF Running, IsAt
<1>7. CASE running[r].changed
  <2>1. shop'.media = shop.media \cup {running[r].images}
    BY <1>4, <1>5, <1>7, Zenon
  <2>2. RunFits(r) => shop.media = {}
    BY <1>6, <1>7, Zenon DEF RunFits
  <2>3. shop.media = {} => shop'.media = {running[r].images}
    BY <2>1
  <2>4. "save hash" \in Steps /\ "save hash" # "upsert" /\ "save hash" # "relate"
    BY DEF Steps
  <2>5. MediaInv'
    BY <1>1, <1>6, <1>7, <2>2, <2>3, <2>4, QuietMove, Zenon
  <2>6. ImagesRead' /\ running' \in [Runs -> RunRecord]
    BY <1>1, <1>7, <2>4, GoesKeepsMarks, Zenon
  <2> QED
    BY <1>5, <2>5, <2>6, Zenon DEF Moved
<1>8. CASE ~running[r].changed
  <2>1. shop'.media = shop.media
    BY <1>4, <1>5, <1>8, Zenon
  <2>2. MediaFits => MediaFits'
    BY <1>1, <2>1, Zenon DEF MediaFits
  <2>3. Finishes(r)
    BY <1>1, <1>8, Zenon
  <2>4. MediaInv'
    BY <1>1, <1>6, <2>2, <2>3, QuietEnd, Zenon
  <2>5. ImagesRead' /\ running' \in [Runs -> RunRecord]
    BY <2>3, EndKeepsMarks, Zenon
  <2> QED
    BY <1>5, <2>4, <2>5, Zenon DEF Moved
<1> QED
  BY <1>7, <1>8, Zenon

LEMMA UpsertsNewKeeps ==
  ASSUME MediaIInv, NEW r \in Runs, UpsertsNew(r)
  PROVE  Moved
<1> USE DEF MediaIInv
<1>1. /\ IsAt(r, "upsert new") /\ shop' = WithRows(shop, running[r].prices)
      /\ (running[r].changed => RunGoesTo(r, "purge new media")) /\ (~running[r].changed => Finishes(r))
      /\ UNCHANGED <<images, imageHash, crossedRuns, reverted>>
  BY Zenon DEF UpsertsNew
<1>2. running[r].prices \in 0 .. MaxPrices
  BY RunFacts DEF RunRecord
<1>3. shop' \in ShopRecord /\ shop'.media = shop.media
  BY <1>1, <1>2, WithRowsFacts, Zenon
<1>4. Running(r)
  BY <1>1 DEF Running, IsAt
<1>5. CASE running[r].changed
  <2>1. /\ "purge new media" \in Steps /\ "purge new media" # "upsert" /\ "purge new media" # "relate"
        /\ "purge new media" # "save hash"
    BY DEF Steps
  <2>2. MediaInv'
    BY <1>1, <1>3, <1>4, <1>5, <2>1, QuietMove, Zenon
  <2>3. ImagesRead' /\ running' \in [Runs -> RunRecord]
    BY <1>1, <1>5, <2>1, GoesKeepsMarks, Zenon
  <2> QED
    BY <1>3, <2>2, <2>3, Zenon DEF Moved
<1>6. CASE ~running[r].changed
  <2>1. MediaFits => MediaFits'
    BY <1>1, <1>3, Zenon DEF MediaFits
  <2>2. Finishes(r)
    BY <1>1, <1>6, Zenon
  <2>3. MediaInv'
    BY <1>1, <1>4, <2>1, <2>2, QuietEnd, Zenon
  <2>4. ImagesRead' /\ running' \in [Runs -> RunRecord]
    BY <2>2, EndKeepsMarks, Zenon
  <2> QED
    BY <1>3, <2>3, <2>4, Zenon DEF Moved
<1> QED
  BY <1>5, <1>6, Zenon

LEMMA RelatesKeeps ==
  ASSUME MediaIInv, NEW r \in Runs, Relates(r)
  PROVE  Moved
<1> USE DEF MediaIInv
<1>1. /\ IsAt(r, "relate") /\ shop' = WithMedia(shop, r) /\ RunGoesTo(r, "save hash")
      /\ UNCHANGED <<images, imageHash, crossedRuns, reverted>>
  BY Zenon DEF Relates
<1>2. shop \in ShopRecord
  BY Zenon DEF ShopRows
<1>3. /\ shop' \in ShopRecord
      /\ shop'.media = IF running[r].changed THEN shop.media \cup {running[r].images} ELSE shop.media
  BY <1>1, <1>2, WithMediaFacts, Zenon DEF ImagesRead
<1>4. Running(r) /\ running[r].at = "relate"
  BY <1>1 DEF Running, IsAt
<1>5. "save hash" \in Steps /\ "save hash" # "upsert" /\ "save hash" # "relate"
  BY DEF Steps
<1>6. ImagesRead' /\ running' \in [Runs -> RunRecord] /\ OnlyRun(r)
  BY <1>1, <1>5, GoesKeepsMarks, Zenon
<1>7. ASSUME RunFits(r) PROVE MediaInv'
  <2>1. running[r].changed /\ shop.media = {}
    BY <1>4, <1>7, Zenon DEF RunFits
  <2>2. shop'.media = shop.media \cup {running[r].images}
    BY <1>3, <2>1, Zenon
  <2>3. shop'.media = {running[r].images}
    BY <2>1, <2>2
  <2> QED
    BY <1>1, <1>4, <1>5, <2>1, <2>3, QuietMove, Zenon
<1>8. ASSUME ~RunFits(r) PROVE MediaInv'
  BY <1>1, <1>4, <1>6, <1>8, RunMoves, Zenon
<1> QED
  BY <1>3, <1>6, <1>7, <1>8, Zenon DEF Moved

LEMMA SavesHashKeeps ==
  ASSUME MediaIInv, NEW r \in Runs, SavesHash(r)
  PROVE  Moved /\ imageHash' \in 0 .. MaxImages
<1> USE DEF MediaIInv
<1>1. /\ IsAt(r, "save hash") /\ imageHash' = running[r].images /\ Finishes(r)
      /\ UNCHANGED <<images, shop, crossedRuns, reverted>>
  BY Zenon DEF SavesHash
<1>2. Running(r) /\ running[r].at = "save hash"
  BY <1>1 DEF Running, IsAt
<1>3. ASSUME RunFits(r) PROVE MediaFits'
  <2>1. running[r].images <= images /\ shop.media = {running[r].images}
    BY <1>2, <1>3, Zenon DEF RunFits
  <2> QED
    BY <1>1, <2>1, Zenon DEF MediaFits
<1>4. MediaInv'
  BY <1>1, <1>2, <1>3, QuietEnd, Zenon
<1>5. ImagesRead' /\ running' \in [Runs -> RunRecord]
  BY <1>1, EndKeepsMarks, Zenon
<1>6. shop' \in ShopRecord
  BY <1>1, Zenon DEF ShopRows
<1>7. running[r].images \in 0 .. MaxImages
  BY RunFacts DEF RunRecord
<1> QED
  BY <1>1, <1>4, <1>5, <1>6, <1>7, Zenon DEF Moved

LEMMA CreatesKeeps ==
  ASSUME MediaIInv, NEW r \in Runs, CreatesProduct(r)
  PROVE  Moved
<1> USE DEF MediaIInv
<1>1. /\ IsAt(r, "create") /\ RunGoesTo(r, "resolve") /\ UNCHANGED <<images, imageHash, crossedRuns, reverted>>
      /\ (shop' = [shop EXCEPT !.here = TRUE] \/ UNCHANGED shop)
  BY Zenon DEF CreatesProduct
<1>2. shop' \in ShopRecord /\ shop'.media = shop.media
  BY <1>1 DEF ShopRows, ShopRecord
<1>3. Running(r)
  BY <1>1 DEF Running, IsAt
<1>4. /\ "resolve" \in Steps /\ "resolve" # "upsert" /\ "resolve" # "relate"
      /\ "resolve" \notin {"purge media", "purge new media", "relate", "save hash"}  /\ "resolve" # "save hash"
  BY DEF Steps
<1>5. MediaInv'
  BY <1>1, <1>2, <1>3, <1>4, QuietMove, Zenon
<1>6. ImagesRead' /\ running' \in [Runs -> RunRecord]
  BY <1>1, <1>4, GoesKeepsMarks, Zenon
<1> QED
  BY <1>2, <1>5, <1>6, Zenon DEF Moved

LEMMA BreaksKeeps ==
  ASSUME MediaIInv, NEW r \in Runs, Running(r), Finishes(r), UNCHANGED <<images, imageHash, shop, crossedRuns, reverted>>
  PROVE  Moved
<1> USE DEF MediaIInv
<1>1. MediaFits => MediaFits'
  BY Zenon DEF MediaFits
<1>2. MediaInv'
  BY <1>1, QuietEnd, Zenon
<1>3. ImagesRead' /\ running' \in [Runs -> RunRecord]
  BY EndKeepsMarks, Zenon
<1>4. shop' \in ShopRecord
  BY Zenon DEF ShopRows
<1> QED
  BY <1>2, <1>3, <1>4, Zenon DEF Moved

LEMMA ResolvesKeeps ==
  ASSUME MediaIInv, NEW r \in Runs, Resolves(r)
  PROVE  Moved
<1> USE DEF MediaIInv
<1>1. Running(r) /\ UNCHANGED <<images, imageHash, shop, crossedRuns, reverted>>
  BY DEF Resolves, IsAt, Running
<1>2. CASE ~shop.here
  BY <1>1, <1>2, BreaksKeeps, Zenon DEF Resolves
<1>3. CASE shop.here
  <2>1. PICK x : x = [running[r] EXCEPT !.at = "purge new", !.prices = prices]
    OBVIOUS
  <2>2. running' = [running EXCEPT ![r] = x]
    BY <1>3, <2>1 DEF Resolves
  <2>3. prices \in 0 .. MaxPrices /\ running[r] \in RunRecord /\ "purge new" \in Steps
    BY CountFacts, RunFacts DEF Steps
  <2>4. x \in RunRecord /\ x.at = "purge new" /\ x.images = running[r].images /\ x.changed = running[r].changed
    BY <2>1, <2>3 DEF RunRecord
  <2>5. running' \in [Runs -> RunRecord] /\ running'[r] = x /\ OnlyRun(r)
    BY <2>2, <2>4 DEF ShopRows, OnlyRun
  <2>6. ImagesRead'
    BY <2>4, <2>5, KeepsMarks, Zenon
  <2>7. /\ "purge new" \notin {"purge media", "purge new media", "relate", "save hash"}
        /\ "purge new" # "upsert" /\ "purge new" # "relate" /\ "purge new" # "save hash"
    OBVIOUS
  <2>8. RunFits(r) => RunFits(r)'
    BY <1>1, <2>4, <2>5, <2>7, FitsBy, Zenon
  <2>9. MediaFits => MediaFits'
    BY <1>1, Zenon DEF MediaFits
  <2>10. MediaInv'
    BY <1>1, <2>5, <2>8, <2>9, RunMoves, Zenon
  <2>11. shop' \in ShopRecord
    BY <1>1, Zenon DEF ShopRows
  <2> QED
    BY <2>5, <2>6, <2>10, <2>11, Zenon DEF Moved
<1> QED
  BY <1>2, <1>3, Zenon

LEMMA RunStepKeeps ==
  ASSUME MediaIInv, ShopFlags, NEW r \in Runs, RunStep(r) \/ RunBreaks(r)
  PROVE  Moved
<1> USE DEF MediaIInv
<1>1. ASSUME StartsRun(r) PROVE Moved
  <2>1. MediaInv' /\ running' \in [Runs -> RunRecord] /\ OnlyRun(r) /\ running'[r].images = images
    BY <1>1, StartsRunKeeps, Zenon
  <2>2. images \in 1 .. MaxImages /\ shop' \in ShopRecord
    BY <1>1, Zenon DEF ShopCounts, StartsRun, ShopRows
  <2>3. ImagesRead'
    BY <2>1, <2>2, Zenon DEF ImagesRead, OnlyRun
  <2> QED
    BY <2>1, <2>2, <2>3, Zenon DEF Moved
<1>2. ASSUME Builds(r) PROVE Moved
  <2>1. /\ MediaInv' /\ running' \in [Runs -> RunRecord] /\ OnlyRun(r)
        /\ running'[r].changed = running[r].changed /\ running'[r].images = running[r].images
    BY <1>2, BuildsKeeps, Zenon
  <2>2. ImagesRead'
    BY <2>1, KeepsMarks, Zenon
  <2>3. shop' \in ShopRecord
    BY <1>2, Zenon DEF Builds, ShopRows
  <2> QED
    BY <2>1, <2>2, <2>3, Zenon DEF Moved
<1>3. ASSUME PurgesPrices(r) PROVE Moved
  BY <1>3, PurgesPricesKeeps, Zenon DEF Moved
<1>4. ASSUME PurgesMedia(r) PROVE Moved
  BY <1>4, PurgesMediaKeeps, Zenon DEF Moved
<1>5. ASSUME RunBreaks(r) PROVE Moved
  <2>1. Running(r) /\ Finishes(r) /\ UNCHANGED <<images, imageHash, shop, crossedRuns, reverted>>
    BY <1>5 DEF RunBreaks, Running, IsAt
  <2> QED
    BY <2>1, BreaksKeeps, Zenon
<1> QED
  BY <1>1, <1>2, <1>3, <1>4, <1>5, UpsertsKeeps, UpsertsNewKeeps, RelatesKeeps, SavesHashKeeps, CreatesKeeps,
     ResolvesKeeps, Zenon DEF RunStep

LEMMA ShopStepKeeps ==
  ASSUME MediaIInv, ShopFlags, [ShopNext]_shopVars
  PROVE  MediaIInv'
<1> USE DEF MediaIInv
<1>1. CASE UNCHANGED shopVars
  <2>1. /\ UNCHANGED prices /\ UNCHANGED images /\ UNCHANGED imageHash /\ UNCHANGED shop /\ UNCHANGED running
        /\ UNCHANGED crossedRuns /\ UNCHANGED reverted /\ UNCHANGED shopEdits /\ UNCHANGED shopFaults
    BY <1>1, Zenon DEF shopVars
  <2>2. ShopRows' /\ ShopCounts' /\ ImagesRead'
    BY <2>1, Zenon DEF ShopRows, ShopCounts, ImagesRead
  <2>3. MediaInv'
    BY <2>1, Zenon DEF MediaInv, RunFits, Running
  <2> QED
    BY <2>2, <2>3, Zenon
<1>2. CASE EditsPrices
  <2>1. UNCHANGED images /\ UNCHANGED imageHash /\ UNCHANGED shop /\ UNCHANGED running
        /\ UNCHANGED crossedRuns /\ UNCHANGED reverted /\ UNCHANGED shopFaults
    BY <1>2, Zenon DEF EditsPrices
  <2>2. prices' \in 1 .. MaxPrices /\ shopEdits' \in 0 .. MaxShopEdits
    BY <1>2, ShopBound DEF EditsPrices, ShopCounts
  <2>3. ShopRows' /\ ShopCounts' /\ ImagesRead'
    BY <2>1, <2>2, Zenon DEF ShopRows, ShopCounts, ImagesRead
  <2>4. MediaInv'
    BY <2>1, Zenon DEF MediaInv, RunFits, Running
  <2> QED
    BY <2>3, <2>4, Zenon
<1>3. ASSUME NEW v \in 1 .. MaxImages, EditsImages(v)
      PROVE  MediaIInv'
  <2>1. /\ UNCHANGED prices /\ images' = v /\ UNCHANGED imageHash /\ UNCHANGED shop /\ UNCHANGED running
        /\ UNCHANGED shopFaults
    BY <1>3, Zenon DEF EditsImages
  <2>2. shopEdits' \in 0 .. MaxShopEdits
    BY <1>3, ShopBound DEF EditsImages, ShopCounts
  <2>3. ShopRows' /\ ShopCounts' /\ ImagesRead'
    BY <2>1, <2>2, Zenon DEF ShopRows, ShopCounts, ImagesRead
  <2> QED
    BY <1>3, <2>3, EditsImagesKeeps, Zenon
<1>4. ASSUME NEW r \in Runs, RunStep(r) \/ RunBreaks(r)
      PROVE  MediaIInv'
  <2>1. Moved
    BY <1>4, RunStepKeeps, Zenon
  <2>2. UNCHANGED prices /\ UNCHANGED images /\ UNCHANGED shopEdits
    BY <1>4, Zenon DEF RunStep, RunBreaks, StartsRun, Builds, PurgesPrices, PurgesMedia, Upserts, UpsertsNew,
       Relates, SavesHash, CreatesProduct, Resolves
  <2>3. UNCHANGED imageHash \/ SavesHash(r)
    BY <1>4, Zenon DEF RunStep, RunBreaks, StartsRun, Builds, PurgesPrices, PurgesMedia, Upserts, UpsertsNew,
       Relates, CreatesProduct, Resolves
  <2>4. imageHash' \in 0 .. MaxImages
    BY <2>3, SavesHashKeeps, Zenon DEF ShopCounts
  <2>5. UNCHANGED shopFaults \/ (shopFaults < MaxShopFaults /\ shopFaults' = shopFaults + 1)
    BY <1>4, Zenon DEF RunStep, RunBreaks, StartsRun, Builds, PurgesPrices, PurgesMedia, Upserts, UpsertsNew,
       Relates, SavesHash, CreatesProduct, Resolves
  <2>6. shopFaults' \in 0 .. MaxShopFaults
    BY <2>5, ShopBound DEF ShopCounts
  <2> QED
    BY <2>1, <2>2, <2>4, <2>6, Zenon DEF Moved, ShopRows, ShopCounts
<1> QED
  BY <1>1, <1>2, <1>3, <1>4, Zenon DEF ShopNext

LEMMA ShopFlagsKept ==
  ASSUME ShopFlags, [ShopNext]_shopVars
  PROVE  ShopFlags'
  BY Zenon DEF ShopFlags, ShopNext, shopVars, EditsPrices, EditsImages, RunStep, RunBreaks, StartsRun, Builds,
     PurgesPrices, PurgesMedia, Upserts, UpsertsNew, Relates, SavesHash, CreatesProduct, Resolves

LEMMA ShopStarts ==
  ASSUME ShopInit
  PROVE  MediaIInv /\ ShopFlags
<1>1. prices = 1 /\ images = 1 /\ shopEdits = 0 /\ shopFaults = 0 /\ running = [r \in Runs |-> NotRunning]
      /\ crossedRuns = FALSE /\ reverted = FALSE
  BY Zenon DEF ShopInit
<1>2. PICK x : x = NotRunning
  OBVIOUS
<1>3. x \in RunRecord /\ x.at = "off"
  BY <1>2, NotRunningFacts, Zenon
<1>4. ~x.changed
  BY <1>2 DEF NotRunning
<1>5. \A r \in Runs : running[r] = x
  BY <1>1, <1>2
<1>6. running \in [Runs -> RunRecord] /\ (\A r \in Runs : ~Running(r))
  BY <1>1, <1>2, <1>3, <1>5 DEF Running
<1>7. ImagesRead
  BY <1>4, <1>5, Zenon DEF ImagesRead
<1>8. NoRows \in [Kinds -> 0 .. MaxPrices] /\ [NoRows EXCEPT !["standard"] = 1] \in [Kinds -> 0 .. MaxPrices]
  BY ShopBound DEF NoRows, Kinds
<1>9. \/ imageHash = 0 /\ shop \in ShopRecord
      \/ imageHash = 1 /\ shop \in ShopRecord /\ shop.media = {1}
  <2>1. PICK n, m : n = NoRows /\ m = [NoRows EXCEPT !["standard"] = 1]
    OBVIOUS
  <2>2. n \in [Kinds -> 0 .. MaxPrices] /\ m \in [Kinds -> 0 .. MaxPrices]
    BY <1>8, <2>1, Zenon
  <2>3. \/ imageHash = 0 /\ \E here \in BOOLEAN : shop = [here |-> here, rows |-> n, media |-> {}]
        \/ imageHash = 1 /\ shop = [here |-> TRUE, rows |-> m, media |-> {1}]
    BY <2>1, Zenon DEF ShopInit
  <2>4. {} \in SUBSET (1 .. MaxImages) /\ {1} \in SUBSET (1 .. MaxImages)
    BY ShopBound
  <2>5. \A here \in BOOLEAN : [here |-> here, rows |-> n, media |-> {}] \in ShopRecord
    BY <2>2, <2>4 DEF ShopRecord
  <2>6. [here |-> TRUE, rows |-> m, media |-> {1}] \in ShopRecord
    BY <2>2, <2>4 DEF ShopRecord
  <2>7. ASSUME imageHash = 1 /\ shop = [here |-> TRUE, rows |-> m, media |-> {1}]
        PROVE  imageHash = 1 /\ shop \in ShopRecord /\ shop.media = {1}
    BY <2>6, <2>7
  <2>8. ASSUME NEW here \in BOOLEAN, shop = [here |-> here, rows |-> n, media |-> {}]
        PROVE  shop \in ShopRecord
    BY <2>5, <2>8, Zenon
  <2> QED
    BY <2>3, <2>7, <2>8, Zenon
<1>10. ShopRows /\ ShopCounts
  <2>1. imageHash \in 0 .. MaxImages /\ 1 \in 1 .. MaxPrices /\ 1 \in 1 .. MaxImages /\ 0 \in 0 .. MaxShopEdits
        /\ 0 \in 0 .. MaxShopFaults
    BY <1>9, ShopBound
  <2> QED
    BY <1>1, <1>6, <1>9, <2>1, Zenon DEF ShopRows, ShopCounts
<1>11. MediaFits
  <2>1. imageHash <= images /\ (imageHash = images => imageHash = 1)
    BY <1>1, <1>9
  <2>2. imageHash = 1 => shop.media = {1}
    BY <1>9
  <2> QED
    BY <1>1, <2>1, <2>2, Zenon DEF MediaFits
<1>12. MediaInv
  BY <1>6, <1>11, Zenon DEF MediaInv, MediaFits
<1>13. sku \in BOOLEAN
  BY Zenon DEF ShopInit
<1> QED
  BY <1>1, <1>7, <1>10, <1>12, <1>13, Zenon DEF MediaIInv, ShopFlags

(* What is known of the product in Django, in Shopware and in a run under way  *)
(* has the type it is declared with; a run that writes images read some.       *)
THEOREM ShopTypeCorrect == ShopSpec => []ShopTypeOK
<1>1. MediaIInv /\ ShopFlags => ShopTypeOK
  BY ShopTypeParts, Zenon DEF MediaIInv
<1> QED
  BY <1>1, ShopStarts, ShopStepKeeps, ShopFlagsKept, PTL DEF ShopSpec

(* The image hash of a product tells what the shop shows, wherever runs of     *)
(* shopware_sync_products broke off: with no run under way, no two runs having  *)
(* met and no earlier images brought back, a hash of the current images means   *)
(* that Shopware has these images and no others.                             *)
THEOREM HashIsTrue == ShopSpec => []HashTellsMedia
<1>1. MediaIInv => HashTellsMedia
  BY Zenon DEF MediaIInv, MediaInv, HashTellsMedia
<1> QED
  BY <1>1, ShopStarts, ShopStepKeeps, ShopFlagsKept, PTL DEF ShopSpec

-----------------------------------------------------------------------------
(* Categories.  Everything below some rows, the recursion of Below unfolded:   *)
(* induction over the number of steps is by the least one that fails.         *)
LEMMA SomeLeast ==
  ASSUME NEW S, S \subseteq Nat, S # {}
  PROVE  \E x \in S : \A y \in S : x <= y
<1>1. PICK R : R = OpToRel(<, Nat)
  OBVIOUS
<1>2. R = {ss \in Nat \X Nat : ss[1] < ss[2]}
  BY <1>1, Zenon DEF OpToRel
<1>3. IsWellFoundedOn(R, Nat)
  BY <1>1, NatLessThanWellFounded, Zenon
<1>4. PICK x \in S : \A y \in S : ~ (<<y, x>> \in R)
  BY <1>3, WFMin
<1>5. \A y \in S : x <= y
  <2> SUFFICES ASSUME NEW y \in S PROVE x <= y
    OBVIOUS
  <2>1. x \in Nat /\ y \in Nat
    OBVIOUS
  <2>2. y < x => <<y, x>> \in R
    BY <1>2, <2>1
  <2> QED
    BY <1>4, <2>1, <2>2
<1> QED
  BY <1>4, <1>5

Unrolls(f, N, S, parent, within) ==
  f = [n \in 0 .. N |-> IF n = 0 THEN S \cap within
                        ELSE f[n - 1] \cup {c \in within : parent[c] \in f[n - 1]}]

LEMMA ReachExists ==
  ASSUME NEW S, NEW parent, NEW within, NEW N \in Nat
  PROVE  \E f : Unrolls(f, N, S, parent, within)
<1> DEFINE Bad == {n \in Nat : ~ \E f : Unrolls(f, n, S, parent, within)}
<1> SUFFICES ASSUME Bad # {} PROVE FALSE
  OBVIOUS
<1>1. PICK m \in Bad : \A n \in Bad : m <= n
  <2>1. Bad \subseteq Nat
    OBVIOUS
  <2> HIDE DEF Bad
  <2> QED
    BY <2>1, SomeLeast
<1>2. m \in Nat /\ ~ \E f : Unrolls(f, m, S, parent, within)
  BY <1>1
<1>3. CASE m = 0
  <2>1. PICK f : f = [n \in 0 .. 0 |-> S \cap within]
    OBVIOUS
  <2>2. Unrolls(f, 0, S, parent, within)
    BY <2>1 DEF Unrolls
  <2> QED
    BY <1>2, <1>3, <2>2
<1>4. CASE m # 0
  <2>1. m - 1 \in Nat /\ m - 1 \notin Bad
    BY <1>1, <1>2, <1>4
  <2>2. PICK f : Unrolls(f, m - 1, S, parent, within)
    BY <2>1
  <2>3. PICK g : g = [n \in 0 .. m |-> IF n = m THEN f[m - 1] \cup {c \in within : parent[c] \in f[m - 1]} ELSE f[n]]
    OBVIOUS
  <2>4. \A n \in 0 .. m - 1 : g[n] = f[n]
    BY <1>2, <2>3
  <2>5. g[m] = f[m - 1] \cup {c \in within : parent[c] \in f[m - 1]}
    BY <1>2, <2>3
  <2>6. \A n \in 0 .. m : g[n] = IF n = 0 THEN S \cap within ELSE g[n - 1] \cup {c \in within : parent[c] \in g[n - 1]}
    <3> SUFFICES ASSUME NEW n \in 0 .. m
                 PROVE  g[n] = IF n = 0 THEN S \cap within ELSE g[n - 1] \cup {c \in within : parent[c] \in g[n - 1]}
      OBVIOUS
    <3>1. CASE n = m
      <4>1. g[m - 1] = f[m - 1]
        BY <1>2, <1>4, <2>4
      <4> QED
        BY <1>4, <2>5, <3>1, <4>1
    <3>2. CASE n = 0
      <4>1. 0 \in 0 .. m - 1
        BY <1>2, <1>4
      <4>2. f[0] = S \cap within
        BY <2>2, <4>1 DEF Unrolls
      <4> QED
        BY <2>4, <3>2, <4>1, <4>2
    <3>3. CASE n # m /\ n # 0
      <4>1. n \in 0 .. m - 1 /\ n - 1 \in 0 .. m - 1
        BY <1>2, <3>3
      <4>2. f[n] = f[n - 1] \cup {c \in within : parent[c] \in f[n - 1]}
        BY <2>2, <3>3, <4>1 DEF Unrolls
      <4> QED
        BY <2>4, <3>3, <4>1, <4>2
    <3> QED
      BY <3>1, <3>2, <3>3
  <2>7. Unrolls(g, m, S, parent, within)
    <3>1. g = [n \in 0 .. m |-> g[n]]
      BY <2>3
    <3> QED
      BY <2>6, <3>1, Zenon DEF Unrolls
  <2> QED
    BY <1>2, <2>7
<1> QED
  BY <1>3, <1>4

LEMMA BelowUnfolds ==
  ASSUME NEW S, NEW parent, NEW within, Cardinality(within) \in Nat
  PROVE  \E f : Unrolls(f, Cardinality(within), S, parent, within) /\ Below(S, parent, within) = f[Cardinality(within)]
<1>1. PICK g : g = CHOOSE f : f = [n \in 0 .. Cardinality(within) |->
                 IF n = 0 THEN S \cap within ELSE f[n - 1] \cup {c \in within : parent[c] \in f[n - 1]}]
  OBVIOUS
<1>2. \E f : f = [n \in 0 .. Cardinality(within) |->
                 IF n = 0 THEN S \cap within ELSE f[n - 1] \cup {c \in within : parent[c] \in f[n - 1]}]
  <2>1. PICK f : Unrolls(f, Cardinality(within), S, parent, within)
    BY ReachExists
  <2> QED
    BY <2>1, Zenon DEF Unrolls
<1>3. g = [n \in 0 .. Cardinality(within) |->
                 IF n = 0 THEN S \cap within ELSE g[n - 1] \cup {c \in within : parent[c] \in g[n - 1]}]
  BY <1>1, <1>2, Zenon
<1>4. Below(S, parent, within) = g[Cardinality(within)]
  BY <1>1, Zenon DEF Below
<1> QED
  BY <1>3, <1>4, Zenon DEF Unrolls

Climbs(f, N, S, parent, within) ==
  /\ f[0] = S \cap within
  /\ \A n \in 0 .. N : n # 0 => f[n] = f[n - 1] \cup {c \in within : parent[c] \in f[n - 1]}
  /\ \A n \in 0 .. N : f[n] \subseteq within /\ S \cap within \subseteq f[n]

LEMMA ReachStep ==
  ASSUME NEW S, NEW parent, NEW within, NEW N \in Nat, NEW f, Unrolls(f, N, S, parent, within)
  PROVE  Climbs(f, N, S, parent, within)
<1>1. \A n \in 0 .. N : f[n] = IF n = 0 THEN S \cap within ELSE f[n - 1] \cup {c \in within : parent[c] \in f[n - 1]}
  <2>1. PICK g : g = [n \in 0 .. N |-> IF n = 0 THEN S \cap within ELSE f[n - 1] \cup {c \in within : parent[c] \in f[n - 1]}]
    OBVIOUS
  <2>2. f = g
    BY <2>1, Zenon DEF Unrolls
  <2>3. \A n \in 0 .. N : g[n] = IF n = 0 THEN S \cap within ELSE f[n - 1] \cup {c \in within : parent[c] \in f[n - 1]}
    BY <2>1
  <2> SUFFICES ASSUME NEW n \in 0 .. N
               PROVE  f[n] = IF n = 0 THEN S \cap within ELSE f[n - 1] \cup {c \in within : parent[c] \in f[n - 1]}
    OBVIOUS
  <2>4. g[n] = IF n = 0 THEN S \cap within ELSE f[n - 1] \cup {c \in within : parent[c] \in f[n - 1]}
    BY <2>3
  <2>5. f[n] = g[n]
    BY <2>2, Zenon
  <2> QED
    BY <2>4, <2>5
<1>2. f[0] = S \cap within
  <2>1. 0 \in 0 .. N
    OBVIOUS
  <2> QED
    BY <1>1, <2>1, Zenon
<1>3. \A n \in 0 .. N : n # 0 => f[n] = f[n - 1] \cup {c \in within : parent[c] \in f[n - 1]}
  BY <1>1
<1> DEFINE Bad == {n \in 0 .. N : ~ (f[n] \subseteq within /\ S \cap within \subseteq f[n])}
<1>4. Bad = {}
  <2> SUFFICES ASSUME Bad # {} PROVE FALSE
    OBVIOUS
  <2>1. PICK m \in Bad : \A n \in Bad : m <= n
    <3>1. Bad \subseteq Nat
      OBVIOUS
    <3> HIDE DEF Bad
    <3> QED
      BY <3>1, SomeLeast
  <2>2. m \in 0 .. N /\ ~ (f[m] \subseteq within /\ S \cap within \subseteq f[m])
    BY <2>1
  <2>3. m # 0
    BY <1>2, <2>2
  <2>4. m - 1 \in 0 .. N /\ m - 1 \notin Bad
    BY <2>1, <2>2, <2>3
  <2>5. f[m - 1] \subseteq within /\ S \cap within \subseteq f[m - 1]
    BY <2>4
  <2>6. f[m] = f[m - 1] \cup {c \in within : parent[c] \in f[m - 1]}
    BY <1>3, <2>2, <2>3
  <2> QED
    BY <2>2, <2>5, <2>6
<1> QED
  BY <1>2, <1>3, <1>4 DEF Climbs

(* Either the steps have stopped to reach anything new, or each has.          *)
LEMMA ReachGrows ==
  ASSUME NEW S, NEW parent, NEW within, IsFiniteSet(within), NEW N \in Nat, NEW f, Climbs(f, N, S, parent, within)
  PROVE  Cardinality(f[N]) >= N \/ \E k \in 0 .. N : k < N /\ f[k + 1] = f[k]
<1> DEFINE Bad == {n \in 0 .. N : ~ (Cardinality(f[n]) >= n \/ \E k \in 0 .. N : k < n /\ f[k + 1] = f[k])}
<1>1. Bad = {}
  <2> SUFFICES ASSUME Bad # {} PROVE FALSE
    OBVIOUS
  <2>1. PICK m \in Bad : \A n \in Bad : m <= n
    <3>1. Bad \subseteq Nat
      OBVIOUS
    <3> HIDE DEF Bad
    <3> QED
      BY <3>1, SomeLeast
  <2>2. m \in 0 .. N /\ ~ (Cardinality(f[m]) >= m) /\ \A k \in 0 .. N : k < m => f[k + 1] # f[k]
    BY <2>1
  <2>3. \A n \in 0 .. N : IsFiniteSet(f[n]) /\ Cardinality(f[n]) \in Nat
    <3>1. \A n \in 0 .. N : f[n] \subseteq within
      BY DEF Climbs
    <3> QED
      BY <3>1, FS_Subset, FS_CardinalityType
  <2>4. m # 0
    BY <2>2, <2>3
  <2>5. m - 1 \in 0 .. N /\ m - 1 \notin Bad
    BY <2>1, <2>2, <2>4
  <2>6. Cardinality(f[m - 1]) >= m - 1
    BY <2>2, <2>5
  <2>7. f[m] # f[m - 1]
    <3>1. m - 1 < m /\ (m - 1) + 1 = m
      BY <2>2
    <3>2. f[(m - 1) + 1] # f[m - 1]
      BY <2>2, <2>5, <3>1
    <3> QED
      BY <3>1, <3>2
  <2>8. f[m - 1] \subseteq f[m]
    <3>1. \A n \in 0 .. N : n # 0 => f[n] = f[n - 1] \cup {c \in within : parent[c] \in f[n - 1]}
      BY DEF Climbs
    <3>2. f[m] = f[m - 1] \cup {c \in within : parent[c] \in f[m - 1]}
      BY <2>2, <2>4, <3>1
    <3> QED
      BY <3>2
  <2>9. Cardinality(f[m - 1]) < Cardinality(f[m])
    <3>1. /\ Cardinality(f[m - 1]) <= Cardinality(f[m])
          /\ Cardinality(f[m - 1]) = Cardinality(f[m]) => f[m - 1] = f[m]
      BY <2>2, <2>3, <2>8, FS_Subset
    <3> QED
      BY <2>2, <2>3, <2>5, <2>7, <3>1
  <2> QED
    BY <2>2, <2>3, <2>5, <2>6, <2>9
<1> QED
  BY <1>1

(* Once a step reaches nothing new, none does.                               *)
LEMMA ReachStays ==
  ASSUME NEW S, NEW parent, NEW within, NEW N \in Nat, NEW f, Climbs(f, N, S, parent, within),
         NEW k \in 0 .. N, k < N, f[k + 1] = f[k]
  PROVE  f[N] = f[k]
<1> DEFINE Bad == {n \in 0 .. N : n >= k /\ f[n] # f[k]}
<1>1. Bad = {}
  <2> SUFFICES ASSUME Bad # {} PROVE FALSE
    OBVIOUS
  <2>1. PICK m \in Bad : \A n \in Bad : m <= n
    <3>1. Bad \subseteq Nat
      OBVIOUS
    <3> HIDE DEF Bad
    <3> QED
      BY <3>1, SomeLeast
  <2>2. m \in 0 .. N /\ m > k /\ f[m] # f[k]
    BY <2>1
  <2>3. m - 1 \in 0 .. N /\ m - 1 >= k /\ m - 1 \notin Bad /\ m # 0
    BY <2>1, <2>2
  <2>4. f[m - 1] = f[k]
    BY <2>3
  <2>9. \A n \in 0 .. N : n # 0 => f[n] = f[n - 1] \cup {c \in within : parent[c] \in f[n - 1]}
    BY DEF Climbs
  <2>5. f[m] = f[m - 1] \cup {c \in within : parent[c] \in f[m - 1]}
    BY <2>2, <2>3, <2>9
  <2>6. f[k + 1] = f[k] \cup {c \in within : parent[c] \in f[k]}
    <3>1. k + 1 \in 0 .. N /\ k + 1 # 0 /\ (k + 1) - 1 = k
      OBVIOUS
    <3>2. f[k + 1] = f[(k + 1) - 1] \cup {c \in within : parent[c] \in f[(k + 1) - 1]}
      BY <2>9, <3>1
    <3> QED
      BY <3>1, <3>2
  <2> QED
    BY <2>2, <2>4, <2>5, <2>6
<1> QED
  BY <1>1

(* _descendants and the tree's own queries: rows of the table, the given ones  *)
(* among them, with every row whose parent is one, and none that hangs from    *)
(* nothing: a part of them has a row that is given or hangs outside the part.  *)
LEMMA BelowIs ==
  ASSUME NEW S, NEW parent, NEW within, IsFiniteSet(within)
  PROVE  /\ Below(S, parent, within) \subseteq within
         /\ S \cap within \subseteq Below(S, parent, within)
         /\ \A d \in within : parent[d] \in Below(S, parent, within) => d \in Below(S, parent, within)
         /\ \A T : T \subseteq Below(S, parent, within) /\ T # {} => \E c \in T : c \in S \/ parent[c] \notin T
<1>1. PICK N \in Nat : N = Cardinality(within)
  BY FS_CardinalityType
<1>2. PICK f : Unrolls(f, N, S, parent, within) /\ Below(S, parent, within) = f[N]
  BY <1>1, BelowUnfolds
<1>7. Climbs(f, N, S, parent, within)
  BY <1>2, ReachStep, Zenon
<1>3. \A n \in 0 .. N : n # 0 => f[n] = f[n - 1] \cup {c \in within : parent[c] \in f[n - 1]}
  BY <1>7 DEF Climbs
<1>4. f[N] \subseteq within /\ S \cap within \subseteq f[N] /\ f[0] = S \cap within
  <2>1. f[0] = S \cap within /\ \A n \in 0 .. N : f[n] \subseteq within /\ S \cap within \subseteq f[n]
    BY <1>7 DEF Climbs
  <2>2. N \in 0 .. N
    OBVIOUS
  <2> QED
    BY <2>1, <2>2, Zenon
<1>5. \A d \in within : parent[d] \in f[N] => d \in f[N]
  <2>1. CASE Cardinality(f[N]) >= N
    <3>1. f[N] = within
      <4>1. /\ IsFiniteSet(f[N]) /\ Cardinality(f[N]) <= Cardinality(within)
            /\ Cardinality(f[N]) = Cardinality(within) => f[N] = within
        BY <1>4, FS_Subset
      <4>2. Cardinality(f[N]) \in Nat
        BY <4>1, FS_CardinalityType
      <4> QED
        BY <1>1, <2>1, <4>1, <4>2
    <3> QED
      BY <3>1
  <2>2. CASE \E k \in 0 .. N : k < N /\ f[k + 1] = f[k]
    <3>1. PICK k \in 0 .. N : k < N /\ f[k + 1] = f[k]
      BY <2>2
    <3>2. f[N] = f[k]
      BY <1>7, <3>1, ReachStays
    <3>3. k + 1 \in 0 .. N /\ k + 1 # 0 /\ (k + 1) - 1 = k
      BY <3>1
    <3>4. f[k + 1] = f[(k + 1) - 1] \cup {c \in within : parent[c] \in f[(k + 1) - 1]}
      BY <1>3, <3>3
    <3> QED
      BY <3>1, <3>2, <3>3, <3>4
  <2> QED
    BY <1>1, <1>7, <2>1, <2>2, ReachGrows
<1>6. ASSUME NEW T, T \subseteq f[N], T # {}
      PROVE  \E c \in T : c \in S \/ parent[c] \notin T
  <2> DEFINE Met == {n \in 0 .. N : f[n] \cap T # {}}
  <2>1. PICK m \in Met : \A n \in Met : m <= n
    <3>1. Met \subseteq Nat
      OBVIOUS
    <3>2. N \in Met
      BY <1>6
    <3> HIDE DEF Met
    <3> QED
      BY <3>1, <3>2, SomeLeast
  <2>2. m \in 0 .. N
    BY <2>1
  <2>3. PICK c \in T : c \in f[m]
    BY <2>1
  <2>4. CASE m = 0
    BY <1>4, <2>3, <2>4
  <2>5. CASE m # 0
    <3>1. m - 1 \in 0 .. N /\ m - 1 \notin Met
      BY <2>1, <2>2, <2>5
    <3>2. f[m - 1] \cap T = {}
      BY <3>1
    <3>3. f[m] = f[m - 1] \cup {d \in within : parent[d] \in f[m - 1]}
      BY <1>3, <2>2, <2>5
    <3> QED
      BY <2>3, <3>2, <3>3
  <2> QED
    BY <2>4, <2>5
<1> QED
  BY <1>2, <1>4, <1>5, <1>6
-----------------------------------------------------------------------------
(* The tree.  Shopware's root hangs from nothing, and so does the root that    *)
(* the import has read (RootStands, RootRead): whatever it read of the rest at  *)
(* different moments, what is below the root begins at the root.              *)
LocalRows == DOMAIN local = Cats /\ \A c \in Cats : {"here", "parent"} \subseteq DOMAIN local[c]
RootStands == DOMAIN shopRow = Cats /\ "parent" \in DOMAIN shopRow[Root] /\ shopRow[Root].parent = Nowhere
RootRead ==
  /\ {"pc", "parent", "known"} \subseteq DOMAIN import
  /\ import.known \subseteq Cats /\ import.parent[Root] = Nowhere

CatIInv == LocalRows /\ TreeStaysATree /\ RootStands /\ RootRead

LEMMA CatSets ==
  /\ IsFiniteSet(Cats) /\ Root \in Cats /\ Nowhere \notin Cats
  /\ Remote \subseteq Cats /\ Local \subseteq Cats /\ IsFiniteSet(Remote) /\ IsFiniteSet(Local)
<1>1. IsFiniteSet(Cats) /\ Root \in Cats /\ Cats \subseteq Nat \ {0}
  BY CatAssumption
<1>2. Nowhere \notin Cats
  BY <1>1 DEF Nowhere
<1>3. Remote \subseteq Cats /\ Local \subseteq Cats
  BY Zenon DEF Remote, Local
<1> QED
  BY <1>1, <1>2, <1>3, FS_Subset

LEMMA LocalShrinks ==
  ASSUME TreeStaysATree, DOMAIN local' = Cats, \A c \in Cats : {"here", "parent"} \subseteq DOMAIN local'[c],
         \A c \in Cats : local'[c].here => local[c].here /\ local'[c].parent = local[c].parent
  PROVE  LocalRows' /\ TreeStaysATree'
<1>1. LocalRows'
  BY Zenon DEF LocalRows
<1>2. Local' \subseteq Local
  BY Zenon DEF Local
<1>3. \A c \in Local' : LocalParent'[c] = LocalParent[c]
  <2> SUFFICES ASSUME NEW c \in Local' PROVE LocalParent'[c] = LocalParent[c]
    OBVIOUS
  <2>1. c \in Cats /\ local'[c].here
    BY Zenon DEF Local
  <2>2. local'[c].parent = local[c].parent
    BY <2>1, Zenon
  <2>3. LocalParent'[c] = local'[c].parent /\ LocalParent[c] = local[c].parent
    BY <2>1 DEF LocalParent
  <2> QED
    BY <2>2, <2>3
<1>4. Forest(Local', LocalParent')
  <2>1. Forest(Local, LocalParent)
    BY Zenon DEF TreeStaysATree
  <2> SUFFICES ASSUME NEW T, T \subseteq Local', T # {} PROVE \E c \in T : LocalParent'[c] \notin T
    BY DEF Forest
  <2>2. PICK c \in T : LocalParent[c] \notin T
    BY <1>2, <2>1 DEF Forest
  <2> QED
    BY <1>3, <2>2
<1> QED
  BY <1>1, <1>4, Zenon DEF TreeStaysATree

LEMMA LocalStays == UNCHANGED local /\ LocalRows /\ TreeStaysATree => LocalRows' /\ TreeStaysATree'
  BY Zenon DEF LocalRows, TreeStaysATree, Forest, Local, LocalParent

LEMMA PersonMovesKeeps ==
  ASSUME CatIInv, NEW c \in Cats, NEW p, PersonMoves(c, p)
  PROVE  LocalRows' /\ TreeStaysATree'
<1> DEFINE below == Below({c}, LocalParent, Local)
<1>1. /\ c \in Local /\ p \in (Local \cup {Nowhere}) \ below
      /\ local' = [local EXCEPT ![c].parent = p]
  BY Zenon DEF PersonMoves
<1>2. DOMAIN local = Cats /\ \A d \in Cats : {"here", "parent"} \subseteq DOMAIN local[d]
  BY Zenon DEF CatIInv, LocalRows
<1>3. /\ DOMAIN local' = Cats /\ \A d \in Cats : {"here", "parent"} \subseteq DOMAIN local'[d]
      /\ local'[c].parent = p
      /\ \A d \in Cats \ {c} : local'[d] = local[d]
  BY <1>1, <1>2
<1>4. local'[c].here = local[c].here
  BY <1>1, <1>2
<1>5. Local' = Local
  BY <1>3, <1>4, Zenon DEF Local
<1>6. LocalParent'[c] = p /\ \A d \in Cats \ {c} : LocalParent'[d] = LocalParent[d]
  BY <1>3 DEF LocalParent
<1>7. /\ c \in below
      /\ \A d \in Local : LocalParent[d] \in below => d \in below
  <2>1. IsFiniteSet(Local)
    BY CatSets, Zenon
  <2>2. /\ {c} \cap Local \subseteq below
        /\ \A d \in Local : LocalParent[d] \in below => d \in below
    BY <2>1, BelowIs, Zenon
  <2> QED
    BY <1>1, <2>2
<1> HIDE DEF below
<1>8. Forest(Local', LocalParent')
  <2> SUFFICES ASSUME NEW T, T \subseteq Local', T # {}, \A d \in T : LocalParent'[d] \in T PROVE FALSE
    BY DEF Forest
  <2>5. T \subseteq Local
    BY <1>5
  <2>1. T \subseteq Cats /\ Nowhere \notin T
    BY <2>5, CatSets
  <2>2. Forest(Local, LocalParent)
    BY Zenon DEF CatIInv, TreeStaysATree
  <2>3. CASE c \notin T
    <3>1. PICK d \in T : LocalParent[d] \notin T
      BY <2>2, <2>5 DEF Forest
    <3> QED
      BY <1>6, <2>1, <2>3, <3>1
  <2>4. CASE c \in T
    <3>1. p \in T \ below
      BY <1>1, <1>6, <2>4
    <3>2. PICK d \in T \ below : LocalParent[d] \notin T \ below
      <4>1. T \ below \subseteq Local /\ T \ below # {}
        BY <2>5, <3>1
      <4> QED
        BY <2>2, <4>1 DEF Forest
    <3>3. d # c
      BY <1>7, <3>2
    <3>4. LocalParent[d] \in T
      BY <1>6, <2>1, <3>2, <3>3
    <3> QED
      BY <1>7, <2>5, <3>2, <3>4
  <2> QED
    BY <2>3, <2>4
<1> QED
  BY <1>3, <1>8, Zenon DEF LocalRows, TreeStaysATree

LEMMA ImportWritesTreeKeeps ==
  ASSUME CatIInv, ImportWritesTree
  PROVE  LocalRows' /\ TreeStaysATree'
<1>1. LocalRows /\ TreeStaysATree /\ import.known \subseteq Cats /\ import.parent[Root] = Nowhere
  BY Zenon DEF CatIInv, RootRead
<1>2. CASE UNCHANGED local
  BY <1>1, <1>2, LocalStays, Zenon
<1>3. CASE ~ UNCHANGED local
  <2> DEFINE place(c) == LET list == InOrder(Siblings(Scope, ScopedParent, ScopedParent[c]), import.after)
                         IN  CHOOSE i \in DOMAIN list : list[i] = c
  <2>1. local' = [c \in Cats |-> IF c \in Scope
                    THEN [here |-> TRUE, parent |-> ScopedParent[c], place |-> place(c), products |-> local[c].products]
                    ELSE local[c]]
    BY <1>3, Zenon DEF ImportWritesTree
  <2> HIDE DEF place
  <2>2. /\ DOMAIN local' = Cats
        /\ \A c \in Cats \cap Scope : /\ {"here", "parent"} \subseteq DOMAIN local'[c]
                                      /\ local'[c].parent = ScopedParent[c]
        /\ \A c \in Cats \ Scope : local'[c] = local[c]
    BY <2>1
  <2>3. \A c \in Cats : {"here", "parent"} \subseteq DOMAIN local'[c]
    BY <1>1, <2>2 DEF LocalRows
  <2>4. LocalRows'
    BY <2>2, <2>3, Zenon DEF LocalRows
  <2>5. Scope \subseteq Cats
        /\ \A T : T \subseteq Scope /\ T # {} => \E c \in T : c \in {Root} \/ import.parent[c] \notin T
    <3>1. IsFiniteSet(import.known)
      BY <1>1, CatSets, FS_Subset
    <3>2. Scope \subseteq import.known
          /\ \A T : T \subseteq Scope /\ T # {} => \E c \in T : c \in {Root} \/ import.parent[c] \notin T
      BY <3>1, BelowIs, Zenon DEF Scope
    <3> QED
      BY <1>1, <3>2, Zenon
  <2>6. \A c \in Cats : ScopedParent[c] = IF import.parent[c] \in Scope THEN import.parent[c] ELSE Nowhere
    BY Zenon DEF ScopedParent
  <2>7. Forest(Local', LocalParent')
    <3> SUFFICES ASSUME NEW T, T \subseteq Local', T # {}, \A c \in T : LocalParent'[c] \in T PROVE FALSE
      BY DEF Forest
    <3>1. T \subseteq Cats /\ Nowhere \notin T
      <4>1. Local' \subseteq Cats
        BY Zenon DEF Local
      <4> QED
        BY <4>1, CatSets
    <3>2. \A c \in T : local'[c].here /\ local'[c].parent \in T
      <4>1. \A c \in T : local'[c].here
        BY Zenon DEF Local
      <4>2. \A c \in T : local'[c].parent = LocalParent'[c]
        BY <3>1 DEF LocalParent
      <4> QED
        BY <4>1, <4>2, Zenon
    <3>3. CASE T \cap Scope = {}
      <4>1. \A c \in T : local'[c] = local[c]
        BY <2>2, <3>1, <3>3
      <4>2. \A c \in T : local[c].here /\ local[c].parent \in T
        BY <3>2, <4>1, Zenon
      <4>3. T \subseteq Local
        BY <3>1, <4>2, Zenon DEF Local
      <4>4. PICK c \in T : LocalParent[c] \notin T
        BY <1>1, <4>3 DEF TreeStaysATree, Forest
      <4>5. LocalParent[c] = local[c].parent
        BY <3>1 DEF LocalParent
      <4> QED
        BY <4>2, <4>4, <4>5, Zenon
    <3>4. CASE T \cap Scope # {}
      <4>1. PICK c \in T \cap Scope : c \in {Root} \/ import.parent[c] \notin T \cap Scope
        <5>1. T \cap Scope \subseteq Scope
          OBVIOUS
        <5> QED
          BY <2>5, <3>4, <5>1, Zenon
      <4>2. ScopedParent[c] \in T
        BY <2>2, <3>1, <3>2, <4>1, Zenon
      <4>3. c \in Cats
        BY <3>1, <4>1
      <4>4. ScopedParent[c] # Nowhere
        BY <3>1, <4>2
      <4>5. import.parent[c] \in Scope /\ ScopedParent[c] = import.parent[c]
        BY <2>6, <4>3, <4>4, Zenon
      <4>6. c = Root
        BY <4>1, <4>2, <4>5
      <4> QED
        BY <1>1, <4>4, <4>5, <4>6, Zenon
    <3> QED
      BY <3>3, <3>4
  <2> QED
    BY <2>4, <2>7, Zenon DEF TreeStaysATree
<1> QED
  BY <1>2, <1>3

(* What a person, an import or a transfer does to the local rows.             *)
LEMMA TreeKeeps ==
  ASSUME CatIInv, CatNext
  PROVE  LocalRows' /\ TreeStaysATree'
<1>1. LocalRows /\ TreeStaysATree
  BY Zenon DEF CatIInv
<1>2. DOMAIN local = Cats /\ \A d \in Cats : {"here", "parent"} \subseteq DOMAIN local[d]
  BY <1>1, Zenon DEF LocalRows
<1>3. ASSUME NEW c \in Cats, NEW p, PersonMoves(c, p) PROVE LocalRows' /\ TreeStaysATree'
  BY <1>3, PersonMovesKeeps, Zenon
<1>4. ASSUME NEW c \in Cats, NEW S, PersonAssigns(c, S) PROVE LocalRows' /\ TreeStaysATree'
  <2>1. local' = [local EXCEPT ![c].products = S]
    BY <1>4, Zenon DEF PersonAssigns
  <2>2. DOMAIN local' = Cats /\ \A d \in Cats \ {c} : local'[d] = local[d]
    BY <1>2, <2>1
  <2>3. local'[c] = [local[c] EXCEPT !.products = S]
    BY <1>2, <2>1
  <2>4. DOMAIN local'[c] = DOMAIN local[c]
    BY <2>3
  <2>5. local'[c].here = local[c].here /\ local'[c].parent = local[c].parent
    BY <1>2, <2>3
  <2>6. \A d \in Cats : {"here", "parent"} \subseteq DOMAIN local'[d]
    BY <1>2, <2>2, <2>4
  <2>7. \A d \in Cats : local'[d].here => local[d].here /\ local'[d].parent = local[d].parent
    BY <2>2, <2>5, Zenon
  <2> QED
    BY <1>1, <2>2, <2>6, <2>7, LocalShrinks, Zenon
<1>5. ASSUME NEW c \in Cats, PersonDeletes(c) PROVE LocalRows' /\ TreeStaysATree'
  <2> DEFINE gone == Below({c}, LocalParent, Local)
  <2>1. local' = [d \in Cats |-> IF d \in gone THEN NoCategory ELSE local[d]]
    BY <1>5, Zenon DEF PersonDeletes
  <2> HIDE DEF gone
  <2>2. DOMAIN local' = Cats /\ (\A d \in Cats : d \in gone => local'[d] = NoCategory)
        /\ (\A d \in Cats : d \notin gone => local'[d] = local[d])
    BY <2>1
  <2>3. ~ NoCategory.here /\ {"here", "parent"} \subseteq DOMAIN NoCategory
    BY DEF NoCategory
  <2>4. \A d \in Cats : {"here", "parent"} \subseteq DOMAIN local'[d]
    BY <1>2, <2>2, <2>3, Zenon
  <2>5. \A d \in Cats : local'[d].here => local[d].here /\ local'[d].parent = local[d].parent
    BY <2>2, <2>3, Zenon
  <2> QED
    BY <1>1, <2>2, <2>4, <2>5, LocalShrinks, Zenon
<1>6. ASSUME ImportWritesLinks PROVE LocalRows' /\ TreeStaysATree'
  <2> DEFINE after(c) == (local[c].products \cup (import.links[c] \ import.old[c])) \ (import.old[c] \ import.links[c])
  <2>1. local' = [c \in Cats |-> IF c \in import.known THEN [local[c] EXCEPT !.products = after(c)] ELSE local[c]]
    BY <1>6, Zenon DEF ImportWritesLinks
  <2> HIDE DEF after
  <2>2. DOMAIN local' = Cats /\ (\A d \in Cats : d \notin import.known => local'[d] = local[d])
        /\ \A d \in Cats : d \in import.known => local'[d] = [local[d] EXCEPT !.products = after(d)]
    BY <2>1
  <2>3. ASSUME NEW d \in Cats
        PROVE  /\ DOMAIN local'[d] = DOMAIN local[d]
               /\ local'[d].here = local[d].here /\ local'[d].parent = local[d].parent
    <3>1. CASE d \in import.known
      <4>1. local'[d] = [local[d] EXCEPT !.products = after(d)] /\ {"here", "parent"} \subseteq DOMAIN local[d]
        BY <1>2, <2>2, <3>1
      <4>2. DOMAIN local'[d] = DOMAIN local[d] /\ local'[d].parent = local[d].parent
        BY <4>1
      <4>3. local'[d].here = local[d].here
        BY <4>1
      <4> QED
        BY <4>2, <4>3
    <3>2. CASE d \notin import.known
      <4>1. local'[d] = local[d]
        BY <2>2, <3>2
      <4> QED
        BY <4>1, Zenon
    <3> QED
      BY <3>1, <3>2
  <2>4. \A d \in Cats : {"here", "parent"} \subseteq DOMAIN local'[d]
    BY <1>2, <2>3, Zenon
  <2>5. \A d \in Cats : local'[d].here => local[d].here /\ local'[d].parent = local[d].parent
    BY <2>3, Zenon
  <2> QED
    BY <1>1, <2>2, <2>4, <2>5, LocalShrinks, Zenon
<1>7. CASE UNCHANGED local
  BY <1>1, <1>7, LocalStays, Zenon
<1>8. ASSUME NEW c \in Cats, (\E p, b \in Cats \cup {Nowhere} : ShopMoves(c, p, b)) \/ ShopDeletes(c)
                            \/ (\E ids \in SUBSET ShopIds : ShopAssigns(c, ids)) \/ PushStarts(c)
      PROVE  UNCHANGED local
  BY <1>8, Zenon DEF ShopMoves, ShopDeletes, ShopAssigns, PushStarts
<1>9. ASSUME \/ ImportStarts \/ ImportReadsPage \/ ImportReadsLinks \/ ImportReadsLocal
             \/ ImportIsRolledBack \/ ImportBreaks
             \/ PushWritesContent \/ PushCompares \/ PushAdds \/ PushRemoves \/ PushBreaks
      PROVE  UNCHANGED local
  BY <1>9, Zenon DEF ImportStarts, ImportReadsPage, ImportReadsLinks, ImportReadsLocal, ImportIsRolledBack, ImportBreaks,
     PushWritesContent, PushCompares, PushAdds, PushRemoves, PushBreaks
<1> QED
  BY <1>3, <1>4, <1>5, <1>6, <1>7, <1>8, <1>9, ImportWritesTreeKeeps, Zenon DEF CatNext

(* Shopware: the root is neither moved nor deleted; a transfer may make it     *)
(* again, and writes products only.                                         *)
LEMMA RootStandsKeeps ==
  ASSUME CatIInv, CatNext
  PROVE  RootStands'
<1>1. DOMAIN shopRow = Cats /\ "parent" \in DOMAIN shopRow[Root] /\ shopRow[Root].parent = Nowhere /\ Root \in Cats
  BY CatSets, Zenon DEF CatIInv, RootStands
<1>2. ASSUME NEW c \in Cats, NEW p, NEW b, ShopMoves(c, p, b) PROVE RootStands'
  <2> DEFINE left == [d \in Cats |-> IF shopRow[d].after = c THEN shopRow[c].after ELSE shopRow[d].after]
             into == {d \in Remote \ {c} : shopRow[d].parent = p /\ left[d] = b}
  <2>1. /\ c # Root
        /\ shopRow' = [d \in Cats |->
             IF d = c THEN [shopRow[c] EXCEPT !.parent = p, !.after = b]
             ELSE IF d \in into THEN [shopRow[d] EXCEPT !.after = c]
             ELSE [shopRow[d] EXCEPT !.after = left[d]]]
    BY <1>2, Zenon DEF ShopMoves
  <2> HIDE DEF left, into
  <2>2. DOMAIN shopRow' = Cats
        /\ (shopRow'[Root] = [shopRow[Root] EXCEPT !.after = c] \/ shopRow'[Root] = [shopRow[Root] EXCEPT !.after = left[Root]])
    BY <1>1, <2>1
  <2>3. "parent" \in DOMAIN shopRow'[Root] /\ shopRow'[Root].parent = Nowhere
    BY <1>1, <2>2
  <2> QED
    BY <2>2, <2>3, Zenon DEF RootStands
<1>3. ASSUME NEW c \in Cats, ShopDeletes(c) PROVE RootStands'
  <2> DEFINE gone == Below({c}, RemoteParent, Remote)
  <2>1. shopRow' = [d \in Cats |->
          IF d \in gone THEN [here |-> FALSE, parent |-> Nowhere, after |-> Nowhere, products |-> {}]
          ELSE IF shopRow[d].after = c THEN [shopRow[d] EXCEPT !.after = shopRow[c].after] ELSE shopRow[d]]
    BY <1>3, Zenon DEF ShopDeletes
  <2> HIDE DEF gone
  <2>2. DOMAIN shopRow' = Cats
        /\ \/ shopRow'[Root] = [here |-> FALSE, parent |-> Nowhere, after |-> Nowhere, products |-> {}]
           \/ shopRow'[Root] = [shopRow[Root] EXCEPT !.after = shopRow[c].after]
           \/ shopRow'[Root] = shopRow[Root]
    BY <1>1, <2>1
  <2>3. "parent" \in DOMAIN shopRow'[Root] /\ shopRow'[Root].parent = Nowhere
    BY <1>1, <2>2
  <2> QED
    BY <2>2, <2>3, Zenon DEF RootStands
<1>4. ASSUME NEW c, NEW ids, shopRow' = [shopRow EXCEPT ![c].products = ids] PROVE RootStands'
  <2>1. DOMAIN shopRow' = Cats
    BY <1>1, <1>4
  <2>2. shopRow'[Root] = shopRow[Root] \/ shopRow'[Root] = [shopRow[Root] EXCEPT !.products = ids]
    BY <1>1, <1>4
  <2>3. "parent" \in DOMAIN shopRow'[Root] /\ shopRow'[Root].parent = Nowhere
    BY <1>1, <2>2
  <2> QED
    BY <2>1, <2>3, Zenon DEF RootStands
<1>5. CASE UNCHANGED shopRow
  BY <1>1, <1>5, Zenon DEF RootStands
<1>6. ASSUME PushWritesContent PROVE RootStands'
  <2>1. CASE shopRow' = [shopRow EXCEPT ![push.cat].here = TRUE]
    <3>1. DOMAIN shopRow' = Cats
      BY <1>1, <2>1
    <3>2. shopRow'[Root] = shopRow[Root] \/ shopRow'[Root] = [shopRow[Root] EXCEPT !.here = TRUE]
      BY <1>1, <2>1
    <3>3. "parent" \in DOMAIN shopRow'[Root] /\ shopRow'[Root].parent = Nowhere
      BY <1>1, <3>2
    <3> QED
      BY <3>1, <3>3, Zenon DEF RootStands
  <2> QED
    BY <1>5, <1>6, <2>1, Zenon DEF PushWritesContent
<1>7. ASSUME NEW c \in Cats, NEW ids, ShopAssigns(c, ids) PROVE RootStands'
  BY <1>4, <1>7, Zenon DEF ShopAssigns
<1>8. ASSUME PushAdds PROVE RootStands'
  <2>1. UNCHANGED shopRow \/ shopRow' = [shopRow EXCEPT ![push.cat].products = @ \cup push.add]
    BY <1>8, Zenon DEF PushAdds
  <2>2. UNCHANGED shopRow \/ shopRow' = [shopRow EXCEPT ![push.cat].products = shopRow[push.cat].products \cup push.add]
    BY <2>1
  <2> QED
    BY <1>4, <1>5, <2>2, Zenon
<1>9. ASSUME PushRemoves PROVE RootStands'
  <2>1. UNCHANGED shopRow \/ shopRow' = [shopRow EXCEPT ![push.cat].products = @ \ push.remove]
    BY <1>9, Zenon DEF PushRemoves
  <2>2. UNCHANGED shopRow \/ shopRow' = [shopRow EXCEPT ![push.cat].products = shopRow[push.cat].products \ push.remove]
    BY <2>1
  <2> QED
    BY <1>4, <1>5, <2>2, Zenon
<1>10. ASSUME NEW c \in Cats, (\E p \in Cats \cup {Nowhere} : PersonMoves(c, p)) \/ (\E S \in SUBSET Products : PersonAssigns(c, S))
                             \/ PersonDeletes(c) \/ PushStarts(c)
       PROVE  UNCHANGED shopRow
  BY <1>10, Zenon DEF PersonMoves, PersonAssigns, PersonDeletes, PushStarts
<1>11. ASSUME \/ ImportStarts \/ ImportReadsPage \/ ImportWritesTree \/ ImportReadsLinks \/ ImportReadsLocal
              \/ ImportWritesLinks \/ ImportIsRolledBack \/ ImportBreaks \/ PushCompares \/ PushBreaks
       PROVE  UNCHANGED shopRow
  BY <1>11, Zenon DEF ImportStarts, ImportReadsPage, ImportWritesTree, ImportReadsLinks, ImportReadsLocal, ImportWritesLinks,
     ImportIsRolledBack, ImportBreaks, PushCompares, PushBreaks
<1> QED
  BY <1>2, <1>3, <1>5, <1>6, <1>7, <1>8, <1>9, <1>10, <1>11, Zenon DEF CatNext

(* What the import has read.                                                *)
ImportKept == import'.known = import.known /\ import'.parent = import.parent /\ DOMAIN import' = DOMAIN import

LEMMA ImportKeptKeeps == RootRead /\ ImportKept => RootRead'
  BY Zenon DEF RootRead, ImportKept

LEMMA ImportForgets == import' = NotImporting => RootRead'
<1> SUFFICES ASSUME import' = NotImporting PROVE RootRead'
  OBVIOUS
<1>1. /\ {"pc", "parent", "known"} \subseteq DOMAIN NotImporting
      /\ NotImporting.known = {} /\ NotImporting.parent = [c \in Cats |-> Nowhere]
  BY DEF NotImporting
<1>2. NotImporting.parent[Root] = Nowhere /\ NotImporting.known \subseteq Cats
  BY <1>1, CatSets
<1> QED
  BY <1>1, <1>2, Zenon DEF RootRead

LEMMA RootReadKeeps ==
  ASSUME CatIInv, CatNext
  PROVE  RootRead'
<1>1. /\ RootRead /\ {"pc", "parent", "known"} \subseteq DOMAIN import
      /\ import.known \subseteq Cats /\ import.parent[Root] = Nowhere
  BY Zenon DEF CatIInv, RootRead
<1>2. ASSUME NEW flag, import' = [import EXCEPT !.alone = flag] PROVE RootRead'
  <2>1. ImportKept
    BY <1>1, <1>2 DEF ImportKept
  <2> QED
    BY <1>1, <2>1, ImportKeptKeeps, Zenon
<1>3. CASE UNCHANGED import
  BY <1>1, <1>3, ImportKeptKeeps, Zenon DEF ImportKept
<1>4. CASE import' = NotImporting
  BY <1>4, ImportForgets
<1>5. ASSUME ImportStarts PROVE RootRead'
  <2>1. import' = [NotImporting EXCEPT !.pc = "reading", !.alone = TRUE]
    BY <1>5, Zenon DEF ImportStarts
  <2>2. /\ {"pc", "parent", "known"} \subseteq DOMAIN import'
        /\ import'.known = {} /\ import'.parent = [c \in Cats |-> Nowhere]
    BY <2>1 DEF NotImporting
  <2>3. import'.parent[Root] = Nowhere /\ import'.known \subseteq Cats
    BY <2>2, CatSets
  <2> QED
    BY <2>2, <2>3, Zenon DEF RootRead
<1>6. ASSUME ImportReadsPage PROVE RootRead'
  <2> DEFINE read == Page(import.page)
             rows == import.rows + Cardinality(read)
             last == Cardinality(read) < PageSize \/ rows >= Cardinality(Remote)
  <2>1. import' = [import EXCEPT
       !.pc = IF last THEN "read" ELSE "reading", !.page = @ + 1, !.rows = rows,
       !.known = @ \cup read,
       !.parent = [c \in Cats |-> IF c \in read THEN shopRow[c].parent ELSE @[c]],
       !.after = [c \in Cats |-> IF c \in read THEN shopRow[c].after ELSE @[c]]]
    BY <1>6, Zenon DEF ImportReadsPage
  <2>2. read \subseteq Cats
    BY CatSets DEF Page
  <2> HIDE DEF read, rows, last
  <2>3. /\ DOMAIN import' = DOMAIN import
        /\ import'.known = import.known \cup read
        /\ import'.parent = [c \in Cats |-> IF c \in read THEN shopRow[c].parent ELSE import.parent[c]]
    BY <1>1, <2>1
  <2>4. import'.parent[Root] = Nowhere
    <3>1. shopRow[Root].parent = Nowhere /\ Root \in Cats
      BY CatSets, Zenon DEF CatIInv, RootStands
    <3> QED
      BY <1>1, <2>3, <3>1
  <2>5. import'.known \subseteq Cats /\ {"pc", "parent", "known"} \subseteq DOMAIN import'
    BY <1>1, <2>2, <2>3
  <2> QED
    BY <2>4, <2>5, Zenon DEF RootRead
<1>7. ASSUME ImportWritesTree PROVE RootRead'
  <2>1. import' = NotImporting \/ import' = [import EXCEPT !.pc = "tree", !.known = Scope]
    BY <1>7, Zenon DEF ImportWritesTree
  <2>2. CASE import' = [import EXCEPT !.pc = "tree", !.known = Scope]
    <3>1. Scope \subseteq Cats
      <4>1. IsFiniteSet(import.known)
        BY <1>1, CatSets, FS_Subset
      <4>2. Scope \subseteq import.known
        BY <4>1, BelowIs, Zenon DEF Scope
      <4> QED
        BY <1>1, <4>2
    <3>2. DOMAIN import' = DOMAIN import /\ import'.known = Scope /\ import'.parent = import.parent
      BY <1>1, <2>2
    <3> QED
      BY <1>1, <3>1, <3>2, Zenon DEF RootRead
  <2> QED
    BY <1>4, <2>1, <2>2
<1>8. ASSUME ImportReadsLinks PROVE RootRead'
  <2>1. PICK links : import' = [import EXCEPT !.pc = "links",
            !.links = [c \in Cats |-> Resolved(links[c])],
            !.whole = {c \in import.known \cap Remote : links[c] = shopRow[c].products}]
    BY <1>8, Zenon DEF ImportReadsLinks
  <2>2. ImportKept
    BY <1>1, <2>1 DEF ImportKept
  <2> QED
    BY <1>1, <2>2, ImportKeptKeeps, Zenon
<1>9. ASSUME ImportReadsLocal PROVE RootRead'
  <2>1. import' = [import EXCEPT !.pc = "compare", !.old = [c \in Cats |-> local[c].products]]
    BY <1>9, Zenon DEF ImportReadsLocal
  <2>2. ImportKept
    BY <1>1, <2>1 DEF ImportKept
  <2> QED
    BY <1>1, <2>2, ImportKeptKeeps, Zenon
<1>10. ASSUME PushAdds PROVE RootRead'
  <2>1. UNCHANGED import \/ import' = [import EXCEPT !.alone = @ /\ push.add = {}]
    BY <1>10, Zenon DEF PushAdds
  <2>2. ImportKept
    BY <1>1, <2>1 DEF ImportKept
  <2> QED
    BY <1>1, <2>2, ImportKeptKeeps, Zenon
<1>11. ASSUME PushRemoves PROVE RootRead'
  <2>1. import' = [import EXCEPT !.alone = @ /\ push.remove = {}]
    BY <1>11, Zenon DEF PushRemoves
  <2>2. ImportKept
    BY <1>1, <2>1 DEF ImportKept
  <2> QED
    BY <1>1, <2>2, ImportKeptKeeps, Zenon
<1>12. ASSUME NEW c \in Cats,
              \/ \E p, b \in Cats \cup {Nowhere} : ShopMoves(c, p, b)
              \/ ShopDeletes(c)
              \/ \E ids \in SUBSET ShopIds : ShopAssigns(c, ids)
              \/ \E p \in Cats \cup {Nowhere} : PersonMoves(c, p)
              \/ \E S \in SUBSET Products : PersonAssigns(c, S)
              \/ PersonDeletes(c)
       PROVE  import' = [import EXCEPT !.alone = FALSE]
  BY <1>12, Zenon DEF ShopMoves, ShopDeletes, ShopAssigns, PersonMoves, PersonAssigns, PersonDeletes, Disturbs
<1>13. ASSUME NEW c \in Cats, PushStarts(c) PROVE UNCHANGED import
  BY <1>13, Zenon DEF PushStarts
<1>14. ASSUME ImportWritesLinks \/ ImportIsRolledBack \/ ImportBreaks PROVE import' = NotImporting
  BY <1>14, Zenon DEF ImportWritesLinks, ImportIsRolledBack, ImportBreaks
<1>15. ASSUME PushCompares \/ PushBreaks PROVE UNCHANGED import
  BY <1>15, Zenon DEF PushCompares, PushBreaks
<1>16. ASSUME PushWritesContent PROVE UNCHANGED import \/ import' = [import EXCEPT !.alone = FALSE]
  BY <1>16, Zenon DEF PushWritesContent
<1> QED
  BY <1>2, <1>3, <1>4, <1>5, <1>6, <1>7, <1>8, <1>9, <1>10, <1>11, <1>12, <1>13, <1>14, <1>15, <1>16, Zenon DEF CatNext

LEMMA CatInitKeeps == CatInit => CatIInv
<1> SUFFICES ASSUME CatInit PROVE CatIInv
  OBVIOUS
<1>1. /\ shopRow \in [Cats -> {r \in RemoteRow : r.products = {}}]
      /\ shopRow[Root].parent = Nowhere /\ Forest(Remote, RemoteParent) /\ import = NotImporting
  BY Zenon DEF CatInit
<1>2. RootStands
  <2>1. DOMAIN shopRow = Cats /\ shopRow[Root] \in RemoteRow
    BY <1>1, CatSets
  <2>2. "parent" \in DOMAIN shopRow[Root]
    BY <2>1 DEF RemoteRow
  <2> QED
    BY <1>1, <2>1, <2>2, Zenon DEF RootStands
<1>3. RootRead
  <2>1. /\ {"pc", "parent", "known"} \subseteq DOMAIN NotImporting
        /\ NotImporting.known = {} /\ NotImporting.parent = [c \in Cats |-> Nowhere]
    BY DEF NotImporting
  <2>2. NotImporting.parent[Root] = Nowhere /\ NotImporting.known \subseteq Cats
    BY <2>1, CatSets
  <2> QED
    BY <1>1, <2>1, <2>2, Zenon DEF RootRead
<1> DEFINE place(c) == LET list == InOrder(Siblings(Inside, RemoteParent, shopRow[c].parent), [d \in Cats |-> shopRow[d].after])
                       IN  CHOOSE i \in DOMAIN list : list[i] = c
<1>4. local = [c \in Cats |-> IF c \notin Inside THEN NoCategory
                 ELSE [here |-> TRUE, parent |-> shopRow[c].parent, products |-> {}, place |-> place(c)]]
  BY Zenon DEF CatInit
<1> HIDE DEF place
<1>5. /\ DOMAIN local = Cats
      /\ \A c \in Cats : c \notin Inside => local[c] = NoCategory
      /\ \A c \in Cats : c \in Inside => /\ {"here", "parent"} \subseteq DOMAIN local[c]
                                         /\ local[c].parent = shopRow[c].parent
  BY <1>4
<1>6. ~ NoCategory.here /\ {"here", "parent"} \subseteq DOMAIN NoCategory
  BY DEF NoCategory
<1>7. LocalRows
  BY <1>5, <1>6, Zenon DEF LocalRows
<1>8. Local \subseteq Inside /\ Local \subseteq Cats
  BY <1>5, <1>6, Zenon DEF Local
<1>9. Inside \subseteq Remote
  <2>1. IsFiniteSet(Remote)
    BY CatSets, Zenon
  <2> QED
    BY <2>1, BelowIs, Zenon DEF Inside
<1>10. Forest(Local, LocalParent)
  <2> SUFFICES ASSUME NEW T, T \subseteq Local, T # {} PROVE \E c \in T : LocalParent[c] \notin T
    BY DEF Forest
  <2>1. T \subseteq Remote /\ T \subseteq Cats /\ T \subseteq Inside
    BY <1>8, <1>9
  <2>2. PICK c \in T : RemoteParent[c] \notin T
    BY <1>1, <2>1 DEF Forest
  <2>3. RemoteParent[c] = shopRow[c].parent /\ LocalParent[c] = local[c].parent
    BY <2>1 DEF RemoteParent, LocalParent
  <2>4. local[c].parent = shopRow[c].parent
    BY <1>5, <2>1
  <2> QED
    BY <2>2, <2>3, <2>4
<1> QED
  BY <1>2, <1>3, <1>7, <1>10, Zenon DEF CatIInv, TreeStaysATree

LEMMA CategoriesKept == CatIInv /\ [CatNext]_catVars => CatIInv'
<1> SUFFICES ASSUME CatIInv, [CatNext]_catVars PROVE CatIInv'
  OBVIOUS
<1>1. CASE CatNext
  BY <1>1, TreeKeeps, RootStandsKeeps, RootReadKeeps, Zenon DEF CatIInv
<1>2. CASE UNCHANGED catVars
  <2>1. UNCHANGED local /\ UNCHANGED shopRow /\ UNCHANGED import
    BY <1>2, Zenon DEF catVars
  <2>2. LocalRows' /\ TreeStaysATree'
    BY <2>1, LocalStays, Zenon DEF CatIInv
  <2>3. RootStands' /\ RootRead'
    BY <2>1, Zenon DEF CatIInv, RootStands, RootRead
  <2> QED
    BY <2>2, <2>3, Zenon DEF CatIInv
<1> QED
  BY <1>1, <1>2

(* Category is a tree that MPTT keeps: whatever import_categories_from_shopware *)
(* read while Shopware was edited, whatever earlier imports left, and whatever   *)
(* people move and delete meanwhile, no local category is its own ancestor.    *)
THEOREM NoCircleOfCategories == CatSpec => []TreeStaysATree
<1>1. CatIInv => TreeStaysATree
  BY Zenon DEF CatIInv
<1> QED
  BY <1>1, CatInitKeeps, CategoriesKept, PTL DEF CatSpec

-----------------------------------------------------------------------------
(* Categories stand in the order of their names: the place of each is how many *)
(* are ahead of it, and every place is taken.                                *)
LEMMA UpFrom ==
  ASSUME NEW N \in Nat, NEW S, 0 \in S, \A n \in 1 .. N : n - 1 \in S => n \in S
  PROVE  \A n \in 0 .. N : n \in S
<1> DEFINE Bad == {n \in 0 .. N : n \notin S}
<1> SUFFICES ASSUME Bad # {} PROVE FALSE
  OBVIOUS
<1>1. PICK m \in Bad : \A n \in Bad : m <= n
  <2>1. Bad \subseteq Nat
    OBVIOUS
  <2> HIDE DEF Bad
  <2> QED
    BY <2>1, SomeLeast
<1>2. m \in 0 .. N /\ m \notin S /\ m # 0
  BY <1>1
<1>3. m - 1 \in 0 .. N /\ m - 1 \notin Bad
  BY <1>1, <1>2
<1>4. m - 1 \in S /\ m \in 1 .. N
  BY <1>2, <1>3
<1> QED
  BY <1>2, <1>4

LEMMA AheadFacts ==
  ASSUME NEW S, IsFiniteSet(S), S \subseteq Nat
  PROVE  /\ Cardinality(S) \in Nat
         /\ \A c \in S : Ahead(S, c) \in 0 .. Cardinality(S) - 1
         /\ \A c, d \in S : c < d => Ahead(S, c) < Ahead(S, d)
         /\ \A c, d \in S : Ahead(S, c) = Ahead(S, d) => c = d
         /\ \A k \in 0 .. Cardinality(S) - 1 : \E c \in S : Ahead(S, c) = k
<1>1. PICK m \in Nat : m = Cardinality(S)
  BY FS_CardinalityType
<1>2. ASSUME NEW c \in S
      PROVE  IsFiniteSet({d \in S : d < c}) /\ Ahead(S, c) \in 0 .. m - 1
  <2>1. PICK T : T = {d \in S : d < c}
    OBVIOUS
  <2>2. T \in SUBSET S /\ c \notin T
    BY <2>1
  <2>3. IsFiniteSet(T) /\ Cardinality(T) <= m /\ (m = Cardinality(T) => S = T)
    BY <1>1, <2>2, FS_Subset
  <2>4. Cardinality(T) \in Nat /\ Cardinality(T) # m
    BY <2>2, <2>3, FS_CardinalityType
  <2>5. Cardinality(T) \in 0 .. m - 1
    BY <2>3, <2>4
  <2> QED
    BY <2>1, <2>3, <2>5 DEF Ahead
<1>3. ASSUME NEW c \in S, NEW d \in S, c < d
      PROVE  Ahead(S, c) < Ahead(S, d)
  <2>1. PICK T : T = {x \in S : x < c}
    OBVIOUS
  <2>2. PICK U : U = {x \in S : x < d}
    OBVIOUS
  <2>6. c \in Nat /\ d \in Nat /\ \A x \in S : x \in Nat
    OBVIOUS
  <2>7. \A x \in T : x \in U
    BY <1>3, <2>1, <2>2, <2>6
  <2>11. c \in U
    BY <1>3, <2>2, <2>6
  <2>12. c \notin T
    BY <2>1, <2>6
  <2>3. T \in SUBSET U /\ c \in U /\ c \notin T
    BY <2>7, <2>11, <2>12, Zenon
  <2>4. IsFiniteSet(U) /\ Cardinality(U) = Ahead(S, d) /\ Cardinality(T) = Ahead(S, c)
    BY <1>2, <2>1, <2>2 DEF Ahead
  <2>5. Cardinality(T) <= Cardinality(U) /\ (Cardinality(U) = Cardinality(T) => U = T)
    BY <2>3, <2>4, FS_Subset
  <2>8. Cardinality(T) # Cardinality(U)
    <3>1. U # T
      BY <2>3
    <3> QED
      BY <2>5, <3>1
  <2>9. Cardinality(T) \in Nat /\ Cardinality(U) \in Nat
    <3>1. IsFiniteSet(T)
      BY <2>3, <2>4, FS_Subset
    <3> QED
      BY <2>4, <3>1, FS_CardinalityType
  <2>10. Cardinality(T) < Cardinality(U)
    BY <2>5, <2>8, <2>9
  <2> QED
    BY <2>4, <2>10
<1>6. \A c, d \in S : c < d => Ahead(S, c) < Ahead(S, d)
  BY <1>3
<1>5. \A c, d \in S : Ahead(S, c) = Ahead(S, d) => c = d
  <2> SUFFICES ASSUME NEW c \in S, NEW d \in S, c # d PROVE Ahead(S, c) # Ahead(S, d)
    OBVIOUS
  <2>1. Ahead(S, c) < Ahead(S, d) \/ Ahead(S, d) < Ahead(S, c)
    <3>1. c \in Nat /\ d \in Nat
      OBVIOUS
    <3>2. c < d \/ d < c
      BY <3>1
    <3> QED
      BY <1>6, <3>2, Zenon
  <2>2. Ahead(S, c) \in Nat /\ Ahead(S, d) \in Nat
    <3>1. Ahead(S, c) \in 0 .. m - 1 /\ Ahead(S, d) \in 0 .. m - 1
      BY <1>2, Zenon
    <3> QED
      BY <3>1
  <2> QED
    BY <2>1, <2>2
<1>4. \A k \in 0 .. m - 1 : \E c \in S : Ahead(S, c) = k
  <2>1. PICK g : g = [c \in S |-> Ahead(S, c)]
    OBVIOUS
  <2>2. g \in [S -> 0 .. m - 1] /\ \A c, d \in S : g[c] = g[d] => c = d
    BY <1>2, <1>5, <2>1
  <2>3. g \in Injection(S, 0 .. m - 1)
    BY <2>2 DEF Injection, IsInjective
  <2>4. IsFiniteSet(0 .. m - 1) /\ Cardinality(0 .. m - 1) = m
    BY FS_Interval
  <2>5. g \in Surjection(S, 0 .. m - 1)
    BY <1>1, <2>3, <2>4, FS_Injection
  <2>6. \A k \in 0 .. m - 1 : \E c \in S : g[c] = k
    BY <2>5 DEF Surjection
  <2> QED
    BY <2>1, <2>6
<1> QED
  BY <1>1, <1>2, <1>3, <1>4, <1>5

LEMMA ByNameFacts ==
  ASSUME NEW S, IsFiniteSet(S), S \subseteq Nat
  PROVE  /\ ByName(S) \in Seq(S) /\ Len(ByName(S)) = Cardinality(S)
         /\ \A c \in S : \E i \in 1 .. Cardinality(S) : ByName(S)[i] = c
<1>1. PICK m \in Nat : m = Cardinality(S)
  BY FS_CardinalityType
<1>2. /\ \A c \in S : Ahead(S, c) \in 0 .. m - 1
      /\ \A c, d \in S : Ahead(S, c) = Ahead(S, d) => c = d
      /\ \A k \in 0 .. m - 1 : \E c \in S : Ahead(S, c) = k
  BY <1>1, AheadFacts
<1>3. PICK s : s = [i \in 1 .. m |-> CHOOSE c \in S : Ahead(S, c) = i - 1]
  OBVIOUS
<1>4. s = ByName(S)
  BY <1>1, <1>3 DEF ByName
<1>5. \A i \in 1 .. m : s[i] \in S /\ Ahead(S, s[i]) = i - 1
  <2> SUFFICES ASSUME NEW i \in 1 .. m PROVE s[i] \in S /\ Ahead(S, s[i]) = i - 1
    OBVIOUS
  <2>1. \E c \in S : Ahead(S, c) = i - 1
    BY <1>2
  <2>2. s[i] = CHOOSE c \in S : Ahead(S, c) = i - 1
    BY <1>3
  <2> QED
    BY <2>1, <2>2, Zenon
<1>6. s \in Seq(S) /\ Len(s) = m
  BY <1>3, <1>5
<1>7. ASSUME NEW c \in S PROVE \E i \in 1 .. m : s[i] = c
  <2>1. Ahead(S, c) + 1 \in 1 .. m /\ Ahead(S, c) \in Nat
    BY <1>2
  <2>2. Ahead(S, s[Ahead(S, c) + 1]) = Ahead(S, c) /\ s[Ahead(S, c) + 1] \in S
    BY <1>5, <2>1
  <2>3. s[Ahead(S, c) + 1] = c
    BY <1>2, <2>1, <2>2
  <2> QED
    BY <2>1, <2>3
<1> QED
  BY <1>1, <1>4, <1>6, <1>7

LEMMA ByNameOne ==
  ASSUME NEW c \in Nat
  PROVE  ByName({c}) = <<c>>
<1>1. IsFiniteSet({c}) /\ Cardinality({c}) = 1
  BY FS_Singleton
<1>2. PICK s : s = ByName({c})
  OBVIOUS
<1>3. s \in Seq({c}) /\ Len(s) = 1
  BY <1>1, <1>2, ByNameFacts
<1> QED
  BY <1>2, <1>3

(* A function that repeats a step.                                          *)
Repeats(f, N, V, base, step) ==
  /\ f \in [0 .. N -> V] /\ f[0] = base
  /\ \A n \in 1 .. N : f[n] = step[f[n - 1]]

LEMMA RepeatExists ==
  ASSUME NEW V, NEW base \in V, NEW step \in [V -> V], NEW N \in Nat
  PROVE  \E f : Repeats(f, N, V, base, step)
<1> DEFINE Good == {n \in 0 .. N : \E f : Repeats(f, n, V, base, step)}
<1>1. 0 \in Good
  <2>1. PICK f : f = [n \in 0 .. 0 |-> base]
    OBVIOUS
  <2>2. Repeats(f, 0, V, base, step)
    BY <2>1 DEF Repeats
  <2> QED
    BY <2>2
<1>2. \A n \in 1 .. N : n - 1 \in Good => n \in Good
  <2> SUFFICES ASSUME NEW n \in 1 .. N, n - 1 \in Good PROVE n \in Good
    OBVIOUS
  <2>1. PICK f : Repeats(f, n - 1, V, base, step)
    OBVIOUS
  <2>2. f \in [0 .. n - 1 -> V] /\ f[0] = base /\ \A k \in 1 .. n - 1 : f[k] = step[f[k - 1]]
    BY <2>1 DEF Repeats
  <2>3. PICK g : g = [k \in 0 .. n |-> IF k = n THEN step[f[n - 1]] ELSE f[k]]
    OBVIOUS
  <2>4. n - 1 \in 0 .. n - 1 /\ f[n - 1] \in V
    BY <2>2
  <2>5. g \in [0 .. n -> V] /\ g[0] = base
    BY <2>2, <2>3, <2>4
  <2>6. ASSUME NEW k \in 1 .. n PROVE g[k] = step[g[k - 1]]
    <3>1. CASE k = n
      <4>1. g[n] = step[f[n - 1]] /\ g[n - 1] = f[n - 1]
        BY <2>3
      <4> QED
        BY <3>1, <4>1
    <3>2. CASE k # n
      <4>1. k \in 1 .. n - 1
        BY <3>2
      <4>2. g[k] = f[k] /\ g[k - 1] = f[k - 1]
        BY <2>3, <4>1
      <4> QED
        BY <2>2, <4>1, <4>2
    <3> QED
      BY <3>1, <3>2
  <2>7. Repeats(g, n, V, base, step)
    BY <2>5, <2>6 DEF Repeats
  <2> QED
    BY <2>7
<1> HIDE DEF Good
<1>3. N \in Good
  <2>1. \A n \in 0 .. N : n \in Good
    BY <1>1, <1>2, UpFrom
  <2> QED
    BY <2>1
<1> QED
  BY <1>3 DEF Good

(* The walk of _sort_orders, step by step.                                   *)
Begins(S, after) == {c \in S : after[c] \notin S \ {c}}
Following(S, after, b) == {c \in S \ Begins(S, after) : after[c] = b}
WalkOn(S, after, w) ==
  IF w.todo = <<>> THEN w
  ELSE IF Contains(w.done, Head(w.todo)) THEN [w EXCEPT !.todo = Tail(@)]
  ELSE [todo |-> ByName(Following(S, after, Head(w.todo))) \o Tail(w.todo), done |-> Append(w.done, Head(w.todo))]
Walks(g, N, S, after) ==
  /\ g[0] = [todo |-> ByName(Begins(S, after)) \o ByName(S), done |-> <<>>]
  /\ \A n \in 0 .. N : g[n] \in [todo : Seq(S), done : Seq(S)]
  /\ \A n \in 1 .. N : g[n] = WalkOn(S, after, g[n - 1])

LEMMA ShorterSeq ==
  ASSUME NEW S, NEW F \in SUBSET S, NEW s \in Seq(F)
  PROVE  s \in Seq(S)
<1>1. \A i \in 1 .. Len(s) : s[i] \in S
  OBVIOUS
<1> QED
  BY <1>1

LEMMA WalkOnType ==
  ASSUME NEW S, IsFiniteSet(S), S \subseteq Nat, NEW after, NEW w \in [todo : Seq(S), done : Seq(S)]
  PROVE  WalkOn(S, after, w) \in [todo : Seq(S), done : Seq(S)]
<1>1. w.todo \in Seq(S) /\ w.done \in Seq(S)
  OBVIOUS
<1>2. CASE w.todo = <<>>
  BY <1>2 DEF WalkOn
<1>3. CASE w.todo # <<>>
  <2>1. Head(w.todo) \in S /\ Tail(w.todo) \in Seq(S)
    BY <1>1, <1>3
  <2>2. PICK F : F = Following(S, after, Head(w.todo))
    OBVIOUS
  <2>3. F \in SUBSET S
    BY <2>2, Zenon DEF Following
  <2>4. IsFiniteSet(F) /\ F \subseteq Nat
    BY <2>3, FS_Subset
  <2>5. ByName(F) \in Seq(F)
    BY <2>4, ByNameFacts
  <2>6. ByName(F) \in Seq(S)
    BY <2>3, <2>5, ShorterSeq
  <2>7. ByName(F) \o Tail(w.todo) \in Seq(S) /\ Append(w.done, Head(w.todo)) \in Seq(S)
    BY <1>1, <2>1, <2>6
  <2>8. [w EXCEPT !.todo = Tail(@)] \in [todo : Seq(S), done : Seq(S)]
    BY <2>1
  <2>9. [todo |-> ByName(F) \o Tail(w.todo), done |-> Append(w.done, Head(w.todo))] \in [todo : Seq(S), done : Seq(S)]
    BY <2>7
  <2> QED
    BY <1>3, <2>2, <2>8, <2>9, Zenon DEF WalkOn
<1> QED
  BY <1>2, <1>3

LEMMA WalkUnfolds ==
  ASSUME NEW S, IsFiniteSet(S), S \subseteq Nat, NEW after
  PROVE  \E g : InOrder(S, after) = g[3 * Cardinality(S)].done /\ Walks(g, 3 * Cardinality(S), S, after)
<1>1. PICK N \in Nat : N = 3 * Cardinality(S)
  BY FS_CardinalityType
<1>2. PICK base : base = [todo |-> ByName(Begins(S, after)) \o ByName(S), done |-> <<>>]
  OBVIOUS
<1>3. PICK g : g = CHOOSE f : f = [n \in 0 .. N |-> IF n = 0 THEN base ELSE WalkOn(S, after, f[n - 1])]
  OBVIOUS
<1>4. InOrder(S, after) = g[N].done
  BY <1>1, <1>2, <1>3, Zenon DEF InOrder, WalkOn, Begins, Following
<1>5. base \in [todo : Seq(S), done : Seq(S)]
  <2>1. PICK B : B = Begins(S, after)
    OBVIOUS
  <2>2. B \in SUBSET S
    BY <2>1, Zenon DEF Begins
  <2>3. IsFiniteSet(B) /\ B \subseteq Nat
    BY <2>2, FS_Subset
  <2>4. ByName(B) \in Seq(B) /\ ByName(S) \in Seq(S)
    BY <2>3, ByNameFacts
  <2>5. ByName(B) \o ByName(S) \in Seq(S) /\ <<>> \in Seq(S)
    <3>1. ByName(B) \in Seq(S)
      BY <2>2, <2>4, ShorterSeq
    <3> QED
      BY <2>4, <3>1
  <2> QED
    BY <1>2, <2>1, <2>5
<1>6. PICK V : V = [todo : Seq(S), done : Seq(S)]
  OBVIOUS
<1>7. PICK step : step = [w \in V |-> WalkOn(S, after, w)]
  OBVIOUS
<1>8. step \in [V -> V]
  <2>1. \A w \in V : WalkOn(S, after, w) \in V
    BY <1>6, WalkOnType
  <2> QED
    BY <1>7, <2>1
<1>9. PICK f : Repeats(f, N, V, base, step)
  BY <1>5, <1>6, <1>8, RepeatExists
<1>10. f \in [0 .. N -> V] /\ f[0] = base /\ \A n \in 1 .. N : f[n] = WalkOn(S, after, f[n - 1])
  <2>1. f \in [0 .. N -> V] /\ f[0] = base /\ \A n \in 1 .. N : f[n] = step[f[n - 1]]
    BY <1>9 DEF Repeats
  <2>2. \A n \in 1 .. N : n - 1 \in 0 .. N
    OBVIOUS
  <2> QED
    BY <1>7, <2>1, <2>2
<1>11. f = [n \in 0 .. N |-> IF n = 0 THEN base ELSE WalkOn(S, after, f[n - 1])]
  <2>1. PICK h : h = [n \in 0 .. N |-> IF n = 0 THEN base ELSE WalkOn(S, after, f[n - 1])]
    OBVIOUS
  <2>2. \A n \in 0 .. N : n = 0 \/ n \in 1 .. N
    OBVIOUS
  <2>3. \A n \in 0 .. N : h[n] = f[n]
    BY <1>10, <2>1, <2>2
  <2>4. h = f
    BY <1>10, <2>1, <2>3
  <2> QED
    BY <2>1, <2>4, Zenon
<1>12. g = [n \in 0 .. N |-> IF n = 0 THEN base ELSE WalkOn(S, after, g[n - 1])]
  BY <1>3, <1>11, Zenon
<1>13. /\ \A n \in 1 .. N : g[n] = WalkOn(S, after, g[n - 1])
       /\ g[0] = base
  <2>1. PICK h : h = [n \in 0 .. N |-> IF n = 0 THEN base ELSE WalkOn(S, after, g[n - 1])]
    OBVIOUS
  <2>2. g = h
    BY <1>12, <2>1, Zenon
  <2>3. h[0] = base /\ \A n \in 1 .. N : h[n] = WalkOn(S, after, g[n - 1])
    BY <2>1
  <2> QED
    BY <2>2, <2>3, Zenon
<1>14. \A n \in 0 .. N : g[n] \in V
  <2>1. \A n \in 0 .. N : n \in {k \in 0 .. N : g[k] \in V}
    <3>1. 0 \in {k \in 0 .. N : g[k] \in V}
      BY <1>5, <1>6, <1>13
    <3>2. ASSUME NEW n \in 1 .. N, n - 1 \in {k \in 0 .. N : g[k] \in V} PROVE n \in {k \in 0 .. N : g[k] \in V}
      <4>1. g[n - 1] \in V
        BY <3>2
      <4>2. WalkOn(S, after, g[n - 1]) \in V
        BY <1>6, <4>1, WalkOnType
      <4> QED
        BY <1>13, <4>2
    <3> QED
      BY <3>1, <3>2, UpFrom
  <2> QED
    BY <2>1
<1> QED
  BY <1>1, <1>2, <1>4, <1>6, <1>13, <1>14, Zenon DEF Walks

-----------------------------------------------------------------------------
(* A step of the walk, by what it does to the two lists: the head has been      *)
(* visited before and is dropped, or it is visited and its followers come first. *)
In(s) == {s[i] : i \in 1 .. Len(s)}
DropsHead(td, dn, td2, dn2) ==
  dn2 = dn /\ Len(td2) = Len(td) - 1 /\ \A i \in 1 .. Len(td) - 1 : td2[i] = td[i + 1]
VisitsHead(td, dn, td2, dn2, F) ==
  /\ Len(dn2) = Len(dn) + 1 /\ dn2[Len(dn) + 1] = td[1] /\ \A i \in 1 .. Len(dn) : dn2[i] = dn[i]
  /\ Len(td2) = Len(td) - 1 + Cardinality(F)
  /\ \A i \in 1 .. Len(td) - 1 : td2[Cardinality(F) + i] = td[i + 1]
  /\ \A c \in F : \E i \in 1 .. Cardinality(F) : td2[i] = c
Steps2(S, after, td, dn, td2, dn2) ==
  /\ td \in Seq(S) /\ dn \in Seq(S) /\ td2 \in Seq(S) /\ dn2 \in Seq(S)
  /\ \/ td = <<>> /\ td2 = td /\ dn2 = dn
     \/ td # <<>> /\ td[1] \in In(dn) /\ DropsHead(td, dn, td2, dn2)
     \/ td # <<>> /\ td[1] \notin In(dn) /\ VisitsHead(td, dn, td2, dn2, Following(S, after, td[1]))

LEMMA OneStep ==
  ASSUME NEW S, IsFiniteSet(S), S \subseteq Nat, NEW after, NEW w \in [todo : Seq(S), done : Seq(S)]
  PROVE  Steps2(S, after, w.todo, w.done, WalkOn(S, after, w).todo, WalkOn(S, after, w).done)
<1>1. PICK v : v = WalkOn(S, after, w)
  OBVIOUS
<1>2. v \in [todo : Seq(S), done : Seq(S)]
  BY <1>1, WalkOnType
<1>3. PICK td, dn, td2, dn2 : td = w.todo /\ dn = w.done /\ td2 = v.todo /\ dn2 = v.done
  OBVIOUS
<1>4. td \in Seq(S) /\ dn \in Seq(S) /\ td2 \in Seq(S) /\ dn2 \in Seq(S)
  BY <1>2, <1>3
<1>5. CASE td = <<>>
  <2>1. v = w
    BY <1>1, <1>3, <1>5, Zenon DEF WalkOn
  <2> QED
    BY <1>1, <1>3, <1>4, <1>5, <2>1, Zenon DEF Steps2
<1>6. CASE td # <<>>
  <2>1. Head(td) = td[1] /\ td[1] \in S /\ Len(td) \in Nat \ {0} /\ Tail(td) \in Seq(S) /\ Len(Tail(td)) = Len(td) - 1
        /\ \A i \in 1 .. Len(td) - 1 : Tail(td)[i] = td[i + 1]
    BY <1>4, <1>6
  <2>2. Contains(dn, td[1]) <=> td[1] \in In(dn)
    BY <1>4 DEF Contains, In
  <2>3. CASE td[1] \in In(dn)
    <3>1. v = [w EXCEPT !.todo = Tail(td)]
      BY <1>1, <1>3, <1>6, <2>1, <2>2, <2>3, Zenon DEF WalkOn
    <3>2. td2 = Tail(td) /\ dn2 = dn
      BY <1>3, <3>1
    <3>3. DropsHead(td, dn, td2, dn2)
      BY <2>1, <3>2 DEF DropsHead
    <3> QED
      BY <1>1, <1>3, <1>4, <1>6, <2>3, <3>3, Zenon DEF Steps2
  <2>4. CASE td[1] \notin In(dn)
    <3>1. PICK F, s, t : F = Following(S, after, td[1]) /\ s = ByName(F) /\ t = Tail(td)
      OBVIOUS
    <3>2. F \in SUBSET S
      BY <3>1, Zenon DEF Following
    <3>3. IsFiniteSet(F) /\ F \subseteq Nat
      BY <3>2, FS_Subset
    <3>4. s \in Seq(F) /\ Len(s) = Cardinality(F) /\ (\A c \in F : \E i \in 1 .. Cardinality(F) : s[i] = c) /\ Cardinality(F) \in Nat
      BY <3>1, <3>3, ByNameFacts, FS_CardinalityType
    <3>5. s \in Seq(S)
      BY <3>2, <3>4, ShorterSeq
    <3>6. v = [todo |-> s \o t, done |-> Append(dn, td[1])]
      BY <1>1, <1>3, <1>6, <2>1, <2>2, <2>4, <3>1, Zenon DEF WalkOn
    <3>7. td2 = s \o t /\ dn2 = Append(dn, td[1])
      BY <1>3, <3>6
    <3>8. PICK m \in Nat : m = Cardinality(F)
      BY <3>4
    <3>9. t \in Seq(S) /\ Len(t) = Len(td) - 1 /\ (\A i \in 1 .. Len(td) - 1 : t[i] = td[i + 1]) /\ Len(s) = m
      BY <2>1, <3>1, <3>4, <3>8
    <3>10. Len(td2) = m + Len(t) /\ (\A i \in 1 .. m : td2[i] = s[i]) /\ (\A i \in 1 .. Len(t) : td2[m + i] = t[i])
      BY <3>5, <3>7, <3>9
    <3>11. Len(dn2) = Len(dn) + 1 /\ dn2[Len(dn) + 1] = td[1] /\ \A i \in 1 .. Len(dn) : dn2[i] = dn[i]
      BY <1>4, <2>1, <3>7
    <3>12. \A c \in F : \E i \in 1 .. m : td2[i] = c
      BY <3>4, <3>8, <3>10
    <3>13. Len(td2) = Len(td) - 1 + m /\ \A i \in 1 .. Len(td) - 1 : td2[m + i] = td[i + 1]
      <4>1. PICK k \in Nat \ {0} : k = Len(td)
        BY <2>1
      <4>2. Len(t) = k - 1
        BY <3>9, <4>1
      <4>3. Len(td2) = k - 1 + m
        BY <3>10, <4>1, <4>2
      <4>4. \A i \in 1 .. k - 1 : td2[m + i] = t[i] /\ t[i] = td[i + 1]
        BY <3>9, <3>10, <4>1, <4>2, Zenon
      <4> QED
        BY <4>1, <4>3, <4>4
    <3>14. VisitsHead(td, dn, td2, dn2, F)
      BY <3>8, <3>11, <3>12, <3>13, Zenon DEF VisitsHead
    <3> QED
      BY <1>1, <1>3, <1>4, <1>6, <2>4, <3>1, <3>14, Zenon DEF Steps2
  <2> QED
    BY <2>3, <2>4
<1> QED
  BY <1>5, <1>6

LEMMA InFacts ==
  ASSUME NEW S, NEW td \in Seq(S), NEW dn \in Seq(S), NEW td2 \in Seq(S), NEW dn2 \in Seq(S), td # <<>>
  PROVE  /\ DropsHead(td, dn, td2, dn2) => In(dn2) = In(dn) /\ In(td) \subseteq In(td2) \cup {td[1]}
         /\ \A F : IsFiniteSet(F) /\ VisitsHead(td, dn, td2, dn2, F) =>
              In(dn2) = In(dn) \cup {td[1]} /\ In(td) \subseteq In(td2) \cup {td[1]}
<1>1. Len(td) \in Nat \ {0} /\ Len(dn) \in Nat /\ Len(td2) \in Nat /\ Len(dn2) \in Nat
  <2>1. Len(td) \in Nat /\ Len(dn) \in Nat /\ Len(td2) \in Nat /\ Len(dn2) \in Nat
    OBVIOUS
  <2>2. Len(td) # 0
    OBVIOUS
  <2> QED
    BY <2>1, <2>2
<1>2. ASSUME DropsHead(td, dn, td2, dn2)
      PROVE  In(dn2) = In(dn) /\ In(td) \subseteq In(td2) \cup {td[1]}
  <2>1. dn2 = dn /\ Len(td2) = Len(td) - 1 /\ \A i \in 1 .. Len(td) - 1 : td2[i] = td[i + 1]
    BY <1>2 DEF DropsHead
  <2>2. ASSUME NEW i \in 1 .. Len(td) PROVE td[i] \in In(td2) \cup {td[1]}
    <3>1. CASE i # 1
      <4>1. i - 1 \in 1 .. Len(td) - 1 /\ (i - 1) + 1 = i
        BY <1>1, <3>1
      <4>2. td2[i - 1] = td[i] /\ i - 1 \in 1 .. Len(td2)
        BY <2>1, <4>1
      <4> QED
        BY <4>2 DEF In
    <3> QED
      BY <3>1
  <2> QED
    BY <2>1, <2>2 DEF In
<1>3. ASSUME NEW F, IsFiniteSet(F), VisitsHead(td, dn, td2, dn2, F)
      PROVE  In(dn2) = In(dn) \cup {td[1]} /\ In(td) \subseteq In(td2) \cup {td[1]}
  <2>1. PICK m \in Nat : m = Cardinality(F)
    BY <1>3, FS_CardinalityType
  <2>2. /\ Len(dn2) = Len(dn) + 1 /\ dn2[Len(dn) + 1] = td[1] /\ \A i \in 1 .. Len(dn) : dn2[i] = dn[i]
        /\ Len(td2) = Len(td) - 1 + m /\ \A i \in 1 .. Len(td) - 1 : td2[m + i] = td[i + 1]
    BY <1>3, <2>1, Zenon DEF VisitsHead
  <2>3. ASSUME NEW i \in 1 .. Len(td) PROVE td[i] \in In(td2) \cup {td[1]}
    <3>1. CASE i # 1
      <4>1. i - 1 \in 1 .. Len(td) - 1 /\ (i - 1) + 1 = i
        BY <1>1, <3>1
      <4>2. PICK j \in 1 .. Len(td) - 1 : j + 1 = i
        BY <4>1
      <4>3. td2[m + j] = td[i]
        BY <2>2, <4>2
      <4>4. m + j \in 1 .. Len(td2)
        BY <1>1, <2>2
      <4> QED
        BY <4>3, <4>4 DEF In
    <3> QED
      BY <3>1
  <2>4. In(dn2) \subseteq In(dn) \cup {td[1]}
    <3>1. ASSUME NEW i \in 1 .. Len(dn2) PROVE dn2[i] \in In(dn) \cup {td[1]}
      <4>1. i \in 1 .. Len(dn) \/ i = Len(dn) + 1
        BY <1>1, <2>2
      <4> QED
        BY <2>2, <4>1 DEF In
    <3> QED
      BY <3>1 DEF In
  <2>5. In(dn) \cup {td[1]} \subseteq In(dn2)
    <3>1. ASSUME NEW i \in 1 .. Len(dn) PROVE dn[i] \in In(dn2)
      <4>1. i \in 1 .. Len(dn2)
        BY <1>1, <2>2
      <4> QED
        BY <2>2, <4>1 DEF In
    <3>2. td[1] \in In(dn2)
      <4>1. Len(dn) + 1 \in 1 .. Len(dn2)
        BY <1>1, <2>2
      <4> QED
        BY <2>2, <4>1 DEF In
    <3> QED
      BY <3>1, <3>2 DEF In
  <2>6. In(td) \subseteq In(td2) \cup {td[1]}
    BY <2>3 DEF In
  <2> QED
    BY <2>4, <2>5, <2>6
<1> QED
  BY <1>2, <1>3

-----------------------------------------------------------------------------
(* The walk visits every one of S and none twice, and 3 * |S| steps are         *)
(* enough: a step takes one off the list or moves the followers of one, who     *)
(* were still waiting for it, to the list.                                   *)
NoRepeats(s) == \A i, j \in 1 .. Len(s) : s[i] = s[j] => i = j
Waiting(S, after, dn) == {c \in S : c \notin Begins(S, after) /\ after[c] \notin In(dn)}
Walked(S, after, td, dn, n, N) ==
  /\ td \in Seq(S) /\ dn \in Seq(S)
  /\ NoRepeats(dn)
  /\ S \subseteq In(td) \cup In(dn)
  /\ td = <<>> \/ Len(td) + Cardinality(Waiting(S, after, dn)) + n <= N

LEMMA WaitingDrops ==
  ASSUME NEW S, IsFiniteSet(S), NEW after, NEW dn, NEW dn2, NEW h, h \notin In(dn), In(dn2) = In(dn) \cup {h}
  PROVE  /\ Cardinality(Waiting(S, after, dn)) \in Nat /\ Cardinality(Waiting(S, after, dn2)) \in Nat
         /\ Cardinality(Following(S, after, h)) \in Nat /\ IsFiniteSet(Following(S, after, h))
         /\ Cardinality(Waiting(S, after, dn)) = Cardinality(Waiting(S, after, dn2)) + Cardinality(Following(S, after, h))
<1>1. PICK W, W2, F : W = Waiting(S, after, dn) /\ W2 = Waiting(S, after, dn2) /\ F = Following(S, after, h)
  OBVIOUS
<1>2. W \in SUBSET S /\ W2 \in SUBSET S /\ F \in SUBSET S
  BY <1>1 DEF Waiting, Following
<1>3. W = W2 \cup F /\ W2 \cap F = {}
  BY <1>1 DEF Waiting, Following
<1>4. IsFiniteSet(W) /\ IsFiniteSet(W2) /\ IsFiniteSet(F)
  BY <1>2, FS_Subset
<1>5. Cardinality(W) \in Nat /\ Cardinality(W2) \in Nat /\ Cardinality(F) \in Nat
  BY <1>4, FS_CardinalityType
<1>6. Cardinality(W2 \cup F) = Cardinality(W2) + Cardinality(F) - Cardinality(W2 \cap F)
  BY <1>4, FS_Union
<1>7. Cardinality(W) = Cardinality(W2) + Cardinality(F)
  <2>1. Cardinality(W2 \cap F) = 0
    BY <1>3, FS_EmptySet
  <2> QED
    BY <1>3, <1>5, <1>6, <2>1
<1> QED
  BY <1>1, <1>4, <1>5, <1>7, Zenon

LEMMA LongerNoRepeats ==
  ASSUME NEW S, NEW dn \in Seq(S), NEW dn2 \in Seq(S), NEW h, h \notin In(dn), NoRepeats(dn),
         Len(dn2) = Len(dn) + 1, dn2[Len(dn) + 1] = h, \A i \in 1 .. Len(dn) : dn2[i] = dn[i]
  PROVE  NoRepeats(dn2)
<1>1. PICK m \in Nat : m = Len(dn)
  OBVIOUS
<1>2. \A i \in 1 .. m : dn[i] # h
  BY <1>1 DEF In
<1>3. \A i, j \in 1 .. m : dn[i] = dn[j] => i = j
  BY <1>1 DEF NoRepeats
<1>4. ASSUME NEW i \in 1 .. m + 1, NEW j \in 1 .. m + 1, dn2[i] = dn2[j]
      PROVE  i = j
  <2>1. CASE i \in 1 .. m /\ j \in 1 .. m
    BY <1>1, <1>3, <1>4, <2>1
  <2>2. CASE i \in 1 .. m /\ j = m + 1
    BY <1>1, <1>2, <1>4, <2>2
  <2>3. CASE i = m + 1 /\ j \in 1 .. m
    BY <1>1, <1>2, <1>4, <2>3
  <2>4. CASE i = m + 1 /\ j = m + 1
    BY <2>4
  <2>5. (i \in 1 .. m \/ i = m + 1) /\ (j \in 1 .. m \/ j = m + 1)
    OBVIOUS
  <2> QED
    BY <2>1, <2>2, <2>3, <2>4, <2>5, Zenon
<1> QED
  BY <1>1, <1>4 DEF NoRepeats

LEMMA WalkedStep ==
  ASSUME NEW S, IsFiniteSet(S), NEW after, NEW td, NEW dn, NEW td2, NEW dn2, NEW n \in Nat, NEW N \in Nat,
         Steps2(S, after, td, dn, td2, dn2), Walked(S, after, td, dn, n, N)
  PROVE  Walked(S, after, td2, dn2, n + 1, N)
<1>1. td \in Seq(S) /\ dn \in Seq(S) /\ td2 \in Seq(S) /\ dn2 \in Seq(S)
  BY Zenon DEF Steps2
<1>2. NoRepeats(dn) /\ S \subseteq In(td) \cup In(dn) /\ (td = <<>> \/ Len(td) + Cardinality(Waiting(S, after, dn)) + n <= N)
  BY Zenon DEF Walked
<1>3. CASE td = <<>> /\ td2 = td /\ dn2 = dn
  BY <1>1, <1>2, <1>3, Zenon DEF Walked
<1>4. CASE td # <<>> /\ td[1] \in In(dn) /\ DropsHead(td, dn, td2, dn2)
  <2>1. In(dn2) = In(dn) /\ In(td) \subseteq In(td2) \cup {td[1]}
    BY <1>1, <1>4, InFacts, Zenon
  <2>2. dn2 = dn /\ Len(td2) = Len(td) - 1
    BY <1>4, Zenon DEF DropsHead
  <2>3. S \subseteq In(td2) \cup In(dn2)
    BY <1>2, <1>4, <2>1
  <2>4. PICK r \in Nat : r = Cardinality(Waiting(S, after, dn))
    <3>1. IsFiniteSet(Waiting(S, after, dn))
      <4>1. PICK W : W = Waiting(S, after, dn)
        OBVIOUS
      <4>2. W \in SUBSET S
        BY <4>1 DEF Waiting
      <4> QED
        BY <4>1, <4>2, FS_Subset
    <3> QED
      BY <3>1, FS_CardinalityType
  <2>5. Len(td2) + r + (n + 1) <= N
    BY <1>1, <1>2, <1>4, <2>2, <2>4
  <2> QED
    BY <1>1, <1>2, <2>2, <2>3, <2>4, <2>5, Zenon DEF Walked
<1>5. CASE td # <<>> /\ td[1] \notin In(dn) /\ VisitsHead(td, dn, td2, dn2, Following(S, after, td[1]))
  <2>1. PICK h, F : h = td[1] /\ F = Following(S, after, h)
    OBVIOUS
  <2>2. VisitsHead(td, dn, td2, dn2, F) /\ h \notin In(dn)
    BY <1>5, <2>1, Zenon
  <2>3. IsFiniteSet(F)
    <3>1. F \in SUBSET S
      BY <2>1 DEF Following
    <3> QED
      BY <3>1, FS_Subset
  <2>4. In(dn2) = In(dn) \cup {h} /\ In(td) \subseteq In(td2) \cup {h}
    <3>1. td # <<>> /\ VisitsHead(td, dn, td2, dn2, F)
      BY <1>5, <2>2, Zenon
    <3>2. In(dn2) = In(dn) \cup {td[1]} /\ In(td) \subseteq In(td2) \cup {td[1]}
      BY <1>1, <2>3, <3>1, InFacts
    <3> QED
      BY <2>1, <3>2, Zenon
  <2>5. S \subseteq In(td2) \cup In(dn2)
    BY <1>2, <2>4
  <2>6. PICK r, r2, m \in Nat : r = Cardinality(Waiting(S, after, dn)) /\ r2 = Cardinality(Waiting(S, after, dn2))
                                /\ m = Cardinality(F) /\ r = r2 + m
    <3>1. /\ Cardinality(Waiting(S, after, dn)) \in Nat /\ Cardinality(Waiting(S, after, dn2)) \in Nat
          /\ Cardinality(Following(S, after, h)) \in Nat
          /\ Cardinality(Waiting(S, after, dn)) = Cardinality(Waiting(S, after, dn2)) + Cardinality(Following(S, after, h))
      <4>1. h \notin In(dn) /\ In(dn2) = In(dn) \cup {h}
        BY <2>2, <2>4, Zenon
      <4> QED
        BY <4>1, WaitingDrops, Zenon
    <3> QED
      BY <2>1, <3>1, Zenon
  <2>7. /\ Len(dn2) = Len(dn) + 1 /\ dn2[Len(dn) + 1] = h /\ \A i \in 1 .. Len(dn) : dn2[i] = dn[i]
        /\ Len(td2) = Len(td) - 1 + m
    BY <2>1, <2>2, <2>6, Zenon DEF VisitsHead
  <2>8. NoRepeats(dn2)
    BY <1>1, <1>2, <2>2, <2>7, LongerNoRepeats
  <2>9. Len(td2) + r2 + (n + 1) <= N
    <3>1. Len(td) + r + n <= N
      BY <1>2, <1>5, <2>6, Zenon
    <3>2. PICK k \in Nat : k = Len(td)
      BY <1>1
    <3>3. Len(td2) = k - 1 + m /\ r = r2 + m /\ k + r + n <= N
      BY <2>6, <2>7, <3>1, <3>2, Zenon
    <3> QED
      BY <3>3
  <2> QED
    BY <1>1, <2>5, <2>6, <2>8, <2>9, Zenon DEF Walked
<1> QED
  BY <1>3, <1>4, <1>5, Zenon DEF Steps2

LEMMA NoRepeatsShort ==
  ASSUME NEW S, IsFiniteSet(S), NEW dn \in Seq(S), NoRepeats(dn)
  PROVE  Len(dn) <= Cardinality(S)
<1>1. PICK m \in Nat : m = Len(dn)
  OBVIOUS
<1>2. dn \in [1 .. m -> S] /\ \A i, j \in 1 .. m : dn[i] = dn[j] => i = j
  BY <1>1 DEF NoRepeats
<1>3. dn \in Injection(1 .. m, S)
  BY <1>2 DEF Injection, IsInjective
<1>4. Cardinality(1 .. m) = m
  BY FS_Interval
<1>5. Cardinality(1 .. m) <= Cardinality(S)
  BY <1>3, FS_Injection
<1> QED
  BY <1>1, <1>4, <1>5

(* What the list of _sort_orders is: each of S once.                           *)
LEMMA OrderFacts ==
  ASSUME NEW S, IsFiniteSet(S), S \subseteq Nat, NEW after
  PROVE  /\ InOrder(S, after) \in Seq(S) /\ NoRepeats(InOrder(S, after)) /\ In(InOrder(S, after)) = S
         /\ Len(InOrder(S, after)) <= Cardinality(S)
<1>1. PICK z \in Nat : z = Cardinality(S)
  BY FS_CardinalityType
<1>2. PICK N \in Nat : N = 3 * z
  OBVIOUS
<1>3. PICK g : InOrder(S, after) = g[N].done /\ Walks(g, N, S, after)
  BY <1>1, <1>2, WalkUnfolds
<1>4. /\ g[0] = [todo |-> ByName(Begins(S, after)) \o ByName(S), done |-> <<>>]
      /\ \A n \in 0 .. N : g[n] \in [todo : Seq(S), done : Seq(S)]
      /\ \A n \in 1 .. N : g[n] = WalkOn(S, after, g[n - 1])
  BY <1>3, Zenon DEF Walks
<1> DEFINE Good == {n \in 0 .. N : Walked(S, after, g[n].todo, g[n].done, n, N)}
<1>5. 0 \in Good
  <2>1. PICK td, dn : td = g[0].todo /\ dn = g[0].done
    OBVIOUS
  <2>2. PICK B : B = Begins(S, after)
    OBVIOUS
  <2>3. B \in SUBSET S
    BY <2>2 DEF Begins
  <2>4. IsFiniteSet(B) /\ B \subseteq Nat
    BY <2>3, FS_Subset
  <2>5. PICK p, q : p = ByName(B) /\ q = ByName(S)
    OBVIOUS
  <2>6. p \in Seq(S) /\ q \in Seq(S) /\ Len(p) = Cardinality(B) /\ Len(q) = z /\ \A c \in S : \E i \in 1 .. z : q[i] = c
    <3>1. p \in Seq(B) /\ Len(p) = Cardinality(B)
      BY <2>4, <2>5, ByNameFacts
    <3>2. q \in Seq(S) /\ Len(q) = z /\ \A c \in S : \E i \in 1 .. z : q[i] = c
      BY <1>1, <2>5, ByNameFacts
    <3>3. p \in Seq(S)
      BY <2>3, <3>1, ShorterSeq
    <3> QED
      BY <3>1, <3>2, <3>3
  <2>7. td = p \o q /\ dn = <<>>
    BY <1>4, <2>1, <2>2, <2>5
  <2>8. td \in Seq(S) /\ dn \in Seq(S) /\ NoRepeats(dn)
    BY <2>6, <2>7 DEF NoRepeats
  <2>9. PICK b \in Nat : b = Cardinality(B) /\ b <= z
    <3>1. Cardinality(B) <= Cardinality(S) /\ Cardinality(B) \in Nat
      BY <2>3, <2>4, FS_Subset, FS_CardinalityType
    <3> QED
      BY <1>1, <3>1
  <2>10. Len(td) = b + z
    BY <2>6, <2>7, <2>9
  <2>11. S \subseteq In(td)
    <3>1. ASSUME NEW c \in S PROVE c \in In(td)
      <4>1. PICK i \in 1 .. z : q[i] = c
        BY <2>6
      <4>2. td[b + i] = c /\ b + i \in 1 .. Len(td)
        BY <2>6, <2>7, <2>9, <2>10, <4>1
      <4> QED
        BY <4>2 DEF In
    <3> QED
      BY <3>1
  <2>12. PICK r \in Nat : r = Cardinality(Waiting(S, after, dn)) /\ r <= z
    <3>1. PICK W : W = Waiting(S, after, dn)
      OBVIOUS
    <3>2. W \in SUBSET S
      BY <3>1 DEF Waiting
    <3>3. Cardinality(W) <= Cardinality(S) /\ Cardinality(W) \in Nat
      BY <3>2, FS_Subset, FS_CardinalityType
    <3> QED
      BY <1>1, <3>1, <3>3
  <2>13. Len(td) + r + 0 <= N
    BY <1>2, <2>9, <2>10, <2>12
  <2>14. Walked(S, after, td, dn, 0, N)
    <3>1. S \subseteq In(td) \cup In(dn)
      BY <2>11
    <3> QED
      BY <2>8, <2>12, <2>13, <3>1, Zenon DEF Walked
  <2> QED
    BY <2>1, <2>14
<1>6. ASSUME NEW n \in 1 .. N, n - 1 \in Good PROVE n \in Good
  <2>1. PICK k \in 0 .. N : k = n - 1 /\ k + 1 = n /\ k \in Nat
    OBVIOUS
  <2>2. Walked(S, after, g[k].todo, g[k].done, k, N)
    BY <1>6, <2>1
  <2>3. g[n] = WalkOn(S, after, g[k]) /\ g[k] \in [todo : Seq(S), done : Seq(S)]
    BY <1>4, <2>1
  <2>4. Steps2(S, after, g[k].todo, g[k].done, g[n].todo, g[n].done)
    BY <2>3, OneStep, Zenon
  <2>5. Walked(S, after, g[n].todo, g[n].done, k + 1, N)
    BY <2>1, <2>2, <2>4, WalkedStep
  <2> QED
    BY <2>1, <2>5
<1>7. N \in Good
  <2> HIDE DEF Good
  <2>1. \A n \in 0 .. N : n \in Good
    BY <1>5, <1>6, UpFrom
  <2> QED
    BY <2>1
<1>8. PICK td, dn : td = g[N].todo /\ dn = g[N].done /\ Walked(S, after, td, dn, N, N)
  BY <1>7
<1>9. td \in Seq(S) /\ dn \in Seq(S) /\ NoRepeats(dn) /\ S \subseteq In(td) \cup In(dn)
      /\ (td = <<>> \/ Len(td) + Cardinality(Waiting(S, after, dn)) + N <= N)
  BY <1>8, Zenon DEF Walked
<1>10. td = <<>>
  <2>1. PICK r \in Nat : r = Cardinality(Waiting(S, after, dn))
    <3>1. PICK W : W = Waiting(S, after, dn)
      OBVIOUS
    <3>2. W \in SUBSET S
      BY <3>1 DEF Waiting
    <3>3. Cardinality(W) \in Nat
      BY <3>2, FS_Subset, FS_CardinalityType
    <3> QED
      BY <3>1, <3>3
  <2>2. ASSUME Len(td) + r + N <= N PROVE Len(td) = 0
    BY <1>9, <2>1, <2>2
  <2>3. Len(td) = 0 => td = <<>>
    BY <1>9
  <2> QED
    BY <1>9, <2>1, <2>2, <2>3, Zenon
<1>11. In(dn) = S
  <2>1. In(td) = {}
    BY <1>10 DEF In
  <2>2. In(dn) \subseteq S
    BY <1>9 DEF In
  <2> QED
    BY <1>9, <2>1, <2>2
<1>12. Len(dn) <= z
  BY <1>1, <1>9, NoRepeatsShort
<1> QED
  BY <1>1, <1>3, <1>8, <1>9, <1>11, <1>12, Zenon

-----------------------------------------------------------------------------
(* On siblings of which no two follow the same one, the walk follows each chain *)
(* from its beginning: at the front of the list stand the one who follows the   *)
(* last one visited, if any, and the beginnings not yet visited.               *)
OneFollows(S, after) ==
  \A c, d \in S : c \notin Begins(S, after) /\ d \notin Begins(S, after) /\ after[c] = after[d] => c = d
Chained(S, after, dn) ==
  \A i \in 1 .. Len(dn) : dn[i] \in Begins(S, after) \/ (i >= 2 /\ dn[i - 1] = after[dn[i]])
Leads(S, after, td, dn, k) ==
  \A i \in 1 .. k : td[i] \in Begins(S, after) \/ (i = 1 /\ dn # <<>> /\ after[td[1]] = dn[Len(dn)])
AllBegin(S, after, td, dn, k) ==
  \A b \in Begins(S, after) : b \in In(dn) \/ \E i \in 1 .. k : td[i] = b
NextIsFirst(S, after, td, dn, k) ==
  \A x \in S : x \notin Begins(S, after) /\ after[x] \in In(dn) => x \in In(dn) \/ (k # 0 /\ td[1] = x)
Fronted(S, after, td, dn, k) ==
  /\ k \in 0 .. Len(td) /\ Leads(S, after, td, dn, k)
  /\ AllBegin(S, after, td, dn, k) /\ NextIsFirst(S, after, td, dn, k)

LEMMA FrontEmpty ==
  ASSUME NEW S, NEW after, Forest(S, after), NEW td, NEW dn, AllBegin(S, after, td, dn, 0), NextIsFirst(S, after, td, dn, 0)
  PROVE  S \subseteq In(dn)
<1>1. PICK D : D = In(dn)
  OBVIOUS
<1>2. \A b \in Begins(S, after) : b \in D
  BY <1>1 DEF AllBegin
<1>3. \A x \in S : x \notin Begins(S, after) /\ after[x] \in D => x \in D
  BY <1>1 DEF NextIsFirst
<1> SUFFICES ASSUME S \ D # {} PROVE FALSE
  BY <1>1
<1>4. PICK c \in S \ D : after[c] \notin S \ D
  <2>1. S \ D \in (SUBSET S) \ {{}}
    OBVIOUS
  <2> QED
    BY <2>1, Zenon DEF Forest
<1>5. c \notin Begins(S, after) /\ after[c] \in S
  BY <1>2, <1>4 DEF Begins
<1>6. after[c] \in D
  BY <1>4, <1>5
<1> QED
  BY <1>3, <1>4, <1>5, <1>6

(* Dropping a head that was visited.                                         *)
LEMMA FrontDrops ==
  ASSUME NEW S, NEW after, Forest(S, after), NEW td \in Seq(S), NEW dn \in Seq(S), NEW td2 \in Seq(S), NEW dn2 \in Seq(S),
         td # <<>>, td[1] \in In(dn), DropsHead(td, dn, td2, dn2), NEW k, Fronted(S, after, td, dn, k)
  PROVE  \E k2 : Fronted(S, after, td2, dn2, k2)
<1>1. PICK n \in Nat \ {0} : n = Len(td)
  <2>1. Len(td) \in Nat /\ Len(td) # 0
    OBVIOUS
  <2> QED
    BY <2>1
<1>2. dn2 = dn /\ Len(td2) = n - 1 /\ \A i \in 1 .. n - 1 : td2[i] = td[i + 1]
  BY <1>1 DEF DropsHead
<1>3. k \in 0 .. n /\ Leads(S, after, td, dn, k) /\ AllBegin(S, after, td, dn, k) /\ NextIsFirst(S, after, td, dn, k)
  BY <1>1 DEF Fronted
<1>4. CASE k = 0
  <2>1. S \subseteq In(dn)
    BY <1>3, <1>4, FrontEmpty
  <2>2. Fronted(S, after, td2, dn2, 0)
    <3>1. AllBegin(S, after, td2, dn2, 0)
      BY <1>2, <2>1 DEF AllBegin, Begins
    <3>2. NextIsFirst(S, after, td2, dn2, 0)
      BY <1>2, <2>1 DEF NextIsFirst
    <3>3. Leads(S, after, td2, dn2, 0) /\ 0 \in 0 .. Len(td2)
      BY DEF Leads
    <3> QED
      BY <3>1, <3>2, <3>3 DEF Fronted
  <2> QED
    BY <2>2
<1>5. CASE k # 0
  <2>1. PICK j \in Nat : k = j + 1 /\ j \in 0 .. n - 1
    <3>1. k - 1 \in Nat /\ k = (k - 1) + 1 /\ k - 1 \in 0 .. n - 1
      BY <1>3, <1>5
    <3> QED
      BY <3>1
  <2>2. \A i \in 1 .. j : td2[i] = td[i + 1] /\ i + 1 \in 1 .. k /\ i + 1 # 1
    BY <1>2, <2>1
  <2>3. Leads(S, after, td2, dn2, j)
    <3>1. \A i \in 1 .. k : i # 1 => td[i] \in Begins(S, after)
      BY <1>3, Zenon DEF Leads
    <3>2. \A i \in 1 .. j : td2[i] \in Begins(S, after)
      BY <2>2, <3>1
    <3> QED
      BY <3>2 DEF Leads
  <2>4. AllBegin(S, after, td2, dn2, j)
    <3> SUFFICES ASSUME NEW b \in Begins(S, after), b \notin In(dn) PROVE \E i \in 1 .. j : td2[i] = b
      BY <1>2 DEF AllBegin
    <3>1. PICK i \in 1 .. k : td[i] = b
      BY <1>3 DEF AllBegin
    <3>2. i # 1
      BY <3>1
    <3>3. i - 1 \in 1 .. j /\ (i - 1) + 1 = i
      BY <2>1, <3>2
    <3>4. td2[i - 1] = b
      BY <2>2, <3>1, <3>3
    <3> QED
      BY <3>3, <3>4
  <2>5. NextIsFirst(S, after, td2, dn2, j)
    BY <1>2, <1>3 DEF NextIsFirst
  <2>6. Fronted(S, after, td2, dn2, j)
    BY <1>2, <2>1, <2>3, <2>4, <2>5 DEF Fronted
  <2> QED
    BY <2>6
<1> QED
  BY <1>4, <1>5

(* Visiting the head, and its follower comes to the front.                     *)
LEMMA FrontVisits ==
  ASSUME NEW S, IsFiniteSet(S), NEW after, OneFollows(S, after), Forest(S, after),
         NEW td \in Seq(S), NEW dn \in Seq(S), NEW td2 \in Seq(S), NEW dn2 \in Seq(S),
         td # <<>>, td[1] \notin In(dn), VisitsHead(td, dn, td2, dn2, Following(S, after, td[1])),
         NEW k, Fronted(S, after, td, dn, k), Chained(S, after, dn)
  PROVE  /\ \E k2 : Fronted(S, after, td2, dn2, k2)
         /\ Chained(S, after, dn2)
<1>1. PICK n \in Nat \ {0} : n = Len(td)
  <2>1. Len(td) \in Nat /\ Len(td) # 0
    OBVIOUS
  <2> QED
    BY <2>1
<1>2. PICK q \in Nat : q = Len(dn)
  OBVIOUS
<1>3. PICK h, F, B : h = td[1] /\ F = Following(S, after, h) /\ B = Begins(S, after)
  OBVIOUS
<1>4. h \in S /\ h \notin In(dn)
  BY <1>1, <1>3
<1>5. F \in SUBSET S /\ \A y \in S : y \in F <=> y \notin B /\ after[y] = h
  BY <1>3 DEF Following
<1>6. IsFiniteSet(F) /\ Cardinality(F) \in Nat
  BY <1>5, FS_Subset, FS_CardinalityType
<1>7. VisitsHead(td, dn, td2, dn2, F)
  BY <1>3, Zenon
<1>8. PICK m \in Nat : m = Cardinality(F)
  BY <1>6
<1>9. /\ Len(dn2) = q + 1 /\ dn2[q + 1] = h /\ (\A i \in 1 .. q : dn2[i] = dn[i])
      /\ Len(td2) = n - 1 + m /\ (\A i \in 1 .. n - 1 : td2[m + i] = td[i + 1])
      /\ \A c \in F : \E i \in 1 .. m : td2[i] = c
  BY <1>1, <1>2, <1>3, <1>7, <1>8, Zenon DEF VisitsHead
<1>10. In(dn2) = In(dn) \cup {h}
  <2>1. In(dn2) = In(dn) \cup {td[1]}
    BY <1>6, <1>7, InFacts
  <2> QED
    BY <1>3, <2>1, Zenon
<1>11. k \in 0 .. n /\ Leads(S, after, td, dn, k) /\ AllBegin(S, after, td, dn, k) /\ NextIsFirst(S, after, td, dn, k)
  BY <1>1 DEF Fronted
<1>12. k # 0
  <2> SUFFICES ASSUME k = 0 PROVE FALSE
    OBVIOUS
  <2>1. AllBegin(S, after, td, dn, 0) /\ NextIsFirst(S, after, td, dn, 0)
    BY <1>11, Zenon
  <2>2. S \subseteq In(dn)
    BY <2>1, FrontEmpty
  <2> QED
    BY <1>4, <2>2
<1>13. h \in B \/ (q # 0 /\ after[h] = dn[q])
  <2>1. 1 \in 1 .. k
    BY <1>11, <1>12
  <2>2. td[1] \in Begins(S, after) \/ (dn # <<>> /\ after[td[1]] = dn[Len(dn)])
    BY <1>11, <2>1, Zenon DEF Leads
  <2>3. dn # <<>> => q # 0
    BY <1>2
  <2> QED
    BY <1>2, <1>3, <2>2, <2>3, Zenon
<1>14. Chained(S, after, dn2)
  <2>1. ASSUME NEW i \in 1 .. q + 1
        PROVE  dn2[i] \in B \/ (i >= 2 /\ dn2[i - 1] = after[dn2[i]])
    <3>1. CASE i = q + 1
      <4>1. CASE h \in B
        BY <1>9, <3>1, <4>1
      <4>2. CASE q # 0 /\ after[h] = dn[q]
        <5>1. i >= 2 /\ i - 1 = q /\ q \in 1 .. q
          BY <3>1, <4>2
        <5> QED
          BY <1>9, <3>1, <4>2, <5>1
      <4> QED
        BY <1>13, <4>1, <4>2
    <3>2. CASE i # q + 1
      <4>1. i \in 1 .. q
        BY <3>2
      <4>2. dn[i] \in B \/ (i >= 2 /\ dn[i - 1] = after[dn[i]])
        BY <1>2, <1>3, <4>1 DEF Chained
      <4>3. i >= 2 => i - 1 \in 1 .. q
        BY <4>1
      <4> QED
        BY <1>9, <4>1, <4>2, <4>3
    <3> QED
      BY <3>1, <3>2
  <2> QED
    BY <1>3, <1>9, <2>1 DEF Chained
<1>15. \A i \in 1 .. k : i # 1 => td[i] \in B
  BY <1>3, <1>11, Zenon DEF Leads
<1>16. \A b \in B : b \in In(dn) \/ \E i \in 1 .. k : td[i] = b
  BY <1>3, <1>11, Zenon DEF AllBegin
<1>17. \A x \in S : x \notin B /\ after[x] \in In(dn) => x \in In(dn) \/ x = h
  BY <1>3, <1>11, Zenon DEF NextIsFirst
<1>18. \A x \in S : x \notin B /\ after[x] \in In(dn2) => x \in In(dn2) \/ x \in F
  BY <1>5, <1>10, <1>17
<1>19. CASE F = {}
  <2>1. m = 0
    BY <1>8, <1>19, FS_EmptySet
  <2>2. PICK j \in Nat : k = j + 1 /\ j \in 0 .. n - 1
    <3>1. k - 1 \in Nat /\ k = (k - 1) + 1 /\ k - 1 \in 0 .. n - 1
      BY <1>11, <1>12
    <3> QED
      BY <3>1
  <2>3. \A i \in 1 .. n - 1 : td2[i] = td[i + 1]
    BY <1>9, <2>1
  <2>4. \A i \in 1 .. j : td2[i] = td[i + 1] /\ i + 1 \in 1 .. k /\ i + 1 # 1
    BY <2>2, <2>3
  <2>5. Leads(S, after, td2, dn2, j)
    BY <1>3, <1>15, <2>4 DEF Leads
  <2>6. AllBegin(S, after, td2, dn2, j)
    <3>1. ASSUME NEW b \in B, b \notin In(dn2) PROVE \E i \in 1 .. j : td2[i] = b
      <4>1. PICK i \in 1 .. k : td[i] = b
        BY <1>10, <1>16, <3>1
      <4>2. i # 1
        BY <1>3, <1>10, <3>1, <4>1
      <4>3. i - 1 \in 1 .. j /\ (i - 1) + 1 = i
        BY <2>2, <4>2
      <4>4. td2[i - 1] = b
        BY <2>4, <4>1, <4>3
      <4> QED
        BY <4>3, <4>4
    <3> QED
      BY <1>3, <3>1 DEF AllBegin
  <2>7. NextIsFirst(S, after, td2, dn2, j)
    BY <1>3, <1>18, <1>19 DEF NextIsFirst
  <2>8. j \in 0 .. Len(td2)
    BY <1>9, <2>1, <2>2
  <2>9. Fronted(S, after, td2, dn2, j)
    BY <2>5, <2>6, <2>7, <2>8 DEF Fronted
  <2> QED
    BY <1>14, <2>9
<1>20. CASE F # {}
  <2>1. PICK y \in F : F = {y}
    <3>1. \A x, y \in F : x = y
      BY <1>3, <1>5 DEF OneFollows
    <3> QED
      BY <1>20, <3>1
  <2>2. m = 1
    BY <1>8, <2>1, FS_Singleton
  <2>3. td2[1] = y /\ after[y] = h
    <3>1. \E i \in 1 .. 1 : td2[i] = y
      BY <1>9, <2>1, <2>2
    <3> QED
      BY <1>5, <3>1
  <2>4. \A i \in 1 .. n : i # 1 => td2[i] = td[i]
    <3>1. ASSUME NEW i \in 1 .. n, i # 1 PROVE td2[i] = td[i]
      <4>1. i - 1 \in 1 .. n - 1 /\ (i - 1) + 1 = i /\ 1 + (i - 1) = i
        BY <3>1
      <4>2. PICK j \in 1 .. n - 1 : j + 1 = i /\ 1 + j = i
        BY <4>1
      <4> QED
        BY <1>9, <2>2, <4>2
    <3> QED
      BY <3>1
  <2>5. Leads(S, after, td2, dn2, k)
    <3>1. ASSUME NEW i \in 1 .. k PROVE td2[i] \in B \/ (i = 1 /\ dn2 # <<>> /\ after[td2[1]] = dn2[Len(dn2)])
      <4>1. CASE i = 1
        <5>1. dn2 # <<>>
          BY <1>9
        <5> QED
          BY <1>9, <2>3, <4>1, <5>1
      <4>2. CASE i # 1
        BY <1>11, <1>15, <2>4, <4>2
      <4> QED
        BY <4>1, <4>2
    <3> QED
      BY <1>3, <3>1, Zenon DEF Leads
  <2>6. AllBegin(S, after, td2, dn2, k)
    <3>1. ASSUME NEW b \in B, b \notin In(dn2) PROVE \E i \in 1 .. k : td2[i] = b
      <4>1. PICK i \in 1 .. k : td[i] = b
        BY <1>10, <1>16, <3>1
      <4>2. i # 1
        BY <1>3, <1>10, <3>1, <4>1
      <4>3. td2[i] = b
        BY <1>11, <2>4, <4>1, <4>2
      <4> QED
        BY <4>3
    <3> QED
      BY <1>3, <3>1 DEF AllBegin
  <2>7. NextIsFirst(S, after, td2, dn2, k)
    BY <1>3, <1>12, <1>18, <2>1, <2>3 DEF NextIsFirst
  <2>8. k \in 0 .. Len(td2)
    BY <1>9, <1>11, <2>2
  <2>9. Fronted(S, after, td2, dn2, k)
    BY <2>5, <2>6, <2>7, <2>8 DEF Fronted
  <2> QED
    BY <1>14, <2>9
<1> QED
  BY <1>19, <1>20

LEMMA FrontStep ==
  ASSUME NEW S, IsFiniteSet(S), NEW after, OneFollows(S, after), Forest(S, after),
         NEW td, NEW dn, NEW td2, NEW dn2, Steps2(S, after, td, dn, td2, dn2),
         Chained(S, after, dn), NEW k, Fronted(S, after, td, dn, k)
  PROVE  /\ \E k2 : Fronted(S, after, td2, dn2, k2)
         /\ Chained(S, after, dn2)
<1>1. td \in Seq(S) /\ dn \in Seq(S) /\ td2 \in Seq(S) /\ dn2 \in Seq(S)
  BY Zenon DEF Steps2
<1>2. CASE td = <<>> /\ td2 = td /\ dn2 = dn
  BY <1>2, Zenon
<1>3. CASE td # <<>> /\ td[1] \in In(dn) /\ DropsHead(td, dn, td2, dn2)
  <2>1. dn2 = dn
    BY <1>3, Zenon DEF DropsHead
  <2>2. td # <<>> /\ td[1] \in In(dn) /\ DropsHead(td, dn, td2, dn2)
    BY <1>3, Zenon
  <2>3. \E k2 : Fronted(S, after, td2, dn2, k2)
    BY <1>1, <2>2, FrontDrops
  <2> QED
    BY <2>1, <2>3, Zenon
<1>4. CASE td # <<>> /\ td[1] \notin In(dn) /\ VisitsHead(td, dn, td2, dn2, Following(S, after, td[1]))
  <2>1. td # <<>> /\ td[1] \notin In(dn) /\ VisitsHead(td, dn, td2, dn2, Following(S, after, td[1]))
    BY <1>4, Zenon
  <2> QED
    BY <1>1, <2>1, FrontVisits
<1> QED
  BY <1>2, <1>3, <1>4, Zenon DEF Steps2

(* The list of _sort_orders, where the predecessors form chains: each stands    *)
(* behind its predecessor.                                                  *)
LEMMA OrderFollows ==
  ASSUME NEW S, IsFiniteSet(S), S \subseteq Nat, NEW after, OneFollows(S, after), Forest(S, after)
  PROVE  Chained(S, after, InOrder(S, after))
<1>1. PICK N \in Nat : N = 3 * Cardinality(S)
  BY FS_CardinalityType
<1>2. PICK g : InOrder(S, after) = g[N].done /\ Walks(g, N, S, after)
  BY <1>1, WalkUnfolds
<1>3. /\ g[0] = [todo |-> ByName(Begins(S, after)) \o ByName(S), done |-> <<>>]
      /\ \A n \in 0 .. N : g[n] \in [todo : Seq(S), done : Seq(S)]
      /\ \A n \in 1 .. N : g[n] = WalkOn(S, after, g[n - 1])
  BY <1>2, Zenon DEF Walks
<1> DEFINE Good == {n \in 0 .. N : Chained(S, after, g[n].done) /\ \E k : Fronted(S, after, g[n].todo, g[n].done, k)}
<1>4. 0 \in Good
  <2>1. PICK td, dn, B, p, q : td = g[0].todo /\ dn = g[0].done /\ B = Begins(S, after) /\ p = ByName(B) /\ q = ByName(S)
    OBVIOUS
  <2>2. B \in SUBSET S
    BY <2>1 DEF Begins
  <2>3. IsFiniteSet(B) /\ B \subseteq Nat
    BY <2>2, FS_Subset
  <2>4. PICK b \in Nat : b = Cardinality(B)
    BY <2>3, FS_CardinalityType
  <2>5. p \in Seq(B) /\ Len(p) = b /\ (\A c \in B : \E i \in 1 .. b : p[i] = c) /\ q \in Seq(S)
    <3>1. ByName(B) \in Seq(B) /\ Len(ByName(B)) = b /\ \A c \in B : \E i \in 1 .. b : ByName(B)[i] = c
      BY <2>3, <2>4, ByNameFacts
    <3>2. ByName(S) \in Seq(S)
      BY ByNameFacts
    <3> QED
      BY <2>1, <3>1, <3>2, Zenon
  <2>6. td = p \o q /\ dn = <<>>
    BY <1>3, <2>1
  <2>7. b \in 0 .. Len(td) /\ \A i \in 1 .. b : td[i] = p[i] /\ p[i] \in B
    <3>1. \A i \in 1 .. b : p[i] \in B
      BY <2>5
    <3>2. p \in Seq(S)
      BY <2>2, <2>5, ShorterSeq
    <3>3. Len(td) = b + Len(q) /\ Len(q) \in Nat /\ \A i \in 1 .. b : td[i] = p[i]
      <4>1. p \in Seq(S) /\ q \in Seq(S) /\ Len(p) = b /\ td = p \o q
        BY <2>5, <2>6, <3>2, Zenon
      <4>2. Len(q) \in Nat /\ Len(p \o q) = Len(p) + Len(q)
        BY <4>1
      <4>3. \A i \in 1 .. Len(p) : (p \o q)[i] = p[i]
        BY <4>1, <4>2
      <4> QED
        BY <4>1, <4>2, <4>3, Zenon
    <3> QED
      BY <3>1, <3>3
  <2>8. Leads(S, after, td, dn, b)
    BY <2>1, <2>7, Zenon DEF Leads
  <2>9. AllBegin(S, after, td, dn, b)
    BY <2>1, <2>5, <2>7 DEF AllBegin
  <2>10. NextIsFirst(S, after, td, dn, b) /\ Chained(S, after, dn)
    BY <2>6 DEF NextIsFirst, Chained, In
  <2>11. Fronted(S, after, td, dn, b)
    BY <2>7, <2>8, <2>9, <2>10, Zenon DEF Fronted
  <2> QED
    BY <2>1, <2>10, <2>11
<1>5. ASSUME NEW n \in 1 .. N, n - 1 \in Good PROVE n \in Good
  <2>1. PICK m \in 0 .. N : m = n - 1
    OBVIOUS
  <2>2. PICK k : Chained(S, after, g[m].done) /\ Fronted(S, after, g[m].todo, g[m].done, k)
    BY <1>5, <2>1
  <2>3. g[n] = WalkOn(S, after, g[m]) /\ g[m] \in [todo : Seq(S), done : Seq(S)]
    BY <1>3, <2>1
  <2>4. Steps2(S, after, g[m].todo, g[m].done, g[n].todo, g[n].done)
    BY <2>3, OneStep, Zenon
  <2>5. PICK td, dn, td2, dn2 : td = g[m].todo /\ dn = g[m].done /\ td2 = g[n].todo /\ dn2 = g[n].done
    OBVIOUS
  <2>6. Steps2(S, after, td, dn, td2, dn2) /\ Chained(S, after, dn) /\ Fronted(S, after, td, dn, k)
    BY <2>2, <2>4, <2>5, Zenon
  <2>7. (\E k2 : Fronted(S, after, td2, dn2, k2)) /\ Chained(S, after, dn2)
    BY <2>6, FrontStep
  <2> QED
    BY <2>5, <2>7
<1>6. N \in Good
  <2> HIDE DEF Good
  <2>1. \A n \in 0 .. N : n \in Good
    BY <1>4, <1>5, UpFrom
  <2> QED
    BY <2>1
<1> QED
  BY <1>2, <1>6

(* The place of a row, and of the one it follows.                              *)
PlaceIn(list, c) == CHOOSE i \in DOMAIN list : list[i] = c

LEMMA PlaceFacts ==
  ASSUME NEW S, IsFiniteSet(S), S \subseteq Nat, NEW after, NEW c \in S
  PROVE  /\ PlaceIn(InOrder(S, after), c) \in 1 .. Cardinality(S)
         /\ InOrder(S, after)[PlaceIn(InOrder(S, after), c)] = c
<1>1. PICK list : list = InOrder(S, after)
  OBVIOUS
<1>2. list \in Seq(S) /\ In(list) = S /\ Len(list) <= Cardinality(S)
  BY <1>1, OrderFacts
<1>3. PICK i \in 1 .. Len(list) : list[i] = c
  BY <1>2 DEF In
<1>4. DOMAIN list = 1 .. Len(list)
  BY <1>2
<1>5. PlaceIn(list, c) \in DOMAIN list /\ list[PlaceIn(list, c)] = c
  BY <1>3, <1>4, Zenon DEF PlaceIn
<1>6. Cardinality(S) \in Nat /\ Len(list) \in Nat
  BY <1>2, FS_CardinalityType
<1>7. PlaceIn(list, c) \in 1 .. Cardinality(S)
  BY <1>2, <1>4, <1>5, <1>6
<1> QED
  BY <1>1, <1>5, <1>7, Zenon

LEMMA PlacesFollow ==
  ASSUME NEW S, IsFiniteSet(S), S \subseteq Nat, NEW after, OneFollows(S, after), Forest(S, after),
         NEW c \in S, after[c] \in S
  PROVE  PlaceIn(InOrder(S, after), c) = PlaceIn(InOrder(S, after), after[c]) + 1
<1>1. PICK list : list = InOrder(S, after)
  OBVIOUS
<1>2. list \in Seq(S) /\ NoRepeats(list) /\ Chained(S, after, list)
  BY <1>1, OrderFacts, OrderFollows
<1>3. PICK m \in Nat : m = Cardinality(S)
  BY FS_CardinalityType
<1>4. PICK i, j \in 1 .. m : i = PlaceIn(list, c) /\ j = PlaceIn(list, after[c]) /\ list[i] = c /\ list[j] = after[c]
  <2>1. PlaceIn(list, c) \in 1 .. m /\ list[PlaceIn(list, c)] = c
    BY <1>1, <1>3, PlaceFacts, Zenon
  <2>2. PlaceIn(list, after[c]) \in 1 .. m /\ list[PlaceIn(list, after[c])] = after[c]
    BY <1>1, <1>3, PlaceFacts, Zenon
  <2> QED
    BY <2>1, <2>2, Zenon
<1>5. i \in 1 .. Len(list) /\ j \in 1 .. Len(list)
  <2>1. DOMAIN list = 1 .. Len(list) /\ In(list) = S
    <3>1. In(list) = S
      BY <1>1, OrderFacts, Zenon
    <3>2. DOMAIN list = 1 .. Len(list)
      BY <1>2
    <3> QED
      BY <3>1, <3>2
  <2>2. \A d \in S : PlaceIn(list, d) \in DOMAIN list
    <3> SUFFICES ASSUME NEW d \in S PROVE PlaceIn(list, d) \in DOMAIN list
      OBVIOUS
    <3>1. \E n \in DOMAIN list : list[n] = d
      BY <2>1 DEF In
    <3> QED
      BY <3>1, Zenon DEF PlaceIn
  <2> QED
    BY <1>4, <2>1, <2>2
<1>6. c \notin Begins(S, after)
  <2>1. {c} \in (SUBSET S) \ {{}}
    OBVIOUS
  <2>2. after[c] \notin {c}
    <3>1. \E d \in {c} : after[d] \notin {c}
      BY <2>1, Zenon DEF Forest
    <3> QED
      BY <3>1
  <2> QED
    BY <2>2 DEF Begins
<1>7. i >= 2 /\ list[i - 1] = after[c]
  BY <1>2, <1>4, <1>5, <1>6 DEF Chained
<1>8. i - 1 \in 1 .. Len(list)
  BY <1>2, <1>5, <1>7
<1>9. j = i - 1
  BY <1>2, <1>4, <1>5, <1>7, <1>8 DEF NoRepeats
<1>10. i = j + 1
  BY <1>9
<1> QED
  BY <1>1, <1>4, <1>10, Zenon

-----------------------------------------------------------------------------
(* The tree and its list of siblings in Shopware: who follows another has the   *)
(* same parent, no two of them follow the same, and nobody is behind himself.   *)
Chains(R, par, aft) ==
  /\ \A c \in R : aft[c] = Nowhere \/ (aft[c] \in R /\ par[aft[c]] = par[c])
  /\ \A c, d \in R : par[c] = par[d] /\ par[c] # Nowhere /\ aft[c] = aft[d] => c = d
  /\ Forest(R, aft)

RemoteAfter == [c \in Cats |-> shopRow[c].after]
ShopTree ==
  /\ Root \in Remote
  /\ \A c \in Cats \ Remote : shopRow[c].parent = Nowhere /\ shopRow[c].after = Nowhere
  /\ Chains(Remote, RemoteParent, RemoteAfter)

(* What an import has read that nobody disturbed is what Shopware has.         *)
ReadSoFar ==
  /\ import.pc = "reading" =>
       /\ import.known = {c \in Remote : Ahead(Remote, c) < (import.page - 1) * PageSize}
       /\ import.rows = Cardinality(import.known)
  /\ import.pc = "read" => import.known = Remote
  /\ import.pc \in {"reading", "read"} =>
       \A c \in import.known : import.parent[c] = shopRow[c].parent /\ import.after[c] = shopRow[c].after
LinksRead ==
  import.pc \in {"links", "compare"} =>
    /\ import.whole \subseteq import.known
    /\ \A c \in import.whole : import.links[c] = Resolved(shopRow[c].products)
LocalRead == import.pc = "compare" => \A c \in import.known : import.old[c] = local[c].products
ImportAlone == import.alone => ReadSoFar /\ LinksRead /\ LocalRead

(* What a transfer that nobody disturbed has yet to do.                        *)
PushAlone ==
  push.alone =>
    /\ push.pc = "add" => /\ push.add = local[push.cat].products \ shopRow[push.cat].products
                          /\ push.remove = shopRow[push.cat].products \ local[push.cat].products
    /\ push.pc = "remove" /\ push.cat \in Remote =>
         shopRow[push.cat].products \ push.remove = local[push.cat].products

SameProducts == \A c \in agreed : Resolved(shopRow[c].products) = local[c].products
Mirrors ==
  mirrored => \A c \in Inside :
    /\ local[c].here
    /\ c # Root => local[c].parent = shopRow[c].parent
    /\ shopRow[c].after \in Inside => local[c].place = local[shopRow[c].after].place + 1

CatImports ==
  [pc : {"off", "reading", "read", "tree", "links", "compare"}, page : Nat \ {0}, rows : Nat, known : SUBSET Cats,
   parent : [Cats -> Cats \cup {Nowhere}], after : [Cats -> Cats \cup {Nowhere}], links : [Cats -> SUBSET Products],
   whole : SUBSET Cats, old : [Cats -> SUBSET Products], alone : BOOLEAN]
CatPushes ==
  [pc : {"off", "content", "read", "add", "remove"}, cat : Cats, add : SUBSET Products, remove : SUBSET ShopIds, alone : BOOLEAN]
CatShape == shopRow \in [Cats -> RemoteRow] /\ local \in [Cats -> LocalRow] /\ import \in CatImports /\ push \in CatPushes
CatCounts ==
  /\ toSend \subseteq Cats /\ agreed \subseteq Cats
  /\ catEvents \in 0 .. MaxCatEvents /\ imports \in 0 .. MaxImports
CatFlag == mirrored \in BOOLEAN

SyncIInv == CatShape /\ CatCounts /\ CatFlag /\ ShopTree /\ ImportAlone /\ PushAlone /\ SameProducts /\ Mirrors

(* Everything below some rows hangs from one of them, and rows of a larger     *)
(* table that hang the same are below them, too.                             *)
LEMMA BelowHangs ==
  ASSUME NEW S, NEW parent, NEW within, IsFiniteSet(within)
  PROVE  \A d \in Below(S, parent, within) : d \in S \/ parent[d] \in Below(S, parent, within)
<1>1. PICK N \in Nat : N = Cardinality(within)
  BY FS_CardinalityType
<1>2. PICK f : Unrolls(f, N, S, parent, within) /\ Below(S, parent, within) = f[N]
  BY <1>1, BelowUnfolds
<1>3. Climbs(f, N, S, parent, within)
  BY <1>2, ReachStep, Zenon
<1>4. f[0] = S \cap within /\ \A n \in 0 .. N : n # 0 => f[n] = f[n - 1] \cup {c \in within : parent[c] \in f[n - 1]}
  BY <1>3, Zenon DEF Climbs
<1> DEFINE Hang == {n \in 0 .. N : \A d \in f[n] : d \in S \/ parent[d] \in f[n]}
<1>5. 0 \in Hang
  BY <1>4
<1>6. ASSUME NEW n \in 1 .. N, n - 1 \in Hang PROVE n \in Hang
  <2>1. \A d \in f[n - 1] : d \in S \/ parent[d] \in f[n - 1]
    BY <1>6
  <2>2. n \in 0 .. N /\ n # 0
    OBVIOUS
  <2>3. f[n] = f[n - 1] \cup {c \in within : parent[c] \in f[n - 1]}
    BY <1>4, <2>2, Zenon
  <2>4. \A d \in f[n] : d \in S \/ parent[d] \in f[n]
    BY <2>1, <2>3
  <2> QED
    BY <2>2, <2>4
<1> HIDE DEF Hang
<1>7. \A n \in 0 .. N : n \in Hang
  BY <1>5, <1>6, UpFrom
<1>8. N \in Hang
  BY <1>7
<1> QED
  BY <1>2, <1>8 DEF Hang

LEMMA BelowWithin ==
  ASSUME NEW S, NEW within, NEW within2, IsFiniteSet(within2), within \subseteq within2, NEW par, NEW par2,
         \A c \in within : par[c] = par2[c]
  PROVE  Below(S, par, within) \subseteq Below(S, par2, within2)
<1>1. PICK A, B : A = Below(S, par, within) /\ B = Below(S, par2, within2)
  OBVIOUS
<1>2. IsFiniteSet(within)
  BY FS_Subset
<1>3. A \subseteq within /\ \A T : T \subseteq A /\ T # {} => \E c \in T : c \in S \/ par[c] \notin T
  BY <1>1, <1>2, BelowIs, Zenon
<1>4. \A d \in A : d \in S \/ par[d] \in A
  BY <1>1, <1>2, BelowHangs, Zenon
<1>5. S \cap within2 \subseteq B /\ \A d \in within2 : par2[d] \in B => d \in B
  BY <1>1, BelowIs, Zenon
<1> SUFFICES ASSUME A \ B # {} PROVE FALSE
  BY <1>1
<1>6. PICK d \in A \ B : d \in S \/ par[d] \notin A \ B
  <2>1. A \ B \subseteq A
    OBVIOUS
  <2> QED
    BY <1>3, <2>1
<1>7. d \in within /\ d \in within2 /\ d \notin S
  BY <1>3, <1>5, <1>6
<1>8. par[d] \in B
  BY <1>4, <1>6, <1>7
<1> QED
  BY <1>5, <1>6, <1>7, <1>8

LEMMA BelowSame ==
  ASSUME NEW S, NEW within, IsFiniteSet(within), NEW par, NEW par2, \A c \in within : par[c] = par2[c]
  PROVE  Below(S, par, within) = Below(S, par2, within)
<1>1. \A c \in within : par2[c] = par[c]
  OBVIOUS
<1>2. Below(S, par, within) \subseteq Below(S, par2, within)
  BY BelowWithin
<1>3. Below(S, par2, within) \subseteq Below(S, par, within)
  BY <1>1, BelowWithin
<1> QED
  BY <1>2, <1>3

-----------------------------------------------------------------------------
(* Shopware's lists of siblings when a category is taken out, put in behind     *)
(* another, cut off with all below it, or made anew at the top.               *)
Closes(R, c, aft, left) ==
  \A d \in R : left[d] = IF aft[d] = c THEN aft[c] ELSE aft[d]

LEMMA TakenOut ==
  ASSUME NEW R, NEW par, NEW aft, NEW left, NEW c \in R, Nowhere \notin R, Chains(R, par, aft), Closes(R, c, aft, left)
  PROVE  Chains(R \ {c}, par, left)
<1>1. \A d \in R : aft[d] = Nowhere \/ (aft[d] \in R /\ par[aft[d]] = par[d])
  BY DEF Chains
<1>2. \A d, e \in R : par[d] = par[e] /\ par[d] # Nowhere /\ aft[d] = aft[e] => d = e
  BY DEF Chains
<1>3. \A T : T \subseteq R /\ T # {} => \E d \in T : aft[d] \notin T
  BY DEF Chains, Forest
<1>4. \A d \in R : left[d] = IF aft[d] = c THEN aft[c] ELSE aft[d]
  BY DEF Closes
<1>5. aft[c] # c
  <2>1. \E d \in {c} : aft[d] \notin {c}
    BY <1>3
  <2> QED
    BY <2>1
<1>6. \A d \in R \ {c} : left[d] = Nowhere \/ (left[d] \in R \ {c} /\ par[left[d]] = par[d])
  BY <1>1, <1>4, <1>5
<1>7. ASSUME NEW d \in R \ {c}, NEW e \in R \ {c}, par[d] = par[e], par[d] # Nowhere, left[d] = left[e]
      PROVE  d = e
  <2>1. CASE aft[d] = c /\ aft[e] = c
    BY <1>2, <1>7, <2>1
  <2>2. CASE aft[d] = c /\ aft[e] # c
    <3>1. aft[e] = aft[c] /\ par[c] = par[d]
      BY <1>1, <1>4, <1>7, <2>2
    <3>2. e = c
      BY <1>2, <1>7, <3>1
    <3> QED
      BY <3>2
  <2>3. CASE aft[d] # c /\ aft[e] = c
    <3>1. aft[d] = aft[c] /\ par[c] = par[e]
      BY <1>1, <1>4, <1>7, <2>3
    <3>2. d = c
      BY <1>2, <1>7, <3>1
    <3> QED
      BY <3>2
  <2>4. CASE aft[d] # c /\ aft[e] # c
    BY <1>2, <1>4, <1>7, <2>4
  <2> QED
    BY <2>1, <2>2, <2>3, <2>4
<1>8. ASSUME NEW T \in SUBSET (R \ {c}), T # {}, \A d \in T : left[d] \in T
      PROVE  FALSE
  <2>1. CASE \E d \in T : aft[d] = c
    <3>1. aft[c] \in T
      BY <1>4, <1>8, <2>1
    <3>2. T \cup {c} \subseteq R /\ T \cup {c} # {} /\ \A d \in T \cup {c} : aft[d] \in T \cup {c}
      BY <1>4, <1>8, <3>1
    <3> QED
      BY <1>3, <3>2
  <2>2. CASE \A d \in T : aft[d] # c
    <3>1. T \subseteq R /\ \A d \in T : aft[d] \in T
      BY <1>4, <1>8, <2>2
    <3> QED
      BY <1>3, <1>8, <3>1
  <2> QED
    BY <2>1, <2>2
<1>9. Forest(R \ {c}, left)
  BY <1>8 DEF Forest
<1> QED
  BY <1>6, <1>7, <1>9 DEF Chains

Opens(Q, c, p, b, par, left, par2, aft2) ==
  /\ par2[c] = p /\ aft2[c] = b
  /\ \A d \in Q : par2[d] = par[d] /\ aft2[d] = IF par[d] = p /\ left[d] = b THEN c ELSE left[d]

LEMMA PutIn ==
  ASSUME NEW Q, NEW c, c \notin Q, c # Nowhere, Nowhere \notin Q, NEW par, NEW left, Chains(Q, par, left),
         NEW p, NEW b, b = Nowhere \/ (b \in Q /\ par[b] = p), NEW par2, NEW aft2, Opens(Q, c, p, b, par, left, par2, aft2)
  PROVE  Chains(Q \cup {c}, par2, aft2)
<1>1. \A d \in Q : left[d] = Nowhere \/ (left[d] \in Q /\ par[left[d]] = par[d])
  BY DEF Chains
<1>2. \A d, e \in Q : par[d] = par[e] /\ par[d] # Nowhere /\ left[d] = left[e] => d = e
  BY DEF Chains
<1>3. \A T : T \subseteq Q /\ T # {} => \E d \in T : left[d] \notin T
  BY DEF Chains, Forest
<1>4. /\ par2[c] = p /\ aft2[c] = b
      /\ \A d \in Q : par2[d] = par[d] /\ aft2[d] = IF par[d] = p /\ left[d] = b THEN c ELSE left[d]
  BY DEF Opens
<1>5. \A d \in Q : left[d] # c
  BY <1>1
<1>6. ASSUME NEW d \in Q \cup {c}
      PROVE  aft2[d] = Nowhere \/ (aft2[d] \in Q \cup {c} /\ par2[aft2[d]] = par2[d])
  <2>1. CASE d = c
    BY <1>4, <2>1
  <2>2. CASE d \in Q /\ par[d] = p /\ left[d] = b
    BY <1>4, <2>2
  <2>3. CASE d \in Q /\ ~ (par[d] = p /\ left[d] = b)
    <3>1. aft2[d] = left[d] /\ par2[d] = par[d]
      BY <1>4, <2>3
    <3>2. left[d] = Nowhere \/ (left[d] \in Q /\ par[left[d]] = par[d])
      BY <1>1, <2>3
    <3> QED
      BY <1>4, <3>1, <3>2
  <2> QED
    BY <1>6, <2>1, <2>2, <2>3
<1>7. ASSUME NEW d \in Q, NEW e \in Q, par2[d] = par2[e], par2[d] # Nowhere, aft2[d] = aft2[e]
      PROVE  d = e
  <2>1. par[d] = par[e] /\ par[d] # Nowhere
    BY <1>4, <1>7
  <2>2. left[d] = left[e]
    BY <1>4, <1>5, <1>7, <2>1
  <2> QED
    BY <1>2, <2>1, <2>2
<1>8. ASSUME NEW d \in Q, par2[d] = par2[c], aft2[d] = aft2[c]
      PROVE  FALSE
  <2>1. par[d] = p /\ aft2[d] = b
    BY <1>4, <1>8
  <2>2. left[d] = b
    BY <1>4, <2>1
  <2>3. aft2[d] = c
    BY <1>4, <2>1, <2>2
  <2> QED
    BY <2>1, <2>3
<1>9. ASSUME NEW T \in SUBSET (Q \cup {c}), T # {}, \A d \in T : aft2[d] \in T
      PROVE  FALSE
  <2>1. CASE c \notin T
    <3>1. T \subseteq Q
      BY <1>9, <2>1
    <3>2. \A d \in T : left[d] \in T
      BY <1>4, <1>9, <2>1, <3>1
    <3> QED
      BY <1>3, <1>9, <3>1, <3>2
  <2>2. CASE c \in T
    <3>1. b \in T /\ b \in Q
      BY <1>4, <1>9, <2>2
    <3>2. \A d \in T \ {c} : left[d] \in T \ {c}
      BY <1>4, <1>5, <1>9, <3>1
    <3>3. T \ {c} \subseteq Q /\ T \ {c} # {}
      BY <1>9, <3>1
    <3> QED
      BY <1>3, <3>2, <3>3
  <2> QED
    BY <2>1, <2>2
<1>10. Forest(Q \cup {c}, aft2)
  BY <1>9 DEF Forest
<1>11. \A d, e \in Q \cup {c} : par2[d] = par2[e] /\ par2[d] # Nowhere /\ aft2[d] = aft2[e] => d = e
  BY <1>7, <1>8
<1> QED
  BY <1>6, <1>10, <1>11, Zenon DEF Chains

LEMMA CutOff ==
  ASSUME NEW Q, NEW par, NEW left, Chains(Q, par, left), NEW G, \A d \in Q : par[d] \in G => d \in G,
         \A d \in Q \cap G : par[d] \in G
  PROVE  Chains(Q \ G, par, left)
<1>1. \A d \in Q : left[d] = Nowhere \/ (left[d] \in Q /\ par[left[d]] = par[d])
  BY DEF Chains
<1>2. \A d, e \in Q \ G : par[d] = par[e] /\ par[d] # Nowhere /\ left[d] = left[e] => d = e
  BY DEF Chains
<1>3. \A d \in Q \ G : left[d] = Nowhere \/ (left[d] \in Q \ G /\ par[left[d]] = par[d])
  BY <1>1
<1>4. Forest(Q \ G, left)
  BY DEF Chains, Forest
<1> QED
  BY <1>2, <1>3, <1>4 DEF Chains

LEMMA MadeNew ==
  ASSUME NEW R, NEW c, c \notin R, Nowhere \notin R, c # Nowhere, NEW par, NEW aft, Chains(R, par, aft), NEW par2, NEW aft2,
         par2[c] = Nowhere, aft2[c] = Nowhere, \A d \in R : par2[d] = par[d] /\ aft2[d] = aft[d]
  PROVE  Chains(R \cup {c}, par2, aft2)
<1>1. \A d \in R : aft[d] = Nowhere \/ (aft[d] \in R /\ par[aft[d]] = par[d])
  BY DEF Chains
<1>2. \A d, e \in R : par[d] = par[e] /\ par[d] # Nowhere /\ aft[d] = aft[e] => d = e
  BY DEF Chains
<1>3. \A T : T \subseteq R /\ T # {} => \E d \in T : aft[d] \notin T
  BY DEF Chains, Forest
<1>4. \A d \in R \cup {c} : aft2[d] = Nowhere \/ (aft2[d] \in R \cup {c} /\ par2[aft2[d]] = par2[d])
  BY <1>1
<1>5. \A d, e \in R \cup {c} : par2[d] = par2[e] /\ par2[d] # Nowhere /\ aft2[d] = aft2[e] => d = e
  BY <1>2
<1>6. ASSUME NEW T \in SUBSET (R \cup {c}), T # {}, \A d \in T : aft2[d] \in T PROVE FALSE
  <2>1. c \notin T
    BY <1>6
  <2>2. T \subseteq R /\ \A d \in T : aft[d] \in T
    BY <1>6, <2>1
  <2> QED
    BY <1>3, <1>6, <2>2
<1>7. Forest(R \cup {c}, aft2)
  BY <1>6 DEF Forest
<1> QED
  BY <1>4, <1>5, <1>7 DEF Chains

(* What the lists of siblings depend on.                                     *)
LEMMA SameChains ==
  ASSUME NEW R, NEW par, NEW aft, NEW par2, NEW aft2, Nowhere \notin R,
         \A c \in R : par2[c] = par[c] /\ aft2[c] = aft[c], Chains(R, par, aft)
  PROVE  Chains(R, par2, aft2)
<1>1. \A d \in R : aft[d] = Nowhere \/ (aft[d] \in R /\ par[aft[d]] = par[d])
  BY DEF Chains
<1>2. \A d, e \in R : par[d] = par[e] /\ par[d] # Nowhere /\ aft[d] = aft[e] => d = e
  BY DEF Chains
<1>3. \A T : T \subseteq R /\ T # {} => \E d \in T : aft[d] \notin T
  BY DEF Chains, Forest
<1>4. \A d \in R : aft2[d] = Nowhere \/ (aft2[d] \in R /\ par2[aft2[d]] = par2[d])
  BY <1>1
<1>5. \A d, e \in R : par2[d] = par2[e] /\ par2[d] # Nowhere /\ aft2[d] = aft2[e] => d = e
  BY <1>2
<1>6. ASSUME NEW T \in SUBSET R, T # {} PROVE \E d \in T : aft2[d] \notin T
  <2>1. PICK d \in T : aft[d] \notin T
    BY <1>3, <1>6
  <2> QED
    BY <2>1
<1> QED
  BY <1>4, <1>5, <1>6 DEF Chains, Forest

-----------------------------------------------------------------------------
(* What a step leaves of the invariant when it leaves what that speaks of.      *)
LEMMA CatConstants ==
  /\ IsFiniteSet(Cats) /\ Cats \subseteq Nat /\ Root \in Cats /\ Nowhere \notin Cats
  /\ Variants \subseteq Products /\ Parent \notin Products /\ PageSize \in Nat \ {0} /\ Cardinality(Cats) \in Nat
<1>1. IsFiniteSet(Cats) /\ Cats \subseteq Nat \ {0} /\ Root \in Cats
  BY CatAssumption
<1>2. Nowhere \notin Cats /\ Cats \subseteq Nat
  BY <1>1 DEF Nowhere
<1>3. Cardinality(Cats) \in Nat
  BY <1>1, FS_CardinalityType
<1> QED
  BY <1>1, <1>2, <1>3, CatAssumption

LEMMA ResolvedIs ==
  /\ \A ids : Resolved(ids) \subseteq Products
  /\ \A ids \in SUBSET Products : Resolved(ids) = ids
<1>1. Variants \subseteq Products /\ Parent \notin Products
  BY CatConstants
<1> QED
  BY <1>1 DEF Resolved

LEMMA RowTypes ==
  ASSUME CatShape, NEW c \in Cats
  PROVE  /\ shopRow[c] \in RemoteRow /\ shopRow[c].here \in BOOLEAN
         /\ shopRow[c].parent \in Cats \cup {Nowhere} /\ shopRow[c].after \in Cats \cup {Nowhere}
         /\ shopRow[c].products \in SUBSET ShopIds
         /\ local[c] \in LocalRow /\ local[c].here \in BOOLEAN /\ local[c].parent \in Cats \cup {Nowhere}
         /\ local[c].place \in 0 .. Cardinality(Cats) /\ local[c].products \in SUBSET Products
<1>1. shopRow[c] \in RemoteRow /\ local[c] \in LocalRow
  BY DEF CatShape
<1>2. /\ shopRow[c].here \in BOOLEAN
      /\ shopRow[c].parent \in Cats \cup {Nowhere} /\ shopRow[c].after \in Cats \cup {Nowhere}
      /\ shopRow[c].products \in SUBSET ShopIds
  BY <1>1 DEF RemoteRow
<1>3. /\ local[c].here \in BOOLEAN /\ local[c].parent \in Cats \cup {Nowhere}
      /\ local[c].place \in 0 .. Cardinality(Cats) /\ local[c].products \in SUBSET Products
  BY <1>1 DEF LocalRow
<1> QED
  BY <1>1, <1>2, <1>3, Zenon

LEMMA RemoteIs ==
  /\ Remote \subseteq Cats /\ Nowhere \notin Remote /\ IsFiniteSet(Remote) /\ Remote \subseteq Nat
  /\ Inside \subseteq Remote
  /\ \A c \in Cats : RemoteParent[c] = shopRow[c].parent /\ RemoteAfter[c] = shopRow[c].after
<1>1. Remote \subseteq Cats
  BY DEF Remote
<1>2. IsFiniteSet(Remote) /\ Nowhere \notin Remote /\ Remote \subseteq Nat
  BY <1>1, CatConstants, FS_Subset
<1>3. Inside \subseteq Remote
  BY <1>2, BelowIs, Zenon DEF Inside
<1>4. \A c \in Cats : RemoteParent[c] = shopRow[c].parent /\ RemoteAfter[c] = shopRow[c].after
  BY DEF RemoteParent, RemoteAfter
<1> QED
  BY <1>1, <1>2, <1>3, <1>4, Zenon

SameShop ==
  \A c \in Cats : /\ shopRow'[c].here = shopRow[c].here /\ shopRow'[c].parent = shopRow[c].parent
                  /\ shopRow'[c].after = shopRow[c].after
SameLocal ==
  \A c \in Cats : /\ local'[c].here = local[c].here /\ local'[c].parent = local[c].parent
                  /\ local'[c].place = local[c].place

LEMMA SameShopKeeps ==
  ASSUME SameShop
  PROVE  /\ Remote' = Remote /\ Inside' = Inside /\ RemoteParent' = RemoteParent /\ RemoteAfter' = RemoteAfter
         /\ ShopTree => ShopTree'
<1>1. Remote' = Remote
  BY DEF Remote, SameShop
<1>2. RemoteParent' = RemoteParent
  <2>1. \A c \in Cats : shopRow'[c].parent = shopRow[c].parent
    BY Zenon DEF SameShop
  <2> QED
    BY <2>1 DEF RemoteParent
<1>3. RemoteAfter' = RemoteAfter
  <2>1. \A c \in Cats : shopRow'[c].after = shopRow[c].after
    BY Zenon DEF SameShop
  <2> QED
    BY <2>1 DEF RemoteAfter
<1>4. Inside' = Inside
  BY <1>1, <1>2, Zenon DEF Inside
<1>5. ASSUME ShopTree PROVE ShopTree'
  <2>1. /\ Root \in Remote' /\ Chains(Remote', RemoteParent', RemoteAfter')
        /\ \A c \in Cats \ Remote' : shopRow[c].parent = Nowhere /\ shopRow[c].after = Nowhere
    BY <1>1, <1>2, <1>3, <1>5, Zenon DEF ShopTree
  <2>2. \A c \in Cats \ Remote' : shopRow'[c].parent = Nowhere /\ shopRow'[c].after = Nowhere
    BY <2>1 DEF SameShop
  <2> QED
    BY <2>1, <2>2, Zenon DEF ShopTree
<1> QED
  BY <1>1, <1>2, <1>3, <1>4, <1>5, Zenon

LEMMA MirrorsKept ==
  ASSUME Mirrors, SameShop, SameLocal, mirrored' => mirrored
  PROVE  Mirrors'
<1>1. Inside' = Inside /\ Inside \subseteq Cats
  BY SameShopKeeps, RemoteIs
<1> SUFFICES ASSUME mirrored', NEW c \in Inside
             PROVE  /\ local'[c].here
                    /\ c # Root => local'[c].parent = shopRow'[c].parent
                    /\ shopRow'[c].after \in Inside => local'[c].place = local'[shopRow'[c].after].place + 1
  BY <1>1, Zenon DEF Mirrors
<1>2. /\ local[c].here
      /\ c # Root => local[c].parent = shopRow[c].parent
      /\ shopRow[c].after \in Inside => local[c].place = local[shopRow[c].after].place + 1
  BY Zenon DEF Mirrors
<1>3. c \in Cats
  BY <1>1
<1>4. /\ shopRow'[c].parent = shopRow[c].parent /\ shopRow'[c].after = shopRow[c].after
      /\ local'[c].here = local[c].here /\ local'[c].parent = local[c].parent /\ local'[c].place = local[c].place
  BY <1>3, Zenon DEF SameShop, SameLocal
<1>5. shopRow[c].after \in Inside => local'[shopRow[c].after].place = local[shopRow[c].after].place
  BY <1>1, Zenon DEF SameLocal
<1> QED
  BY <1>2, <1>4, <1>5, Zenon

LEMMA ProductsKept ==
  ASSUME SameProducts,
         \A c \in agreed' : c \in agreed /\ shopRow'[c].products = shopRow[c].products /\ local'[c].products = local[c].products
  PROVE  SameProducts'
  BY Zenon DEF SameProducts

LEMMA ImportAloneKept ==
  ASSUME ImportAlone, import'.alone => import' = import /\ shopRow' = shopRow /\ local' = local
  PROVE  ImportAlone'
<1>1. CASE ~ import'.alone
  BY <1>1, Zenon DEF ImportAlone
<1>2. CASE import' = import /\ shopRow' = shopRow /\ local' = local
  <2>1. Remote' = Remote
    BY <1>2, Zenon DEF Remote
  <2>2. ReadSoFar => ReadSoFar'
    BY <1>2, <2>1, Zenon DEF ReadSoFar
  <2>3. LinksRead => LinksRead'
    BY <1>2, Zenon DEF LinksRead
  <2>4. LocalRead => LocalRead'
    BY <1>2, Zenon DEF LocalRead
  <2> QED
    BY <1>2, <2>2, <2>3, <2>4, Zenon DEF ImportAlone
<1> QED
  BY <1>1, <1>2, Zenon

LEMMA PushAloneKept ==
  ASSUME PushAlone, push'.alone => push' = push /\ shopRow' = shopRow /\ local' = local
  PROVE  PushAlone'
<1>1. CASE ~ push'.alone
  BY <1>1, Zenon DEF PushAlone
<1>2. CASE push' = push /\ shopRow' = shopRow /\ local' = local
  BY <1>2, Zenon DEF PushAlone, Remote
<1> QED
  BY <1>1, <1>2, Zenon

(* Whoever changes something takes the others' certainty away.               *)
LEMMA Disturbed ==
  ASSUME CatShape, Disturbs
  PROVE  /\ import' \in CatImports /\ push' \in CatPushes
         /\ ImportAlone' /\ PushAlone'
<1>1. import \in CatImports /\ push \in CatPushes
  BY Zenon DEF CatShape
<1>2. import' = [import EXCEPT !.alone = FALSE] /\ push' = [push EXCEPT !.alone = FALSE]
  BY Zenon DEF Disturbs
<1>3. import' \in CatImports /\ import'.alone = FALSE
  BY <1>1, <1>2 DEF CatImports
<1>4. push' \in CatPushes /\ push'.alone = FALSE
  BY <1>1, <1>2 DEF CatPushes
<1>5. ImportAlone' /\ PushAlone'
  BY <1>3, <1>4, Zenon DEF ImportAlone, PushAlone
<1> QED
  BY <1>3, <1>4, <1>5, Zenon

LEMMA EventCounts == catEvents \in 0 .. MaxCatEvents /\ CatEvent => catEvents' \in 0 .. MaxCatEvents
  BY CatAssumption DEF CatEvent

LEMMA MirrorsOff == ~ mirrored' => Mirrors'
  BY Zenon DEF Mirrors

LEMMA ShopUnchanged == UNCHANGED shopRow => SameShop
  BY Zenon DEF SameShop

LEMMA NoCategoryType == NoCategory \in LocalRow
<1>1. Cardinality(Cats) \in Nat
  BY CatConstants
<1> QED
  BY <1>1 DEF NoCategory, LocalRow

-----------------------------------------------------------------------------
(* Shopware's administration: moves, deletions and assignments.                *)
ClosedBy(c) == [d \in Cats |-> IF shopRow[d].after = c THEN shopRow[c].after ELSE shopRow[d].after]

LEMMA ClosedFacts ==
  ASSUME CatShape, ShopTree, NEW c \in Remote
  PROVE  /\ \A d \in Cats : ClosedBy(c)[d] = IF shopRow[d].after = c THEN shopRow[c].after ELSE shopRow[d].after
         /\ \A d \in Cats : ClosedBy(c)[d] \in Cats \cup {Nowhere}
         /\ \A d \in Cats \ Remote : ClosedBy(c)[d] = Nowhere
         /\ Chains(Remote \ {c}, RemoteParent, ClosedBy(c))
<1>1. c \in Cats /\ c # Nowhere /\ Nowhere \notin Remote
  BY RemoteIs
<1>2. \A d \in Cats : ClosedBy(c)[d] = IF shopRow[d].after = c THEN shopRow[c].after ELSE shopRow[d].after
  BY DEF ClosedBy
<1>3. \A d \in Cats : shopRow[d].after \in Cats \cup {Nowhere}
  BY RowTypes, Zenon
<1>4. \A d \in Cats \ Remote : shopRow[d].after = Nowhere
  BY Zenon DEF ShopTree
<1>5. \A d \in Cats \ Remote : ClosedBy(c)[d] = Nowhere
  BY <1>1, <1>2, <1>4
<1>6. Closes(Remote, c, RemoteAfter, ClosedBy(c))
  <2>1. \A d \in Remote : d \in Cats /\ RemoteAfter[d] = shopRow[d].after
    BY RemoteIs
  <2> QED
    BY <1>2, <2>1 DEF Closes
<1>7. Chains(Remote, RemoteParent, RemoteAfter)
  BY Zenon DEF ShopTree
<1>8. Chains(Remote \ {c}, RemoteParent, ClosedBy(c))
  BY <1>1, <1>6, <1>7, TakenOut
<1>9. \A d \in Cats : ClosedBy(c)[d] \in Cats \cup {Nowhere}
  BY <1>1, <1>2, <1>3
<1> QED
  BY <1>2, <1>5, <1>8, <1>9, Zenon

LEMMA ShopMovesKeeps ==
  ASSUME SyncIInv, NEW c \in Cats, NEW p \in Cats \cup {Nowhere}, NEW b \in Cats \cup {Nowhere}, ShopMoves(c, p, b)
  PROVE  SyncIInv'
<1> DEFINE into == {d \in Remote \ {c} : shopRow[d].parent = p /\ ClosedBy(c)[d] = b}
<1>1. /\ CatEvent /\ c \in Remote /\ c # Root
      /\ b = Nowhere \/ (b \in Remote \ {c} /\ shopRow[b].parent = p)
      /\ shopRow' = [d \in Cats |->
           IF d = c THEN [shopRow[c] EXCEPT !.parent = p, !.after = b]
           ELSE IF d \in into THEN [shopRow[d] EXCEPT !.after = c]
           ELSE [shopRow[d] EXCEPT !.after = ClosedBy(c)[d]]]
      /\ mirrored' = FALSE /\ Disturbs /\ UNCHANGED <<local, toSend, agreed, imports>>
  BY Zenon DEF ShopMoves, ClosedBy
<1>2. CatShape /\ CatCounts /\ ShopTree /\ SameProducts
  BY Zenon DEF SyncIInv
<1>3. \A d \in into : d \in Remote /\ d # c /\ shopRow[d].parent = p /\ ClosedBy(c)[d] = b
  OBVIOUS
<1>4. \A d \in Remote : d # c /\ shopRow[d].parent = p /\ ClosedBy(c)[d] = b => d \in into
  OBVIOUS
<1>5. \A d \in Cats : ClosedBy(c)[d] \in Cats \cup {Nowhere}
  BY <1>1, <1>2, ClosedFacts, Zenon
<1> HIDE DEF into
<1>6. ASSUME NEW d \in Cats
      PROVE  /\ shopRow'[d] \in RemoteRow
             /\ shopRow'[d].here = shopRow[d].here /\ shopRow'[d].products = shopRow[d].products
             /\ shopRow'[d].parent = IF d = c THEN p ELSE shopRow[d].parent
             /\ shopRow'[d].after = IF d = c THEN b ELSE IF d \in into THEN c ELSE ClosedBy(c)[d]
  <2>1. shopRow[d] \in RemoteRow
    BY <1>2, RowTypes, Zenon
  <2>2. PICK x : x = shopRow[d]
    OBVIOUS
  <2>3. PICK l : l = ClosedBy(c)[d] /\ l \in Cats \cup {Nowhere}
    BY <1>5
  <2>4. CASE d = c
    <3>1. shopRow'[d] = [x EXCEPT !.parent = p, !.after = b]
      BY <1>1, <2>2, <2>4
    <3> QED
      BY <2>1, <2>2, <2>4, <3>1 DEF RemoteRow
  <2>5. CASE d # c /\ d \in into
    <3>1. shopRow'[d] = [x EXCEPT !.after = c]
      BY <1>1, <2>2, <2>5
    <3> QED
      BY <2>1, <2>2, <2>5, <3>1 DEF RemoteRow
  <2>6. CASE d # c /\ d \notin into
    <3>1. shopRow'[d] = [x EXCEPT !.after = l]
      BY <1>1, <2>2, <2>3, <2>6
    <3> QED
      BY <2>1, <2>2, <2>3, <2>6, <3>1 DEF RemoteRow
  <2> QED
    BY <2>4, <2>5, <2>6
<1>7. shopRow' \in [Cats -> RemoteRow]
  <2>1. \A d \in Cats : shopRow'[d] \in RemoteRow
    BY <1>6, Zenon
  <2>2. \E f : shopRow' = [d \in Cats |-> f[d]]
    <3>1. PICK f : f = shopRow'
      OBVIOUS
    <3>2. shopRow' = [d \in Cats |-> f[d]]
      BY <1>1, <3>1
    <3> QED
      BY <3>2
  <2> QED
    BY <2>1, <2>2
<1>8. CatShape'
  BY <1>1, <1>2, <1>7, Disturbed, Zenon DEF CatShape
<1>9. Remote' = Remote
  BY <1>6 DEF Remote
<1>10. ShopTree'
  <2>1. c # Nowhere /\ c \in Remote /\ Nowhere \notin Remote
    BY <1>1, RemoteIs
  <2>2. Chains(Remote \ {c}, RemoteParent, ClosedBy(c))
    BY <1>1, <1>2, ClosedFacts, Zenon
  <2>3. \A d \in Cats : RemoteParent'[d] = shopRow'[d].parent /\ RemoteAfter'[d] = shopRow'[d].after
                        /\ RemoteParent[d] = shopRow[d].parent
    BY DEF RemoteParent, RemoteAfter
  <2>4. PICK par2, aft2 : par2 = RemoteParent' /\ aft2 = RemoteAfter'
    OBVIOUS
  <2>5. Opens(Remote \ {c}, c, p, b, RemoteParent, ClosedBy(c), par2, aft2)
    <3>1. par2[c] = p /\ aft2[c] = b
      BY <1>6, <2>3, <2>4
    <3>2. ASSUME NEW d \in Remote \ {c}
          PROVE  par2[d] = RemoteParent[d]
                 /\ aft2[d] = IF RemoteParent[d] = p /\ ClosedBy(c)[d] = b THEN c ELSE ClosedBy(c)[d]
      <4>1. d \in Cats /\ d # c
        BY <3>2, RemoteIs
      <4>2. par2[d] = RemoteParent[d] /\ RemoteParent[d] = shopRow[d].parent
        BY <1>6, <2>3, <2>4, <4>1
      <4>3. aft2[d] = IF d \in into THEN c ELSE ClosedBy(c)[d]
        BY <1>6, <2>3, <2>4, <4>1
      <4>4. d \in into <=> shopRow[d].parent = p /\ ClosedBy(c)[d] = b
        BY <1>3, <1>4
      <4> QED
        BY <4>2, <4>3, <4>4, Zenon
    <3> QED
      BY <3>1, <3>2, Zenon DEF Opens
  <2>6. b = Nowhere \/ (b \in Remote \ {c} /\ RemoteParent[b] = p)
    BY <1>1, <2>3, RemoteIs
  <2>7. Chains((Remote \ {c}) \cup {c}, par2, aft2)
    <3>1. c \notin Remote \ {c} /\ Nowhere \notin Remote \ {c}
      BY <2>1
    <3> QED
      BY <2>1, <2>2, <2>5, <2>6, <3>1, PutIn
  <2>8. Remote = (Remote \ {c}) \cup {c}
    BY <2>1
  <2>9. Chains(Remote', RemoteParent', RemoteAfter')
    BY <1>9, <2>4, <2>7, <2>8, Zenon
  <2>10. \A d \in Cats \ Remote : shopRow'[d].parent = Nowhere /\ shopRow'[d].after = Nowhere
    <3>1. \A d \in Cats \ Remote : d # c /\ d \notin into
      BY <1>1, <1>3
    <3>2. \A d \in Cats \ Remote : shopRow[d].parent = Nowhere /\ ClosedBy(c)[d] = Nowhere
      BY <1>1, <1>2, ClosedFacts, Zenon DEF ShopTree
    <3> QED
      BY <1>6, <3>1, <3>2
  <2>11. Root \in Remote
    BY <1>2, Zenon DEF ShopTree
  <2> QED
    BY <1>9, <2>9, <2>10, <2>11, Zenon DEF ShopTree
<1>11. SameProducts'
  <2>1. agreed \subseteq Cats
    BY <1>2, Zenon DEF CatCounts
  <2>2. \A d \in agreed' : d \in agreed /\ shopRow'[d].products = shopRow[d].products /\ local'[d].products = local[d].products
    BY <1>1, <1>6, <2>1
  <2> QED
    BY <1>2, <2>2, ProductsKept
<1>12. CatCounts' /\ CatFlag'
  BY <1>1, <1>2, EventCounts DEF CatCounts, CatFlag
<1>13. Mirrors'
  BY <1>1, MirrorsOff, Zenon
<1> QED
  BY <1>1, <1>2, <1>8, <1>10, <1>11, <1>12, <1>13, Disturbed, Zenon DEF SyncIInv

LEMMA ShopDeletesKeeps ==
  ASSUME SyncIInv, RootStands, NEW c \in Cats, ShopDeletes(c)
  PROVE  SyncIInv'
<1>1. PICK gone : gone = Below({c}, RemoteParent, Remote)
  OBVIOUS
<1>2. PICK none : none = [here |-> FALSE, parent |-> Nowhere, after |-> Nowhere, products |-> {}]
  OBVIOUS
<1> DEFINE stays(d) == IF shopRow[d].after = c THEN [shopRow[d] EXCEPT !.after = shopRow[c].after] ELSE shopRow[d]
<1>3. /\ CatEvent /\ c \in Remote /\ c # Root
      /\ shopRow' = [d \in Cats |-> IF d \in gone THEN none ELSE stays(d)]
      /\ agreed' = agreed \ gone
      /\ mirrored' = FALSE /\ Disturbs /\ UNCHANGED <<local, toSend, imports>>
  BY <1>1, <1>2, Zenon DEF ShopDeletes
<1> HIDE DEF stays
<1>4. CatShape /\ CatCounts /\ ShopTree /\ SameProducts
  BY Zenon DEF SyncIInv
<1>5. /\ gone \subseteq Remote /\ c \in gone
      /\ \A d \in Remote : RemoteParent[d] \in gone => d \in gone
      /\ \A d \in gone : d = c \/ RemoteParent[d] \in gone
  <2>1. IsFiniteSet(Remote)
    BY RemoteIs
  <2>2. gone \subseteq Remote /\ {c} \cap Remote \subseteq gone /\ \A d \in Remote : RemoteParent[d] \in gone => d \in gone
    BY <1>1, <2>1, BelowIs, Zenon
  <2>3. \A d \in gone : d \in {c} \/ RemoteParent[d] \in gone
    BY <1>1, <2>1, BelowHangs, Zenon
  <2> QED
    BY <1>3, <2>2, <2>3
<1>6. Root \notin gone
  <2>1. RemoteParent[Root] = Nowhere
    BY CatConstants, RemoteIs, Zenon DEF RootStands
  <2>2. Nowhere \notin gone
    BY <1>5, RemoteIs
  <2> QED
    BY <1>3, <1>5, <2>1, <2>2
<1>7. ASSUME NEW d \in Cats
      PROVE  /\ shopRow'[d] \in RemoteRow
             /\ d \in gone => ~ shopRow'[d].here /\ shopRow'[d].parent = Nowhere /\ shopRow'[d].after = Nowhere
             /\ d \notin gone => /\ shopRow'[d].here = shopRow[d].here /\ shopRow'[d].products = shopRow[d].products
                                 /\ shopRow'[d].parent = shopRow[d].parent
                                 /\ shopRow'[d].after = ClosedBy(c)[d]
  <2>1. PICK x \in RemoteRow : x = shopRow[d]
    BY <1>4, RowTypes
  <2>2. PICK l : l = shopRow[c].after /\ l \in Cats \cup {Nowhere}
    BY <1>4, RowTypes
  <2>3. ClosedBy(c)[d] = IF x.after = c THEN l ELSE x.after
    BY <1>3, <1>4, <2>1, <2>2, ClosedFacts
  <2>4. CASE d \in gone
    <3>1. shopRow'[d] = none
      BY <1>3, <2>4
    <3>2. none \in RemoteRow
      BY <1>2 DEF RemoteRow
    <3>3. none.here = FALSE /\ none.parent = Nowhere /\ none.after = Nowhere
      BY <1>2
    <3> QED
      BY <2>4, <3>1, <3>2, <3>3, Zenon
  <2>5. CASE d \notin gone /\ x.after = c
    <3>1. shopRow'[d] = [x EXCEPT !.after = l]
      <4>1. shopRow'[d] = stays(d)
        BY <1>3, <2>5
      <4> QED
        BY <2>1, <2>2, <2>5, <4>1 DEF stays
    <3>2. shopRow'[d] \in RemoteRow /\ shopRow'[d].here = x.here /\ shopRow'[d].products = x.products
          /\ shopRow'[d].parent = x.parent /\ shopRow'[d].after = l
      BY <2>1, <2>2, <3>1 DEF RemoteRow
    <3> QED
      BY <2>1, <2>3, <2>5, <3>2
  <2>6. CASE d \notin gone /\ x.after # c
    <3>1. shopRow'[d] = x
      <4>1. shopRow'[d] = stays(d)
        BY <1>3, <2>6
      <4> QED
        BY <2>1, <2>6, <4>1 DEF stays
    <3> QED
      BY <2>1, <2>3, <2>6, <3>1
  <2> QED
    BY <2>4, <2>5, <2>6
<1>8. shopRow' \in [Cats -> RemoteRow]
  <2>1. \A d \in Cats : shopRow'[d] \in RemoteRow
    BY <1>7, Zenon
  <2>2. \E f : shopRow' = [d \in Cats |-> f[d]]
    <3>1. PICK f : f = shopRow'
      OBVIOUS
    <3>2. shopRow' = [d \in Cats |-> f[d]]
      BY <1>3, <3>1
    <3> QED
      BY <3>2
  <2> QED
    BY <2>1, <2>2
<1>9. CatShape'
  BY <1>3, <1>4, <1>8, Disturbed, Zenon DEF CatShape
<1>10. Remote' = Remote \ gone
  BY <1>7 DEF Remote
<1>11. ShopTree'
  <2>1. Chains(Remote \ {c}, RemoteParent, ClosedBy(c)) /\ \A d \in Cats \ Remote : ClosedBy(c)[d] = Nowhere
    BY <1>3, <1>4, ClosedFacts, Zenon
  <2>2. Chains((Remote \ {c}) \ gone, RemoteParent, ClosedBy(c))
    <3>1. \A d \in Remote \ {c} : RemoteParent[d] \in gone => d \in gone
      BY <1>5
    <3>2. \A d \in (Remote \ {c}) \cap gone : RemoteParent[d] \in gone
      BY <1>5
    <3> QED
      BY <2>1, <3>1, <3>2, CutOff
  <2>3. (Remote \ {c}) \ gone = Remote \ gone
    BY <1>5
  <2>4. PICK R, par, aft, par2, aft2 : R = Remote \ gone /\ par = RemoteParent /\ aft = ClosedBy(c)
                                        /\ par2 = RemoteParent' /\ aft2 = RemoteAfter'
    OBVIOUS
  <2>5. Chains(R, par, aft) /\ Nowhere \notin R
    BY <2>2, <2>3, <2>4, RemoteIs
  <2>6. \A d \in R : par2[d] = par[d] /\ aft2[d] = aft[d]
    <3>1. \A d \in Cats : RemoteParent'[d] = shopRow'[d].parent /\ RemoteAfter'[d] = shopRow'[d].after
                          /\ RemoteParent[d] = shopRow[d].parent
      BY DEF RemoteParent, RemoteAfter
    <3>2. \A d \in R : d \in Cats /\ d \notin gone
      BY <2>4, RemoteIs
    <3> QED
      BY <1>7, <2>4, <3>1, <3>2
  <2>7. Chains(R, par2, aft2)
    BY <2>5, <2>6, SameChains
  <2>8. \A d \in Cats \ (Remote \ gone) : shopRow'[d].parent = Nowhere /\ shopRow'[d].after = Nowhere
    <3>1. \A d \in Cats \ Remote : shopRow[d].parent = Nowhere
      BY <1>4, Zenon DEF ShopTree
    <3> QED
      BY <1>7, <2>1, <3>1
  <2>9. Root \in Remote \ gone
    BY <1>4, <1>6 DEF ShopTree
  <2> QED
    BY <1>10, <2>4, <2>7, <2>8, <2>9, Zenon DEF ShopTree
<1>12. SameProducts'
  <2>1. agreed \subseteq Cats
    BY <1>4, Zenon DEF CatCounts
  <2>2. \A d \in agreed' : d \in agreed /\ shopRow'[d].products = shopRow[d].products /\ local'[d].products = local[d].products
    BY <1>3, <1>7, <2>1
  <2> QED
    BY <1>4, <2>2, ProductsKept
<1>13. CatCounts' /\ CatFlag'
  BY <1>3, <1>4, EventCounts DEF CatCounts, CatFlag
<1>14. Mirrors'
  BY <1>3, MirrorsOff, Zenon
<1> QED
  BY <1>3, <1>4, <1>9, <1>11, <1>12, <1>13, <1>14, Disturbed, Zenon DEF SyncIInv

LEMMA ProductsWritten ==
  ASSUME CatShape, NEW c \in Cats, NEW ids \in SUBSET ShopIds, shopRow' = [shopRow EXCEPT ![c].products = ids]
  PROVE  /\ shopRow' \in [Cats -> RemoteRow] /\ SameShop /\ shopRow'[c].products = ids
         /\ \A d \in Cats \ {c} : shopRow'[d] = shopRow[d]
<1>1. PICK x \in RemoteRow : x = shopRow[c]
  BY RowTypes
<1>2. shopRow \in [Cats -> RemoteRow] /\ shopRow' = [shopRow EXCEPT ![c] = [x EXCEPT !.products = ids]]
  BY <1>1 DEF CatShape
<1>3. PICK y \in RemoteRow : y = [x EXCEPT !.products = ids] /\ y.here = x.here /\ y.parent = x.parent /\ y.after = x.after
                             /\ y.products = ids
  <2>1. [x EXCEPT !.products = ids] \in RemoteRow
    BY <1>1 DEF RemoteRow
  <2>2. [x EXCEPT !.products = ids].here = x.here /\ [x EXCEPT !.products = ids].parent = x.parent
        /\ [x EXCEPT !.products = ids].after = x.after /\ [x EXCEPT !.products = ids].products = ids
    BY <1>1 DEF RemoteRow
  <2> QED
    BY <2>1, <2>2, Zenon
<1>4. shopRow' = [shopRow EXCEPT ![c] = y]
  BY <1>2, <1>3, Zenon
<1>5. shopRow' \in [Cats -> RemoteRow] /\ shopRow'[c] = y /\ \A d \in Cats \ {c} : shopRow'[d] = shopRow[d]
  BY <1>2, <1>3, <1>4
<1>6. SameShop
  BY <1>1, <1>3, <1>5, Zenon DEF SameShop
<1> QED
  BY <1>3, <1>5, <1>6, Zenon

LEMMA ShopAssignsKeeps ==
  ASSUME SyncIInv, NEW c \in Cats, NEW ids \in SUBSET ShopIds, ShopAssigns(c, ids)
  PROVE  SyncIInv'
<1>1. /\ CatEvent /\ c \in Remote /\ shopRow' = [shopRow EXCEPT ![c].products = ids]
      /\ agreed' = agreed \ {c} /\ Disturbs /\ UNCHANGED <<local, toSend, mirrored, imports>>
  BY Zenon DEF ShopAssigns
<1>2. CatShape /\ CatCounts /\ CatFlag /\ ShopTree /\ SameProducts /\ Mirrors
  BY Zenon DEF SyncIInv
<1>3. shopRow' \in [Cats -> RemoteRow] /\ SameShop /\ \A d \in Cats \ {c} : shopRow'[d] = shopRow[d]
  BY <1>1, <1>2, ProductsWritten, Zenon
<1>4. CatShape'
  BY <1>1, <1>2, <1>3, Disturbed, Zenon DEF CatShape
<1>5. SameLocal /\ (mirrored' => mirrored)
  BY <1>1, Zenon DEF SameLocal
<1>6. SameProducts'
  <2>1. agreed \subseteq Cats
    BY <1>2, Zenon DEF CatCounts
  <2>2. \A d \in agreed' : d \in agreed /\ shopRow'[d].products = shopRow[d].products /\ local'[d].products = local[d].products
    BY <1>1, <1>3, <2>1
  <2> QED
    BY <1>2, <2>2, ProductsKept
<1>7. CatCounts' /\ CatFlag'
  <2>1. CatCounts'
    BY <1>1, <1>2, EventCounts DEF CatCounts
  <2> QED
    BY <1>1, <1>2, <2>1, Zenon DEF CatFlag
<1>8. Mirrors' /\ ShopTree'
  BY <1>2, <1>3, <1>5, MirrorsKept, SameShopKeeps, Zenon
<1> QED
  BY <1>1, <1>2, <1>4, <1>6, <1>7, <1>8, Disturbed, Zenon DEF SyncIInv

-----------------------------------------------------------------------------
(* Django's administration.                                                 *)
LEMMA PersonMovesSyncs ==
  ASSUME SyncIInv, NEW c \in Cats, NEW p \in Cats \cup {Nowhere}, PersonMoves(c, p)
  PROVE  SyncIInv'
<1>1. /\ CatEvent /\ local' = [local EXCEPT ![c].parent = p]
      /\ mirrored' = FALSE /\ Disturbs /\ UNCHANGED <<shopRow, toSend, agreed, imports>>
  BY Zenon DEF PersonMoves
<1>2. CatShape /\ CatCounts /\ ShopTree /\ SameProducts
  BY Zenon DEF SyncIInv
<1>3. local' \in [Cats -> LocalRow] /\ \A d \in Cats : local'[d].products = local[d].products
  <2>1. PICK x \in LocalRow : x = local[c]
    BY <1>2, RowTypes
  <2>2. local \in [Cats -> LocalRow] /\ local' = [local EXCEPT ![c] = [x EXCEPT !.parent = p]]
    BY <1>1, <1>2, <2>1 DEF CatShape
  <2>3. PICK y \in LocalRow : y = [x EXCEPT !.parent = p] /\ y.products = x.products
    <3>1. [x EXCEPT !.parent = p] \in LocalRow
      BY <2>1 DEF LocalRow
    <3>2. [x EXCEPT !.parent = p].products = x.products
      BY <2>1 DEF LocalRow
    <3> QED
      BY <3>1, <3>2, Zenon
  <2>4. local' = [local EXCEPT ![c] = y]
    BY <2>2, <2>3, Zenon
  <2> QED
    BY <2>1, <2>2, <2>3, <2>4
<1>4. CatShape'
  BY <1>1, <1>2, <1>3, Disturbed, Zenon DEF CatShape
<1>5. SameProducts'
  <2>1. agreed \subseteq Cats
    BY <1>2, Zenon DEF CatCounts
  <2>2. \A d \in agreed' : d \in agreed /\ shopRow'[d].products = shopRow[d].products /\ local'[d].products = local[d].products
    BY <1>1, <1>3, <2>1
  <2> QED
    BY <1>2, <2>2, ProductsKept
<1>6. CatCounts' /\ CatFlag'
  BY <1>1, <1>2, EventCounts DEF CatCounts, CatFlag
<1>7. Mirrors' /\ ShopTree'
  BY <1>1, <1>2, MirrorsOff, ShopUnchanged, SameShopKeeps, Zenon
<1> QED
  BY <1>1, <1>2, <1>4, <1>5, <1>6, <1>7, Disturbed, Zenon DEF SyncIInv

LEMMA PersonAssignsKeeps ==
  ASSUME SyncIInv, NEW c \in Cats, NEW S \in SUBSET Products, PersonAssigns(c, S)
  PROVE  SyncIInv'
<1>1. /\ CatEvent /\ local' = [local EXCEPT ![c].products = S] /\ toSend' \in {toSend, toSend \cup {c}}
      /\ agreed' = agreed \ {c} /\ Disturbs /\ UNCHANGED <<shopRow, mirrored, imports>>
  BY Zenon DEF PersonAssigns
<1>2. CatShape /\ CatCounts /\ CatFlag /\ ShopTree /\ SameProducts /\ Mirrors
  BY Zenon DEF SyncIInv
<1>3. local' \in [Cats -> LocalRow] /\ SameLocal /\ \A d \in Cats \ {c} : local'[d] = local[d]
  <2>1. PICK x \in LocalRow : x = local[c]
    BY <1>2, RowTypes
  <2>2. local \in [Cats -> LocalRow] /\ local' = [local EXCEPT ![c] = [x EXCEPT !.products = S]]
    BY <1>1, <1>2, <2>1 DEF CatShape
  <2>3. PICK y \in LocalRow : y = [x EXCEPT !.products = S] /\ y.here = x.here /\ y.parent = x.parent /\ y.place = x.place
    <3>1. [x EXCEPT !.products = S] \in LocalRow
      BY <2>1 DEF LocalRow
    <3>2. [x EXCEPT !.products = S].here = x.here /\ [x EXCEPT !.products = S].parent = x.parent
          /\ [x EXCEPT !.products = S].place = x.place
      BY <2>1 DEF LocalRow
    <3> QED
      BY <3>1, <3>2, Zenon
  <2>4. local' = [local EXCEPT ![c] = y]
    BY <2>2, <2>3, Zenon
  <2>5. local' \in [Cats -> LocalRow] /\ local'[c] = y /\ \A d \in Cats \ {c} : local'[d] = local[d]
    BY <2>2, <2>3, <2>4
  <2>6. SameLocal
    BY <2>1, <2>3, <2>5, Zenon DEF SameLocal
  <2> QED
    BY <2>5, <2>6
<1>4. CatShape'
  BY <1>1, <1>2, <1>3, Disturbed, Zenon DEF CatShape
<1>5. SameShop /\ (mirrored' => mirrored)
  BY <1>1, Zenon DEF SameShop
<1>6. SameProducts'
  <2>1. agreed \subseteq Cats
    BY <1>2, Zenon DEF CatCounts
  <2>2. \A d \in agreed' : d \in agreed /\ shopRow'[d].products = shopRow[d].products /\ local'[d].products = local[d].products
    BY <1>1, <1>3, <2>1
  <2> QED
    BY <1>2, <2>2, ProductsKept
<1>7. CatCounts' /\ CatFlag'
  <2>1. CatCounts'
    BY <1>1, <1>2, EventCounts DEF CatCounts
  <2> QED
    BY <1>1, <1>2, <2>1, Zenon DEF CatFlag
<1>8. Mirrors' /\ ShopTree'
  BY <1>2, <1>3, <1>5, MirrorsKept, SameShopKeeps, Zenon
<1> QED
  BY <1>1, <1>2, <1>4, <1>6, <1>7, <1>8, Disturbed, Zenon DEF SyncIInv

LEMMA PersonDeletesKeeps ==
  ASSUME SyncIInv, NEW c \in Cats, PersonDeletes(c)
  PROVE  SyncIInv'
<1>1. PICK gone : gone = Below({c}, LocalParent, Local)
  OBVIOUS
<1>2. /\ CatEvent /\ local' = [d \in Cats |-> IF d \in gone THEN NoCategory ELSE local[d]]
      /\ agreed' = agreed \ gone
      /\ mirrored' = FALSE /\ Disturbs /\ UNCHANGED <<shopRow, toSend, imports>>
  BY <1>1, Zenon DEF PersonDeletes
<1>3. CatShape /\ CatCounts /\ ShopTree /\ SameProducts
  BY Zenon DEF SyncIInv
<1>4. local' \in [Cats -> LocalRow] /\ \A d \in Cats : d \notin gone => local'[d] = local[d]
  BY <1>2, <1>3, NoCategoryType DEF CatShape
<1>5. CatShape'
  BY <1>2, <1>3, <1>4, Disturbed, Zenon DEF CatShape
<1>6. SameProducts'
  <2>1. agreed \subseteq Cats
    BY <1>3, Zenon DEF CatCounts
  <2>2. \A d \in agreed' : d \in agreed /\ shopRow'[d].products = shopRow[d].products /\ local'[d].products = local[d].products
    BY <1>2, <1>4, <2>1
  <2> QED
    BY <1>3, <2>2, ProductsKept
<1>7. CatCounts' /\ CatFlag'
  BY <1>2, <1>3, EventCounts DEF CatCounts, CatFlag
<1>8. Mirrors' /\ ShopTree'
  BY <1>2, <1>3, MirrorsOff, ShopUnchanged, SameShopKeeps, Zenon
<1> QED
  BY <1>2, <1>3, <1>5, <1>6, <1>7, <1>8, Disturbed, Zenon DEF SyncIInv

-----------------------------------------------------------------------------
(* The import: steps that change nothing but what it knows.                    *)
LEMMA OnlyImportMoves ==
  ASSUME SyncIInv, UNCHANGED <<shopRow, local, push, toSend, agreed, mirrored>>,
         catEvents' \in 0 .. MaxCatEvents, imports' \in 0 .. MaxImports, import' \in CatImports, ImportAlone'
  PROVE  SyncIInv'
<1>1. CatShape /\ CatCounts /\ CatFlag /\ ShopTree /\ PushAlone /\ SameProducts /\ Mirrors
  BY Zenon DEF SyncIInv
<1>2. /\ shopRow' = shopRow /\ local' = local /\ push' = push /\ toSend' = toSend /\ agreed' = agreed
      /\ mirrored' = mirrored
  BY Zenon
<1>3. CatShape' /\ CatFlag'
  BY <1>1, <1>2, Zenon DEF CatShape, CatFlag
<1>4. CatCounts'
  BY <1>1, <1>2, Zenon DEF CatCounts
<1>9. mirrored' => mirrored
  BY <1>2
<1>5. SameShop /\ SameLocal /\ (mirrored' => mirrored)
  BY <1>2, <1>9, Zenon DEF SameShop, SameLocal
<1>6. ShopTree' /\ Mirrors'
  BY <1>1, <1>2, <1>5, SameShopKeeps, MirrorsKept, Zenon
<1>7. PushAlone'
  BY <1>1, <1>2, PushAloneKept, Zenon
<1>8. SameProducts'
  BY <1>1, <1>2, Zenon DEF SameProducts
<1> QED
  BY <1>3, <1>4, <1>6, <1>7, <1>8, Zenon DEF SyncIInv

LEMMA CountsHold == SyncIInv => catEvents \in 0 .. MaxCatEvents /\ imports \in 0 .. MaxImports /\ import \in CatImports /\ push \in CatPushes
  BY Zenon DEF SyncIInv, CatCounts, CatShape

LEMMA NotImportingIs ==
  /\ NotImporting \in CatImports /\ NotImporting.pc = "off" /\ NotImporting.alone = FALSE
  /\ NotImporting.page = 1 /\ NotImporting.rows = 0 /\ NotImporting.known = {}
<1>1. PICK no, none : no = [c \in Cats |-> Nowhere] /\ none = [c \in Cats |-> {}]
  OBVIOUS
<1>3. no \in [Cats -> Cats \cup {Nowhere}] /\ none \in [Cats -> SUBSET Products]
  BY <1>1
<1>2. NotImporting = [pc |-> "off", page |-> 1, rows |-> 0, known |-> {}, parent |-> no, after |-> no,
                      links |-> none, whole |-> {}, old |-> none, alone |-> FALSE]
  BY <1>1, Zenon DEF NotImporting
<1> QED
  BY <1>2, <1>3 DEF CatImports

LEMMA ImportStops ==
  ASSUME SyncIInv, UNCHANGED <<shopRow, local, push, toSend, agreed, mirrored, imports>>,
         catEvents' \in 0 .. MaxCatEvents, import' = NotImporting
  PROVE  SyncIInv'
<1>1. import' \in CatImports /\ ImportAlone'
  BY NotImportingIs, Zenon DEF ImportAlone
<1>2. imports' \in 0 .. MaxImports
  BY CountsHold, Zenon
<1> QED
  BY <1>1, <1>2, OnlyImportMoves, Zenon

LEMMA ImportIsRolledBackSyncs == SyncIInv /\ ImportIsRolledBack => SyncIInv'
<1> SUFFICES ASSUME SyncIInv, ImportIsRolledBack PROVE SyncIInv'
  OBVIOUS
<1>1. import' = NotImporting /\ UNCHANGED <<shopRow, local, push, toSend, agreed, mirrored, catEvents, imports>>
  BY Zenon DEF ImportIsRolledBack
<1>2. catEvents' \in 0 .. MaxCatEvents
  BY <1>1, CountsHold, Zenon
<1> QED
  BY <1>1, <1>2, ImportStops, Zenon

LEMMA ImportBreaksSyncs == SyncIInv /\ ImportBreaks => SyncIInv'
<1> SUFFICES ASSUME SyncIInv, ImportBreaks PROVE SyncIInv'
  OBVIOUS
<1>1. import' = NotImporting /\ CatEvent /\ UNCHANGED <<shopRow, local, push, toSend, agreed, mirrored, imports>>
  BY Zenon DEF ImportBreaks
<1>2. catEvents' \in 0 .. MaxCatEvents
  BY <1>1, CountsHold, EventCounts, Zenon
<1> QED
  BY <1>1, <1>2, ImportStops, Zenon

LEMMA NothingAhead == \A c \in Remote : ~ (Ahead(Remote, c) < (1 - 1) * PageSize)
<1>1. \A c \in Remote : Ahead(Remote, c) \in 0 .. Cardinality(Remote) - 1
  BY RemoteIs, AheadFacts
<1>2. PageSize \in Nat
  BY CatConstants
<1>3. (1 - 1) * PageSize = 0
  BY <1>2
<1> QED
  BY <1>1, <1>3

LEMMA ImportStartsSyncs == SyncIInv /\ ImportStarts => SyncIInv'
<1> SUFFICES ASSUME SyncIInv, ImportStarts PROVE SyncIInv'
  OBVIOUS
<1>1. /\ import' = [NotImporting EXCEPT !.pc = "reading", !.alone = TRUE] /\ imports < MaxImports /\ imports' = imports + 1
      /\ UNCHANGED <<shopRow, local, push, toSend, agreed, mirrored, catEvents>>
  BY Zenon DEF ImportStarts
<1>2. PICK r \in CatImports : r = NotImporting /\ r.page = 1 /\ r.rows = 0 /\ r.known = {}
  BY NotImportingIs
<1>3. import' \in CatImports /\ import'.pc = "reading" /\ import'.page = 1 /\ import'.rows = 0 /\ import'.known = {}
  BY <1>1, <1>2 DEF CatImports
<1>4. Remote' = Remote
  BY <1>1, Zenon DEF Remote
<1>5. ImportAlone'
  <2>1. {c \in Remote : Ahead(Remote, c) < (1 - 1) * PageSize} = {}
    BY NothingAhead
  <2>2. Cardinality({}) = 0
    BY FS_EmptySet
  <2>3. /\ import'.known = {c \in Remote' : Ahead(Remote', c) < (import'.page - 1) * PageSize}
        /\ import'.rows = Cardinality(import'.known) /\ import'.known = {}
    BY <1>3, <1>4, <2>1, <2>2, Zenon
  <2>4. import'.pc # "read" /\ import'.pc \notin {"links", "compare"} /\ import'.pc # "compare"
    BY <1>3
  <2>5. ReadSoFar'
    BY <2>3, <2>4, Zenon DEF ReadSoFar
  <2> QED
    BY <2>4, <2>5, Zenon DEF ImportAlone, LinksRead, LocalRead
<1>6. imports' \in 0 .. MaxImports
  <2>1. imports \in 0 .. MaxImports /\ MaxImports \in Nat
    BY CountsHold, CatAssumption, Zenon
  <2> QED
    BY <1>1, <2>1
<1>7. catEvents' \in 0 .. MaxCatEvents
  BY <1>1, CountsHold, Zenon
<1> QED
  BY <1>1, <1>3, <1>5, <1>6, <1>7, OnlyImportMoves, Zenon

LEMMA ImportReadsLinksSyncs == SyncIInv /\ ImportReadsLinks => SyncIInv'
<1> SUFFICES ASSUME SyncIInv, ImportReadsLinks PROVE SyncIInv'
  OBVIOUS
<1>1. PICK links : import' = [import EXCEPT !.pc = "links",
            !.links = [c \in Cats |-> Resolved(links[c])],
            !.whole = {c \in import.known \cap Remote : links[c] = shopRow[c].products}]
  BY Zenon DEF ImportReadsLinks
<1>2. import.pc = "tree" /\ UNCHANGED <<shopRow, local, push, toSend, agreed, mirrored, catEvents, imports>>
  BY Zenon DEF ImportReadsLinks
<1>3. PICK r \in CatImports : r = import
  BY CountsHold
<1>11. PICK f : f = [c \in Cats |-> Resolved(links[c])]
  OBVIOUS
<1>4. f \in [Cats -> SUBSET Products] /\ \A c \in Cats : f[c] = Resolved(links[c])
  BY <1>11, ResolvedIs
<1>5. PICK W : W = {c \in import.known \cap Remote : links[c] = shopRow[c].products}
  OBVIOUS
<1>6. W \subseteq Cats /\ W \subseteq import.known
  BY <1>5, RemoteIs
<1>7. import' = [r EXCEPT !.pc = "links", !.links = f, !.whole = W]
  BY <1>1, <1>3, <1>11, <1>5, Zenon
<1>8. import' \in CatImports /\ import'.pc = "links" /\ import'.links = f /\ import'.whole = W /\ import'.known = r.known
  BY <1>4, <1>6, <1>7 DEF CatImports
<1>9. ImportAlone'
  <2>1. \A c \in W : f[c] = Resolved(shopRow[c].products)
    BY <1>4, <1>5, <1>6, Zenon
  <2>2. LinksRead'
    BY <1>2, <1>3, <1>6, <1>8, <2>1, Zenon DEF LinksRead
  <2>3. import'.pc # "read" /\ import'.pc # "reading" /\ import'.pc \notin {"reading", "read"} /\ import'.pc # "compare"
    BY <1>8
  <2> QED
    BY <2>2, <2>3, Zenon DEF ImportAlone, ReadSoFar, LocalRead
<1>10. catEvents' \in 0 .. MaxCatEvents /\ imports' \in 0 .. MaxImports
  BY <1>2, CountsHold, Zenon
<1> QED
  BY <1>2, <1>8, <1>9, <1>10, OnlyImportMoves, Zenon

LEMMA ImportReadsLocalSyncs == SyncIInv /\ ImportReadsLocal => SyncIInv'
<1> SUFFICES ASSUME SyncIInv, ImportReadsLocal PROVE SyncIInv'
  OBVIOUS
<1>1. /\ import' = [import EXCEPT !.pc = "compare", !.old = [c \in Cats |-> local[c].products]]
      /\ import.pc = "links" /\ UNCHANGED <<shopRow, local, push, toSend, agreed, mirrored, catEvents, imports>>
  BY Zenon DEF ImportReadsLocal
<1>2. CatShape /\ ImportAlone
  BY Zenon DEF SyncIInv
<1>3. PICK r \in CatImports : r = import
  BY CountsHold
<1>9. PICK f : f = [c \in Cats |-> local[c].products]
  OBVIOUS
<1>4. f \in [Cats -> SUBSET Products] /\ \A c \in Cats : f[c] = local[c].products
  <2>1. \A c \in Cats : local[c].products \in SUBSET Products
    BY <1>2, RowTypes
  <2> QED
    BY <1>9, <2>1
<1>5. import' = [r EXCEPT !.pc = "compare", !.old = f]
  BY <1>1, <1>3, <1>9, Zenon
<1>6. /\ import' \in CatImports /\ import'.pc = "compare" /\ import'.old = f /\ import'.whole = r.whole
      /\ import'.known = r.known /\ import'.links = r.links /\ import'.alone = r.alone /\ r.known \subseteq Cats
  BY <1>4, <1>5 DEF CatImports
<1>7. ImportAlone'
  <2>1. import'.pc # "read" /\ import'.pc # "reading" /\ import'.pc \notin {"reading", "read"} /\ import.pc \in {"links", "compare"}
    BY <1>1, <1>6
  <2>2. LinksRead => LinksRead'
    BY <1>1, <1>3, <1>6, <2>1, Zenon DEF LinksRead
  <2>3. \A c \in r.known : f[c] = local[c].products
    BY <1>4, <1>6
  <2>4. LocalRead'
    BY <1>1, <1>6, <2>3, Zenon DEF LocalRead
  <2> QED
    BY <1>2, <1>3, <1>6, <2>1, <2>2, <2>4, Zenon DEF ImportAlone, ReadSoFar
<1>8. catEvents' \in 0 .. MaxCatEvents /\ imports' \in 0 .. MaxImports
  BY <1>1, CountsHold, Zenon
<1> QED
  BY <1>1, <1>6, <1>7, <1>8, OnlyImportMoves, Zenon

(* A page: after the first q rows of a table it adds the next ones, and it is   *)
(* the last one when it is not full or nobody is missing.                     *)
FirstRows(R, q) == {c \in R : Ahead(R, c) < q}
NextRows(R, q, s) == {c \in R : q <= Ahead(R, c) /\ Ahead(R, c) < q + s}

Longer(R, q, s, K, B) ==
  /\ K \cup B = FirstRows(R, q + s) /\ Cardinality(K \cup B) = Cardinality(K) + Cardinality(B)
  /\ Cardinality(B) < s \/ Cardinality(K) + Cardinality(B) >= Cardinality(R) => K \cup B = R

LEMMA PageReads ==
  ASSUME NEW R, IsFiniteSet(R), R \subseteq Nat, NEW q \in Nat, NEW s \in Nat \ {0}, NEW K, NEW B,
         K = FirstRows(R, q), B = NextRows(R, q, s)
  PROVE  Longer(R, q, s, K, B)
<1>1. PICK m \in Nat : m = Cardinality(R)
  BY FS_CardinalityType
<1>2. /\ \A c \in R : Ahead(R, c) \in 0 .. m - 1
      /\ \A k \in 0 .. m - 1 : \E c \in R : Ahead(R, c) = k
  BY <1>1, AheadFacts
<1>3. K \in SUBSET R /\ B \in SUBSET R /\ K \cap B = {} /\ K \cup B \in SUBSET R
  <2>1. K \in SUBSET R /\ B \in SUBSET R
    BY DEF FirstRows, NextRows
  <2>2. \A c \in K : Ahead(R, c) < q /\ Ahead(R, c) \in Nat
    BY <1>2 DEF FirstRows
  <2>3. \A c \in B : q <= Ahead(R, c)
    BY DEF NextRows
  <2>4. \A c \in K : c \notin B
    BY <2>2, <2>3
  <2> QED
    BY <2>1, <2>4, Zenon
<1>4. IsFiniteSet(K) /\ IsFiniteSet(B) /\ Cardinality(K) \in Nat /\ Cardinality(B) \in Nat
  <2>1. IsFiniteSet(K) /\ IsFiniteSet(B)
    BY <1>3, FS_Subset, Zenon
  <2> QED
    BY <2>1, FS_CardinalityType
<1>5. K \cup B = FirstRows(R, q + s) /\ \A c \in R : c \notin K \cup B => q + s <= Ahead(R, c)
  <2>1. PICK U : U = FirstRows(R, q + s)
    OBVIOUS
  <2>2. ASSUME NEW c \in R
        PROVE  (c \in K <=> Ahead(R, c) < q) /\ (c \in B <=> q <= Ahead(R, c) /\ Ahead(R, c) < q + s)
               /\ (c \in U <=> Ahead(R, c) < q + s)
    BY <2>1 DEF FirstRows, NextRows
  <2>3. \A c \in R : Ahead(R, c) \in Nat
    BY <1>2
  <2>4. U \subseteq R
    BY <2>1 DEF FirstRows
  <2>5. \A c \in R : c \in U <=> c \in K \/ c \in B
    BY <2>2, <2>3
  <2>6. \A c \in R : c \notin U => q + s <= Ahead(R, c)
    BY <2>2, <2>3
  <2> QED
    BY <1>3, <2>1, <2>4, <2>5, <2>6
<1>6. IsFiniteSet(K \cup B) /\ Cardinality(K \cup B) = Cardinality(K) + Cardinality(B)
  <2>1. Cardinality(K \cup B) = Cardinality(K) + Cardinality(B) - Cardinality(K \cap B)
    BY <1>4, FS_Union
  <2>2. Cardinality(K \cap B) = 0
    BY <1>3, FS_EmptySet
  <2>3. IsFiniteSet(K \cup B)
    BY <1>3, FS_Subset, Zenon
  <2> QED
    BY <1>4, <2>1, <2>2, <2>3
<1>7. ASSUME Cardinality(B) < s PROVE K \cup B = R
  <2> SUFFICES ASSUME NEW c \in R, c \notin K \cup B PROVE FALSE
    BY <1>3
  <2>1. Ahead(R, c) \in 0 .. m - 1 /\ q + s <= Ahead(R, c)
    BY <1>2, <1>5, Zenon
  <2>2. PICK D : D = q .. q + s - 1
    OBVIOUS
  <2>3. \A k \in D : k \in 0 .. m - 1 /\ q <= k /\ k < q + s
    BY <2>1, <2>2
  <2>4. \A k \in D : \E d \in B : Ahead(R, d) = k
    BY <1>2, <2>3 DEF NextRows
  <2>5. PICK f : f = [k \in D |-> CHOOSE d \in B : Ahead(R, d) = k]
    OBVIOUS
  <2>6. \A k \in D : f[k] \in B /\ Ahead(R, f[k]) = k
    BY <2>4, <2>5
  <2>7. f \in [D -> B]
    BY <2>5, <2>6
  <2>8. IsFiniteSet(D) /\ Cardinality(D) = s
    <3>1. q \in Int /\ q + s - 1 \in Int
      OBVIOUS
    <3>2. IsFiniteSet(D) /\ Cardinality(D) = IF q > q + s - 1 THEN 0 ELSE (q + s - 1) - q + 1
      BY <2>2, <3>1, FS_Interval
    <3> QED
      BY <3>2
  <2>9. \E x, y \in D : x # y /\ f[x] = f[y]
    BY <1>4, <1>7, <2>7, <2>8, FS_PigeonHole
  <2> QED
    BY <2>6, <2>9
<1>8. ASSUME Cardinality(K) + Cardinality(B) >= m PROVE K \cup B = R
  <2>1. Cardinality(K \cup B) <= m /\ (m = Cardinality(K \cup B) => R = K \cup B)
    BY <1>1, <1>3, FS_Subset
  <2>2. Cardinality(K \cup B) = m
    BY <1>4, <1>6, <1>8, <2>1
  <2> QED
    BY <2>1, <2>2
<1> QED
  BY <1>1, <1>4, <1>5, <1>6, <1>7, <1>8 DEF Longer

LEMMA ImportReadsPageSyncs == SyncIInv /\ ImportReadsPage => SyncIInv'
<1> SUFFICES ASSUME SyncIInv, ImportReadsPage PROVE SyncIInv'
  OBVIOUS
<1>1. PICK r \in CatImports : r = import
  BY CountsHold
<1>2. PICK B : B = Page(r.page)
  OBVIOUS
<1>3. PICK rows : rows = r.rows + Cardinality(B)
  OBVIOUS
<1>4. PICK f, g : /\ f = [c \in Cats |-> IF c \in B THEN shopRow[c].parent ELSE r.parent[c]]
                  /\ g = [c \in Cats |-> IF c \in B THEN shopRow[c].after ELSE r.after[c]]
  OBVIOUS
<1>5. PICK pc : pc = IF Cardinality(B) < PageSize \/ rows >= Cardinality(Remote) THEN "read" ELSE "reading"
  OBVIOUS
<1>6. /\ r.pc = "reading" /\ UNCHANGED <<shopRow, local, push, toSend, agreed, mirrored, catEvents, imports>>
      /\ import' = [r EXCEPT !.pc = pc, !.page = r.page + 1, !.rows = rows, !.known = r.known \cup B, !.parent = f, !.after = g]
  <2>1. /\ import.pc = "reading" /\ UNCHANGED <<shopRow, local, push, toSend, agreed, mirrored, catEvents, imports>>
        /\ import' = [import EXCEPT
             !.pc = IF Cardinality(B) < PageSize \/ rows >= Cardinality(Remote) THEN "read" ELSE "reading",
             !.page = @ + 1, !.rows = rows, !.known = @ \cup B,
             !.parent = [c \in Cats |-> IF c \in B THEN shopRow[c].parent ELSE @[c]],
             !.after = [c \in Cats |-> IF c \in B THEN shopRow[c].after ELSE @[c]]]
    BY <1>1, <1>2, <1>3, Zenon DEF ImportReadsPage
  <2>2. import' = [r EXCEPT
             !.pc = IF Cardinality(B) < PageSize \/ rows >= Cardinality(Remote) THEN "read" ELSE "reading",
             !.page = r.page + 1, !.rows = rows, !.known = r.known \cup B,
             !.parent = [c \in Cats |-> IF c \in B THEN shopRow[c].parent ELSE r.parent[c]],
             !.after = [c \in Cats |-> IF c \in B THEN shopRow[c].after ELSE r.after[c]]]
    BY <1>1, <2>1, Zenon
  <2> QED
    BY <1>1, <1>4, <1>5, <2>1, <2>2, Zenon
<1>7. CatShape /\ ImportAlone
  BY Zenon DEF SyncIInv
<1>8. r.page \in Nat \ {0} /\ PageSize \in Nat \ {0} /\ r.known \subseteq Cats
  BY CatConstants DEF CatImports
<1>9. PICK q \in Nat : q = (r.page - 1) * PageSize /\ r.page * PageSize = q + PageSize
  <2>1. PICK p \in Nat : r.page = p + 1
    <3>1. r.page - 1 \in Nat /\ r.page = (r.page - 1) + 1
      BY <1>8
    <3> QED
      BY <3>1
  <2>2. (p + 1) * PageSize = p * PageSize + PageSize /\ p * PageSize \in Nat /\ (p + 1) - 1 = p
    BY <1>8
  <2> QED
    BY <2>1, <2>2
<1>10. B = NextRows(Remote, q, PageSize)
  BY <1>2, <1>9, Zenon DEF Page, NextRows
<1>11. B \subseteq Cats /\ B \subseteq Remote /\ IsFiniteSet(B) /\ Cardinality(B) \in Nat
  <2>1. B \subseteq Remote
    BY <1>10 DEF NextRows
  <2> QED
    BY <2>1, RemoteIs, FS_Subset, FS_CardinalityType
<1>12. /\ f \in [Cats -> Cats \cup {Nowhere}] /\ g \in [Cats -> Cats \cup {Nowhere}]
       /\ \A c \in Cats : f[c] = (IF c \in B THEN shopRow[c].parent ELSE r.parent[c])
                          /\ g[c] = (IF c \in B THEN shopRow[c].after ELSE r.after[c])
  <2>1. \A c \in Cats : shopRow[c].parent \in Cats \cup {Nowhere} /\ shopRow[c].after \in Cats \cup {Nowhere}
    BY <1>7, RowTypes
  <2>2. \A c \in Cats : r.parent[c] \in Cats \cup {Nowhere} /\ r.after[c] \in Cats \cup {Nowhere}
    BY DEF CatImports
  <2> QED
    BY <1>4, <2>1, <2>2
<1>13. rows \in Nat /\ pc \in {"reading", "read"}
  <2>1. r.rows \in Nat
    BY DEF CatImports
  <2> QED
    BY <1>3, <1>5, <1>11, <2>1
<1>14. /\ import' \in CatImports /\ import'.pc = pc /\ import'.page = r.page + 1 /\ import'.rows = rows
       /\ import'.known = r.known \cup B /\ import'.parent = f /\ import'.after = g /\ import'.alone = r.alone
  <2>1. r.page + 1 \in Nat \ {0} /\ r.known \cup B \in SUBSET Cats
    BY <1>8, <1>11
  <2> QED
    BY <1>6, <1>12, <1>13, <2>1 DEF CatImports
<1>15. Remote' = Remote /\ shopRow' = shopRow
  BY <1>6, Zenon DEF Remote
<1>18. r.known = FirstRows(Remote, q) =>
         /\ r.known \cup B = FirstRows(Remote, q + PageSize)
         /\ Cardinality(r.known \cup B) = Cardinality(r.known) + Cardinality(B)
         /\ Cardinality(B) < PageSize \/ Cardinality(r.known) + Cardinality(B) >= Cardinality(Remote) => r.known \cup B = Remote
  <2>1. PICK R, K, s : R = Remote /\ K = r.known /\ s = PageSize
    OBVIOUS
  <2>2. IsFiniteSet(R) /\ R \subseteq Nat /\ s \in Nat \ {0} /\ q \in Nat /\ B = NextRows(R, q, s)
    BY <1>8, <1>10, <2>1, RemoteIs
  <2>3. K = FirstRows(R, q) => Longer(R, q, s, K, B)
    BY <2>2, PageReads
  <2> QED
    BY <2>1, <2>3, Zenon DEF Longer
<1>16. ImportAlone'
  <2> SUFFICES ASSUME r.alone PROVE ReadSoFar' /\ LinksRead' /\ LocalRead'
    BY <1>14, Zenon DEF ImportAlone
  <2>1. /\ r.known = FirstRows(Remote, q) /\ r.rows = Cardinality(r.known)
        /\ \A c \in r.known : r.parent[c] = shopRow[c].parent /\ r.after[c] = shopRow[c].after
    <3>1. ReadSoFar /\ import.pc = "reading" /\ import.pc \in {"reading", "read"}
      BY <1>1, <1>6, <1>7, Zenon DEF ImportAlone
    <3> QED
      BY <1>1, <1>9, <3>1, Zenon DEF ReadSoFar, FirstRows
  <2>2. /\ r.known \cup B = FirstRows(Remote, q + PageSize)
        /\ Cardinality(r.known \cup B) = Cardinality(r.known) + Cardinality(B)
        /\ Cardinality(B) < PageSize \/ Cardinality(r.known) + Cardinality(B) >= Cardinality(Remote) => r.known \cup B = Remote
    BY <1>18, <2>1, Zenon
  <2>3. (import'.page - 1) * PageSize = q + PageSize
    <3>1. (r.page + 1) - 1 = r.page
      BY <1>8
    <3> QED
      BY <1>9, <1>14, <3>1
  <2>4. /\ import'.known = {c \in Remote' : Ahead(Remote', c) < (import'.page - 1) * PageSize}
        /\ import'.rows = Cardinality(import'.known)
    <3>1. import'.rows = Cardinality(import'.known)
      BY <1>3, <1>14, <2>1, <2>2, Zenon
    <3> QED
      BY <1>14, <1>15, <2>2, <2>3, <3>1, Zenon DEF FirstRows
  <2>5. import'.pc = "read" => import'.known = Remote'
    <3>1. pc = "read" => Cardinality(B) < PageSize \/ rows >= Cardinality(Remote)
      BY <1>5
    <3>2. pc = "read" => r.known \cup B = Remote
      BY <1>3, <2>1, <2>2, <3>1, Zenon
    <3> QED
      BY <1>14, <1>15, <3>2, Zenon
  <2>6. \A c \in import'.known : import'.parent[c] = shopRow'[c].parent /\ import'.after[c] = shopRow'[c].after
    <3>1. \A c \in r.known \cup B : f[c] = shopRow[c].parent /\ g[c] = shopRow[c].after
      BY <1>8, <1>11, <1>12, <2>1
    <3> QED
      BY <1>14, <1>15, <3>1, Zenon
  <2>7. import'.pc \notin {"links", "compare"} /\ import'.pc # "compare"
    BY <1>13, <1>14
  <2> QED
    BY <2>4, <2>5, <2>6, <2>7, Zenon DEF ReadSoFar, LinksRead, LocalRead
<1>17. catEvents' \in 0 .. MaxCatEvents /\ imports' \in 0 .. MaxImports
  BY <1>6, CountsHold, Zenon
<1> QED
  BY <1>6, <1>14, <1>16, <1>17, OnlyImportMoves, Zenon

(* The tree that an import writes: the rows below the root hang as in the      *)
(* table read, and each one's place follows that of the sibling it names.      *)
Hangs(I, par, sp) == \A c \in I : sp[c] = IF par[c] \in I THEN par[c] ELSE Nowhere

TreeOf(R, par, aft, I, sp, aft2) ==
  /\ IsFiniteSet(R) /\ R \subseteq Nat /\ Nowhere \notin R /\ Chains(R, par, aft)
  /\ I = Below({Root}, par, R) /\ Hangs(I, par, sp) /\ \A c \in R : aft2[c] = aft[c]

LEMMA PlacesMirror ==
  ASSUME NEW R, NEW par, NEW aft, NEW I, NEW sp, NEW aft2, TreeOf(R, par, aft, I, sp, aft2), NEW c \in I, aft[c] \in I
  PROVE  PlaceIn(InOrder(Siblings(I, sp, sp[c]), aft2), c) = PlaceIn(InOrder(Siblings(I, sp, sp[aft[c]]), aft2), aft[c]) + 1
<1>13. IsFiniteSet(R) /\ R \subseteq Nat /\ Nowhere \notin R /\ \A d \in R : aft2[d] = aft[d]
  BY DEF TreeOf
<1>14. Chains(R, par, aft) /\ I = Below({Root}, par, R) /\ Hangs(I, par, sp)
  BY DEF TreeOf
<1>1. I \subseteq R /\ \A d \in I : d \in {Root} \/ par[d] \in I
  <2>1. I \subseteq R
    BY <1>13, <1>14, BelowIs, Zenon
  <2> QED
    BY <1>13, <1>14, <2>1, BelowHangs, Zenon
<1>2. PICK S : S = Siblings(I, sp, sp[c])
  OBVIOUS
<1>3. \A d : d \in S <=> d \in I /\ sp[d] = sp[c]
  BY <1>2 DEF Siblings
<1>4. \A d \in I : sp[d] = IF par[d] \in I THEN par[d] ELSE Nowhere
  BY <1>14 DEF Hangs
<1>5. /\ \A d \in R : aft[d] = Nowhere \/ (aft[d] \in R /\ par[aft[d]] = par[d])
      /\ \A d, e \in R : par[d] = par[e] /\ par[d] # Nowhere /\ aft[d] = aft[e] => d = e
      /\ \A T : T \subseteq R /\ T # {} => \E d \in T : aft[d] \notin T
  BY <1>14 DEF Chains, Forest
<1>6. sp[aft[c]] = sp[c] /\ aft2[c] = aft[c]
  <2>1. c \in R /\ aft[c] \in R /\ aft[c] # Nowhere
    BY <1>1, <1>13
  <2>2. par[aft[c]] = par[c]
    BY <1>5, <2>1
  <2> QED
    BY <1>4, <1>13, <2>1, <2>2
<1>7. S \subseteq I /\ S \subseteq R /\ c \in S /\ aft2[c] \in S
  BY <1>1, <1>3, <1>6
<1>8. IsFiniteSet(S) /\ S \subseteq Nat
  BY <1>7, <1>13, FS_Subset
<1>9. ASSUME NEW d \in S, NEW e \in S, d \notin Begins(S, aft2), e \notin Begins(S, aft2), aft2[d] = aft2[e]
      PROVE  d = e
  <2>1. aft2[d] \in S /\ aft2[d] # d /\ aft2[e] \in S /\ aft2[e] # e
    BY <1>9 DEF Begins
  <2>2. aft[d] = aft2[d] /\ aft[e] = aft2[e] /\ d \in R /\ e \in R /\ sp[d] = sp[e]
    BY <1>3, <1>7, <1>13
  <2>3. CASE par[d] \in I /\ par[e] \in I
    <3>1. par[d] = par[e] /\ par[d] # Nowhere
      BY <1>1, <1>4, <1>7, <1>13, <2>2, <2>3
    <3> QED
      BY <1>5, <1>9, <2>2, <3>1
  <2>4. CASE par[d] \notin I \/ par[e] \notin I
    <3>1. sp[c] = Nowhere
      BY <1>3, <1>4, <1>7, <2>4
    <3>2. ASSUME NEW x \in S PROVE x = Root
      <4>1. x \in I /\ sp[x] = Nowhere
        BY <1>3, <3>1
      <4>2. par[x] \notin I
        BY <1>1, <1>4, <1>13, <4>1
      <4> QED
        BY <1>1, <4>1, <4>2
    <3> QED
      BY <3>2
  <2> QED
    BY <2>3, <2>4
<1>10. OneFollows(S, aft2)
  BY <1>9 DEF OneFollows
<1>11. Forest(S, aft2)
  <2> SUFFICES ASSUME NEW T \in (SUBSET S) \ {{}} PROVE \E d \in T : aft2[d] \notin T
    BY DEF Forest
  <2>1. PICK d \in T : aft[d] \notin T
    BY <1>5, <1>7
  <2> QED
    BY <1>7, <1>13, <2>1
<1>12. PlaceIn(InOrder(S, aft2), c) = PlaceIn(InOrder(S, aft2), aft2[c]) + 1
  BY <1>7, <1>8, <1>10, <1>11, PlacesFollow
<1> QED
  BY <1>2, <1>6, <1>12, Zenon

LEMMA PlaceTypes ==
  ASSUME NEW I, I \subseteq Cats, NEW sp, NEW aft, NEW c \in I
  PROVE  PlaceIn(InOrder(Siblings(I, sp, sp[c]), aft), c) \in 0 .. Cardinality(Cats)
<1>1. PICK S : S = Siblings(I, sp, sp[c])
  OBVIOUS
<1>2. S \subseteq Cats /\ c \in S
  BY <1>1 DEF Siblings
<1>3. IsFiniteSet(Cats) /\ Cats \subseteq Nat /\ Cardinality(Cats) \in Nat
  BY CatConstants
<1>4. IsFiniteSet(S) /\ Cardinality(S) <= Cardinality(Cats)
  BY <1>2, <1>3, FS_Subset
<1>5. Cardinality(S) \in Nat /\ S \subseteq Nat
  BY <1>2, <1>3, <1>4, FS_CardinalityType
<1>6. PlaceIn(InOrder(S, aft), c) \in 1 .. Cardinality(S)
  BY <1>2, <1>4, <1>5, PlaceFacts
<1>7. PlaceIn(InOrder(S, aft), c) \in 0 .. Cardinality(Cats)
  BY <1>3, <1>4, <1>5, <1>6
<1> QED
  BY <1>1, <1>7, Zenon

(* What a tree written to the local rows has of Shopware's.                    *)
TreeWritten(I, sp, aft) ==
  \A c \in I : /\ local'[c].here /\ local'[c].parent = sp[c]
               /\ local'[c].place = PlaceIn(InOrder(Siblings(I, sp, sp[c]), aft), c)

LEMMA WrittenMirrors ==
  ASSUME ShopTree, NEW sp, NEW aft, Hangs(Inside, RemoteParent, sp), \A c \in Remote : aft[c] = shopRow[c].after,
         TreeWritten(Inside, sp, aft), UNCHANGED shopRow
  PROVE  Mirrors'
<1>1. Inside' = Inside /\ shopRow' = shopRow
  BY Zenon DEF Inside, RemoteParent, Remote
<1> SUFFICES ASSUME NEW c \in Inside
             PROVE  /\ local'[c].here
                    /\ c # Root => local'[c].parent = shopRow[c].parent
                    /\ shopRow[c].after \in Inside => local'[c].place = local'[shopRow[c].after].place + 1
  BY <1>1, Zenon DEF Mirrors
<1>2. PICK I : I = Inside
  OBVIOUS
<1>3. PICK R, par, ra : R = Remote /\ par = RemoteParent /\ ra = RemoteAfter
  OBVIOUS
<1>4. /\ IsFiniteSet(R) /\ R \subseteq Nat /\ Nowhere \notin R /\ I \subseteq R
      /\ I = Below({Root}, par, R)
  BY <1>2, <1>3, RemoteIs, Zenon DEF Inside
<1>5. Chains(R, par, ra) /\ Hangs(I, par, sp)
  BY <1>2, <1>3, Zenon DEF ShopTree
<1>6. \A d \in R : aft[d] = ra[d] /\ par[d] = shopRow[d].parent /\ ra[d] = shopRow[d].after
  BY <1>3, RemoteIs
<1>7. c \in I /\ c \in R
  BY <1>2, <1>4
<1>8. \A d \in I : /\ local'[d].here /\ local'[d].parent = sp[d]
                   /\ local'[d].place = PlaceIn(InOrder(Siblings(I, sp, sp[d]), aft), d)
  BY <1>2, Zenon DEF TreeWritten
<1>9. c # Root => local'[c].parent = shopRow[c].parent
  <2>1. c \in {Root} \/ par[c] \in I
    BY <1>4, <1>7, BelowHangs, Zenon
  <2>2. sp[c] = IF par[c] \in I THEN par[c] ELSE Nowhere
    BY <1>5, <1>7, Zenon DEF Hangs
  <2>3. local'[c].parent = sp[c] /\ par[c] = shopRow[c].parent
    BY <1>6, <1>7, <1>8, Zenon
  <2> QED
    BY <2>1, <2>2, <2>3
<1>10. ra[c] \in I => local'[c].place = local'[ra[c]].place + 1
  <2> SUFFICES ASSUME ra[c] \in I PROVE local'[c].place = local'[ra[c]].place + 1
    OBVIOUS
  <2>1. TreeOf(R, par, ra, I, sp, aft)
    BY <1>4, <1>5, <1>6, Zenon DEF TreeOf
  <2>2. PlaceIn(InOrder(Siblings(I, sp, sp[c]), aft), c) = PlaceIn(InOrder(Siblings(I, sp, sp[ra[c]]), aft), ra[c]) + 1
    BY <1>7, <2>1, PlacesMirror
  <2> QED
    BY <1>7, <1>8, <2>2, Zenon
<1> QED
  BY <1>2, <1>6, <1>7, <1>8, <1>9, <1>10, Zenon

(* An import that ends a transfer's certainty.                               *)
LEMMA PushDisturbed ==
  ASSUME CatShape, push' = [push EXCEPT !.alone = FALSE]
  PROVE  push' \in CatPushes /\ PushAlone'
<1>1. push \in CatPushes
  BY Zenon DEF CatShape
<1>2. push' \in CatPushes /\ push'.alone = FALSE
  BY <1>1 DEF CatPushes
<1> QED
  BY <1>2, Zenon DEF PushAlone

LEMMA TreeWrittenSyncs ==
  ASSUME SyncIInv, ImportWritesTree, ~ (Root \notin import.known)
  PROVE  SyncIInv'
<1>1. PICK r \in CatImports : r = import
  BY CountsHold
<1>2. CatShape /\ CatCounts /\ CatFlag /\ ShopTree /\ ImportAlone /\ SameProducts
  BY Zenon DEF SyncIInv
<1>3. PICK I, sp, aft : I = Scope /\ sp = ScopedParent /\ aft = import.after
  OBVIOUS
<1> DEFINE place(c) == PlaceIn(InOrder(Siblings(I, sp, sp[c]), aft), c)
<1>4. /\ r.pc = "read" /\ UNCHANGED <<shopRow, toSend, agreed, catEvents, imports>>
      /\ local' = [c \in Cats |-> IF c \in I
                      THEN [here |-> TRUE, parent |-> sp[c], place |-> place(c), products |-> local[c].products]
                      ELSE local[c]]
      /\ import' = [r EXCEPT !.pc = "tree", !.known = I]
      /\ mirrored' = r.alone /\ push' = [push EXCEPT !.alone = FALSE]
  BY <1>1, <1>3, Zenon DEF ImportWritesTree, PlaceIn
<1>5. r.known \subseteq Cats /\ IsFiniteSet(r.known)
  <2>1. r.known \subseteq Cats
    BY DEF CatImports
  <2> QED
    BY <2>1, CatConstants, FS_Subset
<1>6. I \subseteq r.known /\ I \subseteq Cats
  <2>1. I \subseteq r.known
    BY <1>1, <1>3, <1>5, BelowIs, Zenon DEF Scope
  <2> QED
    BY <1>5, <2>1
<1>7. \A c \in Cats : sp[c] \in Cats \cup {Nowhere} /\ sp[c] = IF r.parent[c] \in I THEN r.parent[c] ELSE Nowhere
  BY <1>1, <1>3, <1>6 DEF ScopedParent
<1>8. \A c \in I : place(c) \in 0 .. Cardinality(Cats)
  BY <1>6, PlaceTypes, Zenon
<1> HIDE DEF place
<1>9. ASSUME NEW c \in Cats
      PROVE  local'[c] \in LocalRow /\ local'[c].products = local[c].products
  <2>1. local[c] \in LocalRow /\ local[c].products \in SUBSET Products
    BY <1>2, RowTypes, Zenon
  <2>2. CASE c \in I
    <3>1. PICK x : x = local[c].products
      OBVIOUS
    <3>2. local'[c] = [here |-> TRUE, parent |-> sp[c], place |-> place(c), products |-> x]
      BY <1>4, <2>2, <3>1
    <3>3. sp[c] \in Cats \cup {Nowhere} /\ place(c) \in 0 .. Cardinality(Cats) /\ x \in SUBSET Products
      BY <1>7, <1>8, <2>1, <2>2, <3>1
    <3>4. local'[c] \in LocalRow /\ local'[c].products = x
      BY <3>2, <3>3 DEF LocalRow
    <3> QED
      BY <3>1, <3>4
  <2>3. CASE c \notin I
    <3>1. local'[c] = local[c]
      BY <1>4, <2>3
    <3> QED
      BY <2>1, <3>1, Zenon
  <2> QED
    BY <2>2, <2>3
<1>10. \A c \in I : local'[c].here = TRUE /\ local'[c].parent = sp[c] /\ local'[c].place = place(c)
  BY <1>4, <1>6
<1>11. local' \in [Cats -> LocalRow]
  <2>1. \A c \in Cats : local'[c] \in LocalRow
    BY <1>9, Zenon
  <2>2. \E f : local' = [c \in Cats |-> f[c]]
    <3>1. PICK f : f = local'
      OBVIOUS
    <3>2. local' = [c \in Cats |-> f[c]]
      BY <1>4, <3>1
    <3> QED
      BY <3>2
  <2> QED
    BY <2>1, <2>2
<1>12. import' \in CatImports /\ import'.pc = "tree"
  BY <1>4, <1>6 DEF CatImports
<1>13. ImportAlone'
  <2>1. import'.pc # "reading" /\ import'.pc # "read" /\ import'.pc \notin {"reading", "read"}
        /\ import'.pc \notin {"links", "compare"} /\ import'.pc # "compare"
    BY <1>12
  <2> QED
    BY <2>1, Zenon DEF ImportAlone, ReadSoFar, LinksRead, LocalRead
<1>14. CatShape' /\ PushAlone'
  BY <1>2, <1>4, <1>11, <1>12, PushDisturbed, Zenon DEF CatShape
<1>15. CatCounts'
  BY <1>2, <1>4, Zenon DEF CatCounts
<1>16. mirrored' \in BOOLEAN
  <2>1. r.alone \in BOOLEAN
    BY DEF CatImports
  <2> QED
    BY <1>4, <2>1, Zenon
<1>17. SameProducts'
  <2>1. agreed \subseteq Cats
    BY <1>2, Zenon DEF CatCounts
  <2>2. \A c \in agreed' : c \in agreed /\ shopRow'[c].products = shopRow[c].products /\ local'[c].products = local[c].products
    BY <1>4, <1>9, <2>1
  <2> QED
    BY <1>2, <2>2, ProductsKept
<1>18. ShopTree'
  BY <1>2, <1>4, ShopUnchanged, SameShopKeeps, Zenon
<1>19. Mirrors'
  <2> SUFFICES ASSUME r.alone PROVE Mirrors'
    BY <1>4, Zenon DEF Mirrors
  <2>1. r.known = Remote /\ \A c \in r.known : r.parent[c] = shopRow[c].parent /\ r.after[c] = shopRow[c].after
    <3>1. ReadSoFar /\ import.pc = "read" /\ import.pc \in {"reading", "read"}
      BY <1>1, <1>2, <1>4, Zenon DEF ImportAlone
    <3> QED
      BY <1>1, <3>1, Zenon DEF ReadSoFar
  <2>2. \A c \in Remote : c \in Cats /\ r.parent[c] = RemoteParent[c] /\ aft[c] = shopRow[c].after
    <3>1. \A c \in Remote : c \in Cats
      BY RemoteIs, Zenon
    <3> QED
      BY <1>1, <1>3, <2>1, <3>1, RemoteIs, Zenon
  <2>3. I = Inside
    <3>1. PICK par, par2 : par = r.parent /\ par2 = RemoteParent
      OBVIOUS
    <3>2. IsFiniteSet(Remote) /\ \A c \in Remote : par[c] = par2[c]
      BY <2>2, <3>1, RemoteIs, Zenon
    <3>3. Below({Root}, par, Remote) = Below({Root}, par2, Remote)
      BY <3>2, BelowSame, Zenon
    <3> QED
      BY <1>1, <1>3, <2>1, <3>1, <3>3, Zenon DEF Scope, Inside
  <2>4. Hangs(Inside, RemoteParent, sp)
    <3>1. \A c \in Inside : c \in Remote /\ c \in Cats
      BY RemoteIs, Zenon
    <3>2. \A c \in Inside : sp[c] = IF RemoteParent[c] \in Inside THEN RemoteParent[c] ELSE Nowhere
      <4> TAKE c \in Inside
      <4>1. r.parent[c] = RemoteParent[c] /\ c \in Cats
        BY <2>2, <3>1, Zenon
      <4>2. sp[c] = IF r.parent[c] \in I THEN r.parent[c] ELSE Nowhere
        BY <1>7, <4>1, Zenon
      <4> QED
        BY <2>3, <4>1, <4>2, Zenon
    <3> QED
      BY <3>2, Zenon DEF Hangs
  <2>5. TreeWritten(Inside, sp, aft)
    <3>1. \A c \in I : local'[c].here /\ local'[c].parent = sp[c] /\ local'[c].place = PlaceIn(InOrder(Siblings(I, sp, sp[c]), aft), c)
      BY <1>10, Zenon DEF place
    <3> QED
      BY <2>3, <3>1, Zenon DEF TreeWritten
  <2>6. \A c \in Remote : aft[c] = shopRow[c].after
    BY <2>2, Zenon
  <2>7. UNCHANGED shopRow
    BY <1>4, Zenon
  <2> QED
    BY <1>2, <2>4, <2>5, <2>6, <2>7, WrittenMirrors, Zenon
<1> QED
  BY <1>13, <1>14, <1>15, <1>16, <1>17, <1>18, <1>19, Zenon DEF SyncIInv, CatFlag

LEMMA ImportWritesTreeSyncs == SyncIInv /\ ImportWritesTree => SyncIInv'
<1> SUFFICES ASSUME SyncIInv, ImportWritesTree PROVE SyncIInv'
  OBVIOUS
<1>1. CASE Root \notin import.known
  <2>1. import' = NotImporting /\ UNCHANGED <<shopRow, local, push, toSend, agreed, mirrored, catEvents, imports>>
    BY <1>1, Zenon DEF ImportWritesTree
  <2>2. catEvents' \in 0 .. MaxCatEvents
    BY <2>1, CountsHold, Zenon
  <2> QED
    BY <2>1, <2>2, ImportStops, Zenon
<1>2. CASE ~ (Root \notin import.known)
  BY <1>2, TreeWrittenSyncs
<1> QED
  BY <1>1, <1>2, Zenon

(* The products that it writes.                                             *)
LEMMA ImportWritesLinksSyncs == SyncIInv /\ ImportWritesLinks => SyncIInv'
<1> SUFFICES ASSUME SyncIInv, ImportWritesLinks PROVE SyncIInv'
  OBVIOUS
<1>1. PICK r \in CatImports : r = import
  BY CountsHold
<1>2. CatShape /\ CatCounts /\ CatFlag /\ ShopTree /\ ImportAlone /\ SameProducts /\ Mirrors
  BY Zenon DEF SyncIInv
<1> DEFINE written(c) == (local[c].products \cup (r.links[c] \ r.old[c])) \ (r.old[c] \ r.links[c])
<1>3. /\ r.pc = "compare"
      /\ local' = [c \in Cats |-> IF c \in r.known THEN [local[c] EXCEPT !.products = written(c)] ELSE local[c]]
      /\ agreed' = IF r.alone THEN (agreed \ r.known) \cup r.whole ELSE agreed \ r.known
      /\ import' = NotImporting /\ push' = [push EXCEPT !.alone = FALSE]
      /\ UNCHANGED <<shopRow, toSend, mirrored, catEvents, imports>>
  BY <1>1 DEF ImportWritesLinks
<1>4. ASSUME NEW c \in Cats
      PROVE  r.links[c] \in SUBSET Products /\ r.old[c] \in SUBSET Products /\ written(c) \in SUBSET Products
             /\ (r.old[c] = local[c].products => written(c) = r.links[c])
  <2>1. r.links[c] \in SUBSET Products /\ r.old[c] \in SUBSET Products
    BY DEF CatImports
  <2>2. local[c].products \in SUBSET Products
    BY <1>2, RowTypes, Zenon
  <2> QED
    BY <2>1, <2>2
<1> HIDE DEF written
<1>5. ASSUME NEW c \in Cats
      PROVE  /\ local'[c] \in LocalRow
             /\ local'[c].here = local[c].here /\ local'[c].parent = local[c].parent /\ local'[c].place = local[c].place
             /\ c \in r.known => local'[c].products = written(c)
             /\ c \notin r.known => local'[c].products = local[c].products
  <2>1. PICK x \in LocalRow : x = local[c]
    BY <1>2, RowTypes
  <2>2. CASE c \in r.known
    <3>1. PICK y : y = written(c) /\ y \in SUBSET Products
      BY <1>4
    <3>2. local'[c] = [x EXCEPT !.products = y]
      BY <1>3, <2>1, <2>2, <3>1
    <3>3. /\ local'[c] \in LocalRow /\ local'[c].products = y
          /\ local'[c].here = x.here /\ local'[c].parent = x.parent /\ local'[c].place = x.place
      BY <3>1, <3>2 DEF LocalRow
    <3> QED
      BY <2>1, <2>2, <3>1, <3>3, Zenon
  <2>3. CASE c \notin r.known
    <3>1. local'[c] = local[c]
      BY <1>3, <2>3
    <3> QED
      BY <2>1, <2>3, <3>1, Zenon
  <2> QED
    BY <2>2, <2>3
<1>6. local' \in [Cats -> LocalRow]
  <2>1. \A c \in Cats : local'[c] \in LocalRow
    BY <1>5, Zenon
  <2>2. \E f : local' = [c \in Cats |-> f[c]]
    <3>1. PICK f : f = local'
      OBVIOUS
    <3>2. local' = [c \in Cats |-> f[c]]
      BY <1>3, <3>1
    <3> QED
      BY <3>2
  <2> QED
    BY <2>1, <2>2
<1>7. CatShape' /\ PushAlone'
  BY <1>2, <1>3, <1>6, PushDisturbed, NotImportingIs, Zenon DEF CatShape
<1>8. ImportAlone'
  BY <1>3, NotImportingIs, Zenon DEF ImportAlone
<1>9. SameShop /\ SameLocal
  <2>1. SameShop
    BY <1>3, Zenon DEF SameShop
  <2>2. SameLocal
    BY <1>5, Zenon DEF SameLocal
  <2> QED
    BY <2>1, <2>2
<1>10. mirrored' = mirrored /\ (mirrored' => mirrored)
  BY <1>3
<1>11. ShopTree' /\ Mirrors'
  BY <1>2, <1>9, <1>10, SameShopKeeps, MirrorsKept, Zenon
<1>12. r.known \subseteq Cats /\ r.whole \subseteq Cats /\ agreed \subseteq Cats
  BY <1>2 DEF CatImports, CatCounts
<1>13. agreed' \subseteq Cats /\ \A c \in agreed' : (c \in agreed /\ c \notin r.known) \/ (r.alone /\ c \in r.whole)
  <2>1. CASE r.alone
    <3>1. agreed' = (agreed \ r.known) \cup r.whole
      BY <1>3, <2>1, Zenon
    <3> QED
      BY <1>12, <2>1, <3>1, Zenon
  <2>2. CASE ~ r.alone
    <3>1. agreed' = agreed \ r.known
      BY <1>3, <2>2, Zenon
    <3> QED
      BY <1>12, <3>1, Zenon
  <2> QED
    BY <2>1, <2>2, Zenon
<1>14. CatCounts'
  BY <1>2, <1>3, <1>13, Zenon DEF CatCounts
<1>15. SameProducts'
  <2> SUFFICES ASSUME NEW c \in agreed' PROVE Resolved(shopRow[c].products) = local'[c].products
    BY <1>3, Zenon DEF SameProducts
  <2>1. c \in Cats
    BY <1>13, Zenon
  <2>2. CASE c \in agreed /\ c \notin r.known
    <3>1. local'[c].products = local[c].products
      BY <1>5, <2>1, <2>2, Zenon
    <3> QED
      BY <1>2, <2>2, <3>1, Zenon DEF SameProducts
  <2>3. CASE r.alone /\ c \in r.whole
    <3>1. LinksRead /\ LocalRead /\ import.pc \in {"links", "compare"} /\ import.pc = "compare"
      BY <1>1, <1>2, <1>3, <2>3, Zenon DEF ImportAlone
    <3>2. c \in r.known /\ r.links[c] = Resolved(shopRow[c].products) /\ r.old[c] = local[c].products
      <4>1. c \in r.known /\ r.links[c] = Resolved(shopRow[c].products)
        BY <1>1, <2>3, <3>1, Zenon DEF LinksRead
      <4> QED
        BY <1>1, <3>1, <4>1, Zenon DEF LocalRead
    <3>3. written(c) = r.links[c]
      BY <1>4, <2>1, <3>2, Zenon
    <3> QED
      BY <1>5, <2>1, <3>2, <3>3, Zenon
  <2> QED
    BY <1>13, <2>2, <2>3, Zenon
<1>16. CatFlag'
  BY <1>2, <1>10, Zenon DEF CatFlag
<1> QED
  BY <1>7, <1>8, <1>11, <1>14, <1>15, <1>16, Zenon DEF SyncIInv

-----------------------------------------------------------------------------
(* The task that writes to Shopware: steps that change nothing but what it      *)
(* knows.                                                                   *)
LEMMA OnlyPushMoves ==
  ASSUME SyncIInv, UNCHANGED <<shopRow, local, import, agreed, mirrored, imports>>, toSend' \subseteq Cats,
         catEvents' \in 0 .. MaxCatEvents, push' \in CatPushes, PushAlone'
  PROVE  SyncIInv'
<1>1. CatShape /\ CatCounts /\ CatFlag /\ ShopTree /\ ImportAlone /\ SameProducts /\ Mirrors
  BY Zenon DEF SyncIInv
<1>2. /\ shopRow' = shopRow /\ local' = local /\ import' = import /\ agreed' = agreed
      /\ mirrored' = mirrored /\ imports' = imports
  BY Zenon
<1>3. CatShape' /\ CatFlag'
  BY <1>1, <1>2, Zenon DEF CatShape, CatFlag
<1>4. CatCounts'
  BY <1>1, <1>2, Zenon DEF CatCounts
<1>5. mirrored' => mirrored
  BY <1>2
<1>6. SameShop /\ SameLocal
  BY <1>2, Zenon DEF SameShop, SameLocal
<1>7. ShopTree' /\ Mirrors'
  BY <1>1, <1>5, <1>6, SameShopKeeps, MirrorsKept, Zenon
<1>8. ImportAlone'
  BY <1>1, <1>2, ImportAloneKept, Zenon
<1>9. SameProducts'
  BY <1>1, <1>2, Zenon DEF SameProducts
<1> QED
  BY <1>3, <1>4, <1>7, <1>8, <1>9, Zenon DEF SyncIInv

LEMMA NotPushingIs == NotPushing \in CatPushes /\ NotPushing.pc = "off" /\ NotPushing.alone = FALSE /\ NotPushing.cat = Root
<1>1. Root \in Cats
  BY CatConstants
<1> QED
  BY <1>1 DEF NotPushing, CatPushes

LEMMA PushOff == push' = NotPushing => push' \in CatPushes /\ PushAlone'
  BY NotPushingIs, Zenon DEF PushAlone

LEMMA PushBreaksSyncs == SyncIInv /\ PushBreaks => SyncIInv'
<1> SUFFICES ASSUME SyncIInv, PushBreaks PROVE SyncIInv'
  OBVIOUS
<1>1. push' = NotPushing /\ CatEvent /\ UNCHANGED <<shopRow, local, import, toSend, agreed, mirrored, imports>>
  BY Zenon DEF PushBreaks
<1>2. catEvents' \in 0 .. MaxCatEvents /\ toSend' \subseteq Cats
  <2>1. CatCounts
    BY Zenon DEF SyncIInv
  <2> QED
    BY <1>1, <2>1, EventCounts, Zenon DEF CatCounts
<1> QED
  BY <1>1, <1>2, PushOff, OnlyPushMoves, Zenon

LEMMA PushStartsSyncs ==
  ASSUME SyncIInv, NEW c \in Cats, PushStarts(c)
  PROVE  SyncIInv'
<1>1. /\ push.pc = "off" /\ toSend' = toSend \ {c} /\ UNCHANGED <<shopRow, local, import, agreed, mirrored, catEvents, imports>>
      /\ push' = [NotPushing EXCEPT !.pc = "content", !.cat = c, !.alone = TRUE] \/ push' = push
  BY Zenon DEF PushStarts
<1>2. CatCounts /\ PushAlone
  BY Zenon DEF SyncIInv
<1>3. toSend' \subseteq Cats /\ catEvents' \in 0 .. MaxCatEvents
  BY <1>1, <1>2, Zenon DEF CatCounts
<1>4. CASE push' = [NotPushing EXCEPT !.pc = "content", !.cat = c, !.alone = TRUE]
  <2>1. PICK r \in CatPushes : r = NotPushing
    BY NotPushingIs
  <2>2. push' \in CatPushes /\ push'.pc = "content"
    BY <1>4, <2>1 DEF CatPushes
  <2>3. push'.pc # "add" /\ push'.pc # "remove"
    BY <2>2
  <2>4. PushAlone'
    BY <2>3, Zenon DEF PushAlone
  <2> QED
    BY <1>1, <1>3, <2>2, <2>4, OnlyPushMoves, Zenon
<1>5. CASE push' = push
  <2>1. push' \in CatPushes
    BY <1>5, CountsHold, Zenon
  <2>2. PushAlone'
    BY <1>1, <1>2, <1>5, PushAloneKept, Zenon
  <2> QED
    BY <1>1, <1>3, <2>1, <2>2, OnlyPushMoves, Zenon
<1> QED
  BY <1>1, <1>4, <1>5

LEMMA PushComparesSyncs == SyncIInv /\ PushCompares => SyncIInv'
<1> SUFFICES ASSUME SyncIInv, PushCompares PROVE SyncIInv'
  OBVIOUS
<1>1. PICK r \in CatPushes : r = push
  BY CountsHold
<1>2. CatShape /\ CatCounts
  BY Zenon DEF SyncIInv
<1>3. PICK c \in Cats : c = r.cat
  BY DEF CatPushes
<1>4. PICK A, D : A = local[c].products \ shopRow[c].products /\ D = shopRow[c].products \ local[c].products
  OBVIOUS
<1>5. /\ push' = [r EXCEPT !.pc = "add", !.add = A, !.remove = D]
      /\ UNCHANGED <<shopRow, local, import, toSend, agreed, mirrored, catEvents, imports>>
  BY <1>1, <1>3, <1>4, Zenon DEF PushCompares
<1>6. A \in SUBSET Products /\ D \in SUBSET ShopIds
  <2>1. local[c].products \in SUBSET Products /\ shopRow[c].products \in SUBSET ShopIds
    BY <1>2, RowTypes, Zenon
  <2> QED
    BY <1>4, <2>1
<1>7. push' \in CatPushes /\ push'.pc = "add" /\ push'.add = A /\ push'.remove = D /\ push'.cat = c
  BY <1>3, <1>5, <1>6 DEF CatPushes
<1>8. PushAlone'
  <2>1. push'.pc # "remove"
    BY <1>7
  <2>2. push'.add = local'[push'.cat].products \ shopRow'[push'.cat].products
        /\ push'.remove = shopRow'[push'.cat].products \ local'[push'.cat].products
    BY <1>4, <1>5, <1>7, Zenon
  <2> QED
    BY <2>1, <2>2, Zenon DEF PushAlone
<1>9. toSend' \subseteq Cats /\ catEvents' \in 0 .. MaxCatEvents
  BY <1>2, <1>5, Zenon DEF CatCounts
<1> QED
  BY <1>5, <1>7, <1>8, <1>9, OnlyPushMoves, Zenon

-----------------------------------------------------------------------------
(* A category is made anew at the top of Shopware's tree: what is below the     *)
(* root stays.                                                              *)
LEMMA InsideStays ==
  ASSUME ShopTree, NEW c \in Cats \ Remote, Remote' = Remote \cup {c},
         \A d \in Cats : shopRow'[d].parent = shopRow[d].parent
  PROVE  Inside' = Inside
<1>1. PICK R, par, par2, I, J : /\ R = Remote /\ par = RemoteParent /\ par2 = RemoteParent'
                                /\ I = Inside /\ J = Inside'
  OBVIOUS
<1>2. Remote \subseteq Cats /\ Root \in Remote /\ IsFiniteSet(Cats) /\ Nowhere \notin Cats
  BY RemoteIs, CatConstants, Zenon DEF ShopTree
<1>3. R \cup {c} \subseteq Cats /\ Root \in R /\ Nowhere \notin R \cup {c} /\ c \notin R /\ IsFiniteSet(R \cup {c}) /\ IsFiniteSet(R)
  <2>1. R \cup {c} \subseteq Cats /\ Root \in R /\ Nowhere \notin R \cup {c} /\ c \notin R
    BY <1>1, <1>2
  <2> QED
    BY <1>2, <2>1, FS_Subset
<1>4. I = Below({Root}, par, R) /\ J = Below({Root}, par2, R \cup {c})
  BY <1>1, Zenon DEF Inside
<1>5. \A d \in Cats : par2[d] = par[d]
  <2>1. \A d \in Cats : RemoteParent'[d] = shopRow'[d].parent /\ RemoteParent[d] = shopRow[d].parent
    BY DEF RemoteParent
  <2> QED
    BY <1>1, <2>1
<1>6. par2[c] = Nowhere
  <2>1. shopRow[c].parent = Nowhere
    BY Zenon DEF ShopTree
  <2>2. RemoteParent'[c] = shopRow'[c].parent
    BY DEF RemoteParent
  <2> QED
    BY <1>1, <2>1, <2>2
<1>7. I \subseteq J
  <2>1. \A d \in R : par[d] = par2[d]
    BY <1>3, <1>5
  <2>2. R \subseteq R \cup {c}
    OBVIOUS
  <2> QED
    BY <1>3, <1>4, <2>1, <2>2, BelowWithin, Zenon
<1>8. /\ I \subseteq R /\ {Root} \cap R \subseteq I /\ \A d \in R : par[d] \in I => d \in I
  BY <1>3, <1>4, BelowIs, Zenon
<1>9. J \subseteq R \cup {c} /\ \A T : T \subseteq J /\ T # {} => \E d \in T : d \in {Root} \/ par2[d] \notin T
  BY <1>3, <1>4, BelowIs, Zenon
<1>10. \A d \in J : d \in {Root} \/ par2[d] \in J
  BY <1>3, <1>4, BelowHangs, Zenon
<1>11. ASSUME J \ I # {} PROVE FALSE
  <2>1. PICK d \in J \ I : d \in {Root} \/ par2[d] \notin J \ I
    <3>1. J \ I \subseteq J
      OBVIOUS
    <3> QED
      BY <1>9, <1>11, <3>1
  <2>2. d # Root
    BY <1>3, <1>8, <2>1
  <2>3. par2[d] \in I
    BY <1>10, <2>1, <2>2
  <2>4. d # c
    BY <1>3, <1>6, <1>8, <2>3
  <2>5. d \in R /\ par[d] \in I
    BY <1>3, <1>5, <1>9, <2>1, <2>3, <2>4
  <2> QED
    BY <1>8, <2>1, <2>5
<1> QED
  BY <1>1, <1>7, <1>11

LEMMA PushWritesContentSyncs == SyncIInv /\ PushWritesContent => SyncIInv'
<1> SUFFICES ASSUME SyncIInv, PushWritesContent PROVE SyncIInv'
  OBVIOUS
<1>1. PICK r \in CatPushes : r = push
  BY CountsHold
<1>2. CatShape /\ CatCounts /\ CatFlag /\ ShopTree /\ ImportAlone /\ SameProducts /\ Mirrors
  BY Zenon DEF SyncIInv
<1>3. PICK c \in Cats : c = r.cat
  BY DEF CatPushes
<1>4. /\ push' = [r EXCEPT !.pc = "read"]
      /\ UNCHANGED <<local, toSend, agreed, mirrored, catEvents, imports>>
      /\ IF c \in Remote THEN UNCHANGED <<shopRow, import>>
         ELSE shopRow' = [shopRow EXCEPT ![c].here = TRUE] /\ import' = [import EXCEPT !.alone = FALSE]
  BY <1>1, <1>3, Zenon DEF PushWritesContent
<1>5. push' \in CatPushes /\ PushAlone'
  <2>1. push' \in CatPushes /\ push'.pc = "read"
    BY <1>4 DEF CatPushes
  <2>2. push'.pc # "add" /\ push'.pc # "remove"
    BY <2>1
  <2> QED
    BY <2>1, <2>2, Zenon DEF PushAlone
<1>6. toSend' \subseteq Cats /\ catEvents' \in 0 .. MaxCatEvents
  BY <1>2, <1>4, Zenon DEF CatCounts
<1>7. CASE c \in Remote
  BY <1>4, <1>5, <1>6, <1>7, OnlyPushMoves, Zenon
<1>8. CASE c \notin Remote
  <2>1. shopRow' = [shopRow EXCEPT ![c].here = TRUE] /\ import' = [import EXCEPT !.alone = FALSE]
    BY <1>4, <1>8, Zenon
  <2>2. /\ shopRow' \in [Cats -> RemoteRow]
        /\ \A d \in Cats \ {c} : shopRow'[d] = shopRow[d]
        /\ shopRow'[c].here = TRUE /\ shopRow'[c].parent = shopRow[c].parent /\ shopRow'[c].after = shopRow[c].after
        /\ shopRow'[c].products = shopRow[c].products
    <3>1. PICK x \in RemoteRow : x = shopRow[c]
      BY <1>2, RowTypes
    <3>2. shopRow \in [Cats -> RemoteRow] /\ shopRow' = [shopRow EXCEPT ![c] = [x EXCEPT !.here = TRUE]]
      BY <1>2, <2>1, <3>1 DEF CatShape
    <3>3. PICK y \in RemoteRow : y = [x EXCEPT !.here = TRUE]
      BY DEF RemoteRow
    <3>4. y.here = TRUE /\ y.parent = x.parent /\ y.after = x.after /\ y.products = x.products
      BY <3>3 DEF RemoteRow
    <3>5. shopRow' = [shopRow EXCEPT ![c] = y]
      BY <3>2, <3>3, Zenon
    <3>6. shopRow' \in [Cats -> RemoteRow] /\ shopRow'[c] = y /\ \A d \in Cats \ {c} : shopRow'[d] = shopRow[d]
      BY <3>2, <3>5
    <3> QED
      BY <3>1, <3>4, <3>6, Zenon
  <2>3. \A d \in Cats : /\ shopRow'[d].parent = shopRow[d].parent /\ shopRow'[d].after = shopRow[d].after
                        /\ shopRow'[d].products = shopRow[d].products
    <3> TAKE d \in Cats
    <3>1. CASE d = c
      BY <2>2, <3>1, Zenon
    <3>2. CASE d # c
      <4>1. shopRow'[d] = shopRow[d]
        BY <2>2, <3>2
      <4> QED
        BY <4>1, Zenon
    <3> QED
      BY <3>1, <3>2
  <2>4. Remote' = Remote \cup {c}
    <3>1. \A d \in Cats \ {c} : shopRow'[d].here <=> shopRow[d].here
      BY <2>2, Zenon
    <3>2. Remote' \subseteq Remote \cup {c}
      BY <3>1, Zenon DEF Remote
    <3>3. Remote \subseteq Remote'
      <4>1. \A d \in Remote : d \in Cats \ {c} /\ shopRow[d].here
        BY <1>8 DEF Remote
      <4> QED
        BY <3>1, <4>1, Zenon DEF Remote
    <3>4. c \in Remote'
      BY <2>2, Zenon DEF Remote
    <3> QED
      BY <3>2, <3>3, <3>4
  <2>5. Inside' = Inside
    BY <1>2, <1>8, <2>3, <2>4, InsideStays
  <2>6. ShopTree'
    <3>1. PICK R, par, aft, par2, aft2 : /\ R = Remote /\ par = RemoteParent /\ aft = RemoteAfter
                                         /\ par2 = RemoteParent' /\ aft2 = RemoteAfter'
      OBVIOUS
    <3>2. /\ \A d \in Cats : RemoteParent'[d] = shopRow'[d].parent /\ RemoteAfter'[d] = shopRow'[d].after
          /\ \A d \in Cats : RemoteParent[d] = shopRow[d].parent /\ RemoteAfter[d] = shopRow[d].after
      BY DEF RemoteParent, RemoteAfter
    <3>3. \A d \in Cats : par2[d] = par[d] /\ aft2[d] = aft[d]
      BY <2>3, <3>1, <3>2, Zenon
    <3>4. c \in Cats \ Remote /\ shopRow[c].parent = Nowhere /\ shopRow[c].after = Nowhere
      BY <1>2, <1>8, Zenon DEF ShopTree
    <3>5. par2[c] = Nowhere /\ aft2[c] = Nowhere
      BY <2>3, <3>1, <3>2, <3>4, Zenon
    <3>6. c \notin R /\ Nowhere \notin R /\ c # Nowhere /\ \A d \in R : par2[d] = par[d] /\ aft2[d] = aft[d]
      BY <1>8, <3>1, <3>3, RemoteIs, CatConstants
    <3>7. Chains(R, par, aft)
      BY <1>2, <3>1, Zenon DEF ShopTree
    <3>8. Chains(R \cup {c}, par2, aft2)
      BY <3>5, <3>6, <3>7, MadeNew
    <3>9. \A d \in Cats \ Remote' : shopRow'[d].parent = Nowhere /\ shopRow'[d].after = Nowhere
      <4>1. \A d \in Cats \ Remote' : d \in Cats \ Remote
        BY <2>4
      <4> QED
        BY <1>2, <2>3, <4>1, Zenon DEF ShopTree
    <3>10. Root \in Remote'
      BY <1>2, <2>4 DEF ShopTree
    <3> QED
      BY <2>4, <3>1, <3>8, <3>9, <3>10, Zenon DEF ShopTree
  <2>7. Mirrors'
    <3>1. Inside \subseteq Cats
      BY RemoteIs
    <3>2. mirrored' => mirrored
      BY <1>4
    <3>3. local' = local
      BY <1>4, Zenon
    <3> SUFFICES ASSUME mirrored', NEW d \in Inside
                 PROVE  /\ local[d].here
                        /\ d # Root => local[d].parent = shopRow'[d].parent
                        /\ shopRow'[d].after \in Inside => local[d].place = local[shopRow'[d].after].place + 1
      BY <2>5, <3>3, Zenon DEF Mirrors
    <3>4. /\ local[d].here
          /\ d # Root => local[d].parent = shopRow[d].parent
          /\ shopRow[d].after \in Inside => local[d].place = local[shopRow[d].after].place + 1
      BY <1>2, <3>2, Zenon DEF Mirrors
    <3>5. d \in Cats
      BY <3>1, Zenon
    <3>6. shopRow'[d].parent = shopRow[d].parent /\ shopRow'[d].after = shopRow[d].after
      BY <2>3, <3>5, Zenon
    <3> QED
      BY <3>4, <3>6, Zenon
  <2>8. SameProducts'
    <3>1. agreed \subseteq Cats
      BY <1>2, Zenon DEF CatCounts
    <3>2. \A d \in agreed' : d \in agreed /\ shopRow'[d].products = shopRow[d].products /\ local'[d].products = local[d].products
      BY <1>4, <2>3, <3>1, Zenon
    <3> QED
      BY <1>2, <3>2, ProductsKept
  <2>9. import' \in CatImports /\ import'.alone = FALSE
    <3>1. import \in CatImports
      BY CountsHold, Zenon
    <3> QED
      BY <2>1, <3>1 DEF CatImports
  <2>10. ImportAlone'
    BY <2>9, Zenon DEF ImportAlone
  <2>11. CatShape'
    BY <1>2, <1>4, <1>5, <2>2, <2>9, Zenon DEF CatShape
  <2>12. CatCounts' /\ CatFlag'
    BY <1>2, <1>4, Zenon DEF CatCounts, CatFlag
  <2> QED
    BY <1>5, <2>6, <2>7, <2>8, <2>10, <2>11, <2>12, Zenon DEF SyncIInv
<1> QED
  BY <1>7, <1>8

(* What the task writes to the products of its category, and what an import     *)
(* still knows when that changed nothing.                                    *)
LEMMA MaybeWritten ==
  ASSUME CatShape, NEW c \in Cats, NEW ids \in SUBSET ShopIds,
         shopRow' = IF c \in Remote THEN [shopRow EXCEPT ![c].products = ids] ELSE shopRow
  PROVE  /\ shopRow' \in [Cats -> RemoteRow] /\ SameShop
         /\ \A d \in Cats \ {c} : shopRow'[d].products = shopRow[d].products
         /\ c \in Remote => shopRow'[c].products = ids
         /\ c \in Remote /\ ids = shopRow[c].products => shopRow' = shopRow
         /\ c \notin Remote => shopRow' = shopRow
<1>1. CASE c \in Remote
  <2>1. shopRow' = [shopRow EXCEPT ![c].products = ids]
    BY <1>1
  <2>2. shopRow' \in [Cats -> RemoteRow] /\ SameShop /\ shopRow'[c].products = ids
        /\ \A d \in Cats \ {c} : shopRow'[d] = shopRow[d]
    BY <2>1, ProductsWritten
  <2>3. ids = shopRow[c].products => shopRow' = shopRow
    <3>1. PICK x \in RemoteRow : x = shopRow[c]
      BY RowTypes
    <3>2. shopRow \in [Cats -> RemoteRow] /\ shopRow' = [shopRow EXCEPT ![c] = [x EXCEPT !.products = ids]]
      BY <2>1, <3>1 DEF CatShape
    <3>3. ids = x.products => [x EXCEPT !.products = ids] = x
      BY DEF RemoteRow
    <3>4. ids = x.products => shopRow' = [shopRow EXCEPT ![c] = shopRow[c]]
      BY <3>1, <3>2, <3>3, Zenon
    <3>5. [shopRow EXCEPT ![c] = shopRow[c]] = shopRow
      BY <3>2
    <3> QED
      BY <3>1, <3>4, <3>5, Zenon
  <2> QED
    BY <1>1, <2>2, <2>3, Zenon
<1>2. CASE c \notin Remote
  <2>1. shopRow' = shopRow
    BY <1>2
  <2>2. shopRow \in [Cats -> RemoteRow]
    BY Zenon DEF CatShape
  <2> QED
    BY <1>2, <2>1, <2>2, ShopUnchanged, Zenon
<1> QED
  BY <1>1, <1>2

LEMMA ImportFlagged ==
  ASSUME CatShape, ImportAlone, NEW b \in BOOLEAN, import' = [import EXCEPT !.alone = b], local' = local,
         b => import.alone /\ shopRow' = shopRow
  PROVE  import' \in CatImports /\ ImportAlone'
<1>1. PICK r \in CatImports : r = import
  BY Zenon DEF CatShape
<1>2. import' = [r EXCEPT !.alone = b]
  BY <1>1, Zenon
<1>3. /\ import' \in CatImports /\ import'.alone = b /\ import'.pc = r.pc /\ import'.page = r.page /\ import'.rows = r.rows
      /\ import'.known = r.known /\ import'.parent = r.parent /\ import'.after = r.after /\ import'.links = r.links
      /\ import'.whole = r.whole /\ import'.old = r.old
  BY <1>2 DEF CatImports
<1>6. /\ import'.pc = import.pc /\ import'.page = import.page /\ import'.rows = import.rows
      /\ import'.known = import.known /\ import'.parent = import.parent /\ import'.after = import.after
      /\ import'.links = import.links /\ import'.whole = import.whole /\ import'.old = import.old
  BY <1>1, <1>3, Zenon
<1>4. CASE ~ b
  BY <1>3, <1>4, Zenon DEF ImportAlone
<1>5. CASE b
  <2>1. ReadSoFar /\ LinksRead /\ LocalRead /\ shopRow' = shopRow
    BY <1>5, Zenon DEF ImportAlone
  <2>2. Remote' = Remote
    BY <2>1, Zenon DEF Remote
  <2>3. ReadSoFar'
    BY <1>6, <2>1, <2>2, Zenon DEF ReadSoFar
  <2>4. LinksRead'
    BY <1>6, <2>1, Zenon DEF LinksRead
  <2>5. LocalRead'
    BY <1>6, local' = local, <2>1, Zenon DEF LocalRead
  <2> QED
    BY <1>3, <2>3, <2>4, <2>5, Zenon DEF ImportAlone
<1> QED
  BY <1>4, <1>5

LEMMA PushAddsSyncs == SyncIInv /\ PushAdds => SyncIInv'
<1> SUFFICES ASSUME SyncIInv, PushAdds PROVE SyncIInv'
  OBVIOUS
<1>1. PICK r \in CatPushes : r = push
  BY CountsHold
<1>2. CatShape /\ CatCounts /\ CatFlag /\ ShopTree /\ ImportAlone /\ PushAlone /\ SameProducts /\ Mirrors
  BY Zenon DEF SyncIInv
<1>3. PICK c \in Cats : c = r.cat
  BY DEF CatPushes
<1>4. r.pc = "add" /\ UNCHANGED <<local, toSend, mirrored, catEvents, imports>>
  BY <1>1, Zenon DEF PushAdds
<1>5. toSend' \subseteq Cats /\ catEvents' \in 0 .. MaxCatEvents
  BY <1>2, <1>4, Zenon DEF CatCounts
<1>6. CASE r.add # {} /\ c \notin Remote
  <2>1. push' = NotPushing /\ UNCHANGED <<shopRow, import, agreed>>
    BY <1>1, <1>3, <1>6, Zenon DEF PushAdds
  <2> QED
    BY <1>4, <1>5, <2>1, PushOff, OnlyPushMoves, Zenon
<1>7. CASE ~ (r.add # {} /\ c \notin Remote)
  <2>1. PICK ids : ids = shopRow[c].products \cup r.add
    OBVIOUS
  <2>2. PICK b : b = (import.alone /\ r.add = {})
    OBVIOUS
  <2>3. /\ shopRow' = IF c \in Remote THEN [shopRow EXCEPT ![c].products = ids] ELSE shopRow
        /\ push' = [r EXCEPT !.pc = "remove"]
        /\ agreed' = IF r.add = {} THEN agreed ELSE agreed \ {c}
    <3>1. /\ shopRow' = IF c \in Remote THEN [shopRow EXCEPT ![c].products = @ \cup r.add] ELSE shopRow
          /\ push' = [r EXCEPT !.pc = "remove"]
          /\ agreed' = IF r.add = {} THEN agreed ELSE agreed \ {c}
      BY <1>1, <1>3, <1>7, Zenon DEF PushAdds
    <3> QED
      BY <2>1, <3>1
  <2>4. import' = [import EXCEPT !.alone = b]
    <3>1. import' = [import EXCEPT !.alone = @ /\ r.add = {}]
      BY <1>1, <1>3, <1>7, Zenon DEF PushAdds
    <3>2. import' = [import EXCEPT !.alone = import.alone /\ r.add = {}]
      BY <3>1
    <3> QED
      BY <2>2, <3>2, Zenon
  <2>5. r.add \in SUBSET Products /\ r.remove \in SUBSET ShopIds /\ shopRow[c].products \in SUBSET ShopIds
        /\ local[c].products \in SUBSET Products /\ ids \in SUBSET ShopIds
    <3>1. r.add \in SUBSET Products /\ r.remove \in SUBSET ShopIds
      BY DEF CatPushes
    <3>2. shopRow[c].products \in SUBSET ShopIds /\ local[c].products \in SUBSET Products
      BY <1>2, RowTypes, Zenon
    <3> QED
      BY <2>1, <3>1, <3>2 DEF ShopIds
  <2>6. /\ shopRow' \in [Cats -> RemoteRow] /\ SameShop
        /\ \A d \in Cats \ {c} : shopRow'[d].products = shopRow[d].products
        /\ c \in Remote => shopRow'[c].products = ids
        /\ c \in Remote /\ ids = shopRow[c].products => shopRow' = shopRow
        /\ c \notin Remote => shopRow' = shopRow
    BY <1>2, <2>3, <2>5, MaybeWritten
  <2>7. r.add = {} => shopRow' = shopRow
    <3>1. r.add = {} => ids = shopRow[c].products
      BY <2>1
    <3> QED
      BY <2>6, <3>1, Zenon
  <2>8. b \in BOOLEAN /\ (b => import.alone /\ shopRow' = shopRow) /\ local' = local
    BY <1>4, <2>2, <2>7, Zenon
  <2>9. import' \in CatImports /\ ImportAlone'
    BY <1>2, <2>4, <2>8, ImportFlagged, Zenon
  <2>10. push' \in CatPushes /\ push'.pc = "remove" /\ push'.alone = r.alone /\ push'.cat = c /\ push'.remove = r.remove
    BY <1>3, <2>3 DEF CatPushes
  <2>11. PushAlone'
    <3>1. push'.pc # "add"
      BY <2>10
    <3> SUFFICES ASSUME r.alone, c \in Remote' PROVE shopRow'[c].products \ r.remove = local[c].products
      BY <1>4, <2>10, <3>1, Zenon DEF PushAlone
    <3>2. r.add = local[c].products \ shopRow[c].products /\ r.remove = shopRow[c].products \ local[c].products
      BY <1>1, <1>2, <1>3, <1>4, Zenon DEF PushAlone
    <3>3. shopRow'[c].products = ids
      BY <2>6, SameShopKeeps, Zenon
    <3>4. \A x : x \in ids \ r.remove <=> x \in local[c].products
      BY <2>1, <3>2, Zenon
    <3>5. ids \ r.remove = local[c].products
      BY <3>4, Zenon
    <3> QED
      BY <3>3, <3>5, Zenon
  <2>12. agreed \subseteq Cats /\ agreed' \subseteq agreed /\ (r.add # {} => c \notin agreed')
    <3>1. agreed \subseteq Cats
      BY <1>2, Zenon DEF CatCounts
    <3> QED
      BY <2>3, <3>1
  <2>13. SameProducts'
    <3>1. ASSUME NEW d \in agreed' PROVE d \in agreed /\ shopRow'[d].products = shopRow[d].products /\ local'[d].products = local[d].products
      <4>1. d \in agreed /\ d \in Cats
        BY <2>12
      <4>2. CASE d = c
        <5>1. r.add = {}
          BY <2>12, <4>2
        <5> QED
          BY <1>4, <2>7, <4>1, <5>1, Zenon
      <4>3. CASE d # c
        <5>1. d \in Cats \ {c}
          BY <4>1, <4>3
        <5> QED
          BY <1>4, <2>6, <4>1, <5>1, Zenon
      <4> QED
        BY <4>2, <4>3
    <3> QED
      BY <1>2, <3>1, ProductsKept
  <2>14. SameLocal
    BY <1>4, Zenon DEF SameLocal
  <2>15. mirrored' => mirrored
    BY <1>4
  <2>16. ShopTree' /\ Mirrors'
    BY <1>2, <2>6, <2>14, <2>15, SameShopKeeps, MirrorsKept, Zenon
  <2>17. CatShape'
    BY <1>2, <1>4, <2>6, <2>9, <2>10, Zenon DEF CatShape
  <2>18. CatCounts' /\ CatFlag'
    <3>1. agreed' \subseteq Cats
      BY <2>12
    <3> QED
      BY <1>2, <1>4, <3>1, Zenon DEF CatCounts, CatFlag
  <2> QED
    BY <2>9, <2>11, <2>13, <2>16, <2>17, <2>18, Zenon DEF SyncIInv
<1> QED
  BY <1>6, <1>7

LEMMA PushRemovesSyncs == SyncIInv /\ PushRemoves => SyncIInv'
<1> SUFFICES ASSUME SyncIInv, PushRemoves PROVE SyncIInv'
  OBVIOUS
<1>1. PICK r \in CatPushes : r = push
  BY CountsHold
<1>2. CatShape /\ CatCounts /\ CatFlag /\ ShopTree /\ ImportAlone /\ PushAlone /\ SameProducts /\ Mirrors
  BY Zenon DEF SyncIInv
<1>3. PICK c \in Cats : c = r.cat
  BY DEF CatPushes
<1>4. r.pc = "remove" /\ push' = NotPushing /\ UNCHANGED <<local, toSend, mirrored, catEvents, imports>>
  BY <1>1, Zenon DEF PushRemoves
<1>5. PICK ids : ids = shopRow[c].products \ r.remove
  OBVIOUS
<1>6. PICK b : b = (import.alone /\ r.remove = {})
  OBVIOUS
<1>7. shopRow' = IF c \in Remote THEN [shopRow EXCEPT ![c].products = ids] ELSE shopRow
  <2>1. shopRow' = IF c \in Remote THEN [shopRow EXCEPT ![c].products = @ \ r.remove] ELSE shopRow
    BY <1>1, <1>3, Zenon DEF PushRemoves
  <2> QED
    BY <1>5, <2>1
<1>8. import' = [import EXCEPT !.alone = b]
  <2>1. import' = [import EXCEPT !.alone = @ /\ r.remove = {}]
    BY <1>1, <1>3, Zenon DEF PushRemoves
  <2>2. import' = [import EXCEPT !.alone = import.alone /\ r.remove = {}]
    BY <2>1
  <2> QED
    BY <1>6, <2>2, Zenon
<1>9. \/ (r.alone /\ c \in Remote /\ agreed' = agreed \cup {c})
      \/ (r.remove = {} /\ agreed' = agreed) \/ agreed' = agreed \ {c}
  <2>1. agreed' = IF r.alone /\ c \in Remote THEN agreed \cup {c} ELSE IF r.remove = {} THEN agreed ELSE agreed \ {c}
    BY <1>1, <1>3, Zenon DEF PushRemoves
  <2> QED
    BY <2>1, Zenon
<1>10. shopRow[c].products \in SUBSET ShopIds /\ local[c].products \in SUBSET Products /\ ids \in SUBSET ShopIds
  <2>1. shopRow[c].products \in SUBSET ShopIds /\ local[c].products \in SUBSET Products
    BY <1>2, RowTypes, Zenon
  <2> QED
    BY <1>5, <2>1
<1>11. /\ shopRow' \in [Cats -> RemoteRow] /\ SameShop
       /\ \A d \in Cats \ {c} : shopRow'[d].products = shopRow[d].products
       /\ c \in Remote => shopRow'[c].products = ids
       /\ c \in Remote /\ ids = shopRow[c].products => shopRow' = shopRow
       /\ c \notin Remote => shopRow' = shopRow
  BY <1>2, <1>7, <1>10, MaybeWritten
<1>12. r.remove = {} => shopRow' = shopRow
  <2>1. r.remove = {} => ids = shopRow[c].products
    BY <1>5
  <2> QED
    BY <1>11, <2>1, Zenon
<1>13. b \in BOOLEAN /\ (b => import.alone /\ shopRow' = shopRow) /\ local' = local
  BY <1>4, <1>6, <1>12, Zenon
<1>14. import' \in CatImports /\ ImportAlone'
  BY <1>2, <1>8, <1>13, ImportFlagged, Zenon
<1>15. push' \in CatPushes /\ PushAlone'
  BY <1>4, PushOff, Zenon
<1>16. agreed \subseteq Cats /\ agreed' \subseteq Cats
  <2>1. agreed \subseteq Cats
    BY <1>2, Zenon DEF CatCounts
  <2>2. agreed' \subseteq agreed \cup {c}
    <3>1. agreed' = agreed \cup {c} \/ agreed' = agreed \/ agreed' = agreed \ {c}
      BY <1>9, Zenon
    <3> QED
      BY <3>1
  <2> QED
    BY <2>1, <2>2
<1>17. SameProducts'
  <2>1. ASSUME NEW d \in agreed, d # c
        PROVE  Resolved(shopRow'[d].products) = local'[d].products
    <3>1. d \in Cats \ {c}
      BY <1>16, <2>1
    <3>2. shopRow'[d].products = shopRow[d].products /\ local'[d].products = local[d].products
      BY <1>4, <1>11, <3>1, Zenon
    <3> QED
      BY <1>2, <2>1, <3>2, Zenon DEF SameProducts
  <2>2. CASE r.alone /\ c \in Remote /\ agreed' = agreed \cup {c}
    <3>1. shopRow'[c].products = local[c].products
      <4>1. shopRow[c].products \ r.remove = local[c].products
        BY <1>1, <1>2, <1>3, <1>4, <2>2, Zenon DEF PushAlone
      <4> QED
        BY <1>5, <1>11, <2>2, <4>1, Zenon
    <3>2. Resolved(shopRow'[c].products) = local'[c].products
      BY <1>4, <1>10, <3>1, ResolvedIs, Zenon
    <3>3. \A d \in agreed' : d = c \/ (d \in agreed /\ d # c)
      BY <2>2, Zenon
    <3> QED
      BY <2>1, <3>2, <3>3, Zenon DEF SameProducts
  <2>3. CASE r.remove = {} /\ agreed' = agreed
    <3>1. shopRow' = shopRow /\ local' = local
      BY <1>4, <1>12, <2>3, Zenon
    <3> QED
      BY <1>2, <2>3, <3>1, Zenon DEF SameProducts
  <2>4. CASE agreed' = agreed \ {c}
    <3>1. \A d \in agreed' : d \in agreed /\ d # c
      BY <2>4, Zenon
    <3> QED
      BY <2>1, <3>1, Zenon DEF SameProducts
  <2> QED
    BY <1>9, <2>2, <2>3, <2>4, Zenon
<1>18. SameLocal
  BY <1>4, Zenon DEF SameLocal
<1>19. mirrored' => mirrored
  BY <1>4
<1>20. ShopTree' /\ Mirrors'
  BY <1>2, <1>11, <1>18, <1>19, SameShopKeeps, MirrorsKept, Zenon
<1>21. CatShape'
  BY <1>2, <1>4, <1>11, <1>14, <1>15, Zenon DEF CatShape
<1>22. CatCounts' /\ CatFlag'
  BY <1>2, <1>4, <1>16, Zenon DEF CatCounts, CatFlag
<1> QED
  BY <1>14, <1>15, <1>17, <1>20, <1>21, <1>22, Zenon DEF SyncIInv

-----------------------------------------------------------------------------
(* The tree that Shopware starts with is one of lists of siblings.             *)
Lists(S, aft, n, s) ==
  /\ \A i \in 1 .. n : s[i] \in S /\ aft[s[i]] = IF i = 1 THEN Nowhere ELSE s[i - 1]
  /\ \A c \in S : \E i \in 1 .. n : s[i] = c

LEMMA ListOf ==
  ASSUME NEW S, IsFiniteSet(S), NEW aft, NEW s \in SetToSeqs(S), \A i \in DOMAIN s : aft[s[i]] = IF i = 1 THEN Nowhere ELSE s[i - 1]
  PROVE  \E n \in Nat : Lists(S, aft, n, s) /\ \A i, j \in 1 .. n : s[i] = s[j] => i = j
<1>1. PICK n \in Nat : n = Cardinality(S)
  BY FS_CardinalityType
<1>2. s \in [1 .. n -> S] /\ \A i, j \in 1 .. n : i # j => s[i] # s[j]
  BY <1>1 DEF SetToSeqs
<1>3. s \in Injection(1 .. n, S)
  BY <1>2 DEF Injection, IsInjective
<1>4. IsFiniteSet(1 .. n) /\ Cardinality(1 .. n) = n
  BY FS_Interval
<1>5. s \in Surjection(1 .. n, S)
  BY <1>1, <1>3, <1>4, FS_Injection
<1>6. \A c \in S : \E i \in 1 .. n : s[i] = c
  BY <1>5 DEF Surjection
<1>7. \A i \in 1 .. n : s[i] \in S /\ aft[s[i]] = IF i = 1 THEN Nowhere ELSE s[i - 1]
  BY <1>2
<1>8. Lists(S, aft, n, s)
  BY <1>6, <1>7 DEF Lists
<1> QED
  BY <1>2, <1>8

LEMMA ListsChain ==
  ASSUME NEW R, IsFiniteSet(R), Nowhere \notin R, NEW par, NEW aft, \A c \in R : par[c] \in R \cup {Nowhere},
         \A p \in R \cup {Nowhere} : Siblings(R, par, p) # {} =>
           \E s \in SetToSeqs(Siblings(R, par, p)) : \A i \in DOMAIN s : aft[s[i]] = IF i = 1 THEN Nowhere ELSE s[i - 1]
  PROVE  Chains(R, par, aft)
<1>1. ASSUME NEW c \in R
      PROVE  \E s, n : n \in Nat /\ Lists(Siblings(R, par, par[c]), aft, n, s) /\ \A i, j \in 1 .. n : s[i] = s[j] => i = j
  <2>1. PICK S : S = Siblings(R, par, par[c])
    OBVIOUS
  <2>2. S \subseteq R /\ c \in S
    BY <2>1 DEF Siblings
  <2>3. IsFiniteSet(S) /\ S # {}
    BY <2>2, FS_Subset
  <2>4. PICK s \in SetToSeqs(S) : \A i \in DOMAIN s : aft[s[i]] = IF i = 1 THEN Nowhere ELSE s[i - 1]
    <3>1. par[c] \in R \cup {Nowhere}
      OBVIOUS
    <3> QED
      BY <2>1, <2>3, <3>1, Zenon
  <2>5. PICK n \in Nat : Lists(S, aft, n, s) /\ \A i, j \in 1 .. n : s[i] = s[j] => i = j
    BY <2>3, <2>4, ListOf
  <2> QED
    BY <2>1, <2>5, Zenon
<1>2. \A c, d : d \in Siblings(R, par, par[c]) <=> d \in R /\ par[d] = par[c]
  BY DEF Siblings
<1>3. ASSUME NEW c \in R PROVE aft[c] = Nowhere \/ (aft[c] \in R /\ par[aft[c]] = par[c])
  <2>1. PICK s, n : n \in Nat /\ Lists(Siblings(R, par, par[c]), aft, n, s)
    BY <1>1
  <2>2. PICK S : S = Siblings(R, par, par[c])
    OBVIOUS
  <2>3. \A i \in 1 .. n : s[i] \in S /\ aft[s[i]] = IF i = 1 THEN Nowhere ELSE s[i - 1]
    BY <2>1, <2>2 DEF Lists
  <2>4. PICK i \in 1 .. n : s[i] = c
    BY <1>2, <2>1 DEF Lists
  <2>5. CASE i = 1
    BY <2>3, <2>4, <2>5
  <2>6. CASE i # 1
    <3>1. i - 1 \in 1 .. n
      BY <2>1, <2>6
    <3> QED
      BY <1>2, <2>2, <2>3, <2>4, <2>6, <3>1
  <2> QED
    BY <2>5, <2>6
<1>4. ASSUME NEW c \in R, NEW d \in R, par[c] = par[d], aft[c] = aft[d] PROVE c = d
  <2>1. PICK s, n : n \in Nat /\ Lists(Siblings(R, par, par[c]), aft, n, s) /\ \A i, j \in 1 .. n : s[i] = s[j] => i = j
    BY <1>1
  <2>2. PICK S : S = Siblings(R, par, par[c])
    OBVIOUS
  <2>3. \A i \in 1 .. n : s[i] \in S /\ aft[s[i]] = IF i = 1 THEN Nowhere ELSE s[i - 1]
    BY <2>1, <2>2 DEF Lists
  <2>4. c \in S /\ d \in S /\ Nowhere \notin S
    BY <1>2, <1>4, <2>2
  <2>5. PICK i \in 1 .. n, j \in 1 .. n : s[i] = c /\ s[j] = d
    BY <2>1, <2>2, <2>4 DEF Lists
  <2>6. aft[s[i]] = aft[s[j]]
    BY <1>4, <2>5
  <2>7. CASE i = 1 \/ j = 1
    <3>1. \A k \in 1 .. n : k # 1 => k - 1 \in 1 .. n
      BY <2>1
    <3>2. \A k \in 1 .. n : k # 1 => aft[s[k]] # Nowhere
      BY <2>3, <2>4, <3>1
    <3>3. i = 1 /\ j = 1
      BY <2>3, <2>6, <2>7, <3>2
    <3> QED
      BY <2>5, <3>3
  <2>8. CASE i # 1 /\ j # 1
    <3>1. i - 1 \in 1 .. n /\ j - 1 \in 1 .. n
      BY <2>1, <2>8
    <3>2. s[i - 1] = s[j - 1]
      BY <2>3, <2>6, <2>8
    <3>3. i - 1 = j - 1
      BY <2>1, <3>1, <3>2
    <3>4. i = j
      BY <3>3
    <3> QED
      BY <2>5, <3>4
  <2> QED
    BY <2>7, <2>8
<1>5. ASSUME NEW T \in (SUBSET R) \ {{}} PROVE \E c \in T : aft[c] \notin T
  <2>1. PICK c \in T : c \in R
    OBVIOUS
  <2>2. PICK s, n : n \in Nat /\ Lists(Siblings(R, par, par[c]), aft, n, s)
    BY <1>1
  <2>3. \A i \in 1 .. n : aft[s[i]] = IF i = 1 THEN Nowhere ELSE s[i - 1]
    BY <2>2 DEF Lists
  <2>4. PICK k \in 1 .. n : s[k] = c
    BY <1>2, <2>1, <2>2 DEF Lists
  <2>5. PICK H : H = {i \in 1 .. n : s[i] \in T}
    OBVIOUS
  <2>6. PICK m \in H : \A i \in H : m <= i
    <3>1. H \subseteq Nat /\ k \in H
      BY <2>4, <2>5
    <3> QED
      BY <3>1, SomeLeast
  <2>7. m \in 1 .. n /\ s[m] \in T /\ Nowhere \notin T
    BY <2>5
  <2>8. CASE m = 1
    BY <2>3, <2>7, <2>8
  <2>9. CASE m # 1
    <3>1. m - 1 \in 1 .. n /\ ~ (m <= m - 1)
      BY <2>2, <2>7, <2>9
    <3>2. s[m - 1] \notin T
      BY <2>5, <2>6, <3>1
    <3>3. aft[s[m]] = s[m - 1]
      BY <2>3, <2>7, <2>9
    <3> QED
      BY <2>7, <3>2, <3>3
  <2> QED
    BY <2>8, <2>9
<1>6. Forest(R, aft)
  BY <1>5 DEF Forest
<1> QED
  BY <1>3, <1>4, <1>6 DEF Chains

LEMMA CatInitSyncs == CatInit => SyncIInv
<1> SUFFICES ASSUME CatInit PROVE SyncIInv
  OBVIOUS
<1>1. /\ shopRow \in [Cats -> {r \in RemoteRow : r.products = {}}]
      /\ Root \in Remote
      /\ \A c \in Cats \ Remote : shopRow[c].parent = Nowhere /\ shopRow[c].after = Nowhere
      /\ \A c \in Remote : shopRow[c].parent \in Remote \cup {Nowhere}
      /\ import = NotImporting /\ push = NotPushing
      /\ toSend = {} /\ agreed = {} /\ mirrored = FALSE /\ catEvents = 0 /\ imports = 0
  BY Zenon DEF CatInit
<1>2. \A p \in Remote \cup {Nowhere} : Siblings(Remote, RemoteParent, p) # {} =>
        \E s \in SetToSeqs(Siblings(Remote, RemoteParent, p)) :
          \A i \in DOMAIN s : shopRow[s[i]].after = IF i = 1 THEN Nowhere ELSE s[i - 1]
  BY Zenon DEF CatInit
<1> DEFINE place(c) == PlaceIn(InOrder(Siblings(Inside, RemoteParent, shopRow[c].parent), [d \in Cats |-> shopRow[d].after]), c)
<1>3. local = [c \in Cats |-> IF c \notin Inside THEN NoCategory
                 ELSE [here |-> TRUE, parent |-> shopRow[c].parent, products |-> {}, place |-> place(c)]]
  BY Zenon DEF CatInit, PlaceIn
<1>4. shopRow \in [Cats -> RemoteRow]
  BY <1>1
<1>5. ASSUME NEW c \in Cats, c \in Inside PROVE place(c) \in 0 .. Cardinality(Cats)
  <2>1. Inside \subseteq Cats /\ RemoteParent[c] = shopRow[c].parent
    BY RemoteIs
  <2> QED
    BY <1>5, <2>1, PlaceTypes, Zenon
<1> HIDE DEF place
<1>6. \A c \in Cats : shopRow[c].parent \in Cats \cup {Nowhere}
  <2>1. \A c \in Cats : shopRow[c] \in RemoteRow
    BY <1>4
  <2> QED
    BY <2>1 DEF RemoteRow
<1>7. local \in [Cats -> LocalRow]
  <2>1. ASSUME NEW c \in Cats
        PROVE  (IF c \notin Inside THEN NoCategory
                 ELSE [here |-> TRUE, parent |-> shopRow[c].parent, products |-> {}, place |-> place(c)]) \in LocalRow
    <3>1. CASE c \notin Inside
      BY <3>1, NoCategoryType, Zenon
    <3>2. CASE c \in Inside
      <4>1. [here |-> TRUE, parent |-> shopRow[c].parent, products |-> {}, place |-> place(c)] \in LocalRow
        BY <1>5, <1>6, <3>2 DEF LocalRow
      <4> QED
        BY <3>2, <4>1, Zenon
    <3> QED
      BY <3>1, <3>2
  <2> DEFINE row(c) == IF c \notin Inside THEN NoCategory
                 ELSE [here |-> TRUE, parent |-> shopRow[c].parent, products |-> {}, place |-> place(c)]
  <2>2. \A c \in Cats : row(c) \in LocalRow
    BY <2>1, Zenon
  <2>3. local = [c \in Cats |-> row(c)]
    BY <1>3, Zenon
  <2> HIDE DEF row
  <2> QED
    BY <2>2, <2>3
<1>8. CatShape
  BY <1>1, <1>4, <1>7, NotImportingIs, NotPushingIs, Zenon DEF CatShape
<1>9. CatCounts /\ CatFlag
  <2>1. 0 \in 0 .. MaxCatEvents /\ 0 \in 0 .. MaxImports
    BY CatAssumption
  <2> QED
    BY <1>1, <2>1, Zenon DEF CatCounts, CatFlag
<1>10. ShopTree
  <2>1. PICK R, par, aft : R = Remote /\ par = RemoteParent /\ aft = RemoteAfter
    OBVIOUS
  <2>2. IsFiniteSet(R) /\ Nowhere \notin R /\ R \subseteq Cats /\ \A c \in R : par[c] \in R \cup {Nowhere}
    BY <1>1, <2>1, RemoteIs
  <2>3. \A p \in R \cup {Nowhere} : Siblings(R, par, p) # {} =>
           \E s \in SetToSeqs(Siblings(R, par, p)) : \A i \in DOMAIN s : aft[s[i]] = IF i = 1 THEN Nowhere ELSE s[i - 1]
    <3> SUFFICES ASSUME NEW p \in R \cup {Nowhere}, Siblings(R, par, p) # {}
                 PROVE  \E s \in SetToSeqs(Siblings(R, par, p)) : \A i \in DOMAIN s : aft[s[i]] = IF i = 1 THEN Nowhere ELSE s[i - 1]
      OBVIOUS
    <3>1. PICK s \in SetToSeqs(Siblings(R, par, p)) :
             \A i \in DOMAIN s : shopRow[s[i]].after = IF i = 1 THEN Nowhere ELSE s[i - 1]
      BY <1>2, <2>1, Zenon
    <3>2. \A i \in DOMAIN s : s[i] \in R
      <4>1. s \in [1 .. Cardinality(Siblings(R, par, p)) -> Siblings(R, par, p)]
        BY <3>1 DEF SetToSeqs
      <4>2. Siblings(R, par, p) \subseteq R
        BY DEF Siblings
      <4> QED
        BY <4>1, <4>2
    <3>3. \A c \in R : aft[c] = shopRow[c].after
      BY <2>1, <2>2, RemoteIs
    <3>4. \A i \in DOMAIN s : aft[s[i]] = IF i = 1 THEN Nowhere ELSE s[i - 1]
      BY <3>1, <3>2, <3>3
    <3> QED
      BY <3>1, <3>4, Zenon
  <2>4. Chains(R, par, aft)
    BY <2>2, <2>3, ListsChain, Zenon
  <2> QED
    BY <1>1, <2>1, <2>4, Zenon DEF ShopTree
<1>11. ImportAlone /\ PushAlone
  BY <1>1, NotImportingIs, NotPushingIs, Zenon DEF ImportAlone, PushAlone
<1>12. SameProducts /\ Mirrors
  BY <1>1, Zenon DEF SameProducts, Mirrors
<1> QED
  BY <1>8, <1>9, <1>10, <1>11, <1>12, Zenon DEF SyncIInv

-----------------------------------------------------------------------------
LEMMA SyncsKept ==
  ASSUME CatIInv, SyncIInv, [CatNext]_catVars
  PROVE  SyncIInv'
<1>1. ASSUME NEW c \in Cats, NEW p \in Cats \cup {Nowhere}, NEW b \in Cats \cup {Nowhere}, ShopMoves(c, p, b) PROVE SyncIInv'
  BY <1>1, ShopMovesKeeps, Zenon
<1>2. ASSUME NEW c \in Cats, ShopDeletes(c) PROVE SyncIInv'
  BY <1>2, ShopDeletesKeeps, Zenon DEF CatIInv
<1>3. ASSUME NEW c \in Cats, NEW ids \in SUBSET ShopIds, ShopAssigns(c, ids) PROVE SyncIInv'
  BY <1>3, ShopAssignsKeeps, Zenon
<1>4. ASSUME NEW c \in Cats, NEW p \in Cats \cup {Nowhere}, PersonMoves(c, p) PROVE SyncIInv'
  BY <1>4, PersonMovesSyncs, Zenon
<1>5. ASSUME NEW c \in Cats, NEW S \in SUBSET Products, PersonAssigns(c, S) PROVE SyncIInv'
  BY <1>5, PersonAssignsKeeps, Zenon
<1>6. ASSUME NEW c \in Cats, PersonDeletes(c) PROVE SyncIInv'
  BY <1>6, PersonDeletesKeeps, Zenon
<1>7. ASSUME NEW c \in Cats, PushStarts(c) PROVE SyncIInv'
  BY <1>7, PushStartsSyncs, Zenon
<1>8. CASE ImportStarts \/ ImportReadsPage \/ ImportWritesTree \/ ImportReadsLinks \/ ImportReadsLocal
           \/ ImportWritesLinks \/ ImportIsRolledBack \/ ImportBreaks
  BY <1>8, ImportStartsSyncs, ImportReadsPageSyncs, ImportWritesTreeSyncs, ImportReadsLinksSyncs, ImportReadsLocalSyncs,
     ImportWritesLinksSyncs, ImportIsRolledBackSyncs, ImportBreaksSyncs, Zenon
<1>9. CASE PushWritesContent \/ PushCompares \/ PushAdds \/ PushRemoves \/ PushBreaks
  BY <1>9, PushWritesContentSyncs, PushComparesSyncs, PushAddsSyncs, PushRemovesSyncs, PushBreaksSyncs, Zenon
<1>10. CASE UNCHANGED catVars
  <2>1. UNCHANGED <<shopRow, local, import, push, toSend, agreed, mirrored, catEvents, imports>>
    BY <1>10, Zenon DEF catVars
  <2>2. CatCounts /\ ImportAlone /\ import \in CatImports
    BY Zenon DEF SyncIInv, CatShape
  <2>3. import' \in CatImports /\ ImportAlone'
    BY <2>1, <2>2, ImportAloneKept, Zenon
  <2>4. catEvents' \in 0 .. MaxCatEvents /\ imports' \in 0 .. MaxImports
    BY <2>1, <2>2, Zenon DEF CatCounts
  <2> QED
    BY <2>1, <2>3, <2>4, OnlyImportMoves, Zenon
<1>11. CASE CatNext
  BY <1>1, <1>2, <1>3, <1>4, <1>5, <1>6, <1>7, <1>8, <1>9, <1>11, Zenon DEF CatNext
<1> QED
  BY <1>10, <1>11, Zenon

LEMMA SyncsHold == CatSpec => [](CatIInv /\ SyncIInv)
<1>1. CatInit => CatIInv /\ SyncIInv
  BY CatInitKeeps, CatInitSyncs, Zenon
<1>2. CatIInv /\ SyncIInv /\ [CatNext]_catVars => (CatIInv /\ SyncIInv)'
  BY CategoriesKept, SyncsKept, Zenon
<1> QED
  BY <1>1, <1>2, PTL DEF CatSpec

(* The rows of both sides, what the import and the task know, and the messages   *)
(* in the broker keep their types; the place of a row in particular is never    *)
(* more than there are categories.                                          *)
THEOREM CategoriesTyped == CatSpec => []CatTypeOK
<1>1. SyncIInv => CatTypeOK
  <2> SUFFICES ASSUME SyncIInv PROVE CatTypeOK
    OBVIOUS
  <2>1. CatShape /\ CatCounts /\ CatFlag
    BY Zenon DEF SyncIInv
  <2>2. import \in CatImports /\ push \in CatPushes
    BY <2>1, Zenon DEF CatShape
  <2>3. /\ import.pc \in {"off", "reading", "read", "tree", "links", "compare"}
        /\ import.known \subseteq Cats /\ import.whole \subseteq Cats /\ import.alone \in BOOLEAN
    BY <2>2 DEF CatImports
  <2>4. push.pc \in {"off", "content", "read", "add", "remove"} /\ push.cat \in Cats /\ push.alone \in BOOLEAN
    BY <2>2 DEF CatPushes
  <2> QED
    BY <2>1, <2>3, <2>4, Zenon DEF CatTypeOK, CatShape, CatCounts, CatFlag
<1> QED
  BY <1>1, SyncsHold, PTL

(* import_categories_from_shopware and sync_category_to_shopware are the two      *)
(* directions of one agreement.  However many pages an import took, whatever      *)
(* interleaved before, and whichever task broke: one that ran to its end with    *)
(* nobody else at work left both sides with the same products, an import also     *)
(* with the tree below the root, in Shopware's order of siblings; and until        *)
(* somebody edits what they agree on, they keep agreeing.                      *)
THEOREM BothSidesAgree == CatSpec => []SyncsAgree
<1>1. SyncIInv => SyncsAgree
  BY Zenon DEF SyncIInv, SameProducts, Mirrors, SyncsAgree
<1> QED
  BY <1>1, SyncsHold, PTL
=============================================================================
