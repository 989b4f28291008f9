--------------------------- MODULE VariantFamilies ---------------------------
(***************************************************************************)
(* ShopwareVariantSyncService.sync for one variant family: the articles whose  *)
(* properties make them variants become children of a parent in Shopware, call *)
(* by call.  The family remembers its children only when a run is through      *)
(* (synced_products), and finds those that have left by that memory alone.     *)
(*                                                                          *)
(* One axis, so that a variant is an article with one option.  Runs are        *)
(* started by messages, product jobs, the scheduled sync and people, who may   *)
(* name an inactive family too: nothing keeps two apart.  A run that breaks    *)
(* leaves what it has done.  Reading what is there and deleting what is stale   *)
(* is one step.  Property groups, options, names, prices and pictures of the    *)
(* parent are left out.                                                      *)
(***************************************************************************)
EXTENDS Naturals, FiniteSets

CONSTANTS
  Articles,         \* products of the shopFamily's source categories
  Options,          \* values of its axis
  VariantRuns,      \* processes that synchronise it
  MaxFamilyEdits,   \* bound: edits in Django
  MaxFamilyFaults   \* bound: calls that fail, processes that die

ASSUME FamilyBounds == MaxFamilyEdits \in Nat /\ MaxFamilyFaults \in Nat

VARIABLES
  option,        \* per article: its option, or NoOption: none, several, or no candidate
  axis,          \* the family has its variant attribute
  listed,        \* articles that Shopware knows
  synced,        \* ProductVariantFamily.synced_products
  shopFamily,    \* Shopware: parent, its children, their options, its settings
  syncs,         \* per process: its step, the resolution it has read
  reached,       \* history: the resolution that the last run alone has carried out
  forgotten,     \* history: may be children of which synced says nothing
  familyEdits, familyFaults

variantVars == <<option, axis, listed, synced, shopFamily, syncs, reached, forgotten,
                 familyEdits, familyFaults>>

-----------------------------------------------------------------------------
NoOption == "no option"
Resolutions == [Articles -> Options \cup {NoOption}]
NoVariants == [p \in Articles |-> NoOption]
VariantsOf(w) == {p \in Articles : w[p] # NoOption}
UsedBy(w) == {w[p] : p \in VariantsOf(w)}
Distinct(w) == \A p, q \in VariantsOf(w) : w[p] = w[q] => p = q

SyncSteps == {"off", "options", "parent", "children", "settings", "stale settings",
              "configure", "release", "detach", "remember"}
NoSync == [at |-> "off", wants |-> NoVariants, leaves |-> {}, alone |-> TRUE]

VariantTypeOK ==
  /\ option \in Resolutions /\ axis \in BOOLEAN /\ listed \subseteq Articles /\ synced \subseteq Articles
  /\ shopFamily \in [parent : BOOLEAN, children : SUBSET Articles,
                 options : [Articles -> SUBSET Options], settings : SUBSET Options]
  /\ syncs \in [VariantRuns -> [at : SyncSteps, wants : Resolutions,
                             leaves : SUBSET Articles, alone : BOOLEAN]]
  /\ reached \subseteq Resolutions /\ forgotten \subseteq Articles
  /\ familyEdits \in 0 .. MaxFamilyEdits /\ familyFaults \in 0 .. MaxFamilyFaults

(* What Shopware has when it agrees with a resolution.                       *)
Carried(w) ==
  [parent |-> w # NoVariants, children |-> VariantsOf(w), settings |-> UsedBy(w),
   options |-> [p \in Articles |-> IF w[p] = NoOption THEN {} ELSE {w[p]}]]

(* A family that was never synchronised, or has been edited since.           *)
VariantInit ==
  /\ option \in Resolutions /\ axis = TRUE /\ listed \in SUBSET Articles
  /\ \E w \in Resolutions :
       /\ VariantsOf(w) \subseteq listed /\ Distinct(w)
       /\ synced = VariantsOf(w) /\ shopFamily = Carried(w)
  /\ syncs = [r \in VariantRuns |-> NoSync]
  /\ reached = {} /\ forgotten = {} /\ familyEdits = 0 /\ familyFaults = 0

SyncAt(r, s) == syncs[r].at = s
SyncGoesTo(r, s) == syncs' = [syncs EXCEPT ![r].at = s]
Wants(r) == syncs[r].wants

-----------------------------------------------------------------------------
(* ProductVariantFamilyResolverService.resolve; a family without an axis is    *)
(* cleared.  Two articles with the same option, or no variant, are an error:   *)
(* the command and the task end before Shopware is touched.                  *)
Wanted == IF axis THEN option ELSE NoVariants

Resolvable(w) ==
  /\ VariantsOf(w) # {}
  /\ Distinct(w)

StartsSync(r) ==
  /\ SyncAt(r, "off")
  /\ IF axis THEN Resolvable(option) ELSE shopFamily.parent
  /\ LET others == {o \in VariantRuns : ~SyncAt(o, "off")}
     IN syncs' = [o \in VariantRuns |->
          CASE o = r -> [at |-> IF axis THEN "options" ELSE "release",
                         wants |-> Wanted, leaves |-> {}, alone |-> others = {}]
            [] o \in others -> [syncs[o] EXCEPT !.alone = FALSE]
            [] OTHER -> syncs[o]]
  /\ reached' = {}
  /\ UNCHANGED <<option, axis, listed, synced, shopFamily, forgotten, familyEdits, familyFaults>>

(* _resolve_child_ids raises when Shopware lacks an article;                  *)
(* _remove_stale_child_options deletes the other options of the variants.    *)
RemovesOptions(r) ==
  /\ SyncAt(r, "options")
  /\ IF VariantsOf(Wants(r)) \subseteq listed
     THEN /\ shopFamily' = [shopFamily EXCEPT !.options =
               [p \in Articles |-> IF p \in VariantsOf(Wants(r)) THEN @[p] \cap {Wants(r)[p]} ELSE @[p]]]
          /\ SyncGoesTo(r, "parent")
     ELSE /\ syncs' = [syncs EXCEPT ![r] = NoSync]
          /\ UNCHANGED shopFamily
  /\ UNCHANGED <<option, axis, listed, synced, reached, forgotten, familyEdits, familyFaults>>

EnsuresParent(r) ==
  /\ SyncAt(r, "parent")
  /\ shopFamily' = [shopFamily EXCEPT !.parent = TRUE]
  /\ SyncGoesTo(r, "children")
  /\ UNCHANGED <<option, axis, listed, synced, reached, forgotten, familyEdits, familyFaults>>

(* An upsert adds options to those an article has.                           *)
UpsertsChildren(r) ==
  /\ SyncAt(r, "children")
  /\ LET mine == VariantsOf(Wants(r))
     IN shopFamily' = [shopFamily EXCEPT !.children = @ \cup mine,
          !.options = [p \in Articles |-> IF p \in mine THEN @[p] \cup {Wants(r)[p]} ELSE @[p]]]
  /\ SyncGoesTo(r, "settings")
  /\ UNCHANGED <<option, axis, listed, synced, reached, forgotten, familyEdits, familyFaults>>

UpsertsSettings(r) ==
  /\ SyncAt(r, "settings")
  /\ shopFamily' = [shopFamily EXCEPT !.settings = @ \cup UsedBy(Wants(r))]
  /\ SyncGoesTo(r, "stale settings")
  /\ UNCHANGED <<option, axis, listed, synced, reached, forgotten, familyEdits, familyFaults>>

(* One call for each setting that is not used.                               *)
RemovesSetting(r) ==
  /\ SyncAt(r, "stale settings")
  /\ LET stale == shopFamily.settings \ UsedBy(Wants(r))
     IN IF stale = {}
        THEN SyncGoesTo(r, "configure") /\ UNCHANGED shopFamily
        ELSE \E o \in stale : shopFamily' = [shopFamily EXCEPT !.settings = @ \ {o}] /\ UNCHANGED syncs
  /\ UNCHANGED <<option, axis, listed, synced, reached, forgotten, familyEdits, familyFaults>>

(* The parent gets its main variant, or loses its groups.                    *)
Configures(r) ==
  /\ SyncAt(r, "configure")
  /\ SyncGoesTo(r, IF Wants(r) = NoVariants THEN "remember" ELSE "release")
  /\ UNCHANGED <<option, axis, listed, synced, shopFamily, reached, forgotten, familyEdits, familyFaults>>

(* _detach_stale_children: the options of those who have left are deleted,    *)
(* then their parentId.  It reads the family's memory once, before both.      *)
Leavers(r) == (synced \ VariantsOf(Wants(r))) \cap listed

(* _remove_all_child_options left out: the upsert's empty list deletes none.   *)
MutantReleasesOptions(r) ==
  /\ SyncAt(r, "release")
  /\ syncs' = [syncs EXCEPT ![r].at = "detach", ![r].leaves = Leavers(r)]
  /\ UNCHANGED <<option, axis, listed, synced, shopFamily, reached, forgotten, familyEdits, familyFaults>>

ReleasesOptions(r) ==
  /\ SyncAt(r, "release")
  /\ shopFamily' = [shopFamily EXCEPT !.options =
       [p \in Articles |-> IF p \in Leavers(r) THEN {} ELSE @[p]]]
  /\ syncs' = [syncs EXCEPT ![r].at = "detach", ![r].leaves = Leavers(r)]
  /\ UNCHANGED <<option, axis, listed, synced, reached, forgotten, familyEdits, familyFaults>>

Detaches(r) ==
  /\ SyncAt(r, "detach")
  /\ shopFamily' = [shopFamily EXCEPT !.children = @ \ syncs[r].leaves]
  /\ syncs' = [syncs EXCEPT ![r].leaves = {},
       ![r].at = IF Wants(r) = NoVariants THEN "stale settings" ELSE "remember"]
  /\ UNCHANGED <<option, axis, listed, synced, reached, forgotten, familyEdits, familyFaults>>

Remembers(r) ==
  /\ SyncAt(r, "remember")
  /\ synced' = VariantsOf(Wants(r))
  /\ syncs' = [syncs EXCEPT ![r] = NoSync]
  /\ IF syncs[r].alone
     THEN reached' = {Wants(r)} /\ forgotten' = forgotten \ (synced \cup synced')
     ELSE forgotten' = forgotten \cup synced' /\ UNCHANGED reached
  /\ UNCHANGED <<option, axis, listed, shopFamily, familyEdits, familyFaults>>

(* A call fails, before or after its effect, or the process dies.            *)
SyncBreaks(r) ==
  /\ ~SyncAt(r, "off") /\ familyFaults < MaxFamilyFaults
  /\ familyFaults' = familyFaults + 1
  /\ syncs' = [syncs EXCEPT ![r] = NoSync]
  /\ forgotten' = IF SyncAt(r, "options") \/ SyncAt(r, "parent") \/ SyncAt(r, "children")
                  THEN forgotten ELSE forgotten \cup VariantsOf(Wants(r))
  /\ UNCHANGED <<option, axis, listed, synced, shopFamily, reached, familyEdits>>

-----------------------------------------------------------------------------
(* People and imports change properties, categories and is_active of articles, *)
(* the axis, and Shopware gets an article it did not know.                    *)
EditsOption(p, o) ==
  /\ familyEdits < MaxFamilyEdits /\ familyEdits' = familyEdits + 1
  /\ o # option[p] /\ option' = [option EXCEPT ![p] = o]
  /\ UNCHANGED <<axis, listed, synced, shopFamily, syncs, reached, forgotten, familyFaults>>

EditsAxis ==
  /\ familyEdits < MaxFamilyEdits /\ familyEdits' = familyEdits + 1
  /\ axis' = ~axis
  /\ UNCHANGED <<option, listed, synced, shopFamily, syncs, reached, forgotten, familyFaults>>

NewArticle(p) ==
  /\ familyEdits < MaxFamilyEdits /\ familyEdits' = familyEdits + 1
  /\ listed' = listed \cup {p} /\ p \notin listed
  /\ UNCHANGED <<option, axis, synced, shopFamily, syncs, reached, forgotten, familyFaults>>

SyncStep(r) ==
  \/ StartsSync(r) \/ RemovesOptions(r) \/ EnsuresParent(r) \/ UpsertsChildren(r)
  \/ UpsertsSettings(r) \/ RemovesSetting(r) \/ Configures(r) \/ ReleasesOptions(r)
  \/ Detaches(r) \/ Remembers(r)

VariantNext ==
  \/ \E r \in VariantRuns : SyncStep(r) \/ SyncBreaks(r)
  \/ \E p \in Articles, o \in Options \cup {NoOption} : EditsOption(p, o)
  \/ EditsAxis
  \/ \E p \in Articles : NewArticle(p)

VariantSpec == VariantInit /\ [][VariantNext]_variantVars

-----------------------------------------------------------------------------
(* When the last run was alone and the family is still as it was resolved,     *)
(* Shopware has just its variants: each a child with its one option, nobody    *)
(* else a child or with an option, the parent with the options in use.  Except *)
(* articles that came with a run that broke, or with two at once, and left     *)
(* before another remembered them: no run ever lets them go.                 *)
VariantsMatch ==
  Wanted \in reached =>
    /\ \A p \in VariantsOf(Wanted) : p \in shopFamily.children /\ shopFamily.options[p] = {Wanted[p]}
    /\ \A p \in Articles \ (VariantsOf(Wanted) \cup forgotten) :
         p \notin shopFamily.children /\ shopFamily.options[p] = {}
    /\ shopFamily.settings = UsedBy(Wanted)
=============================================================================
