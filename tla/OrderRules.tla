------------------------------ MODULE OrderRules ------------------------------
(***************************************************************************)
(* The rules that shape an order in Microtech.  A rule has conditions; two   *)
(* engines decide whether it matches an order: OrderRuleResolverService       *)
(* (orders/services/order_rule_resolver.py), which reads the flat list of the *)
(* rule's conditions, and microtech/rule_engine, which reads a tree of        *)
(* condition groups that a migration builds from that list.  A rule that      *)
(* matches has actions; two paths turn them into the positions of the Vorgang *)
(* (orders/services/order_upsert_microtech.py): a list for the wrapper, or    *)
(* call by call through COM.                                                 *)
(*                                                                          *)
(* One rule.  What a condition says of an order is left open: every outcome   *)
(* of the conditions is looked at.  Names, prices and units are left out.     *)
(***************************************************************************)
EXTENDS Naturals, Sequences, FiniteSets, SequencesExt

CONSTANTS
  Conditions,  \* the conditions a person may give the rule
  MaxSaves     \* bound: pages saved in the admin

ASSUME RuleBound == MaxSaves \in Nat

VARIABLES
  logic,       \* MicrotechOrderRule.condition_logic
  conditions,  \* per condition: does it exist, is it active, in which group
  root, child, \* a root group and a group below it
  parted,      \* history: a page was saved whose change one engine only sees
  actions,     \* the rule's active actions by (priority, id)
  order,       \* an order: its articles in order, has it shipping costs
  saves

ruleVars == <<logic, conditions, root, child, parted, actions, order, saves>>

-----------------------------------------------------------------------------
Logics == {"all", "any"}
Groups == [here : BOOLEAN, on : BOOLEAN, logic : Logics]
NoGroup == [here |-> FALSE, on |-> FALSE, logic |-> "all"]
NoCondition == [here |-> FALSE, on |-> FALSE, group |-> "none"]

(* Targets: an article number, or "" when the person left it empty.          *)
Actions == [type : {"extra"}, target : {"", "e", "V"}]
           \cup [type : {"shipping"}, target : {"", "V", "F", "e"}]
           \cup [type : {"set field"}, target : {"Vorgang", "VorgangPosition", ""}]

Orders_ == [details : {<<>>, <<"", "a", "e">>}, costs : BOOLEAN]

RuleTypeOK ==
  /\ logic \in Logics
  /\ conditions \in [Conditions -> [here : BOOLEAN, on : BOOLEAN, group : {"none", "root"}]]
  /\ root \in Groups /\ child \in Groups
  /\ parted \in BOOLEAN
  /\ actions \in Seq(Actions) /\ Len(actions) <= MaxSaves
  /\ order \in Orders_
  /\ saves \in 0 .. MaxSaves

(* Rules as they were before there were groups.                              *)
RuleInit ==
  /\ logic \in Logics
  /\ conditions \in [Conditions -> [here : {TRUE}, on : BOOLEAN, group : {"none"}] \cup {NoCondition}]
  /\ root = NoGroup /\ child = NoGroup
  /\ parted = TRUE
  /\ actions = <<>>
  /\ order \in Orders_
  /\ saves = 0

-----------------------------------------------------------------------------
(* The flat engine: _matches_rule.  A condition of an unknown field is FALSE  *)
(* here and an outcome like any other there: holds[c] is for known fields.    *)
Combine(l, results) == IF l = "any" THEN TRUE \in results ELSE results \subseteq {TRUE}

ActiveRule == {c \in Conditions : conditions[c].here /\ conditions[c].on}

FlatMatches(holds) == ActiveRule = {} \/ Combine(logic, {holds[c] : c \in ActiveRule})

(* The tree: rule_matches and evaluate_group.  An empty group is TRUE; the    *)
(* admin has no way to put a condition into the group below the root.         *)
ChildResults == IF child.here /\ child.on THEN {TRUE} ELSE {}

RootResults(holds) ==
  {holds[c] : c \in {d \in ActiveRule : conditions[d].group = "root"}} \cup ChildResults

EvaluateRoot(holds) == RootResults(holds) = {} \/ Combine(root.logic, RootResults(holds))

TreeMatches(holds) == (root.here /\ root.on) => EvaluateRoot(holds)

-----------------------------------------------------------------------------
(* backfill_condition_groups, in the migration, and again at any time.  The   *)
(* conditions without a group go to the new root.                            *)
MutantBackfill ==
  /\ ~root.here
  /\ root' = [here |-> TRUE, on |-> TRUE, logic |-> "all"]
  /\ conditions' = [c \in Conditions |-> IF conditions[c].here THEN [conditions[c] EXCEPT !.group = "root"] ELSE conditions[c]]
  /\ parted' = FALSE
  /\ UNCHANGED <<logic, child, actions, order, saves>>

Backfill ==
  /\ ~root.here
  /\ root' = [here |-> TRUE, on |-> TRUE, logic |-> logic]
  /\ conditions' = [c \in Conditions |-> IF conditions[c].here THEN [conditions[c] EXCEPT !.group = "root"] ELSE conditions[c]]
  /\ parted' = FALSE
  /\ UNCHANGED <<logic, child, actions, order, saves>>

Saved == saves < MaxSaves /\ saves' = saves + 1

(* The rule's page.  A new condition has no group, another condition_logic    *)
(* does not reach the root: the trees do not see them.                       *)
ConditionAdded(c) ==
  /\ ~conditions[c].here /\ Saved
  /\ conditions' = [conditions EXCEPT ![c] = [here |-> TRUE, on |-> TRUE, group |-> "none"]]
  /\ parted' = TRUE
  /\ UNCHANGED <<logic, root, child, actions, order>>

ConditionToggled(c) ==
  /\ conditions[c].here /\ Saved
  /\ conditions' = [conditions EXCEPT ![c].on = ~@]
  /\ UNCHANGED <<logic, root, child, parted, actions, order>>

ConditionDeleted(c) ==
  /\ conditions[c].here /\ Saved
  /\ conditions' = [conditions EXCEPT ![c] = NoCondition]
  /\ UNCHANGED <<logic, root, child, parted, actions, order>>

LogicChanged ==
  /\ Saved
  /\ logic' = IF logic = "all" THEN "any" ELSE "all"
  /\ parted' = TRUE
  /\ UNCHANGED <<conditions, root, child, actions, order>>

ActionAdded(a) ==
  /\ Saved
  /\ actions' = Append(actions, a)
  /\ UNCHANGED <<logic, conditions, root, child, parted, order>>

(* The group's page.  A group below a root that needs all its members is      *)
(* neutral; below one that needs any, it alone makes the rule match.          *)
GroupAdded ==
  /\ root.here /\ ~child.here /\ Saved
  /\ child' \in [here : {TRUE}, on : BOOLEAN, logic : Logics]
  /\ parted' = (parted \/ (child'.on /\ root.logic = "any"))
  /\ UNCHANGED <<logic, conditions, root, actions, order>>

RootChanged ==
  /\ root.here /\ Saved
  /\ root' \in [here : {TRUE}, on : BOOLEAN, logic : Logics] \ {root}
  /\ parted' = TRUE
  /\ UNCHANGED <<logic, conditions, child, actions, order>>

(* Deleting the root deletes its groups and their conditions.                *)
RootDeleted ==
  /\ root.here /\ Saved
  /\ root' = NoGroup /\ child' = NoGroup
  /\ conditions' = [c \in Conditions |-> IF conditions[c].group = "root" THEN NoCondition ELSE conditions[c]]
  /\ parted' = TRUE
  /\ UNCHANGED <<logic, actions, order>>

RuleNext ==
  \/ Backfill \/ LogicChanged \/ GroupAdded \/ RootChanged \/ RootDeleted
  \/ \E c \in Conditions : ConditionAdded(c) \/ ConditionToggled(c) \/ ConditionDeleted(c)
  \/ \E a \in Actions : ActionAdded(a)

RuleSpec == RuleInit /\ [][RuleNext]_ruleVars

-----------------------------------------------------------------------------
(* The members of a list that are wanted, appended one after the other.        *)
Filtered(list, wanted) ==
  FoldLeft(LAMBDA kept, a : IF a \in wanted THEN Append(kept, a) ELSE kept, <<>>, list)

(* _collect_dataset_actions: an action without a target is ignored.          *)
Collected == Filtered(actions, {a \in Actions : a.target # ""})

(* _configured_shipping_erp_nr: the first that is V or F, else the default.   *)
ShippingArticle ==
  LET valid == Filtered(Collected, [type : {"shipping"}, target : {"V", "F"}])
  IN IF valid = <<>> THEN "V" ELSE valid[1].target

Named == Filtered(order.details, STRING \ {""})

(* _build_graphql_positions, _build_graphql_rule_debug: articles, shipping,   *)
(* extras.  No rule asks for the payment position: from_rule leaves it off.   *)
MutantExtras ==
  [i \in DOMAIN SelectSeq(Collected, LAMBDA a : a.type = "extra") |->
     SelectSeq(Collected, LAMBDA a : a.type = "extra")[i].target]

Extras ==
  FoldLeft(LAMBDA created, a : IF a.type # "extra" \/ a.target \in ToSet(created) THEN created
                               ELSE Append(created, a.target),
           <<>>, Collected)

GraphqlPositions == Named \o (IF order.costs THEN <<ShippingArticle>> ELSE <<>>) \o Extras

(* _add_positions, _add_shipping_position, then _apply_rule_dataset_actions,  *)
(* one action after the other.  A field of VorgangPosition is written to the  *)
(* position the cursor is on, the last one added.                            *)
Added(posted, article) == [posted EXCEPT !.articles = Append(@, article)]

ComBegins ==
  [articles |-> Named \o (IF order.costs THEN <<ShippingArticle>> ELSE <<>>),
   seen |-> {}, written |-> {}]

ComActs(posted, a) ==
  CASE a.type = "extra" /\ a.target \notin posted.seen ->
         [Added(posted, a.target) EXCEPT !.seen = @ \cup {a.target}]
    [] a.type = "set field" /\ a.target = "VorgangPosition" /\ posted.seen # {} ->
         [posted EXCEPT !.written = @ \cup {Len(posted.articles)}]
    [] OTHER -> posted

ComPosted == FoldLeft(ComActs, ComBegins, Collected)

-----------------------------------------------------------------------------
(* Properties                                                               *)

(* A rule that the migration carried over matches the same orders in both     *)
(* engines, and still does after pages are saved that both engines see, so    *)
(* that switching engine_enabled on changes no order.                        *)
EnginesAgree ==
  ~parted => \A holds \in [Conditions -> BOOLEAN] : FlatMatches(holds) <=> TreeMatches(holds)

(* The two paths write the same articles in the same order: no extra position *)
(* twice, one shipping position when there are costs; and a position field    *)
(* never lands on an article of the order or on the shipping position.        *)
PathsAgree ==
  /\ ComPosted.articles = GraphqlPositions
  /\ \A i \in ComPosted.written : i > Len(ComBegins.articles)
=============================================================================
