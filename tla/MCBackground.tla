----------------------------- MODULE MCBackground -----------------------------
(***************************************************************************)
(* Small instances of the components that Celery's beat keeps going: the       *)
(* two-way price synchronisation, the product in Shopware, the translations    *)
(* and the backup window; and of what else the catalogue goes through: a        *)
(* variant family, a price increase and the Shopware 5 ids of the categories.   *)
(* They share no row but the product's text, so they are checked side by side: *)
(* the variable focus, chosen at the beginning, says which of them moves.  The  *)
(* others stay in one of their initial states.                               *)
(*                                                                          *)
(* Fairness is the components' own, with weak fairness where they state strong *)
(* fairness and the bounded instance needs no more: less is assumed, so what   *)
(* holds here holds under the components' fairness.                          *)
(***************************************************************************)
EXTENDS PriceRoundTrip, ShopProduct, AiTranslation, BackupMode, VariantFamilies, PriceIncreases, Shopware5Mapping

CONSTANTS r1, r2, c1, c2, empty, a, s1, s2, d1, d2, art1, art2, x, y, pens, mugs

VARIABLE focus

everything == <<focus, priceVars, shopVars, aiVars, backupVars, variantVars, increaseVars, sw5Vars>>

Parts == {"price", "shop", "translation", "window", "variants", "increase", "mapping"}

(* The two trees as the mapping finds them, and without a row.                  *)
SomeTree ==
  /\ treeRow[1].tree = "canonical" /\ treeRow[2].tree # "none" /\ treeRow[3].tree = "none"
  /\ treeRow[1].path = NoPath /\ sw5Tree[1].path = NoPath
NoTree ==
  /\ treeRow = [r \in TreeRows |-> NoTreeRow] /\ sw5Tree = [i \in Sw5Ids |-> [here |-> FALSE, path |-> NoPath, active |-> TRUE]]
  /\ mapper = NoPlan /\ merger = NoPlan /\ keptIds = {} /\ mappedTo = [i \in Sw5Ids |-> "none"]
  /\ overtakenPlan = FALSE /\ treeEdits = 0

BackgroundInit ==
  /\ focus \in Parts
  /\ PriceInit /\ ShopInit /\ AiInit /\ BackupInit
  /\ focus # "price" => wanted = 0
  /\ focus # "shop" => sku
  /\ focus # "translation" => source = EmptyText /\ setup \in Clearing
  /\ VariantInit /\ option[art1] = x /\ option[art2] = NoOption /\ art1 \in listed
     /\ (focus # "variants" => listed = Articles /\ synced = {})
  /\ IncreaseInit /\ basePrice.special = "direct" /\ increase.percent = 1
     /\ (focus # "increase" => basePrice.price = 3 /\ basePrice.rebate = 0)
  /\ (IF focus = "mapping" THEN Sw5Init /\ SomeTree ELSE NoTree)

Rest == <<variantVars, increaseVars, sw5Vars>>
Beat == <<priceVars, shopVars, aiVars, backupVars>>

PriceStep == focus = "price" /\ PriceNext /\ UNCHANGED <<focus, shopVars, aiVars, backupVars, Rest>>
ShopStep == focus = "shop" /\ ShopNext /\ UNCHANGED <<focus, priceVars, aiVars, backupVars, Rest>>
AiStep == focus = "translation" /\ AiNext /\ UNCHANGED <<focus, priceVars, shopVars, backupVars, Rest>>
WindowStep == focus = "window" /\ BackupNext /\ UNCHANGED <<focus, priceVars, shopVars, aiVars, Rest>>
VariantStep == focus = "variants" /\ VariantNext /\ UNCHANGED <<focus, Beat, increaseVars, sw5Vars>>
IncreaseStep == focus = "increase" /\ IncreaseNext /\ UNCHANGED <<focus, Beat, variantVars, sw5Vars>>
MappingStep == focus = "mapping" /\ Sw5Next /\ UNCHANGED <<focus, Beat, variantVars, increaseVars>>

BackgroundNext ==
  \/ PriceStep \/ ShopStep \/ AiStep \/ WindowStep
  \/ VariantStep \/ IncreaseStep \/ MappingStep

PricesFairness ==
  /\ WF_priceVars(focus = "price" /\ PushReads)
  /\ WF_priceVars(focus = "price" /\ BatchReads)
  /\ WF_priceVars(focus = "price" /\ Imports)
  /\ WF_priceVars(focus = "price" /\ SyncClears)
  /\ WF_priceVars(focus = "price" /\ SyncRestores)
  /\ \A w \in Writers : WF_priceVars(focus = "price" /\ Writes(w))

ShopsFairness == \A r \in Runs : WF_shopVars(focus = "shop" /\ RunStep(r))

TranslationsFairness ==
  /\ \A c \in Clerks : WF_aiVars(focus = "translation" /\ ClerkWorks(c))
  /\ SF_aiVars(focus = "translation" /\ (\E c \in Clerks, n \in 0 .. Retries : TakeUp(c, n)))
  /\ WF_aiVars(focus = "translation" /\ (\E c \in Clerks : ScanReadsRows(c)))

WindowFairness ==
  /\ WF_backupVars(focus = "window" /\ DeadlinePasses)
  /\ \A s \in Slots : WF_backupVars(focus = "window" /\ DeskWorks(s))
  /\ WF_backupVars(focus = "window" /\ (\E s \in Slots : WatchdogEnqueues(s)))

BackgroundSpec ==
  /\ BackgroundInit /\ [][BackgroundNext]_everything
  /\ PricesFairness /\ ShopsFairness /\ TranslationsFairness /\ WindowFairness

-----------------------------------------------------------------------------
(* Every variable keeps its type.                                            *)
TypesOK ==
  /\ PriceTypeOK /\ ShopTypeOK /\ AiTypeOK /\ BackupTypeOK
  /\ focus = "variants" => VariantTypeOK
  /\ focus = "increase" => IncreaseTypeOK
  /\ focus = "mapping" => Sw5TypeOK
=============================================================================
