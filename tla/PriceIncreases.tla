---------------------------- MODULE PriceIncreases ----------------------------
(***************************************************************************)
(* A price increase (products/services/price_increase.py and its admin pages):  *)
(* positions are read from the prices, people give some of them a target, the *)
(* increase is applied once, and can be restored at any time after that.       *)
(* Restoring computes the targets again, from positions that nobody should     *)
(* have touched since.  Requests check the status of the increase on what      *)
(* they have loaded, and write later; only applying and restoring are         *)
(* transactions.                                                            *)
(*                                                                          *)
(* One increase, one product, the default channel and one other.  A price      *)
(* is a small number, and a percentage adds to it; 0 is none.  A rebate stands  *)
(* for its quantity and price, a special for its kind.                        *)
(***************************************************************************)
EXTENDS Naturals

CONSTANTS
  Offices,        \* requests that may run at once
  Prices,         \* prices a person or the import sets
  Rebates,        \* rebates, 0 among them
  NewTargets,        \* targets a person gives, 0 among them
  Percents,       \* percentages
  Factor,         \* ShopwareSettings.price_factor of the other channel
  MaxVisitsPaid,  \* bound: requests
  MaxPriceMoves   \* bound: changes of the price by others

ASSUME IncreaseBounds ==
  /\ Prices \subseteq Nat /\ Rebates \subseteq Nat /\ NewTargets \subseteq Nat /\ Percents \subseteq Nat
  /\ Factor \in Nat /\ MaxVisitsPaid \in Nat /\ MaxPriceMoves \in Nat

VARIABLES
  basePrice,      \* Price of the default channel
  channelPrice,   \* Price of the other channel
  active,         \* Product.is_active
  increase,       \* PriceIncrease: status, percentage
  position,       \* PriceIncreaseItem, or NoPosition
  office,         \* per request: where it is and what it has loaded
  promised,       \* history: what applying wrote
  touched,        \* history: somebody else has set the price since
  passedOn,       \* history: the other channel was told since
  tooLate,        \* history: a request that saw a draft wrote after it was applied
  retuned,        \* history: the percentage is no longer the one that was applied
  visitsPaid, priceMoves

increaseVars == <<basePrice, channelPrice, active, increase, position, office, promised, touched,
                  passedOn, tooLate, retuned, visitsPaid, priceMoves>>

-----------------------------------------------------------------------------
SpecialKinds == {"none", "percent", "direct"}
PriceRow == [price : Nat, rebate : Nat, special : SpecialKinds]
PositionRow == [price : Nat, rebate : Nat, newPrice : Nat, newRebate : Nat]
NoPosition == [price |-> 0, rebate |-> 0, newPrice |-> 0, newRebate |-> 0]
IncreaseStatuses == {"draft", "applied"}
NoVisit == [at |-> "out", status |-> "draft", percent |-> 0, position |-> NoPosition]

IncreaseTypeOK ==
  /\ basePrice \in PriceRow /\ channelPrice \in PriceRow
  /\ active \in BOOLEAN
  /\ increase \in [status : IncreaseStatuses, percent : Percents]
  /\ position \in PositionRow
  /\ office \in [Offices -> [at : {"out", "reload", "loaded", "apply", "announce", "target", "form"},
                             status : IncreaseStatuses, percent : Percents \cup {0}, position : PositionRow]]
  /\ promised \in [price : Nat, rebate : Nat]
  /\ touched \in BOOLEAN /\ passedOn \in BOOLEAN /\ tooLate \in BOOLEAN /\ retuned \in BOOLEAN
  /\ visitsPaid \in 0 .. MaxVisitsPaid /\ priceMoves \in 0 .. MaxPriceMoves

(* The price of another channel, by its factor; Price.save computes the        *)
(* special of a percentage again.                                            *)
ForChannel(p) == [price |-> p.price * Factor, rebate |-> p.rebate * Factor, special |-> p.special]

(* What sync_items writes: the current values, the targets kept.              *)
ReadFrom(p, old) == [price |-> p.price, rebate |-> p.rebate,
                     newPrice |-> old.newPrice, newRebate |-> old.newRebate]

(* A draft that was created, with its positions, from today's prices.         *)
IncreaseInit ==
  /\ \E v \in Prices, r \in Rebates, s \in SpecialKinds :
       r < v /\ basePrice = [price |-> v, rebate |-> r, special |-> s]
  /\ channelPrice = ForChannel(basePrice)
  /\ active = TRUE
  /\ \E q \in Percents : increase = [status |-> "draft", percent |-> q]
  /\ position = ReadFrom(basePrice, NoPosition)
  /\ office = [d \in Offices |-> NoVisit]
  /\ promised = [price |-> 0, rebate |-> 0]
  /\ touched = FALSE /\ passedOn = FALSE /\ tooLate = FALSE /\ retuned = FALSE
  /\ visitsPaid = 0 /\ priceMoves = 0

-----------------------------------------------------------------------------
(* effective_new_price, effective_new_rebate_price.                          *)
NewPrice(i, q) == IF i.newPrice # 0 THEN i.newPrice ELSE i.price + q
NewRebate(i, q) == IF i.rebate = 0 THEN 0
                   ELSE IF i.newRebate # 0 THEN i.newRebate ELSE i.rebate + q

(* The checks that block applying and restoring.                             *)
Sound(i, q) == i # NoPosition /\ i.rebate < i.price /\ NewRebate(i, q) < NewPrice(i, q)

(* PriceIncreaseItem.clean                                                  *)
CleanTarget(i, q) ==
  i.newRebate # 0 => i.rebate # 0 /\ i.newRebate < (IF i.newPrice # 0 THEN i.newPrice ELSE i.price + q)

OfficeAt(d, p) == office[d].at = p
OfficeLoads(d, p) == /\ OfficeAt(d, "out") /\ visitsPaid < MaxVisitsPaid /\ visitsPaid' = visitsPaid + 1
               /\ office' = [office EXCEPT ![d] = [at |-> p, status |-> increase.status,
                                                percent |-> increase.percent, position |-> position]]
LeavesOffice(d) == office' = [office EXCEPT ![d] = NoVisit]
Missed(d) == tooLate' = (tooLate \/ (increase.status = "applied" /\ office[d].status = "draft"))

-----------------------------------------------------------------------------
(* A person edits the price, or the import from Microtech sets it.            *)
PriceMoves ==
  /\ priceMoves < MaxPriceMoves /\ priceMoves' = priceMoves + 1
  /\ \E v \in Prices, r \in Rebates, s \in SpecialKinds :
       /\ r < v /\ basePrice' = [price |-> v, rebate |-> r, special |-> s]
       /\ basePrice' # basePrice
  /\ touched' = TRUE
  /\ UNCHANGED <<channelPrice, active, increase, position, office, promised, passedOn, tooLate, retuned, visitsPaid>>

ProductMoves ==
  /\ priceMoves < MaxPriceMoves /\ priceMoves' = priceMoves + 1
  /\ active' = ~active
  /\ UNCHANGED <<basePrice, channelPrice, increase, position, office, promised, touched, passedOn, tooLate, retuned, visitsPaid>>

-----------------------------------------------------------------------------
(* "Produkte neu laden": the status is checked on the loaded increase, then    *)
(* sync_items reads the prices, then it writes position by position.          *)
ReloadUnchecked(d) ==
  /\ OfficeLoads(d, "reload")
  /\ UNCHANGED <<basePrice, channelPrice, active, increase, position, promised, touched, passedOn, tooLate, retuned, priceMoves>>

ReloadChecks(d) ==
  /\ increase.status # "applied"
  /\ ReloadUnchecked(d)

ReloadReads(d) ==
  /\ OfficeAt(d, "reload")
  /\ office' = [office EXCEPT ![d].at = "loaded",
                              ![d].position = IF active THEN ReadFrom(basePrice, NoPosition) ELSE NoPosition]
  /\ UNCHANGED <<basePrice, channelPrice, active, increase, position, promised, touched, passedOn, tooLate, retuned, visitsPaid, priceMoves>>

ReloadWrites(d) ==
  /\ OfficeAt(d, "loaded")
  /\ position' = IF office[d].position = NoPosition THEN NoPosition ELSE ReadFrom(office[d].position, position)
  /\ LeavesOffice(d) /\ Missed(d)
  /\ UNCHANGED <<basePrice, channelPrice, active, increase, promised, touched, passedOn, retuned, visitsPaid, priceMoves>>

(* A target: the position is loaded, checked, and saved as a whole.           *)
TargetLoads(d) ==
  /\ increase.status # "applied" /\ active /\ position # NoPosition
  /\ OfficeLoads(d, "target")
  /\ UNCHANGED <<basePrice, channelPrice, active, increase, position, promised, touched, passedOn, tooLate, retuned, priceMoves>>

TargetSaves(d) ==
  /\ OfficeAt(d, "target")
  /\ \E v \in NewTargets, r \in NewTargets :
       LET saved == [office[d].position EXCEPT !.newPrice = v, !.newRebate = r]
       IN /\ CleanTarget(saved, office[d].percent)
          \* a position that was deleted meanwhile comes back
          /\ position' = saved
  /\ LeavesOffice(d) /\ Missed(d)
  /\ UNCHANGED <<basePrice, channelPrice, active, increase, promised, touched, passedOn, retuned, visitsPaid, priceMoves>>

(* The form of the increase saves the row it has loaded, the status with it.   *)
FormLoads(d) ==
  /\ OfficeLoads(d, "form")
  /\ UNCHANGED <<basePrice, channelPrice, active, increase, position, promised, touched, passedOn, tooLate, retuned, priceMoves>>

FormSaves(d) ==
  /\ OfficeAt(d, "form")
  /\ \E q \in Percents :
       /\ increase' = [status |-> office[d].status, percent |-> q]
       /\ retuned' = (retuned \/ (increase.status = "applied" /\ q # increase.percent))
  /\ LeavesOffice(d) /\ Missed(d)
  /\ UNCHANGED <<basePrice, channelPrice, active, position, promised, touched, passedOn, visitsPaid, priceMoves>>

(* apply: status and percentage are those of the loaded increase; positions    *)
(* and prices are read and written in one transaction, the other channels are  *)
(* told when it has committed.                                               *)
IncreaseLoads(d) ==
  /\ OfficeLoads(d, "apply")
  /\ UNCHANGED <<basePrice, channelPrice, active, increase, position, promised, touched, passedOn, tooLate, retuned, priceMoves>>

IncreaseRefuses(d) ==
  /\ OfficeAt(d, "apply")
  /\ office[d].status = "applied" \/ ~Sound(position, office[d].percent)
  /\ LeavesOffice(d)
  /\ UNCHANGED <<basePrice, channelPrice, active, increase, position, promised, touched, passedOn, tooLate, retuned, visitsPaid, priceMoves>>

IncreaseCommits(d) ==
  /\ OfficeAt(d, "apply")
  /\ office[d].status # "applied" /\ Sound(position, office[d].percent)
  /\ promised' = [price |-> NewPrice(position, office[d].percent), rebate |-> NewRebate(position, office[d].percent)]
  /\ basePrice' = [basePrice EXCEPT !.price = promised'.price, !.rebate = promised'.rebate]
  /\ increase' = [increase EXCEPT !.status = "applied"]
  /\ office' = [office EXCEPT ![d].at = "announce"]
  /\ touched' = FALSE /\ passedOn' = FALSE
  /\ retuned' = (retuned \/ office[d].percent # increase.percent)
  /\ UNCHANGED <<channelPrice, active, position, tooLate, visitsPaid, priceMoves>>

(* sync_price_increase_to_other_sales_channels                              *)
IncreaseAnnounces(d) ==
  /\ OfficeAt(d, "announce")
  /\ channelPrice' = ForChannel(basePrice)
  /\ passedOn' = TRUE
  /\ LeavesOffice(d)
  /\ UNCHANGED <<basePrice, active, increase, position, promised, touched, tooLate, retuned, visitsPaid, priceMoves>>

(* The process dies between the commit and the signal.                       *)
OfficeDies(d) ==
  /\ ~OfficeAt(d, "out") /\ priceMoves < MaxPriceMoves /\ priceMoves' = priceMoves + 1
  /\ LeavesOffice(d)
  /\ UNCHANGED <<basePrice, channelPrice, active, increase, position, promised, touched, passedOn, tooLate, retuned, visitsPaid>>

(* restore_applied, one transaction with the signal inside: the targets once   *)
(* more, direct specials dropped, percentage specials computed again.         *)
Restores ==
  /\ visitsPaid < MaxVisitsPaid /\ visitsPaid' = visitsPaid + 1
  /\ increase.status = "applied" /\ Sound(position, increase.percent)
  /\ basePrice' = [price |-> NewPrice(position, increase.percent),
                   rebate |-> NewRebate(position, increase.percent),
                   special |-> IF basePrice.special = "direct" THEN "none" ELSE basePrice.special]
  /\ channelPrice' = ForChannel(basePrice')
  /\ touched' = FALSE /\ passedOn' = TRUE
  /\ UNCHANGED <<active, increase, position, office, promised, tooLate, retuned, priceMoves>>

-----------------------------------------------------------------------------
IncreaseNext ==
  \/ PriceMoves \/ ProductMoves \/ Restores
  \/ \E d \in Offices : \/ ReloadChecks(d) \/ ReloadReads(d) \/ ReloadWrites(d)
                        \/ TargetLoads(d) \/ TargetSaves(d) \/ FormLoads(d) \/ FormSaves(d)
                        \/ IncreaseLoads(d) \/ IncreaseRefuses(d) \/ IncreaseCommits(d) \/ IncreaseAnnounces(d)
                        \/ OfficeDies(d)

IncreaseSpec == IncreaseInit /\ [][IncreaseNext]_increaseVars

-----------------------------------------------------------------------------
(* Properties                                                               *)

(* However often an increase is applied, restored and reloaded, and whatever    *)
(* pages are open meanwhile: the price is the one that was written when it was  *)
(* applied, never increased a second time, and the other channel follows it     *)
(* once it was told, until somebody sets the price.  A page opened before the   *)
(* increase was applied and saved after that, or another percentage, may break *)
(* it.                                                                      *)
IncreasedOnce ==
  increase.status = "applied" /\ ~tooLate /\ ~retuned /\ ~touched =>
    /\ basePrice.price = promised.price /\ basePrice.rebate = promised.rebate
    /\ passedOn => channelPrice = ForChannel(basePrice)
=============================================================================
