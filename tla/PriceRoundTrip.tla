---------------------------- MODULE PriceRoundTrip ----------------------------
(***************************************************************************)
(* The price of a product between Django and Microtech.  A person edits it        *)
(* in Django, a product job pushes it (microtech_update_prices); the          *)
(* scheduled sync reads all products in a batch and imports what it read      *)
(* (products/tasks.py, microtech_sync_products.py); specials that are over    *)
(* are cleared in Django and then in Microtech (expired_specials.py), by the  *)
(* sync and by a task of its own.                                            *)
(*                                                                          *)
(* One product, active, in the default channel.  Microtech takes no graduated *)
(* price (Staffel, the rebate) while there is a special, so the rebate is     *)
(* blanked there and kept in Django to be restored.  A special is a number    *)
(* that stands for its price and dates; the base price is left out.           *)
(***************************************************************************)
EXTENDS Naturals

CONSTANTS
  MaxSpecials,   \* bound: specials a person sets
  MaxRebates,    \* bound: other rebates than none
  MaxPriceEdits, \* bound: edits
  MaxPriceFaults \* bound: writes that fail, workers that die

ASSUME PriceBounds ==
  MaxSpecials \in Nat /\ MaxRebates \in Nat /\ MaxPriceEdits \in Nat /\ MaxPriceFaults \in Nat

Specials == 1 .. MaxSpecials
Writers == {"push", "sync", "expiry"}

VARIABLES
  price,         \* Price in Django: special, is it a percentage, rebate
  microtech,     \* the price in Microtech
  ended,         \* the specials whose end date is past
  given,         \* the specials set so far are 1 .. given
  waiting,       \* a product job waits to push
  writing,       \* per writer: the payload it has read and not written yet
  batch,         \* the scheduled sync: where it is and what the wrapper has read
  wanted,        \* history: the rebate the person set last
  knows,         \* history: that rebate was in a payload Microtech took
  overtaken,     \* history: an import used what was read before that
  priceEdits, priceFaults

priceVars == <<price, microtech, ended, given, waiting, writing, batch, wanted, knows,
               overtaken, priceEdits, priceFaults>>

-----------------------------------------------------------------------------
Nothing == [on |-> FALSE, special |-> 0, rebate |-> 0, fresh |-> FALSE]
Vk0 == [special : 0 .. MaxSpecials, rebate : 0 .. MaxRebates]
NoPayload == [at |-> "off", special |-> 0, rebate |-> 0, knows |-> FALSE]

PriceTypeOK ==
  /\ price \in [special : 0 .. MaxSpecials, percent : BOOLEAN, rebate : 0 .. MaxRebates]
  /\ microtech \in Vk0
  /\ ended \subseteq Specials /\ given \in 0 .. MaxSpecials
  /\ waiting \in BOOLEAN
  /\ writing \in [Writers -> [on : BOOLEAN, special : 0 .. MaxSpecials, rebate : 0 .. MaxRebates,
                              fresh : BOOLEAN]]
  /\ batch \in [at : {"off", "read", "imported", "restore"}, special : 0 .. MaxSpecials,
                rebate : 0 .. MaxRebates, knows : BOOLEAN]
  /\ wanted \in 0 .. MaxRebates /\ knows \in BOOLEAN /\ overtaken \in BOOLEAN
  /\ priceEdits \in 0 .. MaxPriceEdits /\ priceFaults \in 0 .. MaxPriceFaults

PriceInit ==
  /\ \E r \in 0 .. MaxRebates : /\ wanted = r
                                /\ price = [special |-> 0, percent |-> FALSE, rebate |-> r]
                                /\ microtech = [special |-> 0, rebate |-> r]
  /\ ended = {} /\ given = 0 /\ waiting = FALSE
  /\ writing = [w \in Writers |-> Nothing] /\ batch = NoPayload
  /\ knows = TRUE /\ overtaken = FALSE /\ priceEdits = 0 /\ priceFaults = 0

(* build_complete_price_payload: every field, empty ones as empty values.    *)
Payload(special, rebate) == [special |-> special, rebate |-> IF special # 0 THEN 0 ELSE rebate]

-----------------------------------------------------------------------------
(* A person, in the admin: Price.save, and the product job that follows.      *)
Edited == priceEdits < MaxPriceEdits /\ priceEdits' = priceEdits + 1 /\ waiting' = TRUE

SetsSpecial ==
  /\ Edited /\ given < MaxSpecials /\ given' = given + 1
  /\ \E percent \in BOOLEAN : price' = [price EXCEPT !.special = given', !.percent = percent]
  /\ UNCHANGED <<microtech, ended, writing, batch, wanted, knows, overtaken, priceFaults>>

RemovesSpecial ==
  /\ Edited /\ price.special # 0
  /\ price' = [price EXCEPT !.special = 0, !.percent = FALSE]
  /\ UNCHANGED <<microtech, ended, given, writing, batch, wanted, knows, overtaken, priceFaults>>

SetsRebate(r) ==
  /\ Edited /\ r # price.rebate
  /\ price' = [price EXCEPT !.rebate = r]
  /\ wanted' = r /\ knows' = FALSE /\ overtaken' = FALSE
  /\ writing' = [w \in Writers |-> [writing[w] EXCEPT !.fresh = FALSE]]
  /\ batch' = [batch EXCEPT !.knows = FALSE]
  /\ UNCHANGED <<microtech, ended, given, priceFaults>>

SpecialEnds(s) ==
  /\ s \in 1 .. given /\ s \notin ended
  /\ ended' = ended \cup {s}
  /\ UNCHANGED <<price, microtech, given, waiting, writing, batch, wanted, knows, overtaken, priceEdits, priceFaults>>

-----------------------------------------------------------------------------
(* Writing to Microtech.  The payload is read from Django, update_product     *)
(* waits for the wrapper; it is taken, or not: microtech_update_prices prints *)
(* the error and ends, the sync and the task end with it.                    *)
Reads(w, payload) ==
  writing' = [writing EXCEPT ![w] = [on |-> TRUE, special |-> payload.special,
                                     rebate |-> payload.rebate, fresh |-> ~overtaken]]

PushReads ==
  /\ waiting /\ ~writing["push"].on
  /\ waiting' = FALSE
  /\ Reads("push", Payload(price.special, price.rebate))
  /\ UNCHANGED <<price, microtech, ended, given, batch, wanted, knows, overtaken, priceEdits, priceFaults>>

Writes(w) ==
  /\ writing[w].on
  /\ microtech' = [special |-> writing[w].special, rebate |-> writing[w].rebate]
  /\ knows' = writing[w].fresh
  /\ writing' = [writing EXCEPT ![w] = Nothing]
  /\ batch' = IF w = "sync" THEN NoPayload ELSE batch
  /\ UNCHANGED <<price, ended, given, waiting, wanted, overtaken, priceEdits, priceFaults>>

WriteFails(w) ==
  /\ writing[w].on
  /\ priceFaults < MaxPriceFaults /\ priceFaults' = priceFaults + 1
  /\ writing' = [writing EXCEPT ![w] = Nothing]
  /\ batch' = IF w = "sync" THEN NoPayload ELSE batch
  /\ UNCHANGED <<price, microtech, ended, given, waiting, wanted, knows, overtaken, priceEdits>>

-----------------------------------------------------------------------------
(* scheduled_product_sync: the wrapper reads the products ...                *)
BatchReads ==
  /\ batch.at = "off"
  /\ batch' = [at |-> "read", special |-> microtech.special, rebate |-> microtech.rebate, knows |-> knows]
  /\ UNCHANGED <<price, microtech, ended, given, waiting, writing, wanted, knows, overtaken, priceEdits, priceFaults>>

(* ... and _scheduled_product_sync_continuation imports what it read          *)
(* (_save_microtech_price, Price.save).  A special that is a percentage stays  *)
(* when Microtech has none, with new dates.                                  *)
MutantImportedRebate == batch.rebate

ImportedRebate ==
  IF batch.special # 0 /\ batch.rebate = 0 THEN price.rebate ELSE batch.rebate

ImportedSpecial ==
  IF price.percent /\ batch.special = 0 THEN price.special ELSE batch.special

Imports ==
  /\ batch.at = "read"
  /\ price' = [price EXCEPT !.special = ImportedSpecial, !.rebate = ImportedRebate]
  /\ ended' = IF price.percent /\ batch.special = 0 THEN ended \ {price.special} ELSE ended
  /\ overtaken' = (overtaken \/ ~batch.knows)
  /\ batch' = [batch EXCEPT !.at = "imported"]
  /\ UNCHANGED <<microtech, given, waiting, writing, wanted, knows, priceEdits, priceFaults>>

(* clear_expired_specials, in the sync and in expire_special_prices; what is  *)
(* cleared is then written to Microtech.                                     *)
Expired == price.special \in ended

Cleared == [price EXCEPT !.special = 0, !.percent = FALSE]

MutantSyncClears ==
  /\ batch.at = "imported"
  /\ price' = IF Expired THEN Cleared ELSE price
  /\ batch' = NoPayload
  /\ UNCHANGED <<microtech, ended, given, waiting, writing, wanted, knows, overtaken, priceEdits, priceFaults>>

SyncClears ==
  /\ batch.at = "imported"
  /\ IF Expired THEN price' = Cleared /\ batch' = [batch EXCEPT !.at = "restore"]
     ELSE batch' = NoPayload /\ UNCHANGED price
  /\ UNCHANGED <<microtech, ended, given, waiting, writing, wanted, knows, overtaken, priceEdits, priceFaults>>

SyncRestores ==
  /\ batch.at = "restore" /\ ~writing["sync"].on
  /\ Reads("sync", Payload(0, price.rebate))
  /\ UNCHANGED <<price, microtech, ended, given, waiting, batch, wanted, knows, overtaken, priceEdits, priceFaults>>

ExpiryClears ==
  /\ Expired /\ ~writing["expiry"].on
  /\ price' = Cleared
  /\ Reads("expiry", Payload(0, price.rebate))
  /\ UNCHANGED <<microtech, ended, given, waiting, batch, wanted, knows, overtaken, priceEdits, priceFaults>>

(* The worker of the continuation dies: it runs again on the same answer, or   *)
(* was run once too often.                                                   *)
WorkerDies ==
  /\ batch.at # "off"
  /\ priceFaults < MaxPriceFaults /\ priceFaults' = priceFaults + 1
  /\ batch' \in {NoPayload, [batch EXCEPT !.at = "read"]}
  /\ writing' = [writing EXCEPT !["sync"] = Nothing]
  /\ UNCHANGED <<price, microtech, ended, given, waiting, wanted, knows, overtaken, priceEdits>>

-----------------------------------------------------------------------------
PriceNext ==
  \/ SetsSpecial \/ RemovesSpecial \/ PushReads
  \/ BatchReads \/ Imports \/ SyncClears \/ SyncRestores \/ ExpiryClears \/ WorkerDies
  \/ \E r \in 0 .. MaxRebates : SetsRebate(r)
  \/ \E s \in Specials : SpecialEnds(s)
  \/ \E w \in Writers : Writes(w) \/ WriteFails(w)

(* The sync is scheduled again and again, its calls end; edits need not come. *)
PriceFairness ==
  /\ WF_priceVars(PushReads) /\ WF_priceVars(BatchReads) /\ WF_priceVars(Imports)
  /\ WF_priceVars(SyncClears) /\ WF_priceVars(SyncRestores)
  /\ \A w \in Writers : WF_priceVars(Writes(w))

PriceSpec == PriceInit /\ [][PriceNext]_priceVars /\ PriceFairness

-----------------------------------------------------------------------------
(* Properties                                                               *)

(* The rebate a person set stays in Django through specials that come, are    *)
(* over, are removed and are brought back by an import, whatever writes fail;  *)
(* unless an import used what was read before Microtech had taken the rebate. *)
RebateSurvives == ~overtaken => price.rebate = wanted

(* A special that is over does not stay in Microtech, even when the write     *)
(* that should remove it fails after Django has forgotten the special.        *)
ExpiredSpecialLeaves ==
  \A s \in Specials : (microtech.special = s /\ s \in ended) ~> ~(microtech.special = s /\ s \in ended)
=============================================================================
