------------------------------ MODULE ShopProduct ------------------------------
(***************************************************************************)
(* The command shopware_sync_products, which writes a product with its prices  *)
(* and images to Shopware 6, call by call: old price rows and image relations *)
(* are deleted, then the product is upserted.  A run that breaks leaves what   *)
(* it has done; its error is logged and the command ends as a success, so      *)
(* only another run repairs it.  Runs are started by the scheduled sync, by    *)
(* product jobs and by people, and nothing keeps two apart.                  *)
(*                                                                          *)
(* One product.  Prices and images are versions; a version of the prices has   *)
(* rows of one kind (standard, or special).  Shopware keeps a row per kind and  *)
(* relation, so an upsert adds to what other calls have left.                 *)
(***************************************************************************)
EXTENDS Naturals, FiniteSets

CONSTANTS
  Runs,          \* processes that run the command
  MaxPrices,     \* bound: versions of the prices
  MaxImages,     \* bound: different images
  MaxShopEdits,  \* bound: edits in Django
  MaxShopFaults  \* bound: calls that fail, processes that die

ASSUME ShopBound ==
  MaxPrices \in Nat \ {0} /\ MaxImages \in Nat \ {0} /\ MaxShopEdits \in Nat /\ MaxShopFaults \in Nat

VARIABLES
  prices,        \* the version of the prices in Django
  images,        \* the images in Django, their version
  imageHash,     \* Product.shopware_image_sync_hash: the images last synced, 0 none
  sku,           \* Product.sku is known
  shop,          \* the product in Shopware: exists, price rows, image relations
  running,       \* per process: its step and what it has read
  crossedRuns,   \* history: two runs at once
  reverted,      \* history: a person brought earlier images back
  shopEdits, shopFaults

shopVars == <<prices, images, imageHash, sku, shop, running, crossedRuns, reverted, shopEdits, shopFaults>>

-----------------------------------------------------------------------------
Kinds == {"standard", "special"}
KindOf(v) == IF v % 2 = 1 THEN "standard" ELSE "special"
Steps == {"off", "build", "purge prices", "purge media", "upsert", "save hash",
          "create", "resolve", "purge new", "upsert new", "purge new media", "relate"}
NotRunning == [at |-> "off", prices |-> 0, images |-> 0, changed |-> FALSE, sku |-> FALSE]

ShopTypeOK ==
  /\ prices \in 1 .. MaxPrices /\ images \in 1 .. MaxImages /\ imageHash \in 0 .. MaxImages
  /\ sku \in BOOLEAN
  /\ shop \in [here : BOOLEAN, rows : [Kinds -> 0 .. MaxPrices], media : SUBSET (1 .. MaxImages)]
  /\ running \in [Runs -> [at : Steps, prices : 0 .. MaxPrices, images : 0 .. MaxImages,
                           changed : BOOLEAN, sku : BOOLEAN]]
  /\ crossedRuns \in BOOLEAN /\ reverted \in BOOLEAN
  /\ shopEdits \in 0 .. MaxShopEdits /\ shopFaults \in 0 .. MaxShopFaults

NoRows == [k \in Kinds |-> 0]

(* The product is new, or known in Shopware only, or synchronised.           *)
ShopInit ==
  /\ prices = 1 /\ images = 1
  /\ \/ /\ imageHash = 0 /\ sku = FALSE
        /\ \E here \in BOOLEAN : shop = [here |-> here, rows |-> NoRows, media |-> {}]
     \/ /\ imageHash = 1 /\ sku = TRUE
        /\ shop = [here |-> TRUE, rows |-> [NoRows EXCEPT !["standard"] = 1], media |-> {1}]
  /\ running = [r \in Runs |-> NotRunning]
  /\ crossedRuns = FALSE /\ reverted = FALSE /\ shopEdits = 0 /\ shopFaults = 0

IsAt(r, p) == running[r].at = p
RunGoesTo(r, p) == running' = [running EXCEPT ![r].at = p]
Finishes(r) == running' = [running EXCEPT ![r] = NotRunning]

-----------------------------------------------------------------------------
(* A person, or an import, changes the product.                              *)
EditsPrices ==
  /\ shopEdits < MaxShopEdits /\ shopEdits' = shopEdits + 1
  /\ prices < MaxPrices /\ prices' = prices + 1
  /\ UNCHANGED <<images, imageHash, sku, shop, running, crossedRuns, reverted, shopFaults>>

EditsImages(v) ==
  /\ shopEdits < MaxShopEdits /\ shopEdits' = shopEdits + 1
  /\ v # images /\ images' = v
  /\ reverted' = (reverted \/ v < images)
  /\ UNCHANGED <<prices, imageHash, sku, shop, running, crossedRuns, shopFaults>>

-----------------------------------------------------------------------------
(* The products are read at once, with their images and hashes; the payload   *)
(* of a batch is built later, with the prices of then and the sku that        *)
(* Shopware knows for the number.                                            *)
StartsRun(r) ==
  /\ IsAt(r, "off")
  /\ running' = [running EXCEPT ![r] = [at |-> "build", prices |-> 0, images |-> images,
                                        changed |-> (imageHash # images), sku |-> sku]]
  /\ crossedRuns' = (crossedRuns \/ \E o \in Runs : ~IsAt(o, "off"))
  /\ UNCHANGED <<prices, images, imageHash, sku, shop, reverted, shopEdits, shopFaults>>

Builds(r) ==
  /\ IsAt(r, "build")
  /\ LET known == running[r].sku \/ shop.here
     IN /\ sku' = (sku \/ known)
        /\ running' = [running EXCEPT ![r].prices = prices,
                                      ![r].at = IF known THEN "purge prices" ELSE "create"]
  /\ UNCHANGED <<prices, images, imageHash, shop, crossedRuns, reverted, shopEdits, shopFaults>>

(* purge_product_prices_by_product_and_rule                                 *)
MutantPurgesPrices(r) ==
  /\ IsAt(r, "purge prices") \/ IsAt(r, "purge new")
  /\ RunGoesTo(r, CASE IsAt(r, "purge new") -> "upsert new"
                 [] running[r].changed -> "purge media"
                 [] OTHER -> "upsert")
  /\ UNCHANGED <<prices, images, imageHash, sku, shop, crossedRuns, reverted, shopEdits, shopFaults>>

PurgesPrices(r) ==
  /\ IsAt(r, "purge prices") \/ IsAt(r, "purge new")
  /\ shop' = [shop EXCEPT !.rows = NoRows]
  /\ RunGoesTo(r, CASE IsAt(r, "purge new") -> "upsert new"
                 [] running[r].changed -> "purge media"
                 [] OTHER -> "upsert")
  /\ UNCHANGED <<prices, images, imageHash, sku, crossedRuns, reverted, shopEdits, shopFaults>>

(* purge_product_media_by_product_ids; sync_media_assets uploads the files    *)
(* and may fail before there are relations again.                            *)
PurgesMedia(r) ==
  /\ IsAt(r, "purge media") \/ IsAt(r, "purge new media")
  /\ shop' = [shop EXCEPT !.media = {}]
  /\ RunGoesTo(r, IF IsAt(r, "purge media") THEN "upsert" ELSE "relate")
  /\ UNCHANGED <<prices, images, imageHash, sku, crossedRuns, reverted, shopEdits, shopFaults>>

(* bulk_upsert: of a product that was known with prices and changed images;   *)
(* of a new one with prices first, with images in a call of its own.          *)
WithRows(s, v) == [s EXCEPT !.rows[KindOf(v)] = v]
WithMedia(s, r) == IF running[r].changed THEN [s EXCEPT !.media = @ \cup {running[r].images}] ELSE s

Upserts(r) ==
  /\ IsAt(r, "upsert")
  /\ shop' = WithMedia(WithRows(shop, running[r].prices), r)
  /\ IF running[r].changed THEN RunGoesTo(r, "save hash") ELSE Finishes(r)
  /\ UNCHANGED <<prices, images, imageHash, sku, crossedRuns, reverted, shopEdits, shopFaults>>

UpsertsNew(r) ==
  /\ IsAt(r, "upsert new")
  /\ shop' = WithRows(shop, running[r].prices)
  /\ IF running[r].changed THEN RunGoesTo(r, "purge new media") ELSE Finishes(r)
  /\ UNCHANGED <<prices, images, imageHash, sku, crossedRuns, reverted, shopEdits, shopFaults>>

Relates(r) ==
  /\ IsAt(r, "relate")
  /\ shop' = WithMedia(shop, r)
  /\ RunGoesTo(r, "save hash")
  /\ UNCHANGED <<prices, images, imageHash, sku, crossedRuns, reverted, shopEdits, shopFaults>>

MutantSavesHash(r) ==
  /\ IsAt(r, "save hash")
  /\ imageHash' = images
  /\ Finishes(r)
  /\ UNCHANGED <<prices, images, sku, shop, crossedRuns, reverted, shopEdits, shopFaults>>

SavesHash(r) ==
  /\ IsAt(r, "save hash")
  /\ imageHash' = running[r].images
  /\ Finishes(r)
  /\ UNCHANGED <<prices, images, sku, shop, crossedRuns, reverted, shopEdits, shopFaults>>

(* A product without a sku: an upsert without id creates it (Shopware refuses *)
(* a second one of the number); whether that failed or not, Shopware is asked *)
(* for the sku, and the payload is built again.                              *)
CreatesProduct(r) ==
  /\ IsAt(r, "create")
  /\ \/ shop' = [shop EXCEPT !.here = TRUE] /\ UNCHANGED shopFaults
     \/ shopFaults < MaxShopFaults /\ shopFaults' = shopFaults + 1 /\ UNCHANGED shop
  /\ RunGoesTo(r, "resolve")
  /\ UNCHANGED <<prices, images, imageHash, sku, crossedRuns, reverted, shopEdits>>

Resolves(r) ==
  /\ IsAt(r, "resolve")
  /\ sku' = (sku \/ shop.here)
  /\ IF shop.here THEN running' = [running EXCEPT ![r].at = "purge new", ![r].prices = prices]
     ELSE Finishes(r)
  /\ UNCHANGED <<prices, images, imageHash, shop, crossedRuns, reverted, shopEdits, shopFaults>>

(* A call fails (the error is logged for the batch) or the process dies.      *)
RunBreaks(r) ==
  /\ ~IsAt(r, "off")
  /\ shopFaults < MaxShopFaults /\ shopFaults' = shopFaults + 1
  /\ Finishes(r)
  /\ UNCHANGED <<prices, images, imageHash, sku, shop, crossedRuns, reverted, shopEdits>>

-----------------------------------------------------------------------------
RunStep(r) ==
  \/ StartsRun(r) \/ Builds(r) \/ PurgesPrices(r) \/ PurgesMedia(r) \/ Upserts(r) \/ UpsertsNew(r)
  \/ Relates(r) \/ SavesHash(r) \/ CreatesProduct(r) \/ Resolves(r)

ShopNext ==
  \/ EditsPrices
  \/ \E v \in 1 .. MaxImages : EditsImages(v)
  \/ \E r \in Runs : RunStep(r) \/ RunBreaks(r)

(* The scheduled sync comes again and again, and its runs go on.             *)
ShopFairness == \A r \in Runs : WF_shopVars(RunStep(r))

ShopSpec == ShopInit /\ [][ShopNext]_shopVars /\ ShopFairness

-----------------------------------------------------------------------------
(* Properties                                                               *)

Resting == \A r \in Runs : IsAt(r, "off")

(* When no run is under way and the hash says that the images were synced,     *)
(* the product in Shopware has these images and no others: runs that broke     *)
(* between the purge and the upsert left the hash of other images.  Two runs   *)
(* at once, or earlier images that come back after a purge, may break it.      *)
HashTellsMedia ==
  Resting /\ ~crossedRuns /\ ~reverted /\ imageHash = images => shop.media = {images}

(* Again and again the shop has the current prices, and no row of another     *)
(* kind is left, whatever runs broke and however runs overlapped.             *)
ShopCatchesUp ==
  []<>(\A k \in Kinds : shop.rows[k] = IF k = KindOf(prices) THEN prices ELSE 0)
=============================================================================
