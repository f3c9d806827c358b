--------------------------- MODULE NominationForm ---------------------------
(***************************************************************************)
(* The form by which the host nominates the next asset                     *)
(* (apps/web/src/components/auctions/auction-nomination-form.tsx).  It     *)
(* loads the three catalogs at once, and its fields stay locked until they *)
(* are there; the three buttons that choose the type of asset do not.      *)
(*                                                                         *)
(* An asset is an element of a catalog with a market value.  What the room *)
(* makes of a nomination is AuctionRoom's.                                 *)
(***************************************************************************)
EXTENDS Integers, Sequences

CONSTANTS
    Catalogs,       \* what a load may find: a list for each type, best first
    MarketValue,    \* of each asset
    Typed,          \* amounts a user types
    MinPrice,       \* MIN_OPENING_PRICE
    MaxPrice,       \* MAX_AUCTION_PRICE
    NoAsset         \* the empty assetId

AssetTypes == {"PLAYER", "MANAGER", "FORMATION"}

ASSUME CatalogsAssumption == Catalogs \subseteq [AssetTypes -> Seq(DOMAIN MarketValue)]

VARIABLES
    assets,     \* players, managers, formations
    form,       \* what the fields hold
    sent        \* the nomination on its way, while submitting

formVars == <<assets, form, sent>>

NoPrice == [amount |-> 0, typed |-> FALSE]
PriceOf(a) == [amount |-> MarketValue[a], typed |-> FALSE]

\* stage: assetsLoading and loadError.  price: openingPrice, and whether the
\* user typed it.  increment: minimumIncrement is within its bounds.
EmptyForm == [stage |-> "loading", type |-> "PLAYER", asset |-> NoAsset,
              price |-> NoPrice, increment |-> TRUE]
NoAssets == [t \in AssetTypes |-> <<>>]
NotSent == [type |-> "PLAYER", asset |-> NoAsset, amount |-> 0]

Selected(f, list) ==
    IF list = <<>> THEN [f EXCEPT !.asset = NoAsset, !.price = NoPrice]
    ELSE [f EXCEPT !.asset = Head(list), !.price = PriceOf(Head(list))]

-----------------------------------------------------------------------------
\* The three answers, together.  The first player becomes the selection.
LoadAssets ==
    /\ form.stage = "loading"
    /\ assets' \in Catalogs
    /\ form' = LET f == [form EXCEPT !.stage = "loaded"]
               IN  IF assets'["PLAYER"] = <<>> THEN f ELSE Selected(f, assets'["PLAYER"])
    /\ UNCHANGED sent

\* Any of the three requests fails.
FailAssets ==
    /\ form.stage = "loading"
    /\ form' = [form EXCEPT !.stage = "failed"]
    /\ UNCHANGED <<assets, sent>>

\* Mutant: the asset of the type before stays selected.
ChooseTypeOnly(t) ==
    /\ form' = [form EXCEPT !.type = t]
    /\ UNCHANGED <<assets, sent>>

\* chooseAssetType selects the first asset of the type.
ChooseAssetType(t) ==
    /\ form' = Selected([form EXCEPT !.type = t], assets[t])
    /\ UNCHANGED <<assets, sent>>

InCatalog(t, a) == \E n \in DOMAIN assets[t] : assets[t][n] = a

\* selectAsset, from the list of the type.
SelectAsset(a) ==
    /\ form.stage = "loaded"
    /\ sent = NotSent
    /\ InCatalog(form.type, a)
    /\ form' = [form EXCEPT !.asset = a, !.price = PriceOf(a)]
    /\ UNCHANGED <<assets, sent>>

\* The fields of the two amounts.
TypePrice(amount) ==
    /\ form.stage # "failed"
    /\ sent = NotSent
    /\ form' = [form EXCEPT !.price = [amount |-> amount, typed |-> TRUE]]
    /\ UNCHANGED <<assets, sent>>

TypeIncrement(valid) ==
    /\ form.stage # "failed"
    /\ sent = NotSent
    /\ form' = [form EXCEPT !.increment = valid]
    /\ UNCHANGED <<assets, sent>>

\* submitNomination, when it finds no error in the form.
SubmitNomination ==
    /\ form.stage = "loaded"
    /\ sent = NotSent
    /\ assets[form.type] # <<>>
    /\ form.asset # NoAsset
    /\ form.price.amount \in MinPrice .. MaxPrice
    /\ form.increment
    /\ sent' = [type |-> form.type, asset |-> form.asset, amount |-> form.price.amount]
    /\ UNCHANGED <<assets, form>>

\* onCreated puts the auction in the list of the room, which takes the form
\* away until that auction is over.
Nominated ==
    /\ sent # NotSent
    /\ assets' = NoAssets
    /\ form' = EmptyForm
    /\ sent' = NotSent

FailNomination ==
    /\ sent # NotSent
    /\ sent' = NotSent
    /\ UNCHANGED <<assets, form>>

-----------------------------------------------------------------------------
FormInit == assets = NoAssets /\ form = EmptyForm /\ sent = NotSent

FormNext ==
    \/ LoadAssets \/ FailAssets
    \/ \E t \in AssetTypes : ChooseAssetType(t)
    \/ \E a \in DOMAIN MarketValue : SelectAsset(a)
    \/ \E amount \in Typed : TypePrice(amount)
    \/ \E valid \in BOOLEAN : TypeIncrement(valid)
    \/ SubmitNomination \/ Nominated \/ FailNomination

FormSpec == FormInit /\ [][FormNext]_formVars

-----------------------------------------------------------------------------
\* What is sent to the API of a type of assets is one of them, at a price it
\* takes, even when the user turned to another type meanwhile.  The first
\* player is excepted, which a load that ends late selects under any type:
\* SelectedAssetIsPriced is about that.
NominatesOfItsType ==
    sent # NotSent =>
        /\ sent.amount \in MinPrice .. MaxPrice
        /\ \/ InCatalog(sent.type, sent.asset)
           \/ assets["PLAYER"] # <<>> /\ sent.asset = Head(assets["PLAYER"])

\* "The selected asset's market value is used initially.": a price nobody
\* typed is that of the asset selected among those of the type shown.
SelectedAssetIsPriced ==
    form.stage = "loaded" /\ ~form.price.typed /\ assets[form.type] # <<>> =>
        /\ InCatalog(form.type, form.asset)
        /\ form.price = PriceOf(form.asset)

=============================================================================
