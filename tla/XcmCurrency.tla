----------------------------- MODULE XcmCurrency -----------------------------
(***************************************************************************)
(* The currency conversions of the Subzero runtime's XCM configuration,    *)
(* src/bin/subzero/runtime/src/xcm_config.rs: CurrencyIdConvert in both    *)
(* directions, the locations of the chain's own tokens, and ToAuthor,      *)
(* which credits the fees the Trader takes to the block author.            *)
(*                                                                         *)
(* The asset registry (orml_asset_registry) is outside this repository: it *)
(* is the environment, a map from foreign asset ids to locations that is   *)
(* injective (the registry refuses a location already in use) and that     *)
(* governance changes at any time.  Fee revenue arrives in any asset the   *)
(* Trader charges in.                                                      *)
(***************************************************************************)
EXTENDS Naturals, Sequences, FiniteSets, FiniteSetsExt, Functions, TLC

CONSTANTS
  SelfPara,            \* ParachainInfo::get()
  OtherParas,          \* sibling parachain ids
  ForeignIds,          \* ids of the registry's foreign assets
  RegistryLocations,   \* locations governance may register a foreign asset at
  Authors,             \* possible block authors
  Treasury,            \* TreasuryAccountId
  NoAuthor,            \* pallet_authorship reports no author
  MaxRevenue           \* revenue events (bounds the model)

VARIABLES
  registry,            \* foreign id -> registered location, or NoLocation
  charged,             \* currency -> fees the Trader took in that asset
  credited,            \* [account, currency] -> amount deposited by ToAuthor
  revenues             \* revenue events so far

vars == <<registry, charged, credited, revenues>>

-----------------------------------------------------------------------------
(* CurrencyId and its SCALE codec.  The enum is defined in the runtime     *)
(* crate, outside this repository: five unit variants and                  *)
(* ForeignAsset(id).  SCALE writes the variant index and then the payload, *)
(* and decode reads a value from the front of the bytes, ignoring the rest.*)

Token(name) == [kind |-> "token", id |-> name]
Foreign(i) == [kind |-> "foreign", id |-> i]
NoCurrency == [kind |-> "none", id |-> "none"]

DOT == Token("DOT")
KSM == Token("KSM")
ZERO == Token("ZERO")
GAME == Token("GAME")
PLAY == Token("PLAY")
Natives == {DOT, KSM, ZERO, GAME, PLAY}
CrossChain == {ZERO, GAME, PLAY}
CurrencyIds == Natives \cup {Foreign(i) : i \in ForeignIds}

VariantIndex == DOT :> 0 @@ KSM :> 1 @@ ZERO :> 2 @@ GAME :> 3 @@ PLAY :> 4
ForeignIndex == 5

Encode(c) == IF c \in Natives THEN <<VariantIndex[c]>>
             ELSE <<ForeignIndex, c.id>>

Decode(key) ==
  IF key # <<>> /\ key[1] \in Range(VariantIndex)
  THEN CHOOSE c \in Natives : VariantIndex[c] = key[1]
  ELSE IF Len(key) >= 2 /\ key[1] = ForeignIndex /\ key[2] \in ForeignIds
  THEN Foreign(key[2])
  ELSE NoCurrency

-----------------------------------------------------------------------------
(* MultiLocation: parents and a sequence of junctions.  A GeneralKey holds *)
(* its bytes up to `length`; keys here are at most two bytes, well within  *)
(* the 32 that BoundedVec::try_from accepts, so that conversion succeeds.  *)

ParachainJ(p) == [kind |-> "Parachain", id |-> p, key |-> <<>>]
KeyJ(k) == [kind |-> "GeneralKey", id |-> 0, key |-> k]
Loc(p, js) == [parents |-> p, interior |-> js]

Parent == Loc(1, <<>>)
NoLocation == Loc(0, <<>>)   \* Here: never the location of a currency

\* The foreign assets that have a location in the registry.
Registered == {i \in ForeignIds : registry[i] # NoLocation}

\* native_currency_location
NativeCurrencyLocation(para, key) == Loc(1, <<ParachainJ(para), KeyJ(key)>>)

\* Mutant: the local key located under the relay chain (parents 1).
LocalCurrencyLocationRelative(c) == Loc(1, <<KeyJ(Encode(c))>>)

\* local_currency_location
LocalCurrencyLocation(c) == Loc(0, <<KeyJ(Encode(c))>>)

\* Convert<CurrencyId, Option<MultiLocation>>: the registry's answer for a
\* foreign asset, None (here NoLocation) when it has none.
ToLocation(c) ==
  CASE c \in {DOT, KSM}  -> Parent
    [] c \in CrossChain  -> NativeCurrencyLocation(SelfPara, Encode(c))
    [] OTHER            -> registry[c.id]

\* Mutant: decode_currency_id without its check of cross-chain tokens.
DecodeCurrencyIdAny(key) == Decode(key)

\* decode_currency_id: only the chain's cross-chain tokens are accepted.
DecodeCurrencyId(key) ==
  IF Decode(key) \in CrossChain THEN Decode(key) ELSE NoCurrency

\* Mutant: the parachain of a keyed location is not compared with this one.
MatchLocationAnyPara(l) ==
  CASE l = Parent -> DOT
    [] l.parents = 1 /\ Len(l.interior) = 2
       /\ l.interior[1].kind = "Parachain"
       /\ l.interior[2].kind = "GeneralKey"
       -> DecodeCurrencyId(l.interior[2].key)
    [] l.parents = 0 /\ Len(l.interior) = 1
       /\ l.interior[1].kind = "GeneralKey"
       -> DecodeCurrencyId(l.interior[1].key)
    [] OTHER -> NoCurrency

\* The match of Convert<MultiLocation, Option<CurrencyId>>, before or_else.
MatchLocation(l) ==
  CASE l = Parent -> DOT
    [] l.parents = 1 /\ Len(l.interior) = 2
       /\ l.interior[1].kind = "Parachain" /\ l.interior[1].id = SelfPara
       /\ l.interior[2].kind = "GeneralKey"
       -> DecodeCurrencyId(l.interior[2].key)
    [] l.parents = 0 /\ Len(l.interior) = 1
       /\ l.interior[1].kind = "GeneralKey"
       -> DecodeCurrencyId(l.interior[1].key)
    [] OTHER -> NoCurrency

\* Convert<MultiLocation, Option<CurrencyId>>: the match, or else the
\* registry's foreign asset at that location.
FromLocation(l) ==
  IF MatchLocation(l) # NoCurrency THEN MatchLocation(l)
  ELSE IF \E i \in Registered : registry[i] = l
  THEN Foreign(CHOOSE i \in Registered : registry[i] = l)
  ELSE NoCurrency

\* The assets the Trader charges fees in: the four fixed rates, and every
\* registered asset (ChainFixedConversionRateProvider finds its metadata).
FeeLocations ==
  {Parent} \cup {LocalCurrencyLocation(c) : c \in CrossChain}
  \cup {registry[i] : i \in Registered}

\* The asset the Trader takes a fee at `l` in: the first of its traders
\* that accepts `l`, the four fixed rates in order and then the registry's.
TraderAsset(l) ==
  CASE l = Parent -> DOT
    [] \E c \in CrossChain : l = LocalCurrencyLocation(c)
       -> CHOOSE c \in CrossChain : l = LocalCurrencyLocation(c)
    [] OTHER -> Foreign(CHOOSE i \in Registered : registry[i] = l)

-----------------------------------------------------------------------------
(* Steps.                                                                  *)

\* The environment: governance registers a foreign asset at a location no
\* other asset holds, or moves a registered asset to such a location.
RegisterAsset(i, l) ==
  /\ l \notin Range(registry)
  /\ registry' = [registry EXCEPT ![i] = l]
  /\ UNCHANGED <<charged, credited, revenues>>

\* A fee the Trader takes at `l`, handed to ToAuthor::take_revenue: it is
\* deposited in the currency the location converts back to, to the block
\* author or, without one, to the treasury; an asset that does not convert
\* is not deposited at all.
TakeRevenue(l, author) ==
  LET c == FromLocation(l)
      to == IF author = NoAuthor THEN Treasury ELSE author
  IN
  /\ revenues < MaxRevenue
  /\ revenues' = revenues + 1
  /\ charged' = [charged EXCEPT ![TraderAsset(l)] = @ + 1]
  /\ IF c # NoCurrency
     THEN credited' = [credited EXCEPT ![<<to, c>>] = @ + 1]
     ELSE UNCHANGED credited
  /\ UNCHANGED registry

Init ==
  /\ registry = [i \in ForeignIds |-> NoLocation]
  /\ credited = [p \in (Authors \cup {Treasury}) \X CurrencyIds |-> 0]
  /\ charged = [c \in CurrencyIds |-> 0]
  /\ revenues = 0

Next ==
  \/ \E i \in ForeignIds, l \in RegistryLocations : RegisterAsset(i, l)
  \/ \E l \in FeeLocations, a \in Authors \cup {NoAuthor} : TakeRevenue(l, a)

Spec == Init /\ [][Next]_vars

-----------------------------------------------------------------------------
(* Properties.                                                             *)

\* Every currency the chain recognises in an incoming location can be sent
\* back out: CurrencyIdConvert turns it into a location that converts back
\* to the same currency, whatever the registry holds.
RecognisedRoundTrip ==
  \A l \in {Parent} \cup RegistryLocations
           \cup {LocalCurrencyLocation(c) : c \in CurrencyIds}
           \cup {ToLocation(c) : c \in CurrencyIds} :
    LET c == FromLocation(l) IN
    c # NoCurrency => /\ ToLocation(c) # NoLocation
                      /\ FromLocation(ToLocation(c)) = c

\* ToAuthor deposits every fee in the asset the Trader took it in: for each
\* currency, what the author and the treasury were credited equals what the
\* Trader charged.  take_revenue recovers the currency from the location
\* alone (xcm_config.rs:151), so a location that the fixed match of
\* CurrencyIdConvert reads differently from the Trader, or that does not
\* convert at all, breaks it.
FeesCreditedAsCharged ==
  \A c \in CurrencyIds :
    charged[c] = SumFunction([a \in Authors \cup {Treasury} |-> credited[<<a, c>>]])

\* CurrencyIdConvert is a round trip from the currency side: a currency
\* sent to a location (by xtokens) is the currency that location is
\* credited as when it comes back.
RoundTrip ==
  \A c \in CurrencyIds :
    ToLocation(c) # NoLocation => FromLocation(ToLocation(c)) = c

====
