------------------------------ MODULE XcmInbound ------------------------------
(***************************************************************************)
(* Execution of incoming XCM transfers under the Subzero XcmConfig         *)
(* (xcm_config.rs lines 43-114, 178-204): the Barrier, the reserve and     *)
(* teleport trust, LocationToAccountId, the LocalAssetTransactor that      *)
(* converts locations with CurrencyIdConvert, and the Trader whose fees    *)
(* ToAuthor deposits.                                                      *)
(*                                                                         *)
(* The executor and the adapters these lines plug together (xcm-executor,  *)
(* xcm-builder, orml-xcm-support) are outside this repository; they are    *)
(* modelled by what they do with a transfer message:                      *)
(*   an asset instruction (ReserveAssetDeposited, ReceiveTeleportedAsset   *)
(*   or WithdrawAsset) of a location, then BuyExecution in that asset or   *)
(*   nothing, then DepositAsset to a local account.                        *)
(* A message carries Amount units; a fee is one unit.  A message that the  *)
(* barrier or the trust check refuses changes nothing, so the action that  *)
(* executes it is not enabled.  A failed BuyExecution traps the holding    *)
(* (AssetTrap = PolkadotXcm).                                              *)
(***************************************************************************)
EXTENDS XcmCurrency

CONSTANTS
  Origins,             \* locations that send this chain messages
  MessageLocations,    \* asset locations a message may name
  Beneficiary,         \* the local account deposits go to
  Acala,               \* parachains::acala::ID
  Genesis,             \* [account, currency] -> balance at genesis
  MaxMessages          \* messages executed (bounds the model)

Amount == 2

VARIABLES
  balances,            \* [account, currency] -> Currencies balance
  unknown,             \* location -> amount held by orml_unknown_tokens
  trapped,             \* location -> amount trapped by the executor
  issued,              \* [origin, currency] -> minted for its transfers
  messages             \* messages executed so far

inboundVars == <<balances, unknown, trapped, issued, messages>>
allVars == <<vars, inboundVars>>

AccountJ(a) == [kind |-> "AccountId32", id |-> a, key |-> <<>>]
PluralityJ(b) == [kind |-> "Plurality", id |-> b, key |-> <<>>]
ParentAccount == [kind |-> "parent", id |-> 0]
SiblingAccount(p) == [kind |-> "sibling", id |-> p]
LocalAccount(a) == [kind |-> "local", id |-> a]
NoAccount == [kind |-> "none", id |-> 0]

\* AccountIdToMultiLocation: X1(AccountId32 { network: None, id }).
AccountIdToMultiLocation(a) == Loc(0, <<AccountJ(a)>>)

\* LocationToAccountId: ParentIsPreset, SiblingParachainConvertsVia and
\* AccountId32Aliases, the first that converts the location.
LocationToAccountId(l) ==
  CASE l = Parent -> ParentAccount
    [] l.parents = 1 /\ Len(l.interior) = 1
       /\ l.interior[1].kind = "Parachain" -> SiblingAccount(l.interior[1].id)
    [] l.parents = 0 /\ Len(l.interior) = 1
       /\ l.interior[1].kind = "AccountId32" -> LocalAccount(l.interior[1].id)
    [] OTHER -> NoAccount

\* ParentOrParentsExecutivePlurality
ParentOrParentsExecutivePlurality(l) ==
  l = Parent \/ l = Loc(1, <<PluralityJ("Executive")>>)

\* SpecParachain: Acala.
SpecParachain(l) == l = Loc(1, <<ParachainJ(Acala)>>)

\* Barrier: the first barrier that admits the message.  TakeWeightCredit
\* admits nothing from another chain (its weight credit is zero);
\* AllowTopLevelPaidExecutionFrom<Everything> admits a transfer that buys
\* its execution; the two AllowUnpaidExecutionFrom admit any message of
\* their origins.  Query responses and subscriptions are not transfers.
Barrier(origin, paid) ==
  \/ paid
  \/ ParentOrParentsExecutivePlurality(origin)
  \/ SpecParachain(origin)

\* IsReserve = MultiNativeAsset<AbsoluteReserveProvider>: the origin is the
\* chain part of the asset's location.  IsTeleporter = NativeAsset: the
\* asset is the origin's own native asset.
IsReserve(l, origin) ==
  LET chainPart ==
        CASE l.parents = 1 /\ l.interior # <<>>
             /\ l.interior[1].kind = "Parachain" -> Loc(1, <<l.interior[1]>>)
          [] l.parents = 1 -> Parent
          [] OTHER -> Loc(0, <<>>)
  IN chainPart = origin

IsTeleporter(l, origin) == l = origin

-----------------------------------------------------------------------------
(* Steps.                                                                  *)

\* The account DepositAsset credits: the beneficiary's location converted
\* back by LocationToAccountId.
BeneficiaryAccount == LocationToAccountId(AccountIdToMultiLocation(Beneficiary))

\* LocalAssetTransactor deposit (MultiCurrencyAdapter), onto balances b: a
\* location that CurrencyIdConvert recognises is deposited in that
\* currency; any other goes to orml_unknown_tokens.
Deposit(b, l, n) ==
  IF FromLocation(l) # NoCurrency
  THEN /\ balances' = [b EXCEPT ![<<BeneficiaryAccount, FromLocation(l)>>] = @ + n]
       /\ UNCHANGED unknown
  ELSE /\ balances' = b
       /\ unknown' = [unknown EXCEPT ![l] = @ + n]

\* The asset instruction is accepted: ReserveAssetDeposited from the
\* asset's reserve, ReceiveTeleportedAsset from a trusted teleporter, and
\* WithdrawAsset of a currency the origin's sovereign account holds.
Receive(kind, l, origin) ==
  CASE kind = "reserve" -> IsReserve(l, origin)
    [] kind = "teleport" -> IsTeleporter(l, origin)
    [] kind = "withdraw" ->
         LET who == LocationToAccountId(origin) IN
         /\ who # NoAccount
         /\ FromLocation(l) # NoCurrency
         /\ balances[<<who, FromLocation(l)>>] >= Amount

\* The balances after the asset instruction: WithdrawAsset takes the units
\* from the origin's sovereign account, in the currency of the location.
Withdrawn(kind, l, origin) ==
  IF kind = "withdraw"
  THEN [balances EXCEPT ![<<LocationToAccountId(origin), FromLocation(l)>>] = @ - Amount]
  ELSE balances

\* One transfer message from `origin`, executed by XcmExecutor<XcmConfig>.
\* A paid message buys execution with one unit of its asset, which the
\* Trader passes to ToAuthor, and deposits the rest; if no trader takes
\* the asset the holding is trapped.  An unpaid one deposits everything.
\* Units that reach a deposit or the fee were minted for the transfer,
\* unless they were withdrawn from a sovereign account.
Execute(origin, kind, l, paid, author) ==
  LET b == Withdrawn(kind, l, origin)
      mint(n) ==
        IF kind # "withdraw" /\ FromLocation(l) # NoCurrency
        THEN issued' = [issued EXCEPT ![<<origin, FromLocation(l)>>] = @ + n]
        ELSE UNCHANGED issued
  IN
  /\ messages < MaxMessages
  /\ Barrier(origin, paid)
  /\ Receive(kind, l, origin)
  /\ messages' = messages + 1
  /\ UNCHANGED registry
  /\ \/ /\ paid /\ l \in FeeLocations
        /\ TakeRevenue(l, author)
        /\ Deposit(b, l, Amount - 1)
        /\ mint(Amount)
        /\ UNCHANGED trapped
     \/ /\ paid /\ l \notin FeeLocations
        /\ trapped' = [trapped EXCEPT ![l] = @ + Amount]
        /\ balances' = b
        /\ UNCHANGED <<charged, credited, revenues, unknown, issued>>
     \/ /\ ~paid
        /\ Deposit(b, l, Amount)
        /\ mint(Amount)
        /\ UNCHANGED <<charged, credited, revenues, trapped>>

InboundInit ==
  /\ Init
  /\ balances = Genesis
  /\ unknown = [l \in MessageLocations |-> 0]
  /\ trapped = [l \in MessageLocations |-> 0]
  /\ issued = [p \in Origins \X CurrencyIds |-> 0]
  /\ messages = 0

InboundNext ==
  \/ /\ \E i \in ForeignIds, l \in RegistryLocations : RegisterAsset(i, l)
     /\ UNCHANGED inboundVars
  \/ \E o \in Origins, kind \in {"reserve", "teleport", "withdraw"},
        l \in MessageLocations, paid \in BOOLEAN, a \in Authors \cup {NoAuthor} :
       Execute(o, kind, l, paid, a)

InboundSpec == InboundInit /\ [][InboundNext]_allVars

-----------------------------------------------------------------------------
(* Properties.                                                             *)

\* A chain mints a currency here only if it holds that currency's reserve:
\* whatever a message's location, the currency the transactor and
\* ToAuthor credit for it (CurrencyIdConvert, xcm_config.rs:292-305) is
\* one whose own location (xcm_config.rs:266-274) has the sending chain as
\* its reserve.  The reserve check of the executor sees only the incoming
\* location, so a conversion that reads a sibling's key as a local token
\* would let that sibling mint it.
ReserveBacked ==
  [][\A o \in Origins, c \in CurrencyIds :
       issued'[<<o, c>>] > issued[<<o, c>>] => IsReserve(ToLocation(c), o)
    ]_allVars

====
