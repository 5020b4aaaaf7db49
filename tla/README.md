# TLA+ models of the council election and the Subzero XCM configuration

This directory models two parts of the repository: the on-chain council
election of the demo runtime (`src/demo/runtime/src/runtime/council.rs`),
with its unit tests, and the currency conversions and inbound transfer
execution of the Subzero runtime's XCM configuration (`src/bin/subzero/runtime/src/xcm_config.rs`). It contains TLA+ modules, TLC
configurations, and `PROJECT.json`, the machine-readable index of components,
runs, mutants, source map, findings and hazards.

## The system

`council.rs` runs a bonded approval-voting election for a council of
`desired_seats` members with fixed terms. It has these parts:

| Part | Storage | Operations |
|---|---|---|
| Parameter store | bonds, slash per voter, carry count, voting period, desired seats, presentation duration, term duration | three privileged setters (lines 397-422) |
| Candidacy registry | `cou:cnd` (candidate slots, holes are `AccountId::default()`), `cou:cnc` (count), `cou:reg` (vote index and slot per candidate) | `submit_candidacy` (324-350) |
| Voter registry | `cou:vrs` (voter list), `cou:apr` (approvals aligned to slots), `cou:lac` (last active vote index) | `set_approvals` (244-264), `retract_voter` (311-319), `kill_inactive_voter` (271-301), `remove_voter` (303-308) |
| Tally scheduler | `cou:vc` (vote count), active council with expiries | `next_vote_from` (162-166), `next_tally` (168-196), `end_block` (431-445) |
| Presentation window | `cou:nxt` (end, comers, leavers), `cou:sss` (stake snapshot), `cou:win` (leaderboard) | `start_tally` (449-466), `present` (355-388) |
| Finalizer | all of the above | `finalise_tally` (472-528) |
| Council membership | `cou:act` | `remove_member` (404-410), and the finaliser |
| Staking ledger | balances | read and written through `Staking` (external) |

How the parts interact:

- Voters approve candidate *slots* and lock a voting bond.
- At a voting-period boundary that is also the next tally, `end_block` calls
  `start_tally`. It opens a presentation window when seats would be empty,
  snapshots voter balances and creates a zeroed leaderboard.
- During the window anyone may `present` a candidate with a claimed total.
  A true total enters the sorted board. A false one is slashed.
- At the window's end `finalise_tally` does four things:
  - it seats the top entries;
  - it refunds the bonds of winners;
  - it keeps runners-up as candidates at their old slots;
  - it clears every other registration.

`kill_inactive_voter` lets anyone remove a voter whose approvals no longer
count, for the voting bond as a reward. A wrong report costs the reporter its
own bond.

`xcm_config.rs` plugs the chain into the XCM executor. An incoming transfer
passes the `Barrier` (paid, or from the relay chain, its executive body or
Acala), is trusted as a reserve or teleport deposit or withdraws from the
sender's sovereign account (`LocationToAccountId`), buys execution through
the `Trader`, whose fee `ToAuthor` deposits, and is deposited by the
`LocalAssetTransactor`. Both the transactor and `ToAuthor` find the
currency of a location with `CurrencyIdConvert`, which reads fixed locations
first and the asset registry second.

The other source files are not modelled. They are generated weights, module
lists, test stubs and crate roots. `PROJECT.json` lists each with its reason.

## Modules

- **`Council.tla`** models the whole council module as one state machine. The
  parts share every storage item (for example, `finalise_tally` writes the
  candidate registry, the council, the balances and the window), so splitting
  them would only re-export the same variables.
  - **Variables:** one per storage item. Names follow the Rust getters
    (`candidates`, `registerInfo`, `approvalsOf`, `lastActiveOf`,
    `activeCouncil`, `nextFinalise`, `snapshotedStakes`, `leaderboard`, ...).
    `now` is the block number. `extrinsics` counts the calls in the current
    block.
  - **Actions:** one per public or privileged call (`SetApprovals`,
    `RetractVoter`, `KillInactiveVoter`, `SubmitCandidacy`, `Present`,
    `SetDesiredSeats`, `RemoveMember`, `SetPresentationDuration`,
    `SetTermDuration`), plus `EndBlock` for the hook and the tick of the
    clock.
  - **Guards:** the `ensure!`s and early returns of each call. A call whose
    `ensure!` fails returns an error and changes nothing, so it is a stutter
    and is not modelled as a step.
  - **`EndBlock`:** has one disjunct per outcome of the hook's two tests:
    - idle;
    - `start_tally` only;
    - `finalise_tally` only;
    - `start_tally` opening a zero-length window that the second test
      finalises in the same block.
  - **Helpers that mirror the code:**
    - `NextTally` follows `next_tally`, including the `usize` count at
      line 179.
    - `ActualTotal` is `present`'s recomputation over the snapshot.
    - `SortByTotal` is the stable `sort_by_key`.
    - `TakeWhile`, `SwapRemove`, `Ranked`, `Winners`, `Staying` and
      `BondReturns` are the iterator chains of `start_tally` and
      `finalise_tally`.
  - **Data abstraction:**
    - Accounts are model values, and the default account is `Empty`.
    - An `Option::None` is `None`.
    - Approval vectors are padded to `MaxCandidates` slots. Padding `false`
      reads like the code's "index beyond the vector is not an approval".
    - The `expiring` list is stored only as its length. The code writes
      `Vec<(AccountId, BlockNumber)>` and reads back `Vec<AccountId>`, so only
      the length prefix survives, and only the length is used.
- **`MCCouncil.tla`** instantiates the model for TLC. It provides the account
  model values, equal initial balances (3, or 5 in `MCRichBalance` so that a
  candidate who votes keeps a non-zero stake), the symmetry set of account
  permutations, and the refinement mapping to `Leaderboard`.
- **`Leaderboard.tla`** is the abstract specification of a presentation
  window's board. The board is a multiset of `[total, who]` entries.
  - `Open(n)` is `start_tally` writing n placeholder entries.
  - `Admit(e)` is an accepted `present`. It replaces one lowest entry with
    `e`, whose total is higher and whose candidate holds no place yet.
  - `Close` is `finalise_tally` taking the board out of storage.

  `MCCouncil` maps `cou:win` to the multiset of its entries (`ToBag`) and the
  absent key to `Closed`. `LeaderboardRefinement == LB!Spec` is checked as a
  property. The vector, its index 0 and the stable re-sort are how the code
  implements the abstract board.
- **`CouncilTests.tla`** replays the sixteen unit tests of `council.rs`
  (lines 583-1015) against `Council`.
  - `Genesis` is `new_test_ext`, with balances 10 to 60 and the test
    parameters: bonds 9 and 3, period 4, presentation 2, term 5, two seats
    and carry count 2. The tests of free slots add
    `new_test_ext_with_candidate_holes` on top of it.
  - `Script(t)` is the test's calls and `end_block`s, in order.
  - A `should_panic` call is a step whose action must not be enabled.
  - `After(t, k)` keys each `assert_eq!` to the point of the script where
    the test makes it.
  - The tests set the block number from 4 to 6 with `with_env`. Here the
    hook of block 5, which has nothing to do, runs in between.

  When a script has run, one more step of Council's `Next` is taken, so the
  whole run explores the states around the tests' own configuration.
- **`XcmCurrency.tla`** models the currency conversions of `xcm_config.rs`.
  - Variables: `registry` (the asset registry, foreign id to location),
    `charged` (the fees the `Trader` took, per asset), `credited` (what
    `ToAuthor` deposited, per account and currency) and `revenues` (a
    bound).
  - `ToLocation` and `FromLocation` are the two directions of
    `CurrencyIdConvert`. `MatchLocation` is the fixed match, and
    `DecodeCurrencyId` is its cross-chain filter. `FromLocation` falls back to
    the registry like the code's `or_else`.
  - `LocalCurrencyLocation` and `NativeCurrencyLocation` are the two location
    builders. `FeeLocations` are the assets the `Trader` charges in: the
    four fixed rates, plus every registered asset. `TraderAsset(l)` is the
    asset the `Trader` tuple takes a fee at `l` in: the first fixed rate
    that matches, otherwise the registry's asset.
  - Actions: `TakeRevenue(l, author)` is `ToAuthor::take_revenue`.
    `RegisterAsset(i, l)` is governance changing the registry. The registry
    is outside this repository, and is injective because it refuses a
    location already in use.
  - Data abstraction:
    - The `CurrencyId` enum and its SCALE codec are defined outside the
      repository. `Encode` writes the variant index, then the payload, and
      `Decode` reads a prefix, as SCALE does.
    - A location is `[parents, interior]`, and junctions are records.
      `Here` (`NoLocation`) stands for `None`, because no currency converts
      to it.
- **`XcmInbound.tla`** extends `XcmCurrency` with the execution of an
  incoming transfer message under `XcmConfig` (lines 43-114, 178-204).
  - Variables: `balances` (`Currencies`, per account and currency),
    `unknown` (`orml_unknown_tokens`), `trapped` (holdings the executor
    traps), `issued` (what each origin's transfers minted) and `messages`
    (a bound).
  - `Execute(origin, kind, l, paid, author)` is one message: an asset
    instruction of location `l` (`ReserveAssetDeposited`,
    `ReceiveTeleportedAsset` or `WithdrawAsset`), then `BuyExecution` in that
    asset when `paid`, then `DepositAsset` to the beneficiary. Its guard is
    the `Barrier` and the trust check (`IsReserve`, `IsTeleporter`, or a
    sovereign account with the funds). A refused message changes nothing and
    is not a step. A paid message hands one unit to `TakeRevenue`, or, when
    no trader takes its asset, traps the holding. `Deposit` is the
    transactor: a recognised location is credited in its currency, any other
    goes to the unknown-tokens pallet.
  - The executor and the adapters (`xcm-executor`, `xcm-builder`,
    `orml-xcm-support`) are outside the repository. They are modelled by what
    they do with such a message: `AllowTopLevelPaidExecutionFrom` admits a
    paid transfer, `AllowUnpaidExecutionFrom` its origins,
    `MultiNativeAsset<AbsoluteReserveProvider>` compares the chain part of
    the location with the origin, and `NativeAsset` the location itself.
  - `TakeRevenue` is no longer an action of its own here: fees arise only
    from the messages that buy execution.
- **`MCXcmCurrency.tla`** instantiates `XcmInbound` with this chain, a
  sibling and Acala, two foreign assets, and registry locations that meet
  every arm of the match. These are the relay chain, sibling chains, keys
  under this chain and under a sibling, and a bare local key. Messages come
  from the relay chain, its executive body, Acala and the sibling. The
  sovereign accounts of the relay chain and the sibling start with two DOT
  and two ZERO, and Acala's with two ZERO.

### Panics and the clock bound

`next_tally` can index out of bounds after its `usize` count wraps (lines 179
and 192). Substrate aborts the block when the hook panics, so the chain
cannot advance.

The model encodes this as `EndBlock` being disabled, and the invariant
`EndBlockNeverPanics` names the condition. `ClockStopped` lets the model
stutter only at the clock bound `MaxBlock`. A state where the clock stops
short of `MaxBlock` is therefore a stalled chain, and TLC reports it as a
deadlock. Deadlock checking stays on in every configuration.

## Runs

| Run | Config | Expect | What it shows |
|---|---|---|---|
| council_core | `MCCouncil.cfg` | pass | All public calls interleaved over two elections keep the registries consistent and presented totals true. Bonds are never paid twice, no live voter is pruned for profit, and aligned terms end on time. |
| council_stall | `MCCouncilStall.cfg` | violation of `NoOverstayingMember` | finding 1 |
| council_removal | `MCCouncilRemoval.cfg` | violation of `FinaliseDropsOnlyExpired` | finding 2 |
| council_reelection | `MCCouncilReelection.cfg` | violation of `NoDuplicateCouncilMember` | finding 3 |
| council_reopen | `MCCouncilReopen.cfg` | violation of `WindowNotReopened` | finding 4 |
| council_wrap | `MCCouncilWrap.cfg` | violation of `EndBlockNeverPanics` | finding 5 |
| council_inherit | `MCCouncilInherit.cfg` | violation of `NoInheritedApproval` | finding 8 |
| council_liveness | `MCCouncilLiveness.cfg` | pass | Under weak fairness of `EndBlock`, every window that ends before the clock bound is closed, and `Council` implements the abstract `Leaderboard`. |
| council_tests | `CouncilTests.cfg` | pass | The model passes every unit test of `council.rs`. |
| xcm_currency | `MCXcmCurrency.cfg` | pass | With the base registry locations and any two incoming transfers, a recognised currency converts back to itself, every fee is credited in the asset it was taken in, and a chain mints only currencies it is the reserve of. |
| xcm_roundtrip | `MCXcmRoundTrip.cfg` | violation of `RoundTrip` | finding 6 |
| xcm_fee_shadow | `MCXcmShadow.cfg` | violation of `FeesCreditedAsCharged` | finding 7 |

Properties:

- **`TypeOK`:** each storage item has the type it decodes to.
- **`CandidateRegistryConsistent`:**
  - `cou:cnc` equals the number of occupied slots;
  - an account is registered exactly when it occupies a slot;
  - its registration points back at that slot.

  It spans `submit_candidacy`'s append-or-fill-a-hole rule and
  `finalise_tally`'s rebuild and truncation.
- **`VoterRegistryConsistent`:**
  - the voter list has no duplicates;
  - the voter list holds exactly the accounts with a last-active record;
  - accounts without one have no approvals.

  It checks `remove_voter`'s swap removal with caller-supplied positions.
- **`LeaderboardSound`:** while a window is open, the board has its fixed
  size and is sorted. Every presented entry still equals the total `present`
  would recompute now, so nothing between a presentation and finalisation
  silently invalidates it.
- **`LeaderboardDistinct`:** no candidate holds two places on the board.
- **`EscrowCovered`:** balances plus escrowed voting and candidacy bonds
  never exceed the issuance. A bond is never refunded twice.
- **`NoProfitFromLiveVoter`** (action property): when a voter leaves while
  its stake still counts for some candidate, nobody else gains.
  `kill_inactive_voter`'s validity test (285-291) must agree with `present`'s
  filter (373).
- **`WindowNotReopened`** (action property): an open window changes only by
  being finalised.
- **`NoInheritedApproval`** (action property): when `submit_candidacy`
  registers an account, no voter already on the list is counted for it by
  `present`'s filter (line 373). The doc of `kill_inactive_voter` (lines
  266-268) treats an approval given before its slot's candidate registered
  as dead.
- **`NoOverstayingMember`:** no member sits longer than its term plus one
  presentation window.
- **`FinaliseDropsOnlyExpired`** (action property): finalisation removes only
  members whose term ended.
- **`NoDuplicateCouncilMember`:** no account holds two seats.
- **`EndBlockNeverPanics`:** at a period boundary with seats, `next_tally`
  does not index the council out of bounds.
- **`WindowEventuallyClosed`** (liveness): a window whose end is before the
  clock bound is eventually closed.
- **`LeaderboardRefinement`:** the board refines `Leaderboard!Spec`.
- **`TestsPass`:** every assertion of the unit tests holds where the test
  makes it.
- **`ScriptsRun`:** every step of every test script can be taken. A call
  that a test expects to panic is refused.
- **`RecognisedRoundTrip`** (XCM): for every location that converts to a
  currency, `ToLocation` of that currency exists and converts back to the
  same currency. This holds for every registry the chain can reach.
- **`FeesCreditedAsCharged`** (XCM): for each currency, the author and the
  treasury were credited exactly what the `Trader` charged in it.
  `take_revenue` recovers the currency from the location alone, so this
  relates two independent lookups: the `Trader`'s and `CurrencyIdConvert`'s.
- **`ReserveBacked`** (XCM, action property): when a transfer from origin
  `o` mints currency `c` (to the beneficiary or as a fee), `o` is the reserve
  of `ToLocation(c)`. The executor checks the reserve on the incoming
  location, and `CurrencyIdConvert` decides the currency, so this relates
  the trust check to the conversion. It would catch a sibling's key being
  read as one of this chain's tokens.
- **`RoundTrip`** (XCM): every currency that has a location converts back
  from it to itself.

Each property of a passing run has a mutant in `PROJECT.json`. A mutant is a
plausible bug in one mapped definition, for example a dropped guard, `<`
for `<=`, or a missing skip, and TLC finds the property violated on it.

### Bounds

| Bound | core | Why it is enough |
|---|---|---|
| Accounts | 3 (symmetric) | Three accounts allow a winner, a runner-up and a third party who kills or presents. |
| `MaxBlock` | 6 | With voting period 2, presentation 1 and term 1, two full elections fit, so runners-up carry over and re-registration and kills of stale voters happen. |
| `MaxExtrinsics` (calls per block) | 2 | Enough for a vote and a kill, or a candidacy and a presentation, in one block. |
| `MaxCandidates` (slots) | 2 | Holes and appends both occur. |
| Seats | 1 | |
| `CarryCount` | 1 | |

Bonds are 2 (candidacy) and 1 (voting), and the slash per voter is 1. Every
balance is 3, so a candidate can also vote.

Claimed totals are the true total and one wrong value, which exercises both
the accept and the slash branches of `present`.

The violation configurations use two accounts and the smallest parameters
that reach the finding.

The other runs use these bounds:

- **council_liveness:** the core bounds with two accounts, balances of 5
  and `MaxBlock` 5, without symmetry, because TLC does not check liveness
  under symmetry. Balances of 5 leave two candidates that also vote a
  non-zero stake, so two presentations in one window reach the re-sort.
  Two windows open, and the first must close.
- **council_wrap:** two seats, presentation 2 and term 2, with seats lowered
  to 1 and raised back to 2. `MaxBlock` is 8, so a period boundary falls
  inside the window.
- **council_tests:** the tests' own parameters. There are seven accounts and
  five slots, and `MaxBlock` is 8.
- **xcm_fee_shadow:** the base locations plus this chain's own ZERO location
  `(1, [Parachain(self), GeneralKey(ZERO)])`.
- **xcm_currency:** two foreign assets, seven candidate registry locations,
  nine message locations (those and this chain's ZERO written both ways),
  four origins and two messages of every kind, paid and unpaid. Every arm of
  the location match, the registry fallback, each trust check, and each of
  the fee, trap and unknown-token outcomes is met.
- **council_inherit:** two accounts and `MaxBlock` 4. One vote and one
  candidacy in the first block are enough.

### Fairness

`FairSpec` adds `WF_vars(EndBlock)`. The end-of-block hook runs in every
block, and blocks keep being produced. It is disabled only past `MaxBlock`
or when it would panic. Calls are not fair, because nobody has to transact.
Only `council_liveness` uses `FairSpec`.

## Findings

1. **Elections stop forever** (`council.rs:453`). `start_tally` counts as
   expiring only members whose expiry *equals* the tally block. If
   presentation duration plus term is not a multiple of the voting period,
   that never happens. The repository's own test parameters (period 4,
   presentation 2, term 5) are such a case. `next_tally` then keeps returning
   the same block, no window opens, and the members never leave. Fewer
   desired seats cause the same stall.
2. **`remove_member` during a window drops the wrong member**
   (`council.rs:492`). `finalise_tally` skips `expiring.len()` members of the
   *current* council. If an expiring member was removed, a member whose term
   has not ended is dropped instead.
3. **Re-election of a sitting member** (`council.rs:355`). Neither
   `submit_candidacy` nor `present` checks council membership, against the
   design comment at lines 48-51. A member can hold two seats.
4. **A window is overwritten** (`council.rs:433`). `end_block` tests "start a
   tally" before "finalise". This matters when the presentation duration is a
   multiple of the voting period and the seats are raised during a window:
   `next_tally` answers the window's end block, and `start_tally` overwrites
   the pending window with its presentations.

5. **The chain halts after removals** (`council.rs:192`). `remove_member`
   during a window can remove more members than there are seats. If the
   seats are then raised, `next_tally`'s `usize` count wraps (line 179). The
   index at line 192 is then out of bounds, and `end_block` panics at every
   period boundary. The comment at lines 168-169 says `next_tally` returns
   `None` only when there are no seats.
6. **KSM comes back as DOT** (`xcm_config.rs:268`). `CurrencyIdConvert`
   sends both DOT and KSM to the relay location, which converts back only to
   DOT. KSM sent out leaves as the relay asset, and a relay asset that comes
   back is credited as DOT.

7. **A shadowed foreign asset is priced as itself and paid as ZERO**
   (`xcm_config.rs:151`). Suppose governance registers a foreign asset at
   this chain's ZERO location as other chains write it. The fixed match of
   `CurrencyIdConvert` reads that location as ZERO before the registry. A
   sibling that withdraws it from its sovereign account withdraws ZERO. The
   registry's `Trader` prices the execution at the foreign asset's rate,
   and `ToAuthor` pays the fee out as ZERO. The registered asset itself can
   never be received: every deposit of its location becomes ZERO.
8. **Approvals are inherited by later candidates** (`council.rs:373`).
   `set_approvals` stores a vector of any length, with approvals of empty
   slots. `present` counts a voter for a candidate when the voter's last
   vote index is at least the candidate's registration index. Both are the
   current index within a round, so an account that registers at a slot
   after a voter approved it in the same round receives that voter's stake.
   The doc of `kill_inactive_voter` (lines 266-268) says such an approval no
   longer counts. The shortest trace is a voter approving slot 0 of an empty
   list, then registering there itself.

## Not modelled

- The `Staking` module's own state is not modelled. The council only reads
  and writes balances, and the model keeps balances as a variable. Lock
  status is the constant set `Locked`.
- Weights and fees are not modelled.
- Of the XCM executor wiring, only incoming transfers are modelled. Not
  modelled:
  - `Transact` and the origin converters (`XcmOriginToTransactDispatchOrigin`),
    which dispatch runtime calls;
  - query responses and version subscriptions;
  - the router, `pallet_xcm`'s own calls and `orml_xtokens` (outgoing
    transfers, `SelfLocation`, `ParachainMinFee`).

  Outgoing transfers run in the other chains' executors, which are not in
  this repository. Fee amounts and weights are not modelled: a fee is one
  unit, and only the asset it is taken in matters to `ToAuthor`.
- The privileged setters still run in `council_core` and `council_liveness`,
  but only with the initial values. Runs that vary the seats, the
  presentation duration and the term together took more than 15 minutes
  with liveness, so the passing check of `WindowNotReopened` under changing
  parameters was dropped. Its violation (finding 4) is still checked.
- The garbage `AccountId`s decoded from the stored `expiring` tuples are
  never read, so only the length is modelled.

## Plan for later work

- An abstract specification of the whole election, "the council is the top
  approved candidates of each tally", that `Council` refines.
- Liveness of "an expired member eventually leaves". Finding 1 shows it
  fails for unaligned terms, so it would hold only for aligned parameters.
- A bounded check of `SortByTotal` and `NextTally` against reference
  definitions.
- Larger bounds for the core run: three seats, and a voting period of 3.
