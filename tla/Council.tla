------------------------------ MODULE Council ------------------------------
(***************************************************************************)
(* The council election of src/demo/runtime/src/runtime/council.rs: a      *)
(* bonded approval vote whose tally is presented, checked against a stake  *)
(* snapshot and finalised by the end-of-block hook.                        *)
(*                                                                         *)
(* One variable per storage key of the module (lines 81-96).  Absent keys  *)
(* read through get_or_default are their default (<<>>, 0); keys read      *)
(* through get, whose absence the code tests, hold the model value None.   *)
(* Slots are the code's 0-based u32 numbers; slot k lives at candidates[k+1]*)
(* and at approvals[k+1].                                                  *)
(***************************************************************************)
EXTENDS Integers, Sequences, SequencesExt, Functions, FiniteSets

CONSTANTS
  Accounts,              \* accounts that sign transactions
  Empty,                 \* AccountId::default(), the hole in the candidate list
  None,                  \* an absent storage key read with storage::get
  CandidacyBond,         \* cou:cbo
  VotingBond,            \* cou:vbo
  PresentSlashPerVoter,  \* cou:pss
  CarryCount,            \* cou:cco
  VotingPeriod,          \* cou:per
  InitialBalance,        \* staking balances at genesis
  Locked,                \* accounts whose funds staking reports as not Liquid
  InitialSeats,          \* cou:sts at genesis
  InitialPresentation,   \* cou:pdu at genesis
  InitialTerm,           \* cou:trm at genesis
  SeatChoices,           \* arguments of privileged::set_desired_seats
  PresentationChoices,   \* arguments of privileged::set_presentation_duration
  TermChoices,           \* arguments of privileged::set_term_duration
  MaxBlock,              \* the clock stops here (bounds the model)
  MaxExtrinsics,         \* calls per block (bounds the model)
  MaxCandidates          \* longest candidate list (bounds the model)

ASSUME VotingPeriod \in Nat \ {0}
ASSUME InitialBalance \in [Accounts -> Nat]
ASSUME Locked \subseteq Accounts
ASSUME {Empty, None} \cap Accounts = {}

VARIABLES
  balance,               \* staking balances (the ledger the module calls)
  candidates,            \* cou:can   Vec<AccountId>, with holes
  candidateCount,        \* cou:cnc
  registerInfo,          \* cou:reg:  who -> [since, slot] or None
  voters,                \* cou:vrs   Vec<AccountId>
  approvalsOf,           \* cou:apr:  who -> Vec<bool>
  lastActiveOf,          \* cou:lac:  who -> VoteIndex or None
  activeCouncil,         \* cou:act   Vec<(AccountId, BlockNumber)>
  voteCount,             \* cou:vco
  nextFinalise,          \* cou:nxt   [end, comers, leavers] or None
  snapshotedStakes,      \* cou:sss   Vec<Balance>
  leaderboard,           \* cou:win   Vec<(Balance, AccountId)> or None
  desiredSeats,          \* cou:sts
  presentationDuration,  \* cou:pdu
  termDuration,          \* cou:trm
  now,                   \* system::block_number()
  extrinsics             \* calls made in the current block

vars == <<balance, candidates, candidateCount, registerInfo, voters,
          approvalsOf, lastActiveOf, activeCouncil, voteCount, nextFinalise,
          snapshotedStakes, leaderboard, desiredSeats, presentationDuration,
          termDuration, now, extrinsics>>

voterVars == <<voters, approvalsOf, lastActiveOf>>
candidateVars == <<candidates, candidateCount, registerInfo>>
windowVars == <<nextFinalise, snapshotedStakes, leaderboard>>
paramVars == <<desiredSeats, presentationDuration, termDuration>>

(* Approval vectors.  A vector is read only through .get(slot) and a zip  *)
(* with the candidate list, so a vector and its padding with FALSE behave *)
(* alike; votes are taken padded to the longest candidate list allowed.   *)
NumSlots == MaxCandidates
Votes == [1..NumSlots -> BOOLEAN]

TotalIssuance == SumFunction(InitialBalance)

-----------------------------------------------------------------------------
(* Helpers of the code.                                                    *)

presentationActive == nextFinalise # None

isACandidate(who) == registerInfo[who] # None

\* Mutant: next_vote_from rounding down instead of up.
NextVoteFromEarly(n) == (n \div VotingPeriod) * VotingPeriod

\* next_vote_from: the first voting-period boundary no earlier than n.
NextVoteFrom(n) == ((n + VotingPeriod - 1) \div VotingPeriod) * VotingPeriod

\* The prefix of s whose elements satisfy P (Iterator::take_while).
TakeWhile(s, P(_)) ==
  LET stop == {i \in 1..Len(s) : ~P(s[i])}
  IN IF stop = {} THEN s ELSE SubSeq(s, 1, Min(stop) - 1)

\* Mutant: Vec::remove, which shifts the tail, instead of swap_remove.
SwapRemoveShifting(s, i) == SubSeq(s, 1, i - 1) \o SubSeq(s, i + 1, Len(s))

\* Vec::swap_remove(i) of the 1-based position i.
SwapRemove(s, i) == SubSeq([s EXCEPT ![i] = s[Len(s)]], 1, Len(s) - 1)

\* slice::sort_by_key on the total: a stable sort, as insertion sort.
RECURSIVE InsertByTotal(_, _)
InsertByTotal(e, s) ==
  IF s = <<>> \/ e.total < Head(s).total THEN <<e>> \o s
  ELSE <<Head(s)>> \o InsertByTotal(e, Tail(s))
\* Mutant: the entry written at index 0 without the re-sort.
SortByTotalSkipped(s) == s

RECURSIVE SortByTotal(_)
SortByTotal(s) ==
  IF s = <<>> THEN s
  ELSE LET sorted == SortByTotal(Front(s)) IN InsertByTotal(Last(s), sorted)

\* The total that present recomputes for a registered candidate: the sum
\* of the snapshotted stakes of voters active since its registration and
\* approving its slot, voters and stakes zipped position by position.
ActualTotal(candidate) ==
  LET reg == registerInfo[candidate]
      Counted(i) ==
        LET v == voters[i] IN
        /\ lastActiveOf[v] # None
        /\ lastActiveOf[v] >= reg.since
        /\ reg.slot + 1 <= Len(approvalsOf[v])
        /\ approvalsOf[v][reg.slot + 1]
  IN SumFunctionOnSet(snapshotedStakes,
        {i \in 1..Min({Len(voters), Len(snapshotedStakes)}) : Counted(i)})

-----------------------------------------------------------------------------
(* The tally scheduler.                                                    *)

\* next_tally, when desired seats are non-zero.  With a window pending the
\* count c.len() - leavers.len() + comers is computed in usize; in a
\* release build it wraps when the council has shrunk below the leavers.
CountWraps ==
  nextFinalise # None
  /\ Len(activeCouncil) + nextFinalise.comers < nextFinalise.leavers

NextTallyRaw ==
  LET c == activeCouncil
      nextPossible == IF nextFinalise # None THEN nextFinalise.end ELSE now
      coming == IF nextFinalise # None THEN nextFinalise.comers ELSE 0
      count == IF nextFinalise # None
               THEN Len(c) - nextFinalise.leavers + nextFinalise.comers
               ELSE Len(c)
  IN IF count < desiredSeats /\ ~CountWraps THEN nextPossible
     ELSE IF desiredSeats <= coming THEN nextPossible + termDuration
     ELSE c[Len(c) - (desiredSeats - coming) + 1].expiry

\* c[c.len() - (desired - coming)] indexes out of bounds and panics: only
\* once the count has wrapped, since otherwise it is at least desired.
NextTallyPanics ==
  /\ CountWraps
  /\ desiredSeats > nextFinalise.comers
  /\ Len(activeCouncil) < desiredSeats - nextFinalise.comers

NextTally == IF desiredSeats = 0 THEN None ELSE NextVoteFrom(NextTallyRaw)

-----------------------------------------------------------------------------
(* Public calls (mod public).  A call whose assertion fails aborts with no *)
(* effect, so each action is guarded by the call's assertions and takes    *)
(* only the arguments that can pass them: the vote index argument is the  *)
(* current one, list positions are positions of the signer.               *)

\* Mutant: set_approvals without its presentation-window assertion.
SetApprovalsDuringWindow(signed, votes) ==
  /\ IF lastActiveOf[signed] = None
     THEN /\ balance[signed] >= VotingBond
          /\ balance' = [balance EXCEPT ![signed] = @ - VotingBond]
          /\ voters' = Append(voters, signed)
     ELSE UNCHANGED <<balance, voters>>
  /\ approvalsOf' = [approvalsOf EXCEPT ![signed] = votes]
  /\ lastActiveOf' = [lastActiveOf EXCEPT ![signed] = voteCount]
  /\ UNCHANGED <<candidateVars, activeCouncil, voteCount, windowVars,
                 paramVars, now>>

\* Mutant: set_approvals taking the bond without checking the balance.
SetApprovalsNoBondCheck(signed, votes) ==
  /\ ~presentationActive
  /\ IF lastActiveOf[signed] = None
     THEN /\ balance' = [balance EXCEPT ![signed] = @ - VotingBond]
          /\ voters' = Append(voters, signed)
     ELSE UNCHANGED <<balance, voters>>
  /\ approvalsOf' = [approvalsOf EXCEPT ![signed] = votes]
  /\ lastActiveOf' = [lastActiveOf EXCEPT ![signed] = voteCount]
  /\ UNCHANGED <<candidateVars, activeCouncil, voteCount, windowVars,
                 paramVars, now>>

\* set_approvals: a first vote takes the voting bond and joins the voters;
\* every vote replaces the approvals and the last-active index.
SetApprovals(signed, votes) ==
  /\ ~presentationActive
  /\ IF lastActiveOf[signed] = None
     THEN /\ balance[signed] >= VotingBond
          /\ balance' = [balance EXCEPT ![signed] = @ - VotingBond]
          /\ voters' = Append(voters, signed)
     ELSE UNCHANGED <<balance, voters>>
  /\ approvalsOf' = [approvalsOf EXCEPT ![signed] = votes]
  /\ lastActiveOf' = [lastActiveOf EXCEPT ![signed] = voteCount]
  /\ UNCHANGED <<candidateVars, activeCouncil, voteCount, windowVars,
                 paramVars, now>>

\* Mutant: remove_voter that leaves the last-active record behind.
RemoveVoterKeepRecord(voter, index) ==
  /\ voters' = SwapRemove(voters, index)
  /\ approvalsOf' = [approvalsOf EXCEPT ![voter] = <<>>]
  /\ UNCHANGED lastActiveOf

\* remove_voter: swap_remove at the given position, clear the records.
RemoveVoter(voter, index) ==
  /\ voters' = SwapRemove(voters, index)
  /\ approvalsOf' = [approvalsOf EXCEPT ![voter] = <<>>]
  /\ lastActiveOf' = [lastActiveOf EXCEPT ![voter] = None]

\* Mutant: the validity test comparing with < instead of <=.
KillIsValidStrict(who) ==
  LET appr == approvalsOf[who]
  IN ~\E k \in 1..Min({Len(appr), Len(candidates)}) :
        /\ appr[k]
        /\ candidates[k] # Empty
        /\ registerInfo[candidates[k]].since < lastActiveOf[who]

\* The validity test of kill_inactive_voter: no approved, non-empty slot
\* holds a candidate registered at or before the target's last activity.
KillIsValid(who) ==
  LET appr == approvalsOf[who]
  IN ~\E k \in 1..Min({Len(appr), Len(candidates)}) :
        /\ appr[k]
        /\ candidates[k] # Empty
        /\ registerInfo[candidates[k]].since <= lastActiveOf[who]

\* kill_inactive_voter: removes `who` and pays its bond to `signed` when the
\* claim is valid, otherwise removes `signed` with no refund.
KillInactiveVoter(signed, signedIndex, who, whoIndex) ==
  /\ ~presentationActive
  /\ lastActiveOf[signed] # None
  /\ lastActiveOf[who] # None
  /\ lastActiveOf[who] < voteCount
  /\ voters[signedIndex] = signed
  /\ voters[whoIndex] = who
  /\ IF KillIsValid(who)
     THEN /\ RemoveVoter(who, whoIndex)
          /\ balance' = [balance EXCEPT ![signed] = @ + VotingBond]
     ELSE /\ RemoveVoter(signed, signedIndex)
          /\ UNCHANGED balance
  /\ UNCHANGED <<candidateVars, activeCouncil, voteCount, windowVars,
                 paramVars, now>>

\* retract_voter: leave the voters and get the voting bond back.
RetractVoter(signed, index) ==
  /\ ~presentationActive
  /\ lastActiveOf[signed] # None
  /\ voters[index] = signed
  /\ RemoveVoter(signed, index)
  /\ balance' = [balance EXCEPT ![signed] = @ + VotingBond]
  /\ UNCHANGED <<candidateVars, activeCouncil, voteCount, windowVars,
                 paramVars, now>>

\* Mutant: submit_candidacy accepting any existing slot, not only a hole.
SubmitCandidacyAnySlot(signed, slot) ==
  /\ ~isACandidate(signed)
  /\ balance[signed] >= CandidacyBond
  /\ signed \notin Locked
  /\ \/ slot = candidateCount /\ candidateCount = Len(candidates)
     \/ slot < Len(candidates)
  /\ slot < MaxCandidates
  /\ balance' = [balance EXCEPT ![signed] = @ - CandidacyBond]
  /\ candidates' = IF slot = Len(candidates) THEN Append(candidates, signed)
                   ELSE [candidates EXCEPT ![slot + 1] = signed]
  /\ candidateCount' = candidateCount + 1
  /\ registerInfo' = [registerInfo EXCEPT
                        ![signed] = [since |-> voteCount, slot |-> slot]]
  /\ UNCHANGED <<voterVars, activeCouncil, voteCount, windowVars,
                 paramVars, now>>

\* submit_candidacy: append at the end of a list without holes, or fill a
\* hole; the bond is taken and the registration records the vote index.
SubmitCandidacy(signed, slot) ==
  /\ ~isACandidate(signed)
  /\ balance[signed] >= CandidacyBond
  /\ signed \notin Locked
  /\ \/ slot = candidateCount /\ candidateCount = Len(candidates)
     \/ slot < Len(candidates) /\ candidates[slot + 1] = Empty
  /\ slot < MaxCandidates
  /\ balance' = [balance EXCEPT ![signed] = @ - CandidacyBond]
  /\ candidates' = IF slot = Len(candidates) THEN Append(candidates, signed)
                   ELSE [candidates EXCEPT ![slot + 1] = signed]
  /\ candidateCount' = candidateCount + 1
  /\ registerInfo' = [registerInfo EXCEPT
                        ![signed] = [since |-> voteCount, slot |-> slot]]
  /\ UNCHANGED <<voterVars, activeCouncil, voteCount, windowVars,
                 paramVars, now>>

\* Mutant: present without the duplicate test.
PresentNoDupeCheck(signed, candidate, total) ==
  LET punishment == PresentSlashPerVoter * Len(voters)
  IN
  /\ presentationActive
  /\ balance[signed] >= punishment
  /\ total > leaderboard[1].total
  /\ isACandidate(candidate)
  /\ \/ /\ total = ActualTotal(candidate)
        /\ leaderboard' = SortByTotal([leaderboard EXCEPT
                             ![1] = [total |-> total, who |-> candidate]])
        /\ UNCHANGED balance
     \/ /\ total # ActualTotal(candidate)
        /\ balance' = [balance EXCEPT ![signed] = @ - punishment]
        /\ UNCHANGED leaderboard
  /\ UNCHANGED <<candidateVars, voterVars, activeCouncil, voteCount,
                 nextFinalise, snapshotedStakes, paramVars, now>>

\* present: a claim above the lowest leaderboard entry that matches the
\* recomputed total, for a candidate not yet on the board, replaces the
\* lowest entry and the board is re-sorted; any other claim is slashed.
Present(signed, candidate, total) ==
  LET punishment == PresentSlashPerVoter * Len(voters)
      dupe == \E i \in 1..Len(leaderboard) : leaderboard[i].who = candidate
  IN
  /\ presentationActive
  /\ balance[signed] >= punishment
  /\ total > leaderboard[1].total
  /\ isACandidate(candidate)
  /\ \/ /\ total = ActualTotal(candidate)
        /\ ~dupe
        /\ leaderboard' = SortByTotal([leaderboard EXCEPT
                             ![1] = [total |-> total, who |-> candidate]])
        /\ UNCHANGED balance
     \/ /\ total # ActualTotal(candidate) \/ dupe
        /\ balance' = [balance EXCEPT ![signed] = @ - punishment]
        /\ UNCHANGED leaderboard
  /\ UNCHANGED <<candidateVars, voterVars, activeCouncil, voteCount,
                 nextFinalise, snapshotedStakes, paramVars, now>>

-----------------------------------------------------------------------------
(* Privileged calls (mod privileged).                                      *)

SetDesiredSeats(count) ==
  /\ desiredSeats' = count
  /\ UNCHANGED <<balance, candidateVars, voterVars, activeCouncil, voteCount,
                 windowVars, presentationDuration, termDuration, now>>

\* remove_member: drop every seat of `who` from the council.
RemoveMember(who) ==
  /\ activeCouncil' = SelectSeq(activeCouncil, LAMBDA m : m.who # who)
  /\ UNCHANGED <<balance, candidateVars, voterVars, voteCount, windowVars,
                 paramVars, now>>

SetPresentationDuration(count) ==
  /\ presentationDuration' = count
  /\ UNCHANGED <<balance, candidateVars, voterVars, activeCouncil, voteCount,
                 windowVars, desiredSeats, termDuration, now>>

SetTermDuration(count) ==
  /\ termDuration' = count
  /\ UNCHANGED <<balance, candidateVars, voterVars, activeCouncil, voteCount,
                 windowVars, desiredSeats, presentationDuration, now>>

-----------------------------------------------------------------------------
(* The end-of-block hook (internal::end_block) with start_tally and        *)
(* finalise_tally.  The hook first checks whether a tally starts, then,    *)
(* on the state that leaves, whether the pending window ends.              *)

\* The council members whose term ends now: the prefix of the council with
\* expiry equal to the block number.  Only its length is used afterwards:
\* it is stored as Vec<(AccountId, BlockNumber)> and read back as
\* Vec<AccountId>, which keeps the length prefix.
Expiring == TakeWhile(activeCouncil, LAMBDA m : m.expiry = now)

\* The hook's first test: a voting-period boundary that is the next tally.
TallyDue ==
  /\ now % VotingPeriod = 0
  /\ NextTally # None
  /\ NextTally = now

\* start_tally opens a window when the staying members leave seats empty.
TallyOpens ==
  TallyDue /\ Len(activeCouncil) - Len(Expiring) < desiredSeats

\* The window start_tally writes: cou:nxt, cou:sss and cou:win.
EmptySeats == desiredSeats - (Len(activeCouncil) - Len(Expiring))
OpenedWindow ==
  [end |-> now + presentationDuration, comers |-> EmptySeats,
   leavers |-> Len(Expiring)]
OpenedStakes == [i \in 1..Len(voters) |-> balance[voters[i]]]
OpenedLeaderboard ==
  [i \in 1..(EmptySeats + CarryCount) |-> [total |-> 0, who |-> Empty]]

\* The winners of finalise_tally: from the top of the board, the non-zero
\* entries, at most `coming` of them.
Ranked(board) == TakeWhile(Reverse(board), LAMBDA e : e.total # 0)
Winners(ranked, coming) == SubSeq(ranked, 1, Min({coming, Len(ranked)}))

\* Mutant: the new council keeping the expiring members.
StayingAll(council, leavers) == council

\* The members finalise_tally keeps: the council without its first
\* `leavers` members, which start_tally found expiring.
Staying(council, leavers) == SubSeq(council, leavers + 1, Len(council))

\* Mutant: the bond-return loop without its take(coming).
BondReturnsAll(board, coming) == Ranked(board)

\* The accounts whose candidacy bond the first loop of finalise_tally
\* returns, one entry per return.
BondReturns(board, coming) == Winners(Ranked(board), coming)

\* Mutant: cou:nxt and cou:win read with storage::get, not storage::take.
WindowClosedKeepsNext ==
  /\ UNCHANGED <<nextFinalise, leaderboard>>
  /\ snapshotedStakes' = <<>>

\* finalise_tally's first steps: the snapshot is killed, the window and
\* the leaderboard are taken out of storage.
WindowClosed ==
  /\ nextFinalise' = None
  /\ snapshotedStakes' = <<>>
  /\ leaderboard' = None

\* finalise_tally for the window `window` and the board `board`.
Finalise(window, board) ==
  LET ranked == Ranked(board)
      winners == Winners(ranked, window.comers)
      runnersUp == SubSeq(ranked, Len(winners) + 1, Len(ranked))
      newExpiry == now + termDuration
      returns == BondReturns(board, window.comers)
      \* new_candidates: each runner-up back at its registered slot
      placed == [k \in 1..Len(candidates) |->
                  IF \E i \in 1..Len(runnersUp) :
                       registerInfo[runnersUp[i].who].slot = k - 1
                  THEN runnersUp[CHOOSE i \in 1..Len(runnersUp) :
                          registerInfo[runnersUp[i].who].slot = k - 1].who
                  ELSE Empty]
      lastKept == SelectLastInSeq(placed, LAMBDA c : c # Empty)
  IN
  /\ balance' = [a \in Accounts |-> balance[a] + CandidacyBond *
                   Quantify(1..Len(returns), LAMBDA i : returns[i].who = a)]
  /\ activeCouncil' =
       Staying(activeCouncil, window.leavers)
       \o [i \in 1..Len(winners) |-> [who |-> winners[i].who,
                                      expiry |-> newExpiry]]
  /\ registerInfo' = [a \in Accounts |->
       IF \E k \in 1..Len(candidates) : candidates[k] = a /\ placed[k] # a
       THEN None ELSE registerInfo[a]]
  /\ candidates' = IF lastKept = 0 THEN placed ELSE SubSeq(placed, 1, lastKept)
  /\ candidateCount' = Len(runnersUp)
  /\ voteCount' = voteCount + 1
  /\ WindowClosed

\* end_block, one block's hook followed by the clock's tick.  The four
\* disjuncts are the four outcomes of its two tests.
EndBlock ==
  /\ now < MaxBlock
  /\ ~(now % VotingPeriod = 0 /\ desiredSeats # 0 /\ NextTallyPanics)
  /\ \/ \* nothing to do
        /\ ~TallyOpens
        /\ ~(presentationActive /\ nextFinalise.end = now)
        /\ UNCHANGED <<balance, candidateVars, activeCouncil, voteCount,
                       windowVars>>
     \/ \* start_tally only
        /\ TallyOpens
        /\ OpenedWindow.end # now
        /\ nextFinalise' = OpenedWindow
        /\ snapshotedStakes' = OpenedStakes
        /\ leaderboard' = OpenedLeaderboard
        /\ UNCHANGED <<balance, candidateVars, activeCouncil, voteCount>>
     \/ \* finalise_tally of the pending window
        /\ ~TallyOpens
        /\ presentationActive /\ nextFinalise.end = now
        /\ Finalise(nextFinalise, leaderboard)
     \/ \* start_tally with a zero presentation duration, then finalise_tally
        /\ TallyOpens
        /\ OpenedWindow.end = now
        /\ Finalise(OpenedWindow, OpenedLeaderboard)
  /\ now' = now + 1
  /\ extrinsics' = 0
  /\ UNCHANGED <<voterVars, paramVars>>

-----------------------------------------------------------------------------
(* The specification.                                                      *)

Init ==
  /\ balance = InitialBalance
  /\ candidates = <<>>
  /\ candidateCount = 0
  /\ registerInfo = [a \in Accounts |-> None]
  /\ voters = <<>>
  /\ approvalsOf = [a \in Accounts |-> <<>>]
  /\ lastActiveOf = [a \in Accounts |-> None]
  /\ activeCouncil = <<>>
  /\ voteCount = 0
  /\ nextFinalise = None
  /\ snapshotedStakes = <<>>
  /\ leaderboard = None
  /\ desiredSeats = InitialSeats
  /\ presentationDuration = InitialPresentation
  /\ termDuration = InitialTerm
  /\ now = 1
  /\ extrinsics = 0

\* The claims a presenter makes: the true total and one wrong total.
Claims(candidate) == {ActualTotal(candidate), ActualTotal(candidate) + 1}

\* A call of the outer dispatch: one more extrinsic in this block.
Dispatched == extrinsics < MaxExtrinsics /\ extrinsics' = extrinsics + 1

Call ==
  \/ \E a \in Accounts, v \in Votes : SetApprovals(a, v)
  \/ \E a, w \in Accounts, i, j \in 1..Len(voters) :
        KillInactiveVoter(a, i, w, j)
  \/ \E a \in Accounts, i \in 1..Len(voters) : RetractVoter(a, i)
  \/ \E a \in Accounts, k \in 0..Len(candidates) : SubmitCandidacy(a, k)
  \/ \E a \in Accounts, c \in {x \in Accounts : isACandidate(x)} :
        \E t \in Claims(c) : Present(a, c, t)
  \/ \E n \in SeatChoices : SetDesiredSeats(n)
  \/ \E i \in 1..Len(activeCouncil) : RemoveMember(activeCouncil[i].who)
  \/ \E n \in PresentationChoices : SetPresentationDuration(n)
  \/ \E n \in TermChoices : SetTermDuration(n)

\* The model's clock bound: past it the system only stutters.  A state
\* short of it where no block can end is a stalled chain, and is reported
\* as a deadlock.
ClockStopped == now = MaxBlock /\ UNCHANGED vars

Next ==
  \/ Call /\ Dispatched
  \/ EndBlock
  \/ ClockStopped

Spec == Init /\ [][Next]_vars

\* Blocks keep being produced: whenever the hook can run (the clock is
\* short of its bound and next_tally does not panic) a block eventually
\* ends.  Calls are not fair: nobody has to vote, stand or present.
Fairness == WF_vars(EndBlock)

FairSpec == Spec /\ Fairness

-----------------------------------------------------------------------------
(* Properties.                                                             *)

Member == [who : Accounts, expiry : Nat]
Entry == [total : Nat, who : Accounts \cup {Empty}]

\* Every variable holds a value of the type its storage key decodes to.
TypeOK ==
  /\ balance \in [Accounts -> 0..TotalIssuance]
  /\ candidates \in Seq(Accounts \cup {Empty})
  /\ candidateCount \in Nat
  /\ registerInfo \in [Accounts -> [since : Nat, slot : Nat] \cup {None}]
  /\ voters \in Seq(Accounts)
  /\ approvalsOf \in [Accounts -> Votes \cup {<<>>}]
  /\ lastActiveOf \in [Accounts -> Nat \cup {None}]
  /\ activeCouncil \in Seq(Member)
  /\ voteCount \in Nat
  /\ nextFinalise \in [end : Nat, comers : Nat, leavers : Nat] \cup {None}
  /\ snapshotedStakes \in Seq(Nat)
  /\ leaderboard \in Seq(Entry) \cup {None}
  /\ extrinsics \in 0..MaxExtrinsics

\* The candidate list, cou:cnc and the registrations of submit_candidacy
\* and finalise_tally agree: the count is the number of occupied slots, an
\* account is registered exactly when it occupies a slot, and its
\* registration names that slot.  kill_inactive_voter and finalise_tally
\* read a registration for every occupied slot and panic without one.
CandidateRegistryConsistent ==
  /\ candidateCount = Quantify(1..Len(candidates),
                               LAMBDA k : candidates[k] # Empty)
  /\ \A a \in Accounts :
       isACandidate(a) <=> \E k \in 1..Len(candidates) : candidates[k] = a
  /\ \A a \in Accounts :
       isACandidate(a) => candidates[registerInfo[a].slot + 1] = a

\* The voter list of set_approvals and remove_voter holds each account at
\* most once, and exactly the accounts with a last-active record; an
\* account without one has no approvals.  A repeated or missing entry
\* would misalign the stake snapshot and the positions callers pass.
VoterRegistryConsistent ==
  /\ IsInjective(voters)
  /\ ToSet(voters) = {a \in Accounts : lastActiveOf[a] # None}
  /\ \A a \in Accounts : lastActiveOf[a] = None => approvalsOf[a] = <<>>

\* While a window is open the board keeps its size, stays sorted by total
\* for finalise_tally, and every presented entry still holds the total
\* present would recompute now for a registered candidate: nothing between
\* a presentation and the close of the window changes what it counted.
LeaderboardSound ==
  presentationActive =>
    /\ leaderboard # None
    /\ Len(leaderboard) = nextFinalise.comers + CarryCount
    /\ IsSorted(leaderboard, LAMBDA x, y : x.total <= y.total)
    /\ \A i \in 1..Len(leaderboard) :
         leaderboard[i].total # 0 =>
           /\ isACandidate(leaderboard[i].who)
           /\ leaderboard[i].total = ActualTotal(leaderboard[i].who)

\* No candidate holds two places on the board, so finalise_tally never
\* seats and refunds the same candidate twice for one election.
LeaderboardDistinct ==
  presentationActive =>
    \A i, j \in 1..Len(leaderboard) :
      /\ i # j
      /\ leaderboard[i].total # 0
      /\ leaderboard[j].total # 0
      => leaderboard[i].who # leaderboard[j].who

\* Bonds are never paid out twice: the balances plus the voting bonds of
\* the voters and the candidacy bonds of the candidates never exceed what
\* was issued (slashes and discarded candidacies only burn).
EscrowCovered ==
  SumFunction(balance) + VotingBond * Len(voters)
    + CandidacyBond * candidateCount <= TotalIssuance

\* Voter w's stake would be counted by present for candidate c.
CountsFor(w, c) ==
  /\ isACandidate(c)
  /\ lastActiveOf[w] >= registerInfo[c].since
  /\ approvalsOf[w][registerInfo[c].slot + 1]

\* Voter w's stake would be counted by present for some candidate.
HasWeight(w) == \E c \in Accounts : CountsFor(w, c)

\* Removing a voter whose stake still counts for a registered candidate
\* profits nobody else: kill_inactive_voter pays its reward only for a
\* voter that present would no longer count, so its validity test and
\* present's filter must agree.
NoProfitFromLiveVoter ==
  [][\A w \in ToSet(voters) \ ToSet(voters') :
        HasWeight(w) => \A x \in Accounts \ {w} : balance'[x] <= balance[x]
    ]_vars

\* A candidacy never inherits approvals given before it: the doc of
\* kill_inactive_voter (council.rs:266-268) counts an approved slot as dead
\* once its candidate registered after the voter's last approval set.  So
\* no voter already on the list is counted by present (line 373) for an
\* account that submit_candidacy has just registered.
NoInheritedApproval ==
  [][\A c \in Accounts, w \in ToSet(voters) :
        ~isACandidate(c) /\ isACandidate(c)' => ~CountsFor(w, c)'
    ]_vars

\* An open window is only ever closed by finalise_tally, never replaced
\* by a new start_tally that would discard its presentations and leavers.
WindowNotReopened ==
  [][presentationActive => nextFinalise' \in {nextFinalise, None}]_vars

\* No member sits past its term by more than the presentation duration:
\* the scheduler opens a tally at the block its term ends and the window
\* that tally opens removes it.
NoOverstayingMember ==
  \A i \in 1..Len(activeCouncil) :
    now <= activeCouncil[i].expiry + presentationDuration

\* finalise_tally drops from the council only members whose term ended.
FinaliseDropsOnlyExpired ==
  [][voteCount' = voteCount + 1 =>
       \A i \in 1..Len(activeCouncil) :
         activeCouncil[i] \notin Range(activeCouncil') =>
           activeCouncil[i].expiry <= now]_vars

\* No account holds two seats of the council at once.
NoDuplicateCouncilMember ==
  \A i, j \in 1..Len(activeCouncil) :
    i # j => activeCouncil[i].who # activeCouncil[j].who

\* A presentation window that ends before the clock bound is eventually
\* closed: end_block runs at its end block and finalise_tally takes cou:nxt
\* out of storage, after which voting resumes.
WindowEventuallyClosed ==
  (presentationActive /\ nextFinalise.end < MaxBlock) ~> ~presentationActive

\* end_block evaluates next_tally at every voting-period boundary, and
\* next_tally promises a block number (None only for zero seats): it never
\* indexes the council out of bounds, which would abort every block.
EndBlockNeverPanics ==
  ~(now % VotingPeriod = 0 /\ desiredSeats # 0 /\ NextTallyPanics)

====
