----------------------------- MODULE CouncilTests -----------------------------
(***************************************************************************)
(* The unit tests of council.rs (lines 530-1015) replayed against the      *)
(* Council model.  Each test is a genesis, from new_test_ext or            *)
(* new_test_ext_with_candidate_holes, a script of calls and end_block      *)
(* hooks, and the assertions the test makes between them.  A test marked   *)
(* should_panic ends in a call whose assertion fails: that call is an      *)
(* action that is not enabled.  When a script has run, the model takes    *)
(* one more step of Council's Next from the test's final state, so that    *)
(* the invariants are also checked around the tests' own configuration.   *)
(***************************************************************************)
EXTENDS Council

CONSTANTS alice, bob, charlie, dave, eve, ferdie, one

VARIABLES
  test,   \* the test being replayed
  pc      \* the position of the next step of its script

testVars == <<test, pc>>

MCAccounts == {alice, bob, charlie, dave, eve, ferdie, one}

\* The staking balances of new_test_ext (lines 563-569).
TestBalance ==
  alice :> 10 @@ bob :> 20 @@ charlie :> 30 @@ dave :> 40 @@ eve :> 50
  @@ ferdie :> 60 @@ one :> 1

\* An approval vector of the test, padded as Council takes votes.
Pad(v) == [k \in 1..NumSlots |-> k <= Len(v) /\ v[k]]

T == TRUE
F == FALSE

-----------------------------------------------------------------------------
(* The steps of a script.                                                  *)

Submit(w, slot) == [op |-> "submit", who |-> w, arg |-> slot]
Vote(w, v) == [op |-> "vote", who |-> w, arg |-> Pad(v)]
Retract(w, index) == [op |-> "retract", who |-> w, arg |-> index]
PresentOf(w, c, total) == [op |-> "present", who |-> w, arg |-> c, total |-> total]
EndOfBlock == [op |-> "end"]
Panics(s) == [op |-> "panics", step |-> s]

\* A call of the script as the Council action of the public call it makes
\* (set_approvals, retract_voter, submit_candidacy, present: lines 244-396).
\* retract_voter's index is 0-based, and its assertion index < voters.len()
\* (council.rs:316) is tested before the list is read.
Perform(s) ==
  CASE s.op = "submit"  -> SubmitCandidacy(s.who, s.arg)
    [] s.op = "vote"    -> SetApprovals(s.who, s.arg)
    [] s.op = "retract" -> s.arg < Len(voters) /\ RetractVoter(s.who, s.arg + 1)
    [] s.op = "present" -> Present(s.who, s.arg, s.total)

-----------------------------------------------------------------------------
(* The tests: block number at the start, genesis, script.  The tests move  *)
(* the block number from 4 to 6 with with_env; here the hook of block 5,  *)
(* which has nothing to do, runs in between.                              *)

Tests == {"basic", "submission", "free_slot", "alt_free_slot",
          "not_free_slot", "bad_slot", "non_free_slot", "dupe",
          "voting", "resubmitting", "retracting", "invalid_index",
          "overflow_index", "non_voter", "simple_tally", "runners_up"}

WithHoles == {"free_slot", "alt_free_slot", "not_free_slot"}

StartBlock(t) == IF t \in {"simple_tally", "runners_up"} THEN 4 ELSE 1

Script(t) ==
  CASE t = "basic" -> <<>>
    [] t = "submission" -> <<Submit(alice, 0), Submit(bob, 1)>>
    [] t = "free_slot" -> <<Submit(bob, 1), Submit(charlie, 0)>>
    [] t = "alt_free_slot" -> <<Submit(bob, 0), Submit(charlie, 1)>>
    [] t = "not_free_slot" -> <<Panics(Submit(dave, 3))>>
    [] t = "bad_slot" -> <<Panics(Submit(alice, 1))>>
    [] t = "non_free_slot" -> <<Submit(alice, 0), Panics(Submit(bob, 0))>>
    [] t = "dupe" -> <<Submit(alice, 0), Panics(Submit(alice, 1))>>
    [] t = "voting" ->
         <<Submit(eve, 0), Vote(alice, <<T>>), Vote(dave, <<T>>),
           Submit(bob, 1), Submit(charlie, 2),
           Vote(bob, <<F, T, T>>), Vote(charlie, <<F, T, T>>)>>
    [] t = "resubmitting" ->
         <<Submit(eve, 0), Vote(dave, <<T>>), Submit(bob, 1),
           Submit(charlie, 2), Vote(dave, <<T, F, T>>)>>
    [] t = "retracting" ->
         <<Submit(eve, 0), Submit(bob, 1), Submit(charlie, 2),
           Vote(alice, <<T>>), Vote(bob, <<F, T, T>>),
           Vote(charlie, <<F, T, T>>), Vote(dave, <<T, F, T>>),
           Retract(alice, 0), Retract(bob, 1), Retract(charlie, 1)>>
    [] t = "invalid_index" ->
         <<Submit(charlie, 0), Vote(alice, <<T>>), Vote(bob, <<T>>),
           Panics(Retract(alice, 1))>>
    [] t = "overflow_index" ->
         <<Submit(charlie, 0), Vote(alice, <<T>>), Panics(Retract(alice, 1))>>
    [] t = "non_voter" ->
         <<Submit(charlie, 0), Vote(alice, <<T>>), Panics(Retract(bob, 0))>>
    [] t = "simple_tally" ->
         <<Submit(bob, 0), Submit(eve, 1), Vote(bob, <<T, F>>),
           Vote(eve, <<F, T>>), EndOfBlock, EndOfBlock,
           PresentOf(dave, bob, 8), PresentOf(dave, eve, 38), EndOfBlock>>
    [] t = "runners_up" ->
         <<Submit(alice, 0), Vote(ferdie, <<T>>),
           Submit(bob, 1), Vote(bob, <<F, T>>),
           Submit(charlie, 2), Vote(charlie, <<F, F, T>>),
           Submit(dave, 3), Vote(dave, <<F, F, F, T>>),
           Submit(eve, 4), Vote(eve, <<F, F, F, F, T>>),
           EndOfBlock, EndOfBlock,
           PresentOf(dave, alice, 57), PresentOf(dave, charlie, 18),
           PresentOf(dave, dave, 28), PresentOf(dave, eve, 38), EndOfBlock>>

\* new_test_ext (lines 540-580), with new_test_ext_with_candidate_holes
\* (lines 646-654) on top of it for the tests of free slots.
Genesis(t) ==
  /\ balance = TestBalance
  /\ IF t \in WithHoles
     THEN /\ candidates = <<Empty, Empty, alice>>
          /\ candidateCount = 1
          /\ registerInfo = [a \in Accounts |->
               IF a = alice THEN [since |-> 0, slot |-> 2] ELSE None]
     ELSE /\ candidates = <<>>
          /\ candidateCount = 0
          /\ registerInfo = [a \in Accounts |-> None]
  /\ voters = <<>>
  /\ approvalsOf = [a \in Accounts |-> <<>>]
  /\ lastActiveOf = [a \in Accounts |-> None]
  /\ activeCouncil = <<>>
  /\ voteCount = 0
  /\ nextFinalise = None
  /\ snapshotedStakes = <<>>
  /\ leaderboard = None
  /\ desiredSeats = InitialSeats
  /\ presentationDuration = InitialPresentation
  /\ termDuration = InitialTerm
  /\ now = StartBlock(t)
  /\ extrinsics = 0

-----------------------------------------------------------------------------
(* The replay.                                                             *)

TestInit == test \in Tests /\ pc = 1 /\ Genesis(test)

Step == Script(test)[pc]

\* The next step of the script: a call, a should_panic call that is
\* refused and leaves the state as it is, or the end-of-block hook.
RunStep ==
  /\ pc <= Len(Script(test))
  /\ pc' = pc + 1
  /\ UNCHANGED test
  /\ CASE Step.op = "panics" -> ~ENABLED Perform(Step.step) /\ UNCHANGED vars
       [] Step.op = "end"    -> EndBlock
       [] OTHER              -> Perform(Step) /\ Dispatched

\* One step of Council beyond the end of the script.
Beyond ==
  /\ pc = Len(Script(test)) + 1
  /\ pc' = pc + 1
  /\ UNCHANGED test
  /\ (Call /\ Dispatched) \/ EndBlock

Finished == pc = Len(Script(test)) + 2 /\ UNCHANGED <<vars, testVars>>

TestNext == RunStep \/ Beyond \/ Finished

TestSpec == TestInit /\ [][TestNext]_<<vars, testVars>>

-----------------------------------------------------------------------------
(* The assertions of the tests.  After(t, k) holds once test t has run    *)
(* its first k steps and before its next one.                             *)

After(t, k) == test = t /\ pc = k + 1

Reg(since, slot) == [since |-> since, slot |-> slot]
Seat(who, expiry) == [who |-> who, expiry |-> expiry]
Placed(total, who) == [total |-> total, who |-> who]
NoEntry == Placed(0, Empty)

\* basic_environment_works (lines 583-612).
BasicAsserts ==
  After("basic", 0) =>
    /\ NextVoteFrom(1) = 4 /\ NextVoteFrom(4) = 4 /\ NextVoteFrom(5) = 8
    /\ voteCount = 0 /\ activeCouncil = <<>>
    /\ NextTally = 4 /\ ~presentationActive /\ nextFinalise = None
    /\ candidates = <<>> /\ ~isACandidate(alice) /\ registerInfo[alice] = None
    /\ voters = <<>> /\ lastActiveOf[alice] = None /\ approvalsOf[alice] = <<>>

\* The submission tests (lines 615-695).
SubmissionAsserts ==
  /\ After("submission", 1) =>
       /\ candidates = <<alice>> /\ registerInfo[alice] = Reg(0, 0)
       /\ ~isACandidate(bob)
  /\ After("submission", 2) =>
       /\ candidates = <<alice, bob>>
       /\ registerInfo[alice] = Reg(0, 0) /\ registerInfo[bob] = Reg(0, 1)
  /\ After("free_slot", 1) => candidates = <<Empty, bob, alice>>
  /\ After("free_slot", 2) => candidates = <<charlie, bob, alice>>
  /\ After("alt_free_slot", 1) => candidates = <<bob, Empty, alice>>
  /\ After("alt_free_slot", 2) => candidates = <<bob, charlie, alice>>

\* voting_should_work and resubmitting_voting_should_work (lines 750-813).
VotingAsserts ==
  /\ After("voting", 3) =>
       /\ approvalsOf[alice] = Pad(<<T>>) /\ approvalsOf[dave] = Pad(<<T>>)
       /\ voters = <<alice, dave>>
  /\ After("voting", 7) =>
       /\ approvalsOf[alice] = Pad(<<T>>) /\ approvalsOf[dave] = Pad(<<T>>)
       /\ approvalsOf[bob] = Pad(<<F, T, T>>)
       /\ approvalsOf[charlie] = Pad(<<F, T, T>>)
       /\ voters = <<alice, dave, bob, charlie>>
  /\ After("resubmitting", 2) => approvalsOf[dave] = Pad(<<T>>)
  /\ After("resubmitting", 5) => approvalsOf[dave] = Pad(<<T, F, T>>)

\* retracting_voter_should_work (lines 815-868).
RetractingAsserts ==
  /\ After("retracting", 7) =>
       /\ voters = <<alice, bob, charlie, dave>>
       /\ approvalsOf[dave] = Pad(<<T, F, T>>)
  /\ After("retracting", 8) =>
       /\ voters = <<dave, bob, charlie>> /\ approvalsOf[alice] = <<>>
       /\ approvalsOf[bob] = Pad(<<F, T, T>>)
  /\ After("retracting", 9) =>
       /\ voters = <<dave, charlie>> /\ approvalsOf[bob] = <<>>
       /\ approvalsOf[charlie] = Pad(<<F, T, T>>)
  /\ After("retracting", 10) =>
       /\ voters = <<dave>> /\ approvalsOf[charlie] = <<>>
       /\ approvalsOf[dave] = Pad(<<T, F, T>>)

\* simple_tally_should_work (lines 917-951).
SimpleTallyAsserts ==
  /\ After("simple_tally", 0) => ~presentationActive
  /\ After("simple_tally", 6) => presentationActive
  /\ After("simple_tally", 8) =>
       leaderboard = <<NoEntry, NoEntry, Placed(8, bob), Placed(38, eve)>>
  /\ After("simple_tally", 9) =>
       /\ ~presentationActive
       /\ activeCouncil = <<Seat(eve, 11), Seat(bob, 11)>>
       /\ ~isACandidate(bob) /\ ~isACandidate(eve)
       /\ voteCount = 1
       /\ lastActiveOf[bob] = 0 /\ lastActiveOf[eve] = 0

\* runners_up_should_be_kept (lines 953-1015).
RunnersUpAsserts ==
  /\ After("runners_up", 0) => ~presentationActive
  /\ After("runners_up", 12) => presentationActive
  /\ After("runners_up", 13) =>
       leaderboard = <<NoEntry, NoEntry, NoEntry, Placed(57, alice)>>
  /\ After("runners_up", 16) =>
       leaderboard = <<Placed(18, charlie), Placed(28, dave),
                       Placed(38, eve), Placed(57, alice)>>
  /\ After("runners_up", 17) =>
       /\ ~presentationActive
       /\ activeCouncil = <<Seat(alice, 11), Seat(eve, 11)>>
       /\ ~isACandidate(alice) /\ ~isACandidate(eve) /\ ~isACandidate(bob)
       /\ isACandidate(charlie) /\ isACandidate(dave)
       /\ voteCount = 1
       /\ lastActiveOf[bob] = 0 /\ lastActiveOf[eve] = 0
       /\ registerInfo[charlie] = Reg(0, 2) /\ registerInfo[dave] = Reg(0, 3)

-----------------------------------------------------------------------------
(* Properties.                                                             *)

\* Every assertion of the unit tests of council.rs holds of the model: the
\* storage the calls and end_block leave behind, the swap_remove order of
\* retract_voter, the sorted leaderboard of present, and the council,
\* candidates and runners-up finalise_tally writes.
TestsPass ==
  /\ BasicAsserts /\ SubmissionAsserts /\ VotingAsserts
  /\ RetractingAsserts /\ SimpleTallyAsserts /\ RunnersUpAsserts

\* No script stops early: every step of a test can be taken, and a call
\* the test expects to panic is refused (its should_panic holds).
ScriptsRun == pc <= Len(Script(test)) => ENABLED RunStep

====
