----------------------------- MODULE MCCouncil -----------------------------
(***************************************************************************)
(* Instantiation of Council for TLC: three accounts, one or two seats, a   *)
(* voting period of two blocks and a clock that stops at MaxBlock.         *)
(***************************************************************************)
EXTENDS Council

CONSTANTS a1, a2, a3

\* Equal balances keep the accounts interchangeable; tallies still differ
\* by the number of approvals and by the bonds and slashes paid.
MCInitialBalance == [a \in Accounts |-> 3]

\* Balances that leave a candidate who also votes a non-zero stake.
MCRichBalance == [a \in Accounts |-> 5]

\* The refinement mapping: cou:win as the multiset of its entries, and the
\* absent key as the closed board.
AbstractBoard == IF leaderboard = None THEN None ELSE ToBag(leaderboard)

LB == INSTANCE Leaderboard WITH
        board <- AbstractBoard,
        Candidates <- Accounts,
        Totals <- 0..TotalIssuance,
        Zero <- [total |-> 0, who |-> Empty],
        Closed <- None,
        MaxSize <- Max(SeatChoices \cup {InitialSeats}) + CarryCount

\* start_tally, present and finalise_tally implement the abstract board:
\* the stable re-sort after overwriting index 0 and the duplicate test of
\* present (council.rs:379-384) only ever replace one lowest entry with a
\* higher total of a candidate not yet on the board.
LeaderboardRefinement == LB!Spec

\* The accounts are interchangeable: nothing in Council names one of them.
MCSymmetry == Permutations(Accounts)

====
