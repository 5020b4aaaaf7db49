----------------------------- MODULE Leaderboard -----------------------------
(***************************************************************************)
(* What a presentation window promises of its leaderboard (cou:win), with  *)
(* the order of the vector forgotten: the board is a multiset of entries.  *)
(* start_tally opens it with placeholder entries, one per contested place; *)
(* each accepted presentation puts a candidate not yet on the board in     *)
(* place of one of the lowest entries, and only with a higher total;       *)
(* finalise_tally takes the board away.  The sorted vector, the index 0   *)
(* and the stable sort of council.rs are how the code keeps this promise.  *)
(***************************************************************************)
EXTENDS Naturals, FiniteSets, FiniteSetsExt, Bags, BagsExt

CONSTANTS
  Candidates,   \* accounts that can be presented
  Totals,       \* the totals a presentation can carry
  Zero,         \* the placeholder entry (0, AccountId::default())
  Closed,       \* no window: cou:win absent
  MaxSize       \* the largest board a window can open

VARIABLE board

Entry == [total : Totals, who : Candidates]

\* The lowest total on an open board.
Lowest(b) == Min({e.total : e \in BagToSet(b)})

\* The candidates already holding a place.
Holders(b) == {e.who : e \in BagToSet(b)}

\* start_tally: a closed board opens with n placeholder entries.
Open(n) ==
  /\ board = Closed
  /\ board' = [e \in {Zero} |-> n]

\* present, accepted: e replaces one lowest entry.
Admit(e) ==
  /\ board # Closed
  /\ e.total > Lowest(board)
  /\ e.who \notin Holders(board)
  /\ \E low \in BagToSet(board) :
       /\ low.total = Lowest(board)
       /\ board' = BagAdd(BagRemove(board, low), e)

\* finalise_tally: the board is taken out of storage.
Close ==
  /\ board # Closed
  /\ board' = Closed

Next ==
  \/ \E n \in 1..MaxSize : Open(n)
  \/ \E e \in Entry : Admit(e)
  \/ Close

Spec == board = Closed /\ [][Next]_board

====
