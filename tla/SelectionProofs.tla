--------------------------- MODULE SelectionProofs ---------------------------
(***************************************************************************)
(* Proof that SelectBlockFromCandidates (src/src/pos.cpp lines 79-102),   *)
(* as the scan actions of StakeModifier run it, returns the block the      *)
(* spec's round choice names (SelectionAsSpecified).                       *)
(*                                                                         *)
(* The argument is about the prefix of vSortedByTimestamp the scan has     *)
(* visited.  The visited prefix grows by one item per step.  Until a block *)
(* is selected every visited candidate is in mapSelectedBlocks; once one   *)
(* is, it beats every other visited unselected candidate in (hash, order), *)
(* every unvisited candidate comes after it, and if it lies past the       *)
(* stop it is the only visited unselected candidate (any further item     *)
(* would have broken the loop).  When the scan ends, by the break or by    *)
(* running out of items, every unselected candidate at or before the stop *)
(* has been visited, which turns these facts into RoundChoice.             *)
(***************************************************************************)
EXTENDS ModifierKeepProofs

\* The item i of vSortedByTimestamp has been visited by the scan.
Visited(i) == eng.cursor # 0 /\ ~Before(chain, eng.cursor, i)

\* The candidates not in mapSelectedBlocks.
Unselected == eng.cands \ eng.sel

\* The selection hash of chain position i in this computation.
HashOf(i) == SelectionHash(chain[i], eng.modPrev)

(***************************************************************************)
(* The scan invariant: what the visited prefix says of the selection so    *)
(* far, as described above.                                                *)
(***************************************************************************)
ScanInv ==
  pc = "scan" =>
    /\ ~eng.fSel => \A j \in Unselected : ~Visited(j)
    /\ eng.fSel =>
         /\ eng.best \in Unselected /\ Visited(eng.best)
         /\ eng.hashBest = HashOf(eng.best)
         /\ \A j \in Unselected \ {eng.best} :
              Visited(j) => \/ HashOf(eng.best) < HashOf(j)
                            \/ HashOf(eng.best) = HashOf(j) /\ Before(chain, eng.best, j)
         /\ chain[eng.best].time > eng.stop =>
              \A j \in Unselected \ {eng.best} : ~Visited(j)
         /\ \A j \in eng.cands : ~Visited(j) => Before(chain, eng.best, j)

SInv == NInv /\ ScanInv

\* The (time, hash) order of vSortedByTimestamp is transitive.
LEMMA BeforeTrans ==
  ASSUME NEW c \in Seq(Blocks), NEW i \in 1..Len(c), NEW j \in 1..Len(c),
         NEW k \in 1..Len(c), Before(c, i, j), Before(c, j, k)
  PROVE  Before(c, i, k)
<1>1. c[i] \in Blocks /\ c[j] \in Blocks /\ c[k] \in Blocks
  BY ElementOfSeq
<1>. QED
  BY <1>1 DEF Before, Blocks

\* An item comes no earlier in time than the items before it.
LEMMA BeforeTime ==
  ASSUME NEW c \in Seq(Blocks), NEW i \in 1..Len(c), NEW j \in 1..Len(c),
         Before(c, i, j)
  PROVE  c[i].time <= c[j].time
<1>1. c[i] \in Blocks /\ c[j] \in Blocks
  BY ElementOfSeq
<1>. QED
  BY <1>1 DEF Before, Blocks

(***************************************************************************)
(* Moving the cursor to the next item i of the iteration visits exactly i  *)
(* besides what was visited before.                                        *)
(***************************************************************************)
LEMMA NextVisited ==
  ASSUME chain \in Seq(Blocks), eng.cands \subseteq 1..Len(chain),
         eng.cursor \in {0} \cup eng.cands, NEW i \in eng.cands, IsNextItem(i),
         NEW j \in eng.cands
  PROVE  ~Before(chain, i, j) <=> Visited(j) \/ j = i
<1>1. i \in 1..Len(chain) /\ j \in 1..Len(chain)
  OBVIOUS
<1>2. Unvisited(i) /\ \A k \in eng.cands : Unvisited(k) => k = i \/ Before(chain, i, k)
  BY DEF IsNextItem
<1>3. j = i => ~Before(chain, i, j)
  BY <1>1, BeforeIrreflexive
<1>4. Visited(j) => ~Before(chain, i, j)
  <2> SUFFICES ASSUME Visited(j), Before(chain, i, j) PROVE FALSE
    OBVIOUS
  <2>1. eng.cursor \in 1..Len(chain) /\ Before(chain, eng.cursor, i)
    BY <1>2 DEF Visited, Unvisited
  <2>2. Before(chain, eng.cursor, j)
    BY <1>1, <2>1, BeforeTrans
  <2>. QED
    BY <2>2 DEF Visited
<1>5. ~Visited(j) /\ j # i => Before(chain, i, j)
  <2>1. ~Visited(j) => Unvisited(j)
    BY DEF Visited, Unvisited
  <2>. QED
    BY <1>2, <2>1
<1>. QED
  BY <1>3, <1>4, <1>5

(***************************************************************************)
(* A step of the scan moves the cursor to the next item i and leaves the   *)
(* candidates, the selected set, the previous modifier and the chain      *)
(* alone: the visited prefix gains i and nothing else changes.             *)
(***************************************************************************)
LEMMA ScanMove ==
  ASSUME IInv, pc = "scan", chain' = chain, NEW i \in eng.cands, IsNextItem(i),
         eng'.cursor = i, eng'.cands = eng.cands, eng'.sel = eng.sel,
         eng'.modPrev = eng.modPrev
  PROVE  /\ i \in 1..Len(chain)
         /\ Unselected' = Unselected
         /\ \A j \in eng.cands : Visited(j)' <=> ~Before(chain, i, j)
         /\ \A j \in eng.cands : Visited(j)' <=> Visited(j) \/ j = i
         /\ \A j : HashOf(j)' = HashOf(j)
<1>1. chain \in Seq(Blocks) /\ eng.cands \subseteq 1..Len(chain)
      /\ eng.cursor \in {0} \cup eng.cands
  BY DEF IInv, TypeOK
<1>2. i \in 1..Len(chain)
  BY <1>1
<1>3. \A j \in eng.cands : Visited(j)' <=> ~Before(chain, i, j)
  BY <1>2 DEF Visited
<1>4. \A j \in eng.cands : Visited(j)' <=> Visited(j) \/ j = i
  BY <1>1, <1>3, NextVisited
<1>. QED
  BY <1>2, <1>3, <1>4 DEF Unselected, HashOf

\* ScanSkip visits a candidate already in mapSelectedBlocks.
LEMMA ScanSkipInv ==
  ASSUME SInv, ScanSkip
  PROVE  ScanInv'
<1>1. PICK i \in eng.cands : /\ IsNextItem(i) /\ i \in eng.sel
                             /\ eng' = [eng EXCEPT !.cursor = i]
  BY DEF ScanSkip
<1>2. pc = "scan" /\ pc' = "scan" /\ chain' = chain /\ IInv /\ eng \in Frames
  BY DEF ScanSkip, SInv, NInv, IInv, TypeOK
<1>3. /\ eng'.cursor = i /\ eng'.cands = eng.cands /\ eng'.sel = eng.sel
      /\ eng'.modPrev = eng.modPrev /\ eng'.fSel = eng.fSel /\ eng'.best = eng.best
      /\ eng'.hashBest = eng.hashBest /\ eng'.stop = eng.stop
  BY <1>1, <1>2 DEF Frames
<1>4. /\ Unselected' = Unselected
      /\ \A j \in eng.cands : Visited(j)' <=> Visited(j) \/ j = i
      /\ \A j : HashOf(j)' = HashOf(j)
  BY <1>1, <1>2, <1>3, ScanMove
<1>5. i \notin Unselected /\ Unselected \subseteq eng.cands
  BY <1>1 DEF Unselected
<1>6. \A j \in Unselected : Visited(j)' <=> Visited(j)
  BY <1>4, <1>5
<1>. QED
  BY <1>2, <1>3, <1>4, <1>5, <1>6 DEF ScanInv, SInv
(***************************************************************************)
(* ScanTake selects the next item i: the first selectable one, or one of  *)
(* strictly smaller selection hash.                                        *)
(***************************************************************************)
LEMMA ScanTakeInv ==
  ASSUME SInv, ScanTake
  PROVE  ScanInv'
<1>1. PICK i \in eng.cands :
        /\ IsNextItem(i) /\ ~Breaks(i) /\ i \notin eng.sel
        /\ ~eng.fSel \/ HashOf(i) < eng.hashBest
        /\ eng' = [eng EXCEPT !.cursor = i, !.fSel = TRUE, !.best = i,
                              !.hashBest = HashOf(i)]
  BY DEF ScanTake, HashOf
<1>2. pc = "scan" /\ pc' = "scan" /\ chain' = chain /\ IInv /\ eng \in Frames
      /\ chain \in Seq(Blocks) /\ eng.cands \subseteq 1..Len(chain)
  BY DEF ScanTake, SInv, NInv, IInv, TypeOK
<1>3. /\ eng'.cursor = i /\ eng'.cands = eng.cands /\ eng'.sel = eng.sel
      /\ eng'.modPrev = eng.modPrev /\ eng'.fSel = TRUE /\ eng'.best = i
      /\ eng'.hashBest = HashOf(i) /\ eng'.stop = eng.stop
  BY <1>1, <1>2 DEF Frames
<1>4. /\ i \in 1..Len(chain)
      /\ Unselected' = Unselected
      /\ \A j \in eng.cands : Visited(j)' <=> ~Before(chain, i, j)
      /\ \A j \in eng.cands : Visited(j)' <=> Visited(j) \/ j = i
      /\ \A j : HashOf(j)' = HashOf(j)
  BY <1>1, <1>2, <1>3, ScanMove
<1>5. i \in Unselected /\ Unselected \subseteq eng.cands
  BY <1>1 DEF Unselected
<1>6. \A j \in eng.cands : HashOf(j) \in Nat
  BY <1>2, ElementOfSeq, SelectionHashType DEF HashOf, Frames
\* The new best beats every other visited unselected candidate.
<1>7. \A j \in Unselected \ {i} : Visited(j)' => HashOf(i) < HashOf(j)
  <2> SUFFICES ASSUME NEW j \in Unselected \ {i}, Visited(j)' PROVE HashOf(i) < HashOf(j)
    OBVIOUS
  <2>1. Visited(j)
    BY <1>4, <1>5
  <2>2. eng.fSel /\ HashOf(i) < eng.hashBest
    BY <2>1, <1>1, <1>2, <1>5 DEF ScanInv, SInv
  <2>3. eng.hashBest = HashOf(eng.best) /\ eng.best \in Unselected
    BY <2>2, <1>2 DEF ScanInv, SInv
  <2>4. j = eng.best \/ HashOf(eng.best) <= HashOf(j)
    BY <2>1, <2>2, <1>2, <1>5, <1>6 DEF ScanInv, SInv
  <2>. QED
    BY <2>2, <2>3, <2>4, <1>5, <1>6
\* Past the stop, i was only taken as the first selectable item.
<1>8. chain[i].time > eng.stop => \A j \in Unselected \ {i} : ~Visited(j)'
  <2> SUFFICES ASSUME chain[i].time > eng.stop, NEW j \in Unselected \ {i}
               PROVE  ~Visited(j)'
    OBVIOUS
  <2>1. ~eng.fSel
    BY <1>1 DEF Breaks
  <2>2. ~Visited(j)
    BY <2>1, <1>2 DEF ScanInv, SInv
  <2>. QED
    BY <2>2, <1>4, <1>5
<1>9. Visited(i)' /\ \A j \in eng.cands : ~Visited(j)' => Before(chain, i, j)
  BY <1>4, BeforeIrreflexive, <1>2
<1>. QED
  BY <1>2, <1>3, <1>4, <1>5, <1>7, <1>8, <1>9 DEF ScanInv

(***************************************************************************)
(* ScanKeep visits an unselected item whose selection hash does not beat   *)
(* the best so far.                                                        *)
(***************************************************************************)
LEMMA ScanKeepInv ==
  ASSUME SInv, ScanKeep
  PROVE  ScanInv'
<1>1. PICK i \in eng.cands :
        /\ IsNextItem(i) /\ ~Breaks(i) /\ i \notin eng.sel /\ eng.fSel
        /\ HashOf(i) >= eng.hashBest
        /\ eng' = [eng EXCEPT !.cursor = i]
  BY DEF ScanKeep, HashOf
<1>2. pc = "scan" /\ pc' = "scan" /\ chain' = chain /\ IInv /\ eng \in Frames
      /\ chain \in Seq(Blocks) /\ eng.cands \subseteq 1..Len(chain)
  BY DEF ScanKeep, SInv, NInv, IInv, TypeOK
<1>3. /\ eng'.cursor = i /\ eng'.cands = eng.cands /\ eng'.sel = eng.sel
      /\ eng'.modPrev = eng.modPrev /\ eng'.fSel = eng.fSel /\ eng'.best = eng.best
      /\ eng'.hashBest = eng.hashBest /\ eng'.stop = eng.stop
  BY <1>1, <1>2 DEF Frames
<1>4. /\ i \in 1..Len(chain)
      /\ Unselected' = Unselected
      /\ \A j \in eng.cands : Visited(j)' <=> Visited(j) \/ j = i
      /\ \A j : HashOf(j)' = HashOf(j)
  BY <1>1, <1>2, <1>3, ScanMove
<1>5. i \in Unselected /\ Unselected \subseteq eng.cands
  BY <1>1 DEF Unselected
<1>6. /\ eng.best \in Unselected /\ Visited(eng.best)
      /\ eng.hashBest = HashOf(eng.best)
      /\ \A j \in eng.cands : ~Visited(j) => Before(chain, eng.best, j)
  BY <1>1, <1>2 DEF ScanInv, SInv
\* i was unvisited, so it comes after the best block.
<1>7. ~Visited(i) /\ Before(chain, eng.best, i) /\ i # eng.best
  <2>1. ~Visited(i)
    BY <1>1 DEF IsNextItem, Unvisited, Visited
  <2>. QED
    BY <2>1, <1>6
<1>8. HashOf(eng.best) \in Nat /\ HashOf(i) \in Nat
  BY <1>2, <1>5, <1>6, ElementOfSeq, SelectionHashType DEF HashOf, Frames
<1>9. HashOf(eng.best) < HashOf(i) \/ (HashOf(eng.best) = HashOf(i) /\ Before(chain, eng.best, i))
  BY <1>1, <1>6, <1>7, <1>8
\* The best block is not past the stop, or i would have broken the loop.
<1>10. ~(chain[eng.best].time > eng.stop)
  <2>1. eng.best \in 1..Len(chain)
    BY <1>2, <1>5, <1>6
  <2>2. chain[i] \in Blocks /\ chain[eng.best] \in Blocks
    BY <1>2, <1>4, <2>1, ElementOfSeq
  <2>3. chain[i].time \in Nat /\ chain[eng.best].time \in Nat /\ eng.stop \in Int
    BY <1>2, <2>2 DEF Blocks, Frames
  <2>4. chain[i].time <= eng.stop
    BY <1>1, <2>3 DEF Breaks
  <2>5. chain[eng.best].time <= chain[i].time
    BY <1>2, <1>4, <1>7, <2>1, BeforeTime
  <2>. QED
    BY <2>3, <2>4, <2>5
<1>. QED
  BY <1>2, <1>3, <1>4, <1>5, <1>6, <1>7, <1>9, <1>10 DEF ScanInv, SInv
\* RoundStart opens a scan with nothing visited and nothing selected.
LEMMA RoundStartInv ==
  ASSUME SInv, RoundStart
  PROVE  ScanInv'
<1>1. eng \in Frames /\ pc' = "scan"
  BY DEF RoundStart, SInv, NInv, IInv, TypeOK
<1>2. eng'.cursor = 0 /\ eng'.fSel = FALSE
  BY <1>1 DEF RoundStart, Frames
<1>3. \A j : ~Visited(j)'
  BY <1>2 DEF Visited
<1>. QED
  BY <1>2, <1>3 DEF ScanInv

THEOREM InitSInv == Init => SInv
<1> SUFFICES ASSUME Init PROVE SInv
  OBVIOUS
<1>. QED
  BY InitNInv DEF Init, SInv, ScanInv

(***************************************************************************)
(* The step of GetLastStakeModifier's end leaves the scan alone: each arm  *)
(* of LastFound fails, finishes or starts the candidate walk.              *)
(***************************************************************************)
LEMMA LastFoundNoScan ==
  ASSUME NInv, LastFound
  PROVE  pc' \in {"fail", "idle", "collect"}
<1>1. eng.walk \in 1..Len(chain) /\ chain \in Seq(Blocks) /\ chain # <<>>
  BY DEF LastFound, NInv, IInv, TypeOK
<1>2. Epoch(chain[eng.walk].time) \in Int /\ Epoch(Prev.time) \in Int
  <2>1. Len(chain) \in 1..Len(chain)
    BY <1>1
  <2>. QED
    BY <1>1, <2>1, BlockEpoch DEF Prev
<1> DEFINE b == chain[eng.walk]
<1>3. CASE ~b.gen
  BY <1>3 DEF LastFound, b
<1>4. CASE b.gen /\ Epoch(b.time) >= Epoch(Prev.time)
  <2>1. ~(Epoch(b.time) < Epoch(Prev.time))
    BY <1>2, <1>4 DEF b
  <2>. QED
    BY <1>4, <2>1 DEF LastFound, Finish, b
<1>5. CASE b.gen /\ Epoch(b.time) < Epoch(Prev.time)
  <2>1. ~(Epoch(b.time) >= Epoch(Prev.time))
    BY <1>2, <1>5 DEF b
  <2>. QED
    BY <1>5, <2>1 DEF LastFound, b
<1>. QED
  BY <1>2, <1>3, <1>4, <1>5 DEF b

THEOREM NextSInv == SInv /\ [Next]_vars => SInv'
<1> SUFFICES ASSUME SInv, [Next]_vars PROVE SInv'
  OBVIOUS
<1>1. NInv'
  BY NextNInv DEF SInv
<1> SUFFICES ASSUME pc' = "scan" PROVE ScanInv'
  BY <1>1 DEF SInv, ScanInv
<1>2. CASE ScanSkip
  BY <1>2, ScanSkipInv
<1>3. CASE ScanTake
  BY <1>3, ScanTakeInv
<1>4. CASE ScanKeep
  BY <1>4, ScanKeepInv
<1>5. CASE RoundStart
  BY <1>5, RoundStartInv
<1>6. CASE UNCHANGED vars
  BY <1>6 DEF SInv, ScanInv, Visited, Unselected, HashOf, vars
<1>7. CASE LastFound
  BY <1>7, LastFoundNoScan DEF SInv
<1>8. CASE ConnectGenesis \/ BeginConnect \/ LastStep \/ CollectStep \/ CollectDone
                          \/ RoundsDone \/ SelectDone \/ Halt
  BY <1>8 DEF ConnectGenesis, BeginConnect, LastStep, CollectStep, CollectDone,
              RoundsDone, SelectDone, Halt, Finish, vars
<1>. QED
  BY <1>2, <1>3, <1>4, <1>5, <1>6, <1>7, <1>8 DEF Next
(***************************************************************************)
(* When the scan has ended with a selection, every unselected candidate at *)
(* or before the stop has been visited: the loop ran out of items, or it   *)
(* broke at an item past the stop, and the items after that one are no     *)
(* earlier in time.                                                        *)
(***************************************************************************)
LEMMA EndedVisitsWindow ==
  ASSUME IInv, pc = "scan", ScanEnded
  PROVE  \A j \in Unselected : chain[j].time <= eng.stop => Visited(j)
<1> SUFFICES ASSUME NEW j \in Unselected, chain[j].time <= eng.stop, ~Visited(j)
             PROVE  FALSE
  OBVIOUS
<1>1. chain \in Seq(Blocks) /\ eng.cands \subseteq 1..Len(chain) /\ eng.stop \in Int
      /\ j \in eng.cands
  BY DEF IInv, TypeOK, Frames, Unselected
<1>2. Unvisited(j)
  BY DEF Visited, Unvisited
<1>3. CASE \E i \in eng.cands : IsNextItem(i) /\ Breaks(i)
  <2>1. PICK i \in eng.cands : IsNextItem(i) /\ Breaks(i)
    BY <1>3
  <2>2. chain[i].time > eng.stop /\ (j = i \/ Before(chain, i, j))
    BY <1>1, <1>2, <2>1 DEF IsNextItem, Breaks
  <2>3. chain[i] \in Blocks /\ chain[j] \in Blocks
    BY <1>1, ElementOfSeq
  <2>4. j # i => chain[i].time <= chain[j].time
    BY <1>1, <2>2, BeforeTime
  <2>. QED
    BY <1>1, <2>2, <2>3, <2>4 DEF Blocks
<1>4. CASE \A i \in eng.cands : ~Unvisited(i)
  BY <1>1, <1>2, <1>4
<1>. QED
  BY <1>3, <1>4 DEF ScanEnded

\* A scan that ends with a selection ends it with RoundChoice.
LEMMA SelectDoneChoice ==
  ASSUME SInv, pc = "scan", ScanEnded, eng.fSel
  PROVE  RoundChoice(eng.best)
<1>1. /\ IInv
      /\ eng.best \in Unselected
      /\ \A j \in Unselected \ {eng.best} :
              Visited(j) => \/ HashOf(eng.best) < HashOf(j)
                            \/ HashOf(eng.best) = HashOf(j) /\ Before(chain, eng.best, j)
      /\ chain[eng.best].time > eng.stop =>
              \A j \in Unselected \ {eng.best} : ~Visited(j)
      /\ \A j \in eng.cands : ~Visited(j) => Before(chain, eng.best, j)
  BY DEF SInv, NInv, ScanInv
<1>2. \A j \in Unselected : chain[j].time <= eng.stop => Visited(j)
  BY <1>1, EndedVisitsWindow
<1> DEFINE E == {i \in Unselected : chain[i].time <= eng.stop}
<1>3. chain[eng.best].time \in Nat /\ eng.stop \in Int
  <2>1. chain \in Seq(Blocks) /\ eng.best \in 1..Len(chain) /\ eng \in Frames
    BY <1>1 DEF IInv, TypeOK, Unselected
  <2>2. chain[eng.best] \in Blocks
    BY <2>1, ElementOfSeq
  <2>. QED
    BY <2>1, <2>2 DEF Blocks, Frames
<1>4. CASE chain[eng.best].time <= eng.stop
  <2>1. eng.best \in E /\ E # {}
    BY <1>1, <1>4 DEF E
  <2>2. \A j \in E \ {eng.best} :
          HashOf(eng.best) < HashOf(j)
          \/ (HashOf(eng.best) = HashOf(j) /\ Before(chain, eng.best, j))
    BY <1>1, <1>2 DEF E
  <2>. QED
    BY <1>1, <2>1, <2>2 DEF RoundChoice, E, Unselected, HashOf
<1>5. CASE ~(chain[eng.best].time <= eng.stop)
  <2>1. chain[eng.best].time > eng.stop
    BY <1>3, <1>5
  <2>2. E = {}
    BY <1>1, <1>2, <1>5, <2>1 DEF E
  <2>3. \A j \in Unselected \ {eng.best} : Before(chain, eng.best, j)
    BY <1>1, <2>1 DEF Unselected
  <2>. QED
    BY <1>1, <2>2, <2>3 DEF RoundChoice, E, Unselected
<1>. QED
  BY <1>4, <1>5

(***************************************************************************)
(* The only step from the scan back to the round loop is SelectDone with a *)
(* selection.                                                              *)
(***************************************************************************)
LEMMA ScanToRound ==
  ASSUME [Next]_vars, pc = "scan", pc' = "round"
  PROVE  ScanEnded /\ eng.fSel
<1>1. SelectDone
  BY DEF Next, vars, ConnectGenesis, BeginConnect, LastStep, LastFound, CollectStep,
         CollectDone, RoundStart, RoundsDone, ScanSkip, ScanTake, ScanKeep, Halt
<1>. QED
  BY <1>1 DEF SelectDone

(***************************************************************************)
(* SelectBlockFromCandidates returns, in every round and for every choice  *)
(* of the parameters, the block the spec's round choice names for the      *)
(* round's stop (lines 79-102 and 169-175 of src/src/pos.cpp).             *)
(***************************************************************************)
THEOREM SelectionCorrect == Spec => SelectionAsSpecified
<1>1. SInv /\ [Next]_vars => [pc = "scan" /\ pc' = "round" => RoundChoice(eng.best)]_vars
  BY ScanToRound, SelectDoneChoice
<1>. QED
  BY InitSInv, NextSInv, <1>1, PTL DEF Spec, SelectionAsSpecified
-----------------------------------------------------------------------------
(***************************************************************************)
(* The inputs of the rounds.  While the candidate walk runs, the           *)
(* candidates are the blocks it has passed, all at or after the window     *)
(* start; the start and nStakeModifierPrev were fixed by LastFound from    *)
(* pindexPrev and from the last generating block.                          *)
(***************************************************************************)
InputsInv ==
  /\ pc \in {"collect", "round", "scan"} =>
       /\ eng.start = SelectionStart(Prev.time)
       /\ \E k \in 1..Len(chain) : LastGen(chain, k) /\ eng.modPrev = chain[k].mod
  /\ pc = "collect" =>
       /\ eng.cands = (eng.walk + 1)..Len(chain)
       /\ \A j \in eng.cands : chain[j].time >= eng.start
  /\ pc \in {"round", "scan"} => eng.cands = Abstract!Candidates(chain, eng.start)

CInv == KInv /\ InputsInv
(***************************************************************************)
(* Where the walk back stops, at the null pointer or at the first block    *)
(* older than the start, the blocks it has passed are the spec's           *)
(* candidates: the maximal suffix of the chain at or after the start.      *)
(***************************************************************************)
LEMMA CandidatesSuffix ==
  ASSUME NEW c \in Seq(Blocks), NEW w \in 0..Len(c), NEW st \in Int,
         \A j \in (w + 1)..Len(c) : c[j].time >= st,
         w = 0 \/ c[w].time < st
  PROVE  Abstract!Candidates(c, st) = (w + 1)..Len(c)
<1>1. DOMAIN c = 1..Len(c) /\ Len(c) \in Nat
  BY LenProperties
<1>2. \A i \in (w + 1)..Len(c) : \A j \in i..Len(c) : c[j].time >= st
  OBVIOUS
<1>3. \A i \in 1..w : ~(\A j \in i..Len(c) : c[j].time >= st)
  <2> SUFFICES ASSUME NEW i \in 1..w PROVE \E j \in i..Len(c) : ~(c[j].time >= st)
    OBVIOUS
  <2>1. w # 0 /\ w \in i..Len(c) /\ c[w] \in Blocks
    BY <1>1, ElementOfSeq
  <2>2. c[w].time \in Nat /\ c[w].time < st
    BY <2>1 DEF Blocks
  <2>. QED
    BY <2>1, <2>2
<1>. QED
  BY <1>1, <1>2, <1>3 DEF Abstract!Candidates

(***************************************************************************)
(* A step of the rounds or of the scan leaves the chain and the inputs     *)
(* alone.                                                                  *)
(***************************************************************************)
LEMMA RoundStepKeepsInputs ==
  ASSUME InputsInv, chain' = chain, pc \in {"round", "scan"},
         pc' \in {"round", "scan", "fail"}, eng'.start = eng.start,
         eng'.cands = eng.cands, eng'.modPrev = eng.modPrev
  PROVE  InputsInv'
BY DEF InputsInv, Prev

THEOREM InitCInv == Init => CInv
<1> SUFFICES ASSUME Init PROVE CInv
  OBVIOUS
<1>. QED
  BY InitKInv DEF Init, CInv, InputsInv
THEOREM NextCInv == CInv /\ [Next]_vars => CInv'
<1> SUFFICES ASSUME CInv, [Next]_vars PROVE CInv'
  OBVIOUS
<1>0. /\ KInv' /\ IInv /\ KeepInv /\ InputsInv
      /\ chain \in Seq(Blocks) /\ Len(chain) \in 0..MaxBlocks
      /\ eng \in Frames /\ pc \in PCs
      /\ Len(chain) >= 1 => chain[1].gen
  BY NextKInv, LenProperties DEF CInv, KInv, NInv, IInv, TypeOK, NoFailInv
<1> SUFFICES InputsInv'
  BY <1>0 DEF CInv
<1>1. CASE ConnectGenesis \/ BeginConnect \/ LastStep \/ RoundsDone \/ Halt
  <2>1. pc' \in {"idle", "last"}
    BY <1>1 DEF ConnectGenesis, BeginConnect, LastStep, RoundsDone, Halt, Finish, vars
  <2>. QED
    BY <2>1 DEF InputsInv
<1>2. CASE LastFound
  <2> DEFINE b == chain[eng.walk]
  <2>1. pc = "last" /\ eng.walk \in 1..Len(chain) /\ chain # <<>>
    BY <1>0, <1>2 DEF LastFound, IInv
  <2>2. b.gen
    BY <1>0, <1>2, <2>1 DEF LastFound, b
  <2>3. LastGen(chain, eng.walk)
    BY <1>0, <2>1, <2>2 DEF KeepInv, LastGen, b
  <2>4. Epoch(b.time) \in Int /\ Epoch(Prev.time) \in Int
    <3>1. Len(chain) \in 1..Len(chain)
      BY <1>0, <2>1
    <3>. QED
      BY <1>0, <2>1, <3>1, BlockEpoch DEF b, Prev
  <2>5. CASE Epoch(b.time) >= Epoch(Prev.time)
    <3>1. ~(Epoch(b.time) < Epoch(Prev.time))
      BY <2>4, <2>5
    <3>2. pc' = "idle"
      BY <1>2, <2>2, <2>5, <3>1 DEF LastFound, Finish, b
    <3>. QED
      BY <3>2 DEF InputsInv
  <2>6. CASE ~(Epoch(b.time) >= Epoch(Prev.time))
    <3>1. Epoch(b.time) < Epoch(Prev.time)
      BY <2>4, <2>6
    <3>2. /\ chain' = chain /\ pc' = "collect"
          /\ eng' = [eng EXCEPT !.modPrev = b.mod, !.modTime = b.time,
                                !.start = SelectionStart(Prev.time),
                                !.cands = {}, !.walk = Len(chain)]
      BY <1>2, <2>2, <2>6, <3>1 DEF LastFound, b
    <3>3. /\ eng'.start = SelectionStart(Prev.time) /\ eng'.modPrev = b.mod
          /\ eng'.cands = {} /\ eng'.walk = Len(chain)
      BY <1>0, <3>2 DEF Frames
    <3>4. (Len(chain) + 1)..Len(chain) = {}
      BY <1>0
    <3>. QED
      BY <2>1, <2>3, <3>2, <3>3, <3>4 DEF InputsInv, Prev, b
  <2>. QED
    BY <2>5, <2>6
<1>3. CASE CollectStep
  <2>1. /\ pc = "collect" /\ pc' = "collect" /\ chain' = chain
        /\ eng.walk >= 1 /\ chain[eng.walk].time >= eng.start
        /\ eng' = [eng EXCEPT !.cands = @ \cup {eng.walk}, !.walk = @ - 1]
    BY <1>3 DEF CollectStep
  <2>2. /\ eng'.cands = eng.cands \cup {eng.walk} /\ eng'.walk = eng.walk - 1
        /\ eng'.start = eng.start /\ eng'.modPrev = eng.modPrev
    BY <1>0, <2>1 DEF Frames
  <2>3. eng.walk \in 1..Len(chain) /\ eng.cands = (eng.walk + 1)..Len(chain)
    BY <1>0, <2>1 DEF IInv, InputsInv
  <2>4. eng'.cands = (eng'.walk + 1)..Len(chain)
    <3>1. eng'.walk + 1 = eng.walk
      BY <2>2, <2>3
    <3>2. eng.cands \cup {eng.walk} = eng.walk..Len(chain)
      BY <2>3
    <3>. QED
      BY <2>2, <3>1, <3>2
  <2>. QED
    BY <1>0, <2>1, <2>2, <2>4 DEF InputsInv, Prev
<1>4. CASE CollectDone
  <2>1. /\ pc = "collect" /\ pc' = "round" /\ chain' = chain
        /\ (eng.walk = 0 \/ (eng.walk >= 1 /\ chain[eng.walk].time < eng.start))
        /\ eng' = [eng EXCEPT !.newMod = ZeroModifier, !.stop = eng.start,
                              !.sel = {}, !.round = 0]
    BY <1>4 DEF CollectDone
  <2>2. /\ eng'.cands = eng.cands /\ eng'.start = eng.start
        /\ eng'.modPrev = eng.modPrev
    BY <1>0, <2>1 DEF Frames
  <2>3. eng.walk \in 0..Len(chain) /\ eng.start \in Int
    BY <1>0, <2>1 DEF IInv, Frames
  <2>4. eng.cands = Abstract!Candidates(chain, eng.start)
    BY <1>0, <2>1, <2>3, CandidatesSuffix DEF InputsInv
  <2>. QED
    BY <1>0, <2>1, <2>2, <2>4 DEF InputsInv, Prev
<1>5. CASE RoundStart
  <2>1. pc = "round" /\ pc' = "scan" /\ chain' = chain
    BY <1>5 DEF RoundStart
  <2>2. eng'.start = eng.start /\ eng'.cands = eng.cands /\ eng'.modPrev = eng.modPrev
    BY <1>0, <1>5 DEF RoundStart, Frames
  <2>. QED
    BY <1>0, <2>1, <2>2, RoundStepKeepsInputs
<1>6. CASE ScanSkip \/ ScanTake \/ ScanKeep
  <2>1. pc = "scan" /\ pc' = "scan" /\ chain' = chain
    BY <1>6 DEF ScanSkip, ScanTake, ScanKeep
  <2>2. eng'.start = eng.start /\ eng'.cands = eng.cands /\ eng'.modPrev = eng.modPrev
    BY <1>0, <1>6 DEF ScanSkip, ScanTake, ScanKeep, Frames
  <2>. QED
    BY <1>0, <2>1, <2>2, RoundStepKeepsInputs
<1>7. CASE SelectDone
  <2>1. pc = "scan" /\ pc' \in {"round", "fail"} /\ chain' = chain
    BY <1>7 DEF SelectDone
  <2>2. eng'.start = eng.start /\ eng'.cands = eng.cands /\ eng'.modPrev = eng.modPrev
    BY <1>0, <1>7 DEF SelectDone, Frames
  <2>. QED
    BY <1>0, <2>1, <2>2, RoundStepKeepsInputs
<1>8. CASE UNCHANGED vars
  BY <1>0, <1>8 DEF InputsInv, Prev, vars
<1>. QED
  BY <1>1, <1>2, <1>3, <1>4, <1>5, <1>6, <1>7, <1>8 DEF Next

(***************************************************************************)
(* The selection rounds of ComputeNextStakeModifier run, for every choice  *)
(* of the parameters, on the window start, the candidates and the previous *)
(* modifier the spec names (lines 137-156 of src/src/pos.cpp).             *)
(***************************************************************************)
THEOREM InputsCorrect == Spec => []SelectionInputsAsSpecified
<1>1. CInv => SelectionInputsAsSpecified
  <2> SUFFICES ASSUME CInv, pc \in {"round", "scan"}
               PROVE  SelectionInputsAsSpecified
    BY DEF SelectionInputsAsSpecified
  <2>1. PICK k \in 1..Len(chain) : LastGen(chain, k) /\ eng.modPrev = chain[k].mod
    BY DEF CInv, InputsInv
  <2>2. chain \in Seq(Blocks)
    BY DEF CInv, KInv, NInv, IInv, TypeOK
  <2>3. Abstract!LastGenerated(chain) = k
    BY <2>1, <2>2, LastGeneratedIs
  <2>. QED
    BY <2>1, <2>3 DEF CInv, InputsInv, SelectionInputsAsSpecified
<1>. QED
  BY InitCInv, NextCInv, <1>1, PTL DEF Spec
=============================================================================
