---------------------------- MODULE StakeModifier ----------------------------
(***************************************************************************)
(* ComputeNextStakeModifier (src/src/pos.cpp), step by step, as it runs    *)
(* when a block is connected: one action per loop iteration of             *)
(* GetLastStakeModifier, of the candidate collection, of the selection     *)
(* rounds and of the scan in SelectBlockFromCandidates.  The block being   *)
(* connected is appended, stamped with the computed modifier, when the     *)
(* computation returns true; when it returns false the block is rejected  *)
(* and the chain is left as it was.                                        *)
(*                                                                         *)
(* The computation runs under the chain lock and only reads the chain, so  *)
(* nothing interleaves with it; its steps are made explicit so that the    *)
(* loops, their early exits and their error paths are each a transition.   *)
(***************************************************************************)
EXTENDS BlockChain

VARIABLES
  chain,  \* the active chain of block index nodes
  pc,     \* where ComputeNextStakeModifier is
  hdr,    \* the header of the block being connected
  eng     \* the locals of ComputeNextStakeModifier and its callees

vars == <<chain, pc, hdr, eng>>

PCs == {"idle", "last", "collect", "round", "scan", "fail"}

(***************************************************************************)
(* eng.walk    pindex, as a chain position (0 is the null pointer)         *)
(* eng.modPrev nStakeModifier as set by GetLastStakeModifier               *)
(* eng.modTime nModifierTime                                               *)
(* eng.start   nSelectionIntervalStart                                     *)
(* eng.cands   the blocks pushed on vSortedByTimestamp                     *)
(* eng.round   nRound                                                      *)
(* eng.stop    nSelectionIntervalStop                                      *)
(* eng.newMod  nStakeModifierNew                                           *)
(* eng.sel     the keys of mapSelectedBlocks                               *)
(* eng.cursor  the last item of vSortedByTimestamp the scan visited        *)
(* eng.fSel    fSelected;  eng.best  *pindexSelected;  eng.hashBest        *)
(***************************************************************************)
Frames ==
  [walk : 0..MaxBlocks, modPrev : Modifiers, modTime : Nat, start : Int,
   cands : SUBSET (1..MaxBlocks), round : 0..Rounds, stop : Int, newMod : Modifiers,
   sel : SUBSET (1..MaxBlocks), cursor : 0..MaxBlocks, fSel : BOOLEAN,
   best : 0..MaxBlocks, hashBest : Nat]

InitFrame ==
  [walk |-> 0, modPrev |-> ZeroModifier, modTime |-> 0, start |-> 0,
   cands |-> {}, round |-> 0, stop |-> 0, newMod |-> ZeroModifier,
   sel |-> {}, cursor |-> 0, fSel |-> FALSE, best |-> 0, hashBest |-> 0]

NoHeader == [time |-> 0, hash |-> 0, proof |-> 0, pos |-> FALSE]

Init ==
  /\ chain = <<>>
  /\ pc = "idle"
  /\ hdr = NoHeader
  /\ eng = InitFrame

Prev == chain[Len(chain)]

\* Return true with (m, g): the block is connected with these fields.
Finish(m, g) ==
  /\ chain' = Append(chain, Stamp(hdr, m, g))
  /\ pc' = "idle"
  /\ hdr' = NoHeader
  /\ eng' = InitFrame

-----------------------------------------------------------------------------
(* Block connection calls ComputeNextStakeModifier(pindexPrev).            *)

\* pindexPrev is null: the genesis block's modifier is 0 (lines 132-136).
ConnectGenesis ==
  /\ pc = "idle"
  /\ chain = <<>>
  /\ \E hd \in NextHeaders(chain) :
       chain' = Append(chain, Stamp(hd, ZeroModifier, TRUE))
  /\ UNCHANGED <<pc, hdr, eng>>

\* A later block: GetLastStakeModifier starts at pindexPrev.
BeginConnect ==
  /\ pc = "idle"
  /\ chain # <<>>
  /\ Len(chain) < MaxBlocks
  /\ \E hd \in NextHeaders(chain) : hdr' = hd
  /\ pc' = "last"
  /\ eng' = [eng EXCEPT !.walk = Len(chain)]
  /\ UNCHANGED chain

\* GetLastStakeModifier: while pprev exists and no modifier was generated.
LastStep ==
  /\ pc = "last"
  /\ eng.walk > 1
  /\ ~chain[eng.walk].gen
  /\ eng' = [eng EXCEPT !.walk = @ - 1]
  /\ UNCHANGED <<chain, pc, hdr>>

\* Mutant of LastFound: the same-epoch test of line 143 taken strictly.
LastFoundEpochStrict ==
  /\ pc = "last"
  /\ eng.walk = 1 \/ chain[eng.walk].gen
  /\ LET b == chain[eng.walk] IN
     CASE ~b.gen ->
            /\ pc' = "fail"
            /\ UNCHANGED <<chain, hdr, eng>>
       [] b.gen /\ Epoch(b.time) > Epoch(Prev.time) ->
            Finish(b.mod, FALSE)
       [] b.gen /\ Epoch(b.time) <= Epoch(Prev.time) ->
            /\ eng' = [eng EXCEPT !.modPrev = b.mod, !.modTime = b.time,
                                  !.start = SelectionStart(Prev.time),
                                  !.cands = {}, !.walk = Len(chain)]
            /\ pc' = "collect"
            /\ UNCHANGED <<chain, hdr>>

\* Mutant of LastFound: the candidate walk starts at pindexPrev->pprev.
LastFoundSkipPrev ==
  /\ pc = "last"
  /\ eng.walk = 1 \/ chain[eng.walk].gen
  /\ LET b == chain[eng.walk] IN
     CASE ~b.gen ->
            /\ pc' = "fail"
            /\ UNCHANGED <<chain, hdr, eng>>
       [] b.gen /\ Epoch(b.time) >= Epoch(Prev.time) ->
            Finish(b.mod, FALSE)
       [] b.gen /\ Epoch(b.time) < Epoch(Prev.time) ->
            /\ eng' = [eng EXCEPT !.modPrev = b.mod, !.modTime = b.time,
                                  !.start = SelectionStart(Prev.time),
                                  !.cands = {}, !.walk = Len(chain) - 1]
            /\ pc' = "collect"
            /\ UNCHANGED <<chain, hdr>>

(***************************************************************************)
(* The loop of GetLastStakeModifier has stopped at block b.  If b has no   *)
(* generated modifier (only possible at genesis) both calls return false  *)
(* (lines 40-41, 140-141).  If b's modifier is still in the parent's      *)
(* epoch it is kept (lines 143-144).  Otherwise a new modifier is          *)
(* computed: the selection window opens and the candidate walk starts at  *)
(* pindexPrev (lines 147-151).                                             *)
(***************************************************************************)
LastFound ==
  /\ pc = "last"
  /\ eng.walk = 1 \/ chain[eng.walk].gen
  /\ LET b == chain[eng.walk] IN
     CASE ~b.gen ->
            /\ pc' = "fail"
            /\ UNCHANGED <<chain, hdr, eng>>
       [] b.gen /\ Epoch(b.time) >= Epoch(Prev.time) ->
            Finish(b.mod, FALSE)
       [] b.gen /\ Epoch(b.time) < Epoch(Prev.time) ->
            /\ eng' = [eng EXCEPT !.modPrev = b.mod, !.modTime = b.time,
                                  !.start = SelectionStart(Prev.time),
                                  !.cands = {}, !.walk = Len(chain)]
            /\ pc' = "collect"
            /\ UNCHANGED <<chain, hdr>>

\* while (pindex && pindex->GetBlockTime() >= nSelectionIntervalStart)
CollectStep ==
  /\ pc = "collect"
  /\ eng.walk >= 1
  /\ chain[eng.walk].time >= eng.start
  /\ eng' = [eng EXCEPT !.cands = @ \cup {eng.walk}, !.walk = @ - 1]
  /\ UNCHANGED <<chain, pc, hdr>>

\* End of the walk; reverse and sort; set up the selection (lines 157-163).
CollectDone ==
  /\ pc = "collect"
  /\ \/ eng.walk = 0
     \/ eng.walk >= 1 /\ chain[eng.walk].time < eng.start
  /\ eng' = [eng EXCEPT !.newMod = ZeroModifier, !.stop = eng.start,
                        !.sel = {}, !.round = 0]
  /\ pc' = "round"
  /\ UNCHANGED <<chain, hdr>>

(***************************************************************************)
(* Mutants of the round loop's bound nRound < min(64, size): without the  *)
(* size, and without the 64.                                               *)
(***************************************************************************)
RoundStartNoSizeBound ==
  /\ pc = "round"
  /\ eng.round < Rounds
  /\ eng' = [eng EXCEPT !.stop = @ + Section(eng.round),
                        !.cursor = 0, !.fSel = FALSE, !.best = 0,
                        !.hashBest = 0]
  /\ pc' = "scan"
  /\ UNCHANGED <<chain, hdr>>

RoundStartNoRoundsBound ==
  /\ pc = "round"
  /\ eng.round < Cardinality(eng.cands)
  /\ eng' = [eng EXCEPT !.stop = @ + Section(eng.round),
                        !.cursor = 0, !.fSel = FALSE, !.best = 0,
                        !.hashBest = 0]
  /\ pc' = "scan"
  /\ UNCHANGED <<chain, hdr>>

\* for (nRound = 0; nRound < min(64, size); nRound++): extend the stop.
RoundStart ==
  /\ pc = "round"
  /\ eng.round < MinOf(Rounds, Cardinality(eng.cands))
  /\ eng' = [eng EXCEPT !.stop = @ + Section(eng.round),
                        !.cursor = 0, !.fSel = FALSE, !.best = 0,
                        !.hashBest = 0]
  /\ pc' = "scan"
  /\ UNCHANGED <<chain, hdr>>

\* All rounds done: the new modifier is generated (lines 181-183).
RoundsDone ==
  /\ pc = "round"
  /\ eng.round >= MinOf(Rounds, Cardinality(eng.cands))
  /\ Finish(eng.newMod, TRUE)

-----------------------------------------------------------------------------
(* SelectBlockFromCandidates: the items of vSortedByTimestamp in order.    *)

\* Item i comes after the cursor in vSortedByTimestamp.
Unvisited(i) == IF eng.cursor = 0 THEN TRUE ELSE Before(chain, eng.cursor, i)

\* Item i is the next item of the iteration.
IsNextItem(i) ==
  /\ i \in eng.cands
  /\ Unvisited(i)
  /\ \A j \in eng.cands : Unvisited(j) => j = i \/ Before(chain, i, j)

\* Mutant of Breaks: the loop also stops at a block exactly at the stop time.
BreaksAtStop(i) == eng.fSel /\ chain[i].time >= eng.stop

\* if (fSelected && pindex->GetBlockTime() > nSelectionIntervalStop) break;
Breaks(i) == eng.fSel /\ chain[i].time > eng.stop

\* Already in mapSelectedBlocks: continue.
ScanSkip ==
  /\ pc = "scan"
  /\ \E i \in eng.cands :
       /\ IsNextItem(i) /\ ~Breaks(i)
       /\ i \in eng.sel
       /\ eng' = [eng EXCEPT !.cursor = i]
  /\ UNCHANGED <<chain, pc, hdr>>

\* The first selectable item, or one with a smaller selection hash.
ScanTake ==
  /\ pc = "scan"
  /\ \E i \in eng.cands :
       LET h == SelectionHash(chain[i], eng.modPrev) IN
       /\ IsNextItem(i) /\ ~Breaks(i)
       /\ i \notin eng.sel
       /\ ~eng.fSel \/ h < eng.hashBest
       /\ eng' = [eng EXCEPT !.cursor = i, !.fSel = TRUE, !.best = i,
                             !.hashBest = h]
  /\ UNCHANGED <<chain, pc, hdr>>

\* An item whose selection hash does not beat the best so far.
ScanKeep ==
  /\ pc = "scan"
  /\ \E i \in eng.cands :
       /\ IsNextItem(i) /\ ~Breaks(i)
       /\ i \notin eng.sel
       /\ eng.fSel
       /\ SelectionHash(chain[i], eng.modPrev) >= eng.hashBest
       /\ eng' = [eng EXCEPT !.cursor = i]
  /\ UNCHANGED <<chain, pc, hdr>>

\* The loop ended by break or by running out of items.
ScanEnded ==
  \/ \E i \in eng.cands : IsNextItem(i) /\ Breaks(i)
  \/ \A i \in eng.cands : ~Unvisited(i)

\* nStakeModifierNew |= (uint64_t)bit << nRound, on the bits of a modifier.
OrBit(m, r, bit) == [m EXCEPT ![r] = IF bit = 1 THEN 1 ELSE m[r]]

(***************************************************************************)
(* SelectBlockFromCandidates has returned.  With a selection, its entropy  *)
(* bit is written to bit nRound and it joins mapSelectedBlocks (lines      *)
(* 172-175); without one ComputeNextStakeModifier returns false (line      *)
(* 170) and the block is not connected.                                    *)
(***************************************************************************)
SelectDone ==
  /\ pc = "scan"
  /\ ScanEnded
  /\ IF eng.fSel
     THEN /\ eng' = [eng EXCEPT
                      !.newMod = OrBit(@, eng.round, EntropyBit(chain[eng.best])),
                      !.sel = @ \cup {eng.best},
                      !.round = @ + 1]
          /\ pc' = "round"
     ELSE /\ pc' = "fail"
          /\ UNCHANGED eng
  /\ UNCHANGED <<chain, hdr>>

\* The chain has reached the model's bound.
Halt ==
  /\ pc = "idle"
  /\ Len(chain) = MaxBlocks
  /\ UNCHANGED vars

Next ==
  \/ ConnectGenesis \/ BeginConnect
  \/ LastStep \/ LastFound
  \/ CollectStep \/ CollectDone \/ RoundStart \/ RoundsDone
  \/ ScanSkip \/ ScanTake \/ ScanKeep \/ SelectDone
  \/ Halt

Spec == Init /\ [][Next]_vars

-----------------------------------------------------------------------------
(* Properties.                                                             *)

TypeOK ==
  /\ chain \in Seq(Blocks)
  /\ Len(chain) <= MaxBlocks
  /\ pc \in PCs
  /\ hdr \in Headers
  /\ eng \in Frames

(***************************************************************************)
(* ComputeNextStakeModifier never fails on a chain that started at         *)
(* genesis: GetLastStakeModifier always finds a generated modifier, and    *)
(* the bound min(64, vSortedByTimestamp.size()) on the rounds together     *)
(* with mapSelectedBlocks leaves SelectBlockFromCandidates an unselected   *)
(* candidate in every round.  The spec says the selection "fails with a    *)
(* pathologically short chain"; this states that it never does.           *)
(***************************************************************************)
NeverFails == pc # "fail"

(***************************************************************************)
(* Every block connected carries the modifier and flag that the set-level  *)
(* definition of StakeModifierSpec assigns to its parent chain: the loops  *)
(* of GetLastStakeModifier, of the candidate walk and of                   *)
(* SelectBlockFromCandidates with its break and continue compute the       *)
(* least-selection-hash choice among the candidates of each round's        *)
(* window (spec invariant 2).                                              *)
(***************************************************************************)
Abstract == INSTANCE StakeModifierSpec

ImplementsSpec == Abstract!Spec

(***************************************************************************)
(* Every block carries the generation flag that spec 4.2 assigns to its    *)
(* parent chain, and a block that does not generate carries the last       *)
(* generated modifier: GetLastStakeModifier's walk back along pprev stops  *)
(* at the last generating block, and lines 143-144 keep its modifier       *)
(* exactly when its time is in the parent's modifier epoch or a later one. *)
(***************************************************************************)
ModifierKeptAsSpecified ==
  \A i \in 1..Len(chain) :
    LET nm == Abstract!NextStakeModifier(SubSeq(chain, 1, i - 1))
    IN  /\ chain[i].gen = nm.gen
        /\ ~nm.gen => chain[i].mod = nm.mod
(***************************************************************************)
(* The choice the spec makes in round r (StakeModifierSpec's RoundPick),   *)
(* for the round's stop: among the unselected candidates U, the one of     *)
(* least selection hash among those at or before the stop, ties to the     *)
(* earlier in (time, hash) order; the earliest of U if none is that early. *)
(***************************************************************************)
RoundChoice(b) ==
  LET U == eng.cands \ eng.sel
      E == {i \in U : chain[i].time <= eng.stop}
      H(i) == SelectionHash(chain[i], eng.modPrev)
  IN  /\ b \in U
      /\ E # {} => /\ b \in E
                   /\ \A j \in E \ {b} : H(b) < H(j) \/ (H(b) = H(j) /\ Before(chain, b, j))
      /\ E = {} => \A j \in U \ {b} : Before(chain, b, j)

(***************************************************************************)
(* SelectBlockFromCandidates returns the block the spec chooses: its walk  *)
(* over vSortedByTimestamp with the break past nSelectionIntervalStop      *)
(* once a block is selected, the continue over mapSelectedBlocks and the   *)
(* strict hashProof < hashBest replacement (lines 79-102) never end a      *)
(* round with a block other than RoundChoice.                              *)
(***************************************************************************)
SelectionAsSpecified ==
  [][pc = "scan" /\ pc' = "round" => RoundChoice(eng.best)]_vars
(***************************************************************************)
(* The selection rounds run on the inputs the spec names: the window start *)
(* computed from pindexPrev's time (line 150), the candidates the walk     *)
(* back along pprev collects, the maximal suffix of the chain with times   *)
(* at or after the start even though block times are not monotone (lines  *)
(* 152-156), and as nStakeModifierPrev the modifier of the last generating *)
(* block that GetLastStakeModifier found.                                  *)
(***************************************************************************)
SelectionInputsAsSpecified ==
  pc \in {"round", "scan"} =>
    /\ eng.start = SelectionStart(Prev.time)
    /\ eng.cands = Abstract!Candidates(chain, eng.start)
    /\ eng.modPrev = chain[Abstract!LastGenerated(chain)].mod
=============================================================================
