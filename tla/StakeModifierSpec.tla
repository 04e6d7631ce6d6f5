--------------------------- MODULE StakeModifierSpec --------------------------
(***************************************************************************)
(* What ComputeNextStakeModifier promises, stated on whole sets: the       *)
(* chain grows one block at a time, and every block carries the modifier   *)
(* and generation flag that NextStakeModifier assigns to its parent chain. *)
(*                                                                         *)
(* NextStakeModifier says, without loops: the last generated modifier is   *)
(* that of the highest block with the generated flag; it is kept while its *)
(* block time is in the parent's modifier epoch or a later one; otherwise  *)
(* the candidates are the maximal suffix of the chain with times at or     *)
(* after the window start, and round r takes, among the candidates not     *)
(* taken before, the one of least selection hash (ties to the earlier in   *)
(* (time, hash) order) among those with time at or before the round's      *)
(* stop, or the earliest remaining candidate if none is that early.        *)
(***************************************************************************)
EXTENDS BlockChain

VARIABLE chain

\* The index of the block GetLastStakeModifier stops at.
LastGenerated(c) ==
  CHOOSE i \in DOMAIN c : c[i].gen /\ \A j \in (i + 1)..Len(c) : ~c[j].gen

\* vSortedByTimestamp, as a set of chain positions.
Candidates(c, start) ==
  {i \in DOMAIN c : \A j \in i..Len(c) : c[j].time >= start}

(***************************************************************************)
(* SelectBlockFromCandidates for round r: U is what is not yet selected,   *)
(* E the part of it at or before nSelectionIntervalStop.                   *)
(***************************************************************************)
RoundPick(c, C, S, start, mPrev, r) ==
  LET U == C \ S
      E == {i \in U : c[i].time <= start + SectionSum[r + 1]}
      H(i) == SelectionHash(c[i], mPrev)
  IN  IF E # {}
      THEN CHOOSE i \in E : \A j \in E \ {i} :
             H(i) < H(j) \/ (H(i) = H(j) /\ Before(c, i, j))
      ELSE CHOOSE i \in U : \A j \in U \ {i} : Before(c, i, j)

NextStakeModifier(c) ==
  IF c = <<>> THEN [mod |-> ZeroModifier, gen |-> TRUE]
  ELSE
    LET prev  == c[Len(c)]
        last  == c[LastGenerated(c)]
        start == SelectionStart(prev.time)
        C     == Candidates(c, start)
        k     == MinOf(Rounds, Cardinality(C))
        picks[r \in 0..k] ==
          IF r = 0 THEN <<>>
          ELSE LET p == picks[r - 1]
               IN  Append(p, RoundPick(c, C, {p[q] : q \in DOMAIN p},
                                       start, last.mod, r - 1))
        chosen == picks[k]
    IN  IF Epoch(last.time) >= Epoch(prev.time)
        THEN [mod |-> last.mod, gen |-> FALSE]
        ELSE [mod |-> [r \in 0..(Rounds - 1) |->
                         IF r < k THEN EntropyBit(c[chosen[r + 1]]) ELSE 0],
              gen |-> TRUE]

Init == chain = <<>>

\* Block connection: a new block stamped with the next stake modifier.
ConnectBlock ==
  LET nm == NextStakeModifier(chain)
  IN  /\ Len(chain) < MaxBlocks
      /\ \E hd \in NextHeaders(chain) :
           chain' = Append(chain, Stamp(hd, nm.mod, nm.gen))

Spec == Init /\ [][ConnectBlock]_chain
=============================================================================
