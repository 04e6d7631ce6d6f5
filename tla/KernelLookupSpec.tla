--------------------------- MODULE KernelLookupSpec ---------------------------
(***************************************************************************)
(* What GetKernelStakeModifier promises (spec 4.3.2), as a function of    *)
(* the active chain: for the staked block f, the modifier of the first     *)
(* block after f that generated a modifier at least a selection interval  *)
(* after f's time, or a failure while the active chain has no such block. *)
(* The chain grows by the modifier contract of StakeModifierSpec.         *)
(***************************************************************************)
EXTENDS BlockChain

VARIABLE chain   \* the active chain

Chain == INSTANCE StakeModifierSpec

(***************************************************************************)
(* The blocks after f that generated a modifier at least a selection      *)
(* interval after f's time: the ones the V1 kernel may take its modifier   *)
(* from.                                                                   *)
(***************************************************************************)
LateGenerations(c, f) ==
  {k \in (f + 1)..Len(c) : c[k].gen /\ c[k].time >= c[f].time + SelectionInterval}

FirstOf(S) == CHOOSE k \in S : \A j \in S : k <= j

\* The answer of spec 4.3.2 for the staked block f of chain c.
Answer(c, f) ==
  LET L == LateGenerations(c, f)
  IN  IF L = {} THEN [ok |-> FALSE, mod |-> ZeroModifier]
      ELSE [ok |-> TRUE, mod |-> c[FirstOf(L)].mod]
=============================================================================
