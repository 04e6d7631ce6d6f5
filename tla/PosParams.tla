------------------------------ MODULE PosParams ------------------------------
(***************************************************************************)
(* Consensus parameters of the proof-of-stake kernel (src/src/pos.cpp) and  *)
(* the one derived constant computed from them in the file: the stake     *)
(* modifier selection interval, the sum of 64 interval sections.           *)
(*                                                                         *)
(* The code hard-wires 64 selection rounds (and 63 = 64 - 1 in the section *)
(* formula); the model takes that count as the constant Rounds so that a   *)
(* small instance keeps the shape of the formula.                          *)
(***************************************************************************)
EXTENDS Integers

CONSTANTS
  ModifierInterval,       \* params.nModifierInterval (seconds)
  ModifierIntervalRatio,  \* MODIFIER_INTERVAL_RATIO (3 in the code base)
  Rounds                  \* number of selection rounds and modifier bits (64)

ASSUME ParamsAssumption ==
  /\ ModifierInterval \in Nat \ {0}
  /\ ModifierIntervalRatio \in Nat \ {0}
  /\ Rounds \in Nat /\ Rounds >= 2

(***************************************************************************)
(* GetStakeModifierSelectionIntervalSection(nSection): the length of the   *)
(* section added to the selection window in round nSection.  Integer       *)
(* division truncates; all operands are non-negative.                      *)
(***************************************************************************)
Section(n) ==
  (ModifierInterval * (Rounds - 1))
    \div ((Rounds - 1) + (Rounds - 1 - n) * (ModifierIntervalRatio - 1))

(***************************************************************************)
(* SectionSum[k] is the running value of nSelectionInterval after the      *)
(* first k iterations of the loop of GetStakeModifierSelectionInterval;    *)
(* it is also how far nSelectionIntervalStop has advanced past the window  *)
(* start after k selection rounds of ComputeNextStakeModifier.             *)
(***************************************************************************)
SectionSum[k \in 0..Rounds] ==
  IF k = 0 THEN 0 ELSE SectionSum[k - 1] + Section(k - 1)

\* GetStakeModifierSelectionInterval()
SelectionInterval == SectionSum[Rounds]

(***************************************************************************)
(* The selection interval is a fixed number computed once per parameter    *)
(* set; TLC evaluates it for the instance of every run.  The proofs use it *)
(* as this named fact rather than unfolding a 64-term sum.                 *)
(***************************************************************************)
ASSUME SelectionIntervalAssumption ==
  /\ SelectionInterval \in Nat \ {0}
  /\ \A k \in 0..Rounds : SectionSum[k] \in Nat
=============================================================================
