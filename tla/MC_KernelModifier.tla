-------------------------- MODULE MC_KernelModifier --------------------------
(***************************************************************************)
(* A small instance of KernelModifier for TLC: the parameters of          *)
(* MC_StakeModifier (selection interval 7, modifier interval 4), blocks   *)
(* one second before or four seconds after their parent, so that some     *)
(* blocks generate a modifier and some do not, and the walk of a lookup    *)
(* crosses blocks whose time is earlier than their parent's.               *)
(***************************************************************************)
EXTENDS KernelModifier

MCTimeSteps == {-1, 4}

\* Two hashes per height, of opposite parities (so both entropy bits).
MCBlockHashChoices(h) == {(30 + 2 * h) + (h % 2), (29 - 2 * h) - (h % 2)}

\* The modifier bits read as a number.
ModVal(m) == m[0] + 2 * m[1] + 4 * m[2]

\* A fixed scrambling of (hashProof, modifier) into 0..15.
MCSelHash(p, m) == ((p * 5 + ModVal(m) * 3) + ((p * ModVal(m)) % 7)) % 16
=============================================================================
