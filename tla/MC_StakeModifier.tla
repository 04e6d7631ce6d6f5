--------------------------- MODULE MC_StakeModifier ---------------------------
(***************************************************************************)
(* A small instance of StakeModifier for TLC.  Three selection rounds, a  *)
(* modifier interval of 4 and the ratio 3 give sections 1, 2, 4 and a      *)
(* selection interval of 7, so a window spans about two epochs and a chain *)
(* of six blocks reaches the "same epoch" and the "new modifier" branches, *)
(* windows with fewer and with more candidates than rounds, rounds with no *)
(* candidate before their stop, and ties in time.                          *)
(***************************************************************************)
EXTENDS StakeModifier

\* Dense chain: a new block's time is one second before or two after its
\* parent's, so a selection window holds more blocks than there are rounds.
MCTimeSteps == {-1, 2}

\* Sparse chain: four seconds, a whole modifier interval, between blocks, so
\* a window can hold fewer blocks than there are rounds.
MCSparseTimeSteps == {-1, 4}

\* Two hashes per height, of opposite parities (so both entropy bits): one
\* above every earlier hash and one below every earlier hash.
MCBlockHashChoices(h) == {(30 + 2 * h) + (h % 2), (29 - 2 * h) - (h % 2)}

\* The modifier bits read as a number.
ModVal(m) == m[0] + 2 * m[1] + 4 * m[2]

\* A fixed scrambling of (hashProof, modifier) into 0..15.
MCSelHash(p, m) == ((p * 5 + ModVal(m) * 3) + ((p * ModVal(m)) % 7)) % 16
=============================================================================
