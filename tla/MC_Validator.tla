---------------------------- MODULE MC_Validator ----------------------------
(***************************************************************************)
(* A small instance of Validator for TLC.  Heights 1..3 with the V2        *)
(* switch at 2, so pindexPrev at height 1 runs V1 and at 2 or 3 runs V2;   *)
(* blocks two seconds apart; a minimum age of 2 and a maximum age of 3;    *)
(* COIN and the day scaled to 1, so the coin-day weight is value times     *)
(* age; 2^32 scaled to 8 and 2^256 to 16, so the V1 target wraps for the   *)
(* larger values and targets (3 * 3 * 3 = 27).                             *)
(***************************************************************************)
EXTENDS Validator

MCBlockTime(h) == 2 * h

MCModifierAt(h) == h % 2

MCOffsetAt(h) == 1 + (h % 2)

\* A fixed scrambling of a kernel preimage into 0..15.
MCKernelHash(pre) ==
  LET m == pre.mod
      x == IF pre.ver = 1 THEN pre.offset ELSE pre.txid
  IN  (m * 7 + pre.timeBlockFrom * 3 + x * 5 + pre.txPrevTime * 11
       + pre.n * 13 + pre.timeTx * 9 + pre.ver) % 16

MCPrevouts == {[hash |-> 1, n |-> 0]}
=============================================================================
