-------------------------------- MODULE Kernel --------------------------------
(***************************************************************************)
(* The stake kernel check of pos.cpp as pure operators: GetWeight (23-30), *)
(* CheckStakeKernelHashV1 (245-307), CheckStakeKernelHashV2 (330-401) and  *)
(* the version switch CheckStakeKernelHash (456-464).                      *)
(*                                                                         *)
(* The widths of the code are kept where they matter:                      *)
(*  - V1 multiplies arith_uint256(nValueIn) by the int64_t GetWeight.      *)
(*    Overload resolution picks base_uint's operator*(uint32_t), so the    *)
(*    weight is taken modulo 2^32 (Uint32Modulus);                         *)
(*  - V1's products are arith_uint256, computed modulo 2^256               *)
(*    (Uint256Modulus);                                                    *)
(*  - V2 computes its target as a CBigNum, with no wrap.                   *)
(* SetCompact(nBits) is not in src/: a target is given already expanded.   *)
(* The double-SHA-256 of the serialized preimage is the constant operator  *)
(* KernelHash, applied to the preimage as a record of its fields.          *)
(***************************************************************************)
EXTENDS Integers

CONSTANTS
  StakeMinAge,       \* params.nStakeMinAge (seconds)
  StakeMaxAge,       \* params.nStakeMaxAge (seconds)
  Coin,              \* COIN (satoshi per coin)
  DaySeconds,        \* 24 * 60 * 60
  Uint32Modulus,     \* 2^32
  Uint256Modulus,    \* 2^256
  ProtocolV2Height,  \* consensusParams.nProtocolV2Height
  KernelHash(_)      \* Hash(ss.begin(), ss.end()) of a kernel preimage

ASSUME KernelAssumption ==
  /\ StakeMinAge \in Nat /\ StakeMaxAge \in Nat
  /\ Coin \in Nat \ {0} /\ DaySeconds \in Nat \ {0}
  /\ Uint32Modulus \in Nat /\ StakeMaxAge < Uint32Modulus
  /\ Uint256Modulus \in Nat \ {0}
  /\ ProtocolV2Height \in Nat

\* GetWeight(nIntervalBeginning, nIntervalEnd), in int64_t.
GetWeight(b, e) ==
  IF e - b - StakeMinAge < StakeMaxAge THEN e - b - StakeMinAge ELSE StakeMaxAge

(***************************************************************************)
(* The outcome of a kernel check: the return value, and the out            *)
(* parameters hashProofOfStake and targetProofOfStake, with Unchanged     *)
(* where the function does not assign them.  Reason names the return      *)
(* taken.                                                                  *)
(***************************************************************************)
KernelOutcome(ok, reason, hash, target) ==
  [ok |-> ok, reason |-> reason, hash |-> hash, target |-> target]

\* An out parameter left at the caller's value: -1, which no uint256 holds.
Unchanged == -1

\* Mutant of PreflightFailure: the min-age check of lines 252 and 338 dropped.
PreflightNoMinAge(timeBlockFrom, txPrevTime, timeTx) ==
  IF timeTx < txPrevTime THEN "ntime" ELSE "none"

(***************************************************************************)
(* The preflight checks at the top of both versions (249-254 and 333-342): *)
(* the coinstake may not be older than txPrev, and the staked block must   *)
(* be at least nStakeMinAge older than the coinstake.                      *)
(***************************************************************************)
PreflightFailure(timeBlockFrom, txPrevTime, timeTx) ==
  IF timeTx < txPrevTime THEN "ntime"
  ELSE IF timeBlockFrom + StakeMinAge > timeTx THEN "minage"
  ELSE "none"

(***************************************************************************)
(* The serialized preimages (ss << ... at lines 273-275 and 359), as       *)
(* records of their fields.                                                *)
(***************************************************************************)
V1Preimage(modifier, timeBlockFrom, offset, txPrevTime, n, timeTx) ==
  [ver |-> 1, mod |-> modifier, timeBlockFrom |-> timeBlockFrom,
   offset |-> offset, txPrevTime |-> txPrevTime, n |-> n, timeTx |-> timeTx]

V2Preimage(modifier, timeBlockFrom, txPrevTime, txid, n, timeTx) ==
  [ver |-> 2, mod |-> modifier, timeBlockFrom |-> timeBlockFrom,
   txPrevTime |-> txPrevTime, txid |-> txid, n |-> n, timeTx |-> timeTx]

(***************************************************************************)
(* CheckStakeKernelHashV1.  lookup is what GetKernelStakeModifier gives   *)
(* (modelled in KernelModifier): found is its return value, mod the       *)
(* modifier.  targetProofOfStake is assigned before the lookup, and        *)
(* hashProofOfStake after it.                                              *)
(***************************************************************************)
CheckStakeKernelHashV1(target, timeBlockFrom, offset, txPrevTime, value, n, timeTx, lookup) ==
  LET pf     == PreflightFailure(timeBlockFrom, txPrevTime, timeTx)
      weight == GetWeight(txPrevTime, timeTx) % Uint32Modulus
      cdw    == (((value * weight) % Uint256Modulus) \div Coin) \div DaySeconds
      tgt    == (cdw * target) % Uint256Modulus
      h      == KernelHash(V1Preimage(lookup.mod, timeBlockFrom, offset,
                                      txPrevTime, n, timeTx))
  IN  IF pf # "none" THEN KernelOutcome(FALSE, pf, Unchanged, Unchanged)
      ELSE IF ~lookup.found THEN KernelOutcome(FALSE, "lookup", Unchanged, tgt)
      ELSE IF h > tgt THEN KernelOutcome(FALSE, "miss", h, tgt)
      ELSE KernelOutcome(TRUE, "pass", h, tgt)

(***************************************************************************)
(* CheckStakeKernelHashV2: the modifier is pindexPrev->nStakeModifier, the *)
(* target nValueIn times the base target in CBigNum, and                  *)
(* targetProofOfStake is never assigned.                                   *)
(***************************************************************************)
CheckStakeKernelHashV2(prevModifier, target, timeBlockFrom, txPrevTime, value, txid, n, timeTx) ==
  LET pf  == PreflightFailure(timeBlockFrom, txPrevTime, timeTx)
      tgt == target * value
      h   == KernelHash(V2Preimage(prevModifier, timeBlockFrom, txPrevTime,
                                   txid, n, timeTx))
  IN  IF pf # "none" THEN KernelOutcome(FALSE, pf, Unchanged, Unchanged)
      ELSE IF h > tgt THEN KernelOutcome(FALSE, "miss", h, Unchanged)
      ELSE KernelOutcome(TRUE, "pass", h, Unchanged)

\* CheckStakeKernelHash: V2 above the activation height.
IsV2(prevHeight) == prevHeight + 1 > ProtocolV2Height

CheckStakeKernelHash(prevHeight, prevModifier, target, timeBlockFrom, offset, txPrevTime, value, txid, n, timeTx, lookup) ==
  IF IsV2(prevHeight)
  THEN CheckStakeKernelHashV2(prevModifier, target, timeBlockFrom, txPrevTime,
                              value, txid, n, timeTx)
  ELSE CheckStakeKernelHashV1(target, timeBlockFrom, offset, txPrevTime, value,
                              n, timeTx, lookup)
=============================================================================
