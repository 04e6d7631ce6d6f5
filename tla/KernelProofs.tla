----------------------------- MODULE KernelProofs -----------------------------
(***************************************************************************)
(* Proofs about the V1 kernel arithmetic of Kernel, for every value of the *)
(* constants: once the preflight checks of CheckStakeKernelHashV1 pass,    *)
(* and txPrev is no younger than the block holding it, GetWeight is        *)
(* between 0 and nStakeMaxAge, so passing it to base_uint's                *)
(* operator*(uint32_t) loses nothing, and the target and the decision are  *)
(* the ones spec 4.3.2 computes from the exact weight.                     *)
(***************************************************************************)
EXTENDS Kernel, TLAPS

\* The preflights that pass and the block-level time rule, on naturals.
Preflighted(tbf, tpt, ttx) ==
  /\ tbf \in Nat /\ tpt \in Nat /\ ttx \in Nat
  /\ tpt <= tbf
  /\ PreflightFailure(tbf, tpt, ttx) = "none"

\* The V1 target of spec 4.3.2: base target times the exact coin-day weight.
ExactV1Target(target, value, tpt, ttx) ==
  (target * (((value * GetWeight(tpt, ttx)) \div Coin) \div DaySeconds)) % Uint256Modulus

(***************************************************************************)
(* GetWeight (line 29) is non-negative and at most nStakeMaxAge once the   *)
(* nTime and min-age checks of lines 249-254 pass.                         *)
(***************************************************************************)
LEMMA WeightInRange ==
  ASSUME NEW tbf, NEW tpt, NEW ttx, Preflighted(tbf, tpt, ttx)
  PROVE  GetWeight(tpt, ttx) \in 0..StakeMaxAge
<1>1. ~(ttx < tpt) /\ ~(tbf + StakeMinAge > ttx)
  BY DEF Preflighted, PreflightFailure
<1>2. ttx - tpt - StakeMinAge \in Nat
  BY <1>1, KernelAssumption DEF Preflighted
<1>. QED
  BY <1>2, KernelAssumption DEF GetWeight

(***************************************************************************)
(* The int64_t weight survives the conversion to uint32_t at line 261.     *)
(***************************************************************************)
LEMMA WeightExact ==
  ASSUME NEW tbf, NEW tpt, NEW ttx, Preflighted(tbf, tpt, ttx)
  PROVE  GetWeight(tpt, ttx) % Uint32Modulus = GetWeight(tpt, ttx)
<1>1. GetWeight(tpt, ttx) \in 0..StakeMaxAge
  BY WeightInRange
<1>. QED
  BY <1>1, KernelAssumption

(***************************************************************************)
(* arith_uint256(nValueIn) * weight does not wrap when nValueIn times the  *)
(* maximum age fits in 256 bits, as a 64-bit value times a 32-bit one      *)
(* does.                                                                   *)
(***************************************************************************)
LEMMA CoinWeightExact ==
  ASSUME NEW tbf, NEW tpt, NEW ttx, Preflighted(tbf, tpt, ttx),
         NEW value \in Nat, value * StakeMaxAge < Uint256Modulus
  PROVE  (value * GetWeight(tpt, ttx)) % Uint256Modulus
           = value * GetWeight(tpt, ttx)
<1>. DEFINE g == GetWeight(tpt, ttx)
<1>1. g \in 0..StakeMaxAge
  BY WeightInRange
<1>2. value * g <= value * StakeMaxAge
  BY <1>1, KernelAssumption
<1>3. value * g \in 0..(Uint256Modulus - 1)
  BY <1>1, <1>2, KernelAssumption
<1>. QED
  BY <1>3, KernelAssumption

(***************************************************************************)
(* CheckStakeKernelHashV1, once its preflights pass and the forward        *)
(* modifier is found, compares the proof with spec 4.3.2's target,         *)
(* expand_compact(nBits) * (value * GetWeight / COIN / 86400) in 256 bits, *)
(* and hands that target back as targetProofOfStake; it succeeds exactly  *)
(* when the proof, a uint256, is at most that target (line 292).          *)
(***************************************************************************)
THEOREM V1TargetAsSpecified ==
  ASSUME NEW tbf, NEW tpt, NEW ttx, Preflighted(tbf, tpt, ttx),
         NEW value \in Nat, value * StakeMaxAge < Uint256Modulus,
         NEW target \in Nat, NEW offset, NEW n, NEW lookup, lookup.found,
         KernelHash(V1Preimage(lookup.mod, tbf, offset, tpt, n, ttx)) \in Nat
  PROVE  /\ CheckStakeKernelHashV1(target, tbf, offset, tpt, value, n, ttx, lookup).target
              = ExactV1Target(target, value, tpt, ttx)
         /\ CheckStakeKernelHashV1(target, tbf, offset, tpt, value, n, ttx, lookup).ok
              = (KernelHash(V1Preimage(lookup.mod, tbf, offset, tpt, n, ttx))
                   <= ExactV1Target(target, value, tpt, ttx))
<1>. DEFINE g   == GetWeight(tpt, ttx)
            cdw == ((value * g) \div Coin) \div DaySeconds
            tgt == (cdw * target) % Uint256Modulus
            h   == KernelHash(V1Preimage(lookup.mod, tbf, offset, tpt, n, ttx))
            r   == CheckStakeKernelHashV1(target, tbf, offset, tpt, value, n,
                                          ttx, lookup)
<1>1. g % Uint32Modulus = g
  BY WeightExact
<1>2. (value * g) % Uint256Modulus = value * g
  BY CoinWeightExact
<1>3. PreflightFailure(tbf, tpt, ttx) = "none"
  BY DEF Preflighted
<1>4. r = IF h > tgt THEN KernelOutcome(FALSE, "miss", h, tgt)
          ELSE KernelOutcome(TRUE, "pass", h, tgt)
  BY <1>1, <1>2, <1>3 DEF r, CheckStakeKernelHashV1, g, cdw, tgt, h
<1>5. g \in Nat
  BY WeightInRange
<1>6. cdw \in Nat /\ tgt \in Int /\ h \in Nat
  BY <1>5, KernelAssumption DEF cdw, tgt, h
<1>7. tgt = (target * cdw) % Uint256Modulus
  BY <1>6 DEF tgt
<1>8. r.target = tgt /\ r.ok = (h <= tgt)
  <2>1. CASE h > tgt
    <3>1. r = KernelOutcome(FALSE, "miss", h, tgt)
      BY <1>4, <2>1
    <3>2. r.target = tgt /\ r.ok = FALSE
      BY <3>1 DEF KernelOutcome
    <3>3. (h <= tgt) = FALSE
      BY <2>1, <1>6
    <3>. QED
      BY <3>2, <3>3, Zenon
  <2>2. CASE ~(h > tgt)
    <3>1. r = KernelOutcome(TRUE, "pass", h, tgt)
      BY <1>4, <2>2
    <3>2. r.target = tgt /\ r.ok = TRUE
      BY <3>1 DEF KernelOutcome
    <3>3. (h <= tgt) = TRUE
      BY <2>2, <1>6
    <3>. QED
      BY <3>2, <3>3, Zenon
  <2>. QED
    BY <2>1, <2>2
<1>. QED
  BY <1>8, <1>7 DEF r, cdw, g, h, ExactV1Target
=============================================================================
