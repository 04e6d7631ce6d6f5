--------------------------- MODULE ValidatorProofs ---------------------------
(***************************************************************************)
(* Proofs that CheckProofOfStake and CheckKernel accept exactly what spec  *)
(* 4.4 accepts, for every value of the constants.  The kernel arithmetic   *)
(* rests on V1TargetAsSpecified of KernelProofs.                           *)
(***************************************************************************)
EXTENDS Validator, KernelProofs

\* Hash(...) of a preimage is a uint256.
HashesAreNumbers == \A x : KernelHash(x) \in Nat

\* What spec 4.4 asks of the kernel once every lookup has succeeded.
SpecKernelOK(in) ==
  /\ SpecPreflightOK(in)
  /\ ~SpecIsV2(in) => in.w.lookup.found
  /\ ~(SpecProof(in) > SpecTarget(in))

\* The shape of the collaborators' answers.
LEMMA WorldsShape ==
  ASSUME NEW ph, NEW w \in Worlds(ph)
  PROVE  /\ w.disk \in BOOLEAN /\ w.offsetFound \in BOOLEAN /\ w.lookup \in Lookups
         /\ w.coin = NoCoin => w.txPrev = NoTx
         /\ w.coin # NoCoin => w.coin \in Coins /\ w.txPrev \in TxPrevs(w.coin.height)
<1>1. PICK c \in {NoCoin} \cup Coins :
        w \in [coin : {c}, disk : BOOLEAN,
               txPrev : IF c = NoCoin THEN {NoTx} ELSE TxPrevs(c.height),
               offsetFound : BOOLEAN, lookup : Lookups]
  BY DEF Worlds
<1>2. w.coin = c /\ w.disk \in BOOLEAN /\ w.offsetFound \in BOOLEAN
      /\ w.lookup \in Lookups
      /\ w.txPrev \in IF c = NoCoin THEN {NoTx} ELSE TxPrevs(c.height)
  BY <1>1
<1>. QED
  BY <1>2

\* A found transaction of the coin's block: its time is a number at most the block's.
LEMMA CoinFacts ==
  ASSUME NEW ph, NEW w \in Worlds(ph), w.coin # NoCoin, w.txPrev # NoTx
  PROVE  /\ BlockTime(w.coin.height) \in Nat
         /\ w.txPrev.time \in Nat
         /\ w.txPrev.time <= BlockTime(w.coin.height)
         /\ w.coin.value \in Nat
         /\ w.coin.value * StakeMaxAge < Uint256Modulus
<1>1. w.coin \in Coins /\ w.txPrev \in TxPrevs(w.coin.height)
  BY WorldsShape
<1>2. w.coin.height \in CoinHeights /\ w.coin.value \in Values
  BY <1>1 DEF Coins
<1>3. PICK t \in Times : t <= BlockTime(w.coin.height) /\ w.txPrev = [time |-> t]
  BY <1>1 DEF TxPrevs
<1>4. BlockTime(w.coin.height) \in Nat
  BY <1>2, ValidatorAssumption
<1>5. w.txPrev.time = t /\ t \in Nat
  BY <1>3, ValidatorAssumption
<1>6. w.coin.value \in Nat /\ w.coin.value * StakeMaxAge < Uint256Modulus
  BY <1>2, ValidatorAssumption
<1>. QED
  BY <1>3, <1>4, <1>5, <1>6

(***************************************************************************)
(* The kernel check both entry points end with (CheckStakeKernelHash on    *)
(* the collaborators' answers) accepts exactly when spec 4.4's steps 6-8   *)
(* do, once the coin, its block and txPrev have been found.                *)
(***************************************************************************)
LEMMA KernelMatches ==
  ASSUME HashesAreNumbers,
         NEW ph \in PrevHeights, NEW w \in Worlds(ph), w.coin # NoCoin,
         w.txPrev # NoTx, NEW target \in Targets, NEW prevout,
         NEW timeTx \in Times, NEW in, in.ph = ph, in.w = w,
         in.target = target, in.prevout = prevout, in.timeTx = timeTx
  PROVE  KernelCheck(ph, w, target, prevout, timeTx).ok = SpecKernelOK(in)
<1>. DEFINE tbf == BlockTime(w.coin.height)
            tpt == w.txPrev.time
            v   == w.coin.value
            pf  == PreflightFailure(tbf, tpt, timeTx)
            kc   == KernelCheck(ph, w, target, prevout, timeTx)
<1>1. tbf \in Nat /\ tpt \in Nat /\ tpt <= tbf /\ v \in Nat
      /\ v * StakeMaxAge < Uint256Modulus
  BY CoinFacts DEF tbf, tpt, v
<1>2. timeTx \in Nat /\ target \in Nat /\ ph \in Nat
  BY ValidatorAssumption
<1>3. SpecPreflightOK(in) <=> pf = "none"
  <2>1. in.w.txPrev.time = tpt /\ BlockTime(in.w.coin.height) = tbf
    BY DEF tpt, tbf
  <2>2. SpecPreflightOK(in) <=> timeTx >= tpt /\ tbf + StakeMinAge <= timeTx
    BY <2>1 DEF SpecPreflightOK
  <2>3. pf = "none" <=> ~(timeTx < tpt) /\ ~(tbf + StakeMinAge > timeTx)
    BY DEF pf, PreflightFailure
  <2>. QED
    BY <1>1, <1>2, <2>2, <2>3, KernelAssumption
<1>4. kc = CheckStakeKernelHash(ph, ModifierAt(ph), target, tbf, TxOffset(ph, w),
                               tpt, v, prevout.hash, prevout.n, timeTx, w.lookup)
  BY DEF kc, KernelCheck, tbf, tpt, v
<1>5. SpecIsV2(in) <=> IsV2(ph)
  BY DEF SpecIsV2, IsV2
<1>6. CASE pf # "none"
  <2>1. kc.ok = FALSE
    BY <1>4, <1>6 DEF CheckStakeKernelHash, CheckStakeKernelHashV1,
                      CheckStakeKernelHashV2, KernelOutcome, pf
  <2>. QED
    BY <2>1, <1>3, <1>6 DEF SpecKernelOK
<1>7. CASE pf = "none" /\ IsV2(ph)
  <2>. DEFINE hv == KernelHash(V2Preimage(ModifierAt(ph), tbf, tpt, prevout.hash,
                                        prevout.n, timeTx))
  <2>0. kc = CheckStakeKernelHashV2(ModifierAt(ph), target, tbf, tpt, v,
                                   prevout.hash, prevout.n, timeTx)
    BY <1>4, <1>7 DEF CheckStakeKernelHash
  <2>1. kc = IF hv > target * v THEN KernelOutcome(FALSE, "miss", hv, Unchanged)
            ELSE KernelOutcome(TRUE, "pass", hv, Unchanged)
    BY <2>0, <1>7 DEF CheckStakeKernelHashV2, pf, hv
  <2>2. hv \in Nat /\ target * v \in Nat
    BY <1>1, <1>2 DEF HashesAreNumbers, hv
  <2>4. kc.ok = (hv <= target * v)
    <3>1. CASE hv > target * v
      <4>1. kc = KernelOutcome(FALSE, "miss", hv, Unchanged)
        BY <2>1, <3>1
      <4>2. (hv <= target * v) = FALSE
        BY <2>2, <3>1
      <4>3. kc.ok = FALSE
        BY <4>1 DEF KernelOutcome
      <4>. QED
        BY <4>2, <4>3
    <3>2. CASE ~(hv > target * v)
      <4>1. kc = KernelOutcome(TRUE, "pass", hv, Unchanged)
        BY <2>1, <3>2
      <4>2. (hv <= target * v) = TRUE
        BY <2>2, <3>2
      <4>3. kc.ok = TRUE
        BY <4>1 DEF KernelOutcome
      <4>. QED
        BY <4>2, <4>3
    <3>. QED
      BY <3>1, <3>2
  <2>3. SpecProof(in) = hv /\ SpecTarget(in) = target * v
    BY <1>5, <1>7 DEF SpecProof, SpecTarget, hv, V2Preimage, tbf, tpt, v
  <2>5. SpecKernelOK(in) = (hv <= target * v)
    <3>1. SpecPreflightOK(in) /\ SpecIsV2(in)
      BY <1>3, <1>5, <1>7
    <3>2. SpecKernelOK(in) <=> ~(hv > target * v)
      BY <3>1, <2>3 DEF SpecKernelOK
    <3>3. ~(hv > target * v) <=> (hv <= target * v)
      BY <2>2
    <3>4. SpecKernelOK(in) \in BOOLEAN
      BY DEF SpecKernelOK
    <3>. QED
      BY <3>2, <3>3, <3>4
  <2>. QED
    BY <2>4, <2>5 DEF kc
<1>8. CASE pf = "none" /\ ~IsV2(ph) /\ ~w.lookup.found
  <2>1. kc.ok = FALSE
    BY <1>4, <1>8 DEF CheckStakeKernelHash, CheckStakeKernelHashV1,
                      KernelOutcome, pf
  <2>. QED
    BY <2>1, <1>5, <1>8 DEF SpecKernelOK
<1>9. CASE pf = "none" /\ ~IsV2(ph) /\ w.lookup.found
  <2>. DEFINE h    == KernelHash(V1Preimage(w.lookup.mod, tbf, TxOffset(ph, w),
                                            tpt, prevout.n, timeTx))
              spec == ExactV1Target(target, v, tpt, timeTx)
              r    == CheckStakeKernelHashV1(target, tbf, TxOffset(ph, w), tpt, v,
                                            prevout.n, timeTx, w.lookup)
  <2>1. Preflighted(tbf, tpt, timeTx)
    BY <1>1, <1>2, <1>9 DEF Preflighted, pf
  <2>2. h \in Nat
    BY DEF HashesAreNumbers, h
  <2>3. w.lookup.found
    BY <1>9, WorldsShape DEF Lookups
  <2>4. r.ok = (h <= spec)
    BY <1>1, <1>2, <2>1, <2>2, <2>3, V1TargetAsSpecified DEF r, h, spec
  <2>5. kc = r
    BY <1>4, <1>9 DEF CheckStakeKernelHash, r
  <2>6. SpecWeight(in) = ((v * GetWeight(tpt, timeTx)) \div Coin) \div DaySeconds
    BY DEF SpecWeight, GetWeight, tpt, v
  <2>7. SpecProof(in) = h /\ SpecTarget(in) = spec
    BY <1>5, <1>9, <2>6 DEF SpecProof, SpecTarget, V1Preimage, h, spec, tbf, tpt, ExactV1Target
  <2>8. spec \in Int
    BY <1>1, <1>2, WeightInRange, <2>1, KernelAssumption DEF spec, ExactV1Target
  <2>9. SpecKernelOK(in) = ~(h > spec)
    BY <1>3, <1>5, <1>9, <2>7 DEF SpecKernelOK
  <2>. QED
    BY <2>2, <2>4, <2>5, <2>8, <2>9
<1>. QED
  BY <1>6, <1>7, <1>8, <1>9
\* Spec 4.4's verdict once its lookups and the signature have passed.
LEMMA SpecVerdictKernel ==
  ASSUME NEW in, in.coinstake, in.w.coin # NoCoin, ~(in.w.coin.height > in.ph),
         in.w.disk, in.w.txPrev # NoTx, in.sigOK
  PROVE  SpecVerdict(in).ok = SpecKernelOK(in)
<1>1. SpecVerdict(in).ok <=> SpecKernelOK(in)
  BY DEF SpecVerdict, SpecKernelOK
<1>2. SpecVerdict(in).ok \in BOOLEAN /\ SpecKernelOK(in) \in BOOLEAN
  BY DEF SpecVerdict, SpecKernelOK
<1>. QED
  BY <1>1, <1>2

(***************************************************************************)
(* CheckProofOfStake accepts exactly what spec 4.4 accepts: each early     *)
(* return of lines 413-440 is a rejection of the same step of the spec,    *)
(* and past them both come down to the kernel check.                       *)
(***************************************************************************)
LEMMA ProofOfStakeMatches ==
  ASSUME HashesAreNumbers,
         NEW ph \in PrevHeights, NEW w \in Worlds(ph), NEW coinstake \in BOOLEAN,
         NEW sigOK \in BOOLEAN, NEW target \in Targets, NEW prevout \in Prevouts,
         NEW timeTx \in Times
  PROVE  ProofOfStakeOutcome(ph, w, coinstake, sigOK, target, prevout, timeTx).ok
           = SpecVerdict([ph |-> ph, w |-> w, coinstake |-> coinstake,
                          sigOK |-> sigOK, target |-> target,
                          prevout |-> prevout, timeTx |-> timeTx]).ok
<1>. DEFINE in  == [ph |-> ph, w |-> w, coinstake |-> coinstake, sigOK |-> sigOK,
                    target |-> target, prevout |-> prevout, timeTx |-> timeTx]
            out == ProofOfStakeOutcome(ph, w, coinstake, sigOK, target, prevout, timeTx)
            Passed == /\ coinstake /\ w.coin # NoCoin /\ HasAncestor(ph, w.coin)
                      /\ w.disk /\ w.txPrev # NoTx /\ sigOK
<1>1. w.disk \in BOOLEAN /\ ph \in Nat
  BY WorldsShape, ValidatorAssumption
<1>2. w.coin # NoCoin => w.coin.height \in Nat
  BY WorldsShape, ValidatorAssumption DEF Coins
<1>3. CASE ~Passed
  <2>1. out.ok = FALSE
    BY <1>3 DEF out, ProofOfStakeOutcome, Rejected, Passed
  <2>2. SpecVerdict(in).ok = FALSE
    BY <1>1, <1>2, <1>3 DEF SpecVerdict, in, Passed, HasAncestor
  <2>. QED
    BY <2>1, <2>2 DEF out, in
<1>4. CASE Passed
  <2>1. out.ok = KernelCheck(ph, w, target, prevout, timeTx).ok
    BY <1>4 DEF out, ProofOfStakeOutcome, Passed
  <2>2. SpecVerdict(in).ok = SpecKernelOK(in)
    <3>1. ~(w.coin.height > ph)
      BY <1>1, <1>2, <1>4 DEF Passed, HasAncestor
    <3>. QED
      BY <1>4, <3>1, SpecVerdictKernel DEF Passed, in
  <2>3. KernelCheck(ph, w, target, prevout, timeTx).ok = SpecKernelOK(in)
    BY <1>4, KernelMatches DEF Passed, in
  <2>. QED
    BY <2>1, <2>2, <2>3 DEF out, in
<1>. QED
  BY <1>3, <1>4
(***************************************************************************)
(* CheckKernel accepts exactly when the coin exists, is mature and unspent *)
(* and spec 4.4 accepts the stake with a verified signature: the early     *)
(* returns of lines 484-503, then the same kernel check.                   *)
(***************************************************************************)
LEMMA MinerKernelMatches ==
  ASSUME HashesAreNumbers,
         NEW ph \in PrevHeights, NEW w \in Worlds(ph), NEW target \in Targets,
         NEW prevout \in Prevouts, NEW txTime \in Times
  PROVE  KernelOutcomeOf(ph, w, target, prevout, txTime)
           = /\ w.coin # NoCoin
             /\ ph + 1 - w.coin.height >= CoinbaseMaturity
             /\ ~w.coin.spent
             /\ SpecVerdict([ph |-> ph, w |-> w, coinstake |-> TRUE,
                             sigOK |-> TRUE, target |-> target,
                             prevout |-> prevout, timeTx |-> txTime]).ok
<1>. DEFINE in     == [ph |-> ph, w |-> w, coinstake |-> TRUE, sigOK |-> TRUE,
                       target |-> target, prevout |-> prevout, timeTx |-> txTime]
            out    == KernelOutcomeOf(ph, w, target, prevout, txTime)
            spec   == /\ w.coin # NoCoin
                      /\ ph + 1 - w.coin.height >= CoinbaseMaturity
                      /\ ~w.coin.spent
                      /\ SpecVerdict(in).ok
            Passed == /\ w.coin # NoCoin
                      /\ ~(ph + 1 - w.coin.height < CoinbaseMaturity)
                      /\ HasAncestor(ph, w.coin) /\ ~w.coin.spent
                      /\ w.disk /\ w.txPrev # NoTx
<1>1. w.disk \in BOOLEAN /\ ph \in Nat /\ CoinbaseMaturity \in Nat
  BY WorldsShape, ValidatorAssumption
<1>2. w.coin # NoCoin => w.coin.height \in Nat /\ w.coin.spent \in BOOLEAN
  BY WorldsShape, ValidatorAssumption DEF Coins
<1>3. CASE ~Passed
  <2>1. out = FALSE
    BY <1>3 DEF out, KernelOutcomeOf, Passed
  <2>2. spec = FALSE
    BY <1>1, <1>2, <1>3 DEF spec, SpecVerdict, in, Passed, HasAncestor
  <2>. QED
    BY <2>1, <2>2 DEF out, spec, in
<1>4. CASE Passed
  <2>1. out = KernelCheck(ph, w, target, prevout, txTime).ok
    BY <1>4 DEF out, KernelOutcomeOf, Passed
  <2>2. SpecVerdict(in).ok = SpecKernelOK(in)
    <3>1. ~(w.coin.height > ph)
      BY <1>1, <1>2, <1>4 DEF Passed, HasAncestor
    <3>. QED
      BY <1>4, <3>1, SpecVerdictKernel DEF Passed, in
  <2>3. KernelCheck(ph, w, target, prevout, txTime).ok = SpecKernelOK(in)
    BY <1>4, KernelMatches DEF Passed, in
  <2>4. spec <=> SpecVerdict(in).ok
    BY <1>1, <1>2, <1>4 DEF spec, Passed
  <2>5. spec \in BOOLEAN /\ SpecKernelOK(in) \in BOOLEAN
    BY DEF spec, SpecKernelOK
  <2>. QED
    BY <2>1, <2>2, <2>3, <2>4, <2>5 DEF out, spec, in
<1>. QED
  BY <1>3, <1>4
-----------------------------------------------------------------------------
(***************************************************************************)
(* The two acceptance properties hold together in every reachable state:   *)
(* each call sets last to its own kind with the outcome the lemmas above   *)
(* relate to the spec, and leaves the other property vacuous.  Neither     *)
(* needs strengthening: the outcome recorded is a function of the inputs   *)
(* recorded with it.                                                       *)
(***************************************************************************)
VInv == ProofOfStakeAsSpecified /\ MinerKernelAsSpecified

LEMMA VInvStep ==
  ASSUME HashesAreNumbers, VInv, [Next]_last
  PROVE  VInv'
<1>1. CASE CheckProofOfStake
  <2>1. PICK ph \in PrevHeights, coinstake \in BOOLEAN, sigOK \in BOOLEAN,
             target \in Targets, prevout \in Prevouts, timeTx \in Times :
          \E w \in Worlds(ph) :
            last' = [call |-> "pos",
                     in |-> [ph |-> ph, w |-> w, coinstake |-> coinstake,
                             sigOK |-> sigOK, target |-> target, prevout |-> prevout,
                             timeTx |-> timeTx],
                     out |-> ProofOfStakeOutcome(ph, w, coinstake, sigOK, target,
                                                 prevout, timeTx)]
    BY <1>1 DEF CheckProofOfStake
  <2>2. PICK w \in Worlds(ph) :
          last' = [call |-> "pos",
                   in |-> [ph |-> ph, w |-> w, coinstake |-> coinstake,
                           sigOK |-> sigOK, target |-> target, prevout |-> prevout,
                           timeTx |-> timeTx],
                   out |-> ProofOfStakeOutcome(ph, w, coinstake, sigOK, target,
                                               prevout, timeTx)]
    BY <2>1
  <2>3. ProofOfStakeAsSpecified'
    BY <2>2, ProofOfStakeMatches DEF ProofOfStakeAsSpecified
  <2>4. MinerKernelAsSpecified'
    BY <2>2 DEF MinerKernelAsSpecified
  <2>. QED
    BY <2>3, <2>4 DEF VInv
<1>2. CASE CheckKernel
  <2>1. PICK ph \in PrevHeights, target \in Targets, prevout \in Prevouts,
             txTime \in Times :
          \E w \in Worlds(ph) :
            last' = [call |-> "kernel",
                     in |-> [ph |-> ph, w |-> w, target |-> target,
                             prevout |-> prevout, timeTx |-> txTime],
                     out |-> [ok |-> KernelOutcomeOf(ph, w, target, prevout, txTime)]]
    BY <1>2 DEF CheckKernel
  <2>2. PICK w \in Worlds(ph) :
          last' = [call |-> "kernel",
                   in |-> [ph |-> ph, w |-> w, target |-> target,
                           prevout |-> prevout, timeTx |-> txTime],
                   out |-> [ok |-> KernelOutcomeOf(ph, w, target, prevout, txTime)]]
    BY <2>1
  <2>3. MinerKernelAsSpecified'
    BY <2>2, MinerKernelMatches DEF MinerKernelAsSpecified
  <2>4. ProofOfStakeAsSpecified'
    BY <2>2 DEF ProofOfStakeAsSpecified
  <2>. QED
    BY <2>3, <2>4 DEF VInv
<1>3. CASE CheckCoinStakeTimestamp
  <2>1. last'.call = "timestamp"
    BY <1>3 DEF CheckCoinStakeTimestamp
  <2>. QED
    BY <2>1 DEF VInv, ProofOfStakeAsSpecified, MinerKernelAsSpecified
<1>4. CASE Return
  <2>1. last'.call = "none"
    BY <1>4 DEF Return, Idle
  <2>. QED
    BY <2>1 DEF VInv, ProofOfStakeAsSpecified, MinerKernelAsSpecified
<1>5. CASE UNCHANGED last
  BY <1>5 DEF VInv, ProofOfStakeAsSpecified, MinerKernelAsSpecified
<1>. QED
  BY <1>1, <1>2, <1>3, <1>4, <1>5 DEF Next

\* Every reachable state satisfies both acceptance properties.
THEOREM ValidatorInvariant ==
  ASSUME HashesAreNumbers
  PROVE  Spec => []VInv
<1>1. Init => VInv
  BY DEF Init, VInv, ProofOfStakeAsSpecified, MinerKernelAsSpecified, Idle
<1>. QED
  BY <1>1, VInvStep, PTL DEF Spec

(***************************************************************************)
(* CheckProofOfStake accepts a coinstake exactly when spec 4.4 does, for   *)
(* every activation height, maturity, mask and set of collaborators'      *)
(* answers: the 32-bit weight operand and the 256-bit products of the V1  *)
(* target never lose a bit once the preflights pass.                       *)
(***************************************************************************)
THEOREM ProofOfStakeCorrect ==
  ASSUME HashesAreNumbers
  PROVE  Spec => []ProofOfStakeAsSpecified
BY ValidatorInvariant, PTL DEF VInv

(***************************************************************************)
(* CheckKernel accepts a stake exactly when the coin exists, is mature and *)
(* unspent, and spec 4.4 accepts it, for every value of the constants.     *)
(***************************************************************************)
THEOREM MinerKernelCorrect ==
  ASSUME HashesAreNumbers
  PROVE  Spec => []MinerKernelAsSpecified
BY ValidatorInvariant, PTL DEF VInv
=============================================================================
