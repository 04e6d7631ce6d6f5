------------------------------- MODULE Validator -------------------------------
(***************************************************************************)
(* The entry points of pos.cpp that validate a stake: CheckProofOfStake    *)
(* (405-452), the mining-side CheckKernel (475-516) and                    *)
(* CheckCoinStakeTimestamp (467-473).  Each call runs to completion under  *)
(* the chain lock and reads its collaborators once, so each is one action. *)
(* Its inputs are the caller's arguments and the answers of the            *)
(* collaborators, chosen with \E:                                          *)
(*  - the UTXO view (GetCoin), which may have no coin or a spent one;      *)
(*  - GetAncestor, which finds the ancestor at the coin's height exactly   *)
(*    when that height is at most pindexPrev's;                            *)
(*  - the disk (ReadBlockFromDisk) and the transaction index               *)
(*    (GetTransaction), each of which may fail;                            *)
(*  - ReadTxOffsetIndex, whose failure leaves nTxOffset at 0;              *)
(*  - VerifySignature;                                                     *)
(*  - GetKernelStakeModifier's outcome for the V1 kernel.                  *)
(* The variable last records the call in progress, its inputs and its      *)
(* outcome, until the caller has consumed the outcome.                     *)
(***************************************************************************)
EXTENDS Kernel

CONSTANTS
  PrevHeights,        \* heights pindexPrev may have
  CoinHeights,        \* heights the UTXO view may report for a coin
  BlockTime(_),       \* GetBlockTime() of the active chain's block at a height
  ModifierAt(_),      \* nStakeModifier of the active chain's block at a height
  OffsetAt(_),        \* what ReadTxOffsetIndex finds at a height
  Values,             \* nValue of a staked output
  Times,              \* nTime values of transactions and blocks
  Targets,            \* SetCompact(nBits) of the block's nBits
  LookupModifiers,    \* values GetKernelStakeModifier may return
  Prevouts,           \* outpoints, as [hash, n]
  CoinbaseMaturity,   \* nCoinbaseMaturity
  StakeTimestampMask  \* STAKE_TIMESTAMP_MASK

ASSUME ValidatorAssumption ==
  /\ PrevHeights \subseteq Nat /\ CoinHeights \subseteq Nat
  /\ \A h \in CoinHeights \cup PrevHeights : BlockTime(h) \in Nat
  /\ Values \subseteq Nat \ {0} /\ Times \subseteq Nat /\ Targets \subseteq Nat
  \* arith_uint256(nValueIn) * weight fits: a 64-bit amount times a 32-bit age
  /\ \A v \in Values : v * StakeMaxAge < Uint256Modulus
  /\ CoinbaseMaturity \in Nat
  \* a low-bit mask, 2^k - 1 (0x0000000F in the spec's example)
  /\ StakeTimestampMask + 1 \in {2^k : k \in 0..30}

VARIABLE last

Idle == [call |-> "none"]

NoCoin == [none |-> TRUE]
Coins == [height : CoinHeights, value : Values, spent : BOOLEAN]
NoTx == [none |-> TRUE]

(***************************************************************************)
(* The transaction index's answer for txPrev: none, or a transaction of    *)
(* the block at height h.  A transaction's nTime is at most the time of   *)
(* the block holding it (the block-level rule, not in src/).              *)
(***************************************************************************)
TxPrevs(h) == {NoTx} \cup {[time |-> t] : t \in {u \in Times : u <= BlockTime(h)}}

\* GetKernelStakeModifier's return value and nStakeModifier (0 on failure).
Lookups == {[found |-> FALSE, mod |-> 0]} \cup
           {[found |-> TRUE, mod |-> m] : m \in LookupModifiers}

\* The answers of the collaborators for a call at pindexPrev of height ph.
Worlds(ph) ==
  UNION {[coin : {c}, disk : BOOLEAN,
          txPrev : IF c = NoCoin THEN {NoTx} ELSE TxPrevs(c.height),
          offsetFound : BOOLEAN, lookup : Lookups] :
           c \in {NoCoin} \cup Coins}

\* pindexPrev->GetAncestor(coinPrev.nHeight) is not null.
HasAncestor(ph, c) == c.height <= ph

\* nTxOffset after pblocktree->ReadTxOffsetIndex(nHeight, nTxOffset).
TxOffset(ph, w) == IF w.offsetFound THEN OffsetAt(ph) ELSE 0

\* The kernel check both entry points end with.
KernelCheck(ph, w, target, prevout, timeTx) ==
  CheckStakeKernelHash(ph, ModifierAt(ph), target, BlockTime(w.coin.height),
                       TxOffset(ph, w), w.txPrev.time, w.coin.value,
                       prevout.hash, prevout.n, timeTx, w.lookup)

Rejected(dos, reason) ==
  [ok |-> FALSE, dos |-> dos, reason |-> reason,
   hash |-> Unchanged, target |-> Unchanged]

(***************************************************************************)
(* CheckProofOfStake(pindexPrev, state, tx, nBits, ...): the checks in the *)
(* order of the code, with the DoS score each failure is given.            *)
(***************************************************************************)
ProofOfStakeOutcome(ph, w, coinstake, sigOK, target, prevout, timeTx) ==
  LET k == KernelCheck(ph, w, target, prevout, timeTx)
  IN  IF ~coinstake THEN Rejected(0, "non-coinstake")
      ELSE IF w.coin = NoCoin THEN Rejected(100, "prevout-missing")
      ELSE IF ~HasAncestor(ph, w.coin) THEN Rejected(100, "no-ancestor")
      ELSE IF ~w.disk THEN Rejected(100, "block-not-found")
      ELSE IF w.txPrev = NoTx THEN Rejected(1, "prevout-not-in-chain")
      ELSE IF ~sigOK THEN Rejected(100, "signature")
      ELSE [ok |-> k.ok, dos |-> IF k.ok THEN 0 ELSE 1, reason |-> k.reason,
            hash |-> k.hash, target |-> k.target]

CheckProofOfStake ==
  /\ last = Idle
  /\ \E ph \in PrevHeights, coinstake \in BOOLEAN, sigOK \in BOOLEAN,
     target \in Targets, prevout \in Prevouts, timeTx \in Times :
    \E w \in Worlds(ph) :
      last' = [call |-> "pos",
               in |-> [ph |-> ph, w |-> w, coinstake |-> coinstake,
                       sigOK |-> sigOK, target |-> target, prevout |-> prevout,
                       timeTx |-> timeTx],
               out |-> ProofOfStakeOutcome(ph, w, coinstake, sigOK, target,
                                           prevout, timeTx)]

\* Mutant of KernelOutcomeOf: the maturity guard of line 489 with <= for <.
KernelOutcomeOfMaturityOffByOne(ph, w, target, prevout, txTime) ==
  IF w.coin = NoCoin THEN FALSE
  ELSE IF ph + 1 - w.coin.height <= CoinbaseMaturity THEN FALSE
  ELSE IF ~HasAncestor(ph, w.coin) THEN FALSE
  ELSE IF w.coin.spent THEN FALSE
  ELSE IF ~w.disk THEN FALSE
  ELSE IF w.txPrev = NoTx THEN FALSE
  ELSE KernelCheck(ph, w, target, prevout, txTime).ok

(***************************************************************************)
(* CheckKernel(pindexPrev, nBits, prevout, view, db, txTime): the miner's  *)
(* check, with the maturity guard and the spent test, and fPrintProofOfStake *)
(* false.  Only its return value leaves the function.                      *)
(***************************************************************************)
KernelOutcomeOf(ph, w, target, prevout, txTime) ==
  IF w.coin = NoCoin THEN FALSE
  ELSE IF ph + 1 - w.coin.height < CoinbaseMaturity THEN FALSE
  ELSE IF ~HasAncestor(ph, w.coin) THEN FALSE
  ELSE IF w.coin.spent THEN FALSE
  ELSE IF ~w.disk THEN FALSE
  ELSE IF w.txPrev = NoTx THEN FALSE
  ELSE KernelCheck(ph, w, target, prevout, txTime).ok

CheckKernel ==
  /\ last = Idle
  /\ \E ph \in PrevHeights, target \in Targets, prevout \in Prevouts,
     txTime \in Times :
    \E w \in Worlds(ph) :
      last' = [call |-> "kernel",
               in |-> [ph |-> ph, w |-> w, target |-> target,
                       prevout |-> prevout, timeTx |-> txTime],
               out |-> [ok |-> KernelOutcomeOf(ph, w, target, prevout, txTime)]]

(***************************************************************************)
(* CheckCoinStakeTimestamp(nHeight, nTimeBlock, nTimeTx).  For the low-bit *)
(* mask 2^k - 1 and a non-negative time, nTimeTx & mask is nTimeTx modulo  *)
(* 2^k.                                                                    *)
(***************************************************************************)
CoinStakeTimestampOK(h, timeBlock, timeTx) ==
  IF h > ProtocolV2Height
  THEN timeBlock = timeTx /\ timeTx % (StakeTimestampMask + 1) = 0
  ELSE timeBlock = timeTx

CheckCoinStakeTimestamp ==
  /\ last = Idle
  /\ \E h \in PrevHeights, tb \in Times, tt \in Times :
    last' = [call |-> "timestamp", in |-> [h |-> h, timeBlock |-> tb, timeTx |-> tt],
             out |-> [ok |-> CoinStakeTimestampOK(h, tb, tt)]]

Init == last = Idle

\* The caller consumes the outcome.
Return ==
  /\ last # Idle
  /\ last' = Idle

Next == CheckProofOfStake \/ CheckKernel \/ CheckCoinStakeTimestamp \/ Return

Spec == Init /\ [][Next]_last

-----------------------------------------------------------------------------
\* The latest call is one of the three entry points, with its inputs.
TypeOK ==
  \/ last = Idle
  \/ /\ last.call \in {"pos", "kernel", "timestamp"}
     /\ last.out.ok \in BOOLEAN

(***************************************************************************)
(* The reference: what spec 4.3, 4.4 and 7 say a call must return, written *)
(* from the spec's formulas without the code's widths.  The preimage is    *)
(* the spec's list of fields; nTxOffset is the value the code read.        *)
(***************************************************************************)
SpecIsV2(in) == in.ph + 1 > ProtocolV2Height

SpecPreflightOK(in) ==
  /\ in.timeTx >= in.w.txPrev.time
  /\ BlockTime(in.w.coin.height) + StakeMinAge <= in.timeTx

\* weight = value_in * min(end - begin - stake_min_age, stake_max_age) / COIN / 86400
SpecWeight(in) ==
  LET age == in.timeTx - in.w.txPrev.time - StakeMinAge
  IN  ((in.w.coin.value * (IF age < StakeMaxAge THEN age ELSE StakeMaxAge))
         \div Coin) \div DaySeconds

\* The target the proof is compared with: 256-bit in V1, exact in V2.
SpecTarget(in) ==
  IF SpecIsV2(in) THEN in.target * in.w.coin.value
  ELSE (in.target * SpecWeight(in)) % Uint256Modulus

SpecProof(in) ==
  IF SpecIsV2(in)
  THEN KernelHash([ver |-> 2, mod |-> ModifierAt(in.ph),
                   timeBlockFrom |-> BlockTime(in.w.coin.height),
                   txPrevTime |-> in.w.txPrev.time, txid |-> in.prevout.hash,
                   n |-> in.prevout.n, timeTx |-> in.timeTx])
  ELSE KernelHash([ver |-> 1, mod |-> in.w.lookup.mod,
                   timeBlockFrom |-> BlockTime(in.w.coin.height),
                   offset |-> TxOffset(in.ph, in.w),
                   txPrevTime |-> in.w.txPrev.time, n |-> in.prevout.n,
                   timeTx |-> in.timeTx])

\* The first failing step of spec 4.4, with its class of spec 7.
SpecVerdict(in) ==
  IF ~in.coinstake THEN [ok |-> FALSE, class |-> "structural"]
  ELSE IF in.w.coin = NoCoin THEN [ok |-> FALSE, class |-> "ban"]
  ELSE IF in.w.coin.height > in.ph THEN [ok |-> FALSE, class |-> "ban"]
  ELSE IF ~in.w.disk THEN [ok |-> FALSE, class |-> "ban"]
  ELSE IF in.w.txPrev = NoTx THEN [ok |-> FALSE, class |-> "soft"]
  ELSE IF ~in.sigOK THEN [ok |-> FALSE, class |-> "ban"]
  ELSE IF ~SpecPreflightOK(in) THEN [ok |-> FALSE, class |-> "ban"]
  ELSE IF ~SpecIsV2(in) /\ ~in.w.lookup.found THEN [ok |-> FALSE, class |-> "soft"]
  ELSE IF SpecProof(in) > SpecTarget(in) THEN [ok |-> FALSE, class |-> "soft"]
  ELSE [ok |-> TRUE, class |-> "none"]

\* The class a DoS score puts a rejection in.
DoSClass(dos) == IF dos = 0 THEN "structural" ELSE IF dos >= 100 THEN "ban" ELSE "soft"

(***************************************************************************)
(* CheckProofOfStake accepts a coinstake exactly when spec 4.4 does: every *)
(* lookup succeeds, the signature verifies, the preflights hold, and the   *)
(* proof is at most the target of the version chosen by the new block's    *)
(* height.  The V1 target passes GetWeight through a 32-bit operand and    *)
(* two 256-bit operations; this says they give the spec's weight, because  *)
(* the preflights keep GetWeight non-negative.                             *)
(***************************************************************************)
ProofOfStakeAsSpecified ==
  last.call = "pos" => last.out.ok = SpecVerdict(last.in).ok

(***************************************************************************)
(* CheckKernel accepts a stake exactly when spec 4.4 does for a miner: the *)
(* coin exists, has nCoinbaseMaturity confirmations at the new block's     *)
(* height, is unspent, and passes the same pipeline, signature aside.      *)
(***************************************************************************)
MinerKernelAsSpecified ==
  last.call = "kernel" =>
    LET in == last.in
    IN  last.out.ok =
          /\ in.w.coin # NoCoin
          /\ in.ph + 1 - in.w.coin.height >= CoinbaseMaturity
          /\ ~in.w.coin.spent
          /\ SpecVerdict([ph |-> in.ph, w |-> in.w, coinstake |-> TRUE,
                          sigOK |-> TRUE, target |-> in.target,
                          prevout |-> in.prevout, timeTx |-> in.timeTx]).ok

(***************************************************************************)
(* Spec 7: a rejection by CheckProofOfStake gets the class of its cause;  *)
(* a preflight violation (nTime before txPrev, or a coin younger than the  *)
(* minimum age) is ban-worthy.  Line 448 gives every kernel failure DoS 1. *)
(***************************************************************************)
RejectionClassAsSpecified ==
  (last.call = "pos" /\ ~last.out.ok) =>
    DoSClass(last.out.dos) = SpecVerdict(last.in).class

(***************************************************************************)
(* Spec 4.4 step 9: on success CheckProofOfStake hands the caller the      *)
(* target the proof met, as targetProofOfStake.  CheckStakeKernelHashV2    *)
(* never assigns it.                                                       *)
(***************************************************************************)
TargetProofAsSpecified ==
  (last.call = "pos" /\ last.out.ok) => last.out.target = SpecTarget(last.in)
=============================================================================
