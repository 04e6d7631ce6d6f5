------------------------------ MODULE BlockChain -----------------------------
(***************************************************************************)
(* The part of the block index that the stake-modifier code reads: the     *)
(* active chain as a sequence of block index nodes, position k holding the *)
(* node at height k - 1, and the per-node fields GetBlockTime(),           *)
(* GetBlockHash(), hashProof, IsProofOfStake(), nStakeModifier,            *)
(* GeneratedStakeModifier() and GetStakeEntropyBit().                      *)
(*                                                                         *)
(* Hashes are abstracted to small naturals.  Their order stands for the    *)
(* uint256 comparison the code uses to sort candidates and to compare      *)
(* selection hashes.  The double-SHA-256 of (hashProof, nStakeModifierPrev) *)
(* is the constant operator SelHash, an arbitrary fixed function into      *)
(* 0 .. HashRange - 1.                                                     *)
(***************************************************************************)
EXTENDS PosParams, Sequences, FiniteSets

CONSTANTS
  MaxBlocks,          \* bound on the chain length (modelling artifact)
  GenesisTime,        \* block time of the genesis block
  TimeSteps,          \* offsets of a new block's time from its parent's time
  Proofs,             \* kernel hashes a proof-of-stake block may carry
  BlockHashChoices(_),\* block hashes a block at a given height may have
  HashRange,          \* 2^256 in the code
  PosShift,           \* 32 in the code: hashSelection >>= 32 for PoS blocks
  SelHash(_, _)       \* Hash(hashProof || nStakeModifierPrev)

Heights == 0..(MaxBlocks - 1)

\* Every hash any block of the model can have.
AllHashes == UNION {BlockHashChoices(h) : h \in Heights}

\* A 64-bit modifier as its Rounds bits, bit r being set by round r.
Modifiers == [0..(Rounds - 1) -> {0, 1}]

ZeroModifier == [r \in 0..(Rounds - 1) |-> 0]

ASSUME ChainAssumption ==
  /\ MaxBlocks \in Nat \ {0}
  /\ GenesisTime \in Nat
  /\ TimeSteps \subseteq Int
  /\ Proofs \subseteq Nat
  /\ \A h \in Heights : BlockHashChoices(h) \subseteq Nat /\ BlockHashChoices(h) # {}
  \* block hashes identify blocks: no two heights share a hash
  /\ \A h1, h2 \in Heights : h1 # h2 => BlockHashChoices(h1) \cap BlockHashChoices(h2) = {}
  /\ HashRange \in Nat \ {0}
  /\ PosShift \in Nat /\ 2^PosShift \in Nat \ {0}
  /\ \A p \in Proofs \cup AllHashes, m \in Modifiers : SelHash(p, m) \in 0..(HashRange - 1)

(***************************************************************************)
(* A block header as chosen by the block's producer, and a block index     *)
(* node once the stake modifier fields have been stamped on it.            *)
(***************************************************************************)
Headers == [time : Nat, hash : Nat, proof : Nat, pos : BOOLEAN]

Blocks == [time : Nat, hash : Nat, proof : Proofs \cup AllHashes,
           pos : BOOLEAN, mod : Modifiers, gen : BOOLEAN]

Stamp(h, m, g) ==
  [time |-> h.time, hash |-> h.hash, proof |-> h.proof, pos |-> h.pos,
   mod |-> m, gen |-> g]

(***************************************************************************)
(* The headers that can extend chain c.  This is the environment of the    *)
(* stake modifier code (block production and the chain's timestamp rules   *)
(* are not in src/): the genesis block is proof-of-work at GenesisTime; a  *)
(* later block's time is its parent's time plus a step of TimeSteps, which *)
(* may be negative as the median-time-past rule allows; hashProof of a     *)
(* proof-of-work block is its block hash, that of a proof-of-stake block a *)
(* kernel hash from Proofs.                                                *)
(***************************************************************************)
NextTimes(c) ==
  IF c = <<>> THEN {GenesisTime}
  ELSE {t \in {c[Len(c)].time + d : d \in TimeSteps} : t >= 0}

NextHeaders(c) ==
  { hd \in [time : NextTimes(c), hash : BlockHashChoices(Len(c)),
            proof : Proofs \cup BlockHashChoices(Len(c)), pos : BOOLEAN] :
      /\ c = <<>> => ~hd.pos
      /\ hd.pos => hd.proof \in Proofs
      /\ ~hd.pos => hd.proof = hd.hash }

(***************************************************************************)
(* CBlockIndex::GetStakeEntropyBit(): the lowest bit of the block hash     *)
(* (defined outside src/; the spec's canonical choice).                    *)
(***************************************************************************)
EntropyBit(b) == b.hash % 2

(***************************************************************************)
(* The order of vSortedByTimestamp: pairs (block time, block hash)         *)
(* compared lexicographically.                                             *)
(***************************************************************************)
Before(c, i, j) ==
  \/ c[i].time < c[j].time
  \/ c[i].time = c[j].time /\ c[i].hash < c[j].hash

(***************************************************************************)
(* The selection hash of SelectBlockFromCandidates: Hash(hashProof ||       *)
(* nStakeModifierPrev), shifted right by 32 bits for proof-of-stake blocks *)
(* so that they are favoured.                                              *)
(***************************************************************************)
SelectionHash(b, mPrev) ==
  IF b.pos THEN SelHash(b.proof, mPrev) \div (2^PosShift)
  ELSE SelHash(b.proof, mPrev)

\* The modifier epoch of a time: t / nModifierInterval.
Epoch(t) == t \div ModifierInterval

(***************************************************************************)
(* nSelectionIntervalStart for a parent block of time t.                   *)
(***************************************************************************)
SelectionStart(t) == Epoch(t) * ModifierInterval - SelectionInterval

MinOf(a, b) == IF a < b THEN a ELSE b
=============================================================================
