# TLA+ verification of the proof-of-stake kernel (`src/src/pos.cpp`)

This directory holds TLA+ models of the proof-of-stake core of the
repository, TLC configurations that model-check them on small instances, and
TLAPS proofs of their main safety properties for every value of the
parameters.

## 1. The system

`src/src/pos.cpp` is one C++ file. It has the following parts:

| Part | Code (pos.cpp) | What it does |
|---|---|---|
| Parameter provider | `GetStakeModifierSelectionIntervalSection` 48-53, `GetStakeModifierSelectionInterval` 55-62 | Computes the 64 section lengths and their sum, the selection interval. |
| Modifier engine | `GetLastStakeModifier` 32-46, `SelectBlockFromCandidates` 64-110, `ComputeNextStakeModifier` 125-184 | Computes the 64-bit stake modifier for each connected block. It either keeps the last one or generates a new one from one entropy bit of each of up to 64 earlier blocks. |
| Forward modifier lookup | `GetKernelStakeModifier` 186-222 | V1 only. Walks `pnext` from the staked output's block to the modifier generated one selection interval later. |
| Kernel hash | `GetWeight` 23-30, `CheckStakeKernelHashV1` 245-307, `CheckStakeKernelHashV2` 330-401, `CheckStakeKernelHash` 456-464 | Preflight checks, weight and target, the kernel hash, and the comparison. |
| Validator | `CheckProofOfStake` 405-452, `CheckKernel` 475-516, `CheckCoinStakeTimestamp` 467-473 | Performs the lookups (UTXO, ancestor, disk, transaction, signature) with DoS scores, and calls the kernel hash. |

How the parts interact:
- Block connection calls `ComputeNextStakeModifier(pindexPrev)`. The caller stamps the result into the new block index node.
- The engine reads the chain backwards along `pprev`. It runs under the chain lock and writes nothing, so no other step interleaves with it.
- The validator calls the kernel hash:
  - V2 reads the parent's `nStakeModifier`, which was stamped by the engine.
  - V1 reads a later modifier through `GetKernelStakeModifier`.

## 2. Modules

| Module | Models | Theorems |
|---|---|---|
| `PosParams` | The parameters `ModifierInterval`, `ModifierIntervalRatio` and `Rounds`, with `Rounds` standing for the 64 of the code. `Section` (48-53) and the running sum `SectionSum` of the loop at 58-61, as a recursive function. | – |
| `BlockChain` | The part of the block index the engine reads, and its environment (not in `src/`, from the spec). A block is a record with `time`, `hash`, `proof` (hashProof), `pos`, `mod` (nStakeModifier) and `gen` (GeneratedStakeModifier). The helpers are the sort order `Before` (157-158), `SelectionHash` (83-94), `Epoch` (143) and `SelectionStart` (150). | – |
| `StakeModifierSpec` | The abstract contract of the engine, stated on sets. `NextStakeModifier(c)` is the modifier and flag that the next block on chain `c` must carry. Each round picks, among the unselected candidates, the one with the least selection hash inside the round's window, or the earliest one if none is inside. | – |
| `StakeModifier` | The engine step by step (below). | – |
| `StakeModifierProofs` | The inductive invariants and proofs. | `TypeCorrect`, `SelectionNeverFails` |
| `ModifierKeepProofs` | The generation flag and the kept modifier of every block, against `StakeModifierSpec`. | `ModifierKeptCorrect` |
| `SelectionProofs` | The inputs of the selection rounds, and the block each round selects, against `StakeModifierSpec`. | `SelectionCorrect`, `InputsCorrect` |
| `MC_StakeModifier` | The TLC instance: time steps, two hashes per height, and a scrambling `SelHash`. | – |
| `KernelLookupSpec` | What `GetKernelStakeModifier` promises (spec 4.3.2): the answer as a function of the chain and the staked block, on a chain grown by `StakeModifierSpec!ConnectBlock`. | – |
| `KernelModifier` | `GetKernelStakeModifier` (186-222): the forward walk along `pnext`, on the same chain, checked against the answer of `KernelLookupSpec`. | – |
| `KernelModifierProofs` | The loop invariant of the walk and the proof that it returns the specified answer. | `LookupCorrect` |
| `MC_KernelModifier` | Its TLC instance. | – |
| `Kernel` | `GetWeight`, `CheckStakeKernelHashV1`, `CheckStakeKernelHashV2` and `CheckStakeKernelHash` as pure operators with the code's widths. | – |
| `KernelProofs` | The V1 arithmetic, for every value. | `V1TargetAsSpecified` |
| `Validator` | `CheckProofOfStake`, `CheckKernel` and `CheckCoinStakeTimestamp`, one action per call, and the reference computed from spec 4.3-4.4 and 7. | – |
| `ValidatorProofs` | Both entry points against the reference, for every value. | `ProofOfStakeCorrect`, `MinerKernelCorrect` |
| `MC_Validator` | Its TLC instance. | – |

### `StakeModifier`: state and actions

Variables:
- `chain`: the active chain.
- `pc`: where `ComputeNextStakeModifier` is.
- `hdr`: the header of the block being connected.
- `eng`: one record holding the locals of the engine and its callees:
  - `walk` (pindex);
  - `modPrev` and `modTime` (the results of GetLastStakeModifier);
  - `start`, `stop` (the selection window);
  - `cands` (vSortedByTimestamp, as a set of chain positions);
  - `round`, `newMod`, `sel` (mapSelectedBlocks);
  - `cursor` (the iteration position of BOOST_FOREACH);
  - `fSel`, `best` and `hashBest`.

Each loop iteration and each exit of the code is one action:

| Action | Code |
|---|---|
| `ConnectGenesis` | 132-136: null parent, modifier 0, generated. |
| `BeginConnect` | 137-140: call GetLastStakeModifier from pindexPrev. |
| `LastStep` | 38-39: step to pprev while no modifier was generated. |
| `LastFound` | Three disjoint arms: 40-41 and 140-141 (no generation, so fail); 143-144 (same epoch, so keep M and return); 147-151 (open the window and start the candidate walk). |
| `CollectStep` / `CollectDone` | 152-156 / 157-163: push a candidate; at the end, reverse, sort and set up the rounds. |
| `RoundStart` / `RoundsDone` | 164-167 / 181-183: the round loop with its bound `min(64, size)`. |
| `ScanSkip`, `ScanTake`, `ScanKeep` | 81-82, 95-105: one item of the scan. The next item is the least unvisited candidate in `(time, hash)` order. |
| `SelectDone` | 106-110 with 169-175: OR the entropy bit into bit `round` (`OrBit`, 173) and add the block to the selected set; or fail (170). |
| `Halt` | The chain has reached the model bound `MaxBlocks`. It is a stutter, so the bound is not reported as a deadlock. |

A failed computation (`pc = "fail"`) is terminal. The code rejects the block and the chain stays as it was. `NeverFails` states that this state is never reached.

### `KernelModifier`: state and actions

Variables:
- `chain`: the active chain.
- `kpc`: `"idle"`, `"walk"` or `"done"`.
- `kfrom` and `kwalk`: the positions of `pindexFrom` and `pindex`.
- `kmodTime`: `nStakeModifierTime`.
- `kprint`: `fPrintProofOfStake`.
- `know`: the adjusted time read at the tip.
- `kresult`: the return value and `nStakeModifier`, plus whether the failure went through `error()`.

Actions:

| Action | Code |
|---|---|
| `Connect` | Block connection by the modifier contract, between lookups (both run under `cs_main`). |
| `Start` | 188-198: the call, for any block of the chain and either print flag. |
| `Step` | 201, 213-218: one loop iteration with a `pnext`. `nStakeModifierTime` moves only at generating blocks. |
| `ReachedBest` | 203-210: no `pnext` while the condition holds. `error()` is called when printing, or when the best block's time plus `nStakeMinAge` minus the interval exceeds the adjusted time. |
| `Found` | 201, 220-221: the loop ends, and `pindex->nStakeModifier` is returned. |

The loop condition `nStakeModifierTime < nStakeModifierTimeFrom + nStakeModifierSelectionInterval` (201) is the operator `Continue`, shared by `Step`, `ReachedBest` and `Found`.

**The specified answer.** `KernelLookupSpec` shares the variable `chain` and grows it through its instance `Chain` of `StakeModifierSpec`; `KernelModifier` instantiates it as `Lookup`, and its `Connect` is `Lookup!Chain!ConnectBlock`. `Answer(c, f)` is the modifier of the least position in `LateGenerations(c, f)` (the blocks after `f` that generated a modifier at least a selection interval after `f`'s time), or a failure with modifier 0 when that set is empty.

**Fairness.** `Spec` adds weak fairness of `Step`, `ReachedBest` and `Found`. The loop runs under `cs_main` and waits for nothing. Once called, it keeps running until it returns. Block connection and new calls are the environment's, and are not fair.

### `Kernel` and `Validator`

`Kernel` keeps the widths of the code:
- **The weight operand.** `arith_uint256(nValueIn) * GetWeight(...)` has an `int64_t` right operand. Overload resolution prefers base_uint's `operator*(uint32_t)`, a standard conversion, over the converting constructor, so the weight is taken modulo `Uint32Modulus` (2^32).
- **V1 products.** They are taken modulo `Uint256Modulus` (2^256).
- **V2 target.** It is a `CBigNum` and does not wrap.

The double-SHA-256 of the serialized preimage is the constant operator `KernelHash`, applied to a record of the preimage's fields (`V1Preimage`, `V2Preimage`). `SetCompact` is outside `src/`, so targets are given already expanded. An out parameter the function does not assign is `Unchanged` (-1).

`Validator` has one action per entry point, since each call runs to completion under the chain lock: `CheckProofOfStake`, `CheckKernel` and `CheckCoinStakeTimestamp`. A further action, `Return`, lets the caller consume the outcome. The inputs are chosen with `\E`:
- the caller's arguments;
- the collaborators' answers (`Worlds`): the UTXO coin, possibly missing or spent; a disk read; the transaction index; the offset index; the forward lookup's outcome; the signature.

`GetAncestor` succeeds exactly when the coin's height is at most `pindexPrev`'s. A transaction's `nTime` is at most its block's time, the block-level rule that is outside `src/`.

The reference (`SpecVerdict`, `SpecTarget`, `SpecProof`) is written from spec 4.3-4.4 and 7:
- exact weights;
- the first failing step and its class (structural, ban-worthy or soft).

## 3. Runs

| Run | cfg | Checks | Shows |
|---|---|---|---|
| `stake_modifier_refines` | `MC_StakeModifier.cfg` | `ImplementsSpec` (`Abstract!Spec`, abstract spec as PROPERTY), `SelectionInputsAsSpecified`, `SelectionAsSpecified` (action property) | Spec invariant 2 of §8 holds on the instance: every block carries `NextStakeModifier` of its parent chain. The loops, the `break` before the first selection, the `continue` on selected blocks and the strict `<` compute the set-level choice. Two parts of it are also checked on their own. Every round runs on the spec's window start, candidates (the maximal suffix at or after the start) and previous modifier. Every block `SelectBlockFromCandidates` returns is `RoundChoice`, the spec's choice for the round's stop. |
| `selection_never_fails_sparse` | `MC_StakeModifier_sparse.cfg` | `NeverFails`, `ModifierKeptAsSpecified` | GetLastStakeModifier always finds a generation, and SelectBlockFromCandidates always selects, when windows hold fewer blocks than rounds. Every block carries the generation flag `NextStakeModifier` assigns to its parent chain, and a block that does not generate carries the last generated modifier. |
| `kernel_modifier_lookup` | `MC_KernelModifier.cfg` | `LookupMatchesSpec` | For every staked block of every chain of up to five blocks, the lookup returns the modifier of the first block after it that generated one at least a selection interval later, and fails exactly when there is none yet. Times are not monotone, so this is not always the first late block. |
| `kernel_modifier_terminates` | `MC_KernelModifier_live.cfg` | `LookupTerminates` | Under the fairness above, every call returns, on chains of up to four blocks. The walk advances one `pnext` per step and stops at the tip, so it cannot loop, even when the modifier time never reaches the bound. |
| `kernel_modifier_hard_error` (violation) | `MC_KernelModifier_hard.cfg` | `HardErrorAsSpecified` | See finding 1. |
| `validator_as_specified` | `MC_Validator.cfg` | `ProofOfStakeAsSpecified`, `MinerKernelAsSpecified` | Over every combination of collaborator answers, both sides of the V2 switch and times around the minimum age, both entry points accept exactly what spec 4.3-4.4 accepts. This includes V1 targets that wrap at 2^256, the `uint32_t` weight operand, and the maturity and spent guards of `CheckKernel`. |
| `validator_rejection_class` (violation) | `MC_Validator_class.cfg` | `RejectionClassAsSpecified` | See finding 2. |
| `validator_target_proof` (violation) | `MC_Validator_target.cfg` | `TargetProofAsSpecified` | See finding 3. |

Both cfgs use the same instance, except for the time steps:
- `Rounds = 3`, `ModifierInterval = 4` and ratio 3 give sections 1, 2, 4 and a selection interval of 7.
- There are 6 blocks and 2 hash choices per height (of both parities, so both entropy bits).
- PoS blocks carry kernel proof 1; PoW blocks carry their own hash.
- `SelHash` is a fixed scrambling into 0..15, and `PosShift = 1`.
- Time steps are -1 or +2 in the dense run, and -1 or +4 in the sparse run. The negative step models a block older than its parent, which median-time-past allows.

What the bounds reach:
- The "same epoch" and "new modifier" branches both occur.
- Windows have more candidates than rounds (dense) and fewer (sparse).
- Some rounds have no candidate before their stop.
- Some blocks tie in time. Some also tie in selection hash, because every PoS block carries the same kernel proof; the code cannot meet such a tie (distinct 256-bit hashes), so no property or mutant relies on one.
- Rounds are chosen among at least two candidates.

`MC_KernelModifier` reuses these parameters, with 5 blocks (4 in the liveness run, whose state graph is larger per state), time steps of -1 or +4 (so some blocks generate a modifier and some do not), `nStakeMinAge = 8` and adjusted times 2, 10 and 18.

`MC_Validator` uses:
- pindexPrev heights 1-3, with the V2 switch at 2, so height 1 runs V1 and heights 2 and 3 run V2;
- coin heights 0-3, which include a coin above pindexPrev;
- blocks two seconds apart, and times 0-8;
- a minimum age of 2 and a maximum age of 3;
- `COIN` and the day scaled to 1;
- 2^32 scaled to 8 and 2^256 to 16, so a V1 target wraps for the larger value and target (3 · 3 · 3 = 27);
- maturity 2 and timestamp mask 3.

Accepted V1 and V2 coinstakes, accepted miner kernels and wrapped V1 targets all occur.

Every action fires in the passing runs together. Deadlock is checked: in `KernelModifier` a new lookup can always start, and in `Validator` a new call can always be made.

Each property has a mutant, checked under its run's cfg:
- `Breaks` → `BreaksAtStop` (`>=` for `>` at line 79, so a block exactly at the stop time is never examined once something is selected) breaks `ImplementsSpec` and `SelectionAsSpecified`.
- `LastFound` → `LastFoundSkipPrev` (the candidate walk starting at `pindexPrev->pprev`) breaks `SelectionInputsAsSpecified`.
- `LastFound` → `LastFoundEpochStrict` (`>` for `>=` at line 143) breaks `ModifierKeptAsSpecified`.
- `RoundStart` → `RoundStartNoSizeBound` (the bound `min(64, size)` without the size) breaks `NeverFails`. The dense run cannot catch this one, since its windows always hold enough blocks; hence the sparse run.
- `Step` → `StepEveryBlock` (no `GeneratedStakeModifier()` test at line 214) breaks `LookupMatchesSpec`.
- `Step` → `StepNoAdvance` (`pindex = pindex->pnext` dropped at line 213) breaks `LookupTerminates`.
- `PreflightFailure` → `PreflightNoMinAge` (no min-age check) breaks `ProofOfStakeAsSpecified`. The weight then goes negative and wraps through the `uint32_t` operand.
- `KernelOutcomeOf` → `KernelOutcomeOfMaturityOffByOne` (`<=` at line 489) breaks `MinerKernelAsSpecified`.

### Findings

1. **The spec and line 205 disagree on the hard-error rule.** On reaching the tip, the code decides between `error()` and a plain `return false` on `pindex->GetBlockTime()`, the best block's time. Spec 4.3.3 decides on `block_from.block_time`. TLC finds this: staked block at time 0, tip at time 4, adjusted time 2. Both branches return false, and the caller gives DoS 1 either way. So the spec's hard/soft distinction exists only in the log.
2. **Preflight violations get DoS 1, not a ban-worthy score.** `CheckProofOfStake` gives every kernel failure DoS 1 (line 448), including the preflight violations. Spec 7 says a preflight violation is ban-worthy. The counterexample is a min-age violation.
3. **V2 leaves `targetProofOfStake` unset.** `CheckStakeKernelHashV2` never assigns it, so an accepted V2 coinstake hands back whatever the caller's variable held. Spec 4.4 step 9 says the computed target is returned. V1 assigns it at line 262.

Fairness: only `KernelModifier`'s `Spec` has any, and only `kernel_modifier_terminates` needs it; the other runs check safety. The engine is a terminating computation that runs under the chain lock, and block arrival is the environment.

## 4. Proofs

### `StakeModifierProofs`

The proofs assume the following, and TLC evaluates every assumption on each run:
- `ParamsAssumption`: the parameters are positive, and `Rounds >= 2`.
- `ChainAssumption`: the environment's sets are well formed, and `SelHash` maps into `0..HashRange-1`.
- `SelectionIntervalAssumption`: the selection interval and the partial sums are naturals. It stands for the value of the 64-term sum, which the provers cannot compute by induction.

The theorems:
- **`TypeCorrect`: `Spec => []TypeOK`.**
  - `TypeOK` is not inductive as it stands. The strengthening `IInv` adds the following:
    - a computation in progress has a chain below the bound and a header from `NextHeaders(chain)`, so the appended block is a well-typed `Blocks` record;
    - the walks stay in `0..Len(chain)`;
    - the candidates are chain positions;
    - a scan runs in a round below `min(Rounds, |cands|)`, so `Section(round)` and `OrBit` index valid bits;
    - the cursor and the best block are candidates.
  - The proof has one case per action. Each case proves the new locals' record is in `Frames`, field by field.
- **`SelectionNeverFails`: `Spec => []NeverFails`.** The invariant `NInv = IInv /\ NoFailInv` says:
  - block 1 (genesis) carries a generated modifier;
  - in the rounds, `sel ⊆ cands` and `|sel| = round`;
  - a selected best block is not in `sel`;
  - while a scan has selected nothing, every candidate at or before the cursor is in `sel`, because only `continue` moves the cursor then.

  When a scan ends with nothing selected, every candidate would be in `sel`, which gives `|cands| = round < min(Rounds, |cands|)`, a contradiction. In the same way, `LastFound` cannot meet a block without a generation: the walk stops at a generating block or at genesis.

### `ModifierKeepProofs`

**`ModifierKeptCorrect`: `Spec => []ModifierKeptAsSpecified`.** Every block `i` carries the flag `NextStakeModifier(SubSeq(chain, 1, i - 1)).gen`. When that flag is false, the block also carries that modifier. The inductive invariant is `KInv = NInv /\ KeepInv`, where `KeepInv` adds two facts:
- while `GetLastStakeModifier` walks back, no block after the walk position has generated;
- while a new modifier is being computed (collect, round, scan), some block `k` is `LastGen(chain, k)`, meaning it generated and none after it did, and its epoch is below pindexPrev's.

The second fact is why `RoundsDone` stamps the flag the spec gives. `LastGeneratedIs` shows that the spec's `CHOOSE` in `LastGenerated` can only pick that `k`. `NextModifierKeep` and `NextModifierGenesis` then read `NextStakeModifier`'s flag, and its kept modifier, off the epoch test. That part of the definition never reaches the recursive `picks`. `AppendKept` shows that appending a block which carries what `NextStakeModifier` assigns keeps every earlier block as specified (`AppendPrefix`). TLC checked `KInv` on the 224,147 states of the sparse run before it was proved.

### `SelectionProofs`

**`SelectionCorrect`: `Spec => SelectionAsSpecified`.** This is an action property: a step from the scan back to the round loop ends with `RoundChoice(eng.best)`. The argument is about the prefix of `vSortedByTimestamp` the scan has visited, `Visited(i)` (the cursor is not before `i`). The scan invariant `ScanInv` says:
- before a selection, no visited candidate is unselected (only `continue` has run);
- after one, the best block is visited and unselected, and `hashBest` is its hash;
- the best block beats every other visited unselected candidate, by a strictly smaller hash or by an equal hash and an earlier place;
- every unvisited candidate comes after the best block;
- a best block past the stop is the only visited unselected candidate.

`NextVisited` shows that a step visits exactly the next item. It uses only the transitivity of `Before` (`BeforeTrans`), not its totality. `EndedVisitsWindow` shows that when the scan ends, every unselected candidate at or before the stop has been visited. The loop either ran out of items, or it broke at an item past the stop, and no later item is earlier in time (`BeforeTime`). `SelectDoneChoice` combines these into `RoundChoice`.

**`InputsCorrect`: `Spec => []SelectionInputsAsSpecified`.** The invariant is `CInv = KInv /\ InputsInv`:
- during the collect walk, the candidates are exactly the positions `walk+1..Len(chain)`, all at or after the start;
- from `LastFound` on, the start is `SelectionStart(Prev.time)`, and `modPrev` is the modifier of the `LastGen` block.

`CandidatesSuffix` shows that where the walk stops, the positions it passed are the spec's `Candidates`. It stops at the null pointer or at the first block older than the start, so they form the maximal suffix even though block times are not monotone. TLC checked `ScanInv` (as `SInv = NInv /\ ScanInv`) and `CInv` on both stake-modifier runs before they were proved.

### `KernelProofs` and `ValidatorProofs`

**`V1TargetAsSpecified`** (`KernelProofs`) is stated for every parameter set, every value with `value · nStakeMaxAge < 2^256`, and every hash that is a `uint256`. Once the V1 preflights pass and txPrev is no younger than its block, `CheckStakeKernelHashV1` with a found modifier does two things:
- it returns spec 4.3.2's target, `nBits · (value · GetWeight / COIN / 86400) mod 2^256`, as `targetProofOfStake`;
- it succeeds exactly when the proof is at most that target.

It rests on three lemmas:
- `WeightInRange`: `0 <= GetWeight <= nStakeMaxAge`, from the preflights and the time rule;
- `WeightExact`: the `uint32_t` conversion is the identity on that range;
- `CoinWeightExact`: `arith_uint256(nValueIn) · weight` does not wrap.

This is the numeric core of `ProofOfStakeAsSpecified`, for all widths.

`ValidatorProofs` proves `ProofOfStakeCorrect` (`Spec => []ProofOfStakeAsSpecified`) and `MinerKernelCorrect` (`Spec => []MinerKernelAsSpecified`). Both theorems assume `HashesAreNumbers`, that every kernel hash is a natural (a `uint256`). They also rest on `ValidatorAssumption`, which includes `value · nStakeMaxAge < 2^256` for every staked value, a 64-bit amount times a 32-bit age.

The argument:
- `KernelMatches`: once the coin, its block and txPrev are found, `KernelCheck` succeeds exactly when spec 4.4's steps 6-8 do. There is one case each for a failed preflight, V2, V1 without a modifier, and V1 with one, which cites `V1TargetAsSpecified`.
- `ProofOfStakeMatches` and `MinerKernelMatches` add the early returns of the two entry points.
- The invariant `VInv`, the conjunction of the two properties, is inductive as it stands. Each call records its outcome together with the inputs it is a function of, and the other calls and `Return` make it vacuous.

`Validator` applies the timestamp mask as `nTimeTx % (mask + 1)`. This is what `&` computes for the low-bit masks `2^k - 1` that `ValidatorAssumption` admits, on a non-negative time. So no module with a theorem reaches `Bitwise`.

### `KernelModifierProofs`

**`LookupCorrect`: `Spec => []LookupMatchesSpec`.** The inductive invariant `IInv` has these parts:
- `ChainOK`: the chain is a sequence whose blocks have a natural time and a Boolean `gen`. This is proved through `ConnectChainOK`, from `NextHeaders` and `NextStakeModifier(c).gen`. The modifier's own type is not needed, and it rests on the `CHOOSE` of `LastGenerated`.
- `kfrom` is a chain position while a lookup is in progress.
- `LookupMatchesSpec`.
- While walking, `WalkInv` holds:
  - `kwalk` is in `kfrom..Len(chain)`;
  - `Continue` holds exactly when `kwalk` is not in `LateGenerations(chain, kfrom)`;
  - no position strictly between `kfrom` and `kwalk` is in it.

So `ReachedBest` answers "none" exactly when the set is empty. `Found` stops at its least element (`FirstOfLeast`). Block connection only appends, so it changes neither the set below the old tip nor the walk. TLC checked `IInv` on all 1.66 million states of `MC_KernelModifier` before it was proved.

`LookupParams` equates `Lookup`'s `SelectionInterval` and `ZeroModifier` with the module's own.

Lemmas of `StakeModifierProofs`: `NextHeadersType`, `StampType`, `CandidatesFinite` (from `FS_Interval` and `FS_Subset`), `SectionType` (the divisor is at least `Rounds - 1`), `SelectionHashType`, `AppendFirst`, `BeforeIrreflexive` and `FinishKeepsGenesis`.

What stays with TLC:
- `LookupTerminates`. Liveness under fairness, and `ENABLED`, are out of the provers' reach.
- `ImplementsSpec` as a whole. Its abstract side builds the new modifier through the recursive function `picks`, and the round stops through the recursive `SectionSum`. The provers cannot reason about what a recursive definition computes, so the last steps stay with TLC:
  - `eng.stop = start + SectionSum[round + 1]`;
  - `eng.sel` holds the first `round` picks;
  - the bits of `newMod` are their entropy bits.

  The other pieces are proved: the flag and the kept modifier (`ModifierKeptCorrect`), the round inputs (`InputsCorrect`), and each round's choice for its stop (`SelectionCorrect`).
- Anything about the numeric value of the selection interval.

## 5. Not modelled yet, and the plan

1. **Reorgs in `KernelModifier`.** Disconnect blocks, and validate on a fork whose `pnext` links are not the active chain's. Show that a V1 modifier found before a reorg can differ after it (hazard at line 213). Reorgs are done outside `src/`, and spec.md lists them as a non-goal, since the caller re-validates. So `KernelModifier` only grows the chain, and no property covers the hazard.
2. **The offset index.** Its meaning at a height is outside `src/`. Once it is pinned down, a property on the V1 preimage's `nTxOffset` (hazard at line 437).

Out of reach, and left out:
- SHA-256d and the serialization of preimages. These are pure byte formatting; hashes are abstract values, and only their order and equality matter to the code.
- Logging.
- The `mapBlockIndex` lookup failures at lines 76 and 192. Candidates and `blockFrom` come from the chain and are always indexed.
- The 32-bit truncation of block times (`unsigned int nTimeBlockFrom`), and the width of `nStakeMinAge` in `nTimeBlockFrom + nStakeMinAge`. That width is set outside `src/`, and times stay far below 2^32 until 2106.
- `SetCompact` and the compact encoding of `nBits`, which are outside `src/`.
