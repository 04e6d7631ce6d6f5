---------------------------- MODULE KernelModifier ----------------------------
(***************************************************************************)
(* GetKernelStakeModifier (pos.cpp 186-222), the V1 kernel's forward       *)
(* lookup: from the block holding the staked output, walk pnext along the  *)
(* active chain until a block that generated a stake modifier has a time   *)
(* at least a selection interval after the staked block's time, and        *)
(* return that block's modifier.  If the walk reaches the best block       *)
(* first, the lookup fails, through error() (which reports) or through a   *)
(* plain return false.                                                      *)
(*                                                                         *)
(* The chain grows by the modifier contract of StakeModifierSpec, which    *)
(* the detailed engine is checked to implement, so the generated flags and *)
(* modifiers the walk meets are the ones block connection stamps.  The     *)
(* lookup runs under the chain lock, so no block is connected while it     *)
(* walks; its result is consumed before the next block is connected.       *)
(***************************************************************************)
EXTENDS BlockChain

CONSTANTS
  StakeMinAge,     \* params.nStakeMinAge (seconds)
  AdjustedTimes    \* values GetAdjustedTime() may return during a lookup

ASSUME KernelModifierAssumption ==
  /\ StakeMinAge \in Nat
  /\ AdjustedTimes \subseteq Nat /\ AdjustedTimes # {}

VARIABLES
  chain,      \* the active chain, linked forward by pnext
  kpc,        \* "idle", "walk" (in the while loop) or "done" (returned)
  kfrom,      \* position of pindexFrom
  kwalk,      \* position of pindex
  kmodTime,   \* nStakeModifierTime
  kprint,     \* fPrintProofOfStake
  know,       \* the GetAdjustedTime() value read at the tip
  kresult     \* what the last lookup returned

kvars == <<kpc, kfrom, kwalk, kmodTime, kprint, know, kresult>>
vars == <<chain, kvars>>

(***************************************************************************)
(* The answer the lookup promises (spec 4.3.2), on the same active chain.  *)
(***************************************************************************)
Lookup == INSTANCE KernelLookupSpec

(***************************************************************************)
(* A lookup's outcome: the return value, nStakeModifier, and whether the   *)
(* failure went through error().                                          *)
(***************************************************************************)
Results == [ok : BOOLEAN, mod : Modifiers, reported : BOOLEAN]

NoResult == [ok |-> FALSE, mod |-> ZeroModifier, reported |-> FALSE]

\* pindexFrom->GetBlockTime() + nStakeModifierSelectionInterval
Bound == chain[kfrom].time + SelectionInterval

Init ==
  /\ Lookup!Chain!Init
  /\ kpc = "idle"
  /\ kfrom = 1 /\ kwalk = 1 /\ kmodTime = 0
  /\ kprint = FALSE /\ know = 0
  /\ kresult = NoResult

\* Block connection, between lookups.
Connect ==
  /\ kpc # "walk"
  /\ Lookup!Chain!ConnectBlock
  /\ kpc' = "idle"
  /\ UNCHANGED <<kfrom, kwalk, kmodTime, kprint, know, kresult>>

(***************************************************************************)
(* Lines 188-198: the call for a block of the chain (the block hash is    *)
(* always indexed, so the error at 192-193 is not taken), with the caller's *)
(* fPrintProofOfStake.                                                     *)
(***************************************************************************)
Start ==
  /\ kpc # "walk"
  /\ chain # <<>>
  /\ \E f \in 1..Len(chain), p \in BOOLEAN :
       /\ kfrom' = f /\ kwalk' = f
       /\ kmodTime' = chain[f].time
       /\ kprint' = p
  /\ kpc' = "walk"
  /\ UNCHANGED <<chain, know, kresult>>

\* Line 201: the condition of the while loop.
Continue == kmodTime < Bound

\* Mutant of Step: nStakeModifierTime follows every block, as if the
\* GeneratedStakeModifier() test of line 214 were missing.
StepEveryBlock ==
  /\ kpc = "walk"
  /\ Continue
  /\ kwalk < Len(chain)
  /\ kwalk' = kwalk + 1
  /\ kmodTime' = chain[kwalk + 1].time
  /\ UNCHANGED <<chain, kpc, kfrom, kprint, know, kresult>>

\* Mutant of Step: pindex = pindex->pnext (line 213) left out.
StepNoAdvance ==
  /\ kpc = "walk"
  /\ Continue
  /\ kwalk < Len(chain)
  /\ kwalk' = kwalk
  /\ kmodTime' = IF chain[kwalk].gen THEN chain[kwalk].time ELSE kmodTime
  /\ UNCHANGED <<chain, kpc, kfrom, kprint, know, kresult>>

\* Lines 201, 212-218: one iteration of the while loop that has a pnext.
Step ==
  /\ kpc = "walk"
  /\ Continue
  /\ kwalk < Len(chain)
  /\ kwalk' = kwalk + 1
  /\ kmodTime' = IF chain[kwalk + 1].gen THEN chain[kwalk + 1].time
                 ELSE kmodTime
  /\ UNCHANGED <<chain, kpc, kfrom, kprint, know, kresult>>

(***************************************************************************)
(* Lines 203-210: the best block is reached with the loop condition still *)
(* true.  error() is called when printing or when the best block's time   *)
(* plus nStakeMinAge minus the interval exceeds the adjusted time.         *)
(***************************************************************************)
ReachedBest ==
  /\ kpc = "walk"
  /\ Continue
  /\ kwalk = Len(chain)
  /\ \E n \in AdjustedTimes :
       /\ know' = n
       /\ kresult' =
            [ok |-> FALSE, mod |-> ZeroModifier,
             reported |-> kprint \/
                          chain[kwalk].time + StakeMinAge - SelectionInterval > n]
  /\ kpc' = "done"
  /\ UNCHANGED <<chain, kfrom, kwalk, kmodTime, kprint>>

\* Lines 201, 220-221: the loop ends; pindex->nStakeModifier is returned.
Found ==
  /\ kpc = "walk"
  /\ ~Continue
  /\ kresult' = [ok |-> TRUE, mod |-> chain[kwalk].mod, reported |-> FALSE]
  /\ kpc' = "done"
  /\ UNCHANGED <<chain, kfrom, kwalk, kmodTime, kprint, know>>

Next == Connect \/ Start \/ Step \/ ReachedBest \/ Found

(***************************************************************************)
(* The lookup is a plain loop run by the validating thread under the chain *)
(* lock: nothing it waits for can be withheld, so once called it keeps     *)
(* stepping until it returns.  Callers and block connection are not fair.  *)
(***************************************************************************)
Fairness == WF_vars(Step) /\ WF_vars(ReachedBest) /\ WF_vars(Found)

Spec == Init /\ [][Next]_vars /\ Fairness

-----------------------------------------------------------------------------
\* Every variable has its type.
TypeOK ==
  /\ chain \in Seq(Blocks) /\ Len(chain) <= MaxBlocks
  /\ kpc \in {"idle", "walk", "done"}
  /\ kfrom \in 1..MaxBlocks /\ kwalk \in 1..MaxBlocks
  /\ kmodTime \in Nat
  /\ kprint \in BOOLEAN
  /\ know \in Nat
  /\ kresult \in Results

(***************************************************************************)
(* GetKernelStakeModifier returns, for the staked block f, exactly the     *)
(* modifier of the first block after f that generated one at least a      *)
(* selection interval after f's time, and fails exactly when the active    *)
(* chain has no such block.  This covers the loop of 201-219: that         *)
(* nStakeModifierTime moves only at generating blocks, that the condition *)
(* is strict, and that the modifier returned is that of the node the walk *)
(* stops at.  Times are not monotone along the chain, so the first late    *)
(* generation need not follow the first late block.                       *)
(***************************************************************************)
LookupMatchesSpec ==
  kpc = "done" => [ok |-> kresult.ok, mod |-> kresult.mod] = Lookup!Answer(chain, kfrom)

(***************************************************************************)
(* Every call of GetKernelStakeModifier returns: the walk along pnext      *)
(* reaches a late enough generation or the best block.                    *)
(***************************************************************************)
LookupTerminates == kpc = "walk" ~> kpc = "done"

(***************************************************************************)
(* Spec 4.3.3: on reaching the tip, the lookup fails with a hard (reported) *)
(* error exactly when printing or when the STAKED block's time plus the   *)
(* minimum age minus the selection interval exceeds the adjusted time.     *)
(* Line 205 uses the time of the best block reached instead.               *)
(***************************************************************************)
HardErrorAsSpecified ==
  (kpc = "done" /\ ~kresult.ok) =>
    (kresult.reported <=>
       (kprint \/ chain[kfrom].time + StakeMinAge - SelectionInterval > know))
=============================================================================
