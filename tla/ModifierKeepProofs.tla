-------------------------- MODULE ModifierKeepProofs --------------------------
(***************************************************************************)
(* Proof that every block carries the generation flag the spec assigns to  *)
(* its parent chain, and the last generated modifier when it does not      *)
(* generate: GetLastStakeModifier's walk and the same-epoch test of        *)
(* ComputeNextStakeModifier (lines 32-46 and 137-144), for every value of  *)
(* the parameters.                                                         *)
(***************************************************************************)
EXTENDS StakeModifierProofs

\* Appending a block leaves the earlier blocks and their parent chains alone.
LEMMA AppendPrefix ==
  ASSUME NEW c \in Seq(Blocks), NEW e, NEW i \in 1..(Len(c) + 1)
  PROVE  /\ i <= Len(c) => /\ Append(c, e)[i] = c[i]
                           /\ SubSeq(Append(c, e), 1, i - 1) = SubSeq(c, 1, i - 1)
         /\ i = Len(c) + 1 => /\ Append(c, e)[i] = e
                              /\ SubSeq(Append(c, e), 1, i - 1) = c
<1>1. Len(c) \in Nat
  BY LenProperties
<1>2. i <= Len(c) => Append(c, e)[i] = c[i]
  BY <1>1, AppendProperties
<1>3. i <= Len(c) => SubSeq(Append(c, e), 1, i - 1) = SubSeq(c, 1, i - 1)
  BY <1>1, AppendProperties
<1>4. i = Len(c) + 1 => Append(c, e)[i] = e
  BY <1>1, AppendProperties
<1>5. SubSeq(Append(c, e), 1, Len(c)) = c
  BY <1>1, AppendProperties
<1>. QED
  BY <1>2, <1>3, <1>4, <1>5, <1>1
\* Block k generated a modifier and none after it did.
LastGen(c, k) ==
  /\ k \in 1..Len(c)
  /\ c[k].gen
  /\ \A j \in (k + 1)..Len(c) : ~c[j].gen

\* The block GetLastStakeModifier stops at is the only one that is LastGen.
LEMMA LastGeneratedIs ==
  ASSUME NEW c \in Seq(Blocks), NEW k, LastGen(c, k)
  PROVE  Abstract!LastGenerated(c) = k
<1>1. k \in DOMAIN c /\ c[k].gen /\ \A j \in (k + 1)..Len(c) : ~c[j].gen
  BY DEF LastGen
<1>2. \A i \in DOMAIN c : c[i].gen /\ (\A j \in (i + 1)..Len(c) : ~c[j].gen) => i = k
  <2> SUFFICES ASSUME NEW i \in DOMAIN c, c[i].gen,
                      \A j \in (i + 1)..Len(c) : ~c[j].gen
               PROVE  i = k
    OBVIOUS
  <2>1. i \in 1..Len(c) /\ k \in 1..Len(c)
    BY <1>1, LenProperties
  <2>2. ~(i < k)
    BY <1>1, <2>1
  <2>3. ~(k < i)
    BY <1>1, <2>1
  <2>. QED
    BY <2>1, <2>2, <2>3
<1>. QED
  BY <1>1, <1>2 DEF Abstract!LastGenerated

\* The abstract specification reads the same block-chain definitions.
LEMMA SharedDefs ==
  /\ Abstract!ZeroModifier = ZeroModifier
  /\ \A t : Abstract!Epoch(t) = Epoch(t)
BY DEF Abstract!ZeroModifier, ZeroModifier, Abstract!Epoch, Epoch

(***************************************************************************)
(* What NextStakeModifier says of the flag and of a kept modifier, given   *)
(* the last generating block k.                                            *)
(***************************************************************************)
LEMMA NextModifierKeep ==
  ASSUME NEW c \in Seq(Blocks), c # <<>>, NEW k, LastGen(c, k)
  PROVE  /\ Abstract!NextStakeModifier(c).gen
              = ~(Epoch(c[k].time) >= Epoch(c[Len(c)].time))
         /\ Epoch(c[k].time) >= Epoch(c[Len(c)].time)
              => Abstract!NextStakeModifier(c).mod = c[k].mod
<1>1. Abstract!LastGenerated(c) = k
  BY LastGeneratedIs
<1>. QED
  BY <1>1, SharedDefs DEF Abstract!NextStakeModifier

\* The genesis block's modifier.
LEMMA NextModifierGenesis ==
  Abstract!NextStakeModifier(<<>>) = [mod |-> ZeroModifier, gen |-> TRUE]
BY SharedDefs DEF Abstract!NextStakeModifier
(***************************************************************************)
(* Connecting a block that carries what NextStakeModifier assigns to the   *)
(* chain so far keeps every block as specified.                            *)
(***************************************************************************)
LEMMA AppendKept ==
  ASSUME chain \in Seq(Blocks), ModifierKeptAsSpecified, NEW e,
         chain' = Append(chain, e),
         e.gen = Abstract!NextStakeModifier(chain).gen,
         ~e.gen => e.mod = Abstract!NextStakeModifier(chain).mod
  PROVE  ModifierKeptAsSpecified'
<1>1. Len(chain') = Len(chain) + 1 /\ Len(chain) \in Nat
  BY AppendProperties, LenProperties
<1> SUFFICES ASSUME NEW i \in 1..(Len(chain) + 1)
             PROVE  LET nm == Abstract!NextStakeModifier(SubSeq(chain', 1, i - 1))
                    IN  /\ chain'[i].gen = nm.gen
                        /\ ~nm.gen => chain'[i].mod = nm.mod
  BY <1>1 DEF ModifierKeptAsSpecified
<1>2. CASE i <= Len(chain)
  <2>1. chain'[i] = chain[i] /\ SubSeq(chain', 1, i - 1) = SubSeq(chain, 1, i - 1)
    BY <1>2, AppendPrefix
  <2>2. i \in 1..Len(chain)
    BY <1>1, <1>2
  <2>. QED
    BY <2>1, <2>2 DEF ModifierKeptAsSpecified
<1>3. CASE i = Len(chain) + 1
  <2>1. chain'[i] = e /\ SubSeq(chain', 1, i - 1) = chain
    BY <1>3, AppendPrefix
  <2>. QED
    BY <2>1
<1>. QED
  BY <1>1, <1>2, <1>3

(***************************************************************************)
(* The inductive strengthening of ModifierKeptAsSpecified.  While          *)
(* GetLastStakeModifier walks back, no block after the walk position has   *)
(* generated a modifier; once a new modifier is being computed, the last   *)
(* generating block is in an earlier epoch than pindexPrev, which is what  *)
(* makes the generated flag of the finished block the specified one.      *)
(***************************************************************************)
\* A block's modifier epoch is a number.
LEMMA BlockEpoch ==
  ASSUME NEW c \in Seq(Blocks), NEW i \in 1..Len(c)
  PROVE  Epoch(c[i].time) \in Int
<1>1. c[i] \in Blocks
  BY ElementOfSeq
<1>2. c[i].time \in Nat
  BY <1>1 DEF Blocks
<1>. QED
  BY <1>2, NumericParams DEF Epoch

KeepInv ==
  /\ ModifierKeptAsSpecified
  /\ pc = "last" => \A j \in (eng.walk + 1)..Len(chain) : ~chain[j].gen
  /\ pc \in {"collect", "round", "scan"} =>
       \E k \in 1..Len(chain) : LastGen(chain, k) /\ Epoch(chain[k].time) < Epoch(Prev.time)

KInv == NInv /\ KeepInv

THEOREM InitKInv == Init => KInv
<1> SUFFICES ASSUME Init PROVE KInv
  OBVIOUS
<1>1. NInv
  BY InitNInv
<1>2. Len(chain) = 0 /\ pc = "idle"
  BY EmptySeq DEF Init
<1>. QED
  BY <1>1, <1>2 DEF KInv, KeepInv, ModifierKeptAsSpecified

(***************************************************************************)
(* A step of the candidate collection or of the selection rounds leaves   *)
(* the chain alone and stays among them (or fails).                        *)
(***************************************************************************)
LEMMA SelectionStepKeeps ==
  ASSUME KeepInv, chain' = chain, pc \in {"collect", "round", "scan"},
         pc' \in {"collect", "round", "scan", "fail"}
  PROVE  KeepInv'
BY DEF KeepInv, ModifierKeptAsSpecified, Prev

THEOREM NextKInv == KInv /\ [Next]_vars => KInv'
<1> SUFFICES ASSUME KInv, [Next]_vars PROVE KInv'
  OBVIOUS
<1>0. /\ NInv' /\ KeepInv
      /\ chain \in Seq(Blocks) /\ Len(chain) \in 0..MaxBlocks
      /\ eng \in Frames /\ pc \in PCs /\ pc # "fail"
      /\ Len(chain) >= 1 => chain[1].gen
  BY NextNInv, LenProperties DEF KInv, NInv, IInv, TypeOK, NoFailInv
<1> SUFFICES KeepInv'
  BY <1>0 DEF KInv
<1>1. CASE ConnectGenesis
  <2>1. PICK hd \in NextHeaders(chain) :
          chain' = Append(chain, Stamp(hd, ZeroModifier, TRUE))
    BY <1>1 DEF ConnectGenesis
  <2>2. chain = <<>> /\ pc' = "idle"
    BY <1>1 DEF ConnectGenesis
  <2>3. ModifierKeptAsSpecified'
    <3>1. Stamp(hd, ZeroModifier, TRUE).gen = TRUE
          /\ Stamp(hd, ZeroModifier, TRUE).mod = ZeroModifier
      BY DEF Stamp
    <3>2. Abstract!NextStakeModifier(chain).gen = TRUE
          /\ Abstract!NextStakeModifier(chain).mod = ZeroModifier
      BY <2>2, NextModifierGenesis
    <3>3. ModifierKeptAsSpecified
      BY <1>0 DEF KeepInv
    <3>. QED
      BY <1>0, <2>1, <3>1, <3>2, <3>3, AppendKept
  <2>. QED
    BY <2>2, <2>3 DEF KeepInv
<1>2. CASE BeginConnect
  <2>1. chain' = chain /\ pc' = "last" /\ eng'.walk = Len(chain)
    BY <1>0, <1>2 DEF BeginConnect, Frames
  <2>. QED
    BY <1>0, <2>1 DEF KeepInv, ModifierKeptAsSpecified
<1>3. CASE LastStep
  <2>1. /\ chain' = chain /\ pc' = "last" /\ pc = "last"
        /\ eng'.walk = eng.walk - 1 /\ ~chain[eng.walk].gen
    BY <1>0, <1>3 DEF LastStep, Frames
  <2>2. eng.walk \in Nat
    BY <1>0 DEF Frames
  <2>. QED
    BY <1>0, <2>1, <2>2 DEF KeepInv, ModifierKeptAsSpecified
<1>4. CASE LastFound
  <2> DEFINE b == chain[eng.walk]
  <2>1. pc = "last" /\ eng.walk \in 1..Len(chain)
    BY <1>4 DEF LastFound, KInv, NInv, IInv
  <2>2. b.gen
    BY <1>0, <1>4, <2>1 DEF LastFound
  <2>3. LastGen(chain, eng.walk)
    BY <1>0, <2>1, <2>2 DEF KeepInv, LastGen
  <2>4. chain # <<>> /\ Prev = chain[Len(chain)]
    BY <1>0, <2>1 DEF Prev
  <2>7. Epoch(b.time) \in Int /\ Epoch(Prev.time) \in Int
    BY <1>0, <2>1, <2>4, BlockEpoch DEF b
  <2>5. CASE Epoch(b.time) >= Epoch(Prev.time)
    <3>1. Finish(b.mod, FALSE)
      <4>1. ~(Epoch(b.time) < Epoch(Prev.time))
        BY <2>5, <2>7
      <4>. QED
        BY <1>4, <2>2, <2>5, <4>1 DEF LastFound, b
    <3>2. Stamp(hdr, b.mod, FALSE).gen = FALSE /\ Stamp(hdr, b.mod, FALSE).mod = b.mod
      BY DEF Stamp
    <3>3. Abstract!NextStakeModifier(chain).gen = FALSE
          /\ Abstract!NextStakeModifier(chain).mod = b.mod
      BY <1>0, <2>3, <2>4, <2>5, NextModifierKeep
    <3>4. ModifierKeptAsSpecified'
      BY <1>0, <3>1, <3>2, <3>3, AppendKept DEF Finish, KeepInv
    <3>. QED
      BY <3>1, <3>4 DEF Finish, KeepInv
  <2>6. CASE ~(Epoch(b.time) >= Epoch(Prev.time))
    <3>2. Epoch(b.time) < Epoch(Prev.time)
      BY <2>6, <2>7
    <3>1. chain' = chain /\ pc' = "collect"
      BY <1>4, <2>2, <2>6, <3>2 DEF LastFound, b
    <3>. QED
      BY <1>0, <2>1, <2>3, <3>1, <3>2 DEF KeepInv, ModifierKeptAsSpecified, Prev
  <2>. QED
    BY <2>5, <2>6
<1>5. CASE RoundsDone
  <2>1. pc = "round" /\ Finish(eng.newMod, TRUE)
    BY <1>5 DEF RoundsDone
  <2>2. PICK k \in 1..Len(chain) : LastGen(chain, k) /\ Epoch(chain[k].time) < Epoch(Prev.time)
    BY <1>0, <2>1 DEF KeepInv
  <2>3. chain # <<>> /\ Prev = chain[Len(chain)]
    BY <1>0, <2>2 DEF Prev
  <2>4. Abstract!NextStakeModifier(chain).gen = TRUE
    <3>1. Epoch(chain[k].time) \in Int /\ Epoch(chain[Len(chain)].time) \in Int
      BY <1>0, <2>2, BlockEpoch
    <3>2. ~(Epoch(chain[k].time) >= Epoch(chain[Len(chain)].time))
      BY <2>2, <2>3, <3>1
    <3>. QED
      BY <1>0, <2>2, <2>3, <3>2, NextModifierKeep
  <2>5. Stamp(hdr, eng.newMod, TRUE).gen = TRUE
    BY DEF Stamp
  <2>6. ModifierKeptAsSpecified'
    BY <1>0, <2>1, <2>4, <2>5, AppendKept DEF Finish, KeepInv
  <2>. QED
    BY <2>1, <2>6 DEF Finish, KeepInv
<1>6. CASE CollectStep \/ CollectDone \/ RoundStart
  <2>1. chain' = chain /\ pc \in {"collect", "round"} /\ pc' \in {"collect", "round", "scan"}
    BY <1>6 DEF CollectStep, CollectDone, RoundStart
  <2>. QED
    BY <1>0, <2>1, SelectionStepKeeps
<1>7. CASE ScanSkip \/ ScanTake \/ ScanKeep \/ SelectDone
  <2>1. chain' = chain /\ pc = "scan" /\ pc' \in {"scan", "round", "fail"}
    BY <1>7 DEF ScanSkip, ScanTake, ScanKeep, SelectDone
  <2>. QED
    BY <1>0, <2>1, SelectionStepKeeps
<1>8. CASE Halt \/ UNCHANGED vars
  <2>1. chain' = chain /\ pc' = pc /\ eng' = eng
    BY <1>8 DEF Halt, vars
  <2>. QED
    BY <1>0, <2>1 DEF KeepInv, ModifierKeptAsSpecified, Prev
<1>. QED
  BY <1>1, <1>2, <1>3, <1>4, <1>5, <1>6, <1>7, <1>8 DEF Next

(***************************************************************************)
(* Every block connected carries the generation flag that spec 4.2 assigns *)
(* to its parent chain, and a block that does not generate carries the     *)
(* last generated modifier (GetLastStakeModifier and lines 143-144 of      *)
(* ComputeNextStakeModifier), for every choice of the parameters.          *)
(***************************************************************************)
THEOREM ModifierKeptCorrect == Spec => []ModifierKeptAsSpecified
<1>1. KInv => ModifierKeptAsSpecified
  BY DEF KInv, KeepInv
<1>. QED
  BY InitKInv, NextKInv, <1>1, PTL DEF Spec

=============================================================================
