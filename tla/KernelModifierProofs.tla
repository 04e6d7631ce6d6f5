------------------------- MODULE KernelModifierProofs -------------------------
(***************************************************************************)
(* Proofs about GetKernelStakeModifier, for every value of the constants:  *)
(* the walk returns the answer of spec 4.3.2 that KernelLookupSpec        *)
(* states.                                                                 *)
(***************************************************************************)
EXTENDS KernelModifier, SequenceTheorems, TLAPS

\* The blocks of the active chain, as a set.
ChainElems == {chain[i] : i \in DOMAIN chain}

(***************************************************************************)
(* What the proofs need of the chain: a sequence whose blocks have natural *)
(* times and Boolean generation flags.  (That the modifiers themselves are *)
(* well formed rests on the CHOOSE of LastGenerated and is left to TLC.)   *)
(***************************************************************************)
ChainOK ==
  /\ chain \in Seq(ChainElems)
  /\ \A k \in 1..Len(chain) : chain[k].time \in Nat /\ chain[k].gen \in BOOLEAN

\* The late generations of the lookup in progress.
Late == Lookup!LateGenerations(chain, kfrom)

(***************************************************************************)
(* The loop invariant of the while loop of lines 201-219: the walk has     *)
(* passed no late generation, and the loop condition holds exactly when    *)
(* the node it stands on is not one.                                       *)
(***************************************************************************)
WalkInv ==
  /\ kwalk \in kfrom..Len(chain)
  /\ Continue <=> kwalk \notin Late
  /\ \A k \in (kfrom + 1)..(kwalk - 1) : k \notin Late

IInv ==
  /\ ChainOK
  /\ kpc \in {"idle", "walk", "done"}
  /\ kpc # "idle" => kfrom \in 1..Len(chain)
  /\ kpc = "walk" => WalkInv
  /\ LookupMatchesSpec
-----------------------------------------------------------------------------
\* The abstract lookup reads the same parameters.
LEMMA LookupParams ==
  /\ Lookup!SelectionInterval = SelectionInterval
  /\ Lookup!ZeroModifier = ZeroModifier
BY DEF Lookup!SelectionInterval, SelectionInterval, Lookup!SectionSum, SectionSum,
       Lookup!Section, Section, Lookup!ZeroModifier, ZeroModifier

\* NextStakeModifier always decides the generation flag.
LEMMA NextStakeModifierGen ==
  ASSUME NEW c
  PROVE  Lookup!Chain!NextStakeModifier(c).gen \in BOOLEAN
BY DEF Lookup!Chain!NextStakeModifier

\* FirstOf picks the least element, when there is one.
LEMMA FirstOfLeast ==
  ASSUME NEW S \in SUBSET Int, NEW m \in S, \A j \in S : m <= j
  PROVE  Lookup!FirstOf(S) = m
<1>1. \E k \in S : \A j \in S : k <= j
  OBVIOUS
<1>. DEFINE k == Lookup!FirstOf(S)
<1>2. k \in S /\ \A j \in S : k <= j
  BY <1>1 DEF Lookup!FirstOf
<1>3. k \in Int /\ k <= m /\ m <= k
  BY <1>2
<1>. QED
  BY <1>3

\* The times a new block can have are natural numbers.
LEMMA NextTimesNat ==
  ASSUME ChainOK
  PROVE  NextTimes(chain) \subseteq Nat
<1>1. CASE chain = <<>>
  BY <1>1, ChainAssumption DEF NextTimes
<1>2. CASE chain # <<>>
  <2>1. Len(chain) \in 1..Len(chain)
    BY <1>2, EmptySeq DEF ChainOK
  <2>2. chain[Len(chain)].time \in Nat
    BY <2>1 DEF ChainOK
  <2>. QED
    BY <1>2, <2>2, ChainAssumption DEF NextTimes
<1>. QED
  BY <1>1, <1>2

(***************************************************************************)
(* Block connection appends a block with a natural time and a Boolean      *)
(* generation flag, and keeps the blocks before it.                        *)
(***************************************************************************)
LEMMA ConnectChainOK ==
  ASSUME ChainOK, Lookup!Chain!ConnectBlock
  PROVE  ChainOK'
<1>. DEFINE nm == Lookup!Chain!NextStakeModifier(chain)
<1>0. /\ Lookup!Chain!NextHeaders(chain) = NextHeaders(chain)
      /\ \A h, m, g : Lookup!Chain!Stamp(h, m, g) = Stamp(h, m, g)
  BY DEF Lookup!Chain!NextHeaders, NextHeaders, Lookup!Chain!NextTimes, NextTimes,
         Lookup!Chain!Stamp, Stamp
<1>1. PICK hd \in NextHeaders(chain) : chain' = Append(chain, Stamp(hd, nm.mod, nm.gen))
  BY <1>0 DEF Lookup!Chain!ConnectBlock
<1>. DEFINE e == Stamp(hd, nm.mod, nm.gen)
            S == ChainElems \cup {e}
<1>2. e.time \in Nat /\ e.gen \in BOOLEAN
  <2>1. hd.time \in NextTimes(chain)
    BY DEF NextHeaders
  <2>2. e.time = hd.time /\ e.gen = nm.gen
    BY DEF Stamp
  <2>. QED
    BY <2>1, <2>2, NextTimesNat, NextStakeModifierGen
<1>3. chain \in Seq(S)
  BY SeqMonotonic DEF ChainOK
<1>4. /\ chain' \in Seq(S)
      /\ Len(chain') = Len(chain) + 1
      /\ \A i \in 1..Len(chain) : chain'[i] = chain[i]
      /\ chain'[Len(chain) + 1] = e
  BY <1>1, <1>3, AppendProperties
<1>5. Len(chain) \in Nat /\ DOMAIN chain = 1..Len(chain)
  BY LenProperties DEF ChainOK
<1>6. DOMAIN chain' = 1..(Len(chain) + 1)
  BY <1>4, LenProperties
<1>7. ChainElems' = S
  BY <1>4, <1>5, <1>6 DEF ChainElems
<1>8. \A k \in 1..Len(chain') : chain'[k].time \in Nat /\ chain'[k].gen \in BOOLEAN
  BY <1>2, <1>4, <1>5 DEF ChainOK
<1>. QED
  BY <1>4, <1>7, <1>8 DEF ChainOK

\* The lookup starts from an inductive state.
THEOREM InitIInv == Init => IInv
<1> SUFFICES ASSUME Init PROVE IInv
  OBVIOUS
<1>1. chain = <<>>
  BY DEF Init, Lookup!Chain!Init
<1>2. ChainOK
  BY <1>1, EmptySeq DEF ChainOK
<1>. QED
  BY <1>2 DEF Init, IInv, LookupMatchesSpec
(***************************************************************************)
(* Every step keeps the invariant.  Block connection and a call leave no   *)
(* answer to check; a loop iteration keeps the loop invariant; the two     *)
(* returns give the answer of spec 4.3.2 because the walk has passed no    *)
(* late generation.                                                        *)
(***************************************************************************)
THEOREM NextIInv == IInv /\ [Next]_vars => IInv'
<1> SUFFICES ASSUME IInv, [Next]_vars PROVE IInv'
  OBVIOUS
<1>0. /\ ChainOK /\ Len(chain) \in Nat /\ DOMAIN chain = 1..Len(chain)
      /\ SelectionInterval \in Nat
  BY LenProperties, SelectionIntervalAssumption DEF IInv, ChainOK
<1>1. CASE Connect
  <2>1. ChainOK'
    BY <1>0, <1>1, ConnectChainOK DEF Connect
  <2>2. kpc' = "idle"
    BY <1>1 DEF Connect
  <2>. QED
    BY <2>1, <2>2 DEF IInv, LookupMatchesSpec
<1>2. CASE Start
  <2>1. PICK f \in 1..Len(chain) : kfrom' = f /\ kwalk' = f /\ kmodTime' = chain[f].time
    BY <1>2 DEF Start
  <2>2. chain' = chain /\ kpc' = "walk"
    BY <1>2 DEF Start
  <2>3. ChainOK'
    BY <1>0, <2>2 DEF ChainOK, ChainElems
  <2>4. chain[f].time \in Nat
    BY <1>0 DEF ChainOK
  <2>5. Continue'
    BY <1>0, <2>1, <2>2, <2>4, SelectionIntervalAssumption DEF Continue, Bound
  <2>6. kwalk' \notin Late'
    BY <2>1, <2>2 DEF Late, Lookup!LateGenerations
  <2>7. \A k \in (kfrom' + 1)..(kwalk' - 1) : k \notin Late'
    BY <2>1
  <2>8. WalkInv'
    BY <2>1, <2>2, <2>5, <2>6, <2>7 DEF WalkInv
  <2>. QED
    BY <2>1, <2>2, <2>3, <2>8 DEF IInv, LookupMatchesSpec
<1>3. CASE Step
  <2>1. /\ kpc = "walk" /\ Continue /\ kwalk < Len(chain) /\ kwalk' = kwalk + 1
        /\ chain' = chain /\ kfrom' = kfrom /\ kpc' = kpc
        /\ kmodTime' = IF chain[kwalk + 1].gen THEN chain[kwalk + 1].time ELSE kmodTime
    BY <1>3 DEF Step
  <2>2. WalkInv /\ kfrom \in 1..Len(chain)
    BY <2>1 DEF IInv
  <2>3. Late' = Late /\ Bound' = Bound /\ ChainOK'
    BY <1>0, <2>1 DEF Late, Bound, ChainOK, ChainElems
  <2>4. kwalk \notin Late
    BY <2>1, <2>2 DEF WalkInv
  <2>5. /\ kwalk \in kfrom..Len(chain)
        /\ kwalk + 1 \in (kfrom + 1)..Len(chain)
        /\ chain[kwalk + 1].time \in Nat /\ chain[kwalk + 1].gen \in BOOLEAN
        /\ chain[kfrom].time \in Nat
    BY <1>0, <2>1, <2>2 DEF WalkInv, ChainOK
  <2>6. Bound \in Nat
    BY <1>0, <2>5 DEF Bound
  <2>7. Continue' <=> kwalk' \notin Late'
    <3>1. CASE chain[kwalk + 1].gen
      <4>1. kmodTime' = chain[kwalk + 1].time
        BY <2>1, <3>1
      <4>2. (kwalk + 1 \in Late) <=> chain[kwalk + 1].time >= Bound
        <5>1. kwalk + 1 \in Late <=> (chain[kwalk + 1].gen /\ chain[kwalk + 1].time >= Bound)
          BY <2>5, LookupParams DEF Late, Lookup!LateGenerations, Bound
        <5>. QED
          BY <5>1, <3>1, Zenon
      <4>. QED
        BY <2>1, <2>3, <2>5, <2>6, <4>1, <4>2 DEF Continue
    <3>2. CASE ~chain[kwalk + 1].gen
      <4>1. kmodTime' = kmodTime
        BY <2>1, <3>2
      <4>2. kwalk + 1 \notin Late
        BY <3>2 DEF Late, Lookup!LateGenerations
      <4>. QED
        BY <2>1, <2>3, <4>1, <4>2 DEF Continue
    <3>. QED
      BY <3>1, <3>2
  <2>8. \A k \in (kfrom' + 1)..(kwalk' - 1) : k \notin Late'
    BY <2>1, <2>2, <2>3, <2>4, <2>5 DEF WalkInv
  <2>9. kwalk' \in kfrom'..Len(chain')
    BY <2>1, <2>2, <2>5
  <2>10. WalkInv'
    BY <2>7, <2>8, <2>9, Zenon DEF WalkInv
  <2>. QED
    BY <2>1, <2>2, <2>3, <2>10 DEF IInv, LookupMatchesSpec
<1>4. CASE ReachedBest
  <2>1. /\ kpc = "walk" /\ Continue /\ kwalk = Len(chain)
        /\ kresult'.ok = FALSE /\ kresult'.mod = ZeroModifier /\ kpc' = "done"
        /\ chain' = chain /\ kfrom' = kfrom
    BY <1>4 DEF ReachedBest
  <2>2. WalkInv /\ kfrom \in 1..Len(chain)
    BY <2>1 DEF IInv
  <2>3. Late = {}
    <3>1. Late \subseteq (kfrom + 1)..Len(chain)
      BY DEF Late, Lookup!LateGenerations
    <3>2. kwalk \notin Late /\ \A k \in (kfrom + 1)..(kwalk - 1) : k \notin Late
      BY <2>1, <2>2 DEF WalkInv
    <3>. QED
      BY <1>0, <2>1, <2>2, <3>1, <3>2
  <2>4. Lookup!Answer(chain, kfrom) = [ok |-> FALSE, mod |-> ZeroModifier]
    BY <2>3, LookupParams, Zenon DEF Lookup!Answer, Late
  <2>5. ChainOK'
    BY <1>0, <2>1 DEF ChainOK, ChainElems
  <2>. QED
    BY <2>1, <2>2, <2>4, <2>5 DEF IInv, LookupMatchesSpec
<1>5. CASE Found
  <2>1. /\ kpc = "walk" /\ ~Continue /\ kpc' = "done"
        /\ kresult' = [ok |-> TRUE, mod |-> chain[kwalk].mod, reported |-> FALSE]
        /\ chain' = chain /\ kfrom' = kfrom
    BY <1>5 DEF Found
  <2>2. WalkInv /\ kfrom \in 1..Len(chain)
    BY <2>1 DEF IInv
  <2>3. /\ kwalk \in Late
        /\ \A k \in (kfrom + 1)..(kwalk - 1) : k \notin Late
        /\ kwalk \in kfrom..Len(chain)
    BY <2>1, <2>2 DEF WalkInv
  <2>4. Late \subseteq (kfrom + 1)..Len(chain)
    BY DEF Late, Lookup!LateGenerations
  <2>5. \A j \in Late : kwalk <= j
    BY <1>0, <2>2, <2>3, <2>4
  <2>6. Lookup!FirstOf(Late) = kwalk
    BY <1>0, <2>3, <2>4, <2>5, FirstOfLeast
  <2>7. Lookup!Answer(chain, kfrom) = [ok |-> TRUE, mod |-> chain[kwalk].mod]
    BY <2>3, <2>6 DEF Lookup!Answer, Late
  <2>8. ChainOK'
    BY <1>0, <2>1 DEF ChainOK, ChainElems
  <2>. QED
    BY <2>1, <2>2, <2>7, <2>8 DEF IInv, LookupMatchesSpec
<1>6. CASE UNCHANGED vars
  BY <1>6 DEF vars, kvars, IInv, ChainOK, ChainElems, WalkInv, Late, Continue,
     Bound, LookupMatchesSpec
<1>. QED
  BY <1>1, <1>2, <1>3, <1>4, <1>5, <1>6 DEF Next
(***************************************************************************)
(* GetKernelStakeModifier returns, for every chain the modifier contract   *)
(* can build and every staked block of it, the modifier of the first late  *)
(* generation after it, and fails exactly when there is none (spec 4.3.2). *)
(***************************************************************************)
THEOREM LookupCorrect == Spec => []LookupMatchesSpec
<1>1. IInv => LookupMatchesSpec
  BY DEF IInv
<1>. QED
  BY InitIInv, NextIInv, <1>1, PTL DEF Spec
=============================================================================
