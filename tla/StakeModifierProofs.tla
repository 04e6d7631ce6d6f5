------------------------- MODULE StakeModifierProofs -------------------------
(***************************************************************************)
(* Proofs about the step-by-step model of ComputeNextStakeModifier.        *)
(***************************************************************************)
EXTENDS StakeModifier, FiniteSetTheorems, SequenceTheorems, TLAPS

\* The numeric parameters, used throughout.
LEMMA NumericParams ==
  /\ MaxBlocks \in Nat \ {0}
  /\ ModifierInterval \in Nat \ {0}
  /\ ModifierIntervalRatio \in Nat \ {0}
  /\ Rounds \in Nat /\ Rounds >= 2
BY ParamsAssumption, ChainAssumption

USE NumericParams

(***************************************************************************)
(* The inductive strengthening of TypeOK: a computation in progress works *)
(* on a chain below the bound, for a header that can extend it; the       *)
(* walks point into the chain; the candidates are chain positions; a      *)
(* scan runs in a round below min(Rounds, candidates), its cursor is a     *)
(* candidate, and so is the best block once one is selected.               *)
(***************************************************************************)
IInv ==
  /\ TypeOK
  /\ pc # "idle" => /\ Len(chain) \in 1..(MaxBlocks - 1)
                    /\ hdr \in NextHeaders(chain)
  /\ pc = "last" => eng.walk \in 1..Len(chain)
  /\ pc = "collect" => eng.walk \in 0..Len(chain)
  /\ pc \in {"collect", "round", "scan"} => eng.cands \subseteq 1..Len(chain)
  /\ pc = "scan" => /\ eng.round < MinOf(Rounds, Cardinality(eng.cands))
                    /\ eng.cursor \in {0} \cup eng.cands
                    /\ eng.fSel => eng.best \in eng.cands

\* The fields a header that can extend the chain has.
HeaderFields == [time : Nat, hash : Nat, proof : Proofs \cup AllHashes, pos : BOOLEAN]

LEMMA NextHeadersType ==
  ASSUME NEW c \in Seq(Blocks), Len(c) < MaxBlocks
  PROVE  NextHeaders(c) \subseteq HeaderFields
<1>1. Len(c) \in Heights
  BY LenProperties, ChainAssumption DEF Heights
<1>2. BlockHashChoices(Len(c)) \subseteq Nat /\ BlockHashChoices(Len(c)) \subseteq AllHashes
  BY <1>1, ChainAssumption DEF AllHashes
<1>3. NextTimes(c) \subseteq Nat
  <2>1. CASE c = <<>>
    BY <2>1, ChainAssumption DEF NextTimes
  <2>2. CASE c # <<>>
    <3>1. Len(c) \in 1..Len(c)
      BY <2>2, EmptySeq, LenProperties
    <3>2. c[Len(c)] \in Blocks
      BY <3>1, LenProperties
    <3>3. c[Len(c)].time \in Nat
      BY <3>2 DEF Blocks
    <3>4. QED
      BY <2>2, <3>3, ChainAssumption DEF NextTimes
  <2>3. QED
    BY <2>1, <2>2
<1>4. QED
  BY <1>2, <1>3 DEF NextHeaders, HeaderFields

LEMMA StampType ==
  ASSUME NEW h \in HeaderFields, NEW m \in Modifiers, NEW g \in BOOLEAN
  PROVE  Stamp(h, m, g) \in Blocks
BY DEF Stamp, HeaderFields, Blocks

\* A finite set of chain positions, and the round bound computed from it.
LEMMA CandidatesFinite ==
  ASSUME NEW S \in SUBSET (1..MaxBlocks)
  PROVE  /\ Cardinality(S) \in Nat
         /\ MinOf(Rounds, Cardinality(S)) <= Rounds
<1>0. IsFiniteSet(1..MaxBlocks)
  BY ChainAssumption, FS_Interval
<1>1. IsFiniteSet(S)
  BY <1>0, FS_Subset
<1>2. Cardinality(S) \in Nat
  BY <1>1, FS_CardinalityType
<1>3. QED
  BY <1>2, ParamsAssumption DEF MinOf

\* A section of a round the loop can be in is an integer.
LEMMA SectionType ==
  ASSUME NEW n \in 0..(Rounds - 1)
  PROVE  Section(n) \in Int
<1>1. (Rounds - 1) + (Rounds - 1 - n) * (ModifierIntervalRatio - 1) \in Nat \ {0}
  BY ParamsAssumption
<1>2. QED
  BY <1>1, ParamsAssumption DEF Section

LEMMA SelectionHashType ==
  ASSUME NEW b \in Blocks, NEW m \in Modifiers
  PROVE  SelectionHash(b, m) \in Nat
<1>1. SelHash(b.proof, m) \in 0..(HashRange - 1)
  BY ChainAssumption DEF Blocks
<1>2. QED
  BY <1>1, ChainAssumption DEF SelectionHash

\* Or-ing a bit into a valid bit position keeps a modifier.
LEMMA OrBitType ==
  ASSUME NEW m \in Modifiers, NEW r \in 0..(Rounds - 1), NEW bit
  PROVE  OrBit(m, r, bit) \in Modifiers
BY DEF OrBit, Modifiers

LEMMA InitFrameType == InitFrame \in Frames
BY ChainAssumption, ParamsAssumption DEF InitFrame, Frames, ZeroModifier, Modifiers

THEOREM InitIInv == Init => IInv
BY InitFrameType, EmptySeq, ChainAssumption
   DEF Init, IInv, TypeOK, NoHeader, Headers, PCs

\* The headers that can extend the chain are headers of the block index.
LEMMA HeaderFieldsHeaders == HeaderFields \subseteq Headers
<1>1. Proofs \cup AllHashes \subseteq Nat
  BY ChainAssumption DEF AllHashes
<1>2. QED
  BY <1>1 DEF HeaderFields, Headers

\* Appending the stamped header of the block being connected.
LEMMA FinishType ==
  ASSUME IInv, pc # "idle", NEW m \in Modifiers, NEW g \in BOOLEAN, Finish(m, g)
  PROVE  IInv'
<1>0. /\ chain \in Seq(Blocks) /\ Len(chain) \in 1..(MaxBlocks - 1)
      /\ hdr \in NextHeaders(chain)
  BY DEF IInv, TypeOK
<1>1. hdr \in HeaderFields
  BY <1>0, NextHeadersType
<1>2. Stamp(hdr, m, g) \in Blocks
  BY <1>1, StampType
<1>3. chain' \in Seq(Blocks) /\ Len(chain') = Len(chain) + 1
  BY <1>0, <1>2, AppendProperties DEF Finish
<1>4. Len(chain') <= MaxBlocks
  BY <1>0, <1>3
<1>5. QED
  BY <1>3, <1>4, InitFrameType DEF Finish, IInv, TypeOK, PCs, NoHeader, Headers

THEOREM NextIInv == IInv /\ [Next]_vars => IInv'
<1> SUFFICES ASSUME IInv, [Next]_vars PROVE IInv'
  OBVIOUS
<1>0. /\ chain \in Seq(Blocks) /\ Len(chain) \in 0..MaxBlocks
      /\ eng \in Frames /\ hdr \in Headers /\ pc \in PCs
  BY LenProperties DEF IInv, TypeOK
<1>1. CASE ConnectGenesis
  <2>1. Len(chain) = 0 /\ Len(chain) < MaxBlocks
    BY <1>1, EmptySeq, ChainAssumption DEF ConnectGenesis
  <2>2. PICK hd \in NextHeaders(chain) :
          chain' = Append(chain, Stamp(hd, ZeroModifier, TRUE))
    BY <1>1 DEF ConnectGenesis
  <2>3. Stamp(hd, ZeroModifier, TRUE) \in Blocks
    BY <2>1, <2>2, <1>0, NextHeadersType, StampType DEF ZeroModifier, Modifiers
  <2> DEFINE g == Stamp(hd, ZeroModifier, TRUE)
  <2>6. Append(chain, g) \in Seq(Blocks) /\ Len(Append(chain, g)) = Len(chain) + 1
    BY <2>3, <1>0, AppendProperties
  <2>8. chain' \in Seq(Blocks) /\ Len(chain') = Len(chain) + 1
    BY <2>2, <2>6, Zenon DEF g
  <2>4. chain' \in Seq(Blocks) /\ Len(chain') <= MaxBlocks
    BY <2>1, <2>8, <1>0
  <2>7. pc = "idle" /\ UNCHANGED <<pc, hdr, eng>>
    BY <1>1 DEF ConnectGenesis
  <2>5. QED
    BY <2>4, <2>7, <1>0 DEF IInv, TypeOK
<1>2. CASE BeginConnect
  <2>1. Len(chain) \in 1..(MaxBlocks - 1)
    BY <1>2, <1>0, EmptySeq DEF BeginConnect
  <2>2. hdr' \in NextHeaders(chain)
    BY <1>2 DEF BeginConnect
  <2>3. hdr' \in Headers
    BY <2>1, <2>2, <1>0, NextHeadersType, HeaderFieldsHeaders
  <2>4. eng' \in Frames
    BY <1>2, <1>0, <2>1 DEF BeginConnect, Frames
  <2>5. QED
    BY <1>2, <2>1, <2>2, <2>3, <2>4 DEF BeginConnect, IInv, TypeOK, PCs
<1>3. CASE LastStep
  <2>1. /\ pc = "last" /\ eng.walk > 1
        /\ eng' = [eng EXCEPT !.walk = @ - 1]
        /\ UNCHANGED <<chain, pc, hdr>>
    BY <1>3 DEF LastStep
  <2>2. eng.walk - 1 \in 1..Len(chain) /\ eng.walk - 1 \in 0..MaxBlocks
    BY <2>1, <1>0 DEF IInv
  <2>3. eng' \in Frames /\ eng'.walk \in 1..Len(chain)
    BY <2>1, <2>2, <1>0 DEF Frames
  <2>4. QED
    BY <2>1, <2>3, <1>0 DEF IInv, TypeOK
<1>4. CASE LastFound
  <2> DEFINE b == chain[eng.walk]
  <2>1. pc = "last" /\ eng.walk \in 1..Len(chain)
    BY <1>4 DEF LastFound, IInv
  <2>2. b \in Blocks /\ Prev \in Blocks
    BY <2>1, <1>0, LenProperties DEF Prev
  <2>3. /\ Len(chain) \in 1..(MaxBlocks - 1)
        /\ hdr \in NextHeaders(chain)
    BY <2>1 DEF IInv
  <2>8. Epoch(b.time) \in Int /\ Epoch(Prev.time) \in Int
    BY <2>2 DEF Epoch, Blocks
  <2>4. CASE ~b.gen
    <3>1. pc' = "fail" /\ UNCHANGED <<chain, hdr, eng>>
      BY <1>4, <2>4 DEF LastFound, b
    <3>2. QED
      BY <3>1, <2>3, <1>0 DEF IInv, TypeOK, PCs
  <2>5. CASE b.gen /\ Epoch(b.time) >= Epoch(Prev.time)
    <3>0. ~(Epoch(b.time) < Epoch(Prev.time))
      BY <2>5, <2>8
    <3>1. Finish(b.mod, FALSE)
      BY <1>4, <2>5, <3>0, Zenon DEF LastFound, b
    <3>2. QED
      BY <3>1, <2>1, <2>2, FinishType DEF Blocks
  <2>6. CASE b.gen /\ Epoch(b.time) < Epoch(Prev.time)
    <3>1. /\ eng' = [eng EXCEPT !.modPrev = b.mod, !.modTime = b.time,
                                !.start = SelectionStart(Prev.time),
                                !.cands = {}, !.walk = Len(chain)]
          /\ pc' = "collect" /\ UNCHANGED <<chain, hdr>>
      <4>0. ~(Epoch(b.time) >= Epoch(Prev.time))
        BY <2>6, <2>8
      <4>1. QED
        BY <1>4, <2>6, <4>0, Zenon DEF LastFound, b
    <3>2. SelectionStart(Prev.time) \in Int
      BY <2>2, SelectionIntervalAssumption DEF SelectionStart, Epoch, Blocks
    <3>3. /\ b.mod \in Modifiers /\ b.time \in Nat
          /\ Len(chain) \in 0..MaxBlocks /\ {} \in SUBSET (1..MaxBlocks)
      BY <2>2, <1>0 DEF Blocks
    <3>6. [eng EXCEPT !.modPrev = b.mod, !.modTime = b.time,
                      !.start = SelectionStart(Prev.time),
                      !.cands = {}, !.walk = Len(chain)] \in Frames
      BY <3>2, <3>3, <1>0 DEF Frames
    <3>4. /\ eng' \in Frames
          /\ eng'.walk \in 0..Len(chain)
          /\ eng'.cands \subseteq 1..Len(chain)
      BY <3>1, <3>6, <1>0
    <3>5. QED
      BY <3>1, <3>4, <2>3, <1>0 DEF IInv, TypeOK, PCs
  <2>7. QED
    BY <2>8, <2>4, <2>5, <2>6
<1>5. CASE CollectStep
  <2>1. /\ pc = "collect" /\ eng.walk >= 1
        /\ eng' = [eng EXCEPT !.cands = @ \cup {eng.walk}, !.walk = @ - 1]
        /\ UNCHANGED <<chain, pc, hdr>>
    BY <1>5 DEF CollectStep
  <2>2. /\ eng.walk \in 1..Len(chain) /\ eng.cands \subseteq 1..Len(chain)
        /\ eng.walk - 1 \in 0..MaxBlocks /\ eng.walk - 1 \in 0..Len(chain)
        /\ eng.cands \cup {eng.walk} \in SUBSET (1..MaxBlocks)
        /\ eng.cands \cup {eng.walk} \subseteq 1..Len(chain)
    BY <2>1, <1>0 DEF IInv
  <2>3. /\ eng' \in Frames
        /\ eng'.walk \in 0..Len(chain)
        /\ eng'.cands \subseteq 1..Len(chain)
    BY <2>1, <2>2, <1>0 DEF Frames
  <2>4. QED
    BY <2>1, <2>3, <1>0 DEF IInv, TypeOK
<1>6. CASE CollectDone
  <2>1. /\ pc = "collect"
        /\ eng' = [eng EXCEPT !.newMod = ZeroModifier, !.stop = eng.start,
                              !.sel = {}, !.round = 0]
        /\ pc' = "round" /\ UNCHANGED <<chain, hdr>>
    BY <1>6 DEF CollectDone
  <2>2. /\ ZeroModifier \in Modifiers /\ eng.start \in Int
        /\ {} \in SUBSET (1..MaxBlocks) /\ 0 \in 0..Rounds
    BY <1>0 DEF Frames, ZeroModifier, Modifiers
  <2>3. eng' \in Frames /\ eng'.cands = eng.cands
    BY <2>1, <2>2, <1>0 DEF Frames
  <2>4. QED
    BY <2>1, <2>3, <1>0 DEF IInv, TypeOK, PCs

<1>7. CASE RoundStart
  <2>1. /\ pc = "round"
        /\ eng.round < MinOf(Rounds, Cardinality(eng.cands))
        /\ eng' = [eng EXCEPT !.stop = @ + Section(eng.round),
                              !.cursor = 0, !.fSel = FALSE, !.best = 0,
                              !.hashBest = 0]
        /\ pc' = "scan" /\ UNCHANGED <<chain, hdr>>
    BY <1>7 DEF RoundStart
  <2>2. eng.cands \in SUBSET (1..MaxBlocks) /\ eng.round \in 0..Rounds
    BY <1>0 DEF Frames
  <2>3. Cardinality(eng.cands) \in Nat /\ MinOf(Rounds, Cardinality(eng.cands)) <= Rounds
    BY <2>2, CandidatesFinite
  <2>4. Section(eng.round) \in Int
    <3>1. eng.round \in 0..(Rounds - 1)
      BY <2>1, <2>2, <2>3 DEF MinOf
    <3>2. QED
      BY <3>1, SectionType
  <2>7. /\ eng.stop + Section(eng.round) \in Int
        /\ 0 \in 0..MaxBlocks /\ 0 \in Nat
    BY <2>4, <1>0 DEF Frames
  <2>5. eng' \in Frames /\ eng'.cands = eng.cands /\ eng'.round = eng.round
        /\ eng'.cursor = 0 /\ ~eng'.fSel
    BY <2>1, <2>7, <1>0 DEF Frames
  <2>6. QED
    BY <2>1, <2>5, <1>0 DEF IInv, TypeOK, PCs
<1>8. CASE RoundsDone
  <2>1. pc = "round" /\ Finish(eng.newMod, TRUE)
    BY <1>8 DEF RoundsDone
  <2>2. QED
    BY <2>1, <1>0, FinishType DEF Frames
<1>9. CASE ScanSkip
  <2>1. PICK i \in eng.cands : eng' = [eng EXCEPT !.cursor = i]
    BY <1>9 DEF ScanSkip
  <2>2. pc = "scan" /\ UNCHANGED <<chain, pc, hdr>>
    BY <1>9 DEF ScanSkip
  <2>3. eng.cands \subseteq 1..Len(chain) /\ i \in 0..MaxBlocks
    BY <2>2, <1>0 DEF IInv
  <2>4. eng' \in Frames /\ eng'.cursor \in eng.cands
        /\ eng'.cands = eng.cands /\ eng'.round = eng.round
        /\ eng'.fSel = eng.fSel /\ eng'.best = eng.best
    BY <2>1, <2>3, <1>0 DEF Frames
  <2>5. QED
    BY <2>2, <2>4, <1>0 DEF IInv, TypeOK
<1>10. CASE ScanTake
  <2>1. PICK i \in eng.cands :
          eng' = [eng EXCEPT !.cursor = i, !.fSel = TRUE, !.best = i,
                    !.hashBest = SelectionHash(chain[i], eng.modPrev)]
    BY <1>10 DEF ScanTake
  <2>2. pc = "scan" /\ UNCHANGED <<chain, pc, hdr>>
    BY <1>10 DEF ScanTake
  <2>3. i \in 1..Len(chain) /\ chain[i] \in Blocks
    BY <2>2, <1>0, LenProperties DEF IInv
  <2>4. SelectionHash(chain[i], eng.modPrev) \in Nat
    BY <2>3, <1>0, SelectionHashType DEF Frames
  <2>7. i \in 0..MaxBlocks
    BY <2>3, <1>0
  <2>5. eng' \in Frames /\ eng'.cursor \in eng.cands /\ eng'.best \in eng.cands
        /\ eng'.cands = eng.cands /\ eng'.round = eng.round
    BY <2>1, <2>7, <2>4, <1>0 DEF Frames
  <2>6. QED
    BY <2>2, <2>5, <1>0 DEF IInv, TypeOK
<1>11. CASE ScanKeep
  <2>1. PICK i \in eng.cands : eng' = [eng EXCEPT !.cursor = i]
    BY <1>11 DEF ScanKeep
  <2>2. pc = "scan" /\ UNCHANGED <<chain, pc, hdr>>
    BY <1>11 DEF ScanKeep
  <2>3. eng.cands \subseteq 1..Len(chain) /\ i \in 0..MaxBlocks
    BY <2>2, <1>0 DEF IInv
  <2>4. eng' \in Frames /\ eng'.cursor \in eng.cands
        /\ eng'.cands = eng.cands /\ eng'.round = eng.round
        /\ eng'.fSel = eng.fSel /\ eng'.best = eng.best
    BY <2>1, <2>3, <1>0 DEF Frames
  <2>5. QED
    BY <2>2, <2>4, <1>0 DEF IInv, TypeOK
<1>12. CASE SelectDone
  <2>1. pc = "scan" /\ UNCHANGED <<chain, hdr>>
    BY <1>12 DEF SelectDone
  <2>2. CASE eng.fSel
    <3>1. /\ eng' = [eng EXCEPT
                      !.newMod = OrBit(@, eng.round, EntropyBit(chain[eng.best])),
                      !.sel = @ \cup {eng.best},
                      !.round = @ + 1]
          /\ pc' = "round"
      BY <1>12, <2>2 DEF SelectDone
    <3>2. eng.cands \in SUBSET (1..MaxBlocks) /\ eng.round \in 0..Rounds
      BY <1>0 DEF Frames
    <3>3. Cardinality(eng.cands) \in Nat /\ MinOf(Rounds, Cardinality(eng.cands)) <= Rounds
      BY <3>2, CandidatesFinite
    <3>4. eng.round \in 0..(Rounds - 1)
      BY <2>1, <3>2, <3>3 DEF IInv, MinOf
    <3>5. eng.best \in 1..Len(chain)
      BY <2>1, <2>2 DEF IInv
    <3>8. /\ OrBit(eng.newMod, eng.round, EntropyBit(chain[eng.best])) \in Modifiers
          /\ eng.sel \cup {eng.best} \in SUBSET (1..MaxBlocks)
          /\ eng.round + 1 \in 0..Rounds
      <4>1. OrBit(eng.newMod, eng.round, EntropyBit(chain[eng.best])) \in Modifiers
        BY <3>4, <1>0, OrBitType DEF Frames
      <4>2. eng.sel \cup {eng.best} \in SUBSET (1..MaxBlocks)
        BY <3>5, <1>0 DEF Frames
      <4>3. eng.round + 1 \in 0..Rounds
        BY <3>4
      <4>4. QED
        BY <4>1, <4>2, <4>3
    <3>6. eng' \in Frames /\ eng'.cands = eng.cands
      BY <3>1, <3>8, <1>0 DEF Frames
    <3>7. QED
      BY <2>1, <3>1, <3>6, <1>0 DEF IInv, TypeOK, PCs
  <2>3. CASE ~eng.fSel
    <3>1. pc' = "fail" /\ UNCHANGED eng
      BY <1>12, <2>3 DEF SelectDone
    <3>2. QED
      BY <2>1, <3>1, <1>0 DEF IInv, TypeOK, PCs
  <2>4. QED
    BY <2>2, <2>3
<1>13. CASE Halt
  BY <1>13 DEF Halt, vars, IInv, TypeOK
<1>14. CASE UNCHANGED vars
  BY <1>14 DEF vars, IInv, TypeOK
<1>15. QED
  BY <1>1, <1>2, <1>3, <1>4, <1>5, <1>6, <1>7, <1>8, <1>9, <1>10, <1>11,
     <1>12, <1>13, <1>14 DEF Next

-----------------------------------------------------------------------------
(***************************************************************************)
(* Why ComputeNextStakeModifier never fails.  The genesis block carries a  *)
(* generated modifier, so GetLastStakeModifier always finds one.  In the   *)
(* rounds, mapSelectedBlocks holds exactly one block per finished round,   *)
(* all of them candidates.  While a scan has selected nothing, every item  *)
(* it has passed is already in mapSelectedBlocks (only `continue' moves   *)
(* the cursor); so if the scan ran out of items, every candidate would be  *)
(* selected, which nRound < size rules out.                                *)
(***************************************************************************)
NoFailInv ==
  /\ pc # "fail"
  /\ Len(chain) >= 1 => chain[1].gen
  /\ pc \in {"round", "scan"} => /\ eng.sel \subseteq eng.cands
                                 /\ Cardinality(eng.sel) = eng.round
  /\ pc = "round" => eng.round <= MinOf(Rounds, Cardinality(eng.cands))
  /\ pc = "scan" /\ eng.fSel => eng.best \notin eng.sel
  /\ pc = "scan" /\ ~eng.fSel /\ eng.cursor # 0 =>
       \A i \in eng.cands : ~Before(chain, eng.cursor, i) => i \in eng.sel

NInv == IInv /\ NoFailInv

(***************************************************************************)
(* Type correctness of ComputeNextStakeModifier as run on block            *)
(* connection: every state of the chain and of the computation's locals    *)
(* has the types the code's declarations give them, for every parameter    *)
(* set that satisfies the assumptions.                                      *)
(***************************************************************************)
THEOREM TypeCorrect == Spec => []TypeOK
<1>1. IInv => TypeOK
  BY DEF IInv
<1>2. QED
  BY InitIInv, NextIInv, <1>1, PTL DEF Spec

\* Appending to the chain leaves its first block in place.
LEMMA AppendFirst ==
  ASSUME NEW c \in Seq(Blocks), NEW e \in Blocks
  PROVE  /\ Len(c) >= 1 => Append(c, e)[1] = c[1]
         /\ Len(c) = 0 => Append(c, e)[1] = e
<1>1. Len(c) \in Nat
  BY LenProperties
<1>2. Len(c) >= 1 => Append(c, e)[1] = c[1]
  BY <1>1, AppendProperties
<1>3. Append(c, e)[Len(c) + 1] = e
  BY AppendProperties
<1>4. QED
  BY <1>1, <1>2, <1>3

\* Before is irreflexive on the blocks of the chain.
LEMMA BeforeIrreflexive ==
  ASSUME NEW c \in Seq(Blocks), NEW i \in 1..Len(c)
  PROVE  ~Before(c, i, i)
<1>1. c[i] \in Blocks
  BY LenProperties
<1>2. QED
  BY <1>1 DEF Before, Blocks

\* Connecting a block keeps the generated flag of the genesis block.
LEMMA FinishKeepsGenesis ==
  ASSUME NInv, pc # "idle", NEW m \in Modifiers, NEW g \in BOOLEAN, Finish(m, g)
  PROVE  chain'[1].gen
<1>1. /\ chain \in Seq(Blocks) /\ Len(chain) >= 1 /\ chain[1].gen
      /\ hdr \in NextHeaders(chain) /\ Len(chain) < MaxBlocks
  BY DEF NInv, IInv, TypeOK, NoFailInv
<1>2. Stamp(hdr, m, g) \in Blocks
  BY <1>1, NextHeadersType, StampType
<1>3. Append(chain, Stamp(hdr, m, g))[1] = chain[1]
  BY <1>1, <1>2, AppendFirst
<1>4. QED
  BY <1>1, <1>3 DEF Finish

THEOREM NextNInv == NInv /\ [Next]_vars => NInv'
<1> SUFFICES ASSUME NInv, [Next]_vars PROVE NInv'
  OBVIOUS
<1>0. /\ IInv /\ NoFailInv /\ IInv'
      /\ chain \in Seq(Blocks) /\ Len(chain) \in 0..MaxBlocks
      /\ eng \in Frames /\ pc \in PCs
  BY NextIInv, LenProperties DEF NInv, IInv, TypeOK
<1> USE DEF NInv
<1>1. CASE ConnectGenesis
  <2>1. PICK hd \in NextHeaders(chain) :
          chain' = Append(chain, Stamp(hd, ZeroModifier, TRUE))
    BY <1>1 DEF ConnectGenesis
  <2>2. Len(chain) = 0 /\ pc = "idle" /\ UNCHANGED <<pc, hdr, eng>>
    BY <1>1, <1>0, EmptySeq DEF ConnectGenesis
  <2>3. Stamp(hd, ZeroModifier, TRUE) \in Blocks
    BY <2>2, <1>0, NextHeadersType, StampType DEF ZeroModifier, Modifiers
  <2>4. Stamp(hd, ZeroModifier, TRUE).gen
    BY DEF Stamp
  <2>5. chain'[1].gen
    BY <2>1, <2>2, <2>3, <2>4, <1>0, AppendFirst
  <2>6. QED
    BY <2>2, <2>5, <1>0 DEF NoFailInv
<1>2. CASE BeginConnect
  BY <1>2, <1>0 DEF BeginConnect, NoFailInv
<1>3. CASE LastStep
  BY <1>3, <1>0 DEF LastStep, NoFailInv
<1>4. CASE LastFound
  <2> DEFINE b == chain[eng.walk]
  <2>1. pc = "last" /\ eng.walk \in 1..Len(chain) /\ (eng.walk = 1 \/ b.gen)
    BY <1>4, <1>0 DEF LastFound, IInv
  <2>2. b.gen
    BY <2>1, <1>0 DEF NoFailInv
  <2>3. b \in Blocks /\ Prev \in Blocks
    BY <2>1, <1>0, LenProperties DEF Prev
  <2>4. Epoch(b.time) \in Int /\ Epoch(Prev.time) \in Int
    BY <2>3 DEF Epoch, Blocks
  <2>5. CASE Epoch(b.time) >= Epoch(Prev.time)
    <3>0. ~(Epoch(b.time) < Epoch(Prev.time))
      BY <2>5, <2>4
    <3>1. Finish(b.mod, FALSE)
      BY <1>4, <2>2, <2>5, <3>0, Zenon DEF LastFound, b
    <3>2. chain'[1].gen /\ pc' = "idle"
      BY <3>1, <2>1, <2>3, FinishKeepsGenesis DEF Blocks, Finish
    <3>3. QED
      BY <3>2, <1>0 DEF NoFailInv
  <2>6. CASE Epoch(b.time) < Epoch(Prev.time)
    <3>0. ~(Epoch(b.time) >= Epoch(Prev.time))
      BY <2>6, <2>4
    <3>1. pc' = "collect" /\ UNCHANGED chain
      BY <1>4, <2>2, <2>6, <3>0, Zenon DEF LastFound, b
    <3>2. QED
      BY <3>1, <1>0 DEF NoFailInv
  <2>7. QED
    BY <2>4, <2>5, <2>6
<1>5. CASE CollectStep
  BY <1>5, <1>0 DEF CollectStep, NoFailInv
<1>6. CASE CollectDone
  <2>1. /\ pc' = "round" /\ UNCHANGED chain
        /\ eng'.sel = {} /\ eng'.round = 0 /\ eng'.cands = eng.cands
    BY <1>6, <1>0 DEF CollectDone, Frames
  <2>2. eng.cands \in SUBSET (1..MaxBlocks)
    BY <1>0 DEF Frames
  <2>3. 0 <= MinOf(Rounds, Cardinality(eng.cands))
    BY <2>2, CandidatesFinite DEF MinOf
  <2>4. QED
    BY <2>1, <2>3, <1>0, FS_EmptySet DEF NoFailInv
<1>7. CASE RoundStart
  <2>1. /\ pc = "round" /\ pc' = "scan" /\ UNCHANGED chain
        /\ eng'.sel = eng.sel /\ eng'.round = eng.round /\ eng'.cands = eng.cands
        /\ eng'.cursor = 0 /\ eng'.fSel = FALSE
    BY <1>7, <1>0 DEF RoundStart, Frames
  <2>2. QED
    BY <2>1, <1>0 DEF NoFailInv
<1>8. CASE RoundsDone
  <2>1. pc = "round" /\ Finish(eng.newMod, TRUE)
    BY <1>8 DEF RoundsDone
  <2>2. chain'[1].gen /\ pc' = "idle"
    BY <2>1, <1>0, FinishKeepsGenesis DEF Frames, Finish
  <2>3. QED
    BY <2>2, <1>0 DEF NoFailInv
<1>9. CASE ScanSkip
  <2>1. PICK i \in eng.cands :
          /\ IsNextItem(i) /\ i \in eng.sel
          /\ eng' = [eng EXCEPT !.cursor = i]
    BY <1>9 DEF ScanSkip
  <2>2. pc = "scan" /\ UNCHANGED <<chain, pc, hdr>>
    BY <1>9 DEF ScanSkip
  <2>3. /\ eng'.cursor = i /\ eng'.sel = eng.sel /\ eng'.cands = eng.cands
        /\ eng'.fSel = eng.fSel /\ eng'.best = eng.best /\ eng'.round = eng.round
    BY <2>1, <1>0 DEF Frames
  <2>4. ASSUME ~eng.fSel, NEW j \in eng.cands, ~Before(chain, i, j)
        PROVE  j \in eng.sel
    <3>1. CASE j = i
      BY <2>1, <3>1
    <3>2. CASE j # i /\ Unvisited(j)
      BY <2>1, <2>4, <3>2 DEF IsNextItem
    <3>3. CASE j # i /\ ~Unvisited(j)
      <4>1. eng.cursor # 0 /\ ~Before(chain, eng.cursor, j)
        BY <3>3 DEF Unvisited
      <4>2. QED
        BY <4>1, <2>2, <2>4, <1>0 DEF NoFailInv
    <3>4. QED
      BY <3>1, <3>2, <3>3
  <2>5. QED
    BY <2>2, <2>3, <2>4, <1>0 DEF NoFailInv
<1>10. CASE ScanTake
  <2>1. PICK i \in eng.cands :
          /\ i \notin eng.sel
          /\ eng' = [eng EXCEPT !.cursor = i, !.fSel = TRUE, !.best = i,
                       !.hashBest = SelectionHash(chain[i], eng.modPrev)]
    BY <1>10 DEF ScanTake
  <2>2. pc = "scan" /\ UNCHANGED <<chain, pc, hdr>>
    BY <1>10 DEF ScanTake
  <2>3. /\ eng'.best = i /\ eng'.fSel = TRUE /\ eng'.sel = eng.sel
        /\ eng'.cands = eng.cands /\ eng'.round = eng.round
    BY <2>1, <1>0 DEF Frames
  <2>4. QED
    BY <2>1, <2>2, <2>3, <1>0 DEF NoFailInv
<1>11. CASE ScanKeep
  <2>1. PICK i \in eng.cands : eng' = [eng EXCEPT !.cursor = i]
    BY <1>11 DEF ScanKeep
  <2>2. pc = "scan" /\ eng.fSel /\ UNCHANGED <<chain, pc, hdr>>
    BY <1>11 DEF ScanKeep
  <2>3. /\ eng'.sel = eng.sel /\ eng'.cands = eng.cands /\ eng'.fSel = eng.fSel
        /\ eng'.best = eng.best /\ eng'.round = eng.round
    BY <2>1, <1>0 DEF Frames
  <2>4. QED
    BY <2>2, <2>3, <1>0 DEF NoFailInv
<1>12. CASE SelectDone
  <2>1. pc = "scan" /\ ScanEnded /\ UNCHANGED chain
    BY <1>12 DEF SelectDone
  <2>2. /\ eng.cands \in SUBSET (1..MaxBlocks) /\ eng.sel \in SUBSET (1..MaxBlocks)
        /\ eng.round \in 0..Rounds
    BY <1>0 DEF Frames
  <2>3. /\ Cardinality(eng.cands) \in Nat
        /\ MinOf(Rounds, Cardinality(eng.cands)) <= Cardinality(eng.cands)
        /\ eng.round < MinOf(Rounds, Cardinality(eng.cands))
    BY <2>1, <2>2, CandidatesFinite, <1>0 DEF MinOf, IInv
  <2>4. /\ eng.sel \subseteq eng.cands /\ Cardinality(eng.sel) = eng.round
    BY <2>1, <1>0 DEF NoFailInv
  <2>5. CASE eng.fSel
    <3>1. /\ pc' = "round"
          /\ eng'.sel = eng.sel \cup {eng.best} /\ eng'.round = eng.round + 1
          /\ eng'.cands = eng.cands
      BY <1>12, <2>5, <1>0 DEF SelectDone, Frames
    <3>2. eng.best \in eng.cands /\ eng.best \notin eng.sel
      BY <2>1, <2>5, <1>0 DEF IInv, NoFailInv
    <3>3. IsFiniteSet(eng.sel)
      <4>1. IsFiniteSet(1..MaxBlocks)
        BY FS_Interval
      <4>2. QED
        BY <4>1, <2>2, FS_Subset
    <3>4. Cardinality(eng.sel \cup {eng.best}) = eng.round + 1
      BY <3>2, <3>3, <2>4, FS_AddElement
    <3>5. eng.round + 1 <= MinOf(Rounds, Cardinality(eng.cands))
      BY <2>2, <2>3 DEF MinOf
    <3>6. eng.sel \cup {eng.best} \subseteq eng.cands
      BY <2>4, <3>2
    <3>7. QED
      BY <2>1, <3>1, <3>4, <3>5, <3>6, <1>0 DEF NoFailInv
  <2>6. CASE ~eng.fSel
    <3>1. \A i \in eng.cands : ~Unvisited(i)
      BY <2>1, <2>6 DEF ScanEnded, Breaks
    <3>2. CASE eng.cursor = 0
      <4>1. eng.cands = {}
        BY <3>1, <3>2 DEF Unvisited
      <4>2. Cardinality(eng.cands) = 0
        BY <4>1, FS_EmptySet
      <4>3. FALSE
        BY <4>2, <2>2, <2>3 DEF MinOf
      <4>4. QED
        BY <4>3
    <3>3. CASE eng.cursor # 0
      <4>1. eng.cands \subseteq eng.sel
        BY <3>1, <3>3, <2>1, <2>6, <1>0 DEF Unvisited, NoFailInv
      <4>2. eng.cands = eng.sel
        BY <4>1, <2>4
      <4>3. Cardinality(eng.cands) = eng.round
        BY <4>2, <2>4
      <4>4. FALSE
        BY <4>3, <2>2, <2>3 DEF MinOf
      <4>5. QED
        BY <4>4
    <3>4. QED
      BY <3>2, <3>3
  <2>7. QED
    BY <2>5, <2>6
<1>13. CASE Halt
  BY <1>13, <1>0 DEF Halt, vars, NoFailInv
<1>14. CASE UNCHANGED vars
  BY <1>14, <1>0 DEF vars, NoFailInv
<1>15. QED
  BY <1>1, <1>2, <1>3, <1>4, <1>5, <1>6, <1>7, <1>8, <1>9, <1>10, <1>11,
     <1>12, <1>13, <1>14 DEF Next

THEOREM InitNInv == Init => NInv
<1> SUFFICES ASSUME Init PROVE NInv
  OBVIOUS
<1>1. IInv
  BY InitIInv
<1>2. Len(chain) = 0 /\ pc = "idle"
  BY EmptySeq DEF Init
<1>3. QED
  BY <1>1, <1>2 DEF NInv, NoFailInv

(***************************************************************************)
(* ComputeNextStakeModifier never returns false on a chain grown from      *)
(* genesis by block connection, for every choice of the parameters and of  *)
(* the block headers: GetLastStakeModifier reaches a generated modifier   *)
(* and SelectBlockFromCandidates always finds a block, because the rounds  *)
(* are bounded by min(64, vSortedByTimestamp.size()) and mapSelectedBlocks *)
(* holds one block per round.                                              *)
(***************************************************************************)
THEOREM SelectionNeverFails == Spec => []NeverFails
<1>1. NInv => NeverFails
  BY DEF NInv, NoFailInv, NeverFails
<1>2. QED
  BY InitNInv, NextNInv, <1>1, PTL DEF Spec
=============================================================================
