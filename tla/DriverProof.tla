----------------------------- MODULE DriverProof -----------------------------
(***************************************************************************)
(* What the Linux driver owes a channel and a queue, for every value of    *)
(* the constants: the ring of buffer descriptors (HifRing), the interrupts *)
(* that say when to look at it (HifIrq), the credit of the lossless        *)
(* transmission, without which nothing is put into it (TmuCredit), and the *)
(* time-stamps of what was sent through it (HwTs).                         *)
(***************************************************************************)
EXTENDS HifRing, HifIrq, TmuCredit, HwTs, Integers, FiniteSetTheorems,
        SequenceTheorems, TLAPS

-----------------------------------------------------------------------------
(***************************************************************************)
(* The DMA engine never overtakes the driver round the ring, for a ring of *)
(* any length, when every enqueue is preceded by the space check.          *)
(*                                                                         *)
(* Positions are measured from read_idx: Pos(i) is the number of slots     *)
(* between read_idx and i.  The descriptors from Taken to Given - 1 are    *)
(* enabled; the write-back descriptors from Restored to Pos(hw) - 1 are    *)
(* disabled.                                                               *)
(***************************************************************************)


Pos(i) == Dist(rd, i)

\* End of the enabled descriptors: the slot being enqueued counts once it is
\* enabled.  A fast completion may be dequeued before write_idx moves, so
\* read_idx may even be one ahead of write_idx.
Given == Pos(WrEff)

\* The slot being dequeued is disabled, then restored, before read_idx moves.
Taken == IF deq = "idle" THEN 0 ELSE 1
Restored == IF deq = "advance" THEN 1 ELSE 0

Enabled == \A i \in Slots : bd[i].en <=> (Taken <= Pos(i) /\ Pos(i) < Given)
Written == \A i \in Slots : ~wb[i].en <=> (Restored <= Pos(i) /\ Pos(i) < Pos(hw))

Inv ==
    /\ TypeOK
    /\ mode = "run"
    /\ enq = "enable" => Pos(wr) < N - 1
    /\ Taken <= Pos(hw)
    /\ Pos(hw) <= Given
    /\ Enabled
    /\ Written

-----------------------------------------------------------------------------
\* Arithmetic of the ring.

LEMMA DistType ==
    \A a, b \in Slots : /\ Dist(a, b) \in Slots
                        /\ Inc(a) \in Slots
                        /\ Dec(a) \in Slots
                        /\ Dist(a, a) = 0
BY RingAssumption DEF Dist, Inc, Dec, Slots

\* Distinct slots are at distinct distances.
LEMMA DistInjective ==
    \A a, b, c \in Slots : Dist(a, b) = Dist(a, c) => b = c
BY RingAssumption DEF Dist, Slots

\* The slot after is one further away.
LEMMA DistIncRight ==
    \A a, b \in Slots : Dist(a, b) < N - 1 => Dist(a, Inc(b)) = Dist(a, b) + 1
BY RingAssumption DEF Dist, Inc, Slots

\* Moving the origin brings every other slot one nearer.
LEMMA DistIncLeft ==
    \A a, b \in Slots : Dist(Inc(a), b) = IF a = b THEN N - 1 ELSE Dist(a, b) - 1
BY RingAssumption DEF Dist, Inc, Slots

\* The distance is zero only at the origin.
LEMMA DistZero == \A a, b \in Slots : Dist(a, b) = 0 <=> a = b
BY RingAssumption DEF Dist, Slots

-----------------------------------------------------------------------------
\* An empty ring.
LEMMA InvInit == Init => Inv
<1> SUFFICES ASSUME Init PROVE Inv
  OBVIOUS
<1>1. TypeOK
  BY RingAssumption DEF Init, TypeOK, Slots
<1>2. 0 \in Slots /\ rd = 0 /\ wr = 0 /\ hw = 0 /\ enq = "idle" /\ deq = "idle"
  BY RingAssumption DEF Init, Slots
<1>3. Pos(wr) = 0 /\ Pos(hw) = 0 /\ Given = 0
  BY <1>2, DistType DEF Pos, Given, WrEff
<1>4. Enabled /\ Written
  <2> SUFFICES ASSUME NEW i \in Slots
               PROVE  /\ bd[i].en <=> (Taken <= Pos(i) /\ Pos(i) < Given)
                      /\ ~wb[i].en <=> (Restored <= Pos(i) /\ Pos(i) < Pos(hw))
    BY DEF Enabled, Written
  <2>1. ~bd[i].en /\ wb[i].en
    BY DEF Init
  <2>2. Pos(i) \in Slots
    BY <1>2, DistType DEF Pos
  <2> QED
    BY <2>1, <2>2, <1>3 DEF Slots
<1> QED
  BY <1>1, <1>2, <1>3, <1>4 DEF Inv, Init, Taken

\* What the steps below use of the invariant, as plain arithmetic.
LEMMA Facts ==
    ASSUME Inv
    PROVE  /\ \A i \in Slots : Pos(i) \in 0 .. N - 1
           /\ wr \in Slots /\ rd \in Slots /\ hw \in Slots /\ WrEff \in Slots
           /\ Given \in 0 .. N - 1
           /\ Taken \in 0 .. 1 /\ Restored \in 0 .. Taken
           /\ Pos(rd) = 0
<1>1. wr \in Slots /\ rd \in Slots /\ hw \in Slots /\ WrEff \in Slots
  BY DistType DEF Inv, TypeOK, WrEff
<1>2. \A i \in Slots : Pos(i) \in 0 .. N - 1
  BY <1>1, DistType DEF Pos, Slots
<1>3. Given \in 0 .. N - 1
  BY <1>1, <1>2 DEF Given
<1>4. Taken \in 0 .. 1 /\ Restored \in 0 .. Taken
  BY DEF Inv, TypeOK, Taken, Restored
<1>5. Pos(rd) = 0
  BY <1>1, DistType DEF Pos
<1> QED
  BY <1>1, <1>2, <1>3, <1>4, <1>5

\* Every store of the driver, and the completion of a descriptor, keep the
\* invariant.
LEMMA EnqDataInv ==
    ASSUME Checked, Inv, NEW b \in Bufs, EnqData(b)
    PROVE  Inv'
<1>1. TypeOK'
  BY DEF Inv, TypeOK, EnqData
<1>2. UNCHANGED <<rd, wr, hw, deq>> /\ enq = "idle" /\ enq' = "enable" /\ mode' = "run"
  BY DEF EnqData, Inv
<1>3. Pos(wr) < N - 1
  BY DEF EnqData, CanAccept, FillLevel, Pos
<1>4. \A i \in Slots : bd'[i].en = bd[i].en /\ wb'[i].en = wb[i].en
  BY DEF EnqData, Inv, TypeOK
<1> QED
  BY <1>1, <1>2, <1>3, <1>4
  DEF Inv, Enabled, Written, Pos, Given, WrEff, Taken, Restored

LEMMA EnqEnableInv ==
    ASSUME Inv, NEW l \in BOOLEAN, EnqEnable(l)
    PROVE  Inv'
<1>1. TypeOK'
  BY DEF Inv, TypeOK, EnqEnable
<1>2. UNCHANGED <<rd, wr, hw, deq, wb>> /\ enq = "enable" /\ enq' = "advance" /\ mode' = "run"
  BY DEF EnqEnable, Inv
<1>3. Given = Pos(wr) /\ Given' = Pos(wr) + 1
  BY <1>2, DistIncRight, Facts DEF Given, Pos, WrEff, Inv
<1>4. Enabled'
  <2> SUFFICES ASSUME NEW i \in Slots
               PROVE  bd'[i].en <=> (Taken <= Pos(i) /\ Pos(i) < Given')
    BY <1>2 DEF Enabled, Taken, Pos
  <2>1. CASE i = wr
    <3>1. bd'[i].en
      BY <2>1 DEF EnqEnable, Inv, TypeOK
    <3> QED
      BY <2>1, <3>1, <1>3, Facts DEF Inv
  <2>2. CASE i # wr
    <3>1. bd'[i].en = bd[i].en
      BY <2>2 DEF EnqEnable, Inv, TypeOK
    <3>2. Pos(i) # Pos(wr)
      BY <2>2, DistInjective, Facts DEF Pos
    <3> QED
      BY <3>1, <3>2, <1>3, Facts DEF Inv, Enabled
  <2> QED
    BY <2>1, <2>2
<1>5. Written' /\ Taken' <= Pos(hw)' /\ Pos(hw)' <= Given'
  BY <1>2, <1>3, Facts DEF Inv, Written, Pos, Restored, Taken
<1> QED
  BY <1>1, <1>2, <1>4, <1>5 DEF Inv

LEMMA EnqAdvanceInv ==
    ASSUME Inv, EnqAdvance
    PROVE  Inv'
<1>1. TypeOK'
  BY DistType DEF Inv, TypeOK, EnqAdvance
<1>2. /\ UNCHANGED <<rd, hw, deq, bd, wb>> /\ mode' = "run"
      /\ enq' = "idle" /\ WrEff' = WrEff
  BY DEF EnqAdvance, Inv, WrEff
<1> QED
  BY <1>1, <1>2 DEF Inv, Enabled, Written, Pos, Given, Taken, Restored

LEMMA DeqClearInv ==
    ASSUME Inv, DeqClear
    PROVE  Inv'
<1>1. TypeOK'
  BY DEF Inv, TypeOK, DeqClear
<1>2. /\ UNCHANGED <<rd, hw, wr, enq, wb>> /\ mode' = "run"
      /\ deq = "idle" /\ deq' = "restore"
      /\ Taken = 0 /\ Taken' = 1 /\ Restored = 0 /\ Restored' = 0
  BY DEF DeqClear, Inv, Taken, Restored
<1>3. Pos(hw) >= 1
  BY <1>2, Facts DEF DeqClear, Inv, Written
<1>4. Enabled'
  <2> SUFFICES ASSUME NEW i \in Slots
               PROVE  bd'[i].en <=> (1 <= Pos(i) /\ Pos(i) < Given)
    BY <1>2 DEF Enabled, Pos, Given, WrEff
  <2>1. CASE i = rd
    <3>1. ~bd'[i].en
      BY <2>1 DEF DeqClear, Inv, TypeOK
    <3> QED
      BY <2>1, <3>1, Facts
  <2>2. CASE i # rd
    <3>1. bd'[i].en = bd[i].en
      BY <2>2 DEF DeqClear, Inv, TypeOK
    <3>2. Pos(i) # 0
      BY <2>2, DistZero, Facts DEF Pos
    <3> QED
      BY <3>1, <3>2, <1>2, Facts DEF Inv, Enabled
  <2> QED
    BY <2>1, <2>2
<1>5. Written' /\ Taken' <= Pos(hw)' /\ Pos(hw)' <= Given'
  BY <1>2, <1>3, Facts DEF Inv, Written, Pos, Given, WrEff
<1> QED
  BY <1>1, <1>2, <1>4, <1>5 DEF Inv, Pos

LEMMA DeqRestoreInv ==
    ASSUME Inv, DeqRestore
    PROVE  Inv'
<1>1. TypeOK'
  BY DEF Inv, TypeOK, DeqRestore
<1>2. /\ UNCHANGED <<rd, hw, wr, enq, bd>> /\ mode' = "run"
      /\ Taken = 1 /\ Taken' = 1 /\ Restored = 0 /\ Restored' = 1
  BY DEF DeqRestore, Inv, Taken, Restored
<1>3. Written'
  <2> SUFFICES ASSUME NEW i \in Slots
               PROVE  ~wb'[i].en <=> (1 <= Pos(i) /\ Pos(i) < Pos(hw))
    BY <1>2 DEF Written, Pos
  <2>1. CASE i = rd
    <3>1. wb'[i].en
      BY <2>1 DEF DeqRestore, Inv, TypeOK
    <3> QED
      BY <2>1, <3>1, Facts
  <2>2. CASE i # rd
    <3>1. wb'[i].en = wb[i].en
      BY <2>2 DEF DeqRestore, Inv, TypeOK
    <3>2. Pos(i) # 0
      BY <2>2, DistZero, Facts DEF Pos
    <3> QED
      BY <3>1, <3>2, <1>2, Facts DEF Inv, Written
  <2> QED
    BY <2>1, <2>2
<1> QED
  BY <1>1, <1>2, <1>3, Facts DEF Inv, Enabled, Pos, Given, WrEff

LEMMA DeqAdvanceInv ==
    ASSUME Inv, DeqAdvance
    PROVE  Inv'
<1>1. TypeOK'
  BY DistType DEF Inv, TypeOK, DeqAdvance
<1>2. /\ UNCHANGED <<hw, wr, enq, bd, wb, WrEff>> /\ mode' = "run"
      /\ Taken = 1 /\ Taken' = 0 /\ Restored = 1 /\ Restored' = 0
      /\ rd' = Inc(rd)
  BY DEF DeqAdvance, Inv, Taken, Restored, WrEff
<1>3. \A i \in Slots : Pos(i)' = IF i = rd THEN N - 1 ELSE Pos(i) - 1
  BY <1>2, DistIncLeft, Facts DEF Pos
<1>4. Pos(hw) >= 1 /\ Pos(hw) <= Given
  BY <1>2 DEF Inv
<1>5. Pos(hw)' = Pos(hw) - 1
  BY <1>2, <1>3, <1>4, Facts DEF Pos
<1>6. Given' = Given - 1
  <2>1. WrEff # rd
    BY <1>4, Facts DEF Given
  <2>2. Given' = Pos(WrEff)'
    BY DEF Given
  <2>3. Pos(WrEff)' = Dist(rd', WrEff)
    BY <1>2 DEF Pos
  <2>4. Dist(rd', WrEff) = Dist(rd, WrEff) - 1
    BY <1>2, <2>1, DistIncLeft, Facts
  <2> QED
    BY <2>2, <2>3, <2>4 DEF Given, Pos
<1>7. Enabled'
  <2> SUFFICES ASSUME NEW i \in Slots
               PROVE  bd[i].en <=> (0 <= Pos(i)' /\ Pos(i)' < Given')
    BY <1>2 DEF Enabled
  <2>1. bd[i].en <=> (1 <= Pos(i) /\ Pos(i) < Given)
    BY <1>2 DEF Inv, Enabled
  <2> QED
    BY <2>1, <1>3, <1>4, <1>6, Facts, DistZero, RingAssumption DEF Pos
<1>8. Written'
  <2> SUFFICES ASSUME NEW i \in Slots
               PROVE  ~wb[i].en <=> (0 <= Pos(i)' /\ Pos(i)' < Pos(hw)')
    BY <1>2 DEF Written
  <2>1. ~wb[i].en <=> (1 <= Pos(i) /\ Pos(i) < Pos(hw))
    BY <1>2 DEF Inv, Written
  <2> QED
    BY <2>1, <1>3, <1>4, <1>5, Facts, DistZero, RingAssumption DEF Pos
<1>9. enq' = "enable" => Pos(wr)' < N - 1
  <2> SUFFICES ASSUME enq = "enable" PROVE Pos(wr)' < N - 1
    BY <1>2
  <2>1. WrEff = wr
    BY DEF WrEff
  <2>2. Pos(wr)' = Given'
    BY <1>2, <2>1 DEF Given, Pos
  <2> QED
    BY <2>2, <1>6, Facts, RingAssumption
<1> QED
  BY <1>1, <1>2, <1>4, <1>5, <1>6, <1>7, <1>8, <1>9, Facts DEF Inv

LEMMA HwProcessInv ==
    ASSUME Inv, NEW l \in BOOLEAN, HwProcess(l)
    PROVE  Inv' /\ wb[hw].en
<1>1. TypeOK'
  BY DistType DEF Inv, TypeOK, HwProcess
<1>2. /\ UNCHANGED <<rd, wr, enq, deq, bd>> /\ mode' = "run"
      /\ hw' = Inc(hw)
  BY DEF HwProcess, Inv
<1>3. Taken <= Pos(hw) /\ Pos(hw) < Given
  BY Facts DEF HwProcess, Inv, Enabled
<1>4. Pos(hw)' = Pos(hw) + 1
  BY <1>2, <1>3, DistIncRight, Facts, RingAssumption DEF Pos
<1>5. wb[hw].en
  BY <1>3, Facts DEF Inv, Written
<1>6. Written'
  <2> SUFFICES ASSUME NEW i \in Slots
               PROVE  ~wb'[i].en <=> (Restored <= Pos(i) /\ Pos(i) < Pos(hw) + 1)
    BY <1>2, <1>4 DEF Written, Pos, Restored
  <2>1. CASE i = hw
    <3>1. ~wb'[i].en
      BY <2>1 DEF HwProcess, Inv, TypeOK
    <3> QED
      BY <2>1, <3>1, <1>3, Facts
  <2>2. CASE i # hw
    <3>1. wb'[i].en = wb[i].en
      BY <2>2 DEF HwProcess, Inv, TypeOK
    <3>2. Pos(i) # Pos(hw)
      BY <2>2, DistInjective, Facts DEF Pos
    <3> QED
      BY <3>1, <3>2, Facts DEF Inv, Written
  <2> QED
    BY <2>1, <2>2
<1> QED
  BY <1>1, <1>2, <1>3, <1>4, <1>5, <1>6, Facts
  DEF Inv, Enabled, Pos, Given, WrEff, Taken

\* So does every step.
LEMMA InvStep == Checked /\ Inv /\ [Next]_vars => Inv'
<1> SUFFICES ASSUME Checked, Inv, [Next]_vars PROVE Inv'
  OBVIOUS
<1>1. CASE Enqueue
  BY <1>1, EnqDataInv, EnqEnableInv, EnqAdvanceInv DEF Enqueue
<1>2. CASE Dequeue
  BY <1>2, DeqClearInv, DeqRestoreInv, DeqAdvanceInv DEF Dequeue
<1>3. CASE Dma
  BY <1>3, HwProcessInv DEF Dma
<1>4. CASE UNCHANGED vars
  BY <1>4 DEF vars, Inv, TypeOK, Pos, Given, WrEff, Taken, Restored, Enabled, Written
<1> QED
  BY <1>1, <1>2, <1>3, <1>4 DEF Next

\* In every reachable state of a ring whose users check for space, the
\* enabled and the written-back descriptors are exactly the two arcs between
\* the driver's and the hardware's positions.
THEOREM RingShape == ASSUME Checked PROVE Spec => []Inv
<1>1. Init => Inv
  BY InvInit
<1>2. Inv /\ [Next]_vars => Inv'
  BY InvStep
<1> QED
  BY <1>1, <1>2, PTL DEF Spec

-----------------------------------------------------------------------------
(* The life of a ring: nothing is enqueued, dequeued or completed once the *)
(* channel is stopped.                                                     *)

Life == Next \/ StopDma \/ Drain

\* What is about to be enabled holds a buffer.
Loaded == enq # "idle" => bd[wr].data \in Bufs

LifeInv == TypeOK /\ Loaded /\ IF mode = "run" THEN Inv ELSE enq = "idle" /\ deq = "idle"

\* A drain keeps the types.
LEMMA DrainTypes == TypeOK /\ (StopDma \/ Drain) => TypeOK'
<1> SUFFICES ASSUME TypeOK, StopDma \/ Drain PROVE TypeOK'
  OBVIOUS
<1>1. CASE StopDma \/ DrainEmpty
  BY <1>1 DEF StopDma, DrainEmpty, TypeOK
<1>2. CASE DrainUnprocessed
  <2>1. wr' \in Slots
    BY <1>2, DistType DEF DrainUnprocessed, TypeOK
  <2> QED
    BY <1>2, <2>1 DEF DrainUnprocessed, TypeOK
<1>3. CASE DrainProcessed
  <2>1. rd' \in Slots
    BY <1>3, DistType DEF DrainProcessed, TypeOK
  <2> QED
    BY <1>3, <2>1 DEF DrainProcessed, TypeOK
<1> QED
  BY <1>1, <1>2, <1>3 DEF Drain

\* Only a buffer is ever enabled.
LEMMA LoadedStep == TypeOK /\ Loaded /\ [Next]_vars => Loaded'
<1> SUFFICES ASSUME TypeOK, Loaded, [Next]_vars PROVE Loaded'
  OBVIOUS
<1> USE DEF TypeOK, Loaded
<1>1. ASSUME NEW b \in Bufs, EnqData(b) PROVE Loaded'
  BY <1>1 DEF EnqData
<1>2. ASSUME NEW l \in BOOLEAN, EnqEnable(l) PROVE Loaded'
  BY <1>2 DEF EnqEnable
<1>3. CASE EnqAdvance \/ DeqRestore \/ DeqAdvance \/ Dma \/ UNCHANGED vars
  BY <1>3 DEF EnqAdvance, DeqRestore, DeqAdvance, Dma, HwProcess, vars
<1>4. CASE DeqClear
  BY <1>4 DEF DeqClear
<1> QED
  BY <1>1, <1>2, <1>3, <1>4 DEF Next, Enqueue, Dequeue

\* The invariant of the running ring holds until the channel is stopped.
LEMMA LifeStep == Checked /\ LifeInv /\ [Life]_vars => LifeInv'
<1> SUFFICES ASSUME Checked, LifeInv, [Life]_vars PROVE LifeInv'
  OBVIOUS
<1>1. CASE mode = "run" /\ [Next]_vars
  <2>1. Inv'
    BY <1>1, InvStep DEF LifeInv
  <2> QED
    BY <1>1, <2>1, LoadedStep DEF LifeInv, Inv
<1>2. CASE mode = "run" /\ (StopDma \/ Drain)
  BY <1>2, DrainTypes
  DEF LifeInv, Loaded, StopDma, Drain, DrainUnprocessed, DrainProcessed, DrainEmpty
<1>3. CASE mode # "run" /\ [Next]_vars
  <2>1. UNCHANGED vars
    BY <1>3 DEF LifeInv, Next, Enqueue, Dequeue, Dma, EnqData, EnqEnable, EnqAdvance, DeqClear,
                DeqRestore, DeqAdvance, HwProcess
  <2> QED
    BY <1>3, <2>1 DEF LifeInv, Loaded, TypeOK, vars
<1>4. CASE mode # "run" /\ (StopDma \/ Drain)
  BY <1>4, DrainTypes
  DEF LifeInv, Loaded, StopDma, Drain, DrainUnprocessed, DrainProcessed, DrainEmpty
<1> QED
  BY <1>1, <1>2, <1>3, <1>4 DEF Life

\* What holds until the channel is stopped, and after.
THEOREM LifeShape == ASSUME Checked PROVE LifeSpec => []LifeInv
<1>1. Init => LifeInv
  BY InvInit DEF LifeInv, Loaded, Inv, Init
<1>2. LifeInv /\ [Life]_vars => LifeInv'
  BY LifeStep
<1> QED
  BY <1>1, <1>2, PTL DEF LifeSpec, Life

\* pfe_hif_ring_enqueue_buf_std, pfe_hif_ring_dequeue_buf_std and
\* pfe_hif_ring_drain_buf_std keep every variable in its type.
THEOREM TypeCorrect == ASSUME Checked PROVE LifeSpec => []TypeOK
<1>1. LifeInv => TypeOK
  BY DEF LifeInv
<1> QED
  BY <1>1, LifeShape, PTL

\* The DMA engine never completes a descriptor a second time before the
\* driver has collected it, whatever the length of the ring and the
\* interleaving of the stores, also when the channel is stopped.
THEOREM EngineNeverLaps == ASSUME Checked PROVE LifeSpec => NeverReprocessed
<1>1. LifeInv /\ [Life]_vars => [hw' # hw => wb[hw].en]_vars
  <2> SUFFICES ASSUME LifeInv, Life, hw' # hw PROVE wb[hw].en
    BY DEF vars
  <2>1. Dma
    BY DEF Life, Next, Enqueue, Dequeue, EnqData, EnqEnable, EnqAdvance, DeqClear,
           DeqRestore, DeqAdvance, StopDma, Drain, DrainUnprocessed, DrainProcessed, DrainEmpty
  <2>2. Inv
    BY <2>1 DEF LifeInv, Dma, HwProcess
  <2> QED
    BY <2>1, <2>2, HwProcessInv DEF Dma
<1> QED
  BY <1>1, LifeShape, PTL DEF LifeSpec, Life, NeverReprocessed
-----------------------------------------------------------------------------
(* Arcs of the ring as sequences                                           *)

Values == (Bufs \cup {NoBuf}) \X BOOLEAN
Descriptors == [Slots -> [en : BOOLEAN, lifm : BOOLEAN, data : Bufs \cup {NoBuf}]]

\* What descriptor i of f holds, and what those from a up to b hold
Content(f, i) == <<f[i].data, f[i].lifm>>
Arc(f, a, b) == [k \in 1 .. Dist(a, b) |-> Content(f, Plus(a, k - 1))]

\* Adding to a position and measuring the distance are inverse.
LEMMA PlusDist ==
    \A a \in Slots : \A k \in 0 .. N - 1 : Plus(a, k) \in Slots /\ Dist(a, Plus(a, k)) = k
BY RingAssumption DEF Plus, Dist, Slots

\* And the other way round.
LEMMA PlusOfDist == \A a, b \in Slots : Plus(a, Dist(a, b)) = b
BY RingAssumption DEF Plus, Dist, Slots

LEMMA PlusInc ==
    \A a \in Slots : /\ Plus(a, 0) = a
                     /\ \A k \in 0 .. N - 2 : Plus(Inc(a), k) = Plus(a, k + 1)
BY RingAssumption DEF Plus, Inc, Slots

\* Distances add up.
LEMMA DistSum ==
    \A a, b, c \in Slots : Dist(a, b) <= Dist(a, c) => Dist(b, c) = Dist(a, c) - Dist(a, b)
BY RingAssumption DEF Dist, Slots

\* Short of a full round, what is added to a position is added to its distance.
LEMMA DistPlus ==
    \A a, b \in Slots : \A k \in 0 .. N - 1 :
        Dist(a, b) + k < N => Dist(a, Plus(b, k)) = Dist(a, b) + k
BY RingAssumption DEF Dist, Plus, Slots

\* An arc is a sequence of as many contents as it is long.
LEMMA ArcSeq ==
    ASSUME NEW f \in Descriptors, NEW a \in Slots, NEW b \in Slots
    PROVE  /\ Dist(a, b) \in 0 .. N - 1
           /\ Arc(f, a, b) \in Seq(Values)
           /\ Len(Arc(f, a, b)) = Dist(a, b)
           /\ \A k \in 1 .. Dist(a, b) : Arc(f, a, b)[k] = Content(f, Plus(a, k - 1))
<1>1. Dist(a, b) \in 0 .. N - 1
  BY DistType DEF Slots
<1>2. \A i \in Slots : Content(f, i) \in Values
  BY DEF Content, Values, Descriptors
<1>3. ASSUME NEW k \in 1 .. Dist(a, b) PROVE Content(f, Plus(a, k - 1)) \in Values
  <2>1. k - 1 \in 0 .. N - 1
    BY <1>1, RingAssumption
  <2> QED
    BY <1>2, <2>1, PlusDist
<1> DEFINE n == Dist(a, b)
<1>4. n \in Nat
  BY <1>1, RingAssumption
<1>5. Arc(f, a, b) \in [1 .. n -> Values]
  BY <1>3 DEF Arc
<1>6. \A k \in 1 .. n : Arc(f, a, b)[k] = Content(f, Plus(a, k - 1))
  BY DEF Arc
<1> HIDE DEF n
<1>7. Arc(f, a, b) \in Seq(Values) /\ Len(Arc(f, a, b)) = n
  BY <1>4, <1>5
<1> QED
  BY <1>1, <1>6, <1>7 DEF n

\* What is not on the arc does not change it.
LEMMA ArcSame ==
    ASSUME NEW f \in Descriptors, NEW g \in Descriptors, NEW a \in Slots, NEW b \in Slots,
           \A k \in 1 .. Dist(a, b) :
               Content(f, Plus(a, k - 1)) = Content(g, Plus(a, k - 1))
    PROVE  Arc(f, a, b) = Arc(g, a, b)
BY DEF Arc

\* An arc that ends one slot later has one content more.
LEMMA ArcGrow ==
    ASSUME NEW f \in Descriptors, NEW a \in Slots, NEW b \in Slots, Dist(a, b) < N - 1
    PROVE  Arc(f, a, Inc(b)) = Append(Arc(f, a, b), Content(f, b))
<1> DEFINE s == Arc(f, a, b)
           t == Arc(f, a, Inc(b))
           e == Content(f, b)
<1>1. Inc(b) \in Slots /\ Dist(a, Inc(b)) = Dist(a, b) + 1 /\ Dist(a, b) \in Nat
  BY DistIncRight, DistType, RingAssumption DEF Slots
<1>2. /\ s \in Seq(Values) /\ Len(s) = Dist(a, b)
      /\ \A k \in 1 .. Dist(a, b) : s[k] = Content(f, Plus(a, k - 1))
  BY ArcSeq
<1>3. /\ t \in Seq(Values) /\ Len(t) = Dist(a, b) + 1
      /\ \A k \in 1 .. Dist(a, b) + 1 : t[k] = Content(f, Plus(a, k - 1))
  BY <1>1, ArcSeq
<1>4. e \in Values
  BY DEF Content, Values, Descriptors
<1>5. t[Dist(a, b) + 1] = e
  <2>1. t[Dist(a, b) + 1] = Content(f, Plus(a, Dist(a, b) + 1 - 1))
    BY <1>1, <1>3
  <2>2. Dist(a, b) + 1 - 1 = Dist(a, b)
    BY <1>1
  <2> QED
    BY <2>1, <2>2, PlusOfDist
<1> HIDE DEF s, t, e
<1>6. /\ Append(s, e) \in Seq(Values) /\ Len(Append(s, e)) = Len(s) + 1
      /\ \A k \in 1 .. Len(s) : Append(s, e)[k] = s[k]
      /\ Append(s, e)[Len(s) + 1] = e
  BY <1>2, <1>4, AppendProperties
<1>7. ASSUME NEW k \in 1 .. Len(t) PROVE t[k] = Append(s, e)[k]
  <2>1. CASE k \in 1 .. Dist(a, b)
    BY <1>2, <1>3, <1>6, <2>1
  <2>2. CASE k = Dist(a, b) + 1
    BY <1>2, <1>5, <1>6, <2>2
  <2>3. Len(t) = Dist(a, b) + 1 /\ Dist(a, b) \in Nat
    BY <1>1, <1>3
  <2>4. k \in 1 .. Dist(a, b) \/ k = Dist(a, b) + 1
    BY ONLY <2>3, k \in 1 .. Len(t)
  <2> QED
    BY <2>1, <2>2, <2>4
<1>8. t = Append(s, e)
  BY <1>2, <1>3, <1>6, <1>7, SeqEqual
<1> QED
  BY <1>8 DEF s, t, e

\* An arc that starts one slot later has lost its first content.
LEMMA ArcShrink ==
    ASSUME NEW f \in Descriptors, NEW a \in Slots, NEW b \in Slots, a # b
    PROVE  /\ Arc(f, a, b) # <<>>
           /\ Head(Arc(f, a, b)) = Content(f, a)
           /\ Tail(Arc(f, a, b)) = Arc(f, Inc(a), b)
<1> DEFINE s == Arc(f, a, b)
           t == Arc(f, Inc(a), b)
           n == Dist(a, b)
<1>1. Inc(a) \in Slots /\ Dist(Inc(a), b) = n - 1 /\ n \in 1 .. N - 1
  BY DistIncLeft, DistType, DistZero, RingAssumption DEF Slots
<1>2. /\ s \in Seq(Values) /\ Len(s) = n
      /\ \A k \in 1 .. n : s[k] = Content(f, Plus(a, k - 1))
  BY ArcSeq
<1>3. /\ t \in Seq(Values) /\ Len(t) = n - 1
      /\ \A k \in 1 .. n - 1 : t[k] = Content(f, Plus(Inc(a), k - 1))
  BY <1>1, ArcSeq
<1>4. s[1] = Content(f, a)
  <2>1. 1 - 1 = 0 /\ 1 \in 1 .. n
    BY <1>1
  <2> QED
    BY <1>2, <2>1, PlusInc
<1>5. ASSUME NEW k \in 1 .. n - 1 PROVE t[k] = s[k + 1]
  <2>1. k + 1 \in 1 .. n /\ k + 1 - 1 = k /\ k - 1 + 1 = k /\ k - 1 \in 0 .. N - 2
    BY <1>1, RingAssumption
  <2>2. Plus(Inc(a), k - 1) = Plus(a, k)
    BY <2>1, PlusInc
  <2> QED
    BY <1>2, <1>3, <2>1, <2>2
<1> HIDE DEF s, t, n
<1>6. s # <<>>
  BY <1>1, <1>2
<1>7. /\ Head(s) = s[1] /\ Tail(s) \in Seq(Values) /\ Len(Tail(s)) = n - 1
      /\ \A k \in 1 .. n - 1 : Tail(s)[k] = s[k + 1]
  BY <1>2, <1>6, HeadTailProperties
<1>8. Tail(s) = t
  BY <1>3, <1>5, <1>7, SeqEqual
<1> QED
  BY <1>4, <1>6, <1>7, <1>8 DEF s, t
-----------------------------------------------------------------------------
(* The ring implements the FIFO: the store of EnqEnable posts an entry, that *)
(* of DeqClear collects one, and every other store of the driver stutters.   *)

Posted == Arc(bd, hw, WrEff)
Done == Arc(bd, RdEff, hw)

\* The arcs are what the refinement maps to the FIFO.
LEMMA Mapping == Posted = Between(hw, WrEff) /\ Done = Between(RdEff, hw)
BY DEF Posted, Done, Arc, Between, Content, Entry

\* Where the two arcs are.
LEMMA Arcs ==
    ASSUME Inv
    PROVE  /\ bd \in Descriptors
           /\ hw \in Slots /\ WrEff \in Slots /\ RdEff \in Slots
           /\ Dist(hw, WrEff) = Given - Pos(hw)
           /\ Dist(RdEff, hw) = Pos(hw) - Taken
           /\ \A k \in 1 .. Given - Pos(hw) :
                  Plus(hw, k - 1) \in Slots /\ bd[Plus(hw, k - 1)].en
           /\ \A k \in 1 .. Pos(hw) - Taken :
                  Plus(RdEff, k - 1) \in Slots /\ bd[Plus(RdEff, k - 1)].en
<1>1. bd \in Descriptors /\ RdEff \in Slots
  BY DistType DEF Inv, TypeOK, Descriptors, RdEff
<1>2. Dist(hw, WrEff) = Given - Pos(hw)
  BY Facts, DistSum DEF Inv, Given, Pos
<1>3. Pos(RdEff) = Taken
  <2>1. CASE deq = "idle"
    BY <2>1, Facts DEF RdEff, Taken
  <2>2. CASE deq # "idle"
    <3>1. Dist(rd, Inc(rd)) = Dist(rd, rd) + 1
      BY Facts, DistIncRight, RingAssumption DEF Pos
    <3> QED
      BY <2>2, <3>1, Facts DEF RdEff, Taken, Pos
  <2> QED
    BY <2>1, <2>2
<1>4. Dist(RdEff, hw) = Pos(hw) - Taken
  BY <1>1, <1>3, Facts, DistSum DEF Inv, Pos
<1>5. ASSUME NEW k \in 1 .. Given - Pos(hw)
      PROVE  Plus(hw, k - 1) \in Slots /\ bd[Plus(hw, k - 1)].en
  <2>1. Pos(hw) \in 0 .. N - 1 /\ Given \in 0 .. N - 1 /\ Taken <= Pos(hw)
    BY Facts DEF Inv
  <2>2. k - 1 \in 0 .. N - 1 /\ Pos(hw) + (k - 1) < Given
    BY <2>1, RingAssumption
  <2>3. Plus(hw, k - 1) \in Slots
    BY <2>2, Facts, PlusDist
  <2>4. Pos(Plus(hw, k - 1)) = Pos(hw) + (k - 1)
    <3>1. Dist(rd, hw) + (k - 1) < N
      BY <2>1, <2>2, RingAssumption DEF Pos
    <3> QED
      BY <2>2, <3>1, Facts, DistPlus DEF Pos
  <2> QED
    BY <2>1, <2>2, <2>3, <2>4, Facts, RingAssumption DEF Inv, Enabled
<1>6. ASSUME NEW k \in 1 .. Pos(hw) - Taken
      PROVE  Plus(RdEff, k - 1) \in Slots /\ bd[Plus(RdEff, k - 1)].en
  <2>1. Pos(hw) \in 0 .. N - 1 /\ Given \in 0 .. N - 1 /\ Taken \in 0 .. 1 /\ Pos(hw) <= Given
    BY Facts DEF Inv
  <2>2. k - 1 \in 0 .. N - 1 /\ Taken + (k - 1) < Given
    BY <2>1, RingAssumption
  <2>3. Plus(RdEff, k - 1) \in Slots
    BY <1>1, <2>2, PlusDist
  <2>4. Pos(Plus(RdEff, k - 1)) = Taken + (k - 1)
    <3>1. Dist(rd, RdEff) = Taken /\ Dist(rd, RdEff) + (k - 1) < N
      BY <1>3, <2>1, <2>2, RingAssumption DEF Pos
    <3>2. Dist(rd, Plus(RdEff, k - 1)) = Dist(rd, RdEff) + (k - 1)
      BY <1>1, <2>2, <3>1, Facts, DistPlus
    <3> QED
      BY <3>1, <3>2 DEF Pos
  <2> QED
    BY <2>1, <2>2, <2>3, <2>4, RingAssumption DEF Inv, Enabled
<1> QED
  BY <1>1, <1>2, <1>4, <1>5, <1>6, Facts

\* A step that moves none of the positions and changes no enabled descriptor
\* but in its enable bit.
LEMMA Stutters ==
    ASSUME Inv, Inv', hw' = hw, WrEff' = WrEff, RdEff' = RdEff, mode' = mode,
           \A i \in Slots : bd[i].en => Content(bd', i) = Content(bd, i)
    PROVE  UNCHANGED <<Posted, Done, mode = "run">>
<1>1. bd \in Descriptors /\ bd' \in Descriptors
  BY DEF Inv, TypeOK, Descriptors
<1>2. Posted' = Arc(bd', hw, WrEff) /\ Done' = Arc(bd', RdEff, hw)
  BY DEF Posted, Done
<1>3. Arc(bd, hw, WrEff) = Arc(bd', hw, WrEff)
  BY <1>1, Arcs, ArcSame
<1>4. Arc(bd, RdEff, hw) = Arc(bd', RdEff, hw)
  BY <1>1, Arcs, ArcSame
<1> QED
  BY <1>2, <1>3, <1>4 DEF Posted, Done

\* A step of the running ring is a step of the FIFO.
LEMMA RunStep ==
    ASSUME Checked, Inv, Loaded, Next
    PROVE  \/ UNCHANGED <<Posted, Done, mode = "run">>
           \/ \E e \in Bufs \X BOOLEAN :
                /\ Len(Posted) + Len(Done) < N - 1
                /\ Posted' = Append(Posted, e)
                /\ UNCHANGED <<Done, mode = "run">>
           \/ /\ Posted # <<>>
              /\ Done' = Append(Done, Head(Posted)) /\ Posted' = Tail(Posted)
              /\ UNCHANGED (mode = "run")
           \/ /\ Done # <<>> /\ Done' = Tail(Done)
              /\ UNCHANGED <<Posted, mode = "run">>
<1>0. Inv'
  BY InvStep
<1>1. mode = "run" /\ mode' = "run"
  BY <1>0 DEF Inv
<1>2. ASSUME NEW b \in Bufs, EnqData(b) PROVE UNCHANGED <<Posted, Done, mode = "run">>
  <2>1. UNCHANGED <<hw, WrEff, RdEff, mode>>
    BY <1>2 DEF EnqData, WrEff, RdEff
  <2>2. \A i \in Slots : bd[i].en => Content(bd', i) = Content(bd, i)
    BY <1>2 DEF EnqData, Inv, TypeOK, Content
  <2> QED
    BY <1>0, <2>1, <2>2, Stutters
<1>3. CASE EnqAdvance
  BY <1>0, <1>3, Stutters DEF EnqAdvance, WrEff, RdEff, Content
<1>4. CASE DeqRestore
  BY <1>0, <1>4, Stutters DEF DeqRestore, WrEff, RdEff, Content
<1>5. CASE DeqAdvance
  BY <1>0, <1>5, Stutters DEF DeqAdvance, WrEff, RdEff, Content
<1>6. ASSUME NEW l \in BOOLEAN, EnqEnable(l)
      PROVE  \E e \in Bufs \X BOOLEAN :
                /\ Len(Posted) + Len(Done) < N - 1
                /\ Posted' = Append(Posted, e)
                /\ UNCHANGED <<Done, mode = "run">>
  <2>1. /\ UNCHANGED <<hw, RdEff, mode>> /\ WrEff = wr /\ WrEff' = Inc(wr)
        /\ bd' = [bd EXCEPT ![wr].en = TRUE, ![wr].lifm = l]
    BY <1>6 DEF EnqEnable, WrEff, RdEff
  <2>2. Pos(wr) < N - 1 /\ Given = Pos(wr)
    BY <1>6, <2>1 DEF EnqEnable, Inv, Given
  <2>3. ~bd[wr].en
    BY <2>2, Facts DEF Inv, Enabled
  <2>4. bd' \in Descriptors /\ wr \in Slots /\ Inc(wr) \in Slots
    BY <1>0, DistType DEF Inv, TypeOK, Descriptors
  <2>5. Content(bd', wr) = <<bd[wr].data, l>> /\ bd[wr].data \in Bufs
    BY <1>6, <2>1 DEF Inv, TypeOK, Content, Loaded, EnqEnable
  <2>6. \A i \in Slots : bd[i].en => Content(bd', i) = Content(bd, i)
    BY <2>1, <2>3 DEF Inv, TypeOK, Content
  <2>7. Arc(bd, hw, wr) = Arc(bd', hw, wr) /\ Arc(bd, RdEff, hw) = Arc(bd', RdEff, hw)
    <3>1. \A k \in 1 .. Dist(hw, wr) :
              Content(bd, Plus(hw, k - 1)) = Content(bd', Plus(hw, k - 1))
      BY <2>1, <2>6, Arcs
    <3>2. \A k \in 1 .. Dist(RdEff, hw) :
              Content(bd, Plus(RdEff, k - 1)) = Content(bd', Plus(RdEff, k - 1))
      BY <2>6, Arcs
    <3> QED
      BY <2>4, <3>1, <3>2, Arcs, ArcSame
  <2>8. Dist(hw, wr) < N - 1
    BY <2>1, <2>2, Arcs, Facts, RingAssumption
  <2>9. Arc(bd', hw, Inc(wr)) = Append(Arc(bd', hw, wr), Content(bd', wr))
    BY <2>4, <2>8, Arcs, ArcGrow
  <2>10. Len(Posted) + Len(Done) < N - 1
    <3>1. Len(Posted) = Given - Pos(hw) /\ Len(Done) = Pos(hw) - Taken
      BY Arcs, ArcSeq DEF Posted, Done
    <3> QED
      BY <2>2, <3>1, Facts, RingAssumption
  <2> QED
    <3>1. Posted' = Append(Posted, <<bd[wr].data, l>>) /\ Done' = Done
      BY <2>1, <2>5, <2>7, <2>9 DEF Posted, Done
    <3>2. <<bd[wr].data, l>> \in Bufs \X BOOLEAN
      BY <2>5
    <3> QED
      BY <1>1, <2>10, <3>1, <3>2
<1>7. CASE DeqClear
  <2>1. UNCHANGED <<hw, WrEff, mode>> /\ RdEff = rd /\ RdEff' = Inc(rd)
    BY <1>7 DEF DeqClear, WrEff, RdEff
  <2>2. \A i \in Slots : Content(bd', i) = Content(bd, i)
    BY <1>7 DEF DeqClear, Inv, TypeOK, Content
  <2>3. bd' \in Descriptors
    BY <1>0 DEF Inv, TypeOK, Descriptors
  <2>4. rd # hw
    BY <1>7, Facts DEF DeqClear, Inv, Written
  <2>5. Done # <<>> /\ Tail(Done) = Arc(bd, Inc(rd), hw)
    BY <2>1, <2>4, Arcs, ArcShrink DEF Done
  <2>6. Inc(rd) \in Slots
    BY DistType, Facts
  <2>7. Arc(bd, Inc(rd), hw) = Arc(bd', Inc(rd), hw) /\ Arc(bd, hw, WrEff) = Arc(bd', hw, WrEff)
    <3>1. ASSUME NEW a \in Slots, NEW b \in Slots, NEW k \in 1 .. Dist(a, b)
          PROVE  Plus(a, k - 1) \in Slots
      <4>1. Dist(a, b) \in Slots
        BY DistType
      <4>2. k - 1 \in 0 .. N - 1
        BY <4>1, RingAssumption DEF Slots
      <4> QED
        BY <4>2, PlusDist
    <3> QED
      BY <2>2, <2>3, <2>6, <3>1, Arcs, ArcSame
  <2> QED
    BY <1>1, <2>1, <2>5, <2>7 DEF Posted, Done
<1>8. ASSUME NEW l \in BOOLEAN, HwProcess(l)
      PROVE  /\ Posted # <<>>
             /\ Done' = Append(Done, Head(Posted)) /\ Posted' = Tail(Posted)
             /\ UNCHANGED (mode = "run")
  <2>1. UNCHANGED <<bd, WrEff, RdEff, mode>> /\ hw' = Inc(hw)
    BY <1>8 DEF HwProcess, WrEff, RdEff
  <2>2. Pos(hw) < Given
    BY <1>8, Facts DEF HwProcess, Inv, Enabled
  <2>3. hw # WrEff
    BY <2>2, Facts DEF Given
  <2>4. Posted # <<>> /\ Head(Posted) = Content(bd, hw) /\ Tail(Posted) = Arc(bd, Inc(hw), WrEff)
    BY <2>3, Arcs, ArcShrink DEF Posted
  <2>5. Dist(RdEff, hw) < N - 1
    BY <2>2, Arcs, Facts, RingAssumption
  <2>6. Arc(bd, RdEff, Inc(hw)) = Append(Done, Content(bd, hw))
    BY <2>5, Arcs, ArcGrow DEF Done
  <2> QED
    BY <1>1, <2>1, <2>4, <2>6 DEF Posted, Done
<1> QED
  BY <1>2, <1>3, <1>4, <1>5, <1>6, <1>7, <1>8 DEF Next, Enqueue, Dequeue, Dma

\* The ring is a FIFO through the hardware that holds no more than N - 1
\* buffers (pfe_hif_ring_enqueue_buf_std, pfe_hif_ring_dequeue_buf_std), until
\* it is shut down.
THEOREM RingImplementsFifo == ASSUME Checked PROVE LifeSpec => RingIsFifo
<1>1. Init => Fifo!Init
  <2> SUFFICES ASSUME Init PROVE Fifo!Init
    OBVIOUS
  <2>1. hw = 0 /\ WrEff = 0 /\ RdEff = 0 /\ mode = "run" /\ 0 \in Slots
    BY RingAssumption DEF Init, WrEff, RdEff, Slots
  <2>2. Dist(0, 0) = 0
    BY <2>1, DistType
  <2>3. Between(0, 0) = <<>>
    BY <2>2 DEF Between
  <2> QED
    BY <2>1, <2>3 DEF Fifo!Init
<1>2. LifeInv /\ [Life]_vars => [Fifo!Next]_(Fifo!fifoVars)
  <2> SUFFICES ASSUME LifeInv, [Life]_vars PROVE [Fifo!Next]_(Fifo!fifoVars)
    OBVIOUS
  <2> USE Mapping
  <2>1. CASE UNCHANGED vars
    BY <2>1 DEF vars, Fifo!fifoVars, Between, Entry, WrEff, RdEff
  <2>2. CASE mode = "run" /\ Next
    <3>1. mode' = "run"
      BY <2>2, InvStep DEF LifeInv, Inv
    <3>2. Posted' = Between(hw, WrEff)' /\ Done' = Between(RdEff, hw)'
      BY DEF Posted, Done, Arc, Between, Content, Entry
    <3> QED
      BY <2>2, <3>1, <3>2, RunStep
      DEF LifeInv, Fifo!fifoVars, Fifo!Next, Fifo!Post, Fifo!Complete, Fifo!Collect
  <2>3. CASE StopDma
    <3>1. mode = "run" /\ mode' # "run"
      BY <2>3 DEF StopDma
    <3>2. Between(hw, WrEff)' = Between(hw, WrEff) /\ Between(RdEff, hw)' = Between(RdEff, hw)
      BY <2>3 DEF StopDma, Between, Entry, WrEff, RdEff
    <3> QED
      BY <3>1, <3>2 DEF Fifo!Next, Fifo!Close
  <2>4. CASE mode # "run" /\ Life
    <3>1. mode' # "run"
      BY <2>4
      DEF LifeInv, Life, Next, Enqueue, Dequeue, Dma, EnqData, EnqEnable, EnqAdvance, DeqClear,
          DeqRestore, DeqAdvance, HwProcess, StopDma, Drain, DrainUnprocessed, DrainProcessed,
          DrainEmpty
    <3> QED
      BY <2>4, <3>1 DEF Fifo!Next, Fifo!Clear
  <2>5. CASE mode = "run" /\ Drain
    BY <2>5 DEF Drain, DrainUnprocessed, DrainProcessed, DrainEmpty
  <2> QED
    BY <2>1, <2>2, <2>3, <2>4, <2>5 DEF Life
<1> QED
  BY <1>1, <1>2, LifeShape, PTL DEF LifeSpec, Life, RingIsFifo, Fifo!Spec
-----------------------------------------------------------------------------
(***************************************************************************)
(* One poll at a time, sources armed at rest and no interrupt lost, for    *)
(* any number of CPUs and any budget, also when the channel is stopped and *)
(* started at any moment.                                                  *)
(*                                                                         *)
(* NAPI_STATE_SCHED has one owner: the handler between its                 *)
(* napi_schedule_prep and its __napi_schedule, the poll list, or a poll up *)
(* to its napi_complete_done.                                              *)
(***************************************************************************)


IsrOwns == isr \in {"mask rx", "mask tx", "schedule"}
Owned == IsrOwns \/ runq \/ \E c \in Cpus : Polling(c)

\* The NAPI instance is scheduled as long as somebody owns it, and it has
\* never two owners.
OneOwner ==
    /\ sched <=> Owned
    /\ missed => sched
    /\ ~(IsrOwns /\ runq)
    /\ \A c \in Cpus : Polling(c) => ~IsrOwns /\ ~runq
    /\ OnePoll

Starting == ctl \in {"enable rx", "enable tx", "unmask rx", "unmask tx"}
Stopping == ctl \in {"mask rx", "mask tx", "disable rx", "disable tx"}
Running == status = "RUNNING" /\ ctl = "idle"

\* The channel is enabled while it is started, and running while it is stopped.
StatusOfCtl ==
    /\ Starting => status = "ENABLED"
    /\ Stopping => status = "RUNNING"

\* Only the handler keeps the group disabled while the channel is to run.
GroupOn == isr = "idle" /\ (Running \/ Starting) => group

\* A poll that has released NAPI and will still enable s.
Unmasking(s) == IF s = "rx" THEN {"unmask rx"} ELSE {"unmask rx", "unmask tx"}

\* A poll is on its way, which will enable both sources.
PollComing == sched \/ isr = "prep"

\* The sources the start has enabled are enabled, or will be by a poll.
WillBeEnabled(s) == s \in en \/ PollComing \/ \E c \in Cpus : poll[c] \in Unmasking(s)
Enabling ==
    /\ Running \/ ctl = "unmask tx" => WillBeEnabled("rx")
    /\ Running => WillBeEnabled("tx")

\* A poll that has yet to look at the ring of s, or will look again.
Before(s) == IF s = "tx" THEN {"tx"} ELSE {"tx", "rx"}
WillLook(s) ==
    \/ isr = "prep" \/ IsrOwns \/ runq \/ missed
    \/ \E c \in Cpus : Polling(c) /\ (poll[c] \in Before(s) \/ ~clean[c])

\* What is completed has its event latched, or will be looked for.
Noticed == \A s \in Sources : done[s] > 0 => s \in src \/ s \in dropped \/ WillLook(s)

IrqInv == IrqTypeOK /\ OneOwner /\ StatusOfCtl /\ GroupOn /\ Enabling /\ Noticed

-----------------------------------------------------------------------------
\* The bounds, as the provers need them.
LEMMA Bounds == MaxDone \in Nat /\ Budget \in Nat
BY IrqAssumption

\* A ring that grows below its bound, or is worked off up to the budget, stays in
\* its bounds.
LEMMA Counting ==
    ASSUME NEW d \in 0 .. MaxDone
    PROVE  /\ d < MaxDone => d + 1 \in 0 .. MaxDone
           /\ d - (IF d < Budget THEN d ELSE Budget) \in 0 .. MaxDone
BY Bounds

\* A started driver has the types.
LEMMA TypeInit == IrqInit => IrqTypeOK
<1> SUFFICES ASSUME IrqInit PROVE IrqTypeOK
  OBVIOUS
<1>1. done \in [Sources -> 0 .. MaxDone]
  BY IrqAssumption DEF IrqInit
<1>2. poll \in [Cpus -> {"idle", "tx", "rx", "end", "unmask rx", "unmask tx"}]
  BY DEF IrqInit
<1>3. clean \in [Cpus -> BOOLEAN]
  BY DEF IrqInit
<1> QED
  BY <1>1, <1>2, <1>3 DEF IrqInit, IrqTypeOK

\* Every step keeps them.
LEMMA TypeStep ==
    ASSUME IrqTypeOK, [IrqNext]_irqVars
    PROVE  IrqTypeOK'
<1>1. ASSUME NEW s \in Sources, HwComplete(s) PROVE IrqTypeOK'
  <2>1. done[s] + 1 \in 0 .. MaxDone /\ done' = [done EXCEPT ![s] = done[s] + 1]
    BY <1>1, Counting DEF HwComplete, IrqTypeOK
  <2>2. done' \in [Sources -> 0 .. MaxDone]
    BY <2>1 DEF IrqTypeOK
  <2>3. src' \subseteq Sources
    BY <1>1 DEF HwComplete, IrqTypeOK
  <2>4. UNCHANGED <<dma, en, group, isr, sched, missed, runq, poll, clean, status, ctl, dropped>>
    BY <1>1 DEF HwComplete, napiVars, pollVars, ctlVars
  <2> QED
    BY <2>2, <2>3, <2>4, ZenonT(30) DEF IrqTypeOK
<1>2. CASE Isr
  <2> USE DEF IsrEnter, IsrAck, IsrPrep, IsrMaskRx, IsrMaskTx, IsrSchedule, IsrLeave, regVars
  <2>1. UNCHANGED <<done, dma, poll, clean, status, ctl>>
    BY <1>2 DEF Isr, napiVars, pollVars, ctlVars
  <2>2. src' \subseteq Sources /\ en' \subseteq Sources /\ dropped' \subseteq Sources
    BY <1>2 DEF Isr, IrqTypeOK
  <2>3. /\ isr' \in {"idle", "ack", "prep", "mask rx", "mask tx", "schedule", "leave"}
        /\ group' \in BOOLEAN
    BY <1>2 DEF Isr, IrqTypeOK
  <2>4. sched' \in BOOLEAN /\ missed' \in BOOLEAN /\ runq' \in BOOLEAN
    BY <1>2 DEF Isr, IrqTypeOK, napiVars
  <2> QED
    BY <2>1, <2>2, <2>3, <2>4 DEF IrqTypeOK
<1>3. ASSUME NEW c \in Cpus, PollStart(c) PROVE IrqTypeOK'
  <2>1. /\ poll' \in [Cpus -> {"idle", "tx", "rx", "end", "unmask rx", "unmask tx"}]
        /\ clean' \in [Cpus -> BOOLEAN]
    BY <1>3 DEF PollStart, Goto, IrqTypeOK
  <2> QED
    BY <1>3, <2>1 DEF PollStart, regVars, ctlVars, IrqTypeOK
<1>4. ASSUME NEW c \in Cpus, NEW s \in Sources, Collect(c, s)
      PROVE  /\ done' \in [Sources -> 0 .. MaxDone]
             /\ clean' \in [Cpus -> BOOLEAN]
             /\ dropped' \subseteq Sources
  <2>1. done' \in [Sources -> 0 .. MaxDone]
    <3> DEFINE n == IF done[s] < Budget THEN done[s] ELSE Budget
    <3>1. done[s] \in 0 .. MaxDone
      BY DEF IrqTypeOK
    <3>2. done[s] - n \in 0 .. MaxDone
      BY <3>1, Counting
    <3>3. done' = [done EXCEPT ![s] = done[s] - n]
      BY <1>4 DEF Collect
    <3> QED
      BY <3>2, <3>3 DEF IrqTypeOK
  <2>2. clean' \in [Cpus -> BOOLEAN]
    BY <1>4 DEF Collect, IrqTypeOK
  <2> QED
    BY <1>4, <2>1, <2>2 DEF Collect, IrqTypeOK
<1>5. ASSUME NEW c \in Cpus, PollTx(c) \/ PollRx(c) PROVE IrqTypeOK'
  <2>1. \E s \in Sources : Collect(c, s)
    BY <1>5 DEF PollTx, PollRx, Sources
  <2>2. poll' \in [Cpus -> {"idle", "tx", "rx", "end", "unmask rx", "unmask tx"}]
    BY <1>5 DEF PollTx, PollRx, Goto, IrqTypeOK
  <2>3. UNCHANGED <<dma, src, en, group, isr, sched, missed, runq, status, ctl>>
    BY <1>5 DEF PollTx, PollRx, regVars, napiVars, ctlVars
  <2>4. /\ done' \in [Sources -> 0 .. MaxDone]
        /\ clean' \in [Cpus -> BOOLEAN]
        /\ dropped' \subseteq Sources
    BY <1>4, <2>1
  <2> QED
    BY <2>2, <2>3, <2>4 DEF IrqTypeOK
<1>6. ASSUME NEW c \in Cpus,
             \/ PollAgain(c) \/ PollComplete(c) \/ PollUnmaskRx(c) \/ PollUnmaskTx(c)
      PROVE  IrqTypeOK'
  <2>1. CASE PollAgain(c)
    BY <2>1 DEF PollAgain, Goto, regVars, ctlVars, IrqTypeOK
  <2>2. CASE PollComplete(c)
    <3>1. poll' \in [Cpus -> {"idle", "tx", "rx", "end", "unmask rx", "unmask tx"}]
      BY <2>2 DEF PollComplete, Goto, IrqTypeOK
    <3>2. sched' \in BOOLEAN /\ missed' \in BOOLEAN /\ runq' \in BOOLEAN
      BY <2>2 DEF PollComplete, IrqTypeOK
    <3> QED
      BY <2>2, <3>1, <3>2 DEF PollComplete, regVars, ctlVars, IrqTypeOK
  <2>3. CASE PollUnmaskRx(c) \/ PollUnmaskTx(c)
    <3>1. poll' \in [Cpus -> {"idle", "tx", "rx", "end", "unmask rx", "unmask tx"}]
      BY <2>3 DEF PollUnmaskRx, PollUnmaskTx, Goto, IrqTypeOK
    <3>2. en' \subseteq Sources
      BY <2>3 DEF PollUnmaskRx, PollUnmaskTx, Sources, IrqTypeOK
    <3>3. UNCHANGED <<done, dma, src, group, isr, sched, missed, runq, clean, status, ctl, dropped>>
      BY <2>3 DEF PollUnmaskRx, PollUnmaskTx, napiVars, ctlVars
    <3> QED
      BY <3>1, <3>2, <3>3 DEF IrqTypeOK
  <2> QED
    BY <1>6, <2>1, <2>2, <2>3
<1>7. CASE Start \/ Stop
  <2> USE DEF Start, StartGroup, StartDma, StartUnmaskRx, StartUnmaskTx, Stop,
              StopGroup, StopMask, StopRx, StopTx, regVars
  <2>1. UNCHANGED <<done, src, isr, sched, missed, runq, poll, clean, dropped>>
    BY <1>7 DEF napiVars, pollVars
  <2>2. dma' \subseteq Sources /\ en' \subseteq Sources
    BY <1>7 DEF Sources, IrqTypeOK
  <2>3. group' \in BOOLEAN /\ status' \in {"ENABLED", "RUNNING"}
    BY <1>7 DEF IrqTypeOK
  <2>4. ctl' \in {"idle", "enable rx", "enable tx", "unmask rx", "unmask tx",
                  "mask rx", "mask tx", "disable rx", "disable tx"}
    BY <1>7 DEF CtlGoto
  <2> QED
    BY <2>1, <2>2, <2>3, <2>4 DEF IrqTypeOK
<1>8. CASE UNCHANGED irqVars
  BY <1>8, ZenonT(30) DEF irqVars, IrqTypeOK
<1> QED
  BY <1>1, <1>2, <1>3, <1>5, <1>6, <1>7, <1>8 DEF IrqNext, PollWork

-----------------------------------------------------------------------------
\* What leaves the owners alone.
LEMMA OwnersKept ==
    ASSUME OneOwner, UNCHANGED napiVars, IsrOwns' <=> IsrOwns,
           \A c \in Cpus : Polling(c)' <=> Polling(c)
    PROVE  OneOwner'
<1>1. Owned' <=> Owned
  BY Zenon DEF Owned, napiVars
<1>2. OnePoll'
  BY Zenon DEF OneOwner, OnePoll
<1> QED
  BY <1>1, <1>2, Zenon DEF OneOwner, napiVars

\* napi_complete_done, called by the owner, keeps NAPI_STATE_SCHED if the poll
\* is to run again and clears it if not.
LEMMA ReleasedOrAgain ==
    ASSUME IrqTypeOK, OneOwner, NEW c \in Cpus, PollComplete(c)
    PROVE  /\ ~IsrOwns' /\ ~missed'
           /\ missed => runq' /\ sched'
           /\ ~missed => ~runq' /\ ~sched'
<1>1. Polling(c)
  BY DEF PollComplete, Goto, Polling
<1>2. ~IsrOwns /\ ~runq
  BY <1>1, Zenon DEF OneOwner
<1>3. isr' = isr /\ missed' = FALSE
  BY Zenon DEF PollComplete
<1>4. missed => runq' = TRUE /\ sched' = sched
  BY Zenon DEF PollComplete
<1>5. ~missed => runq' = runq /\ sched' = FALSE
  BY Zenon DEF PollComplete
<1>6. missed => sched
  BY Zenon DEF OneOwner
<1>7. ~IsrOwns'
  BY <1>2, <1>3, Zenon DEF IsrOwns
<1>8. missed => runq' /\ sched'
  <2>1. sched => sched = TRUE
    BY DEF IrqTypeOK
  <2>2. missed => sched' = TRUE
    BY <1>4, <1>6, <2>1
  <2> QED
    BY <1>4, <2>2
<1>9. ~missed => ~runq' /\ ~sched'
  BY <1>2, <1>5, Zenon
<1>10. ~missed'
  BY <1>3, Zenon
<1> QED
  BY <1>7, <1>8, <1>9, <1>10, Zenon

\* One owner of the instance: what napi_schedule_prep and napi_complete_done are
\* for.
LEMMA OwnerStep ==
    ASSUME IrqTypeOK, OneOwner, [IrqNext]_irqVars
    PROVE  OneOwner'
<1> USE DEF IrqTypeOK
<1>1. ASSUME NEW s \in Sources, HwComplete(s) PROVE OneOwner'
  BY <1>1, OwnersKept DEF HwComplete, napiVars, pollVars, IsrOwns, Polling
<1>2. CASE IsrEnter \/ IsrAck \/ IsrMaskRx \/ IsrMaskTx \/ IsrLeave
  BY <1>2, OwnersKept DEF IsrEnter, IsrAck, IsrMaskRx, IsrMaskTx, IsrLeave, pollVars,
                          IsrOwns, Polling
<1>3. CASE IsrPrep
  BY <1>3 DEF IsrPrep, pollVars, OneOwner, Owned, IsrOwns, OnePoll, Polling
<1>4. CASE IsrSchedule
  BY <1>4 DEF IsrSchedule, pollVars, OneOwner, Owned, IsrOwns, OnePoll, Polling
<1>5. ASSUME NEW c \in Cpus, PollStart(c) PROVE OneOwner'
  BY <1>5 DEF PollStart, Goto, OneOwner, Owned, IsrOwns, OnePoll, Polling
<1>6. ASSUME NEW c \in Cpus, PollTx(c) \/ PollRx(c) PROVE OneOwner'
  BY <1>6, OwnersKept DEF PollTx, PollRx, Goto, IsrOwns, Polling
<1>7. ASSUME NEW c \in Cpus, PollAgain(c) PROVE OneOwner'
  BY <1>7 DEF PollAgain, Goto, OneOwner, Owned, IsrOwns, OnePoll, Polling
<1>8. ASSUME NEW c \in Cpus, PollComplete(c) PROVE OneOwner'
  <2> USE DEF OneOwner, Owned, IsrOwns, OnePoll, Polling
  <2>1. CASE missed
    <3>1. \A d \in Cpus : ~Polling(d)'
      BY <1>8, <2>1 DEF PollComplete, Goto
    <3>2. ~IsrOwns' /\ runq' /\ sched' /\ ~missed'
      BY <1>8, <2>1, ReleasedOrAgain
    <3> QED
      BY <3>1, <3>2
  <2>2. CASE ~missed
    <3>1. \A d \in Cpus : ~Polling(d)'
      BY <1>8, <2>2 DEF PollComplete, Goto
    <3>2. ~IsrOwns' /\ ~runq' /\ ~sched' /\ ~missed'
      BY <1>8, <2>2, ReleasedOrAgain
    <3> QED
      BY <3>1, <3>2
  <2> QED
    BY <2>1, <2>2
<1>9. ASSUME NEW c \in Cpus, PollUnmaskRx(c) \/ PollUnmaskTx(c) PROVE OneOwner'
  BY <1>9, OwnersKept DEF PollUnmaskRx, PollUnmaskTx, Goto, IsrOwns, Polling
<1>10. CASE Start \/ Stop \/ UNCHANGED irqVars
  BY <1>10, OwnersKept
  DEF Start, StartGroup, StartDma, StartUnmaskRx, StartUnmaskTx, Stop, StopGroup,
      StopMask, StopRx, StopTx, napiVars, pollVars, irqVars, IsrOwns, Polling
<1> QED
  BY <1>1, <1>2, <1>3, <1>4, <1>5, <1>6, <1>7, <1>8, <1>9, <1>10
  DEF IrqNext, Isr, PollWork

\* The status and the group bit, through a start and a stop.
LEMMA CtlStep ==
    ASSUME IrqTypeOK, StatusOfCtl, GroupOn, [IrqNext]_irqVars
    PROVE  StatusOfCtl' /\ GroupOn'
<1> USE DEF IrqTypeOK, StatusOfCtl, GroupOn, Running, Starting, Stopping
<1>1. ASSUME NEW s \in Sources, HwComplete(s) PROVE StatusOfCtl' /\ GroupOn'
  BY <1>1 DEF HwComplete, ctlVars
<1>2. CASE Isr
  BY <1>2 DEF Isr, IsrEnter, IsrAck, IsrPrep, IsrMaskRx, IsrMaskTx, IsrSchedule,
              IsrLeave, regVars, ctlVars
<1>3. ASSUME NEW c \in Cpus, PollStart(c) \/ PollWork(c)
      PROVE  StatusOfCtl' /\ GroupOn'
  BY <1>3 DEF PollStart, PollWork, PollTx, PollRx, PollAgain, PollComplete,
              PollUnmaskRx, PollUnmaskTx, regVars, ctlVars
<1>4. CASE Start
  BY <1>4 DEF Start, StartGroup, StartDma, StartUnmaskRx, StartUnmaskTx, CtlGoto,
              regVars
<1>5. CASE Stop
  BY <1>5 DEF Stop, StopGroup, StopMask, StopRx, StopTx, CtlGoto
<1>6. CASE UNCHANGED irqVars
  BY <1>6 DEF irqVars
<1> QED
  BY <1>1, <1>2, <1>3, <1>4, <1>5, <1>6 DEF IrqNext

\* A source that is disabled will be enabled by the poll that is on its way.
LEMMA EnablingStep ==
    ASSUME IrqTypeOK, OneOwner, StatusOfCtl, Enabling, [IrqNext]_irqVars
    PROVE  Enabling'
<1> USE DEF IrqTypeOK, StatusOfCtl, Enabling, WillBeEnabled, Unmasking, PollComing, Running,
            Starting, Stopping
<1>1. ASSUME NEW s \in Sources, HwComplete(s) PROVE Enabling'
  BY <1>1 DEF HwComplete, napiVars, pollVars, ctlVars
<1>2. CASE IsrEnter \/ IsrAck \/ IsrPrep \/ IsrSchedule \/ IsrLeave
  BY <1>2 DEF IsrEnter, IsrAck, IsrPrep, IsrSchedule, IsrLeave, regVars, napiVars,
              pollVars, ctlVars
<1>3. CASE IsrMaskRx \/ IsrMaskTx
  BY <1>3 DEF IsrMaskRx, IsrMaskTx, OneOwner, Owned, IsrOwns, napiVars
<1>4. ASSUME NEW c \in Cpus, PollStart(c) PROVE Enabling'
  BY <1>4 DEF PollStart, Goto, regVars, ctlVars
<1>5. ASSUME NEW c \in Cpus, PollTx(c) \/ PollRx(c) \/ PollAgain(c) PROVE Enabling'
  BY <1>5 DEF PollTx, PollRx, PollAgain, Goto, regVars, ctlVars, napiVars
<1>6. ASSUME NEW c \in Cpus, PollComplete(c) PROVE Enabling'
  <2>1. CASE missed
    <3>1. sched'
      BY <1>6, <2>1, ReleasedOrAgain
    <3> QED
      BY <1>6, <3>1 DEF PollComplete, regVars, ctlVars
  <2>2. CASE ~missed
    <3>1. poll'[c] = "unmask rx"
      BY <1>6, <2>2 DEF PollComplete, Goto
    <3> QED
      BY <1>6, <3>1 DEF PollComplete, regVars, ctlVars
  <2> QED
    BY <2>1, <2>2
<1>7. ASSUME NEW c \in Cpus, PollUnmaskRx(c) PROVE Enabling'
  BY <1>7 DEF PollUnmaskRx, Goto, napiVars, ctlVars
<1>8. ASSUME NEW c \in Cpus, PollUnmaskTx(c) PROVE Enabling'
  BY <1>8 DEF PollUnmaskTx, Goto, napiVars, ctlVars
<1>9. CASE Start
  BY <1>9 DEF Start, StartGroup, StartDma, StartUnmaskRx, StartUnmaskTx, CtlGoto,
              regVars, napiVars, pollVars
<1>10. CASE Stop
  BY <1>10 DEF Stop, StopGroup, StopMask, StopRx, StopTx, CtlGoto, napiVars, pollVars
<1>11. CASE UNCHANGED irqVars
  BY <1>11 DEF irqVars
<1> QED
  BY <1>1, <1>2, <1>3, <1>4, <1>5, <1>6, <1>7, <1>8, <1>9, <1>10, <1>11
  DEF IrqNext, Isr, PollWork

\* A poll that has left something in a ring is not complete.
LEMMA StillThere ==
    ASSUME IrqTypeOK, NEW c \in Cpus, NEW s \in Sources, Collect(c, s), done'[s] > 0
    PROVE  ~clean'[c]
<1> DEFINE n == IF done[s] < Budget THEN done[s] ELSE Budget
<1>1. done[s] \in 0 .. MaxDone
  BY DEF IrqTypeOK
<1>2. done'[s] = done[s] - n
  BY DEF Collect, IrqTypeOK
<1>3. ~(n < Budget)
  BY <1>1, <1>2, Bounds
<1> QED
  BY <1>3 DEF Collect, IrqTypeOK

\* A completed frame is latched, or will be looked for.
LEMMA NoticedStep ==
    ASSUME IrqTypeOK, OneOwner, Noticed, [IrqNext]_irqVars
    PROVE  Noticed'
<1> SUFFICES ASSUME NEW s \in Sources, done'[s] > 0
             PROVE  s \in src' \/ s \in dropped' \/ WillLook(s)'
  BY DEF Noticed
<1> DEFINE Known == done[s] > 0 => s \in src \/ s \in dropped \/ WillLook(s)
<1>0. Known
  BY DEF Noticed
<1>1. ASSUME NEW r \in Sources, HwComplete(r)
      PROVE  s \in src' \/ s \in dropped' \/ WillLook(s)'
  <2>1. CASE r = s
    BY <1>1, <2>1 DEF HwComplete
  <2>2. CASE r # s
    <3>1. done'[s] = done[s]
      BY <1>1, <2>2 DEF HwComplete, IrqTypeOK
    <3> QED
      BY <1>0, <1>1, <3>1 DEF HwComplete, napiVars, pollVars, WillLook, IsrOwns, Polling
  <2> QED
    BY <2>1, <2>2
<1>2. CASE IsrEnter \/ IsrMaskRx \/ IsrMaskTx \/ IsrSchedule \/ IsrLeave
  BY <1>0, <1>2 DEF IsrEnter, IsrMaskRx, IsrMaskTx, IsrSchedule, IsrLeave, regVars,
                    napiVars, pollVars, WillLook, IsrOwns, Polling
<1>3. CASE IsrAck
  BY <1>0, <1>3 DEF IsrAck, napiVars, pollVars, WillLook, IsrOwns, Polling
<1>4. CASE IsrPrep
  BY <1>0, <1>4 DEF IsrPrep, regVars, pollVars, WillLook, IsrOwns, Polling
<1>5. ASSUME NEW c \in Cpus, PollStart(c)
      PROVE  s \in src' \/ s \in dropped' \/ WillLook(s)'
  <2>1. poll'[c] = "tx"
    BY <1>5 DEF PollStart, Goto, IrqTypeOK
  <2> QED
    BY <2>1 DEF WillLook, Polling, Before
<1>6. ASSUME NEW c \in Cpus, PollTx(c)
      PROVE  s \in src' \/ s \in dropped' \/ WillLook(s)'
  <2>1. poll'[c] = "rx"
    BY <1>6 DEF PollTx, Goto, IrqTypeOK
  <2>2. CASE s = "tx"
    <3>1. ~clean'[c]
      BY <1>6, <2>2, StillThere DEF PollTx
    <3> QED
      BY <2>1, <3>1 DEF WillLook, Polling
  <2>3. CASE s = "rx"
    BY <2>1, <2>3 DEF WillLook, Polling, Before
  <2> QED
    BY <2>2, <2>3 DEF Sources
<1>7. ASSUME NEW c \in Cpus, PollRx(c)
      PROVE  s \in src' \/ s \in dropped' \/ WillLook(s)'
  <2>1. poll[c] = "rx" /\ poll' = [poll EXCEPT ![c] = "end"]
    BY <1>7 DEF PollRx, Goto
  <2>2. CASE s = "rx"
    <3>1. ~clean'[c]
      BY <1>7, <2>2, StillThere DEF PollRx
    <3> QED
      BY <2>1, <3>1 DEF WillLook, Polling, IrqTypeOK
  <2>3. CASE s = "tx"
    <3>1. done'[s] = done[s] /\ dropped' = dropped \ {"rx"} /\ src' = src
      BY <1>7, <2>3 DEF PollRx, Collect, IrqTypeOK, regVars
    <3>2. WillLook(s) => WillLook(s)'
      <4>1. ASSUME NEW d \in Cpus, Polling(d), ~clean[d] \/ poll[d] \in Before(s)
            PROVE  WillLook(s)'
        <5>1. d = c
          BY <2>1, <4>1 DEF OneOwner, OnePoll, Polling
        <5>2. ~clean[c]
          BY <2>1, <2>3, <4>1, <5>1 DEF Before
        <5>3. ~clean'[c]
          BY <1>7, <5>2 DEF PollRx, Collect, IrqTypeOK
        <5> QED
          BY <2>1, <5>3 DEF WillLook, Polling, IrqTypeOK
      <4> QED
        BY <1>7, <4>1 DEF PollRx, napiVars, WillLook, IsrOwns
    <3> QED
      BY <1>0, <2>3, <3>1, <3>2
  <2> QED
    BY <2>2, <2>3 DEF Sources
<1>8. ASSUME NEW c \in Cpus, PollAgain(c)
      PROVE  s \in src' \/ s \in dropped' \/ WillLook(s)'
  BY <1>8 DEF PollAgain, WillLook
<1>9. ASSUME NEW c \in Cpus, PollComplete(c)
      PROVE  s \in src' \/ s \in dropped' \/ WillLook(s)'
  <2>1. CASE missed
    BY <1>9, <2>1, ReleasedOrAgain DEF WillLook
  <2>2. CASE ~missed
    <3>1. poll[c] = "end" /\ clean[c] /\ UNCHANGED <<done, src, dropped, isr>>
      BY <1>9 DEF PollComplete, Goto, regVars
    <3>2. Polling(c)
      BY <3>1 DEF Polling
    <3>3. ~IsrOwns /\ ~runq
      BY <3>2, Zenon DEF OneOwner
    <3>4. \A d \in Cpus : Polling(d) => d = c
      BY <3>2, Zenon DEF OneOwner, OnePoll
    <3>5. \A d \in Cpus : Polling(d) => ~(poll[d] \in Before(s)) /\ clean[d]
      BY <3>1, <3>4 DEF Before, Sources
    <3>6. WillLook(s) => isr = "prep"
      BY <2>2, <3>3, <3>5, Zenon DEF WillLook
    <3>7. isr' = "prep" => WillLook(s)'
      BY Zenon DEF WillLook
    <3> QED
      BY <1>0, <3>1, <3>6, <3>7
  <2> QED
    BY <2>1, <2>2
<1>10. ASSUME NEW c \in Cpus, PollUnmaskRx(c) \/ PollUnmaskTx(c)
       PROVE  s \in src' \/ s \in dropped' \/ WillLook(s)'
  BY <1>0, <1>10 DEF PollUnmaskRx, PollUnmaskTx, Goto, napiVars, WillLook, IsrOwns,
                     Polling, Before, IrqTypeOK
<1>11. CASE Start \/ Stop \/ UNCHANGED irqVars
  <2>1. UNCHANGED <<done, src, dropped, isr>>
    BY <1>11, Zenon
    DEF Start, StartGroup, StartDma, StartUnmaskRx, StartUnmaskTx, Stop, StopGroup,
        StopMask, StopRx, StopTx, regVars, irqVars
  <2>2. UNCHANGED <<napiVars, pollVars>>
    BY <1>11, Zenon
    DEF Start, StartGroup, StartDma, StartUnmaskRx, StartUnmaskTx, Stop, StopGroup,
        StopMask, StopRx, StopTx, napiVars, pollVars, irqVars
  <2>3. WillLook(s) => WillLook(s)'
    BY <2>1, <2>2 DEF WillLook, IsrOwns, Polling, napiVars, pollVars
  <2> QED
    BY <1>0, <2>1, <2>3
<1> QED
  BY <1>1, <1>2, <1>3, <1>4, <1>5, <1>6, <1>7, <1>8, <1>9, <1>10, <1>11
  DEF IrqNext, Isr, PollWork

-----------------------------------------------------------------------------
\* The channel comes up with nothing completed and nobody at work.
LEMMA IrqInvAtStart == IrqInit => IrqInv
<1> SUFFICES ASSUME IrqInit PROVE IrqInv
  OBVIOUS
<1>1. OneOwner
  BY DEF IrqInit, OneOwner, Owned, IsrOwns, OnePoll, Polling
<1>2. StatusOfCtl /\ GroupOn /\ Enabling
  BY DEF IrqInit, StatusOfCtl, GroupOn, Enabling, Running, Starting, Stopping
<1>3. Noticed
  BY DEF IrqInit, Noticed
<1> QED
  BY <1>1, <1>2, <1>3, TypeInit DEF IrqInv

\* What the handler, the poll, the start and the stop preserve.
THEOREM IrqInvariant == IrqSpec => []IrqInv
<1>1. IrqInv /\ [IrqNext]_irqVars => IrqInv'
  BY TypeStep, OwnerStep, CtlStep, EnablingStep, NoticedStep DEF IrqInv
<1> QED
  BY <1>1, IrqInvAtStart, PTL DEF IrqSpec

\* Types; only one CPU at a time works on the rings (pfeng_hif_chnl_poll); and
\* when nobody is at work on a running channel both sources are enabled.
THEOREM NapiCorrect == IrqSpec => []NapiInv
<1>1. IrqInv => NapiInv
  <2> SUFFICES ASSUME IrqInv PROVE NapiInv
    OBVIOUS
  <2>1. Resting => ~PollComing /\ Running /\ isr = "idle"
    BY DEF Resting, PollComing, Running
  <2>2. Resting => group
    BY <2>1 DEF IrqInv, GroupOn
  <2>3. Resting => "rx" \in en /\ "tx" \in en
    BY <2>1 DEF IrqInv, Enabling, WillBeEnabled, Resting, Unmasking
  <2>4. SourcesArmed
    BY <2>2, <2>3 DEF IrqInv, IrqTypeOK, Sources, SourcesArmed
  <2> QED
    BY <2>4 DEF IrqInv, OneOwner, NapiInv
<1> QED
  BY <1>1, IrqInvariant, PTL

\* What is completed and not collected when nobody is at work has its event
\* latched and enabled, but for the events that a handler acknowledged and
\* found disabled (pfe_hif_chnl_cfg_isr).
THEOREM InterruptsKept == IrqSpec => []NoLostInterrupt
<1>1. IrqInv /\ NapiInv => NoLostInterrupt
  <2> SUFFICES ASSUME IrqInv, NapiInv, Resting
               PROVE  group /\ {s \in Sources : done[s] > 0} \subseteq (src \cap en) \cup dropped
    BY DEF NoLostInterrupt
  <2>1. en = Sources /\ group
    BY DEF NapiInv, SourcesArmed
  <2>2. ~IsrOwns /\ ~runq /\ ~missed /\ isr # "prep"
    BY DEF Resting, IrqInv, OneOwner, Owned, IsrOwns
  <2>3. \A c \in Cpus : ~Polling(c)
    BY DEF Resting, Polling
  <2>4. \A s \in Sources : ~WillLook(s)
    BY <2>2, <2>3 DEF WillLook
  <2> QED
    BY <2>1, <2>4 DEF IrqInv, Noticed
<1> QED
  BY <1>1, IrqInvariant, NapiCorrect, PTL

-----------------------------------------------------------------------------
(***************************************************************************)
(* The credit of the lossless transmission is bounded by the room in the   *)
(* queue, for every size of the queue, every width of the counters and     *)
(* any number of frames on the way; and undisturbed it ends for good only  *)
(* in a queue without a window, or when too many frames go uncounted.      *)
(***************************************************************************)

PcValues == {"idle", "take", "conf", "fill", "granted", "refused",
             "stop", "schedule", "wake"}

\* What the proof needs of the types; the bounds of TmuTypeOK are not needed.
Shape ==
    /\ pkts \in Int /\ conf \in Int /\ cap \in Int
    /\ pc \in [Threads -> PcValues]
    /\ snap \in [Threads -> [pkts : Int, cap : Int, delta : Nat]]
    /\ path \in Nat /\ late \in Nat /\ fill \in 0 .. QSize

\* Without a race one thread at most is in pfeng_tmu_can_tx or behind it ...
Alone == \A t, u \in Threads : pc[t] # "idle" /\ pc[u] # "idle" => t = u

\* ... and the credit it has read is the one there is.
Fresh == \A t \in Threads : pc[t] = "take" => snap[t].cap = cap

Fits == fill + path + Granted + cap <= QSize + late + 1

TmuInv == Shape /\ (~raced => Alone /\ Fresh /\ Fits)

-----------------------------------------------------------------------------

LEMMA ModIsNat ==
    ASSUME NEW a \in Int, NEW n \in Nat \ {0}
    PROVE  a % n \in 0 .. n - 1
  OBVIOUS

LEMMA WindowFits == Window \in Nat /\ Window <= QSize
  BY CreditAssumption DEF Window

\* Whatever the registers say, the adjusted count is a count.
LEMMA ResyncShape ==
    ASSUME NEW p \in Int, conf \in Int
    PROVE  Resync(p).pkts \in Int /\ Resync(p).delta \in Nat
  <1>1. Behind(p) \in Nat
    <2>1. p - conf \in Int /\ U8 \in Nat \ {0}
      BY CreditAssumption
    <2> QED BY <2>1, ModIsNat DEF Behind
  <1> QED BY <1>1 DEF Resync

LEMMA Initially == TmuInit => TmuInv
  <1> SUFFICES ASSUME TmuInit PROVE TmuInv
    OBVIOUS
  <1>1. Shape
    <2>1. NoSnap \in [pkts : Int, cap : Int, delta : Nat]
      BY DEF NoSnap
    <2>2. snap \in [Threads -> [pkts : Int, cap : Int, delta : Nat]]
      BY <2>1 DEF TmuInit
    <2>3. pc \in [Threads -> PcValues]
      BY DEF TmuInit, PcValues
    <2>4. fill \in 0 .. QSize
      BY CreditAssumption DEF TmuInit
    <2>5. /\ pkts \in Int /\ conf \in Int /\ cap \in Int
          /\ path \in Nat /\ late \in Nat
      BY WindowFits DEF TmuInit
    <2> QED BY <2>2, <2>3, <2>4, <2>5 DEF Shape
  <1>2. Alone /\ Fresh
    BY DEF TmuInit, Alone, Fresh
  <1>3. Fits
    BY WindowFits, CreditAssumption DEF TmuInit, Fits, Granted, Threads
  <1> QED BY <1>1, <1>2, <1>3 DEF TmuInv

-----------------------------------------------------------------------------

\* A thread enters alone, or there is a race.
LEMMA EnterStep ==
    ASSUME TmuInv, NEW t \in Threads, Enter(t)
    PROVE  TmuInv'
  <1> USE DEF Enter, Moves, hwVars, queueVars
  <1>1. Shape'
    <2>1. pc' \in [Threads -> PcValues]
      BY DEF TmuInv, Shape, PcValues
    <2>2. [pkts |-> pkts, cap |-> cap, delta |-> 0] \in [pkts : Int, cap : Int, delta : Nat]
      BY DEF TmuInv, Shape
    <2>3. snap' \in [Threads -> [pkts : Int, cap : Int, delta : Nat]]
      BY <2>2 DEF TmuInv, Shape
    <2> QED BY <2>1, <2>3 DEF TmuInv, Shape
  <1>2. ASSUME ~raced' PROVE Alone' /\ Fresh' /\ Fits'
    <2>1. ~raced /\ \A u \in Threads \ {t} : pc[u] = "idle"
      BY <1>2
    <2>2. pc'[t] \in {"take", "conf"} /\ \A u \in Threads \ {t} : pc'[u] = "idle"
      BY <2>1 DEF TmuInv, Shape
    <2>3. Alone'
      BY <2>2 DEF Alone
    <2>4. Fresh'
      BY <2>2 DEF TmuInv, Shape, Fresh
    <2>5. Granted = 0 /\ Granted' = 0
      BY <2>1, <2>2 DEF Granted, Threads
    <2>6. Fits'
      BY <2>1, <2>5 DEF TmuInv, Fits
    <2> QED BY <2>3, <2>4, <2>6
  <1> QED BY <1>1, <1>2 DEF TmuInv

LEMMA ForgetShape ==
    ASSUME Shape, NEW t \in Threads, Forget(t)
    PROVE  snap' \in [Threads -> [pkts : Int, cap : Int, delta : Nat]]
  <1>1. NoSnap \in [pkts : Int, cap : Int, delta : Nat]
    BY DEF NoSnap
  <1> QED BY <1>1 DEF Forget, Shape

\* A granted frame comes out of the credit that has been read.
LEMMA TakeStep ==
    ASSUME TmuInv, NEW t \in Threads, Take(t)
    PROVE  TmuInv'
  <1> USE DEF Take, Moves, hwVars, queueVars, ghosts
  <1>1. Shape'
    <2>1. pc' \in [Threads -> PcValues]
      BY DEF TmuInv, Shape, PcValues
    <2>2. snap' \in [Threads -> [pkts : Int, cap : Int, delta : Nat]]
      BY ForgetShape DEF TmuInv
    <2>3. snap[t].cap \in Int /\ snap[t].pkts \in Int
      BY DEF TmuInv, Shape
    <2>4. pkts' \in Int
      <3>1. snap[t].pkts + 1 \in Int /\ U32 \in Nat \ {0}
        BY <2>3, CreditAssumption
      <3> QED BY <3>1, ModIsNat
    <2> QED BY <2>1, <2>2, <2>3, <2>4 DEF TmuInv, Shape
  <1>2. ASSUME ~raced' PROVE Alone' /\ Fresh' /\ Fits'
    <2>1. ~raced /\ Alone /\ Fresh /\ Fits
      BY <1>2 DEF TmuInv
    <2>2. pc'[t] = "granted" /\ \A u \in Threads \ {t} : pc[u] = "idle" /\ pc'[u] = "idle"
      BY <2>1 DEF TmuInv, Shape, Alone
    <2>3. Alone' /\ Fresh'
      BY <2>2 DEF Alone, Fresh
    <2>4. cap' = cap - 1
      BY <2>1 DEF Fresh
    <2>5. Granted = 0 /\ Granted' \in {0, 1}
      BY <2>2 DEF Granted, Threads
    <2>6. Fits'
      BY <2>1, <2>4, <2>5, CreditAssumption DEF TmuInv, Shape, Fits
    <2> QED BY <2>3, <2>6
  <1> QED BY <1>1, <1>2 DEF TmuInv

LEMMA ReadConfStep ==
    ASSUME TmuInv, NEW t \in Threads, ReadConf(t)
    PROVE  TmuInv'
  <1> DEFINE r == Resync(snap[t].pkts)
             c == (Window - r.delta) % U8
  <1> USE DEF Moves, hwVars, queueVars, ghosts
  <1>1. r.pkts \in Int /\ r.delta \in Nat /\ c \in Int
    <2>1. snap[t].pkts \in Int /\ conf \in Int
      BY DEF TmuInv, Shape
    <2>2. r.pkts \in Int /\ r.delta \in Nat
      BY <2>1, ResyncShape
    <2>3. Window - r.delta \in Int /\ U8 \in Nat \ {0}
      BY <2>2, WindowFits, CreditAssumption
    <2> QED BY <2>2, <2>3, ModIsNat
  <1>2. /\ pc' = [pc EXCEPT ![t] = IF c <= MinThr THEN "refused" ELSE "fill"]
        /\ pc[t] = "conf"
        /\ UNCHANGED <<cap, path, fill, conf, late, raced>>
    BY DEF ReadConf
  <1> HIDE DEF r, c
  <1>3. Shape'
    <2>1. pc' \in [Threads -> PcValues]
      BY <1>2 DEF TmuInv, Shape, PcValues
    <2>2. CASE c <= MinThr
      <3>1. Forget(t) /\ pkts' = r.pkts
        BY <2>2 DEF ReadConf, r, c
      <3> QED BY <3>1, <2>1, <1>1, <1>2, ForgetShape DEF TmuInv, Shape
    <2>3. CASE ~(c <= MinThr)
      <3>1. /\ snap' = [snap EXCEPT ![t] = [pkts |-> r.pkts, cap |-> c, delta |-> r.delta]]
            /\ pkts' = pkts
        BY <2>3 DEF ReadConf, r, c
      <3>2. [pkts |-> r.pkts, cap |-> c, delta |-> r.delta]
              \in [pkts : Int, cap : Int, delta : Nat]
        BY <1>1
      <3>3. snap' \in [Threads -> [pkts : Int, cap : Int, delta : Nat]]
        BY <3>1, <3>2 DEF TmuInv, Shape
      <3> QED BY <3>1, <3>3, <2>1, <1>2 DEF TmuInv, Shape
    <2> QED BY <2>2, <2>3
  <1>4. ASSUME ~raced' PROVE Alone' /\ Fresh' /\ Fits'
    <2>1. ~raced /\ Alone /\ Fresh /\ Fits
      BY <1>2, <1>4 DEF TmuInv
    <2>2. /\ pc'[t] \in {"refused", "fill"}
          /\ \A u \in Threads \ {t} : pc[u] = "idle" /\ pc'[u] = "idle"
      BY <1>2, <2>1 DEF TmuInv, Shape, Alone
    <2>3. Alone' /\ Fresh'
      BY <2>2 DEF Alone, Fresh
    <2>4. Granted = 0 /\ Granted' = 0
      BY <1>2, <2>2 DEF Granted, Threads
    <2>5. Fits'
      BY <1>2, <2>1, <2>4 DEF Fits
    <2> QED BY <2>3, <2>5
  <1> QED BY <1>3, <1>4 DEF TmuInv

\* New credit is within the room that the level leaves, less the frames on
\* the way then.
LEMMA ReadFillStep ==
    ASSUME TmuInv, NEW t \in Threads, ReadFill(t)
    PROVE  TmuInv'
  <1> USE DEF ReadFill, Moves, hwVars, queueVars
  <1>1. snap[t].cap \in Int /\ snap[t].pkts \in Int /\ snap[t].delta \in Nat
    BY DEF TmuInv, Shape
  <1>2. Shape'
    <2>1. pc' \in [Threads -> PcValues]
      BY DEF TmuInv, Shape, PcValues
    <2>2. snap' \in [Threads -> [pkts : Int, cap : Int, delta : Nat]]
      BY ForgetShape DEF TmuInv
    <2> QED BY <1>1, <2>1, <2>2 DEF TmuInv, Shape
  <1>3. ASSUME ~raced' PROVE Alone' /\ Fresh' /\ Fits'
    <2>1. CASE NoFit(t)
      <3>1. ~raced /\ Alone /\ Fits /\ cap' = cap /\ late' = late
        BY <1>3, <2>1 DEF TmuInv
      <3>2. pc'[t] = "refused" /\ \A u \in Threads \ {t} : pc[u] = "idle" /\ pc'[u] = "idle"
        BY <2>1, <3>1 DEF TmuInv, Shape, Alone
      <3>3. Alone' /\ Fresh'
        BY <3>2 DEF Alone, Fresh
      <3>4. Granted = 0 /\ Granted' = 0
        BY <3>2 DEF Granted, Threads
      <3> QED BY <3>1, <3>3, <3>4 DEF Fits
    <2>2. CASE ~NoFit(t)
      <3>1. pc'[t] = "granted" /\ \A u \in Threads \ {t} : pc[u] = "idle" /\ pc'[u] = "idle"
        BY <1>3, <2>2 DEF TmuInv, Shape
      <3>2. Alone' /\ Fresh'
        BY <3>1 DEF Alone, Fresh
      <3>3. cap' + fill <= QSize
        BY <1>1, <2>2, CreditAssumption DEF NoFit, Min2, TmuInv, Shape
      <3>4. Granted' \in {0, 1}
        BY DEF Granted
      <3>5. late' = path
        BY <2>2
      <3>6. cap' = snap[t].cap /\ path' = path /\ fill' = fill
        BY <2>2
      <3> QED BY <1>1, <3>2, <3>3, <3>4, <3>5, <3>6, CreditAssumption
              DEF Fits, TmuInv, Shape
    <2> QED BY <2>1, <2>2
  <1> QED BY <1>2, <1>3 DEF TmuInv

\* What follows pfeng_tmu_can_tx in a thread leaves credit and level alone.
LEMMA MoveOn ==
    ASSUME TmuInv, NEW t \in Threads, NEW from \in PcValues \ {"idle"},
           NEW to \in PcValues \ {"take", "granted"}, Moves(t, from, to),
           UNCHANGED <<pkts, cap, snap, conf, fill, late, raced>>,
           NEW sent \in {0, 1}, path' = path + sent,
           NEW g \in {0, 1}, Granted' = g, g + sent <= Granted
    PROVE  TmuInv'
  <1> USE DEF Moves
  <1>1. Shape'
    <2>1. pc' \in [Threads -> PcValues]
      BY DEF TmuInv, Shape
    <2> QED BY <2>1 DEF TmuInv, Shape
  <1>2. ASSUME ~raced' PROVE Alone' /\ Fresh' /\ Fits'
    <2>1. Alone /\ Fresh /\ Fits
      BY <1>2 DEF TmuInv
    <2>2. \A u \in Threads \ {t} : pc[u] = "idle" /\ pc'[u] = "idle"
      BY <2>1 DEF TmuInv, Shape, Alone
    <2>3. pc'[t] = to
      BY DEF TmuInv, Shape
    <2>4. Alone' /\ Fresh'
      BY <2>2, <2>3 DEF Alone, Fresh
    <2>5. Granted \in {0, 1}
      BY DEF Granted
    <2>6. QSize \in Nat /\ cap \in Int /\ path \in Nat /\ late \in Nat /\ fill \in Int
      BY CreditAssumption DEF TmuInv, Shape
    <2>7. Fits'
      BY <2>1, <2>5, <2>6 DEF Fits
    <2> QED BY <2>4, <2>7
  <1> QED BY <1>1, <1>2 DEF TmuInv

LEMMA XmitStep ==
    ASSUME TmuInv, Xmit
    PROVE  TmuInv'
  <1> USE DEF hwVars, queueVars, netVars, ghosts, PcValues, Threads
  <1>1. pc \in [Threads -> PcValues] /\ path \in Nat /\ path = path + 0
    BY DEF TmuInv, Shape
  <1>2. CASE XmitSend
    <2>1. Moves("xmit", "granted", "idle") /\ path' = path + 1
      BY <1>2 DEF XmitSend
    <2>2. Granted = 1 /\ Granted' = 0
      BY <1>1, <2>1 DEF Moves, Granted
    <2> QED BY <1>1, <1>2, <2>1, <2>2, MoveOn DEF XmitSend
  <1>3. CASE XmitFails
    <2>1. Moves("xmit", "granted", "idle") /\ path' = path
      BY <1>3 DEF XmitFails
    <2>2. Granted = 1 /\ Granted' = 0
      BY <1>1, <2>1 DEF Moves, Granted
    <2> QED BY <1>1, <1>3, <2>1, <2>2, MoveOn DEF XmitFails
  <1>4. CASE XmitFull
    <2>1. Moves("xmit", "refused", "stop") /\ path' = path
      BY <1>4 DEF XmitFull
    <2>2. Granted = 0 /\ Granted' = 0
      BY <1>1, <2>1 DEF Moves, Granted
    <2> QED BY <1>1, <1>4, <2>1, <2>2, MoveOn DEF XmitFull
  <1>5. CASE XmitStop
    <2>1. Moves("xmit", "stop", "schedule") /\ path' = path
      BY <1>5 DEF XmitStop
    <2>2. Granted = 0 /\ Granted' = 0
      BY <1>1, <2>1 DEF Moves, Granted
    <2> QED BY <1>1, <1>5, <2>1, <2>2, MoveOn DEF XmitStop
  <1>6. CASE XmitSchedule
    <2>1. Moves("xmit", "schedule", "idle") /\ path' = path
      BY <1>6 DEF XmitSchedule
    <2>2. Granted = 0 /\ Granted' = 0
      BY <1>1, <2>1 DEF Moves, Granted
    <2> QED BY <1>1, <1>6, <2>1, <2>2, MoveOn DEF XmitSchedule
  <1> QED BY <1>2, <1>3, <1>4, <1>5, <1>6 DEF Xmit

LEMMA WorkStep ==
    ASSUME TmuInv, Work
    PROVE  TmuInv'
  <1> USE DEF hwVars, queueVars, netVars, ghosts, PcValues, Threads
  <1>1. /\ pc \in [Threads -> PcValues] /\ path \in Nat
        /\ path' = path /\ pc'["xmit"] = pc["xmit"]
    BY DEF TmuInv, Shape, Work, WorkAgain, WorkClear, WorkDone, WorkWake, Moves
  <1>2. PICK g \in {0, 1} : Granted = g
    BY DEF Granted
  <1>3. path' = path + 0 /\ Granted' = g /\ g + 0 <= Granted
    BY <1>1, <1>2 DEF Granted
  <1>4. CASE WorkAgain
    <2>1. Moves("work", "refused", "idle")
      BY <1>4 DEF WorkAgain
    <2> QED BY <1>1, <1>3, <1>4, <2>1, MoveOn DEF WorkAgain
  <1>5. CASE WorkClear
    <2>1. Moves("work", "granted", "wake")
      BY <1>5 DEF WorkClear
    <2> QED BY <1>1, <1>3, <1>5, <2>1, MoveOn DEF WorkClear
  <1>6. CASE WorkDone
    <2>1. Moves("work", "granted", "idle")
      BY <1>6 DEF WorkDone
    <2> QED BY <1>1, <1>3, <1>6, <2>1, MoveOn DEF WorkDone
  <1>7. CASE WorkWake
    <2>1. Moves("work", "wake", "idle")
      BY <1>7 DEF WorkWake
    <2> QED BY <1>1, <1>3, <1>7, <2>1, MoveOn DEF WorkWake
  <1> QED BY <1>4, <1>5, <1>6, <1>7 DEF Work

\* The link, and frames that move on.
LEMMA HardwareStep ==
    ASSUME TmuInv, LinkFlap \/ Arrive \/ ArriveExternal \/ Transmit
    PROVE  TmuInv'
  <1> USE DEF LinkFlap, Arrive, ArriveExternal, Transmit, queueVars, netVars, ghosts
  <1>1. UNCHANGED <<pkts, cap, pc, snap, raced>>
    BY DEF hwVars
  <1>2. Granted' = Granted /\ Granted \in Nat
    BY <1>1 DEF Granted
  <1>3. path' \in Nat /\ late' \in Nat /\ fill' \in 0 .. QSize
    BY CreditAssumption DEF TmuInv, Shape, Min2
  <1>4. conf' \in Int
    <2>1. conf + 1 \in Int /\ U32 \in Nat \ {0}
      BY CreditAssumption DEF TmuInv, Shape
    <2>2. (conf + 1) % U32 \in Int
      BY <2>1, ModIsNat
    <2> QED BY <2>2 DEF TmuInv, Shape
  <1>5. Shape'
    BY <1>1, <1>3, <1>4 DEF TmuInv, Shape
  <1>6. ASSUME ~raced' PROVE Alone' /\ Fresh' /\ Fits'
    <2>1. Alone /\ Fresh /\ Fits
      BY <1>1, <1>6 DEF TmuInv
    <2>2. Alone' /\ Fresh'
      BY <1>1, <2>1 DEF Alone, Fresh
    <2>3. QSize \in Nat /\ cap \in Int /\ path \in Nat /\ late \in Nat /\ fill \in Int
      BY CreditAssumption DEF TmuInv, Shape
    <2>4. Fits'
      <3>1. CASE LinkFlap
        BY <1>1, <1>2, <2>1, <2>3, <3>1 DEF Fits
      <3>2. CASE Arrive
        BY <1>1, <1>2, <2>1, <2>3, <3>2 DEF Fits, Min2
      <3>3. CASE ArriveExternal
        BY <1>1, <1>2, <2>1, <2>3, <3>3 DEF Fits
      <3>4. CASE Transmit
        BY <1>1, <1>2, <2>1, <2>3, <3>4 DEF Fits
      <3> QED BY <3>1, <3>2, <3>3, <3>4
    <2> QED BY <2>2, <2>4
  <1> QED BY <1>5, <1>6 DEF TmuInv

LEMMA Inductive == TmuInv /\ [TmuNext]_tmuVars => TmuInv'
  <1> SUFFICES ASSUME TmuInv, [TmuNext]_tmuVars PROVE TmuInv'
    OBVIOUS
  <1>1. CASE XmitEnter
    BY <1>1, EnterStep DEF XmitEnter, Threads
  <1>2. CASE WorkEnter
    BY <1>2, EnterStep DEF WorkEnter, Threads
  <1>3. ASSUME NEW t \in Threads, CanTx(t) PROVE TmuInv'
    BY <1>3, TakeStep, ReadConfStep, ReadFillStep DEF CanTx
  <1>4. CASE Xmit
    BY <1>4, XmitStep
  <1>5. CASE Work
    BY <1>5, WorkStep
  <1>6. CASE LinkFlap \/ Arrive \/ ArriveExternal \/ Transmit
    BY <1>6, HardwareStep
  <1>7. CASE UNCHANGED tmuVars
    BY <1>7 DEF tmuVars, hwVars, queueVars, netVars, ghosts, TmuInv, Shape, Alone, Fresh,
                Fits, Granted
  <1> QED BY <1>1, <1>2, <1>3, <1>4, <1>5, <1>6, <1>7 DEF TmuNext

\* The frames that wait in the queue, on the way to it or still to be sent
\* out of the credit exceed its size by one and by those that the last reading
\* of the level did not see, at most, as long as transmission and work have
\* kept out of each other's way (pfeng_tmu_can_tx).
THEOREM OvercommitIsBounded == TmuSpec => []OvercommitBounded
  <1>1. TmuInv => OvercommitBounded
    BY DEF TmuInv, Fits, OvercommitBounded, Under
  <1> QED BY <1>1, Initially, Inductive, PTL DEF TmuSpec

-----------------------------------------------------------------------------
(* The types                                                               *)

LEMMA Remainder ==
    ASSUME NEW n \in Nat \ {0}, NEW a \in Int
    PROVE  \E q \in Int : a = q * n + (a % n) /\ a % n \in 0 .. n - 1
  <1>1. a = (a \div n) * n + (a % n) /\ a % n \in 0 .. n - 1 /\ a \div n \in Int
    OBVIOUS
  <1> QED BY <1>1

LEMMA OneRemainder ==
    ASSUME NEW n \in Nat \ {0}, NEW p \in Int, NEW q \in Int, NEW r \in 0 .. n - 1,
           NEW s \in 0 .. n - 1, p * n + r = q * n + s
    PROVE  r = s
  <1>1. (p - q) * n = s - r
    OBVIOUS
  <1>2. CASE p - q > 0
    <2>1. (p - q) * n >= n
      BY <1>2
    <2> QED BY <1>1, <2>1
  <1>3. CASE p - q < 0
    <2>1. (p - q) * n <= -n
      BY <1>3
    <2> QED BY <1>1, <2>1
  <1>4. CASE p - q = 0
    BY <1>1, <1>4
  <1> QED BY <1>2, <1>3, <1>4

LEMMA SmallRemainder ==
    ASSUME NEW n \in Nat \ {0}, NEW a \in 0 .. n - 1
    PROVE  a % n = a
  OBVIOUS

LEMMA Sizes ==
    /\ QSize \in Nat /\ U8 \in Nat \ {0} /\ U32 \in Nat \ {0} /\ Path \in Nat /\ MaxDisturb \in Nat
    /\ QSize < U8 /\ U8 < U32
    /\ Window \in Nat /\ 4 * Window <= QSize
    /\ MinThr \in Nat /\ (Window > 0 => MinThr < Window)
  <1>1. Window \in Nat /\ 4 * Window <= QSize
    BY CreditAssumption DEF Window
  <1>2. MinThr \in Nat /\ (Window > 0 => MinThr < Window)
    BY <1>1 DEF MinThr, Min2
  <1> QED BY <1>1, <1>2, CreditAssumption

\* The adjusted distance is within the window.
LEMMA ResyncBounds ==
    ASSUME NEW p \in 0 .. U32 - 1, conf \in 0 .. U32 - 1
    PROVE  /\ Resync(p).pkts \in 0 .. U32 - 1
           /\ Resync(p).delta \in 0 .. Window
           /\ (Window - Resync(p).delta) % U8 = Window - Resync(p).delta
  <1>1. Behind(p) \in 0 .. U8 - 1
    BY Sizes, ModIsNat DEF Behind
  <1>2. CASE conf > p /\ Behind(p) > Window
    BY <1>2, Sizes DEF Resync
  <1>3. CASE p > (conf + Window) % U32
    BY <1>3, Sizes DEF Resync
  <1>4. CASE ~(conf > p /\ Behind(p) > Window) /\ ~(p > (conf + Window) % U32)
    <2>1. Resync(p) = [pkts |-> p, delta |-> Behind(p)]
      BY <1>4 DEF Resync
    <2>2. Behind(p) <= Window
      <3>1. CASE conf > p
        BY <1>4, <3>1, <1>1, Sizes
      <3>2. CASE conf <= p
        <4>1. (conf + Window) % U32 \in 0 .. U32 - 1
          BY Sizes, ModIsNat
        <4>2. PICK m : m = (conf + Window) % U32
          OBVIOUS
        <4>3. conf + Window < U32
          <5> SUFFICES ASSUME conf + Window >= U32 PROVE FALSE
            BY Sizes
          <5>1. conf + Window - U32 \in 0 .. U32 - 1
            BY Sizes
          <5>a. PICK s \in Int : s = conf + Window
            BY Sizes
          <5>b. PICK q \in Int : s = q * U32 + (s % U32)
            BY Sizes, Remainder
          <5>2. conf + Window = q * U32 + m
            BY <5>a, <5>b, <4>2
          <5>3. q * U32 + m = 1 * U32 + (conf + Window - U32)
            BY <5>2, Sizes
          <5>4. m = conf + Window - U32
            BY <5>1, <5>3, <4>1, <4>2, OneRemainder, Sizes
          <5> QED BY <5>4, <3>2, <4>2, <1>4, Sizes
        <4>4. m = conf + Window
          BY <4>2, <4>3, Sizes, SmallRemainder
        <4>5. p - conf \in 0 .. Window
          BY <4>4, <4>2, <1>4, <3>2, Sizes
        <4>6. Behind(p) = p - conf
          BY <4>5, Sizes, SmallRemainder DEF Behind
        <4> QED BY <4>5, <4>6
      <3> QED BY <3>1, <3>2, Sizes
    <2> QED BY <2>1, <2>2, <1>1, Sizes
  <1> QED BY <1>2, <1>3, <1>4

\* Between the look at the queue and the sending there is room on the way.
Asking == {"take", "conf", "fill", "granted"}

TypeInv ==
    /\ TmuTypeOK
    /\ (pc["xmit"] \in Asking => path < Path)
    /\ \A t \in Threads : pc[t] = "take" => snap[t].cap > 0
    /\ late <= Path + disturbed

\* What the transmission has is under way.
LEMMA UnderWay ==
    ASSUME TypeInv
    PROVE  /\ Granted \in {0, 1} /\ Under \in Int /\ Under \in 0 .. QSize + Path
           /\ Under = fill + path + Granted
  <1>1. Granted \in {0, 1}
    BY DEF Granted
  <1>2. path \in 0 .. Path /\ fill \in 0 .. QSize
    BY DEF TypeInv, TmuTypeOK
  <1>3. path + Granted <= Path
    BY <1>2, Sizes DEF TypeInv, Granted, Asking
  <1> QED BY <1>1, <1>2, <1>3, Sizes DEF Under

LEMMA LeftOutType ==
    ASSUME TypeInv, NEW p \in 0 .. U32 - 1
    PROVE  LeftOut(p) \in 0 .. U8
  <1>1. uncounted \in 0 .. U8 /\ conf \in 0 .. U32 - 1
    BY DEF TypeInv, TmuTypeOK
  <1>2. PICK a \in Int : a = conf - p
    BY <1>1
  <1>3. PICK b \in 0 .. U32 - 1 : b = a % U32
    BY Sizes, ModIsNat
  <1>4. PICK u \in 0 .. QSize + Path : u = Under
    BY UnderWay
  <1>5. u + b \in Nat /\ U8 \in Nat
    BY <1>3, <1>4, Sizes
  <1> QED BY <1>1, <1>2, <1>3, <1>4, <1>5 DEF LeftOut, Min2

Snaps == [pkts : 0 .. U32 - 1, cap : 0 .. Window, delta : 0 .. Window]

LEMMA TmuTypeInit == TmuInit => TypeInv
  <1> SUFFICES ASSUME TmuInit PROVE TypeInv
    OBVIOUS
  <1>1. NoSnap \in Snaps
    BY Sizes DEF NoSnap, Snaps
  <1>2. snap \in [Threads -> Snaps]
    BY <1>1 DEF TmuInit
  <1>3. pkts \in 0 .. U32 - 1 /\ conf \in 0 .. U32 - 1 /\ cap \in 0 .. Window
    BY Sizes DEF TmuInit
  <1>4. pc \in [Threads -> PcValues]
    BY DEF TmuInit, PcValues
  <1>5. /\ path \in 0 .. Path /\ fill \in 0 .. QSize /\ disturbed \in 0 .. MaxDisturb
        /\ late \in 0 .. Path + MaxDisturb /\ late <= Path + disturbed
    BY Sizes DEF TmuInit
  <1>6. TmuTypeOK
    <2>1. uncounted \in 0 .. U8
      BY Sizes DEF TmuInit
    <2> QED BY <1>2, <1>3, <1>4, <1>5, <2>1 DEF TmuInit, TmuTypeOK, Snaps, PcValues
  <1> QED BY <1>5, <1>6 DEF TmuInit, TypeInv, Threads, Asking

\* What the parts of a step that can go wrong leave behind.
LEMMA ForgetType ==
    ASSUME TypeInv, NEW t \in Threads, Forget(t)
    PROVE  /\ snap' \in [Threads -> Snaps]
           /\ \A u \in Threads \ {t} : snap'[u] = snap[u]
  <1>1. NoSnap \in Snaps
    BY Sizes DEF NoSnap, Snaps
  <1>2. snap \in [Threads -> Snaps]
    BY DEF TypeInv, TmuTypeOK, Snaps
  <1> QED BY <1>1, <1>2 DEF Forget

LEMMA EnterType ==
    ASSUME TypeInv, NEW t \in Threads, Enter(t), t = "xmit" => path < Path,
           queued' \in BOOLEAN, stopped' \in BOOLEAN, full' \in BOOLEAN
    PROVE  TypeInv'
  <1>1. [pkts |-> pkts, cap |-> cap, delta |-> 0] \in Snaps
    BY Sizes DEF TypeInv, TmuTypeOK, Snaps
  <1>2. snap' \in [Threads -> Snaps]
    BY <1>1 DEF TypeInv, TmuTypeOK, Snaps, Enter
  <1>3. pc' \in [Threads -> PcValues]
    BY DEF TypeInv, TmuTypeOK, PcValues, Enter, Moves
  <1>4. raced' \in BOOLEAN
    BY DEF TypeInv, TmuTypeOK, Enter
  <1>5. UNCHANGED <<pkts, cap, path, fill, conf, disturbed, late, robbed, uncounted>>
    BY DEF Enter, hwVars, queueVars
  <1>6. TmuTypeOK'
    BY <1>2, <1>3, <1>4, <1>5 DEF TypeInv, TmuTypeOK, PcValues, Snaps
  <1>7. pc'["xmit"] \in Asking => path' < Path
    BY <1>5 DEF TypeInv, TmuTypeOK, Enter, Moves, Threads
  <1>8. ASSUME NEW u \in Threads, pc'[u] = "take" PROVE snap'[u].cap > 0
    <2>1. CASE u = t
      <3>1. cap > 0 /\ snap'[u].cap = cap
        BY <1>8, <2>1, <1>1 DEF TypeInv, TmuTypeOK, Enter, Moves
      <3> QED BY <3>1
    <2>2. CASE u # t
      BY <1>8, <2>2 DEF TypeInv, TmuTypeOK, Enter, Moves
    <2> QED BY <2>1, <2>2
  <1>9. (late <= Path + disturbed)'
    BY <1>5 DEF TypeInv
  <1> QED BY <1>6, <1>7, <1>8, <1>9 DEF TypeInv

\* A step of a thread that only changes its place and counts, within types.
LEMMA CanTxType ==
    ASSUME TypeInv, NEW t \in Threads, CanTx(t)
    PROVE  TypeInv'
  <1>0. snap[t] \in Snaps /\ pkts \in 0 .. U32 - 1 /\ conf \in 0 .. U32 - 1 /\ cap \in 0 .. Window
    BY DEF TypeInv, TmuTypeOK, Snaps
  <1>1. UNCHANGED <<path, fill, conf, disturbed, queued, stopped, full, robbed>>
    BY DEF CanTx, Take, ReadConf, ReadFill, hwVars, queueVars, netVars, ghosts
  <1>2. pc[t] \in Asking /\ pc' \in [Threads -> PcValues]
    BY DEF CanTx, Take, ReadConf, ReadFill, Moves, TypeInv, TmuTypeOK, PcValues, Asking
  <1>3. pc'[t] # "take" /\ \A u \in Threads \ {t} : pc'[u] = pc[u]
    BY DEF CanTx, Take, ReadConf, ReadFill, Moves, TypeInv, TmuTypeOK
  <1>4. raced' \in BOOLEAN /\ late' \in {late, path}
    BY DEF CanTx, Take, ReadConf, ReadFill, ghosts, TypeInv, TmuTypeOK
  <1>5. /\ pkts' \in 0 .. U32 - 1 /\ cap' \in 0 .. Window /\ snap' \in [Threads -> Snaps]
        /\ \A u \in Threads \ {t} : snap'[u] = snap[u]
    <2>1. CASE Take(t)
      <3>1. snap[t].cap > 0 /\ snap[t].cap \in 0 .. Window /\ snap[t].pkts \in 0 .. U32 - 1
        BY <1>0, <2>1 DEF Take, Moves, TypeInv, Snaps
      <3>2. (snap[t].pkts + 1) % U32 \in 0 .. U32 - 1
        <4>1. PICK a \in Int : a = snap[t].pkts + 1
          BY <3>1
        <4>2. a % U32 \in 0 .. U32 - 1
          BY Sizes, ModIsNat
        <4> QED BY <4>1, <4>2
      <3> QED BY <2>1, <3>1, <3>2, ForgetType, Sizes DEF Take
    <2>2. CASE ReadConf(t)
      <3> DEFINE r == Resync(snap[t].pkts)
                 c == (Window - r.delta) % U8
      <3>1. r.pkts \in 0 .. U32 - 1 /\ r.delta \in 0 .. Window /\ c = Window - r.delta
        <4>1. snap[t].pkts \in 0 .. U32 - 1
          BY <1>0 DEF Snaps
        <4> QED BY <1>0, <4>1, ResyncBounds
      <3>2. cap' = cap
        BY <2>2 DEF ReadConf
      <3>3. CASE c <= MinThr
        <4>1. Forget(t) /\ pkts' = r.pkts
          BY <2>2, <3>3 DEF ReadConf
        <4> HIDE DEF r, c
        <4> QED BY <4>1, <3>1, <3>2, <1>0, ForgetType
      <3>4. CASE ~(c <= MinThr)
        <4>1. /\ snap' = [snap EXCEPT ![t] = [pkts |-> r.pkts, cap |-> c, delta |-> r.delta]]
              /\ pkts' = pkts
          BY <2>2, <3>4 DEF ReadConf
        <4> HIDE DEF r, c
        <4>2. [pkts |-> r.pkts, cap |-> c, delta |-> r.delta] \in Snaps
          BY <3>1, Sizes DEF Snaps
        <4>3. snap \in [Threads -> Snaps]
          BY DEF TypeInv, TmuTypeOK, Snaps
        <4> QED BY <4>1, <4>2, <4>3, <3>2, <1>0
      <3> QED BY <3>3, <3>4
    <2>3. CASE ReadFill(t)
      <3>1. snap[t].cap \in 0 .. Window /\ snap[t].pkts \in 0 .. U32 - 1
        BY <1>0 DEF Snaps
      <3>2. cap' \in {cap, snap[t].cap} /\ pkts' = snap[t].pkts
        BY <2>3 DEF ReadFill
      <3> QED BY <2>3, <3>1, <3>2, <1>0, ForgetType DEF ReadFill
    <2> QED BY <2>1, <2>2, <2>3 DEF CanTx
  <1>6. late' \in 0 .. Path + MaxDisturb /\ late' <= Path + disturbed'
    BY <1>1, <1>4, Sizes DEF TypeInv, TmuTypeOK
  <1>10. uncounted' \in 0 .. U8
    <2>1. uncounted \in 0 .. U8 /\ snap[t].pkts \in 0 .. U32 - 1
      BY <1>0 DEF TypeInv, TmuTypeOK, Snaps
    <2>2. CASE Take(t)
      BY <2>1, <2>2 DEF Take, ghosts
    <2>3. CASE ReadConf(t)
      <3>1. PICK q \in 0 .. U32 - 1 : q = Resync(snap[t].pkts).pkts
        BY <1>0, <2>1, ResyncBounds
      <3>2. uncounted' = uncounted \/ uncounted' = LeftOut(q)
        BY <2>3, <3>1 DEF ReadConf
      <3> QED BY <2>1, <3>2, LeftOutType
    <2>4. CASE ReadFill(t)
      <3>1. PICK q \in 0 .. U32 - 1 : q = snap[t].pkts
        BY <2>1
      <3>2. LeftOut(q) \in 0 .. U8
        BY LeftOutType
      <3>3. uncounted' = LeftOut(q) \/ uncounted' = Min2(LeftOut(q) + 1, U8)
        BY <2>4, <3>1 DEF ReadFill
      <3> QED BY <3>2, <3>3, Sizes DEF Min2
    <2> QED BY <2>2, <2>3, <2>4 DEF CanTx
  <1>7. TmuTypeOK'
    BY <1>1, <1>2, <1>4, <1>5, <1>6, <1>10 DEF TypeInv, TmuTypeOK, PcValues, Snaps
  <1>8. pc'["xmit"] \in Asking => path' < Path
    <2>1. CASE t = "xmit"
      BY <2>1, <1>1, <1>2 DEF TypeInv
    <2>2. CASE t # "xmit"
      BY <2>2, <1>1, <1>3 DEF TypeInv, Threads
    <2> QED BY <2>1, <2>2
  <1>9. ASSUME NEW u \in Threads, pc'[u] = "take" PROVE snap'[u].cap > 0
    BY <1>9, <1>3, <1>5 DEF TypeInv
  <1> QED BY <1>6, <1>7, <1>8, <1>9 DEF TypeInv

LEMMA MoveType ==
    ASSUME TypeInv, Xmit \/ Work
    PROVE  TypeInv'
  <1>1. UNCHANGED <<pkts, cap, snap, fill, conf, late, raced, uncounted>>
    BY DEF Xmit, XmitSend, XmitFails, XmitFull, XmitStop, XmitSchedule, Work, WorkAgain, WorkClear,
           WorkDone, WorkWake, hwVars, queueVars, netVars, ghosts
  <1>2. pc' \in [Threads -> PcValues] /\ \A t \in Threads : pc'[t] \in Asking => pc'[t] = pc[t]
    BY DEF Xmit, XmitSend, XmitFails, XmitFull, XmitStop, XmitSchedule, Work, WorkAgain, WorkClear,
           WorkDone, WorkWake, Moves, TypeInv, TmuTypeOK, PcValues, Asking
  <1>3. /\ queued' \in BOOLEAN /\ stopped' \in BOOLEAN /\ full' \in BOOLEAN /\ robbed' \in BOOLEAN
    BY DEF Xmit, XmitSend, XmitFails, XmitFull, XmitStop, XmitSchedule, Work, WorkAgain, WorkClear,
           WorkDone, WorkWake, netVars, ghosts, TypeInv, TmuTypeOK
  <1>4. path' = path \/ (path' = path + 1 /\ pc["xmit"] = "granted" /\ pc'["xmit"] = "idle")
    BY DEF Xmit, XmitSend, XmitFails, XmitFull, XmitStop, XmitSchedule, Work, WorkAgain, WorkClear,
           WorkDone, WorkWake, Moves, hwVars, queueVars, TypeInv, TmuTypeOK, Threads
  <1>5. disturbed' = disturbed \/ (disturbed < MaxDisturb /\ disturbed' = disturbed + 1)
    BY DEF Xmit, XmitSend, XmitFails, XmitFull, XmitStop, XmitSchedule, Work, WorkAgain, WorkClear,
           WorkDone, WorkWake, hwVars, Disturb
  <1>6. /\ path' \in 0 .. Path /\ disturbed' \in 0 .. MaxDisturb
        /\ (pc'["xmit"] \in Asking => path' < Path)
        /\ late' <= Path + disturbed'
    BY <1>1, <1>2, <1>4, <1>5, Sizes DEF TypeInv, TmuTypeOK, Asking, Threads
  <1>7. TmuTypeOK'
    BY <1>1, <1>2, <1>3, <1>6 DEF TypeInv, TmuTypeOK, PcValues
  <1>8. \A t \in Threads : pc'[t] = "take" => snap'[t].cap > 0
    BY <1>1, <1>2 DEF TypeInv, Asking
  <1> QED BY <1>6, <1>7, <1>8 DEF TypeInv

LEMMA HardwareType ==
    ASSUME TypeInv, LinkFlap \/ Arrive \/ ArriveExternal \/ Transmit
    PROVE  TypeInv'
  <1>1. UNCHANGED <<pkts, cap, pc, snap, queued, full, raced, robbed, uncounted>>
    BY DEF LinkFlap, Arrive, ArriveExternal, Transmit, queueVars, netVars, ghosts
  <1>2. stopped' \in BOOLEAN
    BY DEF LinkFlap, Arrive, ArriveExternal, Transmit, netVars, TypeInv, TmuTypeOK
  <1>3. /\ disturbed' \in 0 .. MaxDisturb /\ late' \in 0 .. Path + MaxDisturb
        /\ late' <= Path + disturbed'
    BY Sizes DEF LinkFlap, Arrive, ArriveExternal, Transmit, ghosts, Disturb, TypeInv, TmuTypeOK
  <1>4. path' \in 0 .. Path /\ path' <= path /\ fill' \in 0 .. QSize
    BY Sizes DEF LinkFlap, Arrive, ArriveExternal, Transmit, queueVars, Min2, TypeInv, TmuTypeOK
  <1>5. conf' \in 0 .. U32 - 1
    <2>1. (conf + 1) % U32 \in 0 .. U32 - 1
      BY Sizes, ModIsNat DEF TypeInv, TmuTypeOK
    <2> QED BY <2>1 DEF LinkFlap, Arrive, ArriveExternal, Transmit, queueVars, TypeInv, TmuTypeOK
  <1>6. TmuTypeOK'
    BY <1>1, <1>2, <1>3, <1>4, <1>5 DEF TypeInv, TmuTypeOK
  <1>7. pc'["xmit"] \in Asking => path' < Path
    <2>1. path \in Int /\ Path \in Int
      BY Sizes DEF TypeInv, TmuTypeOK
    <2> QED BY <1>1, <1>4, <2>1 DEF TypeInv
  <1>8. \A t \in Threads : pc'[t] = "take" => snap'[t].cap > 0
    BY <1>1 DEF TypeInv
  <1> QED BY <1>3, <1>6, <1>7, <1>8 DEF TypeInv

LEMMA TypeKeeps == TypeInv /\ [TmuNext]_tmuVars => TypeInv'
  <1> SUFFICES ASSUME TypeInv, [TmuNext]_tmuVars PROVE TypeInv'
    OBVIOUS
  <1>1. CASE XmitEnter
    <2>1. path < Path /\ UNCHANGED netVars
      BY <1>1 DEF XmitEnter
    <2>2. queued' \in BOOLEAN /\ stopped' \in BOOLEAN /\ full' \in BOOLEAN
      BY <2>1 DEF TypeInv, TmuTypeOK, netVars
    <2> QED BY <1>1, <2>1, <2>2, EnterType DEF XmitEnter, Threads
  <1>2. CASE WorkEnter
    <2>1. queued' \in BOOLEAN /\ stopped' \in BOOLEAN /\ full' \in BOOLEAN
      BY <1>2 DEF WorkEnter, TypeInv, TmuTypeOK
    <2> QED BY <1>2, <2>1, EnterType DEF WorkEnter, Threads
  <1>3. ASSUME NEW t \in Threads, CanTx(t) PROVE TypeInv'
    BY <1>3, CanTxType
  <1>4. CASE Xmit \/ Work
    BY <1>4, MoveType
  <1>5. CASE LinkFlap \/ Arrive \/ ArriveExternal \/ Transmit
    BY <1>5, HardwareType
  <1>6. CASE UNCHANGED tmuVars
    BY <1>6 DEF tmuVars, hwVars, queueVars, netVars, ghosts, TypeInv, TmuTypeOK
  <1> QED BY <1>1, <1>2, <1>3, <1>4, <1>5, <1>6 DEF TmuNext

\* The counts, the credit, the positions in the code and the ghosts keep their
\* types, whatever disturbs them: no credit exceeds the window, no adjusted
\* distance does, and the unsigned subtraction of it from the window does not
\* wrap (pfeng_tmu_can_tx).
THEOREM TmuTypeCorrect == TmuSpec => []TmuTypeOK
  <1>1. TypeInv => TmuTypeOK
    BY DEF TypeInv
  <1> QED BY <1>1, TmuTypeInit, TypeKeeps, PTL DEF TmuSpec

-----------------------------------------------------------------------------
(* The count                                                               *)

\* A count p is ahead of cf transmitted frames by as many as are under way, u,
\* or by up to k less, and with the credit c by no more than the window.
Counted(p, cf, u, c, k) ==
    \E d \in Int : /\ p = (cf + d) % U32
                   /\ d + c <= Window
                   /\ u - k <= d /\ d <= u

LEMMA ModShift ==
    ASSUME NEW n \in Nat \ {0}, NEW a \in Int, NEW b \in Int
    PROVE  ((a % n) + b) % n = (a + b) % n
  <1>1. PICK q \in Int : a = q * n + (a % n) /\ a % n \in 0 .. n - 1
    BY Remainder
  <1>2. PICK r : r = a % n
    OBVIOUS
  <1>3. PICK s \in Int : s = r + b
    BY <1>1, <1>2
  <1>4. PICK e \in Int : e = a + b
    OBVIOUS
  <1>5. PICK qs \in Int : s = qs * n + (s % n) /\ s % n \in 0 .. n - 1
    BY Remainder
  <1>6. PICK qe \in Int : e = qe * n + (e % n) /\ e % n \in 0 .. n - 1
    BY Remainder
  <1>7. PICK x \in 0 .. n - 1, y \in 0 .. n - 1 : x = s % n /\ y = e % n
    BY <1>5, <1>6
  <1>8. e = q * n + s
    BY <1>1, <1>2, <1>3, <1>4
  <1>9. (q + qs) * n + x = qe * n + y
    <2>1. (q + qs) * n = q * n + qs * n
      OBVIOUS
    <2>2. s = qs * n + x
      BY <1>5, <1>7
    <2>3. e = qe * n + y
      BY <1>6, <1>7
    <2>4. q * n \in Int /\ qs * n \in Int /\ qe * n \in Int
      OBVIOUS
    <2> QED BY <2>1, <2>2, <2>3, <2>4, <1>8
  <1>10. x = y
    BY <1>9, OneRemainder
  <1> QED BY <1>2, <1>3, <1>4, <1>7, <1>10

\* Differences modulo U8 tell what the counters modulo U32 do.
LEMMA Distance ==
    ASSUME NEW a \in Int, NEW d \in Int
    PROVE  (((a + d) % U32) - a) % U8 = d % U8
  <1>1. PICK e \in Int : e = a + d
    OBVIOUS
  <1>2. PICK q \in Int : e = q * U32 + (e % U32) /\ e % U32 \in 0 .. U32 - 1
    BY Remainder, Sizes
  <1>3. PICK m \in Int : U32 = m * U8
    <2>1. U32 \in Int /\ U8 \in Nat \ {0} /\ U32 % U8 = 0
      BY Sizes, CreditAssumption
    <2>2. PICK m \in Int : U32 = m * U8 + (U32 % U8)
      BY <2>1, Remainder
    <2> QED BY <2>1, <2>2
  <1>4. PICK s \in Int : s = (e % U32) - a
    BY <1>2
  <1>5. s = d - (q * m) * U8 /\ q * m \in Int
    <2>1. s = d - q * U32
      BY <1>1, <1>2, <1>4, Sizes
    <2>2. q * U32 = (q * m) * U8
      BY <1>3, Sizes
    <2> QED BY <2>1, <2>2
  <1>6. PICK z \in Int : z = q * m
    BY <1>5
  <1>7. PICK qs \in Int : s = qs * U8 + (s % U8) /\ s % U8 \in 0 .. U8 - 1
    BY Remainder, Sizes
  <1>8. PICK qd \in Int : d = qd * U8 + (d % U8) /\ d % U8 \in 0 .. U8 - 1
    BY Remainder, Sizes
  <1>9. PICK x \in 0 .. U8 - 1, y \in 0 .. U8 - 1 : x = s % U8 /\ y = d % U8
    BY <1>7, <1>8
  <1>10. (qs + z) * U8 + x = qd * U8 + y
    <2>1. (qs + z) * U8 = qs * U8 + z * U8
      BY Sizes
    <2> QED BY <2>1, <1>5, <1>6, <1>7, <1>8, <1>9, Sizes
  <1>11. x = y
    BY <1>10, OneRemainder, Sizes
  <1> QED BY <1>1, <1>4, <1>9, <1>11

LEMMA CountedTransmit ==
    ASSUME NEW p \in Int, NEW cf \in Int, NEW u \in Int, NEW c \in Int, NEW k \in Int,
           Counted(p, cf, u, c, k)
    PROVE  Counted(p, (cf + 1) % U32, u - 1, c, k)
  <1>1. PICK d \in Int : p = (cf + d) % U32 /\ d + c <= Window /\ u - k <= d /\ d <= u
    BY DEF Counted
  <1>2. PICK f \in Int : f = cf + 1
    OBVIOUS
  <1>3. PICK e \in Int : e = d - 1
    OBVIOUS
  <1>4. ((f % U32) + e) % U32 = (f + e) % U32
    BY ModShift, Sizes
  <1>5. f + e = cf + d
    BY <1>2, <1>3
  <1>6. p = ((f % U32) + e) % U32
    BY <1>1, <1>4, <1>5
  <1>7. e + c <= Window /\ (u - 1) - k <= e /\ e <= u - 1
    BY <1>1, <1>3, Sizes
  <1>8. Counted(p, f % U32, u - 1, c, k)
    BY <1>6, <1>7 DEF Counted
  <1> QED BY <1>2, <1>8

LEMMA CountedDrop ==
    ASSUME NEW p \in Int, NEW cf \in Int, NEW u \in Int, NEW c \in Nat, NEW k \in Int,
           Counted(p, cf, u, c, k), Window < u
    PROVE  Counted(p, cf, u - 1, c, k)
  <1>1. PICK d \in Int : p = (cf + d) % U32 /\ d + c <= Window /\ u - k <= d /\ d <= u
    BY DEF Counted
  <1>2. (u - 1) - k <= d /\ d <= u - 1
    BY <1>1, Sizes
  <1> QED BY <1>1, <1>2 DEF Counted

LEMMA CountedTake ==
    ASSUME NEW p \in Int, NEW cf \in Int, NEW u \in Int, NEW c \in Int, NEW k \in Int,
           Counted(p, cf, u, c, k)
    PROVE  Counted((p + 1) % U32, cf, u + 1, c - 1, k)
  <1>1. PICK d \in Int : p = (cf + d) % U32 /\ d + c <= Window /\ u - k <= d /\ d <= u
    BY DEF Counted
  <1>2. PICK e \in Int : e = d + 1
    OBVIOUS
  <1>3. PICK f \in Int : f = cf + d
    OBVIOUS
  <1>4. ((f % U32) + 1) % U32 = (f + 1) % U32
    <2>1. PICK b \in Int : b = 1
      OBVIOUS
    <2>2. ((f % U32) + b) % U32 = (f + b) % U32
      BY ModShift, Sizes
    <2> QED BY <2>1, <2>2
  <1>5. (p + 1) % U32 = (cf + e) % U32
    <2>1. f + 1 = cf + e
      BY <1>2, <1>3
    <2> QED BY <1>1, <1>3, <1>4, <2>1
  <1>6. e + (c - 1) <= Window /\ (u + 1) - k <= e /\ e <= u + 1
    BY <1>1, <1>2, Sizes
  <1> QED BY <1>5, <1>6 DEF Counted

LEMMA CountedLess ==
    ASSUME NEW p, NEW cf, NEW u \in Int, NEW c \in Int, NEW k \in Int,
           NEW c2 \in Int, NEW k2 \in Int, Counted(p, cf, u, c, k), c2 <= c, k <= k2
    PROVE  Counted(p, cf, u, c2, k2)
  <1>1. PICK d \in Int : p = (cf + d) % U32 /\ d + c <= Window /\ u - k <= d /\ d <= u
    BY DEF Counted
  <1>2. d + c2 <= Window /\ u - k2 <= d
    BY <1>1, Sizes
  <1> QED BY <1>1, <1>2 DEF Counted

\* The frame that asks for new credit is not counted.
LEMMA CountedGrant ==
    ASSUME NEW p, NEW cf, NEW u \in Int, NEW c \in Int, NEW k \in Int,
           Counted(p, cf, u, c, k)
    PROVE  Counted(p, cf, u + 1, c, k + 1)
  <1>1. PICK d \in Int : p = (cf + d) % U32 /\ d + c <= Window /\ u - k <= d /\ d <= u
    BY DEF Counted
  <1>2. (u + 1) - (k + 1) <= d /\ d <= u + 1
    BY <1>1
  <1> QED BY <1>1, <1>2 DEF Counted

\* A count that is behind leaves out what is under way and what has been
\* transmitted since it was right.
LEMMA CountedAnew ==
    ASSUME NEW p \in 0 .. U32 - 1, NEW cf \in 0 .. U32 - 1, NEW u \in Nat,
           NEW c \in 0 .. Window
    PROVE  Counted(p, cf, u, c, u + ((cf - p) % U32))
  <1>1. PICK a \in Int : a = cf - p
    OBVIOUS
  <1>2. PICK x \in 0 .. U32 - 1 : x = a % U32
    BY Sizes, ModIsNat
  <1>3. PICK q \in Int : a = q * U32 + x
    BY <1>2, Remainder, Sizes
  <1>4. PICK d \in Int : d = -x
    OBVIOUS
  <1>5. PICK e \in Int : e = cf + d
    OBVIOUS
  <1>6. PICK q2 \in Int : e = q2 * U32 + (e % U32) /\ e % U32 \in 0 .. U32 - 1
    BY Remainder, Sizes
  <1>7. PICK y \in 0 .. U32 - 1 : y = e % U32
    BY <1>6
  <1>8. q2 * U32 + y = q * U32 + p
    <2>1. PICK m \in Int : m = q * U32
      BY Sizes
    <2>2. e = m + p
      BY <1>1, <1>3, <1>4, <1>5, <2>1
    <2> QED BY <1>6, <1>7, <2>1, <2>2
  <1>9. p = (cf + d) % U32
    BY <1>5, <1>7, <1>8, OneRemainder, Sizes
  <1>10. d + c <= Window /\ u - (u + x) <= d /\ d <= u
    BY <1>2, <1>4, Sizes
  <1>11. Counted(p, cf, u, c, u + x)
    BY <1>9, <1>10 DEF Counted
  <1> QED BY <1>1, <1>2, <1>11

\* A count that needs no adjustment goes with the credit that is computed from
\* it.  That an empty queue gives none takes a lag which the difference cannot
\* tell.
LEMMA CountedResync ==
    ASSUME NEW p \in 0 .. U32 - 1, conf \in 0 .. U32 - 1, NEW u \in Nat, NEW k \in Nat,
           Counted(p, conf, u, 0, k), Resync(p).pkts = p
    PROVE  /\ Counted(p, conf, u, Window - Resync(p).delta, k)
           /\ u = 0 /\ Window > 0 /\ Window - Resync(p).delta <= MinThr => k >= U8 - Window
  <1>0. PICK d \in Int : p = (conf + d) % U32 /\ d + 0 <= Window /\ u - k <= d /\ d <= u
    BY DEF Counted
  <1>1. Behind(p) = d % U8
    BY <1>0, Distance DEF Behind
  <1>2. PICK r \in 0 .. U8 - 1 : r = d % U8
    BY ModIsNat, Sizes
  <1>3. PICK q \in Int : d = q * U8 + r
    BY <1>2, Remainder, Sizes
  <1>4. PICK m \in Int : m = q * U8
    BY Sizes
  <1>5. /\ q = 0 => m = 0
        /\ q > 0 => m >= U8
        /\ q < 0 => m <= -U8
    <2>1. q = 0 => m = 0
      BY <1>4, Sizes
    <2>2. q > 0 => m >= U8
      BY <1>4, Sizes
    <2>3. q < 0 => m <= -U8
      BY <1>4, Sizes
    <2> QED BY <2>1, <2>2, <2>3
  <1>6. d = m + r /\ d <= Window /\ Window < U8 /\ U8 \in Nat /\ Window \in Nat
    BY <1>0, <1>3, <1>4, Sizes
  <1>7. m <= 0 /\ (m = 0 \/ m <= -U8)
    BY <1>5, <1>6
  <1>8. CASE Resync(p) = [pkts |-> p, delta |-> Behind(p)]
    <2>1. Resync(p).delta = r
      BY <1>1, <1>2, <1>8
    <2>2. d + (Window - r) <= Window
      BY <1>6, <1>7
    <2>3. Counted(p, conf, u, Window - r, k)
      BY <1>0, <2>2 DEF Counted
    <2>4. ASSUME u = 0, Window > 0, Window - r <= MinThr PROVE k >= U8 - Window
      <3>1. r > 0 /\ d <= 0 /\ -k <= d
        BY <1>0, <2>4, Sizes
      <3>2. m <= -U8
        BY <1>6, <1>7, <3>1
      <3>3. -k <= m + r
        BY <1>6, <3>1
      <3>4. r <= Window
        <4>1. Resync(p).delta \in 0 .. Window
          BY ResyncBounds
        <4> QED BY <2>1, <4>1
      <3> QED BY <1>6, <3>2, <3>3, <3>4
    <2> QED BY <2>1, <2>3, <2>4
  <1>9. CASE Resync(p) # [pkts |-> p, delta |-> Behind(p)]
    <2>1. Resync(p) = [pkts |-> conf, delta |-> 0]
      BY <1>9 DEF Resync
    <2>2. p = conf /\ Resync(p).delta = 0
      BY <2>1
    <2>3. r = 0
      <3>1. p - conf = 0 /\ 0 \in 0 .. U8 - 1
        BY <2>2, Sizes
      <3>2. 0 % U8 = 0
        BY <3>1, SmallRemainder, Sizes
      <3> QED BY <1>1, <1>2, <3>1, <3>2 DEF Behind
    <2>4. d <= 0 /\ u - k <= 0 /\ 0 <= u /\ 0 + (Window - 0) <= Window
      BY <1>0, <1>6, <1>7, <2>3
    <2>5. (conf + 0) % U32 = conf
      BY SmallRemainder, Sizes
    <2>6. \E e \in Int : /\ p = (conf + e) % U32 /\ e + (Window - 0) <= Window
                         /\ u - k <= e /\ e <= u
      BY <2>2, <2>4, <2>5
    <2>7. Counted(p, conf, u, Window - 0, k)
      BY <2>6 DEF Counted
    <2>8. ~(Window > 0 /\ Window - 0 <= MinThr)
      BY Sizes
    <2> QED BY <2>2, <2>7, <2>8
  <1> QED BY <1>8, <1>9

\* Undisturbed, the stopped queue keeps transmission and work apart ...
Turns ==
    /\ (pc["xmit"] \notin {"idle", "schedule"} => ~stopped)
    /\ (pc["xmit"] = "schedule" => stopped)
    /\ (~stopped \/ pc["xmit"] # "idle") => (pc["work"] = "idle" /\ ~queued)
    /\ (pc["work"] # "idle" => ~queued)

\* ... the work finds the credit used up, as does who computes a new one ...
Spent ==
    /\ (queued => cap = 0)
    /\ pc["work"] # "take"
    /\ \A t \in Threads : pc[t] \in {"conf", "fill", "refused", "stop", "schedule"} => cap = 0

\* ... and what has been read of the count and the credit is up to date.
Current ==
    \A t \in Threads :
        /\ (pc[t] \in {"take", "conf"} => snap[t].pkts = pkts)
        /\ (pc[t] = "take" => snap[t].cap = cap)

\* ... and the count is ahead of the frames transmitted by those under way, but
\* for the uncounted.  So is one that has been read and was right.
Counts ==
    uncounted < U8 =>
        /\ Counted(pkts, conf, Under, cap, uncounted)
        /\ \A t \in Threads : pc[t] = "fill" /\ snap[t].pkts = pkts =>
              Counted(pkts, conf, Under, snap[t].cap, uncounted)

Control == Turns /\ Spent /\ Current

CountInv == disturbed = 0 => Control /\ Counts

LEMMA Moment ==
    ASSUME TypeInv
    PROVE  /\ pc \in [Threads -> PcValues] /\ snap \in [Threads -> Snaps]
           /\ queued \in BOOLEAN /\ stopped \in BOOLEAN /\ full \in BOOLEAN
           /\ "xmit" \in Threads /\ "work" \in Threads
           /\ cap \in 0 .. Window /\ pkts \in 0 .. U32 - 1 /\ conf \in 0 .. U32 - 1
           /\ path \in 0 .. Path /\ fill \in 0 .. QSize
           /\ disturbed \in Nat /\ uncounted \in 0 .. U8
  BY Sizes DEF TypeInv, TmuTypeOK, PcValues, Snaps, Threads

\* One thread at most is at work.
LEMMA OneAtWork ==
    ASSUME TypeInv, Turns, NEW t \in Threads, pc[t] # "idle", NEW u \in Threads \ {t}
    PROVE  pc[u] = "idle"
  BY Moment DEF Turns, Threads

LEMMA EnterControl ==
    ASSUME TypeInv, Control, XmitEnter \/ WorkEnter
    PROVE  Control'
  <1>1. /\ pkts' = pkts /\ cap' = cap /\ stopped' = stopped
        /\ (queued' = queued \/ queued' = FALSE)
    BY Moment DEF XmitEnter, WorkEnter, Enter, netVars
  <1>2. CASE XmitEnter
    <2>1. pc["work"] = "idle" /\ ~queued /\ ~stopped /\ queued' = queued /\ pc["xmit"] = "idle"
      BY <1>2 DEF XmitEnter, Enter, Moves, Control, Turns, netVars
    <2>2. /\ pc'["work"] = "idle" /\ pc'["xmit"] = IF cap > 0 THEN "take" ELSE "conf"
          /\ snap'["xmit"] = [pkts |-> pkts, cap |-> cap, delta |-> 0]
      BY <1>2, <2>1, Moment DEF XmitEnter, Enter, Moves, Threads
    <2>3. Turns'
      BY <1>1, <2>1, <2>2 DEF Turns
    <2>4. Spent' /\ Current'
      BY <1>1, <2>1, <2>2, Moment, Sizes DEF Spent, Current, Threads
    <2> QED BY <2>3, <2>4 DEF Control
  <1>3. CASE WorkEnter
    <2>1. pc["work"] = "idle" /\ queued /\ stopped /\ ~queued' /\ cap = 0 /\ pc["xmit"] = "idle"
      BY <1>3, Moment DEF WorkEnter, Enter, Moves, Control, Turns, Spent
    <2>2. /\ pc'["xmit"] = "idle" /\ pc'["work"] = "conf"
          /\ snap'["work"] = [pkts |-> pkts, cap |-> cap, delta |-> 0]
      BY <1>3, <2>1, Moment DEF WorkEnter, Enter, Moves, Threads
    <2>3. Turns'
      BY <1>1, <2>1, <2>2 DEF Turns
    <2>4. Spent' /\ Current'
      BY <1>1, <2>1, <2>2, Moment, Sizes DEF Spent, Current, Threads
    <2> QED BY <2>3, <2>4 DEF Control
  <1> QED BY <1>2, <1>3

LEMMA CanTxControl ==
    ASSUME TypeInv, Control, NEW t \in Threads, CanTx(t)
    PROVE  Control'
  <1>1. /\ queued' = queued /\ stopped' = stopped
        /\ pc[t] \in {"take", "conf", "fill"}
    BY DEF CanTx, Take, ReadConf, ReadFill, Moves, netVars
  <1>2. /\ pc'[t] \in {"fill", "refused", "granted"}
        /\ \A u \in Threads \ {t} : pc'[u] = "idle"
    BY <1>1, OneAtWork, Moment DEF CanTx, Take, ReadConf, ReadFill, Moves, Control
  <1>3. pc'[t] \in {"fill", "refused"} => cap' = cap /\ cap = 0
    BY <1>1, Moment DEF CanTx, Take, ReadConf, ReadFill, Moves, Control, Spent
  <1>4. ~queued
    BY <1>1, Moment DEF Control, Turns, Threads
  <1>5. pc[t] # "idle" /\ \A u \in Threads \ {t} : pc[u] = "idle"
    BY <1>1, OneAtWork DEF Control
  <1>6. Turns'
    <2>1. CASE t = "xmit"
      <3>1. ~stopped /\ pc'["work"] = "idle"
        BY <1>1, <1>2, <2>1 DEF Control, Turns, Threads
      <3> QED BY <1>1, <1>2, <1>4, <2>1, <3>1 DEF Turns
    <2>2. CASE t = "work"
      <3>1. stopped /\ pc'["xmit"] = "idle"
        BY <1>1, <1>2, <2>2, Moment DEF Control, Turns, Threads
      <3> QED BY <1>1, <1>2, <1>4, <2>2, <3>1 DEF Turns
    <2> QED BY <2>1, <2>2 DEF Threads
  <1>7. Spent'
    <2>1. pc'["work"] # "take"
      BY <1>2, Moment
    <2>2. ~queued'
      BY <1>1, <1>4
    <2>3. ASSUME NEW u \in Threads, pc'[u] \in {"conf", "fill", "refused", "stop", "schedule"}
          PROVE  cap' = 0
      <3>1. u = t
        BY <1>2, <2>3
      <3> QED BY <1>2, <1>3, <2>3, <3>1
    <2> QED BY <2>1, <2>2, <2>3 DEF Spent
  <1>8. Current'
    BY <1>2 DEF Current
  <1> QED BY <1>6, <1>7, <1>8 DEF Control

LEMMA XmitControl ==
    ASSUME TypeInv, Control, Xmit
    PROVE  Control'
  <1>1. cap' = cap /\ pkts' = pkts
    BY DEF Xmit, XmitSend, XmitFails, XmitFull, XmitStop, XmitSchedule
  <1>2. /\ pc["work"] = "idle" /\ pc["xmit"] # "idle" /\ ~queued
        /\ pc'["work"] = "idle"
    BY Moment DEF Control, Turns, Xmit, XmitSend, XmitFails, XmitFull, XmitStop, XmitSchedule, Moves
  <1>3. CASE XmitSend \/ XmitFails
    <2>1. pc'["xmit"] = "idle" /\ queued' = queued /\ stopped' = stopped /\ ~stopped
      BY <1>3, Moment DEF XmitSend, XmitFails, Moves, netVars, Control, Turns
    <2> QED BY <1>1, <1>2, <2>1 DEF Control, Turns, Spent, Current, Threads
  <1>4. CASE XmitFull
    <2>1. pc'["xmit"] = "stop" /\ queued' = queued /\ stopped' = stopped /\ ~stopped /\ cap = 0
      BY <1>4, Moment DEF XmitFull, Moves, Control, Turns, Spent
    <2> QED BY <1>1, <1>2, <2>1 DEF Control, Turns, Spent, Current, Threads
  <1>5. CASE XmitStop
    <2>1. pc'["xmit"] = "schedule" /\ queued' = queued /\ stopped' = TRUE /\ cap = 0
      BY <1>5, Moment DEF XmitStop, Moves, Control, Spent
    <2> QED BY <1>1, <1>2, <2>1 DEF Control, Turns, Spent, Current, Threads
  <1>6. CASE XmitSchedule
    <2>1. pc'["xmit"] = "idle" /\ stopped' = stopped /\ stopped /\ cap = 0
      BY <1>6, Moment DEF XmitSchedule, Moves, Control, Turns, Spent
    <2> QED BY <1>1, <1>2, <2>1 DEF Control, Turns, Spent, Current, Threads
  <1> QED BY <1>3, <1>4, <1>5, <1>6 DEF Xmit

LEMMA WorkControl ==
    ASSUME TypeInv, Control, Work
    PROVE  Control'
  <1>1. cap' = cap /\ pkts' = pkts
    BY DEF Work, WorkAgain, WorkClear, WorkDone, WorkWake
  <1>2. /\ pc["work"] # "idle" /\ pc["xmit"] = "idle" /\ ~queued /\ stopped
        /\ pc'["xmit"] = "idle"
    BY Moment DEF Control, Turns, Work, WorkAgain, WorkClear, WorkDone, WorkWake, Moves
  <1>3. CASE WorkAgain
    <2>1. pc'["work"] = "idle" /\ stopped' = stopped /\ cap = 0
      BY <1>3, Moment DEF WorkAgain, Moves, Control, Spent
    <2> QED BY <1>1, <1>2, <2>1 DEF Control, Turns, Spent, Current, Threads
  <1>4. CASE WorkClear
    <2>1. pc'["work"] = "wake" /\ stopped' = stopped /\ queued' = queued
      BY <1>4, Moment DEF WorkClear, Moves
    <2> QED BY <1>1, <1>2, <2>1 DEF Control, Turns, Spent, Current, Threads
  <1>5. CASE WorkDone \/ WorkWake
    <2>1. pc'["work"] = "idle" /\ queued' = queued
      BY <1>5, Moment DEF WorkDone, WorkWake, Moves, netVars
    <2> QED BY <1>1, <1>2, <2>1 DEF Control, Turns, Spent, Current, Threads
  <1> QED BY <1>3, <1>4, <1>5 DEF Work

\* Steps that neither count nor move frames, but for one that is sent.
LEMMA CountsStay ==
    ASSUME Counts, UNCHANGED <<pkts, conf, cap, uncounted>>, Under' = Under,
           \A t \in Threads : pc'[t] = "fill" => pc[t] = "fill" /\ snap'[t] = snap[t]
    PROVE  Counts'
  <1> SUFFICES ASSUME uncounted' < U8
               PROVE  /\ Counted(pkts', conf', Under', cap', uncounted')
                      /\ \A t \in Threads : pc'[t] = "fill" /\ snap'[t].pkts = pkts' =>
                            Counted(pkts', conf', Under', snap'[t].cap, uncounted')
    BY DEF Counts
  <1>1. Counted(pkts', conf', Under', cap', uncounted')
    BY DEF Counts
  <1>2. ASSUME NEW t \in Threads, pc'[t] = "fill", snap'[t].pkts = pkts'
        PROVE  Counted(pkts', conf', Under', snap'[t].cap, uncounted')
    <2>1. pc[t] = "fill" /\ snap'[t] = snap[t] /\ snap[t].pkts = pkts
      BY <1>2
    <2>2. Counted(pkts, conf, Under, snap[t].cap, uncounted)
      BY <2>1 DEF Counts
    <2> QED BY <2>1, <2>2
  <1> QED BY <1>1, <1>2

LEMMA EnterCounts ==
    ASSUME TypeInv, Counts, XmitEnter \/ WorkEnter
    PROVE  Counts'
  <1>1. UNCHANGED <<pkts, conf, cap, fill, path, uncounted>>
    BY DEF XmitEnter, WorkEnter, Enter, hwVars, queueVars
  <1>2. PICK t \in Threads : Enter(t)
    BY DEF XmitEnter, WorkEnter, Threads
  <1>3. /\ pc'[t] \in {"take", "conf"} /\ pc[t] = "idle"
        /\ \A u \in Threads \ {t} : pc'[u] = pc[u] /\ snap'[u] = snap[u]
    BY <1>2, Moment DEF Enter, Moves
  <1>4. Granted' = Granted
    BY <1>3, Moment DEF Granted
  <1>5. Under' = Under
    BY <1>1, <1>4 DEF Under
  <1>6. \A u \in Threads : pc'[u] = "fill" => pc[u] = "fill" /\ snap'[u] = snap[u]
    BY <1>3
  <1> QED BY <1>1, <1>5, <1>6, CountsStay

LEMMA MoveCounts ==
    ASSUME TypeInv, Counts, XmitSend \/ XmitFull \/ XmitStop \/ XmitSchedule \/ Work
    PROVE  Counts'
  <1>1. UNCHANGED <<pkts, conf, cap, fill, snap, uncounted>>
    BY DEF XmitSend, XmitFull, XmitStop, XmitSchedule, Work, WorkAgain, WorkClear,
           WorkDone, WorkWake, hwVars, queueVars, ghosts
  <1>2. path' + Granted' = path + Granted
    <2>1. CASE XmitSend
      <3>1. Granted = 1 /\ Granted' = 0 /\ path' = path + 1
        BY <2>1, Moment DEF XmitSend, Moves, Granted
      <3> QED BY <3>1, Moment, Sizes
    <2>2. CASE XmitFull \/ XmitStop \/ XmitSchedule
      BY <2>2, Moment DEF XmitFull, XmitStop, XmitSchedule, Moves, Granted, hwVars, queueVars
    <2>3. CASE Work
      BY <2>3, Moment DEF Work, WorkAgain, WorkClear, WorkDone, WorkWake, Moves, Granted,
         hwVars, queueVars
    <2> QED BY <2>1, <2>2, <2>3
  <1>3. Granted \in {0, 1} /\ Granted' \in {0, 1}
    BY DEF Granted
  <1>4. path \in Int /\ path' \in Int /\ fill \in Int
    BY <1>1, Moment, Sizes DEF XmitSend, XmitFull, XmitStop, XmitSchedule, Work, WorkAgain,
       WorkClear, WorkDone, WorkWake, hwVars, queueVars
  <1>5. Under' = Under
    <2>1. PICK g \in {0, 1} : g = Granted
      BY <1>3
    <2>2. PICK h \in {0, 1} : h = Granted'
      BY <1>3
    <2>3. PICK a \in Int, b \in Int : a = path /\ b = path'
      BY <1>4
    <2>4. b + h = a + g
      BY <1>2, <2>1, <2>2, <2>3
    <2>5. PICK f \in Int : f = fill /\ f = fill'
      BY <1>1, <1>4
    <2>6. f + b + h = f + a + g
      BY <2>4
    <2> QED BY <2>1, <2>2, <2>3, <2>5, <2>6 DEF Under
  <1>6. \A t \in Threads : pc'[t] = "fill" => pc[t] = "fill" /\ snap'[t] = snap[t]
    BY <1>1, Moment DEF XmitSend, XmitFull, XmitStop, XmitSchedule, Work, WorkAgain, WorkClear,
       WorkDone, WorkWake, Moves
  <1> QED BY <1>1, <1>5, <1>6, CountsStay

LEMMA TakeCounts ==
    ASSUME TypeInv, Control, Counts, NEW t \in Threads, Take(t)
    PROVE  Counts'
  <1>1. pc[t] = "take" /\ t = "xmit"
    BY DEF Take, Moves, Control, Spent, Threads
  <1>2. snap[t].pkts = pkts /\ snap[t].cap = cap
    BY <1>1 DEF Control, Current
  <1>3. cap' = cap - 1 /\ pkts' = (pkts + 1) % U32 /\ UNCHANGED <<conf, fill, path, uncounted>>
    BY <1>2 DEF Take, hwVars, queueVars, ghosts
  <1>4. Granted = 0 /\ Granted' = 1
    BY <1>1, Moment DEF Take, Moves, Granted
  <1>5. Under' = Under + 1
    BY <1>3, <1>4, Moment, Sizes DEF Under
  <1>6. ASSUME uncounted < U8
        PROVE  Counted((pkts + 1) % U32, conf, Under + 1, cap - 1, uncounted)
    <2>1. PICK p \in Int, cf \in Int, u \in Int, c \in Int, k \in Int :
             p = pkts /\ cf = conf /\ u = Under /\ c = cap /\ k = uncounted
      BY Moment, UnderWay, Sizes
    <2>2. Counted(p, cf, u, c, k)
      BY <1>6, <2>1 DEF Counts
    <2>3. Counted((p + 1) % U32, cf, u + 1, c - 1, k)
      BY <2>2, CountedTake
    <2> QED BY <2>1, <2>3
  <1>7. \A u \in Threads : pc'[u] # "fill"
    <2>1. pc'[t] = "granted" /\ \A u \in Threads \ {t} : pc'[u] = pc[u] /\ pc[u] = "idle"
      BY <1>1, OneAtWork, Moment DEF Take, Moves, Control
    <2> QED BY <2>1
  <1> QED BY <1>3, <1>5, <1>6, <1>7 DEF Counts

\* What a thread has computed goes together.
LEMMA CountedLeftOut ==
    ASSUME TypeInv, NEW p \in 0 .. U32 - 1, NEW c \in 0 .. Window, LeftOut(p) < U8,
           p = pkts /\ uncounted < U8 => Counted(pkts, conf, Under, c, uncounted)
    PROVE  Counted(p, conf, Under, c, LeftOut(p))
  <1>1. CASE p = pkts
    BY <1>1 DEF LeftOut
  <1>2. CASE p # pkts
    <2>1. PICK cf \in 0 .. U32 - 1, u \in Nat : cf = conf /\ u = Under
      BY Moment, UnderWay, Sizes
    <2>2. PICK a \in Int : a = cf - p
      OBVIOUS
    <2>3. PICK x \in 0 .. U32 - 1 : x = a % U32
      BY Sizes, ModIsNat
    <2>4. LeftOut(p) = Min2(u + x, U8)
      BY <1>2, <2>1, <2>2, <2>3 DEF LeftOut
    <2>5. LeftOut(p) = u + x
      BY <2>3, <2>4, Sizes DEF Min2
    <2>6. Counted(p, cf, u, c, u + ((cf - p) % U32))
      BY CountedAnew
    <2> QED BY <2>1, <2>2, <2>3, <2>5, <2>6
  <1> QED BY <1>1, <1>2

LEMMA ReadConfCounts ==
    ASSUME TypeInv, Control, Counts, NEW t \in Threads, ReadConf(t)
    PROVE  Counts'
  <1> DEFINE r == Resync(snap[t].pkts)
             c == (Window - r.delta) % U8
  <1>1. pc[t] = "conf" /\ cap = 0 /\ snap[t].pkts = pkts
    BY DEF ReadConf, Moves, Control, Spent, Current
  <1>2. UNCHANGED <<cap, conf, fill, path>>
    BY DEF ReadConf, hwVars, queueVars
  <1>3. /\ pc'[t] \in {"refused", "fill"}
        /\ \A u \in Threads \ {t} : pc'[u] = pc[u] /\ pc[u] = "idle"
    BY <1>1, OneAtWork, Moment DEF ReadConf, Moves, Control
  <1>4. Granted = 0 /\ Granted' = 0
    BY <1>1, <1>3, Moment DEF Granted
  <1>5. Under' = Under
    BY <1>2, <1>4 DEF Under
  <1>6. PICK p \in 0 .. U32 - 1, u \in Nat, k \in Nat : p = pkts /\ u = Under /\ k = uncounted
    BY Moment, UnderWay, Sizes
  <1>7. uncounted < U8 => Counted(p, conf, u, 0, k)
    BY <1>1, <1>6 DEF Counts
  <1>8. r = Resync(p)
    BY <1>1, <1>6
  <1>9. c = Window - r.delta /\ r.delta \in 0 .. Window /\ r.pkts \in 0 .. U32 - 1
    BY <1>8, Moment, ResyncBounds
  <1>10. c \in 0 .. Window
    BY <1>9, Sizes
  <1>11. r.pkts = pkts /\ uncounted < U8 => Counted(pkts, conf, Under, c, uncounted)
    BY <1>6, <1>7, <1>8, <1>9, Moment, CountedResync
  <1>12. CASE c <= MinThr
    <2>1. pkts' = r.pkts /\ pc'[t] = "refused" /\ uncounted' = LeftOut(r.pkts)
      BY <1>12, Moment DEF ReadConf, Moves
    <2>2. PICK q \in 0 .. U32 - 1, z \in 0 .. Window : q = r.pkts /\ z = 0
      BY <1>9, Sizes
    <2> HIDE DEF r, c
    <2>3. q = pkts /\ uncounted < U8 => Counted(pkts, conf, Under, z, uncounted)
      BY <1>6, <1>7, <2>2
    <2>4. LeftOut(q) < U8 => Counted(q, conf, Under, z, LeftOut(q))
      BY <2>3, CountedLeftOut
    <2> QED BY <2>1, <2>2, <2>4, <1>1, <1>2, <1>3, <1>5 DEF Counts
  <1>13. CASE ~(c <= MinThr)
    <2>1. /\ snap' = [snap EXCEPT ![t] = [pkts |-> r.pkts, cap |-> c, delta |-> r.delta]]
          /\ pkts' = pkts /\ uncounted' = uncounted
      BY <1>13 DEF ReadConf
    <2> HIDE DEF r, c
    <2>2. snap'[t].pkts = r.pkts /\ snap'[t].cap = c
      BY <2>1, Moment
    <2>3. uncounted' < U8 => Counted(pkts', conf', Under', cap', uncounted')
      BY <2>1, <1>2, <1>5 DEF Counts
    <2>4. snap'[t].pkts = pkts' /\ uncounted' < U8
             => Counted(pkts', conf', Under', snap'[t].cap, uncounted')
      BY <2>1, <2>2, <1>2, <1>5, <1>11
    <2>5. \A v \in Threads : pc'[v] = "fill" => v = t
      BY <1>3
    <2> QED BY <2>3, <2>4, <2>5 DEF Counts
  <1> QED BY <1>12, <1>13

LEMMA ReadFillCounts ==
    ASSUME TypeInv, Control, Counts, NEW t \in Threads, ReadFill(t)
    PROVE  Counts'
  <1>1. pc[t] = "fill" /\ cap = 0
    BY DEF ReadFill, Moves, Control, Spent
  <1>2. pkts' = snap[t].pkts /\ UNCHANGED <<conf, fill, path>>
    BY DEF ReadFill, hwVars, queueVars
  <1>3. /\ pc'[t] \in {"refused", "granted"}
        /\ \A u \in Threads \ {t} : pc'[u] = pc[u] /\ pc[u] = "idle"
    BY <1>1, OneAtWork, Moment DEF ReadFill, Moves, Control
  <1>4. PICK p \in 0 .. U32 - 1, c \in 0 .. Window : p = snap[t].pkts /\ c = snap[t].cap
    BY Moment DEF Snaps
  <1>5. PICK l \in 0 .. U8 : l = LeftOut(p)
    BY LeftOutType
  <1>6. l < U8 => Counted(p, conf, Under, c, l)
    <2>1. p = pkts /\ uncounted < U8 => Counted(pkts, conf, Under, c, uncounted)
      BY <1>1, <1>4 DEF Counts
    <2> QED BY <1>5, <2>1, CountedLeftOut
  <1>7. Granted = 0 /\ Granted' = IF t = "xmit" /\ pc'[t] = "granted" THEN 1 ELSE 0
    BY <1>1, <1>3, Moment DEF Granted, Threads
  <1>8. Under' = Under + Granted'
    BY <1>2, <1>7, Moment, Sizes DEF Under
  <1>9. PICK cf, u \in Int : cf = conf /\ u = Under
    BY UnderWay, Moment
  <1>10. ASSUME uncounted' < U8
         PROVE  Counted(pkts', conf', Under', cap', uncounted')
    <2>1. CASE NoFit(t)
      <3>1. cap' = cap /\ pc'[t] = "refused" /\ uncounted' = l
        BY <2>1, <1>4, <1>5, Moment DEF ReadFill, Moves
      <3>2. Under' = u
        BY <3>1, <1>7, <1>8, <1>9
      <3>3. Counted(p, cf, u, c, l)
        BY <3>1, <1>6, <1>9, <1>10
      <3>4. PICK z \in Int : z = 0 /\ z <= c /\ l <= l
        BY Sizes
      <3>5. Counted(p, cf, u, z, l)
        <4>1. c \in Int /\ l \in Int
          BY Sizes
        <4> QED BY <3>3, <3>4, <4>1, CountedLess
      <3> QED BY <3>1, <3>2, <3>4, <3>5, <1>1, <1>2, <1>4, <1>9
    <2>2. CASE ~NoFit(t) /\ t = "work"
      <3>1. cap' = c /\ uncounted' = l
        BY <2>2, <1>4, <1>5 DEF ReadFill
      <3>2. Under' = u
        BY <2>2, <1>7, <1>8, <1>9
      <3> QED BY <3>1, <3>2, <1>2, <1>4, <1>6, <1>9, <1>10
    <2>3. CASE ~NoFit(t) /\ t = "xmit"
      <3>1. cap' = c /\ uncounted' = Min2(l + 1, U8) /\ pc'[t] = "granted"
        BY <2>3, <1>4, <1>5, Moment DEF ReadFill, Moves
      <3>2. uncounted' = l + 1 /\ l < U8
        BY <3>1, <1>10, Sizes DEF Min2
      <3>3. Under' = u + 1
        BY <2>3, <3>1, <1>7, <1>8, <1>9
      <3>4. Counted(p, cf, u + 1, c, l + 1)
        <4>1. Counted(p, cf, u, c, l)
          BY <3>2, <1>6, <1>9
        <4>2. c \in Int /\ l \in Int
          BY Sizes
        <4> QED BY <4>1, <4>2, CountedGrant
      <3> QED BY <3>1, <3>2, <3>3, <3>4, <1>2, <1>4, <1>9
    <2> QED BY <2>1, <2>2, <2>3 DEF Threads
  <1>11. \A v \in Threads : pc'[v] # "fill"
    BY <1>3
  <1> QED BY <1>10, <1>11 DEF Counts

\* A frame that arrives is dropped, if the queue is full: then there are more
\* under way than the window.
LEMMA ArriveCounts ==
    ASSUME TypeInv, Counts, Arrive
    PROVE  Counts'
  <1>1. UNCHANGED <<pkts, cap, pc, snap, conf, uncounted>> /\ path > 0 /\ path' = path - 1
        /\ fill' = Min2(fill + 1, QSize)
    BY DEF Arrive, ghosts
  <1>2. Granted' = Granted /\ Granted \in {0, 1}
    BY <1>1 DEF Granted
  <1>3. CASE fill < QSize
    <2>1. fill' = fill + 1
      BY <1>1, <1>3, Moment, Sizes DEF Min2
    <2>2. Under' = Under
      BY <1>1, <1>2, <2>1, Moment, Sizes DEF Under
    <2> QED BY <1>1, <2>2, CountsStay
  <1>4. CASE fill = QSize
    <2>1. fill' = fill
      BY <1>1, <1>4, Sizes DEF Min2
    <2>2. Under' = Under - 1 /\ Window < Under
      BY <1>1, <1>2, <1>4, <2>1, Moment, Sizes DEF Under
    <2>3. ASSUME NEW p \in Int, NEW c \in Nat, NEW k \in Int, Counted(p, conf, Under, c, k)
          PROVE  Counted(p, conf', Under', c, k)
      <3>1. PICK cf \in Int, u \in Int : cf = conf /\ u = Under
        BY Moment, UnderWay, Sizes
      <3>2. Counted(p, cf, u, c, k) /\ Window < u
        BY <2>2, <2>3, <3>1
      <3>3. Counted(p, cf, u - 1, c, k)
        BY <3>2, CountedDrop
      <3> QED BY <1>1, <2>2, <3>1, <3>3
    <2>4. pkts \in Int /\ cap \in Nat /\ uncounted \in Int
      BY Moment, Sizes
    <2>5. \A t \in Threads : snap[t].cap \in Nat
      BY Moment, Sizes DEF Snaps
    <2> QED BY <1>1, <2>3, <2>4, <2>5 DEF Counts
  <1> QED BY <1>3, <1>4, Moment, Sizes

LEMMA TransmitCounts ==
    ASSUME TypeInv, Counts, Transmit
    PROVE  Counts'
  <1>1. UNCHANGED <<pkts, cap, pc, snap, path, uncounted>> /\ fill' = fill - 1
        /\ conf' = (conf + 1) % U32
    BY DEF Transmit, ghosts
  <1>2. Granted' = Granted /\ Granted \in {0, 1}
    BY <1>1 DEF Granted
  <1>3. Under' = Under - 1
    BY <1>1, <1>2, Moment, Sizes DEF Under
  <1>4. ASSUME NEW p \in Int, NEW c \in Int, NEW k \in Int, Counted(p, conf, Under, c, k)
        PROVE  Counted(p, conf', Under', c, k)
    <2>1. PICK cf \in Int, u \in Int : cf = conf /\ u = Under
      BY Moment, UnderWay, Sizes
    <2>2. Counted(p, cf, u, c, k)
      BY <1>4, <2>1
    <2>3. Counted(p, (cf + 1) % U32, u - 1, c, k)
      BY <2>2, CountedTransmit
    <2> QED BY <1>1, <1>3, <2>1, <2>3
  <1>5. pkts \in Int /\ cap \in Int /\ uncounted \in Int
    BY Moment, Sizes
  <1>6. \A t \in Threads : snap[t].cap \in Int
    BY Moment, Sizes DEF Snaps
  <1> QED BY <1>1, <1>4, <1>5, <1>6 DEF Counts

LEMMA CountInit == TmuInit => CountInv
  <1> SUFFICES ASSUME TmuInit PROVE CountInv
    OBVIOUS
  <1>1. Turns /\ Spent /\ Current
    BY DEF TmuInit, Turns, Spent, Current, Threads
  <1>2. Granted = 0 /\ Under = 0
    BY DEF TmuInit, Granted, Under, Threads
  <1>3. (0 + 0) % U32 = 0
    BY SmallRemainder, Sizes
  <1>4. 0 + Window <= Window /\ 0 - 0 <= 0 /\ 0 <= 0 /\ 0 \in Int
    BY Sizes
  <1>5. Counted(0, 0, 0, Window, 0)
    BY <1>3, <1>4 DEF Counted
  <1>6. Counts
    BY <1>2, <1>5 DEF TmuInit, Counts
  <1> QED BY <1>1, <1>6 DEF CountInv, Control

LEMMA CountKeeps == TypeInv /\ CountInv /\ [TmuNext]_tmuVars => CountInv'
  <1> SUFFICES ASSUME TypeInv, CountInv, [TmuNext]_tmuVars, disturbed' = 0
               PROVE  Control' /\ Counts'
    BY DEF CountInv
  <1>1. disturbed = 0 /\ ~LinkFlap /\ ~XmitFails /\ ~ArriveExternal
    <2>1. ~LinkFlap /\ ~XmitFails /\ ~ArriveExternal
      BY Moment DEF LinkFlap, XmitFails, ArriveExternal, Disturb
    <2>2. ASSUME NEW t \in Threads, CanTx(t) PROVE disturbed' = disturbed
      BY <2>2 DEF CanTx, Take, ReadConf, ReadFill, hwVars
    <2>3. XmitEnter \/ WorkEnter => disturbed' = disturbed
      BY DEF XmitEnter, WorkEnter, Enter, hwVars
    <2>4. Xmit => disturbed' = disturbed
      BY <2>1 DEF Xmit, XmitSend, XmitFull, XmitStop, XmitSchedule, hwVars
    <2>5. Work => disturbed' = disturbed
      BY DEF Work, WorkAgain, WorkClear, WorkDone, WorkWake, hwVars
    <2>6. Arrive \/ Transmit \/ UNCHANGED tmuVars => disturbed' = disturbed
      BY DEF Arrive, Transmit, hwVars, tmuVars
    <2> QED BY <2>1, <2>2, <2>3, <2>4, <2>5, <2>6 DEF TmuNext
  <1>2. Control /\ Counts
    BY <1>1 DEF CountInv
  <1>3. CASE XmitEnter \/ WorkEnter
    BY <1>2, <1>3, EnterControl, EnterCounts
  <1>4. ASSUME NEW t \in Threads, CanTx(t) PROVE Control' /\ Counts'
    BY <1>2, <1>4, CanTxControl, TakeCounts, ReadConfCounts, ReadFillCounts DEF CanTx
  <1>5. CASE Xmit
    BY <1>1, <1>2, <1>5, XmitControl, MoveCounts DEF Xmit
  <1>6. CASE Work
    BY <1>2, <1>6, WorkControl, MoveCounts
  <1>7. CASE Arrive
    <2>1. Control'
      BY <1>2, <1>7 DEF Arrive, Control, Turns, Spent, Current, netVars
    <2> QED BY <2>1, <1>2, <1>7, ArriveCounts
  <1>8. CASE Transmit
    <2>1. Control'
      BY <1>2, <1>8 DEF Transmit, Control, Turns, Spent, Current, netVars
    <2> QED BY <2>1, <1>2, <1>8, TransmitCounts
  <1>9. CASE UNCHANGED tmuVars
    <2>1. UNCHANGED <<pkts, cap, pc, snap, queued, stopped, path, fill, conf, uncounted>>
      BY <1>9 DEF tmuVars, queueVars
    <2>2. Control'
      BY <1>2, <2>1 DEF Control, Turns, Spent, Current
    <2>3. Under' = Under
      BY <2>1 DEF Under, Granted
    <2> QED BY <1>2, <2>1, <2>2, <2>3, CountsStay
  <1> QED BY <1>1, <1>3, <1>4, <1>5, <1>6, <1>7, <1>8, <1>9 DEF TmuNext

\* Whatever the size of the queue and the frames on the way to it, it starves
\* undisturbed only if it has no window, or if so many frames have gone uncounted
\* that an 8-bit difference takes their lag for frames on the way: the frames
\* that are not counted do not do it before, nor those that the queue drops for
\* want of room, nor a counter that wraps (pfeng_tmu_can_tx).
THEOREM CreditIsKept == TmuSpec => []CreditInv
  <1>1. TypeInv /\ CountInv => CreditInv
    <2> SUFFICES ASSUME TypeInv, CountInv, Starved, disturbed = 0, Window # 0, uncounted < U8
                 PROVE  uncounted >= U8 - Window
      BY Moment, Sizes DEF CreditInv, StarvedForAReason, TypeInv
    <2>1. PICK p \in 0 .. U32 - 1, u \in Nat, k \in Nat : p = pkts /\ u = Under /\ k = uncounted
      BY Moment, UnderWay, Sizes
    <2>2. Counted(p, conf, u, 0, k)
      BY <2>1 DEF CountInv, Counts, Starved
    <2>3. u = 0 /\ Window > 0 /\ Window - Resync(p).delta <= MinThr
      BY <2>1, Sizes DEF Starved
    <2>4. CASE Resync(p).pkts = p
      <3>1. k >= U8 - Window
        BY <2>2, <2>3, <2>4, Moment, CountedResync
      <3> QED BY <2>1, <3>1
    <2>5. CASE Resync(p).pkts # p
      <3>1. Resync(p).delta = 0
        BY <2>5 DEF Resync
      <3> QED BY <2>3, <3>1, Sizes
    <2> QED BY <2>4, <2>5
  <1> QED BY <1>1, CountInit, CountKeeps, TmuTypeInit, TypeKeeps, PTL DEF TmuSpec

-----------------------------------------------------------------------------
(***************************************************************************)
(* Time-stamps of sent frames, for any number of skbs and transmissions,   *)
(* any range of reference numbers and any length of the fifos: the         *)
(* references to the skbs are counted right, nothing that was freed is     *)
(* used unless a removal met a report, and a frame gets its own stamp.     *)
(*                                                                         *)
(* Transmissions are told apart by their numbers: an entry and a report    *)
(* that belong together have the same one.  While no reference number is   *)
(* in use twice, those of the entries tell them apart as well.             *)
(***************************************************************************)

TheEntries == [no : 1 .. MaxTx, skb : Skbs, ref : 0 .. RefMod - 1]
TheReports == [no : 1 .. MaxTx, ref : 0 .. RefMod - 1]

\* The transmission has put its entry into the fifo.
Stored == {"get", "schedule", "tagged"}

Types ==
    /\ on \in BOOLEAN /\ refNum \in 0 .. RefMod - 1
    /\ skbFifo \in Seq(TheEntries) /\ Len(skbFifo) <= FifoLen
    /\ tsFifo \in Seq(TheReports) /\ Len(tsFifo) <= FifoLen
    /\ list \in SUBSET TheEntries /\ IsFiniteSet(list)
    /\ workQueued \in BOOLEAN /\ work \in {"idle", "take", "match", "age"}
    /\ life \in {"up", "suspended", "cancelled", "off", "freed", "gone"}
    /\ owner \in [Skbs -> {"none", "stack", "driver", "ring"}]
    /\ refs \in [Skbs -> Int] /\ lost \in [Skbs -> Nat]
    /\ xmit \in {"idle", "store", "map"} \cup Stored
    /\ xmit # "idle" => cur \in TheEntries
    /\ count \in 0 .. MaxTx
    /\ air \in SUBSET TheReports
    /\ rx \in {"idle", "put", "schedule"}
    /\ rx # "idle" => rep \in TheReports
    /\ reused \in BOOLEAN /\ racing \in BOOLEAN /\ touched \in BOOLEAN

\* What the interface may still do while it is suspended or removed.
Lives ==
    /\ on => life \in {"up", "suspended", "cancelled"}
    /\ life # "up" => xmit = "idle"
    /\ life = "suspended" => rx = "idle" /\ air = {}
    /\ life \in {"up", "suspended"} => ~touched
    /\ life \notin {"up", "suspended"} /\ ~racing => rx = "idle" /\ ~workQueued /\ work = "idle"
    /\ life \in {"freed", "gone"} => skbFifo = <<>> /\ list = {} /\ tsFifo = <<>>
    /\ touched => racing

\* The entries of two transmissions are two, and each is in one place.
Distinct(q) == \A i, j \in DOMAIN q : q[i].no = q[j].no => i = j

Numbers ==
    /\ xmit # "idle" => cur.no = count
    /\ Distinct(skbFifo)
    /\ \A e, f \in Pending : e.no = f.no => e = f
    /\ SeqSet(skbFifo) \cap list = {}
    /\ \A e \in Pending : /\ e.no <= count
                          /\ xmit # "idle" /\ e.no = cur.no => xmit \in Stored /\ e = cur

\* A skb that is transmitted is with the driver; its entry does not grow old.
Driven ==
    /\ xmit # "idle" => owner[cur.skb] = "driver" /\ cur \notin old
    /\ old \subseteq Pending

\* The reports that the work will see, and those of two transmissions are two.
Coming == air \cup SeqSet(tsFifo) \cup (IF rx = "put" THEN {rep} ELSE {})

Reports ==
    /\ Distinct(tsFifo)
    /\ air \cap SeqSet(tsFifo) = {}
    /\ rx = "put" => rep \notin air \cup SeqSet(tsFifo)
    /\ \A p, q \in Coming : p.no = q.no => p = q
    /\ \A p \in Coming : p.no <= count /\ (xmit # "idle" => p.no # cur.no)
    /\ \A p \in Coming, e \in Pending : p.no = e.no => p.ref = e.ref

\* As long as no reference number was in use twice.
Matching ==
    /\ \A e, f \in Pending : e.ref = f.ref => e = f
    /\ \A p \in Coming, e \in Pending : p.ref = e.ref => p.no = e.no
    /\ xmit \in Stored => cur \in Pending
    /\ life \notin {"freed", "gone"} =>
          \A p \in Coming : p.no \in aged \/ \E e \in Pending : e.no = p.no

TsInv == /\ Types /\ Lives /\ Numbers /\ Driven /\ Reports /\ (~reused => Matching)
         /\ TsCounted

-----------------------------------------------------------------------------
(* Sequences as sets, and how many entries hold an skb                     *)

LEMMA Appended ==
    ASSUME NEW S, NEW q \in Seq(S), NEW x \in S
    PROVE  /\ SeqSet(Append(q, x)) = SeqSet(q) \cup {x}
           /\ Append(q, x) \in Seq(S) /\ Len(Append(q, x)) = Len(q) + 1
           /\ \A i \in DOMAIN Append(q, x) :
                 Append(q, x)[i] = IF i = Len(q) + 1 THEN x ELSE q[i]
  <1>1. /\ Append(q, x) \in Seq(S) /\ Len(Append(q, x)) = Len(q) + 1
        /\ DOMAIN Append(q, x) = 1 .. Len(q) + 1 /\ DOMAIN q = 1 .. Len(q)
        /\ \A i \in 1 .. Len(q) : Append(q, x)[i] = q[i]
        /\ Append(q, x)[Len(q) + 1] = x
    OBVIOUS
  <1>2. Len(q) \in Nat
    OBVIOUS
  <1>3. SeqSet(Append(q, x)) \subseteq SeqSet(q) \cup {x}
    BY <1>1, <1>2 DEF SeqSet
  <1>4. SeqSet(q) \cup {x} \subseteq SeqSet(Append(q, x))
    BY <1>1, <1>2 DEF SeqSet
  <1> QED BY <1>1, <1>2, <1>3, <1>4

LEMMA Tailed ==
    ASSUME NEW S, NEW q \in Seq(S), q # <<>>
    PROVE  /\ SeqSet(q) = SeqSet(Tail(q)) \cup {Head(q)}
           /\ Tail(q) \in Seq(S) /\ Len(Tail(q)) = Len(q) - 1
           /\ Head(q) \in S /\ Head(q) \in SeqSet(q) /\ Head(q) = q[1] /\ 1 \in DOMAIN q
           /\ \A i \in DOMAIN Tail(q) : i + 1 \in DOMAIN q /\ Tail(q)[i] = q[i + 1] /\ i # 0
  <1>1. /\ Tail(q) \in Seq(S) /\ Len(Tail(q)) = Len(q) - 1 /\ Len(q) \in Nat /\ Len(q) > 0
        /\ DOMAIN Tail(q) = 1 .. Len(q) - 1 /\ DOMAIN q = 1 .. Len(q)
        /\ \A i \in 1 .. Len(q) - 1 : Tail(q)[i] = q[i + 1]
        /\ Head(q) = q[1] /\ Head(q) \in S
    OBVIOUS
  <1>2. \A i \in DOMAIN Tail(q) : i + 1 \in DOMAIN q /\ Tail(q)[i] = q[i + 1] /\ i # 0
    BY <1>1
  <1>3. SeqSet(Tail(q)) \cup {Head(q)} \subseteq SeqSet(q)
    BY <1>1, <1>2 DEF SeqSet
  <1>4. ASSUME NEW i \in DOMAIN q PROVE q[i] \in SeqSet(Tail(q)) \cup {Head(q)}
    <2>1. CASE i = 1
      BY <1>1, <2>1
    <2>2. CASE i # 1
      <3>1. i - 1 \in DOMAIN Tail(q) /\ Tail(q)[i - 1] = q[i]
        BY <1>1, <2>2
      <3> QED BY <3>1 DEF SeqSet
    <2> QED BY <2>1, <2>2
  <1>5. SeqSet(q) \subseteq SeqSet(Tail(q)) \cup {Head(q)}
    BY <1>4 DEF SeqSet
  <1>6. 1 \in DOMAIN q
    BY <1>1
  <1> QED BY <1>1, <1>2, <1>3, <1>5, <1>6 DEF SeqSet

LEMMA DistinctTail ==
    ASSUME NEW S, NEW q \in Seq(S), q # <<>>, Distinct(q)
    PROVE  /\ Distinct(Tail(q))
           /\ SeqSet(Tail(q)) = SeqSet(q) \ {Head(q)}
           /\ \A x \in SeqSet(Tail(q)) : x.no # Head(q).no
  <1>1. /\ SeqSet(q) = SeqSet(Tail(q)) \cup {Head(q)}
        /\ Head(q) = q[1] /\ 1 \in DOMAIN q
        /\ \A i \in DOMAIN Tail(q) : i + 1 \in DOMAIN q /\ Tail(q)[i] = q[i + 1] /\ i # 0
    BY Tailed
  <1>2. Tail(q) \in Seq(S) /\ DOMAIN Tail(q) \subseteq Int
    BY Tailed
  <1>3. Distinct(Tail(q))
    <2> SUFFICES ASSUME NEW i \in DOMAIN Tail(q), NEW j \in DOMAIN Tail(q),
                        Tail(q)[i].no = Tail(q)[j].no
                 PROVE  i = j
      BY DEF Distinct
    <2>1. q[i + 1].no = q[j + 1].no /\ i + 1 \in DOMAIN q /\ j + 1 \in DOMAIN q
      BY <1>1
    <2>2. i + 1 = j + 1
      BY <2>1 DEF Distinct
    <2> QED BY <1>2, <2>2
  <1>4. \A x \in SeqSet(Tail(q)) : x.no # Head(q).no
    <2> SUFFICES ASSUME NEW i \in DOMAIN Tail(q), Tail(q)[i].no = Head(q).no PROVE FALSE
      BY DEF SeqSet
    <2>1. q[i + 1].no = q[1].no /\ i + 1 \in DOMAIN q /\ i # 0
      BY <1>1
    <2>2. i + 1 = 1
      BY <1>1, <2>1 DEF Distinct
    <2> QED BY <1>2, <2>1, <2>2
  <1> QED BY <1>1, <1>3, <1>4

LEMMA DistinctAppend ==
    ASSUME NEW S, NEW q \in Seq(S), NEW x \in S, Distinct(q),
           \A y \in SeqSet(q) : y.no # x.no
    PROVE  Distinct(Append(q, x))
  <1>1. DOMAIN Append(q, x) = 1 .. Len(q) + 1 /\ DOMAIN q = 1 .. Len(q) /\ Len(q) \in Nat
    OBVIOUS
  <1>2. \A i \in DOMAIN q : q[i].no # x.no
    BY DEF SeqSet
  <1>3. \A i \in DOMAIN Append(q, x) : Append(q, x)[i] = IF i = Len(q) + 1 THEN x ELSE q[i]
    BY Appended
  <1> SUFFICES ASSUME NEW i \in DOMAIN Append(q, x), NEW j \in DOMAIN Append(q, x),
                      Append(q, x)[i].no = Append(q, x)[j].no
               PROVE  i = j
    BY DEF Distinct
  <1>4. CASE i = Len(q) + 1 \/ j = Len(q) + 1
    BY <1>1, <1>2, <1>3, <1>4
  <1>5. CASE i # Len(q) + 1 /\ j # Len(q) + 1
    <2>1. i \in DOMAIN q /\ j \in DOMAIN q /\ q[i].no = q[j].no
      BY <1>1, <1>3, <1>5
    <2> QED BY <2>1 DEF Distinct
  <1> QED BY <1>4, <1>5

LEMMA SeqSetFinite ==
    ASSUME NEW S, NEW q \in Seq(S)
    PROVE  IsFiniteSet(SeqSet(q)) /\ SeqSet(q) \in SUBSET S
  <1>1. IsFiniteSet(DOMAIN q)
    <2>1. DOMAIN q = 1 .. Len(q) /\ Len(q) \in Nat
      OBVIOUS
    <2> QED BY <2>1, FS_Interval
  <1>2. q \in Surjection(DOMAIN q, SeqSet(q))
    <2>1. q \in [DOMAIN q -> SeqSet(q)]
      BY DEF SeqSet
    <2>2. \A t \in SeqSet(q) : \E i \in DOMAIN q : q[i] = t
      BY DEF SeqSet
    <2> QED BY <2>1, <2>2 DEF Surjection
  <1>3. IsFiniteSet(SeqSet(q))
    BY <1>1, <1>2, FS_Surjection
  <1> QED BY <1>3 DEF SeqSet

LEMMA HeldIsNat ==
    ASSUME NEW s, NEW es, IsFiniteSet(es)
    PROVE  Held(s, es) \in Nat
  <1>1. IsFiniteSet({e \in es : e.skb = s})
    BY FS_Subset
  <1> QED BY <1>1, FS_CardinalityType DEF Held

LEMMA HeldNone == \A s : Held(s, {}) = 0
  <1>1. \A s : {e \in {} : e.skb = s} = {}
    OBVIOUS
  <1> QED BY <1>1, FS_EmptySet DEF Held

LEMMA HeldOneMore ==
    ASSUME NEW s, NEW es, IsFiniteSet(es), NEW e, e \notin es
    PROVE  Held(s, es \cup {e}) = Held(s, es) + (IF e.skb = s THEN 1 ELSE 0)
  <1> DEFINE old_ == {f \in es : f.skb = s}
             new_ == {f \in es \cup {e} : f.skb = s}
  <1>1. IsFiniteSet(old_) /\ e \notin old_
    BY FS_Subset
  <1>2. CASE e.skb = s
    <2>1. new_ = old_ \cup {e}
      BY <1>2
    <2>2. Cardinality(old_ \cup {e}) = Cardinality(old_) + 1
      BY <1>1, FS_AddElement
    <2> QED BY <1>2, <2>1, <2>2 DEF Held
  <1>3. CASE e.skb # s
    <2>1. new_ = old_
      BY <1>3
    <2>2. Held(s, es \cup {e}) = Cardinality(new_) /\ Held(s, es) = Cardinality(old_)
      BY DEF Held
    <2>3. Held(s, es) \in Nat
      BY HeldIsNat
    <2> HIDE DEF old_, new_
    <2> QED BY <1>3, <2>1, <2>2, <2>3
  <1> QED BY <1>2, <1>3

LEMMA HeldFewer ==
    ASSUME NEW s, NEW es, IsFiniteSet(es), NEW ds, ds \subseteq es
    PROVE  Held(s, es \ ds) = Held(s, es) - Held(s, ds)
  <1> DEFINE all == {f \in es : f.skb = s}
             less == {f \in ds : f.skb = s}
             left == {f \in es \ ds : f.skb = s}
  <1>1. IsFiniteSet(all) /\ IsFiniteSet(less)
    BY FS_Subset
  <1>2. left = all \ less /\ all \cap less = less
    OBVIOUS
  <1>3. Cardinality(all \ less) = Cardinality(all) - Cardinality(all \cap less)
    BY <1>1, FS_Difference
  <1> QED BY <1>2, <1>3 DEF Held

LEMMA HeldBy ==
    ASSUME NEW es, IsFiniteSet(es), NEW e \in es
    PROVE  Held(e.skb, es) > 0
  <1> DEFINE mine == {f \in es : f.skb = e.skb}
  <1>1. IsFiniteSet(mine) /\ mine # {}
    BY FS_Subset
  <1>2. Cardinality(mine) # 0 /\ Cardinality(mine) \in Nat
    BY <1>1, FS_EmptySet, FS_CardinalityType
  <1> QED BY <1>2 DEF Held

-----------------------------------------------------------------------------
(* What a step does to the entries that are pending                        *)

LEMMA PendingTyped ==
    ASSUME Types
    PROVE  /\ Pending \in SUBSET TheEntries /\ IsFiniteSet(Pending)
           /\ SeqSet(skbFifo) \subseteq Pending /\ list \subseteq Pending
           /\ SeqSet(tsFifo) \in SUBSET TheReports
  <1>1. IsFiniteSet(SeqSet(skbFifo)) /\ SeqSet(skbFifo) \in SUBSET TheEntries
    BY SeqSetFinite DEF Types
  <1>2. IsFiniteSet(list) /\ list \in SUBSET TheEntries
    BY DEF Types
  <1>3. IsFiniteSet(Pending)
    BY <1>1, <1>2, FS_Union DEF Pending
  <1>4. SeqSet(tsFifo) \in SUBSET TheReports
    BY SeqSetFinite DEF Types
  <1> QED BY <1>1, <1>2, <1>3, <1>4 DEF Pending

\* A reference is put for each entry of a set.
LEMMA PutTyped ==
    ASSUME Types, NEW es, IsFiniteSet(es), Put(es)
    PROVE  refs' \in [Skbs -> Int]
  <1>1. \A s \in Skbs : refs[s] \in Int /\ Held(s, es) \in Nat
    BY HeldIsNat DEF Types
  <1> QED BY <1>1 DEF Put

LEMMA LoseTyped ==
    ASSUME Types, NEW es, IsFiniteSet(es), NEW more \in [Skbs -> Nat], Lose(es, more)
    PROVE  lost' \in [Skbs -> Nat]
  <1>1. \A s \in Skbs : lost[s] \in Nat /\ Held(s, es) \in Nat /\ more[s] \in Nat
    BY HeldIsNat DEF Types
  <1> QED BY <1>1 DEF Lose

\* A transmission puts its entry.
LEMMA PutView ==
    ASSUME Types, xmit = "store", skbFifo' = Append(skbFifo, cur), list' = list
    PROVE  /\ skbFifo' \in Seq(TheEntries)
           /\ SeqSet(skbFifo)' = SeqSet(skbFifo) \cup {cur}
           /\ Pending' = Pending \cup {cur}
  <1>1. cur \in TheEntries /\ skbFifo \in Seq(TheEntries)
    BY DEF Types
  <1>2. /\ Append(skbFifo, cur) \in Seq(TheEntries)
        /\ SeqSet(Append(skbFifo, cur)) = SeqSet(skbFifo) \cup {cur}
    BY <1>1, Appended
  <1>3. SeqSet(skbFifo)' = SeqSet(skbFifo) \cup {cur}
    BY <1>2 DEF SeqSet
  <1> QED BY <1>2, <1>3 DEF Pending

\* The work takes the first entry of the fifo, to the list or to nowhere.
LEMMA TakeView ==
    ASSUME Types, Numbers, WorkTake
    PROVE  /\ Head(skbFifo) \in TheEntries /\ Head(skbFifo) \in SeqSet(skbFifo)
           /\ skbFifo' \in Seq(TheEntries) /\ Len(skbFifo') = Len(skbFifo) - 1
           /\ Distinct(skbFifo')
           /\ SeqSet(skbFifo)' = SeqSet(skbFifo) \ {Head(skbFifo)}
           /\ \/ /\ list' = list \cup {Head(skbFifo)} /\ Pending' = Pending
                 /\ UNCHANGED <<refs, aged>>
              \/ /\ list' = list /\ Pending' = Pending \ {Head(skbFifo)}
                 /\ \E e \in list : e.ref = Head(skbFifo).ref
                 /\ Put({Head(skbFifo)})
                 /\ aged' = aged \cup ({Head(skbFifo).no} \cap Outstanding)
  <1> DEFINE h == Head(skbFifo)
  <1>1. skbFifo \in Seq(TheEntries) /\ skbFifo # <<>> /\ Distinct(skbFifo)
        /\ SeqSet(skbFifo) \cap list = {}
    BY DEF Types, Numbers, WorkTake
  <1>2. /\ h \in TheEntries /\ h \in SeqSet(skbFifo)
        /\ Tail(skbFifo) \in Seq(TheEntries) /\ Len(Tail(skbFifo)) = Len(skbFifo) - 1
    BY <1>1, Tailed
  <1>3. Distinct(Tail(skbFifo)) /\ SeqSet(Tail(skbFifo)) = SeqSet(skbFifo) \ {h}
    BY <1>1, DistinctTail
  <1>4. skbFifo' = Tail(skbFifo)
    BY DEF WorkTake
  <1>5. Distinct(skbFifo') /\ SeqSet(skbFifo)' = SeqSet(skbFifo) \ {h}
    BY <1>3, <1>4 DEF SeqSet
  <1>6. \/ /\ list' = list \cup {h} /\ UNCHANGED <<refs, aged>>
        \/ /\ list' = list /\ Duplicate(h) /\ Put({h})
           /\ aged' = aged \cup ({h.no} \cap Outstanding)
    BY DEF WorkTake
  <1>7. CASE list' = list \cup {h} /\ UNCHANGED <<refs, aged>>
    <2>1. Pending' = Pending
      BY <1>2, <1>5, <1>7 DEF Pending
    <2> QED BY <1>2, <1>4, <1>5, <1>7, <2>1
  <1>8. CASE /\ list' = list /\ Duplicate(h) /\ Put({h})
             /\ aged' = aged \cup ({h.no} \cap Outstanding)
    <2>1. Pending' = Pending \ {h}
      BY <1>1, <1>2, <1>5, <1>8 DEF Pending
    <2>2. \E e \in list : e.ref = h.ref
      BY <1>8 DEF Duplicate
    <2> QED BY <1>2, <1>4, <1>5, <1>8, <2>1, <2>2
  <1> QED BY <1>6, <1>7, <1>8

\* The work takes the first report, and an entry of the list with its number.
LEMMA MatchView ==
    ASSUME Types, Numbers, Reports, WorkMatch
    PROVE  /\ Head(tsFifo) \in TheReports /\ Head(tsFifo) \in SeqSet(tsFifo)
           /\ tsFifo' \in Seq(TheReports) /\ Len(tsFifo') = Len(tsFifo) - 1
           /\ Distinct(tsFifo')
           /\ SeqSet(tsFifo)' = SeqSet(tsFifo) \ {Head(tsFifo)}
           /\ SeqSet(skbFifo)' = SeqSet(skbFifo)
           /\ aged' = aged \ {Head(tsFifo).no}
           /\ \/ \E e \in list : /\ e.ref = Head(tsFifo).ref /\ e \in Pending
                                 /\ list' = list \ {e} /\ Pending' = Pending \ {e}
                                 /\ Put({e})
              \/ /\ \A e \in list : e.ref # Head(tsFifo).ref
                 /\ list' = list /\ Pending' = Pending /\ refs' = refs
  <1> DEFINE h == Head(tsFifo)
  <1>1. tsFifo \in Seq(TheReports) /\ tsFifo # <<>> /\ Distinct(tsFifo)
        /\ SeqSet(skbFifo) \cap list = {}
    BY DEF Types, Numbers, Reports, WorkMatch
  <1>2. /\ h \in TheReports /\ h \in SeqSet(tsFifo)
        /\ Tail(tsFifo) \in Seq(TheReports) /\ Len(Tail(tsFifo)) = Len(tsFifo) - 1
    BY <1>1, Tailed
  <1>3. Distinct(Tail(tsFifo)) /\ SeqSet(Tail(tsFifo)) = SeqSet(tsFifo) \ {h}
    BY <1>1, DistinctTail
  <1>4. tsFifo' = Tail(tsFifo) /\ skbFifo' = skbFifo /\ aged' = aged \ {h.no}
    BY DEF WorkMatch
  <1>5. Distinct(tsFifo') /\ SeqSet(tsFifo)' = SeqSet(tsFifo) \ {h}
        /\ SeqSet(skbFifo)' = SeqSet(skbFifo)
    BY <1>3, <1>4 DEF SeqSet
  <1>6. \/ \E e \in list : e.ref = h.ref /\ list' = list \ {e} /\ Put({e})
        \/ (\A e \in list : e.ref # h.ref) /\ list' = list /\ refs' = refs
    BY DEF WorkMatch
  <1>7. ASSUME NEW e \in list, list' = list \ {e}
        PROVE  e \in Pending /\ Pending' = Pending \ {e}
    BY <1>1, <1>5, <1>7 DEF Pending
  <1>8. list' = list => Pending' = Pending
    BY <1>5 DEF Pending
  <1> QED BY <1>2, <1>4, <1>5, <1>6, <1>7, <1>8

\* The work gives up the old entries of the list.
LEMMA AgeView ==
    ASSUME Types, Numbers, WorkAge
    PROVE  /\ list' = list \ (list \cap old) /\ Pending' = Pending \ (list \cap old)
           /\ SeqSet(skbFifo)' = SeqSet(skbFifo)
  <1>1. list' = list \ (list \cap old) /\ skbFifo' = skbFifo
    BY DEF WorkAge, GiveUp
  <1>2. SeqSet(skbFifo)' = SeqSet(skbFifo) /\ SeqSet(skbFifo) \cap list = {}
    BY <1>1 DEF SeqSet, Numbers
  <1> QED BY <1>1, <1>2 DEF Pending

\* The other steps leave the entries alone.
LEMMA QuietView ==
    ASSUME skbFifo' = skbFifo, list' = list
    PROVE  Pending' = Pending /\ SeqSet(skbFifo)' = SeqSet(skbFifo)
  BY DEF Pending, SeqSet

LEMMA NoneView ==
    ASSUME skbFifo' = <<>>, list' = {}
    PROVE  Pending' = {} /\ SeqSet(skbFifo)' = {}
  BY DEF Pending, SeqSet

-----------------------------------------------------------------------------
(* Every step keeps the types                                              *)

FifoTypes ==
    /\ skbFifo \in Seq(TheEntries) /\ Len(skbFifo) <= FifoLen
    /\ tsFifo \in Seq(TheReports) /\ Len(tsFifo) <= FifoLen
    /\ list \in SUBSET TheEntries /\ IsFiniteSet(list)

LEMMA FifoTypesStep ==
    ASSUME HwTsAssumption, Types, Numbers, Reports, [TsNext]_tsVars
    PROVE  FifoTypes'
  <1>0. FifoTypes /\ FifoLen \in Nat /\ Len(skbFifo) \in Nat /\ Len(tsFifo) \in Nat
    BY DEF Types, FifoTypes, HwTsAssumption
  <1>1. CASE UNCHANGED fifos
    BY <1>0, <1>1 DEF FifoTypes, fifos
  <1>2. CASE StorePut /\ skbFifo' # skbFifo
    <2>1. skbFifo' = Append(skbFifo, cur) /\ Len(skbFifo) < FifoLen /\ UNCHANGED <<tsFifo, list>>
          /\ xmit = "store"
      BY <1>2 DEF StorePut
    <2>2. cur \in TheEntries
      BY <2>1 DEF Types
    <2>3. skbFifo' \in Seq(TheEntries) /\ Len(skbFifo') = Len(skbFifo) + 1
      BY <1>0, <2>1, <2>2, Appended DEF FifoTypes
    <2> QED BY <1>0, <2>1, <2>3 DEF FifoTypes
  <1>3. CASE GetTxTsPut /\ tsFifo' # tsFifo
    <2>1. tsFifo' = Append(tsFifo, rep) /\ Len(tsFifo) < FifoLen /\ UNCHANGED <<skbFifo, list>>
          /\ rx = "put"
      BY <1>3 DEF GetTxTsPut
    <2>2. rep \in TheReports
      BY <2>1 DEF Types
    <2>3. tsFifo' \in Seq(TheReports) /\ Len(tsFifo') = Len(tsFifo) + 1
      BY <1>0, <2>1, <2>2, Appended DEF FifoTypes
    <2> QED BY <1>0, <2>1, <2>3 DEF FifoTypes
  <1>4. CASE WorkTake
    <2>1. /\ Head(skbFifo) \in TheEntries
          /\ skbFifo' \in Seq(TheEntries) /\ Len(skbFifo') = Len(skbFifo) - 1
          /\ list' = list \cup {Head(skbFifo)} \/ list' = list
      BY <1>4, TakeView
    <2>2. tsFifo' = tsFifo
      BY <1>4 DEF WorkTake
    <2>3. IsFiniteSet(list \cup {Head(skbFifo)}) /\ IsFiniteSet(list)
      BY <1>0, FS_AddElement DEF FifoTypes
    <2>4. list' \in SUBSET TheEntries /\ IsFiniteSet(list')
      BY <1>0, <2>1, <2>3 DEF FifoTypes
    <2>5. Len(skbFifo') <= FifoLen
      BY <1>0, <2>1 DEF FifoTypes
    <2> QED BY <1>0, <2>1, <2>2, <2>4, <2>5 DEF FifoTypes
  <1>5. CASE WorkMatch
    <2>1. /\ tsFifo' \in Seq(TheReports) /\ Len(tsFifo') = Len(tsFifo) - 1
          /\ list' \subseteq list
      BY <1>5, MatchView
    <2>2. skbFifo' = skbFifo
      BY <1>5 DEF WorkMatch
    <2>3. IsFiniteSet(list')
      BY <1>0, <2>1, FS_Subset DEF FifoTypes
    <2> QED BY <1>0, <2>1, <2>2, <2>3 DEF FifoTypes
  <1>6. CASE WorkAge
    <2>1. list' \subseteq list /\ UNCHANGED <<skbFifo, tsFifo>>
      BY <1>6 DEF WorkAge, GiveUp
    <2>2. IsFiniteSet(list')
      BY <1>0, <2>1, FS_Subset DEF FifoTypes
    <2> QED BY <1>0, <2>1, <2>2 DEF FifoTypes
  <1>7. CASE Resume \/ ReleaseFree
    <2>1. skbFifo' = <<>> /\ tsFifo' = <<>> /\ list' = {}
      BY <1>7 DEF Resume, ReleaseFree
    <2>2. IsFiniteSet({})
      BY FS_EmptySet
    <2> QED BY <1>0, <2>1, <2>2 DEF FifoTypes
  <1>8. CASE UNCHANGED tsVars
    BY <1>1, <1>8 DEF tsVars, hwtsVars
  <1>9. CASE \E s \in Skbs : XmitStart(s) \/ Consume(s)
    BY <1>1, <1>9 DEF XmitStart, Consume, hwtsVars
  <1>10. CASE StorePut \/ StoreGet \/ StoreSchedule \/ XmitEnd
    BY <1>1, <1>2, <1>10 DEF StorePut, StoreGet, StoreSchedule, XmitEnd, hwtsVars, fifos
  <1>11. CASE ReportLost \/ GetTxTs \/ GetTxTsPut \/ GetTxTsSchedule
    BY <1>1, <1>3, <1>11 DEF ReportLost, GetTxTs, GetTxTsPut, GetTxTsSchedule, hwtsVars, fifos
  <1>12. CASE WorkStart \/ WorkOn \/ TimePasses
    BY <1>1, <1>12 DEF WorkStart, WorkOn, TimePasses
  <1>13. CASE Suspend \/ ReleaseCancel \/ ReleaseOff \/ ReleaseNetdev
    BY <1>1, <1>13 DEF Suspend, ReleaseCancel, ReleaseOff, ReleaseNetdev, hwtsVars
  <1> QED
    BY <1>4, <1>5, <1>6, <1>7, <1>8, <1>9, <1>10, <1>11, <1>12, <1>13
    DEF TsNext, TsXmit, Rx, TsWork, Release

SkbTypes ==
    /\ owner \in [Skbs -> {"none", "stack", "driver", "ring"}]
    /\ refs \in [Skbs -> Int] /\ lost \in [Skbs -> Nat]

LEMMA SkbTypesStep ==
    ASSUME Types, Numbers, Reports, Driven, [TsNext]_tsVars
    PROVE  SkbTypes'
  <1>0. SkbTypes
    BY DEF Types, SkbTypes
  <1>1. CASE UNCHANGED <<owner, refs, lost>>
    BY <1>0, <1>1 DEF SkbTypes
  <1>2. ASSUME NEW s \in Skbs, XmitStart(s) PROVE SkbTypes'
    BY <1>0, <1>2 DEF SkbTypes, XmitStart, tsGhosts, memVars
  <1>3. ASSUME NEW s \in Skbs, Consume(s) PROVE SkbTypes'
    BY <1>0, <1>3 DEF SkbTypes, Consume, tsGhosts, memVars
  <1>4. CASE StoreGet
    <2>1. cur.skb \in Skbs /\ refs[cur.skb] \in Int
      BY <1>4 DEF StoreGet, Types, TheEntries
    <2>2. refs' = [refs EXCEPT ![cur.skb] = @ + 1] /\ UNCHANGED <<owner, lost>>
      BY <1>4 DEF StoreGet, tsGhosts, memVars
    <2> QED BY <1>0, <2>1, <2>2 DEF SkbTypes
  <1>5. CASE XmitEnd
    BY <1>0, <1>5 DEF SkbTypes, XmitEnd, tsGhosts, memVars
  <1>6. CASE WorkTake
    <2>1. refs' = refs \/ Put({Head(skbFifo)})
      BY <1>6, TakeView
    <2>2. refs' \in [Skbs -> Int]
      BY <1>0, <2>1, PutTyped, FS_Singleton DEF SkbTypes
    <2>3. UNCHANGED <<owner, lost>>
      BY <1>6 DEF WorkTake, memVars
    <2> QED BY <1>0, <2>2, <2>3 DEF SkbTypes
  <1>7. CASE WorkMatch
    <2>1. refs' = refs \/ \E e \in list : Put({e})
      BY <1>7, MatchView
    <2>2. refs' \in [Skbs -> Int]
      BY <1>0, <2>1, PutTyped, FS_Singleton DEF SkbTypes
    <2>3. UNCHANGED <<owner, lost>>
      BY <1>7 DEF WorkMatch, memVars
    <2> QED BY <1>0, <2>2, <2>3 DEF SkbTypes
  <1>8. CASE WorkAge
    <2>1. Put(list \cap old) /\ UNCHANGED <<owner, lost>>
      BY <1>8 DEF WorkAge, GiveUp, memVars
    <2>2. IsFiniteSet(list \cap old)
      BY FS_Subset DEF Types
    <2>3. refs' \in [Skbs -> Int]
      BY <2>1, <2>2, PutTyped
    <2> QED BY <1>0, <2>1, <2>3 DEF SkbTypes
  <1>9. CASE Suspend
    <2> DEFINE more == [s \in Skbs |-> IF owner[s] = "ring" THEN 1 ELSE 0]
    <2>1. Lose({}, more) /\ refs' = refs
          /\ owner' = [s \in Skbs |-> IF owner[s] = "ring" THEN "none" ELSE owner[s]]
      BY <1>9 DEF Suspend
    <2>2. lost' \in [Skbs -> Nat]
      BY <2>1, LoseTyped, FS_EmptySet
    <2>3. owner' \in [Skbs -> {"none", "stack", "driver", "ring"}]
      BY <1>0, <2>1 DEF SkbTypes
    <2> QED BY <1>0, <2>1, <2>2, <2>3 DEF SkbTypes
  <1>10. CASE Resume \/ ReleaseFree
    <2>1. Lose(Pending, [s \in Skbs |-> 0]) /\ UNCHANGED <<owner, refs>>
      BY <1>10 DEF Resume, ReleaseFree, skbVars
    <2>2. lost' \in [Skbs -> Nat]
      BY <2>1, LoseTyped, PendingTyped
    <2> QED BY <1>0, <2>1, <2>2 DEF SkbTypes
  <1>11. CASE StorePut \/ StoreSchedule \/ ReportLost
    BY <1>1, <1>11 DEF StorePut, StoreSchedule, ReportLost, tsGhosts, memVars, skbVars
  <1>12. CASE GetTxTs \/ GetTxTsPut \/ GetTxTsSchedule
    BY <1>1, <1>12 DEF GetTxTs, GetTxTsPut, GetTxTsSchedule, skbVars
  <1>13. CASE WorkStart \/ WorkOn \/ TimePasses
    BY <1>1, <1>13 DEF WorkStart, WorkOn, TimePasses, skbVars, tsGhosts, memVars
  <1>14. CASE ReleaseCancel \/ ReleaseOff \/ ReleaseNetdev \/ UNCHANGED tsVars
    BY <1>1, <1>14 DEF ReleaseCancel, ReleaseOff, ReleaseNetdev, tsVars, skbVars, tsGhosts, memVars
  <1> QED
    BY <1>2, <1>3, <1>4, <1>5, <1>6, <1>7, <1>8, <1>9, <1>10, <1>11, <1>12, <1>13, <1>14
    DEF TsNext, TsXmit, Rx, TsWork, Release

XmitTypes ==
    /\ refNum \in 0 .. RefMod - 1
    /\ xmit \in {"idle", "store", "map"} \cup Stored
    /\ xmit # "idle" => cur \in TheEntries
    /\ count \in 0 .. MaxTx

LEMMA XmitTypesStep ==
    ASSUME HwTsAssumption, Types, [TsNext]_tsVars
    PROVE  XmitTypes'
  <1>0. XmitTypes
    BY DEF Types, XmitTypes
  <1>1. CASE UNCHANGED <<refNum, xmit, cur, count>>
    BY <1>0, <1>1 DEF XmitTypes
  <1>2. ASSUME NEW s \in Skbs, XmitStart(s) PROVE XmitTypes'
    <2>1. count' \in 1 .. MaxTx /\ refNum' = refNum /\ cur' = TsEntry(count', s, refNum)
          /\ xmit' = "store"
      BY <1>0, <1>2 DEF XmitStart, XmitTypes, HwTsAssumption, hwtsVars
    <2>2. cur' \in TheEntries
      BY <1>0, <2>1 DEF TheEntries, TsEntry, XmitTypes
    <2> QED BY <1>0, <2>1, <2>2 DEF XmitTypes
  <1>3. CASE StorePut
    <2>1. refNum' \in 0 .. RefMod - 1
      BY <1>0, <1>3 DEF StorePut, XmitTypes, HwTsAssumption
    <2> QED BY <1>0, <1>3, <2>1 DEF StorePut, XmitTypes, Stored
  <1>4. CASE StoreGet \/ StoreSchedule \/ XmitEnd
    BY <1>0, <1>4 DEF StoreGet, StoreSchedule, XmitEnd, XmitTypes, Stored, hwtsVars
  <1>5. CASE (\E s \in Skbs : Consume(s)) \/ ReportLost \/ GetTxTs \/ GetTxTsPut \/ GetTxTsSchedule
    BY <1>1, <1>5 DEF Consume, ReportLost, GetTxTs, GetTxTsPut, GetTxTsSchedule, hwtsVars, xmitVars
  <1>6. CASE WorkStart \/ WorkTake \/ WorkMatch \/ WorkOn \/ WorkAge \/ TimePasses
    BY <1>1, <1>6 DEF WorkStart, WorkTake, WorkMatch, WorkOn, WorkAge, GiveUp, TimePasses, xmitVars
  <1>7. CASE Suspend \/ Resume \/ ReleaseCancel \/ UNCHANGED tsVars
    BY <1>1, <1>7 DEF Suspend, Resume, ReleaseCancel, tsVars, hwtsVars, xmitVars
  <1>8. CASE ReleaseOff \/ ReleaseFree \/ ReleaseNetdev
    BY <1>1, <1>8 DEF ReleaseOff, ReleaseFree, ReleaseNetdev, hwtsVars, xmitVars
  <1> QED
    BY <1>2, <1>3, <1>4, <1>5, <1>6, <1>7, <1>8 DEF TsNext, TsXmit, Rx, TsWork, Release

RxTypes ==
    /\ air \in SUBSET TheReports
    /\ rx \in {"idle", "put", "schedule"}
    /\ rx # "idle" => rep \in TheReports

LEMMA RxTypesStep ==
    ASSUME HwTsAssumption, Types, [TsNext]_tsVars
    PROVE  RxTypes'
  <1>0. RxTypes
    BY DEF Types, RxTypes
  <1>1. CASE UNCHANGED rxVars
    BY <1>0, <1>1 DEF RxTypes, rxVars
  <1>2. CASE XmitEnd
    <2>1. xmit = "tagged" => Report(cur.no, cur.ref) \in TheReports
      BY DEF Types, Report, TheReports, TheEntries
    <2> QED BY <1>0, <1>2, <2>1 DEF XmitEnd, RxTypes
  <1>3. CASE ReportLost \/ GetTxTs \/ GetTxTsPut \/ GetTxTsSchedule \/ Suspend
    BY <1>0, <1>3 DEF RxTypes, ReportLost, GetTxTs, GetTxTsPut, GetTxTsSchedule, Suspend
  <1>4. CASE (\E s \in Skbs : XmitStart(s) \/ Consume(s)) \/ StorePut \/ StoreGet \/ StoreSchedule
    BY <1>1, <1>4 DEF XmitStart, Consume, StorePut, StoreGet, StoreSchedule
  <1>5. CASE WorkStart \/ WorkTake \/ WorkMatch \/ WorkOn \/ WorkAge \/ TimePasses
    BY <1>1, <1>5 DEF WorkStart, WorkTake, WorkMatch, WorkOn, WorkAge, GiveUp, TimePasses
  <1>6. CASE Resume \/ ReleaseCancel \/ ReleaseOff \/ ReleaseFree \/ ReleaseNetdev \/ UNCHANGED tsVars
    BY <1>1, <1>6 DEF Resume, ReleaseCancel, ReleaseOff, ReleaseFree, ReleaseNetdev, tsVars
  <1> QED
    BY <1>2, <1>3, <1>4, <1>5, <1>6 DEF TsNext, TsXmit, Rx, TsWork, Release

Flags ==
    /\ on \in BOOLEAN /\ workQueued \in BOOLEAN
    /\ work \in {"idle", "take", "match", "age"}
    /\ life \in {"up", "suspended", "cancelled", "off", "freed", "gone"}
    /\ reused \in BOOLEAN /\ racing \in BOOLEAN /\ touched \in BOOLEAN

LEMMA FlagsStep ==
    ASSUME Types, [TsNext]_tsVars
    PROVE  Flags'
  <1>0. Flags
    BY DEF Types, Flags
  <1> USE DEF Flags, ifVars, hwtsVars, workVars, tsGhosts, numberVars, memVars
  <1>1. ASSUME NEW s \in Skbs, XmitStart(s) \/ Consume(s) PROVE Flags'
    BY <1>0, <1>1 DEF XmitStart, Consume
  <1>2. CASE StorePut
    <2>1. UNCHANGED <<on, life, workQueued, work, racing, touched>>
      BY <1>2 DEF StorePut
    <2>2. reused' \in BOOLEAN
      BY <1>0, <1>2 DEF StorePut, InUse
    <2> QED BY <1>0, <2>1, <2>2
  <1>3. CASE StoreGet \/ StoreSchedule \/ XmitEnd
    BY <1>0, <1>3 DEF StoreGet, StoreSchedule, XmitEnd
  <1>4. CASE ReportLost \/ GetTxTs \/ GetTxTsPut \/ GetTxTsSchedule
    BY <1>0, <1>4 DEF ReportLost, GetTxTs, GetTxTsPut, GetTxTsSchedule
  <1>5. CASE WorkStart \/ WorkOn \/ TimePasses
    BY <1>0, <1>5 DEF WorkStart, WorkOn, TimePasses
  <1>6. CASE WorkTake \/ WorkMatch \/ WorkAge
    BY <1>0, <1>6 DEF WorkTake, WorkMatch, WorkAge, GiveUp
  <1>7. CASE Suspend \/ Resume \/ ReleaseCancel
    BY <1>0, <1>7 DEF Suspend, Resume, ReleaseCancel
  <1>8. CASE ReleaseOff \/ ReleaseFree \/ ReleaseNetdev \/ UNCHANGED tsVars
    BY <1>0, <1>8 DEF ReleaseOff, ReleaseFree, ReleaseNetdev, tsVars
  <1> QED
    BY <1>1, <1>2, <1>3, <1>4, <1>5, <1>6, <1>7, <1>8 DEF TsNext, TsXmit, Rx, TsWork, Release

LEMMA TypesStep ==
    ASSUME HwTsAssumption, TsInv, [TsNext]_tsVars
    PROVE  Types'
  <1>1. FifoTypes' /\ SkbTypes' /\ XmitTypes' /\ RxTypes' /\ Flags'
    BY FifoTypesStep, SkbTypesStep, XmitTypesStep, RxTypesStep, FlagsStep DEF TsInv
  <1> QED BY <1>1 DEF Types, FifoTypes, SkbTypes, XmitTypes, RxTypes, Flags

-----------------------------------------------------------------------------
(* The interface, and what was freed                                       *)

LEMMA LivesStep ==
    ASSUME Types, Lives, [TsNext]_tsVars
    PROVE  Lives'
  <1> USE DEF Lives, ifVars, hwtsVars, workVars, fifos, tsGhosts, numberVars, memVars, xmitVars, rxVars
  <1>1. ASSUME NEW s \in Skbs, XmitStart(s) \/ Consume(s) PROVE Lives'
    BY <1>1 DEF XmitStart, Consume
  <1>2. CASE StorePut \/ StoreGet \/ StoreSchedule
    BY <1>2 DEF StorePut, StoreGet, StoreSchedule
  <1>3. CASE XmitEnd \/ ReportLost
    BY <1>3 DEF XmitEnd, ReportLost
  <1>4. CASE GetTxTs
    BY <1>4 DEF GetTxTs, Types
  <1>5. CASE GetTxTsPut
    BY <1>5 DEF GetTxTsPut, Types
  <1>6. CASE GetTxTsSchedule
    BY <1>6 DEF GetTxTsSchedule, Types
  <1>7. CASE WorkStart
    BY <1>7 DEF WorkStart, Types
  <1>8. CASE WorkTake
    BY <1>8 DEF WorkTake
  <1>9. CASE WorkMatch
    BY <1>9 DEF WorkMatch
  <1>10. CASE WorkOn \/ TimePasses
    BY <1>10 DEF WorkOn, TimePasses
  <1>11. CASE WorkAge
    BY <1>11 DEF WorkAge, GiveUp
  <1>12. CASE Suspend \/ Resume
    BY <1>12 DEF Suspend, Resume
  <1>13. CASE ReleaseCancel
    BY <1>13 DEF ReleaseCancel
  <1>14. CASE ReleaseOff \/ ReleaseFree
    BY <1>14 DEF ReleaseOff, ReleaseFree
  <1>15. CASE ReleaseNetdev
    BY <1>15 DEF ReleaseNetdev, Types
  <1>16. CASE UNCHANGED tsVars
    BY <1>16 DEF tsVars
  <1> QED
    BY <1>1, <1>2, <1>3, <1>4, <1>5, <1>6, <1>7, <1>8, <1>9, <1>10, <1>11, <1>12, <1>13, <1>14,
       <1>15, <1>16
    DEF TsNext, TsXmit, Rx, TsWork, Release

-----------------------------------------------------------------------------
(* Entries are told apart                                                  *)

\* Entries only go, and the transmission goes on or ends.
SendsOn == /\ count' = count
           /\ xmit' # "idle" => cur' = cur /\ xmit # "idle" /\ (xmit \in Stored => xmit' \in Stored)

LEMMA NumbersKept ==
    ASSUME Numbers, Pending' \subseteq Pending, Distinct(skbFifo'),
           SeqSet(skbFifo)' \cap list' = {}, SendsOn
    PROVE  Numbers'
  <1>1. xmit' # "idle" => cur'.no = count'
    BY DEF Numbers, SendsOn
  <1>2. Distinct(skbFifo)'
    BY DEF Distinct
  <1>3. \A e, f \in Pending' : e.no = f.no => e = f
    BY DEF Numbers
  <1>4. \A e \in Pending' : /\ e.no <= count'
                            /\ xmit' # "idle" /\ e.no = cur'.no => xmit' \in Stored /\ e = cur'
    BY DEF Numbers, SendsOn
  <1> QED BY <1>1, <1>2, <1>3, <1>4 DEF Numbers

LEMMA NumbersQuiet ==
    ASSUME Numbers, skbFifo' = skbFifo, list' = list, SendsOn
    PROVE  Numbers'
  <1>1. Pending' = Pending /\ SeqSet(skbFifo)' = SeqSet(skbFifo)
    BY QuietView
  <1>2. Distinct(skbFifo') /\ SeqSet(skbFifo)' \cap list' = {}
    BY <1>1 DEF Numbers
  <1> QED BY <1>1, <1>2, NumbersKept

LEMMA NumbersStep ==
    ASSUME Types, Lives, Numbers, Reports, [TsNext]_tsVars
    PROVE  Numbers'
  <1>1. ASSUME NEW s \in Skbs, XmitStart(s) PROVE Numbers'
    <2>1. /\ count' = count + 1 /\ cur'.no = count' /\ xmit' = "store"
          /\ skbFifo' = skbFifo /\ list' = list
      BY <1>1 DEF XmitStart, TsEntry, hwtsVars, fifos
    <2>2. Pending' = Pending /\ SeqSet(skbFifo)' = SeqSet(skbFifo)
      BY <2>1, QuietView
    <2>3. Pending \in SUBSET TheEntries /\ count \in Nat
      BY PendingTyped DEF Types
    <2>4. \A e \in Pending : e.no \in Nat /\ e.no <= count
      BY <2>3 DEF Numbers, TheEntries
    <2>5. \A e \in Pending' : e.no <= count' /\ e.no # cur'.no
      BY <2>1, <2>2, <2>3, <2>4
    <2>6. \A e, f \in Pending' : e.no = f.no => e = f
      BY <2>2 DEF Numbers
    <2>7. Distinct(skbFifo)' /\ SeqSet(skbFifo)' \cap list' = {}
      BY <2>1, <2>2 DEF Numbers, Distinct
    <2> QED BY <2>1, <2>5, <2>6, <2>7 DEF Numbers
  <1>2. ASSUME NEW s \in Skbs, Consume(s) PROVE Numbers'
    BY <1>2, NumbersQuiet DEF Consume, hwtsVars, fifos, xmitVars, SendsOn
  <1>3. CASE StorePut /\ skbFifo' = skbFifo
    <2>1. xmit = "store" /\ xmit' \in {"get", "map"} /\ UNCHANGED <<list, cur, count>>
      BY <1>3 DEF StorePut
    <2>2. SendsOn
      BY <2>1 DEF SendsOn, Stored
    <2> QED BY <1>3, <2>1, <2>2, NumbersQuiet
  <1>4. CASE StorePut /\ skbFifo' # skbFifo
    <2>1. /\ xmit = "store" /\ xmit' = "get" /\ UNCHANGED <<list, cur, count>>
          /\ skbFifo' = Append(skbFifo, cur)
      BY <1>4 DEF StorePut
    <2>2. /\ SeqSet(skbFifo)' = SeqSet(skbFifo) \cup {cur} /\ Pending' = Pending \cup {cur}
      BY <2>1, PutView
    <2>3. \A e \in Pending : e.no # cur.no /\ e.no <= count
      BY <2>1 DEF Numbers, Stored
    <2>4. /\ skbFifo \in Seq(TheEntries) /\ cur \in TheEntries /\ count \in Nat
          /\ cur.no = count
      BY <2>1 DEF Types, Numbers
    <2>5. SeqSet(skbFifo) \subseteq Pending /\ list \subseteq Pending
      BY PendingTyped
    <2>6. Distinct(skbFifo) /\ SeqSet(skbFifo) \cap list = {}
      BY DEF Numbers
    <2>7. Distinct(Append(skbFifo, cur))
      BY <2>3, <2>4, <2>5, <2>6, DistinctAppend
    <2>8. Distinct(skbFifo)'
      BY <2>1, <2>7 DEF Distinct
    <2>9. cur \notin list
      BY <2>3, <2>5
    <2>10. SeqSet(skbFifo)' \cap list' = {}
      BY <2>1, <2>2, <2>6, <2>9
    <2>11. \A e, f \in Pending' : e.no = f.no => e = f
      BY <2>2, <2>3 DEF Numbers
    <2>12. \A e \in Pending' : /\ e.no <= count'
                               /\ e.no = cur'.no => xmit' \in Stored /\ e = cur'
      BY <2>1, <2>2, <2>3, <2>4 DEF Stored
    <2> QED BY <2>1, <2>4, <2>8, <2>10, <2>11, <2>12 DEF Numbers
  <1>5. CASE StoreGet \/ StoreSchedule \/ XmitEnd
    <2>1. SendsOn
      BY <1>5 DEF StoreGet, StoreSchedule, XmitEnd, SendsOn, Stored
    <2> QED BY <1>5, <2>1, NumbersQuiet DEF StoreGet, StoreSchedule, XmitEnd, hwtsVars, fifos
  <1>6. CASE ReportLost \/ GetTxTs \/ GetTxTsPut \/ GetTxTsSchedule
    <2>1. SendsOn
      BY <1>6 DEF ReportLost, GetTxTs, GetTxTsPut, GetTxTsSchedule, xmitVars, SendsOn
    <2> QED BY <1>6, <2>1, NumbersQuiet
            DEF ReportLost, GetTxTs, GetTxTsPut, GetTxTsSchedule, hwtsVars, fifos
  <1>7. CASE WorkStart \/ WorkOn \/ TimePasses
    <2>1. SendsOn
      BY <1>7 DEF WorkStart, WorkOn, TimePasses, xmitVars, SendsOn
    <2> QED BY <1>7, <2>1, NumbersQuiet DEF WorkStart, WorkOn, TimePasses, fifos
  <1>8. CASE WorkTake
    <2>1. SendsOn
      BY <1>8 DEF WorkTake, xmitVars, SendsOn
    <2>2. /\ Pending' \subseteq Pending /\ Distinct(skbFifo')
          /\ SeqSet(skbFifo)' = SeqSet(skbFifo) \ {Head(skbFifo)}
          /\ list' \subseteq list \cup {Head(skbFifo)}
      BY <1>8, TakeView
    <2>3. SeqSet(skbFifo)' \cap list' = {}
      BY <2>2 DEF Numbers
    <2> QED BY <2>1, <2>2, <2>3, NumbersKept
  <1>9. CASE WorkMatch
    <2>1. SendsOn /\ skbFifo' = skbFifo
      BY <1>9 DEF WorkMatch, xmitVars, SendsOn
    <2>2. /\ Pending' \subseteq Pending /\ list' \subseteq list
          /\ SeqSet(skbFifo)' = SeqSet(skbFifo)
      BY <1>9, MatchView
    <2>3. SeqSet(skbFifo)' \cap list' = {} /\ Distinct(skbFifo')
      BY <2>1, <2>2 DEF Numbers
    <2> QED BY <2>1, <2>2, <2>3, NumbersKept
  <1>10. CASE WorkAge
    <2>1. SendsOn /\ skbFifo' = skbFifo
      BY <1>10 DEF WorkAge, GiveUp, xmitVars, SendsOn
    <2>2. /\ Pending' \subseteq Pending /\ list' \subseteq list
          /\ SeqSet(skbFifo)' = SeqSet(skbFifo)
      BY <1>10, AgeView
    <2>3. SeqSet(skbFifo)' \cap list' = {} /\ Distinct(skbFifo')
      BY <2>1, <2>2 DEF Numbers
    <2> QED BY <2>1, <2>2, <2>3, NumbersKept
  <1>11. CASE Suspend \/ ReleaseCancel \/ ReleaseOff \/ ReleaseNetdev
    <2>1. SendsOn
      BY <1>11 DEF Suspend, ReleaseCancel, ReleaseOff, ReleaseNetdev, xmitVars, SendsOn
    <2> QED BY <1>11, <2>1, NumbersQuiet
            DEF Suspend, ReleaseCancel, ReleaseOff, ReleaseNetdev, hwtsVars, fifos
  <1>12. CASE Resume \/ ReleaseFree
    <2>1. SendsOn /\ skbFifo' = <<>> /\ list' = {}
      BY <1>12 DEF Resume, ReleaseFree, xmitVars, SendsOn
    <2>2. Pending' = {} /\ SeqSet(skbFifo)' = {} /\ Distinct(skbFifo')
      BY <2>1, NoneView DEF Distinct
    <2> QED BY <2>1, <2>2, NumbersKept
  <1>13. CASE UNCHANGED tsVars
    BY <1>13, NumbersQuiet DEF tsVars, hwtsVars, fifos, xmitVars, SendsOn
  <1> QED
    BY <1>1, <1>2, <1>3, <1>4, <1>5, <1>6, <1>7, <1>8, <1>9, <1>10, <1>11, <1>12, <1>13
    DEF TsNext, TsXmit, Rx, TsWork, Release

-----------------------------------------------------------------------------
(* The skb of a transmission                                               *)

LEMMA DrivenStep ==
    ASSUME Types, Lives, Numbers, Reports, Driven, [TsNext]_tsVars
    PROVE  Driven'
  <1>0. xmit # "idle" => cur.skb \in Skbs
    BY DEF Types, TheEntries
  <1>1. ASSUME NEW s \in Skbs, XmitStart(s) PROVE Driven'
    <2>1. /\ count' = count + 1 /\ cur'.no = count' /\ cur'.skb = s /\ old' = old
          /\ skbFifo' = skbFifo /\ list' = list /\ owner' = [owner EXCEPT ![s] = "driver"]
      BY <1>1 DEF XmitStart, TsEntry, hwtsVars, fifos
    <2>2. Pending' = Pending
      BY <2>1, QuietView
    <2>3. \A e \in Pending : e.no \in Nat /\ e.no <= count /\ count \in Nat
      BY PendingTyped DEF Types, TheEntries, Numbers
    <2>4. cur' \notin old'
      BY <2>1, <2>3 DEF Driven
    <2>5. owner'[cur'.skb] = "driver"
      BY <2>1 DEF Types
    <2> QED BY <2>1, <2>2, <2>4, <2>5 DEF Driven
  <1>2. ASSUME NEW s \in Skbs, Consume(s) PROVE Driven'
    <2>1. /\ UNCHANGED <<skbFifo, list, old, xmit, cur>> /\ owner[s] \in {"ring", "stack"}
          /\ owner' = [owner EXCEPT ![s] = "none"]
      BY <1>2 DEF Consume, hwtsVars, fifos, xmitVars
    <2>2. Pending' = Pending
      BY <2>1, QuietView
    <2>3. xmit # "idle" => owner'[cur.skb] = "driver"
      BY <1>0, <2>1 DEF Driven, Types
    <2> QED BY <2>1, <2>2, <2>3 DEF Driven
  <1>3. CASE StorePut
    <2>1. /\ xmit = "store" /\ UNCHANGED <<cur, old, owner>>
          /\ \/ skbFifo' = Append(skbFifo, cur) /\ list' = list
             \/ skbFifo' = skbFifo /\ list' = list
      BY <1>3 DEF StorePut, skbVars
    <2>2. Pending \subseteq Pending'
      BY <2>1, PutView, QuietView
    <2> QED BY <2>1, <2>2 DEF Driven
  <1>4. CASE StoreGet \/ StoreSchedule
    <2>1. UNCHANGED <<cur, old, owner, skbFifo, list>> /\ xmit # "idle"
      BY <1>4 DEF StoreGet, StoreSchedule, hwtsVars, fifos, skbVars
    <2>2. Pending' = Pending
      BY <2>1, QuietView
    <2> QED BY <2>1, <2>2 DEF Driven
  <1>5. CASE XmitEnd
    <2>1. UNCHANGED <<old, skbFifo, list>> /\ xmit' = "idle"
      BY <1>5 DEF XmitEnd, hwtsVars, fifos
    <2>2. Pending' = Pending
      BY <2>1, QuietView
    <2> QED BY <2>1, <2>2 DEF Driven
  <1>6. CASE UNCHANGED <<cur, xmit, owner, old, skbFifo, list>>
    <2>1. Pending' = Pending
      BY <1>6, QuietView
    <2> QED BY <1>6, <2>1 DEF Driven
  <1>7. CASE ReportLost \/ GetTxTs \/ GetTxTsPut \/ GetTxTsSchedule
    BY <1>6, <1>7 DEF ReportLost, GetTxTs, GetTxTsPut, GetTxTsSchedule, hwtsVars, fifos, skbVars, xmitVars
  <1>8. CASE WorkStart \/ WorkOn \/ UNCHANGED tsVars
    BY <1>6, <1>8 DEF WorkStart, WorkOn, tsVars, hwtsVars, fifos, skbVars, xmitVars
  <1>9. CASE WorkTake \/ WorkMatch \/ WorkAge
    <2>1. UNCHANGED <<cur, xmit, owner>> /\ old' = old \cap Pending'
      BY <1>9 DEF WorkTake, WorkMatch, WorkAge, GiveUp, xmitVars
    <2> QED BY <2>1 DEF Driven
  <1>10. CASE TimePasses
    <2>1. xmit = "idle" /\ xmit' = xmit /\ old' = Pending /\ skbFifo' = skbFifo /\ list' = list
      BY <1>10 DEF TimePasses, xmitVars, fifos
    <2>2. Pending' = Pending
      BY <2>1, QuietView
    <2> QED BY <2>1, <2>2 DEF Driven
  <1>11. CASE Suspend
    <2>1. xmit' = "idle" /\ UNCHANGED <<old, skbFifo, list>>
      BY <1>11 DEF Suspend, hwtsVars, fifos, xmitVars
    <2>2. Pending' = Pending
      BY <2>1, QuietView
    <2> QED BY <2>1, <2>2 DEF Driven
  <1>12. CASE Resume \/ ReleaseFree
    <2>1. UNCHANGED <<cur, xmit, owner>> /\ old' = {}
      BY <1>12 DEF Resume, ReleaseFree, skbVars, xmitVars
    <2> QED BY <2>1 DEF Driven
  <1>13. CASE ReleaseCancel \/ ReleaseOff \/ ReleaseNetdev
    BY <1>6, <1>13 DEF ReleaseCancel, ReleaseOff, ReleaseNetdev, hwtsVars, fifos, skbVars, xmitVars
  <1> QED
    BY <1>1, <1>2, <1>3, <1>4, <1>5, <1>7, <1>8, <1>9, <1>10, <1>11, <1>12, <1>13
    DEF TsNext, TsXmit, Rx, TsWork, Release

-----------------------------------------------------------------------------
(* The reports that come                                                   *)

LEMMA ComingQuiet ==
    ASSUME air' = air, tsFifo' = tsFifo, rep' = rep, rx' = "put" <=> rx = "put"
    PROVE  Coming' = Coming /\ SeqSet(tsFifo)' = SeqSet(tsFifo)
  BY DEF Coming, SeqSet

LEMMA ComingTyped ==
    ASSUME Types
    PROVE  Coming \in SUBSET TheReports
  <1>1. SeqSet(tsFifo) \in SUBSET TheReports
    BY PendingTyped
  <1> QED BY <1>1 DEF Coming, Types

\* A report is put into the fifo.
LEMMA ReportPut ==
    ASSUME Types, rx = "put", tsFifo' = Append(tsFifo, rep)
    PROVE  SeqSet(tsFifo)' = SeqSet(tsFifo) \cup {rep}
  <1>1. rep \in TheReports /\ tsFifo \in Seq(TheReports)
    BY DEF Types
  <1>2. SeqSet(Append(tsFifo, rep)) = SeqSet(tsFifo) \cup {rep}
    BY <1>1, Appended
  <1> QED BY <1>2 DEF SeqSet

\* Reports and entries only go.
LEMMA ReportsKept ==
    ASSUME Reports, Coming' \subseteq Coming, Pending' \subseteq Pending, SendsOn,
           Distinct(tsFifo'), air' \cap SeqSet(tsFifo)' = {},
           rx' = "put" => rep' \notin air' \cup SeqSet(tsFifo)'
    PROVE  Reports'
  <1>1. Distinct(tsFifo)'
    BY DEF Distinct
  <1>2. \A p, q \in Coming' : p.no = q.no => p = q
    BY DEF Reports
  <1>3. \A p \in Coming' : p.no <= count' /\ (xmit' # "idle" => p.no # cur'.no)
    BY DEF Reports, SendsOn
  <1>4. \A p \in Coming', e \in Pending' : p.no = e.no => p.ref = e.ref
    BY DEF Reports
  <1> QED BY <1>1, <1>2, <1>3, <1>4 DEF Reports

LEMMA ReportsQuiet ==
    ASSUME Reports, air' = air, tsFifo' = tsFifo, rep' = rep, rx' = "put" <=> rx = "put",
           Pending' \subseteq Pending, SendsOn
    PROVE  Reports'
  <1>1. Coming' = Coming /\ SeqSet(tsFifo)' = SeqSet(tsFifo)
    BY ComingQuiet
  <1>2. /\ Distinct(tsFifo') /\ air' \cap SeqSet(tsFifo)' = {}
        /\ rx' = "put" => rep' \notin air' \cup SeqSet(tsFifo)'
    BY <1>1 DEF Reports
  <1> QED BY <1>1, <1>2, ReportsKept

\* A transmission that ends well will be reported.
LEMMA SentView ==
    ASSUME XmitEnd
    PROVE  /\ xmit' = "idle" /\ count' = count /\ tsFifo' = tsFifo /\ rx' = rx /\ rep' = rep
           /\ SeqSet(tsFifo)' = SeqSet(tsFifo) /\ Pending' = Pending
           /\ \/ air' = air /\ Coming' = Coming
              \/ /\ xmit = "tagged"
                 /\ air' = air \cup {Report(cur.no, cur.ref)}
                 /\ Coming' = Coming \cup {Report(cur.no, cur.ref)}
  <1>1. /\ xmit' = "idle" /\ count' = count /\ rx' = rx /\ rep' = rep
        /\ UNCHANGED <<skbFifo, list, tsFifo>>
    BY DEF XmitEnd, hwtsVars, fifos
  <1>2. air' = air \/ (xmit = "tagged" /\ air' = air \cup {Report(cur.no, cur.ref)})
    BY DEF XmitEnd
  <1>3. SeqSet(tsFifo)' = SeqSet(tsFifo) /\ Pending' = Pending
    BY <1>1, QuietView DEF SeqSet
  <1> QED BY <1>1, <1>2, <1>3 DEF Coming

\* The receive poll has the report in hand, then in the fifo or nowhere.
LEMMA RxView ==
    ASSUME Types, Reports, ReportLost \/ GetTxTs \/ GetTxTsPut \/ GetTxTsSchedule
    PROVE  /\ Coming' \subseteq Coming /\ Pending' = Pending /\ SendsOn /\ reused' = reused
           /\ Distinct(tsFifo') /\ air' \cap SeqSet(tsFifo)' = {}
           /\ rx' = "put" => rep' \notin air' \cup SeqSet(tsFifo)'
  <1> USE DEF hwtsVars, fifos, xmitVars, SendsOn, numberVars
  <1>1. CASE ReportLost
    <2>1. /\ \E p \in air : air' = air \ {p}
          /\ UNCHANGED <<skbFifo, tsFifo, list, rx, rep, reused, xmit, cur, count>>
      BY <1>1 DEF ReportLost
    <2>2. SeqSet(tsFifo)' = SeqSet(tsFifo) /\ Pending' = Pending
      BY <2>1, QuietView DEF SeqSet
    <2> QED BY <2>1, <2>2 DEF Coming, Reports
  <1>2. CASE GetTxTs
    <2>1. /\ \E p \in air : air' = air \ {p} /\ rep' = p
          /\ rx = "idle" /\ rx' = "put"
          /\ UNCHANGED <<skbFifo, tsFifo, list, reused, xmit, cur, count>>
      BY <1>2 DEF GetTxTs
    <2>2. SeqSet(tsFifo)' = SeqSet(tsFifo) /\ Pending' = Pending
      BY <2>1, QuietView DEF SeqSet
    <2> QED BY <2>1, <2>2 DEF Coming, Reports
  <1>3. CASE GetTxTsPut
    <2>1. /\ rx = "put" /\ rx' = "schedule"
          /\ tsFifo' = tsFifo \/ tsFifo' = Append(tsFifo, rep)
          /\ UNCHANGED <<skbFifo, list, reused, air, rep, xmit, cur, count>>
      BY <1>3 DEF GetTxTsPut
    <2>2. Pending' = Pending
      BY <2>1, QuietView
    <2>3. CASE tsFifo' = tsFifo
      <3>1. SeqSet(tsFifo)' = SeqSet(tsFifo)
        BY <2>3 DEF SeqSet
      <3> QED BY <2>1, <2>2, <2>3, <3>1 DEF Coming, Reports
    <2>4. CASE tsFifo' = Append(tsFifo, rep)
      <3>1. SeqSet(tsFifo)' = SeqSet(tsFifo) \cup {rep}
        BY <2>1, <2>4, ReportPut
      <3>2. rep \notin air \cup SeqSet(tsFifo) /\ rep \in Coming
        BY <2>1 DEF Reports, Coming
      <3>3. \A p \in SeqSet(tsFifo) : p.no # rep.no
        BY <3>2 DEF Reports, Coming
      <3>4. tsFifo \in Seq(TheReports) /\ rep \in TheReports /\ Distinct(tsFifo)
        BY <2>1 DEF Types, Reports
      <3>5. Distinct(tsFifo')
        BY <2>4, <3>3, <3>4, DistinctAppend
      <3>6. Coming' \subseteq Coming
        BY <2>1, <3>1 DEF Coming
      <3> QED BY <2>1, <2>2, <3>1, <3>2, <3>5, <3>6 DEF Reports
    <2> QED BY <2>1, <2>3, <2>4
  <1>4. CASE GetTxTsSchedule
    <2>1. /\ rx = "schedule" /\ rx' = "idle"
          /\ UNCHANGED <<skbFifo, tsFifo, list, reused, air, xmit, cur, count>>
      BY <1>4 DEF GetTxTsSchedule
    <2>2. SeqSet(tsFifo)' = SeqSet(tsFifo) /\ Pending' = Pending
      BY <2>1, QuietView DEF SeqSet
    <2> QED BY <2>1, <2>2 DEF Coming, Reports
  <1> QED BY <1>1, <1>2, <1>3, <1>4

\* The frames in the ring are forgotten, or the fifos are.
LEMMA ForgetView ==
    ASSUME Types, Lives, Suspend \/ Resume \/ ReleaseFree
    PROVE  /\ Coming' \subseteq Coming /\ SendsOn /\ Pending' \subseteq Pending
           /\ \/ tsFifo' = tsFifo /\ SeqSet(tsFifo)' = SeqSet(tsFifo)
              \/ tsFifo' = <<>> /\ SeqSet(tsFifo)' = {}
           /\ air' \subseteq air /\ rx' = rx /\ rep' = rep
           /\ ReleaseFree \/ Pending' = Pending \/ Coming' = {}
           /\ reused' = reused /\ aged' = aged /\ xmit' = xmit /\ cur' = cur
  <1> USE DEF hwtsVars, fifos, xmitVars, rxVars, numberVars, SendsOn
  <1>1. CASE Suspend
    <2>1. /\ air' = {} /\ UNCHANGED <<skbFifo, tsFifo, list, xmit, cur, count, rx, rep, reused, aged>>
      BY <1>1 DEF Suspend
    <2>2. SeqSet(tsFifo)' = SeqSet(tsFifo) /\ Pending' = Pending
      BY <2>1, QuietView DEF SeqSet
    <2> QED BY <2>1, <2>2 DEF Coming
  <1>2. CASE Resume
    <2>1. /\ skbFifo' = <<>> /\ tsFifo' = <<>> /\ list' = {} /\ life = "suspended"
          /\ UNCHANGED <<air, xmit, cur, count, rx, rep, reused, aged>>
      BY <1>2 DEF Resume
    <2>2. SeqSet(tsFifo)' = {} /\ Pending' = {}
      BY <2>1, NoneView DEF SeqSet
    <2>3. Coming' = {}
      BY <2>1, <2>2 DEF Coming, Lives
    <2> QED BY <2>1, <2>2, <2>3
  <1>3. CASE ReleaseFree
    <2>1. /\ skbFifo' = <<>> /\ tsFifo' = <<>> /\ list' = {}
          /\ UNCHANGED <<air, xmit, cur, count, rx, rep, reused, aged>>
      BY <1>3 DEF ReleaseFree
    <2>2. SeqSet(tsFifo)' = {} /\ Pending' = {}
      BY <2>1, NoneView DEF SeqSet
    <2> QED BY <1>3, <2>1, <2>2 DEF Coming
  <1> QED BY <1>1, <1>2, <1>3

LEMMA ReportsStep ==
    ASSUME Types, Lives, Numbers, Reports, [TsNext]_tsVars
    PROVE  Reports'
  <1>0. \A p \in Coming : p.no \in Nat
    BY ComingTyped DEF TheReports
  <1>1. ASSUME NEW s \in Skbs, XmitStart(s) PROVE Reports'
    <2>1. /\ count' = count + 1 /\ cur'.no = count' /\ count \in Nat
          /\ UNCHANGED <<skbFifo, tsFifo, list, air, rx, rep>>
      BY <1>1 DEF XmitStart, TsEntry, hwtsVars, fifos, rxVars, Types
    <2>2. Pending' = Pending /\ Coming' = Coming /\ SeqSet(tsFifo)' = SeqSet(tsFifo)
      BY <2>1, QuietView, ComingQuiet
    <2>3. \A p \in Coming' : p.no <= count' /\ p.no # cur'.no
      BY <1>0, <2>1, <2>2 DEF Reports
    <2>4. Distinct(tsFifo)'
      BY <2>1 DEF Distinct, Reports
    <2> QED BY <2>1, <2>2, <2>3, <2>4 DEF Reports
  <1>2. CASE (\E s \in Skbs : Consume(s)) \/ StoreGet \/ StoreSchedule
    <2>1. UNCHANGED <<skbFifo, tsFifo, list, air, rx, rep>> /\ SendsOn
      BY <1>2 DEF Consume, StoreGet, StoreSchedule, hwtsVars, fifos, rxVars, xmitVars, SendsOn, Stored
    <2>2. Pending' = Pending
      BY <2>1, QuietView
    <2> QED BY <2>1, <2>2, ReportsQuiet
  <1>3. CASE StorePut /\ skbFifo' = skbFifo
    <2>1. UNCHANGED <<tsFifo, list, air, rx, rep>> /\ SendsOn
      BY <1>3 DEF StorePut, rxVars, SendsOn, Stored
    <2>2. Pending' = Pending
      BY <1>3, <2>1, QuietView
    <2> QED BY <2>1, <2>2, ReportsQuiet
  <1>4. CASE StorePut /\ skbFifo' # skbFifo
    <2>1. /\ UNCHANGED <<tsFifo, list, air, rx, rep, cur, count>> /\ xmit = "store"
          /\ skbFifo' = Append(skbFifo, cur)
      BY <1>4 DEF StorePut, rxVars
    <2>2. Pending' = Pending \cup {cur} /\ Coming' = Coming /\ SeqSet(tsFifo)' = SeqSet(tsFifo)
      BY <2>1, PutView, ComingQuiet
    <2>3. \A p \in Coming : p.no <= count /\ p.no # cur.no
      BY <2>1 DEF Reports
    <2>4. \A p \in Coming', e \in Pending' : p.no = e.no => p.ref = e.ref
      BY <2>2, <2>3 DEF Reports
    <2>5. Distinct(tsFifo)'
      BY <2>1 DEF Distinct, Reports
    <2> QED BY <2>1, <2>2, <2>3, <2>4, <2>5 DEF Reports
  <1>5. CASE XmitEnd
    <2> DEFINE r == Report(cur.no, cur.ref)
    <2>1. /\ xmit' = "idle" /\ count' = count /\ tsFifo' = tsFifo /\ rx' = rx /\ rep' = rep
          /\ SeqSet(tsFifo)' = SeqSet(tsFifo) /\ Pending' = Pending
          /\ \/ air' = air /\ Coming' = Coming
             \/ xmit = "tagged" /\ air' = air \cup {r} /\ Coming' = Coming \cup {r}
      BY <1>5, SentView
    <2>2. CASE air' = air /\ Coming' = Coming
      BY <2>1, <2>2, ReportsQuiet DEF SendsOn
    <2>3. CASE xmit = "tagged" /\ air' = air \cup {r} /\ Coming' = Coming \cup {r}
      <3>1. r.no = cur.no /\ r.ref = cur.ref /\ cur.no = count /\ count \in Nat
        BY <2>3 DEF Report, Numbers, Types
      <3>2. \A p \in Coming : p.no <= count /\ p.no # r.no
        BY <2>3, <3>1 DEF Reports
      <3>3. \A e \in Pending : e.no = r.no => e.ref = r.ref
        BY <2>3, <3>1 DEF Numbers
      <3>4. Distinct(tsFifo)' /\ tsFifo' = tsFifo
        BY <2>1 DEF Distinct, Reports
      <3>5. \A p, q \in Coming' : p.no = q.no => p = q
        BY <2>3, <3>2 DEF Reports
      <3>6. \A p \in Coming' : p.no <= count'
        BY <2>1, <2>3, <3>1, <3>2
      <3>7. \A p \in Coming', e \in Pending' : p.no = e.no => p.ref = e.ref
        BY <2>1, <2>3, <3>3 DEF Reports
      <3>8. r \notin SeqSet(tsFifo) /\ (rx = "put" => r # rep)
        BY <3>2 DEF Coming
      <3>9. air' \cap SeqSet(tsFifo)' = {} /\ (rx' = "put" => rep' \notin air' \cup SeqSet(tsFifo)')
        BY <2>1, <2>3, <3>8 DEF Reports
      <3> QED BY <2>1, <3>4, <3>5, <3>6, <3>7, <3>9 DEF Reports
    <2> QED BY <2>1, <2>2, <2>3
  <1>6. CASE ReportLost \/ GetTxTs \/ GetTxTsPut \/ GetTxTsSchedule
    BY <1>6, RxView, ReportsKept
  <1>7. CASE WorkStart \/ WorkOn \/ TimePasses
    <2>1. UNCHANGED <<skbFifo, tsFifo, list, air, rx, rep>> /\ SendsOn
      BY <1>7 DEF WorkStart, WorkOn, TimePasses, fifos, rxVars, xmitVars, SendsOn
    <2>2. Pending' = Pending
      BY <2>1, QuietView
    <2> QED BY <2>1, <2>2, ReportsQuiet
  <1>8. CASE WorkTake
    <2>1. UNCHANGED <<tsFifo, air, rx, rep>> /\ SendsOn
      BY <1>8 DEF WorkTake, rxVars, xmitVars, SendsOn
    <2>2. Pending' \subseteq Pending
      BY <1>8, TakeView
    <2> QED BY <2>1, <2>2, ReportsQuiet
  <1>9. CASE WorkMatch
    <2>1. UNCHANGED <<air, rx, rep>> /\ SendsOn
      BY <1>9 DEF WorkMatch, rxVars, xmitVars, SendsOn
    <2>2. /\ Pending' \subseteq Pending /\ Distinct(tsFifo')
          /\ SeqSet(tsFifo)' \subseteq SeqSet(tsFifo)
      BY <1>9, MatchView
    <2>3. Coming' \subseteq Coming
      BY <2>1, <2>2 DEF Coming
    <2> QED BY <2>1, <2>2, <2>3, ReportsKept DEF Reports
  <1>10. CASE WorkAge
    <2>1. UNCHANGED <<tsFifo, air, rx, rep>> /\ SendsOn
      BY <1>10 DEF WorkAge, GiveUp, rxVars, xmitVars, SendsOn
    <2>2. Pending' \subseteq Pending
      BY <1>10, AgeView
    <2> QED BY <2>1, <2>2, ReportsQuiet
  <1>11. CASE Suspend \/ Resume \/ ReleaseFree
    <2>1. /\ Coming' \subseteq Coming /\ SendsOn /\ Pending' \subseteq Pending
          /\ \/ tsFifo' = tsFifo /\ SeqSet(tsFifo)' = SeqSet(tsFifo)
             \/ tsFifo' = <<>> /\ SeqSet(tsFifo)' = {}
          /\ air' \subseteq air /\ rx' = rx /\ rep' = rep
      BY <1>11, ForgetView
    <2>2. Distinct(tsFifo')
      BY <2>1 DEF Reports, Distinct
    <2> QED BY <2>1, <2>2, ReportsKept DEF Reports
  <1>12. CASE ReleaseCancel \/ ReleaseOff \/ ReleaseNetdev
    <2>1. UNCHANGED <<skbFifo, tsFifo, list, air, rx, rep>> /\ SendsOn
      BY <1>12 DEF ReleaseCancel, ReleaseOff, ReleaseNetdev, hwtsVars, fifos, rxVars, xmitVars, SendsOn
    <2>2. Pending' = Pending
      BY <2>1, QuietView
    <2> QED BY <2>1, <2>2, ReportsQuiet
  <1>13. CASE UNCHANGED tsVars
    <2>1. UNCHANGED <<skbFifo, tsFifo, list, air, rx, rep>> /\ SendsOn
      BY <1>13 DEF tsVars, hwtsVars, fifos, rxVars, xmitVars, SendsOn
    <2>2. Pending' = Pending
      BY <2>1, QuietView
    <2> QED BY <2>1, <2>2, ReportsQuiet
  <1> QED
    BY <1>1, <1>2, <1>3, <1>4, <1>5, <1>6, <1>7, <1>8, <1>9, <1>10, <1>11, <1>12, <1>13
    DEF TsNext, TsXmit, Rx, TsWork, Release

-----------------------------------------------------------------------------
(* Numbers that are in use once                                            *)

Forgotten == life \in {"freed", "gone"}

\* Reports and entries only go, and what goes while its report comes is given up.
LEMMA MatchingKept ==
    ASSUME Matching, Coming' \subseteq Coming, Pending' \subseteq Pending,
           xmit' \in Stored => cur' \in Pending',
           Forgotten => Forgotten',
           ~Forgotten' => /\ \A p \in Coming' : p.no \in aged => p.no \in aged'
                          /\ \A p \in Coming', e \in Pending \ Pending' :
                                e.no = p.no => p.no \in aged'
    PROVE  Matching'
  <1>1. \A e, f \in Pending' : e.ref = f.ref => e = f
    BY DEF Matching
  <1>2. \A p \in Coming', e \in Pending' : p.ref = e.ref => p.no = e.no
    BY DEF Matching
  <1>3. ASSUME ~Forgotten', NEW p \in Coming'
        PROVE  p.no \in aged' \/ \E e \in Pending' : e.no = p.no
    BY <1>3 DEF Matching, Forgotten
  <1> QED BY <1>1, <1>2, <1>3 DEF Matching, Forgotten

LEMMA MatchingQuiet ==
    ASSUME Matching, Coming' \subseteq Coming, Pending' = Pending, aged' = aged,
           xmit' \in Stored => xmit \in Stored /\ cur' = cur, Forgotten => Forgotten'
    PROVE  Matching'
  BY MatchingKept DEF Matching

\* The report that is matched is gone, and there is none of the same frame.
LEMMA MatchedIsGone ==
    ASSUME Types, Numbers, Reports, WorkMatch
    PROVE  /\ Head(tsFifo) \in Coming
           /\ \A p \in Coming' : p \in Coming /\ p.no # Head(tsFifo).no
  <1> DEFINE h == Head(tsFifo)
  <1>1. /\ h \in SeqSet(tsFifo) /\ SeqSet(tsFifo)' = SeqSet(tsFifo) \ {h}
        /\ UNCHANGED <<air, rx, rep>>
    BY MatchView DEF WorkMatch, rxVars
  <1>2. h \notin air /\ (rx = "put" => h # rep)
    BY <1>1 DEF Reports
  <1>3. \A p \in Coming' : p \in Coming /\ p # h
    BY <1>1, <1>2 DEF Coming
  <1>4. h \in Coming
    BY <1>1 DEF Coming
  <1> QED BY <1>3, <1>4 DEF Reports

LEMMA MatchingStep ==
    ASSUME Types, Lives, Numbers, Driven, Reports, ~reused => Matching, [TsNext]_tsVars, ~reused'
    PROVE  Matching'
  <1>1. ASSUME NEW s \in Skbs, XmitStart(s) PROVE Matching'
    <2>1. /\ UNCHANGED <<skbFifo, tsFifo, list, air, rx, rep, aged, life, reused>> /\ xmit' = "store"
      BY <1>1 DEF XmitStart, hwtsVars, fifos, rxVars, tsGhosts, numberVars, ifVars
    <2>2. Pending' = Pending /\ Coming' = Coming
      BY <2>1, QuietView, ComingQuiet
    <2> QED BY <2>1, <2>2, MatchingQuiet DEF Forgotten, Stored
  <1>2. CASE (\E s \in Skbs : Consume(s)) \/ StoreGet \/ StoreSchedule
    <2>1. UNCHANGED <<skbFifo, tsFifo, list, air, rx, rep, aged, life, reused>>
      BY <1>2 DEF Consume, StoreGet, StoreSchedule, hwtsVars, fifos, rxVars, tsGhosts, numberVars, ifVars
    <2>2. xmit' \in Stored => xmit \in Stored /\ cur' = cur
      BY <1>2 DEF Consume, StoreGet, StoreSchedule, xmitVars, Stored
    <2>3. Pending' = Pending /\ Coming' = Coming
      BY <2>1, QuietView, ComingQuiet
    <2> QED BY <2>1, <2>2, <2>3, MatchingQuiet DEF Forgotten
  <1>3. CASE StorePut /\ skbFifo' = skbFifo
    <2>1. UNCHANGED <<tsFifo, list, air, rx, rep, aged, life>> /\ ~reused
      BY <1>3 DEF StorePut, rxVars, ifVars
    <2>2. xmit' \in Stored => FALSE
      <3>1. Append(skbFifo, cur) # skbFifo
        <4>1. skbFifo \in Seq(TheEntries) /\ cur \in TheEntries
          BY <1>3 DEF StorePut, Types
        <4>2. Len(Append(skbFifo, cur)) = Len(skbFifo) + 1 /\ Len(skbFifo) \in Nat
          BY <4>1, Appended
        <4> QED BY <4>2
      <3> QED BY <1>3, <3>1 DEF StorePut, Stored
    <2>3. Pending' = Pending /\ Coming' = Coming
      BY <1>3, <2>1, QuietView, ComingQuiet
    <2> QED BY <2>1, <2>2, <2>3, MatchingQuiet DEF Forgotten
  <1>4. CASE StorePut /\ skbFifo' # skbFifo
    <2>1. /\ UNCHANGED <<tsFifo, list, air, rx, rep, cur, count, aged, life>> /\ xmit = "store"
          /\ skbFifo' = Append(skbFifo, cur) /\ ~reused /\ ~InUse(cur.ref)
      BY <1>4 DEF StorePut, rxVars, ifVars
    <2>2. Pending' = Pending \cup {cur} /\ Coming' = Coming
      BY <2>1, PutView, ComingQuiet
    <2>3. \A e \in Pending : e.ref # cur.ref
      BY <2>1 DEF InUse
    <2>4. \A p \in Coming : p.ref # cur.ref
      BY <2>1 DEF InUse, Coming
    <2> QED BY <2>1, <2>2, <2>3, <2>4 DEF Matching
  <1>5. CASE XmitEnd
    <2> DEFINE r == Report(cur.no, cur.ref)
    <2>0. UNCHANGED <<life, aged>> /\ ~reused
      BY <1>5 DEF XmitEnd, ifVars, tsGhosts, numberVars
    <2>1. /\ xmit' = "idle" /\ Pending' = Pending
          /\ \/ Coming' = Coming
             \/ xmit = "tagged" /\ Coming' = Coming \cup {r}
      BY <1>5, SentView
    <2>2. CASE Coming' = Coming
      BY <2>0, <2>1, <2>2, MatchingQuiet DEF Stored, Forgotten
    <2>3. CASE xmit = "tagged" /\ Coming' = Coming \cup {r}
      <3>1. r.no = cur.no /\ r.ref = cur.ref /\ cur \in Pending
        BY <2>0, <2>3 DEF Report, Matching, Stored
      <3>2. \A e \in Pending : e.ref = r.ref => e.no = r.no
        BY <2>0, <3>1 DEF Matching
      <3> QED BY <2>0, <2>1, <2>3, <3>1, <3>2 DEF Matching, Stored
    <2> QED BY <2>1, <2>2, <2>3
  <1>6. CASE ReportLost
    <2>1. PICK p \in air : air' = air \ {p} /\ aged' = aged \ {p.no}
      BY <1>6 DEF ReportLost
    <2>2. UNCHANGED <<tsFifo, skbFifo, list, rx, rep, xmit, cur, life, reused>>
      BY <1>6 DEF ReportLost, hwtsVars, fifos, xmitVars, ifVars
    <2>3. Pending' = Pending /\ SeqSet(tsFifo)' = SeqSet(tsFifo)
      BY <2>2, QuietView DEF SeqSet
    <2>4. \A x \in Coming' : x \in Coming /\ x # p
      BY <2>1, <2>2, <2>3 DEF Coming, Reports
    <2>5. \A x \in Coming' : x.no # p.no
      <3>1. p \in Coming
        BY DEF Coming
      <3> QED BY <2>4, <3>1 DEF Reports
    <2>6. \A x \in Coming' : x.no \in aged => x.no \in aged'
      BY <2>1, <2>5
    <2>7. Coming' \subseteq Coming
      BY <2>4
    <2>8. xmit' \in Stored => cur' \in Pending'
      BY <2>2, <2>3 DEF Matching
    <2> QED BY <2>2, <2>3, <2>6, <2>7, <2>8, MatchingKept DEF Forgotten
  <1>7. CASE GetTxTs \/ GetTxTsPut \/ GetTxTsSchedule
    <2>1. Coming' \subseteq Coming /\ Pending' = Pending
      BY <1>7, RxView
    <2>2. UNCHANGED <<xmit, cur, life, aged, reused>>
      BY <1>7 DEF GetTxTs, GetTxTsPut, GetTxTsSchedule, hwtsVars, fifos, xmitVars, ifVars, numberVars
    <2> QED BY <2>1, <2>2, MatchingQuiet DEF Forgotten
  <1>8. CASE WorkStart \/ WorkOn \/ TimePasses
    <2>1. UNCHANGED <<skbFifo, tsFifo, list, air, rx, rep, aged, life, reused, xmit, cur>>
      BY <1>8 DEF WorkStart, WorkOn, TimePasses, fifos, rxVars, xmitVars, tsGhosts, numberVars, ifVars
    <2>2. Pending' = Pending /\ Coming' = Coming
      BY <2>1, QuietView, ComingQuiet
    <2> QED BY <2>1, <2>2, MatchingQuiet DEF Forgotten
  <1>9. CASE WorkTake
    <2>1. UNCHANGED <<tsFifo, air, rx, rep, life, reused, xmit, cur>>
      BY <1>9 DEF WorkTake, rxVars, xmitVars, ifVars
    <2>2. Matching
      BY <2>1
    <2>3. Head(skbFifo) \in SeqSet(skbFifo) /\ SeqSet(skbFifo) \subseteq Pending
          /\ list \subseteq Pending /\ SeqSet(skbFifo) \cap list = {}
      BY <1>9, TakeView, PendingTyped DEF Numbers
    <2>4. ~\E e \in list : e.ref = Head(skbFifo).ref
      BY <2>2, <2>3 DEF Matching
    <2>5. Pending' = Pending /\ aged' = aged
      BY <1>9, <2>4, TakeView
    <2>6. Coming' = Coming
      BY <2>1, ComingQuiet
    <2> QED BY <2>1, <2>2, <2>5, <2>6, MatchingQuiet DEF Forgotten
  <1>10. CASE WorkMatch
    <2> DEFINE h == Head(tsFifo)
    <2>1. UNCHANGED <<life, reused, xmit, cur>>
      BY <1>10 DEF WorkMatch, xmitVars, ifVars
    <2>2. Matching
      BY <2>1
    <2>3. h \in Coming /\ \A p \in Coming' : p \in Coming /\ p.no # h.no
      BY <1>10, MatchedIsGone
    <2>4. /\ aged' = aged \ {h.no}
          /\ \/ \E e \in list : /\ e.ref = h.ref /\ e \in Pending /\ Pending' = Pending \ {e}
             \/ Pending' = Pending
      BY <1>10, MatchView
    <2>5. \A p \in Coming' : p.no \in aged => p.no \in aged'
      BY <2>3, <2>4
    <2>6. \A e \in Pending \ Pending' : e.no = h.no
      BY <2>2, <2>3, <2>4 DEF Matching
    <2>7. xmit' \in Stored => cur' \in Pending'
      <3>1. SUFFICES ASSUME xmit \in Stored PROVE cur \in Pending'
        BY <2>1
      <3>2. cur \in Pending /\ cur.no # h.no
        BY <2>2, <2>3, <3>1 DEF Matching, Reports, Stored
      <3> QED BY <2>4, <2>6, <3>2
    <2>8. Coming' \subseteq Coming /\ Pending' \subseteq Pending
      BY <2>3, <2>4
    <2>9. \A p \in Coming', e \in Pending \ Pending' : e.no # p.no
      BY <2>3, <2>6
    <2> HIDE DEF h
    <2> QED BY <2>1, <2>2, <2>5, <2>7, <2>8, <2>9, MatchingKept DEF Forgotten
  <1>11. CASE WorkAge
    <2>1. UNCHANGED <<tsFifo, air, rx, rep, life, reused, xmit, cur>>
          /\ aged' = aged \cup ({e.no : e \in (list \cap old) \cap old} \cap Outstanding)
      BY <1>11 DEF WorkAge, GiveUp, rxVars, xmitVars, ifVars
    <2>2. Matching
      BY <2>1
    <2>3. Pending' = Pending \ (list \cap old)
      BY <1>11, AgeView
    <2>4. Coming' = Coming
      BY <2>1, ComingQuiet
    <2>5. \A p \in Coming : p.no \in Outstanding
      BY DEF Outstanding, Coming
    <2>6. \A p \in Coming', e \in Pending \ Pending' : e.no = p.no => p.no \in aged'
      BY <2>1, <2>3, <2>4, <2>5
    <2>7. xmit' \in Stored => cur' \in Pending'
      BY <2>1, <2>2, <2>3 DEF Matching, Driven, Stored
    <2>8. Pending' \subseteq Pending /\ Coming' \subseteq Coming /\ aged \subseteq aged'
      BY <2>1, <2>3, <2>4
    <2> QED BY <2>1, <2>2, <2>6, <2>7, <2>8, MatchingKept DEF Forgotten
  <1>12. CASE Suspend \/ Resume \/ ReleaseFree
    <2>1. /\ Coming' \subseteq Coming /\ Pending' \subseteq Pending
          /\ ReleaseFree \/ Pending' = Pending \/ Coming' = {}
          /\ reused' = reused /\ aged' = aged /\ xmit' = xmit /\ cur' = cur
      BY <1>12, ForgetView
    <2>2. xmit = "idle"
      BY <1>12 DEF Suspend, Resume, ReleaseFree, Lives
    <2>3. Forgotten => Forgotten'
      BY <1>12 DEF Suspend, Resume, ReleaseFree, Forgotten
    <2>4. ~Forgotten' => Pending' = Pending \/ Coming' = {}
      BY <2>1 DEF ReleaseFree, Forgotten
    <2>5. Matching
      BY <2>1
    <2>6. ~Forgotten' => /\ \A p \in Coming' : p.no \in aged => p.no \in aged'
                         /\ \A p \in Coming', e \in Pending \ Pending' :
                               e.no = p.no => p.no \in aged'
      BY <2>1, <2>4
    <2> QED BY <2>1, <2>2, <2>3, <2>5, <2>6, MatchingKept DEF Stored
  <1>13. CASE ReleaseCancel \/ ReleaseOff \/ ReleaseNetdev
    <2>1. UNCHANGED <<skbFifo, tsFifo, list, air, rx, rep, xmit, cur, aged, reused>>
      BY <1>13 DEF ReleaseCancel, ReleaseOff, ReleaseNetdev, hwtsVars, fifos, rxVars, xmitVars,
                   tsGhosts, numberVars
    <2>2. Pending' = Pending /\ Coming' = Coming
      BY <2>1, QuietView, ComingQuiet
    <2>3. Forgotten => Forgotten'
      BY <1>13 DEF ReleaseCancel, ReleaseOff, ReleaseNetdev, Forgotten
    <2> QED BY <2>1, <2>2, <2>3, MatchingQuiet
  <1>14. CASE UNCHANGED tsVars
    <2>1. UNCHANGED <<skbFifo, tsFifo, list, air, rx, rep, xmit, cur, aged, reused, life>>
      BY <1>14 DEF tsVars, hwtsVars, fifos, rxVars, xmitVars, tsGhosts, numberVars, ifVars
    <2>2. Pending' = Pending /\ Coming' = Coming
      BY <2>1, QuietView, ComingQuiet
    <2> QED BY <2>1, <2>2, MatchingQuiet DEF Forgotten
  <1> QED
    BY <1>1, <1>2, <1>3, <1>4, <1>5, <1>6, <1>7, <1>8, <1>9, <1>10, <1>11, <1>12, <1>13, <1>14
    DEF TsNext, TsXmit, Rx, TsWork, Release

-----------------------------------------------------------------------------
(* References are counted                                                  *)

\* The transmission has not yet taken the reference of its entry.
Owed(s) == IF xmit = "get" /\ cur.skb = s THEN 1 ELSE 0
TsOwned(s) == IF owner[s] # "none" THEN 1 ELSE 0
CountOf(s) == refs[s] + Owed(s) = TsOwned(s) + lost[s] + Held(s, Pending)

LEMMA CountTyped ==
    ASSUME Types, NEW s \in Skbs
    PROVE  /\ refs[s] \in Int /\ lost[s] \in Nat /\ Held(s, Pending) \in Nat
           /\ Owed(s) \in 0 .. 1 /\ TsOwned(s) \in 0 .. 1
  BY PendingTyped, HeldIsNat DEF Types, Owed, TsOwned

LEMMA CountedQuiet ==
    ASSUME TsCounted, Pending' = Pending, UNCHANGED <<refs, owner, lost>>,
           xmit' = "get" <=> xmit = "get", xmit = "get" => cur' = cur
    PROVE  TsCounted'
  <1> SUFFICES ASSUME NEW s \in Skbs PROVE CountOf(s)'
    BY DEF TsCounted, CountOf, Owed, TsOwned
  <1>1. CountOf(s)
    BY DEF TsCounted, CountOf, Owed, TsOwned
  <1>2. Held(s, Pending)' = Held(s, Pending) /\ Owed(s)' = Owed(s) /\ TsOwned(s)' = TsOwned(s)
    BY DEF Held, Owed, TsOwned
  <1> QED BY <1>1, <1>2 DEF CountOf

\* What is taken from the pending entries puts its references.
LEMMA CountedPut ==
    ASSUME Types, TsCounted, NEW es, es \subseteq Pending, Pending' = Pending \ es, Put(es),
           UNCHANGED <<owner, lost, xmit, cur>>
    PROVE  TsCounted'
  <1> SUFFICES ASSUME NEW s \in Skbs PROVE CountOf(s)'
    BY DEF TsCounted, CountOf, Owed, TsOwned
  <1>1. CountOf(s)
    BY DEF TsCounted, CountOf, Owed, TsOwned
  <1>2. IsFiniteSet(Pending) /\ IsFiniteSet(es)
    BY PendingTyped, FS_Subset
  <1>3. Held(s, Pending \ es) = Held(s, Pending) - Held(s, es)
    BY <1>2, HeldFewer
  <1>4. Held(s, Pending)' = Held(s, Pending) - Held(s, es)
    BY <1>3 DEF Held
  <1>5. refs'[s] = refs[s] - Held(s, es) /\ Owed(s)' = Owed(s) /\ TsOwned(s)' = TsOwned(s)
    BY DEF Put, Owed, TsOwned
  <1>6. Held(s, es) \in Nat
    BY <1>2, HeldIsNat
  <1> QED BY <1>1, <1>4, <1>5, <1>6, CountTyped DEF CountOf

LEMMA CountedStep ==
    ASSUME Types, Lives, Numbers, Driven, Reports, TsCounted, [TsNext]_tsVars
    PROVE  TsCounted'
  <1>1. ASSUME NEW t \in Skbs, XmitStart(t) PROVE TsCounted'
    <2>1. /\ UNCHANGED <<skbFifo, list, lost>> /\ xmit = "idle" /\ xmit' = "store"
          /\ owner' = [owner EXCEPT ![t] = "driver"]
          /\ \/ owner[t] = "none" /\ refs[t] = 0 /\ refs' = [refs EXCEPT ![t] = 1]
             \/ owner[t] = "stack" /\ refs' = refs
      BY <1>1 DEF XmitStart, Free, hwtsVars, fifos, tsGhosts, memVars
    <2>2. Pending' = Pending
      BY <2>1, QuietView
    <2> SUFFICES ASSUME NEW s \in Skbs PROVE CountOf(s)'
      BY DEF TsCounted, CountOf, Owed, TsOwned
    <2>3. CountOf(s)
      BY DEF TsCounted, CountOf, Owed, TsOwned
    <2>4. Held(s, Pending)' = Held(s, Pending) /\ Owed(s)' = 0 /\ Owed(s) = 0
      BY <2>1, <2>2 DEF Held, Owed
    <2>5. refs'[s] - refs[s] = TsOwned(s)' - TsOwned(s)
      BY <2>1 DEF TsOwned, Types
    <2>6. TsOwned(s)' \in 0 .. 1 /\ refs'[s] \in Int
      BY <2>1, CountTyped DEF TsOwned, Types
    <2> QED BY <2>1, <2>3, <2>4, <2>5, <2>6, CountTyped DEF CountOf
  <1>2. ASSUME NEW t \in Skbs, Consume(t) PROVE TsCounted'
    <2>1. /\ UNCHANGED <<skbFifo, list, lost, xmit, cur>>
          /\ owner' = [owner EXCEPT ![t] = "none"] /\ owner[t] # "none"
          /\ refs' = [refs EXCEPT ![t] = @ - 1]
      BY <1>2 DEF Consume, hwtsVars, fifos, tsGhosts, memVars, xmitVars
    <2>2. Pending' = Pending
      BY <2>1, QuietView
    <2> SUFFICES ASSUME NEW s \in Skbs PROVE CountOf(s)'
      BY DEF TsCounted, CountOf, Owed, TsOwned
    <2>3. CountOf(s)
      BY DEF TsCounted, CountOf, Owed, TsOwned
    <2>4. Held(s, Pending)' = Held(s, Pending) /\ Owed(s)' = Owed(s)
      BY <2>1, <2>2 DEF Held, Owed
    <2>5. refs'[s] - refs[s] = TsOwned(s)' - TsOwned(s)
      BY <2>1 DEF TsOwned, Types
    <2>6. TsOwned(s)' \in 0 .. 1 /\ refs'[s] \in Int
      BY <2>1, CountTyped DEF TsOwned, Types
    <2> QED BY <2>1, <2>3, <2>4, <2>5, <2>6, CountTyped DEF CountOf
  <1>3. CASE StorePut /\ skbFifo' = skbFifo
    <2>1. UNCHANGED <<list, refs, owner, lost>> /\ xmit = "store" /\ xmit' \in {"get", "map"}
      BY <1>3 DEF StorePut, skbVars, memVars
    <2>2. xmit' # "get"
      <3>1. skbFifo \in Seq(TheEntries) /\ cur \in TheEntries
        BY <2>1 DEF Types
      <3>2. Len(Append(skbFifo, cur)) = Len(skbFifo) + 1 /\ Len(skbFifo) \in Nat
        BY <3>1, Appended
      <3>3. Append(skbFifo, cur) # skbFifo
        BY <3>2
      <3> QED BY <1>3, <3>3 DEF StorePut
    <2>3. Pending' = Pending
      BY <1>3, <2>1, QuietView
    <2> QED BY <2>1, <2>2, <2>3, CountedQuiet
  <1>4. CASE StorePut /\ skbFifo' # skbFifo
    <2>1. /\ UNCHANGED <<list, refs, owner, lost, cur>> /\ xmit = "store" /\ xmit' = "get"
          /\ skbFifo' = Append(skbFifo, cur)
      BY <1>4 DEF StorePut, skbVars, memVars
    <2>2. Pending' = Pending \cup {cur}
      BY <2>1, PutView
    <2>3. cur \notin Pending /\ IsFiniteSet(Pending)
      BY <2>1, PendingTyped DEF Numbers, Stored
    <2> SUFFICES ASSUME NEW s \in Skbs PROVE CountOf(s)'
      BY DEF TsCounted, CountOf, Owed, TsOwned
    <2>4. CountOf(s)
      BY DEF TsCounted, CountOf, Owed, TsOwned
    <2>5. Held(s, Pending \cup {cur}) = Held(s, Pending) + (IF cur.skb = s THEN 1 ELSE 0)
      BY <2>3, HeldOneMore
    <2>6. Held(s, Pending)' = Held(s, Pending) + Owed(s)'
      BY <2>1, <2>2, <2>5 DEF Held, Owed
    <2>7. Owed(s) = 0 /\ Owed(s)' \in 0 .. 1 /\ TsOwned(s)' = TsOwned(s)
      BY <2>1 DEF Owed, TsOwned
    <2>8. refs'[s] = refs[s] /\ lost'[s] = lost[s]
      BY <2>1
    <2>9. CountOf(s)' <=> refs'[s] + Owed(s)' = TsOwned(s)' + lost'[s] + Held(s, Pending)'
      BY DEF CountOf
    <2> QED BY <2>4, <2>6, <2>7, <2>8, <2>9, CountTyped DEF CountOf
  <1>5. CASE StoreGet
    <2>1. /\ UNCHANGED <<skbFifo, list, owner, lost, cur>> /\ xmit = "get" /\ xmit' = "schedule"
          /\ refs' = [refs EXCEPT ![cur.skb] = @ + 1]
      BY <1>5 DEF StoreGet, hwtsVars, fifos, tsGhosts, memVars
    <2>2. Pending' = Pending
      BY <2>1, QuietView
    <2> SUFFICES ASSUME NEW s \in Skbs PROVE CountOf(s)'
      BY DEF TsCounted, CountOf, Owed, TsOwned
    <2>3. CountOf(s)
      BY DEF TsCounted, CountOf, Owed, TsOwned
    <2>4. Held(s, Pending)' = Held(s, Pending) /\ Owed(s)' = 0 /\ TsOwned(s)' = TsOwned(s)
      BY <2>1, <2>2 DEF Held, Owed, TsOwned
    <2>5. refs'[s] = refs[s] + Owed(s)
      BY <2>1, CountTyped DEF Owed, Types
    <2> QED BY <2>1, <2>3, <2>4, <2>5, CountTyped DEF CountOf
  <1>6. CASE XmitEnd
    <2>1. /\ UNCHANGED <<skbFifo, list, refs, lost>> /\ xmit \in {"map", "tagged"} /\ xmit' = "idle"
          /\ \/ owner' = [owner EXCEPT ![cur.skb] = "ring"]
             \/ owner' = [owner EXCEPT ![cur.skb] = "stack"]
          /\ owner[cur.skb] = "driver"
      BY <1>6 DEF XmitEnd, hwtsVars, fifos, tsGhosts, memVars, Driven
    <2>2. Pending' = Pending
      BY <2>1, QuietView
    <2> SUFFICES ASSUME NEW s \in Skbs PROVE CountOf(s)'
      BY DEF TsCounted, CountOf, Owed, TsOwned
    <2>3. CountOf(s)
      BY DEF TsCounted, CountOf, Owed, TsOwned
    <2>4. Held(s, Pending)' = Held(s, Pending) /\ Owed(s)' = 0 /\ Owed(s) = 0
      BY <2>1, <2>2 DEF Held, Owed
    <2>5. TsOwned(s)' = TsOwned(s)
      BY <2>1 DEF TsOwned, Types
    <2> QED BY <2>1, <2>3, <2>4, <2>5, CountTyped DEF CountOf
  <1>7. CASE StoreSchedule
    <2>1. UNCHANGED <<skbFifo, list, refs, owner, lost>> /\ xmit = "schedule" /\ xmit' = "tagged"
      BY <1>7 DEF StoreSchedule, fifos, skbVars, tsGhosts, memVars
    <2> QED BY <2>1, QuietView, CountedQuiet
  <1>8. CASE ReportLost \/ GetTxTs \/ GetTxTsPut \/ GetTxTsSchedule
    <2>1. UNCHANGED <<skbFifo, list, refs, owner, lost, xmit, cur>>
      BY <1>8 DEF ReportLost, GetTxTs, GetTxTsPut, GetTxTsSchedule, hwtsVars, fifos, skbVars,
                  xmitVars, memVars
    <2> QED BY <2>1, QuietView, CountedQuiet
  <1>9. CASE WorkStart \/ WorkOn \/ TimePasses
    <2>1. UNCHANGED <<skbFifo, list, refs, owner, lost, xmit, cur>>
      BY <1>9 DEF WorkStart, WorkOn, TimePasses, fifos, skbVars, xmitVars, tsGhosts, memVars
    <2> QED BY <2>1, QuietView, CountedQuiet
  <1>10. CASE WorkTake
    <2> DEFINE h == Head(skbFifo)
    <2>1. UNCHANGED <<owner, lost, xmit, cur>>
      BY <1>10 DEF WorkTake, memVars, xmitVars
    <2>2. h \in Pending
      BY <1>10, TakeView, PendingTyped
    <2>3. \/ Pending' = Pending /\ refs' = refs
          \/ Pending' = Pending \ {h} /\ Put({h})
      BY <1>10, TakeView
    <2>4. CASE Pending' = Pending /\ refs' = refs
      BY <2>1, <2>4, CountedQuiet
    <2>5. CASE Pending' = Pending \ {h} /\ Put({h})
      <3>1. {h} \subseteq Pending
        BY <2>2
      <3> QED BY <2>1, <2>5, <3>1, CountedPut
    <2> QED BY <2>3, <2>4, <2>5
  <1>11. CASE WorkMatch
    <2>1. UNCHANGED <<owner, lost, xmit, cur>>
      BY <1>11 DEF WorkMatch, memVars, xmitVars
    <2>2. \/ Pending' = Pending /\ refs' = refs
          \/ \E e \in Pending : Pending' = Pending \ {e} /\ Put({e})
      BY <1>11, MatchView
    <2>3. CASE Pending' = Pending /\ refs' = refs
      BY <2>1, <2>3, CountedQuiet
    <2>4. ASSUME NEW e \in Pending, Pending' = Pending \ {e}, Put({e}) PROVE TsCounted'
      <3>1. {e} \subseteq Pending
        OBVIOUS
      <3> QED BY <2>1, <2>4, <3>1, CountedPut
    <2> QED BY <2>2, <2>3, <2>4
  <1>12. CASE WorkAge
    <2>1. UNCHANGED <<owner, lost, xmit, cur>> /\ Put(list \cap old)
      BY <1>12 DEF WorkAge, GiveUp, memVars, xmitVars
    <2>2. Pending' = Pending \ (list \cap old) /\ list \cap old \subseteq Pending
      BY <1>12, AgeView, PendingTyped
    <2> QED BY <2>1, <2>2, CountedPut
  <1>13. CASE Suspend
    <2>1. /\ UNCHANGED <<skbFifo, list, refs, xmit, cur>>
          /\ owner' = [s \in Skbs |-> IF owner[s] = "ring" THEN "none" ELSE owner[s]]
          /\ Lose({}, [s \in Skbs |-> IF owner[s] = "ring" THEN 1 ELSE 0])
      BY <1>13 DEF Suspend, hwtsVars, fifos, xmitVars
    <2>2. Pending' = Pending
      BY <2>1, QuietView
    <2> SUFFICES ASSUME NEW s \in Skbs PROVE CountOf(s)'
      BY DEF TsCounted, CountOf, Owed, TsOwned
    <2>3. CountOf(s)
      BY DEF TsCounted, CountOf, Owed, TsOwned
    <2>4. Held(s, Pending)' = Held(s, Pending) /\ Owed(s)' = Owed(s)
      BY <2>1, <2>2 DEF Held, Owed
    <2>5. lost'[s] = lost[s] + (IF owner[s] = "ring" THEN 1 ELSE 0)
      BY <2>1, HeldNone, CountTyped DEF Lose
    <2>6. TsOwned(s)' + (IF owner[s] = "ring" THEN 1 ELSE 0) = TsOwned(s)
      BY <2>1 DEF TsOwned, Types
    <2>7. TsOwned(s)' \in 0 .. 1
      BY DEF TsOwned
    <2> QED BY <2>1, <2>3, <2>4, <2>5, <2>6, <2>7, CountTyped DEF CountOf
  <1>14. CASE Resume \/ ReleaseFree
    <2>1. /\ UNCHANGED <<refs, owner, xmit, cur>> /\ skbFifo' = <<>> /\ list' = {}
          /\ Lose(Pending, [s \in Skbs |-> 0])
      BY <1>14 DEF Resume, ReleaseFree, skbVars, xmitVars
    <2>2. Pending' = {}
      BY <2>1, NoneView
    <2> SUFFICES ASSUME NEW s \in Skbs PROVE CountOf(s)'
      BY DEF TsCounted, CountOf, Owed, TsOwned
    <2>3. CountOf(s)
      BY DEF TsCounted, CountOf, Owed, TsOwned
    <2>4. Held(s, {}) = 0
      BY HeldNone
    <2>5. Held(s, Pending)' = 0 /\ Owed(s)' = Owed(s) /\ TsOwned(s)' = TsOwned(s)
      BY <2>1, <2>2, <2>4 DEF Held, Owed, TsOwned
    <2>6. lost'[s] = lost[s] + Held(s, Pending)
      BY <2>1, CountTyped DEF Lose
    <2> QED BY <2>1, <2>3, <2>5, <2>6, CountTyped DEF CountOf
  <1>15. CASE ReleaseCancel \/ ReleaseOff \/ ReleaseNetdev
    <2>1. UNCHANGED <<skbFifo, list, refs, owner, lost, xmit, cur>>
      BY <1>15 DEF ReleaseCancel, ReleaseOff, ReleaseNetdev, hwtsVars, fifos, skbVars, xmitVars,
                   tsGhosts, memVars
    <2> QED BY <2>1, QuietView, CountedQuiet
  <1>16. CASE UNCHANGED tsVars
    <2>1. UNCHANGED <<skbFifo, list, refs, owner, lost, xmit, cur>>
      BY <1>16 DEF tsVars, hwtsVars, fifos, skbVars, xmitVars, tsGhosts, memVars
    <2> QED BY <2>1, QuietView, CountedQuiet
  <1> QED
    BY <1>1, <1>2, <1>3, <1>4, <1>5, <1>6, <1>7, <1>8, <1>9, <1>10, <1>11, <1>12, <1>13, <1>14,
       <1>15, <1>16
    DEF TsNext, TsXmit, Rx, TsWork, Release

-----------------------------------------------------------------------------
(* The theorems                                                            *)

LEMMA TsInvAtStart == ASSUME HwTsAssumption, TsInit PROVE TsInv
  <1>1. SeqSet(<<>>) = {} /\ IsFiniteSet({})
    BY FS_EmptySet DEF SeqSet
  <1>2. Pending = {} /\ Coming = {}
    BY <1>1 DEF TsInit, Pending, Coming
  <1>3. <<>> \in Seq(TheEntries) /\ <<>> \in Seq(TheReports) /\ Len(<<>>) = 0
    OBVIOUS
  <1>4. Types
    <2>1. FifoTypes
      BY <1>1, <1>3 DEF TsInit, FifoTypes, HwTsAssumption
    <2>2. SkbTypes
      BY DEF TsInit, SkbTypes
    <2>3. XmitTypes
      <3>1. 0 \in 0 .. RefMod - 1 /\ 0 \in 0 .. MaxTx
        BY DEF HwTsAssumption
      <3> QED BY <3>1 DEF TsInit, XmitTypes
    <2>4. RxTypes /\ Flags
      BY DEF TsInit, RxTypes, Flags
    <2> QED BY <2>1, <2>2, <2>3, <2>4 DEF Types, FifoTypes, SkbTypes, XmitTypes, RxTypes, Flags
  <1>5. Lives
    BY DEF TsInit, Lives
  <1>6. Numbers
    BY <1>1, <1>2 DEF TsInit, Numbers, Distinct
  <1>7. Driven
    BY <1>2 DEF TsInit, Driven
  <1>8. Reports
    BY <1>1, <1>2 DEF TsInit, Reports, Distinct
  <1>9. Matching
    BY <1>2 DEF TsInit, Matching, Stored
  <1>10. TsCounted
    BY <1>2, HeldNone DEF TsInit, TsCounted
  <1> QED BY <1>4, <1>5, <1>6, <1>7, <1>8, <1>9, <1>10 DEF TsInv

LEMMA TsInvStep == ASSUME HwTsAssumption, TsInv, [TsNext]_tsVars PROVE TsInv'
  <1>1. Types' /\ Lives' /\ Numbers'
    BY TypesStep, LivesStep, NumbersStep DEF TsInv
  <1>2. Driven' /\ Reports' /\ TsCounted'
    BY DrivenStep, ReportsStep, CountedStep DEF TsInv
  <1>3. ~reused' => Matching'
    BY MatchingStep DEF TsInv
  <1> QED BY <1>1, <1>2, <1>3 DEF TsInv

\* The inductive invariant: types, the life of the interface, which entries and
\* reports there are, and the references to the skbs.
THEOREM TsInvariant == TsSpec => []TsInv
  <1>1. TsInit => TsInv
    BY TsInvAtStart, HwTsAssumption
  <1>2. TsInv /\ [TsNext]_tsVars => TsInv'
    BY TsInvStep, HwTsAssumption
  <1> QED BY <1>1, <1>2, PTL DEF TsSpec

\* As long as no number was in use twice, each entry and the transmission have
\* an skb that is not freed.
LEMMA IsAlive == ASSUME TsInv PROVE Alive
  <1> USE DEF TsInv
  <1> SUFFICES ASSUME ~reused
               PROVE  /\ \A e \in Pending : refs[e.skb] > 0
                      /\ xmit # "idle" => refs[cur.skb] > 0
    BY DEF Alive
  <1>1. Matching /\ Types
    OBVIOUS
  <1>2. \A s \in Skbs : CountOf(s)
    BY DEF TsCounted, CountOf, Owed, TsOwned
  <1>3. ASSUME xmit # "idle" PROVE refs[cur.skb] > 0 /\ TsOwned(cur.skb) = 1
    <2>1. cur.skb \in Skbs
      BY <1>1, <1>3 DEF Types, TheEntries
    <2>2. TsOwned(cur.skb) = 1
      BY <1>3 DEF Driven, TsOwned
    <2>3. xmit = "get" => Held(cur.skb, Pending) > 0
      <3>1. SUFFICES ASSUME xmit = "get" PROVE Held(cur.skb, Pending) > 0
        OBVIOUS
      <3>2. cur \in Pending
        BY <1>1, <3>1 DEF Matching, Stored
      <3> QED BY <1>1, <3>2, HeldBy, PendingTyped
    <2>4. Owed(cur.skb) \in 0 .. 1 /\ (Owed(cur.skb) = 1 => xmit = "get")
      BY DEF Owed
    <2>5. CountOf(cur.skb)
      BY <1>2, <2>1
    <2>6. /\ refs[cur.skb] \in Int /\ lost[cur.skb] \in Nat /\ Held(cur.skb, Pending) \in Nat
      BY <1>1, <2>1, CountTyped
    <2> QED BY <2>2, <2>3, <2>4, <2>5, <2>6 DEF CountOf
  <1>4. ASSUME NEW e \in Pending PROVE refs[e.skb] > 0
    <2>1. e.skb \in Skbs /\ IsFiniteSet(Pending)
      BY <1>1, PendingTyped DEF TheEntries
    <2>2. CASE Owed(e.skb) = 0
      <3>1. Held(e.skb, Pending) > 0
        BY <2>1, HeldBy
      <3>2. CountOf(e.skb)
        BY <1>2, <2>1
      <3>3. /\ refs[e.skb] \in Int /\ lost[e.skb] \in Nat /\ Held(e.skb, Pending) \in Nat
            /\ TsOwned(e.skb) \in 0 .. 1
        BY <1>1, <2>1, CountTyped
      <3> QED BY <2>2, <3>1, <3>2, <3>3 DEF CountOf
    <2>3. CASE Owed(e.skb) # 0
      <3>1. xmit # "idle" /\ e.skb = cur.skb
        BY <2>3 DEF Owed
      <3> QED BY <1>3, <3>1
    <2> QED BY <2>2, <2>3
  <1> QED BY <1>3, <1>4

LEMMA IsTyped == ASSUME TsInv PROVE TsTypeOK
  <1>1. Types /\ Driven
    BY DEF TsInv
  <1>2. Pending \subseteq TheEntries /\ SeqSet(tsFifo) \subseteq TheReports
    BY <1>1, PendingTyped
  <1>3. \A s \in Skbs : refs[s] \in Nat
    <2> SUFFICES ASSUME NEW s \in Skbs PROVE refs[s] \in Nat
      OBVIOUS
    <2>1. CountOf(s)
      BY DEF TsInv, TsCounted, CountOf, Owed, TsOwned
    <2>2. Owed(s) <= TsOwned(s)
      BY <1>1 DEF Driven, Owed, TsOwned
    <2>3. /\ refs[s] \in Int /\ lost[s] \in Nat /\ Held(s, Pending) \in Nat
          /\ Owed(s) \in 0 .. 1 /\ TsOwned(s) \in 0 .. 1
      BY <1>1, CountTyped
    <2> QED BY <2>1, <2>2, <2>3 DEF CountOf
  <1>4. refs \in [Skbs -> Nat] /\ lost \in [Skbs -> Nat]
    BY <1>1, <1>3 DEF Types
  <1> QED BY <1>1, <1>2, <1>4 DEF Types, Driven, TsTypeOK, TheEntries, TheReports

\* pfeng_hwts_store_tx_ref, pfeng_hwts_work and pfeng_hwts_release: the count of
\* an skb is what holds it, neither an entry nor a transmission has one that was
\* freed unless a number was in use twice, and nothing that was freed is used
\* unless a report was under way when the work was cancelled.
THEOREM SkbsAreSafe == TsSpec => []SkbsSafe
  <1>1. TsInv => SkbsSafe
    BY IsTyped, IsAlive DEF TsInv, Lives, SkbsSafe, FreedUntouched
  <1> QED BY <1>1, TsInvariant, PTL

LEMMA StampStep ==
    ASSUME TsInv, [TsNext]_tsVars, Stamping
    PROVE  IF list' = list THEN MeetsNone(Head(tsFifo))
           ELSE \A e \in list \ list' : OwnStamp(e, Head(tsFifo))
  <1>0. Types /\ Lives /\ Numbers /\ Reports /\ (~reused => Matching)
    BY DEF TsInv
  <1>1. WorkMatch
    <2>1. work = "match" /\ life' = life /\ tsFifo' # tsFifo
      BY DEF Stamping
    <2>2. ASSUME GetTxTsPut PROVE FALSE
      <3>1. tsFifo' = Append(tsFifo, rep) /\ rx = "put"
        BY <2>1, <2>2 DEF GetTxTsPut
      <3>2. rep \in TheReports /\ tsFifo \in Seq(TheReports)
        BY <1>0, <3>1 DEF Types
      <3>3. Len(Append(tsFifo, rep)) = Len(tsFifo) + 1 /\ Len(tsFifo) \in Nat
        BY <3>2, Appended
      <3> QED BY <3>1, <3>3 DEF Stamping
    <2> USE DEF hwtsVars, fifos
    <2>3. ~(\E s \in Skbs : XmitStart(s) \/ Consume(s))
      BY <2>1 DEF XmitStart, Consume
    <2>4. ~StorePut /\ ~StoreGet /\ ~StoreSchedule /\ ~XmitEnd
      BY <2>1 DEF StorePut, StoreGet, StoreSchedule, XmitEnd
    <2>5. ~ReportLost /\ ~GetTxTs /\ ~GetTxTsSchedule
      BY <2>1 DEF ReportLost, GetTxTs, GetTxTsSchedule
    <2>6. ~WorkStart /\ ~WorkTake /\ ~WorkOn /\ ~WorkAge /\ ~TimePasses
      BY <2>1 DEF WorkStart, WorkTake, WorkOn, WorkAge, GiveUp, TimePasses
    <2>7. ~Suspend /\ ~Resume /\ ~ReleaseCancel /\ ~ReleaseOff /\ ~ReleaseFree /\ ~ReleaseNetdev
      BY <2>1 DEF Suspend, Resume, ReleaseCancel, ReleaseOff, ReleaseFree, ReleaseNetdev
    <2>8. ~UNCHANGED tsVars
      BY <2>1 DEF tsVars
    <2> QED BY <2>2, <2>3, <2>4, <2>5, <2>6, <2>7, <2>8 DEF TsNext, TsXmit, Rx, TsWork, Release
  <1> DEFINE h == Head(tsFifo)
  <1>2. h \in SeqSet(tsFifo) /\ h \in Coming
    BY <1>0, <1>1, MatchView, MatchedIsGone
  <1>3. \/ \E e \in list : /\ e.ref = h.ref /\ e \in Pending /\ list' = list \ {e}
        \/ /\ \A e \in list : e.ref # h.ref
           /\ list' = list
    BY <1>0, <1>1, MatchView
  <1>4. ASSUME NEW e \in list, e.ref = h.ref, e \in Pending, list' = list \ {e}
        PROVE  list' # list /\ \A f \in list \ list' : OwnStamp(f, h)
    <2>1. list' # list /\ list \ list' = {e}
      BY <1>4
    <2>2. OwnStamp(e, h)
      BY <1>0, <1>2, <1>4 DEF Matching, OwnStamp
    <2> QED BY <2>1, <2>2
  <1>5. ASSUME \A e \in list : e.ref # h.ref PROVE MeetsNone(h)
    <2>1. SUFFICES ASSUME ~reused, h.no \notin aged
                   PROVE  \E e \in SeqSet(skbFifo) : e.no = h.no
      BY DEF MeetsNone
    <2>2. life \notin {"freed", "gone"}
      BY <1>0, <1>1 DEF Lives, WorkMatch
    <2>3. PICK e \in Pending : e.no = h.no
      BY <1>0, <1>2, <2>1, <2>2 DEF Matching
    <2>4. e.ref = h.ref
      BY <1>0, <1>2, <2>3 DEF Reports
    <2>5. e \in SeqSet(skbFifo)
      BY <1>5, <2>3, <2>4 DEF Pending
    <2> QED BY <2>3, <2>5
  <1> HIDE DEF h
  <1>6. IF list' = list THEN MeetsNone(h) ELSE \A e \in list \ list' : OwnStamp(e, h)
    BY <1>3, <1>4, <1>5
  <1> QED BY <1>6 DEF h

\* pfeng_hwts_work gives a frame its own stamp, unless a number was in use
\* twice, and a stamp that meets no frame is that of a frame given up or one that
\* the work has yet to take.
THEOREM StampsAreRight == TsSpec => StampsRight
  <1>1. TsInv /\ [TsNext]_tsVars =>
           [Stamping => IF list' = list THEN MeetsNone(Head(tsFifo))
                        ELSE \A e \in list \ list' : OwnStamp(e, Head(tsFifo))]_tsVars
    BY StampStep
  <1> QED BY <1>1, TsInvariant, PTL DEF TsSpec, StampsRight
=============================================================================
