------------------------------- MODULE HifRing -------------------------------
(***************************************************************************)
(* A HIF buffer descriptor ring (pfe_hif_ring_linux.c) between the driver  *)
(* and the DMA engine.                                                     *)
(*                                                                         *)
(* Slot i has a descriptor bd[i], enabled by the software when it holds a  *)
(* buffer for the hardware, and a write-back descriptor wb[i], disabled by *)
(* the hardware when it is done with the buffer.  The hardware follows the *)
(* ring from its own position hw and takes every enabled descriptor it     *)
(* finds: it never clears the enable bit of bd[i].                         *)
(*                                                                         *)
(* pfe_hif_ring_enqueue_buf and pfe_hif_ring_dequeue_buf/_plain run in     *)
(* different contexts and each of their stores is visible to the hardware  *)
(* when it is made: every store is a step.                                 *)
(***************************************************************************)
EXTENDS Naturals, Sequences, FiniteSets

CONSTANTS
    N,          \* RING_LEN, a power of two
    Bufs,       \* buffers
    NoBuf,      \* content of a descriptor never written
    IsRx,       \* RX ring: last-in-frame is decided by the hardware
    Checked     \* the caller asks pfe_hif_chnl_can_accept_* before it enqueues

ASSUME RingAssumption ==
    /\ N \in Nat \ {0, 1}
    /\ NoBuf \notin Bufs
    /\ IsRx \in BOOLEAN
    /\ Checked \in BOOLEAN

Slots == 0 .. N - 1

VARIABLES
    bd,         \* descriptors
    wb,         \* write-back descriptors
    wr, rd,     \* write_idx, read_idx
    hw,         \* position of the DMA engine
    enq,        \* progress of the enqueue under way
    deq,        \* progress of the dequeue under way
    mode        \* "run", then "drain", then "down"

vars == <<bd, wb, wr, rd, hw, enq, deq, mode>>

\* Fault: the mask is forgotten.
IncUnmasked(i) == i + 1

\* (idx + 1) & RING_LEN_MASK and (idx - 1) & RING_LEN_MASK
Inc(i) == IF i = N - 1 THEN 0 ELSE i + 1
Dec(i) == IF i = 0 THEN N - 1 ELSE i - 1

\* (b - a) & RING_LEN_MASK
Dist(a, b) == IF b >= a THEN b - a ELSE b + N - a

\* (a + k) & RING_LEN_MASK, for k <= N
Plus(a, k) == IF a + k < N THEN a + k ELSE a + k - N

\* pfe_hif_ring_get_fill_level
FillLevel == Dist(rd, wr)

\* Fault: no entry stays unused.
CanAcceptAll == FillLevel <= N - 1

\* pfe_hif_chnl_can_accept_rx_buf, pfe_hif_chnl_can_accept_tx_num(1): one
\* entry stays unused.
CanAccept == FillLevel < N - 1

-----------------------------------------------------------------------------
\* pfe_hif_ring_create_std, pfe_hif_ring_invalidate_std
Init ==
    /\ bd = [i \in Slots |-> [en |-> FALSE, lifm |-> FALSE, data |-> NoBuf]]
    /\ wb = [i \in Slots |-> [en |-> TRUE, lifm |-> FALSE]]
    /\ wr = 0 /\ rd = 0 /\ hw = 0
    /\ enq = "idle" /\ deq = "idle"
    /\ mode = "run"

-----------------------------------------------------------------------------
(* pfe_hif_ring_enqueue_buf_std                                            *)

\* A descriptor that is still enabled is refused with EIO.
EnqData(b) ==
    /\ mode = "run" /\ enq = "idle"
    /\ Checked => CanAccept
    /\ ~bd[wr].en
    /\ b \notin {bd[i].data : i \in {j \in Slots : bd[j].en}}
    /\ bd' = [bd EXCEPT ![wr].data = b]
    /\ enq' = "enable"
    /\ UNCHANGED <<wb, wr, rd, hw, deq, mode>>

EnqEnable(lifm) ==
    /\ enq = "enable"
    /\ bd' = [bd EXCEPT ![wr].en = TRUE, ![wr].lifm = lifm]
    /\ enq' = "advance"
    /\ UNCHANGED <<wb, wr, rd, hw, deq, mode>>

EnqAdvance ==
    /\ enq = "advance"
    /\ wr' = Inc(wr)
    /\ enq' = "idle"
    /\ UNCHANGED <<bd, wb, rd, hw, deq, mode>>

-----------------------------------------------------------------------------
(* pfe_hif_ring_dequeue_buf_std, pfe_hif_ring_dequeue_plain_std            *)

\* The buffer is taken and the descriptor disabled.
DeqClear ==
    /\ mode = "run" /\ deq = "idle"
    /\ ~wb[rd].en
    /\ bd[rd].en
    /\ bd' = [bd EXCEPT ![rd].en = FALSE]
    /\ deq' = "restore"
    /\ UNCHANGED <<wb, wr, rd, hw, enq, mode>>

\* Fault: the write-back descriptor is not given back to the hardware.
DeqRestoreForgotten ==
    /\ deq = "restore"
    /\ deq' = "advance"
    /\ UNCHANGED <<bd, wb, wr, rd, hw, enq, mode>>

DeqRestore ==
    /\ deq = "restore"
    /\ wb' = [wb EXCEPT ![rd].en = TRUE]
    /\ deq' = "advance"
    /\ UNCHANGED <<bd, wr, rd, hw, enq, mode>>

\* Fault: the read index moves only past the last buffer of a frame.
DeqAdvanceLast ==
    /\ deq = "advance"
    /\ rd' = IF bd[rd].lifm THEN Inc(rd) ELSE rd
    /\ deq' = "idle"
    /\ UNCHANGED <<bd, wb, wr, hw, enq, mode>>

DeqAdvance ==
    /\ deq = "advance"
    /\ rd' = Inc(rd)
    /\ deq' = "idle"
    /\ UNCHANGED <<bd, wb, wr, hw, enq, mode>>

-----------------------------------------------------------------------------
\* The DMA engine completes the descriptor it stands on.
HwProcess(lifm) ==
    /\ mode = "run"
    /\ bd[hw].en
    /\ IsRx \/ lifm = bd[hw].lifm
    /\ wb' = [wb EXCEPT ![hw] = [en |-> FALSE, lifm |-> lifm]]
    /\ hw' = Inc(hw)
    /\ UNCHANGED <<bd, wr, rd, enq, deq, mode>>

-----------------------------------------------------------------------------
(* Shut-down: pfe_hif_chnl_rx_disable, then pfe_hif_ring_drain_buf until   *)
(* it returns ENOENT (tail of pfe_hif_chnl_reset_fifos).                   *)

StopDma ==
    /\ mode = "run" /\ enq = "idle" /\ deq = "idle"
    /\ mode' = "drain"
    /\ UNCHANGED <<bd, wb, wr, rd, hw, enq, deq>>

\* Fault: the enqueue is not reverted.
DrainStuck ==
    /\ mode = "drain" /\ FillLevel # 0
    /\ wb[wr].en
    /\ bd' = [bd EXCEPT ![wr].en = FALSE]
    /\ wb' = [wb EXCEPT ![wr].en = TRUE]
    /\ UNCHANGED <<wr, rd, hw, enq, deq, mode>>

DrainUnprocessed ==
    /\ mode = "drain" /\ FillLevel # 0
    /\ wb[wr].en
    /\ bd' = [bd EXCEPT ![wr].en = FALSE]
    /\ wb' = [wb EXCEPT ![wr].en = TRUE]
    /\ wr' = Dec(wr)
    /\ UNCHANGED <<rd, hw, enq, deq, mode>>

DrainProcessed ==
    /\ mode = "drain" /\ FillLevel # 0
    /\ ~wb[wr].en
    /\ bd' = [bd EXCEPT ![rd].en = FALSE]
    /\ wb' = [wb EXCEPT ![rd].en = TRUE]
    /\ rd' = Inc(rd)
    /\ UNCHANGED <<wr, hw, enq, deq, mode>>

DrainEmpty ==
    /\ mode = "drain" /\ FillLevel = 0
    /\ mode' = "down"
    /\ UNCHANGED <<bd, wb, wr, rd, hw, enq, deq>>

-----------------------------------------------------------------------------
Enqueue ==
    \/ \E b \in Bufs : EnqData(b)
    \/ \E l \in BOOLEAN : EnqEnable(l)
    \/ EnqAdvance

Dequeue == DeqClear \/ DeqRestore \/ DeqAdvance

Dma == \E l \in BOOLEAN : HwProcess(l)

Drain == DrainUnprocessed \/ DrainProcessed \/ DrainEmpty

Next == Enqueue \/ Dequeue \/ Dma

Spec == Init /\ [][Next]_vars

\* An enqueue once begun runs to its end, the DMA engine works while the
\* channel is enabled, the NAPI poll collects what it finds completed, and the
\* loop of the shut-down is not interrupted.
LifeSpec ==
    /\ Init /\ [][Next \/ StopDma \/ Drain]_vars
    /\ WF_vars(EnqAdvance \/ \E l \in BOOLEAN : EnqEnable(l))
    /\ WF_vars(Dequeue) /\ WF_vars(Dma) /\ WF_vars(Drain)

-----------------------------------------------------------------------------
(* Refinement: the descriptors between the three positions are the FIFO.   *)

WrEff == IF enq = "advance" THEN Inc(wr) ELSE wr
RdEff == IF deq # "idle" THEN Inc(rd) ELSE rd

Entry(i) == <<bd[i].data, bd[i].lifm>>
Between(a, b) == [k \in 1 .. Dist(a, b) |-> Entry(Plus(a, k - 1))]

Fifo == INSTANCE BdFifo
            WITH Entries <- Bufs \X BOOLEAN, Capacity <- N - 1,
                 posted <- Between(hw, WrEff), done <- Between(RdEff, hw),
                 open <- mode = "run"

-----------------------------------------------------------------------------
(* Properties                                                              *)

TypeOK ==
    /\ bd \in [Slots -> [en : BOOLEAN, lifm : BOOLEAN, data : Bufs \cup {NoBuf}]]
    /\ wb \in [Slots -> [en : BOOLEAN, lifm : BOOLEAN]]
    /\ wr \in Slots /\ rd \in Slots /\ hw \in Slots
    /\ enq \in {"idle", "enable", "advance"}
    /\ deq \in {"idle", "restore", "advance"}
    /\ mode \in {"run", "drain", "down"}

\* "A single entry must remain unused within the ring because HIF expects
\* that": the DMA engine never comes round to a descriptor it has completed
\* already and the driver has not collected yet, whichever store of an
\* enqueue or a dequeue it overtakes.
NeverReprocessed == [][hw' # hw => wb[hw].en]_vars

\* The ring is a FIFO through the hardware that never holds more than N - 1
\* buffers; every buffer is completed once and collected once, in order, with
\* its last-in-frame mark.
RingIsFifo == Fifo!Spec

\* A ring that has filled up gets room again, unless it is shut down: no buffer
\* is stuck in front of the others.
RoomComesBack == ~CanAccept ~> (CanAccept \/ mode # "run")

\* The drain loop of the shut-down ends.
DrainEnds == mode = "drain" ~> mode = "down"

-----------------------------------------------------------------------------
\* pfe_hif_ring_drain_buf is "intended to properly shut-down the ring in
\* terms of possibility to retrieve all currently enqueued entries": when it
\* has nothing more to return, no descriptor still holds a buffer.
DrainedAll == mode = "down" => \A i \in Slots : ~bd[i].en

\* A full ring has room again, and the drain of a stopped channel ends.
RingProgress == RoomComesBack /\ DrainEnds
=============================================================================
