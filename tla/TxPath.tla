------------------------------- MODULE TxPath -------------------------------
(***************************************************************************)
(* The transmit path of a HIF channel (pfeng-netif.c, pfeng-bman.c,        *)
(* pfeng-hif.c): network interfaces that share the channel put frames of   *)
(* one or more buffers into the TX ring and remember their DMA mappings in *)
(* a table of the same length, and the NAPI poll collects the frames the   *)
(* hardware has sent, releases the mappings and wakes the queues that were *)
(* stopped for want of room.                                               *)
(*                                                                         *)
(* The ring is the FIFO that HifRing implements; that the poll is run      *)
(* whenever there is something to collect is what HifIrq shows.  A         *)
(* transmission holds the TX lock of the channel; the poll takes no lock,  *)
(* and every access of one that the other may see is a step.               *)
(***************************************************************************)
EXTENDS Naturals, Sequences

CONSTANTS
    Netifs,     \* interfaces on the channel
    IhcWorker,  \* pfeng_ihc_tx_work_handler, another user of the channel
    NoFrame,    \* the NULL skb, and nobody holding the lock
    D,          \* PFE_CFG_HIF_RING_LENGTH
    MaxBds,     \* MAX_SKB_FRAGS + 1
    Serials,    \* bound: frames of one interface told apart
    Lltx,       \* the credit of the TMU queue is checked
    IhcFrames,  \* bound: frames the worker has to send; 0 on another channel
    MapFails,   \* senders whose mapping of a buffer for DMA may fail
    StoreBuffer \* a store to rd_idx may be seen late by the other CPUs

Slots == 0 .. D - 1
Senders == Netifs \cup {IhcWorker}
Frames == [netif : Senders, no : 0 .. Serials - 1, bds : 1 .. MaxBds]

ASSUME TxAssumption ==
    /\ D \in Nat \ {0}
    /\ MaxBds \in Nat \ {0}
    /\ MaxBds + 1 < D
    /\ Serials \in Nat \ {0}
    /\ NoFrame \notin Netifs /\ IhcWorker \notin Netifs
    /\ NoFrame # IhcWorker /\ NoFrame \notin Frames
    /\ IhcFrames \in Nat

Bd(f, slot, last) == [of |-> f, slot |-> slot, last |-> last]

VARIABLES
    wr, rd,     \* wr_idx, rd_idx of the TX pool
    rdSeen,     \* rd_idx as the other CPUs see it
    skbs,       \* tx_tbl[].skb, where it has not been freed
    mapped,     \* slots whose mapping has not been released
    posted,     \* buffers in the ring the hardware has yet to read
    sent,       \* buffers in the ring the hardware is done with
    lock,       \* holder of the TX lock
    xmit,       \* progress of pfeng_netif_logif_xmit
    frame,      \* its skb, or the one the stack will offer again
    pushed,     \* interfaces whose frame has its PFE header in front
    nmap,       \* buffers of it already in the ring (i)
    serial,     \* serial number of the next frame
    stopped,    \* the queue of the interface is stopped
    full,       \* PFENG_TMU_FULL
    queued,     \* tmu_status_check is queued
    work,       \* its progress
    ihc,        \* progress of pfeng_ihc_tx_work_handler
    napi,       \* progress of pfeng_hif_chnl_tx_conf
    budget,     \* frames it may still collect
    conf,       \* frame it has got the confirmation of
    look,       \* interfaces it has yet to look at
    passed      \* ghost: when a poll last looked for room, rd_idx had passed
                \* wr_idx

vars == <<wr, rd, rdSeen, skbs, mapped, posted, sent, lock, xmit, frame, pushed,
          nmap, serial, stopped, full, queued, work, ihc, napi, budget, conf,
          look, passed>>
poolVars == <<wr, rd, rdSeen, skbs, mapped>>
ringVars == <<posted, sent>>
xmitVars == <<lock, xmit, frame, pushed, nmap, serial>>
queueVars == <<stopped, full, queued>>
napiVars == <<napi, budget, conf, look, passed>>
workVars == <<work, ihc>>

TxWork == D \div 2    \* PFE_DEFAULT_TX_WORK

\* pfeng_hif_chnl_txbd_unused
Unused(w, r) == IF w >= r THEN D - w + r - 1 ELSE r - w - 1

Needed(n) == n + 1    \* PFE_TXBDS_NEEDED
MaxNeeded == Needed(MaxBds)

Init ==
    /\ wr = 0 /\ rd = 0 /\ rdSeen = 0
    /\ skbs = [s \in Slots |-> NoFrame]
    /\ mapped = {}
    /\ posted = <<>> /\ sent = <<>>
    /\ lock = NoFrame
    /\ xmit = [n \in Netifs |-> "idle"]
    /\ frame = [n \in Netifs |-> NoFrame]
    /\ pushed = {}
    /\ nmap = 0
    /\ serial = [n \in Senders |-> 0]
    /\ stopped = [n \in Netifs |-> FALSE]
    /\ full = [n \in Netifs |-> FALSE]
    /\ queued = [n \in Netifs |-> FALSE]
    /\ work = [n \in Netifs |-> "idle"]
    /\ ihc = "idle"
    /\ napi = "off" /\ budget = 0 /\ conf = NoFrame /\ look = {}
    /\ passed = FALSE

-----------------------------------------------------------------------------
(* pfeng_netif_logif_xmit                                                  *)

Goto(n, from, to) == xmit[n] = from /\ xmit' = [xmit EXCEPT ![n] = to]

\* NETDEV_TX_BUSY: the lock is released and the stack keeps the skb.
Busy(n, from) == Goto(n, from, "idle") /\ lock' = NoFrame

\* A new frame, or the one that was refused before.
XmitStart(n) ==
    /\ ~stopped[n] /\ lock = NoFrame
    /\ Goto(n, "idle", "check")
    /\ lock' = n
    /\ IF frame[n] # NoFrame THEN UNCHANGED <<frame, serial, pushed>>
       ELSE \E b \in 1 .. MaxBds :
                /\ frame' = [frame EXCEPT ![n] = [netif |-> n, no |-> serial[n], bds |-> b]]
                /\ serial' = [serial EXCEPT ![n] = (@ + 1) % Serials]
                /\ pushed' = pushed \ {n}
    /\ nmap' = 0
    /\ UNCHANGED <<poolVars, ringVars, queueVars, workVars, napiVars>>

XmitCheck(n) ==
    /\ Goto(n, "check", IF Unused(wr, rdSeen) >= Needed(frame[n].bds) THEN "credit"
                        ELSE "no room")
    /\ UNCHANGED <<poolVars, ringVars, lock, frame, pushed, nmap, serial,
                   queueVars, workVars, napiVars>>

XmitNoRoom(n) ==
    /\ Goto(n, "no room", "recheck")
    /\ stopped' = [stopped EXCEPT ![n] = TRUE]
    /\ UNCHANGED <<poolVars, ringVars, lock, frame, pushed, nmap, serial, full,
                   queued, workVars, napiVars>>

\* Fault: the queue is started again whatever the room.
XmitRecheckBlind(n) ==
    /\ Goto(n, "recheck", "credit")
    /\ stopped' = [stopped EXCEPT ![n] = FALSE]
    /\ UNCHANGED <<poolVars, ringVars, lock, frame, pushed, nmap, serial, full,
                   queued, workVars, napiVars>>

\* Fault: the room is not looked at again once the queue is stopped.
XmitRecheckNever(n) ==
    /\ Busy(n, "recheck")
    /\ UNCHANGED <<poolVars, ringVars, frame, pushed, nmap, serial, queueVars, workVars, napiVars>>

\* "prevent a race condition with the NAPI thread, which may have just
\* finished cleaning up the ring"
XmitRecheck(n) ==
    /\ IF Unused(wr, rdSeen) >= MaxNeeded
       THEN Goto(n, "recheck", "credit") /\ stopped' = [stopped EXCEPT ![n] = FALSE]
                /\ UNCHANGED lock
       ELSE Busy(n, "recheck") /\ UNCHANGED stopped
    /\ UNCHANGED <<poolVars, ringVars, frame, pushed, nmap, serial, full, queued,
                   workVars, napiVars>>

\* pfeng_tmu_can_tx: whether there is credit is decided elsewhere (TmuCredit).
XmitCredit(n) ==
    /\ \/ Goto(n, "credit", "map") /\ UNCHANGED full
       \/ Lltx /\ Goto(n, "credit", "stop") /\ full' = [full EXCEPT ![n] = TRUE]
    /\ UNCHANGED <<poolVars, ringVars, lock, frame, pushed, nmap, serial, stopped,
                   queued, workVars, napiVars>>

XmitStop(n) ==
    /\ Goto(n, "stop", "schedule")
    /\ stopped' = [stopped EXCEPT ![n] = TRUE]
    /\ UNCHANGED <<poolVars, ringVars, lock, frame, pushed, nmap, serial, full,
                   queued, workVars, napiVars>>

XmitSchedule(n) ==
    /\ Busy(n, "schedule")
    /\ queued' = [queued EXCEPT ![n] = TRUE]
    /\ UNCHANGED <<poolVars, ringVars, frame, pushed, nmap, serial, stopped,
                   full, workVars, napiVars>>

Full == Len(posted) + Len(sent) = D
Put(n, slot) == skbs' = [skbs EXCEPT ![slot] = IF nmap = 0 THEN frame[n] ELSE NoFrame]

\* Push the header before the first buffer; map a buffer, fill its slot of the
\* table and put it into the ring.
XmitMap(n) ==
    LET last == nmap + 1 = frame[n].bds
        slot == (wr + nmap) % D
    IN  /\ ~Full
        /\ Goto(n, "map", IF last THEN "update" ELSE "map")
        /\ pushed' = pushed \cup {n}
        /\ Put(n, slot)
        /\ mapped' = mapped \cup {slot}
        /\ posted' = Append(posted, Bd(frame[n], slot, last))
        /\ nmap' = nmap + 1
        /\ UNCHANGED <<wr, rd, rdSeen, sent, lock, frame, serial, queueVars,
                       workVars, napiVars>>

\* pfeng_hif_chnl_txconf_unroll_map_full walks the table down from the last
\* of the k slots, the index of which it does not mask.
Unrolled(k) == {s \in Slots : wr <= s /\ s < wr + k}

\* Fault: the error path of a fragment leaves the lock held.
XmitMapFailsLocked(n) ==
    /\ n \in MapFails
    /\ Goto(n, "map", "idle")
    /\ pushed' = pushed \cup {n}
    /\ mapped' = mapped \ Unrolled(nmap)
    /\ nmap' = 0
    /\ UNCHANGED <<wr, rd, rdSeen, skbs, ringVars, lock, frame, serial,
                   queueVars, workVars, napiVars>>

\* The mapping fails.
XmitMapFails(n) ==
    /\ n \in MapFails
    /\ Busy(n, "map")
    /\ pushed' = pushed \cup {n}
    /\ mapped' = mapped \ Unrolled(nmap)
    /\ nmap' = 0
    /\ UNCHANGED <<wr, rd, rdSeen, skbs, ringVars, frame, serial, queueVars,
                   workVars, napiVars>>

\* pfe_hif_chnl_tx finds the descriptor still in use; the mapping of a
\* fragment that is refused is not counted in what is unrolled.
XmitTxFails(n) ==
    LET slot == (wr + nmap) % D
        k == IF nmap = 0 THEN 1 ELSE nmap
    IN  /\ Full
        /\ Busy(n, "map")
        /\ pushed' = pushed \cup {n}
        /\ Put(n, slot)
        /\ mapped' = (mapped \cup {slot}) \ Unrolled(k)
        /\ nmap' = 0
        /\ UNCHANGED <<wr, rd, rdSeen, ringVars, frame, serial, queueVars,
                       workVars, napiVars>>

\* Fault: the fragments are not counted.
XmitUpdateHead(n) ==
    /\ Goto(n, "update", "idle")
    /\ wr' = (wr + 1) % D
    /\ lock' = NoFrame
    /\ frame' = [frame EXCEPT ![n] = NoFrame]
    /\ pushed' = pushed \ {n} /\ nmap' = 0
    /\ UNCHANGED <<rd, rdSeen, skbs, mapped, ringVars, serial, queueVars,
                   workVars, napiVars>>

\* Fault: the index is not masked.
XmitUpdateUnmasked(n) ==
    /\ Goto(n, "update", "idle")
    /\ wr' = wr + frame[n].bds
    /\ lock' = NoFrame
    /\ frame' = [frame EXCEPT ![n] = NoFrame]
    /\ pushed' = pushed \ {n} /\ nmap' = 0
    /\ UNCHANGED <<rd, rdSeen, skbs, mapped, ringVars, serial, queueVars,
                   workVars, napiVars>>

\* pfeng_hif_chnl_txconf_update_wr_idx, NETDEV_TX_OK
XmitUpdate(n) ==
    /\ Goto(n, "update", "idle")
    /\ wr' = (wr + frame[n].bds) % D
    /\ lock' = NoFrame
    /\ frame' = [frame EXCEPT ![n] = NoFrame]
    /\ pushed' = pushed \ {n} /\ nmap' = 0
    /\ UNCHANGED <<rd, rdSeen, skbs, mapped, ringVars, serial, queueVars,
                   workVars, napiVars>>

-----------------------------------------------------------------------------
\* The DMA engine is done with a buffer: it may take the first ones of a frame
\* when it is still at work, and it is triggered by the last one.
HwSend ==
    /\ posted # <<>>
    /\ sent' = Append(sent, Head(posted))
    /\ posted' = Tail(posted)
    /\ UNCHANGED <<poolVars, xmitVars, queueVars, workVars, napiVars>>

-----------------------------------------------------------------------------
(* pfeng_hif_chnl_tx_conf                                                  *)

NapiGoto(from, to) == napi = from /\ napi' = to

NapiStart ==
    /\ sent # <<>>
    /\ NapiGoto("off", "conf")
    /\ budget' = TxWork
    /\ UNCHANGED <<poolVars, ringVars, xmitVars, queueVars, workVars, conf, look, passed>>

\* pfe_hif_chnl_get_tx_conf: the buffers up to the last one of a frame
NapiConf ==
    LET ends == {k \in DOMAIN sent : sent[k].last}
        k == CHOOSE k \in ends : \A j \in ends : k <= j
    IN  /\ IF budget > 0 /\ ends # {}
           THEN /\ NapiGoto("conf", "free")
                /\ conf' = sent[k].of
                /\ sent' = SubSeq(sent, k + 1, Len(sent))
           ELSE /\ NapiGoto("conf", "room")
                /\ sent' = IF budget > 0 THEN <<>> ELSE sent
                /\ UNCHANGED conf
        /\ UNCHANGED <<poolVars, posted, xmitVars, queueVars, workVars, budget, look, passed>>

FreeSlots(f) == {(rd + j) % D : j \in 0 .. f.bds - 1}

\* Fault: only the linear part is released.
NapiFreeHead ==
    /\ NapiGoto("free", "conf")
    /\ mapped' = mapped \ {rd}
    /\ rd' = (rd + 1) % D
    /\ rdSeen' = IF StoreBuffer THEN rdSeen ELSE rd'
    /\ skbs' = [skbs EXCEPT ![rd] = NoFrame]
    /\ budget' = budget - 1 /\ conf' = NoFrame
    /\ UNCHANGED <<wr, ringVars, xmitVars, queueVars, workVars, look, passed>>

\* pfeng_hif_chnl_txconf_free_map_full
NapiFree ==
    LET f == skbs[rd]
    IN  /\ NapiGoto("free", "conf")
        /\ f # NoFrame
        /\ mapped' = mapped \ FreeSlots(f)
        /\ rd' = (rd + f.bds) % D
        /\ rdSeen' = IF StoreBuffer THEN rdSeen ELSE rd'
        /\ skbs' = [skbs EXCEPT ![rd] = NoFrame]
        /\ budget' = budget - 1 /\ conf' = NoFrame
        /\ UNCHANGED <<wr, ringVars, xmitVars, queueVars, workVars, look, passed>>

\* The frame that is being put into the ring has been sent and collected
\* already: rd_idx has passed wr_idx, and txbd_unused finds no room.
Overtaken == posted = <<>> /\ sent = <<>> /\ \E n \in Netifs : xmit[n] = "update"

NapiRoom ==
    /\ IF Unused(wr, rd) >= MaxNeeded
       THEN NapiGoto("room", "look") /\ look' = Netifs
       ELSE NapiGoto("room", "end") /\ look' = {}
    /\ passed' = Overtaken
    /\ UNCHANGED <<poolVars, ringVars, xmitVars, queueVars, workVars, budget, conf>>

NapiLook ==
    /\ \/ \E n \in look :
            IF stopped[n] THEN NapiGoto("look", "wake") /\ look' = look
            ELSE NapiGoto("look", "look") /\ look' = look \ {n}
       \/ look = {} /\ NapiGoto("look", "end") /\ look' = {}
    /\ UNCHANGED <<poolVars, ringVars, xmitVars, queueVars, workVars, budget, conf, passed>>

\* A queue that waits for credit is left to tmu_status_check.
NapiWake ==
    /\ NapiGoto("wake", "look")
    /\ \E n \in look :
        /\ stopped' = [stopped EXCEPT ![n] = @ /\ full[n]]
        /\ look' = look \ {n}
    /\ UNCHANGED <<poolVars, ringVars, xmitVars, full, queued, workVars, budget, conf,
                   passed>>

\* The end of the poll orders its stores; a poll out of budget is repeated.
NapiEnd ==
    /\ IF budget = 0 THEN NapiGoto("end", "conf") /\ budget' = TxWork
       ELSE NapiGoto("end", "off") /\ budget' = 0
    /\ rdSeen' = rd
    /\ UNCHANGED <<wr, rd, skbs, mapped, ringVars, xmitVars, queueVars, workVars,
                   conf, look, passed>>

RdBecomesVisible ==
    /\ rdSeen # rd
    /\ rdSeen' = rd
    /\ UNCHANGED <<wr, rd, skbs, mapped, ringVars, xmitVars, queueVars, workVars, napiVars>>

-----------------------------------------------------------------------------
(* pfeng_tmu_status_check                                                  *)

\* The work queues itself again until there is credit.
WorkCredit(n) ==
    /\ queued[n] /\ work[n] = "idle"
    /\ queued' = [queued EXCEPT ![n] = FALSE]
    /\ full' = [full EXCEPT ![n] = FALSE]
    /\ work' = [work EXCEPT ![n] = IF full[n] THEN "wake" ELSE "idle"]
    /\ UNCHANGED <<poolVars, ringVars, xmitVars, stopped, ihc, napiVars>>

WorkWake(n) ==
    /\ work[n] = "wake"
    /\ work' = [work EXCEPT ![n] = "idle"]
    /\ stopped' = [stopped EXCEPT ![n] = FALSE]
    /\ UNCHANGED <<poolVars, ringVars, xmitVars, full, queued, ihc, napiVars>>

-----------------------------------------------------------------------------
(* pfeng_ihc_tx_work_handler, for one frame out of the IHC fifo: it takes the *)
(* lock, and it does not ask for room.                                       *)

IhcGoto(from, to) == ihc = from /\ ihc' = to
NextIhcFrame == serial' = [serial EXCEPT ![IhcWorker] = @ + 1]
IhcFrame == [netif |-> IhcWorker, no |-> 0, bds |-> 1]

IhcStart ==
    /\ serial[IhcWorker] < IhcFrames /\ lock = NoFrame
    /\ IhcGoto("idle", "put")
    /\ lock' = IhcWorker
    /\ UNCHANGED <<poolVars, ringVars, xmit, frame, pushed, nmap, serial,
                   queueVars, work, napiVars>>

\* The frame cannot be mapped: the error path gives back a lock that has not
\* been taken yet.
IhcMapFails ==
    /\ IhcWorker \in MapFails /\ serial[IhcWorker] < IhcFrames
    /\ IhcGoto("idle", "idle")
    /\ NextIhcFrame
    /\ lock' = NoFrame
    /\ UNCHANGED <<poolVars, ringVars, xmit, frame, pushed, nmap, queueVars,
                   work, napiVars>>

IhcPut ==
    /\ ~Full
    /\ IhcGoto("put", "update")
    /\ skbs' = [skbs EXCEPT ![wr] = IhcFrame]
    /\ mapped' = mapped \cup {wr}
    /\ posted' = Append(posted, Bd(IhcFrame, wr, TRUE))
    /\ UNCHANGED <<wr, rd, rdSeen, sent, xmitVars, queueVars, work, napiVars>>

\* The frame is freed; the table has been written to.
IhcTxFails ==
    /\ Full
    /\ IhcGoto("put", "idle")
    /\ skbs' = [skbs EXCEPT ![wr] = NoFrame]
    /\ mapped' = mapped \ {wr}
    /\ NextIhcFrame
    /\ lock' = NoFrame
    /\ UNCHANGED <<wr, rd, rdSeen, ringVars, xmit, frame, pushed, nmap, queueVars,
                   work, napiVars>>

\* Fault: the lock is only given back on the error path.
IhcUpdateLocked ==
    /\ IhcGoto("update", "idle")
    /\ wr' = (wr + 1) % D
    /\ NextIhcFrame
    /\ UNCHANGED <<rd, rdSeen, skbs, mapped, ringVars, lock, xmit, frame, pushed,
                   nmap, queueVars, work, napiVars>>

IhcUpdate ==
    /\ IhcGoto("update", "idle")
    /\ wr' = (wr + 1) % D
    /\ NextIhcFrame
    /\ lock' = NoFrame
    /\ UNCHANGED <<rd, rdSeen, skbs, mapped, ringVars, xmit, frame, pushed, nmap,
                   queueVars, work, napiVars>>

-----------------------------------------------------------------------------
XmitStep(n) ==
    \/ XmitCheck(n) \/ XmitNoRoom(n) \/ XmitRecheck(n) \/ XmitCredit(n)
    \/ XmitStop(n) \/ XmitSchedule(n) \/ XmitMap(n) \/ XmitMapFails(n)
    \/ XmitTxFails(n) \/ XmitUpdate(n)

Napi ==
    \/ NapiStart \/ NapiConf \/ NapiFree \/ NapiRoom \/ NapiLook \/ NapiWake
    \/ NapiEnd

IhcWork == IhcPut \/ IhcTxFails \/ IhcUpdate

Next ==
    \/ \E n \in Netifs : XmitStart(n) \/ XmitStep(n)
    \/ HwSend \/ Napi \/ RdBecomesVisible
    \/ IhcStart \/ IhcMapFails \/ IhcWork
    \/ \E n \in Netifs : WorkCredit(n) \/ WorkWake(n)

Spec == Init /\ [][Next]_vars

\* A transmission once begun runs to its end, the hardware sends what it is
\* given, the poll runs when there is something to collect, and the TMU queue
\* has credit again in the end.  Nobody has to send.
FairSpec == Spec /\ WF_vars(HwSend) /\ WF_vars(Napi) /\ WF_vars(RdBecomesVisible)
                 /\ WF_vars(IhcWork)
                 /\ \A n \in Netifs :
                        /\ WF_vars(XmitStep(n))
                        /\ WF_vars(WorkCredit(n)) /\ WF_vars(WorkWake(n))

-----------------------------------------------------------------------------
(* Properties                                                              *)

TypeOK ==
    /\ wr \in Slots /\ rd \in Slots /\ rdSeen \in Slots
    /\ skbs \in [Slots -> Frames \cup {NoFrame}]
    /\ mapped \subseteq Slots
    /\ lock \in Senders \cup {NoFrame}
    /\ frame \in [Netifs -> Frames \cup {NoFrame}]
    /\ pushed \subseteq Netifs
    /\ nmap \in 0 .. MaxBds
    /\ budget \in 0 .. TxWork
    /\ look \subseteq Netifs /\ passed \in BOOLEAN

\* The frame whose mappings and memory the poll releases is the one the
\* hardware has confirmed: the table and the ring never get out of step,
\* also when a frame is confirmed before wr_idx has been advanced over it.
FreedIsConfirmed == napi = "free" => skbs[rd] = conf

\* The checks of the room in the table keep the ring from being filled: an
\* enqueue never meets a descriptor still in use, and one stays unused.
RingKeepsAGap == Len(posted) + Len(sent) < D

\* Every buffer the hardware has yet to read is mapped.
InFlightIsMapped == \A k \in DOMAIN posted : posted[k].slot \in mapped

\* The table and the ring have one producer at a time: the interfaces of a
\* shared channel and the worker of the inter-driver communication.
Producing == {n \in Netifs : xmit[n] # "idle"} \cup
             (IF ihc # "idle" THEN {IhcWorker} ELSE {})

OneProducer == \A p, q \in Producing : p = q

\* A frame gets its PFE header once, also when it is offered again after the
\* driver has returned NETDEV_TX_BUSY.
HeaderOnce == \A n \in Netifs : xmit[n] = "map" /\ nmap = 0 => n \notin pushed

\* The lock that all the users of the channel share is released on every path
\* out of a transmission, those of its errors too: only who is inside of one
\* holds it.
LockReleased ==
    /\ \A n \in Netifs : lock = n => xmit[n] # "idle"
    /\ lock = IhcWorker => ihc # "idle"

\* When all has been sent and collected and nobody is at work no queue is left
\* stopped: nothing would wake it before frames are received or sent by others.
Quiet ==
    /\ posted = <<>> /\ sent = <<>> /\ napi = "off" /\ ihc = "idle"
    /\ \A n \in Netifs : xmit[n] = "idle" /\ work[n] = "idle" /\ ~queued[n]

NoStuckQueue == Quiet => \A n \in Netifs : ~stopped[n]

\* A queue stopped for want of room is woken once the others stop sending,
\* unless the last poll came while rd_idx had passed wr_idx.
QueueWakes ==
    \A n \in Netifs :
        stopped[n] ~> (~stopped[n] \/ passed \/ \E m \in Netifs \ {n} : xmit[m] # "idle")

\* The table of the mappings and the ring: the types, the gap in the ring, and
\* no buffer in flight without a mapping.
TableInv == TypeOK /\ RingKeepsAGap /\ InFlightIsMapped
=============================================================================
