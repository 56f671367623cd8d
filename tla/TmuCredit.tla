----------------------------- MODULE TmuCredit -----------------------------
(***************************************************************************)
(* The credit scheme of the lossless transmission (LLTX, pfeng-netif.c):   *)
(* one interface sends into a queue of the TMU that drops what it has no   *)
(* room for.  pfeng_tmu_can_tx grants frames out of a credit, and when     *)
(* that is used up computes a new one from two registers: the number of    *)
(* frames the queue has transmitted and its fill level.  When there is     *)
(* none the transmission stops the network queue and leaves it to the work *)
(* pfeng_tmu_status_check to ask again until there is some.                *)
(*                                                                         *)
(* Transmission and work take no common lock.  Normally the stopped queue  *)
(* keeps the one away while the other runs, but a link that comes up wakes *)
(* the queue whoever stopped it.  The accesses of pfeng_tmu_can_tx to the  *)
(* credit and to the registers are steps.                                  *)
(***************************************************************************)
EXTENDS Integers

CONSTANTS
    QSize,      \* tmu_q_cfg.q_size
    U8, U32,    \* 256 and 2^32: the widths of the differences and the counters
    Path,       \* bound: frames between the driver and the queue
    Disturbers, \* what may disturb the count, out of Disturbances
    MaxDisturb  \* bound: how often it does

Disturbances == {"link", "drop", "external"}

Min2(a, b) == IF a <= b THEN a ELSE b

Window == QSize \div 4              \* pfeng_tmu_q_window_size
MinThr == Min2(Window \div 4, 8)    \* min_thr, TMU_RES_Q_MIN_TX_THR

ASSUME CreditAssumption ==
    /\ QSize \in Nat \ {0}
    /\ U8 \in Nat /\ QSize < U8
    /\ U32 \in Nat /\ U8 < U32 /\ U32 % U8 = 0
    /\ Path \in Nat \ {0}
    /\ Disturbers \subseteq Disturbances /\ MaxDisturb \in Nat

Threads == {"xmit", "work"}

VARIABLES
    pkts,       \* tmu_q.pkts, frames counted as sent
    cap,        \* tmu_q.cap, the credit
    pc,         \* progress of pfeng_tmu_can_tx and what follows in each thread
    snap,       \* its local pkts, cap and delta
    queued,     \* tmu_status_check is queued
    stopped,    \* the network queue is stopped
    full,       \* PFENG_TMU_FULL
    path,       \* frames on the way to the queue
    fill,       \* its fill level
    conf,       \* frames it has transmitted
    disturbed,  \* how often the count has been disturbed
    late,       \* ghost: frames the last reading of the level did not see, on
                \* the way then, or sent into the queue by others since
    raced,      \* ghost: since then both threads have been at work at once
    robbed,     \* ghost: the work has cleared PFENG_TMU_FULL between the setting
                \* of it and the stop of the queue
    uncounted   \* ghost: frames that pkts leaves out, those under way when it was
                \* adjusted and those since that asked for new credit; U8: or more

tmuVars == <<pkts, cap, pc, snap, queued, stopped, full, path, fill, conf,
             disturbed, late, raced, robbed, uncounted>>
queueVars == <<path, fill, conf>>
hwVars == <<queueVars, disturbed>>
netVars == <<queued, stopped, full>>
ghosts == <<late, raced, robbed, uncounted>>

NoSnap == [pkts |-> 0, cap |-> 0, delta |-> 0]

\* pfeng_netif_tmu_lltx_init
TmuInit ==
    /\ pkts = 0 /\ cap = Window
    /\ pc = [t \in Threads |-> "idle"]
    /\ snap = [t \in Threads |-> NoSnap]
    /\ queued = FALSE /\ stopped = FALSE /\ full = FALSE
    /\ path = 0 /\ fill = 0 /\ conf = 0
    /\ disturbed = 0 /\ late = 0 /\ raced = FALSE /\ robbed = FALSE /\ uncounted = 0

-----------------------------------------------------------------------------
(* pfeng_tmu_can_tx                                                        *)

Disturb(kind) ==
    /\ kind \in Disturbers /\ disturbed < MaxDisturb
    /\ disturbed' = disturbed + 1

Moves(t, from, to) == pc[t] = from /\ pc' = [pc EXCEPT ![t] = to]

Enter(t) ==
    /\ Moves(t, "idle", IF cap > 0 THEN "take" ELSE "conf")
    /\ snap' = [snap EXCEPT ![t] = [pkts |-> pkts, cap |-> cap, delta |-> 0]]
    /\ raced' = (raced \/ \E u \in Threads \ {t} : pc[u] # "idle")
    /\ UNCHANGED <<pkts, cap, hwVars, late, robbed, uncounted>>

XmitEnter ==
    /\ ~stopped /\ path < Path
    /\ Enter("xmit")
    /\ UNCHANGED netVars

WorkEnter ==
    /\ queued
    /\ Enter("work")
    /\ queued' = FALSE
    /\ UNCHANGED <<stopped, full>>

Forget(t) == snap' = [snap EXCEPT ![t] = NoSnap]

Take(t) ==
    /\ Moves(t, "take", "granted")
    /\ cap' = snap[t].cap - 1
    /\ pkts' = (snap[t].pkts + 1) % U32
    /\ Forget(t)
    /\ UNCHANGED <<hwVars, netVars, ghosts>>

Behind(p) == (p - conf) % U8

\* Fault: the count is never adjusted.
ResyncNever(p) == [pkts |-> p, delta |-> Behind(p)]

\* The count of frames and the distance to the confirmed ones, adjusted when
\* they do not look right: somebody else sends into the queue, or frames that
\* were counted have been dropped.
Resync(p) ==
    LET ahead == conf > p /\ Behind(p) > Window
        stale == p > (conf + Window) % U32
    IN  IF ahead \/ stale THEN [pkts |-> conf, delta |-> 0]
        ELSE [pkts |-> p, delta |-> Behind(p)]

\* The frames that were granted and are not transmitted yet
Granted == IF pc["xmit"] = "granted" THEN 1 ELSE 0
Under == fill + path + Granted

\* What the new count p leaves out: it was adjusted if it is another one, and
\* then so many have been transmitted since.
LeftOut(p) ==
    IF p = pkts THEN uncounted ELSE Min2(Under + ((conf - p) % U32), U8)

\* The number of transmitted frames is read.
ReadConf(t) ==
    LET r == Resync(snap[t].pkts)
        c == (Window - r.delta) % U8
    IN  /\ Moves(t, "conf", IF c <= MinThr THEN "refused" ELSE "fill")
        /\ IF c <= MinThr THEN Forget(t) /\ pkts' = r.pkts /\ uncounted' = LeftOut(r.pkts)
           ELSE /\ snap' = [snap EXCEPT ![t] = [pkts |-> r.pkts, cap |-> c, delta |-> r.delta]]
                /\ UNCHANGED <<pkts, uncounted>>
        /\ UNCHANGED <<cap, hwVars, netVars, late, raced, robbed>>

\* Fault: what the queue holds is not looked at.
NoFitBlind(t) == FALSE

\* What is counted as on the way and what the queue holds already leave no
\* room for the new credit.
NoFit(t) == snap[t].cap > QSize - snap[t].delta - Min2(fill, U8 - 1)

\* Fault: the asking frame is counted, whoever asks.
ReadFillCounted(t) ==
    /\ Moves(t, "fill", IF NoFit(t) THEN "refused" ELSE "granted")
    /\ cap' = IF NoFit(t) THEN cap ELSE snap[t].cap
    /\ pkts' = IF NoFit(t) THEN snap[t].pkts ELSE (snap[t].pkts + 1) % U32
    /\ uncounted' = LeftOut(snap[t].pkts)
    /\ late' = IF NoFit(t) THEN late ELSE path
    /\ raced' = IF NoFit(t) THEN raced ELSE \E u \in Threads \ {t} : pc[u] # "idle"
    /\ Forget(t)
    /\ UNCHANGED <<hwVars, netVars, robbed>>

\* The fill level is read; the frame that asked for the credit is not counted.
ReadFill(t) ==
    /\ Moves(t, "fill", IF NoFit(t) THEN "refused" ELSE "granted")
    /\ cap' = IF NoFit(t) THEN cap ELSE snap[t].cap
    /\ pkts' = snap[t].pkts
    /\ uncounted' = IF NoFit(t) \/ t = "work" THEN LeftOut(snap[t].pkts)
                    ELSE Min2(LeftOut(snap[t].pkts) + 1, U8)
    /\ late' = IF NoFit(t) THEN late ELSE path
    /\ raced' = IF NoFit(t) THEN raced ELSE \E u \in Threads \ {t} : pc[u] # "idle"
    /\ Forget(t)
    /\ UNCHANGED <<hwVars, netVars, robbed>>

CanTx(t) == Take(t) \/ ReadConf(t) \/ ReadFill(t)

-----------------------------------------------------------------------------
(* pfeng_netif_logif_xmit, from pfeng_tmu_can_tx on                        *)

XmitSend ==
    /\ Moves("xmit", "granted", "idle")
    /\ path' = path + 1
    /\ UNCHANGED <<pkts, cap, snap, fill, conf, disturbed, netVars, ghosts>>

\* A later step of the transmission fails and the frame is not sent.
XmitFails ==
    /\ Disturb("drop")
    /\ Moves("xmit", "granted", "idle")
    /\ UNCHANGED <<pkts, cap, snap, queueVars, netVars, ghosts>>

XmitFull ==
    /\ Moves("xmit", "refused", "stop")
    /\ full' = TRUE
    /\ robbed' = FALSE
    /\ UNCHANGED <<pkts, cap, snap, queued, stopped, hwVars, late, raced, uncounted>>

XmitStop ==
    /\ Moves("xmit", "stop", "schedule")
    /\ stopped' = TRUE
    /\ UNCHANGED <<pkts, cap, snap, queued, full, hwVars, ghosts>>

\* Fault: the work is not queued.
XmitScheduleForgotten ==
    /\ Moves("xmit", "schedule", "idle")
    /\ UNCHANGED <<pkts, cap, snap, hwVars, netVars, ghosts>>

XmitSchedule ==
    /\ Moves("xmit", "schedule", "idle")
    /\ queued' = TRUE
    /\ UNCHANGED <<pkts, cap, snap, stopped, full, hwVars, ghosts>>

Xmit == XmitSend \/ XmitFails \/ XmitFull \/ XmitStop \/ XmitSchedule

-----------------------------------------------------------------------------
(* pfeng_tmu_status_check                                                  *)

WorkAgain ==
    /\ Moves("work", "refused", "idle")
    /\ queued' = TRUE
    /\ UNCHANGED <<pkts, cap, snap, stopped, full, hwVars, ghosts>>

WorkClear ==
    /\ full
    /\ Moves("work", "granted", "wake")
    /\ full' = FALSE
    /\ robbed' = (robbed \/ pc["xmit"] = "stop")
    /\ UNCHANGED <<pkts, cap, snap, queued, stopped, hwVars, late, raced, uncounted>>

WorkDone ==
    /\ ~full
    /\ Moves("work", "granted", "idle")
    /\ UNCHANGED <<pkts, cap, snap, hwVars, netVars, ghosts>>

WorkWake ==
    /\ Moves("work", "wake", "idle")
    /\ stopped' = FALSE
    /\ UNCHANGED <<pkts, cap, snap, queued, full, hwVars, ghosts>>

Work == WorkAgain \/ WorkClear \/ WorkDone \/ WorkWake

-----------------------------------------------------------------------------
(* The link and the queue                                                  *)

\* pfeng_mac_link_down, pfeng_mac_link_up
LinkFlap ==
    /\ Disturb("link")
    /\ stopped' = FALSE
    /\ UNCHANGED <<pkts, cap, pc, snap, queued, full, queueVars, ghosts>>

\* A full queue drops the frame.
Arrive ==
    /\ path > 0
    /\ path' = path - 1
    /\ fill' = Min2(fill + 1, QSize)
    /\ UNCHANGED <<pkts, cap, pc, snap, netVars, conf, disturbed, ghosts>>

\* A frame of a fast-path flow.
ArriveExternal ==
    /\ Disturb("external") /\ fill < QSize
    /\ fill' = fill + 1
    /\ late' = late + 1
    /\ UNCHANGED <<pkts, cap, pc, snap, netVars, path, conf, raced, robbed, uncounted>>

Transmit ==
    /\ fill > 0
    /\ fill' = fill - 1
    /\ conf' = (conf + 1) % U32
    /\ UNCHANGED <<pkts, cap, pc, snap, netVars, path, disturbed, ghosts>>

TmuNext ==
    \/ XmitEnter \/ WorkEnter
    \/ \E t \in Threads : CanTx(t)
    \/ Xmit \/ Work
    \/ LinkFlap \/ Arrive \/ ArriveExternal \/ Transmit

TmuSpec == TmuInit /\ [][TmuNext]_tmuVars

\* A transmission and a work that have begun go on, a queued work is run, and
\* the hardware moves frames on; nobody has to send.
TmuFairSpec ==
    /\ TmuSpec
    /\ WF_tmuVars(CanTx("xmit") \/ Xmit) /\ WF_tmuVars(CanTx("work") \/ Work)
    /\ WF_tmuVars(WorkEnter) /\ WF_tmuVars(Arrive) /\ WF_tmuVars(Transmit)

-----------------------------------------------------------------------------
(* Properties                                                              *)

TmuTypeOK ==
    /\ pkts \in 0 .. U32 - 1 /\ conf \in 0 .. U32 - 1
    /\ cap \in 0 .. Window
    /\ pc \in [Threads -> {"idle", "take", "conf", "fill", "granted", "refused",
                           "stop", "schedule", "wake"}]
    /\ snap \in [Threads -> [pkts : 0 .. U32 - 1, cap : 0 .. Window, delta : 0 .. Window]]
    /\ queued \in BOOLEAN /\ stopped \in BOOLEAN /\ full \in BOOLEAN
    /\ path \in 0 .. Path /\ fill \in 0 .. QSize
    /\ disturbed \in 0 .. MaxDisturb
    /\ late \in 0 .. Path + MaxDisturb /\ raced \in BOOLEAN /\ robbed \in BOOLEAN
    /\ uncounted \in 0 .. U8

\* The frames in the queue, on the way to it or still to be sent out of the
\* credit fit into it, but for the one that was not counted when the credit
\* was computed and for those the reading of the level did not see; as long
\* as transmission and work have kept out of each other's way.
OvercommitBounded == ~raced => Under + cap <= QSize + late + 1

\* "Host lossless Tx": a frame that arrives at the queue finds room.
Lossless == fill = QSize => path = 0

\* An empty queue gives no credit: nothing will ever change this.
Starved == Under = 0 /\ cap = 0 /\ Window - Resync(pkts).delta <= MinThr

\* The comment in pfeng_tmu_can_tx: whatever disturbs the count, it is adjusted.
NeverStarved == ~Starved

\* There are three ways for the queue to starve, and no fourth.  The count is
\* disturbed; the queue is of less than four frames and has no window at all; or
\* so many frames have gone uncounted since the count was last adjusted that in
\* an 8-bit difference their lag looks like frames on the way.  The last needs as
\* many at once in the queue and on the way to it: a queue of 255 frames, the
\* largest that is accepted, has the room.  The frames that are not counted do
\* not do it before, nor the credit the work takes, the drops of a full queue or
\* a counter that wraps.
StarvedForAReason ==
    Starved => disturbed > 0 \/ Window = 0 \/ uncounted >= U8 - Window

\* A queue stopped for want of credit is woken, unless the count has got too
\* far ahead, or the work takes back PFENG_TMU_FULL before the queue is stopped
\* and then finds credit, but nobody to wake.
CreditComesBack == stopped ~> (~stopped \/ Starved \/ robbed)

\* The types, and that the count only runs away for one of these reasons.
CreditInv == TmuTypeOK /\ StarvedForAReason
=============================================================================
