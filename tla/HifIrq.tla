------------------------------- MODULE HifIrq -------------------------------
(***************************************************************************)
(* Interrupts of a HIF channel and the NAPI poll they schedule             *)
(* (pfeng-hif.c, pfe_hif_chnl_linux.c, pfe_hif_csr.c).                     *)
(*                                                                         *)
(* The two halves of the work are told apart by their source: "tx" are the *)
(* confirmations of sent frames, "rx" the received ones.  The hardware     *)
(* latches an event in INT_SRC whether or not INT_EN lets it through.  The *)
(* ISR acknowledges everything it finds latched, disables what it          *)
(* acknowledged, and schedules NAPI; the poll enables both sources again,  *)
(* in two steps, after it has told NAPI that it is done, so that the next  *)
(* interrupt and the next poll, on another CPU, may overtake its tail.     *)
(*                                                                         *)
(* Every access to INT_EN is a read-modify-write under chnl->lock and is   *)
(* one step.                                                               *)
(***************************************************************************)
EXTENDS Naturals, FiniteSets

CONSTANTS
    Cpus,       \* CPUs a poll may run on
    MaxDone,    \* bound: completed and uncollected frames of one direction
    Budget,     \* frames one poll collects of one direction
    Restart     \* the channel may be stopped and started again (suspend, resume)

ASSUME IrqAssumption ==
    /\ MaxDone \in Nat \ {0}
    /\ Budget \in Nat \ {0}
    /\ Restart \in BOOLEAN

Sources == {"rx", "tx"}

VARIABLES
    done,       \* completed frames the driver has not collected
    dma,        \* directions whose DMA is enabled
    src,        \* HIF_CHn_INT_SRC
    en,         \* HIF_CHn_INT_EN
    group,      \* its HIF_CH_INT_EN bit
    isr,        \* progress of pfeng_hif_chnl_direct_isr
    sched,      \* NAPI_STATE_SCHED
    missed,     \* NAPI_STATE_MISSED
    runq,       \* the instance is on the poll list of a CPU
    poll,       \* progress of the poll on each CPU
    clean,      \* its local 'complete'
    status,     \* chnl->status
    ctl,        \* progress of pfeng_hif_chnl_start or _stop
    dropped     \* ghost: events acknowledged by an ISR that scheduled nothing,
                \* until a later poll looks at their ring

irqVars == <<done, dma, src, en, group, isr, sched, missed, runq, poll, clean, status, ctl,
          dropped>>
regVars == <<src, en, group>>
napiVars == <<sched, missed, runq>>
pollVars == <<poll, clean>>
ctlVars == <<status, ctl>>

IrqInit ==
    /\ done = [s \in Sources |-> 0]
    /\ dma = {} /\ src = {} /\ en = {} /\ group = FALSE
    /\ isr = "idle"
    /\ sched = FALSE /\ missed = FALSE /\ runq = FALSE
    /\ poll = [c \in Cpus |-> "idle"]
    /\ clean = [c \in Cpus |-> FALSE]
    /\ status = "ENABLED" /\ ctl = "idle"
    /\ dropped = {}

-----------------------------------------------------------------------------
\* The DMA engine completes a frame.
HwComplete(s) ==
    /\ s \in dma
    /\ done[s] < MaxDone
    /\ done' = [done EXCEPT ![s] = @ + 1]
    /\ src' = src \cup {s}
    /\ UNCHANGED <<dma, en, group, isr, napiVars, pollVars, ctlVars, dropped>>

-----------------------------------------------------------------------------
(* pfeng_hif_chnl_direct_isr; the line is never taken by two CPUs at once. *)

IsrEnter ==
    /\ isr = "idle"
    /\ group /\ src \cap en # {}
    /\ group' = FALSE
    /\ isr' = "ack"
    /\ UNCHANGED <<done, dma, src, en, napiVars, pollVars, ctlVars, dropped>>

\* pfe_hif_chnl_cfg_isr, and the test of the events in pfe_hif_chnl_isr
IsrAck ==
    /\ isr = "ack"
    /\ isr' = IF src \cap en # {} THEN "prep" ELSE "leave"
    /\ src' = {}
    /\ en' = en \ src
    /\ dropped' = IF src \cap en = {} THEN dropped \cup src ELSE dropped
    /\ UNCHANGED <<done, dma, group, napiVars, pollVars, ctlVars>>

\* Fault: the poll is scheduled although one is under way.
IsrPrepUnchecked ==
    /\ isr = "prep"
    /\ isr' = "mask rx"
    /\ sched' = TRUE
    /\ UNCHANGED <<done, dma, regVars, missed, runq, pollVars, ctlVars, dropped>>

\* napi_schedule_prep
IsrPrep ==
    /\ isr = "prep"
    /\ isr' = IF sched THEN "leave" ELSE "mask rx"
    /\ sched' = TRUE
    /\ missed' = (missed \/ sched)
    /\ UNCHANGED <<done, dma, regVars, runq, pollVars, ctlVars, dropped>>

IsrMaskRx ==
    /\ isr = "mask rx"
    /\ isr' = "mask tx"
    /\ en' = en \ {"rx"}
    /\ UNCHANGED <<done, dma, src, group, napiVars, pollVars, ctlVars, dropped>>

IsrMaskTx ==
    /\ isr = "mask tx"
    /\ isr' = "schedule"
    /\ en' = en \ {"tx"}
    /\ UNCHANGED <<done, dma, src, group, napiVars, pollVars, ctlVars, dropped>>

IsrSchedule ==
    /\ isr = "schedule"
    /\ isr' = "leave"
    /\ runq' = TRUE
    /\ UNCHANGED <<done, dma, regVars, sched, missed, pollVars, ctlVars, dropped>>

IsrLeave ==
    /\ isr = "leave"
    /\ isr' = "idle"
    /\ group' = TRUE
    /\ UNCHANGED <<done, dma, src, en, napiVars, pollVars, ctlVars, dropped>>

-----------------------------------------------------------------------------
(* pfeng_hif_chnl_poll                                                     *)

Goto(c, from, to) == poll[c] = from /\ poll' = [poll EXCEPT ![c] = to]

PollStart(c) ==
    /\ runq
    /\ Goto(c, "idle", "tx")
    /\ runq' = FALSE
    /\ clean' = [clean EXCEPT ![c] = TRUE]
    /\ UNCHANGED <<done, dma, regVars, isr, sched, missed, ctlVars, dropped>>

\* Fault: the loop does not stop at an empty ring.
CollectBudget(c, s) ==
    /\ done' = [done EXCEPT ![s] = @ - Budget]
    /\ UNCHANGED <<clean, dropped>>

\* Up to Budget frames of s; the poll is complete if there were fewer.
Collect(c, s) ==
    LET n == IF done[s] < Budget THEN done[s] ELSE Budget
    IN  /\ done' = [done EXCEPT ![s] = @ - n]
        /\ clean' = [clean EXCEPT ![c] = @ /\ n < Budget]
        /\ dropped' = dropped \ {s}

\* pfeng_hif_chnl_tx_conf
PollTx(c) ==
    /\ Goto(c, "tx", "rx")
    /\ Collect(c, "tx")
    /\ UNCHANGED <<dma, regVars, isr, napiVars, ctlVars>>

\* pfeng_hif_chnl_rx
PollRx(c) ==
    /\ Goto(c, "rx", "end")
    /\ Collect(c, "rx")
    /\ UNCHANGED <<dma, regVars, isr, napiVars, ctlVars>>

\* The budget is returned and the instance stays on the poll list.
PollAgain(c) ==
    /\ Goto(c, "end", "idle")
    /\ ~clean[c]
    /\ runq' = TRUE
    /\ UNCHANGED <<done, dma, regVars, isr, sched, missed, clean, ctlVars, dropped>>

\* Fault: the result of napi_complete_done is ignored.
PollCompleteBlind(c) ==
    /\ Goto(c, "end", "unmask rx")
    /\ clean[c]
    /\ sched' = FALSE /\ missed' = FALSE
    /\ UNCHANGED <<done, dma, regVars, isr, runq, clean, ctlVars, dropped>>

\* napi_complete_done: an interrupt came while the instance was scheduled and
\* it is put on the list again, or it is released.
PollComplete(c) ==
    /\ clean[c]
    /\ \/ missed /\ Goto(c, "end", "idle") /\ runq' = TRUE /\ sched' = sched
       \/ ~missed /\ Goto(c, "end", "unmask rx") /\ sched' = FALSE /\ runq' = runq
    /\ missed' = FALSE
    /\ UNCHANGED <<done, dma, regVars, isr, clean, ctlVars, dropped>>

PollUnmaskRx(c) ==
    /\ Goto(c, "unmask rx", "unmask tx")
    /\ en' = en \cup {"rx"}
    /\ UNCHANGED <<done, dma, src, group, isr, napiVars, clean, ctlVars, dropped>>

\* Fault: the second source stays disabled.
PollUnmaskTxForgotten(c) ==
    /\ Goto(c, "unmask tx", "idle")
    /\ UNCHANGED <<done, dma, regVars, isr, napiVars, clean, ctlVars, dropped>>

PollUnmaskTx(c) ==
    /\ Goto(c, "unmask tx", "idle")
    /\ en' = en \cup {"tx"}
    /\ UNCHANGED <<done, dma, src, group, isr, napiVars, clean, ctlVars, dropped>>

-----------------------------------------------------------------------------
(* pfeng_hif_chnl_start, pfeng_hif_chnl_stop                               *)

CtlGoto(from, to) == ctl = from /\ ctl' = to

StartGroup ==
    /\ status = "ENABLED" /\ CtlGoto("idle", "enable rx")
    /\ group' = TRUE
    /\ UNCHANGED <<done, dma, src, en, isr, napiVars, pollVars, status, dropped>>

StartDma ==
    /\ \/ CtlGoto("enable rx", "enable tx") /\ dma' = dma \cup {"rx"}
       \/ CtlGoto("enable tx", "unmask rx") /\ dma' = dma \cup {"tx"}
    /\ UNCHANGED <<done, regVars, isr, napiVars, pollVars, status, dropped>>

StartUnmaskRx ==
    /\ CtlGoto("unmask rx", "unmask tx")
    /\ en' = en \cup {"rx"}
    /\ UNCHANGED <<done, dma, src, group, isr, napiVars, pollVars, status, dropped>>

StartUnmaskTx ==
    /\ CtlGoto("unmask tx", "idle")
    /\ en' = en \cup {"tx"}
    /\ status' = "RUNNING"
    /\ UNCHANGED <<done, dma, src, group, isr, napiVars, pollVars, dropped>>

StopGroup ==
    /\ Restart /\ status = "RUNNING" /\ CtlGoto("idle", "mask rx")
    /\ group' = FALSE
    /\ UNCHANGED <<done, dma, src, en, isr, napiVars, pollVars, status, dropped>>

StopMask ==
    /\ \/ CtlGoto("mask rx", "mask tx") /\ en' = en \ {"rx"}
       \/ CtlGoto("mask tx", "disable rx") /\ en' = en \ {"tx"}
    /\ UNCHANGED <<done, dma, src, group, isr, napiVars, pollVars, status, dropped>>

\* pfe_hif_chnl_cfg_rx_disable and _tx_disable mask their source once more.
StopRx ==
    /\ CtlGoto("disable rx", "disable tx")
    /\ dma' = dma \ {"rx"}
    /\ en' = en \ {"rx"}
    /\ UNCHANGED <<done, src, group, isr, napiVars, pollVars, status, dropped>>

StopTx ==
    /\ CtlGoto("disable tx", "idle")
    /\ dma' = dma \ {"tx"}
    /\ en' = en \ {"tx"}
    /\ status' = "ENABLED"
    /\ UNCHANGED <<done, src, group, isr, napiVars, pollVars, dropped>>

-----------------------------------------------------------------------------
Isr ==
    \/ IsrEnter \/ IsrAck \/ IsrPrep \/ IsrMaskRx \/ IsrMaskTx
    \/ IsrSchedule \/ IsrLeave

PollWork(c) ==
    \/ PollTx(c) \/ PollRx(c) \/ PollAgain(c) \/ PollComplete(c)
    \/ PollUnmaskRx(c) \/ PollUnmaskTx(c)

Start == StartGroup \/ StartDma \/ StartUnmaskRx \/ StartUnmaskTx

Stop == StopGroup \/ StopMask \/ StopRx \/ StopTx

IrqNext ==
    \/ \E s \in Sources : HwComplete(s)
    \/ Isr
    \/ \E c \in Cpus : PollStart(c) \/ PollWork(c)
    \/ Start \/ Stop

IrqSpec == IrqInit /\ [][IrqNext]_irqVars

\* A thread that is starting or stopping the channel.
CtlWork == StartDma \/ StartUnmaskRx \/ StartUnmaskTx \/ StopMask \/ StopRx \/ StopTx

\* A pending unmasked interrupt is taken and the ISR runs to its end; the
\* softirq runs what is on the poll list; a poll, a start and a stop that are
\* under way continue.
IrqFairSpec == IrqSpec /\ WF_irqVars(Isr) /\ WF_irqVars(\E c \in Cpus : PollStart(c))
                 /\ \A c \in Cpus : WF_irqVars(PollWork(c))
                 /\ WF_irqVars(CtlWork)

-----------------------------------------------------------------------------
(* Properties                                                              *)

IrqTypeOK ==
    /\ done \in [Sources -> 0 .. MaxDone]
    /\ dma \subseteq Sources
    /\ src \subseteq Sources /\ en \subseteq Sources /\ group \in BOOLEAN
    /\ isr \in {"idle", "ack", "prep", "mask rx", "mask tx", "schedule", "leave"}
    /\ sched \in BOOLEAN /\ missed \in BOOLEAN /\ runq \in BOOLEAN
    /\ poll \in [Cpus -> {"idle", "tx", "rx", "end", "unmask rx", "unmask tx"}]
    /\ clean \in [Cpus -> BOOLEAN]
    /\ status \in {"ENABLED", "RUNNING"}
    /\ ctl \in {"idle", "enable rx", "enable tx", "unmask rx", "unmask tx",
                "mask rx", "mask tx", "disable rx", "disable tx"}
    /\ dropped \subseteq Sources

\* The part of a poll that NAPI guarantees to be exclusive.
Polling(c) == poll[c] \in {"tx", "rx", "end"}

\* The rings and the buffer tables, which have no lock of their own on the
\* NAPI side, are only ever worked on by one CPU, also when a new poll starts
\* on one CPU while the last one is still enabling interrupts on another.
OnePoll == \A c, d \in Cpus : Polling(c) /\ Polling(d) => c = d

Resting ==
    /\ status = "RUNNING" /\ ctl = "idle"
    /\ isr = "idle" /\ ~sched
    /\ \A c \in Cpus : poll[c] = "idle"

\* When nobody is at work on a running channel both sources are enabled, also
\* after a stop and a start that overlapped an interrupt or a poll: the next
\* frame will raise the line.
SourcesArmed == Resting => en = Sources /\ group

\* No interrupt is lost but those that an ISR has acknowledged and found
\* disabled: whatever is completed and not collected when nobody is at work
\* has its event latched and enabled, so that the line is up.
NoLostInterrupt ==
    Resting => group /\ {s \in Sources : done[s] > 0} \subseteq (src \cap en) \cup dropped

\* The ISR processes what it acknowledges (pfe_hif_csr.c, comment on
\* pfe_hif_chnl_cfg_isr): an event is never taken out of INT_SRC by an ISR
\* that then schedules no poll.
NothingDropped == dropped = {}

\* A direction that has filled up is worked off while the channel runs,
\* unless its last event is one of those.
RingIsServed ==
    \A s \in Sources :
        (done[s] = MaxDone /\ status = "RUNNING")
            ~> (done[s] < MaxDone \/ s \in dropped \/ status # "RUNNING")

\* What NAPI and the driver rely on: the types, one poll at a time, and the
\* sources armed at rest.
NapiInv == IrqTypeOK /\ OnePoll /\ SourcesArmed
=============================================================================
