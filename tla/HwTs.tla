-------------------------------- MODULE HwTs --------------------------------
(***************************************************************************)
(* Time-stamps of sent frames (pfeng-hwts.c, and its callers in            *)
(* pfeng-netif.c and pfeng-hif.c).  A transmission gives its frame a       *)
(* reference number and puts a second reference to the skb into a fifo;    *)
(* the hardware reports the time-stamp with the number, and the receive    *)
(* poll puts the report into another fifo; a work item matches the two,    *)
(* and ages the frames whose report has not come.  Nothing is locked: each *)
(* fifo has one writer (transmissions of an interface hold the TX lock of  *)
(* its only TX channel) and one reader, the work.                          *)
(*                                                                         *)
(* Only frames that are to be stamped are modelled; their transmissions    *)
(* are told apart by a number the code does not have.  Time is what there  *)
(* was 5 ms ago.                                                           *)
(***************************************************************************)
EXTENDS Naturals, Sequences, FiniteSets

CONSTANTS
    Skbs,       \* socket buffers
    Nobody,     \* no skb in hand
    RefMod,     \* 0x0FFF + 1: reference numbers
    FifoLen,    \* 32: room of either fifo
    MaxTx,      \* bound: transmissions told apart
    Suspends    \* bound: suspends of the system

ASSUME HwTsAssumption ==
    /\ Nobody \notin Skbs
    /\ RefMod \in Nat \ {0} /\ FifoLen \in Nat \ {0}
    /\ MaxTx \in Nat /\ Suspends \in Nat

TsEntry(n, s, r) == [no |-> n, skb |-> s, ref |-> r]
Report(n, r) == [no |-> n, ref |-> r]
SeqSet(q) == {q[i] : i \in DOMAIN q}

VARIABLES
    on,         \* ts_work_on
    refNum,     \* ts_ref_num
    skbFifo,    \* ts_skb_fifo
    tsFifo,     \* ts_tx_fifo
    list,       \* ts_skb_list; its order only matters for equal numbers
    workQueued, \* ts_tx_work is queued
    work,       \* progress of pfeng_hwts_work
    life,       \* of the interface: up, suspended, or how far it is removed
    suspends,   \* suspends so far
    owner,      \* who has the first reference to the skb
    refs,       \* its reference count
    xmit,       \* progress of pfeng_netif_logif_xmit
    cur,        \* what it stores
    air,        \* reports the hardware will send
    rx,         \* progress of pfeng_hwts_get_tx_ts
    rep,        \* its report
    count,      \* ghost: transmissions so far
    old,        \* entries made 5 ms ago
    aged,       \* ghost: frames given up whose report may still come
    reused,     \* ghost: a number was given while it was in use
    lost,       \* ghost: references dropped with the memory that held them
    racing,     \* ghost: a report was under way when the work was cancelled
    touched     \* ghost: freed memory was used

ifVars == <<on, life, suspends>>
fifos == <<skbFifo, tsFifo, list>>
workVars == <<workQueued, work>>
hwtsVars == <<refNum, fifos, old, workVars>>
skbVars == <<owner, refs>>
xmitVars == <<xmit, cur, count>>
rxVars == <<air, rx, rep>>
numberVars == <<aged, reused>>
memVars == <<lost, racing, touched>>
tsGhosts == <<numberVars, memVars>>
tsVars == <<ifVars, hwtsVars, skbVars, xmitVars, rxVars, tsGhosts>>

NoEntry == TsEntry(0, Nobody, 0)
NoReport == Report(0, 0)

\* pfeng_hwts_init
TsInit ==
    /\ on = TRUE
    /\ refNum = 0
    /\ skbFifo = <<>> /\ tsFifo = <<>> /\ list = {}
    /\ workQueued = FALSE /\ work = "idle"
    /\ life = "up" /\ suspends = 0
    /\ owner = [s \in Skbs |-> "none"]
    /\ refs = [s \in Skbs |-> 0]
    /\ xmit = "idle" /\ cur = NoEntry /\ count = 0
    /\ air = {} /\ rx = "idle" /\ rep = NoReport
    /\ old = {} /\ aged = {}
    /\ reused = FALSE /\ lost = [s \in Skbs |-> 0]
    /\ racing = FALSE /\ touched = FALSE

Pending == SeqSet(skbFifo) \cup list
\* Entries that hold a reference to s.
Held(s, es) == Cardinality({e \in es : e.skb = s})
Put(es) == refs' = [s \in Skbs |-> refs[s] - Held(s, es)]

-----------------------------------------------------------------------------
(* The transmission, under the TX lock of the channel                      *)

\* A new skb, all of which are alike, or one that was refused.
Free == {s \in Skbs : owner[s] = "none" /\ refs[s] = 0
                       /\ \A e \in Pending : e.skb # s}

XmitStart(s) ==
    /\ xmit = "idle" /\ life = "up" /\ count < MaxTx
    /\ \/ /\ s \in Free /\ s = CHOOSE f \in Free : TRUE
          /\ refs' = [refs EXCEPT ![s] = 1]
       \/ owner[s] = "stack" /\ UNCHANGED refs
    /\ owner' = [owner EXCEPT ![s] = "driver"]
    /\ count' = count + 1
    /\ cur' = TsEntry(count', s, refNum)
    /\ xmit' = "store"
    /\ UNCHANGED <<hwtsVars, tsGhosts, ifVars, rxVars>>

InUse(r) == \/ \E e \in Pending : e.ref = r
            \/ \E p \in air \cup SeqSet(tsFifo) : p.ref = r
            \/ rx # "idle" /\ rep.ref = r

\* pfeng_hwts_store_tx_ref: the entry is visible to the work at once.  The
\* number is used up also when there is no room, and the frame goes untagged.
StorePut ==
    /\ xmit = "store"
    /\ refNum' = (refNum + 1) % RefMod
    /\ \/ /\ Len(skbFifo) < FifoLen
          /\ skbFifo' = Append(skbFifo, cur)
          /\ xmit' = "get"
          /\ reused' = (reused \/ InUse(cur.ref))
       \/ /\ Len(skbFifo) = FifoLen
          /\ xmit' = "map"
          /\ UNCHANGED <<skbFifo, reused>>
    /\ UNCHANGED <<ifVars, workVars, skbVars, rxVars, memVars, tsFifo, list,
                   cur, count, old, aged>>

\* Fault: the second reference is not taken.
StoreGetNone ==
    /\ xmit = "get" /\ xmit' = "schedule"
    /\ UNCHANGED <<hwtsVars, tsGhosts, ifVars, skbVars, rxVars, cur, count>>

StoreGet ==
    /\ xmit = "get" /\ xmit' = "schedule"
    /\ refs' = [refs EXCEPT ![cur.skb] = @ + 1]
    /\ UNCHANGED <<hwtsVars, tsGhosts, ifVars, rxVars, owner, cur, count>>

\* Fault: the work is left to the report.
StoreScheduleNone ==
    /\ xmit = "schedule" /\ xmit' = "tagged"
    /\ UNCHANGED <<hwtsVars, tsGhosts, ifVars, skbVars, rxVars, cur, count>>

StoreSchedule ==
    /\ xmit = "schedule" /\ xmit' = "tagged"
    /\ workQueued' = TRUE
    /\ UNCHANGED <<tsGhosts, ifVars, fifos, skbVars, rxVars, refNum, work, cur,
                   count, old>>

\* The frame is sent and, tagged, will be reported; or its mapping fails, and the
\* stack keeps the skb as it is (NETDEV_TX_BUSY).
XmitEnd ==
    /\ xmit \in {"map", "tagged"} /\ xmit' = "idle" /\ cur' = NoEntry
    /\ \/ /\ owner' = [owner EXCEPT ![cur.skb] = "ring"]
          /\ air' = air \cup (IF xmit = "tagged" THEN {Report(cur.no, cur.ref)} ELSE {})
       \/ owner' = [owner EXCEPT ![cur.skb] = "stack"] /\ UNCHANGED air
    /\ UNCHANGED <<hwtsVars, tsGhosts, ifVars, refs, count, rx, rep>>

\* The poll has the confirmation and consumes the skb, or the stack gives up
\* the one it has kept.
Consume(s) ==
    /\ owner[s] \in {"ring", "stack"}
    /\ owner' = [owner EXCEPT ![s] = "none"]
    /\ refs' = [refs EXCEPT ![s] = @ - 1]
    /\ UNCHANGED <<hwtsVars, tsGhosts, ifVars, xmitVars, rxVars>>

-----------------------------------------------------------------------------
(* The report, in the receive poll                                         *)

\* A report is lost, or refused because ts_work_on is off.
ReportLost ==
    /\ \E p \in air : air' = air \ {p} /\ aged' = aged \ {p.no}
    /\ UNCHANGED <<hwtsVars, ifVars, skbVars, xmitVars, memVars, rx, rep, reused>>

\* pfeng_hwts_get_tx_ts
GetTxTs ==
    /\ rx = "idle" /\ on /\ life # "suspended"
    /\ \E p \in air : air' = air \ {p} /\ rep' = p
    /\ rx' = "put"
    /\ racing' = (racing \/ life = "cancelled")
    /\ UNCHANGED <<hwtsVars, ifVars, skbVars, xmitVars, numberVars, lost, touched>>

\* Without room the stamp is dropped; the work is scheduled all the same.
GetTxTsPut ==
    /\ rx = "put" /\ rx' = "schedule"
    /\ IF life \in {"freed", "gone"} THEN touched' = TRUE /\ UNCHANGED tsFifo
       ELSE /\ tsFifo' = IF Len(tsFifo) < FifoLen THEN Append(tsFifo, rep) ELSE tsFifo
            /\ UNCHANGED touched
    /\ UNCHANGED <<ifVars, workVars, skbVars, xmitVars, numberVars, refNum,
                   skbFifo, list, air, rep, old, lost, racing>>

GetTxTsSchedule ==
    /\ rx = "schedule" /\ rx' = "idle" /\ rep' = NoReport
    /\ workQueued' = TRUE
    /\ touched' = (touched \/ life = "gone")
    /\ UNCHANGED <<ifVars, fifos, skbVars, xmitVars, numberVars, refNum, work,
                   air, old, lost, racing>>

-----------------------------------------------------------------------------
(* pfeng_hwts_work                                                         *)

WorkStart ==
    /\ workQueued /\ work = "idle"
    /\ workQueued' = FALSE /\ work' = "take"
    /\ touched' = (touched \/ life = "gone")
    /\ UNCHANGED <<ifVars, fifos, skbVars, xmitVars, rxVars, numberVars,
                   refNum, old, lost, racing>>

\* Frames that are being sent or whose report is on its way.
Outstanding == {p.no : p \in air \cup SeqSet(tsFifo) \cup {rep}} \cup {cur.no}

\* All new frames go to the list, but those whose number is there already.
Duplicate(e) == \E f \in list : f.ref = e.ref

WorkTake ==
    /\ work = "take" /\ skbFifo # <<>>
    /\ skbFifo' = Tail(skbFifo)
    /\ LET e == Head(skbFifo) IN
       \/ /\ ~Duplicate(e)
          /\ list' = list \cup {e}
          /\ UNCHANGED <<refs, aged>>
       \/ /\ Duplicate(e)
          /\ Put({e})
          /\ aged' = aged \cup ({e.no} \cap Outstanding)
          /\ UNCHANGED list
    /\ UNCHANGED <<ifVars, workVars, xmitVars, rxVars, memVars, refNum, tsFifo,
                   owner, reused>>
    /\ old' = old \cap Pending'

\* The header is pulled, the stack gets the stamp and the reference is dropped.
WorkMatch ==
    /\ work = "match" /\ tsFifo # <<>>
    /\ tsFifo' = Tail(tsFifo)
    /\ LET ts == Head(tsFifo)
           hits == {e \in list : e.ref = ts.ref}
       IN \/ \E e \in hits :
                 /\ list' = list \ {e}
                 /\ Put({e})
          \/ hits = {} /\ UNCHANGED <<list, refs>>
    /\ aged' = aged \ {Head(tsFifo).no}
    /\ UNCHANGED <<ifVars, workVars, xmitVars, rxVars, memVars, refNum,
                   skbFifo, owner, reused>>
    /\ old' = old \cap Pending'

\* A fifo has been worked off.  What comes into it now waits for the next run.
WorkOn ==
    /\ \/ work = "take" /\ skbFifo = <<>> /\ work' = "match"
       \/ work = "match" /\ tsFifo = <<>> /\ work' = "age"
    /\ UNCHANGED <<tsGhosts, ifVars, fifos, skbVars, xmitVars, rxVars, refNum,
                   workQueued, old>>

GiveUp(es) ==
    /\ work = "age" /\ work' = "idle"
    /\ list' = list \ es
    /\ Put(es)
    /\ aged' = aged \cup ({e.no : e \in es \cap old} \cap Outstanding)
    /\ UNCHANGED <<ifVars, xmitVars, rxVars, memVars, refNum, skbFifo, tsFifo,
                   workQueued, owner, reused>>
    /\ old' = old \cap Pending'

\* Fault: the arguments of time_after are the other way round.
WorkAgeYoung == GiveUp(list \ old)

WorkAge == GiveUp(list \cap old)

\* 5 ms go by.  A transmission, with its lock and bottom halves off, is faster.
TimePasses ==
    /\ xmit = "idle"
    /\ old # Pending
    /\ old' = Pending
    /\ UNCHANGED <<tsGhosts, ifVars, fifos, workVars, skbVars, xmitVars, rxVars,
                   refNum>>

-----------------------------------------------------------------------------
(* Suspend and resume, and the removal of the interface                    *)

Lose(es, more) == lost' = [s \in Skbs |-> lost[s] + Held(s, es) + more[s]]

\* pfeng_netif_logif_suspend, and pfeng_hif_remove after it, which forgets the
\* frames in the ring; the time-stamping is left as it is.
Suspend ==
    /\ life = "up" /\ suspends < Suspends /\ xmit = "idle" /\ rx = "idle"
    /\ life' = "suspended" /\ suspends' = suspends + 1
    /\ air' = {}
    /\ Lose({}, [s \in Skbs |-> IF owner[s] = "ring" THEN 1 ELSE 0])
    /\ owner' = [s \in Skbs |-> IF owner[s] = "ring" THEN "none" ELSE owner[s]]
    /\ UNCHANGED <<hwtsVars, xmitVars, numberVars, on, refs, rx, rep, racing,
                   touched>>

\* pfeng_hwts_init again, over what there is.  What was queued before the
\* suspend has been run long since.
Resume ==
    /\ life = "suspended" /\ life' = "up"
    /\ ~workQueued /\ work = "idle"
    /\ on' = TRUE
    /\ skbFifo' = <<>> /\ tsFifo' = <<>> /\ list' = {}
    /\ Lose(Pending, [s \in Skbs |-> 0])
    /\ old' = {}
    /\ UNCHANGED <<workVars, skbVars, xmitVars, rxVars, numberVars, suspends,
                   refNum, racing, touched>>

\* cancel_work_sync, once the interface is unregistered: nothing is sent any
\* more, but a channel that is shared goes on receiving.
ReleaseCancel ==
    /\ life = "up" /\ xmit = "idle" /\ work = "idle"
    /\ life' = "cancelled" /\ workQueued' = FALSE
    /\ racing' = (rx # "idle")
    /\ UNCHANGED <<fifos, skbVars, xmitVars, rxVars, numberVars, on, suspends,
                   refNum, work, old, lost, touched>>

ReleaseOff ==
    /\ life = "cancelled" /\ life' = "off"
    /\ on' = FALSE
    /\ UNCHANGED <<hwtsVars, tsGhosts, skbVars, xmitVars, rxVars, suspends>>

\* The fifos are freed; what is in them and in the list is forgotten.
ReleaseFree ==
    /\ life = "off" /\ life' = "freed"
    /\ skbFifo' = <<>> /\ tsFifo' = <<>> /\ list' = {}
    /\ Lose(Pending, [s \in Skbs |-> 0])
    /\ old' = {}
    /\ UNCHANGED <<workVars, skbVars, xmitVars, rxVars, numberVars, on,
                   suspends, refNum, racing, touched>>

\* pfeng_netif_detach_hifs, free_netdev
ReleaseNetdev ==
    /\ life = "freed" /\ life' = "gone"
    /\ touched' = (touched \/ work # "idle")
    /\ UNCHANGED <<hwtsVars, skbVars, xmitVars, rxVars, numberVars, on,
                   suspends, lost, racing>>

-----------------------------------------------------------------------------
TsXmit == StorePut \/ StoreGet \/ StoreSchedule \/ XmitEnd
Rx == GetTxTsPut \/ GetTxTsSchedule
TsWork == WorkStart \/ WorkTake \/ WorkMatch \/ WorkOn \/ WorkAge
Release == ReleaseOff \/ ReleaseFree \/ ReleaseNetdev

TsNext ==
    \/ TsXmit \/ \E s \in Skbs : XmitStart(s) \/ Consume(s)
    \/ ReportLost \/ GetTxTs \/ Rx
    \/ TsWork \/ TimePasses
    \/ Suspend \/ Resume \/ ReleaseCancel \/ Release

TsSpec == TsInit /\ [][TsNext]_tsVars

\* A transmission, a receive poll and a removal once begun come to their end, a
\* queued work is run.  Reports need not come and nobody has to send.
TsFairSpec == /\ TsSpec
              /\ WF_tsVars(TsXmit) /\ WF_tsVars(Rx)
              /\ WF_tsVars(TsWork) /\ WF_tsVars(Release)

-----------------------------------------------------------------------------
(* Properties                                                              *)

TsTypeOK ==
    /\ refNum \in 0 .. RefMod - 1 /\ count \in 0 .. MaxTx
    /\ Len(skbFifo) <= FifoLen /\ Len(tsFifo) <= FifoLen
    /\ Pending \subseteq [no : 1 .. MaxTx, skb : Skbs, ref : 0 .. RefMod - 1]
    /\ old \subseteq Pending
    /\ air \cup SeqSet(tsFifo) \subseteq [no : 1 .. MaxTx, ref : 0 .. RefMod - 1]
    /\ refs \in [Skbs -> Nat] /\ lost \in [Skbs -> Nat]

\* The count of an skb is what its owner and the entries that point to it hold,
\* and what was forgotten with the memory it was noted in: an entry is visible
\* before it has its reference.
TsCounted ==
    \A s \in Skbs :
        refs[s] + (IF xmit = "get" /\ cur.skb = s THEN 1 ELSE 0) =
            (IF owner[s] # "none" THEN 1 ELSE 0) + lost[s] + Held(s, Pending)

\* A transmission does not work on an skb that the work has freed, nor do
\* entries point to one, as long as no number is in use twice.
Alive ==
    ~reused => /\ \A e \in Pending : refs[e.skb] > 0
               /\ xmit # "idle" => refs[cur.skb] > 0

\* Only a report that is under way while the work is cancelled, or comes before
\* reports are refused, meets the fifos, the work item or the interface
\* freed (pfeng_hwts_release).
FreedUntouched == touched => racing

\* The reference counts of the frames (pfeng_hwts_store_tx_ref, pfeng_hwts_work)
\* and the memory of the fifos.
SkbsSafe == TsTypeOK /\ TsCounted /\ Alive /\ FreedUntouched

\* pfeng_hwts_work gives a frame its own time-stamp, unless a number was in use
\* twice; a stamp that meets no frame is that of one already given up, or of one
\* that came in after the work had looked for new frames.
Stamping == work = "match" /\ life' = life /\ Len(tsFifo') < Len(tsFifo)

OwnStamp(e, ts) == ts.no = e.no \/ reused
MeetsNone(ts) ==
    ts.no \in aged \/ reused \/ \E e \in SeqSet(skbFifo) : e.no = ts.no

StampsRight ==
    [][Stamping => IF list' = list THEN MeetsNone(Head(tsFifo))
                   ELSE \A e \in list \ list' : OwnStamp(e, Head(tsFifo))]_tsVars

\* pfeng_hwts_store_tx_ref and pfeng_hwts_get_tx_ts queue the work after they
\* have put something into a fifo, so that nothing stays there; what comes in
\* while the work runs is not forgotten.
WorkedOff == []<>(skbFifo = <<>> /\ tsFifo = <<>>)
=============================================================================
