# The PFE Linux driver: a formal model

This directory holds TLA+ modules, TLC configurations and TLAPS proofs that
model the NXP PFE Linux driver (`src/sw`): the packet forwarding engine of the
S32G, driven by one *master* instance and any number of *slave* instances that
run on other cores or in other virtual machines.

## 1. The system

### Components, state, operations, interaction

| Component | Source | State | Operations |
|---|---|---|---|
| IDEX RPC | `pfe_platform/src/pfe_idex.c` | sequence number, `req_list`, one header per request, response buffers | `pfe_idex_rpc`, `..._request_send`, `..._request_finalize`, `..._do_rx`, `..._do_tx_conf` |
| HIF ring | `pfe_hif_ring_linux.c` | descriptors, write-back descriptors, two indices; the DMA engine has a third | enqueue, dequeue, drain |
| HIF channel, interrupts, NAPI | `pfe_hif_chnl_linux.c`, `hw/s32g/pfe_hif_csr.c`, `linux-pfeng/pfeng-hif.c` | INT_SRC, INT_EN, group enable, NAPI state, channel status | ISR, poll, start, stop, suspend, resume |
| Transmit path | `linux-pfeng/pfeng-netif.c`, `pfeng-bman.c`, `pfeng-hif.c` | table of DMA mappings, `rd_idx`, `wr_idx`, state of the netdev queues, TX lock | xmit, TX confirmation, IHC TX worker |
| Time-stamps of sent frames | `pfeng-hwts.c` | two fifos (skbs, stamps), a list, the reference number, the work item | store at xmit, report in the poll, match and age in the work, init, release |
| TMU credit (LLTX) | `pfeng-netif.c` | `pkts`, `cap`, `PFENG_TMU_FULL` | `pfeng_tmu_can_tx`, `pfeng_tmu_status_check` |
| Interface database | `pfe_if_db.c`, `pfe_platform_master.c`, `pfe_phy_if_slave.c` | entries, the session lock, the iterator of each database | lock, unlock, add, remove, get_first, get_next |
| Receive buffers | `pfeng-bman.c` | page table of the RX ring, `rd_idx`, `wr_idx`, `alloc_idx` | refill, map to skb, recycle |
| RPC server | `pfe_platform_master.c` | the databases, the lock | one case per RPC code |
| Physical, logical interfaces | `pfe_phy_if.c`, `pfe_log_if.c`, `pfe_mac_db.c` | shadow of the classifier's tables | add, delete, rules |
| Routing table | `pfe_rtable.c` | entries with references and partners, the list, its cursor, hash chains shared with the firmware | add, delete, look up, list, ageing |
| Connections, routes | `sw/fci/src/fci_connections.c`, `fci_routes.c`, `fci_rt_db.c` | the routes, default time-outs, pointers to entries | register, deregister, update, list, set time-outs |
| L2 bridge | `pfe_l2br.c`, `pfe_l2br_table.c`, `fci_l2br_domains.c`, `fci_l2br.c` | domains, static entries, shared cursors, the VLAN table in class memory, the MAC table | register, update, remove, list, flush |
| FCI | `sw/fci`, `sw/xfci/libfci` | event clients, the owner of the configuration, four mutexes | register, unregister, lock, unlock, commands, events |
| PEs, firmware | `pfe_class.c`, `pfe_pe.c`, `elf.c` | memory of the PEs, its lock | load, read, write, stop |
| Suspend, resume, probe | `pfeng-drv.c`, `pfeng-slave-drv.c` | order of start-up | suspend, resume |

Frames flow down from the network stack through *xmit* into the ring of a
channel, and up from the NAPI poll into the stack; the interrupt handler only
schedules the poll.  A slave has no access to most registers: it asks the
master by an IDEX RPC, which is itself carried in frames of a HIF channel (the
IHC channel), put there by a worker and taken out by another one.  The master
runs RPCs in its work handler against the same objects its own threads use,
guarded by the lock of the interface database, which a client takes by an RPC.

### What is hard

* RPCs time out, are answered late, and their frames may be dropped at every
  full fifo: the matching of answers with requests.
* The DMA engine works on a ring while the driver does, with no lock; so do the
  two CPUs of a poll and of a transmission on the table of DMA mappings.
* The interrupt, the poll and the stop of a channel overlap.
* Queues are stopped and woken by different contexts: a lost wake-up stops the
  interface.
* Counters wrap and windows slide: the credit scheme.
* A client of the master may time out, or die, with the lock in its hands.
* Connections age in one thread while commands hold pointers to them in another.
* The firmware reads tables that the driver rewrites entry by entry.
* Memory runs out in the middle of a frame, and pages are shared with the stack.
* Commands of local processes and of slaves meet without a common lock; waits of
  processes are ended by signals.
* A frame is shared between its transmission, the hardware, and a work that may be
  done with it before any of them; suspend and removal cut across all.

`PROJECT.json` lists the hazards with the line each one bites at, each
with the properties that cover it.  Where a property names the hazard as an exception
(a look-up after its unlock, a stamp dropped as unknown, a starved queue), the note
says so: such a property shows that nothing else goes wrong, and that the case itself
happens is shown by one of the configurations listed in section 3, or can be read from
the module.  Others, without a property so far: a
frame left in the IHC fifo when its worker bails out (`pfeng-hif.c:879`); a late store
of `rd_idx` (`pfeng-hif.c:440`, shown by `TxPath_barrier.cfg`); a frame the stack
offers again with a changed skb (`pfeng-netif.c:543`); the unroll
of a frame that wraps, which indexes behind the table (`pfeng-bman.c:245`); the
session of the FCI that all its clients share (`fci_interfaces.c:265`);
a registration that fails because the lock is taken
(`pfeng-netif.c:989`); the loop at shut-down that never counts down
(`pfe_hif_chnl_linux.c:1713`).

## 2. Modules

| Module | What it is | Uses |
|---|---|---|
| `Idex` | the RPC layer between slave and master, over a lossy wire | |
| `BdFifo` | what a ring promises: a bounded FIFO through the hardware | |
| `HifRing` | the ring, one store a step; implements `BdFifo` | instance of `BdFifo` |
| `HifIrq` | interrupts, NAPI and channel start and stop | |
| `TxPath` | transmission, confirmation, stop and wake of queues | |
| `TmuCredit` | the credit of the lossless transmission | |
| `IfDb` | the interface database, its lock and its users | |
| `Conntrack` | routing table entries: references, ageing, the commands on connections and routes | |
| `RxPool` | the receive buffers: refill, recycling, frames of several buffers | |
| `L2Bridge` | bridge domains, the VLAN table the firmware reads, static entries | |
| `HwTs` | time-stamps of sent frames: references, matching, ageing, suspend and removal | |
| `FciCore` | event clients, ownership, mutexes and signals of the control interface | |
| `DriverProof` | theorems, for all values of the constants, about what the driver owes one channel | extends `HifRing`, `HifIrq`, `TmuCredit`, `HwTs` |
| `IdexProof`, `TxPathProof`, `IfDbProof`, `ConntrackProof`, `RxPoolProof`, `L2BridgeProof`, `FciCoreProof` | the same about one module each | extends the module |
| `MCIdex`, `MCHifRing`, `MCHifIrq`, `MCTxPath`, `MCTmuCredit`, `MCIfDb`, `MCConntrack`, `MCRxPool`, `MCL2Bridge`, `MCFciCore`, `MCHwTs` | instances for TLC | extends the module |

`HifIrq`, `TmuCredit` and `HwTs` are extended by one module together with `HifRing`; that is
why their specifications are named `IrqSpec`, `TmuSpec` and `TsSpec`, and so on.  They
share no variable and nothing is assumed of one by the proofs of another.

In every module an operator whose comment begins with "Fault:", or says what "the
mutant" does, is a faulty version of the one after it.  It is no part of the specification: it is what the
properties have been tried against, and each of them rejects the one that
`PROJECT.json` pairs it with.

### Idex

State: `reqSeqNum` (`req_seq_num`), `reqList` and `tail` (the linked list and
its order), `req` (the headers), `respBuf`, and for each thread its position in
`pfe_idex_request_send`.  One critical section under `req_list_lock` is one
step; taking the sequence number, polling the state and freeing are steps of
their own, because the code does them without the lock.  `GetById` returns the
set that `pfe_idex_request_get_by_id` may end up with, and so reproduces that
its loop variable keeps the last item when nothing matches.  `StartCall` reads the
counter and `BumpSeq` stores its successor, modulo `SeqNums`, so that two threads may
draw the same number, and an old request may still have it when it comes round.  The transport is
two FIFO channels that may lose a frame wherever a fifo below may be full.

### HifRing

One action per store that another party can observe: `EnqData`, `EnqEnable`,
`EnqAdvance` (`pfe_hif_ring_enqueue_buf_std`), `DeqClear`, `DeqRestore`,
`DeqAdvance` (`dequeue_plain_std`, `dequeue_buf_std`), `HwProcess` (the
engine).  `Drain*` is the shut-down loop.  The NULL checks that the build leaves
out, and the NOCPY ring, are not modelled.  `Checked` says whether the caller
asks `pfe_hif_chnl_can_accept_tx_num` first.

### HifIrq

INT_SRC latches whether or not INT_EN lets it through.  `IsrEnter` is the
masking of the group by `pfeng_hif_chnl_direct_isr`; `IsrAck` is
`pfe_hif_chnl_cfg_isr` (one step: an event of a source that is latched again
between the read and the acknowledge is collected by the poll that is being
scheduled); `IsrPrep` and `IsrSchedule` are `napi_schedule_prep` and
`__napi_schedule`.  The poll of the softirq is `PollStart` to `PollComplete`;
its tail, `PollUnmask*`, is not covered by NAPI any more and may run on one CPU
beside the next poll on another.  The model has no time-out interrupts: the ISR
only counts them.

### TxPath

`Xmit*` are the steps of `pfeng_netif_logif_xmit` under the TX lock, the error
paths among them; `Napi*` those of `pfeng_hif_chnl_tx_conf`, which takes no
lock; `Work*` those of `pfeng_tmu_status_check`; `Ihc*` those of
`pfeng_ihc_tx_work_handler`.  The ring is the FIFO that `HifRing` implements:
`posted` holds what the engine has yet to read, `sent` what it has finished and
the poll has not collected; `Full` is the enabled descriptor that
`pfe_hif_ring_enqueue_buf_std` refuses.  `mapped` says which slots of the table
hold a DMA mapping; `skbs` is `tx_tbl[].skb` where the skb still exists.  Whether
there is credit is a choice (`XmitCredit`, `WorkCredit`).  `rdSeen` is the value
of `rd_idx` other CPUs see: with `StoreBuffer` it may lag behind.
Left out: the refusal of a frame by a channel that is not running (nothing
changes), time-stamping (`HwTs`), checksums, statistics.

### TmuCredit

`CanTx` is `pfeng_tmu_can_tx`, split at its accesses to what others change:
`Enter` reads `pkts` and `cap`, `Take` spends a credit, `ReadConf` reads the count
of transmitted frames and adjusts `pkts`, `ReadFill` reads the fill level and
grants.  `Xmit*` is the rest of the transmission, with the order in which it sets
`PFENG_TMU_FULL`, stops the queue and queues the work; `Work*` is
`pfeng_tmu_status_check`, which takes no lock.  The differences of the counters are
taken modulo `U8` and the counters modulo `U32`, as the code's `uint8_t` and
`uint32_t` are.  The queue itself (`Arrive`, `ArriveExternal`, `Transmit`) is
hardware.  Three things may disturb the count: a dropped frame, a frame that
somebody else sends into the queue, and a link that comes up and wakes the queue
while the work is pending.  The ghosts say what excuses a property: `late`
(frames the last reading of the level did not see), `raced` (both threads were
in `pfeng_tmu_can_tx` since), `robbed` (the work cleared the flag before the queue
was stopped), and
`uncounted` (frames `pkts` leaves out: those under way when it was adjusted, and
those since that asked for a new credit).

The count of frames sent lags by one with each new credit, because the frame
that asks for it is not counted, and it is set to the count of transmitted
frames when it has fallen behind it, although frames are still on their way.
With a queue of 255, the largest the code accepts, the lag reaches 193 to 201;
`256 - lag` then lies in the window (63) and above `63 - 8`, looks like frames on
the way, and no credit is given ever again.  `StarvedForAReason` says that it takes that
many: there are three ways to starve, a disturbance, a queue too small for a window, and
`uncounted` frames that no longer fit beside the window, which a queue needs to be of
nearly the largest size for.  The run has a queue of that size; `TmuCredit_starved.cfg` is a
behaviour that starves with the same relations of the constants in small numbers.

### IfDb

Three kinds of users: driver threads of the master (`Host*`:
`pfe_platform_register_log_if`, `_unregister_log_if`, the lookups,
`_destroy_ifaces`), the FCI worker (`Fci*`), and threads of slaves, whose calls
travel as requests (`chan`) and are executed one after the other by
`pfe_platform_idex_rpc_cbk` (`RpcTake`, `RpcFinish`).  A slave's operation is
three calls, lock, work and unlock, and goes on whatever they return.  What runs
under the mutex of the database is one step; between two of these anybody may
run, and an entry that was found is remembered (`entry`) because the code keeps a
pointer to it.  The lookups of the platform (`pfe_platform_get_log_if_by_id`, `_by_name`,
3147, 3191; `_get_phy_if_by_id` at 3236 is the same code on the other database) read the
entry only after they have released the lock: `HostUnlock` takes them to "read" with the
entry in their hands, `HostRead` is the read, and by then the entry may be free.  They are
the only ones with such an entry.  The transport is what `Idex` provides, reduced to what matters
here: a call ends with the answer or a time-out, a request may be lost or
served late, and a late answer goes to nobody.

The session identifier is kept as it is: `NewSession` shifts a 32-bit counter by
four, the low values being the names of the slaves; `Unlock` overwrites it with
its shifted complement.  `reused` becomes true when an identifier comes round (to
0, which a lookup without lock goes on with, or to the one the FCI worker
keeps), 2^28 locks later; exclusion holds until then and the properties say so.
`holder`, `client`, `listed`, `lost` are ghosts.  A slave's session is that of its driver: what one
of its threads does under the session of another (`pfe_log_if_slave.c:112`) is
allowed, as in the code, and not told apart.

Left out: `pfe_if_db_get_single` (reads only), `pfe_if_db_drop_all` (nobody calls
it), a second addition of the same interface (nobody makes one), the
database of the physical interfaces (same code; filled before there are other
users), the worker that times the lock out (`PFE_CFG_IF_DB_WORKER` is off in
this build), and the short locks of the FCI's SPD and mirror commands, which take
the same session.

### Conntrack

An entry is memory with a count of references.  `Add`, `Del`, `GetFirst`, `GetNext`,
`GetChild`, `Free` and `DoTimeouts` are the functions of `pfe_rtable.c`, each one
step because each runs under the mutex of the table.  The commands of
`fci_connections.c` and `fci_routes.c` are sequences of such steps with `pc`
between them, where the ageing worker may run: `AddEntry`, `AddReply`, `Lookup`,
`DelEntry`, `DelRep`, `FreeRep`, `FreeEntry`, `Query`, `QueryCont`, `SetTimeouts` and
what follows it, `DropRoute`, `RemoveRoute`.  `CheckTable` and `SetTimeout` split
`pfe_rtable_entry_set_timeout` at its lock, because the look at the table comes
before it and the way to the unlock goes through the entry again.  `Callback` is
what tells the client, and frees the reference to the partner it took.
When the code would use freed memory `pc` becomes "undefined" and stays so.
A time-out may be anything, 0 and 1 included, as the FCI takes any 32-bit number: then a
tick between `AddEntry` and `AddReply` expires the first direction of a pair and frees the
second before it was added.  `Overtaken` is the command in that state.  With the refused
pair (`Conntrack_refused.cfg`) and a mutex left locked after a change of time-outs
these are the three ways to break that `StuckNeedsABadMoment` names.
An owner to whom an event could not be sent counts as told: the code ignores
the failure (`fci_connections.c:1103`).
Left out: the words of a physical entry and the order they are written in (the
chains are counted, so that a table can be full), statistics, listing routes, the
flags that an update changes.

### RxPool

`rd`, `wr`, `alloc` are the indices of the pool, `tbl` its table with the page and
the half of it that is in use; `bd` is what is in the ring and `got` what of it the
hardware has filled.  `ReceiveStart` is the refill at the beginning of
`pfeng_hif_chnl_receive_pkt`, `ReceiveBuffer` one turn of its loop with
`pfeng_put_rx_buff` and the recycling, `ReceiveNone` its way out when a frame is not
complete, `ReceiveNoMemory` a `build_skb` that fails.  An allocation of a page may
fail in every refill; the stack holds on to what it got and lets go in any order.
Left out: sizes, headers and the synchronisation of the DMA mappings.

### L2Bridge

`table` is the VLAN table in the memory of the classifiers, and `todo` the writes a
command has still to make: one write is one step (`WriteOne`), and `Found` is the
look-up of the firmware, which may run between any two.  `UpdateWrites`,
`AddWrites` and `DeleteWrites` are what `pfe_l2br_update_vlan_hash_entry`, `_add_` and
`_delete_` write, for a chain as they find it.  A registration is the steps of
`fci_l2br_domain_cmd`: `Register`, `Link` or `Undo`, `SetUcast`, `SetMcast`, one interface
after another, `Finalize`.  `statics` and `mac` are the static entries in the list
and in the hardware; a command to the MAC table may time out, and then it has
been carried out or not (`MacCommand`).  `down` says why the driver serves no more
commands: a search that never ends, a mutex left locked, a cursor that leads
nowhere.  Left out: the variant without the table in memory, used with older
firmware, learned addresses, statistics, the ageing time.

### HwTs

A transmission stores its frame in three steps, `StorePut`, `StoreGet`, `StoreSchedule`
(`pfeng_hwts_store_tx_ref`): the entry is visible to the work before the second
reference to the skb is taken.  `XmitEnd` is the rest of it, sent or refused; a
refused frame is offered again and then stored a second time.  `GetTxTs` and
`GetTxTsPut`, `GetTxTsSchedule` are `pfeng_hwts_get_tx_ts` in the receive poll, `Work*` is
`pfeng_hwts_work`.  `TimePasses` stands for 5 ms: it makes all entries old.  `Suspend`
and `Resume` run `pfeng_hwts_init` again without a release before; `Release*` is
`pfeng_hwts_release` and the `free_netdev` after it, while a channel that is shared goes on receiving.
`refs` is the count of an skb, `owner` who has the first reference.  The ghosts:
`reused` (a number was given out while something carried it), `aged` (frames given up
although their report may come), `lost` (references forgotten with the memory that
held them), `racing` (a report was under way while the work was cancelled), `touched` (freed
memory was used).  An entry is aged only when the work runs again, so that the last
frame whose report is lost stays in the list.
Left out: the ioctls and ethtool, which decide whether frames are stamped, frames
that are not, stamps of received frames, and the PFE header, which the work takes
off again.

### FciCore

`clients`, `some`, `owner` are the state of `fci_core_linux.c` and `fci_owner.c`; `core`,
`clientsLock`, `ownerMutex`, `rtable` say who holds each mutex.  A local process waits
for its turn (`TakeCore`), registers, unregisters or has itself found in the list
(`Register`, `Unregister`, `Find`), and goes through the ownership (`SessionCommand`,
`Authorized`, `GetFloating`, `Refuse`) to the command; a slave's command
(`SendRemote`) starts at the ownership and takes neither the lock of the core nor
that of the clients.  Two commands stand for all: one that makes a connection and
one that removes it, because connections remember the client.  `Expire` is the
ageing of the routing table.  Every `NXP_LOG_ERROR` is a report to the health monitor
(`oal_types_linux.h:203`) by the thread that logs it: `Report` stores an item, `Fetch` and `Broadcast`
announce what is stored to all clients, under the lock of the list, and the thread
then goes on where it was.  `hm` is how far it is with that; what it does otherwise, and the
mutexes it has, stay as they are.  It may happen outside of a request, while a command is
executed or ends, with the core, the ownership or the table locked; with the lock of the list
held the code only prints.  `Others` are threads that do nothing else; the run has none,
as the threads it has report when they are idle, too.  `InterruptedCore`,
`InterruptedReply` and `ReplyFails` always report.
A broadcast fails when sending to the last client in the list does (`BroadcastFails`: that
client has died, its receive buffer is full, there is no memory), and the loop of
`fci_hm_cb` ends with items left, which wait for the next error.  `Interrupted*` is a signal that ends a wait: for
the lock of the core, of the clients (where the lock of the core stays held),
for the reply, or in the midst of an event or an announcement.  The ghosts `maker` (whose event it
is), `leaked` and `cutShort` say what excuses a property.
Left out: start and end of the module, the dispatch to the other handlers, netlink
and the user's library.

## 3. Runs

All bounds are CONSTANTs.

| Run | What it shows | Bounds |
|---|---|---|
| `idex` | the request list never reaches freed memory; a payload of another RPC is never a success; a request of another number is completed only after a time-out; every RPC returns | 2 threads, one of them with 2 calls, 2 sequence numbers, 1 frame in flight each way |
| `ring` | the ring implements `BdFifo`; the engine never laps; room comes back and the drain at shut-down ends (`RingProgress`) | `N` = 4, 4 buffers, stop at any moment |
| `irq` | one poll at a time and sources armed at rest (`NapiInv`); no interrupt lost; a full direction is worked off | 2 CPUs, 1 completed frame per direction, budget 1, stops and starts |
| `tx` | the ring is never filled and what is in flight is mapped (`TableInv`); what is freed is confirmed; a stopped queue is woken unless the poll overtook `wr_idx` | 2 interfaces on a channel of 4, up to 2 buffers a frame |
| `tx_errors` | the TX lock is released on every path | 1 interface, 3 frames of the IHC worker, failing mappings, no credit, late stores |
| `tmu` | over-commitment is bounded; the queue starves for one of three reasons only (`CreditInv`); credit comes back | queue of 4, which is the largest for differences mod 5, counters mod 10, one frame on the way, one disturbance |
| `ifdb` | exclusion, life of entries and of the cursor (`PointersInv`, but for what a look-up reads after its unlock), complete listings, the lock of a slave is released | 1 thread of the master, 1 client, 1 slave with 1 thread, 2 interfaces, 3 values of the seed, one lost or late request |
| `conntrack` | no pointer outlives its entry, but in the registration of a pair the ageing overtakes, and nothing removed stays unfreed (`MemoryInv`); no connection ends untold or outlives its route; what is not used is aged out; the three ways to break are pinned down | 2 connections that share a reply direction, 3 entries of memory, 2 places in the table, 1 route, time-outs of 1 tick at first and of 2 once they are set |
| `rxpool` | the hardware never writes what somebody reads (`PoolInv`); no page is lost but where a refill falls short; frames are not mixed; the ring runs dry for lack of memory only | ring of 5, refill of 2, frames of up to 2 buffers, 4 pages |
| `l2br` | the firmware finds every domain between any two writes; hardware and list differ, and the mutex hangs, after a time-out only (`TimeoutsContained`); the cursors stay valid but for a flush | 3 VLANs on one of 3 hash slots, 2 collision slots, 1 interface, 1 static entry, 1 time-out |
| `hwts` | references are counted right and nothing freed is used but where a removal meets a report (`SkbsSafe`); frames get their own stamp, and a stamp without a frame was given up or not looked at yet; both fifos are worked off again and again | 2 skbs, 3 transmissions, 2 numbers, fifos of 1, 1 suspend |
| `fcicore` | commands run one at a time and by the owner; events reach the maker of a connection; stored items are announced unless sending failed; waits end unless one was interrupted with the lock of the core held | 2 processes, 2 sockets, 1 slave, 2 slots for clients, 1 connection, a storage of 2 items; 4 requests, or 3 and 1 report by any thread and 1 signal, death or failed reply |

In `l2br`, with a chain of two entries of the VLAN
table, the removal of the last clears the valid flag of the one before it, which is
in use (`pfe_l2br.c:640`); the slot is taken for free by the next registration, and the
entry moved there gets a collision pointer to itself, so that a search never ends.
`FirmwareFindsDomains` holds until `broken`, which records this removal and the
update of an inner entry (`pfe_l2br.c:441`); `L2Bridge_endless.cfg` shows what follows.

Further instances, with their configurations beside the others and run by hand:
`Idex_own`, `_seq`, `_invalid`, `_toobig` (a late answer completes the request of
another call; sequence numbers that collide, a failed request that stays, an
answer too long); `HifIrq_lost` (the handler acknowledges, and forgets, what a
stop has masked); `TxPath_shared`, `_barrier`, `_mapfail`, `_ihcunlock` (a
queue of a shared channel stays stopped; late stores; a frame that fails in its
middle; the IHC worker releases the lock of another);
`TmuCredit_starved`, `_drops` (the largest queue starves undisturbed; two drops
starve a small one); `Conntrack_refused` (a pair registered twice by
a client that listens: freed memory is used); `L2Bridge_endless` (see above); `RxPool_head`, `_lost` (the rest of a
frame is delivered as a frame; a recycled page is overwritten).  Each of these ends
with a counterexample, a behaviour of the code to be aware of.

Why the bounds are enough.  A ring of 4 has empty, partly full, full and
wrapped states, and a frame of 2 buffers wraps in its middle; what is proved of
the ring, its stop, its drain and its refinement of the FIFO holds for every length, and
what is proved of the transmit table for every length, frame and number of interfaces.  A late answer needs a call that gave up and one
that waits, and with two numbers for three calls they come round.  NAPI allows one poll, and the tail of another on a second CPU; that no
interrupt is lost is proved for any number of CPUs and any budget.
Two interfaces are enough for the lock, and for one to confirm while the other is
stopped.  A queue of 4 has a window of 1: credit is granted, spent, refused, and
both counters wrap several times in a behaviour; with differences modulo 5 it is as large
as the driver's can be, 255 with differences modulo 256.  The bound on over-commitment and the
reasons to starve are proved for all sizes.  In the database of interfaces every pair of kinds of users contends, a
removal may hit the current, the next or the last entry of a listing, and
three values of the seed let identifiers come round; exclusion, the life of entries and complete listings are proved for any
number of users and interfaces.
With two connections that share a direction, a pair may be refused in either
half, full tables included, and every step of a command meets an expiry of each
entry it points to; with a time-out of one tick, in its registration too.  A pool of 5 with refills of 2 is refilled short of, up to and beyond
what is missing, and a frame spans two polls; safety is proved for every length, threshold and number
of pages.  Chains of the VLAN table have
one, two and three entries, so that a head, an inner and a last one are updated
and removed.  Two processes and two slots are enough for a slot to change hands
while a connection refers to it, and four requests for a process to register, make a
connection and leave while another registers; three, with a report of any thread and a signal
or a failure, let every wait be interrupted in the midst of an event or an announcement, and what is interrupted
reports besides; the four properties are proved for any
number of each.  With two numbers and three
transmissions a number comes round to a frame or a report that still has it; fifos
of one entry fill; and two skbs are enough for a frame to be matched while another
is stored.  The runs of `RxPool` and `FciCore` use the
symmetry of pages, and of processes and sockets; they check no liveness.

`CHECK_DEADLOCK FALSE` is set everywhere: the models may stop when bounded
inputs are used up, and a driver with no traffic stands still.

### Fairness

`Idex`: a caller inside a call goes on (a kernel thread is scheduled, and its
wait loop has a time-out); nothing is assumed of the master or the wire.
`HifRing`: an enqueue that has begun ends, the engine works through the enabled
descriptors, the poll collects what is completed, the drain loop runs.
`HifIrq`: an interrupt that is raised is taken and its handler runs to its end,
the softirq runs what is on its list, a poll, a start or a stop under way continues
(they are straight-line code).  `TxPath`: a transmission that holds the lock runs on,
the engine and the poll do their work, work items run, stores become visible.
`TmuCredit`: a transmission or a work that has begun goes on, a queued work is run,
the hardware moves frames on.  `IfDb`: a thread of a slave goes on with an answer,
and with a time-out when none can come any more; the master serves requests.
`HwTs`: a transmission, a report in the poll, a removal that have begun go on, and a
queued work is run; neither reports nor senders are fair.
`Conntrack`: the table ticks, and a command under way goes on.  This is written as
weak fairness of `Beats` under `beat`, a ghost that changes with every tick and
with nothing else, and of `Moves` under `pc`; the conditions are those under which a
tick or a step of a command is possible, so that it says the same as weak
fairness of `DoTimeouts` and `FciStep`, and TLC evaluates it quickly.  `RxPool`,
`L2Bridge` and `FciCore` state no fairness: that the ring does not run dry, that a
search does not go round and that waits end are stated as invariants (`DryIfNoMemory`,
`down # "endless"`, `WaitsEnd`: who waits, waits for somebody who can go on).
Nowhere is a sender, a user or a lost frame assumed to be fair; in particular
nobody has to unlock the database but the code of a slave, so that a client of
the FCI may hold it for ever.

## 4. Proofs

| Theorem | Statement | Inductive invariant |
|---|---|---|
| `IdexProof!TypeCorrect` | types, for any threads, calls, ids | `TypeInv`: besides the types, a caller inside a call has issued one |
| `IdexProof!ListIsMemorySafe` | no freed request is in the list | `SafeInv`: the position of a caller tells where its request is: not yet linked, linked, unlinked, freed |
| `IdexProof!AnswersHaveTheRightKind` | what a successful call returns answers its RPC id | `KindInv`, on top of it |
| `IdexProof!MatchIsExact` | only after a time-out is an answer stored for a request of another number than it carries, whatever numbers are drawn twice | `MatchInv == PlaceInv /\ Exact`: until a call times out, all that is due to complete a request, frames in flight and completions not seen yet, is paired one to one with waiting callers of the same number |
| `DriverProof!RingShape` | the enabled descriptors lie between the read and the write position, the engine stands between | `Inv`, in distances from `read_idx`, so that the wrap disappears |
| `DriverProof!LifeShape`, `TypeCorrect`, `EngineNeverLaps` | types; the engine never takes a descriptor it has completed; with stop and drain at any moment | `LifeInv`: `Inv` until the stop, then the types and nobody half-way |
| `DriverProof!RingImplementsFifo` | every store is a step of `BdFifo` or none | `LifeInv`; the two sequences of `BdFifo` are the contents of two arcs of the ring, and one lemma says for each kind of store what it does to an arc |
| `DriverProof!IrqInvariant`, `NapiCorrect`, `InterruptsKept` | one poll at a time; sources armed at rest; a completed frame at rest has its interrupt pending | `IrqInv`: NAPI_STATE_SCHED has exactly one owner (`OneOwner`), a source of a running channel is enabled or somebody is on the way to enable it (`Enabling`), a completed frame is latched or somebody will look for it (`Noticed`) |
| `TxPathProof!LockIsReleased` | nobody leaves a transmission with the lock | `LockInv` |
| `TxPathProof!TableInStep`, `ReleasedIsConfirmed` | no enabled descriptor is overwritten, the ring and the table of mappings agree, a frame is freed when its last buffer is confirmed | `TxInv`: the table seen from `rd_idx` holds frame after frame (`Chain`), the last one perhaps in part (`Whole`); the ring holds its entries in order (`InStep`); the poll has gathered what it has unmapped (`Collected`) |
| `DriverProof!TmuTypeCorrect` | no credit and no distance exceeds the window, no 8-bit subtraction wraps | `TypeInv` |
| `DriverProof!OvercommitIsBounded` | what is in the queue, on the way or granted exceeds the size by what its level did not show, and one, unless transmission and work raced | `TmuInv`: without a race at most one thread is inside (`Alone`), the credit it has read is the credit there is (`Fresh`), and the bound (`Fits`) |
| `DriverProof!CreditIsKept` | a queue of any size starves only if disturbed, without a window, or when too many frames have gone uncounted | `TypeInv /\ CountInv`: until one of these, at most one thread is inside and what it has read is current (`Control`), and the count of frames sent is ahead of the transmitted ones by a `d` of at most the frames under way, and of at least those less the ones that go uncounted, and `d` and the credit fit into the window (`Counts`) |
| `IfDbProof!ExclusiveAccess` | nobody but the holder of the lock changes the list, a listing or the lock, until an identifier is reused | `IInv`: the recorded holder is who knows the session (`HolderLocked`), no driver thread or FCI session has a slave's name (`NotNamed`), and an identifier other than 0 belongs to the holder and to nobody else (`Apart`) |
| `IfDbProof!PointersValid`, `ListingIsComplete` | entries in use are not freed, but for what a look-up reads after its unlock, the cursor is in the list; a listing returns every interface once | `FullInv`: `IInv`, and until an identifier is reused who works with an entry holds the lock (`Owned`) and the entry is in the list (`EntriesLive`); what a listing has returned is what lies before the cursor (`ListInv`) |
| `ConntrackProof!TableInvariant`, `MemoryIsSafe`, `StopsAreKnown`, `RemovalsAreTold`, `RoutesOutlive` | no pointer to freed memory, but in a registration that was overtaken, and nothing removed left unfreed; the worker breaks in the three known ways only; no connection ends untold or outlives its route | `IInv`: the table (`TableInv`: partners point to each other, references are exact, the list holds each entry of the table once and the cursor is in it, messages are owed for entries that are there), what command is at each place and which pointers it has (`Stages`, `Pointers`), entries before they are in the table (`Registering`), the connections of a route that is being dropped lie ahead of the cursor (`Dropping`), the mutex (`Locks`) |
| `DriverProof!TsInvariant`, `SkbsAreSafe`, `StampsAreRight` | references to skbs are exact and no freed one is used; what a removal frees is used only if a report met it; a frame gets its own stamp | `TsInv`: what may go on in each life of the interface (`Lives`), a transmission is in one place (`Numbers`), its skb is with the driver (`Driven`), reports are told apart and belong to entries of the same number (`Reports`), the counts (`TsCounted`), and until a reference number is used twice the numbers tell entries apart and each report has its entry or that was given up (`Matching`) |
| `L2BridgeProof!BridgeInvariant`, `FirmwareFindsEveryDomain` | between any two writes the firmware finds each domain once, with its list, and nothing else, until a chain is cut | `IInv`, of it `TableInv`: the slots of a chain rise, so that it ends; apart from one orphan, not linked yet or no longer, the table holds one entry for each domain; and `todo` is what takes it to the next such table (`Adding`, `Removing`, `Updating`).  `CmdInv`: the VLAN a command works on is in the list or not, as its place says |
| `L2BridgeProof!TimeoutsAreContained`, `CursorsStayLive` | list and MAC table differ in keys whose command timed out only, and nobody hangs without a time-out; cursors stay in their list but for a flush | `IInv`, of it `CmdInv` and `StaticInv` |
| `RxPoolProof!RingIsSafe`, `ReferencesKept`, `DryForMemoryOnly`, `FramesAreWhole` | the hardware never writes what somebody reads; references are lost in a short refill only; the ring runs dry for lack of memory only; frames are cut where they begin | `RxInv`: the table seen from `rd_idx` is the hardware's window and the recycled pages behind it (`Window`), what lies further on was left behind (`Behind`), no page is in two slots and no half is with two holders (`Apart`, `Once`), the counts of references are exact (`Counted`), and enough slots stay with the hardware (`Stocked`) |
| `FciCoreProof!FciInvariant`, `CommandsExclusive`, `EventsReachMaker`, `ItemsAreAnnounced`, `WaitsDoEnd` | one command at a time, by the owner; events go to the maker; stored items are announced; no circle of waits | `IInv`: which request each kind of thread may have (`Roles`, `Senders`), the holder of each mutex is at a place that has it (`CoreKept`, `Holders`), who executes is the owner (`Owning`), a connection knows the slot of its maker (`References`, `Known`) |

Why the strengthening is needed: the properties say nothing of a half-done
operation.  In the ring, a fast completion may move `read_idx` past
`write_idx` before the latter is advanced, and only the distances `Taken`,
`Restored`, `Given` tell this from an empty ring.  A lost interrupt shows at rest, and
whether it will be lost is decided earlier, by the order in which a poll releases NAPI
and enables the sources.  A frame is freed at its last buffer, and that its first ones
have been unmapped by then is a fact about what the poll gathered before.  For the
credit, a thread that
has read it and not yet spent it would break the bound if the other could spend
it meanwhile; and that the count does not run away is a fact about all frames since
it was last set.  That nothing of a connection is freed under a command is a fact about
who holds the references, and that all connections of a route are found is one about
the cursor, which the ageing moves meanwhile.  A stamp goes to the right frame because
its number is with one frame only, and this depends on all places where a number may
be.  A VLAN is found between two writes because of what the writes still to
come will do: the table alone does not say that a slot without a
predecessor is being linked.  In the database, that a command which does not hold the lock has no
effect is a fact about identifiers nobody else has, and a thread keeps its
identifier in a variable of its own from lock to unlock.  That local commands and those of
slaves do not meet has nothing to do with a lock: it follows from the owner, which
changes under its mutex only while no command runs.

Assumptions.  The theorems assume what their modules assume of the constants, and
TLC evaluates for the runs: `IdexAssumption`, `RingAssumption` (`N` at least 2),
`IrqAssumption` (a budget and a ring of at least one), `TxAssumption` (the longest frame
and the slot kept free fit into the ring), `CreditAssumption`, `IfDbAssumption` (identifiers
are multiples of 16 above the names of slaves), `RxPoolAssumption` (the width of the
indices is any multiple of the depth, a frame is no longer than the threshold),
`ConntrackAssumption` (the entries are finite in number; time-outs are any numbers),
`HwTsAssumption`, `TableAssumption` (of `L2Bridge`: VLAN 0 is the fallback domain, marks are
no names), `FciAssumption`.  Four results have a hypothesis of their own, because they are false
without it:

* `Checked`, the ring: the caller asks `pfe_hif_chnl_can_accept_tx_num` first, as the
  driver does.
* `Undisturbed`, the table of mappings: no mapping of a frame fails in its middle and the IHC
  worker does not send on the channel.  In the first case buffers in flight lose their
  mapping (`TxPath_mapfail.cfg`); the worker does not ask for room, and soon overwrites an
  enabled descriptor.  The lock is released without this hypothesis.
* `Hash(Default) # Hash(Fallback)`, the VLAN table: the default domain, whose VLAN is a parameter
  (`l2br_vlan_id`), has another head than VLAN 0.  With a multiple of 64 the fallback domain
  never gets into the table, because its first update is no addition.
* `Several`, complete listings: there is more than one interface, since a search for the only
  one cannot be told from a search for all.

They are about `Spec` (`IrqSpec`, `TmuSpec`, `TsSpec`), without fairness, and for the ring `LifeSpec`,
with stop and drain.

Every invariant and every action property that a run checks is stated by a theorem (those
about the table of `TxPath` under the hypothesis above).  Loops of the code over lists (the ageing of all entries, a search along
a chain, the removal of several static entries) are recursive functions; the
proofs take what they need of them from facts that each turn keeps, by
descent to the least turn that would not.

Only model-checked: all liveness (`EveryCallReturns`, `RingProgress`, `RingIsServed`, `QueueWakes`,
`CreditComesBack`, `SlaveLockReleased`, `AgedOut`, `WorkedOff`), which is out of the prover's reach.

## 5. Plan

Done: RPC layer, ring, interrupts, transmit path, credit, database lock, routing
table with connections and routes, receive buffers, bridge, time-stamps, control
interface.
Next, most important first:

1. Compositions: `IfDb` over `Idex`, `TxPath` with `HifRing` and `HifIrq`.
2. The hash chains of the routing table against the look-up of the firmware, as
   `L2Bridge` has it for VLANs.
3. `blalloc`, `fifo`, the lock of the PEs, suspend and resume.

Not modelled, and why: register programming of the hardware blocks (its
reference is a hardware manual that is not in the repository), the command line
tool (a parser and a printer over one socket call), ELF parsing, device tree,
ethtool, debugfs and PHY glue, and the NOCPY variant, which the build leaves
out.
