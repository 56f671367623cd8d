------------------------------- MODULE RxPool -------------------------------
(***************************************************************************)
(* The receive buffers of a HIF channel (pfeng-bman.c).                    *)
(*                                                                         *)
(* A page makes two buffers.  A slot of rx_tbl holds a page and the half   *)
(* of it that belongs to the hardware.  When a frame arrives in that half, *)
(* the half goes to the network stack, and the page is recycled with its   *)
(* other half if nobody else holds a reference: it is put in the slot      *)
(* alloc_idx, between the slots of the hardware and the slots just read,   *)
(* and given to the hardware by a later refill.  A frame may take several  *)
(* buffers; pool->skb keeps what was gathered of it between two polls.     *)
(*                                                                         *)
(* The driver's side runs in NAPI context only.  It interleaves with the   *)
(* hardware, that fills the descriptors in order, and with the stack, that *)
(* drops its references whenever it likes.                                 *)
(***************************************************************************)
EXTENDS Naturals, Sequences, FiniteSets, Functions

CONSTANTS
    Depth,      \* pool->depth, PFE_CFG_HIF_RING_LENGTH, a power of two
    Thr,        \* PFENG_BMAN_REFILL_THR
    W,          \* the u32 indices count modulo W, a multiple of Depth
    MaxBufs,    \* the most buffers of a frame
    Pages,      \* pages of memory
    NoPage      \* page == NULL

ASSUME RxPoolAssumption ==
    /\ Depth \in Nat /\ Thr \in Nat \ {0} /\ MaxBufs \in Nat \ {0}
    /\ MaxBufs <= Thr /\ Thr + MaxBufs < Depth
    /\ W \in Nat \ {0} /\ W % Depth = 0
    /\ NoPage \notin Pages
    /\ IsFiniteSet(Pages)

VARIABLES
    tbl,        \* rx_tbl: the page of a slot and its half
    rd, wr,     \* rd_idx, wr_idx
    alloc,      \* alloc_idx
    bd,         \* the buffers in the RX ring, in order
    got,        \* what the hardware wrote into the first of them
    frag,       \* buffers the hardware has written of the current frame
    skb,        \* pool->skb: the buffers gathered
    pc,         \* receive_pkt: "off", "idle", "loop", "down"
    refs,       \* page_ref_count
    stack,      \* halves the network stack holds
    \* history
    failed,     \* a refill ran out of memory, and Thr buffers are still missing
    left,       \* pages a refill left behind alloc_idx, not supplied since
    headless    \* the first buffer of the current frame was dropped

drv == <<tbl, rd, wr, alloc, skb, pc, left, headless>>
vars == <<tbl, rd, wr, alloc, bd, got, frag, skb, pc, refs, stack,
          failed, left, headless>>

Slots == 0 .. Depth - 1
Empty == [page |-> NoPage, off |-> 0]
Buffers == [page : Pages, off : {0, 1}]
Parts == [first : BOOLEAN, last : BOOLEAN]

\* rx_tbl[idx & idx_mask]
Slot(idx) == idx % Depth

\* a - b of two u32
Diff(a, b) == (a + W - b) % W

\* pfeng_bman_rx_chnl_pool_unused
Unused == (Depth - 1 + W - Diff(wr, rd)) % W

Free == {p \in Pages : refs[p] = 0}

-----------------------------------------------------------------------------
Init ==
    /\ tbl = [s \in Slots |-> Empty]
    /\ rd = 0 /\ wr = 0 /\ alloc = 0
    /\ bd = <<>> /\ got = <<>> /\ frag = 0
    /\ skb = <<>>
    /\ pc = "off"
    /\ refs = [p \in Pages |-> 0]
    /\ stack = {}
    /\ failed = FALSE /\ left = {} /\ headless = FALSE

-----------------------------------------------------------------------------
(* Refill                                                                  *)

\* pfeng_hif_chnl_refill_rx_pool.  A slot that has a recycled page needs no
\* new one; the first allocation that fails ends the refill.
Refill(count) ==
    \E k \in 0 .. count :
        LET range == {Slot(wr + i) : i \in 0 .. k - 1}
            bare == {s \in range : tbl[s].page = NoPage}
        IN
        /\ k < count => tbl[Slot(wr + k)].page = NoPage
        /\ \E new \in Injection(bare, Free) :
            /\ tbl' = [s \in Slots |->
                        IF s \in bare THEN [page |-> new[s], off |-> 0]
                        ELSE tbl[s]]
            /\ refs' = [p \in Pages |->
                        IF p \in Range(new) THEN 1 ELSE refs[p]]
        /\ bd' = bd \o [i \in 1 .. k |-> tbl'[Slot(wr + i - 1)]]
        /\ wr' = (wr + k) % W
        /\ alloc' = wr'
        /\ failed' = (k < count \/ (failed /\ Diff(wr + k, rd) <= Depth - 1 - Thr))
        /\ left' = (left \cup {tbl[Slot(wr + i)].page :
                                    i \in k .. Diff(alloc, wr) - 1})
                    \ ({tbl[s].page : s \in range} \cup Free)

\* pfeng_hif_chnl_fill_rx_buffers: one buffer at a time until the ring is
\* full or there is no memory.
Start ==
    /\ pc = "off"
    /\ Refill(Depth - 1)
    /\ pc' = "idle"
    /\ UNCHANGED <<rd, got, frag, skb, stack, headless>>

-----------------------------------------------------------------------------
(* Receive                                                                 *)

\* Fault: one more buffer has to be missing.
RefillDueLate == Unused > Thr

RefillDue == Unused >= Thr

\* pfeng_hif_chnl_receive_pkt: the refill before the loop
ReceiveStart ==
    /\ pc = "idle"
    /\ IF RefillDue THEN Refill(Thr)
       ELSE UNCHANGED <<tbl, wr, alloc, bd, refs, failed, left>>
    /\ pc' = "loop"
    /\ UNCHANGED <<rd, got, frag, skb, stack, headless>>

\* Fault: the part of a frame that was gathered is forgotten.
ReceiveNoneForgets ==
    /\ pc = "loop" /\ got = <<>>
    /\ pc' = "idle"
    /\ skb' = <<>>
    /\ refs' = [p \in Pages |->
                    refs[p] - Cardinality({i \in 1 .. Len(skb) : skb[i].page = p})]
    /\ UNCHANGED <<tbl, rd, wr, alloc, bd, got, frag, stack, failed, left, headless>>

\* No descriptor is done: the part of a frame that was gathered stays.
ReceiveNone ==
    /\ pc = "loop" /\ got = <<>>
    /\ pc' = "idle"
    /\ UNCHANGED <<tbl, rd, wr, alloc, bd, got, frag, skb, refs, stack,
                   failed, left, headless>>

\* Fault: the reference count is not looked at.
ReusableAlways(p) == TRUE

\* pfeng_page_reusable
Reusable(p) == refs[p] = 1

\* Fault: the next page goes to the same slot.
RecycleInPlace(b) ==
    /\ tbl' = [tbl EXCEPT ![Slot(alloc)] = [page |-> b.page, off |-> 1 - b.off],
                          ![Slot(rd)] = Empty]
    /\ alloc' = alloc
    /\ refs' = [refs EXCEPT ![b.page] = @ + 1]

\* pfeng_put_rx_buff, pfeng_reuse_page: the other half of the page goes to
\* the slot alloc_idx.
Recycle(b) ==
    /\ tbl' = [tbl EXCEPT ![Slot(alloc)] = [page |-> b.page, off |-> 1 - b.off],
                          ![Slot(rd)] = Empty]
    /\ alloc' = (alloc + 1) % W
    /\ refs' = [refs EXCEPT ![b.page] = @ + 1]

\* Fault: the reference is dropped, although the buffer took it along.
GiveAwayAndDrop ==
    /\ tbl' = [tbl EXCEPT ![Slot(rd)] = Empty]
    /\ refs' = [refs EXCEPT ![tbl[Slot(rd)].page] = @ - 1]
    /\ UNCHANGED alloc

\* pfeng_put_rx_buff: the page is unmapped and the driver's reference goes
\* with the buffer.
GiveAway ==
    /\ tbl' = [tbl EXCEPT ![Slot(rd)] = Empty]
    /\ UNCHANGED <<alloc, refs>>

\* A descriptor is taken from the ring, pfe_hif_chnl_rx.
Dequeue ==
    /\ pc = "loop" /\ got # <<>>
    /\ bd' = Tail(bd)
    /\ got' = Tail(got)
    /\ rd' = (rd + 1) % W

\* pfeng_rx_map_buff_to_skb and pfeng_rx_add_buff_to_skb: a buffer becomes
\* the head of pool->skb, or a fragment of it.  The last buffer sends the
\* frame to the stack.  A page from the emergency reserve is not recycled.
ReceiveBuffer ==
    /\ Dequeue
    /\ LET b == tbl[Slot(rd)]
           whole == Append(skb, b)
       IN
        /\ \/ Reusable(b.page) /\ Recycle(b)
           \/ GiveAway
        /\ IF got[1].last
           THEN /\ stack' = stack \cup Range(whole)
                /\ skb' = <<>>
                /\ headless' = FALSE
                /\ pc' = "idle"
           ELSE /\ skb' = whole
                /\ UNCHANGED <<stack, headless, pc>>
    /\ UNCHANGED <<wr, frag, failed, left>>

\* pfeng_rx_map_buff_to_skb: no memory for the skb.  The buffer is dropped
\* and the receive loop of this poll ends.
ReceiveNoMemory ==
    /\ Dequeue
    /\ skb = <<>>
    /\ refs' = [refs EXCEPT ![tbl[Slot(rd)].page] = @ - 1]
    /\ tbl' = [tbl EXCEPT ![Slot(rd)] = Empty]
    /\ headless' = ~got[1].last
    /\ pc' = "idle"
    /\ UNCHANGED <<wr, alloc, frag, skb, stack, failed, left>>

\* pfeng_bman_pool_destroy, pfeng_bman_free_rx_buffers: NAPI and the channel
\* have been stopped.  pool->skb is not freed.
Destroy ==
    /\ pc = "idle"
    /\ refs' = [p \in Pages |->
                    refs[p] - Cardinality({s \in Slots : tbl[s].page = p})]
    /\ tbl' = [s \in Slots |-> Empty]
    /\ bd' = <<>> /\ got' = <<>> /\ frag' = 0
    /\ pc' = "down"
    /\ UNCHANGED <<rd, wr, alloc, skb, stack, failed, left, headless>>

-----------------------------------------------------------------------------
(* The hardware and the stack                                              *)

\* The DMA engine writes the next part of a frame into the next buffer.
HwReceive(last) ==
    /\ Len(got) < Len(bd)
    /\ frag + 1 = MaxBufs => last
    /\ got' = Append(got, [first |-> frag = 0, last |-> last])
    /\ frag' = IF last THEN 0 ELSE frag + 1
    /\ UNCHANGED <<drv, bd, refs, stack, failed>>

\* The stack is done with a buffer.
StackFree(h) ==
    /\ stack' = stack \ {h}
    /\ refs' = [refs EXCEPT ![h.page] = @ - 1]
    /\ UNCHANGED <<drv, bd, got, frag, failed>>

Next ==
    \/ Start
    \/ ReceiveStart
    \/ ReceiveNone
    \/ ReceiveBuffer
    \/ ReceiveNoMemory
    \/ Destroy
    \/ \E last \in BOOLEAN : HwReceive(last)
    \/ \E h \in stack : StackFree(h)

Spec == Init /\ [][Next]_vars

-----------------------------------------------------------------------------
TypeOK ==
    /\ tbl \in [Slots -> [page : Pages \cup {NoPage}, off : {0, 1}]]
    /\ rd \in 0 .. W - 1 /\ wr \in 0 .. W - 1 /\ alloc \in 0 .. W - 1
    /\ bd \in Seq(Buffers) /\ Len(bd) < Depth
    /\ got \in Seq(Parts) /\ Len(got) <= Len(bd)
    /\ frag \in 0 .. MaxBufs - 1
    /\ skb \in Seq(Buffers) /\ Len(skb) < MaxBufs
    /\ pc \in {"off", "idle", "loop", "down"}
    /\ refs \in [Pages -> 0 .. 3]
    /\ stack \subseteq Buffers
    /\ failed \in BOOLEAN /\ left \subseteq Pages /\ headless \in BOOLEAN

\* Halves the CPU's side holds: in the stack or in pool->skb
Held == stack \cup Range(skb)

\* The hardware never writes into a half of a page that the stack, or the
\* frame being gathered, still holds; no half is in the ring twice; and the
\* descriptors are the slots from rd_idx on, in the same order, so that what
\* is read from the descriptor is read from the right page.
RingIsOurs ==
    /\ pc # "down" => Len(bd) = Diff(wr, rd)
    /\ \A i \in 1 .. Len(bd) :
        /\ bd[i] = tbl[Slot(rd + i - 1)]
        /\ bd[i] \notin Held
        /\ refs[bd[i].page] > 0
        /\ \A j \in 1 .. i - 1 : bd[j].page # bd[i].page

References(p) ==
    Cardinality({s \in Slots : tbl[s].page = p})
        + Cardinality({h \in Held : h.page = p})

\* "drop reference since page has been recycled (@alloc_idx), or unmaped":
\* every reference is that of a slot, of the stack or of the frame being
\* gathered, and a page without any is free.
NothingLost == \A p \in Pages : refs[p] = References(p)

\* The exception: a refill that supplied fewer buffers than were missing has
\* put alloc_idx back over recycled pages, and the next page recycled
\* overwrites them.
LostIfLeftBehind ==
    \A p \in Pages : refs[p] = References(p) \/ (p \in left /\ refs[p] > References(p))

\* The buffer that opens an skb is the first one of a frame, and the first
\* buffer of a frame opens an skb, also when the frame was only half there at
\* the end of a poll; unless that first buffer was dropped for lack of memory.
WholeFrames ==
    [][rd' # rd => (got[1].first <=> skb = <<>> /\ ~headless)]_vars

\* "drop the frame and advance the pool consumer index to the next frame":
\* the buffer that opens an skb is the first one of a frame.
OpensAFrame == [][rd' # rd /\ skb = <<>> => got[1].first]_vars

\* The ring does not run dry, which would silence the interrupt that has it
\* refilled, unless a refill ran out of memory and has not been made up for.
DryIfNoMemory == pc = "idle" /\ bd = <<>> => failed

\* The types, and the ring of the hardware against the table and the stack.
PoolInv == TypeOK /\ RingIsOurs
=============================================================================
