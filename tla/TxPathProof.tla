---------------------------- MODULE TxPathProof ----------------------------
(***************************************************************************)
(* The lock of a transmit channel is released on every path; and while     *)
(* every buffer can be mapped and nobody puts frames into the ring without *)
(* asking for room, the table of the mappings and the ring stay in step:   *)
(* what the poll releases is what the hardware has confirmed, for every    *)
(* length of the ring, every number of buffers a frame may have and every  *)
(* number of interfaces.                                                   *)
(***************************************************************************)
EXTENDS TxPath, Integers, SequenceTheorems, NaturalsInduction, WellFoundedInduction, TLAPS

\* What the second result is about: the interfaces' buffers can be mapped, and
\* the worker of the inter-driver communication does not use the channel.
Undisturbed == MapFails \cap Netifs = {} /\ IhcFrames = 0

-----------------------------------------------------------------------------
(* Walking around the table                                                *)

Fwd(a, k) == IF a + k < D THEN a + k ELSE a + k - D
Dist(a, b) == IF a <= b THEN b - a ELSE b - a + D

LEMMA Sizes == D \in Nat /\ D > 2 /\ MaxBds \in Nat /\ MaxBds > 0 /\ MaxBds + 1 < D
  BY TxAssumption

LEMMA Masked ==
    ASSUME NEW a \in Slots, NEW k \in 0 .. D
    PROVE  (a + k) % D = Fwd(a, k)
  <1>1. CASE a + k < D
    <2>1. (a + k) % D = a + k
      BY <1>1, Sizes DEF Slots
    <2> QED BY <1>1, <2>1 DEF Fwd
  <1>2. CASE ~(a + k < D)
    <2>1. (a + k) % D = a + k - D
      BY <1>2, Sizes DEF Slots
    <2> QED BY <1>2, <2>1 DEF Fwd
  <1> QED BY <1>1, <1>2

LEMMA Steps ==
    ASSUME NEW a \in Slots, NEW b \in Slots
    PROVE  /\ Dist(a, b) \in 0 .. D - 1
           /\ Dist(a, a) = 0
           /\ Fwd(a, 0) = a
           /\ Fwd(a, Dist(a, b)) = b
           /\ \A k \in 0 .. D : Fwd(a, k) \in Slots
           /\ \A k \in 0 .. D - 1 : Dist(a, Fwd(a, k)) = k
           /\ Dist(a, b) + 1 < D => Dist(a, Fwd(b, 1)) = Dist(a, b) + 1
           /\ \A k \in 0 .. D - 1 : k <= Dist(a, b) => Dist(Fwd(a, k), b) = Dist(a, b) - k
           /\ \A k \in 0 .. D - 1 : Dist(a, b) + k < D => Dist(a, Fwd(b, k)) = Dist(a, b) + k
  BY Sizes DEF Slots, Fwd, Dist

LEMMA TwoSteps ==
    ASSUME NEW a \in Slots, NEW k \in 0 .. D, NEW m \in 0 .. D, k + m <= D
    PROVE  Fwd(Fwd(a, k), m) = Fwd(a, k + m)
  BY Sizes DEF Slots, Fwd

LEMMA Distinct ==
    ASSUME NEW a \in Slots, NEW k \in 0 .. D - 1, NEW m \in 0 .. D - 1, Fwd(a, k) = Fwd(a, m)
    PROVE  k = m
  BY Sizes DEF Slots, Fwd

\* The room that is computed from the two indices.
LEMMA UnusedIs ==
    ASSUME NEW w \in Slots, NEW r \in Slots
    PROVE  Unused(w, r) = D - 1 - Dist(r, w)
  BY Sizes DEF Slots, Unused, Dist

-----------------------------------------------------------------------------
(* The invariant                                                           *)

XmitValues == {"idle", "check", "no room", "recheck", "credit", "map", "stop",
               "schedule", "update"}
NapiValues == {"off", "conf", "free", "room", "look", "wake", "end"}
Buffers == [of : Frames, slot : Slots, last : BOOLEAN]

Types ==
    /\ TypeOK
    /\ posted \in Seq(Buffers) /\ sent \in Seq(Buffers)
    /\ xmit \in [Netifs -> XmitValues] /\ napi \in NapiValues
    /\ serial \in [Senders -> Nat] /\ \A n \in Netifs : serial[n] < Serials
    /\ napi = "free" => budget > 0
    /\ ihc = "idle"

\* The table from rd_idx on, and how many slots of it are used.
T == [o \in Slots |-> skbs[Fwd(rd, o)]]
Used == Dist(rd, Fwd(wr, nmap))

\* What is in the ring: first what has been sent.
RingLen == Len(sent) + Len(posted)
Ring(k) == IF k <= Len(sent) THEN sent[k] ELSE posted[k - Len(sent)]

\* The used slots before those of the first buffer in the ring.
Ahead == Used - RingLen

\* Frames follow each other in a table: one begins at its start, and where
\* one ends.
IsStart(t, o) == t[o] # NoFrame

Chain(t, n) ==
    /\ n > 0 => IsStart(t, 0)
    /\ \A o, i \in 0 .. n - 1 :
        IsStart(t, o) /\ o < i /\ i < o + t[o].bds => ~IsStart(t, i)
    /\ \A o \in 0 .. n - 1 :
        IsStart(t, o) /\ o + t[o].bds < n => IsStart(t, o + t[o].bds)

\* They are whole, but for the p first buffers of the last one.
Whole(t, n, p) ==
    \A o \in 0 .. n - 1 :
        IsStart(t, o) => o + t[o].bds <= n \/ (p > 0 /\ o = n - p)

\* The buffer b belongs to the frame that covers slot o.
Belongs(t, o, b) ==
    \E s \in 0 .. o :
        /\ t[s] = b.of
        /\ o < s + b.of.bds
        /\ b.last <=> o + 1 = s + b.of.bds

\* The interface that puts a frame into the ring holds the lock.
OneInside ==
    /\ lock \in Netifs \cup {NoFrame}
    /\ \A n \in Netifs : xmit[n] # "idle" <=> lock = n
    /\ lock = NoFrame => nmap = 0

Part == IF lock \in Netifs /\ xmit[lock] = "map" THEN nmap ELSE 0

\* It has counted its buffers.
Counted ==
    \A n \in Netifs : lock = n =>
        /\ frame[n] \in Frames
        /\ xmit[n] \notin {"map", "update"} => nmap = 0
        /\ xmit[n] = "update" => nmap = frame[n].bds
        /\ xmit[n] = "map" => /\ nmap < frame[n].bds /\ nmap <= Used
                              /\ nmap > 0 => T[Used - nmap] = frame[n]

\* The buffers it has still to put, once it has asked for room ...
ToPut == IF lock \in Netifs /\ xmit[lock] \in {"credit", "map"} THEN frame[lock].bds - nmap ELSE 0

\* ... have room, as far as rd_idx has been seen to go.
Room == Used + Dist(rdSeen, rd) + ToPut < D

InStep ==
    /\ RingLen <= Used
    /\ \A k \in 1 .. RingLen :
        /\ Ring(k).slot = Fwd(rd, Ahead + k - 1)
        /\ Belongs(T, Ahead + k - 1, Ring(k))
    /\ \A o \in 0 .. Used - 1 : Fwd(rd, o) \in mapped

\* Only the frame that is being released, or a part of the first one, is no
\* longer in the ring.
Collected ==
    IF napi = "free" THEN Used > 0 /\ conf = T[0] /\ Ahead = T[0].bds
    ELSE Used > 0 => Ahead < T[0].bds

TxInv ==
    /\ Types /\ OneInside /\ Counted /\ Room
    /\ Chain(T, Used) /\ Whole(T, Used, Part) /\ InStep /\ Collected

-----------------------------------------------------------------------------
(* Frames in a table                                                       *)

Tables == [Slots -> Frames \cup {NoFrame}]

LEMMA FrameIs ==
    ASSUME NEW f \in Frames
    PROVE  f # NoFrame /\ f.bds \in 1 .. MaxBds /\ f.bds \in Nat /\ f.bds > 0 /\ f.bds < D
  <1>1. f.bds \in 1 .. MaxBds
    BY DEF Frames
  <1>2. f # NoFrame
    BY TxAssumption
  <1> QED BY <1>1, <1>2, Sizes

LEMMA StartIs ==
    ASSUME NEW t \in Tables, NEW o \in Slots, IsStart(t, o)
    PROVE  t[o] \in Frames /\ t[o].bds \in Nat /\ t[o].bds > 0 /\ t[o].bds < D
  BY FrameIs DEF Tables, IsStart

\* Without its first frame the table begins with the next one.
LEMMA WithoutFirst ==
    ASSUME NEW t \in Tables, NEW u \in Tables, NEW n \in 1 .. D - 1, NEW p \in Nat,
           Chain(t, n), Whole(t, n, p), t[0].bds <= n,
           \A o \in 0 .. n - t[0].bds - 1 : u[o] = t[o + t[0].bds]
    PROVE  Chain(u, n - t[0].bds) /\ Whole(u, n - t[0].bds, p)
  <1> DEFINE b == t[0].bds
  <1>0. 0 \in Slots /\ IsStart(t, 0) /\ n \in Nat /\ n < D /\ D \in Nat
    BY Sizes DEF Slots, Chain
  <1>1. b \in Nat /\ b > 0
    BY <1>0, StartIs
  <1>2. \A o \in 0 .. n - b - 1 : o + b \in 0 .. n - 1 /\ u[o] = t[o + b]
    BY <1>0, <1>1
  <1> HIDE DEF b
  <1>3. ASSUME n - b > 0 PROVE IsStart(u, 0)
    <2>1. IsStart(t, b)
      BY <1>0, <1>1, <1>3 DEF Chain, b
    <2> QED BY <1>0, <1>1, <1>2, <1>3, <2>1 DEF IsStart
  <1>4. ASSUME NEW o \in 0 .. n - b - 1, NEW i \in 0 .. n - b - 1,
               IsStart(u, o), o < i, i < o + u[o].bds
        PROVE  ~IsStart(u, i)
    <2>1. u[o] = t[o + b] /\ u[i] = t[i + b] /\ o + b \in 0 .. n - 1 /\ i + b \in 0 .. n - 1
      BY <1>2
    <2>2. IsStart(t, o + b)
      BY <1>4, <2>1 DEF IsStart
    <2>3. t[o + b].bds \in Nat
      BY <1>0, <2>1, <2>2, StartIs DEF Slots
    <2>4. o + b < i + b /\ i + b < (o + b) + t[o + b].bds
      BY <1>1, <1>4, <2>1, <2>3
    <2>5. ~IsStart(t, i + b)
      BY <2>1, <2>2, <2>4 DEF Chain
    <2> QED BY <2>1, <2>5 DEF IsStart
  <1>5. ASSUME NEW o \in 0 .. n - b - 1, IsStart(u, o), o + u[o].bds < n - b
        PROVE  IsStart(u, o + u[o].bds)
    <2>1. u[o] = t[o + b] /\ o + b \in 0 .. n - 1
      BY <1>2
    <2>2. IsStart(t, o + b)
      BY <1>5, <2>1 DEF IsStart
    <2> DEFINE c == t[o + b].bds
    <2>3. c \in Nat
      BY <1>0, <2>1, <2>2, StartIs DEF Slots
    <2> HIDE DEF c
    <2>4. (o + b) + c < n
      BY <1>1, <1>0, <1>5, <2>1, <2>3 DEF c
    <2>5. IsStart(t, (o + b) + c)
      BY <2>1, <2>2, <2>4 DEF Chain, c
    <2>6. o + c \in 0 .. n - b - 1 /\ (o + c) + b = (o + b) + c
      BY <1>0, <1>1, <2>3, <2>4
    <2>7. u[o + c] = t[(o + b) + c]
      BY <1>2, <2>6
    <2>8. u[o].bds = c
      BY <2>1 DEF c
    <2> QED BY <2>5, <2>7, <2>8 DEF IsStart
  <1>6. ASSUME NEW o \in 0 .. n - b - 1, IsStart(u, o)
        PROVE  o + u[o].bds <= n - b \/ (p > 0 /\ o = n - b - p)
    <2>1. u[o] = t[o + b] /\ o + b \in 0 .. n - 1
      BY <1>2
    <2>2. IsStart(t, o + b)
      BY <1>6, <2>1 DEF IsStart
    <2>3. t[o + b].bds \in Nat
      BY <1>0, <2>1, <2>2, StartIs DEF Slots
    <2>4. (o + b) + t[o + b].bds <= n \/ (p > 0 /\ o + b = n - p)
      BY <2>1, <2>2 DEF Whole
    <2> QED BY <1>0, <1>1, <2>1, <2>3, <2>4
  <1>7. Chain(u, n - b)
    BY <1>3, <1>4, <1>5 DEF Chain
  <1>8. Whole(u, n - b, p)
    BY <1>6 DEF Whole
  <1> QED BY <1>7, <1>8 DEF b

\* A table of whole frames and the first buffer of another one.
LEMMA FrameBegun ==
    ASSUME NEW t \in Tables, NEW u \in Tables, NEW n \in 0 .. D - 2,
           Chain(t, n), Whole(t, n, 0), NEW f \in Frames, u[n] = f,
           \A o \in 0 .. n - 1 : u[o] = t[o]
    PROVE  Chain(u, n + 1) /\ Whole(u, n + 1, IF f.bds = 1 THEN 0 ELSE 1)
  <1>0. n \in Nat /\ n + 1 < D /\ D \in Nat
    BY Sizes
  <1>1. IsStart(u, n) /\ f.bds \in Nat /\ f.bds > 0
    BY FrameIs DEF IsStart
  <1>2. \A o \in 0 .. n - 1 :
          /\ IsStart(u, o) <=> IsStart(t, o)
          /\ IsStart(t, o) => t[o].bds \in Nat /\ o + t[o].bds <= n /\ u[o].bds = t[o].bds
    <2> SUFFICES ASSUME NEW o \in 0 .. n - 1
                 PROVE  /\ IsStart(u, o) <=> IsStart(t, o)
                        /\ IsStart(t, o) => /\ t[o].bds \in Nat /\ o + t[o].bds <= n
                                            /\ u[o].bds = t[o].bds
      OBVIOUS
    <2>1. u[o] = t[o]
      OBVIOUS
    <2>2. IsStart(u, o) <=> IsStart(t, o)
      BY <2>1 DEF IsStart
    <2>3. ASSUME IsStart(t, o) PROVE t[o].bds \in Nat /\ o + t[o].bds <= n
      <3>1. o \in Slots
        BY <1>0 DEF Slots
      <3>2. t[o].bds \in Nat
        BY <2>3, <3>1, StartIs
      <3> QED BY <1>0, <2>3, <3>2 DEF Whole
    <2> QED BY <2>1, <2>2, <2>3
  <1>3. IsStart(u, 0)
    <2>1. CASE n = 0
      BY <1>1, <2>1
    <2>2. CASE n > 0
      BY <1>0, <1>2, <2>2 DEF Chain
    <2> QED BY <1>0, <2>1, <2>2
  <1>4. ASSUME NEW o \in 0 .. n, NEW i \in 0 .. n, IsStart(u, o), o < i, i < o + u[o].bds
        PROVE  ~IsStart(u, i)
    <2>1. o \in 0 .. n - 1
      BY <1>0, <1>4
    <2>2. IsStart(t, o) /\ t[o].bds \in Nat /\ o + t[o].bds <= n /\ u[o].bds = t[o].bds
      BY <1>2, <1>4, <2>1
    <2>3. i \in 0 .. n - 1
      BY <1>0, <1>4, <2>2
    <2>4. ~IsStart(t, i)
      BY <1>4, <2>1, <2>2, <2>3 DEF Chain
    <2> QED BY <1>2, <2>3, <2>4
  <1>5. ASSUME NEW o \in 0 .. n, IsStart(u, o), o + u[o].bds < n + 1
        PROVE  IsStart(u, o + u[o].bds)
    <2>1. CASE o = n
      BY <1>0, <1>1, <1>5, <2>1
    <2>2. CASE o # n
      <3>1. o \in 0 .. n - 1
        BY <1>0, <2>2
      <3>2. IsStart(t, o) /\ t[o].bds \in Nat /\ u[o].bds = t[o].bds
        BY <1>2, <1>5, <3>1
      <3>3. CASE o + t[o].bds = n
        BY <1>1, <3>2, <3>3
      <3>4. CASE o + t[o].bds < n
        <4>1. IsStart(t, o + t[o].bds)
          BY <3>1, <3>2, <3>4 DEF Chain
        <4>2. o + t[o].bds \in 0 .. n - 1
          BY <1>0, <3>1, <3>2, <3>4
        <4> QED BY <1>2, <3>2, <4>1, <4>2
      <3> QED BY <1>0, <1>5, <3>1, <3>2, <3>3, <3>4
    <2> QED BY <2>1, <2>2
  <1>6. Chain(u, n + 1)
    <2>1. 0 .. (n + 1) - 1 = 0 .. n
      BY <1>0
    <2> QED BY <1>3, <1>4, <1>5, <2>1 DEF Chain
  <1>7. ASSUME NEW o \in 0 .. n, IsStart(u, o)
        PROVE  o + u[o].bds <= n + 1 \/ (f.bds # 1 /\ o = n + 1 - 1)
    <2>1. CASE o = n
      BY <1>0, <1>1, <2>1
    <2>2. CASE o # n
      <3>1. o \in 0 .. n - 1
        BY <1>0, <2>2
      <3> QED BY <1>0, <1>2, <1>7, <3>1
    <2> QED BY <2>1, <2>2
  <1>8. Whole(u, n + 1, IF f.bds = 1 THEN 0 ELSE 1)
    <2>1. 0 .. (n + 1) - 1 = 0 .. n
      BY <1>0
    <2>2. CASE f.bds = 1
      BY <1>7, <2>1, <2>2 DEF Whole
    <2>3. CASE f.bds # 1
      BY <1>7, <2>1, <2>3 DEF Whole
    <2> QED BY <2>2, <2>3
  <1> QED BY <1>6, <1>8

\* Another buffer of the frame that has been begun.
LEMMA FrameContinued ==
    ASSUME NEW t \in Tables, NEW u \in Tables, NEW n \in 1 .. D - 2, NEW p \in 1 .. n,
           Chain(t, n), Whole(t, n, p), NEW f \in Frames, t[n - p] = f, p < f.bds,
           u[n] = NoFrame, \A o \in 0 .. n - 1 : u[o] = t[o]
    PROVE  Chain(u, n + 1) /\ Whole(u, n + 1, IF p + 1 = f.bds THEN 0 ELSE p + 1)
  <1>0. /\ n \in Nat /\ n > 0 /\ n + 1 < D /\ D \in Nat /\ p \in Nat /\ p > 0 /\ p <= n
        /\ f.bds \in Nat
    BY Sizes, FrameIs
  <1>1. ~IsStart(u, n)
    BY DEF IsStart
  <1>a. n - p \in 0 .. n - 1 /\ IsStart(t, n - p)
    BY <1>0, FrameIs DEF IsStart
  \* A frame before the last one is whole and ends before that.
  <1>2. ASSUME NEW o \in 0 .. n - 1
        PROVE  /\ u[o] = t[o]
               /\ IsStart(u, o) <=> IsStart(t, o)
               /\ IsStart(t, o) /\ o # n - p =>
                    t[o].bds \in Nat /\ o + t[o].bds <= n - p
    <2>1. u[o] = t[o]
      OBVIOUS
    <2>2. IsStart(u, o) <=> IsStart(t, o)
      BY <2>1 DEF IsStart
    <2>3. ASSUME IsStart(t, o), o # n - p
          PROVE  t[o].bds \in Nat /\ o + t[o].bds <= n - p
      <3>1. o \in Slots
        BY <1>0 DEF Slots
      <3>2. t[o].bds \in Nat
        BY <2>3, <3>1, StartIs
      <3>3. o + t[o].bds <= n
        BY <2>3 DEF Whole
      <3>4. o < n - p
        <4>1. ASSUME n - p < o PROVE FALSE
          <5>1. o < (n - p) + t[n - p].bds
            BY <1>0, <4>1
          <5> QED BY <1>a, <2>3, <4>1, <5>1 DEF Chain
        <4> QED BY <1>0, <2>3, <4>1
      <3>5. ~(n - p < o + t[o].bds)
        BY <1>a, <2>3, <3>4 DEF Chain
      <3> QED BY <1>0, <3>2, <3>5
    <2> QED BY <2>1, <2>2, <2>3
  <1>3. IsStart(u, 0)
    BY <1>0, <1>2 DEF Chain
  <1>4. ASSUME NEW o \in 0 .. n, NEW i \in 0 .. n, IsStart(u, o), o < i, i < o + u[o].bds
        PROVE  ~IsStart(u, i)
    <2>1. o \in 0 .. n - 1
      BY <1>0, <1>4
    <2>2. CASE i = n
      BY <1>1, <2>2
    <2>3. CASE i # n
      <3>1. i \in 0 .. n - 1
        BY <1>0, <2>3
      <3>2. IsStart(t, o) /\ u[o] = t[o]
        BY <1>2, <1>4, <2>1
      <3>3. ~IsStart(t, i)
        BY <1>4, <2>1, <3>1, <3>2 DEF Chain
      <3> QED BY <1>2, <3>1, <3>3
    <2> QED BY <2>2, <2>3
  <1>5. ASSUME NEW o \in 0 .. n, IsStart(u, o), o + u[o].bds < n + 1
        PROVE  IsStart(u, o + u[o].bds)
    <2>1. o \in 0 .. n - 1
      BY <1>0, <1>1, <1>5
    <2>2. IsStart(t, o) /\ u[o] = t[o]
      BY <1>2, <1>5, <2>1
    <2>3. o # n - p
      BY <1>0, <1>5, <2>2
    <2>4. t[o].bds \in Nat /\ o + t[o].bds <= n - p
      BY <1>2, <2>1, <2>2, <2>3
    <2>5. o + t[o].bds \in 0 .. n - 1 /\ o + t[o].bds < n
      BY <1>0, <2>1, <2>4
    <2>6. IsStart(t, o + t[o].bds)
      BY <2>1, <2>2, <2>5 DEF Chain
    <2> QED BY <1>2, <2>2, <2>5, <2>6
  <1>6. Chain(u, n + 1)
    <2>1. 0 .. (n + 1) - 1 = 0 .. n
      BY <1>0
    <2> QED BY <1>3, <1>4, <1>5, <2>1 DEF Chain
  <1>7. ASSUME NEW o \in 0 .. n, IsStart(u, o)
        PROVE  o + u[o].bds <= n + 1 \/ (p + 1 # f.bds /\ o = n + 1 - (p + 1))
    <2>1. o \in 0 .. n - 1
      BY <1>0, <1>1, <1>7
    <2>2. IsStart(t, o) /\ u[o] = t[o]
      BY <1>2, <1>7, <2>1
    <2>3. CASE o = n - p
      BY <1>0, <2>2, <2>3
    <2>4. CASE o # n - p
      BY <1>0, <1>2, <2>1, <2>2, <2>4
    <2> QED BY <2>3, <2>4
  <1>8. Whole(u, n + 1, IF p + 1 = f.bds THEN 0 ELSE p + 1)
    <2>1. 0 .. (n + 1) - 1 = 0 .. n /\ p + 1 > 0
      BY <1>0
    <2>2. CASE p + 1 = f.bds
      BY <1>7, <2>1, <2>2 DEF Whole
    <2>3. CASE p + 1 # f.bds
      BY <1>7, <2>1, <2>3 DEF Whole
    <2> QED BY <2>2, <2>3
  <1> QED BY <1>6, <1>8

\* Whose a buffer is depends on the table up to it only.
LEMMA BelongsStill ==
    ASSUME NEW t, NEW u, NEW o \in Nat, NEW b, Belongs(t, o, b), \A s \in 0 .. o : u[s] = t[s]
    PROVE  Belongs(u, o, b)
  BY DEF Belongs

\* The buffers in the slots of the first frame are its buffers.
LEMMA BelongsFirst ==
    ASSUME NEW t \in Tables, NEW n \in 1 .. D - 1, Chain(t, n), NEW o \in 0 .. n - 1,
           NEW b \in Buffers, Belongs(t, o, b), o < t[0].bds
    PROVE  b.of = t[0] /\ (b.last <=> o + 1 = t[0].bds)
  <1>0. n \in Nat /\ n < D /\ D \in Nat /\ b.of \in Frames
    BY Sizes DEF Buffers
  <1>1. PICK s \in 0 .. o : t[s] = b.of /\ (b.last <=> o + 1 = s + b.of.bds)
    BY DEF Belongs
  <1>2. IsStart(t, s) /\ IsStart(t, 0) /\ s \in 0 .. n - 1 /\ 0 \in 0 .. n - 1
    BY <1>0, <1>1, FrameIs DEF IsStart, Chain
  <1>3. t[0].bds \in Nat
    BY <1>0, <1>2, StartIs DEF Slots
  <1>4. ~(0 < s /\ s < 0 + t[0].bds)
    BY <1>2 DEF Chain
  <1>5. s = 0
    BY <1>0, <1>1, <1>3, <1>4
  <1>6. 0 + t[0].bds = t[0].bds
    BY <1>3
  <1> QED BY <1>1, <1>5, <1>6

\* Those behind it are not.
LEMMA BelongsBehind ==
    ASSUME NEW t \in Tables, NEW u, NEW n \in 1 .. D - 1, Chain(t, n), NEW o \in 0 .. n - 1,
           NEW b \in Buffers, Belongs(t, o, b), t[0].bds <= o,
           \A i \in 0 .. n - t[0].bds - 1 : u[i] = t[i + t[0].bds]
    PROVE  Belongs(u, o - t[0].bds, b)
  <1>0. n \in Nat /\ n < D /\ D \in Nat /\ b.of \in Frames /\ b.of.bds \in Nat
    BY Sizes, FrameIs DEF Buffers
  <1>1. PICK s \in 0 .. o : /\ t[s] = b.of /\ o < s + b.of.bds
                            /\ b.last <=> o + 1 = s + b.of.bds
    BY DEF Belongs
  <1>2. IsStart(t, s) /\ IsStart(t, 0) /\ s \in 0 .. n - 1 /\ 0 \in 0 .. n - 1
    BY <1>0, <1>1, FrameIs DEF IsStart, Chain
  <1> DEFINE c == t[0].bds
  <1>3. c \in Nat /\ c > 0
    BY <1>0, <1>2, StartIs DEF Slots
  <1>4. ~(0 < s /\ s < 0 + c)
    BY <1>2 DEF Chain
  <1>5. s # 0
    <2> SUFFICES ASSUME s = 0 PROVE FALSE
      OBVIOUS
    <2>1. b.of.bds = c
      BY <1>1
    <2> HIDE DEF c
    <2>2. c <= o
      BY DEF c
    <2> QED BY <1>0, <1>1, <1>3, <2>1, <2>2
  <1>6. \A i \in 0 .. n - c - 1 : u[i] = t[i + c]
    OBVIOUS
  <1> HIDE DEF c
  <1>7. s >= c /\ s \in Nat /\ o \in Nat
    BY <1>3, <1>4, <1>5
  <1>8. s - c \in 0 .. o - c /\ s - c \in 0 .. n - c - 1 /\ (s - c) + c = s
    BY <1>0, <1>2, <1>3, <1>7
  <1>9. u[s - c] = b.of
    BY <1>1, <1>6, <1>8
  <1>10. /\ o - c < (s - c) + b.of.bds
         /\ b.last <=> (o - c) + 1 = (s - c) + b.of.bds
    BY <1>0, <1>1, <1>3, <1>7
  <1>11. Belongs(u, o - c, b)
    BY <1>8, <1>9, <1>10 DEF Belongs
  <1> QED BY <1>11 DEF c

-----------------------------------------------------------------------------
(* Types                                                                   *)

\* The first end of a frame among the buffers that have been sent.
Ends == {k \in DOMAIN sent : sent[k].last}
FirstEnd == CHOOSE k \in Ends : \A j \in Ends : k <= j

LEMMA FirstEndIs ==
    ASSUME Types, Ends # {}
    PROVE  FirstEnd \in 1 .. Len(sent) /\ FirstEnd \in Ends /\ \A j \in Ends : FirstEnd <= j
  <1>1. Ends \subseteq 1 .. Len(sent) /\ Len(sent) \in Nat
    BY DEF Ends, Types
  <1> DEFINE R == {p \in Nat \X Nat : p[1] < p[2]}
  <1>2. IsWellFoundedOn(R, Nat)
    BY NatLessThanWellFounded DEF OpToRel
  <1>3. Ends \in SUBSET Nat
    BY <1>1
  <1>4. PICK m \in Ends : \A y \in Ends : <<y, m>> \notin R
    <2> HIDE DEF R
    <2> QED BY <1>2, <1>3, WFMin
  <1>5. ASSUME NEW y \in Ends PROVE m <= y
    <2>1. ~(y < m)
      BY <1>3, <1>4
    <2> QED BY <1>3, <2>1
  <1> QED BY <1>1, <1>5 DEF FirstEnd

LEMMA RingTypes ==
    ASSUME Types
    PROVE  /\ Len(sent) \in Nat /\ Len(posted) \in Nat /\ RingLen \in Nat
           /\ \A k \in 1 .. RingLen : Ring(k) \in Buffers
           /\ T \in Tables
           /\ wr \in Slots /\ rd \in Slots /\ rdSeen \in Slots /\ nmap \in 0 .. MaxBds
           /\ Fwd(wr, nmap) \in Slots /\ Used \in 0 .. D - 1
           /\ Dist(rdSeen, rd) \in 0 .. D - 1
  <1>1. /\ Len(sent) \in Nat /\ Len(posted) \in Nat /\ RingLen \in Nat
        /\ \A k \in 1 .. RingLen : Ring(k) \in Buffers
    BY DEF Types, RingLen, Ring
  <1>2. wr \in Slots /\ rd \in Slots /\ rdSeen \in Slots /\ nmap \in 0 .. MaxBds
    BY DEF Types, TypeOK
  <1>3. nmap \in 0 .. D
    BY <1>2, Sizes
  <1>4. T \in Tables
    <2>1. \A o \in Slots : Fwd(rd, o) \in Slots
      BY <1>2, Sizes, Steps DEF Slots
    <2> QED BY <2>1 DEF T, Tables, Types, TypeOK
  <1>5. Fwd(wr, nmap) \in Slots
    BY <1>2, <1>3, Steps
  <1>6. Used \in 0 .. D - 1 /\ Dist(rdSeen, rd) \in 0 .. D - 1
    BY <1>2, <1>5, Steps DEF Used
  <1> QED BY <1>1, <1>2, <1>4, <1>5, <1>6

\* Nothing that is not there to send, or that could fail, takes a step.
LEMMA WorkerRests ==
    ASSUME Types, Undisturbed, IhcStart \/ IhcMapFails \/ IhcWork
    PROVE  FALSE
  BY DEF Types, Undisturbed, Senders, IhcStart, IhcMapFails, IhcWork, IhcPut, IhcTxFails,
    IhcUpdate, IhcGoto

\* The rest of the types when the table, the ring and the poll are left alone.
LEMMA XmitTypes ==
    ASSUME Types, UNCHANGED <<poolVars, ringVars, napiVars, ihc>>,
           lock' \in Senders \cup {NoFrame},
           xmit' \in [Netifs -> XmitValues],
           frame' \in [Netifs -> Frames \cup {NoFrame}],
           pushed' \subseteq Netifs, nmap' \in 0 .. MaxBds,
           serial' \in [Senders -> Nat], \A n \in Netifs : serial'[n] < Serials
    PROVE  Types'
  BY DEF Types, TypeOK, poolVars, ringVars, napiVars

\* The steps of a transmission that leave the table alone.
Aside(n) ==
    \/ XmitStart(n) \/ XmitCheck(n) \/ XmitNoRoom(n) \/ XmitRecheck(n) \/ XmitCredit(n)
    \/ XmitStop(n) \/ XmitSchedule(n)

LEMMA AsideTypes ==
    ASSUME Types, OneInside, NEW n \in Netifs, Aside(n)
    PROVE  /\ Types' /\ nmap' = nmap
           /\ UNCHANGED <<poolVars, ringVars, napiVars, ihc>>
           /\ frame[n] \in Frames => frame' = frame
  <1>0. /\ xmit \in [Netifs -> XmitValues] /\ lock \in Senders \cup {NoFrame}
        /\ frame \in [Netifs -> Frames \cup {NoFrame}] /\ pushed \subseteq Netifs
        /\ nmap \in 0 .. MaxBds /\ Netifs \subseteq Senders /\ 0 \in 0 .. MaxBds
        /\ serial \in [Senders -> Nat] /\ \A m \in Netifs : serial[m] < Serials
    BY Sizes DEF Types, TypeOK, Senders
  <1>1. UNCHANGED <<poolVars, ringVars, napiVars, ihc>>
    BY DEF Aside, XmitStart, XmitCheck, XmitNoRoom, XmitRecheck, XmitCredit, XmitStop,
      XmitSchedule, workVars
  <1>2. CASE XmitStart(n)
    <2>1. /\ lock' = n /\ nmap' = 0 /\ lock = NoFrame /\ xmit' = [xmit EXCEPT ![n] = "check"]
      BY <1>2 DEF XmitStart, Goto
    <2>2. xmit' \in [Netifs -> XmitValues]
      BY <1>0, <2>1 DEF XmitValues
    <2>3. CASE frame[n] # NoFrame
      <3>1. UNCHANGED <<frame, serial, pushed>>
        BY <1>2, <2>3 DEF XmitStart
      <3> QED BY <1>0, <1>1, <2>1, <2>2, <3>1, XmitTypes DEF OneInside
    <2>4. CASE frame[n] = NoFrame
      <3>1. PICK b \in 1 .. MaxBds :
              /\ frame' = [frame EXCEPT ![n] = [netif |-> n, no |-> serial[n], bds |-> b]]
              /\ serial' = [serial EXCEPT ![n] = (serial[n] + 1) % Serials]
              /\ pushed' = pushed \ {n}
        BY <1>2, <2>4 DEF XmitStart
      <3>2. serial[n] \in 0 .. Serials - 1 /\ Serials \in Nat \ {0}
        BY <1>0, TxAssumption
      <3>3. (serial[n] + 1) % Serials \in 0 .. Serials - 1
        BY <3>2
      <3>4. serial' \in [Senders -> Nat] /\ \A m \in Netifs : serial'[m] < Serials
        BY <1>0, <3>1, <3>2, <3>3
      <3>5. [netif |-> n, no |-> serial[n], bds |-> b] \in Frames
        BY <1>0, <3>2 DEF Frames
      <3>6. frame' \in [Netifs -> Frames \cup {NoFrame}]
        BY <1>0, <3>1, <3>5
      <3>7. pushed' \subseteq Netifs /\ nmap' \in 0 .. MaxBds /\ lock' \in Senders \cup {NoFrame}
        BY <1>0, <2>1, <3>1
      <3>8. Types'
        BY <1>1, <2>2, <3>4, <3>6, <3>7, XmitTypes
      <3> QED BY <1>1, <2>1, <2>4, <3>8, TxAssumption DEF OneInside
    <2> QED BY <2>3, <2>4
  <1>3. CASE ~XmitStart(n)
    <2>1. UNCHANGED <<frame, pushed, nmap, serial>> /\ lock' \in {lock, NoFrame}
      BY <1>3 DEF Aside, XmitCheck, XmitNoRoom, XmitRecheck, XmitCredit, XmitStop,
        XmitSchedule, Busy
    <2>2. \E to \in XmitValues : xmit' = [xmit EXCEPT ![n] = to]
      BY <1>3 DEF Aside, XmitCheck, XmitNoRoom, XmitRecheck, XmitCredit, XmitStop,
        XmitSchedule, Busy, Goto, XmitValues
    <2>3. xmit' \in [Netifs -> XmitValues]
      BY <1>0, <2>2
    <2> QED BY <1>0, <1>1, <2>1, <2>3, XmitTypes
  <1> QED BY <1>2, <1>3

\* The steps of the poll, the hardware and the work.
LEMMA OtherTypes ==
    ASSUME Types,
           \/ HwSend \/ NapiStart \/ NapiConf \/ NapiRoom \/ NapiLook \/ NapiWake \/ NapiEnd
           \/ RdBecomesVisible \/ \E n \in Netifs : WorkCredit(n) \/ WorkWake(n)
    PROVE  Types' /\ UNCHANGED <<wr, rd, skbs, mapped, xmitVars, ihc>>
  <1>1. UNCHANGED <<wr, rd, skbs, mapped, xmitVars, ihc>>
    BY DEF HwSend, NapiStart, NapiConf, NapiRoom, NapiLook, NapiWake, NapiEnd,
      RdBecomesVisible, WorkCredit, WorkWake, poolVars, workVars
  <1>2. rdSeen' \in {rdSeen, rd}
    BY DEF HwSend, NapiStart, NapiConf, NapiRoom, NapiLook, NapiWake, NapiEnd,
      RdBecomesVisible, WorkCredit, WorkWake, poolVars
  <1>3. posted' \in Seq(Buffers) /\ sent' \in Seq(Buffers)
    <2>0. posted \in Seq(Buffers) /\ sent \in Seq(Buffers)
      BY DEF Types
    <2>1. CASE HwSend
      BY <2>0, <2>1 DEF HwSend
    <2>2. CASE NapiConf
      <3>1. CASE budget > 0 /\ Ends # {}
        <4>1. sent' = SubSeq(sent, FirstEnd + 1, Len(sent)) /\ posted' = posted
          BY <2>2, <3>1 DEF NapiConf, Ends, FirstEnd
        <4>2. FirstEnd \in 1 .. Len(sent)
          BY <3>1, FirstEndIs
        <4>3. /\ Len(sent) \in Int /\ FirstEnd + 1 \in Int
              /\ \A i \in FirstEnd + 1 .. Len(sent) : sent[i] \in Buffers
          BY <2>0, <4>2
        <4> QED BY <2>0, <4>1, <4>3, SubSeqProperties
      <3>2. CASE ~(budget > 0 /\ Ends # {})
        <4>1. posted' = posted /\ (sent' = <<>> \/ sent' = sent)
          BY <2>2, <3>2 DEF NapiConf, Ends
        <4>2. <<>> \in Seq(Buffers)
          OBVIOUS
        <4> QED BY <2>0, <4>1, <4>2
      <3> QED BY <3>1, <3>2
    <2>3. CASE ~HwSend /\ ~NapiConf
      <3>1. UNCHANGED <<posted, sent>>
        BY <2>3 DEF NapiStart, NapiRoom, NapiLook, NapiWake, NapiEnd,
          RdBecomesVisible, WorkCredit, WorkWake, ringVars
      <3> QED BY <2>0, <3>1
    <2> QED BY <2>1, <2>2, <2>3
  <1>4. /\ budget' \in 0 .. TxWork /\ look' \subseteq Netifs /\ passed' \in BOOLEAN
        /\ napi' \in NapiValues /\ (napi' = "free" => budget' > 0)
    <2>0. /\ budget \in 0 .. TxWork /\ look \subseteq Netifs /\ passed \in BOOLEAN
          /\ napi \in NapiValues /\ (napi = "free" => budget > 0)
          /\ TxWork \in Nat /\ TxWork > 0
      BY Sizes DEF Types, TypeOK, TxWork
    <2>1. CASE NapiStart
      BY <2>0, <2>1 DEF NapiStart, NapiGoto, NapiValues
    <2>2. CASE NapiConf
      BY <2>0, <2>2 DEF NapiConf, NapiGoto, NapiValues
    <2>3. CASE NapiRoom
      BY <2>0, <2>3 DEF NapiRoom, NapiGoto, NapiValues, Overtaken
    <2>4. CASE NapiLook
      BY <2>0, <2>4 DEF NapiLook, NapiGoto, NapiValues
    <2>5. CASE NapiWake
      BY <2>0, <2>5 DEF NapiWake, NapiGoto, NapiValues
    <2>6. CASE NapiEnd
      BY <2>0, <2>6 DEF NapiEnd, NapiGoto, NapiValues
    <2>7. CASE HwSend \/ RdBecomesVisible \/ \E n \in Netifs : WorkCredit(n) \/ WorkWake(n)
      BY <2>0, <2>7 DEF HwSend, RdBecomesVisible, WorkCredit, WorkWake, napiVars
    <2> QED BY <2>1, <2>2, <2>3, <2>4, <2>5, <2>6, <2>7
  <1> QED BY <1>1, <1>2, <1>3, <1>4 DEF Types, TypeOK, xmitVars

-----------------------------------------------------------------------------
(* Transmissions beside the table                                          *)

\* What the table and the ring are does not depend on who is at work.
LEMMA TableSame ==
    ASSUME UNCHANGED <<wr, rd, skbs, mapped, nmap, sent, posted>>
    PROVE  /\ T' = T /\ Used' = Used /\ RingLen' = RingLen /\ Ahead' = Ahead
           /\ InStep => InStep'
  <1>1. T' = T /\ Used' = Used /\ RingLen' = RingLen /\ Ahead' = Ahead
    BY DEF T, Used, RingLen, Ahead, Fwd, Dist
  <1>2. \A k \in 1 .. RingLen : Ring(k)' = Ring(k)
    BY DEF Ring
  <1>3. InStep => InStep'
    BY <1>1, <1>2 DEF InStep, Belongs, Fwd
  <1> QED BY <1>1, <1>3

LEMMA AsideStep ==
    ASSUME TxInv, NEW n \in Netifs, Aside(n)
    PROVE  TxInv'
  <1>0. Types /\ OneInside /\ Counted /\ Room
    BY DEF TxInv
  <1>1. /\ Types' /\ nmap' = nmap
        /\ UNCHANGED <<poolVars, ringVars, napiVars, ihc>>
        /\ frame[n] \in Frames => frame' = frame
    BY <1>0, AsideTypes
  <1>2. UNCHANGED <<wr, rd, rdSeen, skbs, mapped, nmap, sent, posted, napi, conf>>
    BY <1>1 DEF poolVars, ringVars, napiVars
  <1>3. /\ T' = T /\ Used' = Used /\ RingLen' = RingLen /\ Ahead' = Ahead /\ InStep'
        /\ Dist(rdSeen, rd)' = Dist(rdSeen, rd)
    BY <1>2, TableSame DEF TxInv, Dist
  <1>4. /\ xmit \in [Netifs -> XmitValues] /\ NoFrame \notin Netifs
        /\ frame \in [Netifs -> Frames \cup {NoFrame}]
    BY <1>0, TxAssumption DEF Types, TypeOK
  \* Who steps holds the lock, or takes it when it is free.
  <1>5. /\ \/ lock = n
           \/ lock = NoFrame /\ lock' = n
        /\ nmap = 0
        /\ lock' = NoFrame \/ lock' = n
        /\ lock' = n <=> xmit'[n] # "idle"
        /\ xmit'[n] # "update"
        /\ \A m \in Netifs \ {n} : xmit'[m] = xmit[m] /\ xmit[m] = "idle"
        /\ xmit[n] # "map" /\ xmit[n] # "update"
    <2>1. CASE XmitStart(n)
      BY <1>0, <1>4, <2>1 DEF XmitStart, Goto, OneInside
    <2>2. CASE ~XmitStart(n)
      <3>1. xmit[n] \in {"check", "no room", "recheck", "credit", "stop", "schedule"}
        BY <2>2 DEF Aside, XmitCheck, XmitNoRoom, XmitRecheck, XmitCredit, XmitStop,
          XmitSchedule, Busy, Goto
      <3>2. lock = n /\ nmap = 0 /\ \A m \in Netifs \ {n} : xmit[m] = "idle"
        BY <1>0, <3>1 DEF OneInside, Counted
      <3>3. /\ lock' = NoFrame \/ lock' = n
            /\ lock' = n <=> xmit'[n] # "idle"
            /\ xmit'[n] # "update"
            /\ \A m \in Netifs \ {n} : xmit'[m] = xmit[m]
        BY <1>4, <2>2, <3>2 DEF Aside, XmitCheck, XmitNoRoom, XmitRecheck, XmitCredit,
          XmitStop, XmitSchedule, Busy, Goto
      <3> QED BY <3>1, <3>2, <3>3
    <2> QED BY <2>1, <2>2
  <1>6. OneInside'
    BY <1>2, <1>4, <1>5 DEF OneInside
  <1>7. frame'[n] \in Frames
    <2>1. CASE XmitStart(n)
      <3>1. CASE frame[n] # NoFrame
        BY <1>1, <1>4, <3>1
      <3>2. CASE frame[n] = NoFrame
        <4>1. frame'[n] # NoFrame
          <5>1. PICK b \in 1 .. MaxBds :
                  /\ frame' = [frame EXCEPT ![n] = [netif |-> n, no |-> serial[n], bds |-> b]]
            BY <2>1, <3>2 DEF XmitStart
          <5>2. serial[n] \in 0 .. Serials - 1
            BY <1>0, TxAssumption DEF Types, Senders
          <5>3. frame'[n] = [netif |-> n, no |-> serial[n], bds |-> b]
            BY <1>4, <5>1
          <5>4. [netif |-> n, no |-> serial[n], bds |-> b] \in Frames
            BY <5>2 DEF Frames, Senders
          <5> QED BY <5>3, <5>4, TxAssumption
        <4>2. frame'[n] \in Frames \cup {NoFrame}
          BY <1>1 DEF Types, TypeOK
        <4> QED BY <4>1, <4>2
      <3> QED BY <3>1, <3>2
    <2>2. CASE ~XmitStart(n)
      <3>1. lock = n
        BY <1>5, <2>2 DEF Aside, XmitCheck, XmitNoRoom, XmitRecheck, XmitCredit, XmitStop,
          XmitSchedule, Busy, Goto, OneInside
      <3> QED BY <1>0, <1>1, <3>1 DEF Counted
    <2> QED BY <2>1, <2>2
  <1>8. 0 < frame'[n].bds /\ frame'[n].bds \in Nat /\ frame'[n].bds <= MaxBds
    BY <1>7, FrameIs, Sizes
  <1>9. Used \in Nat /\ 0 <= Used
    BY <1>0, RingTypes
  <1>10. Counted'
    BY <1>2, <1>3, <1>4, <1>5, <1>7, <1>8, <1>9 DEF Counted
  <1>11. Part = 0 /\ Part' = 0
    BY <1>2, <1>4, <1>5 DEF Part
  <1>12. Room'
    <2>1. /\ Used \in 0 .. D - 1 /\ Dist(rdSeen, rd) \in 0 .. D - 1 /\ rdSeen \in Slots
          /\ wr \in Slots /\ rd \in Slots /\ Fwd(wr, nmap) = wr /\ D \in Nat
      BY <1>0, <1>5, RingTypes, Steps, Sizes
    <2>2. ToPut' = IF lock' = n /\ xmit'[n] \in {"credit", "map"} THEN frame'[n].bds ELSE 0
      BY <1>2, <1>4, <1>5, <1>8 DEF ToPut
    <2>3. CASE ToPut' = 0
      <3>1. ToPut >= 0
        <4>1. CASE lock = n
          BY <1>0, <1>5, <4>1, FrameIs DEF ToPut, Counted
        <4>2. CASE lock # n
          BY <1>4, <1>5, <4>2 DEF ToPut
        <4> QED BY <4>1, <4>2
      <3>2. ToPut \in Int
        <4>1. CASE lock = n
          BY <1>0, <1>5, <4>1, FrameIs DEF ToPut, Counted
        <4>2. CASE lock # n
          BY <1>4, <1>5, <4>2 DEF ToPut
        <4> QED BY <4>1, <4>2
      <3> QED BY <1>0, <1>3, <2>1, <2>3, <3>1, <3>2 DEF Room
    <2>4. CASE ToPut' # 0
      <3>1. lock' = n /\ xmit'[n] \in {"credit", "map"} /\ ToPut' = frame'[n].bds
        BY <2>2, <2>4
      <3>2. CASE XmitCredit(n)
        <4>1. lock = n /\ xmit[n] = "credit" /\ frame' = frame
          BY <1>4, <1>5, <3>2 DEF XmitCredit, Goto, OneInside
        <4>2. ToPut = frame[n].bds
          BY <1>0, <1>5, <4>1, FrameIs DEF ToPut, Counted
        <4> QED BY <1>0, <1>3, <3>1, <4>1, <4>2 DEF Room
      <3>3. CASE ~XmitCredit(n)
        <4>1. XmitCheck(n) \/ XmitRecheck(n)
          BY <1>4, <3>1, <3>3 DEF Aside, XmitStart, XmitNoRoom, XmitStop, XmitSchedule,
            Busy, Goto
        <4>2. frame' = frame
          BY <4>1 DEF XmitCheck, XmitRecheck
        <4>3. Unused(wr, rdSeen) >= frame[n].bds + 1
          <5>1. CASE XmitCheck(n)
            BY <1>4, <3>1, <5>1 DEF XmitCheck, Goto, Needed
          <5>2. CASE XmitRecheck(n)
            <6>1. Unused(wr, rdSeen) >= MaxBds + 1
              BY <1>4, <3>1, <5>2 DEF XmitRecheck, Goto, Busy, MaxNeeded, Needed
            <6>2. Unused(wr, rdSeen) \in Int
              BY <2>1, UnusedIs, Steps
            <6> QED BY <1>8, <4>2, <6>1, <6>2, Sizes
          <5> QED BY <4>1, <5>1, <5>2
        <4>4. Unused(wr, rdSeen) = D - 1 - Dist(rdSeen, wr)
          BY <2>1, UnusedIs
        <4>5. Dist(rdSeen, wr) \in 0 .. D - 1
          BY <2>1, Steps
        <4>6. Used + Dist(rdSeen, rd) < D
          <5>1. ToPut = 0
            <6>1. lock = n /\ xmit[n] \in {"check", "recheck"}
              BY <1>4, <1>5, <4>1 DEF XmitCheck, XmitRecheck, Goto, Busy, OneInside
            <6> QED BY <6>1 DEF ToPut
          <5> QED BY <1>0, <2>1, <5>1 DEF Room
        <4>7. Used = Dist(rd, wr)
          BY <2>1 DEF Used
        <4>8. Dist(rdSeen, wr) = Dist(rdSeen, rd) + Used
          BY <2>1, <4>6, <4>7 DEF Dist, Slots
        <4> QED BY <1>3, <1>8, <2>1, <3>1, <4>2, <4>3, <4>4, <4>5, <4>8 DEF Room
      <3> QED BY <3>2, <3>3
    <2> QED BY <2>3, <2>4
  <1>13. Chain(T, Used)' /\ Whole(T, Used, Part)'
    BY <1>3, <1>11 DEF TxInv, Chain, Whole, IsStart
  <1>14. Collected'
    BY <1>2, <1>3 DEF TxInv, Collected
  <1> QED BY <1>1, <1>3, <1>6, <1>10, <1>12, <1>13, <1>14 DEF TxInv

-----------------------------------------------------------------------------
(* A buffer is put into the ring                                           *)

LEMMA RingNeverFull ==
    ASSUME TxInv
    PROVE  RingLen <= Used /\ RingLen < D /\ ~Full
  <1>1. RingLen <= Used /\ Used \in 0 .. D - 1 /\ RingLen \in Nat /\ D \in Nat
    BY RingTypes, Sizes DEF TxInv, InStep
  <1>2. Len(sent) \in Nat /\ Len(posted) \in Nat
    BY RingTypes DEF TxInv
  <1>3. RingLen < D
    BY <1>1
  <1> QED BY <1>1, <1>2, <1>3 DEF Full, RingLen

LEMMA MapStep ==
    ASSUME TxInv, NEW n \in Netifs, XmitMap(n)
    PROVE  TxInv'
  <1> DEFINE last == nmap + 1 = frame[n].bds
             slot == (wr + nmap) % D
             f == frame[n]
             b == Bd(f, slot, last)
  <1>0. Types /\ OneInside /\ Counted /\ Room /\ Chain(T, Used) /\ Whole(T, Used, Part) /\ InStep
    BY DEF TxInv
  <1>1. /\ xmit[n] = "map"
        /\ xmit' = [xmit EXCEPT ![n] = IF last THEN "update" ELSE "map"]
        /\ pushed' = pushed \cup {n}
        /\ skbs' = [skbs EXCEPT ![slot] = IF nmap = 0 THEN f ELSE NoFrame]
        /\ mapped' = mapped \cup {slot}
        /\ posted' = Append(posted, b)
        /\ nmap' = nmap + 1
        /\ UNCHANGED <<wr, rd, rdSeen, sent, lock, frame, serial, napiVars, ihc>>
    BY DEF XmitMap, Goto, Put, workVars
  <1>2. /\ lock = n /\ f \in Frames /\ nmap < f.bds /\ nmap <= Used
        /\ nmap > 0 => T[Used - nmap] = f
    BY <1>0, <1>1 DEF OneInside, Counted
  <1>3. /\ f.bds \in Nat /\ f.bds <= MaxBds /\ f # NoFrame /\ nmap \in Nat
        /\ Used \in 0 .. D - 1 /\ D \in Nat /\ wr \in Slots /\ rd \in Slots /\ rdSeen \in Slots
        /\ Dist(rdSeen, rd) \in 0 .. D - 1 /\ MaxBds \in Nat /\ MaxBds + 1 < D
        /\ nmap \in 0 .. MaxBds /\ nmap \in 0 .. D
    BY <1>0, <1>2, RingTypes, FrameIs, Sizes
  <1>4. Part = nmap /\ ToPut = f.bds - nmap
    BY <1>1, <1>2 DEF Part, ToPut
  <1>5. Used + Dist(rdSeen, rd) + (f.bds - nmap) < D
    BY <1>0, <1>4 DEF Room
  <1>6. slot = Fwd(wr, nmap) /\ slot \in Slots /\ slot = Fwd(rd, Used)
    <2>1. slot = Fwd(wr, nmap)
      BY <1>3, Masked
    <2>2. Fwd(wr, nmap) \in Slots
      BY <1>3, Steps
    <2>3. Fwd(rd, Dist(rd, Fwd(wr, nmap))) = Fwd(wr, nmap)
      BY <1>3, <2>2, Steps
    <2> QED BY <2>1, <2>2, <2>3 DEF Used
  <1>7. Used' = Used + 1 /\ Used + 1 < D
    <2>1. Used + 1 < D
      BY <1>2, <1>3, <1>5
    <2>2. Used' = Dist(rd, Fwd(wr, nmap + 1))
      BY <1>1 DEF Used, Fwd, Dist
    <2>3. Fwd(wr, nmap + 1) = Fwd(Fwd(wr, nmap), 1)
      BY <1>3, TwoSteps
    <2>4. Fwd(wr, nmap) \in Slots
      BY <1>3, Steps
    <2>5. Dist(rd, Fwd(Fwd(wr, nmap), 1)) = Dist(rd, Fwd(wr, nmap)) + 1
      BY <1>3, <2>1, <2>4, Steps DEF Used
    <2> QED BY <2>1, <2>2, <2>3, <2>5 DEF Used
  <1>8. b \in Buffers /\ b.of = f /\ b.slot = slot /\ b.last = last
    BY <1>2, <1>6 DEF Bd, Buffers
  <1> HIDE DEF b, slot, f
  <1>9. Types'
    <2>1. posted' \in Seq(Buffers) /\ sent' \in Seq(Buffers)
      BY <1>0, <1>1, <1>8 DEF Types
    <2>2. skbs' \in [Slots -> Frames \cup {NoFrame}]
      BY <1>0, <1>1, <1>2, <1>6 DEF Types, TypeOK
    <2>3. xmit' \in [Netifs -> XmitValues]
      BY <1>0, <1>1 DEF Types, XmitValues
    <2>4. mapped' \subseteq Slots /\ pushed' \subseteq Netifs /\ nmap' \in 0 .. MaxBds
      BY <1>0, <1>1, <1>2, <1>3, <1>6 DEF Types, TypeOK
    <2> QED BY <1>0, <1>1, <2>1, <2>2, <2>3, <2>4 DEF Types, TypeOK, napiVars
  <1>10. /\ \A o \in 0 .. Used - 1 : T'[o] = T[o]
         /\ T'[Used] = IF nmap = 0 THEN f ELSE NoFrame
    <2>1. skbs \in [Slots -> Frames \cup {NoFrame}]
      BY <1>0 DEF Types, TypeOK
    <2>2. \A o \in Slots : T'[o] = skbs'[Fwd(rd, o)]
      BY <1>1 DEF T, Fwd
    <2>3. ASSUME NEW o \in 0 .. Used - 1 PROVE T'[o] = T[o]
      <3>1. o \in Slots /\ o \in 0 .. D - 1 /\ o # Used /\ o \in 0 .. D
        BY <1>3 DEF Slots
      <3>2. Fwd(rd, o) # slot /\ Fwd(rd, o) \in Slots
        BY <1>3, <1>6, <3>1, Distinct, Steps
      <3> QED BY <1>1, <2>1, <2>2, <3>1, <3>2 DEF T
    <2>4. T'[Used] = IF nmap = 0 THEN f ELSE NoFrame
      <3>1. Used \in Slots
        BY <1>3 DEF Slots
      <3> QED BY <1>1, <1>6, <2>1, <2>2, <3>1
    <2> QED BY <2>3, <2>4
  <1>11. T \in Tables /\ T' \in Tables
    <2>1. T' = [o \in Slots |-> skbs'[Fwd(rd, o)]]
      BY <1>1 DEF T, Fwd
    <2>2. \A o \in Slots : Fwd(rd, o) \in Slots
      <3>1. \A o \in Slots : o \in 0 .. D
        BY Sizes DEF Slots
      <3> QED BY <1>3, <3>1, Steps
    <2>3. skbs' \in [Slots -> Frames \cup {NoFrame}]
      BY <1>9 DEF Types, TypeOK
    <2>4. T' \in Tables
      BY <2>1, <2>2, <2>3 DEF Tables
    <2> QED BY <1>0, <2>4, RingTypes
  <1>12. Part' = IF last THEN 0 ELSE nmap + 1
    BY <1>0, <1>1, <1>2 DEF Part, Types
  <1>13. Chain(T, Used)' /\ Whole(T, Used, Part)'
    <2>1. Used \in 0 .. D - 2
      BY <1>3, <1>7
    <2>2. CASE nmap = 0
      <3>1. T'[Used] = f /\ Whole(T, Used, 0) /\ f \in Frames
        BY <1>0, <1>2, <1>4, <1>10, <2>2 DEF f
      <3>2. Chain(T', Used + 1) /\ Whole(T', Used + 1, IF f.bds = 1 THEN 0 ELSE 1)
        BY <1>0, <1>10, <1>11, <2>1, <3>1, FrameBegun
      <3>3. Part' = IF f.bds = 1 THEN 0 ELSE 1
        BY <1>3, <1>12, <2>2 DEF f
      <3>4. Chain(T', Used') /\ Whole(T', Used', Part')
        BY <1>7, <3>2, <3>3
      <3> QED BY <3>4 DEF Chain, Whole, IsStart
    <2>3. CASE nmap # 0
      <3>1. /\ T'[Used] = NoFrame /\ Whole(T, Used, nmap) /\ T[Used - nmap] = f
            /\ nmap \in 1 .. Used /\ Used \in 1 .. D - 2 /\ f \in Frames /\ nmap < f.bds
        BY <1>0, <1>2, <1>3, <1>4, <1>10, <2>1, <2>3 DEF f
      <3>2. Chain(T', Used + 1) /\ Whole(T', Used + 1, IF nmap + 1 = f.bds THEN 0 ELSE nmap + 1)
        BY <1>0, <1>10, <1>11, <3>1, FrameContinued
      <3>3. Chain(T', Used') /\ Whole(T', Used', Part')
        BY <1>7, <1>12, <3>2 DEF f
      <3> QED BY <3>3 DEF Chain, Whole, IsStart
    <2> QED BY <2>2, <2>3
  <1>14. /\ RingLen' = RingLen + 1 /\ Ahead' = Ahead
         /\ \A k \in 1 .. RingLen : Ring(k)' = Ring(k)
         /\ \A k : k = RingLen + 1 => Ring(k)' = b
    <2>1. posted \in Seq(Buffers) /\ Len(sent) \in Nat /\ Len(posted) \in Nat /\ RingLen \in Nat
      BY <1>0, RingTypes DEF Types
    <2>2. /\ Len(posted') = Len(posted) + 1
          /\ \A k \in 1 .. Len(posted) : posted'[k] = posted[k]
          /\ posted'[Len(posted) + 1] = b
      BY <1>1, <1>8, <2>1, AppendProperties
    <2>3. RingLen' = RingLen + 1
      BY <1>1, <2>1, <2>2 DEF RingLen
    <2>4. ASSUME NEW k \in 1 .. RingLen PROVE Ring(k)' = Ring(k)
      <3>1. k - Len(sent) <= Len(posted) /\ k \in Nat /\ k > 0
        BY <2>1 DEF RingLen
      <3>2. CASE k <= Len(sent)
        BY <1>1, <3>2 DEF Ring
      <3>3. CASE ~(k <= Len(sent))
        <4>1. k - Len(sent) \in 1 .. Len(posted)
          BY <2>1, <3>1, <3>3
        <4>2. posted'[k - Len(sent)] = posted[k - Len(sent)]
          BY <2>2, <4>1
        <4> QED BY <1>1, <3>3, <4>2 DEF Ring
      <3> QED BY <3>2, <3>3
    <2>5. ASSUME NEW k, k = RingLen + 1 PROVE Ring(k)' = b
      <3>1. k - Len(sent) = Len(posted) + 1 /\ ~(k <= Len(sent))
        BY <2>1, <2>5 DEF RingLen
      <3>2. Ring(k)' = posted'[k - Len(sent)]
        BY <1>1, <3>1 DEF Ring
      <3> QED BY <2>2, <3>1, <3>2
    <2>6. Ahead' = Ahead
      BY <1>3, <1>7, <2>1, <2>3 DEF Ahead
    <2> QED BY <2>3, <2>4, <2>5, <2>6
  <1>15. RingLen \in Nat /\ RingLen <= Used /\ Ahead = Used - RingLen
    BY <1>0, RingTypes DEF InStep, Ahead
  <1>16. InStep'
    <2>1. RingLen' <= Used'
      BY <1>3, <1>7, <1>14, <1>15
    <2>2. ASSUME NEW k \in 1 .. RingLen
          PROVE  Ring(k)'.slot = Fwd(rd, Ahead + k - 1) /\ Belongs(T', Ahead + k - 1, Ring(k)')
      <3>1. Ring(k).slot = Fwd(rd, Ahead + k - 1) /\ Belongs(T, Ahead + k - 1, Ring(k))
        BY <1>0 DEF InStep
      <3>2. Ahead + k - 1 \in 0 .. Used - 1 /\ Ahead + k - 1 \in Nat
        BY <1>3, <1>15
      <3>3. \A s \in 0 .. Ahead + k - 1 : T'[s] = T[s]
        BY <1>3, <1>10, <3>2
      <3>4. Belongs(T', Ahead + k - 1, Ring(k))
        BY <3>1, <3>2, <3>3, BelongsStill
      <3> QED BY <1>14, <3>1, <3>4
    <2>3. /\ b.slot = Fwd(rd, Ahead + (RingLen + 1) - 1)
          /\ Belongs(T', Ahead + (RingLen + 1) - 1, b)
      <3>1. Ahead + (RingLen + 1) - 1 = Used
        BY <1>3, <1>15
      <3>2. Belongs(T', Used, b)
        <4>1. Used - nmap \in 0 .. Used
          BY <1>2, <1>3
        <4>2. T'[Used - nmap] = f
          <5>1. CASE nmap = 0
            BY <1>3, <1>10, <5>1
          <5>2. CASE nmap # 0
            <6>1. Used - nmap \in 0 .. Used - 1 /\ nmap > 0
              BY <1>2, <1>3, <5>2
            <6> QED BY <1>2, <1>10, <6>1 DEF f
          <5> QED BY <5>1, <5>2
        <4>3. Used < (Used - nmap) + f.bds
          BY <1>2, <1>3 DEF f
        <4>4. last <=> Used + 1 = (Used - nmap) + f.bds
          BY <1>3 DEF f
        <4> QED BY <1>8, <4>1, <4>2, <4>3, <4>4 DEF Belongs, f
      <3> QED BY <1>6, <1>8, <3>1, <3>2
    <2>4. ASSUME NEW k \in 1 .. RingLen + 1
          PROVE  Ring(k)'.slot = Fwd(rd, Ahead + k - 1) /\ Belongs(T', Ahead + k - 1, Ring(k)')
      <3>1. CASE k = RingLen + 1
        BY <1>14, <2>3, <3>1
      <3>2. CASE k # RingLen + 1
        <4>1. k \in 1 .. RingLen
          BY <1>15, <3>2
        <4> QED BY <2>2, <4>1
      <3> QED BY <3>1, <3>2
    <2>5. \A o \in 0 .. Used : Fwd(rd, o) \in mapped'
      <3>1. ASSUME NEW o \in 0 .. Used PROVE Fwd(rd, o) \in mapped'
        <4>1. CASE o = Used
          BY <1>1, <1>6, <4>1
        <4>2. CASE o # Used
          <5>1. o \in 0 .. Used - 1
            BY <1>3, <4>2
          <5> QED BY <1>0, <1>1, <5>1 DEF InStep
        <4> QED BY <4>1, <4>2
      <3> QED BY <3>1
    <2>6. 0 .. Used' - 1 = 0 .. Used
      BY <1>3, <1>7
    <2> QED BY <1>1, <1>14, <2>1, <2>4, <2>5, <2>6 DEF InStep, Belongs, Fwd
  <1>17. OneInside'
    BY <1>0, <1>1, <1>2, TxAssumption DEF OneInside, Types
  <1>18. Counted'
    <2>1. xmit'[n] = IF last THEN "update" ELSE "map"
      BY <1>0, <1>1 DEF Types
    <2>2. Used' - nmap' = Used - nmap
      BY <1>1, <1>3, <1>7
    <2>3. T'[Used - nmap] = f
      <3>1. CASE nmap = 0
        BY <1>3, <1>10, <3>1
      <3>2. CASE nmap # 0
        <4>1. Used - nmap \in 0 .. Used - 1 /\ nmap > 0
          BY <1>2, <1>3, <3>2
        <4> QED BY <1>2, <1>10, <4>1 DEF f
      <3> QED BY <3>1, <3>2
    <2>4. nmap' <= Used' /\ (~last => nmap' < f.bds)
      BY <1>1, <1>2, <1>3, <1>7 DEF f
    <2>5. f = frame[n] /\ f \in Frames /\ frame' = frame /\ lock' = n
      BY <1>1, <1>2 DEF f
    <2>6. ASSUME NEW m \in Netifs, lock' = m PROVE m = n
      BY <2>5, <2>6
    <2>7. T'[Used' - nmap'] = f
      BY <2>2, <2>3
    <2> QED BY <1>1, <2>1, <2>4, <2>5, <2>6, <2>7 DEF Counted
  <1>19. Room'
    <2>1. ToPut' = f.bds - (nmap + 1)
      <3>1. xmit'[n] = IF last THEN "update" ELSE "map"
        BY <1>0, <1>1 DEF Types
      <3>2. CASE last
        BY <1>1, <1>2, <1>3, <3>1, <3>2 DEF ToPut, f
      <3>3. CASE ~last
        BY <1>1, <1>2, <3>1, <3>3 DEF ToPut, f
      <3> QED BY <3>2, <3>3
    <2>2. Dist(rdSeen, rd)' = Dist(rdSeen, rd)
      BY <1>1 DEF Dist
    <2>3. Used' + Dist(rdSeen, rd) + (f.bds - (nmap + 1)) < D
      BY <1>3, <1>5, <1>7 DEF f
    <2> QED BY <2>1, <2>2, <2>3 DEF Room
  <1>20. Collected'
    <2>1. Collected /\ napi' = napi /\ conf' = conf
      BY <1>1 DEF TxInv, napiVars
    <2>2. CASE Used = 0
      <3>1. napi # "free" /\ Ahead = 0 /\ nmap = 0
        BY <1>2, <1>3, <1>15, <2>1, <2>2 DEF Collected
      <3>2. T'[0] = f /\ f.bds > 0
        BY <1>2, <1>10, <2>2, <3>1, FrameIs DEF f
      <3> QED BY <1>3, <1>14, <2>1, <3>1, <3>2 DEF Collected
    <2>3. CASE Used # 0
      <3>1. T'[0] = T[0] /\ Used > 0 /\ Used' > 0
        BY <1>3, <1>7, <1>10, <2>3
      <3> QED BY <1>14, <2>1, <3>1 DEF Collected
    <2> QED BY <2>2, <2>3
  <1> QED BY <1>9, <1>13, <1>16, <1>17, <1>18, <1>19, <1>20 DEF TxInv

-----------------------------------------------------------------------------
(* wr_idx is advanced over the frame; the hardware sends; the poll looks   *)

\* What has been used is what is in the table, whoever counts it.
LEMMA TableKept ==
    ASSUME UNCHANGED <<rd, skbs, mapped, sent, posted>>, Used' = Used
    PROVE  /\ T' = T /\ RingLen' = RingLen /\ Ahead' = Ahead
           /\ InStep => InStep'
  <1>1. T' = T /\ RingLen' = RingLen /\ Ahead' = Ahead
    BY DEF T, RingLen, Ahead, Fwd
  <1>2. \A k \in 1 .. RingLen : Ring(k)' = Ring(k)
    BY DEF Ring
  <1>3. InStep => InStep'
    BY <1>1, <1>2 DEF InStep, Belongs, Fwd
  <1> QED BY <1>1, <1>3

LEMMA UpdateStep ==
    ASSUME TxInv, NEW n \in Netifs, XmitUpdate(n)
    PROVE  TxInv'
  <1>0. Types /\ OneInside /\ Counted /\ Room
    BY DEF TxInv
  <1>1. /\ xmit[n] = "update" /\ xmit' = [xmit EXCEPT ![n] = "idle"]
        /\ wr' = (wr + frame[n].bds) % D
        /\ lock' = NoFrame /\ nmap' = 0
        /\ frame' = [frame EXCEPT ![n] = NoFrame] /\ pushed' = pushed \ {n}
        /\ UNCHANGED <<rd, rdSeen, skbs, mapped, posted, sent, serial, napi, budget, conf,
                       look, passed, ihc>>
    BY DEF XmitUpdate, Goto, ringVars, napiVars, workVars
  <1>2. lock = n /\ nmap = frame[n].bds /\ NoFrame \notin Netifs
    BY <1>0, <1>1, TxAssumption DEF OneInside, Counted
  <1>3. wr \in Slots /\ nmap \in 0 .. D /\ wr' = Fwd(wr, nmap) /\ wr' \in Slots
    <2>1. wr \in Slots /\ nmap \in 0 .. D
      BY <1>0, RingTypes, Sizes
    <2>2. wr' = Fwd(wr, nmap)
      BY <1>1, <1>2, <2>1, Masked
    <2>3. Fwd(wr, nmap) \in Slots
      BY <2>1, Steps
    <2> QED BY <2>1, <2>2, <2>3
  <1>4. Used' = Used
    <2>1. Fwd(wr', 0) = wr'
      BY <1>3, Steps
    <2>2. Used' = Dist(rd, Fwd(wr', 0))
      BY <1>1 DEF Used, Dist, Fwd
    <2> QED BY <1>3, <2>1, <2>2 DEF Used
  <1>5. T' = T /\ RingLen' = RingLen /\ Ahead' = Ahead /\ InStep'
    BY <1>1, <1>4, TableKept DEF TxInv
  <1>6. Types'
    <2>1. xmit' \in [Netifs -> XmitValues] /\ frame' \in [Netifs -> Frames \cup {NoFrame}]
      BY <1>0, <1>1 DEF Types, TypeOK, XmitValues
    <2>2. 0 \in 0 .. MaxBds
      BY Sizes
    <2> QED BY <1>0, <1>1, <1>3, <2>1, <2>2 DEF Types, TypeOK
  <1>7. xmit \in [Netifs -> XmitValues]
    BY <1>0 DEF Types
  <1>8. OneInside' /\ Counted'
    BY <1>0, <1>1, <1>2, <1>7 DEF OneInside, Counted
  <1>9. Part = 0 /\ Part' = 0 /\ ToPut = 0 /\ ToPut' = 0
    BY <1>1, <1>2 DEF Part, ToPut
  <1>10. Room'
    BY <1>0, <1>1, <1>4, <1>9 DEF Room, Dist
  <1>11. Chain(T, Used)' /\ Whole(T, Used, Part)'
    BY <1>4, <1>5, <1>9 DEF TxInv, Chain, Whole, IsStart
  <1>12. Collected'
    BY <1>1, <1>4, <1>5 DEF TxInv, Collected
  <1> QED BY <1>5, <1>6, <1>8, <1>10, <1>11, <1>12 DEF TxInv

LEMMA HwSendStep ==
    ASSUME TxInv, HwSend
    PROVE  TxInv'
  <1>0. Types /\ posted \in Seq(Buffers) /\ sent \in Seq(Buffers)
    BY DEF TxInv, Types
  <1>1. /\ posted # <<>> /\ sent' = Append(sent, Head(posted)) /\ posted' = Tail(posted)
        /\ UNCHANGED <<wr, rd, rdSeen, skbs, mapped, lock, xmit, frame, nmap, napi, conf>>
    BY DEF HwSend, poolVars, xmitVars, napiVars
  <1>2. Types'
    BY <1>0, OtherTypes
  <1>3. /\ Len(sent) \in Nat /\ Len(posted) \in Nat /\ Len(posted) > 0
        /\ Len(sent') = Len(sent) + 1 /\ Len(posted') = Len(posted) - 1
        /\ \A k \in 1 .. Len(sent) : sent'[k] = sent[k]
        /\ sent'[Len(sent) + 1] = posted[1]
        /\ \A k \in 1 .. Len(posted) - 1 : posted'[k] = posted[k + 1]
    BY <1>0, <1>1
  <1>4. RingLen' = RingLen /\ T' = T /\ Used' = Used /\ Ahead' = Ahead
    <2>1. RingLen' = RingLen
      BY <1>3 DEF RingLen
    <2> QED BY <1>1, <2>1 DEF T, Used, Ahead, Fwd, Dist
  <1>5. ASSUME NEW k \in 1 .. RingLen PROVE Ring(k)' = Ring(k)
    <2>0. k \in Nat /\ k >= 1 /\ k - Len(sent) <= Len(posted)
      BY <1>3 DEF RingLen
    <2>1. CASE k <= Len(sent)
      BY <1>3, <2>0, <2>1 DEF Ring
    <2>2. CASE k = Len(sent) + 1
      <3>1. Ring(k) = posted[1]
        BY <1>3, <2>2 DEF Ring
      <3>2. Ring(k)' = sent'[k]
        BY <1>3, <2>2 DEF Ring
      <3> QED BY <1>3, <2>2, <3>1, <3>2
    <2>3. CASE k > Len(sent) + 1
      <3>1. Ring(k)' = posted'[k - (Len(sent) + 1)]
        BY <1>3, <2>0, <2>3 DEF Ring
      <3>2. Ring(k) = posted[k - Len(sent)]
        BY <1>3, <2>0, <2>3 DEF Ring
      <3>3. k - (Len(sent) + 1) \in 1 .. Len(posted) - 1
        BY <1>3, <2>0, <2>3
      <3>4. (k - (Len(sent) + 1)) + 1 = k - Len(sent)
        BY <1>3, <2>0
      <3> QED BY <1>3, <3>1, <3>2, <3>3, <3>4
    <2> QED BY <1>3, <2>0, <2>1, <2>2, <2>3
  <1>6. InStep'
    BY <1>1, <1>4, <1>5 DEF TxInv, InStep, Belongs, Fwd
  <1>7. OneInside' /\ Counted' /\ Room' /\ Part' = Part
    BY <1>1, <1>4 DEF TxInv, OneInside, Counted, Room, ToPut, Part, Dist
  <1>8. Chain(T, Used)' /\ Whole(T, Used, Part)' /\ Collected'
    BY <1>1, <1>4, <1>7 DEF TxInv, Chain, Whole, IsStart, Collected
  <1> QED BY <1>2, <1>6, <1>7, <1>8 DEF TxInv

\* The steps of the poll and the work that collect nothing.
LEMMA RestStep ==
    ASSUME TxInv,
           \/ NapiStart \/ NapiRoom \/ NapiLook \/ NapiWake \/ NapiEnd
           \/ RdBecomesVisible \/ \E n \in Netifs : WorkCredit(n) \/ WorkWake(n)
    PROVE  TxInv'
  <1>1. Types' /\ UNCHANGED <<wr, rd, skbs, mapped, xmitVars>>
    BY OtherTypes DEF TxInv
  <1>2. UNCHANGED <<wr, rd, skbs, mapped, nmap, sent, posted, lock, xmit, frame>>
    BY <1>1 DEF xmitVars, NapiStart, NapiRoom, NapiLook, NapiWake, NapiEnd, RdBecomesVisible,
      WorkCredit, WorkWake, ringVars
  <1>3. T' = T /\ Used' = Used /\ RingLen' = RingLen /\ Ahead' = Ahead /\ InStep'
    BY <1>2, TableSame DEF TxInv
  <1>4. rdSeen' = rdSeen \/ rdSeen' = rd
    BY DEF NapiStart, NapiRoom, NapiLook, NapiWake, NapiEnd, RdBecomesVisible,
      WorkCredit, WorkWake, poolVars
  <1>5. napi' = "free" => napi = "free" /\ conf' = conf
    BY DEF NapiStart, NapiRoom, NapiLook, NapiWake, NapiEnd, RdBecomesVisible,
      WorkCredit, WorkWake, NapiGoto, napiVars
  <1>6. napi = "free" => napi' = "free"
    BY DEF NapiStart, NapiRoom, NapiLook, NapiWake, NapiEnd, RdBecomesVisible,
      WorkCredit, WorkWake, NapiGoto, napiVars
  <1>7. OneInside' /\ Counted' /\ Part' = Part /\ ToPut' = ToPut
    BY <1>2, <1>3 DEF TxInv, OneInside, Counted, ToPut, Part
  <1>8. Room'
    <2>1. /\ rd \in Slots /\ rdSeen \in Slots /\ Dist(rd, rd) = 0 /\ Used \in 0 .. D - 1
          /\ Dist(rdSeen, rd) \in 0 .. D - 1 /\ D \in Nat
      BY RingTypes, Steps, Sizes DEF TxInv
    <2>2. Dist(rdSeen, rd)' = Dist(rdSeen, rd) \/ Dist(rdSeen, rd)' = 0
      BY <1>2, <1>4, <2>1 DEF Dist
    <2>3. ToPut \in Nat
      BY FrameIs DEF TxInv, Types, TypeOK, Counted, ToPut
    <2>4. Used + Dist(rdSeen, rd) + ToPut < D
      BY DEF TxInv, Room
    <2> HIDE DEF Dist, ToPut, Used
    <2> QED BY <1>3, <1>7, <2>1, <2>2, <2>3, <2>4 DEF Room
  <1>9. Chain(T, Used)' /\ Whole(T, Used, Part)'
    BY <1>3, <1>7 DEF TxInv, Chain, Whole, IsStart
  <1>10. Collected'
    BY <1>3, <1>5, <1>6 DEF TxInv, Collected
  <1> QED BY <1>1, <1>3, <1>7, <1>8, <1>9, <1>10 DEF TxInv

-----------------------------------------------------------------------------
(* The poll gets the confirmation of the first frame and releases it       *)

LEMMA ToPutNat ==
    ASSUME TxInv
    PROVE  ToPut \in Nat
  BY FrameIs DEF TxInv, Types, TypeOK, Counted, ToPut

\* The buffers in the slots of the first frame are in the ring in their order:
\* the last of them, and it only, ends the frame.
LEMMA FirstFrame ==
    ASSUME TxInv, NEW k \in 1 .. RingLen, Ahead + k <= T[0].bds
    PROVE  Ring(k).of = T[0] /\ (Ring(k).last <=> Ahead + k = T[0].bds)
  <1>1. /\ RingLen \in Nat /\ Used \in 0 .. D - 1 /\ D \in Nat /\ T \in Tables
        /\ Ring(k) \in Buffers
    BY RingTypes, Sizes DEF TxInv
  <1>2. /\ RingLen <= Used /\ Ahead = Used - RingLen
        /\ Belongs(T, Ahead + k - 1, Ring(k)) /\ Chain(T, Used)
    BY DEF TxInv, InStep, Ahead
  <1>3. /\ Used \in 1 .. D - 1 /\ Ahead + k - 1 \in 0 .. Used - 1
        /\ 0 \in Slots /\ IsStart(T, 0)
    BY <1>1, <1>2 DEF Chain, Slots
  <1>4. T[0].bds \in Nat
    BY <1>1, <1>3, StartIs
  <1> HIDE DEF T, Used, Ahead, RingLen, Ring
  <1>5. Ahead + k - 1 < T[0].bds /\ (Ahead + k - 1) + 1 = Ahead + k
    BY <1>1, <1>2, <1>4
  <1> QED BY <1>1, <1>2, <1>3, <1>5, BelongsFirst

\* Taking the first m buffers out of the ring.
LEMMA Shifted ==
    ASSUME TxInv, NEW m \in 1 .. Len(sent), sent' = SubSeq(sent, m + 1, Len(sent)),
           UNCHANGED <<wr, rd, skbs, mapped, nmap, posted>>
    PROVE  /\ T' = T /\ Used' = Used /\ RingLen' = RingLen - m /\ Ahead' = Ahead + m
           /\ InStep'
  <1>0. sent \in Seq(Buffers) /\ Len(sent) \in Nat /\ Len(posted) \in Nat /\ m \in Nat
    BY DEF TxInv, Types
  <1>1. /\ Len(sent') = Len(sent) - m
        /\ \A j \in 1 .. Len(sent) - m : sent'[j] = sent[j + m]
    BY <1>0
  <1>2. T' = T /\ Used' = Used
    BY DEF T, Used, Fwd, Dist
  <1>3. RingLen \in Nat /\ Used \in 0 .. D - 1 /\ D \in Nat /\ RingLen <= Used /\ Len(sent) <= RingLen
    BY <1>0, RingTypes, Sizes DEF TxInv, InStep, RingLen
  <1>4. RingLen' = RingLen - m
    BY <1>0, <1>1 DEF RingLen
  <1>5. Ahead' = Ahead + m
    BY <1>0, <1>2, <1>3, <1>4 DEF Ahead
  <1>6. ASSUME NEW j \in 1 .. RingLen - m PROVE Ring(j)' = Ring(j + m)
    <2>0. j \in Nat /\ j >= 1
      BY <1>0, <1>3
    <2>1. CASE j <= Len(sent) - m
      <3>1. j + m <= Len(sent) /\ j \in 1 .. Len(sent) - m
        BY <1>0, <2>0, <2>1
      <3> QED BY <1>1, <2>1, <3>1 DEF Ring
    <2>2. CASE ~(j <= Len(sent) - m)
      <3>1. ~(j + m <= Len(sent)) /\ j - (Len(sent) - m) = j + m - Len(sent)
        BY <1>0, <2>0, <2>2
      <3> QED BY <1>1, <2>2, <3>1 DEF Ring
    <2> QED BY <2>1, <2>2
  <1>7. ASSUME NEW j \in 1 .. RingLen - m
        PROVE  /\ Ring(j)'.slot = Fwd(rd, (Ahead + m) + j - 1)
               /\ Belongs(T, (Ahead + m) + j - 1, Ring(j)')
    <2>1. j + m \in 1 .. RingLen /\ (Ahead + m) + j - 1 = Ahead + (j + m) - 1
      BY <1>0, <1>3 DEF Ahead
    <2>2. /\ Ring(j + m).slot = Fwd(rd, Ahead + (j + m) - 1)
          /\ Belongs(T, Ahead + (j + m) - 1, Ring(j + m))
      BY <2>1 DEF TxInv, InStep
    <2> QED BY <1>6, <2>1, <2>2
  <1>8. RingLen' <= Used'
    BY <1>0, <1>2, <1>3, <1>4
  <1>9. \A o \in 0 .. Used - 1 : Fwd(rd, o) \in mapped
    BY DEF TxInv, InStep
  <1>10. InStep'
    <2>1. \A j \in 1 .. RingLen - m :
            /\ Ring(j)'.slot = Fwd(rd', Ahead' + j - 1)
            /\ Belongs(T', Ahead' + j - 1, Ring(j)')
      BY <1>2, <1>5, <1>7
    <2> HIDE DEF Ring, RingLen, Ahead, Used, T
    <2> QED BY <1>2, <1>4, <1>8, <1>9, <2>1 DEF InStep, Belongs, Fwd
  <1> QED BY <1>2, <1>4, <1>5, <1>10

LEMMA ConfStep ==
    ASSUME TxInv, NapiConf
    PROVE  TxInv'
  <1>0. Types /\ posted \in Seq(Buffers) /\ sent \in Seq(Buffers) /\ Chain(T, Used) /\ Collected
    BY DEF TxInv, Types
  <1>1. /\ napi = "conf"
        /\ UNCHANGED <<wr, rd, rdSeen, skbs, mapped, posted, lock, xmit, frame, nmap, budget>>
    BY DEF NapiConf, NapiGoto, poolVars, xmitVars
  <1>2. Types'
    BY <1>0, OtherTypes
  <1>3. /\ RingLen \in Nat /\ Used \in 0 .. D - 1 /\ D \in Nat /\ RingLen <= Used
        /\ Len(sent) \in Nat /\ Len(sent) <= RingLen /\ Ahead = Used - RingLen
        /\ T \in Tables
    BY <1>0, RingTypes, Sizes DEF TxInv, InStep, RingLen, Ahead
  <1>4. Used > 0 => Ahead < T[0].bds /\ T[0].bds \in Nat
    <2>1. CASE Used > 0
      <3>1. 0 \in Slots /\ IsStart(T, 0)
        BY <1>0, <1>3, <2>1 DEF Chain, Slots
      <3> QED BY <1>0, <1>1, <1>3, <3>1, StartIs DEF Collected
    <2> QED BY <2>1
  <1>5. \A k \in 1 .. Len(sent) : Ring(k) = sent[k] /\ (k \in Ends <=> sent[k].last)
    BY <1>3 DEF Ring, Ends
  \* The buffer in the last slot of the first frame ends it.
  <1>6. ASSUME NEW j \in Nat, j > 0, j <= Len(sent), Ahead + j >= T[0].bds
        PROVE  \E i \in 1 .. j : i \in Ends /\ sent[i].of = T[0] /\ Ahead + i = T[0].bds
    <2> DEFINE i == T[0].bds - Ahead
    <2>1. Used > 0
      BY <1>3, <1>6
    <2>2. i \in 1 .. j /\ i \in 1 .. RingLen /\ i \in 1 .. Len(sent) /\ Ahead + i = T[0].bds
      BY <1>3, <1>4, <1>6, <2>1
    <2> HIDE DEF i
    <2>3. Ring(i).of = T[0] /\ Ring(i).last
      <3>1. Ahead + i <= T[0].bds
        BY <1>4, <2>1, <2>2
      <3> QED BY <2>2, <3>1, FirstFrame
    <2> QED BY <1>5, <2>2, <2>3
  <1>7. CASE budget > 0 /\ Ends # {}
    <2>1. napi' = "free" /\ conf' = sent[FirstEnd].of /\ sent' = SubSeq(sent, FirstEnd + 1, Len(sent))
      BY <1>7 DEF NapiConf, NapiGoto, Ends, FirstEnd
    <2>2. FirstEnd \in 1 .. Len(sent) /\ FirstEnd \in Ends /\ \A j \in Ends : FirstEnd <= j
      BY <1>0, <1>7, FirstEndIs
    <2>3. /\ T' = T /\ Used' = Used /\ RingLen' = RingLen - FirstEnd
          /\ Ahead' = Ahead + FirstEnd /\ InStep'
      BY <1>1, <2>1, <2>2, Shifted
    <2> DEFINE e == FirstEnd
    <2>4. /\ e \in Nat /\ e > 0 /\ e <= Len(sent) /\ e \in 1 .. RingLen /\ Used > 0 /\ sent[e].last
          /\ Ring(e) = sent[e]
      BY <1>3, <1>5, <2>2
    <2> HIDE DEF e
    <2>5. Ahead + e <= T[0].bds
      <3>1. SUFFICES ASSUME ~(Ahead + e <= T[0].bds) PROVE FALSE
        OBVIOUS
      <3>2. Ahead + e >= T[0].bds
        BY <1>3, <1>4, <2>4, <3>1
      <3>3. PICK i \in 1 .. e : i \in Ends /\ Ahead + i = T[0].bds
        BY <1>6, <2>4, <3>2
      <3>4. e <= i
        BY <2>2, <3>3 DEF e
      <3> QED BY <1>3, <1>4, <2>4, <3>1, <3>3, <3>4
    <2>6. sent[e].of = T[0] /\ Ahead + e = T[0].bds
      BY <2>4, <2>5, FirstFrame
    <2>7. Collected'
      BY <2>1, <2>3, <2>4, <2>6 DEF Collected, e
    <2> QED BY <1>1, <1>2, <2>3, <2>7
      DEF TxInv, OneInside, Counted, Room, ToPut, Part, Dist, Chain, Whole, IsStart
  <1>8. CASE ~(budget > 0 /\ Ends # {})
    <2>1. napi' = "room" /\ sent' = IF budget > 0 THEN <<>> ELSE sent
      BY <1>8 DEF NapiConf, NapiGoto, Ends
    <2>2. CASE sent' = sent
      <3>1. T' = T /\ Used' = Used /\ RingLen' = RingLen /\ Ahead' = Ahead /\ InStep'
        BY <1>1, <2>2, TableSame DEF TxInv
      <3>2. Collected'
        BY <1>4, <2>1, <3>1 DEF Collected
      <3> QED BY <1>1, <1>2, <3>1, <3>2
        DEF TxInv, OneInside, Counted, Room, ToPut, Part, Dist, Chain, Whole, IsStart
    <2>3. CASE sent' # sent
      <3>1. sent' = <<>> /\ Ends = {} /\ sent # <<>>
        BY <1>8, <2>1, <2>3
      <3>2. Len(sent) \in 1 .. Len(sent)
        BY <1>0, <3>1
      <3>3. SubSeq(sent, Len(sent) + 1, Len(sent)) = <<>>
        BY <1>0
      <3>4. /\ T' = T /\ Used' = Used /\ RingLen' = RingLen - Len(sent)
            /\ Ahead' = Ahead + Len(sent) /\ InStep'
        BY <1>1, <3>1, <3>2, <3>3, Shifted
      <3>5. ~(Ahead + Len(sent) >= T[0].bds)
        BY <1>3, <1>6, <3>1, <3>2
      <3>6. Used > 0 => Ahead + Len(sent) < T[0].bds
        BY <1>3, <1>4, <3>5
      <3>7. Collected'
        BY <2>1, <3>4, <3>6 DEF Collected
      <3> QED BY <1>1, <1>2, <3>4, <3>7
        DEF TxInv, OneInside, Counted, Room, ToPut, Part, Dist, Chain, Whole, IsStart
    <2> QED BY <2>2, <2>3
  <1> QED BY <1>7, <1>8

LEMMA FreeStep ==
    ASSUME TxInv, NapiFree
    PROVE  TxInv'
  <1> DEFINE f == T[0]
             b == T[0].bds
  <1>0. Types /\ OneInside /\ Counted /\ Chain(T, Used) /\ Whole(T, Used, Part) /\ InStep
    BY DEF TxInv
  <1>1. /\ RingLen \in Nat /\ Used \in 0 .. D - 1 /\ D \in Nat /\ RingLen <= Used
        /\ Ahead = Used - RingLen /\ T \in Tables /\ wr \in Slots /\ rd \in Slots
        /\ rdSeen \in Slots /\ nmap \in 0 .. MaxBds /\ Fwd(wr, nmap) \in Slots
        /\ Dist(rdSeen, rd) \in 0 .. D - 1
        /\ \A k \in 1 .. RingLen : Ring(k) \in Buffers
    BY <1>0, RingTypes, Sizes DEF InStep, Ahead
  <1>2. /\ napi = "free" /\ napi' = "conf" /\ budget' = budget - 1 /\ budget > 0
        /\ UNCHANGED <<wr, posted, sent, lock, xmit, frame, pushed, nmap, serial, look, passed,
                       ihc>>
    BY <1>0 DEF NapiFree, NapiGoto, ringVars, xmitVars, workVars, Types
  <1>3. Used > 0 /\ Ahead = b
    BY <1>2 DEF TxInv, Collected
  <1>4. /\ 0 \in Slots /\ IsStart(T, 0) /\ f \in Frames /\ b \in Nat /\ b > 0 /\ b < D
        /\ b <= Used /\ Used \in 1 .. D - 1
    <2>1. 0 \in Slots /\ IsStart(T, 0) /\ Used \in 1 .. D - 1
      BY <1>0, <1>1, <1>3 DEF Chain, Slots
    <2> QED BY <1>1, <1>3, <2>1, StartIs
  <1>5. skbs[rd] = f
    <2>1. Fwd(rd, 0) = rd
      BY <1>1, Steps
    <2> QED BY <1>4, <2>1 DEF T
  <1>6. /\ mapped' = mapped \ {(rd + j) % D : j \in 0 .. b - 1}
        /\ rd' = (rd + b) % D
        /\ rdSeen' = rdSeen \/ rdSeen' = rd'
        /\ skbs' = [skbs EXCEPT ![rd] = NoFrame]
    BY <1>5 DEF NapiFree, FreeSlots
  <1> HIDE DEF b, f
  <1>7. rd' = Fwd(rd, b) /\ rd' \in Slots /\ b \in 0 .. D - 1
    <2>1. b \in 0 .. D /\ b \in 0 .. D - 1
      BY <1>1, <1>4
    <2>2. Fwd(rd, b) \in Slots
      BY <1>1, <2>1, Steps
    <2> QED BY <1>1, <1>6, <2>1, <2>2, Masked
  <1>8. Used' = Used - b
    <2>1. Used' = Dist(Fwd(rd, b), Fwd(wr, nmap))
      BY <1>2, <1>7 DEF Used, Dist, Fwd
    <2>2. b <= Dist(rd, Fwd(wr, nmap))
      BY <1>4 DEF Used
    <2> QED BY <1>1, <1>7, <2>1, <2>2, Steps DEF Used
  <1>9. Types'
    <2>1. budget' \in 0 .. TxWork
      <3>1. TxWork \in Nat /\ budget \in 0 .. TxWork
        BY <1>0, Sizes DEF Types, TypeOK, TxWork
      <3> QED BY <1>2, <3>1
    <2>2. skbs' \in [Slots -> Frames \cup {NoFrame}]
      BY <1>0, <1>1, <1>6 DEF Types, TypeOK
    <2>3. rdSeen' \in Slots /\ mapped' \subseteq Slots
      BY <1>0, <1>1, <1>6, <1>7 DEF Types, TypeOK
    <2> QED BY <1>0, <1>2, <1>7, <2>1, <2>2, <2>3 DEF Types, TypeOK, NapiValues
  <1>10. T' \in Tables
    <2>1. T' = [o \in Slots |-> skbs'[Fwd(rd', o)]]
      BY DEF T, Fwd
    <2>2. \A o \in Slots : Fwd(rd', o) \in Slots
      <3>1. \A o \in Slots : o \in 0 .. D
        BY Sizes DEF Slots
      <3> QED BY <1>7, <3>1, Steps
    <2>3. skbs' \in [Slots -> Frames \cup {NoFrame}]
      BY <1>9 DEF Types, TypeOK
    <2> QED BY <2>1, <2>2, <2>3 DEF Tables
  \* What was behind the first frame begins at rd_idx now.
  <1>11. ASSUME NEW o \in 0 .. Used - b - 1
         PROVE  Fwd(rd', o) = Fwd(rd, o + b) /\ T'[o] = T[o + b] /\ o + b \in 0 .. Used - 1
    <2>1. /\ o \in 0 .. D /\ b \in 0 .. D /\ b + o <= D /\ o + b = b + o /\ o \in Slots
          /\ o + b \in Slots /\ o + b \in 0 .. D - 1 /\ o + b # 0 /\ 0 \in 0 .. D - 1
          /\ o + b \in 0 .. Used - 1 /\ o + b \in 0 .. D
      BY <1>1, <1>4 DEF Slots
    <2>2. Fwd(rd', o) = Fwd(rd, o + b)
      BY <1>1, <1>7, <2>1, TwoSteps
    <2>3. Fwd(rd, o + b) # rd /\ Fwd(rd, o + b) \in Slots
      <3>1. Fwd(rd, 0) = rd
        BY <1>1, Steps
      <3>2. Fwd(rd, o + b) # Fwd(rd, 0)
        BY <1>1, <2>1, Distinct
      <3> QED BY <1>1, <2>1, <3>1, <3>2, Steps
    <2>4. T'[o] = skbs'[Fwd(rd', o)]
      BY <2>1 DEF T, Fwd
    <2>5. T[o + b] = skbs[Fwd(rd, o + b)]
      BY <2>1 DEF T
    <2>6. skbs \in [Slots -> Frames \cup {NoFrame}]
      BY <1>0 DEF Types, TypeOK
    <2> QED BY <1>6, <2>1, <2>2, <2>3, <2>4, <2>5, <2>6
  <1>12. Part' = Part /\ ToPut' = ToPut /\ Part \in Nat
    BY <1>1, <1>2 DEF Part, ToPut
  <1>13. Chain(T, Used)' /\ Whole(T, Used, Part)'
    <2>1. \A o \in 0 .. Used - T[0].bds - 1 : T'[o] = T[o + T[0].bds]
      BY <1>11 DEF b
    <2>2. T[0].bds <= Used
      BY <1>4 DEF b
    <2>3. Chain(T', Used - T[0].bds) /\ Whole(T', Used - T[0].bds, Part)
      BY <1>0, <1>1, <1>4, <1>10, <1>12, <2>1, <2>2, WithoutFirst
    <2>4. Chain(T', Used') /\ Whole(T', Used', Part')
      BY <1>8, <1>12, <2>3 DEF b
    <2> QED BY <2>4 DEF Chain, Whole, IsStart
  <1>14. OneInside'
    BY <1>0, <1>2 DEF OneInside
  \* The first frame is whole: it is not the one that is being put in.
  <1>15. Counted'
    <2>1. ASSUME NEW n \in Netifs, lock = n, xmit[n] = "map"
          PROVE  nmap <= Used' /\ (nmap > 0 => T'[Used' - nmap] = frame[n])
      <3>1. /\ frame[n] \in Frames /\ nmap < frame[n].bds /\ nmap <= Used
            /\ nmap > 0 => T[Used - nmap] = frame[n]
        BY <1>0, <2>1 DEF Counted
      <3>2. CASE nmap = 0
        BY <1>4, <1>8, <3>2
      <3>3. CASE nmap # 0
        <4> DEFINE i == Used - nmap
        <4>0. nmap \in Nat /\ nmap > 0 /\ frame[n].bds \in Nat /\ i \in Nat /\ i = Used - nmap
          BY <1>1, <3>1, <3>3, FrameIs
        <4>1. T[i] = frame[n] /\ IsStart(T, i) /\ i \in 0 .. Used - 1
          BY <1>1, <3>1, <4>0, FrameIs DEF IsStart
        <4> HIDE DEF i
        <4>2. i # 0
          <5>1. SUFFICES ASSUME i = 0 PROVE FALSE
            OBVIOUS
          <5>2. b = frame[n].bds
            BY <4>1, <5>1 DEF b
          <5> QED BY <1>1, <1>4, <3>1, <4>0, <5>1, <5>2
        <4>3. ~(i < b)
          <5>1. SUFFICES ASSUME i < b PROVE FALSE
            OBVIOUS
          <5>2. 0 < i /\ i < 0 + T[0].bds /\ 0 \in 0 .. Used - 1
            BY <1>1, <1>4, <4>0, <4>2, <5>1 DEF b
          <5> QED BY <1>0, <1>4, <4>1, <5>2 DEF Chain
        <4>4. /\ i - b \in 0 .. Used - b - 1 /\ (i - b) + b = i /\ Used' - nmap = i - b
              /\ nmap <= Used'
          BY <1>1, <1>4, <1>8, <4>0, <4>1, <4>3
        <4>5. T'[i - b] = T[i]
          BY <1>11, <4>4
        <4> QED BY <4>1, <4>4, <4>5
      <3> QED BY <3>2, <3>3
    <2>2. lock' = lock /\ xmit' = xmit /\ frame' = frame /\ nmap' = nmap
      BY <1>2
    <2> HIDE DEF Used, T
    <2> QED BY <1>0, <2>1, <2>2 DEF Counted
  <1>16. Room'
    <2>1. Used + Dist(rdSeen, rd) + ToPut < D /\ ToPut \in Nat
      BY ToPutNat DEF TxInv, Room
    <2>2. CASE rdSeen' = rdSeen
      <3>1. Dist(rdSeen, rd) + b < D
        BY <1>1, <1>4, <2>1
      <3>2. Dist(rdSeen, Fwd(rd, b)) = Dist(rdSeen, rd) + b
        BY <1>1, <1>7, <3>1, Steps
      <3>3. Dist(rdSeen, rd)' = Dist(rdSeen, rd) + b
        BY <1>7, <2>2, <3>2 DEF Dist
      <3>4. Used' + (Dist(rdSeen, rd) + b) + ToPut < D
        BY <1>1, <1>4, <1>8, <2>1
      <3> QED BY <1>12, <3>3, <3>4 DEF Room
    <2>3. CASE rdSeen' = rd'
      <3>1. Dist(rdSeen, rd)' = 0
        BY <1>7, <2>3 DEF Dist, Slots
      <3>2. Used' + 0 + ToPut < D
        BY <1>1, <1>4, <1>8, <2>1
      <3> QED BY <1>12, <3>1, <3>2 DEF Room
    <2> QED BY <1>6, <2>2, <2>3
  <1>17. /\ RingLen' = RingLen /\ Ahead' = 0 /\ RingLen = Used - b
         /\ \A k \in 1 .. RingLen : Ring(k)' = Ring(k)
    <2>1. RingLen' = RingLen /\ \A k \in 1 .. RingLen : Ring(k)' = Ring(k)
      BY <1>2 DEF RingLen, Ring
    <2>2. RingLen = Used - b
      BY <1>1, <1>3, <1>4
    <2> QED BY <1>1, <1>4, <1>8, <2>1, <2>2 DEF Ahead
  <1>18. InStep'
    <2>1. ASSUME NEW k \in 1 .. RingLen
          PROVE  /\ Ring(k)'.slot = Fwd(rd', 0 + k - 1)
                 /\ Belongs(T', 0 + k - 1, Ring(k)')
      <3>1. /\ Ring(k).slot = Fwd(rd, Ahead + k - 1)
            /\ Belongs(T, Ahead + k - 1, Ring(k)) /\ Ring(k) \in Buffers
        BY <1>0, <1>1 DEF InStep
      <3>2. /\ k - 1 \in 0 .. Used - b - 1 /\ Ahead + k - 1 = (k - 1) + b /\ 0 + k - 1 = k - 1
            /\ (k - 1) + b \in 0 .. Used - 1 /\ b <= (k - 1) + b /\ ((k - 1) + b) - b = k - 1
        BY <1>1, <1>3, <1>4, <1>17
      <3>3. Fwd(rd', k - 1) = Fwd(rd, (k - 1) + b)
        BY <1>11, <3>2
      <3>4. \A i \in 0 .. Used - T[0].bds - 1 : T'[i] = T[i + T[0].bds]
        BY <1>11 DEF b
      <3>5. Belongs(T', ((k - 1) + b) - b, Ring(k))
        <4>1. \A o \in 0 .. Used - 1 :
                 Belongs(T, o, Ring(k)) /\ T[0].bds <= o => Belongs(T', o - T[0].bds, Ring(k))
          BY <1>0, <1>1, <1>4, <3>1, <3>4, BelongsBehind
        <4> QED BY <3>1, <3>2, <4>1 DEF b
      <3> QED BY <1>17, <3>1, <3>2, <3>3, <3>5
    <2>2. ASSUME NEW o \in 0 .. Used - b - 1 PROVE Fwd(rd', o) \in mapped'
      <3>1. Fwd(rd', o) = Fwd(rd, o + b) /\ o + b \in 0 .. Used - 1
        BY <1>11
      <3>2. Fwd(rd, o + b) \in mapped
        BY <1>0, <3>1 DEF InStep
      <3>3. ASSUME NEW j \in 0 .. b - 1 PROVE Fwd(rd, o + b) # (rd + j) % D
        <4>1. j \in 0 .. D /\ j \in 0 .. D - 1 /\ o + b \in 0 .. D - 1 /\ j # o + b
          BY <1>1, <1>4, <3>1
        <4>2. (rd + j) % D = Fwd(rd, j)
          BY <1>1, <4>1, Masked
        <4> QED BY <1>1, <4>1, <4>2, Distinct
      <3> QED BY <1>6, <3>1, <3>2, <3>3
    <2>3. RingLen' <= Used' /\ RingLen' = RingLen /\ Ahead' = 0 /\ Used' - 1 = Used - b - 1
      BY <1>1, <1>4, <1>8, <1>17
    <2>4. \A k \in 1 .. RingLen' : /\ Ring(k)'.slot = Fwd(rd', Ahead' + k - 1)
                                   /\ Belongs(T', Ahead' + k - 1, Ring(k)')
      BY <2>1, <2>3
    <2>5. \A o \in 0 .. Used' - 1 : Fwd(rd', o) \in mapped'
      BY <2>2, <2>3
    <2> HIDE DEF Ring, RingLen, Ahead, Used, T
    <2> QED BY <2>3, <2>4, <2>5 DEF InStep, Belongs, Fwd
  <1>19. Collected'
    <2>1. CASE Used' > 0
      <3>1. IsStart(T', 0)
        BY <1>13, <2>1 DEF Chain, IsStart
      <3>2. T'[0].bds > 0
        BY <1>4, <1>10, <3>1, StartIs
      <3> QED BY <1>2, <1>17, <3>2 DEF Collected
    <2>2. CASE ~(Used' > 0)
      BY <1>2, <2>2 DEF Collected
    <2> QED BY <2>1, <2>2
  <1> QED BY <1>9, <1>13, <1>14, <1>15, <1>16, <1>18, <1>19 DEF TxInv

-----------------------------------------------------------------------------
(* Theorems                                                                *)

LEMMA TxInit == Init => TxInv
  <1> SUFFICES ASSUME Init PROVE TxInv
    OBVIOUS
  <1>0. /\ 0 \in Slots /\ 0 \in 0 .. MaxBds /\ D \in Nat /\ Serials \in Nat \ {0}
        /\ TxWork \in Nat
    BY Sizes, TxAssumption DEF Slots, TxWork
  <1>1. Types
    <2>1. posted \in Seq(Buffers) /\ sent \in Seq(Buffers)
      BY DEF Init
    <2>2. /\ skbs \in [Slots -> Frames \cup {NoFrame}]
          /\ frame \in [Netifs -> Frames \cup {NoFrame}]
          /\ xmit \in [Netifs -> XmitValues] /\ napi \in NapiValues
      BY DEF Init, XmitValues, NapiValues
    <2>3. serial \in [Senders -> Nat] /\ \A n \in Netifs : serial[n] < Serials
      BY <1>0 DEF Init, Senders
    <2>4. TypeOK
      <3>1. wr \in Slots /\ rd \in Slots /\ rdSeen \in Slots /\ mapped \subseteq Slots
        BY <1>0 DEF Init
      <3>2. /\ lock \in Senders \cup {NoFrame} /\ pushed \subseteq Netifs
            /\ nmap \in 0 .. MaxBds /\ look \subseteq Netifs /\ passed \in BOOLEAN
        BY <1>0 DEF Init
      <3>3. budget \in 0 .. TxWork
        BY <1>0 DEF Init
      <3> QED BY <2>2, <3>1, <3>2, <3>3 DEF TypeOK
    <2>5. ihc = "idle" /\ napi # "free"
      BY DEF Init
    <2> QED BY <2>1, <2>2, <2>3, <2>4, <2>5 DEF Types
  <1>2. Used = 0 /\ Dist(rdSeen, rd) = 0
    BY Sizes DEF Init, Used, Fwd, Dist
  <1>3. RingLen = 0 /\ Ahead = 0
    <2>1. Len(sent) = 0 /\ Len(posted) = 0
      BY DEF Init
    <2> QED BY <1>2, <2>1 DEF RingLen, Ahead
  <1>4. OneInside /\ Counted /\ Part = 0 /\ ToPut = 0
    BY TxAssumption DEF Init, OneInside, Counted, Part, ToPut
  <1>5. Room
    BY <1>2, <1>4, Sizes DEF Room
  <1>6. Chain(T, Used) /\ Whole(T, Used, Part) /\ Collected
    BY <1>2 DEF Init, Chain, Whole, Collected
  <1>7. InStep
    BY <1>2, <1>3 DEF InStep
  <1> QED BY <1>1, <1>4, <1>5, <1>6, <1>7 DEF TxInv

LEMMA TxNext ==
    ASSUME Undisturbed, TxInv, [Next]_vars
    PROVE  TxInv'
  <1>1. ASSUME NEW n \in Netifs, XmitStart(n) \/ XmitStep(n)
        PROVE  TxInv'
    <2>1. CASE Aside(n)
      BY <2>1, AsideStep
    <2>2. CASE XmitMap(n)
      BY <2>2, MapStep
    <2>3. CASE XmitUpdate(n)
      BY <2>3, UpdateStep
    <2>4. CASE XmitMapFails(n)
      BY <2>4 DEF XmitMapFails, Undisturbed
    <2>5. CASE XmitTxFails(n)
      BY <2>5, RingNeverFull DEF XmitTxFails
    <2> QED BY <1>1, <2>1, <2>2, <2>3, <2>4, <2>5 DEF XmitStep, Aside
  <1>2. CASE HwSend
    BY <1>2, HwSendStep
  <1>3. CASE Napi
    <2>1. CASE NapiConf
      BY <2>1, ConfStep
    <2>2. CASE NapiFree
      BY <2>2, FreeStep
    <2>3. CASE ~NapiConf /\ ~NapiFree
      BY <1>3, <2>3, RestStep DEF Napi
    <2> QED BY <2>1, <2>2, <2>3
  <1>4. CASE RdBecomesVisible \/ \E n \in Netifs : WorkCredit(n) \/ WorkWake(n)
    BY <1>4, RestStep
  <1>5. CASE IhcStart \/ IhcMapFails \/ IhcWork
    BY <1>5, WorkerRests DEF TxInv
  <1>6. CASE UNCHANGED vars
    <2>1. UNCHANGED <<wr, rd, rdSeen, skbs, mapped, nmap, sent, posted, lock, xmit, frame,
                      napi, conf>>
      BY <1>6 DEF vars
    <2>2. T' = T /\ Used' = Used /\ RingLen' = RingLen /\ Ahead' = Ahead /\ InStep'
      BY <2>1, TableSame DEF TxInv
    <2>3. Types'
      BY <1>6 DEF TxInv, Types, TypeOK, vars
    <2> QED BY <2>1, <2>2, <2>3
      DEF TxInv, OneInside, Counted, Room, ToPut, Part, Dist, Chain, Whole, IsStart, Collected
  <1> QED BY <1>1, <1>2, <1>3, <1>4, <1>5, <1>6 DEF Next

\* While every buffer can be mapped and the worker does not use the channel
\* the table and the ring are in step, for every length of the ring, every
\* number of buffers of a frame and every number of interfaces.
THEOREM TableInStep == ASSUME Undisturbed PROVE Spec => []TableInv
  <1>1. Init => TxInv
    BY TxInit
  <1>2. TxInv /\ [Next]_vars => TxInv'
    BY TxNext
  <1>3. TxInv => TableInv
    <2> SUFFICES ASSUME TxInv PROVE TableInv
      OBVIOUS
    <2>1. TypeOK
      BY DEF TxInv, Types
    <2>2. RingKeepsAGap
      BY RingNeverFull, RingTypes DEF TxInv, RingKeepsAGap, RingLen
    <2>3. ASSUME NEW k \in DOMAIN posted PROVE posted[k].slot \in mapped
      <3>0. /\ Len(sent) \in Nat /\ Len(posted) \in Nat /\ RingLen \in Nat /\ RingLen <= Used
            /\ Used \in 0 .. D - 1 /\ D \in Nat /\ posted \in Seq(Buffers)
            /\ Ahead = Used - RingLen
        BY RingTypes, RingNeverFull, Sizes DEF TxInv, Types, Ahead
      <3> DEFINE j == Len(sent) + k
      <3>1. k \in 1 .. Len(posted) /\ k \in Nat /\ k > 0 /\ j \in 1 .. RingLen /\ ~(j <= Len(sent))
            /\ j - Len(sent) = k
        BY <3>0 DEF RingLen
      <3>2. Ring(j) = posted[k]
        BY <3>1 DEF Ring
      <3> HIDE DEF j
      <3>3. Ring(j).slot = Fwd(rd, Ahead + j - 1)
        BY <3>1 DEF TxInv, InStep
      <3>4. Ahead + j - 1 \in 0 .. Used - 1
        BY <3>0, <3>1
      <3> QED BY <3>2, <3>3, <3>4 DEF TxInv, InStep
    <2> QED BY <2>1, <2>2, <2>3 DEF TableInv, InFlightIsMapped
  <1> QED BY <1>1, <1>2, <1>3, PTL DEF Spec

\* Then what the poll releases is the frame the hardware has confirmed, also
\* when it collects a frame over which wr_idx has not been advanced yet.
THEOREM ReleasedIsConfirmed == ASSUME Undisturbed PROVE Spec => []FreedIsConfirmed
  <1>1. Init => TxInv
    BY TxInit
  <1>2. TxInv /\ [Next]_vars => TxInv'
    BY TxNext
  <1>3. TxInv => FreedIsConfirmed
    <2> SUFFICES ASSUME TxInv, napi = "free" PROVE skbs[rd] = conf
      BY DEF FreedIsConfirmed
    <2>1. 0 \in Slots /\ rd \in Slots /\ Fwd(rd, 0) = rd
      BY RingTypes, Steps, Sizes DEF TxInv, Slots
    <2> QED BY <2>1 DEF TxInv, Collected, T
  <1> QED BY <1>1, <1>2, <1>3, PTL DEF Spec

\* Whatever fails, and whoever uses the channel, also when the worker gives back
\* a lock that another holds: who holds the lock is inside of a transmission,
\* so that it is free when nobody is.
LockInv == LockReleased /\ xmit \in [Netifs -> XmitValues]

THEOREM LockIsReleased == Spec => []LockReleased
  <1>1. Init => LockInv
    BY TxAssumption DEF Init, LockInv, LockReleased, XmitValues
  <1>2. LockInv /\ [Next]_vars => LockInv'
    <2> SUFFICES ASSUME LockInv, [Next]_vars PROVE LockInv'
      OBVIOUS
    <2>0. NoFrame \notin Netifs /\ IhcWorker \notin Netifs /\ NoFrame # IhcWorker
      BY TxAssumption
    <2>1. ASSUME NEW n \in Netifs, XmitStart(n) PROVE LockInv'
      BY <2>0, <2>1 DEF LockInv, LockReleased, XmitStart, Goto, workVars, XmitValues
    <2>2. ASSUME NEW n \in Netifs, XmitStep(n) PROVE LockInv'
      <3>1. ihc' = ihc /\ lock' \in {lock, NoFrame}
        BY <2>2 DEF XmitStep, XmitCheck, XmitNoRoom, XmitRecheck, XmitCredit, XmitStop,
          XmitSchedule, XmitMap, XmitMapFails, XmitTxFails, XmitUpdate, Busy, workVars
      \* It stays inside, or it gives the lock back.
      <3>2. \E to \in XmitValues : /\ xmit' = [xmit EXCEPT ![n] = to]
                                   /\ to = "idle" => lock' = NoFrame
        <4>1. CASE XmitCheck(n) \/ XmitNoRoom(n) \/ XmitRecheck(n) \/ XmitCredit(n)
          BY <4>1 DEF XmitCheck, XmitNoRoom, XmitRecheck, XmitCredit, Busy, Goto, XmitValues
        <4>2. CASE XmitStop(n) \/ XmitSchedule(n) \/ XmitMap(n) \/ XmitMapFails(n)
          BY <4>2 DEF XmitStop, XmitSchedule, XmitMap, XmitMapFails, Busy, Goto, XmitValues
        <4>3. CASE XmitTxFails(n) \/ XmitUpdate(n)
          BY <4>3 DEF XmitTxFails, XmitUpdate, Busy, Goto, XmitValues
        <4> QED BY <2>2, <4>1, <4>2, <4>3 DEF XmitStep
      <3>3. PICK to \in XmitValues : /\ xmit' = [xmit EXCEPT ![n] = to]
                                     /\ to = "idle" => lock' = NoFrame
        BY <3>2
      <3> QED BY <2>0, <3>1, <3>3 DEF LockInv, LockReleased
    <2>3. CASE IhcStart \/ IhcMapFails \/ IhcWork
      BY <2>0, <2>3 DEF LockInv, LockReleased, IhcStart, IhcMapFails, IhcWork, IhcPut,
        IhcTxFails, IhcUpdate, IhcGoto, xmitVars
    <2>4. CASE HwSend \/ Napi \/ RdBecomesVisible \/ \E n \in Netifs : WorkCredit(n) \/ WorkWake(n)
      <3>1. UNCHANGED <<lock, xmit, ihc>>
        BY <2>4 DEF HwSend, Napi, NapiStart, NapiConf, NapiFree, NapiRoom, NapiLook, NapiWake,
          NapiEnd, RdBecomesVisible, WorkCredit, WorkWake, xmitVars, workVars
      <3> QED BY <3>1 DEF LockInv, LockReleased
    <2>5. CASE UNCHANGED vars
      BY <2>5 DEF vars, LockInv, LockReleased
    <2> QED BY <2>1, <2>2, <2>3, <2>4, <2>5 DEF Next
  <1>3. LockInv => LockReleased
    BY DEF LockInv
  <1> QED BY <1>1, <1>2, <1>3, PTL DEF Spec
=============================================================================
