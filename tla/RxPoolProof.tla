---------------------------- MODULE RxPoolProof ----------------------------
(***************************************************************************)
(* The receive buffers of a channel, for every length of the ring, every   *)
(* threshold of the refill, every width of the indices that the length     *)
(* divides, and any number of pages: what the hardware writes into is not  *)
(* in use, no reference is lost but those of the pages that a refill left  *)
(* behind, the ring runs dry for lack of memory only, and frames are cut   *)
(* at the first buffer of one.                                             *)
(***************************************************************************)
EXTENDS RxPool, Integers, FiniteSetTheorems, SequenceTheorems, TLAPS

-----------------------------------------------------------------------------
(* The invariant                                                           *)

\* The slot k further on in the table.
Fwd(a, k) == IF a + k < Depth THEN a + k ELSE a + k - Depth

\* The slot of rd_idx, the buffers of the hardware from there, and the pages
\* behind them that were recycled since the last refill.
R == Slot(rd)
N == Diff(wr, rd)
M == Diff(alloc, wr)

\* The table from rd_idx on.
T == [o \in Slots |-> tbl[Fwd(R, o)]]

\* The hardware's slots and the recycled ones hold a page each.
Window ==
    /\ N + M < Depth
    /\ pc # "down" => /\ Len(bd) = N
                      /\ \A i \in 1 .. N : bd[i] = T[i - 1]
                      /\ \A o \in 0 .. N + M - 1 : T[o].page # NoPage
    /\ pc = "down" => bd = <<>> /\ \A o \in Slots : T[o] = Empty

\* Another slot that holds a page is one that a refill left behind.
Behind == \A o \in Slots : T[o].page # NoPage => o < N + M \/ T[o].page \in left

\* A page is in one slot, with the half that nobody else holds.
Apart ==
    /\ \A o, i \in Slots : o # i /\ T[o].page # NoPage => T[o].page # T[i].page
    /\ \A o \in Slots : T[o] \notin Held

\* No half is with the stack and in the frame that is gathered, or twice in it.
Once ==
    /\ stack \cap Range(skb) = {}
    /\ \A i, j \in 1 .. Len(skb) : skb[i] = skb[j] => i = j

One(b) == IF b THEN 1 ELSE 0
InTbl(p) == \E o \in Slots : T[o].page = p
HalfHeld(p, o) == [page |-> p, off |-> o] \in Held
Uses(p) == One(InTbl(p)) + One(HalfHeld(p, 0)) + One(HalfHeld(p, 1))

\* The references are counted, but that of a page that was overwritten.
Counted ==
    \A p \in Pages : \/ refs[p] = Uses(p)
                     \/ refs[p] = Uses(p) + 1 /\ p \in left /\ ~InTbl(p)

\* at[i]: how many buffers of its frame there were before the i-th of those
\* that have been written; at[Len(got) + 1] is that of the next.
Cut(at) ==
    /\ at[Len(got) + 1] = frag
    /\ \A i \in 1 .. Len(got) :
        /\ got[i].first <=> at[i] = 0
        /\ at[i + 1] = IF got[i].last THEN 0 ELSE at[i] + 1
    /\ at[1] = 0 <=> skb = <<>> /\ ~headless
    /\ at[1] >= Len(skb)

Frames == pc # "down" => \E at \in [1 .. Len(got) + 1 -> 0 .. MaxBufs - 1] : Cut(at)

\* Unless a refill ran out of memory the ring has buffers for one more frame.
Stocked ==
    ~failed => /\ pc = "loop" => N >= Depth - Thr - Len(skb)
               /\ pc = "idle" => N >= Depth - Thr - MaxBufs

Types ==
    /\ TypeOK
    /\ pc = "off" => N = 0 /\ M = 0

RxInv == Types /\ Window /\ Behind /\ Apart /\ Once /\ Counted /\ Frames /\ Stocked

-----------------------------------------------------------------------------
(* Indices that count modulo W, slots that count modulo Depth              *)

LEMMA Sizes ==
    /\ Depth \in Nat /\ Thr \in Nat /\ MaxBufs \in Nat /\ W \in Nat
    /\ Thr > 0 /\ MaxBufs > 0 /\ MaxBufs <= Thr /\ Thr + MaxBufs < Depth
    /\ W >= Depth /\ NoPage \notin Pages
  <1>1. /\ Depth \in Nat /\ Thr \in Nat \ {0} /\ MaxBufs \in Nat \ {0} /\ W \in Nat \ {0}
        /\ MaxBufs <= Thr /\ Thr + MaxBufs < Depth /\ W % Depth = 0 /\ NoPage \notin Pages
    BY RxPoolAssumption
  <1>2. W >= Depth
    BY <1>1
  <1> QED BY <1>1, <1>2

\* Only one remainder is less than the divisor.
LEMMA OneRemainder ==
    ASSUME NEW d \in Nat \ {0}, NEW p \in Int, NEW q \in Int, NEW r \in 0 .. d - 1,
           NEW s \in 0 .. d - 1, p * d + r = q * d + s
    PROVE  r = s
  <1>1. (p - q) * d = s - r
    OBVIOUS
  <1>2. CASE p - q > 0
    <2>1. (p - q) * d >= d
      BY <1>2
    <2> QED BY <1>1, <2>1
  <1>3. CASE p - q < 0
    <2>1. (p - q) * d <= -d
      BY <1>3
    <2> QED BY <1>1, <2>1
  <1>4. CASE p - q = 0
    BY <1>1, <1>4
  <1> QED BY <1>2, <1>3, <1>4

LEMMA Remainder ==
    ASSUME NEW d \in Nat \ {0}, NEW a \in Nat
    PROVE  \E q \in Int : a = q * d + (a % d) /\ a % d \in 0 .. d - 1
  <1>1. a = (a \div d) * d + (a % d) /\ a % d \in 0 .. d - 1 /\ a \div d \in Int
    OBVIOUS
  <1> QED BY <1>1

LEMMA Wrapped ==
    ASSUME NEW a \in Nat, a >= W
    PROVE  (a - W) % Depth = a % Depth
  <1>0. Depth \in Nat \ {0} /\ W \in Nat /\ a - W \in Nat /\ W % Depth = 0
    BY Sizes, RxPoolAssumption
  <1>1. PICK q \in Int : a = q * Depth + (a % Depth) /\ a % Depth \in 0 .. Depth - 1
    BY <1>0, Remainder
  <1>2. PICK m \in Int : W = m * Depth + 0
    BY <1>0, Remainder
  <1>3. PICK p \in Int : /\ a - W = p * Depth + ((a - W) % Depth)
                         /\ (a - W) % Depth \in 0 .. Depth - 1
    BY <1>0, Remainder
  <1>4. (p + m) * Depth = p * Depth + m * Depth /\ p + m \in Int
    BY <1>0
  <1>5. (p + m) * Depth + ((a - W) % Depth) = q * Depth + (a % Depth)
    BY <1>0, <1>1, <1>2, <1>3, <1>4
  <1> QED BY <1>0, <1>1, <1>3, <1>4, <1>5, OneRemainder

\* Going on in the table
LEMMA SlotIs ==
    ASSUME NEW a \in 0 .. W - 1, NEW k \in 0 .. Depth
    PROVE  /\ Slot(a) \in Slots
           /\ Slot(a + k) = Fwd(Slot(a), k)
           /\ Slot((a + k) % W) = Fwd(Slot(a), k)
           /\ (a + k) % W \in 0 .. W - 1
  <1>0. /\ Depth \in Nat \ {0} /\ W \in Nat \ {0} /\ a \in Nat /\ a + k \in Nat /\ k \in Nat
        /\ W >= Depth
    BY Sizes
  <1>1. PICK q \in Int : a = q * Depth + (a % Depth) /\ a % Depth \in 0 .. Depth - 1
    BY <1>0, Remainder
  <1>2. Slot(a + k) = Fwd(Slot(a), k)
    <2>1. PICK p \in Int : /\ a + k = p * Depth + ((a + k) % Depth)
                           /\ (a + k) % Depth \in 0 .. Depth - 1
      BY <1>0, Remainder
    <2>2. CASE (a % Depth) + k < Depth
      <3>1. q * Depth + ((a % Depth) + k) = p * Depth + ((a + k) % Depth)
        BY <1>0, <1>1, <2>1
      <3>2. (a % Depth) + k \in 0 .. Depth - 1
        BY <1>0, <1>1, <2>2
      <3>3. (a % Depth) + k = (a + k) % Depth
        BY <1>0, <2>1, <3>1, <3>2, OneRemainder
      <3> QED BY <2>2, <3>3 DEF Slot, Fwd
    <2>3. CASE ~((a % Depth) + k < Depth)
      <3>0. (q + 1) * Depth = q * Depth + Depth /\ q + 1 \in Int
        BY <1>0
      <3>1. (q + 1) * Depth + ((a % Depth) + k - Depth) = p * Depth + ((a + k) % Depth)
        BY <1>0, <1>1, <2>1, <3>0
      <3>2. (a % Depth) + k - Depth \in 0 .. Depth - 1
        BY <1>0, <1>1, <2>3
      <3>3. (a % Depth) + k - Depth = (a + k) % Depth
        BY <1>0, <2>1, <3>0, <3>1, <3>2, OneRemainder
      <3> QED BY <2>3, <3>3 DEF Slot, Fwd
    <2> QED BY <2>2, <2>3
  <1>3. (a + k) % W = IF a + k < W THEN a + k ELSE a + k - W
    BY <1>0
  <1>4. Slot((a + k) % W) = Slot(a + k)
    <2>1. CASE a + k < W
      BY <1>3, <2>1
    <2>2. CASE ~(a + k < W)
      <3>1. a + k >= W
        BY <1>0, <2>2
      <3>2. (a + k - W) % Depth = (a + k) % Depth
        <4>1. PICK c \in Nat : c = a + k
          BY <1>0
        <4>2. (c - W) % Depth = c % Depth
          BY <3>1, <4>1, Wrapped
        <4>3. c - W = a + k - W
          BY <1>0, <4>1
        <4> QED BY <1>0, <4>1, <4>2, <4>3
      <3> QED BY <1>3, <2>2, <3>2 DEF Slot
    <2> QED BY <2>1, <2>2
  <1>5. (a + k) % W \in 0 .. W - 1
    BY <1>0, <1>3
  <1> QED BY <1>1, <1>2, <1>4, <1>5 DEF Slot, Slots

LEMMA DiffIs ==
    ASSUME NEW a \in 0 .. W - 1, NEW b \in 0 .. W - 1
    PROVE  Diff(a, b) = (IF b <= a THEN a - b ELSE a - b + W) /\ Diff(a, b) \in 0 .. W - 1
  <1>0. W \in Nat \ {0} /\ a \in Nat /\ b \in Nat
    BY Sizes, RxPoolAssumption
  <1>1. CASE b <= a
    <2>1. (a + W - b) % W = a - b
      BY <1>0, <1>1
    <2> QED BY <1>0, <1>1, <2>1 DEF Diff
  <1>2. CASE ~(b <= a)
    <2>1. (a + W - b) % W = a - b + W
      BY <1>0, <1>2
    <2> QED BY <1>0, <1>2, <2>1 DEF Diff
  <1> QED BY <1>1, <1>2

LEMMA Moved ==
    ASSUME NEW a \in 0 .. W - 1, NEW b \in 0 .. W - 1, NEW k \in 0 .. W - 1,
           Diff(a, b) + k < W
    PROVE  /\ Diff((a + k) % W, b) = Diff(a, b) + k
           /\ Diff(a + k, b) = Diff(a, b) + k
  <1>0. W \in Nat \ {0} /\ a \in Nat /\ b \in Nat /\ k \in Nat
    BY Sizes, RxPoolAssumption
  <1>1. (a + k) % W = (IF a + k < W THEN a + k ELSE a + k - W) /\ (a + k) % W \in 0 .. W - 1
    BY <1>0
  <1>2. Diff((a + k) % W, b) = Diff(a, b) + k
    <2>1. PICK c \in 0 .. W - 1 : c = (a + k) % W
      BY <1>1
    <2>2. /\ Diff(c, b) = IF b <= c THEN c - b ELSE c - b + W
          /\ Diff(a, b) = IF b <= a THEN a - b ELSE a - b + W
      BY DiffIs
    <2>3. c = IF a + k < W THEN a + k ELSE a + k - W
      BY <1>1, <2>1
    <2>4. Diff(c, b) = Diff(a, b) + k
      BY <1>0, <2>2, <2>3
    <2> QED BY <2>1, <2>4
  <1>3. Diff(a + k, b) = Diff(a, b) + k
    <2>0. Diff(a, b) = IF b <= a THEN a - b ELSE a - b + W
      BY DiffIs
    <2>1. CASE b <= a
      <3>1. (a + k + W - b) % W = a - b + k
        BY <1>0, <2>0, <2>1
      <3> QED BY <2>0, <2>1, <3>1 DEF Diff
    <2>2. CASE ~(b <= a)
      <3>1. (a + k + W - b) % W = a - b + W + k
        BY <1>0, <2>0, <2>2
      <3> QED BY <1>0, <2>0, <2>2, <3>1 DEF Diff
    <2> QED BY <2>1, <2>2
  <1> QED BY <1>2, <1>3

LEMMA Followed ==
    ASSUME NEW a \in 0 .. W - 1, NEW b \in 0 .. W - 1, Diff(a, b) > 0
    PROVE  Diff(a, (b + 1) % W) = Diff(a, b) - 1
  <1>0. W \in Nat \ {0} /\ a \in Nat /\ b \in Nat
    BY Sizes, RxPoolAssumption
  <1>1. (b + 1) % W = (IF b + 1 < W THEN b + 1 ELSE 0) /\ (b + 1) % W \in 0 .. W - 1
    BY <1>0
  <1>2. PICK c \in 0 .. W - 1 : c = (b + 1) % W
    BY <1>1
  <1>3. /\ Diff(a, b) = IF b <= a THEN a - b ELSE a - b + W
        /\ Diff(a, c) = IF c <= a THEN a - c ELSE a - c + W
    BY DiffIs
  <1>4. c = IF b + 1 < W THEN b + 1 ELSE 0
    BY <1>1, <1>2
  <1>5. Diff(a, c) = Diff(a, b) - 1
    BY <1>0, <1>3, <1>4
  <1> QED BY <1>2, <1>5

LEMMA Reached ==
    ASSUME NEW a \in 0 .. W - 1, NEW b \in 0 .. W - 1, Diff(a, b) < Depth
    PROVE  Slot(a) = Fwd(Slot(b), Diff(a, b))
  <1>0. W \in Nat \ {0} /\ a \in Nat /\ b \in Nat /\ Depth \in Nat
    BY Sizes, RxPoolAssumption
  <1>1. Diff(a, b) = (IF b <= a THEN a - b ELSE a - b + W) /\ Diff(a, b) \in 0 .. W - 1
    BY DiffIs
  <1>2. (b + Diff(a, b)) % W = a
    BY <1>0, <1>1
  <1>3. Diff(a, b) \in 0 .. Depth
    BY <1>0, <1>1
  <1> QED BY <1>2, <1>3, SlotIs

LEMMA Steps ==
    ASSUME NEW a \in Slots
    PROVE  /\ Fwd(a, 0) = a
           /\ \A k \in 0 .. Depth : Fwd(a, k) \in Slots
           /\ \A k \in Slots : Fwd(a, k) \in Slots
           /\ \A k, m \in Slots : Fwd(a, k) = Fwd(a, m) => k = m
           /\ \A k \in 0 .. Depth - 2 : Fwd(Fwd(a, 1), k) = Fwd(a, k + 1)
           /\ Fwd(Fwd(a, 1), Depth - 1) = a
           /\ \A k, m \in Slots : k + m < Depth => Fwd(Fwd(a, k), m) = Fwd(a, k + m)
           /\ \A s \in Slots : \E o \in Slots : Fwd(a, o) = s
  <1>0. Depth \in Nat /\ Depth > 2
    BY Sizes
  <1>1. ASSUME NEW s \in Slots PROVE \E o \in Slots : Fwd(a, o) = s
    <2>1. CASE a <= s
      <3>1. s - a \in Slots /\ Fwd(a, s - a) = s
        BY <1>0, <2>1 DEF Slots, Fwd
      <3> QED BY <3>1
    <2>2. CASE ~(a <= s)
      <3>1. s - a + Depth \in Slots /\ Fwd(a, s - a + Depth) = s
        BY <1>0, <2>2 DEF Slots, Fwd
      <3> QED BY <3>1
    <2> QED BY <2>1, <2>2
  <1>2. /\ Fwd(a, 0) = a
        /\ \A k \in 0 .. Depth : Fwd(a, k) \in Slots
        /\ \A k \in Slots : Fwd(a, k) \in Slots
        /\ \A k, m \in Slots : Fwd(a, k) = Fwd(a, m) => k = m
    BY <1>0 DEF Slots, Fwd
  <1>3. /\ \A k \in 0 .. Depth - 2 : Fwd(Fwd(a, 1), k) = Fwd(a, k + 1)
        /\ Fwd(Fwd(a, 1), Depth - 1) = a
        /\ \A k, m \in Slots : k + m < Depth => Fwd(Fwd(a, k), m) = Fwd(a, k + m)
    BY <1>0 DEF Slots, Fwd
  <1> QED BY <1>1, <1>2, <1>3

-----------------------------------------------------------------------------
(* The table from rd_idx on                                                *)

Places == [page : Pages \cup {NoPage}, off : {0, 1}]

LEMMA View ==
    ASSUME Types, Window
    PROVE  /\ rd \in 0 .. W - 1 /\ wr \in 0 .. W - 1 /\ alloc \in 0 .. W - 1
           /\ R \in Slots /\ N \in Nat /\ M \in Nat /\ N + M < Depth /\ N \in Slots /\ M \in Slots
           /\ N + M \in Slots
           /\ Slot(wr) = Fwd(R, N) /\ Slot(alloc) = Fwd(R, N + M)
           /\ \A o \in Slots : T[o] = tbl[Fwd(R, o)] /\ T[o] \in Places
           /\ \A s \in Slots : tbl[s] \in Places /\ \E o \in Slots : Fwd(R, o) = s /\ T[o] = tbl[s]
  <1>0. /\ rd \in 0 .. W - 1 /\ wr \in 0 .. W - 1 /\ alloc \in 0 .. W - 1
        /\ tbl \in [Slots -> Places]
    BY DEF Types, TypeOK, Places
  <1>1. Depth \in Nat /\ Depth > 0 /\ W \in Nat /\ 0 \in 0 .. Depth
    BY Sizes
  <1>2. R \in Slots
    BY <1>0, <1>1, SlotIs DEF R
  <1>3. N \in Nat /\ M \in Nat
    <2>1. Diff(wr, rd) \in 0 .. W - 1 /\ Diff(alloc, wr) \in 0 .. W - 1
      BY <1>0, DiffIs
    <2> QED BY <1>1, <2>1 DEF N, M
  <1>4. N + M < Depth
    BY DEF Window
  <1>5. N \in Slots /\ M \in Slots /\ N + M \in Slots
    BY <1>1, <1>3, <1>4 DEF Slots
  <1>6. Slot(wr) = Fwd(R, N)
    <2>1. N < Depth
      BY <1>1, <1>3, <1>4
    <2> QED BY <1>0, <2>1, Reached DEF R, N
  <1>7. Slot(alloc) = Fwd(R, N + M)
    <2>1. M < Depth
      BY <1>1, <1>3, <1>4
    <2>2. Slot(alloc) = Fwd(Slot(wr), M)
      BY <1>0, <2>1, Reached DEF M
    <2>3. Fwd(Fwd(R, N), M) = Fwd(R, N + M)
      BY <1>2, <1>4, <1>5, Steps
    <2> QED BY <1>6, <2>2, <2>3
  <1>8. \A o \in Slots : T[o] = tbl[Fwd(R, o)] /\ Fwd(R, o) \in Slots
    BY <1>2, Steps DEF T
  <1>9. \A s \in Slots : \E o \in Slots : Fwd(R, o) = s
    BY <1>2, Steps
  <1> QED BY <1>0, <1>2, <1>3, <1>4, <1>5, <1>6, <1>7, <1>8, <1>9

LEMMA ViewSame ==
    ASSUME UNCHANGED <<tbl, rd, wr, alloc>>
    PROVE  R' = R /\ N' = N /\ M' = M /\ T' = T
  BY DEF R, N, M, T, Slot, Diff, Fwd

LEMMA SameState ==
    ASSUME RxInv, UNCHANGED <<tbl, rd, wr, alloc, bd, got, frag, skb, refs, stack, left, headless>>,
           pc' = "down" <=> pc = "down"
    PROVE  Window' /\ Behind' /\ Apart' /\ Once' /\ Counted' /\ Frames'
  <1>1. /\ R' = R /\ N' = N /\ M' = M /\ T' = T /\ Held' = Held
        /\ Window /\ Behind /\ Apart /\ Once /\ Counted /\ Frames
    BY ViewSame DEF Held, RxInv
  <1> HIDE DEF R, N, M, T
  <1>2. Window'
    BY <1>1 DEF Window
  <1>3. Behind' /\ Apart' /\ Once'
    BY <1>1 DEF Behind, Apart, Once
  <1>4. Counted'
    BY <1>1 DEF Counted, Uses, InTbl, HalfHeld
  <1>5. Frames'
    BY <1>1 DEF Frames, Cut
  <1> QED BY <1>2, <1>3, <1>4, <1>5

\* What is counted are the slots, and the halves held.
LEMMA SlotsOf ==
    ASSUME Types, Window, Apart, NEW p \in Pages
    PROVE  Cardinality({s \in Slots : tbl[s].page = p}) = One(InTbl(p))
  <1>0. /\ \A o \in Slots : T[o] = tbl[Fwd(R, o)]
        /\ \A s \in Slots : \E o \in Slots : Fwd(R, o) = s /\ T[o] = tbl[s]
        /\ R \in Slots /\ \A o \in Slots : Fwd(R, o) \in Slots
        /\ NoPage \notin Pages
    BY View, Steps, Sizes
  <1>1. CASE InTbl(p)
    <2>1. PICK o \in Slots : T[o].page = p
      BY <1>1 DEF InTbl
    <2>2. {s \in Slots : tbl[s].page = p} = {Fwd(R, o)}
      <3>1. ASSUME NEW s \in Slots, tbl[s].page = p PROVE s = Fwd(R, o)
        <4>1. PICK i \in Slots : Fwd(R, i) = s /\ T[i] = tbl[s]
          BY <1>0
        <4>2. i = o
          BY <1>0, <2>1, <3>1, <4>1 DEF Apart
        <4> QED BY <4>1, <4>2
      <3> QED BY <1>0, <2>1, <3>1
    <2> QED BY <1>1, <2>2, FS_Singleton DEF One
  <1>2. CASE ~InTbl(p)
    <2>1. {s \in Slots : tbl[s].page = p} = {}
      BY <1>0, <1>2 DEF InTbl
    <2> QED BY <1>2, <2>1, FS_EmptySet DEF One
  <1> QED BY <1>1, <1>2

LEMMA HeldType ==
    ASSUME Types
    PROVE  Held \subseteq Buffers /\ Empty \notin Held
  <1>1. Held \subseteq Buffers
    BY DEF Types, TypeOK, Held, Range
  <1> QED BY <1>1, Sizes DEF Buffers, Empty

LEMMA HeldOf ==
    ASSUME Types, NEW p \in Pages
    PROVE  Cardinality({h \in Held : h.page = p}) = One(HalfHeld(p, 0)) + One(HalfHeld(p, 1))
  <1> DEFINE h0 == [page |-> p, off |-> 0]
             h1 == [page |-> p, off |-> 1]
             H == {h \in Held : h.page = p}
  <1>0. Held \subseteq Buffers
    BY HeldType
  <1>1. \A h \in H : h = h0 \/ h = h1
    BY <1>0 DEF Buffers
  <1>2. h0 # h1 /\ h0.page = p /\ h1.page = p
    OBVIOUS
  <1>3. (h0 \in H <=> HalfHeld(p, 0)) /\ (h1 \in H <=> HalfHeld(p, 1))
    BY DEF HalfHeld
  <1> HIDE DEF H, h0, h1
  <1>4. CASE h0 \in H /\ h1 \in H
    <2>1. H = {h0} \cup {h1}
      <3>1. H \subseteq {h0} \cup {h1}
        BY <1>1
      <3>2. {h0} \cup {h1} \subseteq H
        BY <1>4
      <3> QED BY <3>1, <3>2
    <2>2. IsFiniteSet({h0}) /\ Cardinality({h0}) = 1
      BY FS_Singleton
    <2>3. Cardinality({h0} \cup {h1}) = 2
      <3>1. h1 \notin {h0}
        BY <1>2
      <3>2. Cardinality({h0} \cup {h1})
              = IF h1 \in {h0} THEN Cardinality({h0}) ELSE Cardinality({h0}) + 1
        BY <2>2, FS_AddElement
      <3>3. Cardinality({h0} \cup {h1}) = 1 + 1
        BY <2>2, <3>1, <3>2
      <3> QED BY <3>3
    <2>4. One(HalfHeld(p, 0)) + One(HalfHeld(p, 1)) = 2
      BY <1>3, <1>4 DEF One
    <2> QED BY <2>1, <2>3, <2>4 DEF H
  <1>5. CASE h0 \in H /\ h1 \notin H
    <2>1. H = {h0}
      BY <1>1, <1>5
    <2>2. Cardinality({h0}) = 1
      BY FS_Singleton
    <2>3. One(HalfHeld(p, 0)) + One(HalfHeld(p, 1)) = 1
      BY <1>3, <1>5 DEF One
    <2> QED BY <2>1, <2>2, <2>3 DEF H
  <1>6. CASE h0 \notin H /\ h1 \in H
    <2>1. H = {h1}
      BY <1>1, <1>6
    <2>2. Cardinality({h1}) = 1
      BY FS_Singleton
    <2>3. One(HalfHeld(p, 0)) + One(HalfHeld(p, 1)) = 1
      BY <1>3, <1>6 DEF One
    <2> QED BY <2>1, <2>2, <2>3 DEF H
  <1>7. CASE h0 \notin H /\ h1 \notin H
    <2>1. H = {}
      BY <1>1, <1>7
    <2>2. One(HalfHeld(p, 0)) + One(HalfHeld(p, 1)) = 0
      BY <1>3, <1>7 DEF One
    <2> QED BY <2>1, <2>2, FS_EmptySet DEF H
  <1> QED BY <1>4, <1>5, <1>6, <1>7

\* A page in the table that is counted is used where it is counted.
LEMMA RefsOf ==
    ASSUME Types, Counted, NEW p \in Pages
    PROVE  /\ refs[p] \in Nat /\ Uses(p) \in 0 .. 3
           /\ InTbl(p) => refs[p] = Uses(p) /\ refs[p] >= 1
           /\ refs[p] = 0 => Uses(p) = 0 /\ ~InTbl(p) /\ ~HalfHeld(p, 0) /\ ~HalfHeld(p, 1)
           /\ refs[p] = 1 /\ InTbl(p) => ~HalfHeld(p, 0) /\ ~HalfHeld(p, 1)
  <1>1. refs[p] \in Nat
    BY DEF Types, TypeOK
  <1>2. Uses(p) = One(InTbl(p)) + One(HalfHeld(p, 0)) + One(HalfHeld(p, 1))
    BY DEF Uses
  <1>3. Uses(p) \in 0 .. 3
    BY <1>2 DEF One
  <1>4. refs[p] = Uses(p) \/ (refs[p] = Uses(p) + 1 /\ p \in left /\ ~InTbl(p))
    BY DEF Counted
  <1>5. CASE refs[p] = Uses(p)
    BY <1>1, <1>2, <1>3, <1>5 DEF One
  <1>6. CASE refs[p] = Uses(p) + 1 /\ ~InTbl(p)
    BY <1>1, <1>3, <1>6
  <1> QED BY <1>4, <1>5, <1>6

-----------------------------------------------------------------------------
(* A buffer is received                                                    *)

LEMMA DequeueView ==
    ASSUME Types, Window, Apart, Dequeue, wr' = wr
    PROVE  /\ N > 0 /\ R' = Fwd(R, 1) /\ N' = N - 1 /\ rd' \in 0 .. W - 1
           /\ Slot(rd) = R /\ tbl[R] = T[0] /\ T[0] \in Buffers /\ T[0] \notin Held
           /\ got # <<>> /\ pc = "loop"
           /\ \A o \in 0 .. Depth - 2 :
                /\ T'[o] = tbl'[Fwd(R, o + 1)] /\ T[o + 1] = tbl[Fwd(R, o + 1)]
                /\ Fwd(R, o + 1) # R /\ o + 1 \in Slots /\ o \in Slots
                /\ Fwd(R, o + 1) \in Slots
           /\ T'[Depth - 1] = tbl'[R]
           /\ \A o \in Slots : o \in 0 .. Depth - 2 \/ o = Depth - 1
           /\ bd' \in Seq(Buffers) /\ Len(bd') = N - 1 /\ \A i \in 1 .. N - 1 : bd'[i] = T[i]
  <1>0. /\ rd \in 0 .. W - 1 /\ wr \in 0 .. W - 1 /\ R \in Slots /\ N \in Nat /\ M \in Nat
        /\ N + M < Depth /\ \A o \in Slots : T[o] = tbl[Fwd(R, o)] /\ T[o] \in Places
        /\ Depth \in Nat /\ Depth > 2 /\ W \in Nat /\ W >= Depth
    BY View, Sizes
  <1>1. /\ pc = "loop" /\ got # <<>> /\ bd' = Tail(bd) /\ rd' = (rd + 1) % W
        /\ bd \in Seq(Buffers) /\ got \in Seq(Parts) /\ Len(got) <= Len(bd)
        /\ Len(bd) = N /\ \A i \in 1 .. N : bd[i] = T[i - 1]
    BY DEF Dequeue, Types, TypeOK, Window
  <1>2. N > 0
    BY <1>1
  <1>3. R' = Fwd(R, 1) /\ rd' \in 0 .. W - 1
    <2>1. 1 \in 0 .. Depth
      BY <1>0
    <2> QED BY <1>0, <1>1, <2>1, SlotIs DEF R
  <1>4. N' = N - 1
    <2>1. Diff(wr, (rd + 1) % W) = Diff(wr, rd) - 1
      BY <1>0, <1>2, Followed DEF N
    <2> QED BY <1>1, <2>1 DEF N
  <1>5. Slot(rd) = R /\ tbl[R] = T[0] /\ T[0] \in Buffers /\ T[0] \notin Held
    <2>1. 0 \in Slots /\ Fwd(R, 0) = R
      BY <1>0, Steps DEF Slots
    <2>2. 1 \in 1 .. N /\ bd[1] \in Buffers
      BY <1>0, <1>1, <1>2
    <2>3. bd[1] = T[0]
      BY <1>1, <2>2
    <2> QED BY <1>0, <2>1, <2>2, <2>3 DEF R, Apart
  <1>6. \A o \in Slots : T'[o] = tbl'[Fwd(R', o)]
    BY DEF T, Fwd
  <1>7. ASSUME NEW o \in 0 .. Depth - 2
        PROVE  /\ T'[o] = tbl'[Fwd(R, o + 1)] /\ T[o + 1] = tbl[Fwd(R, o + 1)]
               /\ Fwd(R, o + 1) # R /\ o + 1 \in Slots /\ o \in Slots
               /\ Fwd(R, o + 1) \in Slots
    <2>1. o \in Slots /\ o + 1 \in Slots /\ o + 1 # 0 /\ 0 \in Slots
      BY <1>0 DEF Slots
    <2>2. Fwd(Fwd(R, 1), o) = Fwd(R, o + 1)
      BY <1>0, Steps
    <2>3. Fwd(R, o + 1) # R
      BY <1>0, <2>1, Steps
    <2>4. Fwd(R, o + 1) \in Slots
      BY <1>0, <2>1, Steps
    <2> QED BY <1>0, <1>3, <1>6, <2>1, <2>2, <2>3, <2>4
  <1>8. T'[Depth - 1] = tbl'[R]
    <2>1. Depth - 1 \in Slots
      BY <1>0 DEF Slots
    <2>2. Fwd(Fwd(R, 1), Depth - 1) = R
      BY <1>0, Steps
    <2> QED BY <1>3, <1>6, <2>1, <2>2
  <1>9. \A o \in Slots : o \in 0 .. Depth - 2 \/ o = Depth - 1
    BY <1>0 DEF Slots
  <1>10. bd' \in Seq(Buffers) /\ Len(bd') = N - 1 /\ \A i \in 1 .. N - 1 : bd'[i] = T[i]
    <2>1. /\ bd' \in Seq(Buffers) /\ Len(bd') = Len(bd) - 1
          /\ \A i \in 1 .. Len(bd) - 1 : bd'[i] = bd[i + 1]
      BY <1>1, <1>2
    <2>2. ASSUME NEW i \in 1 .. N - 1 PROVE bd'[i] = T[i]
      <3>1. i + 1 \in 1 .. N /\ (i + 1) - 1 = i
        BY <1>0
      <3> QED BY <1>1, <2>1, <3>1
    <2> QED BY <1>1, <2>1, <2>2
  <1> QED BY <1>1, <1>2, <1>3, <1>4, <1>5, <1>7, <1>8, <1>9, <1>10

\* Its page leaves the table, with the buffer or given back.
LEMMA Given ==
    ASSUME RxInv, Dequeue, wr' = wr, alloc' = alloc, left' = left, pc' \in {"loop", "idle"},
           tbl' = [tbl EXCEPT ![R] = Empty],
           \/ Held' = Held \cup {T[0]} /\ refs' = refs
           \/ Held' = Held /\ refs' = [refs EXCEPT ![T[0].page] = @ - 1]
    PROVE  N' = N - 1 /\ M' = M /\ Window' /\ Behind' /\ Apart' /\ Counted'
  <1> DEFINE b == T[0]
  <1>0. Types /\ Window /\ Behind /\ Apart /\ Counted
    BY DEF RxInv
  <1>1. /\ Depth \in Nat /\ Depth > 2 /\ N \in Nat /\ M \in Nat /\ N + M < Depth
        /\ \A o \in Slots : T[o] \in Places
        /\ \A s \in Slots : tbl[s] \in Places
        /\ NoPage \notin Pages /\ R \in Slots /\ tbl \in [Slots -> Places]
    BY <1>0, View, Sizes DEF Types, TypeOK, Places
  <1>2. /\ N > 0 /\ N' = N - 1
        /\ b \in Buffers /\ b \notin Held /\ pc = "loop"
        /\ \A o \in 0 .. Depth - 2 :
                /\ T'[o] = tbl'[Fwd(R, o + 1)] /\ T[o + 1] = tbl[Fwd(R, o + 1)]
                /\ Fwd(R, o + 1) # R /\ o + 1 \in Slots /\ o \in Slots
                /\ Fwd(R, o + 1) \in Slots
        /\ T'[Depth - 1] = tbl'[R]
        /\ \A o \in Slots : o \in 0 .. Depth - 2 \/ o = Depth - 1
        /\ Len(bd') = N - 1 /\ \A i \in 1 .. N - 1 : bd'[i] = T[i]
    BY <1>0, DequeueView
  <1>3. M' = M
    BY DEF M, Diff
  <1>4. /\ \A o \in 0 .. Depth - 2 : T'[o] = T[o + 1]
        /\ T'[Depth - 1] = Empty
    BY <1>1, <1>2
  <1>5. /\ \A o \in Slots : o # 0 => o - 1 \in 0 .. Depth - 2 /\ (o - 1) + 1 = o
        /\ 0 \in Slots /\ Depth - 1 \in Slots /\ \A o \in Slots : o \in Nat
        /\ Empty.page = NoPage /\ b.page \in Pages
    BY <1>1, <1>2 DEF Slots, Empty, Buffers
  <1> HIDE DEF b, T, R, N, M
  <1>6. Window'
    <2>1. N' + M' < Depth /\ Len(bd') = N' /\ pc' # "down"
      BY <1>1, <1>2, <1>3
    <2>2. ASSUME NEW i \in 1 .. N' PROVE bd'[i] = T'[i - 1]
      <3>1. i \in 1 .. N - 1 /\ i - 1 \in 0 .. Depth - 2 /\ (i - 1) + 1 = i
        BY <1>1, <1>2
      <3> QED BY <1>2, <1>4, <3>1
    <2>3. ASSUME NEW o \in 0 .. N' + M' - 1 PROVE T'[o].page # NoPage
      <3>1. o + 1 \in 0 .. N + M - 1 /\ o \in 0 .. Depth - 2
        BY <1>1, <1>2, <1>3
      <3> QED BY <1>0, <1>2, <1>4, <3>1 DEF Window
    <2> QED BY <2>1, <2>2, <2>3 DEF Window
  <1>7. Behind'
    <2>1. ASSUME NEW o \in Slots, T'[o].page # NoPage
          PROVE  o < N' + M' \/ T'[o].page \in left
      <3>1. o \in 0 .. Depth - 2
        BY <1>2, <1>4, <1>5, <2>1
      <3>2. o + 1 < N + M \/ T[o + 1].page \in left
        BY <1>0, <1>2, <1>4, <2>1, <3>1 DEF Behind
      <3> QED BY <1>1, <1>2, <1>3, <1>4, <3>1, <3>2
    <2> QED BY <2>1 DEF Behind
  <1>8. Apart'
    <2>1. ASSUME NEW o \in Slots, NEW i \in Slots, o # i, T'[o].page # NoPage
          PROVE  T'[o].page # T'[i].page
      <3>1. o \in 0 .. Depth - 2
        BY <1>2, <1>4, <1>5, <2>1
      <3>2. CASE i \in 0 .. Depth - 2
        <4>1. o + 1 # i + 1 /\ o + 1 \in Slots /\ i + 1 \in Slots
          BY <1>2, <2>1, <3>1, <3>2
        <4> QED BY <1>0, <1>4, <2>1, <3>1, <3>2, <4>1 DEF Apart
      <3>3. CASE i = Depth - 1
        BY <1>4, <1>5, <2>1, <3>3
      <3> QED BY <1>2, <3>2, <3>3
    <2>2. ASSUME NEW o \in Slots PROVE T'[o] \notin Held'
      <3>1. CASE o = Depth - 1
        <4>1. Empty \notin Held /\ Empty # b
          BY <1>0, <1>1, <1>5, HeldType
        <4> QED BY <1>4, <3>1, <4>1 DEF b
      <3>2. CASE o \in 0 .. Depth - 2
        <4>1. T[o + 1] \notin Held /\ o + 1 \in Slots /\ o + 1 # 0
          BY <1>0, <1>2, <3>2 DEF Apart
        <4>2. T[o + 1] # b
          BY <1>0, <1>1, <1>5, <4>1 DEF Apart, b
        <4> QED BY <1>4, <3>2, <4>1, <4>2 DEF b
      <3> QED BY <1>2, <3>1, <3>2
    <2> QED BY <2>1, <2>2 DEF Apart
  <1>9. \A p \in Pages : InTbl(p)' <=> InTbl(p) /\ p # b.page
    <2>1. ASSUME NEW p \in Pages, NEW o \in Slots, T'[o].page = p
          PROVE  InTbl(p) /\ p # b.page
      <3>1. o \in 0 .. Depth - 2
        BY <1>1, <1>2, <1>4, <1>5, <2>1
      <3>2. T[o + 1].page = p /\ o + 1 \in Slots /\ o + 1 # 0
        BY <1>2, <1>4, <2>1, <3>1
      <3> QED BY <1>0, <1>1, <1>5, <3>2 DEF InTbl, Apart, b
    <2>2. ASSUME NEW p \in Pages, NEW o \in Slots, T[o].page = p, p # b.page
          PROVE  InTbl(p)'
      <3>1. o # 0
        BY <2>2 DEF b
      <3>2. o - 1 \in 0 .. Depth - 2 /\ T'[o - 1].page = p /\ o - 1 \in Slots
        BY <1>2, <1>4, <1>5, <2>2, <3>1
      <3> QED BY <3>2 DEF InTbl
    <2> QED BY <2>1, <2>2 DEF InTbl
  <1>10. ASSUME NEW p \in Pages
         PROVE  \/ refs'[p] = Uses(p)'
                \/ refs'[p] = Uses(p)' + 1 /\ p \in left' /\ ~InTbl(p)'
    <2>0. /\ refs[p] \in Nat /\ refs \in [Pages -> Nat]
          /\ \/ refs[p] = Uses(p)
             \/ refs[p] = Uses(p) + 1 /\ p \in left /\ ~InTbl(p)
      BY <1>0, RefsOf DEF Types, TypeOK, Counted
    <2>1. CASE p # b.page
      <3>1. InTbl(p)' <=> InTbl(p)
        BY <1>9, <2>1
      <3>2. \A o : HalfHeld(p, o)' <=> HalfHeld(p, o)
        BY <2>1 DEF HalfHeld, b
      <3>3. refs'[p] = refs[p]
        BY <2>0, <2>1 DEF b
      <3>4. Uses(p)' = Uses(p)
        BY <3>1, <3>2 DEF Uses, One
      <3> QED BY <2>0, <3>1, <3>3, <3>4
    <2>2. CASE p = b.page
      <3>1. InTbl(p) /\ ~InTbl(p)'
        BY <1>5, <1>9, <2>2 DEF InTbl, b
      <3>2. refs[p] = 1 + One(HalfHeld(p, 0)) + One(HalfHeld(p, 1))
        BY <2>0, <3>1 DEF Uses, One
      <3>3. CASE Held' = Held \cup {b} /\ refs' = refs
        <4>1. /\ b = [page |-> p, off |-> 0] \/ b = [page |-> p, off |-> 1]
              /\ ~(b = [page |-> p, off |-> 0] /\ b = [page |-> p, off |-> 1])
          BY <1>2, <2>2 DEF Buffers
        <4>2. \A o : HalfHeld(p, o)' <=> HalfHeld(p, o) \/ b = [page |-> p, off |-> o]
          BY <3>3 DEF HalfHeld
        <4>3. One(HalfHeld(p, 0)') + One(HalfHeld(p, 1)')
                = 1 + One(HalfHeld(p, 0)) + One(HalfHeld(p, 1))
          BY <1>2, <4>1, <4>2 DEF One, HalfHeld
        <4>4. Uses(p)' = One(HalfHeld(p, 0)') + One(HalfHeld(p, 1)')
          BY <3>1 DEF Uses, One
        <4> QED BY <3>2, <3>3, <4>3, <4>4
      <3>4. CASE Held' = Held /\ refs' = [refs EXCEPT ![b.page] = @ - 1]
        <4>1. \A o : HalfHeld(p, o)' <=> HalfHeld(p, o)
          BY <3>4 DEF HalfHeld
        <4>2. Uses(p)' = One(HalfHeld(p, 0)) + One(HalfHeld(p, 1))
          BY <3>1, <4>1 DEF Uses, One
        <4>3. refs'[p] = refs[p] - 1
          BY <2>0, <2>2, <3>4
        <4> QED BY <2>0, <3>2, <4>2, <4>3 DEF One
      <3> QED BY <3>3, <3>4 DEF b
    <2> QED BY <2>1, <2>2
  <1>11. Counted'
    BY <1>10 DEF Counted
  <1> QED BY <1>2, <1>3, <1>6, <1>7, <1>8, <1>11

\* The other half of its page goes to the slot of alloc_idx, and overwrites
\* what a refill has left there.
LEMMA Recycled ==
    ASSUME RxInv, Dequeue, wr' = wr, left' = left, pc' \in {"loop", "idle"},
           Recycle(T[0]), refs[T[0].page] = 1, Held' = Held \cup {T[0]}
    PROVE  /\ N' = N - 1 /\ M' = M + 1 /\ alloc' \in 0 .. W - 1
           /\ Window' /\ Behind' /\ Apart' /\ Counted'
  <1> DEFINE b == T[0]
             nb == [page |-> b.page, off |-> 1 - b.off]
             L == N + M - 1
  <1>0. Types /\ Window /\ Behind /\ Apart /\ Counted
    BY DEF RxInv
  <1>1. /\ Depth \in Nat /\ Depth > 2 /\ N \in Nat /\ M \in Nat /\ N + M < Depth
        /\ \A o \in Slots : T[o] \in Places
        /\ \A s \in Slots : tbl[s] \in Places
        /\ NoPage \notin Pages /\ R \in Slots /\ tbl \in [Slots -> Places]
        /\ Slot(alloc) = Fwd(R, N + M) /\ W \in Nat /\ W >= Depth
        /\ alloc \in 0 .. W - 1 /\ wr \in 0 .. W - 1
        /\ refs \in [Pages -> Nat]
    <2>1. refs \in [Pages -> Nat] /\ tbl \in [Slots -> Places]
      BY <1>0 DEF Types, TypeOK, Places
    <2> QED BY <1>0, <2>1, View, Sizes
  <1>2. /\ N > 0 /\ N' = N - 1
        /\ b \in Buffers /\ b \notin Held /\ pc = "loop" /\ Slot(rd) = R
        /\ \A o \in 0 .. Depth - 2 :
                /\ T'[o] = tbl'[Fwd(R, o + 1)] /\ T[o + 1] = tbl[Fwd(R, o + 1)]
                /\ Fwd(R, o + 1) # R /\ o + 1 \in Slots /\ o \in Slots
                /\ Fwd(R, o + 1) \in Slots
        /\ T'[Depth - 1] = tbl'[R]
        /\ \A o \in Slots : o \in 0 .. Depth - 2 \/ o = Depth - 1
        /\ Len(bd') = N - 1 /\ \A i \in 1 .. N - 1 : bd'[i] = T[i]
    BY <1>0, DequeueView
  <1>3. M' = M + 1 /\ alloc' \in 0 .. W - 1
    <2>1. alloc' = (alloc + 1) % W /\ 1 \in 0 .. W - 1 /\ 1 \in 0 .. Depth
      BY <1>1 DEF Recycle
    <2>2. Diff(alloc, wr) + 1 < W
      BY <1>1, <1>2 DEF M
    <2>3. Diff((alloc + 1) % W, wr) = Diff(alloc, wr) + 1
      BY <1>1, <2>1, <2>2, Moved
    <2>4. (alloc + 1) % W \in 0 .. W - 1
      BY <1>1, <2>1, SlotIs
    <2>5. M' = Diff((alloc + 1) % W, wr)
      BY <2>1 DEF M
    <2> QED BY <2>1, <2>3, <2>4, <2>5 DEF M
  <1>4. L \in 0 .. Depth - 2 /\ L + 1 = N + M /\ N + M \in Slots
    BY <1>1, <1>2 DEF Slots
  <1>5. nb \in Buffers /\ nb # b /\ nb.page = b.page /\ b.page \in Pages /\ b.page # NoPage
    BY <1>1, <1>2 DEF Buffers
  <1>6. tbl' = [tbl EXCEPT ![Fwd(R, N + M)] = nb, ![R] = Empty]
    BY <1>1, <1>2 DEF Recycle
  <1>7. refs' = [refs EXCEPT ![b.page] = @ + 1]
    BY DEF Recycle
  <1>8. Fwd(R, N + M) \in Slots /\ \A o \in Slots : o # N + M => Fwd(R, o) # Fwd(R, N + M)
    BY <1>1, <1>4, Steps
  <1> HIDE DEF b, nb, T, R, N, M
  <1>9. /\ \A o \in 0 .. Depth - 2 : o # L => T'[o] = T[o + 1]
        /\ T'[L] = nb
        /\ T'[Depth - 1] = Empty
    <2>1. ASSUME NEW o \in 0 .. Depth - 2, o # L PROVE T'[o] = T[o + 1]
      <3>1. Fwd(R, o + 1) # Fwd(R, N + M)
        BY <1>1, <1>2, <1>8, <2>1
      <3> QED BY <1>1, <1>2, <1>6, <3>1
    <2>2. T'[L] = nb
      <3>1. Fwd(R, L + 1) = Fwd(R, N + M) /\ Fwd(R, N + M) # R
        BY <1>2, <1>4
      <3>2. T'[L] = tbl'[Fwd(R, N + M)]
        BY <1>2, <1>4
      <3> QED BY <1>1, <1>6, <1>8, <3>1, <3>2
    <2>3. T'[Depth - 1] = Empty
      BY <1>1, <1>2, <1>6
    <2> QED BY <2>1, <2>2, <2>3
  <1>10. /\ \A o \in Slots : o # 0 => o - 1 \in 0 .. Depth - 2 /\ (o - 1) + 1 = o
         /\ 0 \in Slots /\ Depth - 1 \in Slots /\ \A o \in Slots : o \in Nat
         /\ Empty.page = NoPage /\ L # Depth - 1 /\ L \in Slots
    BY <1>1, <1>4 DEF Slots, Empty
  <1> HIDE DEF L
  <1>11. Window'
    <2>1. N' + M' < Depth /\ Len(bd') = N' /\ pc' # "down"
      BY <1>1, <1>2, <1>3
    <2>2. ASSUME NEW i \in 1 .. N' PROVE bd'[i] = T'[i - 1]
      <3>1. i \in 1 .. N - 1 /\ i - 1 \in 0 .. Depth - 2 /\ (i - 1) + 1 = i /\ i - 1 # L
        BY <1>1, <1>2, <1>4
      <3> QED BY <1>2, <1>9, <3>1
    <2>3. ASSUME NEW o \in 0 .. N' + M' - 1 PROVE T'[o].page # NoPage
      <3>1. CASE o = L
        BY <1>5, <1>9, <3>1
      <3>2. CASE o # L
        <4>1. o + 1 \in 0 .. N + M - 1 /\ o \in 0 .. Depth - 2
          BY <1>1, <1>2, <1>3, <1>4, <3>2
        <4> QED BY <1>0, <1>2, <1>9, <3>2, <4>1 DEF Window
      <3> QED BY <3>1, <3>2
    <2> QED BY <2>1, <2>2, <2>3 DEF Window
  <1>12. Behind'
    <2>1. ASSUME NEW o \in Slots, T'[o].page # NoPage
          PROVE  o < N' + M' \/ T'[o].page \in left
      <3>1. CASE o = L
        <4>1. N \in Nat /\ M \in Nat
          BY <1>1
        <4>2. N' = N - 1 /\ M' = M + 1
          BY <1>2, <1>3
        <4>3. L \in 0 .. Depth - 2 /\ L + 1 = N + M
          BY <1>4
        <4>4. Depth \in Nat
          BY <1>1
        <4> QED BY <3>1, <4>1, <4>2, <4>3, <4>4
      <3>2. CASE o # L
        <4>1. o \in 0 .. Depth - 2
          BY <1>2, <1>9, <1>10, <2>1
        <4>2. o + 1 < N + M \/ T[o + 1].page \in left
          BY <1>0, <1>2, <1>9, <2>1, <3>2, <4>1 DEF Behind
        <4>3. T'[o] = T[o + 1]
          BY <1>9, <3>2, <4>1
        <4>4. N' + M' = N + M /\ N + M \in Int
          <5>1. N \in Nat /\ M \in Nat
            BY <1>1
          <5>2. N' = N - 1 /\ M' = M + 1
            BY <1>2, <1>3
          <5> QED BY <5>1, <5>2
        <4>5. Depth \in Nat
          BY <1>1
        <4>6. o + 1 < N + M => o < N' + M'
          BY <4>1, <4>4, <4>5
        <4> QED BY <4>2, <4>3, <4>6
      <3> QED BY <3>1, <3>2
    <2> QED BY <2>1 DEF Behind
  \* What was in another slot than the first has another page.
  <1>13. \A o \in 0 .. Depth - 2 : T[o + 1].page # b.page /\ T[o + 1] # b
    <2>1. ASSUME NEW o \in 0 .. Depth - 2 PROVE T[o + 1].page # b.page /\ T[o + 1] # b
      <3>1. o + 1 \in Slots /\ o + 1 # 0
        BY <1>2, <2>1
      <3> QED BY <1>0, <1>5, <1>10, <3>1 DEF Apart, b
    <2> QED BY <2>1
  <1>14. InTbl(b.page) /\ ~HalfHeld(b.page, 0) /\ ~HalfHeld(b.page, 1)
    <2>1. InTbl(b.page)
      BY <1>5, <1>10 DEF InTbl, b
    <2> QED BY <1>0, <1>5, <2>1, RefsOf DEF b
  <1>15. Apart'
    <2>1. ASSUME NEW o \in Slots, NEW i \in Slots, o # i, T'[o].page # NoPage
          PROVE  T'[o].page # T'[i].page
      <3>1. o \in 0 .. Depth - 2
        BY <1>2, <1>9, <1>10, <2>1
      <3>2. CASE i = Depth - 1
        BY <1>9, <1>10, <2>1, <3>2
      <3>3. CASE i \in 0 .. Depth - 2
        <4>1. CASE o = L
          BY <1>5, <1>9, <1>13, <2>1, <3>3, <4>1
        <4>2. CASE i = L
          BY <1>5, <1>9, <1>13, <2>1, <3>1, <4>2
        <4>3. CASE o # L /\ i # L
          <5>1. o + 1 # i + 1 /\ o + 1 \in Slots /\ i + 1 \in Slots
            BY <1>2, <2>1, <3>1, <3>3
          <5> QED BY <1>0, <1>9, <2>1, <3>1, <3>3, <4>3, <5>1 DEF Apart
        <4> QED BY <4>1, <4>2, <4>3
      <3> QED BY <1>2, <3>2, <3>3
    <2>2. ASSUME NEW o \in Slots PROVE T'[o] \notin Held'
      <3>1. CASE o = Depth - 1
        <4>1. Empty \notin Held /\ Empty # b
          BY <1>0, <1>5, <1>10, HeldType
        <4> QED BY <1>9, <3>1, <4>1 DEF b
      <3>2. CASE o = L
        <4>1. nb = [page |-> b.page, off |-> 0] \/ nb = [page |-> b.page, off |-> 1]
          BY <1>5 DEF Buffers
        <4>2. nb \notin Held
          BY <1>14, <4>1 DEF HalfHeld
        <4> QED BY <1>5, <1>9, <3>2, <4>2 DEF b
      <3>3. CASE o \in 0 .. Depth - 2 /\ o # L
        <4>1. T[o + 1] \notin Held
          BY <1>0, <1>2, <3>3 DEF Apart
        <4> QED BY <1>9, <1>13, <3>3, <4>1 DEF b
      <3> QED BY <1>2, <3>1, <3>2, <3>3
    <2> QED BY <2>1, <2>2 DEF Apart
  <1>16. ASSUME NEW p \in Pages
         PROVE  InTbl(p)' <=> InTbl(p) /\ p # T[N + M].page
    <2>0. T[N + M].page # b.page
      BY <1>4, <1>13
    <2>1. ASSUME NEW o \in Slots, T'[o].page = p
          PROVE  InTbl(p) /\ p # T[N + M].page
      <3>1. o \in 0 .. Depth - 2
        BY <1>1, <1>2, <1>9, <1>10, <2>1
      <3>2. CASE o = L
        BY <1>5, <1>9, <1>14, <2>0, <2>1, <3>2
      <3>3. CASE o # L
        <4>1. T[o + 1].page = p /\ o + 1 \in Slots /\ o + 1 # N + M
          <5>1. T[o + 1].page = p
            BY <1>9, <2>1, <3>1, <3>3
          <5>2. o + 1 \in Slots
            BY <1>2, <3>1
          <5>3. o + 1 # N + M
            BY <1>1, <1>4, <3>1, <3>3
          <5> QED BY <5>1, <5>2, <5>3
        <4>2. T[o + 1].page # T[N + M].page
          BY <1>0, <1>1, <1>4, <4>1 DEF Apart
        <4> QED BY <4>1, <4>2 DEF InTbl
      <3> QED BY <3>2, <3>3
    <2>2. ASSUME NEW o \in Slots, T[o].page = p, p # T[N + M].page
          PROVE  InTbl(p)'
      <3>1. CASE o = 0
        <4>1. T'[L].page = p
          BY <1>5, <1>9, <2>2, <3>1 DEF b
        <4> QED BY <1>10, <4>1 DEF InTbl
      <3>2. CASE o # 0
        <4>1. o - 1 \in 0 .. Depth - 2 /\ (o - 1) + 1 = o /\ o - 1 \in Slots /\ o # N + M
          BY <1>2, <1>10, <2>2, <3>2
        <4>2. o - 1 # L
          BY <1>1, <1>4, <1>10, <4>1
        <4>3. T'[o - 1].page = p
          BY <1>9, <2>2, <4>1, <4>2
        <4> QED BY <4>1, <4>3 DEF InTbl
      <3> QED BY <3>1, <3>2
    <2> QED BY <2>1, <2>2 DEF InTbl
  <1>17. ASSUME NEW p \in Pages
         PROVE  \/ refs'[p] = Uses(p)'
                \/ refs'[p] = Uses(p)' + 1 /\ p \in left' /\ ~InTbl(p)'
    <2>0. /\ refs[p] \in Nat
          /\ \/ refs[p] = Uses(p)
             \/ refs[p] = Uses(p) + 1 /\ p \in left /\ ~InTbl(p)
      BY <1>0, RefsOf DEF Counted
    <2>1. CASE p = b.page
      <3>1. InTbl(p) /\ InTbl(p)' /\ ~HalfHeld(p, 0) /\ ~HalfHeld(p, 1) /\ refs'[p] = 2
        <4>1. p # T[N + M].page
          BY <1>4, <1>13, <2>1
        <4>2. refs'[p] = refs[p] + 1 /\ refs[p] = 1
          BY <1>1, <1>7, <2>1 DEF b
        <4> QED BY <1>14, <1>16, <2>1, <4>1, <4>2
      <3>2. /\ b = [page |-> p, off |-> 0] \/ b = [page |-> p, off |-> 1]
            /\ ~(b = [page |-> p, off |-> 0] /\ b = [page |-> p, off |-> 1])
        BY <1>2, <2>1 DEF Buffers
      <3>3. \A o : HalfHeld(p, o)' <=> HalfHeld(p, o) \/ b = [page |-> p, off |-> o]
        BY DEF HalfHeld, b
      <3>4. Uses(p)' = 2
        BY <3>1, <3>2, <3>3 DEF Uses, One
      <3> QED BY <3>1, <3>4
    <2>2. CASE p # b.page
      <3>1. \A o : HalfHeld(p, o)' <=> HalfHeld(p, o)
        BY <2>2 DEF HalfHeld, b
      <3>2. refs'[p] = refs[p]
        BY <1>1, <1>7, <2>2
      <3>3. CASE p # T[N + M].page
        <4>1. InTbl(p)' <=> InTbl(p)
          BY <1>16, <3>3
        <4>2. Uses(p)' = Uses(p)
          BY <3>1, <4>1 DEF Uses, One
        <4> QED BY <2>0, <3>2, <4>1, <4>2
      <3>4. CASE p = T[N + M].page
        <4>1. InTbl(p) /\ ~InTbl(p)' /\ refs[p] = Uses(p)
          BY <1>4, <1>16, <2>0, <3>4 DEF InTbl
        <4>2. p \in left
          BY <1>0, <1>1, <1>4, <3>4 DEF Behind
        <4>3. Uses(p)' = One(HalfHeld(p, 0)) + One(HalfHeld(p, 1))
          BY <3>1, <4>1 DEF Uses, One
        <4>4. Uses(p) = 1 + One(HalfHeld(p, 0)) + One(HalfHeld(p, 1))
          BY <4>1 DEF Uses, One
        <4>5. One(HalfHeld(p, 0)) \in Nat /\ One(HalfHeld(p, 1)) \in Nat
          BY DEF One
        <4> QED BY <2>0, <3>2, <4>1, <4>2, <4>3, <4>4, <4>5
      <3> QED BY <3>3, <3>4
    <2> QED BY <2>1, <2>2
  <1>18. Counted'
    BY <1>17 DEF Counted
  <1> QED BY <1>2, <1>3, <1>11, <1>12, <1>15, <1>18

LEMMA RefsTyped ==
    ASSUME Counted', refs' \in [Pages -> Int]
    PROVE  refs' \in [Pages -> 0 .. 3]
  <1>1. ASSUME NEW p \in Pages PROVE refs'[p] \in 0 .. 3
    <2>1. \/ refs'[p] = Uses(p)'
          \/ refs'[p] = Uses(p)' + 1 /\ ~InTbl(p)'
      BY DEF Counted
    <2>2. Uses(p)' = One(InTbl(p)') + One(HalfHeld(p, 0)') + One(HalfHeld(p, 1)')
      BY DEF Uses, One
    <2> QED BY <2>1, <2>2 DEF One
  <1> QED BY <1>1

LEMMA RangeAppend ==
    ASSUME NEW b \in Buffers, skb \in Seq(Buffers)
    PROVE  /\ Range(Append(skb, b)) = Range(skb) \cup {b}
           /\ Append(skb, b) \in Seq(Buffers) /\ Len(Append(skb, b)) = Len(skb) + 1
           /\ \A i \in 1 .. Len(skb) : Append(skb, b)[i] = skb[i]
           /\ Append(skb, b)[Len(skb) + 1] = b
  <1>1. /\ Append(skb, b) \in Seq(Buffers) /\ Len(Append(skb, b)) = Len(skb) + 1
        /\ \A i \in 1 .. Len(skb) : Append(skb, b)[i] = skb[i]
        /\ Append(skb, b)[Len(skb) + 1] = b
        /\ Len(skb) \in Nat /\ DOMAIN skb = 1 .. Len(skb)
        /\ DOMAIN Append(skb, b) = 1 .. Len(skb) + 1
    OBVIOUS
  <1>2. ASSUME NEW x \in Range(Append(skb, b)) PROVE x \in Range(skb) \cup {b}
    <2>1. PICK i \in 1 .. Len(skb) + 1 : x = Append(skb, b)[i]
      BY <1>1 DEF Range
    <2>2. i \in 1 .. Len(skb) \/ i = Len(skb) + 1
      BY <1>1
    <2> QED BY <1>1, <2>1, <2>2 DEF Range
  <1>3. ASSUME NEW x \in Range(skb) \cup {b} PROVE x \in Range(Append(skb, b))
    <2>1. CASE x = b
      <3>1. Len(skb) + 1 \in 1 .. Len(skb) + 1
        BY <1>1
      <3> QED BY <1>1, <2>1, <3>1 DEF Range
    <2>2. CASE x # b
      <3>1. PICK i \in 1 .. Len(skb) : x = skb[i]
        BY <1>1, <1>3, <2>2 DEF Range
      <3>2. i \in 1 .. Len(skb) + 1
        BY <1>1
      <3> QED BY <1>1, <3>1, <3>2 DEF Range
    <2> QED BY <2>1, <2>2
  <1> QED BY <1>1, <1>2, <1>3

\* The next part of the frame, or of the next frame, is the first one now.
LEMMA CutNext ==
    ASSUME Types, Frames, pc # "down", got # <<>>, got' = Tail(got), frag' = frag,
           (skb' = <<>> /\ ~headless') <=> got[1].last, skb' \in Seq(Buffers),
           Len(skb') <= Len(skb) + 1, got[1].last => skb' = <<>>
    PROVE  Frames' /\ Len(skb') < MaxBufs
  <1>0. /\ got \in Seq(Parts) /\ Len(got) \in Nat /\ Len(got) > 0 /\ skb \in Seq(Buffers)
        /\ Len(skb) \in Nat /\ Len(skb') \in Nat /\ MaxBufs \in Nat /\ MaxBufs > 0
    BY Sizes DEF Types, TypeOK
  <1>1. PICK at \in [1 .. Len(got) + 1 -> 0 .. MaxBufs - 1] : Cut(at)
    BY DEF Frames
  <1> DEFINE next == [i \in 1 .. Len(got) |-> at[i + 1]]
  <1>2. Len(got') = Len(got) - 1 /\ \A i \in 1 .. Len(got) - 1 : got'[i] = got[i + 1]
    BY <1>0
  <1>3. 1 .. Len(got') + 1 = 1 .. Len(got)
    BY <1>0, <1>2
  <1>4. next \in [1 .. Len(got') + 1 -> 0 .. MaxBufs - 1]
    <2>1. \A i \in 1 .. Len(got) : i + 1 \in 1 .. Len(got) + 1
      BY <1>0
    <2>2. \A i \in 1 .. Len(got) : at[i + 1] \in 0 .. MaxBufs - 1
      BY <1>1, <2>1
    <2> QED BY <1>3, <2>2
  <1>5. /\ at[Len(got) + 1] = frag
        /\ \A i \in 1 .. Len(got) : /\ got[i].first <=> at[i] = 0
                                    /\ at[i + 1] = IF got[i].last THEN 0 ELSE at[i] + 1
        /\ at[1] >= Len(skb)
    BY <1>1 DEF Cut
  <1>6. \A i \in 1 .. Len(got) : next[i] = at[i + 1]
    OBVIOUS
  <1> HIDE DEF next
  <1>7. next[Len(got') + 1] = frag'
    <2>1. Len(got') + 1 = Len(got) /\ Len(got) \in 1 .. Len(got)
      BY <1>0, <1>2
    <2> QED BY <1>5, <1>6, <2>1
  <1>8. ASSUME NEW i \in 1 .. Len(got')
        PROVE  /\ got'[i].first <=> next[i] = 0
               /\ next[i + 1] = IF got'[i].last THEN 0 ELSE next[i] + 1
    <2>1. i \in 1 .. Len(got) - 1 /\ i \in 1 .. Len(got) /\ i + 1 \in 1 .. Len(got)
      BY <1>0, <1>2
    <2>2. got'[i] = got[i + 1] /\ next[i] = at[i + 1] /\ next[i + 1] = at[(i + 1) + 1]
      BY <1>2, <1>6, <2>1
    <2> QED BY <1>5, <2>1, <2>2
  <1>9. next[1] = IF got[1].last THEN 0 ELSE at[1] + 1
    <2>1. 1 \in 1 .. Len(got) /\ 1 + 1 = 2
      BY <1>0
    <2> QED BY <1>5, <1>6, <2>1
  <1>10. at[1] \in Nat /\ next[1] \in 0 .. MaxBufs - 1
    <2>1. 1 \in 1 .. Len(got) + 1 /\ 1 \in 1 .. Len(got') + 1
      BY <1>0, <1>2
    <2> QED BY <1>1, <1>4, <2>1, <1>0
  <1>11. next[1] = 0 <=> skb' = <<>> /\ ~headless'
    BY <1>9, <1>10
  <1>12. next[1] >= Len(skb')
    <2>1. CASE got[1].last
      BY <1>9, <2>1
    <2>2. CASE ~got[1].last
      BY <1>0, <1>5, <1>9, <1>10, <2>2
    <2> QED BY <2>1, <2>2
  <1>13. Len(skb') < MaxBufs
    BY <1>0, <1>10, <1>12
  <1>14. \E a \in [1 .. Len(got') + 1 -> 0 .. MaxBufs - 1] :
            /\ a[Len(got') + 1] = frag'
            /\ \A i \in 1 .. Len(got') :
                 /\ got'[i].first <=> a[i] = 0
                 /\ a[i + 1] = IF got'[i].last THEN 0 ELSE a[i] + 1
            /\ a[1] = 0 <=> skb' = <<>> /\ ~headless'
            /\ a[1] >= Len(skb')
    BY <1>4, <1>7, <1>8, <1>11, <1>12
  <1> QED BY <1>13, <1>14 DEF Frames, Cut

LEMMA ReceiveBufferStep ==
    ASSUME RxInv, ReceiveBuffer
    PROVE  RxInv'
  <1> DEFINE b == T[0]
             whole == Append(skb, b)
  <1>0. Types /\ TypeOK /\ Window /\ Behind /\ Apart /\ Once /\ Counted /\ Frames /\ Stocked
    BY DEF RxInv, Types
  <1>1. Dequeue /\ UNCHANGED <<wr, frag, failed, left>>
    BY DEF ReceiveBuffer
  <1>2. /\ N > 0 /\ N' = N - 1 /\ rd' \in 0 .. W - 1 /\ Slot(rd) = R /\ tbl[R] = b
        /\ b \in Buffers /\ b \notin Held /\ got # <<>> /\ pc = "loop" /\ tbl[Slot(rd)] = b
        /\ bd' \in Seq(Buffers) /\ Len(bd') = N - 1
    BY <1>0, <1>1, DequeueView
  <1>3. /\ got' = Tail(got) /\ got \in Seq(Parts) /\ skb \in Seq(Buffers)
        /\ stack \subseteq Buffers /\ refs \in [Pages -> Int] /\ Len(got) <= Len(bd) /\ Len(bd) = N
        /\ N \in Nat /\ M \in Nat /\ N + M < Depth /\ Depth \in Nat /\ R \in Slots
        /\ tbl \in [Slots -> Places] /\ MaxBufs \in Nat /\ MaxBufs > 0 /\ Thr \in Nat
        /\ MaxBufs <= Thr /\ Thr + MaxBufs < Depth
    <2>1. got' = Tail(got) /\ Len(bd) = N
      BY <1>0, <1>1, <1>2 DEF Dequeue, Window
    <2>2. /\ refs \in [Pages -> Int] /\ tbl \in [Slots -> Places] /\ got \in Seq(Parts)
          /\ skb \in Seq(Buffers) /\ stack \subseteq Buffers /\ Len(got) <= Len(bd)
      BY <1>0 DEF TypeOK, Places
    <2> QED BY <1>0, <2>1, <2>2, View, Sizes
  <1>4. \/ refs[b.page] = 1 /\ Recycle(b)
        \/ GiveAway
    BY <1>2 DEF ReceiveBuffer, Reusable
  <1>5. /\ got[1].last => /\ stack' = stack \cup Range(whole) /\ skb' = <<>>
                          /\ headless' = FALSE /\ pc' = "idle"
        /\ ~got[1].last => /\ skb' = whole
                           /\ UNCHANGED <<stack, headless, pc>>
    BY <1>2 DEF ReceiveBuffer
  <1>6. /\ Range(whole) = Range(skb) \cup {b} /\ whole \in Seq(Buffers)
        /\ Len(whole) = Len(skb) + 1 /\ \A i \in 1 .. Len(skb) : whole[i] = skb[i]
        /\ whole[Len(skb) + 1] = b /\ Len(skb) \in Nat
    BY <1>2, <1>3, RangeAppend
  <1> HIDE DEF b, whole
  <1>7. skb' \in Seq(Buffers) /\ pc' \in {"loop", "idle"} /\ headless' \in BOOLEAN
    <2>1. <<>> \in Seq(Buffers)
      OBVIOUS
    <2>2. headless \in BOOLEAN
      BY <1>0 DEF TypeOK
    <2> QED BY <1>2, <1>5, <1>6, <2>1, <2>2
  <1>8. Held' = Held \cup {b}
    <2>1. CASE got[1].last
      <3>1. Range(<<>>) = {}
        BY DEF Range
      <3> QED BY <1>5, <1>6, <2>1, <3>1 DEF Held
    <2>2. CASE ~got[1].last
      BY <1>5, <1>6, <2>2 DEF Held
    <2> QED BY <2>1, <2>2
  <1>9. Once'
    <2>1. CASE got[1].last
      <3>1. Range(<<>>) = {} /\ Len(<<>>) = 0
        BY DEF Range
      <3> QED BY <1>5, <2>1, <3>1 DEF Once
    <2>2. CASE ~got[1].last
      <3>1. skb' = whole /\ stack' = stack
        BY <1>5, <2>2
      <3>2. b \notin Range(skb) /\ b \notin stack
        BY <1>2 DEF Held
      <3>3. stack' \cap Range(skb') = {}
        BY <1>0, <1>6, <3>1, <3>2 DEF Once
      <3>4. \A i \in 1 .. Len(skb) : skb[i] # b
        BY <1>3, <3>2 DEF Range
      <3>5. ASSUME NEW i \in 1 .. Len(skb'), NEW j \in 1 .. Len(skb'), skb'[i] = skb'[j]
            PROVE  i = j
        <4>1. /\ i \in 1 .. Len(skb) \/ i = Len(skb) + 1
              /\ j \in 1 .. Len(skb) \/ j = Len(skb) + 1
          BY <1>6, <3>1
        <4> QED BY <1>0, <1>6, <3>1, <3>4, <3>5, <4>1 DEF Once
      <3> QED BY <3>3, <3>5 DEF Once
    <2> QED BY <2>1, <2>2
  <1>10. Frames' /\ Len(skb') < MaxBufs
    <2>1. skb' = <<>> /\ ~headless' <=> got[1].last
      <3>1. whole # <<>>
        BY <1>6
      <3> QED BY <1>5, <3>1
    <2>2. Len(skb') <= Len(skb) + 1
      BY <1>5, <1>6
    <2>3. got[1].last => skb' = <<>>
      BY <1>5
    <2> HIDE DEF Frames
    <2> QED BY <1>0, <1>1, <1>2, <1>3, <1>7, <2>1, <2>2, <2>3, CutNext
  <1>11. /\ tbl' \in [Slots -> Places] /\ alloc' \in 0 .. W - 1
         /\ refs' \in [Pages -> Int]
         /\ Window' /\ Behind' /\ Apart' /\ Counted'
    <2>1. CASE refs[b.page] = 1 /\ Recycle(b)
      <3>1. /\ alloc' \in 0 .. W - 1 /\ Window' /\ Behind' /\ Apart' /\ Counted'
        BY <1>1, <1>7, <1>8, <2>1, Recycled DEF b
      <3>2. /\ tbl' = [tbl EXCEPT ![Slot(alloc)] = [page |-> b.page, off |-> 1 - b.off],
                                  ![Slot(rd)] = Empty]
            /\ refs' = [refs EXCEPT ![b.page] = @ + 1]
        BY <2>1 DEF Recycle
      <3>3. [page |-> b.page, off |-> 1 - b.off] \in Places /\ Empty \in Places
        BY <1>2 DEF Buffers, Places, Empty
      <3>4. tbl' \in [Slots -> Places]
        BY <1>3, <3>2, <3>3
      <3>5. refs' \in [Pages -> Int]
        <4>1. b.page \in Pages /\ refs[b.page] = 1
          BY <1>2, <2>1 DEF Buffers
        <4> QED BY <1>3, <3>2, <4>1
      <3> QED BY <3>1, <3>4, <3>5
    <2>2. CASE GiveAway
      <3>1. tbl' = [tbl EXCEPT ![R] = Empty] /\ alloc' = alloc /\ refs' = refs
        BY <1>2, <2>2 DEF GiveAway
      <3>2. Window' /\ Behind' /\ Apart' /\ Counted'
        BY <1>1, <1>7, <1>8, <3>1, Given DEF b
      <3>3. Empty \in Places /\ alloc \in 0 .. W - 1
        BY <1>0, View DEF Places, Empty
      <3>4. tbl' \in [Slots -> Places]
        BY <1>3, <3>1, <3>3
      <3> QED BY <1>3, <3>1, <3>2, <3>3, <3>4
    <2> QED BY <1>4, <2>1, <2>2
  <1>12. refs' \in [Pages -> 0 .. 3]
    BY <1>11, RefsTyped
  <1>13. stack' \subseteq Buffers
    <2>1. Range(skb) \subseteq Buffers
      BY <1>3 DEF Range
    <2> QED BY <1>2, <1>3, <1>5, <1>6, <2>1
  <1>14. got' \in Seq(Parts) /\ Len(got') <= Len(bd') /\ Len(bd') < Depth
    BY <1>2, <1>3
  <1>15. Types'
    <2>1. wr' = wr /\ frag' = frag /\ failed' = failed /\ left' = left
      BY <1>1
    <2>2. TypeOK'
      BY <1>0, <1>2, <1>7, <1>10, <1>11, <1>12, <1>13, <1>14, <2>1 DEF TypeOK, Places
    <2> QED BY <1>7, <2>2 DEF Types
  <1>16. Stocked'
    <2>1. failed' = failed /\ pc = "loop"
      BY <1>1, <1>2
    <2>2. SUFFICES ASSUME ~failed
                   PROVE /\ pc' = "loop" => N' >= Depth - Thr - Len(skb')
                         /\ pc' = "idle" => N' >= Depth - Thr - MaxBufs
      BY <2>1 DEF Stocked
    <2>3. N >= Depth - Thr - Len(skb) /\ Len(skb) < MaxBufs
      BY <1>0, <2>1, <2>2 DEF Stocked, TypeOK
    <2>4. CASE got[1].last
      BY <1>2, <1>3, <1>5, <1>6, <2>3, <2>4
    <2>5. CASE ~got[1].last
      BY <1>2, <1>3, <1>5, <1>6, <2>3, <2>5
    <2> QED BY <2>4, <2>5
  <1> QED BY <1>9, <1>10, <1>11, <1>15, <1>16 DEF RxInv

LEMMA ReceiveNoMemoryStep ==
    ASSUME RxInv, ReceiveNoMemory
    PROVE  RxInv'
  <1> DEFINE b == T[0]
  <1>0. Types /\ TypeOK /\ Window /\ Behind /\ Apart /\ Once /\ Counted /\ Frames /\ Stocked
    BY DEF RxInv, Types
  <1>1. Dequeue /\ UNCHANGED <<wr, alloc, frag, skb, stack, failed, left>>
    BY DEF ReceiveNoMemory
  <1>2. /\ N > 0 /\ N' = N - 1 /\ rd' \in 0 .. W - 1 /\ Slot(rd) = R /\ tbl[R] = b
        /\ b \in Buffers /\ b \notin Held /\ got # <<>> /\ pc = "loop" /\ tbl[Slot(rd)] = b
        /\ bd' \in Seq(Buffers) /\ Len(bd') = N - 1
    BY <1>0, <1>1, DequeueView
  <1>3. /\ got' = Tail(got) /\ got \in Seq(Parts) /\ skb \in Seq(Buffers)
        /\ refs \in [Pages -> Int] /\ Len(got) <= Len(bd) /\ Len(bd) = N
        /\ N \in Nat /\ M \in Nat /\ N + M < Depth /\ Depth \in Nat /\ R \in Slots
        /\ tbl \in [Slots -> Places] /\ MaxBufs \in Nat /\ MaxBufs > 0 /\ Thr \in Nat
        /\ MaxBufs <= Thr /\ Thr + MaxBufs < Depth
    <2>1. got' = Tail(got) /\ Len(bd) = N
      BY <1>0, <1>1, <1>2 DEF Dequeue, Window
    <2>2. /\ refs \in [Pages -> Int] /\ tbl \in [Slots -> Places] /\ got \in Seq(Parts)
          /\ skb \in Seq(Buffers) /\ Len(got) <= Len(bd)
      BY <1>0 DEF TypeOK, Places
    <2> QED BY <1>0, <2>1, <2>2, View, Sizes
  <1>4. /\ skb = <<>> /\ refs' = [refs EXCEPT ![b.page] = @ - 1]
        /\ tbl' = [tbl EXCEPT ![R] = Empty] /\ headless' = ~got[1].last /\ pc' = "idle"
    BY <1>2 DEF ReceiveNoMemory
  <1> HIDE DEF b
  <1>5. Held' = Held /\ Once'
    BY <1>0, <1>1 DEF Held, Once
  <1>6. Window' /\ Behind' /\ Apart' /\ Counted'
    BY <1>1, <1>4, <1>5, Given DEF b
  <1>7. got[1] \in Parts /\ got[1].last \in BOOLEAN
    <2>1. got[1] \in Parts
      BY <1>2, <1>3
    <2> QED BY <2>1 DEF Parts
  <1>8. Frames' /\ Len(skb') < MaxBufs
    <2>1. skb' = <<>> /\ ~headless' <=> got[1].last
      BY <1>1, <1>4, <1>7
    <2>2. Len(skb') <= Len(skb) + 1 /\ skb' \in Seq(Buffers)
      BY <1>1, <1>3
    <2>3. got[1].last => skb' = <<>>
      BY <1>1, <1>4
    <2> HIDE DEF Frames
    <2> QED BY <1>0, <1>1, <1>2, <1>3, <2>1, <2>2, <2>3, CutNext
  <1>9. tbl' \in [Slots -> Places]
    <2>1. Empty \in Places
      BY DEF Places, Empty
    <2> QED BY <1>3, <1>4, <2>1
  <1>10. refs' \in [Pages -> 0 .. 3]
    <2>1. b.page \in Pages
      BY <1>2 DEF Buffers
    <2>2. refs' \in [Pages -> Int]
      BY <1>3, <1>4, <2>1
    <2> QED BY <1>6, <2>2, RefsTyped
  <1>11. got' \in Seq(Parts) /\ Len(got') <= Len(bd') /\ Len(bd') < Depth
    BY <1>2, <1>3
  <1>12. Types'
    <2>1. headless' \in BOOLEAN /\ pc' = "idle"
      BY <1>4
    <2>2. TypeOK'
      BY <1>0, <1>1, <1>2, <1>8, <1>9, <1>10, <1>11, <2>1 DEF TypeOK, Places
    <2> QED BY <2>1, <2>2 DEF Types
  <1>13. Stocked'
    <2>1. ~failed => N >= Depth - Thr - 0
      BY <1>0, <1>2, <1>4 DEF Stocked
    <2> QED BY <1>1, <1>2, <1>3, <1>4, <2>1 DEF Stocked
  <1> QED BY <1>5, <1>6, <1>8, <1>12, <1>13 DEF RxInv

-----------------------------------------------------------------------------
(* The hardware, the stack and the end                                     *)

LEMMA ReceiveNoneStep ==
    ASSUME RxInv, ReceiveNone
    PROVE  RxInv'
  <1>0. /\ Types /\ TypeOK /\ Window /\ Stocked
        /\ N \in Nat /\ Depth \in Nat /\ Thr \in Nat /\ MaxBufs \in Nat
    BY View, Sizes DEF RxInv, Types
  <1>1. /\ UNCHANGED <<tbl, rd, wr, alloc, bd, got, frag, skb, refs, stack, failed, left, headless>>
        /\ pc = "loop" /\ pc' = "idle"
    BY DEF ReceiveNone
  <1>2. R' = R /\ N' = N /\ M' = M /\ T' = T /\ Held' = Held
    BY <1>1, ViewSame DEF Held
  <1>3. Types'
    BY <1>0, <1>1 DEF Types, TypeOK
  <1>4. Stocked'
    <2>1. ~failed => N >= Depth - Thr - Len(skb) /\ Len(skb) < MaxBufs /\ Len(skb) \in Nat
      BY <1>0, <1>1 DEF Stocked, TypeOK
    <2> QED BY <1>0, <1>1, <1>2, <2>1 DEF Stocked
  <1>5. Window' /\ Behind' /\ Apart' /\ Once' /\ Counted' /\ Frames'
    BY <1>1, SameState
  <1> QED BY <1>3, <1>4, <1>5 DEF RxInv

LEMMA HwReceiveStep ==
    ASSUME RxInv, NEW last \in BOOLEAN, HwReceive(last)
    PROVE  RxInv'
  <1>0. Types /\ TypeOK /\ Window /\ Frames
    BY DEF RxInv, Types
  <1>1. /\ UNCHANGED <<tbl, rd, wr, alloc, bd, skb, pc, refs, stack, failed, left, headless>>
        /\ Len(got) < Len(bd)
        /\ frag + 1 = MaxBufs => last
        /\ got' = Append(got, [first |-> frag = 0, last |-> last])
        /\ frag' = IF last THEN 0 ELSE frag + 1
    BY DEF HwReceive, drv
  <1>2. R' = R /\ N' = N /\ M' = M /\ T' = T /\ Held' = Held
    BY <1>1, ViewSame DEF Held
  <1>3. /\ MaxBufs \in Nat /\ MaxBufs > 0 /\ frag \in 0 .. MaxBufs - 1 /\ got \in Seq(Parts)
        /\ Len(got) \in Nat
    BY <1>0, Sizes DEF TypeOK
  <1>4. /\ got' \in Seq(Parts) /\ Len(got') = Len(got) + 1
        /\ \A i \in 1 .. Len(got) : got'[i] = got[i]
        /\ got'[Len(got) + 1].first <=> frag = 0
        /\ got'[Len(got) + 1].last = last
    <2>1. [first |-> frag = 0, last |-> last] \in Parts
      BY DEF Parts
    <2> DEFINE q == [first |-> frag = 0, last |-> last]
    <2>2. q \in Parts /\ got' = Append(got, q) /\ (q.first <=> frag = 0) /\ q.last = last
      BY <1>1, <2>1
    <2> HIDE DEF q
    <2>3. /\ got' \in Seq(Parts) /\ Len(got') = Len(got) + 1
          /\ \A i \in 1 .. Len(got) : got'[i] = got[i]
          /\ got'[Len(got) + 1] = q
      BY <1>3, <2>2
    <2> QED BY <2>2, <2>3
  <1>5. frag' \in 0 .. MaxBufs - 1
    BY <1>1, <1>3
  <1>6. Len(got') <= Len(bd')
    <2>1. Len(bd) \in Nat
      BY <1>0 DEF TypeOK
    <2> QED BY <1>1, <1>3, <1>4, <2>1
  <1>7. Types'
    BY <1>0, <1>1, <1>2, <1>4, <1>5, <1>6 DEF Types, TypeOK
  <1>8. Frames'
    <2>1. SUFFICES ASSUME pc # "down" PROVE Frames'
      BY <1>1 DEF Frames
    <2>2. PICK at \in [1 .. Len(got) + 1 -> 0 .. MaxBufs - 1] : Cut(at)
      BY <1>0, <2>1 DEF Frames
    <2>3. /\ at[Len(got) + 1] = frag
          /\ \A i \in 1 .. Len(got) : /\ got[i].first <=> at[i] = 0
                                      /\ at[i + 1] = IF got[i].last THEN 0 ELSE at[i] + 1
          /\ at[1] = 0 <=> skb = <<>> /\ ~headless
          /\ at[1] >= Len(skb)
      BY <2>2 DEF Cut
    <2> DEFINE next == [i \in 1 .. Len(got') + 1 |-> IF i <= Len(got) + 1 THEN at[i] ELSE frag']
    <2>4. next \in [1 .. Len(got') + 1 -> 0 .. MaxBufs - 1]
      <3>1. ASSUME NEW i \in 1 .. Len(got') + 1, i <= Len(got) + 1
            PROVE  at[i] \in 0 .. MaxBufs - 1
        <4>1. i \in 1 .. Len(got) + 1
          BY <1>3, <3>1
        <4> QED BY <2>2, <4>1
      <3> QED BY <1>5, <3>1
    <2>5. /\ \A i \in 1 .. Len(got) + 1 : next[i] = at[i]
          /\ next[Len(got') + 1] = frag'
      <3>1. \A i \in 1 .. Len(got) + 1 : i \in 1 .. Len(got') + 1 /\ i <= Len(got) + 1
        BY <1>3, <1>4
      <3>2. Len(got') + 1 \in 1 .. Len(got') + 1 /\ ~(Len(got') + 1 <= Len(got) + 1)
        BY <1>3, <1>4
      <3> QED BY <3>1, <3>2
    <2> HIDE DEF next
    <2>6. ASSUME NEW i \in 1 .. Len(got')
          PROVE  /\ got'[i].first <=> next[i] = 0
                 /\ next[i + 1] = IF got'[i].last THEN 0 ELSE next[i] + 1
      <3>1. CASE i \in 1 .. Len(got)
        <4>1. i \in 1 .. Len(got) + 1 /\ i + 1 \in 1 .. Len(got) + 1
          BY <1>3, <3>1
        <4> QED BY <1>4, <2>3, <2>5, <3>1, <4>1
      <3>2. CASE i = Len(got) + 1
        <4>1. i \in 1 .. Len(got) + 1 /\ i + 1 = Len(got') + 1
          BY <1>3, <1>4, <3>2
        <4>2. next[i] = frag /\ next[i + 1] = frag'
          BY <2>3, <2>5, <3>2, <4>1
        <4> QED BY <1>1, <1>4, <3>2, <4>2
      <3> QED BY <1>3, <1>4, <3>1, <3>2
    <2>7. next[1] = at[1]
      <3>1. 1 \in 1 .. Len(got) + 1
        BY <1>3
      <3> QED BY <2>5, <3>1
    <2>8. \E a \in [1 .. Len(got') + 1 -> 0 .. MaxBufs - 1] :
            /\ a[Len(got') + 1] = frag'
            /\ \A i \in 1 .. Len(got') :
                 /\ got'[i].first <=> a[i] = 0
                 /\ a[i + 1] = IF got'[i].last THEN 0 ELSE a[i] + 1
            /\ a[1] = 0 <=> skb' = <<>> /\ ~headless'
            /\ a[1] >= Len(skb')
      BY <1>1, <2>3, <2>4, <2>5, <2>6, <2>7
    <2> QED BY <2>8 DEF Frames, Cut
  <1> QED BY <1>1, <1>2, <1>7, <1>8
    DEF RxInv, Window, Behind, Apart, Once, Counted, Uses, InTbl, HalfHeld, Stocked

LEMMA StackFreeStep ==
    ASSUME RxInv, NEW h \in stack, StackFree(h)
    PROVE  RxInv'
  <1>0. Types /\ TypeOK /\ Apart /\ Once /\ Counted
    BY DEF RxInv, Types
  <1>1. /\ UNCHANGED <<tbl, rd, wr, alloc, bd, got, frag, skb, pc, failed, left, headless>>
        /\ stack' = stack \ {h} /\ refs' = [refs EXCEPT ![h.page] = @ - 1]
    BY DEF StackFree, drv
  <1>2. R' = R /\ N' = N /\ M' = M /\ T' = T
    BY <1>1, ViewSame
  <1>3. h \in Buffers /\ h.page \in Pages /\ refs \in [Pages -> Nat] /\ h \in Held
    <2>1. h \in Buffers /\ h \in Held
      BY <1>0 DEF TypeOK, Held
    <2>2. refs \in [Pages -> Nat]
      BY <1>0 DEF TypeOK
    <2> QED BY <2>1, <2>2 DEF Buffers
  <1>4. Held' = Held \ {h}
    <2>1. h \notin Range(skb)
      BY <1>0 DEF Once
    <2> QED BY <1>1, <2>1 DEF Held
  <1>5. Apart' /\ Once'
    BY <1>0, <1>1, <1>2, <1>4 DEF Apart, Once
  <1>6. ASSUME NEW p \in Pages
        PROVE  \/ refs'[p] = Uses(p)'
               \/ refs'[p] = Uses(p)' + 1 /\ p \in left' /\ ~InTbl(p)'
    <2>0. /\ refs[p] \in Nat /\ InTbl(p)' = InTbl(p)
          /\ \/ refs[p] = Uses(p)
             \/ refs[p] = Uses(p) + 1 /\ p \in left /\ ~InTbl(p)
      BY <1>0, <1>2, <1>3 DEF Counted, InTbl
    <2>1. CASE p # h.page
      <3>1. \A o : HalfHeld(p, o)' <=> HalfHeld(p, o)
        BY <1>4, <2>1 DEF HalfHeld
      <3> QED BY <1>1, <1>3, <2>0, <2>1, <3>1 DEF Uses, One
    <2>2. CASE p = h.page
      <3>1. /\ h = [page |-> p, off |-> 0] \/ h = [page |-> p, off |-> 1]
            /\ ~(h = [page |-> p, off |-> 0] /\ h = [page |-> p, off |-> 1])
        BY <1>3, <2>2 DEF Buffers
      <3>2. \A o : HalfHeld(p, o)' <=> HalfHeld(p, o) /\ h # [page |-> p, off |-> o]
        BY <1>4 DEF HalfHeld
      <3>3. One(HalfHeld(p, 0)) + One(HalfHeld(p, 1))
              = 1 + One(HalfHeld(p, 0)') + One(HalfHeld(p, 1)')
        BY <1>3, <3>1, <3>2 DEF One, HalfHeld
      <3>4. /\ Uses(p)' = One(InTbl(p)) + One(HalfHeld(p, 0)') + One(HalfHeld(p, 1)')
            /\ One(InTbl(p)) \in Nat /\ One(HalfHeld(p, 0)') \in Nat
            /\ One(HalfHeld(p, 1)') \in Nat
            /\ One(HalfHeld(p, 0)) \in Nat /\ One(HalfHeld(p, 1)) \in Nat
        BY <2>0 DEF Uses, One
      <3>5. refs'[p] = refs[p] - 1 /\ left' = left
        BY <1>1, <1>3, <2>2
      <3>6. Uses(p) = One(InTbl(p)) + One(HalfHeld(p, 0)) + One(HalfHeld(p, 1))
        BY DEF Uses
      <3>7. Uses(p) = Uses(p)' + 1 /\ Uses(p)' \in Nat
        BY <3>3, <3>4, <3>6
      <3> QED BY <2>0, <3>5, <3>7
    <2> QED BY <2>1, <2>2
  <1>7. Counted'
    BY <1>6 DEF Counted
  <1>8. refs' \in [Pages -> 0 .. 3]
    <2>1. refs' \in [Pages -> Int]
      BY <1>1, <1>3
    <2> QED BY <1>7, <2>1, RefsTyped
  <1>9. Types'
    BY <1>0, <1>1, <1>2, <1>8 DEF Types, TypeOK
  <1> QED BY <1>1, <1>2, <1>5, <1>7, <1>9 DEF RxInv, Window, Behind, Frames, Cut, Stocked

LEMMA DestroyStep ==
    ASSUME RxInv, Destroy
    PROVE  RxInv'
  <1>0. /\ Types /\ TypeOK /\ Window /\ Apart /\ Once /\ Counted
        /\ NoPage \notin Pages /\ MaxBufs \in Nat /\ MaxBufs > 0 /\ Depth \in Nat /\ Depth > 0
    BY Sizes DEF RxInv, Types
  <1>1. /\ UNCHANGED <<rd, wr, alloc, skb, stack, failed, left, headless>>
        /\ tbl' = [s \in Slots |-> Empty] /\ bd' = <<>> /\ got' = <<>> /\ frag' = 0
        /\ pc' = "down"
        /\ refs' = [p \in Pages |-> refs[p] - Cardinality({s \in Slots : tbl[s].page = p})]
    BY DEF Destroy
  <1>2. R' = R /\ N' = N /\ M' = M /\ Held' = Held
    BY <1>1 DEF R, N, M, Slot, Diff, Held
  <1>3. \A o \in Slots : T'[o] = Empty
    <2>1. \A o \in Slots : T'[o] = tbl'[Fwd(R', o)]
      BY DEF T, Fwd
    <2>2. \A o \in Slots : Fwd(R, o) \in Slots
      BY <1>0, View, Steps
    <2> QED BY <1>1, <1>2, <2>1, <2>2
  <1>4. Window' /\ Behind'
    BY <1>0, <1>1, <1>2, <1>3 DEF Window, Behind, Empty
  <1>5. Apart' /\ Once'
    <2>1. Empty \notin Held /\ Empty.page = NoPage
      BY <1>0, HeldType DEF Empty
    <2> QED BY <1>0, <1>1, <1>2, <1>3, <2>1 DEF Apart, Once
  <1>6. ASSUME NEW p \in Pages
        PROVE  \/ refs'[p] = Uses(p)'
               \/ refs'[p] = Uses(p)' + 1 /\ p \in left' /\ ~InTbl(p)'
    <2>1. ~InTbl(p)'
      BY <1>0, <1>3 DEF InTbl, Empty
    <2>2. /\ refs[p] \in Nat
          /\ \/ refs[p] = Uses(p)
             \/ refs[p] = Uses(p) + 1 /\ p \in left /\ ~InTbl(p)
      BY <1>0, RefsOf DEF Counted
    <2>3. refs'[p] = refs[p] - One(InTbl(p))
      BY <1>0, <1>1, SlotsOf
    <2>4. Uses(p)' = One(HalfHeld(p, 0)) + One(HalfHeld(p, 1))
      BY <1>2, <2>1 DEF Uses, One, HalfHeld
    <2>5. Uses(p) = One(InTbl(p)) + One(HalfHeld(p, 0)) + One(HalfHeld(p, 1))
      BY DEF Uses
    <2>6. One(InTbl(p)) \in Nat /\ One(HalfHeld(p, 0)) \in Nat /\ One(HalfHeld(p, 1)) \in Nat
      BY DEF One
    <2> QED BY <1>1, <2>1, <2>2, <2>3, <2>4, <2>5, <2>6 DEF One
  <1>7. Counted'
    BY <1>6 DEF Counted
  <1>8. refs' \in [Pages -> 0 .. 3]
    <2>1. \A p \in Pages : refs[p] - Cardinality({s \in Slots : tbl[s].page = p}) \in Int
      BY <1>0, SlotsOf, RefsOf DEF One
    <2>2. refs' \in [Pages -> Int]
      BY <1>1, <2>1
    <2> QED BY <1>7, <2>2, RefsTyped
  <1>9. Types'
    <2>1. bd' \in Seq(Buffers) /\ got' \in Seq(Parts) /\ Len(bd') = 0 /\ Len(got') = 0
      BY <1>1
    <2>2. tbl' \in [Slots -> [page : Pages \cup {NoPage}, off : {0, 1}]]
      BY <1>1 DEF Empty
    <2> QED BY <1>0, <1>1, <1>8, <2>1, <2>2 DEF Types, TypeOK
  <1>10. Frames' /\ Stocked'
    BY <1>1 DEF Frames, Stocked
  <1> QED BY <1>4, <1>5, <1>7, <1>9, <1>10 DEF RxInv

-----------------------------------------------------------------------------
(* The refill                                                              *)

LEMMA RefillStep ==
    ASSUME RxInv, pc \in {"off", "idle"}, NEW count \in Nat, N + count < Depth, Refill(count),
           pc' \in {"idle", "loop"}, UNCHANGED <<rd, skb, stack>>
    PROVE  \E k \in 0 .. count :
             /\ N' = N + k /\ M' = 0
             /\ Window' /\ Behind' /\ Apart' /\ Counted'
             /\ tbl' \in [Slots -> Places] /\ refs' \in [Pages -> 0 .. 3]
             /\ bd' \in Seq(Buffers) /\ Len(bd') = N + k
             /\ wr' \in 0 .. W - 1 /\ alloc' \in 0 .. W - 1 /\ left' \subseteq Pages
             /\ failed' = (k < count \/ (failed /\ N + k <= Depth - 1 - Thr))
  <1>0. Types /\ Window /\ Behind /\ Apart /\ Counted
    BY DEF RxInv
  <1>1. /\ rd \in 0 .. W - 1 /\ wr \in 0 .. W - 1 /\ alloc \in 0 .. W - 1
        /\ R \in Slots /\ N \in Nat /\ M \in Nat /\ N + M < Depth /\ N \in Slots
        /\ Slot(wr) = Fwd(R, N)
        /\ \A o \in Slots : T[o] = tbl[Fwd(R, o)] /\ T[o] \in Places
        /\ \A s \in Slots : tbl[s] \in Places
        /\ Depth \in Nat /\ Depth > 2 /\ W \in Nat /\ W >= Depth /\ NoPage \notin Pages
    BY <1>0, View, Sizes
  <1>2. /\ tbl \in [Slots -> Places] /\ refs \in [Pages -> Int] /\ bd \in Seq(Buffers)
        /\ left \subseteq Pages /\ Len(bd) \in Nat
    BY <1>0 DEF Types, TypeOK, Places
  <1>3. PICK k \in 0 .. count :
        LET range == {Slot(wr + i) : i \in 0 .. k - 1}
            bare == {s \in range : tbl[s].page = NoPage}
        IN
        /\ k < count => tbl[Slot(wr + k)].page = NoPage
        /\ \E new \in Injection(bare, Free) :
            /\ tbl' = [s \in Slots |->
                        IF s \in bare THEN [page |-> new[s], off |-> 0]
                        ELSE tbl[s]]
            /\ refs' = [p \in Pages |->
                        IF p \in Range(new) THEN 1 ELSE refs[p]]
        /\ bd' = bd \o [i \in 1 .. k |-> tbl'[Slot(wr + i - 1)]]
        /\ wr' = (wr + k) % W
        /\ alloc' = wr'
        /\ failed' = (k < count \/ (failed /\ Diff(wr + k, rd) <= Depth - 1 - Thr))
        /\ left' = (left \cup {tbl[Slot(wr + i)].page :
                                    i \in k .. Diff(alloc, wr) - 1})
                    \ ({tbl[s].page : s \in range} \cup Free)
    BY DEF Refill
  <1> DEFINE range == {Slot(wr + i) : i \in 0 .. k - 1}
             bare == {s \in range : tbl[s].page = NoPage}
             Fresh(o) == N <= o /\ o < N + k /\ T[o].page = NoPage
  <1>4. PICK new \in Injection(bare, Free) :
            /\ tbl' = [s \in Slots |->
                        IF s \in bare THEN [page |-> new[s], off |-> 0]
                        ELSE tbl[s]]
            /\ refs' = [p \in Pages |->
                        IF p \in Range(new) THEN 1 ELSE refs[p]]
    BY <1>3
  <1>5. /\ bd' = bd \o [i \in 1 .. k |-> tbl'[Slot(wr + i - 1)]]
        /\ wr' = (wr + k) % W
        /\ alloc' = wr'
        /\ failed' = (k < count \/ (failed /\ Diff(wr + k, rd) <= Depth - 1 - Thr))
        /\ left' = (left \cup {tbl[Slot(wr + i)].page : i \in k .. M - 1})
                    \ ({tbl[s].page : s \in range} \cup Free)
    BY <1>3 DEF M
  <1>6. k \in Nat /\ k <= count /\ N + k < Depth /\ k \in 0 .. Depth /\ k \in 0 .. W - 1 /\ N + k < W
    BY <1>1, <1>3
  <1>7. R' = R /\ \A o \in Slots : T'[o] = tbl'[Fwd(R, o)]
    BY DEF R, T, Slot, Fwd
  <1>8. N' = N + k /\ M' = 0 /\ wr' \in 0 .. W - 1 /\ alloc' \in 0 .. W - 1
        /\ Diff(wr + k, rd) = N + k
    <2>1. Diff((wr + k) % W, rd) = N + k /\ Diff(wr + k, rd) = N + k
      BY <1>1, <1>6, Moved DEF N
    <2>2. (wr + k) % W \in 0 .. W - 1
      BY <1>1, <1>6, SlotIs
    <2>3. PICK c \in 0 .. W - 1 : c = (wr + k) % W
      BY <2>2
    <2>4. Diff(c, c) = 0
      <3>1. Diff(c, c) = IF c <= c THEN c - c ELSE c - c + W
        BY DiffIs
      <3>2. c <= c /\ c - c = 0
        BY <1>1
      <3> QED BY <3>1, <3>2
    <2>5. N' = Diff(wr', rd) /\ M' = Diff(wr', wr')
      BY <1>5 DEF N, M, Diff
    <2> QED BY <1>5, <2>1, <2>2, <2>3, <2>4, <2>5
  <1> HIDE DEF T, R, N, M
  <1>9. ASSUME NEW i \in Nat, N + i < Depth
        PROVE  /\ Slot(wr + i) = Fwd(R, N + i) /\ N + i \in Slots /\ Slot(wr + i) \in Slots
               /\ tbl[Slot(wr + i)] = T[N + i]
    <2>1. i \in Slots /\ i \in 0 .. Depth /\ N + i \in Slots
      BY <1>1, <1>9 DEF Slots
    <2>2. Slot(wr + i) = Fwd(Fwd(R, N), i)
      BY <1>1, <2>1, SlotIs
    <2>3. Fwd(Fwd(R, N), i) = Fwd(R, N + i)
      BY <1>1, <1>9, <2>1, Steps
    <2>4. Fwd(R, N + i) \in Slots
      BY <1>1, <2>1, Steps
    <2> QED BY <1>1, <2>1, <2>2, <2>3, <2>4
  <1>10. ASSUME NEW o \in Slots
         PROVE  /\ Fwd(R, o) \in range <=> N <= o /\ o < N + k
                /\ Fwd(R, o) \in Slots
    <2>1. ASSUME N <= o, o < N + k PROVE Fwd(R, o) \in range
      <3>1. PICK i \in 0 .. k - 1 : o = N + i
        <4>1. o - N \in 0 .. k - 1 /\ o = N + (o - N)
          BY <1>1, <1>6, <2>1 DEF Slots
        <4> QED BY <4>1
      <3>2. N + i < Depth /\ i \in Nat
        BY <1>1, <1>6, <3>1
      <3> QED BY <1>9, <3>1, <3>2
    <2>2. ASSUME NEW i \in 0 .. k - 1, Fwd(R, o) = Slot(wr + i) PROVE N <= o /\ o < N + k
      <3>1. N + i < Depth /\ i \in Nat
        BY <1>1, <1>6
      <3>2. Fwd(R, o) = Fwd(R, N + i) /\ N + i \in Slots
        BY <1>9, <2>2, <3>1
      <3>3. o = N + i
        BY <1>1, <3>2, Steps
      <3> QED BY <1>1, <1>6, <3>1, <3>3
    <2>3. Fwd(R, o) \in Slots
      BY <1>1, Steps
    <2> QED BY <2>1, <2>2, <2>3
  <1>11. \A s \in range : \E o \in Slots : s = Fwd(R, o) /\ N <= o /\ o < N + k /\ s \in Slots
    <2>1. ASSUME NEW i \in 0 .. k - 1
          PROVE  \E o \in Slots : Slot(wr + i) = Fwd(R, o) /\ N <= o /\ o < N + k /\ Slot(wr + i) \in Slots
      <3>1. N + i < Depth /\ i \in Nat /\ N <= N + i /\ N + i < N + k
        BY <1>1, <1>6
      <3> QED BY <1>9, <3>1
    <2> QED BY <2>1
  <1>12. \A o \in Slots : Fwd(R, o) \in bare <=> Fresh(o)
    BY <1>1, <1>10
  <1>13. /\ new \in [bare -> Free] /\ \A a, b \in bare : new[a] = new[b] => a = b
         /\ DOMAIN new = bare
    BY <1>4 DEF Injection, IsInjective
  <1> HIDE DEF bare, range, Fresh
  <1>14. /\ \A o \in Slots : Fresh(o) => T'[o] = [page |-> new[Fwd(R, o)], off |-> 0]
         /\ \A o \in Slots : ~Fresh(o) => T'[o] = T[o]
    <2>1. \A s \in Slots : tbl'[s] = IF s \in bare THEN [page |-> new[s], off |-> 0] ELSE tbl[s]
      BY <1>4
    <2>2. \A o \in Slots : T'[o] = tbl'[Fwd(R, o)] /\ Fwd(R, o) \in Slots /\ T[o] = tbl[Fwd(R, o)]
      BY <1>1, <1>7, <1>10
    <2> QED BY <1>12, <2>1, <2>2
  <1>15. \A o \in Slots : Fresh(o) => /\ T'[o].page \in Free /\ T'[o] \in Buffers
                                      /\ T'[o] = [page |-> T'[o].page, off |-> 0]
    <2>1. \A o \in Slots : Fresh(o) => new[Fwd(R, o)] \in Free
      BY <1>12, <1>13
    <2>2. ASSUME NEW o \in Slots, Fresh(o)
          PROVE  /\ T'[o].page \in Free /\ T'[o] \in Buffers
                 /\ T'[o] = [page |-> T'[o].page, off |-> 0]
      <3>1. PICK q \in Free : q = new[Fwd(R, o)]
        BY <2>1, <2>2
      <3>2. T'[o] = [page |-> q, off |-> 0]
        BY <1>14, <2>2, <3>1
      <3> QED BY <3>2 DEF Free, Buffers
    <2> QED BY <2>2
  <1>16. \A o, i \in Slots : Fresh(o) /\ Fresh(i) /\ T'[o].page = T'[i].page => o = i
    <2>1. ASSUME NEW o \in Slots, NEW i \in Slots, Fresh(o), Fresh(i), T'[o].page = T'[i].page
          PROVE  o = i
      <3>1. new[Fwd(R, o)] = new[Fwd(R, i)]
        <4>1. /\ T'[o] = [page |-> new[Fwd(R, o)], off |-> 0]
              /\ T'[i] = [page |-> new[Fwd(R, i)], off |-> 0]
          BY <1>14, <2>1
        <4> QED BY <2>1, <4>1
      <3>2. Fwd(R, o) = Fwd(R, i)
        BY <1>12, <1>13, <2>1, <3>1
      <3> QED BY <1>1, <2>1, <3>2, Steps
    <2> QED BY <2>1
  <1>17. ASSUME NEW p \in Pages
         PROVE  refs'[p] = IF \E o \in Slots : Fresh(o) /\ T'[o].page = p THEN 1 ELSE refs[p]
    <2>1. refs'[p] = IF p \in Range(new) THEN 1 ELSE refs[p]
      BY <1>4
    <2>2. p \in Range(new) <=> \E s \in bare : p = new[s]
      BY <1>13 DEF Range
    <2>3. (\E s \in bare : p = new[s]) <=> \E o \in Slots : Fresh(o) /\ T'[o].page = p
      <3>1. ASSUME NEW s \in bare, p = new[s] PROVE \E o \in Slots : Fresh(o) /\ T'[o].page = p
        <4>1. PICK o \in Slots : s = Fwd(R, o)
          BY <1>11 DEF bare
        <4>2. Fresh(o) /\ T'[o] = [page |-> new[s], off |-> 0]
          BY <1>12, <1>14, <3>1, <4>1
        <4> QED BY <3>1, <4>2
      <3>2. ASSUME NEW o \in Slots, Fresh(o), T'[o].page = p PROVE \E s \in bare : p = new[s]
        <4>1. Fwd(R, o) \in bare /\ T'[o] = [page |-> new[Fwd(R, o)], off |-> 0]
          BY <1>12, <1>14, <3>2
        <4> QED BY <3>2, <4>1
      <3> QED BY <3>1, <3>2
    <2> QED BY <2>1, <2>2, <2>3
  \* The pages of the slots, and what was lost, are not free.
  <1>18. /\ \A o \in Slots, p \in Free : T[o].page # p
         /\ \A p \in Free : refs[p] = 0 /\ p \in Pages /\ Uses(p) = 0 /\ ~InTbl(p)
                            /\ ~HalfHeld(p, 0) /\ ~HalfHeld(p, 1)
    <2>1. \A p \in Free : p \in Pages /\ refs[p] = 0
      BY DEF Free
    <2>2. \A p \in Free : Uses(p) = 0 /\ ~InTbl(p) /\ ~HalfHeld(p, 0) /\ ~HalfHeld(p, 1)
      BY <1>0, <2>1, RefsOf
    <2> QED BY <2>1, <2>2 DEF InTbl
  <1>19. pc # "down" /\ pc' # "down" /\ Held' = Held
    BY DEF Held
  <1>20. /\ Len(bd) = N
         /\ \A i \in 1 .. N : bd[i] = T[i - 1]
         /\ \A o \in 0 .. N + M - 1 : T[o].page # NoPage
    BY <1>0, <1>19 DEF Window
  <1>21. \A o \in 0 .. N + k - 1 : T'[o].page # NoPage /\ T'[o] \in Buffers /\ o \in Slots
    <2>1. ASSUME NEW o \in 0 .. N + k - 1 PROVE T'[o].page # NoPage /\ T'[o] \in Buffers /\ o \in Slots
      <3>1. o \in Slots
        BY <1>1, <1>6 DEF Slots
      <3>2. CASE Fresh(o)
        BY <1>1, <1>15, <3>1, <3>2 DEF Free
      <3>3. CASE ~Fresh(o)
        <4>1. T[o].page # NoPage
          <5>1. CASE o < N
            <6>1. o \in 0 .. N + M - 1
              BY <1>1, <5>1
            <6> QED BY <1>20, <6>1
          <5>2. CASE ~(o < N)
            BY <1>1, <1>6, <2>1, <3>1, <3>3, <5>2 DEF Fresh, Slots
          <5> QED BY <5>1, <5>2
        <4>2. T'[o] = T[o] /\ T[o] \in Places
          BY <1>1, <1>14, <3>1, <3>3
        <4> QED BY <3>1, <4>1, <4>2 DEF Places, Buffers
      <3> QED BY <3>2, <3>3
    <2> QED BY <2>1
  <1>22. bd' \in Seq(Buffers) /\ Len(bd') = N + k /\ \A i \in 1 .. N + k : bd'[i] = T'[i - 1]
    <2> DEFINE more == [i \in 1 .. k |-> tbl'[Slot(wr + i - 1)]]
    <2>1. ASSUME NEW i \in 1 .. k
          PROVE  tbl'[Slot(wr + i - 1)] = T'[N + i - 1] /\ T'[N + i - 1] \in Buffers
      <3>1. PICK j \in Nat : j = i - 1
        BY <1>6
      <3>2. N + j < Depth /\ wr + i - 1 = wr + j /\ N + i - 1 = N + j /\ N + j \in 0 .. N + k - 1
        BY <1>1, <1>6, <3>1
      <3>3. Slot(wr + j) = Fwd(R, N + j) /\ N + j \in Slots
        BY <1>9, <3>2
      <3> QED BY <1>7, <1>21, <3>2, <3>3
    <2>2. /\ more \in Seq(Buffers) /\ Len(more) = k
          /\ \A i \in 1 .. k : more[i] = T'[N + i - 1]
      BY <1>6, <2>1
    <2>3. bd' = bd \o more
      BY <1>5
    <2> HIDE DEF more
    <2>4. /\ bd' \in Seq(Buffers) /\ Len(bd') = N + k
          /\ \A i \in 1 .. N + k : bd'[i] = IF i <= N THEN bd[i] ELSE more[i - N]
      <3>1. /\ bd \o more \in Seq(Buffers) /\ Len(bd \o more) = Len(bd) + Len(more)
            /\ \A i \in 1 .. Len(bd) + Len(more) :
                  (bd \o more)[i] = IF i <= Len(bd) THEN bd[i] ELSE more[i - Len(bd)]
        BY <1>2, <2>2, ConcatProperties
      <3> QED BY <1>20, <2>2, <2>3, <3>1
    <2>5. ASSUME NEW i \in 1 .. N + k PROVE bd'[i] = T'[i - 1]
      <3>1. CASE i <= N
        <4>1. i \in 1 .. N /\ i - 1 \in Slots /\ ~(N <= i - 1)
          BY <1>1, <1>6, <3>1 DEF Slots
        <4>2. T'[i - 1] = T[i - 1]
          BY <1>14, <4>1 DEF Fresh
        <4> QED BY <1>20, <2>4, <3>1, <4>1, <4>2
      <3>2. CASE ~(i <= N)
        <4>1. PICK j \in 1 .. k : j = i - N
          BY <1>1, <1>6, <3>2
        <4>2. N + j - 1 = i - 1
          BY <1>1, <4>1
        <4> QED BY <2>2, <2>4, <3>2, <4>1, <4>2
      <3> QED BY <3>1, <3>2
    <2> QED BY <2>4, <2>5
  <1>23. Window'
    <2>1. N' + M' < Depth /\ Len(bd') = N'
      BY <1>1, <1>6, <1>8, <1>22
    <2>2. N' + M' = N + k
      BY <1>1, <1>6, <1>8
    <2>3. \A i \in 1 .. N' : bd'[i] = T'[i - 1]
      BY <1>8, <1>22
    <2>4. \A o \in 0 .. N' + M' - 1 : T'[o].page # NoPage
      <3>1. N' + M' - 1 = N + k - 1
        BY <1>1, <1>6, <1>8
      <3> QED BY <1>21, <3>1
    <2> QED BY <1>19, <2>1, <2>3, <2>4 DEF Window
  <1>24. ASSUME NEW o \in Slots, NEW i \in Slots, o # i, T'[o].page # NoPage
         PROVE  T'[o].page # T'[i].page
    <2>1. CASE Fresh(o) /\ Fresh(i)
      BY <1>16, <1>24, <2>1
    <2>2. CASE Fresh(o) /\ ~Fresh(i)
      BY <1>14, <1>15, <1>18, <2>2
    <2>3. CASE ~Fresh(o) /\ Fresh(i)
      BY <1>14, <1>15, <1>18, <2>3
    <2>4. CASE ~Fresh(o) /\ ~Fresh(i)
      BY <1>0, <1>14, <1>24, <2>4 DEF Apart
    <2> QED BY <2>1, <2>2, <2>3, <2>4
  <1>25. Apart'
    <2>1. ASSUME NEW o \in Slots PROVE T'[o] \notin Held
      <3>1. CASE Fresh(o)
        BY <1>15, <1>18, <3>1 DEF HalfHeld
      <3>2. CASE ~Fresh(o)
        BY <1>0, <1>14, <3>2 DEF Apart
      <3> QED BY <3>1, <3>2
    <2> QED BY <1>19, <1>24, <2>1 DEF Apart
  <1>26. ASSUME NEW p \in left \cup {tbl[Slot(wr + i)].page : i \in k .. M - 1},
                p \notin Free, \A o \in Slots : N <= o /\ o < N + k => T[o].page # p
         PROVE  p \in left'
    <2>1. p \notin {tbl[s].page : s \in range}
      <3>1. ASSUME NEW s \in range PROVE tbl[s].page # p
        <4>1. PICK o \in Slots : s = Fwd(R, o) /\ N <= o /\ o < N + k
          BY <1>11
        <4> QED BY <1>1, <1>26, <4>1
      <3> QED BY <3>1
    <2> QED BY <1>5, <1>26, <2>1
  <1>27. Behind'
    <2>1. ASSUME NEW o \in Slots, T'[o].page # NoPage, ~(o < N + k)
          PROVE  T'[o].page \in left'
      <3>1. T'[o] = T[o]
        BY <1>14, <2>1 DEF Fresh
      <3>2. T[o].page \in left \cup {tbl[Slot(wr + i)].page : i \in k .. M - 1}
        <4>1. CASE o < N + M
          <5>1. PICK i \in k .. M - 1 : o = N + i
            <6>1. o - N \in k .. M - 1 /\ o = N + (o - N)
              BY <1>1, <1>6, <2>1, <4>1 DEF Slots
            <6> QED BY <6>1
          <5>2. i \in Nat /\ N + i < Depth
            BY <1>1, <1>6, <5>1
          <5>3. tbl[Slot(wr + i)] = T[o]
            BY <1>9, <5>1, <5>2
          <5> QED BY <5>3
        <4>2. CASE ~(o < N + M)
          BY <1>0, <2>1, <3>1, <4>2 DEF Behind
        <4> QED BY <4>1, <4>2
      <3>3. T[o].page \notin Free
        BY <1>18
      <3>4. \A i \in Slots : N <= i /\ i < N + k => T[i].page # T[o].page
        BY <1>0, <2>1, <3>1 DEF Apart
      <3> QED BY <1>26, <3>1, <3>2, <3>3, <3>4
    <2>2. N' + M' = N + k
      BY <1>1, <1>6, <1>8
    <2> QED BY <2>1, <2>2 DEF Behind
  <1>28. ASSUME NEW p \in Pages
         PROVE  \/ refs'[p] = Uses(p)'
                \/ refs'[p] = Uses(p)' + 1 /\ p \in left' /\ ~InTbl(p)'
    <2>0. Uses(p)' = One(InTbl(p)') + One(HalfHeld(p, 0)) + One(HalfHeld(p, 1))
      BY <1>19 DEF Uses, One, HalfHeld
    <2>1. CASE \E o \in Slots : Fresh(o) /\ T'[o].page = p
      <3>1. PICK o \in Slots : Fresh(o) /\ T'[o].page = p
        BY <2>1
      <3>2. p \in Free
        BY <1>15, <3>1
      <3>3. InTbl(p)' /\ ~HalfHeld(p, 0) /\ ~HalfHeld(p, 1)
        BY <1>18, <3>1, <3>2 DEF InTbl
      <3>4. refs'[p] = 1
        BY <1>17, <2>1
      <3> QED BY <2>0, <3>3, <3>4 DEF One
    <2>2. CASE ~\E o \in Slots : Fresh(o) /\ T'[o].page = p
      <3>1. refs'[p] = refs[p]
        BY <1>17, <2>2
      <3>2. InTbl(p)' <=> InTbl(p)
        <4>1. ASSUME NEW o \in Slots, T'[o].page = p PROVE InTbl(p)
          BY <1>14, <2>2, <4>1 DEF InTbl
        <4>2. ASSUME NEW o \in Slots, T[o].page = p PROVE InTbl(p)'
          <5>1. ~Fresh(o)
            BY <1>1, <4>2 DEF Fresh
          <5> QED BY <1>14, <4>2, <5>1 DEF InTbl
        <4> QED BY <4>1, <4>2 DEF InTbl
      <3>3. Uses(p)' = Uses(p)
        BY <2>0, <3>2 DEF Uses, One
      <3>4. CASE refs[p] = Uses(p)
        BY <3>1, <3>3, <3>4
      <3>5. CASE refs[p] = Uses(p) + 1 /\ p \in left /\ ~InTbl(p)
        <4>1. p \notin Free
          <5>1. Uses(p) \in 0 .. 3
            BY <1>0, RefsOf
          <5> QED BY <3>5, <5>1 DEF Free
        <4>2. \A o \in Slots : T[o].page # p
          BY <3>5 DEF InTbl
        <4>3. p \in left'
          BY <1>26, <3>5, <4>1, <4>2
        <4> QED BY <3>1, <3>2, <3>3, <3>5, <4>3
      <3> QED BY <1>0, <3>4, <3>5 DEF Counted
    <2> QED BY <2>1, <2>2
  <1>29. Counted'
    BY <1>28 DEF Counted
  <1>30. tbl' \in [Slots -> Places]
    <2>1. ASSUME NEW s \in Slots PROVE tbl'[s] \in Places
      <3>1. CASE s \in bare
        <4>1. new[s] \in Pages /\ tbl'[s] = [page |-> new[s], off |-> 0]
          BY <1>4, <1>13, <3>1 DEF Free
        <4> QED BY <4>1 DEF Places
      <3>2. CASE s \notin bare
        BY <1>1, <1>4, <3>2
      <3> QED BY <3>1, <3>2
    <2>2. tbl' = [s \in Slots |-> tbl'[s]]
      BY <1>4
    <2> QED BY <2>1, <2>2
  <1>31. refs' \in [Pages -> 0 .. 3]
    <2>1. refs' \in [Pages -> Int]
      BY <1>2, <1>4
    <2> QED BY <1>29, <2>1, RefsTyped
  <1>32. left' \subseteq Pages
    <2>1. ASSUME NEW i \in k .. M - 1 PROVE tbl[Slot(wr + i)].page \in Pages
      <3>1. i \in Nat /\ N + i < Depth /\ N + i \in 0 .. N + M - 1
        BY <1>1, <1>6
      <3>2. tbl[Slot(wr + i)] = T[N + i] /\ N + i \in Slots
        BY <1>9, <3>1
      <3> QED BY <1>1, <1>20, <3>1, <3>2 DEF Places
    <2> QED BY <1>2, <1>5, <2>1
  <1>33. failed' = (k < count \/ (failed /\ N + k <= Depth - 1 - Thr))
    BY <1>5, <1>8
  <1> QED BY <1>3, <1>8, <1>22, <1>23, <1>25, <1>27, <1>29, <1>30, <1>31, <1>32, <1>33

\* What a refill leaves alone.
LEMMA RefilledTypes ==
    ASSUME RxInv, pc # "down", pc' \in {"idle", "loop"}, NEW k \in Nat, N + k < Depth,
           tbl' \in [Slots -> Places], refs' \in [Pages -> 0 .. 3],
           bd' \in Seq(Buffers), Len(bd') = N + k,
           wr' \in 0 .. W - 1, alloc' \in 0 .. W - 1, left' \subseteq Pages,
           failed' \in BOOLEAN, UNCHANGED <<rd, got, frag, skb, stack, headless>>
    PROVE  Types' /\ Once' /\ Frames'
  <1>1. TypeOK /\ Once /\ Frames /\ Len(bd) = N /\ N \in Nat /\ Depth \in Nat
    BY View, Sizes DEF RxInv, Types, Window
  <1>2. Len(got') <= Len(bd') /\ Len(bd') < Depth
    <2>1. Len(got) <= Len(bd) /\ got' = got /\ Len(got) \in Nat
      BY <1>1 DEF TypeOK
    <2> QED BY <1>1, <2>1
  <1>3. TypeOK'
    BY <1>1, <1>2 DEF TypeOK, Places
  <1>4. Once' /\ Frames'
    BY <1>1 DEF Once, Frames, Cut
  <1> QED BY <1>3, <1>4 DEF Types

LEMMA StartStep ==
    ASSUME RxInv, Start
    PROVE  RxInv'
  <1>1. /\ pc = "off" /\ pc' = "idle" /\ Refill(Depth - 1)
        /\ UNCHANGED <<rd, got, frag, skb, stack, headless>>
    BY DEF Start
  <1>2. /\ N = 0 /\ Depth \in Nat /\ Depth > 2 /\ Thr \in Nat /\ MaxBufs \in Nat
        /\ Depth - 1 \in Nat /\ N + (Depth - 1) < Depth
    BY <1>1, Sizes DEF RxInv, Types
  <1>3. PICK k \in 0 .. Depth - 1 :
             /\ N' = N + k /\ M' = 0
             /\ Window' /\ Behind' /\ Apart' /\ Counted'
             /\ tbl' \in [Slots -> Places] /\ refs' \in [Pages -> 0 .. 3]
             /\ bd' \in Seq(Buffers) /\ Len(bd') = N + k
             /\ wr' \in 0 .. W - 1 /\ alloc' \in 0 .. W - 1 /\ left' \subseteq Pages
             /\ failed' = (k < Depth - 1 \/ (failed /\ N + k <= Depth - 1 - Thr))
    BY <1>1, <1>2, RefillStep
  <1>4. Types' /\ Once' /\ Frames'
    <2>1. k \in Nat /\ N + k < Depth /\ failed' \in BOOLEAN /\ pc # "down"
      BY <1>1, <1>2, <1>3
    <2> QED BY <1>1, <1>3, <2>1, RefilledTypes
  <1>5. Stocked'
    <2>1. SUFFICES ASSUME ~failed' PROVE N' >= Depth - Thr - MaxBufs
      BY <1>1 DEF Stocked
    <2>2. ~(k < Depth - 1)
      BY <1>3, <2>1
    <2>3. N' = Depth - 1
      BY <1>2, <1>3, <2>2
    <2>4. Thr >= 1
      BY Sizes
    <2> QED BY <1>2, <2>3, <2>4
  <1> QED BY <1>3, <1>4, <1>5 DEF RxInv

LEMMA UnusedIs ==
    ASSUME Types, Window
    PROVE  Unused = Depth - 1 - N
  <1>1. N \in Nat /\ N < Depth /\ Depth \in Nat /\ W \in Nat /\ W >= Depth
    BY View, Sizes
  <1>2. PICK c \in Nat : c = Depth - 1 - N
    BY <1>1
  <1>3. Depth - 1 + W - N = c + W /\ c < W
    BY <1>1, <1>2
  <1>4. (c + W) % W = c
    BY <1>1, <1>2, <1>3
  <1> QED BY <1>2, <1>3, <1>4 DEF Unused, N

LEMMA ReceiveStartStep ==
    ASSUME RxInv, ReceiveStart
    PROVE  RxInv'
  <1>1. /\ pc = "idle" /\ pc' = "loop"
        /\ UNCHANGED <<rd, got, frag, skb, stack, headless>>
    BY DEF ReceiveStart
  <1>2. /\ Types /\ TypeOK /\ Window /\ Stocked
        /\ N \in Nat /\ N < Depth /\ Depth \in Nat /\ Thr \in Nat /\ MaxBufs \in Nat
        /\ MaxBufs <= Thr /\ Len(skb) \in Nat /\ Unused = Depth - 1 - N
    <2>1. Types /\ TypeOK /\ Window /\ Stocked /\ Len(skb) \in Nat
      BY DEF RxInv, Types, TypeOK
    <2>2. N \in Nat /\ N < Depth
      BY <2>1, View, Sizes
    <2> QED BY <2>1, <2>2, Sizes, UnusedIs
  <1>3. CASE RefillDue
    <2>1. Refill(Thr) /\ N + Thr < Depth
      BY <1>2, <1>3 DEF ReceiveStart, RefillDue
    <2>2. PICK k \in 0 .. Thr :
             /\ N' = N + k /\ M' = 0
             /\ Window' /\ Behind' /\ Apart' /\ Counted'
             /\ tbl' \in [Slots -> Places] /\ refs' \in [Pages -> 0 .. 3]
             /\ bd' \in Seq(Buffers) /\ Len(bd') = N + k
             /\ wr' \in 0 .. W - 1 /\ alloc' \in 0 .. W - 1 /\ left' \subseteq Pages
             /\ failed' = (k < Thr \/ (failed /\ N + k <= Depth - 1 - Thr))
      BY <1>1, <1>2, <2>1, RefillStep
    <2>3. Types' /\ Once' /\ Frames'
      <3>1. k \in Nat /\ N + k < Depth /\ failed' \in BOOLEAN /\ pc # "down"
        BY <1>1, <1>2, <2>1, <2>2
      <3> QED BY <1>1, <2>2, <3>1, RefilledTypes
    <2>4. Stocked'
      <3>1. SUFFICES ASSUME ~failed' PROVE N' >= Depth - Thr - Len(skb)
        BY <1>1 DEF Stocked
      <3>0. ~(k < Thr) /\ ~(failed /\ N + k <= Depth - 1 - Thr)
        BY <2>2, <3>1
      <3>2. CASE failed
        BY <1>2, <2>2, <3>0, <3>2
      <3>3. CASE ~failed
        <4>1. N >= Depth - Thr - MaxBufs
          BY <1>1, <1>2, <3>3 DEF Stocked
        <4> QED BY <1>2, <2>2, <3>0, <4>1
      <3> QED BY <3>2, <3>3
    <2> QED BY <2>2, <2>3, <2>4 DEF RxInv
  <1>4. CASE ~RefillDue
    <2>1. UNCHANGED <<tbl, wr, alloc, bd, refs, failed, left>> /\ N >= Depth - Thr
      BY <1>2, <1>4 DEF ReceiveStart, RefillDue
    <2>2. R' = R /\ N' = N /\ M' = M /\ T' = T /\ Held' = Held
      BY <1>1, <2>1, ViewSame DEF Held
    <2>3. Types' /\ Stocked'
      BY <1>1, <1>2, <2>1, <2>2 DEF Types, TypeOK, Stocked
    <2>4. Window' /\ Behind' /\ Apart' /\ Once' /\ Counted' /\ Frames'
      BY <1>1, <2>1, SameState
    <2> QED BY <2>3, <2>4 DEF RxInv
  <1> QED BY <1>3, <1>4

-----------------------------------------------------------------------------
(* The invariant holds                                                     *)

LEMMA RxInit == Init => RxInv
  <1> SUFFICES ASSUME Init PROVE RxInv
    OBVIOUS
  <1>0. /\ Depth \in Nat /\ Depth > 2 /\ MaxBufs \in Nat /\ MaxBufs > 0
        /\ W \in Nat /\ W >= Depth /\ NoPage \notin Pages
    BY Sizes
  <1>1. R = 0 /\ N = 0 /\ M = 0
    BY <1>0, DiffIs DEF Init, R, N, M, Slot
  <1>2. \A o \in Slots : T[o] = Empty
    BY <1>0, <1>1 DEF Init, T, Fwd, Slots
  <1>3. Held = {} /\ Range(skb) = {}
    BY DEF Init, Held, Range
  <1>4. TypeOK
    <2>1. /\ bd \in Seq(Buffers) /\ Len(bd) = 0 /\ got \in Seq(Parts) /\ Len(got) = 0
          /\ skb \in Seq(Buffers) /\ Len(skb) = 0
      BY DEF Init
    <2>2. /\ tbl \in [Slots -> [page : Pages \cup {NoPage}, off : {0, 1}]]
          /\ refs \in [Pages -> 0 .. 3]
      BY DEF Init, Empty
    <2>3. rd \in 0 .. W - 1 /\ wr \in 0 .. W - 1 /\ alloc \in 0 .. W - 1 /\ frag \in 0 .. MaxBufs - 1
      BY <1>0 DEF Init
    <2>4. /\ pc = "off" /\ stack = {} /\ left = {}
          /\ failed \in BOOLEAN /\ headless \in BOOLEAN
      BY DEF Init
    <2> QED BY <1>0, <2>1, <2>2, <2>3, <2>4 DEF TypeOK
  <1>5. Types /\ Window /\ Behind /\ Apart /\ Once
    BY <1>0, <1>1, <1>2, <1>3, <1>4 DEF Init, Types, Window, Behind, Apart, Once, Empty
  <1>6. Counted
    BY <1>0, <1>2, <1>3 DEF Init, Counted, Uses, One, InTbl, HalfHeld, Empty
  <1>7. Frames
    <2> DEFINE z == [i \in 1 .. 1 |-> 0]
    <2>1. Len(got) = 0 /\ skb = <<>> /\ frag = 0 /\ headless = FALSE /\ Len(skb) = 0
      BY DEF Init
    <2>2. z \in [1 .. Len(got) + 1 -> 0 .. MaxBufs - 1] /\ z[1] = 0
      BY <1>0, <2>1
    <2>3. Cut(z)
      BY <2>1, <2>2 DEF Cut
    <2> QED BY <2>2, <2>3 DEF Frames
  <1>8. Stocked
    BY DEF Init, Stocked
  <1> QED BY <1>5, <1>6, <1>7, <1>8 DEF RxInv

LEMMA RxNext == RxInv /\ [Next]_vars => RxInv'
  <1> SUFFICES ASSUME RxInv, [Next]_vars PROVE RxInv'
    OBVIOUS
  <1>1. CASE Next
    BY <1>1, StartStep, ReceiveStartStep, ReceiveNoneStep, ReceiveBufferStep,
       ReceiveNoMemoryStep, DestroyStep, HwReceiveStep, StackFreeStep DEF Next
  <1>2. CASE UNCHANGED vars
    <2>1. N' = N /\ M' = M
      BY <1>2, ViewSame DEF vars
    <2>2. Types'
      BY <1>2, <2>1 DEF RxInv, Types, TypeOK, vars
    <2>3. Stocked'
      BY <1>2, <2>1 DEF RxInv, Stocked, vars
    <2>4. Window' /\ Behind' /\ Apart' /\ Once' /\ Counted' /\ Frames'
      BY <1>2, SameState DEF vars
    <2> QED BY <2>2, <2>3, <2>4 DEF RxInv
  <1> QED BY <1>1, <1>2

LEMMA RxAlways == Spec => []RxInv
  BY RxInit, RxNext, PTL DEF Spec

\* The hardware never writes into a half of a page that the stack or the frame
\* being gathered holds, no page is in the ring twice, and the descriptors are
\* the slots from rd_idx on (pfeng_hif_chnl_refill_rx_buffer, pfeng_reuse_page).
THEOREM RingIsSafe == Spec => []PoolInv
  <1>1. RxInv => PoolInv
    <2> SUFFICES ASSUME RxInv PROVE PoolInv
      OBVIOUS
    <2>1. /\ TypeOK /\ Types /\ Window /\ Apart /\ Counted
          /\ N \in Nat /\ M \in Nat /\ N + M < Depth /\ Depth \in Nat /\ R \in Slots
          /\ rd \in 0 .. W - 1 /\ \A o \in Slots : T[o] = tbl[Fwd(R, o)]
      BY View, Sizes DEF RxInv, Types
    <2>2. ASSUME NEW i \in 1 .. Len(bd)
          PROVE  /\ bd[i] = tbl[Slot(rd + i - 1)]
                 /\ bd[i] \notin Held
                 /\ refs[bd[i].page] > 0
                 /\ \A j \in 1 .. i - 1 : bd[j].page # bd[i].page
      <3>1. pc # "down" /\ Len(bd) = N /\ \A j \in 1 .. N : bd[j] = T[j - 1]
        <4>1. bd # <<>>
          BY <2>2
        <4> QED BY <2>1, <4>1 DEF Window
      <3>2. i \in 1 .. N /\ i - 1 \in Slots /\ i - 1 \in 0 .. Depth
        BY <2>1, <2>2, <3>1 DEF Slots
      <3>3. bd[i] = T[i - 1] /\ bd[i] \in Buffers
        BY <2>1, <2>2, <3>1, <3>2 DEF TypeOK
      <3>4. Slot(rd + (i - 1)) = Fwd(R, i - 1)
        BY <2>1, <3>2, SlotIs DEF R
      <3>5. rd + (i - 1) = rd + i - 1
        BY <2>1, <2>2
      <3>6. bd[i] = tbl[Slot(rd + i - 1)]
        BY <2>1, <3>2, <3>3, <3>4, <3>5
      <3>7. refs[bd[i].page] > 0
        <4>1. PICK p \in Pages : p = bd[i].page
          BY <3>3 DEF Buffers
        <4>2. InTbl(p)
          BY <3>2, <3>3, <4>1 DEF InTbl
        <4>3. refs[p] \in Nat /\ refs[p] >= 1
          BY <2>1, <4>2, RefsOf
        <4> QED BY <4>1, <4>3
      <3>8. ASSUME NEW j \in 1 .. i - 1 PROVE bd[j].page # bd[i].page
        <4>1. j \in 1 .. N /\ j - 1 \in Slots /\ j - 1 # i - 1
          BY <2>1, <3>2, <3>8 DEF Slots
        <4>2. bd[j] = T[j - 1] /\ bd[j] \in Buffers
          <5>1. j \in 1 .. Len(bd) /\ bd \in Seq(Buffers)
            BY <2>1, <3>1, <4>1 DEF TypeOK
          <5>2. bd[j] \in Buffers
            BY <5>1
          <5> QED BY <3>1, <4>1, <5>2
        <4>3. bd[j].page # NoPage
          BY <4>2, Sizes DEF Buffers
        <4> QED BY <2>1, <3>2, <3>3, <4>1, <4>2, <4>3 DEF Apart
      <3>9. bd[i] \notin Held
        BY <2>1, <3>2, <3>3 DEF Apart
      <3> QED BY <3>6, <3>7, <3>8, <3>9
    <2>3. pc # "down" => Len(bd) = Diff(wr, rd)
      BY <2>1 DEF Window, N
    <2> QED BY <2>1, <2>2, <2>3 DEF PoolInv, RingIsOurs
  <1> QED BY <1>1, RxAlways, PTL

\* Every reference of a page is that of a slot, of the stack or of the frame
\* being gathered, but the one of a page that a refill put alloc_idx back over
\* and that a page recycled later has overwritten.
THEOREM ReferencesKept == Spec => []LostIfLeftBehind
  <1>1. RxInv => LostIfLeftBehind
    <2> SUFFICES ASSUME RxInv, NEW p \in Pages
                 PROVE refs[p] = References(p) \/ (p \in left /\ refs[p] > References(p))
      BY DEF LostIfLeftBehind
    <2>1. Types /\ Window /\ Apart /\ Counted
      BY DEF RxInv
    <2>2. References(p) = One(InTbl(p)) + (One(HalfHeld(p, 0)) + One(HalfHeld(p, 1)))
      BY <2>1, SlotsOf, HeldOf DEF References
    <2>3. References(p) = Uses(p) /\ Uses(p) \in Nat
      BY <2>2 DEF Uses, One
    <2> QED BY <2>1, <2>3 DEF Counted
  <1> QED BY <1>1, RxAlways, PTL

\* The ring runs dry only if a refill ran out of memory and that has not been
\* made up for: the threshold of the refill leaves room for a whole frame
\* (pfeng_hif_chnl_receive_pkt).
THEOREM DryForMemoryOnly == Spec => []DryIfNoMemory
  <1>1. RxInv => DryIfNoMemory
    <2> SUFFICES ASSUME RxInv, pc = "idle", bd = <<>>, ~failed PROVE FALSE
      BY DEF DryIfNoMemory, RxInv, Types, TypeOK
    <2>1. N >= Depth - Thr - MaxBufs /\ Len(bd) = N /\ Len(bd) = 0
      BY DEF RxInv, Stocked, Window
    <2> QED BY <2>1, Sizes
  <1> QED BY <1>1, RxAlways, PTL

\* The buffer that opens an skb is the first one of a frame, also when the frame
\* was only half there at the end of a poll; unless its first buffer was dropped
\* for lack of memory (pool->skb, pfeng_rx_map_buff_to_skb).
THEOREM FramesAreWhole == Spec => WholeFrames
  <1>1. RxInv /\ [Next]_vars => [rd' # rd => (got[1].first <=> skb = <<>> /\ ~headless)]_vars
    <2> SUFFICES ASSUME RxInv, [Next]_vars, rd' # rd
                 PROVE  got[1].first <=> skb = <<>> /\ ~headless
      OBVIOUS
    <2>1. Dequeue
      BY DEF Next, vars, drv, Start, ReceiveStart, ReceiveNone, ReceiveBuffer, ReceiveNoMemory,
             Destroy, HwReceive, StackFree
    <2>2. PICK at \in [1 .. Len(got) + 1 -> 0 .. MaxBufs - 1] : Cut(at)
      BY <2>1 DEF RxInv, Frames, Dequeue
    <2>3. 1 \in 1 .. Len(got)
      BY <2>1 DEF RxInv, Types, TypeOK, Dequeue
    <2> QED BY <2>2, <2>3 DEF Cut
  <1> QED BY <1>1, RxAlways, PTL DEF Spec, WholeFrames
=============================================================================
