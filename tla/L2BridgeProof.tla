---------------------------- MODULE L2BridgeProof ----------------------------
(***************************************************************************)
(* The VLAN table and the static entries of the bridge, for any size of    *)
(* the table, any VLANs and interfaces and any number of static entries.   *)
(***************************************************************************)
EXTENDS L2Bridge, FiniteSetTheorems, SequenceTheorems, WellFoundedInduction, TLAPS

(***************************************************************************)
(* The table: chains whose slots rise, each from the head its VLANs hash   *)
(* to, apart from the orphans O, slots that are no longer or not yet on    *)
(* one.  Because the slots rise a search comes to an end.                  *)
(***************************************************************************)

\* The slots of the chains
On(t, O) == {p \in Slots \ O : t[p].valid}

\* An entry that is not valid is nothing; one in the collision space has one
\* before it.
Sound(t, O) ==
    /\ \A p \in Slots \ O :
          /\ t[p].valid \/ t[p] = Zero
          /\ p < Coll /\ t[p].valid => Hash(t[p].vlan) = p
          /\ p >= Coll /\ t[p].valid => \E q \in Slots \ O : t[q].col = p
    /\ O \subseteq Slots /\ \A p \in O : p >= Coll

\* The pointers lead upwards to a valid entry of the same chain, one to each.
Linked(t, O) ==
    /\ \A p \in On(t, O) : t[p].col # 0 =>
          /\ t[p].col > p /\ t[p].col >= Coll /\ t[p].col \in On(t, O)
          /\ Hash(t[t[p].col].vlan) = Hash(t[p].vlan)
    /\ \A p, q \in On(t, O) : t[p].col = t[q].col /\ t[p].col # 0 => p = q

Chained(t, O) == Sound(t, O) /\ Linked(t, O)

\* It has the VLANs V, each once ...
Holds(t, O, V) ==
    /\ {t[p].vlan : p \in On(t, O)} = V
    /\ \A p, q \in On(t, O) : t[p].vlan = t[q].vlan => p = q

\* ... and their forward lists F, but for those in X.
Tells(t, O, F, X) == \A p \in On(t, O) : t[p].vlan \notin X => t[p].act = F[t[p].vlan]

Good(t, O, V, F) == Chained(t, O) /\ Holds(t, O, V) /\ Tells(t, O, F, {})

-----------------------------------------------------------------------------
(* The writes that are still to be made                                    *)

Settled(V) == todo = <<>> /\ Good(table, {}, V, fwd)

\* An entry of the VLAN of the command is about to get its new forward list.
Updating(V) ==
    /\ Chained(table, {}) /\ Holds(table, {}, V) /\ Tells(table, {}, fwd, {cmd.vlan})
    /\ \E p \in On(table, {}) :
          /\ table[p].vlan = cmd.vlan
          /\ todo = Write(p, [table[p] EXCEPT !.act = fwd[cmd.vlan]])

\* The end of the chain that slot p is to be linked to
Links(p) ==
    \E last \in On(table, {p}) :
        /\ last < p /\ p >= Coll
        /\ table[last].col = 0 /\ Hash(table[last].vlan) = Hash(cmd.vlan)
        /\ LET link == Write(last, [table[last] EXCEPT !.col = p])
           IN  \/ /\ Good(table, {}, Range(domains), fwd) /\ ~table[p].valid
                  /\ todo = Write(p, New(cmd.vlan, {})) \o link
               \/ /\ Good(table, {p}, Range(domains), fwd) /\ table[p] = New(cmd.vlan, {})
                  /\ todo = link

Adding ==
    \/ /\ Good(table, {}, Range(domains), fwd) /\ ~table[Hash(cmd.vlan)].valid
       /\ todo = Write(Hash(cmd.vlan), New(cmd.vlan, {}))
    \/ \E p \in Slots : Links(p)

\* The entry of the VLAN is the head of its chain, alone or not, or is an inner
\* one; in the end slot p has to be cleared.
Removing ==
    \E p \in Slots :
        \/ /\ Good(table, {}, Range(domains), fwd)
           /\ table[p].valid /\ table[p].vlan = cmd.vlan
           /\ \/ p < Coll /\ table[p].col = 0 /\ todo = Write(p, Zero)
              \/ p < Coll /\ table[p].col # 0 /\ todo = MoveToHead(table, p, table[p].col)
              \/ \E q \in Slots :
                    /\ table[q].col = p /\ table[p].col # 0 /\ p >= Coll
                    /\ todo = Write(q, [table[q] EXCEPT !.col = table[p].col]) \o Write(p, Zero)
        \/ /\ Good(table, {p}, Range(domains) \ {cmd.vlan}, fwd)
           /\ todo = Write(p, Zero)

TableInv ==
    ~broken =>
      /\ down # "endless"
      /\ CASE pc = "link" -> Settled(Range(domains) \cup {cmd.vlan}) \/ Adding
           [] pc = "unlink" -> Settled(Range(domains) \ {cmd.vlan}) \/ Removing
           [] pc \in {"mcast", "ifs", "flush", "remove"}
                -> Settled(Range(domains)) \/ Updating(Range(domains))
           [] OTHER -> Settled(Range(domains))

-----------------------------------------------------------------------------
(* The commands *)

\* No element twice
Once(seq) == \A i, j \in 1 .. Len(seq) : seq[i] = seq[j] => i = j

CmdInv ==
    /\ pc = "idle" => cmd = NoCmd /\ todo = <<>>
    /\ pc # "idle" => cmd # NoCmd
    /\ cmd # NoCmd /\ cmd.kind # "update" => cmd.vlan \in Users
    /\ pc \in {"remove", "unlink", "link", "undo"} => cmd.kind # "update"
    /\ pc \in {"link", "undo"} => cmd.vlan \notin Range(domains)
    /\ pc \notin {"idle", "link", "undo"} => cmd.vlan \in Range(domains)
    /\ pc = "flush" => rest # {}
    /\ {Default, Fallback} \subseteq Range(domains)
    /\ \A v \in Vlans \ Range(domains) : fwd[v] = {} /\ ifaces[v] = {}
    /\ Once(domains) /\ curDomain \in Range(domains) \cup {End}

\* List, MAC table and cursor of the static entries
StaticInv ==
    /\ statics \in Seq(Keys) /\ Once(statics) /\ statCrit \in Keys \cup {All}
    /\ list \in [Keys -> (SUBSET Ifs) \cup {None}] /\ mac \in [Keys -> (SUBSET Ifs) \cup {None}]
    /\ unsure \subseteq Keys /\ timeouts \in 0 .. MaxTimeouts
    /\ \A k \in Keys : list[k] # None <=> IsStatic(k)
    /\ \A k \in Keys \ unsure : mac[k] = list[k]
    /\ curStatic \in Range(statics) \cup {End, Null, Freed}
    /\ HangNeedsTimeout

IInv == TypeOK /\ CmdInv /\ StaticInv /\ (Hash(Default) # Hash(Fallback) => TableInv)

-----------------------------------------------------------------------------
(* Loops and lists *)

LEMMA Least ==
    ASSUME NEW I \in SUBSET Nat, I # {}
    PROVE  Min(I) \in I /\ \A y \in I : Min(I) =< y
<1> DEFINE R == {p \in Nat \X Nat : p[1] < p[2]}
<1>1. IsWellFoundedOn(R, Nat)
  BY NatLessThanWellFounded DEF OpToRel
<1>2. PICK m \in I : \A y \in I : <<y, m>> \notin R
  <2> HIDE DEF R
  <2> QED
    BY <1>1, WFMin
<1>3. ASSUME NEW y \in I PROVE m =< y
  <2>1. ~(y < m)
    BY <1>2
  <2> QED
    BY <2>1
<1> QED
  BY <1>3 DEF Min

\* What holds at first, and after each pass if before, holds in the end.
LEMMA Upto ==
    ASSUME NEW N \in Nat, NEW G, 0 \in G, \A n \in 1 .. N : n - 1 \in G => n \in G
    PROVE  \A n \in 0 .. N : n \in G
<1> DEFINE B == {n \in 0 .. N : n \notin G}
<1> SUFFICES ASSUME B # {} PROVE FALSE
  OBVIOUS
<1>1. B \in SUBSET Nat
  OBVIOUS
<1>2. Min(B) \in B /\ \A y \in B : Min(B) =< y
  BY <1>1, Least
<1>3. PICK m \in B : \A y \in B : m =< y
  BY <1>2
<1>4. m \in 1 .. N /\ m - 1 \in 0 .. N /\ m \notin G
  BY <1>3
<1>5. m - 1 \notin B
  BY <1>3, <1>4
<1> QED
  BY <1>4, <1>5

\* A loop runs.
Passes(S, N) == [S \X (1 .. N) -> S]
HasRun(S, a, N, g) ==
    \E f \in [0 .. N -> S] :
        f[0] = a /\ \A n \in 1 .. N : f[n] = g[<<f[n - 1], n>>]

LEMMA Iterates ==
    ASSUME NEW S, NEW a \in S, NEW N \in Nat, NEW g \in Passes(S, N)
    PROVE  HasRun(S, a, N, g)
<1> USE DEF Passes, HasRun
<1> DEFINE Runs(f, M) == f[0] = a /\ \A n \in 1 .. M : f[n] = g[<<f[n - 1], n>>]
           G == {M \in 0 .. N : \E f \in [0 .. M -> S] : Runs(f, M)}
<1>1. 0 \in G
  <2> DEFINE z == [n \in 0 .. 0 |-> a]
  <2>1. z \in [0 .. 0 -> S] /\ Runs(z, 0)
    OBVIOUS
  <2>2. 0 \in 0 .. N
    OBVIOUS
  <2> HIDE DEF z, Runs
  <2> QED
    BY <2>1, <2>2
<1>2. ASSUME NEW M \in 1 .. N, M - 1 \in G
      PROVE  M \in G
  <2>1. PICK f \in [0 .. M - 1 -> S] : Runs(f, M - 1)
    BY <1>2
  <2> DEFINE h == [n \in 0 .. M |-> IF n = M THEN g[<<f[M - 1], M>>] ELSE f[n]]
  <2>2. f[M - 1] \in S /\ g[<<f[M - 1], M>>] \in S
    BY <2>1
  <2>3. h \in [0 .. M -> S]
    BY <2>2
  <2>4. h[0] = a
    BY <2>1
  <2>5. ASSUME NEW n \in 1 .. M
        PROVE  h[n] = g[<<h[n - 1], n>>]
    <3>1. n - 1 \in 0 .. M /\ n - 1 # M /\ n \in 0 .. M
      OBVIOUS
    <3>2. h[n - 1] = f[n - 1]
      BY <3>1
    <3>3. CASE n = M
      BY <3>1, <3>2, <3>3
    <3>4. CASE n # M
      <4>1. n \in 1 .. M - 1
        BY <3>4
      <4>2. h[n] = f[n]
        BY <3>1, <3>4
      <4> QED
        BY <2>1, <3>2, <4>1, <4>2
    <3> QED
      BY <3>3, <3>4
  <2> HIDE DEF h
  <2>6. Runs(h, M)
    BY <2>4, <2>5
  <2> QED
    BY <2>3, <2>6
<1> HIDE DEF G
<1>3. N \in G
  <2>1. \A n \in 0 .. N : n \in G
    BY <1>1, <1>2, Upto
  <2>2. N \in 0 .. N
    OBVIOUS
  <2> QED
    BY <2>1, <2>2
<1> QED
  BY <1>3 DEF G

LEMMA WhereIs ==
    ASSUME NEW T, NEW seq \in Seq(T), NEW x
    PROVE  /\ Where(seq, x) \in 0 .. Len(seq)
           /\ Where(seq, x) # 0 => seq[Where(seq, x)] = x
           /\ x \in Range(seq) => Where(seq, x) # 0
<1> DEFINE I == {i \in 1 .. Len(seq) : seq[i] = x}
           w == Where(seq, x)
<1>1. w = IF I # {} THEN Min(I) ELSE 0
  BY DEF Where, SelectInSeq
<1>2. Len(seq) \in Nat /\ DOMAIN seq = 1 .. Len(seq)
  OBVIOUS
<1>3. I \in SUBSET Nat
  BY <1>2
<1>4. I # {} => Min(I) \in I
  BY <1>3, Least
<1>5. x \in Range(seq) => I # {}
  BY <1>2 DEF Range
<1>6. CASE I = {}
  BY <1>1, <1>2, <1>5, <1>6
<1>7. CASE I # {}
  <2>1. w \in I
    BY <1>1, <1>4, <1>7
  <2>2. w \in 1 .. Len(seq) /\ seq[w] = x
    BY <2>1
  <2> QED
    BY <1>2, <2>2
<1> QED
  BY <1>6, <1>7

LEMMA RangeOf ==
    ASSUME NEW T, NEW seq \in Seq(T)
    PROVE  /\ Range(seq) = {seq[i] : i \in 1 .. Len(seq)}
           /\ Range(seq) \subseteq T
<1>1. DOMAIN seq = 1 .. Len(seq) /\ \A i \in 1 .. Len(seq) : seq[i] \in T
  OBVIOUS
<1> QED
  BY <1>1 DEF Range

LEMMA RangeOfAppend ==
    ASSUME NEW T, NEW seq \in Seq(T), NEW x \in T
    PROVE  /\ Append(seq, x) \in Seq(T)
           /\ Range(Append(seq, x)) = Range(seq) \cup {x}
<1> DEFINE r == Append(seq, x)
<1>1. Len(seq) \in Nat /\ Len(r) = Len(seq) + 1 /\ r \in Seq(T)
  OBVIOUS
<1>2. r[Len(seq) + 1] = x /\ \A i \in 1 .. Len(seq) : r[i] = seq[i]
  OBVIOUS
<1>3. Range(r) = {r[i] : i \in 1 .. Len(r)} /\ Range(seq) = {seq[i] : i \in 1 .. Len(seq)}
  BY <1>1, RangeOf
<1>4. 1 .. Len(r) = (1 .. Len(seq)) \cup {Len(seq) + 1}
  BY <1>1
<1> QED
  BY <1>1, <1>2, <1>3, <1>4

LEMMA OnceAppend ==
    ASSUME NEW T, NEW seq \in Seq(T), Once(seq), NEW x \in T, x \notin Range(seq)
    PROVE  Once(Append(seq, x))
<1> DEFINE r == Append(seq, x)
<1>1. Len(seq) \in Nat /\ Len(r) = Len(seq) + 1
  OBVIOUS
<1>2. r[Len(seq) + 1] = x /\ \A i \in 1 .. Len(seq) : r[i] = seq[i]
  OBVIOUS
<1>3. \A i \in 1 .. Len(seq) : seq[i] # x
  BY RangeOf
<1>4. 1 .. Len(r) = (1 .. Len(seq)) \cup {Len(seq) + 1}
  BY <1>1
<1> HIDE DEF r
<1>5. \A i, j \in 1 .. Len(r) : r[i] = r[j] => i = j
  BY <1>2, <1>3, <1>4 DEF Once
<1> QED
  BY <1>5 DEF Once, r

\* The next of a list is one of the list, or its end, and another one.
LEMMA AfterIn ==
    ASSUME NEW T, NEW seq \in Seq(T), NEW x \in Range(seq)
    PROVE  /\ After(seq, x) \in Range(seq) \cup {End}
           /\ Once(seq) /\ x # End => After(seq, x) # x
<1> DEFINE w == Where(seq, x)
<1>1. w \in 1 .. Len(seq) /\ seq[w] = x /\ Len(seq) \in Nat
  BY WhereIs
<1>2. CASE w = Len(seq)
  BY <1>1, <1>2 DEF After, Last
<1>3. CASE w # Len(seq)
  <2>1. w + 1 \in 1 .. Len(seq)
    BY <1>1, <1>3
  <2>2. seq[w + 1] \in Range(seq)
    BY <2>1, RangeOf
  <2>3. Once(seq) => seq[w + 1] # x
    BY <1>1, <2>1 DEF Once
  <2>4. After(seq, x) \in {End, seq[w + 1]}
    BY DEF After
  <2> QED
    BY <2>2, <2>3, <2>4
<1> QED
  BY <1>2, <1>3

LEMMA SoughtIn ==
    ASSUME NEW T, NEW seq \in Seq(T), NEW x, NEW cursor
    PROVE  /\ seq # <<>> => Sought(seq, x, cursor) \in Range(seq) \cup {End}
           /\ seq = <<>> => Sought(seq, x, cursor) = cursor
<1>1. CASE x \in Range(seq)
  <2>1. seq # <<>>
    BY <1>1 DEF Range
  <2>2. After(seq, x) \in Range(seq) \cup {End}
    BY <1>1, AfterIn
  <2> QED
    BY <1>1, <2>1, <2>2 DEF Sought
<1>2. CASE x \notin Range(seq)
  BY <1>2 DEF Sought
<1> QED
  BY <1>1, <1>2

LEMMA OnwardIn ==
    ASSUME NEW T, NEW seq \in Seq(T), NEW cursor, NEW crit
    PROVE  Onward(seq, cursor, crit) \in Range(seq) \cup {End}
<1> DEFINE from == {n \in 1 .. Len(seq) : n >= Where(seq, cursor)}
           hits == {n \in from : crit \in {All, seq[n]}}
           least == CHOOSE n \in hits : \A m \in hits : n <= m
<1>1. CASE hits = {} \/ cursor = End
  BY <1>1 DEF Onward
<1>2. CASE hits # {} /\ cursor # End
  <2>1. hits \in SUBSET Nat
    OBVIOUS
  <2>2. Min(hits) \in hits /\ \A m \in hits : Min(hits) <= m
    BY <1>2, <2>1, Least
  <2> HIDE DEF hits
  <2>3. least \in hits
    BY <2>2
  <2>4. least \in 1 .. Len(seq)
    BY <2>3 DEF hits
  <2>5. seq[least] \in Range(seq)
    BY <2>4, RangeOf
  <2>6. Onward(seq, cursor, crit) = After(seq, seq[least])
    BY <1>2 DEF Onward, hits
  <2> QED
    BY <2>5, <2>6, AfterIn
<1> QED
  BY <1>1, <1>2

\* What the loop over the sequence keeps.
LEMMA OnlyIs ==
    ASSUME NEW T, NEW seq \in Seq(T), NEW S
    PROVE  /\ Only(seq, S) \in Seq(T)
           /\ Range(Only(seq, S)) = Range(seq) \cap S
           /\ Once(seq) => Once(Only(seq, S))
<1> DEFINE N == Len(seq)
           A == Seq(T)
           Step(s, n) == IF seq[n] \in S THEN Append(s, seq[n]) ELSE s
           g == [p \in A \X (1 .. N) |-> Step(p[1], p[2])]
           First(n) == {seq[i] : i \in 1 .. n}
           Inv(s, n) == s \in A /\ Range(s) = First(n) \cap S /\ (Once(seq) => Once(s))
<1>1. N \in Nat /\ \A n \in 1 .. N : seq[n] \in T
  OBVIOUS
<1>2. <<>> \in A /\ Inv(<<>>, 0)
  <2>1. <<>> \in A /\ Range(<<>>) = {} /\ Once(<<>>)
    BY DEF Range, Once
  <2>2. First(0) = {}
    OBVIOUS
  <2> QED
    BY <2>1, <2>2
<1>3. ASSUME NEW s \in A, NEW n \in 1 .. N
      PROVE  Step(s, n) \in A
  BY <1>1, RangeOfAppend
<1>4. ASSUME NEW s, NEW n \in 1 .. N, Inv(s, n - 1)
      PROVE  Inv(Step(s, n), n)
  <2>1. First(n) = First(n - 1) \cup {seq[n]}
    <3>1. 1 .. n = (1 .. n - 1) \cup {n}
      OBVIOUS
    <3> QED
      BY <3>1
  <2>2. CASE seq[n] \in S
    <3>1. Range(Append(s, seq[n])) = Range(s) \cup {seq[n]} /\ Append(s, seq[n]) \in A
      BY <1>1, <1>4, RangeOfAppend
    <3>2. Once(seq) => seq[n] \notin First(n - 1)
      BY <1>1 DEF Once
    <3>3. Once(seq) => Once(Append(s, seq[n]))
      BY <1>1, <1>4, <3>2, OnceAppend
    <3> QED
      BY <1>4, <2>1, <2>2, <3>1, <3>3
  <2>3. CASE seq[n] \notin S
    BY <1>4, <2>1, <2>3
  <2> QED
    BY <2>2, <2>3
<1>5. g \in Passes(A, N)
  BY <1>3 DEF Passes
<1>6. \A s \in A, n \in 1 .. N : g[<<s, n>>] = Step(s, n)
  OBVIOUS
<1> HIDE DEF g, A, Step, Inv, N
<1>7. PICK f \in [0 .. N -> A] : f[0] = <<>> /\ \A n \in 1 .. N : f[n] = g[<<f[n - 1], n>>]
  BY <1>1, <1>2, <1>5, Iterates DEF HasRun, N
<1>8. f = [n \in 0 .. N |-> IF n = 0 THEN <<>> ELSE Step(f[n - 1], n)]
  <2>1. ASSUME NEW n \in 1 .. N
        PROVE  f[n] = Step(f[n - 1], n)
    <3>1. n - 1 \in 0 .. N
      BY <1>1
    <3> QED
      BY <1>6, <1>7, <3>1
  <2>2. \A n \in 0 .. N : f[n] = IF n = 0 THEN <<>> ELSE Step(f[n - 1], n)
    BY <1>7, <2>1
  <2> QED
    BY <1>7, <2>2
<1> DEFINE kept == CHOOSE h : h = [n \in 0 .. N |-> IF n = 0 THEN <<>> ELSE Step(h[n - 1], n)]
<1>9. kept = [n \in 0 .. N |-> IF n = 0 THEN <<>> ELSE Step(kept[n - 1], n)]
  BY <1>8
<1>10. Only(seq, S) = kept[N]
  BY DEF Only, Step, N
<1> HIDE DEF kept
<1>11. \A n \in 0 .. N : Inv(kept[n], n)
  <2> DEFINE G == {n \in 0 .. N : Inv(kept[n], n)}
  <2>1. 0 \in G
    BY <1>1, <1>2, <1>9 DEF N
  <2>2. ASSUME NEW n \in 1 .. N, n - 1 \in G
        PROVE  n \in G
    <3>1. Inv(Step(kept[n - 1], n), n)
      BY <1>4, <2>2
    <3>2. kept[n] = Step(kept[n - 1], n)
      BY <1>1, <1>9 DEF N
    <3> QED
      BY <1>1, <3>1, <3>2
  <2> HIDE DEF G
  <2>3. \A n \in 0 .. N : n \in G
    BY <1>1, <2>1, <2>2, Upto DEF N
  <2> QED
    BY <2>3 DEF G
<1>12. Inv(kept[N], N)
  <2>1. N \in 0 .. N
    BY <1>1 DEF N
  <2> QED
    BY <1>11, <2>1
<1>13. First(N) = Range(seq)
  BY RangeOf DEF N
<1> QED
  BY <1>10, <1>12, <1>13 DEF Inv, A

-----------------------------------------------------------------------------
(* The search along a chain *)

LEMMA Sizes == Coll \in Nat \ {0} /\ Size \in Nat /\ Size >= Coll /\ Slots = 0 .. Size - 1
  BY TableAssumption DEF Slots

LEMMA VlansAre == /\ Fallback \in Vlans /\ Default \in Vlans /\ Users \subseteq Vlans
                  /\ Vlans \subseteq Nat /\ Users \cap {Fallback, Default} = {}
                  /\ Fallback = 0 /\ Default # Fallback
  BY TableAssumption DEF Vlans, Fallback

LEMMA HashIs ==
    ASSUME NEW v \in Vlans
    PROVE  Hash(v) \in Slots /\ Hash(v) \in Nat /\ Hash(v) < Coll
<1>1. v \in Nat
  BY VlansAre
<1>2. v % Coll \in 0 .. Coll - 1
  BY <1>1, Sizes
<1> QED
  BY <1>2, Sizes DEF Hash

LEMMA EntryFields ==
    ASSUME NEW e \in Entry
    PROVE  e.valid \in BOOLEAN /\ e.vlan \in Vlans /\ e.act \in SUBSET Ifs /\ e.col \in Slots
  BY DEF Entry

\* One slot after the other, to the end of the chain or for ever
IsWalk(t, v, w) ==
    /\ w \in Seq(Slots) /\ Len(w) \in 1 .. Size + 1 /\ w[1] = Hash(v)
    /\ \A i \in 1 .. Len(w) - 1 : w[i + 1] = t[w[i]].col /\ w[i + 1] # 0
    /\ t[w[Len(w)]].col = 0 \/ Len(w) = Size + 1

LEMMA WalkIs ==
    ASSUME NEW t \in [Slots -> Entry], NEW v \in Vlans
    PROVE  IsWalk(t, v, Walk(t, v))
<1> DEFINE A == {s \in Seq(Slots) : s # <<>>}
           Step(s) == IF t[Last(s)].col = 0 THEN s ELSE Append(s, t[Last(s)].col)
           g == [p \in A \X (1 .. Size) |-> Step(p[1])]
           Inv(w, n) == /\ w \in Seq(Slots) /\ Len(w) \in 1 .. n + 1 /\ w[1] = Hash(v)
                        /\ \A i \in 1 .. Len(w) - 1 : w[i + 1] = t[w[i]].col /\ w[i + 1] # 0
                        /\ t[w[Len(w)]].col = 0 \/ Len(w) = n + 1
<1>1. Size \in Nat /\ Hash(v) \in Slots
  BY Sizes, HashIs
<1>2. <<Hash(v)>> \in A /\ Inv(<<Hash(v)>>, 0)
  <2>1. <<Hash(v)>> \in Seq(Slots) /\ Len(<<Hash(v)>>) = 1
    BY <1>1
  <2> QED
    BY <2>1
<1>3. ASSUME NEW s \in A
      PROVE  Step(s) \in A
  <2>1. Len(s) \in Nat \ {0} /\ s[Len(s)] \in Slots
    OBVIOUS
  <2>2. t[Last(s)].col \in Slots
    BY <2>1, EntryFields DEF Last
  <2>3. Append(s, t[Last(s)].col) \in Seq(Slots) /\ Append(s, t[Last(s)].col) # <<>>
    BY <2>2
  <2> HIDE DEF A
  <2> QED
    BY <2>2, <2>3 DEF A
<1>4. ASSUME NEW s, NEW n \in 1 .. Size, Inv(s, n - 1)
      PROVE  Inv(Step(s), n)
  <2>1. Len(s) \in 1 .. n /\ s[Len(s)] \in Slots /\ s \in Seq(Slots)
    BY <1>4
  <2>2. CASE t[Last(s)].col = 0
    BY <1>4, <2>1, <2>2 DEF Last
  <2>3. CASE t[Last(s)].col # 0
    <3> DEFINE c == t[s[Len(s)]].col
               r == Append(s, c)
    <3>1. c \in Slots /\ c # 0
      BY <2>1, <2>3, EntryFields DEF Last
    <3>2. r \in Seq(Slots) /\ Len(r) = Len(s) + 1 /\ r[Len(s) + 1] = c
          /\ \A i \in 1 .. Len(s) : r[i] = s[i]
      BY <2>1, <3>1
    <3>3. Len(s) = n
      BY <1>4, <2>3 DEF Last
    <3>4. Step(s) = r
      BY <2>3 DEF Last
    <3> HIDE DEF r, c, Step
    <3>5. \A i \in 1 .. Len(r) - 1 : r[i + 1] = t[r[i]].col /\ r[i + 1] # 0
      <4> SUFFICES ASSUME NEW i \in 1 .. Len(r) - 1
                   PROVE  r[i + 1] = t[r[i]].col /\ r[i + 1] # 0
        OBVIOUS
      <4>1. CASE i = Len(s)
        BY <2>1, <3>1, <3>2, <4>1 DEF c
      <4>2. CASE i # Len(s)
        <5>1. i \in 1 .. Len(s) - 1 /\ i + 1 \in 1 .. Len(s) /\ i \in 1 .. Len(s)
          BY <2>1, <3>2, <4>2
        <5>2. s[i + 1] = t[s[i]].col /\ s[i + 1] # 0
          BY <1>4, <5>1
        <5> QED
          BY <3>2, <5>1, <5>2
      <4> QED
        BY <4>1, <4>2
    <3> QED
      BY <1>4, <2>1, <3>2, <3>3, <3>4, <3>5
  <2> QED
    BY <2>2, <2>3
<1>5. g \in Passes(A, Size)
  BY <1>3 DEF Passes
<1>6. \A s \in A, n \in 1 .. Size : g[<<s, n>>] = Step(s)
  OBVIOUS
<1> HIDE DEF g, A, Step, Inv
<1>7. PICK f \in [0 .. Size -> A] :
         f[0] = <<Hash(v)>> /\ \A n \in 1 .. Size : f[n] = g[<<f[n - 1], n>>]
  <2>1. <<Hash(v)>> \in A /\ Size \in Nat
    BY <1>1, <1>2
  <2>2. HasRun(A, <<Hash(v)>>, Size, g)
    BY <1>5, <2>1, Iterates
  <2> QED
    BY <2>2 DEF HasRun
<1>8. f = [n \in 0 .. Size |-> IF n = 0 THEN <<Hash(v)>> ELSE Step(f[n - 1])]
  <2>1. ASSUME NEW n \in 1 .. Size
        PROVE  f[n] = Step(f[n - 1])
    <3>1. n - 1 \in 0 .. Size
      BY <1>1
    <3> QED
      BY <1>6, <1>7, <3>1
  <2>2. \A n \in 0 .. Size : f[n] = IF n = 0 THEN <<Hash(v)>> ELSE Step(f[n - 1])
    <3> SUFFICES ASSUME NEW n \in 0 .. Size
                 PROVE  f[n] = IF n = 0 THEN <<Hash(v)>> ELSE Step(f[n - 1])
      OBVIOUS
    <3>1. CASE n = 0
      BY <1>7, <3>1
    <3>2. CASE n # 0
      <4>1. n \in 1 .. Size
        BY <1>1, <3>2
      <4> QED
        BY <2>1, <3>2, <4>1
    <3> QED
      BY <3>1, <3>2
  <2> QED
    BY <1>7, <2>2
<1> DEFINE path == CHOOSE h : h = [n \in 0 .. Size |-> IF n = 0 THEN <<Hash(v)>> ELSE Step(h[n - 1])]
<1>9. path = [n \in 0 .. Size |-> IF n = 0 THEN <<Hash(v)>> ELSE Step(path[n - 1])]
  BY <1>8
<1>10. Walk(t, v) = path[Size]
  BY DEF Walk, Paths, Step
<1> HIDE DEF path
<1>11. \A n \in 0 .. Size : Inv(path[n], n)
  <2> DEFINE G == {n \in 0 .. Size : Inv(path[n], n)}
  <2>1. 0 \in G
    BY <1>1, <1>2, <1>9
  <2>2. ASSUME NEW n \in 1 .. Size, n - 1 \in G
        PROVE  n \in G
    <3>1. Inv(Step(path[n - 1]), n)
      BY <1>4, <2>2
    <3>2. path[n] = Step(path[n - 1])
      BY <1>1, <1>9
    <3> QED
      BY <1>1, <3>1, <3>2
  <2> HIDE DEF G
  <2>3. \A n \in 0 .. Size : n \in G
    BY <1>1, <2>1, <2>2, Upto
  <2> QED
    BY <2>3 DEF G
<1>12. Inv(path[Size], Size)
  <2>1. Size \in 0 .. Size
    BY <1>1
  <2> QED
    BY <1>11, <2>1
<1> QED
  BY <1>10, <1>12 DEF Inv, IsWalk

LEMMA PlaceIs ==
    ASSUME NEW t \in [Slots -> Entry], NEW v \in Vlans
    PROVE  LET w == Walk(t, v)
               at == Place(t, v)
           IN  /\ at \in 0 .. Len(w)
               /\ at # 0 => t[w[at]].vlan = v
               /\ \A i \in 1 .. Len(w) : t[w[i]].vlan = v => at # 0
<1> DEFINE w == Walk(t, v)
           I == {i \in 1 .. Len(w) : t[w[i]].vlan = v}
           at == Place(t, v)
<1>1. at = IF I # {} THEN Min(I) ELSE 0
  BY DEF Place, SelectInSeq
<1>2. Len(w) \in Nat
  BY WalkIs DEF IsWalk
<1>3. I \in SUBSET Nat
  BY <1>2
<1>4. I # {} => Min(I) \in I
  BY <1>3, Least
<1>5. CASE I = {}
  BY <1>1, <1>2, <1>5
<1>6. CASE I # {}
  <2>1. at \in I
    BY <1>1, <1>4, <1>6
  <2>2. at \in 1 .. Len(w) /\ t[w[at]].vlan = v
    BY <2>1
  <2> QED
    BY <1>2, <2>2
<1> QED
  BY <1>5, <1>6

-----------------------------------------------------------------------------
(* The search in a sound table *)

\* The slots rise along a chain, so that it ends.
LEMMA Rises ==
    ASSUME NEW t \in [Slots -> Entry], NEW O, Chained(t, O), NEW v \in Vlans
    PROVE  LET w == Walk(t, v)
           IN  /\ w \in Seq(Slots) /\ Len(w) \in 1 .. Size /\ t[w[Len(w)]].col = 0
               /\ w[1] = Hash(v) /\ w[1] \notin O
               /\ \A i \in 1 .. Len(w) - 1 : w[i + 1] = t[w[i]].col /\ w[i + 1] # 0
               /\ \A i \in 1 .. Len(w) : i # 1 => w[i] >= Coll
               /\ \A i \in 1 .. Len(w) : i # 1 \/ Len(w) # 1 =>
                     w[i] \in On(t, O) /\ Hash(t[w[i]].vlan) = Hash(v)
<1> DEFINE w == Walk(t, v)
           N == Len(w) - 1
           Ok(i) == /\ w[i] \in Slots \ O /\ w[i] >= i - 1
                    /\ i # 1 => /\ w[i] \in On(t, O) /\ Hash(t[w[i]].vlan) = Hash(v)
                                /\ w[i] >= Coll
           G == {n \in 0 .. N : Ok(n + 1)}
<1>1. /\ w \in Seq(Slots) /\ Len(w) \in 1 .. Size + 1 /\ w[1] = Hash(v)
      /\ \A i \in 1 .. Len(w) - 1 : w[i + 1] = t[w[i]].col /\ w[i + 1] # 0
      /\ t[w[Len(w)]].col = 0 \/ Len(w) = Size + 1
  BY WalkIs DEF IsWalk
<1>2. Hash(v) \in Slots /\ Hash(v) < Coll /\ Hash(v) \in Nat
  BY HashIs
<1>3. Hash(v) \notin O
  <2>1. O \subseteq Slots /\ \A p \in O : p >= Coll
    BY DEF Chained, Sound
  <2> QED
    BY <1>2, <2>1, Sizes
<1> HIDE DEF w
<1>4. ASSUME NEW i \in 1 .. N, Ok(i)
      PROVE  /\ w[i] \in On(t, O) /\ Hash(t[w[i]].vlan) = Hash(v)
             /\ Ok(i + 1)
  <2> DEFINE p == w[i]
  <2>1. p \in Slots \ O /\ t[p].col # 0 /\ w[i + 1] = t[p].col
    BY <1>1, <1>4
  <2>2. t[p].valid
    <3>1. t[p].valid \/ t[p] = Zero
      BY <2>1 DEF Chained, Sound
    <3> QED
      BY <2>1, <3>1 DEF Zero
  <2>3. p \in On(t, O)
    BY <2>1, <2>2 DEF On
  <2>4. Hash(t[p].vlan) = Hash(v)
    <3>1. CASE i = 1
      <4>1. p < Coll /\ p = Hash(v)
        BY <1>1, <1>2, <3>1
      <4> QED
        BY <2>1, <2>2, <4>1 DEF Chained, Sound
    <3> QED
      BY <1>4, <3>1
  <2>5. /\ t[p].col > p /\ t[p].col >= Coll /\ t[p].col \in On(t, O)
        /\ Hash(t[t[p].col].vlan) = Hash(t[p].vlan)
    BY <2>1, <2>3 DEF Chained, Linked
  <2>6. w[i + 1] \in Slots \ O
    BY <2>1, <2>5 DEF On
  <2>7. w[i + 1] >= i
    <3>1. p \in Nat /\ w[i + 1] \in Nat /\ p >= i - 1
      BY <1>4, <2>1, <2>6, Sizes
    <3> HIDE DEF p
    <3> QED
      BY <2>1, <2>5, <3>1
  <2> QED
    BY <2>1, <2>3, <2>4, <2>5, <2>6, <2>7
<1>5. 0 \in G
  BY <1>1, <1>2, <1>3
<1>6. ASSUME NEW n \in 1 .. N, n - 1 \in G PROVE n \in G
  BY <1>4, <1>6
<1>7. \A i \in 1 .. Len(w) : Ok(i)
  <2>1. N \in Nat
    BY <1>1, Sizes
  <2> HIDE DEF G
  <2>2. \A n \in 0 .. N : n \in G
    BY <1>5, <1>6, <2>1, Upto
  <2>3. ASSUME NEW i \in 1 .. Len(w) PROVE Ok(i)
    <3>1. i - 1 \in 0 .. N /\ (i - 1) + 1 = i
      BY <1>1
    <3>2. PICK n \in 0 .. N : n = i - 1 /\ n + 1 = i
      BY <3>1
    <3>3. Ok(n + 1)
      BY <2>2 DEF G
    <3> QED
      BY <3>2, <3>3
  <2> QED
    BY <2>3
<1>8. Len(w) \in 1 .. Size
  <2>1. Len(w) \in 1 .. Len(w) /\ Len(w) \in Nat
    BY <1>1, Sizes
  <2>2. w[Len(w)] \in Slots /\ w[Len(w)] >= Len(w) - 1
    BY <1>7, <2>1
  <2> QED
    BY <1>1, <2>1, <2>2, Sizes
<1>9. t[w[Len(w)]].col = 0
  BY <1>1, <1>8, Sizes
<1>10. ASSUME NEW i \in 1 .. Len(w), i # 1 \/ Len(w) # 1
       PROVE  w[i] \in On(t, O) /\ Hash(t[w[i]].vlan) = Hash(v)
  <2>1. CASE i # 1
    BY <1>7, <2>1
  <2>2. CASE i = 1
    <3>1. i \in 1 .. N
      BY <1>8, <1>10, <2>2, Sizes
    <3> QED
      BY <1>4, <1>7, <3>1
  <2> QED
    BY <2>1, <2>2
<1>11. \A i \in 1 .. Len(w) : i # 1 => w[i] >= Coll
  BY <1>7
<1> QED
  BY <1>1, <1>3, <1>8, <1>9, <1>10, <1>11 DEF w

\* Every entry is on the chain of its VLAN.
LEMMA Reaches ==
    ASSUME NEW t \in [Slots -> Entry], NEW O, Chained(t, O), NEW v \in Vlans,
           NEW p \in On(t, O), Hash(t[p].vlan) = Hash(v)
    PROVE  \E i \in 1 .. Len(Walk(t, v)) : Walk(t, v)[i] = p
<1> DEFINE w == Walk(t, v)
           Far == {q \in On(t, O) : /\ Hash(t[q].vlan) = Hash(v)
                                    /\ \A i \in 1 .. Len(w) : w[i] # q}
<1>1. /\ Len(w) \in 1 .. Size /\ w[1] = Hash(v) /\ t[w[Len(w)]].col = 0
      /\ \A i \in 1 .. Len(w) - 1 : w[i + 1] = t[w[i]].col /\ w[i + 1] # 0
  BY Rises
<1> HIDE DEF w
<1> SUFFICES ASSUME Far # {} PROVE FALSE
  BY DEF w
<1>2. Far \in SUBSET Nat
  BY Sizes DEF On
<1>3. PICK m \in Far : \A q \in Far : m <= q
  BY <1>2, Least
<1>4. /\ m \in Slots \ O /\ t[m].valid /\ Hash(t[m].vlan) = Hash(v) /\ m \in Nat
      /\ \A i \in 1 .. Len(w) : w[i] # m
  BY <1>2, <1>3 DEF On
<1>5. CASE m < Coll
  <2>1. m = Hash(v)
    BY <1>4, <1>5 DEF Chained, Sound
  <2>2. 1 \in 1 .. Len(w)
    BY <1>1, Sizes
  <2> QED
    BY <1>1, <1>4, <2>1, <2>2
<1>6. CASE m >= Coll
  <2>1. PICK q \in Slots \ O : t[q].col = m
    BY <1>4, <1>6 DEF Chained, Sound
  <2>2. m # 0
    BY <1>4, <1>6, Sizes
  <2>3. t[q].valid
    <3>1. t[q].valid \/ t[q] = Zero
      BY DEF Chained, Sound
    <3> QED
      BY <2>1, <2>2, <3>1 DEF Zero
  <2>4. q \in On(t, O)
    BY <2>3 DEF On
  <2>5. m > q /\ Hash(t[q].vlan) = Hash(t[m].vlan)
    BY <2>1, <2>2, <2>4 DEF Chained, Linked
  <2>6. q \notin Far
    <3>1. q \in Nat
      BY Sizes
    <3> QED
      BY <1>3, <1>4, <2>5, <3>1
  <2>7. PICK i \in 1 .. Len(w) : w[i] = q
    BY <1>4, <2>4, <2>5, <2>6
  <2>8. i \in 1 .. Len(w) - 1
    BY <1>1, <2>1, <2>2, <2>7, Sizes
  <2>9. w[i + 1] = m /\ i + 1 \in 1 .. Len(w)
    BY <1>1, <2>1, <2>7, <2>8, Sizes
  <2> QED
    BY <1>4, <2>9
<1> QED
  BY <1>4, <1>5, <1>6, Sizes

\* The firmware finds what the chains have, and nothing else.
LEMMA FoundIs ==
    ASSUME NEW t \in [Slots -> Entry], NEW O, Chained(t, O), NEW v \in Vlans
    PROVE  Found(t, v) = {p \in On(t, O) : t[p].vlan = v}
<1> DEFINE w == Walk(t, v)
<1>1. /\ w \in Seq(Slots) /\ Len(w) \in 1 .. Size /\ w[1] = Hash(v) /\ w[1] \notin O
      /\ \A i \in 1 .. Len(w) : i # 1 \/ Len(w) # 1 => w[i] \in On(t, O)
  BY Rises
<1>2. Range(w) = {w[i] : i \in 1 .. Len(w)} /\ Range(w) \subseteq Slots
  BY <1>1, RangeOf
<1>3. ASSUME NEW p \in Range(w), t[p].valid
      PROVE  p \in On(t, O)
  <2>1. PICK i \in 1 .. Len(w) : w[i] = p
    BY <1>2
  <2>2. CASE i = 1
    BY <1>1, <1>2, <1>3, <2>1, <2>2 DEF On
  <2> QED
    BY <1>1, <2>1, <2>2
<1>4. ASSUME NEW p \in On(t, O), t[p].vlan = v
      PROVE  p \in Range(w) /\ t[p].valid
  <2>1. \E i \in 1 .. Len(w) : w[i] = p
    BY <1>4, Reaches
  <2> QED
    BY <1>2, <2>1 DEF On
<1> QED
  BY <1>3, <1>4 DEF Found

\* So does the driver.
LEMMA Present ==
    ASSUME NEW t \in [Slots -> Entry], NEW O, Chained(t, O), NEW V, Holds(t, O, V),
           NEW v \in Vlans, v \in V
    PROVE  LET w == Walk(t, v)
               at == Place(t, v)
           IN  /\ at \in 1 .. Len(w) /\ w[at] \in On(t, O) /\ t[w[at]].vlan = v
               /\ t[Hash(v)].valid /\ Hash(v) \in On(t, O)
<1> DEFINE w == Walk(t, v)
           at == Place(t, v)
<1>1. PICK p \in On(t, O) : t[p].vlan = v
  BY DEF Holds
<1>2. PICK i \in 1 .. Len(w) : w[i] = p
  BY <1>1, Reaches
<1>3. at \in 0 .. Len(w) /\ (at # 0 => t[w[at]].vlan = v) /\ at # 0
  BY <1>1, <1>2, PlaceIs
<1>4. /\ Len(w) \in 1 .. Size /\ w[1] = Hash(v)
      /\ \A j \in 1 .. Len(w) : j # 1 \/ Len(w) # 1 => w[j] \in On(t, O)
  BY Rises
<1>5. at \in 1 .. Len(w)
  BY <1>3, <1>4, Sizes
<1>6. \A j \in 1 .. Len(w) : w[j] \in On(t, O)
  <2>1. CASE Len(w) = 1
    <3>1. i = 1 /\ \A j \in 1 .. Len(w) : j = 1
      BY <1>2, <2>1
    <3> QED
      BY <1>2, <3>1
  <2> QED
    BY <1>4, <2>1
<1>7. 1 \in 1 .. Len(w)
  BY <1>4, Sizes
<1> QED
  BY <1>3, <1>4, <1>5, <1>6, <1>7 DEF On

LEMMA Absent ==
    ASSUME NEW t \in [Slots -> Entry], NEW O, Chained(t, O), NEW V, Holds(t, O, V),
           NEW v \in Users, v \notin V
    PROVE  Place(t, v) = 0
<1> DEFINE w == Walk(t, v)
           at == Place(t, v)
<1>1. v \in Vlans /\ v # 0
  BY VlansAre
<1>2. at \in 0 .. Len(w) /\ (at # 0 => t[w[at]].vlan = v)
  BY <1>1, PlaceIs
<1>3. /\ w \in Seq(Slots) /\ Len(w) \in 1 .. Size /\ w[1] = Hash(v) /\ w[1] \notin O
      /\ \A j \in 1 .. Len(w) : j # 1 \/ Len(w) # 1 => w[j] \in On(t, O)
  BY <1>1, Rises
<1> SUFFICES ASSUME at # 0 PROVE FALSE
  OBVIOUS
<1>4. at \in 1 .. Len(w) /\ t[w[at]].vlan = v
  BY <1>2, <1>3, Sizes
<1>5. w[at] \in On(t, O)
  <2>1. CASE at = 1
    <3>1. w[at] \in Slots \ O
      BY <1>1, <1>3, <2>1, HashIs
    <3>2. t[w[at]].valid \/ t[w[at]] = Zero
      BY <3>1 DEF Chained, Sound
    <3> QED
      BY <1>1, <1>4, <3>1, <3>2 DEF Zero, On
  <2> QED
    BY <1>3, <1>4, <2>1
<1> QED
  BY <1>4, <1>5 DEF Holds

LEMMA Ends ==
    ASSUME NEW t \in [Slots -> Entry], NEW O, Chained(t, O), NEW v \in Vlans
    PROVE  ~Endless(t, v) /\ ~Spins(t, v)
<1>1. Len(Walk(t, v)) \in 1 .. Size
  BY Rises
<1> QED
  BY <1>1, Sizes DEF Endless, Spins

-----------------------------------------------------------------------------
(* What a write does to the chains *)

Tables == [Slots -> Entry]

LEMMA Written ==
    ASSUME NEW t \in Tables, NEW p \in Slots, NEW e \in Entry
    PROVE  /\ [t EXCEPT ![p] = e] \in Tables
           /\ [t EXCEPT ![p] = e][p] = e
           /\ \A q \in Slots : q # p => [t EXCEPT ![p] = e][q] = t[q]
  BY DEF Tables

LEMMA EntriesAre ==
    /\ Zero \in Entry /\ ~Zero.valid /\ Zero.col = 0
    /\ \A v \in Vlans, a \in SUBSET Ifs :
          /\ New(v, a) \in Entry /\ New(v, a).valid /\ New(v, a).col = 0
          /\ New(v, a).vlan = v /\ New(v, a).act = a
    /\ \A e \in Entry, a \in SUBSET Ifs :
          /\ [e EXCEPT !.act = a] \in Entry /\ [e EXCEPT !.act = a].valid = e.valid
          /\ [e EXCEPT !.act = a].vlan = e.vlan /\ [e EXCEPT !.act = a].col = e.col
          /\ [e EXCEPT !.act = a].act = a
    /\ \A e \in Entry, c \in Slots :
          /\ [e EXCEPT !.col = c] \in Entry /\ [e EXCEPT !.col = c].valid = e.valid
          /\ [e EXCEPT !.col = c].vlan = e.vlan /\ [e EXCEPT !.col = c].act = e.act
          /\ [e EXCEPT !.col = c].col = c
<1>1. 0 \in Slots /\ 0 \in Vlans
  BY Sizes, VlansAre
<1>2. Zero \in Entry /\ ~Zero.valid /\ Zero.col = 0
  BY <1>1 DEF Zero, Entry
<1>3. ASSUME NEW v \in Vlans, NEW a \in SUBSET Ifs
      PROVE  /\ New(v, a) \in Entry /\ New(v, a).valid /\ New(v, a).col = 0
             /\ New(v, a).vlan = v /\ New(v, a).act = a
  BY <1>1 DEF New, Entry
<1>4. ASSUME NEW e \in Entry, NEW a \in SUBSET Ifs
      PROVE  /\ [e EXCEPT !.act = a] \in Entry /\ [e EXCEPT !.act = a].valid = e.valid
             /\ [e EXCEPT !.act = a].vlan = e.vlan /\ [e EXCEPT !.act = a].col = e.col
             /\ [e EXCEPT !.act = a].act = a
  BY DEF Entry
<1>5. ASSUME NEW e \in Entry, NEW c \in Slots
      PROVE  /\ [e EXCEPT !.col = c] \in Entry /\ [e EXCEPT !.col = c].valid = e.valid
             /\ [e EXCEPT !.col = c].vlan = e.vlan /\ [e EXCEPT !.col = c].act = e.act
             /\ [e EXCEPT !.col = c].col = c
  BY DEF Entry
<1> QED
  BY <1>2, <1>3, <1>4, <1>5

\* Slots in the chains point to slots in the chains, and nothing points to an
\* orphan.
LEMMA ColIs ==
    ASSUME NEW t \in Tables, NEW O, Chained(t, O), NEW q \in Slots \ O, t[q].col # 0
    PROVE  /\ q \in On(t, O) /\ t[q].col \in On(t, O) /\ t[q].col > q /\ t[q].col >= Coll
           /\ Hash(t[t[q].col].vlan) = Hash(t[q].vlan)
<1>1. t[q].valid \/ t[q] = Zero
  BY DEF Chained, Sound
<1>2. q \in On(t, O)
  BY <1>1 DEF Zero, On
<1> QED
  BY <1>2 DEF Chained, Linked

LEMMA SetAct ==
    ASSUME NEW t \in Tables, NEW V, NEW F \in [Vlans -> SUBSET Ifs], NEW v \in Vlans,
           Chained(t, {}), Holds(t, {}, V), Tells(t, {}, F, {v}),
           NEW p \in On(t, {}), t[p].vlan = v,
           NEW e, e = [t[p] EXCEPT !.act = F[v]]
    PROVE  [t EXCEPT ![p] = e] \in Tables /\ Good([t EXCEPT ![p] = e], {}, V, F)
<1>1. p \in Slots /\ t[p] \in Entry /\ t[p].valid
  BY DEF On, Tables
<1>2. /\ e \in Entry /\ e.valid /\ e.vlan = v /\ e.col = t[p].col /\ e.act = F[v]
  <2>1. F[v] \in SUBSET Ifs
    OBVIOUS
  <2>2. \A x \in Entry, a \in SUBSET Ifs :
           /\ [x EXCEPT !.act = a] \in Entry /\ [x EXCEPT !.act = a].valid = x.valid
           /\ [x EXCEPT !.act = a].vlan = x.vlan /\ [x EXCEPT !.act = a].col = x.col
           /\ [x EXCEPT !.act = a].act = a
    BY EntriesAre
  <2> QED
    BY <1>1, <2>1, <2>2
<1> DEFINE u == [t EXCEPT ![p] = e]
<1>3. u \in Tables /\ u[p] = e /\ \A q \in Slots : q # p => u[q] = t[q]
  BY <1>1, <1>2, Written
<1> HIDE DEF u
<1>4. \A q \in Slots : /\ u[q].valid = t[q].valid /\ u[q].vlan = t[q].vlan /\ u[q].col = t[q].col
                       /\ q # p => u[q] = t[q]
  BY <1>1, <1>2, <1>3
<1>5. On(u, {}) = On(t, {})
  BY <1>4 DEF On
<1>6. Sound(u, {})
  BY <1>1, <1>4 DEF Sound, Chained
<1>7. Linked(u, {})
  <2>1. \A q \in On(t, {}) : q \in Slots
    BY DEF On
  <2> QED
    BY <1>4, <1>5, <2>1 DEF Linked, Chained
<1>8. Holds(u, {}, V)
  <2>1. \A q \in On(t, {}) : u[q].vlan = t[q].vlan
    BY <1>4 DEF On
  <2>2. {u[q].vlan : q \in On(u, {})} = {t[q].vlan : q \in On(t, {})}
    BY <1>5, <2>1
  <2> QED
    BY <1>5, <2>1, <2>2 DEF Holds
<1>9. Tells(u, {}, F, {})
  <2> SUFFICES ASSUME NEW q \in On(u, {}) PROVE u[q].act = F[u[q].vlan]
    BY DEF Tells
  <2>1. q \in Slots /\ q \in On(t, {})
    BY <1>5 DEF On
  <2>2. CASE q = p
    BY <1>2, <1>3, <2>2
  <2>3. CASE q # p
    <3>1. t[q].vlan # v
      BY <2>1, <2>3 DEF Holds
    <3> QED
      BY <1>3, <2>1, <2>3, <3>1 DEF Tells
  <2> QED
    BY <2>2, <2>3
<1> QED
  BY <1>3, <1>6, <1>7, <1>8, <1>9 DEF Good, Chained, u

LEMMA FillHead ==
    ASSUME NEW t \in Tables, NEW V, NEW F \in [Vlans -> SUBSET Ifs], NEW v \in Vlans,
           Good(t, {}, V, F), v \notin V, F[v] = {}, ~t[Hash(v)].valid,
           NEW e, e = New(v, {})
    PROVE  /\ [t EXCEPT ![Hash(v)] = e] \in Tables
           /\ Good([t EXCEPT ![Hash(v)] = e], {}, V \cup {v}, F)
<1>1. PICK p \in Slots : p = Hash(v) /\ p < Coll
  BY HashIs
<1>2. e \in Entry /\ e.valid /\ e.vlan = v /\ e.col = 0 /\ e.act = {}
  BY EntriesAre
<1> DEFINE u == [t EXCEPT ![p] = e]
<1>3. u \in Tables /\ u[p] = e /\ \A q \in Slots : q # p => u[q] = t[q]
  BY <1>2, Written
<1> HIDE DEF u
<1>4. On(u, {}) = On(t, {}) \cup {p} /\ p \notin On(t, {})
  BY <1>1, <1>2, <1>3 DEF On
<1>5. \A q \in On(t, {}) : q \in Slots /\ u[q] = t[q]
  BY <1>3, <1>4 DEF On
<1>6. Sound(u, {})
  <2>1. \A q \in Slots :
           /\ u[q].valid \/ u[q] = Zero
           /\ q < Coll /\ u[q].valid => Hash(u[q].vlan) = q
    BY <1>1, <1>2, <1>3 DEF Good, Chained, Sound
  <2>2. ASSUME NEW q \in Slots, q >= Coll, u[q].valid
        PROVE  \E r \in Slots : u[r].col = q
    <3>1. q # p /\ u[q] = t[q] /\ q # 0
      BY <1>1, <1>3, <2>2, Sizes
    <3>2. PICK r \in Slots : t[r].col = q
      BY <2>2, <3>1 DEF Good, Chained, Sound
    <3>3. r \in On(t, {})
      BY <3>1, <3>2, ColIs DEF Good
    <3> QED
      BY <1>5, <3>2, <3>3
  <2> QED
    BY <2>1, <2>2 DEF Sound
<1>7. Linked(u, {})
  <2>1. ASSUME NEW q \in On(u, {}), u[q].col # 0
        PROVE  /\ q \in On(t, {}) /\ u[q].col > q /\ u[q].col >= Coll /\ u[q].col \in On(u, {})
               /\ Hash(u[u[q].col].vlan) = Hash(u[q].vlan)
    <3>1. q # p
      BY <1>2, <1>3, <2>1
    <3>2. q \in On(t, {}) /\ u[q] = t[q] /\ q \in Slots
      BY <1>4, <1>5, <3>1
    <3>3. /\ t[q].col \in On(t, {}) /\ t[q].col > q /\ t[q].col >= Coll
          /\ Hash(t[t[q].col].vlan) = Hash(t[q].vlan)
      BY <2>1, <3>2, ColIs DEF Good
    <3> QED
      BY <1>4, <1>5, <3>2, <3>3
  <2>2. ASSUME NEW q \in On(u, {}), NEW r \in On(u, {}), u[q].col = u[r].col, u[q].col # 0
        PROVE  q = r
    <3>1. q \in On(t, {}) /\ r \in On(t, {})
      BY <2>1, <2>2
    <3> QED
      BY <1>5, <2>2, <3>1 DEF Good, Chained, Linked
  <2> QED
    BY <2>1, <2>2 DEF Linked
<1>8. Holds(u, {}, V \cup {v})
  <2>1. {u[q].vlan : q \in On(u, {})} = {t[q].vlan : q \in On(t, {})} \cup {v}
    BY <1>2, <1>3, <1>4, <1>5
  <2>2. \A q \in On(t, {}) : t[q].vlan # v
    BY DEF Good, Holds
  <2>3. \A q, r \in On(u, {}) : u[q].vlan = u[r].vlan => q = r
    BY <1>2, <1>3, <1>4, <1>5, <2>2 DEF Good, Holds
  <2> QED
    BY <2>1, <2>3 DEF Good, Holds
<1>9. Tells(u, {}, F, {})
  BY <1>2, <1>3, <1>4, <1>5 DEF Good, Tells
<1> QED
  BY <1>1, <1>3, <1>6, <1>7, <1>8, <1>9 DEF Good, Chained, u

\* An entry that nothing points to yet
LEMMA PutOrphan ==
    ASSUME NEW t \in Tables, NEW V, NEW F \in [Vlans -> SUBSET Ifs],
           Good(t, {}, V, F), NEW p \in Slots, p >= Coll, ~t[p].valid, NEW e \in Entry
    PROVE  /\ [t EXCEPT ![p] = e] \in Tables
           /\ Good([t EXCEPT ![p] = e], {p}, V, F)
           /\ On([t EXCEPT ![p] = e], {p}) = On(t, {})
           /\ [t EXCEPT ![p] = e][p] = e
           /\ \A q \in On(t, {}) : [t EXCEPT ![p] = e][q] = t[q]
<1> DEFINE u == [t EXCEPT ![p] = e]
<1>1. u \in Tables /\ u[p] = e /\ \A q \in Slots : q # p => u[q] = t[q]
  BY Written
<1> HIDE DEF u
<1>2. On(u, {p}) = On(t, {}) /\ p \notin On(t, {})
  BY <1>1 DEF On
<1>3. \A q \in On(t, {}) : q \in Slots /\ u[q] = t[q] /\ q # p
  BY <1>1, <1>2 DEF On
<1>4. Sound(u, {p})
  <2>1. \A q \in Slots \ {p} :
           /\ u[q].valid \/ u[q] = Zero
           /\ q < Coll /\ u[q].valid => Hash(u[q].vlan) = q
    BY <1>1 DEF Good, Chained, Sound
  <2>2. ASSUME NEW q \in Slots \ {p}, q >= Coll, u[q].valid
        PROVE  \E r \in Slots \ {p} : u[r].col = q
    <3>1. u[q] = t[q] /\ q # 0
      BY <1>1, <2>2, Sizes
    <3>2. PICK r \in Slots : t[r].col = q
      BY <2>2, <3>1 DEF Good, Chained, Sound
    <3>3. r \in On(t, {})
      BY <3>1, <3>2, ColIs DEF Good
    <3>4. r # p /\ u[r] = t[r]
      BY <1>3, <3>3
    <3> QED
      BY <3>2, <3>4
  <2> QED
    BY <2>1, <2>2 DEF Sound
<1>5. Linked(u, {p})
  <2>1. ASSUME NEW q \in On(t, {}), t[q].col # 0
        PROVE  /\ t[q].col > q /\ t[q].col >= Coll /\ t[q].col \in On(t, {})
               /\ Hash(t[t[q].col].vlan) = Hash(t[q].vlan)
    BY <2>1 DEF Good, Chained, Linked
  <2>2. \A q, r \in On(t, {}) : t[q].col = t[r].col /\ t[q].col # 0 => q = r
    BY DEF Good, Chained, Linked
  <2>3. \A q \in On(t, {}) : u[q] = t[q]
    BY <1>3
  <2> QED
    BY <1>2, <2>1, <2>2, <2>3 DEF Linked
<1>6. Holds(u, {p}, V)
  <2>1. {u[q].vlan : q \in On(u, {p})} = {t[q].vlan : q \in On(t, {})}
    BY <1>2, <1>3
  <2> QED
    BY <1>2, <1>3, <2>1 DEF Good, Holds
<1>7. Tells(u, {p}, F, {})
  BY <1>2, <1>3 DEF Good, Tells
<1> QED
  BY <1>1, <1>2, <1>3, <1>4, <1>5, <1>6, <1>7 DEF Good, Chained, u

LEMMA LinkOrphan ==
    ASSUME NEW t \in Tables, NEW V, NEW F \in [Vlans -> SUBSET Ifs], NEW v \in Vlans,
           NEW p \in Slots, p >= Coll, Good(t, {p}, V, F), t[p] = New(v, {}),
           v \notin V, F[v] = {},
           NEW last \in On(t, {p}), last < p, t[last].col = 0,
           Hash(t[last].vlan) = Hash(v),
           NEW e, e = [t[last] EXCEPT !.col = p]
    PROVE  [t EXCEPT ![last] = e] \in Tables /\ Good([t EXCEPT ![last] = e], {}, V \cup {v}, F)
<1>1. last \in Slots /\ t[last] \in Entry /\ t[last].valid /\ last # p
  BY DEF On, Tables
<1>2. /\ e \in Entry /\ e.valid /\ e.vlan = t[last].vlan /\ e.col = p /\ e.act = t[last].act
  BY <1>1, EntriesAre
<1> DEFINE u == [t EXCEPT ![last] = e]
<1>3. u \in Tables /\ u[last] = e /\ \A q \in Slots : q # last => u[q] = t[q]
  BY <1>1, <1>2, Written
<1> HIDE DEF u
<1>4. u[p].valid /\ u[p].col = 0 /\ u[p].vlan = v /\ u[p].act = {}
  BY <1>1, <1>3, EntriesAre
<1>5. \A q \in Slots : q # p => /\ u[q].valid = t[q].valid /\ u[q].vlan = t[q].vlan
                                /\ u[q].act = t[q].act
                                /\ q # last => u[q] = t[q]
  BY <1>1, <1>2, <1>3
<1>6. On(u, {}) = On(t, {p}) \cup {p} /\ p \notin On(t, {p})
  BY <1>4, <1>5 DEF On
<1>7. \A q \in On(t, {p}) : q \in Slots /\ q # p
  BY DEF On
<1>8. Sound(u, {})
  <2>1. ASSUME NEW q \in Slots
        PROVE  /\ u[q].valid \/ u[q] = Zero
               /\ q < Coll /\ u[q].valid => Hash(u[q].vlan) = q
    <3>1. CASE q = p
      BY <1>4, <3>1, Sizes
    <3>2. CASE q # p
      <4>1. t[q].valid \/ t[q] = Zero
        BY <3>2 DEF Good, Chained, Sound
      <4>2. q < Coll /\ t[q].valid => Hash(t[q].vlan) = q
        BY <3>2 DEF Good, Chained, Sound
      <4> QED
        BY <1>1, <1>2, <1>3, <1>5, <3>2, <4>1, <4>2
    <3> QED
      BY <3>1, <3>2
  <2>2. ASSUME NEW q \in Slots, q >= Coll, u[q].valid
        PROVE  \E r \in Slots : u[r].col = q
    <3>1. CASE q = p
      BY <1>1, <1>2, <1>3, <3>1
    <3>2. CASE q # p
      <4>1. t[q].valid
        BY <1>5, <2>2, <3>2
      <4>2. PICK r \in Slots \ {p} : t[r].col = q
        BY <2>2, <3>2, <4>1 DEF Good, Chained, Sound
      <4>3. r # last
        BY <2>2, <4>2, Sizes
      <4> QED
        BY <1>3, <4>2, <4>3
    <3> QED
      BY <3>1, <3>2
  <2> QED
    BY <2>1, <2>2 DEF Sound
<1>9. Linked(u, {})
  <2>1. ASSUME NEW q \in On(u, {}), u[q].col # 0
        PROVE  /\ q \in On(t, {p})
               /\ q = last \/ (u[q] = t[q] /\ u[q].col # p)
               /\ u[q].col > q /\ u[q].col >= Coll /\ u[q].col \in On(u, {})
               /\ Hash(u[u[q].col].vlan) = Hash(u[q].vlan)
    <3>1. q # p /\ q \in On(t, {p}) /\ q \in Slots
      BY <1>4, <1>6, <1>7, <2>1
    <3>2. CASE q = last
      BY <1>2, <1>3, <1>4, <1>6, <3>1, <3>2
    <3>3. CASE q # last
      <4>1. u[q] = t[q]
        BY <1>5, <3>1, <3>3
      <4>2. PICK c \in On(t, {p}) : c = t[q].col /\ c > q /\ c >= Coll
                                    /\ Hash(t[c].vlan) = Hash(t[q].vlan)
        BY <2>1, <3>1, <4>1, ColIs DEF Good
      <4>3. c # p /\ c \in Slots /\ u[c].vlan = t[c].vlan
        BY <1>5, <1>7
      <4> QED
        BY <1>6, <3>1, <4>1, <4>2, <4>3
    <3> QED
      BY <3>2, <3>3
  <2>2. ASSUME NEW q \in On(u, {}), NEW r \in On(u, {}), u[q].col = u[r].col, u[q].col # 0
        PROVE  q = r
    <3>1. /\ q \in On(t, {p}) /\ r \in On(t, {p})
          /\ q = last \/ (u[q] = t[q] /\ u[q].col # p)
          /\ r = last \/ (u[r] = t[r] /\ u[r].col # p)
      BY <2>1, <2>2
    <3>2. u[last].col = p
      BY <1>2, <1>3
    <3> QED
      BY <2>2, <3>1, <3>2 DEF Good, Chained, Linked
  <2> QED
    BY <2>1, <2>2 DEF Linked
<1>10. Holds(u, {}, V \cup {v})
  <2>1. \A q \in On(t, {p}) : u[q].vlan = t[q].vlan /\ t[q].vlan # v
    BY <1>5, <1>7 DEF Good, Holds
  <2>4. {u[q].vlan : q \in On(u, {})} = {u[q].vlan : q \in On(t, {p})} \cup {u[p].vlan}
    BY <1>6
  <2>5. {u[q].vlan : q \in On(t, {p})} = {t[q].vlan : q \in On(t, {p})}
    BY <2>1
  <2>2. {u[q].vlan : q \in On(u, {})} = {t[q].vlan : q \in On(t, {p})} \cup {v}
    BY <1>4, <2>4, <2>5
  <2>3. \A q, r \in On(u, {}) : u[q].vlan = u[r].vlan => q = r
    BY <1>4, <1>6, <2>1 DEF Good, Holds
  <2> QED
    BY <2>2, <2>3 DEF Good, Holds
<1>11. Tells(u, {}, F, {})
  <2>1. \A q \in On(t, {p}) : u[q].vlan = t[q].vlan /\ u[q].act = t[q].act
    BY <1>5, <1>7
  <2> QED
    BY <1>4, <1>6, <2>1 DEF Good, Tells
<1> QED
  BY <1>3, <1>8, <1>9, <1>10, <1>11 DEF Good, Chained, u

\* The head of a chain goes that has nothing behind it.
LEMMA ClearHead ==
    ASSUME NEW t \in Tables, NEW V, NEW F \in [Vlans -> SUBSET Ifs], NEW v,
           Good(t, {}, V, F), NEW p \in Slots, p < Coll,
           t[p].valid, t[p].vlan = v, t[p].col = 0
    PROVE  [t EXCEPT ![p] = Zero] \in Tables /\ Good([t EXCEPT ![p] = Zero], {}, V \ {v}, F)
<1>1. Zero \in Entry /\ ~Zero.valid /\ Zero.col = 0
  BY EntriesAre
<1> DEFINE u == [t EXCEPT ![p] = Zero]
<1>2. u \in Tables /\ u[p] = Zero /\ \A q \in Slots : q # p => u[q] = t[q]
  BY <1>1, Written
<1> HIDE DEF u
<1>3. On(u, {}) = On(t, {}) \ {p} /\ p \in On(t, {})
  BY <1>1, <1>2 DEF On
<1>4. \A q \in On(u, {}) : q \in On(t, {}) /\ q \in Slots /\ u[q] = t[q] /\ q # p
  BY <1>2, <1>3 DEF On
<1>5. Sound(u, {})
  <2>1. \A q \in Slots :
           /\ u[q].valid \/ u[q] = Zero
           /\ q < Coll /\ u[q].valid => Hash(u[q].vlan) = q
    BY <1>1, <1>2 DEF Good, Chained, Sound
  <2>2. ASSUME NEW q \in Slots, q >= Coll, u[q].valid
        PROVE  \E r \in Slots : u[r].col = q
    <3>1. u[q] = t[q] /\ q # 0
      BY <1>1, <1>2, <2>2, Sizes
    <3>2. PICK r \in Slots : t[r].col = q
      BY <2>2, <3>1 DEF Good, Chained, Sound
    <3>3. r # p /\ u[r] = t[r]
      BY <1>2, <3>1, <3>2
    <3> QED
      BY <3>2, <3>3
  <2> QED
    BY <2>1, <2>2 DEF Sound
<1>6. Linked(u, {})
  <2>1. ASSUME NEW q \in On(u, {}), u[q].col # 0
        PROVE  /\ u[q].col > q /\ u[q].col >= Coll /\ u[q].col \in On(u, {})
               /\ Hash(u[u[q].col].vlan) = Hash(u[q].vlan)
    <3>1. PICK c \in On(t, {}) : c = t[q].col /\ c > q /\ c >= Coll
                                 /\ Hash(t[c].vlan) = Hash(t[q].vlan)
      BY <1>4, <2>1, ColIs DEF Good
    <3>2. c # p /\ c \in On(u, {})
      BY <1>3, <3>1, Sizes
    <3> QED
      BY <1>4, <2>1, <3>1, <3>2
  <2>2. \A q, r \in On(u, {}) : u[q].col = u[r].col /\ u[q].col # 0 => q = r
    BY <1>4 DEF Good, Chained, Linked
  <2> QED
    BY <2>1, <2>2 DEF Linked
<1>7. Holds(u, {}, V \ {v})
  <2>1. \A q \in On(u, {}) : t[q].vlan # v
    BY <1>3, <1>4 DEF Good, Holds
  <2>2. \A q \in On(t, {}) : t[q].vlan # v => q \in On(u, {})
    BY <1>3
  <2>3. {u[q].vlan : q \in On(u, {})} = {t[q].vlan : q \in On(t, {})} \ {v}
    BY <1>4, <2>1, <2>2
  <2>4. \A q, r \in On(u, {}) : u[q].vlan = u[r].vlan => q = r
    BY <1>4 DEF Good, Holds
  <2> QED
    BY <2>3, <2>4 DEF Good, Holds
<1>8. Tells(u, {}, F, {})
  BY <1>4 DEF Good, Tells
<1> QED
  BY <1>2, <1>5, <1>6, <1>7, <1>8 DEF Good, Chained, u

\* The second of a chain becomes its head; its old slot is an orphan.
LEMMA MoveHead ==
    ASSUME NEW t \in Tables, NEW V, NEW F \in [Vlans -> SUBSET Ifs], NEW v,
           Good(t, {}, V, F), NEW p \in Slots, p < Coll,
           t[p].valid, t[p].vlan = v, t[p].col # 0
    PROVE  /\ [t EXCEPT ![p] = t[t[p].col]] \in Tables
           /\ Good([t EXCEPT ![p] = t[t[p].col]], {t[p].col}, V \ {v}, F)
<1>1. PICK n \in Slots : n = t[p].col /\ n \in On(t, {}) /\ n > p /\ n >= Coll
                         /\ Hash(t[n].vlan) = Hash(t[p].vlan)
  <2>1. t[p].col \in On(t, {})
    BY ColIs DEF Good
  <2> QED
    BY <2>1, ColIs DEF Good, On
<1>2. t[n] \in Entry /\ t[n].valid /\ p # n /\ p \in On(t, {})
  BY <1>1, Sizes DEF Tables, On
<1> DEFINE u == [t EXCEPT ![p] = t[n]]
           Was(q) == IF q = p THEN n ELSE q
<1>3. u \in Tables /\ u[p] = t[n] /\ \A q \in Slots : q # p => u[q] = t[q]
  BY <1>2, Written
<1> HIDE DEF u
<1>4. On(u, {n}) = On(t, {}) \ {n}
  BY <1>2, <1>3 DEF On
<1>5. \A q \in On(u, {n}) : /\ q \in Slots /\ q # n /\ u[q] = t[Was(q)]
                            /\ Was(q) \in On(t, {}) /\ Was(q) # p
  BY <1>1, <1>2, <1>3, <1>4 DEF On
<1>6. \A q, r \in On(u, {n}) : Was(q) = Was(r) => q = r
  BY <1>5
<1>7. Sound(u, {n})
  <2>1. ASSUME NEW q \in Slots \ {n}
        PROVE  /\ u[q].valid \/ u[q] = Zero
               /\ q < Coll /\ u[q].valid => Hash(u[q].vlan) = q
    <3>1. CASE q = p
      <4>1. Hash(t[p].vlan) = p
        BY DEF Good, Chained, Sound
      <4> QED
        BY <1>1, <1>2, <1>3, <3>1, <4>1
    <3>2. CASE q # p
      BY <1>3, <3>2 DEF Good, Chained, Sound
    <3> QED
      BY <3>1, <3>2
  <2>2. ASSUME NEW q \in Slots \ {n}, q >= Coll, u[q].valid
        PROVE  \E r \in Slots \ {n} : u[r].col = q
    <3>1. q # p /\ u[q] = t[q] /\ q # 0
      BY <1>3, <2>2, Sizes
    <3>2. PICK r \in Slots : t[r].col = q
      BY <2>2, <3>1 DEF Good, Chained, Sound
    <3>3. r # p
      BY <1>1, <3>2
    <3>4. CASE r = n
      BY <1>2, <1>3, <3>2, <3>4
    <3>5. CASE r # n
      BY <1>3, <3>2, <3>3, <3>5
    <3> QED
      BY <3>4, <3>5
  <2> QED
    BY <1>1, <2>1, <2>2 DEF Sound
<1>8. Linked(u, {n})
  <2>1. ASSUME NEW q \in On(u, {n}), u[q].col # 0
        PROVE  /\ u[q].col > q /\ u[q].col >= Coll /\ u[q].col \in On(u, {n})
               /\ Hash(u[u[q].col].vlan) = Hash(u[q].vlan)
    <3>1. PICK o \in On(t, {}) : o = Was(q) /\ u[q] = t[o] /\ o # p /\ o \in Slots
      BY <1>5 DEF On
    <3>2. PICK c \in On(t, {}) : c = t[o].col /\ c > o /\ c >= Coll
                                 /\ Hash(t[c].vlan) = Hash(t[o].vlan) /\ c \in Slots
      BY <2>1, <3>1, ColIs DEF Good, On
    <3>3. c # n
      BY <1>1, <1>2, <2>1, <3>1, <3>2 DEF Good, Chained, Linked
    <3>4. c > q
      BY <1>1, <3>1, <3>2, Sizes
    <3>5. c # p /\ u[c] = t[c]
      BY <1>3, <3>2, Sizes
    <3> QED
      BY <1>4, <3>1, <3>2, <3>3, <3>4, <3>5
  <2>2. ASSUME NEW q \in On(u, {n}), NEW r \in On(u, {n}), u[q].col = u[r].col, u[q].col # 0
        PROVE  q = r
    <3>1. Was(q) = Was(r)
      BY <1>5, <2>2 DEF Good, Chained, Linked
    <3> QED
      BY <1>6, <3>1
  <2> QED
    BY <2>1, <2>2 DEF Linked
<1>9. Holds(u, {n}, V \ {v})
  <2>1. \A q \in On(t, {}) : q # p => t[q].vlan # v
    BY <1>2 DEF Good, Holds
  <2>2. \A q \in On(u, {n}) : u[q].vlan \in V /\ u[q].vlan # v
    BY <1>5, <2>1 DEF Good, Holds
  <2>3. ASSUME NEW x \in V, x # v
        PROVE  \E q \in On(u, {n}) : u[q].vlan = x
    <3>1. PICK q \in On(t, {}) : t[q].vlan = x
      BY DEF Good, Holds
    <3>2. q # p
      BY <2>3, <3>1
    <3>3. CASE q = n
      BY <1>2, <1>3, <1>4, <3>1, <3>3
    <3>4. CASE q # n
      BY <1>3, <1>4, <3>1, <3>2, <3>4 DEF On
    <3> QED
      BY <3>3, <3>4
  <2> DEFINE W == {u[q].vlan : q \in On(u, {n})}
  <2>6. ASSUME NEW x \in V \ {v} PROVE x \in W
    BY <2>3
  <2>7. ASSUME NEW x \in W PROVE x \in V \ {v}
    BY <2>2
  <2>4. W = V \ {v}
    <3> HIDE DEF W
    <3> QED
      BY <2>6, <2>7
  <2>5. ASSUME NEW q \in On(u, {n}), NEW r \in On(u, {n}), u[q].vlan = u[r].vlan
        PROVE  q = r
    <3>1. Was(q) = Was(r)
      BY <1>5, <2>5 DEF Good, Holds
    <3> QED
      BY <1>6, <3>1
  <2> QED
    BY <2>4, <2>5 DEF Holds
<1>10. Tells(u, {n}, F, {})
  BY <1>5 DEF Good, Tells
<1> QED
  BY <1>1, <1>3, <1>7, <1>8, <1>9, <1>10 DEF Good, Chained, u

\* An inner entry is left out of its chain.
LEMMA Bypass ==
    ASSUME NEW t \in Tables, NEW V, NEW F \in [Vlans -> SUBSET Ifs], NEW v,
           Good(t, {}, V, F), NEW p \in Slots, p >= Coll,
           t[p].valid, t[p].vlan = v, t[p].col # 0,
           NEW q \in Slots, t[q].col = p,
           NEW e, e = [t[q] EXCEPT !.col = t[p].col]
    PROVE  [t EXCEPT ![q] = e] \in Tables /\ Good([t EXCEPT ![q] = e], {p}, V \ {v}, F)
<1>1. PICK n \in Slots : n = t[p].col /\ n \in On(t, {}) /\ n > p /\ n >= Coll
                         /\ Hash(t[n].vlan) = Hash(t[p].vlan)
  <2>1. t[p].col \in On(t, {})
    BY ColIs DEF Good
  <2> QED
    BY <2>1, ColIs DEF Good, On
<1>2. /\ q \in On(t, {}) /\ p \in On(t, {}) /\ q < p /\ t[q] \in Entry
      /\ Hash(t[p].vlan) = Hash(t[q].vlan)
  <2>1. p # 0
    BY Sizes
  <2> QED
    BY <2>1, ColIs DEF Good, Tables
<1>3. e \in Entry /\ e.valid = t[q].valid /\ e.vlan = t[q].vlan /\ e.act = t[q].act /\ e.col = n
  BY <1>1, <1>2, EntriesAre
<1> DEFINE u == [t EXCEPT ![q] = e]
<1>4. u \in Tables /\ u[q] = e /\ \A r \in Slots : r # q => u[r] = t[r]
  BY <1>3, Written
<1> HIDE DEF u
<1>5. \A r \in Slots : u[r].valid = t[r].valid /\ u[r].vlan = t[r].vlan /\ u[r].act = t[r].act
  BY <1>3, <1>4
<1>6. On(u, {p}) = On(t, {}) \ {p}
  BY <1>5 DEF On
<1>7. \A r \in On(u, {p}) : r \in Slots /\ r # p /\ r \in On(t, {})
  BY <1>6 DEF On
<1>8. Sound(u, {p})
  <2>1. \A r \in Slots \ {p} :
           /\ u[r].valid \/ u[r] = Zero
           /\ r < Coll /\ u[r].valid => Hash(u[r].vlan) = r
    <3>1. t[q].valid
      BY <1>2 DEF On
    <3> QED
      BY <1>4, <1>5, <3>1 DEF Good, Chained, Sound
  <2>2. ASSUME NEW r \in Slots \ {p}, r >= Coll, u[r].valid
        PROVE  \E s \in Slots \ {p} : u[s].col = r
    <3>1. PICK s \in Slots : t[s].col = r
      BY <1>5, <2>2 DEF Good, Chained, Sound
    <3>2. s # q
      BY <3>1
    <3>3. CASE s = p
      <4>1. q # p
        BY <1>2, Sizes
      <4>2. u[q].col = r
        BY <1>1, <1>3, <1>4, <3>1, <3>3
      <4> QED
        BY <4>1, <4>2
    <3>4. CASE s # p
      BY <1>4, <3>1, <3>2, <3>4
    <3> QED
      BY <3>3, <3>4
  <2> QED
    BY <2>1, <2>2 DEF Sound
<1>9. Linked(u, {p})
  <2>1. ASSUME NEW r \in On(u, {p}), u[r].col # 0
        PROVE  /\ u[r].col > r /\ u[r].col >= Coll /\ u[r].col \in On(u, {p})
               /\ Hash(u[u[r].col].vlan) = Hash(u[r].vlan)
    <3>1. CASE r = q
      <4>1. n > q /\ n # p
        BY <1>1, <1>2, Sizes
      <4>2. u[n].vlan = t[n].vlan /\ u[r].vlan = t[q].vlan /\ u[r].col = n
        BY <1>3, <1>4, <1>5, <3>1
      <4> QED
        BY <1>1, <1>2, <1>6, <3>1, <4>1, <4>2
    <3>2. CASE r # q
      <4>1. u[r] = t[r] /\ r \in On(t, {}) /\ r \in Slots
        BY <1>4, <1>7, <3>2
      <4>2. PICK c \in On(t, {}) : c = t[r].col /\ c > r /\ c >= Coll
                                   /\ Hash(t[c].vlan) = Hash(t[r].vlan) /\ c \in Slots
        BY <2>1, <4>1, ColIs DEF Good, On
      <4>3. c # p
        BY <1>2, <2>1, <3>2, <4>1, <4>2 DEF Good, Chained, Linked
      <4> QED
        BY <1>5, <1>6, <4>1, <4>2, <4>3
    <3> QED
      BY <3>1, <3>2
  <2>2. ASSUME NEW r \in On(u, {p}), NEW s \in On(u, {p}), u[r].col = u[s].col, u[r].col # 0,
               s # q
        PROVE  r = s
    <3>1. u[s].col = t[s].col /\ s \in On(t, {}) /\ s # p /\ r \in On(t, {})
      BY <1>4, <1>7, <2>2
    <3>2. CASE r = q
      <4>1. t[s].col = t[p].col /\ t[s].col # 0
        BY <1>1, <1>3, <1>4, <2>2, <3>1, <3>2
      <4> QED
        BY <1>2, <3>1, <4>1 DEF Good, Chained, Linked
    <3>3. CASE r # q
      <4>1. u[r].col = t[r].col
        BY <1>4, <1>7, <3>3
      <4> QED
        BY <2>2, <3>1, <4>1 DEF Good, Chained, Linked
    <3> QED
      BY <3>2, <3>3
  <2>3. ASSUME NEW r \in On(u, {p}), NEW s \in On(u, {p}), u[r].col = u[s].col, u[r].col # 0
        PROVE  r = s
    <3>1. CASE s # q
      BY <2>2, <2>3, <3>1
    <3>2. CASE s = q /\ r # q
      BY <2>2, <2>3, <3>2
    <3> QED
      BY <3>1, <3>2
  <2> QED
    BY <2>1, <2>3 DEF Linked
<1>10. Holds(u, {p}, V \ {v})
  <2>1. \A r \in On(u, {p}) : u[r].vlan = t[r].vlan
    BY <1>5, <1>7
  <2>2. \A r \in On(t, {}) : r # p => t[r].vlan # v
    BY <1>2 DEF Good, Holds
  <2>3. {u[r].vlan : r \in On(u, {p})} = {t[r].vlan : r \in On(u, {p})}
    BY <2>1
  <2>4. {t[r].vlan : r \in On(u, {p})} = {t[r].vlan : r \in On(t, {})} \ {v}
    BY <1>6, <2>2
  <2>5. {u[r].vlan : r \in On(u, {p})} = V \ {v}
    BY <2>3, <2>4 DEF Good, Holds
  <2>6. \A r, s \in On(u, {p}) : u[r].vlan = u[s].vlan => r = s
    <3>1. \A r, s \in On(t, {}) : t[r].vlan = t[s].vlan => r = s
      BY DEF Good, Holds
    <3>2. ASSUME NEW r \in On(u, {p}), NEW s \in On(u, {p}), u[r].vlan = u[s].vlan
          PROVE  r = s
      <4>1. r \in On(t, {}) /\ s \in On(t, {}) /\ t[r].vlan = t[s].vlan
        BY <1>7, <2>1, <3>2
      <4> QED
        BY <3>1, <4>1
    <3> QED
      BY <3>2
  <2> QED
    BY <2>5, <2>6 DEF Holds
<1>11. Tells(u, {p}, F, {})
  BY <1>5, <1>7 DEF Good, Tells
<1> QED
  BY <1>4, <1>8, <1>9, <1>10, <1>11 DEF Good, Chained, u

LEMMA ClearOrphan ==
    ASSUME NEW t \in Tables, NEW V, NEW F \in [Vlans -> SUBSET Ifs],
           NEW p \in Slots, Good(t, {p}, V, F)
    PROVE  [t EXCEPT ![p] = Zero] \in Tables /\ Good([t EXCEPT ![p] = Zero], {}, V, F)
<1>1. Zero \in Entry /\ ~Zero.valid /\ Zero.col = 0
  BY EntriesAre
<1> DEFINE u == [t EXCEPT ![p] = Zero]
<1>2. u \in Tables /\ u[p] = Zero /\ \A q \in Slots : q # p => u[q] = t[q]
  BY <1>1, Written
<1> HIDE DEF u
<1>3. On(u, {}) = On(t, {p})
  BY <1>1, <1>2 DEF On
<1>4. \A q \in On(t, {p}) : q \in Slots /\ q # p /\ u[q] = t[q]
  BY <1>2 DEF On
<1>5. Sound(u, {})
  <2>1. \A q \in Slots :
           /\ u[q].valid \/ u[q] = Zero
           /\ q < Coll /\ u[q].valid => Hash(u[q].vlan) = q
    BY <1>1, <1>2 DEF Good, Chained, Sound
  <2>2. ASSUME NEW q \in Slots, q >= Coll, u[q].valid
        PROVE  \E r \in Slots : u[r].col = q
    BY <1>1, <1>2, <2>2 DEF Good, Chained, Sound
  <2> QED
    BY <2>1, <2>2 DEF Sound
<1>6. Linked(u, {})
  <2>1. ASSUME NEW q \in On(t, {p}), t[q].col # 0
        PROVE  /\ t[q].col > q /\ t[q].col >= Coll /\ t[q].col \in On(t, {p})
               /\ Hash(t[t[q].col].vlan) = Hash(t[q].vlan)
    BY <2>1 DEF Good, Chained, Linked
  <2>2. \A q, r \in On(t, {p}) : t[q].col = t[r].col /\ t[q].col # 0 => q = r
    BY DEF Good, Chained, Linked
  <2> QED
    BY <1>3, <1>4, <2>1, <2>2 DEF Linked
<1>7. Holds(u, {}, V)
  <2>1. {u[q].vlan : q \in On(u, {})} = {t[q].vlan : q \in On(t, {p})}
    BY <1>3, <1>4
  <2> QED
    BY <1>3, <1>4, <2>1 DEF Good, Holds
<1>8. Tells(u, {}, F, {})
  BY <1>3, <1>4 DEF Good, Tells
<1> QED
  BY <1>2, <1>5, <1>6, <1>7, <1>8 DEF Good, Chained, u

-----------------------------------------------------------------------------
(* The static entries *)

LEMMA NamesApart ==
    /\ End \notin Keys /\ Null \notin Keys /\ Freed \notin Keys /\ End \notin Vlans
    /\ None \notin SUBSET Ifs /\ None \notin {"endless", "hang", "null", "freed"}
    /\ None \notin {"register", "update", "deregister"}
    /\ MaxTimeouts \in Nat
  BY TableAssumption DEF Vlans, Fallback

LEMMA RangeFinite ==
    ASSUME NEW T, NEW seq \in Seq(T)
    PROVE  IsFiniteSet(Range(seq))
<1>1. Len(seq) \in Nat /\ DOMAIN seq = 1 .. Len(seq) /\ Range(seq) = {seq[i] : i \in 1 .. Len(seq)}
  BY RangeOf
<1>2. IsFiniteSet(1 .. Len(seq))
  BY <1>1, FS_Interval
<1> DEFINE f == [i \in 1 .. Len(seq) |-> seq[i]]
<1>3. f \in Surjection(1 .. Len(seq), Range(seq))
  BY <1>1 DEF Surjection
<1> HIDE DEF f
<1> QED
  BY <1>2, <1>3, FS_Surjection

LEMMA Late ==
    ASSUME NEW keys, IsFiniteSet(keys), NEW late \in SUBSET keys
    PROVE  Cardinality(late) \in Nat /\ (late # {} => Cardinality(late) > 0)
<1>1. IsFiniteSet(late)
  BY FS_Subset
<1>2. Cardinality(late) \in Nat /\ (Cardinality(late) = 0 <=> late = {})
  BY <1>1, FS_CardinalityType, FS_EmptySet
<1> QED
  BY <1>2

\* The MAC table and the time-outs after deletions.
LEMMA Deleted ==
    ASSUME StaticInv, NEW keys \in SUBSET Keys, IsFiniteSet(keys), NEW late, NEW kept,
           DeleteMacs(keys, late, kept)
    PROVE  /\ mac' \in [Keys -> (SUBSET Ifs) \cup {None}] /\ unsure' \subseteq Keys
           /\ timeouts' \in 0 .. MaxTimeouts
           /\ (timeouts > 0 \/ late # {}) => timeouts' > 0
           /\ \A k \in Keys \ unsure' :
                 /\ k \in keys => mac'[k] = None
                 /\ k \notin keys => k \notin unsure /\ mac'[k] = mac[k]
<1>1. late \subseteq keys /\ kept \subseteq late
  BY DEF DeleteMacs
<1>2. Cardinality(late) \in Nat /\ (late # {} => Cardinality(late) > 0)
  BY <1>1, Late
<1>3. timeouts \in 0 .. MaxTimeouts /\ MaxTimeouts \in Nat
  BY NamesApart DEF StaticInv
<1>4. /\ timeouts' = timeouts + Cardinality(late)
      /\ timeouts + Cardinality(late) <= MaxTimeouts
      /\ mac' = [k \in Keys |-> IF k \in keys \ kept THEN None ELSE mac[k]]
      /\ unsure' = (unsure \ keys) \cup late
  BY DEF DeleteMacs
<1>5. mac \in [Keys -> (SUBSET Ifs) \cup {None}] /\ unsure \subseteq Keys
  BY DEF StaticInv
<1>6. timeouts' \in 0 .. MaxTimeouts /\ ((timeouts > 0 \/ late # {}) => timeouts' > 0)
  BY <1>2, <1>3, <1>4
<1>7. mac' \in [Keys -> (SUBSET Ifs) \cup {None}] /\ unsure' \subseteq Keys
  <2>1. \A k \in Keys : (IF k \in keys \ kept THEN None ELSE mac[k]) \in (SUBSET Ifs) \cup {None}
    BY <1>5
  <2>2. mac' \in [Keys -> (SUBSET Ifs) \cup {None}]
    BY <1>4, <2>1
  <2> QED
    BY <1>1, <1>4, <1>5, <2>2
<1>8. ASSUME NEW k \in Keys \ unsure'
      PROVE  /\ k \in keys => mac'[k] = None
             /\ k \notin keys => k \notin unsure /\ mac'[k] = mac[k]
  BY <1>1, <1>4
<1> QED
  BY <1>6, <1>7, <1>8

\* The list after some of its entries are gone.
LEMMA Destroyed ==
    ASSUME StaticInv, NEW keys \in SUBSET Keys, DestroyStatics(keys)
    PROVE  /\ statics' \in Seq(Keys) /\ Once(statics')
           /\ Range(statics') = Range(statics) \ keys
           /\ list' \in [Keys -> (SUBSET Ifs) \cup {None}]
           /\ \A k \in Keys : list'[k] = IF k \in keys THEN None ELSE list[k]
           /\ \A k \in Keys : list'[k] # None <=> k \in Range(statics')
           /\ curStatic' \in Range(statics') \cup {End, Null, Freed}
           /\ curStatic' \in {curStatic, Freed}
<1>1. statics \in Seq(Keys) /\ Once(statics)
  BY DEF StaticInv
<1>2. Range(statics) \subseteq Keys
  BY <1>1, RangeOf
<1>3. statics' = Only(statics, Keys \ keys)
  BY DEF DestroyStatics
<1>4. /\ Only(statics, Keys \ keys) \in Seq(Keys)
      /\ Range(Only(statics, Keys \ keys)) = Range(statics) \cap (Keys \ keys)
      /\ Once(statics) => Once(Only(statics, Keys \ keys))
  BY <1>1, OnlyIs
<1>5. statics' \in Seq(Keys) /\ Once(statics') /\ Range(statics') = Range(statics) \ keys
  BY <1>1, <1>2, <1>3, <1>4
<1>6. list' = [k \in Keys |-> IF k \in keys THEN None ELSE list[k]]
  BY DEF DestroyStatics
<1>7. list \in [Keys -> (SUBSET Ifs) \cup {None}] /\ \A k \in Keys : list[k] # None <=> k \in Range(statics)
  BY DEF StaticInv, IsStatic
<1>8. \A k \in Keys : list'[k] # None <=> k \in Range(statics')
  BY <1>5, <1>6, <1>7
<1>9. /\ curStatic' = IF curStatic \in keys THEN Freed ELSE curStatic
      /\ curStatic \in Range(statics) \cup {End, Null, Freed}
  BY DEF StaticInv, DestroyStatics
<1>10. /\ curStatic' \in Range(statics') \cup {End, Null, Freed}
       /\ curStatic' \in {curStatic, Freed}
  BY <1>5, <1>9
<1>11. list' \in [Keys -> (SUBSET Ifs) \cup {None}]
  <2>1. \A k \in Keys : (IF k \in keys THEN None ELSE list[k]) \in (SUBSET Ifs) \cup {None}
    BY <1>7
  <2> QED
    BY <1>6, <2>1
<1>12. \A k \in Keys : list'[k] = IF k \in keys THEN None ELSE list[k]
  BY <1>6
<1> QED
  BY <1>5, <1>8, <1>10, <1>11, <1>12

\* The deletion of some entries and of whatever is left of others: the MAC
\* table keeps up with the list.
LEMMA Forgotten ==
    ASSUME StaticInv, NEW all \in SUBSET Keys, NEW keys \in SUBSET all, IsFiniteSet(keys),
           all \cap Range(statics) \subseteq keys, NEW late, NEW kept,
           DestroyStatics(all), DeleteMacs(keys, late, kept),
           statCrit' = statCrit, mutex' \/ down' = "hang" => timeouts > 0 \/ late # {}
    PROVE  StaticInv'
<1>1. /\ statics' \in Seq(Keys) /\ Once(statics')
      /\ Range(statics') = Range(statics) \ all
      /\ list' \in [Keys -> (SUBSET Ifs) \cup {None}]
      /\ \A k \in Keys : list'[k] = IF k \in all THEN None ELSE list[k]
      /\ \A k \in Keys : list'[k] # None <=> k \in Range(statics')
      /\ curStatic' \in Range(statics') \cup {End, Null, Freed}
  BY Destroyed
<1>2. /\ mac' \in [Keys -> (SUBSET Ifs) \cup {None}] /\ unsure' \subseteq Keys
      /\ timeouts' \in 0 .. MaxTimeouts
      /\ (timeouts > 0 \/ late # {}) => timeouts' > 0
      /\ \A k \in Keys \ unsure' :
            /\ k \in keys => mac'[k] = None
            /\ k \notin keys => k \notin unsure /\ mac'[k] = mac[k]
  BY Deleted
<1>3. ASSUME NEW k \in Keys \ unsure'
      PROVE  mac'[k] = list'[k]
  <2>1. CASE k \in keys
    BY <1>1, <1>2, <2>1
  <2>2. CASE k \notin keys
    <3>1. mac'[k] = mac[k] /\ k \notin unsure /\ mac[k] = list[k]
      BY <1>2, <2>2 DEF StaticInv
    <3>2. k \in all => list[k] = None
      BY <2>2 DEF StaticInv, IsStatic
    <3> QED
      BY <1>1, <3>1, <3>2
  <2> QED
    BY <2>1, <2>2
<1>4. statCrit' \in Keys \cup {All}
  BY DEF StaticInv
<1>5. HangNeedsTimeout'
  BY <1>2 DEF HangNeedsTimeout
<1> QED
  BY <1>1, <1>2, <1>3, <1>4, <1>5 DEF StaticInv, IsStatic

\* A step that leaves the static entries alone.  (Whoever hangs finds the mutex
\* locked.)
Calm == /\ UNCHANGED <<statics, curStatic, statCrit, list, mac, unsure, timeouts, mutex>>
        /\ down' = down \/ down' \in {"endless", "null", "freed"} \/ mutex

LEMMA StaticCalm ==
    ASSUME StaticInv, Calm
    PROVE  StaticInv'
  BY DEF StaticInv, Calm, IsStatic, HangNeedsTimeout

LEMMA Stops ==
    /\ Hangs => Calm
    /\ \A why \in {"endless", "null", "freed"} : StopAs(why) => Calm
  BY DEF Hangs, StopAs, Calm, staticVars

LEMMA CalmSteps ==
    ASSUME \/ Register \/ RegisterAgain \/ Update \/ Deregister
           \/ QueryDomains \/ QueryDomainsCont \/ RtableLooksUp \/ FlushLearned
           \/ WriteOne \/ Link \/ Undo \/ SetUcast \/ SetMcast \/ UpdateSpins
           \/ AddIf \/ ReplaceIf \/ DropIf \/ SkipIf \/ IfsDone
           \/ RemoveIf \/ Destroy \/ Unlink
    PROVE  Calm
<1> USE DEF staticVars
<1>1. ASSUME Register \/ Update \/ Deregister \/ QueryDomains \/ QueryDomainsCont \/ RtableLooksUp
             \/ WriteOne \/ SkipIf \/ IfsDone
      PROVE  Calm
  BY <1>1 DEF Register, Update, Deregister, QueryDomains, QueryDomainsCont, RtableLooksUp, WriteOne,
              SkipIf, IfsDone, Calm
<1>2. ASSUME SetUcast \/ SetMcast \/ AddIf
      PROVE  Calm
  BY <1>2 DEF SetUcast, SetMcast, AddIf, UpdateEntry, Calm
<1>3. ASSUME ReplaceIf \/ DropIf \/ RemoveIf
      PROVE  Calm
  BY <1>3 DEF ReplaceIf, DropIf, RemoveIf, DelIf, UpdateEntry, Calm
<1>4. ASSUME RegisterAgain \/ Link \/ Undo \/ Unlink \/ FlushLearned \/ UpdateSpins
      PROVE  Calm
  BY <1>4, Stops DEF RegisterAgain, Link, Undo, Unlink, FlushLearned, UpdateSpins, Calm
<1>5. ASSUME Destroy
      PROVE  Calm
  BY <1>5 DEF Destroy, Calm
<1> QED
  BY <1>1, <1>2, <1>3, <1>4, <1>5

\* What the search from the head of the list leaves behind.
LEMMA CursorIn ==
    ASSUME StaticInv, NEW k
    PROVE  Sought(statics, k, curStatic) \in Range(statics) \cup {End, Null, Freed}
<1>1. statics \in Seq(Keys) /\ curStatic \in Range(statics) \cup {End, Null, Freed}
  BY DEF StaticInv
<1>2. /\ statics # <<>> => Sought(statics, k, curStatic) \in Range(statics) \cup {End}
      /\ statics = <<>> => Sought(statics, k, curStatic) = curStatic
  BY <1>1, SoughtIn
<1> QED
  BY <1>1, <1>2

LEMMA StaticRegisterStep ==
    ASSUME StaticInv, StaticRegister
    PROVE  StaticInv'
<1> SUFFICES ASSUME NEW k \in Keys, NEW a \in SUBSET Ifs, ~mutex,
                    curStatic' = Sought(statics, k, curStatic),
                    UNCHANGED <<mutex, down, statCrit>>,
                    \/ /\ ~IsStatic(k)
                       /\ MacCommand(k, a,
                             statics' = Append(statics, k) /\ list' = [list EXCEPT ![k] = a],
                             UNCHANGED <<statics, list>>)
                    \/ UNCHANGED <<statics, list, mac, unsure, timeouts>>
             PROVE  StaticInv'
  BY Stops, StaticCalm DEF StaticRegister
<1>1. /\ statics \in Seq(Keys) /\ Once(statics) /\ Range(statics) \subseteq Keys
      /\ list \in [Keys -> (SUBSET Ifs) \cup {None}] /\ mac \in [Keys -> (SUBSET Ifs) \cup {None}]
      /\ unsure \subseteq Keys /\ timeouts \in 0 .. MaxTimeouts /\ MaxTimeouts \in Nat
      /\ \A j \in Keys : list[j] # None <=> j \in Range(statics)
      /\ \A j \in Keys \ unsure : mac[j] = list[j]
      /\ statCrit' \in Keys \cup {All}
  BY RangeOf, NamesApart DEF StaticInv, IsStatic
<1>2. curStatic' \in Range(statics) \cup {End, Null, Freed}
  BY CursorIn
<1>3. a # None
  BY NamesApart
<1>4. CASE UNCHANGED <<statics, list, mac, unsure, timeouts>>
  <2>1. HangNeedsTimeout'
    BY <1>4 DEF StaticInv, HangNeedsTimeout
  <2> QED
    BY <1>1, <1>2, <1>4, <2>1 DEF StaticInv, IsStatic
<1>5. CASE /\ ~IsStatic(k) /\ statics' = Append(statics, k)
           /\ mac' = [mac EXCEPT ![k] = a] /\ unsure' = unsure \ {k}
           /\ list' = [list EXCEPT ![k] = a] /\ UNCHANGED timeouts
  <2>1. statics' \in Seq(Keys) /\ Range(statics') = Range(statics) \cup {k} /\ Once(statics')
    BY <1>1, <1>5, RangeOfAppend, OnceAppend DEF IsStatic
  <2>2. \A j \in Keys : list'[j] # None <=> j \in Range(statics')
    BY <1>1, <1>3, <1>5, <2>1
  <2>3. \A j \in Keys \ unsure' : mac'[j] = list'[j]
    BY <1>1, <1>5
  <2>4. /\ list' \in [Keys -> (SUBSET Ifs) \cup {None}] /\ mac' \in [Keys -> (SUBSET Ifs) \cup {None}]
        /\ unsure' \subseteq Keys
    BY <1>1, <1>5
  <2>5. HangNeedsTimeout'
    BY <1>5 DEF StaticInv, HangNeedsTimeout
  <2> QED
    BY <1>1, <1>2, <1>5, <2>1, <2>2, <2>3, <2>4, <2>5 DEF StaticInv, IsStatic
<1>6. CASE /\ UNCHANGED <<statics, list>>
           /\ timeouts < MaxTimeouts /\ timeouts' = timeouts + 1 /\ unsure' = unsure \cup {k}
           /\ mac' \in {mac, [mac EXCEPT ![k] = a]}
  <2>1. \A j \in Keys \ unsure' : mac'[j] = list'[j]
    BY <1>1, <1>6
  <2>2. /\ mac' \in [Keys -> (SUBSET Ifs) \cup {None}] /\ unsure' \subseteq Keys
        /\ timeouts' \in 0 .. MaxTimeouts /\ timeouts' > 0
    BY <1>1, <1>6
  <2>3. HangNeedsTimeout'
    BY <2>2 DEF HangNeedsTimeout
  <2> QED
    BY <1>1, <1>2, <1>6, <2>1, <2>2, <2>3 DEF StaticInv, IsStatic
<1> QED
  BY <1>4, <1>5, <1>6 DEF MacCommand

LEMMA StaticUpdateStep ==
    ASSUME StaticInv, StaticUpdate
    PROVE  StaticInv'
<1> SUFFICES ASSUME NEW k \in Keys, NEW a \in SUBSET Ifs, ~mutex, LookUpStatic(k),
                    UNCHANGED <<mutex, down, statics>>,
                    \/ /\ IsStatic(k)
                       /\ \/ list' = [list EXCEPT ![k] = a] /\ UNCHANGED timeouts
                          \/ /\ timeouts < MaxTimeouts /\ timeouts' = timeouts + 1
                             /\ list' \in {list, [list EXCEPT ![k] = a]}
                       /\ mac' = [mac EXCEPT ![k] = list'[k]] /\ unsure' = unsure \ {k}
                    \/ UNCHANGED <<list, mac, unsure, timeouts>>
             PROVE  StaticInv'
  BY Stops, StaticCalm DEF StaticUpdate
<1>1. /\ statics \in Seq(Keys) /\ Once(statics) /\ Range(statics) \subseteq Keys
      /\ list \in [Keys -> (SUBSET Ifs) \cup {None}] /\ mac \in [Keys -> (SUBSET Ifs) \cup {None}]
      /\ unsure \subseteq Keys /\ timeouts \in 0 .. MaxTimeouts /\ MaxTimeouts \in Nat
      /\ \A j \in Keys : list[j] # None <=> j \in Range(statics)
      /\ \A j \in Keys \ unsure : mac[j] = list[j]
  BY RangeOf, NamesApart DEF StaticInv, IsStatic
<1>2. curStatic' \in Range(statics) \cup {End, Null, Freed} /\ statCrit' \in Keys \cup {All}
  BY CursorIn DEF LookUpStatic
<1>3. a # None
  BY NamesApart
<1>4. CASE UNCHANGED <<list, mac, unsure, timeouts>>
  <2>1. HangNeedsTimeout'
    BY <1>4 DEF StaticInv, HangNeedsTimeout
  <2> QED
    BY <1>1, <1>2, <1>4, <2>1 DEF StaticInv, IsStatic
<1>5. CASE /\ k \in Range(statics) /\ list' \in {list, [list EXCEPT ![k] = a]}
           /\ timeouts' \in 0 .. MaxTimeouts /\ timeouts' >= timeouts
           /\ mac' = [mac EXCEPT ![k] = list'[k]] /\ unsure' = unsure \ {k}
  <2>1. list' \in [Keys -> (SUBSET Ifs) \cup {None}] /\ \A j \in Keys : j # k => list'[j] = list[j]
    BY <1>1, <1>5
  <2>2. list'[k] \in {list[k], a}
    BY <1>1, <1>5
  <2>3. /\ mac' \in [Keys -> (SUBSET Ifs) \cup {None}] /\ mac'[k] = list'[k]
        /\ \A j \in Keys : j # k => mac'[j] = mac[j]
    BY <1>1, <1>5, <2>1
  <2>4. \A j \in Keys : list'[j] # None <=> j \in Range(statics)
    BY <1>1, <1>3, <1>5, <2>1, <2>2
  <2>5. \A j \in Keys \ unsure' : mac'[j] = list'[j]
    BY <1>1, <1>5, <2>1, <2>3
  <2>6. HangNeedsTimeout'
    BY <1>1, <1>5 DEF StaticInv, HangNeedsTimeout
  <2> QED
    BY <1>1, <1>2, <1>5, <2>1, <2>3, <2>4, <2>5, <2>6 DEF StaticInv, IsStatic
<1> QED
  BY <1>1, <1>4, <1>5 DEF IsStatic

LEMMA StaticDeregisterStep ==
    ASSUME StaticInv, StaticDeregister
    PROVE  StaticInv'
<1> SUFFICES ASSUME NEW k \in Keys, ~mutex, LookUpStatic(k), UNCHANGED <<mutex, down>>,
                    IF IsStatic(k)
                    THEN /\ \E late \in SUBSET {k}, kept \in SUBSET {k} : DeleteMacs({k}, late, kept)
                         /\ statics' = Only(statics, Keys \ {k})
                         /\ list' = [list EXCEPT ![k] = None]
                    ELSE UNCHANGED <<statics, list, mac, unsure, timeouts>>
             PROVE  StaticInv'
  BY Stops, StaticCalm DEF StaticDeregister
<1>1. /\ statics \in Seq(Keys) /\ Once(statics) /\ Range(statics) \subseteq Keys
      /\ list \in [Keys -> (SUBSET Ifs) \cup {None}]
      /\ \A j \in Keys : list[j] # None <=> j \in Range(statics)
      /\ \A j \in Keys \ unsure : mac[j] = list[j]
  BY RangeOf DEF StaticInv, IsStatic
<1>2. statCrit' \in Keys \cup {All} /\ curStatic' = Sought(statics, k, curStatic)
  BY DEF LookUpStatic
<1>3. CASE ~IsStatic(k)
  <2>1. curStatic' \in Range(statics) \cup {End, Null, Freed}
    BY <1>2, CursorIn
  <2>2. HangNeedsTimeout'
    BY <1>3 DEF StaticInv, HangNeedsTimeout
  <2> QED
    BY <1>2, <1>3, <2>1, <2>2 DEF StaticInv, IsStatic
<1>4. CASE IsStatic(k)
  <2>1. PICK late, kept : DeleteMacs({k}, late, kept)
    BY <1>4
  <2>2. IsFiniteSet({k})
    BY FS_Singleton
  <2>3. /\ mac' \in [Keys -> (SUBSET Ifs) \cup {None}] /\ unsure' \subseteq Keys
        /\ timeouts' \in 0 .. MaxTimeouts
        /\ (timeouts > 0 \/ late # {}) => timeouts' > 0
        /\ \A j \in Keys \ unsure' :
              /\ j \in {k} => mac'[j] = None
              /\ j \notin {k} => j \notin unsure /\ mac'[j] = mac[j]
    BY <2>1, <2>2, Deleted
  <2>4. statics' = Only(statics, Keys \ {k}) /\ list' = [list EXCEPT ![k] = None]
    BY <1>4
  <2>5. /\ statics' \in Seq(Keys) /\ Once(statics')
        /\ Range(statics') = Range(statics) \cap (Keys \ {k})
    BY <1>1, <2>4, OnlyIs
  <2>6. list' \in [Keys -> (SUBSET Ifs) \cup {None}] /\ \A j \in Keys : list'[j] = IF j = k THEN None ELSE list[j]
    BY <1>1, <2>4
  <2>7. \A j \in Keys : list'[j] # None <=> j \in Range(statics')
    BY <1>1, <2>5, <2>6
  <2>8. \A j \in Keys \ unsure' : mac'[j] = list'[j]
    BY <1>1, <2>3, <2>6
  <2>9. k \in Range(statics) /\ k # End
    BY <1>4, NamesApart DEF IsStatic
  <2>10. curStatic' = After(statics, k)
    <3>1. statics # <<>>
      BY <2>9 DEF Range
    <3> QED
      BY <1>2, <2>9, <3>1 DEF Sought
  <2>11. curStatic' \in Range(statics) \cup {End} /\ curStatic' # k
    BY <1>1, <2>9, <2>10, AfterIn
  <2>12. curStatic' \in Range(statics') \cup {End, Null, Freed}
    BY <1>1, <2>5, <2>11
  <2>13. HangNeedsTimeout'
    BY <2>3 DEF StaticInv, HangNeedsTimeout
  <2> QED
    BY <1>2, <2>3, <2>5, <2>6, <2>7, <2>8, <2>12, <2>13 DEF StaticInv, IsStatic
<1> QED
  BY <1>3, <1>4

LEMMA FlushIfStep ==
    ASSUME StaticInv, FlushIf
    PROVE  StaticInv'
<1> DEFINE S == {k \in Range(statics) : KeyVlan[k] = cmd.vlan /\ NextIf \in list[k]}
           victims == Only(statics, S)
<1>1. statics \in Seq(Keys) /\ Range(statics) \subseteq Keys
  BY RangeOf DEF StaticInv
<1>2. victims \in Seq(Keys) /\ Range(victims) \subseteq Keys /\ IsFiniteSet(Range(victims))
  BY <1>1, OnlyIs, RangeOf, RangeFinite
<1> SUFFICES ASSUME NEW late, NEW kept, ~mutex,
                    DeleteMacs(Range(victims), late, kept),
                    mutex' = LeavesLocked(victims, late),
                    DestroyStatics(Range(victims)), UNCHANGED <<down, statCrit>>
             PROVE  StaticInv'
  BY Stops, StaticCalm DEF FlushIf
<1> HIDE DEF S
<1>3. mutex' => late # {}
  BY DEF LeavesLocked
<1>4. mutex' \/ down' = "hang" => timeouts > 0 \/ late # {}
  BY <1>3 DEF StaticInv, HangNeedsTimeout
<1> HIDE DEF victims
<1> DEFINE keys == Range(victims)
<1>5. /\ keys \in SUBSET Keys /\ IsFiniteSet(keys) /\ keys \cap Range(statics) \subseteq keys
      /\ DestroyStatics(keys) /\ DeleteMacs(keys, late, kept)
  BY <1>2
<1> HIDE DEF keys
<1>6. statCrit' = statCrit /\ keys \in SUBSET keys
  OBVIOUS
<1> QED
  BY <1>4, <1>5, <1>6, Forgotten

LEMMA FlushStaticStep ==
    ASSUME StaticInv, FlushStatic
    PROVE  StaticInv'
<1>1. statics \in Seq(Keys) /\ Range(statics) \in SUBSET Keys /\ IsFiniteSet(Range(statics))
  BY RangeOf, RangeFinite DEF StaticInv
<1> SUFFICES ASSUME NEW late, NEW kept, DeleteMacs(Range(statics), late, kept),
                    DestroyStatics(Keys), UNCHANGED <<mutex, down, statCrit>>
             PROVE  StaticInv'
  BY Stops, StaticCalm DEF FlushStatic
<1>2. mutex' \/ down' = "hang" => timeouts > 0 \/ late # {}
  BY DEF StaticInv, HangNeedsTimeout
<1>3. Keys \in SUBSET Keys /\ Keys \cap Range(statics) \subseteq Range(statics) /\ statCrit' = statCrit
  OBVIOUS
<1> QED
  BY <1>1, <1>2, <1>3, Forgotten

LEMMA FlushAllStep ==
    ASSUME StaticInv, FlushAll
    PROVE  StaticInv'
<1>1. statics \in Seq(Keys) /\ Range(statics) \in SUBSET Keys /\ IsFiniteSet(Range(statics))
  BY RangeOf, RangeFinite DEF StaticInv
<1> SUFFICES ASSUME DestroyStatics(Keys), UNCHANGED <<mutex, down, statCrit>>,
                    NEW late \in SUBSET Range(statics),
                    \/ /\ timeouts + Cardinality(late) <= MaxTimeouts
                       /\ timeouts' = timeouts + Cardinality(late)
                       /\ mac' = [k \in Keys |-> None] /\ unsure' = {}
                    \/ \E kept \in SUBSET Range(statics) :
                         /\ kept \subseteq late
                         /\ timeouts + Cardinality(late) < MaxTimeouts
                         /\ timeouts' = timeouts + Cardinality(late) + 1
                         /\ unsure' = unsure \cup late
                         /\ mac' = [k \in Keys |-> IF IsStatic(k) /\ k \notin kept THEN None ELSE mac[k]]
             PROVE  StaticInv'
  BY Stops, StaticCalm DEF FlushAll
<1>2. Cardinality(late) \in Nat
  BY <1>1, Late
<1>3. /\ statics' \in Seq(Keys) /\ Once(statics')
      /\ Range(statics') = Range(statics) \ Keys
      /\ list' \in [Keys -> (SUBSET Ifs) \cup {None}]
      /\ \A k \in Keys : list'[k] = IF k \in Keys THEN None ELSE list[k]
      /\ \A k \in Keys : list'[k] # None <=> k \in Range(statics')
      /\ curStatic' \in Range(statics') \cup {End, Null, Freed}
  <2>1. Keys \in SUBSET Keys
    OBVIOUS
  <2> QED
    BY <2>1, Destroyed
<1>4. /\ mac \in [Keys -> (SUBSET Ifs) \cup {None}] /\ unsure \subseteq Keys
      /\ timeouts \in 0 .. MaxTimeouts /\ MaxTimeouts \in Nat
      /\ \A k \in Keys : list[k] # None <=> k \in Range(statics)
      /\ \A k \in Keys \ unsure : mac[k] = list[k]
      /\ statCrit' \in Keys \cup {All}
  BY NamesApart DEF StaticInv, IsStatic
<1>5. CASE /\ timeouts + Cardinality(late) <= MaxTimeouts
           /\ timeouts' = timeouts + Cardinality(late)
           /\ mac' = [k \in Keys |-> None] /\ unsure' = {}
  <2>1. timeouts' \in 0 .. MaxTimeouts /\ timeouts' >= timeouts
    BY <1>2, <1>4, <1>5
  <2>2. mac' \in [Keys -> (SUBSET Ifs) \cup {None}] /\ \A k \in Keys : mac'[k] = list'[k]
    BY <1>3, <1>5
  <2>3. HangNeedsTimeout'
    BY <1>4, <2>1 DEF StaticInv, HangNeedsTimeout
  <2> QED
    BY <1>3, <1>4, <1>5, <2>1, <2>2, <2>3 DEF StaticInv, IsStatic
<1>6. ASSUME NEW kept, kept \subseteq late,
             timeouts + Cardinality(late) < MaxTimeouts,
             timeouts' = timeouts + Cardinality(late) + 1,
             unsure' = unsure \cup late,
             mac' = [k \in Keys |-> IF IsStatic(k) /\ k \notin kept THEN None ELSE mac[k]]
      PROVE  StaticInv'
  <2>1. timeouts' \in 0 .. MaxTimeouts /\ timeouts' > 0
    BY <1>2, <1>4, <1>6
  <2>2. mac' \in [Keys -> (SUBSET Ifs) \cup {None}]
    <3>1. \A k \in Keys : (IF IsStatic(k) /\ k \notin kept THEN None ELSE mac[k]) \in (SUBSET Ifs) \cup {None}
      BY <1>4
    <3> QED
      BY <1>6, <3>1
  <2>3. ASSUME NEW k \in Keys \ unsure'
        PROVE  mac'[k] = list'[k]
    <3>1. k \notin unsure /\ k \notin kept
      BY <1>6, <2>3
    <3> QED
      BY <1>3, <1>4, <1>6, <3>1 DEF IsStatic
  <2>4. unsure' \subseteq Keys
    BY <1>1, <1>4, <1>6
  <2>5. HangNeedsTimeout'
    BY <2>1 DEF HangNeedsTimeout
  <2> QED
    BY <1>3, <1>4, <2>1, <2>2, <2>3, <2>4, <2>5 DEF StaticInv, IsStatic
<1> QED
  BY <1>5, <1>6

LEMMA ListingStep ==
    ASSUME StaticInv, QueryStatics \/ QueryStaticsCont
    PROVE  StaticInv'
<1>1. statics \in Seq(Keys)
  BY DEF StaticInv
<1>2. ASSUME curStatic' \in Range(statics) \cup {End, Null, Freed}, statCrit' \in Keys \cup {All},
             UNCHANGED <<statics, list, mac, unsure, timeouts, mutex, down>>
      PROVE  StaticInv'
  BY <1>2 DEF StaticInv, IsStatic, HangNeedsTimeout
<1>3. CASE QueryStatics
  <2>1. ASSUME statics # <<>>
        PROVE  After(statics, Head(statics)) \in Range(statics) \cup {End}
    <3>1. 1 \in 1 .. Len(statics) /\ Head(statics) = statics[1]
      BY <1>1, <2>1
    <3>2. Head(statics) \in Range(statics)
      BY <1>1, <3>1, RangeOf
    <3> QED
      BY <1>1, <3>2, AfterIn
  <2> QED
    BY <1>2, <1>3, <2>1, Stops, StaticCalm DEF QueryStatics, StaticInv
<1>4. CASE QueryStaticsCont
  <2>1. Onward(statics, curStatic, statCrit) \in Range(statics) \cup {End}
    BY <1>1, OnwardIn
  <2>2. statCrit \in Keys \cup {All}
    BY DEF StaticInv
  <2>3. /\ StopAs("null") => StaticInv'
        /\ StopAs("freed") => StaticInv'
        /\ Hangs => StaticInv'
    BY Stops, StaticCalm
  <2> QED
    BY <1>2, <1>4, <2>1, <2>2, <2>3 DEF QueryStaticsCont
<1> QED
  BY <1>3, <1>4

\* The static entries stay as they have to be, whatever the step.
LEMMA StaticStep ==
    ASSUME StaticInv, [Next]_vars
    PROVE  StaticInv'
<1>1. CASE UNCHANGED vars
  BY <1>1, StaticCalm DEF vars, Calm
<1>2. CASE Commands
  BY <1>2, CalmSteps, StaticCalm, StaticRegisterStep, StaticUpdateStep, StaticDeregisterStep,
     ListingStep, FlushStaticStep, FlushAllStep DEF Commands
<1>3. CASE Steps
  BY <1>3, CalmSteps, StaticCalm, FlushIfStep DEF Steps
<1> QED
  BY <1>1, <1>2, <1>3 DEF Next

-----------------------------------------------------------------------------
(* The domains and the commands that work on them *)

Pcs == {"idle", "link", "undo", "ucast", "mcast", "ifs", "flush", "remove", "unlink"}
Downs == {None, "endless", "hang", "null", "freed"}
Cmds == [kind : {"register", "update", "deregister"}, vlan : Vlans, want : SUBSET Ifs]
Writes == Seq([slot : Slots, entry : Entry])

\* The types of what is not about static entries
DomTypes ==
    /\ table \in Tables /\ todo \in Writes /\ broken \in BOOLEAN
    /\ pc \in Pcs /\ (cmd = NoCmd \/ cmd \in Cmds) /\ rest \subseteq Ifs
    /\ domains \in Seq(Vlans) /\ domCrit \in Vlans \cup {All}
    /\ fwd \in [Vlans -> SUBSET Ifs] /\ ifaces \in [Vlans -> SUBSET Ifs]
    /\ mutex \in BOOLEAN /\ down \in Downs

LEMMA TypesAre ==
    /\ TypeOK => DomTypes
    /\ DomTypes /\ StaticInv => TypeOK
<1>1. TypeOK => DomTypes
  BY DEF TypeOK, DomTypes, Tables, Writes, Pcs, Cmds, Downs
<1>2. ASSUME DomTypes, StaticInv
      PROVE  TypeOK
  <2>1. Range(statics) \subseteq Keys
    BY <1>2, RangeOf DEF StaticInv
  <2> QED
    BY <1>2, <2>1 DEF StaticInv, TypeOK, DomTypes, Tables, Writes, Pcs, Cmds, Downs
<1> QED
  BY <1>1, <1>2

Typed == DomTypes /\ CmdInv

\* The command under way is of some VLAN.
LEMMA CmdIs ==
    ASSUME Typed, pc # "idle"
    PROVE  cmd \in Cmds /\ cmd.vlan \in Vlans /\ cmd.want \subseteq Ifs
<1>1. cmd \in Cmds
  BY DEF Typed, DomTypes, CmdInv
<1> QED
  BY <1>1 DEF Cmds

LEMMA CmdsAre ==
    /\ \A kind \in {"register", "update", "deregister"}, v \in Vlans, want \in SUBSET Ifs :
          LET c == [kind |-> kind, vlan |-> v, want |-> want]
          IN  c \in Cmds /\ c # NoCmd /\ c.kind = kind /\ c.vlan = v
    /\ NoCmd \notin Cmds
  BY NamesApart DEF NoCmd, Cmds

LEMMA NextIfIs ==
    ASSUME rest \subseteq Ifs, rest # {}
    PROVE  NextIf \in rest
<1>1. rest \in SUBSET Nat
  BY TableAssumption
<1>2. Min(rest) \in rest /\ \A y \in rest : Min(rest) =< y
  BY <1>1, Least
<1> QED
  BY <1>2 DEF NextIf

\* A step that leaves the domains and the command alone
Quiet == /\ UNCHANGED <<table, todo, pc, cmd, rest, domains, curDomain, domCrit, fwd, ifaces, broken>>
         /\ mutex' \in BOOLEAN /\ down' \in Downs

LEMMA TypedQuiet ==
    ASSUME Typed, Quiet
    PROVE  Typed'
  BY DEF Typed, DomTypes, CmdInv, Quiet, Once

LEMMA StopsQuietly ==
    ASSUME Typed, NEW why \in {"endless", "hang", "null", "freed"}, StopAs(why)
    PROVE  Quiet
  BY DEF StopAs, Quiet, Typed, DomTypes, tableVars, domainVars, Downs

LEMMA HangsQuietly ==
    ASSUME Typed, Hangs
    PROVE  Quiet
  BY StopsQuietly DEF Hangs

LEMMA QuietSteps ==
    ASSUME Typed,
           \/ StaticRegister \/ StaticUpdate \/ StaticDeregister \/ QueryStatics \/ QueryStaticsCont
           \/ FlushStatic \/ FlushAll \/ FlushLearned \/ UpdateSpins
    PROVE  Quiet
<1>1. UNCHANGED <<pc, cmd, rest, mutex, down, tableVars, domainVars>> => Quiet
  BY DEF Quiet, tableVars, domainVars, Typed, DomTypes
<1>2. ASSUME StaticRegister \/ StaticUpdate \/ StaticDeregister
      PROVE  Quiet
  BY <1>1, <1>2, HangsQuietly DEF StaticRegister, StaticUpdate, StaticDeregister
<1>3. ASSUME QueryStatics \/ QueryStaticsCont \/ UpdateSpins
      PROVE  Quiet
  BY <1>1, <1>3, HangsQuietly, StopsQuietly DEF QueryStatics, QueryStaticsCont, UpdateSpins
<1>4. ASSUME FlushStatic \/ FlushAll \/ FlushLearned
      PROVE  Quiet
  BY <1>1, <1>4, HangsQuietly DEF FlushStatic, FlushAll, FlushLearned
<1> QED
  BY <1>2, <1>3, <1>4

\* Look-ups and listings of domains
LEMMA LookedUp ==
    ASSUME Typed, NEW v
    PROVE  Sought(domains, v, curDomain) \in Range(domains) \cup {End}
<1>1. domains \in Seq(Vlans) /\ domains # <<>> 
  BY DEF Typed, DomTypes, CmdInv, Range
<1> QED
  BY <1>1, SoughtIn

LEMMA CursorSteps ==
    ASSUME Typed, RegisterAgain \/ QueryDomains \/ QueryDomainsCont \/ RtableLooksUp
    PROVE  Typed'
<1>1. ASSUME curDomain' \in Range(domains) \cup {End}, domCrit' \in Vlans \cup {All},
             UNCHANGED <<pc, cmd, rest, mutex, down, domains, fwd, ifaces, tableVars>>
      PROVE  Typed'
  BY <1>1 DEF Typed, DomTypes, CmdInv, tableVars, Once
<1>2. domains \in Seq(Vlans) /\ domCrit \in Vlans \cup {All}
  BY DEF Typed, DomTypes
<1>3. \A v : Sought(domains, v, curDomain) \in Range(domains) \cup {End}
  BY LookedUp
<1>4. CASE RegisterAgain
  BY <1>1, <1>3, <1>4, VlansAre, HangsQuietly, TypedQuiet DEF RegisterAgain, LookUpDomain
<1>5. CASE RtableLooksUp
  BY <1>1, <1>3, <1>5, VlansAre DEF RtableLooksUp, LookUpDomain
<1>6. CASE QueryDomains
  <2>1. 1 \in 1 .. Len(domains) /\ Head(domains) = domains[1]
    <3>1. domains # <<>>
      BY DEF Typed, CmdInv, Range
    <3> QED
      BY <1>2, <3>1
  <2>2. Head(domains) \in Range(domains)
    BY <1>2, <2>1, RangeOf
  <2>3. After(domains, Head(domains)) \in Range(domains) \cup {End}
    BY <1>2, <2>2, AfterIn
  <2> QED
    BY <1>1, <1>6, <2>3 DEF QueryDomains
<1>7. CASE QueryDomainsCont
  <2>1. Onward(domains, curDomain, domCrit) \in Range(domains) \cup {End}
    BY <1>2, OnwardIn
  <2> QED
    BY <1>1, <1>2, <1>7, <2>1 DEF QueryDomainsCont
<1> QED
  BY <1>4, <1>5, <1>6, <1>7

\* The writes of the three operations on the table are writes of entries.
LEMMA WriteIs ==
    ASSUME NEW p \in Slots, NEW e \in Entry
    PROVE  /\ Write(p, e) \in Writes /\ Write(p, e) # <<>>
           /\ Len(Write(p, e)) = 1 /\ Head(Write(p, e)) = [slot |-> p, entry |-> e]
           /\ Tail(Write(p, e)) = <<>>
  BY DEF Write, Writes

LEMMA WritesAre ==
    ASSUME NEW p \in Slots, NEW e \in Entry, NEW q \in Slots, NEW f \in Entry
    PROVE  LET both == Write(p, e) \o Write(q, f)
           IN  /\ both \in Writes /\ both # <<>>
               /\ Head(both) = [slot |-> p, entry |-> e] /\ Tail(both) = Write(q, f)
<1> DEFINE both == Write(p, e) \o Write(q, f)
<1>1. Write(p, e) \in Writes /\ Write(q, f) \in Writes
  BY WriteIs
<1>2. both \in Writes /\ Len(both) = 2
  BY <1>1 DEF Writes, Write
<1>3. both[1] = [slot |-> p, entry |-> e] /\ both[2] = [slot |-> q, entry |-> f]
  BY DEF Write
<1>4. both # <<>> /\ Head(both) = both[1]
  BY <1>2 DEF Writes
<1>5. Tail(both) = Write(q, f)
  <2> DEFINE S == [slot : Slots, entry : Entry]
  <2>1. both \in Seq(S) /\ Write(q, f) \in Seq(S) /\ Len(Write(q, f)) = 1
    BY <1>1, <1>2 DEF Writes, Write
  <2>2. Write(q, f)[1] = [slot |-> q, entry |-> f]
    BY DEF Write
  <2> HIDE DEF both, S
  <2>3. Tail(both) \in Seq(S) /\ Len(Tail(both)) = 1 /\ Tail(both)[1] = both[2]
    <3>1. /\ Tail(both) \in Seq(S) /\ Len(Tail(both)) = Len(both) - 1
          /\ \A i \in 1 .. Len(Tail(both)) : Tail(both)[i] = both[i + 1]
      BY <1>4, <2>1, HeadTailProperties
    <3>2. 1 \in 1 .. Len(Tail(both)) /\ 1 + 1 = 2
      BY <1>2, <3>1
    <3> QED
      BY <1>2, <3>1, <3>2
  <2>4. \A i \in 1 .. Len(Tail(both)) : Tail(both)[i] = Write(q, f)[i]
    BY <1>3, <2>2, <2>3 DEF both
  <2> QED
    BY <2>1, <2>3, <2>4, SeqEqual
<1> QED
  BY <1>2, <1>3, <1>4, <1>5

LEMMA SlotsOfWalk ==
    ASSUME NEW t \in Tables, NEW v \in Vlans
    PROVE  /\ Place(t, v) \in Nat
           /\ \A i \in 1 .. Place(t, v) : Walk(t, v)[i] \in Slots
           /\ Last(Walk(t, v)) \in Slots
           /\ Place(t, v) = 1 => Walk(t, v)[1] = Hash(v)
<1>1. t \in [Slots -> Entry]
  BY DEF Tables
<1>2. IsWalk(t, v, Walk(t, v))
  BY <1>1, WalkIs
<1>3. Place(t, v) \in 0 .. Len(Walk(t, v))
  BY <1>1, PlaceIs
<1>4. Walk(t, v) \in Seq(Slots) /\ Len(Walk(t, v)) \in 1 .. Size + 1 /\ Walk(t, v)[1] = Hash(v)
  BY <1>2 DEF IsWalk
<1>5. Last(Walk(t, v)) = Walk(t, v)[Len(Walk(t, v))]
  BY DEF Last
<1>6. Len(Walk(t, v)) \in Nat /\ Len(Walk(t, v)) >= 1
  BY <1>4, Sizes
<1> QED
  BY <1>3, <1>4, <1>5, <1>6

LEMMA UpdateWritesAre ==
    ASSUME NEW t \in Tables, NEW v \in Vlans, NEW a \in SUBSET Ifs, Place(t, v) # 0
    PROVE  UpdateWrites(t, v, a) \in Writes
<1> DEFINE p == Walk(t, v)[Place(t, v)]
<1>1. p \in Slots
  BY SlotsOfWalk
<1>2. t[p] \in Entry
  BY <1>1 DEF Tables
<1>3. [t[p] EXCEPT !.act = a, !.valid = TRUE] \in Entry
  BY <1>2 DEF Entry
<1>4. New(v, a) \in Entry
  BY EntriesAre
<1>5. UpdateWrites(t, v, a) = IF Place(t, v) = 1 THEN Write(p, [t[p] EXCEPT !.act = a, !.valid = TRUE])
                              ELSE Write(p, New(v, a))
  BY DEF UpdateWrites
<1> HIDE DEF p
<1> QED
  BY <1>1, <1>3, <1>4, <1>5, WriteIs

LEMMA FreeSlot ==
    ASSUME NEW t \in Tables, NEW v \in Vlans, FreeFrom(t, v) # {}
    PROVE  LET p == CHOOSE q \in FreeFrom(t, v) : \A r \in FreeFrom(t, v) : q <= r
           IN  /\ p \in Slots /\ p >= Last(Walk(t, v)) /\ p >= Coll /\ ~t[p].valid
<1> DEFINE I == FreeFrom(t, v)
<1>1. I \in SUBSET Nat
  BY Sizes DEF FreeFrom
<1>2. Min(I) \in I /\ \A y \in I : Min(I) =< y
  BY <1>1, Least
<1> HIDE DEF I
<1> DEFINE p == CHOOSE q \in I : \A r \in I : q <= r
<1>3. p \in I
  BY <1>2
<1> HIDE DEF p
<1>4. p \in Slots /\ p >= Last(Walk(t, v)) /\ p >= Coll /\ ~t[p].valid
  BY <1>3 DEF I, FreeFrom
<1> QED
  BY <1>4 DEF p, I

LEMMA AddWritesAre ==
    ASSUME NEW t \in Tables, NEW v \in Vlans, NEW a \in SUBSET Ifs, MayAdd(t, v)
    PROVE  AddWrites(t, v, a) \in Writes
<1> DEFINE last == Last(Walk(t, v))
           p == CHOOSE q \in FreeFrom(t, v) : \A r \in FreeFrom(t, v) : q <= r
<1>1. AddWrites(t, v, a) = IF ~t[Hash(v)].valid THEN Write(Hash(v), New(v, a))
                           ELSE Write(p, New(v, a)) \o Write(last, [t[last] EXCEPT !.col = p])
  BY DEF AddWrites
<1>2. Hash(v) \in Slots /\ New(v, a) \in Entry /\ last \in Slots
  BY HashIs, EntriesAre, SlotsOfWalk
<1>3. t[last] \in Entry
  BY <1>2 DEF Tables
<1>4. ASSUME t[Hash(v)].valid
      PROVE  p \in Slots
  <2>1. FreeFrom(t, v) # {}
    BY <1>4 DEF MayAdd
  <2> QED
    BY <2>1, FreeSlot
<1> HIDE DEF p, last
<1>5. ASSUME p \in Slots
      PROVE  Write(p, New(v, a)) \o Write(last, [t[last] EXCEPT !.col = p]) \in Writes
  <2>1. [t[last] EXCEPT !.col = p] \in Entry
    BY <1>3, <1>5, EntriesAre
  <2> QED
    BY <1>2, <1>5, <2>1, WritesAre
<1>6. Write(Hash(v), New(v, a)) \in Writes
  BY <1>2, WriteIs
<1> QED
  BY <1>1, <1>4, <1>5, <1>6

LEMMA DeleteWritesAre ==
    ASSUME NEW t \in Tables, NEW v \in Vlans
    PROVE  DeleteWrites(t, v) \in Writes
<1> DEFINE at == Place(t, v)
           p == Walk(t, v)[at]
           next == t[p].col
           prev == Walk(t, v)[at - 1]
<1>1. at \in Nat /\ (at # 0 => p \in Slots) /\ (at > 1 => prev \in Slots)
  BY SlotsOfWalk
<1>2. DeleteWrites(t, v) =
        CASE at = 0 -> <<>>
          [] at = 1 /\ next = 0 -> Write(p, Zero)
          [] at = 1 /\ next # 0 -> MoveToHead(t, p, next)
          [] at > 1 /\ next # 0 -> Write(prev, [t[prev] EXCEPT !.col = next]) \o Write(p, Zero)
          [] at > 1 /\ next = 0 -> Write(prev, [t[prev] EXCEPT !.valid = FALSE, !.col = 0])
                                     \o Write(p, Zero)
  BY DEF DeleteWrites
<1>3. at # 0 => t[p] \in Entry /\ next \in Slots
  BY <1>1, EntryFields DEF Tables
<1>4. at > 1 => t[prev] \in Entry
  BY <1>1 DEF Tables
<1>5. Zero \in Entry
  BY EntriesAre
<1> HIDE DEF at, p, next, prev
<1>6. CASE at = 0
  BY <1>2, <1>6 DEF Writes
<1>7. CASE at = 1 /\ next = 0
  BY <1>1, <1>2, <1>5, <1>7, WriteIs
<1>8. CASE at = 1 /\ next # 0
  <2>1. t[next] \in Entry
    BY <1>3, <1>8 DEF Tables
  <2>2. MoveToHead(t, p, next) \in Writes
    BY <1>1, <1>3, <1>5, <1>8, <2>1, WritesAre DEF MoveToHead
  <2> QED
    BY <1>2, <1>8, <2>2
<1>9. CASE at > 1 /\ next # 0
  <2>1. [t[prev] EXCEPT !.col = next] \in Entry
    BY <1>1, <1>3, <1>4, <1>9, EntriesAre
  <2>2. Write(prev, [t[prev] EXCEPT !.col = next]) \o Write(p, Zero) \in Writes
    BY <1>1, <1>5, <1>9, <2>1, WritesAre
  <2> QED
    BY <1>1, <1>2, <1>9, <2>2
<1>10. CASE at > 1 /\ next = 0
  <2>1. [t[prev] EXCEPT !.valid = FALSE, !.col = 0] \in Entry
    <3>1. 0 \in Slots
      BY <1>3, <1>10, Sizes
    <3> QED
      BY <1>4, <1>10, <3>1 DEF Entry
  <2>2. Write(prev, [t[prev] EXCEPT !.valid = FALSE, !.col = 0]) \o Write(p, Zero) \in Writes
    BY <1>1, <1>5, <1>10, <2>1, WritesAre
  <2> QED
    BY <1>1, <1>2, <1>10, <2>2
<1>11. at = 0 \/ at = 1 \/ at > 1
  BY <1>1
<1> QED
  BY <1>6, <1>7, <1>8, <1>9, <1>10, <1>11

\* What an update of the entry of the command's VLAN does to the table.
UpdatesEntry(a) ==
    /\ ~Spins(table, cmd.vlan)
    /\ \/ /\ MayUpdate(table, cmd.vlan)
          /\ Put(UpdateWrites(table, cmd.vlan, a), UpdateCuts(table, cmd.vlan))
       \/ ~MayUpdate(table, cmd.vlan) /\ UNCHANGED tableVars
    /\ UNCHANGED <<mutex, down>>

TableTypes == table \in Tables /\ todo \in Writes /\ broken \in BOOLEAN

LEMMA PutTyped ==
    ASSUME Typed, NEW w \in Writes, NEW cuts, Put(w, cuts)
    PROVE  TableTypes'
<1>1. table' \in Tables /\ todo' \in Writes
  BY DEF Put, Typed, DomTypes
<1>2. broken' = (broken \/ cuts)
  BY DEF Put
<1>3. broken' \in BOOLEAN
  BY <1>2, Zenon
<1> QED
  BY <1>1, <1>3 DEF TableTypes

LEMMA EntryUpdated ==
    ASSUME Typed, pc # "idle", NEW a \in SUBSET Ifs, UpdatesEntry(a)
    PROVE  TableTypes'
<1>1. table \in Tables /\ cmd.vlan \in Vlans
  BY CmdIs DEF Typed, DomTypes
<1>2. CASE /\ MayUpdate(table, cmd.vlan)
           /\ Put(UpdateWrites(table, cmd.vlan, a), UpdateCuts(table, cmd.vlan))
  <2>1. Place(table, cmd.vlan) # 0
    BY <1>1, <1>2, SlotsOfWalk DEF MayUpdate
  <2>2. UpdateWrites(table, cmd.vlan, a) \in Writes
    BY <1>1, <2>1, UpdateWritesAre
  <2> QED
    BY <1>2, <2>2, PutTyped
<1>3. CASE UNCHANGED tableVars
  BY <1>3 DEF tableVars, TableTypes, Typed, DomTypes
<1> QED
  BY <1>2, <1>3 DEF UpdatesEntry

\* The forward list and the interfaces of the VLAN of the command may change,
\* those of no other one.
OnlyThis == /\ fwd' \in [Vlans -> SUBSET Ifs] /\ ifaces' \in [Vlans -> SUBSET Ifs]
            /\ \A v \in Vlans : v # cmd.vlan => fwd'[v] = fwd[v] /\ ifaces'[v] = ifaces[v]

\* The command goes on with a domain that is in the list.
GoesOn == /\ cmd' = cmd /\ pc' \in {"ucast", "mcast", "ifs", "flush", "remove", "unlink"}
          /\ (pc' \in {"remove", "unlink"} => cmd.kind # "update")
          /\ rest' \subseteq Ifs /\ (pc' = "flush" => rest' # {})

IsOver == Finish /\ todo' = <<>>

LEMMA Proceeds ==
    ASSUME Typed, pc \notin {"idle", "link", "undo"}, TableTypes', OnlyThis,
           UNCHANGED <<domains, curDomain, domCrit>>, mutex' \in BOOLEAN, down' \in Downs,
           GoesOn \/ IsOver
    PROVE  Typed'
<1>1. cmd \in Cmds /\ cmd.vlan \in Range(domains)
  BY CmdIs DEF Typed, CmdInv
<1>2. \A v \in Vlans \ Range(domains') : fwd'[v] = {} /\ ifaces'[v] = {}
  BY <1>1 DEF Typed, CmdInv, OnlyThis
<1>3. /\ domains' \in Seq(Vlans) /\ domCrit' \in Vlans \cup {All}
      /\ {Default, Fallback} \subseteq Range(domains')
      /\ Once(domains') /\ curDomain' \in Range(domains') \cup {End}
  BY DEF Typed, DomTypes, CmdInv
<1>4. fwd' \in [Vlans -> SUBSET Ifs] /\ ifaces' \in [Vlans -> SUBSET Ifs]
  BY DEF OnlyThis
<1>5. CASE GoesOn
  <2>1. cmd' \in Cmds /\ cmd' # NoCmd /\ pc' \in Pcs /\ rest' \subseteq Ifs
    BY <1>1, <1>5, CmdsAre DEF GoesOn, Pcs
  <2>2. /\ pc' \notin {"idle", "link", "undo"} /\ cmd'.vlan \in Range(domains')
        /\ (cmd'.kind # "update" => cmd'.vlan \in Users)
        /\ (pc' \in {"remove", "unlink"} => cmd'.kind # "update")
        /\ (pc' = "flush" => rest' # {})
    BY <1>1, <1>5, CmdsAre DEF GoesOn, Typed, CmdInv
  <2>3. DomTypes'
    BY <1>3, <1>4, <2>1 DEF DomTypes, TableTypes
  <2>4. CmdInv'
    BY <1>2, <1>3, <2>1, <2>2 DEF CmdInv
  <2> QED
    BY <2>3, <2>4 DEF Typed
<1>6. CASE IsOver
  <2>1. cmd' = NoCmd /\ pc' = "idle" /\ rest' = {} /\ todo' = <<>>
    BY <1>6 DEF IsOver, Finish
  <2>2. DomTypes'
    BY <1>3, <1>4, <2>1 DEF DomTypes, TableTypes, Pcs
  <2>3. CmdInv'
    BY <1>2, <1>3, <2>1 DEF CmdInv
  <2> QED
    BY <2>2, <2>3 DEF Typed
<1> QED
  BY <1>5, <1>6

\* A registration that fails goes on with the removal.
LEMMA FinalizeIs ==
    ASSUME Typed, At(pc), pc \notin {"idle", "link", "undo"}, Finalize, todo' = todo
    PROVE  GoesOn \/ IsOver
<1>1. cmd.vlan \in Vlans /\ ifaces[cmd.vlan] \subseteq Ifs
  BY CmdIs DEF Typed, DomTypes
<1> QED
  BY <1>1 DEF At, Finalize, GoesOn, IsOver

\* Additions and removals of an interface
LEMMA ListsOf ==
    ASSUME Typed, pc # "idle", NEW a \in SUBSET Ifs, NEW b \in SUBSET Ifs,
           fwd' = [fwd EXCEPT ![cmd.vlan] = a],
           ifaces' = [ifaces EXCEPT ![cmd.vlan] = b] \/ UNCHANGED ifaces
    PROVE  OnlyThis /\ fwd'[cmd.vlan] = a
<1>1. cmd.vlan \in Vlans /\ fwd \in [Vlans -> SUBSET Ifs] /\ ifaces \in [Vlans -> SUBSET Ifs]
  BY CmdIs DEF Typed, DomTypes
<1>2. fwd' \in [Vlans -> SUBSET Ifs] /\ ifaces' \in [Vlans -> SUBSET Ifs]
  BY <1>1
<1>3. \A v \in Vlans : v # cmd.vlan => fwd'[v] = fwd[v] /\ ifaces'[v] = ifaces[v]
  BY <1>1
<1>4. fwd'[cmd.vlan] = a
  BY <1>1
<1> QED
  BY <1>2, <1>3, <1>4 DEF OnlyThis

\* What a step does that removes an interface.
LEMMA DelIfIs ==
    ASSUME Typed, pc # "idle", rest # {},
           fwd' = [fwd EXCEPT ![cmd.vlan] = @ \ {NextIf}],
           ifaces' = [ifaces EXCEPT ![cmd.vlan] = @ \ {NextIf}] \/ UNCHANGED ifaces,
           UpdatesEntry(fwd'[cmd.vlan])
    PROVE  TableTypes' /\ OnlyThis
<1>1. cmd.vlan \in Vlans /\ fwd \in [Vlans -> SUBSET Ifs] /\ ifaces \in [Vlans -> SUBSET Ifs]
  BY CmdIs DEF Typed, DomTypes
<1> DEFINE a == fwd[cmd.vlan] \ {NextIf}
           b == ifaces[cmd.vlan] \ {NextIf}
<1>2. a \in SUBSET Ifs /\ b \in SUBSET Ifs
  BY <1>1
<1>3. /\ fwd' = [fwd EXCEPT ![cmd.vlan] = a]
      /\ ifaces' = [ifaces EXCEPT ![cmd.vlan] = b] \/ UNCHANGED ifaces
  OBVIOUS
<1> HIDE DEF a, b
<1>4. OnlyThis /\ fwd'[cmd.vlan] = a
  BY <1>2, <1>3, ListsOf
<1>5. UpdatesEntry(a)
  BY <1>4
<1> QED
  BY <1>2, <1>4, <1>5, EntryUpdated

LEMMA EntrySteps ==
    ASSUME Typed, SetUcast \/ SetMcast \/ AddIf \/ ReplaceIf \/ DropIf \/ RemoveIf
    PROVE  Typed'
<1>1. cmd.vlan \in Vlans => fwd[cmd.vlan] \in SUBSET Ifs /\ ifaces[cmd.vlan] \in SUBSET Ifs
  BY DEF Typed, DomTypes
<1>2. Ifs \subseteq Ifs /\ rest \subseteq Ifs /\ mutex \in BOOLEAN /\ down \in Downs
  BY DEF Typed, DomTypes
<1>3. ASSUME SetUcast \/ SetMcast
      PROVE  Typed'
  <2>1. pc \in {"ucast", "mcast"} /\ At(pc) /\ UpdatesEntry(fwd[cmd.vlan])
    BY <1>3 DEF SetUcast, SetMcast, At, UpdateEntry, UpdatesEntry
  <2>2. UNCHANGED <<domains, curDomain, domCrit, fwd, ifaces, mutex, down>>
    BY <1>3 DEF SetUcast, SetMcast, UpdateEntry, domainVars
  <2>3. TableTypes'
    BY <1>1, <2>1, CmdIs, EntryUpdated
  <2>4. OnlyThis
    BY <2>2 DEF OnlyThis, Typed, DomTypes
  <2>5. GoesOn \/ (Finalize /\ todo' = todo)
    BY <1>2, <1>3 DEF SetUcast, SetMcast, UpdateEntry, Goto, GoesOn, tableVars
  <2>6. GoesOn \/ IsOver
    BY <2>1, <2>5, FinalizeIs
  <2> QED
    BY <1>2, <2>1, <2>2, <2>3, <2>4, <2>6, Proceeds
<1>4. ASSUME AddIf
      PROVE  Typed'
  <2>1. pc = "ifs" /\ At(pc) /\ rest # {} /\ UpdatesEntry(fwd'[cmd.vlan])
    BY <1>4 DEF AddIf, At, UpdateEntry, UpdatesEntry
  <2>2. UNCHANGED <<domains, curDomain, domCrit, mutex, down>>
    BY <1>4 DEF AddIf, UpdateEntry
  <2>3. NextIf \in Ifs /\ cmd.vlan \in Vlans
    BY <1>2, <2>1, NextIfIs, CmdIs
  <2> DEFINE a == fwd[cmd.vlan] \cup {NextIf}
             b == ifaces[cmd.vlan] \cup {NextIf}
  <2>4. a \in SUBSET Ifs /\ b \in SUBSET Ifs
    BY <1>1, <2>3
  <2>5. /\ fwd' = [fwd EXCEPT ![cmd.vlan] = a]
        /\ ifaces' = [ifaces EXCEPT ![cmd.vlan] = b] \/ UNCHANGED ifaces
    BY <1>4 DEF AddIf, UpdateEntry
  <2> HIDE DEF a, b
  <2>6. OnlyThis /\ fwd'[cmd.vlan] = a
    BY <2>1, <2>4, <2>5, ListsOf
  <2>7. TableTypes'
    <3>1. UpdatesEntry(a)
      BY <2>1, <2>6
    <3> QED
      BY <2>1, <2>4, <3>1, EntryUpdated
  <2>8. GoesOn \/ (Finalize /\ todo' = todo)
    BY <1>2, <1>4, <2>1 DEF AddIf, UpdateEntry, Passed, GoesOn, tableVars
  <2>9. GoesOn \/ IsOver
    BY <2>1, <2>8, FinalizeIs
  <2> QED
    BY <1>2, <2>1, <2>2, <2>6, <2>7, <2>9, Proceeds
<1>5. ASSUME ReplaceIf \/ DropIf \/ RemoveIf
      PROVE  Typed'
  <2>1. /\ pc \in {"ifs", "remove"} /\ At(pc) /\ rest # {} /\ UpdatesEntry(fwd'[cmd.vlan])
        /\ fwd' = [fwd EXCEPT ![cmd.vlan] = @ \ {NextIf}]
        /\ ifaces' = [ifaces EXCEPT ![cmd.vlan] = @ \ {NextIf}] \/ UNCHANGED ifaces
    BY <1>5 DEF ReplaceIf, DropIf, RemoveIf, DelIf, At, UpdateEntry, UpdatesEntry
  <2>2. UNCHANGED <<domains, curDomain, domCrit, mutex, down>>
    BY <1>5 DEF ReplaceIf, DropIf, RemoveIf, DelIf, UpdateEntry
  <2>3. TableTypes' /\ OnlyThis
    BY <2>1, DelIfIs
  <2>4. pc = "remove" => cmd.kind # "update"
    BY DEF Typed, CmdInv
  <2>5. GoesOn \/ (Finalize /\ todo' = todo)
    <3>1. CASE ReplaceIf
      BY <1>2, <2>1, <3>1 DEF ReplaceIf, At, DelIf, UpdateEntry, GoesOn, tableVars
    <3>2. CASE DropIf
      BY <1>2, <2>1, <3>2 DEF DropIf, DelIf, UpdateEntry, Goto, GoesOn, tableVars
    <3>3. CASE RemoveIf
      BY <1>2, <2>1, <2>4, <3>3 DEF RemoveIf, At, DelIf, UpdateEntry, Goto, Passed, GoesOn
    <3> QED
      BY <1>5, <3>1, <3>2, <3>3
  <2>6. GoesOn \/ IsOver
    BY <2>1, <2>5, FinalizeIs
  <2> QED
    BY <1>2, <2>1, <2>2, <2>3, <2>6, Proceeds
<1> QED
  BY <1>3, <1>4, <1>5

LEMMA OtherSteps ==
    ASSUME Typed, WriteOne \/ SkipIf \/ IfsDone \/ FlushIf \/ Destroy
    PROVE  Typed'
<1>1. table \in Tables /\ todo \in Writes /\ broken \in BOOLEAN /\ mutex \in BOOLEAN /\ down \in Downs
  BY DEF Typed, DomTypes
<1>2. UNCHANGED <<fwd, ifaces>> => OnlyThis
  BY DEF OnlyThis, Typed, DomTypes
<1>3. UNCHANGED tableVars => TableTypes'
  BY <1>1 DEF tableVars, TableTypes
<1>4. CASE WriteOne
  <2>1. todo # <<>> /\ Head(todo) \in [slot : Slots, entry : Entry] /\ todo' \in Writes
    BY <1>1, <1>4, HeadTailProperties DEF WriteOne, Writes
  <2>2. table' \in Tables
    BY <1>1, <1>4, <2>1 DEF WriteOne, Tables
  <2>3. UNCHANGED <<pc, cmd, rest, mutex, down, broken, domains, curDomain, domCrit, fwd, ifaces>>
    BY <1>4 DEF WriteOne, domainVars
  <2>4. pc # "idle"
    BY <2>1 DEF Typed, CmdInv
  <2> QED
    BY <2>1, <2>2, <2>3, <2>4 DEF Typed, DomTypes, CmdInv, Once
<1>5. CASE SkipIf \/ IfsDone
  <2>1. pc = "ifs" /\ UNCHANGED <<mutex, down, tableVars, domainVars>> /\ todo = <<>>
    BY <1>5 DEF SkipIf, IfsDone, At
  <2>2. GoesOn \/ IsOver
    BY <1>5, <2>1 DEF SkipIf, IfsDone, Passed, GoesOn, IsOver, Typed, DomTypes, tableVars
  <2>3. UNCHANGED <<domains, curDomain, domCrit, fwd, ifaces>> /\ mutex' \in BOOLEAN /\ down' \in Downs
    BY <1>1, <2>1 DEF domainVars
  <2> QED
    BY <1>2, <1>3, <2>1, <2>2, <2>3, Proceeds
<1>6. CASE FlushIf
  <2>1. CASE Hangs
    BY <2>1, HangsQuietly, TypedQuiet
  <2>2. CASE ~Hangs
    <3>1. pc = "flush" /\ todo = <<>>
      BY <1>6 DEF FlushIf, At
    <3>2. UNCHANGED <<down, tableVars, domainVars>>
      BY <1>6, <2>2 DEF FlushIf
    <3>3. mutex' \in BOOLEAN
      BY <1>6, <2>2, Zenon DEF FlushIf, LeavesLocked
    <3>4. /\ rest \subseteq Ifs
          /\ \/ Finish
             \/ cmd.kind # "update" /\ pc' = "remove" /\ rest' = rest \ {NextIf} /\ cmd' = cmd
             \/ pc' = "ifs" /\ rest' = rest \ {NextIf} /\ cmd' = cmd
      BY <1>6, <2>2 DEF FlushIf, Typed, DomTypes
    <3>5. GoesOn \/ IsOver
      BY <3>1, <3>2, <3>4 DEF GoesOn, IsOver, tableVars
    <3>6. UNCHANGED <<domains, curDomain, domCrit, fwd, ifaces, down>>
      BY <3>2 DEF domainVars
    <3> QED
      BY <1>1, <1>2, <1>3, <3>1, <3>2, <3>3, <3>5, <3>6, Proceeds
  <2> QED
    BY <2>1, <2>2
<1>7. CASE Destroy
  <2>1. /\ pc = "remove" /\ UNCHANGED <<mutex, down, domainVars>>
        /\ Put(DeleteWrites(table, cmd.vlan), DeleteCuts(table, cmd.vlan)) /\ Goto("unlink")
    BY <1>7 DEF Destroy, At
  <2>2. cmd.vlan \in Vlans
    BY <2>1, CmdIs
  <2>3. TableTypes'
    BY <1>1, <2>1, <2>2, DeleteWritesAre, PutTyped
  <2>4. GoesOn
    BY <2>1 DEF Goto, GoesOn, Typed, DomTypes, CmdInv
  <2>5. UNCHANGED <<domains, curDomain, domCrit, fwd, ifaces>> /\ mutex' \in BOOLEAN /\ down' \in Downs
    BY <1>1, <2>1 DEF domainVars
  <2> QED
    BY <1>2, <2>1, <2>3, <2>4, <2>5, Proceeds
<1> QED
  BY <1>4, <1>5, <1>6, <1>7

\* A command begins, with a search for its domain.
LEMMA Begins ==
    ASSUME Typed, pc = "idle", TableTypes', UNCHANGED <<domains, fwd, ifaces, mutex, down>>,
           NEW v \in Vlans, LookUpDomain(v),
           NEW kind \in {"register", "update", "deregister"}, NEW want \in SUBSET Ifs,
           cmd' = [kind |-> kind, vlan |-> v, want |-> want], rest' \subseteq Ifs,
           pc' \in {"link", "undo", "ucast", "remove"},
           kind # "update" => v \in Users,
           pc' \in {"link", "undo", "remove"} => kind # "update",
           IF pc' \in {"link", "undo"} THEN v \notin Range(domains) ELSE v \in Range(domains)
    PROVE  Typed'
<1>1. cmd' \in Cmds /\ cmd' # NoCmd /\ cmd'.kind = kind /\ cmd'.vlan = v
  BY CmdsAre
<1>2. curDomain' \in Range(domains) \cup {End} /\ domCrit' \in Vlans \cup {All}
  BY LookedUp DEF LookUpDomain
<1>3. DomTypes'
  BY <1>1, <1>2 DEF Typed, DomTypes, TableTypes, Pcs
<1>4. CmdInv'
  BY <1>1, <1>2 DEF Typed, CmdInv, Once
<1> QED
  BY <1>3, <1>4 DEF Typed

LEMMA StartSteps ==
    ASSUME Typed, Register \/ Update \/ Deregister
    PROVE  Typed'
<1>1. /\ table \in Tables /\ todo \in Writes /\ broken \in BOOLEAN
      /\ domains \in Seq(Vlans) /\ domCrit \in Vlans \cup {All}
      /\ ifaces \in [Vlans -> SUBSET Ifs]
  BY DEF Typed, DomTypes
<1>2. UNCHANGED tableVars => TableTypes'
  BY <1>1 DEF tableVars, TableTypes
<1>3. IfsOf \in [Vlans -> SUBSET Ifs]
  BY TableAssumption DEF Vlans, Fallback
<1>4. CASE Register
  <2>1. PICK v \in Users : \E want \in SUBSET IfsOf[v] :
          /\ ~IsDomain(v) /\ LookUpDomain(v)
          /\ \/ /\ MayAdd(table, v)
                /\ Put(AddWrites(table, v, {}), FALSE)
                /\ Start("register", v, want, "link", {})
             \/ /\ Put(DeleteWrites(table, v), DeleteCuts(table, v))
                /\ Start("register", v, want, "undo", {})
    BY <1>4 DEF Register
  <2>2. PICK want \in SUBSET IfsOf[v] :
          /\ ~IsDomain(v) /\ LookUpDomain(v)
          /\ \/ /\ MayAdd(table, v)
                /\ Put(AddWrites(table, v, {}), FALSE)
                /\ Start("register", v, want, "link", {})
             \/ /\ Put(DeleteWrites(table, v), DeleteCuts(table, v))
                /\ Start("register", v, want, "undo", {})
    BY <2>1
  <2>3. pc = "idle" /\ UNCHANGED <<mutex, down, domains, fwd, ifaces>>
    BY <1>4 DEF Register, Idle
  <2>4. v \in Vlans /\ want \in SUBSET Ifs /\ v \notin Range(domains)
    BY <1>3, <2>2, VlansAre DEF IsDomain
  <2>5. TableTypes'
    <3>1. CASE MayAdd(table, v) /\ Put(AddWrites(table, v, {}), FALSE)
      <4>1. AddWrites(table, v, {}) \in Writes
        BY <1>1, <2>4, <3>1, AddWritesAre
      <4> QED
        BY <3>1, <4>1, PutTyped
    <3>2. CASE Put(DeleteWrites(table, v), DeleteCuts(table, v))
      BY <1>1, <2>4, <3>2, DeleteWritesAre, PutTyped
    <3> QED
      BY <2>2, <3>1, <3>2
  <2>6. /\ cmd' = [kind |-> "register", vlan |-> v, want |-> want]
        /\ pc' \in {"link", "undo"} /\ rest' = {}
    BY <2>2 DEF Start
  <2> QED
    BY <2>2, <2>3, <2>4, <2>5, <2>6, Begins
<1>5. CASE Update \/ Deregister
  <2>1. PICK v \in Vlans :
          /\ LookUpDomain(v)
          /\ \/ /\ IsDomain(v)
                /\ \/ /\ \E want \in SUBSET IfsOf[v] : Start("update", v, want, "ucast", {})
                   \/ /\ v \in Users /\ Start("deregister", v, {}, "remove", ifaces[v])
             \/ ~IsDomain(v) /\ UNCHANGED <<pc, cmd, rest>>
    BY <1>5, VlansAre DEF Update, Deregister
  <2>2. /\ pc = "idle" /\ UNCHANGED <<mutex, down, domains, fwd, ifaces, tableVars>>
    BY <1>5 DEF Update, Deregister, Idle
  <2>3. TableTypes'
    BY <1>2, <2>2
  <2>4. CASE UNCHANGED <<pc, cmd, rest>>
    <3>1. curDomain' \in Range(domains) \cup {End} /\ domCrit' \in Vlans \cup {All}
      BY <2>1, LookedUp DEF LookUpDomain
    <3> QED
      BY <2>2, <2>4, <3>1 DEF Typed, DomTypes, CmdInv, tableVars, Once
  <2>5. ASSUME IsDomain(v), NEW want \in SUBSET IfsOf[v], Start("update", v, want, "ucast", {})
        PROVE  Typed'
    <3>1. /\ cmd' = [kind |-> "update", vlan |-> v, want |-> want] /\ pc' = "ucast" /\ rest' = {}
      BY <2>5 DEF Start
    <3>2. want \in SUBSET Ifs /\ v \in Range(domains)
      BY <1>3, <2>5 DEF IsDomain
    <3> QED
      BY <2>1, <2>2, <2>3, <3>1, <3>2, Begins
  <2>6. ASSUME IsDomain(v), v \in Users, Start("deregister", v, {}, "remove", ifaces[v])
        PROVE  Typed'
    <3>1. /\ cmd' = [kind |-> "deregister", vlan |-> v, want |-> {}] /\ pc' = "remove"
          /\ rest' \subseteq Ifs
      BY <1>1, <2>6 DEF Start
    <3>2. v \in Range(domains)
      BY <2>6 DEF IsDomain
    <3>3. {} \in SUBSET Ifs
      OBVIOUS
    <3> QED
      BY <2>1, <2>2, <2>3, <2>6, <3>1, <3>2, <3>3, Begins
  <2> QED
    BY <2>1, <2>4, <2>5, <2>6
<1> QED
  BY <1>4, <1>5

LEMMA LinkStep ==
    ASSUME Typed, Link \/ Undo
    PROVE  Typed'
<1>1. ~Hangs \/ Typed'
  BY HangsQuietly, TypedQuiet
<1> SUFFICES ASSUME ~Hangs
             PROVE  Typed'
  BY <1>1
<1>2. /\ pc \in {"link", "undo"} /\ todo = <<>> /\ UNCHANGED <<mutex, down, fwd, ifaces, tableVars>>
      /\ cmd \in Cmds /\ cmd.vlan \in Vlans /\ cmd.vlan \notin Range(domains)
      /\ cmd.kind # "update" /\ cmd.vlan \in Users
  BY CmdIs, CmdsAre DEF Link, Undo, At, domainVars, Typed, CmdInv
<1>3. CASE Link
  <2>1. /\ pc' = "ucast" /\ UNCHANGED <<cmd, rest>> /\ domains' = Append(domains, cmd.vlan)
        /\ curDomain' = End /\ domCrit' = cmd.vlan
    BY <1>3 DEF Link, Goto
  <2>2. /\ domains' \in Seq(Vlans) /\ Range(domains') = Range(domains) \cup {cmd.vlan}
        /\ Once(domains')
    BY <1>2, <2>1, RangeOfAppend, OnceAppend DEF Typed, DomTypes, CmdInv
  <2>3. DomTypes'
    BY <1>2, <2>1, <2>2 DEF Typed, DomTypes, Pcs, tableVars
  <2>4. CmdInv'
    BY <1>2, <2>1, <2>2, CmdsAre DEF Typed, CmdInv
  <2> QED
    BY <2>3, <2>4 DEF Typed
<1>4. CASE Undo
  BY <1>2, <1>4 DEF Undo, Finish, Typed, DomTypes, CmdInv, Pcs, tableVars, domainVars, Once
<1> QED
  BY <1>3, <1>4

LEMMA UnlinkStep ==
    ASSUME Typed, Unlink
    PROVE  Typed'
<1>1. ~Hangs \/ Typed'
  BY HangsQuietly, TypedQuiet
<1> SUFFICES ASSUME ~Hangs
             PROVE  Typed'
  BY <1>1
<1>2. /\ pc = "unlink" /\ todo = <<>> /\ UNCHANGED <<mutex, down, domCrit, tableVars>> /\ Finish
      /\ curDomain' = IF curDomain = cmd.vlan THEN After(domains, cmd.vlan) ELSE curDomain
      /\ domains' = Only(domains, Vlans \ {cmd.vlan})
      /\ fwd' = [fwd EXCEPT ![cmd.vlan] = {}]
      /\ ifaces' = [ifaces EXCEPT ![cmd.vlan] = {}]
  BY DEF Unlink, At
<1>3. cmd.vlan \in Users /\ cmd.vlan \in Range(domains) /\ cmd.vlan # End
  <2>1. cmd \in Cmds /\ cmd.vlan \in Vlans
    BY <1>2, CmdIs
  <2>2. cmd.vlan # End
    BY <2>1, NamesApart
  <2> QED
    BY <1>2, <2>1, <2>2, CmdsAre DEF Typed, CmdInv
<1>4. domains \in Seq(Vlans) /\ Range(domains) \subseteq Vlans /\ Once(domains)
  BY RangeOf DEF Typed, DomTypes, CmdInv
<1>5. /\ domains' \in Seq(Vlans) /\ Range(domains') = Range(domains) \cap (Vlans \ {cmd.vlan})
      /\ Once(domains')
  BY <1>2, <1>4, OnlyIs
<1>6. Range(domains') = Range(domains) \ {cmd.vlan}
  BY <1>4, <1>5
<1>7. curDomain' \in Range(domains') \cup {End}
  <2>1. /\ After(domains, cmd.vlan) \in Range(domains) \cup {End}
        /\ After(domains, cmd.vlan) # cmd.vlan
    BY <1>3, <1>4, AfterIn
  <2>2. curDomain \in Range(domains) \cup {End}
    BY DEF Typed, CmdInv
  <2> QED
    BY <1>2, <1>6, <2>1, <2>2
<1>8. {Default, Fallback} \subseteq Range(domains')
  BY <1>3, <1>6, VlansAre DEF Typed, CmdInv
<1>9. /\ fwd' \in [Vlans -> SUBSET Ifs] /\ ifaces' \in [Vlans -> SUBSET Ifs]
      /\ \A v \in Vlans \ Range(domains') : fwd'[v] = {} /\ ifaces'[v] = {}
  BY <1>2, <1>6 DEF Typed, DomTypes, CmdInv
<1>10. DomTypes'
  BY <1>2, <1>5, <1>9 DEF Typed, DomTypes, Finish, Pcs, tableVars
<1>11. CmdInv'
  BY <1>2, <1>5, <1>7, <1>8, <1>9 DEF Finish, CmdInv, tableVars
<1> QED
  BY <1>10, <1>11 DEF Typed

LEMMA TypedStep ==
    ASSUME Typed, [Next]_vars
    PROVE  Typed'
<1>1. CASE UNCHANGED vars
  BY <1>1, TypedQuiet DEF vars, Quiet, Typed, DomTypes
<1>2. CASE Commands
  BY <1>2, QuietSteps, TypedQuiet, CursorSteps, StartSteps DEF Commands
<1>3. CASE Steps
  BY <1>3, QuietSteps, TypedQuiet, EntrySteps, OtherSteps, LinkStep, UnlinkStep DEF Steps
<1> QED
  BY <1>1, <1>2, <1>3 DEF Next

-----------------------------------------------------------------------------
(* The table between the writes *)

D == Range(domains)

\* What the table holds once the writes are made
Target == CASE pc = "link" -> D \cup {cmd.vlan}
            [] pc = "unlink" -> D \ {cmd.vlan}
            [] OTHER -> D

Pending == CASE pc = "link" -> Adding
             [] pc = "unlink" -> Removing
             [] pc \in {"mcast", "ifs", "flush", "remove"} -> Updating(D)
             [] OTHER -> FALSE

LEMMA TableInvIs ==
    TableInv <=> (~broken => down # "endless" /\ (Settled(Target) \/ Pending))
<1>1. CASE pc = "link"
  BY <1>1 DEF TableInv, Target, Pending, D
<1>2. CASE pc = "unlink"
  BY <1>2 DEF TableInv, Target, Pending, D
<1>3. CASE pc \in {"mcast", "ifs", "flush", "remove"}
  BY <1>3 DEF TableInv, Target, Pending, D
<1>4. CASE pc \notin {"link", "unlink", "mcast", "ifs", "flush", "remove"}
  BY <1>4 DEF TableInv, Target, Pending, D
<1> QED
  BY <1>1, <1>2, <1>3, <1>4

\* With writes pending there are writes to make.
LEMMA PendingIs ==
    ASSUME Typed, Pending
    PROVE  todo # <<>>
<1>1. \A p, e : Write(p, e) # <<>>
  BY DEF Write
<1>2. \A p, e, q, f : Write(p, e) \o Write(q, f) # <<>>
  BY DEF Write
<1>3. CASE Adding
  BY <1>1, <1>2, <1>3 DEF Adding, Links
<1>4. CASE Removing
  <2>1. \A p : MoveToHead(table, p, table[p].col) # <<>>
    BY <1>2 DEF MoveToHead
  <2>2. PICK p \in Slots :
          \/ todo = Write(p, Zero)
          \/ todo = MoveToHead(table, p, table[p].col)
          \/ \E q \in Slots : todo = Write(q, [table[q] EXCEPT !.col = table[p].col]) \o Write(p, Zero)
    BY <1>4 DEF Removing
  <2> QED
    BY <1>1, <1>2, <2>1, <2>2
<1>5. CASE Updating(D)
  BY <1>1, <1>5 DEF Updating
<1> QED
  BY <1>3, <1>4, <1>5 DEF Pending

LEMMA AtRest ==
    ASSUME Typed, TableInv, ~broken, todo = <<>>
    PROVE  Good(table, {}, Target, fwd) /\ down # "endless"
  BY TableInvIs, PendingIs DEF Settled

LEMMA HeadWritten ==
    ASSUME WriteOne, NEW p, NEW e, Head(todo) = [slot |-> p, entry |-> e]
    PROVE  table' = [table EXCEPT ![p] = e] /\ todo' = Tail(todo)
<1>1. \A h : h = [slot |-> p, entry |-> e] => h.slot = p /\ h.entry = e
  OBVIOUS
<1>2. Head(todo).slot = p /\ Head(todo).entry = e
  BY <1>1
<1> QED
  BY <1>2 DEF WriteOne

LEMMA OneWritten ==
    ASSUME WriteOne, NEW p \in Slots, NEW e \in Entry, todo = Write(p, e)
    PROVE  table' = [table EXCEPT ![p] = e] /\ todo' = <<>>
<1>1. Head(todo) = [slot |-> p, entry |-> e] /\ Tail(todo) = <<>>
  BY WriteIs
<1> QED
  BY <1>1, HeadWritten

LEMMA WriteKeeps ==
    ASSUME WriteOne
    PROVE  UNCHANGED <<pc, cmd, broken, fwd, domains, down>> /\ D' = D
<1>1. UNCHANGED <<pc, cmd, broken, fwd, domains, down>>
  BY DEF WriteOne, domainVars
<1> QED
  BY <1>1 DEF D

LEMMA AddingStep ==
    ASSUME Typed, WriteOne, pc = "link", Adding
    PROVE  (Good(table', {}, D \cup {cmd.vlan}, fwd) /\ todo' = <<>>) \/ Adding'
<1> DEFINE v == cmd.vlan
           new == New(v, {})
<1>1. /\ table \in Tables /\ fwd \in [Vlans -> SUBSET Ifs] /\ v \in Vlans /\ v \notin D /\ fwd[v] = {}
  BY CmdIs DEF Typed, DomTypes, CmdInv, D
<1>2. new \in Entry /\ Hash(v) \in Slots
  <2>1. {} \in SUBSET Ifs
    OBVIOUS
  <2> QED
    BY <1>1, <2>1, EntriesAre, HashIs
<1> HIDE DEF new
<1>3. CASE Good(table, {}, D, fwd) /\ ~table[Hash(v)].valid /\ todo = Write(Hash(v), new)
  <2>1. table' = [table EXCEPT ![Hash(v)] = new] /\ todo' = <<>>
    BY <1>2, <1>3, OneWritten
  <2>2. Good([table EXCEPT ![Hash(v)] = new], {}, D \cup {v}, fwd)
    BY <1>1, <1>3, FillHead DEF new
  <2> QED
    BY <2>1, <2>2
<1>4. ASSUME NEW p \in Slots, Links(p)
      PROVE  (Good(table', {}, D \cup {v}, fwd) /\ todo' = <<>>) \/ Links(p)'
  <2>1. PICK last \in On(table, {p}) :
          /\ last < p /\ p >= Coll /\ table[last].col = 0 /\ Hash(table[last].vlan) = Hash(v)
          /\ \/ /\ Good(table, {}, D, fwd) /\ ~table[p].valid
                /\ todo = Write(p, new) \o Write(last, [table[last] EXCEPT !.col = p])
             \/ /\ Good(table, {p}, D, fwd) /\ table[p] = new
                /\ todo = Write(last, [table[last] EXCEPT !.col = p])
    BY <1>4 DEF Links, D, new
  <2> DEFINE e == [table[last] EXCEPT !.col = p]
  <2>2. last \in Slots /\ table[last] \in Entry /\ last # p
    BY <1>1, <2>1 DEF On, Tables
  <2>3. e \in Entry
    BY <2>2, EntriesAre
  <2> HIDE DEF e
  <2>4. CASE /\ Good(table, {}, D, fwd) /\ ~table[p].valid
             /\ todo = Write(p, new) \o Write(last, e)
    <3>1. table' = [table EXCEPT ![p] = new] /\ todo' = Write(last, e)
      <4>1. todo = Write(p, new) \o Write(last, e)
        BY <2>4
      <4>2. p \in Slots /\ new \in Entry /\ last \in Slots /\ e \in Entry
        BY <1>2, <2>2, <2>3
      <4> QED
        <5> DEFINE both == Write(p, new) \o Write(last, e)
        <5>1. Head(both) = [slot |-> p, entry |-> new] /\ Tail(both) = Write(last, e)
          BY <4>2, WritesAre
        <5>2. todo = both
          BY <4>1
        <5> HIDE DEF both
        <5>3. Head(todo) = [slot |-> p, entry |-> new] /\ Tail(todo) = Write(last, e)
          BY <5>1, <5>2
        <5> QED
          BY <5>3, HeadWritten
    <3>2. p >= Coll
      BY <2>1
    <3>3. /\ Good([table EXCEPT ![p] = new], {p}, D, fwd)
          /\ On([table EXCEPT ![p] = new], {p}) = On(table, {})
          /\ [table EXCEPT ![p] = new][p] = new
          /\ \A q \in On(table, {}) : [table EXCEPT ![p] = new][q] = table[q]
      BY <1>1, <1>2, <2>4, <3>2, PutOrphan
    <3>4. last \in On(table, {})
      BY <2>1 DEF On
    <3>5. table'[last] = table[last] /\ last \in On(table', {p}) /\ table'[p] = new /\ Good(table', {p}, D, fwd)
      BY <3>1, <3>3, <3>4
    <3>6. UNCHANGED <<cmd, fwd, domains>> /\ D' = D
      BY WriteKeeps
    <3>7. todo' = Write(last, [table'[last] EXCEPT !.col = p])
      BY <3>1, <3>5 DEF e
    <3> QED
      BY <2>1, <3>5, <3>6, <3>7 DEF Links, D, new
  <2>5. CASE Good(table, {p}, D, fwd) /\ table[p] = new /\ todo = Write(last, e)
    <3>1. table' = [table EXCEPT ![last] = e] /\ todo' = <<>>
      BY <2>2, <2>3, <2>5, OneWritten
    <3>2. p >= Coll /\ last < p /\ table[last].col = 0 /\ Hash(table[last].vlan) = Hash(v)
      BY <2>1
    <3>3. Good([table EXCEPT ![last] = e], {}, D \cup {v}, fwd)
      <4>1. table[p] = New(v, {}) /\ e = [table[last] EXCEPT !.col = p]
        BY <2>5 DEF new, e
      <4> QED
        BY <1>1, <2>1, <2>5, <3>2, <4>1, LinkOrphan
    <3> QED
      BY <3>1, <3>3
  <2> QED
    BY <2>1, <2>4, <2>5 DEF e
<1> QED
  BY <1>3, <1>4 DEF Adding, D, new

LEMMA RemovingStep ==
    ASSUME Typed, WriteOne, pc = "unlink", Removing
    PROVE  (Good(table', {}, D \ {cmd.vlan}, fwd) /\ todo' = <<>>) \/ Removing'
<1> DEFINE v == cmd.vlan
<1>1. table \in Tables /\ fwd \in [Vlans -> SUBSET Ifs]
  BY DEF Typed, DomTypes
<1>2. Zero \in Entry
  BY EntriesAre
<1>3. UNCHANGED <<cmd, fwd, domains>> /\ D' = D
  BY WriteKeeps
<1>4. ASSUME NEW p \in Slots, Good(table', {p}, D \ {v}, fwd), todo' = Write(p, Zero)
      PROVE  Removing'
  BY <1>3, <1>4 DEF Removing, D
<1>5. PICK p \in Slots :
        \/ /\ Good(table, {}, D, fwd) /\ table[p].valid /\ table[p].vlan = v
           /\ \/ p < Coll /\ table[p].col = 0 /\ todo = Write(p, Zero)
              \/ p < Coll /\ table[p].col # 0 /\ todo = MoveToHead(table, p, table[p].col)
              \/ \E q \in Slots :
                    /\ table[q].col = p /\ table[p].col # 0 /\ p >= Coll
                    /\ todo = Write(q, [table[q] EXCEPT !.col = table[p].col]) \o Write(p, Zero)
        \/ Good(table, {p}, D \ {v}, fwd) /\ todo = Write(p, Zero)
  BY DEF Removing, D
<1>6. table[p].col \in Slots
  BY <1>1, EntryFields DEF Tables
<1>7. CASE /\ Good(table, {}, D, fwd) /\ table[p].valid /\ table[p].vlan = v
           /\ p < Coll /\ table[p].col = 0 /\ todo = Write(p, Zero)
  <2>1. table' = [table EXCEPT ![p] = Zero] /\ todo' = <<>>
    BY <1>2, <1>7, OneWritten
  <2>2. Good([table EXCEPT ![p] = Zero], {}, D \ {v}, fwd)
    BY <1>1, <1>7, ClearHead
  <2> QED
    BY <2>1, <2>2
<1>8. CASE /\ Good(table, {}, D, fwd) /\ table[p].valid /\ table[p].vlan = v
           /\ p < Coll /\ table[p].col # 0 /\ todo = MoveToHead(table, p, table[p].col)
  <2> DEFINE next == table[p].col
             e == table[next]
  <2>1. next \in Slots /\ e \in Entry
    BY <1>1, <1>6 DEF Tables
  <2>2. todo = Write(p, e) \o Write(next, Zero)
    BY <1>8 DEF MoveToHead
  <2>3. Good([table EXCEPT ![p] = e], {next}, D \ {v}, fwd)
    BY <1>1, <1>8, MoveHead
  <2> HIDE DEF e, next
  <2>4. PICK n, c : n = next /\ c = e
    OBVIOUS
  <2>5. n \in Slots /\ c \in Entry /\ todo = Write(p, c) \o Write(n, Zero)
    BY <2>1, <2>2, <2>4
  <2>6. table' = [table EXCEPT ![p] = c] /\ todo' = Write(n, Zero)
    <3> DEFINE both == Write(p, c) \o Write(n, Zero)
    <3>1. Head(both) = [slot |-> p, entry |-> c] /\ Tail(both) = Write(n, Zero)
      BY <1>2, <2>5, WritesAre
    <3>2. todo = both
      BY <2>5
    <3> HIDE DEF both
    <3>3. Head(todo) = [slot |-> p, entry |-> c] /\ Tail(todo) = Write(n, Zero)
      BY <3>1, <3>2
    <3> QED
      BY <3>3, HeadWritten
  <2>7. Good(table', {n}, D \ {v}, fwd)
    BY <2>3, <2>4, <2>6
  <2> QED
    BY <1>4, <2>5, <2>6, <2>7
<1>9. ASSUME Good(table, {}, D, fwd), table[p].valid, table[p].vlan = v,
             NEW q \in Slots, table[q].col = p, table[p].col # 0, p >= Coll,
             todo = Write(q, [table[q] EXCEPT !.col = table[p].col]) \o Write(p, Zero)
      PROVE  Removing'
  <2> DEFINE e == [table[q] EXCEPT !.col = table[p].col]
  <2>1. e \in Entry
    BY <1>1, <1>6, EntriesAre DEF Tables
  <2>2. todo = Write(q, e) \o Write(p, Zero)
    BY <1>9
  <2>3. e = [table[q] EXCEPT !.col = table[p].col]
    OBVIOUS
  <2> HIDE DEF e
  <2>4. Good([table EXCEPT ![q] = e], {p}, D \ {v}, fwd)
    BY <1>1, <1>9, <2>3, Bypass
  <2>5. PICK c : c = e
    OBVIOUS
  <2>6. c \in Entry /\ todo = Write(q, c) \o Write(p, Zero)
    BY <2>1, <2>2, <2>5
  <2>7. table' = [table EXCEPT ![q] = c] /\ todo' = Write(p, Zero)
    <3> DEFINE both == Write(q, c) \o Write(p, Zero)
    <3>1. Head(both) = [slot |-> q, entry |-> c] /\ Tail(both) = Write(p, Zero)
      BY <1>2, <2>6, WritesAre
    <3>2. todo = both
      BY <2>6
    <3> HIDE DEF both
    <3>3. Head(todo) = [slot |-> q, entry |-> c] /\ Tail(todo) = Write(p, Zero)
      BY <3>1, <3>2
    <3> QED
      BY <3>3, HeadWritten
  <2>8. Good(table', {p}, D \ {v}, fwd)
    BY <2>4, <2>5, <2>7
  <2> QED
    BY <1>4, <2>7, <2>8
<1>10. CASE Good(table, {p}, D \ {v}, fwd) /\ todo = Write(p, Zero)
  <2>1. table' = [table EXCEPT ![p] = Zero] /\ todo' = <<>>
    BY <1>2, <1>10, OneWritten
  <2>2. Good([table EXCEPT ![p] = Zero], {}, D \ {v}, fwd)
    BY <1>1, <1>10, ClearOrphan
  <2> QED
    BY <2>1, <2>2
<1> QED
  BY <1>5, <1>7, <1>8, <1>9, <1>10

LEMMA UpdatingStep ==
    ASSUME Typed, WriteOne, pc # "idle", Updating(D)
    PROVE  Good(table', {}, D, fwd) /\ todo' = <<>>
<1> DEFINE v == cmd.vlan
<1>1. table \in Tables /\ fwd \in [Vlans -> SUBSET Ifs] /\ v \in Vlans
  BY CmdIs DEF Typed, DomTypes
<1>2. Chained(table, {}) /\ Holds(table, {}, D) /\ Tells(table, {}, fwd, {v})
  BY DEF Updating
<1>3. PICK p \in On(table, {}) :
        table[p].vlan = v /\ todo = Write(p, [table[p] EXCEPT !.act = fwd[v]])
  BY DEF Updating
<1> DEFINE e == [table[p] EXCEPT !.act = fwd[v]]
<1>4. p \in Slots /\ e \in Entry
  BY <1>1, EntriesAre DEF On, Tables
<1>5. e = [table[p] EXCEPT !.act = fwd[v]] /\ todo = Write(p, e)
  BY <1>3
<1> HIDE DEF e
<1>6. table' = [table EXCEPT ![p] = e] /\ todo' = <<>>
  BY <1>4, <1>5, OneWritten
<1>7. Good([table EXCEPT ![p] = e], {}, D, fwd)
  BY <1>1, <1>2, <1>3, <1>5, SetAct
<1> QED
  BY <1>6, <1>7

LEMMA WriteStep ==
    ASSUME Typed, TableInv, ~broken, WriteOne
    PROVE  TableInv'
<1>1. UNCHANGED <<pc, cmd, broken, fwd, domains, down>> /\ D' = D
  BY WriteKeeps
<1>2. down # "endless" /\ todo # <<>> /\ down = None
  BY TableInvIs DEF WriteOne
<1>3. Pending
  BY <1>2, TableInvIs DEF Settled
<1>4. pc # "idle"
  BY <1>3 DEF Pending
<1>5. Target' = Target
  BY <1>1 DEF Target
<1>6. (Good(table', {}, Target, fwd) /\ todo' = <<>>) \/ Pending'
  <2>1. CASE pc = "link"
    BY <1>1, <1>3, <2>1, AddingStep DEF Pending, Target
  <2>2. CASE pc = "unlink"
    BY <1>1, <1>3, <2>2, RemovingStep DEF Pending, Target
  <2>3. CASE pc \in {"mcast", "ifs", "flush", "remove"}
    BY <1>3, <1>4, <2>3, UpdatingStep DEF Pending, Target
  <2> QED
    BY <1>3, <2>1, <2>2, <2>3 DEF Pending
<1>7. Settled(Target)' \/ Pending'
  BY <1>1, <1>5, <1>6 DEF Settled
<1>8. (~broken => down # "endless" /\ (Settled(Target) \/ Pending))'
  BY <1>1, <1>2, <1>7
<1> QED
  BY <1>8, TableInvIs, PTL

LEMMA TableNext ==
    ASSUME ~broken' => down' # "endless" /\ (Settled(Target)' \/ Pending')
    PROVE  TableInv'
<1>1. (~broken => down # "endless" /\ (Settled(Target) \/ Pending))'
  OBVIOUS
<1> QED
  BY <1>1, TableInvIs, PTL

\* A step that does not touch the table, and keeps the command where it is ...
LEMMA TableSame ==
    ASSUME TableInv, UNCHANGED <<table, todo, pc, cmd, domains, fwd, broken>>,
           down' = down \/ down' # "endless"
    PROVE  TableInv'
  BY DEF TableInv, Settled, Adding, Links, Removing, Updating, Write, MoveToHead

\* ... or goes on with it, nothing being left to write.
LEMMA TableRests ==
    ASSUME Typed, TableInv, UNCHANGED <<table, todo, domains, fwd, broken, down>>, todo = <<>>,
           pc \notin {"link", "unlink"}, pc' \notin {"link", "unlink"}
    PROVE  TableInv'
<1>1. ASSUME ~broken
      PROVE  down' # "endless" /\ Settled(Target)'
  <2>1. Good(table, {}, Target, fwd) /\ down # "endless"
    BY <1>1, AtRest
  <2>2. Target = D /\ Target' = D
    BY DEF Target, D
  <2> QED
    BY <2>1, <2>2 DEF Settled
<1> QED
  BY <1>1, TableNext

\* The table is sound whenever a search begins.
LEMMA SearchEnds ==
    ASSUME Typed, TableInv, ~broken, todo = <<>>, NEW v \in Vlans
    PROVE  ~Endless(table, v) /\ ~Spins(table, v)
<1>1. Good(table, {}, Target, fwd)
  BY AtRest
<1>2. table \in [Slots -> Entry] /\ Chained(table, {})
  BY <1>1 DEF Good, Typed, DomTypes, Tables
<1> QED
  BY <1>2, Ends

LEMMA StopSteps ==
    ASSUME Typed, TableInv,
           \/ StaticRegister \/ StaticUpdate \/ StaticDeregister \/ QueryStatics \/ QueryStaticsCont
           \/ FlushStatic \/ FlushAll \/ FlushLearned \/ UpdateSpins
           \/ RegisterAgain \/ QueryDomains \/ QueryDomainsCont \/ RtableLooksUp
    PROVE  TableInv'
<1>1. CASE UpdateSpins
  <2>1. todo = <<>> /\ pc # "idle" /\ (Endless(table, cmd.vlan) \/ Spins(table, cmd.vlan))
    BY <1>1 DEF UpdateSpins, At
  <2>2. cmd.vlan \in Vlans
    BY <2>1, CmdIs
  <2>3. broken
    BY <2>1, <2>2, SearchEnds
  <2>4. broken' = broken
    BY <1>1 DEF UpdateSpins, StopAs, tableVars
  <2> QED
    BY <2>3, <2>4, TableNext
<1>2. Hangs => UNCHANGED <<table, todo, pc, cmd, domains, fwd, broken>> /\ down' # "endless"
  BY DEF Hangs, StopAs, tableVars, domainVars
<1>3. \A why \in {"null", "freed"} : StopAs(why) =>
         UNCHANGED <<table, todo, pc, cmd, domains, fwd, broken>> /\ down' # "endless"
  BY DEF StopAs, tableVars, domainVars
<1>4. CASE StaticRegister \/ StaticUpdate \/ StaticDeregister
  BY <1>2, <1>4, TableSame DEF StaticRegister, StaticUpdate, StaticDeregister, tableVars, domainVars
<1>5. CASE QueryStatics \/ QueryStaticsCont
  BY <1>2, <1>3, <1>5, TableSame DEF QueryStatics, QueryStaticsCont, tableVars, domainVars
<1>6. CASE FlushStatic \/ FlushAll \/ FlushLearned
  BY <1>2, <1>6, TableSame DEF FlushStatic, FlushAll, FlushLearned, tableVars, domainVars
<1>7. CASE RegisterAgain \/ QueryDomains \/ QueryDomainsCont \/ RtableLooksUp
  BY <1>2, <1>7, TableSame DEF RegisterAgain, QueryDomains, QueryDomainsCont, RtableLooksUp, tableVars
<1> QED
  BY <1>1, <1>4, <1>5, <1>6, <1>7

LEMMA RestSteps ==
    ASSUME Typed, TableInv, Update \/ Deregister \/ Undo \/ SkipIf \/ IfsDone \/ FlushIf
    PROVE  TableInv'
<1>1. CASE Update \/ Deregister
  <2>1. pc = "idle" /\ todo = <<>>
    BY <1>1 DEF Update, Deregister, Idle, Typed, CmdInv
  <2>2. UNCHANGED <<table, todo, domains, fwd, broken, down>>
    BY <1>1 DEF Update, Deregister, tableVars
  <2>3. pc' \notin {"link", "unlink"}
    BY <1>1, <2>1 DEF Update, Deregister, Start
  <2> QED
    BY <2>1, <2>2, <2>3, TableRests
<1>2. CASE SkipIf \/ IfsDone
  <2>1. pc = "ifs" /\ todo = <<>>
    BY <1>2 DEF SkipIf, IfsDone, At
  <2>2. UNCHANGED <<table, todo, domains, fwd, broken, down>>
    BY <1>2 DEF SkipIf, IfsDone, tableVars, domainVars
  <2>3. pc' \notin {"link", "unlink"}
    BY <1>2, <2>1 DEF SkipIf, IfsDone, Passed, Finish
  <2> QED
    BY <2>1, <2>2, <2>3, TableRests
<1>3. Hangs => TableInv'
  BY TableSame DEF Hangs, StopAs, tableVars, domainVars
<1>4. CASE (Undo \/ FlushIf) /\ ~Hangs
  <2>1. pc \in {"undo", "flush"} /\ todo = <<>>
    BY <1>4 DEF Undo, FlushIf, At
  <2>2. UNCHANGED <<table, todo, domains, fwd, broken, down>>
    BY <1>4 DEF Undo, FlushIf, tableVars, domainVars
  <2>3. pc' \notin {"link", "unlink"}
    BY <1>4 DEF Undo, FlushIf, Finish
  <2> QED
    BY <2>1, <2>2, <2>3, TableRests
<1> QED
  BY <1>1, <1>2, <1>3, <1>4

\* The last slot of a chain that has a head
LEMMA LastIs ==
    ASSUME NEW t \in Tables, Chained(t, {}), NEW v \in Vlans, t[Hash(v)].valid
    PROVE  /\ Last(Walk(t, v)) \in On(t, {}) /\ t[Last(Walk(t, v))].col = 0
           /\ Hash(t[Last(Walk(t, v))].vlan) = Hash(v)
<1> DEFINE w == Walk(t, v)
<1>1. t \in [Slots -> Entry]
  BY DEF Tables
<1>2. /\ w \in Seq(Slots) /\ Len(w) \in 1 .. Size /\ t[w[Len(w)]].col = 0
      /\ w[1] = Hash(v)
      /\ \A i \in 1 .. Len(w) : i # 1 \/ Len(w) # 1 =>
            w[i] \in On(t, {}) /\ Hash(t[w[i]].vlan) = Hash(v)
  BY <1>1, Rises
<1>3. Last(w) = w[Len(w)]
  BY DEF Last
<1>4. Hash(v) \in On(t, {}) /\ Hash(t[Hash(v)].vlan) = Hash(v)
  BY HashIs DEF On, Chained, Sound
<1> HIDE DEF w
<1>5. Len(w) \in 1 .. Len(w)
  BY <1>2, Sizes
<1>6. ASSUME Len(w) = 1
      PROVE  Last(w) \in On(t, {}) /\ t[Last(w)].col = 0 /\ Hash(t[Last(w)].vlan) = Hash(v)
  BY <1>2, <1>3, <1>4, <1>6
<1>7. ASSUME Len(w) # 1
      PROVE  Last(w) \in On(t, {}) /\ t[Last(w)].col = 0 /\ Hash(t[Last(w)].vlan) = Hash(v)
  BY <1>2, <1>3, <1>5, <1>7
<1> QED
  BY <1>6, <1>7 DEF w

\* The writes of an addition, as they are set out
LEMMA AddPlans ==
    ASSUME NEW t \in Tables, Good(t, {}, D, fwd), NEW v \in Vlans, MayAdd(t, v), t[Hash(v)].valid
    PROVE  \E p \in Slots : \E last \in On(t, {p}) :
              /\ last < p /\ p >= Coll /\ t[last].col = 0 /\ Hash(t[last].vlan) = Hash(v)
              /\ ~t[p].valid
              /\ AddWrites(t, v, {}) = Write(p, New(v, {})) \o Write(last, [t[last] EXCEPT !.col = p])
<1> DEFINE last == Last(Walk(t, v))
           p == CHOOSE q \in FreeFrom(t, v) : \A r \in FreeFrom(t, v) : q <= r
<1>1. FreeFrom(t, v) # {}
  BY DEF MayAdd
<1>2. p \in Slots /\ p >= last /\ p >= Coll /\ ~t[p].valid
  BY <1>1, FreeSlot
<1>3. last \in On(t, {}) /\ t[last].col = 0 /\ Hash(t[last].vlan) = Hash(v)
  BY LastIs DEF Good
<1>4. AddWrites(t, v, {}) = Write(p, New(v, {})) \o Write(last, [t[last] EXCEPT !.col = p])
  BY DEF AddWrites
<1> HIDE DEF p, last
<1>5. last # p /\ last \in Slots /\ last \in On(t, {p})
  BY <1>2, <1>3 DEF On
<1>6. last < p
  BY <1>2, <1>5, Sizes
<1> QED
  BY <1>2, <1>3, <1>4, <1>5, <1>6

LEMMA RegisterStep ==
    ASSUME Typed, TableInv, Register
    PROVE  TableInv'
<1>1. PICK v \in Users : \E want \in SUBSET IfsOf[v] :
        /\ v \notin D
        /\ \/ /\ MayAdd(table, v)
              /\ Put(AddWrites(table, v, {}), FALSE)
              /\ Start("register", v, want, "link", {})
           \/ /\ Put(DeleteWrites(table, v), DeleteCuts(table, v))
              /\ Start("register", v, want, "undo", {})
  BY DEF Register, IsDomain, D
<1>2. pc = "idle" /\ todo = <<>> /\ UNCHANGED <<domains, fwd, down>> /\ D' = D
  BY DEF Register, Idle, Typed, CmdInv, D
<1>3. table \in Tables /\ table \in [Slots -> Entry] /\ v \in Vlans
  BY VlansAre DEF Typed, DomTypes, Tables
<1> SUFFICES ASSUME ~broken'
             PROVE  down' # "endless" /\ (Settled(Target)' \/ Pending')
  BY TableNext
<1>4. ~broken
  BY <1>1 DEF Put
<1>5. Good(table, {}, D, fwd) /\ down # "endless"
  BY <1>2, <1>4, AtRest DEF Target
<1>6. CASE /\ MayAdd(table, v) /\ Put(AddWrites(table, v, {}), FALSE)
           /\ pc' = "link" /\ cmd'.vlan = v
  <2>1. table' = table /\ todo' = AddWrites(table, v, {})
    BY <1>6 DEF Put
  <2>2. CASE ~table[Hash(v)].valid
    <3>1. todo' = Write(Hash(v), New(v, {}))
      BY <2>1, <2>2 DEF AddWrites
    <3>2. Adding'
      BY <1>2, <1>5, <1>6, <2>1, <2>2, <3>1 DEF Adding, D
    <3> QED
      BY <1>2, <1>5, <1>6, <3>2 DEF Pending
  <2>3. CASE table[Hash(v)].valid
    <3>1. PICK p \in Slots : \E last \in On(table, {p}) :
            /\ last < p /\ p >= Coll /\ table[last].col = 0 /\ Hash(table[last].vlan) = Hash(v)
            /\ ~table[p].valid
            /\ AddWrites(table, v, {}) = Write(p, New(v, {})) \o Write(last, [table[last] EXCEPT !.col = p])
      BY <1>3, <1>5, <1>6, <2>3, AddPlans
    <3>2. Links(p)'
      BY <1>2, <1>5, <1>6, <2>1, <3>1 DEF Links, D
    <3>3. Adding'
      BY <3>2 DEF Adding
    <3> QED
      BY <1>2, <1>5, <1>6, <3>3 DEF Pending
  <2> QED
    BY <2>2, <2>3
<1>7. CASE Put(DeleteWrites(table, v), DeleteCuts(table, v)) /\ pc' = "undo"
  <2>1. Place(table, v) = 0
    BY <1>1, <1>3, <1>5, Absent DEF Good
  <2>2. DeleteWrites(table, v) = <<>>
    BY <2>1 DEF DeleteWrites
  <2>3. table' = table /\ todo' = <<>> /\ Target' = D
    BY <1>2, <1>7, <2>2 DEF Put, Target
  <2> QED
    BY <1>2, <1>5, <2>3 DEF Settled
<1>8. PICK want \in SUBSET IfsOf[v] :
        \/ /\ MayAdd(table, v)
           /\ Put(AddWrites(table, v, {}), FALSE)
           /\ Start("register", v, want, "link", {})
        \/ /\ Put(DeleteWrites(table, v), DeleteCuts(table, v))
           /\ Start("register", v, want, "undo", {})
  BY <1>1
<1>9. \A step : Start("register", v, want, step, {}) => pc' = step /\ cmd'.vlan = v
  BY DEF Start
<1> QED
  BY <1>6, <1>7, <1>8, <1>9

LEMMA LinkKeeps ==
    ASSUME Typed, TableInv, Link
    PROVE  TableInv'
<1>1. Hangs => TableInv'
  BY TableSame DEF Hangs, StopAs, tableVars, domainVars
<1> SUFFICES ASSUME ~Hangs, ~broken'
             PROVE  down' # "endless" /\ Settled(Target)'
  BY <1>1, TableNext
<1>2. /\ pc = "link" /\ todo = <<>> /\ pc' = "ucast" /\ UNCHANGED <<table, todo, fwd, down, broken>>
      /\ domains' = Append(domains, cmd.vlan)
  BY DEF Link, At, Goto, tableVars
<1>3. Good(table, {}, D \cup {cmd.vlan}, fwd) /\ down # "endless"
  BY <1>2, AtRest DEF Target
<1>4. Range(domains') = D \cup {cmd.vlan}
  BY <1>2, CmdIs, RangeOfAppend DEF Typed, DomTypes, D
<1>5. Target' = D \cup {cmd.vlan}
  BY <1>2, <1>4 DEF Target, D
<1> QED
  BY <1>2, <1>3, <1>5 DEF Settled

LEMMA UnlinkKeeps ==
    ASSUME Typed, TableInv, Unlink
    PROVE  TableInv'
<1>1. Hangs => TableInv'
  BY TableSame DEF Hangs, StopAs, tableVars, domainVars
<1> SUFFICES ASSUME ~Hangs, ~broken'
             PROVE  down' # "endless" /\ Settled(Target)'
  BY <1>1, TableNext
<1> DEFINE v == cmd.vlan
<1>2. /\ pc = "unlink" /\ todo = <<>> /\ pc' = "idle" /\ UNCHANGED <<table, todo, down, broken>>
      /\ domains' = Only(domains, Vlans \ {v}) /\ fwd' = [fwd EXCEPT ![v] = {}]
  BY DEF Unlink, At, Finish, tableVars
<1>3. Good(table, {}, D \ {v}, fwd) /\ down # "endless"
  BY <1>2, AtRest DEF Target
<1>4. D \subseteq Vlans /\ Range(domains') = D \cap (Vlans \ {v})
  BY <1>2, OnlyIs, RangeOf DEF Typed, DomTypes, D
<1>5. Target' = D \ {v}
  BY <1>2, <1>4 DEF Target, D
<1>6. table \in Tables /\ fwd \in [Vlans -> SUBSET Ifs]
  BY DEF Typed, DomTypes
<1>7. \A q \in On(table, {}) : table[q].vlan \in D \ {v} /\ table[q].act = fwd[table[q].vlan]
  BY <1>3 DEF Good, Holds, Tells
<1>8. Tells(table, {}, fwd', {})
  BY <1>2, <1>4, <1>6, <1>7 DEF Tells
<1>9. Good(table, {}, D \ {v}, fwd')
  BY <1>3, <1>8 DEF Good
<1> QED
  BY <1>2, <1>3, <1>5, <1>9 DEF Settled

\* An update of an entry that is there, and whose end of the chain it is if it
\* is not at its head, changes the forward list alone.
LEMMA UpdatePlans ==
    ASSUME NEW t \in Tables, NEW V, Chained(t, {}), Holds(t, {}, V), NEW v \in Vlans, v \in V,
           NEW a \in SUBSET Ifs, ~UpdateCuts(t, v)
    PROVE  /\ MayUpdate(t, v)
           /\ \E p \in On(t, {}) :
                 t[p].vlan = v /\ UpdateWrites(t, v, a) = Write(p, [t[p] EXCEPT !.act = a])
<1> DEFINE w == Walk(t, v)
           at == Place(t, v)
           p == w[at]
<1>1. t \in [Slots -> Entry]
  BY DEF Tables
<1>2. /\ at \in 1 .. Len(w) /\ p \in On(t, {}) /\ t[p].vlan = v
      /\ t[Hash(v)].valid
  BY <1>1, Present
<1>3. at \in Nat /\ at >= 1
  BY <1>2, SlotsOfWalk
<1>4. MayUpdate(t, v)
  BY <1>2, <1>3 DEF MayUpdate
<1>5. at > 1 => t[p].col = 0
  BY DEF UpdateCuts
<1>6. UpdateWrites(t, v, a) = IF at = 1 THEN Write(p, [t[p] EXCEPT !.act = a, !.valid = TRUE])
                              ELSE Write(p, New(v, a))
  BY DEF UpdateWrites
<1> HIDE DEF p, at, w
<1>7. t[p] \in Entry /\ t[p].valid = TRUE
  <2>1. p \in Slots /\ t[p].valid
    BY <1>2 DEF On
  <2>2. t[p] \in Entry
    BY <1>1, <2>1
  <2>3. t[p].valid \in BOOLEAN
    BY <2>2, EntryFields
  <2> QED
    BY <2>1, <2>2, <2>3
<1>8. [t[p] EXCEPT !.act = a, !.valid = TRUE] = [t[p] EXCEPT !.act = a]
  BY <1>7 DEF Entry
<1>9. at > 1 => New(v, a) = [t[p] EXCEPT !.act = a]
  <2>1. ASSUME NEW e \in Entry, e.valid = TRUE, e.vlan = v, e.col = 0
        PROVE  New(v, a) = [e EXCEPT !.act = a]
    <3>1. [e EXCEPT !.act = a] = [valid |-> e.valid, vlan |-> e.vlan, act |-> a, col |-> e.col]
      BY DEF Entry
    <3> QED
      BY <2>1, <3>1 DEF New
  <2> QED
    BY <1>2, <1>5, <1>7, <2>1
<1>10. UpdateWrites(t, v, a) = Write(p, [t[p] EXCEPT !.act = a])
  BY <1>3, <1>6, <1>8, <1>9
<1> QED
  BY <1>2, <1>4, <1>10

\* A step that updates the entry of the command's VLAN leaves the write pending.
LEMMA EntryKeeps ==
    ASSUME Typed, TableInv, At(pc), pc \in {"ucast", "mcast", "ifs", "remove"},
           NEW a \in SUBSET Ifs, fwd'[cmd.vlan] = a, UpdatesEntry(a),
           \A v \in Vlans : v # cmd.vlan => fwd'[v] = fwd[v],
           MayUpdate(table, cmd.vlan) =>
              cmd' = cmd /\ domains' = domains /\ pc' \in {"mcast", "ifs", "flush", "remove"}
    PROVE  TableInv'
<1> SUFFICES ASSUME ~broken'
             PROVE  down' # "endless" /\ Pending'
  BY TableNext
<1> DEFINE v == cmd.vlan
<1>1. table \in Tables /\ v \in Vlans /\ v \in D /\ todo = <<>>
  BY CmdIs DEF Typed, DomTypes, CmdInv, D, At
<1>2. ~broken
  BY DEF UpdatesEntry, Put, tableVars
<1>3. Good(table, {}, D, fwd) /\ down # "endless" /\ down' = down
  BY <1>1, <1>2, AtRest DEF Target, UpdatesEntry
<1>4. Chained(table, {}) /\ Holds(table, {}, D) /\ Tells(table, {}, fwd, {})
  BY <1>3 DEF Good
<1>5. ASSUME MayUpdate(table, v)
      PROVE  /\ ~UpdateCuts(table, v) /\ table' = table /\ todo' = UpdateWrites(table, v, a)
  BY <1>5 DEF UpdatesEntry, Put
<1>6. ASSUME ~MayUpdate(table, v)
      PROVE  FALSE
  <2>1. Place(table, v) \in Nat /\ Place(table, v) # 0 /\ table[Hash(v)].valid
    <3>1. table \in [Slots -> Entry]
      BY <1>1 DEF Tables
    <3>2. Place(table, v) \in 1 .. Len(Walk(table, v)) /\ table[Hash(v)].valid
      BY <1>1, <1>4, <3>1, Present
    <3> QED
      BY <1>1, <3>2, SlotsOfWalk
  <2> QED
    BY <1>6, <2>1 DEF MayUpdate
<1>7. PICK p \in On(table, {}) :
        table[p].vlan = v /\ UpdateWrites(table, v, a) = Write(p, [table[p] EXCEPT !.act = a])
  BY <1>1, <1>4, <1>5, <1>6, UpdatePlans
<1>8. Tells(table, {}, fwd', {v})
  <2>1. \A q \in On(table, {}) : table[q].vlan \in Vlans
    BY <1>1, EntryFields DEF On, Tables
  <2> QED
    BY <1>4, <2>1 DEF Tells
<1>9. cmd' = cmd /\ D' = D /\ pc' \in {"mcast", "ifs", "flush", "remove"} /\ table' = table
  BY <1>5, <1>6 DEF D
<1>10. Updating(D)'
  BY <1>4, <1>5, <1>6, <1>7, <1>8, <1>9 DEF Updating
<1> QED
  BY <1>3, <1>9, <1>10 DEF Pending

LEMMA EntryStepsKeep ==
    ASSUME Typed, TableInv, SetUcast \/ SetMcast \/ AddIf \/ ReplaceIf \/ DropIf \/ RemoveIf
    PROVE  TableInv'
<1>1. pc # "idle" => cmd.vlan \in Vlans
  BY CmdIs
<1>2. fwd \in [Vlans -> SUBSET Ifs] /\ ifaces \in [Vlans -> SUBSET Ifs] /\ rest \subseteq Ifs
  BY DEF Typed, DomTypes
<1>3. CASE SetUcast \/ SetMcast
  <2>1. /\ pc \in {"ucast", "mcast"} /\ At(pc) /\ UpdatesEntry(fwd[cmd.vlan])
        /\ UNCHANGED <<domains, fwd>>
    BY <1>3 DEF SetUcast, SetMcast, At, UpdateEntry, UpdatesEntry, domainVars
  <2>2. MayUpdate(table, cmd.vlan) => cmd' = cmd /\ pc' \in {"mcast", "ifs"}
    BY <1>3 DEF SetUcast, SetMcast, UpdateEntry, Goto
  <2> DEFINE a == fwd[cmd.vlan]
  <2>3. a \in SUBSET Ifs
    BY <1>1, <1>2, <2>1
  <2>4. fwd'[cmd.vlan] = a /\ UpdatesEntry(a) /\ \A v \in Vlans : v # cmd.vlan => fwd'[v] = fwd[v]
    BY <2>1
  <2> HIDE DEF a
  <2>5. PICK b \in SUBSET Ifs : b = a
    BY <2>3
  <2>6. fwd'[cmd.vlan] = b /\ UpdatesEntry(b)
    BY <2>4, <2>5
  <2> QED
    BY <2>1, <2>2, <2>4, <2>6, EntryKeeps
<1>4. CASE AddIf
  <2>1. /\ pc = "ifs" /\ At(pc) /\ rest # {} /\ UpdatesEntry(fwd'[cmd.vlan])
        /\ fwd' = [fwd EXCEPT ![cmd.vlan] = @ \cup {NextIf}] /\ UNCHANGED domains
    BY <1>4 DEF AddIf, At, UpdateEntry, UpdatesEntry
  <2>2. MayUpdate(table, cmd.vlan) => cmd' = cmd /\ pc' = "ifs"
    BY <1>4, <2>1 DEF AddIf, UpdateEntry, Passed
  <2>3. NextIf \in Ifs
    BY <1>2, <2>1, NextIfIs
  <2> DEFINE a == fwd[cmd.vlan] \cup {NextIf}
  <2>4. a \in SUBSET Ifs
    BY <1>1, <1>2, <2>1, <2>3
  <2>5. fwd'[cmd.vlan] = a /\ \A v \in Vlans : v # cmd.vlan => fwd'[v] = fwd[v]
    BY <1>1, <1>2, <2>1
  <2> HIDE DEF a
  <2>6. PICK b \in SUBSET Ifs : b = a
    BY <2>4
  <2>7. fwd'[cmd.vlan] = b /\ UpdatesEntry(b)
    BY <2>1, <2>5, <2>6
  <2> QED
    BY <2>1, <2>2, <2>5, <2>7, EntryKeeps
<1>5. CASE ReplaceIf \/ DropIf \/ RemoveIf
  <2>1. /\ pc \in {"ifs", "remove"} /\ At(pc) /\ rest # {} /\ UpdatesEntry(fwd'[cmd.vlan])
        /\ fwd' = [fwd EXCEPT ![cmd.vlan] = @ \ {NextIf}] /\ UNCHANGED domains
    BY <1>5 DEF ReplaceIf, DropIf, RemoveIf, DelIf, At, UpdateEntry, UpdatesEntry
  <2>2. MayUpdate(table, cmd.vlan) => cmd' = cmd /\ pc' \in {"ifs", "flush"}
    <3>1. CASE ReplaceIf
      BY <3>1 DEF ReplaceIf, At, DelIf, UpdateEntry
    <3>2. CASE DropIf
      BY <3>2 DEF DropIf, DelIf, UpdateEntry, Goto
    <3>3. CASE RemoveIf
      BY <3>3 DEF RemoveIf, DelIf, UpdateEntry, Goto
    <3> QED
      BY <1>5, <3>1, <3>2, <3>3
  <2> DEFINE a == fwd[cmd.vlan] \ {NextIf}
  <2>3. a \in SUBSET Ifs
    BY <1>1, <1>2, <2>1
  <2>4. fwd'[cmd.vlan] = a /\ \A v \in Vlans : v # cmd.vlan => fwd'[v] = fwd[v]
    BY <1>1, <1>2, <2>1
  <2> HIDE DEF a
  <2>5. PICK b \in SUBSET Ifs : b = a
    BY <2>3
  <2>6. fwd'[cmd.vlan] = b /\ UpdatesEntry(b)
    BY <2>1, <2>4, <2>5
  <2> QED
    BY <2>1, <2>2, <2>4, <2>6, EntryKeeps
<1> QED
  BY <1>3, <1>4, <1>5

\* The writes of a removal, as they are set out
LEMMA DestroyKeeps ==
    ASSUME Typed, TableInv, Destroy
    PROVE  TableInv'
<1> SUFFICES ASSUME ~broken'
             PROVE  down' # "endless" /\ Pending'
  BY TableNext
<1> DEFINE v == cmd.vlan
           w == Walk(table, v)
           at == Place(table, v)
           p == w[at]
           next == table[p].col
           prev == w[at - 1]
<1>1. /\ pc = "remove" /\ todo = <<>> /\ pc' = "unlink" /\ cmd' = cmd
      /\ UNCHANGED <<table, domains, fwd, down>>
      /\ todo' = DeleteWrites(table, v) /\ broken' = (broken \/ DeleteCuts(table, v))
  BY DEF Destroy, At, Put, Goto, domainVars
<1>2. ~broken /\ ~DeleteCuts(table, v)
  BY <1>1
<1>3. table \in Tables /\ table \in [Slots -> Entry] /\ v \in Vlans /\ v \in D
  BY <1>1, CmdIs DEF Typed, DomTypes, CmdInv, D, Tables
<1>4. Good(table, {}, D, fwd) /\ down # "endless"
  BY <1>1, <1>2, AtRest DEF Target
<1>5. Chained(table, {}) /\ Holds(table, {}, D)
  BY <1>4 DEF Good
<1>6. at \in 1 .. Len(w) /\ p \in On(table, {}) /\ table[p].vlan = v
  BY <1>3, <1>5, Present
<1>7. /\ w \in Seq(Slots) /\ w[1] = Hash(v)
      /\ \A i \in 1 .. Len(w) - 1 : w[i + 1] = table[w[i]].col /\ w[i + 1] # 0
      /\ \A i \in 1 .. Len(w) : i # 1 => w[i] >= Coll
  BY <1>3, <1>5, Rises
<1>8. Hash(v) < Coll /\ at \in Nat /\ at >= 1
  BY <1>3, <1>6, HashIs, SlotsOfWalk
<1>9. DeleteWrites(table, v) =
        CASE at = 0 -> <<>>
          [] at = 1 /\ next = 0 -> Write(p, Zero)
          [] at = 1 /\ next # 0 -> MoveToHead(table, p, next)
          [] at > 1 /\ next # 0 -> Write(prev, [table[prev] EXCEPT !.col = next]) \o Write(p, Zero)
          [] at > 1 /\ next = 0 -> Write(prev, [table[prev] EXCEPT !.valid = FALSE, !.col = 0])
                                     \o Write(p, Zero)
  BY DEF DeleteWrites
<1>10. at > 1 => next # 0
  BY <1>2 DEF DeleteCuts
<1>11. at > 1 => p >= Coll /\ prev \in Slots /\ table[prev].col = p
  <2>1. ASSUME at > 1
        PROVE  at - 1 \in 1 .. Len(w) - 1 /\ (at - 1) + 1 = at /\ at # 1
    BY <1>6, <1>7, <2>1
  <2>2. at > 1 => w[(at - 1) + 1] = table[w[at - 1]].col
    BY <1>7, <2>1
  <2>3. at > 1 => prev \in Slots
    BY <1>7, <2>1
  <2>4. at > 1 => p >= Coll
    BY <1>6, <1>7
  <2> QED
    BY <2>1, <2>2, <2>3, <2>4
<1>12. at = 1 => p < Coll
  BY <1>7, <1>8
<1>13. p \in Slots /\ table[p].valid
  BY <1>6 DEF On
<1> HIDE DEF at, w, prev, p
<1>14. \/ p < Coll /\ next = 0 /\ todo' = Write(p, Zero)
       \/ p < Coll /\ next # 0 /\ todo' = MoveToHead(table, p, next)
       \/ /\ prev \in Slots /\ table[prev].col = p /\ next # 0 /\ p >= Coll
          /\ todo' = Write(prev, [table[prev] EXCEPT !.col = next]) \o Write(p, Zero)
  <2>1. CASE at = 1
    BY <1>1, <1>9, <1>12, <2>1
  <2>2. CASE at > 1
    BY <1>1, <1>9, <1>10, <1>11, <2>2
  <2>3. at = 1 \/ at > 1
    BY <1>8
  <2> QED
    BY <2>1, <2>2, <2>3
<1>15. PICK q, r : q = p /\ r = prev
  OBVIOUS
<1>16. \/ q < Coll /\ table[q].col = 0 /\ todo' = Write(q, Zero)
       \/ q < Coll /\ table[q].col # 0 /\ todo' = MoveToHead(table, q, table[q].col)
       \/ /\ r \in Slots /\ table[r].col = q /\ table[q].col # 0 /\ q >= Coll
          /\ todo' = Write(r, [table[r] EXCEPT !.col = table[q].col]) \o Write(q, Zero)
  BY <1>14, <1>15
<1>17. q \in Slots /\ table[q].valid /\ table[q].vlan = v
  BY <1>6, <1>13, <1>15
<1>18. Removing'
  BY <1>1, <1>4, <1>16, <1>17 DEF Removing, D
<1> QED
  BY <1>1, <1>4, <1>18 DEF Pending

LEMMA TableStep ==
    ASSUME Typed, TableInv, [Next]_vars
    PROVE  TableInv'
<1>1. CASE UNCHANGED vars
  BY <1>1, TableSame DEF vars
<1>2. CASE Commands
  BY <1>2, StopSteps, RestSteps, RegisterStep DEF Commands
<1>3. CASE WriteOne
  <2>1. broken => TableInv'
    <3>1. broken => broken'
      BY <1>3 DEF WriteOne
    <3> QED
      BY <3>1, TableNext
  <2> QED
    BY <1>3, <2>1, WriteStep
<1>4. CASE Steps /\ ~WriteOne
  BY <1>4, StopSteps, RestSteps, LinkKeeps, UnlinkKeeps, EntryStepsKeep, DestroyKeeps DEF Steps
<1> QED
  BY <1>1, <1>2, <1>3, <1>4 DEF Next

-----------------------------------------------------------------------------
(* The theorems *)

LEMMA InitTyped ==
    ASSUME Init
    PROVE  Typed /\ StaticInv /\ TypeOK
<1>1. /\ Default \in Vlans /\ Fallback \in Vlans /\ Default # Fallback
  BY VlansAre
<1>2. Zero \in Entry /\ New(Default, {}) \in Entry /\ New(Fallback, {}) \in Entry
  <2>1. {} \in SUBSET Ifs
    OBVIOUS
  <2> QED
    BY <1>1, <2>1, EntriesAre
<1>3. table \in Tables
  BY <1>2 DEF Init, Tables
<1>4. /\ domains \in Seq(Vlans) /\ Len(domains) = 2 /\ domains[1] = Default /\ domains[2] = Fallback
  BY <1>1 DEF Init
<1>5. Range(domains) = {Default, Fallback}
  BY <1>4, RangeOf
<1>6. Once(domains)
  BY <1>1, <1>4 DEF Once
<1>7. todo \in Writes /\ broken \in BOOLEAN /\ mutex \in BOOLEAN /\ down \in Downs
  <2>1. todo = <<>> /\ broken = FALSE /\ mutex = FALSE /\ down = None
    BY DEF Init
  <2>2. todo \in Writes
    BY <2>1 DEF Writes
  <2> QED
    BY <2>1, <2>2 DEF Downs
<1>8. fwd \in [Vlans -> SUBSET Ifs] /\ ifaces \in [Vlans -> SUBSET Ifs]
      /\ \A v \in Vlans : fwd[v] = {} /\ ifaces[v] = {}
  BY DEF Init
<1>9. pc = "idle" /\ cmd = NoCmd /\ rest = {} /\ todo = <<>> /\ domCrit = Default /\ curDomain = End
  BY DEF Init
<1>10. DomTypes
  BY <1>1, <1>3, <1>4, <1>7, <1>8, <1>9 DEF DomTypes, Pcs
<1>11. CmdInv
  BY <1>5, <1>6, <1>8, <1>9 DEF CmdInv
<1>12. StaticInv
  <2>1. statics \in Seq(Keys) /\ Range(statics) = {} /\ Once(statics)
    BY DEF Init, Range, Once
  <2>2. /\ statCrit = All /\ unsure = {} /\ timeouts = 0 /\ curStatic = Null
        /\ mutex = FALSE /\ down = None
        /\ list = [k \in Keys |-> None] /\ mac = [k \in Keys |-> None]
    BY DEF Init
  <2>3. HangNeedsTimeout
    BY <2>2, NamesApart DEF HangNeedsTimeout
  <2>4. timeouts \in 0 .. MaxTimeouts
    BY <2>2, NamesApart
  <2> QED
    BY <2>1, <2>2, <2>3, <2>4 DEF StaticInv, IsStatic
<1>13. TypeOK
  BY <1>10, <1>12, TypesAre
<1> QED
  BY <1>10, <1>11, <1>12, <1>13 DEF Typed

LEMMA InitTable ==
    ASSUME Init, Hash(Default) # Hash(Fallback)
    PROVE  TableInv
<1> DEFINE d == Hash(Default)
           f == Hash(Fallback)
<1>1. /\ Default \in Vlans /\ Fallback \in Vlans /\ Default # Fallback
      /\ d \in Slots /\ f \in Slots /\ d < Coll /\ f < Coll /\ d # f
  BY VlansAre, HashIs
<1>2. /\ ~Zero.valid /\ Zero.col = 0
      /\ New(Default, {}).valid /\ New(Default, {}).col = 0
      /\ New(Default, {}).vlan = Default /\ New(Default, {}).act = {}
      /\ New(Fallback, {}).valid /\ New(Fallback, {}).col = 0
      /\ New(Fallback, {}).vlan = Fallback /\ New(Fallback, {}).act = {}
  <2>1. {} \in SUBSET Ifs
    OBVIOUS
  <2> QED
    BY <1>1, <2>1, EntriesAre
<1>3. /\ table[d] = New(Default, {}) /\ table[f] = New(Fallback, {})
      /\ \A p \in Slots : p # d /\ p # f => table[p] = Zero
  BY <1>1 DEF Init
<1>4. On(table, {}) = {d, f}
  BY <1>1, <1>2, <1>3 DEF On
<1>5. Range(domains) = {Default, Fallback}
  <2>1. /\ domains \in Seq(Vlans) /\ Len(domains) = 2 /\ domains[1] = Default /\ domains[2] = Fallback
    BY <1>1 DEF Init
  <2> QED
    BY <2>1, RangeOf
<1> HIDE DEF d, f
<1>6. Sound(table, {})
  <2>1. \A p \in Slots : p >= Coll => ~table[p].valid
    BY <1>1, <1>2, <1>3, Sizes
  <2>2. \A p \in Slots : table[p].valid \/ table[p] = Zero
    BY <1>2, <1>3
  <2>3. \A p \in Slots : table[p].valid => Hash(table[p].vlan) = p
    BY <1>2, <1>3 DEF d, f
  <2> QED
    BY <2>1, <2>2, <2>3 DEF Sound
<1>7. Linked(table, {})
  BY <1>2, <1>3, <1>4 DEF Linked
<1>8. Holds(table, {}, {Default, Fallback})
  <2>1. {table[p].vlan : p \in On(table, {})} = {Default, Fallback}
    BY <1>2, <1>3, <1>4
  <2> QED
    BY <1>1, <1>2, <1>3, <1>4, <2>1 DEF Holds
<1>9. Tells(table, {}, fwd, {})
  <2>1. fwd[Default] = {} /\ fwd[Fallback] = {}
    BY <1>1 DEF Init
  <2> QED
    BY <1>2, <1>3, <1>4, <2>1 DEF Tells
<1>10. Settled(Range(domains))
  BY <1>5, <1>6, <1>7, <1>8, <1>9 DEF Settled, Good, Chained, Init
<1>11. pc = "idle" /\ down = None
  BY DEF Init
<1>12. down # "endless"
  BY <1>11, NamesApart
<1> QED
  BY <1>10, <1>11, <1>12 DEF TableInv

LEMMA IInvIs == IInv <=> Typed /\ StaticInv /\ (Hash(Default) # Hash(Fallback) => TableInv)
  BY TypesAre DEF IInv, Typed

LEMMA IInvInit ==
    ASSUME Init
    PROVE  IInv
  BY InitTyped, InitTable, IInvIs

LEMMA IInvStep ==
    ASSUME IInv, [Next]_vars
    PROVE  IInv'
<1>1. Typed /\ StaticInv /\ (Hash(Default) # Hash(Fallback) => TableInv)
  BY IInvIs
<1>2. (Typed /\ StaticInv /\ (Hash(Default) # Hash(Fallback) => TableInv))'
  BY <1>1, TypedStep, StaticStep, TableStep
<1> QED
  BY <1>2, IInvIs, PTL

\* The commands, the lists, the MAC table and the table of the classifier fit
\* together after every step, the table between any two writes to it.
THEOREM BridgeInvariant == Spec => []IInv
<1> QED
  BY IInvInit, IInvStep, PTL DEF Spec

\* What the firmware finds between two writes.
LEMMA FoundBetween ==
    ASSUME Typed, TableInv
    PROVE  ~broken =>
             /\ down # "endless"
             /\ \A v \in Vlans : ~Moving(v) =>
                  /\ Cardinality(Found(table, v)) = IF IsDomain(v) THEN 1 ELSE 0
                  /\ \A p \in Found(table, v) :
                        table[p].act = fwd[v] \/ (v = cmd.vlan /\ todo # <<>>)
<1> SUFFICES ASSUME ~broken
             PROVE  /\ down # "endless"
                    /\ \A v \in Vlans : ~Moving(v) =>
                         /\ Cardinality(Found(table, v)) = IF IsDomain(v) THEN 1 ELSE 0
                         /\ \A p \in Found(table, v) :
                               table[p].act = fwd[v] \/ (v = cmd.vlan /\ todo # <<>>)
  OBVIOUS
<1>1. down # "endless" /\ (Settled(Target) \/ Pending)
  BY TableInvIs
<1>2. \E O, V, X :
        /\ Chained(table, O) /\ Holds(table, O, V) /\ Tells(table, O, fwd, X)
        /\ X = {} \/ (X = {cmd.vlan} /\ todo # <<>>)
        /\ \A v \in Vlans : ~Moving(v) => (v \in V <=> v \in D)
  <2>1. \A v \in Vlans : ~Moving(v) => (v \in Target <=> v \in D)
    BY DEF Target, Moving
  <2>2. CASE Settled(Target)
    BY <2>1, <2>2 DEF Settled, Good
  <2>3. CASE pc = "link" /\ Adding
    <3>1. \E O : Good(table, O, D, fwd)
      BY <2>3 DEF Adding, Links, D
    <3> QED
      BY <3>1 DEF Good
  <2>4. CASE pc = "unlink" /\ Removing
    <3>1. \E O : Good(table, O, D, fwd) \/ Good(table, O, D \ {cmd.vlan}, fwd)
      BY <2>4 DEF Removing, D
    <3>2. \A v \in Vlans : ~Moving(v) => (v \in D \ {cmd.vlan} <=> v \in D)
      BY <2>4 DEF Moving
    <3> QED
      BY <3>1, <3>2 DEF Good
  <2>5. CASE Updating(D) /\ Pending
    <3>1. todo # <<>>
      BY <2>5, PendingIs
    <3> QED
      BY <2>5, <3>1 DEF Updating
  <2> QED
    BY <1>1, <2>2, <2>3, <2>4, <2>5 DEF Pending
<1>3. PICK O, V, X :
        /\ Chained(table, O) /\ Holds(table, O, V) /\ Tells(table, O, fwd, X)
        /\ X = {} \/ (X = {cmd.vlan} /\ todo # <<>>)
        /\ \A v \in Vlans : ~Moving(v) => (v \in V <=> v \in D)
  BY <1>2
<1>4. ASSUME NEW v \in Vlans, ~Moving(v)
      PROVE  /\ Cardinality(Found(table, v)) = IF IsDomain(v) THEN 1 ELSE 0
             /\ \A p \in Found(table, v) : table[p].act = fwd[v] \/ (v = cmd.vlan /\ todo # <<>>)
  <2>1. Found(table, v) = {p \in On(table, O) : table[p].vlan = v}
    BY <1>3, FoundIs DEF Typed, DomTypes, Tables
  <2>2. \A p \in Found(table, v) : table[p].act = fwd[v] \/ (v = cmd.vlan /\ todo # <<>>)
    BY <1>3, <2>1 DEF Tells
  <2>3. IsDomain(v) <=> v \in V
    BY <1>3, <1>4 DEF IsDomain, D
  <2>4. CASE v \in V
    <3>1. PICK p \in On(table, O) : table[p].vlan = v
      BY <1>3, <2>4 DEF Holds
    <3>2. Found(table, v) = {p}
      BY <1>3, <2>1, <3>1 DEF Holds
    <3>3. Cardinality({p}) = 1
      BY FS_Singleton
    <3> QED
      BY <2>2, <2>3, <2>4, <3>2, <3>3
  <2>5. CASE v \notin V
    <3>1. Found(table, v) = {}
      BY <1>3, <2>1, <2>5 DEF Holds
    <3> QED
      BY <2>2, <2>3, <2>5, <3>1, FS_EmptySet
  <2> QED
    BY <2>4, <2>5
<1> QED
  BY <1>1, <1>4

\* Between any two writes to the table the firmware finds every domain once,
\* with its forward list, and no other VLAN, until an inner entry of a chain was
\* updated or the last one removed.  (The default VLAN must not hash to the slot
\* of the fallback domain, or that one is missing from the start.)
THEOREM FirmwareFindsEveryDomain ==
    ASSUME Hash(Default) # Hash(Fallback)
    PROVE  Spec => []FirmwareFindsDomains
<1>1. ASSUME IInv
      PROVE  FirmwareFindsDomains
  <2>1. TypeOK /\ Typed /\ TableInv
    BY <1>1, IInvIs DEF IInv
  <2> QED
    BY <2>1, FoundBetween DEF FirmwareFindsDomains
<1> QED
  BY <1>1, BridgeInvariant, PTL

\* The MAC table has the static entries of the list, but for those whose last
\* command timed out, and nobody hangs on the mutex before one did.
THEOREM TimeoutsAreContained == Spec => []TimeoutsContained
<1>1. ASSUME IInv
      PROVE  TimeoutsContained
  <2>1. TypeOK /\ HangNeedsTimeout
        /\ \A k \in Keys \ unsure : mac[k] = list[k] /\ (list[k] # None <=> IsStatic(k))
    BY <1>1 DEF IInv, StaticInv
  <2>2. \A k \in Keys : (list[k] # None <=> IsStatic(k)) => (list[k] # None) = IsStatic(k)
    BY DEF IsStatic
  <2> QED
    BY <2>1, <2>2 DEF TimeoutsContained, StaticsMirrored
<1> QED
  BY <1>1, BridgeInvariant, PTL

\* Who leaves the cursor at a static entry that is gone
LEMMA FreedBy ==
    ASSUME Typed, StaticInv, [Next]_vars, curStatic' = Freed
    PROVE  curStatic = Freed \/ pc = "flush" \/ statics' = <<>>
<1>1. statics \in Seq(Keys) /\ Range(statics) \subseteq Keys
  BY RangeOf DEF StaticInv
<1>2. Freed \notin Range(statics) \cup {End}
  BY <1>1, TableAssumption
<1>3. \A k : Sought(statics, k, curStatic) = Freed => curStatic = Freed
  BY <1>1, <1>2, SoughtIn
<1>4. Calm => curStatic = Freed
  BY DEF Calm
<1>5. CASE StaticRegister
  BY <1>3, <1>4, <1>5, Stops DEF StaticRegister
<1>6. CASE StaticUpdate \/ StaticDeregister
  BY <1>3, <1>4, <1>6, Stops DEF StaticUpdate, StaticDeregister, LookUpStatic
<1>7. CASE QueryStatics
  <2>1. ASSUME statics # <<>>
        PROVE  After(statics, Head(statics)) # Freed
    <3>1. 1 \in 1 .. Len(statics) /\ Head(statics) = statics[1]
      BY <1>1, <2>1
    <3>2. Head(statics) \in Range(statics)
      BY <1>1, <3>1, RangeOf
    <3> QED
      BY <1>1, <1>2, <3>2, AfterIn
  <2> QED
    BY <1>4, <1>7, <2>1, Stops DEF QueryStatics
<1>8. CASE QueryStaticsCont
  <2>1. Onward(statics, curStatic, statCrit) # Freed
    BY <1>1, <1>2, OnwardIn
  <2> QED
    BY <1>4, <1>8, <2>1, Stops DEF QueryStaticsCont
<1>9. CASE FlushStatic \/ FlushAll
  <2>1. CASE Hangs
    BY <1>4, <2>1, Stops
  <2>2. CASE DestroyStatics(Keys)
    <3>1. Keys \in SUBSET Keys
      OBVIOUS
    <3>2. statics' \in Seq(Keys) /\ Range(statics') = Range(statics) \ Keys
      BY <2>2, <3>1, Destroyed
    <3>3. Range(statics') = {}
      BY <1>1, <3>2
    <3>4. \A s \in Seq(Keys) : Range(s) = {} => s = <<>>
      <4>1. ASSUME NEW s \in Seq(Keys), s # <<>>
            PROVE  Range(s) # {}
        <5>1. 1 \in 1 .. Len(s)
          BY <4>1
        <5> QED
          BY <5>1, RangeOf
      <4> QED
        BY <4>1
    <3> QED
      BY <3>2, <3>3, <3>4
  <2> QED
    BY <1>9, <2>1, <2>2 DEF FlushStatic, FlushAll
<1>10. CASE FlushIf
  BY <1>10 DEF FlushIf, At
<1>11. CASE UNCHANGED vars
  BY <1>11 DEF vars
<1>12. CASE Commands
  BY <1>4, <1>5, <1>6, <1>7, <1>8, <1>9, <1>12, CalmSteps DEF Commands
<1>13. CASE Steps
  BY <1>4, <1>10, <1>13, CalmSteps DEF Steps
<1> QED
  BY <1>11, <1>12, <1>13 DEF Next

\* No command leaves the cursor of the domains at one that is gone, and only a
\* flush does so with the cursor of the static entries.
THEOREM CursorsStayLive == Spec => CursorsLive
<1> DEFINE Lives ==
             /\ curDomain' \in Range(domains') \cup {End}
             /\ \/ curStatic' \in Range(statics') \cup {End, Null}
                \/ curStatic' = Freed /\ (curStatic = Freed \/ pc = "flush" \/ statics' = <<>>)
<1>1. ASSUME IInv, [Next]_vars
      PROVE  [Lives]_vars
  <2>1. Typed /\ StaticInv
    BY <1>1, IInvIs
  <2>2. Typed' /\ StaticInv'
    BY <1>1, <2>1, TypedStep, StaticStep
  <2>3. curDomain' \in Range(domains') \cup {End}
    BY <2>2 DEF Typed, CmdInv
  <2>4. curStatic' \in Range(statics') \cup {End, Null, Freed}
    BY <2>2 DEF StaticInv
  <2>5. curStatic' = Freed => curStatic = Freed \/ pc = "flush" \/ statics' = <<>>
    BY <1>1, <2>1, FreedBy
  <2> QED
    BY <2>3, <2>4, <2>5
<1>2. Spec => [][Lives]_vars
  BY <1>1, BridgeInvariant, PTL DEF Spec
<1> QED
  BY <1>2 DEF CursorsLive
=============================================================================
