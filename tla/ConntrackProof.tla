--------------------------- MODULE ConntrackProof ---------------------------
(***************************************************************************)
(* The routing table and the connections of the FCI, for any number of     *)
(* entries, connections and routes.                                        *)
(***************************************************************************)
EXTENDS Conntrack, FiniteSetTheorems, WellFoundedInduction, TLAPS

Cell == [live : BOOLEAN, tuple : Tuples \cup {None}, route : Routes \cup {None},
         rtable : BOOLEAN, ref : Int, child : Entries \cup {None},
         timeout : 0 .. Inf, curr : 0 .. Inf, active : BOOLEAN,
         callback : BOOLEAN, added : BOOLEAN]
Memory == [Entries -> Cell]
Lists == Seq(Entries)
Cursors == Entries \cup {None, End}

\* What the functions of the table work on, whatever else they carry along
IsState(s) ==
    /\ s = [f \in DOMAIN s |-> s[f]]
    /\ {"mem", "list", "cursor", "owed"} \subseteq DOMAIN s
    /\ s.mem \in Memory /\ s.list \in Lists /\ s.cursor \in Cursors
    /\ s.owed \in SUBSET Tuples

\* Entries in the table are live, and what is not live is not referred to.
Sound(m) ==
    \A e \in Entries :
        /\ ~m[e].live => ~m[e].rtable /\ ~m[e].added /\ m[e].ref = 0 /\ m[e].child = None
        /\ m[e].rtable => m[e].added /\ m[e].tuple \in Tuples
        /\ m[e].timeout # Inf => m[e].curr =< m[e].timeout

\* Partners point to each other.
Paired(m) ==
    \A e \in Entries : m[e].child # None =>
        m[e].child # e /\ m[m[e].child].live /\ m[m[e].child].child = e

\* No 5-tuple is twice in the table.
Unique(m) ==
    \A e, f \in Entries :
        m[e].rtable /\ m[f].rtable /\ m[e].tuple = m[f].tuple => e = f

\* One reference for the table, the others for pointers that the FCI worker
\* holds, h[e]; an entry that was removed lives as long as there is one.
Right(c, n) ==
    /\ c.ref = n + IF c.rtable THEN 1 ELSE 0
    /\ c.added /\ ~c.rtable => c.ref > 0
Counted(m, h, X) == \A e \in Entries \ X : Right(m[e], h[e])

Sane(m, h, X) == Sound(m) /\ Paired(m) /\ Unique(m) /\ Counted(m, h, X)

\* The list holds each entry of the table once, and the cursor is in it.
Distinct(es) == \A i, j \in 1 .. Len(es) : es[i] = es[j] => i = j
Listed(m, es, c) ==
    /\ Distinct(es)
    /\ \A e \in Entries : m[e].rtable <=> \E i \in 1 .. Len(es) : es[i] = e
    /\ c \in {None, End} \/ m[c].rtable

\* Who is owed a message has a connection, not among X.
Owing(m, o, X) ==
    \A t \in o : \E e \in Entries \ X :
        m[e].rtable /\ m[e].tuple = t /\ m[e].callback

Holdings == [Entries -> Nat]

-----------------------------------------------------------------------------
(* Lists *)

\* A set of numbers has a least one.
LEMMA Least ==
    ASSUME NEW I \in SUBSET Nat, I # {}
    PROVE  Min(I) \in I /\ \A y \in I : Min(I) =< y
<1> DEFINE R == {p \in Nat \X Nat : p[1] < p[2]}
<1>1. IsWellFoundedOn(R, Nat)
  BY NatLessThanWellFounded DEF OpToRel
<1>2. PICK m \in I : \A y \in I : <<y, m>> \notin R
  <2> HIDE DEF R
  <2> QED
    BY <1>1, WFMin
<1>3. ASSUME NEW y \in I PROVE m =< y
  <2>1. ~(y < m)
    BY <1>2
  <2> QED
    BY <2>1
<1> QED
  BY <1>3 DEF Min

\* Where an entry is in a list
LEMMA WhereIs ==
    ASSUME NEW es \in Lists, NEW e
    PROVE  /\ Where(es, e) \in 0 .. Len(es)
           /\ Where(es, e) # 0 => es[Where(es, e)] = e
           /\ \A i \in 1 .. Len(es) : es[i] = e => Where(es, e) # 0
<1> DEFINE I == {i \in 1 .. Len(es) : es[i] = e}
           w == Where(es, e)
<1>1. Where(es, e) = IF I # {} THEN Min(I) ELSE 0
  BY DEF Where, SelectInSeq
<1>2. Len(es) \in Nat
  BY DEF Lists
<1>3. I \in SUBSET Nat
  BY <1>2
<1>4. I # {} => Min(I) \in I
  BY <1>3, Least
<1>5. CASE I = {}
  <2>1. w = 0
    BY <1>1, <1>5
  <2>2. \A i \in 1 .. Len(es) : es[i] # e
    BY <1>5
  <2> QED
    BY <1>2, <2>1, <2>2
<1>6. CASE I # {}
  <2>1. w \in I
    BY <1>1, <1>4, <1>6
  <2>2. w \in 1 .. Len(es) /\ es[w] = e
    BY <2>1
  <2> HIDE DEF w, I
  <2> QED
    BY <1>2, <2>2 DEF w
<1> QED
  BY <1>5, <1>6

\* There is only one place.
LEMMA WhereIn ==
    ASSUME NEW es \in Lists, Distinct(es), NEW k \in 1 .. Len(es)
    PROVE  Where(es, es[k]) = k
<1>1. Len(es) \in Nat
  BY DEF Lists
<1>2. Where(es, es[k]) \in 0 .. Len(es) /\ Where(es, es[k]) # 0 /\ es[Where(es, es[k])] = es[k]
  BY WhereIs
<1>3. Where(es, es[k]) \in 1 .. Len(es)
  BY <1>1, <1>2
<1> QED
  BY <1>2, <1>3 DEF Distinct

\* What follows is an entry or the head of the list.
LEMMA BehindTyped ==
    ASSUME NEW es \in Lists, NEW i \in 0 .. Len(es)
    PROVE  Behind(es, i) \in Cursors
<1>1. Len(es) \in Nat
  BY DEF Lists
<1>2. i # Len(es) => i + 1 \in 1 .. Len(es)
  BY <1>1
<1>3. \A j \in 1 .. Len(es) : es[j] \in Entries
  BY DEF Lists
<1> QED
  BY <1>2, <1>3 DEF Behind, Cursors

\* The list without its kth
LEMMA RemoveNth ==
    ASSUME NEW es \in Lists, NEW k \in 1 .. Len(es)
    PROVE  /\ RemoveAt(es, k) \in Lists
           /\ Len(RemoveAt(es, k)) = Len(es) - 1
           /\ \A i \in 1 .. Len(es) - 1 :
                 RemoveAt(es, k)[i] = IF i < k THEN es[i] ELSE es[i + 1]
<1> DEFINE p == SubSeq(es, 1, k - 1)
           q == SubSeq(es, k + 1, Len(es))
<1>1. Len(es) \in Nat /\ k - 1 \in Nat
  BY DEF Lists
<1>2. /\ p \in Seq(Entries) /\ Len(p) = k - 1
      /\ \A i \in 1 .. k - 1 : p[i] = es[i]
  BY <1>1 DEF Lists
<1>3. /\ q \in Seq(Entries) /\ Len(q) = Len(es) - k
      /\ \A i \in 1 .. Len(es) - k : q[i] = es[k + i]
  BY <1>1 DEF Lists
<1>4. RemoveAt(es, k) = p \o q
  BY DEF RemoveAt
<1> HIDE DEF p, q
<1>5. /\ p \o q \in Seq(Entries) /\ Len(p \o q) = Len(es) - 1
      /\ \A i \in 1 .. Len(es) - 1 :
            (p \o q)[i] = IF i =< Len(p) THEN p[i] ELSE q[i - Len(p)]
  <2>1. /\ p \o q \in Seq(Entries) /\ Len(p \o q) = Len(p) + Len(q)
        /\ \A i \in 1 .. Len(p) + Len(q) :
              (p \o q)[i] = IF i =< Len(p) THEN p[i] ELSE q[i - Len(p)]
    <3>1. p \in Seq(Entries) /\ q \in Seq(Entries)
      BY <1>2, <1>3
    <3> QED
      BY <3>1
  <2>2. Len(p) + Len(q) = Len(es) - 1
    BY <1>1, <1>2, <1>3
  <2> QED
    BY <2>1, <2>2
<1>6. ASSUME NEW i \in 1 .. Len(es) - 1
      PROVE  (p \o q)[i] = IF i < k THEN es[i] ELSE es[i + 1]
  <2>1. CASE i < k
    <3>1. i \in 1 .. k - 1 /\ i =< Len(p)
      BY <1>1, <1>2, <2>1
    <3> QED
      BY <1>2, <1>5, <2>1, <3>1
  <2>2. CASE ~(i < k)
    <3>1. i - (k - 1) \in 1 .. Len(es) - k /\ ~(i =< k - 1) /\ k + (i - (k - 1)) = i + 1
      BY <1>1, <2>2
    <3>2. (p \o q)[i] = q[i - (k - 1)]
      BY <1>2, <1>5, <3>1
    <3> QED
      BY <1>3, <2>2, <3>1, <3>2
  <2> QED
    BY <2>1, <2>2
<1> QED
  BY <1>4, <1>5, <1>6 DEF Lists

\* pfe_rtable_del_entry_nolock leaves a list.
LEMMA RemoveTyped ==
    ASSUME NEW es \in Lists, NEW e
    PROVE  RemoveFirst(es, e) \in Lists
<1>1. Len(es) \in Nat
  BY DEF Lists
<1>2. RemoveFirst(es, e) = IF \E i \in 1 .. Len(es) : es[i] = e
                           THEN RemoveAt(es, Where(es, e)) ELSE es
  BY DEF RemoveFirst, Where
<1>3. CASE \E i \in 1 .. Len(es) : es[i] = e
  <2>1. Where(es, e) \in 1 .. Len(es)
    BY <1>1, <1>3, WhereIs
  <2> QED
    BY <1>2, <2>1, RemoveNth
<1> QED
  BY <1>2, <1>3

\* Out of a list without duplicates it takes exactly the entry.
LEMMA RemoveIs ==
    ASSUME NEW es \in Lists, Distinct(es), NEW k \in 1 .. Len(es)
    PROVE  /\ Len(RemoveFirst(es, es[k])) = Len(es) - 1
           /\ \A i \in 1 .. Len(es) - 1 :
                 RemoveFirst(es, es[k])[i] = IF i < k THEN es[i] ELSE es[i + 1]
<1>1. RemoveFirst(es, es[k]) = RemoveAt(es, Where(es, es[k]))
  BY DEF RemoveFirst, Where
<1>2. RemoveFirst(es, es[k]) = RemoveAt(es, k)
  BY <1>1, WhereIn
<1> QED
  BY <1>2, RemoveNth

\* An entry is not before the cursor.
Ahead(es, c, x) ==
    \E i, j \in 1 .. Len(es) : i =< j /\ es[i] = c /\ es[j] = x

\* Who is removed is gone, and nobody else.
LEMMA RemoveKeeps ==
    ASSUME NEW es \in Lists, Distinct(es), NEW k \in 1 .. Len(es)
    PROVE  LET fs == RemoveFirst(es, es[k])
           IN  /\ Distinct(fs)
               /\ \A x : (\E i \in 1 .. Len(fs) : fs[i] = x)
                          <=> (x # es[k] /\ \E i \in 1 .. Len(es) : es[i] = x)
               /\ \A c, x : x # es[k] /\ Ahead(es, c, x) =>
                     Ahead(fs, IF c = es[k] THEN Behind(es, k) ELSE c, x)
<1> DEFINE fs == RemoveFirst(es, es[k])
           d(c) == IF c = es[k] THEN Behind(es, k) ELSE c
           Old(i) == IF i < k THEN i ELSE i + 1
           New(i) == IF i < k THEN i ELSE i - 1
<1>1. Len(es) \in Nat
  BY DEF Lists
<1>2. /\ Len(fs) = Len(es) - 1
      /\ \A i \in 1 .. Len(es) - 1 : fs[i] = es[Old(i)]
  BY RemoveIs
<1> HIDE DEF fs
<1>3. \A i \in 1 .. Len(fs) : Old(i) \in 1 .. Len(es) /\ Old(i) # k /\ fs[i] = es[Old(i)]
  BY <1>1, <1>2
<1>4. \A i \in 1 .. Len(es) : i # k => New(i) \in 1 .. Len(fs) /\ Old(New(i)) = i
  BY <1>1, <1>2
<1>5. \A i \in 1 .. Len(es) : i # k => fs[New(i)] = es[i]
  BY <1>2, <1>3, <1>4
<1>6. Distinct(fs)
  <2> SUFFICES ASSUME NEW i \in 1 .. Len(fs), NEW j \in 1 .. Len(fs), fs[i] = fs[j]
               PROVE  i = j
    BY DEF Distinct
  <2>1. Old(i) = Old(j)
    BY <1>3 DEF Distinct
  <2> QED
    BY <1>1, <1>2, <2>1
<1>7. ASSUME NEW x
      PROVE  (\E i \in 1 .. Len(fs) : fs[i] = x)
                <=> (x # es[k] /\ \E i \in 1 .. Len(es) : es[i] = x)
  <2>1. ASSUME NEW i \in 1 .. Len(fs), fs[i] = x
        PROVE  x # es[k] /\ \E j \in 1 .. Len(es) : es[j] = x
    <3>1. Old(i) \in 1 .. Len(es) /\ Old(i) # k /\ es[Old(i)] = x
      BY <1>3, <2>1
    <3> HIDE DEF Old
    <3> QED
      BY <3>1 DEF Distinct
  <2>2. ASSUME x # es[k], NEW i \in 1 .. Len(es), es[i] = x
        PROVE  \E j \in 1 .. Len(fs) : fs[j] = x
    <3>1. i # k /\ New(i) \in 1 .. Len(fs) /\ fs[New(i)] = x
      BY <1>4, <1>5, <2>2
    <3> HIDE DEF New
    <3> QED
      BY <3>1
  <2> QED
    BY <2>1, <2>2
<1>8. ASSUME NEW c, NEW x, x # es[k], Ahead(es, c, x)
      PROVE  Ahead(fs, d(c), x)
  <2>1. PICK i \in 1 .. Len(es), j \in 1 .. Len(es) : i =< j /\ es[i] = c /\ es[j] = x
    BY <1>8 DEF Ahead
  <2>2. j # k /\ New(j) \in 1 .. Len(fs) /\ fs[New(j)] = x
    BY <1>4, <1>5, <1>8, <2>1
  <2>3. CASE c # es[k]
    <3>1. i # k /\ New(i) \in 1 .. Len(fs) /\ fs[New(i)] = c /\ d(c) = c
      BY <1>4, <1>5, <2>1, <2>3
    <3>2. New(i) =< New(j)
      BY <1>1, <2>1, <2>2, <3>1
    <3> HIDE DEF New, d
    <3> QED
      BY <2>2, <3>1, <3>2 DEF Ahead
  <2>4. CASE c = es[k]
    <3>1. i = k
      BY <2>1, <2>4 DEF Distinct
    <3>2. k + 1 \in 1 .. Len(es) /\ k # Len(es) /\ k + 1 # k /\ k + 1 =< j
      BY <1>1, <2>1, <2>2, <3>1
    <3>3. d(c) = es[k + 1]
      BY <2>4, <3>2 DEF Behind
    <3>4. New(k + 1) \in 1 .. Len(fs) /\ fs[New(k + 1)] = d(c)
      BY <1>4, <1>5, <3>2, <3>3
    <3>5. New(k + 1) =< New(j)
      BY <1>1, <2>1, <2>2, <3>2
    <3> HIDE DEF New, d
    <3> QED
      BY <2>2, <3>4, <3>5 DEF Ahead
  <2> QED
    BY <2>3, <2>4
<1> QED
  BY <1>6, <1>7, <1>8 DEF fs

-----------------------------------------------------------------------------
(* The memory of the entries *)

LEMMA Nobody == None \notin Entries /\ End \notin Entries /\ None # End /\ None \notin Tuples
BY ConntrackAssumption

LEMMA Forever == Inf \in Nat
BY ConntrackAssumption

LEMMA CellFields ==
    ASSUME NEW c \in Cell
    PROVE  /\ c.live \in BOOLEAN /\ c.tuple \in Tuples \cup {None}
           /\ c.route \in Routes \cup {None} /\ c.rtable \in BOOLEAN /\ c.ref \in Int
           /\ c.child \in Entries \cup {None} /\ c.timeout \in 0 .. Inf
           /\ c.curr \in 0 .. Inf /\ c.active \in BOOLEAN /\ c.callback \in BOOLEAN
           /\ c.added \in BOOLEAN
BY DEF Cell

LEMMA CellDomain ==
    ASSUME NEW c \in Cell
    PROVE  DOMAIN c = {"live", "tuple", "route", "rtable", "ref", "child", "timeout",
                       "curr", "active", "callback", "added"}
BY DEF Cell

\* What an entry is, what counts it, its partner and its times
Who(d, c) ==
    /\ d.live = c.live /\ d.tuple = c.tuple /\ d.route = c.route
    /\ d.callback = c.callback
Times(d, c) == d.timeout = c.timeout /\ d.curr = c.curr /\ d.active = c.active
Place(d, c) == d.rtable = c.rtable /\ d.added = c.added /\ d.ref = c.ref

\* An entry that has lost its partner
Orphan(d, c) == Who(d, c) /\ Times(d, c) /\ Place(d, c) /\ d.child = None

LEMMA BlankFields ==
    /\ Blank \in Cell
    /\ Blank.live = FALSE /\ Blank.rtable = FALSE /\ Blank.ref = 0 /\ Blank.added = FALSE
    /\ Blank.child = None /\ Blank.timeout = Inf
BY ConntrackAssumption DEF Blank, Cell

LEMMA OrphanCell ==
    ASSUME NEW c \in Cell
    PROVE  [c EXCEPT !.child = None] \in Cell /\ Orphan([c EXCEPT !.child = None], c)
BY DEF Cell, Orphan, Who, Times, Place

Released(m, e) ==
    [x \in Entries |-> IF x = e THEN Blank
                       ELSE IF x = m[e].child THEN [m[x] EXCEPT !.child = None] ELSE m[x]]

\* The memory after an entry was given back
LEMMA ReleasedView ==
    ASSUME NEW m \in Memory, NEW e \in Entries
    PROVE  /\ Released(m, e) \in Memory
           /\ Released(m, e)[e] = Blank
           /\ \A x \in Entries \ {e} :
                 IF x = m[e].child THEN Orphan(Released(m, e)[x], m[x])
                 ELSE Released(m, e)[x] = m[x]
<1>1. \A x \in Entries : m[x] \in Cell
  BY DEF Memory
<1> QED
  BY <1>1, BlankFields, OrphanCell DEF Released, Memory

\* An entry nobody points to can be given back.
LEMMA ReleasedSane ==
    ASSUME NEW m \in Memory, NEW e \in Entries, NEW h, NEW X,
           Sane(m, h, X), X \subseteq {e}, ~m[e].rtable, h[e] = 0
    PROVE  Sane(Released(m, e), h, {})
<1> DEFINE n == Released(m, e)
<1>1. /\ n[e] = Blank
      /\ \A x \in Entries \ {e} : IF x = m[e].child THEN Orphan(n[x], m[x]) ELSE n[x] = m[x]
  BY ReleasedView
<1> HIDE DEF n
<1>2. /\ \A x \in Entries \ {e} : Who(n[x], m[x]) /\ Times(n[x], m[x]) /\ Place(n[x], m[x])
      /\ \A x \in Entries \ {e} : n[x].child = IF x = m[e].child THEN None ELSE m[x].child
  BY <1>1 DEF Orphan, Who, Times, Place
<1>3. \A x \in Entries : n[x].rtable => x # e
  BY <1>1, BlankFields
<1>4. Sound(n)
  <2> SUFFICES ASSUME NEW x \in Entries
               PROVE  /\ ~n[x].live => ~n[x].rtable /\ ~n[x].added /\ n[x].ref = 0 /\ n[x].child = None
                      /\ n[x].rtable => n[x].added /\ n[x].tuple \in Tuples
                      /\ n[x].timeout # Inf => n[x].curr =< n[x].timeout
    BY DEF Sound
  <2>1. CASE x = e
    BY <1>1, <2>1, BlankFields
  <2>2. CASE x # e
    <3>1. /\ Who(n[x], m[x]) /\ Times(n[x], m[x]) /\ Place(n[x], m[x])
          /\ n[x].child \in {None, m[x].child}
      BY <1>2, <2>2
    <3>2. /\ ~m[x].live => ~m[x].rtable /\ ~m[x].added /\ m[x].ref = 0 /\ m[x].child = None
          /\ m[x].rtable => m[x].added /\ m[x].tuple \in Tuples
          /\ m[x].timeout # Inf => m[x].curr =< m[x].timeout
      BY DEF Sane, Sound
    <3> QED
      BY <3>1, <3>2 DEF Who, Times, Place
  <2> QED
    BY <2>1, <2>2
<1>5. Paired(n)
  <2> SUFFICES ASSUME NEW x \in Entries, n[x].child # None
               PROVE  n[x].child # x /\ n[n[x].child].live /\ n[n[x].child].child = x
    BY DEF Paired
  <2>1. x # e /\ x # m[e].child /\ n[x].child = m[x].child
    BY <1>1, <1>2, BlankFields
  <2>2. m[x].child # x /\ m[m[x].child].live /\ m[m[x].child].child = x
    BY <2>1 DEF Sane, Paired
  <2>3. m[x].child \in Entries
    BY <2>1, CellFields DEF Memory
  <2>4. m[x].child # e
    BY <2>1, <2>2
  <2>5. m[x].child # m[e].child
    BY <2>1, <2>2, <2>3 DEF Sane, Paired
  <2> QED
    BY <1>1, <2>1, <2>2, <2>3, <2>4, <2>5
<1>6. Unique(n)
  BY <1>2, <1>3 DEF Sane, Unique, Who, Place
<1>7. Counted(n, h, {})
  <2> SUFFICES ASSUME NEW x \in Entries PROVE Right(n[x], h[x])
    BY DEF Counted
  <2>1. CASE x = e
    BY <1>1, <2>1, BlankFields DEF Right
  <2>2. CASE x # e
    BY <1>2, <2>2 DEF Right, Place, Sane, Counted
  <2> QED
    BY <2>1, <2>2
<1> QED
  BY <1>4, <1>5, <1>6, <1>7 DEF Sane, n

\* The table and its list only depend on who is in the table.
LEMMA ListedKept ==
    ASSUME NEW m, NEW n, NEW es, NEW c \in Cursors, Listed(m, es, c),
           \A x \in Entries : n[x].rtable <=> m[x].rtable
    PROVE  Listed(n, es, c)
BY DEF Listed, Cursors

LEMMA OwingKept ==
    ASSUME NEW m, NEW n, NEW o, NEW p, NEW X, NEW Y, Owing(m, o, X), p \subseteq o,
           \A x \in Entries : /\ m[x].rtable /\ m[x].callback
                              /\ m[x].tuple \in p /\ x \notin X
                              => x \notin Y /\ n[x].rtable /\ n[x].callback /\ n[x].tuple = m[x].tuple
    PROVE  Owing(n, p, Y)
BY DEF Owing

-----------------------------------------------------------------------------
(* The functions of the table *)

\* Only the fields F change.
Only(r, s, F) == DOMAIN r = DOMAIN s /\ \A f \in DOMAIN s \ F : r[f] = s[f]

Dead(s, e) == s.mem[e].ref =< 0 /\ ~s.mem[e].rtable

\* pfe_rtable_entry_free_nolock
LEMMA FreeView ==
    ASSUME NEW s, IsState(s), NEW e \in Entries
    PROVE  LET r == FreeNolock(s, e)
           IN  /\ IsState(r) /\ Only(r, s, {"mem"})
               /\ Dead(s, e) => r.mem = Released(s.mem, e)
               /\ ~Dead(s, e) => r = s
<1>1. CASE ~Dead(s, e)
  BY <1>1 DEF FreeNolock, Dead, Only
<1>2. CASE Dead(s, e)
  <2>1. FreeNolock(s, e) = [s EXCEPT !.mem = Released(s.mem, e)]
    BY <1>2 DEF FreeNolock, Deallocate, Released, Dead, IsState
  <2>2. Released(s.mem, e) \in Memory
    BY ReleasedView DEF IsState
  <2> HIDE DEF Released
  <2> QED
    BY <1>2, <2>1, <2>2 DEF IsState, Only
<1> QED
  BY <1>1, <1>2

\* An entry with its counter right, or without a pointer to it, can be freed.
LEMMA FreeSane ==
    ASSUME NEW s, IsState(s), NEW e \in Entries, NEW h, NEW X,
           Sane(s.mem, h, X), X \subseteq {e}, Listed(s.mem, s.list, s.cursor),
           Dead(s, e) => h[e] = 0,
           ~Dead(s, e) => Right(s.mem[e], h[e])
    PROVE  LET r == FreeNolock(s, e)
           IN  Sane(r.mem, h, {}) /\ Listed(r.mem, r.list, r.cursor)
<1> DEFINE r == FreeNolock(s, e)
<1>1. /\ IsState(r) /\ Only(r, s, {"mem"})
      /\ Dead(s, e) => r.mem = Released(s.mem, e)
      /\ ~Dead(s, e) => r = s
  BY FreeView
<1> HIDE DEF r
<1>2. r.list = s.list /\ r.cursor = s.cursor
  BY <1>1 DEF Only, IsState
<1>3. CASE Dead(s, e)
  <2>1. r.mem = Released(s.mem, e) /\ ~s.mem[e].rtable
    BY <1>1, <1>3 DEF Dead
  <2>2. Sane(r.mem, h, {})
    BY <1>3, <2>1, ReleasedSane DEF IsState
  <2>3. \A x \in Entries : r.mem[x].rtable <=> s.mem[x].rtable
    <3>1. /\ r.mem[e] = Blank
          /\ \A x \in Entries \ {e} :
                IF x = s.mem[e].child THEN Orphan(r.mem[x], s.mem[x])
                ELSE r.mem[x] = s.mem[x]
      BY <2>1, ReleasedView DEF IsState
    <3> QED
      BY <2>1, <3>1, BlankFields DEF Orphan, Place
  <2>4. s.cursor \in Cursors
    BY DEF IsState
  <2>5. Listed(r.mem, s.list, s.cursor)
    BY <2>3, <2>4, ListedKept
  <2> QED
    BY <1>2, <2>2, <2>5 DEF r
<1>4. CASE ~Dead(s, e)
  <2>1. r = s
    BY <1>1, <1>4
  <2>2. Counted(s.mem, h, {})
    BY <1>4 DEF Counted, Sane
  <2> QED
    BY <2>1, <2>2 DEF Sane, r
<1> QED
  BY <1>3, <1>4

\* fci_connections_ipv4_cbk may free the partner, and leaves everything else.
Untold(s, e) == IF s.mem[e].callback THEN s.owed \ {s.mem[e].tuple} ELSE s.owed

LEMMA CallbackView ==
    ASSUME NEW s, IsState(s), NEW e \in Entries
    PROVE  LET r == Callback(s, e)
               c == s.mem[e].child
           IN  /\ IsState(r) /\ Only(r, s, {"mem", "owed"})
               /\ r.owed = Untold(s, e)
               /\ r.mem # s.mem => /\ c \in Entries /\ Dead(s, c) /\ s.mem[e].callback
                                   /\ r.mem = Released(s.mem, c)
<1> DEFINE r == Callback(s, e)
           c == s.mem[e].child
           told == [s EXCEPT !.owed = @ \ {s.mem[e].tuple}]
<1>1. IsState(told) /\ Only(told, s, {"owed"}) /\ told.owed = s.owed \ {s.mem[e].tuple}
  BY DEF IsState, Only
<1>2. told.mem = s.mem
  BY <1>1 DEF Only, IsState
<1>3. c \in Entries \cup {None}
  BY CellFields DEF IsState, Memory
<1>4. CASE ~s.mem[e].callback
  <2>1. r = s
    BY <1>4 DEF Callback
  <2> QED
    BY <1>4, <2>1 DEF Untold, Only
<1>5. CASE s.mem[e].callback /\ c = None
  <2>1. r = told
    BY <1>5 DEF Callback
  <2> QED
    BY <1>1, <1>2, <1>5, <2>1 DEF Untold, Only
<1>6. CASE s.mem[e].callback /\ c # None
  <2>1. r = FreeNolock(told, c)
    BY <1>6 DEF Callback
  <2> HIDE DEF told, c, r
  <2>2. c \in Entries
    BY <1>3, <1>6
  <2>3. /\ IsState(r) /\ Only(r, told, {"mem"})
        /\ Dead(told, c) => r.mem = Released(told.mem, c)
        /\ ~Dead(told, c) => r = told
    BY <1>1, <2>1, <2>2, FreeView
  <2>4. Dead(told, c) <=> Dead(s, c)
    BY <1>2 DEF Dead
  <2>5. Only(r, s, {"mem", "owed"})
    BY <1>1, <2>3 DEF Only
  <2>6. r.owed = s.owed \ {s.mem[e].tuple}
    BY <1>1, <2>3 DEF Only, IsState
  <2> QED
    BY <1>2, <1>6, <2>2, <2>3, <2>4, <2>5, <2>6 DEF Untold, c, r
<1> QED
  BY <1>4, <1>5, <1>6

\* Counters that are right: nobody holds a pointer to an entry without one.
LEMMA DeadIsFree ==
    ASSUME NEW s, IsState(s), NEW h \in Holdings, NEW x \in Entries,
           Right(s.mem[x], h[x]), Dead(s, x)
    PROVE  h[x] = 0
BY CellFields DEF Right, Dead, Holdings, IsState, Memory

LEMMA CallbackSane ==
    ASSUME NEW s, IsState(s), NEW e \in Entries, NEW h \in Holdings,
           Sane(s.mem, h, {}), Listed(s.mem, s.list, s.cursor)
    PROVE  LET r == Callback(s, e)
           IN  Sane(r.mem, h, {}) /\ Listed(r.mem, r.list, r.cursor)
<1> DEFINE r == Callback(s, e)
           c == s.mem[e].child
<1>1. /\ IsState(r) /\ Only(r, s, {"mem", "owed"})
      /\ r.owed = Untold(s, e)
      /\ r.mem # s.mem => /\ c \in Entries /\ Dead(s, c) /\ s.mem[e].callback
                          /\ r.mem = Released(s.mem, c)
  BY CallbackView
<1> HIDE DEF r, c
<1>2. r.list = s.list /\ r.cursor = s.cursor
  BY <1>1 DEF Only, IsState
<1>3. CASE r.mem = s.mem
  BY <1>2, <1>3 DEF r
<1>4. CASE r.mem # s.mem
  <2>1. /\ c \in Entries /\ Dead(s, c) /\ r.mem = Released(s.mem, c)
        /\ FreeNolock(s, c).mem = Released(s.mem, c)
        /\ Only(FreeNolock(s, c), s, {"mem"})
    BY <1>1, <1>4, FreeView
  <2>2. Right(s.mem[c], h[c])
    BY <2>1 DEF Sane, Counted
  <2>3. h[c] = 0
    BY <2>1, <2>2, DeadIsFree
  <2>4. LET q == FreeNolock(s, c)
        IN  Sane(q.mem, h, {}) /\ Listed(q.mem, q.list, q.cursor)
    BY <2>1, <2>2, <2>3, FreeSane
  <2>5. FreeNolock(s, c).list = s.list /\ FreeNolock(s, c).cursor = s.cursor
    BY <2>1 DEF Only, IsState
  <2> QED
    BY <1>2, <2>1, <2>4, <2>5 DEF r
<1> QED
  BY <1>3, <1>4

\* What a callback does to the entries: the partner is freed, and nobody else.
LEMMA CallbackCells ==
    ASSUME NEW s, IsState(s), NEW e \in Entries, Paired(s.mem)
    PROVE  LET r == Callback(s, e)
               c == s.mem[e].child
           IN  /\ \A x \in Entries \ {e, c} : r.mem[x] = s.mem[x]
               /\ r.mem[e] = s.mem[e] \/ (c # None /\ Orphan(r.mem[e], s.mem[e]))
               /\ c # None =>
                     \/ r.mem[c] = s.mem[c] /\ r.mem[e] = s.mem[e]
                     \/ r.mem[c] = Blank /\ Dead(s, c) /\ r.mem[e].child = None
<1> DEFINE r == Callback(s, e)
           c == s.mem[e].child
<1>1. r.mem # s.mem => c \in Entries /\ Dead(s, c) /\ r.mem = Released(s.mem, c)
  BY CallbackView
<1> HIDE DEF r
<1>2. CASE r.mem = s.mem
  BY <1>2 DEF r
<1>3. CASE r.mem # s.mem
  <2>1. c \in Entries /\ c # None /\ c # e /\ s.mem[c].child = e
    BY <1>1, <1>3, Nobody DEF Paired
  <2>2. /\ r.mem[c] = Blank
        /\ \A x \in Entries \ {c} : IF x = s.mem[c].child THEN Orphan(r.mem[x], s.mem[x])
                                    ELSE r.mem[x] = s.mem[x]
    BY <1>1, <1>3, <2>1, ReleasedView DEF IsState
  <2>3. Orphan(r.mem[e], s.mem[e])
    BY <2>1, <2>2
  <2>4. \A x \in Entries \ {e, c} : r.mem[x] = s.mem[x]
    BY <2>1, <2>2
  <2>5. r.mem[e].child = None
    BY <2>3 DEF Orphan
  <2> HIDE DEF c
  <2> QED
    BY <1>1, <1>3, <2>1, <2>2, <2>3, <2>4, <2>5 DEF r, c
<1> QED
  BY <1>2, <1>3

\* Whoever is owed a message still, has a connection other than the one that
\* this callback was for.
LEMMA CallbackOwing ==
    ASSUME NEW s, IsState(s), NEW e \in Entries, Paired(s.mem), NEW X,
           Owing(s.mem, s.owed, X)
    PROVE  LET r == Callback(s, e)
           IN  Owing(r.mem, r.owed, X \cup {e})
<1> DEFINE r == Callback(s, e)
           c == s.mem[e].child
<1>1. r.owed = Untold(s, e)
  BY CallbackView
<1>2. /\ \A x \in Entries \ {e, c} : r.mem[x] = s.mem[x]
      /\ c # None => \/ r.mem[c] = s.mem[c]
                     \/ Dead(s, c)
  BY CallbackCells
<1>3. c = None \/ c \in Entries
  BY CellFields DEF IsState, Memory
<1> HIDE DEF r, c
<1>4. \A x \in Entries : x # e /\ s.mem[x].rtable => r.mem[x] = s.mem[x]
  BY <1>2, <1>3, Nobody DEF Dead
<1>5. s.mem[e].callback => s.mem[e].tuple \notin r.owed
  BY <1>1 DEF Untold
<1>6. r.owed \subseteq s.owed
  BY <1>1 DEF Untold
<1> QED
  BY <1>4, <1>5, <1>6 DEF Owing, r

\* An entry that leaves the table
Unlisted(c) == [c EXCEPT !.rtable = FALSE, !.ref = @ - 1]

LEMMA UnlistedCell ==
    ASSUME NEW c \in Cell
    PROVE  /\ Unlisted(c) \in Cell
           /\ Who(Unlisted(c), c) /\ Times(Unlisted(c), c)
           /\ Unlisted(c).child = c.child /\ Unlisted(c).added = c.added
           /\ ~Unlisted(c).rtable /\ Unlisted(c).ref = c.ref - 1
<1>1. c.ref - 1 \in Int /\ c.rtable \in BOOLEAN
  BY CellFields
<1>2. Unlisted(c) \in Cell
  BY <1>1 DEF Cell, Unlisted
<1>3. DOMAIN c = {"live", "tuple", "route", "rtable", "ref", "child", "timeout",
                  "curr", "active", "callback", "added"}
  BY CellDomain
<1> QED
  BY <1>2, <1>3 DEF Unlisted, Who, Times

\* pfe_rtable_del_entry_nolock
LEMMA DelView ==
    ASSUME NEW s, IsState(s), NEW e \in Entries
    PROVE  LET r == DelNolock(s, e)
           IN  /\ IsState(r) /\ Only(r, s, {"mem", "list", "cursor"})
               /\ ~s.mem[e].rtable => r = s
               /\ s.mem[e].rtable =>
                     /\ r.mem = [s.mem EXCEPT ![e] = Unlisted(s.mem[e])]
                     /\ r.list = RemoveFirst(s.list, e)
                     /\ r.cursor = IF s.cursor = e THEN After(s, e) ELSE s.cursor
<1> DEFINE r == DelNolock(s, e)
<1>1. CASE ~s.mem[e].rtable
  <2>1. r = s
    BY <1>1 DEF DelNolock
  <2> QED
    BY <1>1, <2>1 DEF Only
<1>2. CASE s.mem[e].rtable
  <2>1. /\ DOMAIN r = DOMAIN s /\ r = [f \in DOMAIN r |-> r[f]]
        /\ r.mem = [s.mem EXCEPT ![e] = Unlisted(s.mem[e])]
        /\ r.list = RemoveFirst(s.list, e)
        /\ r.cursor = IF s.cursor = e THEN After(s, e) ELSE s.cursor
        /\ \A f \in DOMAIN s \ {"mem", "list", "cursor"} : r[f] = s[f]
    BY <1>2 DEF IsState, Memory, DelNolock, Unlisted
  <2>2. r.mem \in Memory
    BY <2>1, UnlistedCell DEF IsState, Memory
  <2>3. r.list \in Lists
    BY <2>1, RemoveTyped DEF IsState
  <2>4. r.cursor \in Cursors
    BY <2>1, WhereIs, BehindTyped DEF IsState, After
  <2>5. r.owed = s.owed
    BY <2>1 DEF IsState
  <2> HIDE DEF r
  <2>6. IsState(r)
    BY <2>1, <2>2, <2>3, <2>4, <2>5 DEF IsState
  <2> QED
    BY <1>2, <2>1, <2>6 DEF Only, r
<1> QED
  BY <1>1, <1>2

\* The entry and only it leaves the table, the counters stay right but for it,
\* and what was ahead of the cursor stays ahead of it.
LEMMA DelSane ==
    ASSUME NEW s, IsState(s), NEW e \in Entries, NEW h \in Holdings,
           Sane(s.mem, h, {}), Listed(s.mem, s.list, s.cursor)
    PROVE  LET r == DelNolock(s, e)
           IN  /\ Sane(r.mem, h, {e}) /\ Listed(r.mem, r.list, r.cursor)
               /\ \A x \in Entries \ {e} : r.mem[x] = s.mem[x]
               /\ Who(r.mem[e], s.mem[e]) /\ Times(r.mem[e], s.mem[e])
               /\ r.mem[e].child = s.mem[e].child /\ r.mem[e].added = s.mem[e].added
               /\ ~r.mem[e].rtable /\ r.mem[e].ref = h[e]
               /\ \A x \in Entries \ {e} :
                     Ahead(s.list, s.cursor, x) => Ahead(r.list, r.cursor, x)
<1> DEFINE r == DelNolock(s, e)
<1>1. /\ IsState(r)
      /\ ~s.mem[e].rtable => r = s
      /\ s.mem[e].rtable =>
            /\ r.mem = [s.mem EXCEPT ![e] = Unlisted(s.mem[e])]
            /\ r.list = RemoveFirst(s.list, e)
            /\ r.cursor = IF s.cursor = e THEN After(s, e) ELSE s.cursor
  BY DelView
<1> HIDE DEF r
<1>2. s.mem[e] \in Cell /\ s.mem[e].ref \in Int
  BY CellFields DEF IsState, Memory
<1>3. Right(s.mem[e], h[e]) /\ h[e] \in Nat
  BY DEF Sane, Counted, Holdings
<1>4. CASE ~s.mem[e].rtable
  <2>1. r = s
    BY <1>1, <1>4
  <2>2. s.mem[e].ref = h[e]
    BY <1>2, <1>3, <1>4 DEF Right
  <2> QED
    BY <1>4, <2>1, <2>2 DEF r, Who, Times, Sane, Counted
<1>5. CASE s.mem[e].rtable
  <2>1. /\ \A x \in Entries \ {e} : r.mem[x] = s.mem[x]
        /\ r.mem[e] = Unlisted(s.mem[e])
    BY <1>1, <1>5 DEF IsState, Memory
  <2>2. /\ Who(r.mem[e], s.mem[e]) /\ Times(r.mem[e], s.mem[e])
        /\ r.mem[e].child = s.mem[e].child /\ r.mem[e].added = s.mem[e].added
        /\ ~r.mem[e].rtable /\ r.mem[e].ref = s.mem[e].ref - 1
    BY <1>2, <2>1, UnlistedCell
  <2>3. r.mem[e].ref = h[e]
    BY <1>2, <1>3, <1>5, <2>2 DEF Right
  <2>4. /\ \A x \in Entries : /\ Who(r.mem[x], s.mem[x]) /\ Times(r.mem[x], s.mem[x])
                              /\ r.mem[x].child = s.mem[x].child
                              /\ r.mem[x].added = s.mem[x].added
        /\ \A x \in Entries : r.mem[x].rtable <=> (s.mem[x].rtable /\ x # e)
    BY <2>1, <2>2 DEF Who, Times
  <2>5. Sane(r.mem, h, {e})
    <3>1. Sound(r.mem)
      <4> SUFFICES ASSUME NEW x \in Entries
                   PROVE  /\ ~r.mem[x].live => ~r.mem[x].rtable /\ ~r.mem[x].added
                                               /\ r.mem[x].ref = 0 /\ r.mem[x].child = None
                          /\ r.mem[x].rtable => r.mem[x].added /\ r.mem[x].tuple \in Tuples
                          /\ r.mem[x].timeout # Inf => r.mem[x].curr =< r.mem[x].timeout
        BY DEF Sound
      <4>1. s.mem[e].live
        BY <1>5 DEF Sane, Sound
      <4>2. x # e => r.mem[x] = s.mem[x]
        BY <2>1
      <4>3. /\ ~s.mem[x].live => ~s.mem[x].rtable /\ ~s.mem[x].added
                                 /\ s.mem[x].ref = 0 /\ s.mem[x].child = None
            /\ s.mem[x].rtable => s.mem[x].added /\ s.mem[x].tuple \in Tuples
            /\ s.mem[x].timeout # Inf => s.mem[x].curr =< s.mem[x].timeout
        BY DEF Sane, Sound
      <4> QED
        BY <2>2, <4>1, <4>2, <4>3 DEF Who, Times
    <3>2. Paired(r.mem)
      <4>1. \A x \in Entries : s.mem[x].child = None \/ s.mem[x].child \in Entries
        BY CellFields DEF IsState, Memory
      <4> QED
        BY <2>4, <4>1 DEF Sane, Paired, Who
    <3>3. Unique(r.mem)
      BY <2>4 DEF Sane, Unique, Who
    <3>4. Counted(r.mem, h, {e})
      BY <2>1 DEF Sane, Counted
    <3> QED
      BY <3>1, <3>2, <3>3, <3>4 DEF Sane
  <2>6. PICK k \in 1 .. Len(s.list) : s.list[k] = e
    BY <1>5 DEF Listed
  <2>7. s.list \in Lists /\ Distinct(s.list) /\ s.cursor \in Cursors
    BY DEF IsState, Listed
  <2>8. After(s, e) = Behind(s.list, k)
    BY <2>6, <2>7, WhereIn DEF After
  <2>9. /\ Distinct(r.list)
        /\ \A x : (\E i \in 1 .. Len(r.list) : r.list[i] = x)
                   <=> (x # e /\ \E i \in 1 .. Len(s.list) : s.list[i] = x)
        /\ \A x : x # e /\ Ahead(s.list, s.cursor, x) => Ahead(r.list, r.cursor, x)
    <3> DEFINE fs == RemoveFirst(s.list, s.list[k])
    <3>1. /\ Distinct(fs)
          /\ \A x : (\E i \in 1 .. Len(fs) : fs[i] = x)
                     <=> (x # s.list[k] /\ \E i \in 1 .. Len(s.list) : s.list[i] = x)
          /\ \A c, x : x # s.list[k] /\ Ahead(s.list, c, x) =>
                Ahead(fs, IF c = s.list[k] THEN Behind(s.list, k) ELSE c, x)
      BY <2>7, RemoveKeeps
    <3>2. r.list = fs
      BY <1>1, <1>5, <2>6
    <3>3. r.cursor = IF s.cursor = s.list[k] THEN Behind(s.list, k) ELSE s.cursor
      BY <1>1, <1>5, <2>6, <2>8
    <3> HIDE DEF fs
    <3> QED
      BY <2>6, <3>1, <3>2, <3>3
  <2>10. r.cursor \in {None, End} \/ r.mem[r.cursor].rtable
    <3>1. CASE s.cursor # e
      BY <1>1, <1>5, <2>1, <2>7, <3>1 DEF Listed, Cursors
    <3>2. CASE s.cursor = e
      <4>1. r.cursor = Behind(s.list, k)
        BY <1>1, <1>5, <2>8, <3>2
      <4>2. CASE k = Len(s.list)
        BY <4>1, <4>2 DEF Behind
      <4>3. CASE k # Len(s.list)
        <5>1. Len(s.list) \in Nat
          BY <2>7 DEF Lists
        <5>2. k + 1 \in 1 .. Len(s.list) /\ k + 1 # k
          BY <4>3, <5>1
        <5>3. r.cursor = s.list[k + 1]
          BY <4>1, <4>3 DEF Behind
        <5>4. s.list[k + 1] \in Entries /\ s.list[k + 1] # e
          BY <2>6, <2>7, <5>2 DEF Lists, Distinct
        <5>5. s.mem[s.list[k + 1]].rtable
          BY <5>2, <5>4 DEF Listed
        <5> QED
          BY <2>1, <5>3, <5>4, <5>5
      <4> QED
        BY <4>2, <4>3
    <3> QED
      BY <3>1, <3>2
  <2>11. Listed(r.mem, r.list, r.cursor)
    BY <2>4, <2>9, <2>10 DEF Listed
  <2> QED
    BY <2>1, <2>2, <2>3, <2>5, <2>9, <2>11 DEF r
<1> QED
  BY <1>4, <1>5

-----------------------------------------------------------------------------
(* Who leaves the table *)

\* At most D leave the table, nobody enters it ...
Goes(m, n, D) ==
    \A x \in Entries :
        /\ n[x].rtable => m[x].rtable /\ Who(n[x], m[x])
        /\ m[x].rtable /\ x \notin D => n[x].rtable

\* ... and no memory is taken.
Leave(m, n, D) ==
    \A x \in Entries :
        /\ n[x].rtable => m[x].rtable /\ Who(n[x], m[x])
        /\ m[x].rtable /\ x \notin D => n[x].rtable
        /\ n[x].live => Who(n[x], m[x])

LEMMA LeaveGoes ==
    ASSUME NEW m, NEW n, NEW D, Leave(m, n, D)
    PROVE  Goes(m, n, D)
BY DEF Leave, Goes

LEMMA GoesTrans ==
    ASSUME NEW m, NEW n, NEW p, NEW D, NEW E, Goes(m, n, D), Goes(n, p, E)
    PROVE  Goes(m, p, D \cup E)
BY DEF Goes, Who

LEMMA GoesOwing ==
    ASSUME NEW m, NEW n, NEW D, NEW o, NEW p, NEW X, Goes(m, n, D), Owing(m, o, X),
           D \subseteq X, p \subseteq o
    PROVE  Owing(n, p, X)
BY DEF Goes, Owing, Who

LEMMA LeaveTrans ==
    ASSUME NEW m, NEW n, NEW p, NEW D, NEW E, Leave(m, n, D), Leave(n, p, E)
    PROVE  Leave(m, p, D \cup E)
BY DEF Leave, Who

LEMMA LeaveOwing ==
    ASSUME NEW m, NEW n, NEW D, NEW o, NEW p, NEW X, Leave(m, n, D), Owing(m, o, X),
           D \subseteq X, p \subseteq o
    PROVE  Owing(n, p, X)
BY DEF Leave, Owing, Who

LEMMA ReleasedLeave ==
    ASSUME NEW m \in Memory, NEW e \in Entries, ~m[e].rtable
    PROVE  Leave(m, Released(m, e), {})
<1>1. /\ Released(m, e)[e] = Blank
      /\ \A x \in Entries \ {e} : IF x = m[e].child THEN Orphan(Released(m, e)[x], m[x])
                                  ELSE Released(m, e)[x] = m[x]
  BY ReleasedView
<1> QED
  BY <1>1, BlankFields DEF Leave, Orphan, Who, Place

LEMMA FreeLeave ==
    ASSUME NEW s, IsState(s), NEW e \in Entries
    PROVE  Leave(s.mem, FreeNolock(s, e).mem, {})
<1>1. /\ Dead(s, e) => FreeNolock(s, e).mem = Released(s.mem, e)
      /\ ~Dead(s, e) => FreeNolock(s, e) = s
  BY FreeView
<1>2. Leave(s.mem, s.mem, {})
  BY DEF Leave, Who
<1> QED
  BY <1>1, <1>2, ReleasedLeave DEF Dead, IsState

LEMMA CallbackLeave ==
    ASSUME NEW s, IsState(s), NEW e \in Entries
    PROVE  Leave(s.mem, Callback(s, e).mem, {})
<1> DEFINE r == Callback(s, e)
           c == s.mem[e].child
<1>1. r.mem # s.mem => c \in Entries /\ Dead(s, c) /\ r.mem = Released(s.mem, c)
  BY CallbackView
<1>2. Leave(s.mem, s.mem, {})
  BY DEF Leave, Who
<1> HIDE DEF r, c
<1> QED
  BY <1>1, <1>2, ReleasedLeave DEF Dead, IsState, r

LEMMA DelLeave ==
    ASSUME NEW s, IsState(s), NEW e \in Entries
    PROVE  Leave(s.mem, DelNolock(s, e).mem, {e}) /\ ~DelNolock(s, e).mem[e].rtable
<1> DEFINE r == DelNolock(s, e)
<1>1. /\ ~s.mem[e].rtable => r = s
      /\ s.mem[e].rtable => r.mem = [s.mem EXCEPT ![e] = Unlisted(s.mem[e])]
  BY DelView
<1> HIDE DEF r
<1>2. s.mem[e] \in Cell
  BY DEF IsState, Memory
<1>3. CASE ~s.mem[e].rtable
  BY <1>1, <1>3 DEF Leave, Who, r
<1>4. CASE s.mem[e].rtable
  <2>1. /\ \A x \in Entries \ {e} : r.mem[x] = s.mem[x]
        /\ r.mem[e] = Unlisted(s.mem[e])
    BY <1>1, <1>4 DEF IsState, Memory
  <2> QED
    BY <1>2, <2>1, UnlistedCell DEF Leave, Who, r
<1> QED
  BY <1>3, <1>4

-----------------------------------------------------------------------------
(* Counting *)

\* The memory with another counter
Recount(m, e, n) == [m EXCEPT ![e].ref = n]

LEMMA RecountView ==
    ASSUME NEW m \in Memory, NEW e \in Entries, NEW n \in Int
    PROVE  /\ Recount(m, e, n) \in Memory
           /\ \A x \in Entries \ {e} : Recount(m, e, n)[x] = m[x]
           /\ Who(Recount(m, e, n)[e], m[e]) /\ Times(Recount(m, e, n)[e], m[e])
           /\ Recount(m, e, n)[e].child = m[e].child
           /\ Recount(m, e, n)[e].rtable = m[e].rtable
           /\ Recount(m, e, n)[e].added = m[e].added
           /\ Recount(m, e, n)[e].ref = n
<1>1. m[e] \in Cell
  BY DEF Memory
<1>2. [m[e] EXCEPT !.ref = n] \in Cell
  BY <1>1 DEF Cell
<1>3. DOMAIN m[e] = {"live", "tuple", "route", "rtable", "ref", "child", "timeout",
                     "curr", "active", "callback", "added"}
  BY <1>1, CellDomain
<1>4. /\ Recount(m, e, n) \in Memory
      /\ \A x \in Entries \ {e} : Recount(m, e, n)[x] = m[x]
      /\ Recount(m, e, n)[e] = [m[e] EXCEPT !.ref = n]
  BY <1>2 DEF Recount, Memory
<1> QED
  BY <1>3, <1>4 DEF Who, Times

\* Nothing but the counter depends on it.
LEMMA RecountSane ==
    ASSUME NEW m \in Memory, NEW e \in Entries, NEW n \in Int, m[e].live,
           NEW h, NEW g, NEW X, Sane(m, h, X), X \subseteq {e},
           \A x \in Entries \ {e} : g[x] = h[x]
    PROVE  Sane(Recount(m, e, n), g, {e})
<1> DEFINE p == Recount(m, e, n)
<1>1. /\ \A x \in Entries \ {e} : p[x] = m[x]
      /\ Who(p[e], m[e]) /\ Times(p[e], m[e]) /\ p[e].child = m[e].child
      /\ p[e].rtable = m[e].rtable /\ p[e].added = m[e].added
  BY RecountView
<1> HIDE DEF p
<1>2. \A x \in Entries : /\ Who(p[x], m[x]) /\ Times(p[x], m[x]) /\ p[x].child = m[x].child
                         /\ p[x].rtable = m[x].rtable /\ p[x].added = m[x].added
  BY <1>1 DEF Who, Times
<1>3. Sound(p)
  <2> SUFFICES ASSUME NEW x \in Entries
               PROVE  /\ ~p[x].live => ~p[x].rtable /\ ~p[x].added /\ p[x].ref = 0 /\ p[x].child = None
                      /\ p[x].rtable => p[x].added /\ p[x].tuple \in Tuples
                      /\ p[x].timeout # Inf => p[x].curr =< p[x].timeout
    BY DEF Sound
  <2>1. /\ ~m[x].live => ~m[x].rtable /\ ~m[x].added /\ m[x].ref = 0 /\ m[x].child = None
        /\ m[x].rtable => m[x].added /\ m[x].tuple \in Tuples
        /\ m[x].timeout # Inf => m[x].curr =< m[x].timeout
    BY DEF Sane, Sound
  <2> QED
    BY <1>1, <1>2, <2>1 DEF Who, Times
<1>4. Paired(p)
  <2>1. \A x \in Entries : m[x].child = None \/ m[x].child \in Entries
    BY CellFields DEF Memory
  <2> QED
    BY <1>2, <2>1 DEF Sane, Paired, Who
<1>5. Unique(p)
  BY <1>2 DEF Sane, Unique, Who
<1>6. Counted(p, g, {e})
  BY <1>1 DEF Sane, Counted
<1> QED
  BY <1>3, <1>4, <1>5, <1>6 DEF Sane, p

\* pfe_rtable_entry_free: g is h without the pointer that is given back.
LEMMA GiveBack ==
    ASSUME NEW s, IsState(s), NEW e \in Entries, s.mem[e].live,
           NEW h, NEW g, NEW X,
           Sane(s.mem, h, X), X \subseteq {e}, Listed(s.mem, s.list, s.cursor),
           \A x \in Entries \ {e} : g[x] = h[x],
           IF s.mem[e].ref - 1 =< 0 /\ ~s.mem[e].rtable THEN g[e] = 0
           ELSE Right([s.mem[e] EXCEPT !.ref = @ - 1], g[e])
    PROVE  LET r == Free(s, e)
           IN  /\ IsState(r) /\ Only(r, s, {"mem"})
               /\ Sane(r.mem, g, {}) /\ Listed(r.mem, r.list, r.cursor)
               /\ Leave(s.mem, r.mem, {})
<1> DEFINE n == s.mem[e].ref - 1
           t == [s EXCEPT !.mem[e].ref = @ - 1]
           r == Free(s, e)
<1>1. n \in Int /\ s.mem[e] \in Cell
  BY CellFields DEF IsState, Memory
<1>2. DOMAIN t = DOMAIN s /\ t = [f \in DOMAIN t |-> t[f]] /\ Only(t, s, {"mem"})
  BY DEF IsState, Only
<1>3. t.mem = Recount(s.mem, e, n)
  BY DEF IsState, Memory, Recount
<1>4. r = FreeNolock(t, e)
  BY DEF Free
<1> HIDE DEF t, n, r
<1>5. /\ t.mem \in Memory
      /\ \A x \in Entries \ {e} : t.mem[x] = s.mem[x]
      /\ Who(t.mem[e], s.mem[e])
      /\ t.mem[e].rtable = s.mem[e].rtable /\ t.mem[e].added = s.mem[e].added
      /\ t.mem[e].ref = n
  BY <1>1, <1>3, RecountView DEF IsState
<1>6. t.list = s.list /\ t.cursor = s.cursor /\ t.owed = s.owed
  BY <1>2 DEF Only, IsState
<1>7. IsState(t)
  BY <1>2, <1>5, <1>6 DEF IsState
<1>8. Sane(t.mem, g, {e})
  BY <1>1, <1>3, RecountSane DEF IsState
<1>9. Leave(s.mem, t.mem, {})
  BY <1>5 DEF Leave, Who
<1>10. Listed(t.mem, t.list, t.cursor)
  <2>1. \A x \in Entries : t.mem[x].rtable <=> s.mem[x].rtable
    BY <1>5
  <2>2. s.cursor \in Cursors
    BY DEF IsState
  <2> QED
    BY <1>6, <2>1, <2>2, ListedKept
<1>11. Dead(t, e) => g[e] = 0
  BY <1>5 DEF Dead, n
<1>12. ~Dead(t, e) => Right(t.mem[e], g[e])
  <2>1. Right([s.mem[e] EXCEPT !.ref = @ - 1], g[e]) => Right(t.mem[e], g[e])
    <3>1. DOMAIN s.mem[e] = {"live", "tuple", "route", "rtable", "ref", "child", "timeout",
                             "curr", "active", "callback", "added"}
      BY <1>1, CellDomain
    <3> QED
      BY <1>5, <3>1 DEF Right, n
  <2> QED
    BY <1>5, <2>1 DEF Dead, n
<1>13. Sane(r.mem, g, {}) /\ Listed(r.mem, r.list, r.cursor)
  BY <1>4, <1>7, <1>8, <1>10, <1>11, <1>12, FreeSane
<1>14. IsState(r) /\ Only(r, t, {"mem"}) /\ Leave(t.mem, r.mem, {})
  BY <1>4, <1>7, FreeView, FreeLeave
<1>15. Only(r, s, {"mem"})
  BY <1>2, <1>14 DEF Only
<1>16. Leave(s.mem, r.mem, {})
  BY <1>9, <1>14, LeaveTrans
<1> QED
  BY <1>13, <1>14, <1>15, <1>16 DEF r

\* One pointer more or less, with its reference
More(h, e) == [h EXCEPT ![e] = @ + 1]
Less(h, e) == [h EXCEPT ![e] = @ - 1]

\* get_first, get_next and get_child
LEMMA TakeSane ==
    ASSUME NEW m \in Memory, NEW e \in Entries, m[e].live, NEW h \in Holdings,
           Sane(m, h, {})
    PROVE  LET n == [m EXCEPT ![e].ref = @ + 1]
           IN  /\ n \in Memory /\ More(h, e) \in Holdings /\ Sane(n, More(h, e), {})
               /\ \A x \in Entries : /\ n[x].rtable = m[x].rtable /\ Who(n[x], m[x])
                                     /\ Times(n[x], m[x]) /\ n[x].child = m[x].child
<1> DEFINE k == m[e].ref + 1
           n == [m EXCEPT ![e].ref = @ + 1]
<1>1. k \in Int /\ m[e].ref \in Int /\ m[e].rtable \in BOOLEAN
  BY CellFields DEF Memory
<1>2. n = Recount(m, e, k)
  BY DEF Recount, Memory
<1> HIDE DEF k, n
<1>3. /\ More(h, e) \in Holdings /\ More(h, e)[e] = h[e] + 1 /\ h[e] \in Nat
      /\ \A x \in Entries \ {e} : More(h, e)[x] = h[x]
  BY DEF Holdings, More
<1>4. /\ n \in Memory
      /\ \A x \in Entries \ {e} : n[x] = m[x]
      /\ Who(n[e], m[e]) /\ Times(n[e], m[e]) /\ n[e].child = m[e].child
      /\ n[e].rtable = m[e].rtable /\ n[e].added = m[e].added /\ n[e].ref = k
  BY <1>1, <1>2, RecountView
<1>5. Sane(n, More(h, e), {e})
  BY <1>1, <1>2, <1>3, RecountSane
<1>6. Right(n[e], More(h, e)[e])
  <2>1. Right(m[e], h[e])
    BY DEF Sane, Counted
  <2> QED
    BY <1>1, <1>3, <1>4, <2>1 DEF Right, k
<1>7. Counted(n, More(h, e), {})
  BY <1>5, <1>6 DEF Sane, Counted
<1> QED
  BY <1>3, <1>4, <1>5, <1>7 DEF Sane, Who, Times, n

\* What pfe_rtable_del_entry does to the table and the memory
LEMMA DelAll ==
    ASSUME NEW s, IsState(s), NEW e \in Entries, NEW h \in Holdings,
           Sane(s.mem, h, {}), Listed(s.mem, s.list, s.cursor), Owing(s.mem, s.owed, {})
    PROVE  LET r == Del(s, e)
           IN  /\ IsState(r) /\ Only(r, s, {"mem", "list", "cursor", "owed"})
               /\ Sane(r.mem, h, {e}) /\ Listed(r.mem, r.list, r.cursor)
               /\ ~r.mem[e].rtable /\ r.mem[e].ref = h[e]
               /\ r.mem[e].live = s.mem[e].live
               /\ Leave(s.mem, r.mem, {e})
               /\ Owing(r.mem, r.owed, {})
               /\ \A x \in Entries \ {e} :
                     Ahead(s.list, s.cursor, x) => Ahead(r.list, r.cursor, x)
<1> DEFINE t == Callback(s, e)
           r == Del(s, e)
<1>1. r = DelNolock(t, e)
  BY DEF Del
<1>2. /\ IsState(t) /\ Only(t, s, {"mem", "owed"})
      /\ Sane(t.mem, h, {}) /\ Listed(t.mem, t.list, t.cursor)
      /\ Leave(s.mem, t.mem, {})
  BY CallbackView, CallbackSane, CallbackLeave
<1>3. Owing(t.mem, t.owed, {e})
  <2>1. Owing(t.mem, t.owed, {} \cup {e})
    BY CallbackOwing DEF Sane
  <2> QED
    BY <2>1
<1>4. t.mem[e].live = s.mem[e].live
  <2>1. t.mem[e] = s.mem[e] \/ Orphan(t.mem[e], s.mem[e])
    BY CallbackCells DEF Sane
  <2> QED
    BY <2>1 DEF Orphan, Who
<1> HIDE DEF t, r
<1>5. t.list = s.list /\ t.cursor = s.cursor
  BY <1>2 DEF Only, IsState
<1>6. /\ IsState(r) /\ Only(r, t, {"mem", "list", "cursor"})
      /\ Leave(t.mem, r.mem, {e})
  BY <1>1, <1>2, DelView, DelLeave
<1>7. /\ Sane(r.mem, h, {e}) /\ Listed(r.mem, r.list, r.cursor)
      /\ ~r.mem[e].rtable /\ r.mem[e].ref = h[e] /\ Who(r.mem[e], t.mem[e])
      /\ \A x \in Entries \ {e} :
            Ahead(t.list, t.cursor, x) => Ahead(r.list, r.cursor, x)
  BY <1>1, <1>2, DelSane
<1>8. r.mem[e].live = s.mem[e].live
  BY <1>4, <1>7 DEF Who
<1>9. Only(r, s, {"mem", "list", "cursor", "owed"})
  BY <1>2, <1>6 DEF Only
<1>10. Leave(s.mem, r.mem, {e})
  <2>1. Leave(s.mem, r.mem, {} \cup {e})
    BY <1>2, <1>6, LeaveTrans
  <2> QED
    BY <2>1
<1>11. Owing(r.mem, r.owed, {})
  <2>1. r.owed = t.owed
    BY <1>6 DEF Only, IsState
  <2>2. Owing(r.mem, r.owed, {e})
    BY <1>3, <1>6, <2>1, LeaveOwing
  <2> QED
    BY <2>2 DEF Owing
<1> QED
  BY <1>5, <1>6, <1>7, <1>8, <1>9, <1>10, <1>11 DEF r

\* ... when the FCI worker holds a pointer to the entry
LEMMA DelHeld ==
    ASSUME NEW s, IsState(s), NEW e \in Entries, NEW h \in Holdings,
           Sane(s.mem, h, {}), Listed(s.mem, s.list, s.cursor), Owing(s.mem, s.owed, {}),
           h[e] # 0
    PROVE  Sane(Del(s, e).mem, h, {})
<1> DEFINE r == Del(s, e)
<1>1. Sane(r.mem, h, {e}) /\ ~r.mem[e].rtable /\ r.mem[e].ref = h[e]
  BY DelAll
<1> HIDE DEF r
<1>2. h[e] \in Nat /\ h[e] > 0
  BY DEF Holdings
<1>3. Right(r.mem[e], h[e])
  BY <1>1, <1>2 DEF Right
<1> QED
  BY <1>1, <1>3 DEF Sane, Counted, r

\* What becomes of a new entry when its registration fails
LEMMA DropAll ==
    ASSUME NEW s, IsState(s), NEW e \in Entries, NEW h \in Holdings,
           Sane(s.mem, h, {}), Listed(s.mem, s.list, s.cursor), Owing(s.mem, s.owed, {}),
           h[e] = 0, s.mem[e].live
    PROVE  LET r == Free(Del(s, e), e)
           IN  /\ IsState(r) /\ Only(r, s, {"mem", "list", "cursor", "owed"})
               /\ Sane(r.mem, h, {}) /\ Listed(r.mem, r.list, r.cursor)
               /\ Leave(s.mem, r.mem, {e})
               /\ Owing(r.mem, r.owed, {})
<1> DEFINE t == Del(s, e)
           r == Free(t, e)
<1>1. /\ IsState(t) /\ Only(t, s, {"mem", "list", "cursor", "owed"})
      /\ Sane(t.mem, h, {e}) /\ Listed(t.mem, t.list, t.cursor)
      /\ ~t.mem[e].rtable /\ t.mem[e].ref = 0 /\ t.mem[e].live
      /\ Leave(s.mem, t.mem, {e}) /\ Owing(t.mem, t.owed, {})
  BY DelAll
<1> HIDE DEF t
<1>0. IF t.mem[e].ref - 1 =< 0 /\ ~t.mem[e].rtable THEN h[e] = 0
      ELSE Right([t.mem[e] EXCEPT !.ref = @ - 1], h[e])
  BY <1>1
<1>2. /\ IsState(r) /\ Only(r, t, {"mem"})
      /\ Sane(r.mem, h, {}) /\ Listed(r.mem, r.list, r.cursor)
      /\ Leave(t.mem, r.mem, {})
  BY <1>1, <1>0, GiveBack
<1> HIDE DEF r
<1>3. r.owed = t.owed
  BY <1>2 DEF Only, IsState
<1>4. Owing(r.mem, r.owed, {})
  BY <1>1, <1>2, <1>3, LeaveOwing
<1>5. Leave(s.mem, r.mem, {e} \cup {})
  BY <1>1, <1>2, LeaveTrans
<1>6. Only(r, s, {"mem", "list", "cursor", "owed"})
  BY <1>1, <1>2 DEF Only
<1> QED
  BY <1>2, <1>4, <1>5, <1>6 DEF r, t

\* The end of an entry that the ageing loop has collected
LEMMA RetireAll ==
    ASSUME NEW s, IsState(s), NEW e \in Entries, NEW h \in Holdings,
           Sane(s.mem, h, {}), Listed(s.mem, s.list, s.cursor)
    PROVE  LET r == FreeNolock(DelNolock(s, e), e)
           IN  /\ IsState(r) /\ Only(r, s, {"mem", "list", "cursor"})
               /\ Sane(r.mem, h, {}) /\ Listed(r.mem, r.list, r.cursor)
               /\ Leave(s.mem, r.mem, {e})
               /\ \A x \in Entries \ {e, s.mem[e].child} : r.mem[x] = s.mem[x]
               /\ \A x \in Entries \ {e} :
                     Ahead(s.list, s.cursor, x) => Ahead(r.list, r.cursor, x)
<1> DEFINE t == DelNolock(s, e)
           r == FreeNolock(t, e)
<1>1. /\ IsState(t) /\ Only(t, s, {"mem", "list", "cursor"})
      /\ Sane(t.mem, h, {e}) /\ Listed(t.mem, t.list, t.cursor)
      /\ ~t.mem[e].rtable /\ t.mem[e].ref = h[e] /\ t.mem[e].child = s.mem[e].child
      /\ \A x \in Entries \ {e} : t.mem[x] = s.mem[x]
      /\ Leave(s.mem, t.mem, {e})
      /\ \A x \in Entries \ {e} :
            Ahead(s.list, s.cursor, x) => Ahead(t.list, t.cursor, x)
  <2>1. IsState(t) /\ Only(t, s, {"mem", "list", "cursor"})
    BY DelView
  <2>2. Leave(s.mem, t.mem, {e})
    BY DelLeave
  <2> QED
    BY <2>1, <2>2, DelSane
<1> HIDE DEF t
<1>2. h[e] \in Nat
  BY DEF Holdings
<1>3. Dead(t, e) => h[e] = 0
  BY <1>1, <1>2 DEF Dead
<1>4. ~Dead(t, e) => Right(t.mem[e], h[e])
  BY <1>1, <1>2 DEF Dead, Right
<1>5. /\ IsState(r) /\ Only(r, t, {"mem"})
      /\ Sane(r.mem, h, {}) /\ Listed(r.mem, r.list, r.cursor)
      /\ Leave(t.mem, r.mem, {})
  BY <1>1, <1>3, <1>4, FreeView, FreeSane, FreeLeave
<1>6. r.list = t.list /\ r.cursor = t.cursor
  BY <1>5 DEF Only, IsState
<1>7. \A x \in Entries \ {e, s.mem[e].child} : r.mem[x] = t.mem[x]
  <2>1. /\ Dead(t, e) => r.mem = Released(t.mem, e)
        /\ ~Dead(t, e) => r = t
    BY <1>1, FreeView
  <2>2. \A x \in Entries \ {e} : x # t.mem[e].child => Released(t.mem, e)[x] = t.mem[x]
    BY <1>1, ReleasedView DEF IsState
  <2> QED
    BY <1>1, <2>1, <2>2
<1> HIDE DEF r
<1>8. Leave(s.mem, r.mem, {e} \cup {})
  BY <1>1, <1>5, LeaveTrans
<1>9. Only(r, s, {"mem", "list", "cursor"})
  BY <1>1, <1>5 DEF Only
<1> QED
  BY <1>1, <1>5, <1>6, <1>7, <1>8, <1>9 DEF r, t

-----------------------------------------------------------------------------
(* Times *)

\* The same entry, whatever its times are
Kind(d, c) == Who(d, c) /\ Place(d, c) /\ d.child = c.child
InTime(c) == c.timeout # Inf => c.curr =< c.timeout

Left(c, k) == [c EXCEPT !.curr = k]
Renewed(c, k) == [c EXCEPT !.curr = k, !.active = FALSE]
Marked(c) == [c EXCEPT !.timeout = Inf]
Delayed(c, t, k) == [c EXCEPT !.timeout = t, !.curr = k]
Busy(c) == [c EXCEPT !.active = TRUE]

Ticks == 0 .. Inf

LEMMA LeftCell ==
    ASSUME NEW c \in Cell, NEW k \in Ticks
    PROVE  Left(c, k) \in Cell /\ Kind(Left(c, k), c) /\ Left(c, k).timeout = c.timeout /\ Left(c, k).curr = k
<1>1. DOMAIN c = {"live", "tuple", "route", "rtable", "ref", "child", "timeout",
                  "curr", "active", "callback", "added"}
  BY CellDomain
<1>2. Left(c, k) \in Cell
  BY ConntrackAssumption DEF Cell, Ticks, Left
<1>3. Kind(Left(c, k), c) /\ Left(c, k).timeout = c.timeout /\ Left(c, k).curr = k
  BY <1>1 DEF Kind, Who, Place, Left
<1> QED
  BY <1>2, <1>3

LEMMA RenewedCell ==
    ASSUME NEW c \in Cell, NEW k \in Ticks
    PROVE  Renewed(c, k) \in Cell /\ Kind(Renewed(c, k), c) /\ Renewed(c, k).timeout = c.timeout /\ Renewed(c, k).curr = k
<1>1. DOMAIN c = {"live", "tuple", "route", "rtable", "ref", "child", "timeout",
                  "curr", "active", "callback", "added"}
  BY CellDomain
<1>2. Renewed(c, k) \in Cell
  BY ConntrackAssumption DEF Cell, Ticks, Renewed
<1>3. Kind(Renewed(c, k), c) /\ Renewed(c, k).timeout = c.timeout /\ Renewed(c, k).curr = k
  BY <1>1 DEF Kind, Who, Place, Renewed
<1> QED
  BY <1>2, <1>3

LEMMA MarkedCell ==
    ASSUME NEW c \in Cell
    PROVE  Marked(c) \in Cell /\ Kind(Marked(c), c) /\ Marked(c).timeout = Inf
<1>1. DOMAIN c = {"live", "tuple", "route", "rtable", "ref", "child", "timeout",
                  "curr", "active", "callback", "added"}
  BY CellDomain
<1>2. Marked(c) \in Cell
  BY ConntrackAssumption DEF Cell, Ticks, Marked
<1>3. Kind(Marked(c), c) /\ Marked(c).timeout = Inf
  BY <1>1 DEF Kind, Who, Place, Marked
<1> QED
  BY <1>2, <1>3

LEMMA DelayedCell ==
    ASSUME NEW c \in Cell, NEW t \in Ticks, NEW k \in Ticks
    PROVE  Delayed(c, t, k) \in Cell /\ Kind(Delayed(c, t, k), c) /\ Delayed(c, t, k).timeout = t /\ Delayed(c, t, k).curr = k
<1>1. DOMAIN c = {"live", "tuple", "route", "rtable", "ref", "child", "timeout",
                  "curr", "active", "callback", "added"}
  BY CellDomain
<1>2. Delayed(c, t, k) \in Cell
  BY ConntrackAssumption DEF Cell, Ticks, Delayed
<1>3. Kind(Delayed(c, t, k), c) /\ Delayed(c, t, k).timeout = t /\ Delayed(c, t, k).curr = k
  BY <1>1 DEF Kind, Who, Place, Delayed
<1> QED
  BY <1>2, <1>3

LEMMA BusyCell ==
    ASSUME NEW c \in Cell
    PROVE  Busy(c) \in Cell /\ Kind(Busy(c), c) /\ Busy(c).timeout = c.timeout /\ Busy(c).curr = c.curr
<1>1. DOMAIN c = {"live", "tuple", "route", "rtable", "ref", "child", "timeout",
                  "curr", "active", "callback", "added"}
  BY CellDomain
<1>2. Busy(c) \in Cell
  BY ConntrackAssumption DEF Cell, Ticks, Busy
<1>3. Kind(Busy(c), c) /\ Busy(c).timeout = c.timeout /\ Busy(c).curr = c.curr
  BY <1>1 DEF Kind, Who, Place, Busy
<1> QED
  BY <1>2, <1>3

\* Nothing else depends on the times of an entry.
Written(m, e, d) == [m EXCEPT ![e] = d]
Fits(d, c) == d \in Cell /\ Kind(d, c) /\ InTime(d)

LEMMA Retimed ==
    ASSUME NEW m \in Memory, NEW e \in Entries, NEW d, Fits(d, m[e]),
           NEW h, NEW X, Sane(m, h, X)
    PROVE  LET n == Written(m, e, d)
           IN  /\ n \in Memory /\ Sane(n, h, X) /\ Leave(m, n, {})
               /\ \A x \in Entries : n[x].rtable <=> m[x].rtable
               /\ \A x \in Entries \ {e} : n[x] = m[x]
               /\ n[e] = d
<1> DEFINE n == Written(m, e, d)
<1>0. d \in Cell /\ Kind(d, m[e]) /\ InTime(d)
  BY DEF Fits
<1>1. /\ n \in Memory
      /\ \A x \in Entries \ {e} : n[x] = m[x]
      /\ n[e] = d
  BY <1>0 DEF Memory, Written
<1> HIDE DEF n
<1>2. \A x \in Entries : Kind(n[x], m[x])
  BY <1>0, <1>1 DEF Kind, Who, Place
<1>3. Sound(n)
  <2> SUFFICES ASSUME NEW x \in Entries
               PROVE  /\ ~n[x].live => ~n[x].rtable /\ ~n[x].added /\ n[x].ref = 0 /\ n[x].child = None
                      /\ n[x].rtable => n[x].added /\ n[x].tuple \in Tuples
                      /\ n[x].timeout # Inf => n[x].curr =< n[x].timeout
    BY DEF Sound
  <2>1. /\ ~m[x].live => ~m[x].rtable /\ ~m[x].added /\ m[x].ref = 0 /\ m[x].child = None
        /\ m[x].rtable => m[x].added /\ m[x].tuple \in Tuples
        /\ m[x].timeout # Inf => m[x].curr =< m[x].timeout
    BY DEF Sane, Sound
  <2> QED
    BY <1>0, <1>1, <1>2, <2>1 DEF Kind, Who, Place, InTime
<1>4. Paired(n)
  <2>1. \A x \in Entries : m[x].child = None \/ m[x].child \in Entries
    BY CellFields DEF Memory
  <2> QED
    BY <1>2, <2>1 DEF Sane, Paired, Kind, Who
<1>5. Unique(n)
  BY <1>2 DEF Sane, Unique, Kind, Who, Place
<1>6. Counted(n, h, X)
  BY <1>2 DEF Sane, Counted, Right, Kind, Place
<1>7. Leave(m, n, {}) /\ \A x \in Entries : n[x].rtable <=> m[x].rtable
  BY <1>2 DEF Leave, Kind, Who, Place
<1> QED
  BY <1>1, <1>3, <1>4, <1>5, <1>6, <1>7 DEF Sane, n

\* The same for what the functions of the table work on
Rewritten(s, r, e, d) ==
    /\ Only(r, s, {"mem"}) /\ r = [f \in DOMAIN r |-> r[f]]
    /\ r.mem = [s.mem EXCEPT ![e] = d]
    /\ Fits(d, s.mem[e])

LEMMA RetimedState ==
    ASSUME NEW s, IsState(s), NEW e \in Entries,
           NEW h, Sane(s.mem, h, {}), Listed(s.mem, s.list, s.cursor),
           NEW X, Owing(s.mem, s.owed, X),
           NEW r, NEW d, Rewritten(s, r, e, d)
    PROVE  /\ IsState(r) /\ Sane(r.mem, h, {}) /\ Listed(r.mem, r.list, r.cursor)
           /\ Owing(r.mem, r.owed, X) /\ Leave(s.mem, r.mem, {})
           /\ \A x \in Entries \ {e} : r.mem[x] = s.mem[x]
           /\ r.mem[e] = d
<1>1. r.list = s.list /\ r.cursor = s.cursor /\ r.owed = s.owed
  BY DEF Only, IsState, Rewritten
<1>2. /\ r.mem \in Memory /\ Sane(r.mem, h, {}) /\ Leave(s.mem, r.mem, {})
      /\ \A x \in Entries : r.mem[x].rtable <=> s.mem[x].rtable
      /\ \A x \in Entries \ {e} : r.mem[x] = s.mem[x]
      /\ r.mem[e] = d
  <2>1. s.mem \in Memory /\ Fits(d, s.mem[e]) /\ r.mem = Written(s.mem, e, d)
    BY DEF IsState, Rewritten, Written
  <2> QED
    BY <2>1, Retimed
<1>3. IsState(r)
  BY <1>1, <1>2 DEF IsState, Only, Rewritten
<1>4. Listed(r.mem, r.list, r.cursor)
  BY <1>1, <1>2, ListedKept DEF IsState
<1>5. Owing(r.mem, r.owed, X)
  BY <1>1, <1>2, LeaveOwing
<1> QED
  BY <1>2, <1>3, <1>4, <1>5

-----------------------------------------------------------------------------
(* The loop that ages *)

\* It collects the entries that go.
Collects(s) == IsState(s) /\ "gone" \in DOMAIN s /\ s.gone \in Lists
Gone(s) == {s.gone[i] : i \in 1 .. Len(s.gone)}

LEMMA Collect ==
    ASSUME NEW s, Collects(s), NEW e \in Entries
    PROVE  LET r == [s EXCEPT !.gone = Append(@, e)]
           IN  Collects(r) /\ Only(r, s, {"gone"}) /\ Gone(r) = Gone(s) \cup {e}
<1> DEFINE r == [s EXCEPT !.gone = Append(@, e)]
<1>1. Only(r, s, {"gone"}) /\ r.gone = Append(s.gone, e)
  BY DEF Only, Collects, IsState
<1>2. r = [f \in DOMAIN r |-> r[f]]
  BY DEF Collects, IsState
<1> HIDE DEF r
<1>3. /\ r.mem = s.mem /\ r.list = s.list /\ r.cursor = s.cursor /\ r.owed = s.owed
  BY <1>1 DEF Only, Collects, IsState
<1>4. /\ Append(s.gone, e) \in Lists /\ Len(Append(s.gone, e)) = Len(s.gone) + 1
      /\ Append(s.gone, e)[Len(s.gone) + 1] = e
      /\ \A i \in 1 .. Len(s.gone) : Append(s.gone, e)[i] = s.gone[i]
      /\ Len(s.gone) \in Nat
  BY DEF Lists, Collects
<1>5. Collects(r)
  BY <1>1, <1>2, <1>3, <1>4 DEF Collects, IsState, Only
<1>6. Gone(r) = Gone(s) \cup {e}
  <2>1. 1 .. Len(s.gone) + 1 = (1 .. Len(s.gone)) \cup {Len(s.gone) + 1}
    BY <1>4
  <2> QED
    BY <1>1, <1>4, <2>1 DEF Gone
<1> QED
  BY <1>1, <1>5, <1>6 DEF r

\* One more field does not matter.
LEMMA CollectsKept ==
    ASSUME NEW s, Collects(s), NEW r, IsState(r), Only(r, s, {"mem", "list", "cursor", "owed"})
    PROVE  Collects(r) /\ r.gone = s.gone /\ Gone(r) = Gone(s)
BY DEF Collects, Only, Gone

LEMMA OnlyMore ==
    ASSUME NEW s, NEW r, NEW F, NEW G, Only(r, s, F), F \subseteq G
    PROVE  Only(r, s, G)
BY DEF Only

LEMMA OnlyTrans ==
    ASSUME NEW s, NEW r, NEW t, NEW F, Only(r, s, F), Only(t, r, F)
    PROVE  Only(t, s, F)
BY DEF Only

\* The state of the loop: X are those whose clients have been told.
Ageable(s, h, X) ==
    /\ Collects(s) /\ Sane(s.mem, h, {}) /\ Listed(s.mem, s.list, s.cursor)
    /\ Owing(s.mem, s.owed, X)

\* What happens in it: D are the entries that change, and nobody else is collected.
Ages1(s, r, D) ==
    /\ DOMAIN r = DOMAIN s
    /\ Leave(s.mem, r.mem, {}) /\ r.list = s.list /\ r.cursor = s.cursor
    /\ \A x \in Entries \ D : r.mem[x] = s.mem[x]
    /\ Gone(r) \subseteq Gone(s) \cup D

LEMMA Ages1Trans ==
    ASSUME NEW s, NEW r, NEW t, NEW D, Ages1(s, r, D), Ages1(r, t, D)
    PROVE  Ages1(s, t, D)
BY DEF Ages1, Leave, Who

LEMMA CallbackAgeable ==
    ASSUME NEW s, NEW h \in Holdings, NEW X, Ageable(s, h, X), NEW e \in Entries
    PROVE  LET r == Callback(s, e)
           IN  /\ Ageable(r, h, X \cup {e}) /\ Ages1(s, r, {e, s.mem[e].child})
               /\ Gone(r) = Gone(s)
               /\ r.mem[e].child \in {s.mem[e].child, None}
<1> DEFINE r == Callback(s, e)
<1>1. IsState(s) /\ Paired(s.mem)
  BY DEF Ageable, Collects, Sane
<1>2. /\ IsState(r) /\ Only(r, s, {"mem", "owed"})
      /\ Sane(r.mem, h, {}) /\ Listed(r.mem, r.list, r.cursor)
      /\ Leave(s.mem, r.mem, {})
  BY <1>1, CallbackView, CallbackSane, CallbackLeave DEF Ageable
<1>3. Owing(r.mem, r.owed, X \cup {e})
  BY <1>1, CallbackOwing DEF Ageable
<1>4. /\ \A x \in Entries \ {e, s.mem[e].child} : r.mem[x] = s.mem[x]
      /\ r.mem[e].child \in {s.mem[e].child, None}
  BY <1>1, CallbackCells DEF Orphan
<1> HIDE DEF r
<1>5. Collects(r) /\ Gone(r) = Gone(s)
  BY <1>2, CollectsKept, OnlyMore DEF Ageable
<1>6. r.list = s.list /\ r.cursor = s.cursor
  BY <1>1, <1>2 DEF Only, IsState
<1> QED
  BY <1>2, <1>3, <1>4, <1>5, <1>6 DEF Ageable, Ages1, Only, r

LEMMA CollectAgeable ==
    ASSUME NEW s, NEW h, NEW X, Ageable(s, h, X), NEW e \in Entries
    PROVE  LET r == [s EXCEPT !.gone = Append(@, e)]
           IN  /\ Ageable(r, h, X) /\ Ages1(s, r, {e}) /\ Gone(r) = Gone(s) \cup {e}
               /\ r.mem = s.mem
<1> DEFINE r == [s EXCEPT !.gone = Append(@, e)]
<1>1. Collects(r) /\ Only(r, s, {"gone"}) /\ Gone(r) = Gone(s) \cup {e}
  BY Collect DEF Ageable
<1> HIDE DEF r
<1>2. /\ r.mem = s.mem /\ r.list = s.list /\ r.cursor = s.cursor /\ r.owed = s.owed
  BY <1>1 DEF Only, Ageable, Collects, IsState
<1> QED
  BY <1>1, <1>2 DEF Ageable, Ages1, Leave, Who, r

\* An entry gets other times.
LEMMA TimedAgeable ==
    ASSUME NEW s, NEW h, NEW X, Ageable(s, h, X), NEW e \in Entries,
           NEW r, NEW d, Rewritten(s, r, e, d)
    PROVE  /\ Ageable(r, h, X) /\ Ages1(s, r, {e}) /\ Gone(r) = Gone(s)
           /\ r.mem[e] = d
<1>1. IsState(s)
  BY DEF Ageable, Collects
<1>2. /\ IsState(r) /\ Sane(r.mem, h, {}) /\ Listed(r.mem, r.list, r.cursor)
      /\ Owing(r.mem, r.owed, X) /\ Leave(s.mem, r.mem, {})
      /\ \A x \in Entries \ {e} : r.mem[x] = s.mem[x]
      /\ r.mem[e] = d
  <2>1. Sane(s.mem, h, {}) /\ Listed(s.mem, s.list, s.cursor) /\ Owing(s.mem, s.owed, X)
    BY DEF Ageable
  <2> QED
    BY <1>1, <2>1, RetimedState
<1>3. Collects(r) /\ Gone(r) = Gone(s)
  BY <1>2, CollectsKept, OnlyMore DEF Ageable, Rewritten
<1>4. r.list = s.list /\ r.cursor = s.cursor
  BY <1>1 DEF Only, IsState, Rewritten
<1> QED
  BY <1>2, <1>3, <1>4 DEF Ageable, Ages1, Only, Rewritten

\* The end of an entry and, when it has one in time, of its partner
LEMMA ExpireAll ==
    ASSUME NEW s, NEW h \in Holdings, Ageable(s, h, Gone(s)), NEW e \in Entries
    PROVE  LET r == Expire(s, e)
           IN  Ageable(r, h, Gone(r)) /\ Ages1(s, r, {e, s.mem[e].child})
<1> DEFINE t == Callback(s, e)
           c == t.mem[e].child
           alone == [t EXCEPT !.gone = Append(@, e)]
           u == Callback(alone, c)
           both == [u EXCEPT !.gone = Append(@, c), !.mem[c].timeout = Inf]
           D == {e, s.mem[e].child}
           r == Expire(s, e)
<1>1. r = IF c = None THEN alone
          ELSE IF t.mem[c].timeout = Inf THEN alone ELSE both
  BY DEF Expire
<1>2. /\ Ageable(t, h, Gone(s) \cup {e}) /\ Ages1(s, t, D) /\ Gone(t) = Gone(s)
      /\ c \in {s.mem[e].child, None}
  BY CallbackAgeable
<1>3. c \in Entries \cup {None}
  BY <1>2, CellFields DEF Ageable, Collects, IsState, Memory
<1> HIDE DEF t, c
<1>4. /\ Ageable(alone, h, Gone(s) \cup {e}) /\ Ages1(t, alone, {e})
      /\ Gone(alone) = Gone(s) \cup {e} /\ alone.mem = t.mem
  BY <1>2, CollectAgeable
<1> HIDE DEF alone
<1>5. Ages1(t, alone, D)
  BY <1>4 DEF Ages1
<1>6. Ages1(s, alone, D)
  BY <1>2, <1>5, Ages1Trans
<1> HIDE DEF u
<1>7. ASSUME c # None
      PROVE  Ageable(both, h, Gone(both)) /\ Ages1(s, both, D)
  <2>1. c \in Entries /\ c = s.mem[e].child /\ alone.mem[c].child = e
    <3>1. c \in Entries /\ c = s.mem[e].child
      BY <1>2, <1>3, <1>7
    <3>2. t.mem[c].child = e
      BY <1>2, <1>7 DEF Ageable, Sane, Paired, c
    <3> QED
      BY <1>4, <3>1, <3>2
  <2>2. /\ Ageable(u, h, Gone(s) \cup {e} \cup {c}) /\ Ages1(alone, u, {c, e})
        /\ Gone(u) = Gone(s) \cup {e}
    BY <1>4, <2>1, CallbackAgeable DEF u
  <2> DEFINE w == [u EXCEPT !.gone = Append(@, c)]
             d == Marked(u.mem[c])
  <2>3. /\ Ageable(w, h, Gone(s) \cup {e} \cup {c}) /\ Ages1(u, w, {c})
        /\ Gone(w) = Gone(s) \cup {e} \cup {c} /\ w.mem = u.mem
    <3>1. /\ Ageable(w, h, Gone(s) \cup {e} \cup {c}) /\ Ages1(u, w, {c})
          /\ Gone(w) = Gone(u) \cup {c} /\ w.mem = u.mem
      BY <2>1, <2>2, CollectAgeable
    <3> QED
      BY <2>2, <3>1
  <2>4. Collects(u) /\ u.mem \in Memory /\ u.mem[c] \in Cell
    BY <2>1, <2>2 DEF Ageable, Collects, IsState, Memory
  <2>5. /\ Only(both, w, {"mem"}) /\ both = [f \in DOMAIN both |-> both[f]]
        /\ both.mem = [w.mem EXCEPT ![c] = d]
    BY <2>1, <2>4 DEF Collects, IsState, Only, Memory, Marked
  <2>6. d \in Cell /\ Kind(d, w.mem[c]) /\ InTime(d)
    <3>1. d \in Cell /\ Kind(d, u.mem[c]) /\ d.timeout = Inf
      BY <2>4, MarkedCell
    <3> QED
      BY <2>3, <3>1 DEF InTime
  <2> HIDE DEF w, d, both
  <2>0. Rewritten(w, both, c, d)
    BY <2>5, <2>6 DEF Rewritten, Fits
  <2>7. /\ Ageable(both, h, Gone(s) \cup {e} \cup {c}) /\ Ages1(w, both, {c})
        /\ Gone(both) = Gone(w)
    <3> DEFINE X == Gone(s) \cup {e} \cup {c}
    <3>1. Ageable(w, h, X)
      BY <2>3
    <3> HIDE DEF X
    <3>2. PICK a, b, k, x : a = w /\ b = both /\ k = d /\ x = c
      OBVIOUS
    <3>3. Ageable(a, h, X) /\ x \in Entries /\ Rewritten(a, b, x, k)
      BY <2>0, <2>1, <3>1, <3>2
    <3>4. Ageable(b, h, X) /\ Ages1(a, b, {x}) /\ Gone(b) = Gone(a)
      BY <3>3, TimedAgeable
    <3> QED
      BY <3>2, <3>4 DEF X
  <2>8. Ages1(alone, u, D) /\ Ages1(u, w, D) /\ Ages1(w, both, D)
    BY <2>1, <2>2, <2>3, <2>7 DEF Ages1
  <2>9. Ages1(s, both, D)
    BY <1>6, <2>8, Ages1Trans
  <2> QED
    BY <2>3, <2>7, <2>9
<1> HIDE DEF both, r, D
<1>8. Ageable(r, h, Gone(r)) /\ Ages1(s, r, D)
  BY <1>1, <1>4, <1>6, <1>7
<1> QED
  BY <1>8 DEF r, D

Left1(s, e) == IF s.mem[e].curr >= 1 THEN s.mem[e].curr - 1 ELSE 0

\* Its four cases
LEMMA AgeCases ==
    ASSUME NEW s, Collects(s), NEW e \in Entries
    PROVE  LET c == s.mem[e]
               r == Age(s, e)
               older == [s EXCEPT !.mem[e].curr = Left1(s, e)]
           IN  /\ c.timeout = Inf => r = s
               /\ c.timeout # Inf /\ c.active =>
                     /\ Only(r, s, {"mem"}) /\ r = [f \in DOMAIN r |-> r[f]]
                     /\ r.mem = [s.mem EXCEPT ![e] = Renewed(c, c.timeout)]
               /\ c.timeout # Inf /\ ~c.active /\ Left1(s, e) # 0 => r = older
               /\ c.timeout # Inf /\ ~c.active /\ Left1(s, e) = 0 => r = Expire(older, e)
               /\ Only(older, s, {"mem"}) /\ older = [f \in DOMAIN older |-> older[f]]
               /\ older.mem = [s.mem EXCEPT ![e] = Left(c, Left1(s, e))]
<1> DEFINE c == s.mem[e]
           older == [s EXCEPT !.mem[e].curr = Left1(s, e)]
           reset == [s EXCEPT !.mem[e].curr = c.timeout, !.mem[e].active = FALSE]
<1>1. Age(s, e) = IF c.timeout = Inf THEN s
                  ELSE IF c.active THEN reset
                  ELSE IF Left1(s, e) = 0 THEN Expire(older, e) ELSE older
  BY DEF Age, Left1
<1>2. /\ Only(older, s, {"mem"}) /\ older = [f \in DOMAIN older |-> older[f]]
      /\ older.mem = [s.mem EXCEPT ![e] = Left(c, Left1(s, e))]
  BY DEF Only, Collects, IsState, Memory, Left
<1>3. /\ Only(reset, s, {"mem"}) /\ reset = [f \in DOMAIN reset |-> reset[f]]
      /\ reset.mem = [s.mem EXCEPT ![e] = Renewed(c, c.timeout)]
  BY DEF Only, Collects, IsState, Memory, Renewed
<1> QED
  BY <1>1, <1>2, <1>3

LEMMA OlderCell ==
    ASSUME NEW s, NEW h, NEW X, Ageable(s, h, X), NEW e \in Entries
    PROVE  LET c == s.mem[e]
               d == Left(c, Left1(s, e))
               r == Renewed(c, c.timeout)
           IN  /\ d \in Cell /\ Kind(d, c) /\ InTime(d)
               /\ d.timeout = c.timeout /\ d.curr = Left1(s, e)
               /\ r \in Cell /\ Kind(r, c) /\ InTime(r)
               /\ r.timeout = c.timeout /\ r.curr = c.timeout
               /\ c.curr \in 0 .. Inf /\ c.timeout \in 0 .. Inf
               /\ InTime(c)
<1> DEFINE c == s.mem[e]
<1>1. c \in Cell
  BY DEF Ageable, Collects, IsState, Memory
<1>2. c.curr \in 0 .. Inf /\ c.timeout \in 0 .. Inf
  BY <1>1, CellFields
<1>3. InTime(c)
  BY DEF Ageable, Sane, Sound, InTime
<1>4. Left1(s, e) \in 0 .. Inf /\ Left1(s, e) =< c.curr
  BY <1>2, Forever DEF Left1
<1> HIDE DEF c
<1>5. /\ Left(c, Left1(s, e)) \in Cell /\ Kind(Left(c, Left1(s, e)), c)
      /\ Left(c, Left1(s, e)).timeout = c.timeout /\ Left(c, Left1(s, e)).curr = Left1(s, e)
  <2>1. Left1(s, e) \in Ticks
    BY <1>4 DEF Ticks
  <2> QED
    BY <1>1, <2>1, LeftCell
<1>6. /\ Renewed(c, c.timeout) \in Cell /\ Kind(Renewed(c, c.timeout), c)
      /\ Renewed(c, c.timeout).timeout = c.timeout
      /\ Renewed(c, c.timeout).curr = c.timeout
  <2>1. c.timeout \in Ticks
    BY <1>2 DEF Ticks
  <2> QED
    BY <1>1, <2>1, RenewedCell
<1>7. InTime(Left(c, Left1(s, e)))
  BY <1>2, <1>3, <1>4, <1>5, Forever DEF InTime
<1>8. InTime(Renewed(c, c.timeout))
  BY <1>2, <1>6, Forever DEF InTime
<1> QED
  BY <1>2, <1>3, <1>5, <1>6, <1>7, <1>8 DEF c

\* An entry of the table ages.
LEMMA AgeAll ==
    ASSUME NEW s, NEW h \in Holdings, Ageable(s, h, Gone(s)), NEW e \in Entries
    PROVE  LET r == Age(s, e)
           IN  Ageable(r, h, Gone(r)) /\ Ages1(s, r, {e, s.mem[e].child})
<1> DEFINE c == s.mem[e]
           r == Age(s, e)
           older == [s EXCEPT !.mem[e].curr = Left1(s, e)]
           D == {e, s.mem[e].child}
<1>1. Collects(s)
  BY DEF Ageable
<1>2. /\ c.timeout = Inf => r = s
      /\ c.timeout # Inf /\ c.active =>
            /\ Only(r, s, {"mem"}) /\ r = [f \in DOMAIN r |-> r[f]]
            /\ r.mem = [s.mem EXCEPT ![e] = Renewed(c, c.timeout)]
      /\ c.timeout # Inf /\ ~c.active /\ Left1(s, e) # 0 => r = older
      /\ c.timeout # Inf /\ ~c.active /\ Left1(s, e) = 0 => r = Expire(older, e)
      /\ Only(older, s, {"mem"}) /\ older = [f \in DOMAIN older |-> older[f]]
      /\ older.mem = [s.mem EXCEPT ![e] = Left(c, Left1(s, e))]
  BY <1>1, AgeCases
<1>3. /\ Left(c, Left1(s, e)) \in Cell /\ Kind(Left(c, Left1(s, e)), c) /\ InTime(Left(c, Left1(s, e)))
      /\ Renewed(c, c.timeout) \in Cell /\ Kind(Renewed(c, c.timeout), c) /\ InTime(Renewed(c, c.timeout))
  BY OlderCell
<1> HIDE DEF r, older
<1>4. Rewritten(s, older, e, Left(c, Left1(s, e)))
  BY <1>2, <1>3 DEF Rewritten, Fits
<1>5. /\ Ageable(older, h, Gone(s)) /\ Ages1(s, older, {e}) /\ Gone(older) = Gone(s)
      /\ older.mem[e] = Left(c, Left1(s, e))
  BY <1>4, TimedAgeable
<1>6. older.mem[e].child = c.child
  BY <1>3, <1>5 DEF Kind
<1>7. Ages1(s, older, D)
  BY <1>5 DEF Ages1
<1>8. CASE c.timeout = Inf
  BY <1>2, <1>8 DEF Ages1, Leave, Who, r
<1>9. CASE c.timeout # Inf /\ c.active
  <2>1. Rewritten(s, r, e, Renewed(c, c.timeout))
    BY <1>2, <1>3, <1>9 DEF Rewritten, Fits
  <2>2. Ageable(r, h, Gone(s)) /\ Ages1(s, r, {e}) /\ Gone(r) = Gone(s)
    BY <2>1, TimedAgeable
  <2>3. Ages1(s, r, D)
    BY <2>2 DEF Ages1
  <2> QED
    BY <2>2, <2>3 DEF r
<1>10. CASE c.timeout # Inf /\ ~c.active /\ Left1(s, e) # 0
  BY <1>2, <1>5, <1>7, <1>10 DEF r
<1>11. CASE c.timeout # Inf /\ ~c.active /\ Left1(s, e) = 0
  <2>0. Ageable(older, h, Gone(older)) /\ r = Expire(older, e)
    BY <1>2, <1>5, <1>11
  <2>1. Ageable(r, h, Gone(r)) /\ Ages1(older, r, {e, older.mem[e].child})
    BY <2>0, ExpireAll
  <2>2. Ages1(older, r, D)
    BY <1>6, <2>1
  <2> HIDE DEF D
  <2>3. Ages1(s, r, D)
    BY <1>7, <2>2, Ages1Trans
  <2> QED
    BY <2>1, <2>3 DEF D, r
<1> QED
  BY <1>8, <1>9, <1>10, <1>11

\* An entry with time left does not go, nor its partner.
LEMMA AgeYoung ==
    ASSUME NEW s, NEW h \in Holdings, Ageable(s, h, Gone(s)), NEW e \in Entries,
           s.mem[e].timeout = Inf \/ s.mem[e].curr >= 2
    PROVE  LET r == Age(s, e)
           IN  /\ Ages1(s, r, {e}) /\ Gone(r) = Gone(s)
               /\ Kind(r.mem[e], s.mem[e]) /\ r.mem[e].timeout = s.mem[e].timeout
               /\ r.mem[e].timeout = Inf \/ r.mem[e].curr >= 1
<1> DEFINE c == s.mem[e]
           r == Age(s, e)
           older == [s EXCEPT !.mem[e].curr = Left1(s, e)]
<1>1. Collects(s)
  BY DEF Ageable
<1>2. /\ c.timeout = Inf => r = s
      /\ c.timeout # Inf /\ c.active =>
            /\ Only(r, s, {"mem"}) /\ r = [f \in DOMAIN r |-> r[f]]
            /\ r.mem = [s.mem EXCEPT ![e] = Renewed(c, c.timeout)]
      /\ c.timeout # Inf /\ ~c.active /\ Left1(s, e) # 0 => r = older
      /\ Only(older, s, {"mem"}) /\ older = [f \in DOMAIN older |-> older[f]]
      /\ older.mem = [s.mem EXCEPT ![e] = Left(c, Left1(s, e))]
  BY <1>1, AgeCases
<1>3. /\ Left(c, Left1(s, e)) \in Cell /\ Kind(Left(c, Left1(s, e)), c) /\ InTime(Left(c, Left1(s, e)))
      /\ Left(c, Left1(s, e)).timeout = c.timeout /\ Left(c, Left1(s, e)).curr = Left1(s, e)
      /\ Renewed(c, c.timeout) \in Cell /\ Kind(Renewed(c, c.timeout), c) /\ InTime(Renewed(c, c.timeout))
      /\ Renewed(c, c.timeout).timeout = c.timeout /\ Renewed(c, c.timeout).curr = c.timeout
      /\ c.curr \in 0 .. Inf /\ c.timeout \in 0 .. Inf /\ InTime(c)
  BY OlderCell
<1> HIDE DEF r, older
<1>4. CASE c.timeout = Inf
  BY <1>2, <1>4 DEF Ages1, Leave, Who, Kind, Place, r
<1>5. CASE c.timeout # Inf /\ c.active
  <2>1. Rewritten(s, r, e, Renewed(c, c.timeout))
    BY <1>2, <1>3, <1>5 DEF Rewritten, Fits
  <2>2. Ages1(s, r, {e}) /\ Gone(r) = Gone(s) /\ r.mem[e] = Renewed(c, c.timeout)
    BY <2>1, TimedAgeable
  <2>3. c.timeout >= 1
    BY <1>3, <1>5, Forever DEF InTime
  <2> QED
    BY <1>3, <2>2, <2>3 DEF r
<1>6. CASE c.timeout # Inf /\ ~c.active
  <2>1. Left1(s, e) >= 1
    BY <1>3, <1>6, Forever DEF Left1
  <2>2. r = older
    BY <1>2, <1>6, <2>1
  <2>3. Rewritten(s, r, e, Left(c, Left1(s, e)))
    BY <1>2, <1>3, <2>2 DEF Rewritten, Fits
  <2>4. Ages1(s, r, {e}) /\ Gone(r) = Gone(s) /\ r.mem[e] = Left(c, Left1(s, e))
    BY <2>3, TimedAgeable
  <2> QED
    BY <1>3, <2>1, <2>4 DEF r
<1> QED
  BY <1>4, <1>5, <1>6

-----------------------------------------------------------------------------
(* Loops *)

\* What holds at first, and after each pass if before, holds in the end.
LEMMA Upto ==
    ASSUME NEW N \in Nat, NEW G, 0 \in G, \A n \in 1 .. N : n - 1 \in G => n \in G
    PROVE  \A n \in 0 .. N : n \in G
<1> DEFINE B == {n \in 0 .. N : n \notin G}
<1> SUFFICES ASSUME B # {} PROVE FALSE
  OBVIOUS
<1>1. B \in SUBSET Nat
  OBVIOUS
<1>2. Min(B) \in B /\ \A y \in B : Min(B) =< y
  BY <1>1, Least
<1>3. PICK m \in B : \A y \in B : m =< y
  BY <1>2
<1>4. m \in 1 .. N /\ m - 1 \in 0 .. N /\ m \notin G
  BY <1>3
<1>5. m - 1 \notin B
  BY <1>3, <1>4
<1> QED
  BY <1>4, <1>5

\* A loop runs.
Passes(S, N) == [S \X (1 .. N) -> S]
HasRun(S, a, N, g) ==
    \E f \in [0 .. N -> S] :
        f[0] = a /\ \A n \in 1 .. N : f[n] = g[<<f[n - 1], n>>]

LEMMA Iterates ==
    ASSUME NEW S, NEW a \in S, NEW N \in Nat, NEW g \in Passes(S, N)
    PROVE  HasRun(S, a, N, g)
<1> USE DEF Passes, HasRun
<1> DEFINE Runs(f, M) == f[0] = a /\ \A n \in 1 .. M : f[n] = g[<<f[n - 1], n>>]
           G == {M \in 0 .. N : \E f \in [0 .. M -> S] : Runs(f, M)}
<1>1. 0 \in G
  <2> DEFINE z == [n \in 0 .. 0 |-> a]
  <2>1. z \in [0 .. 0 -> S] /\ Runs(z, 0)
    OBVIOUS
  <2>2. 0 \in 0 .. N
    OBVIOUS
  <2> HIDE DEF z, Runs
  <2> QED
    BY <2>1, <2>2
<1>2. ASSUME NEW M \in 1 .. N, M - 1 \in G
      PROVE  M \in G
  <2>1. PICK f \in [0 .. M - 1 -> S] : Runs(f, M - 1)
    BY <1>2
  <2> DEFINE h == [n \in 0 .. M |-> IF n = M THEN g[<<f[M - 1], M>>] ELSE f[n]]
  <2>2. f[M - 1] \in S /\ g[<<f[M - 1], M>>] \in S
    BY <2>1
  <2>3. h \in [0 .. M -> S]
    BY <2>2
  <2>4. h[0] = a
    BY <2>1
  <2>5. ASSUME NEW n \in 1 .. M
        PROVE  h[n] = g[<<h[n - 1], n>>]
    <3>1. n - 1 \in 0 .. M /\ n - 1 # M /\ n \in 0 .. M
      OBVIOUS
    <3>2. h[n - 1] = f[n - 1]
      BY <3>1
    <3>3. CASE n = M
      BY <3>1, <3>2, <3>3
    <3>4. CASE n # M
      <4>1. n \in 1 .. M - 1
        BY <3>4
      <4>2. h[n] = f[n]
        BY <3>1, <3>4
      <4> QED
        BY <2>1, <3>2, <4>1, <4>2
    <3> QED
      BY <3>3, <3>4
  <2> HIDE DEF h
  <2>6. Runs(h, M)
    BY <2>4, <2>5
  <2> QED
    BY <2>3, <2>6
<1> HIDE DEF G
<1>3. N \in G
  <2>1. \A n \in 0 .. N : n \in G
    BY <1>1, <1>2, Upto
  <2>2. N \in 0 .. N
    OBVIOUS
  <2> QED
    BY <2>1, <2>2
<1> QED
  BY <1>3 DEF G

\* Entries that the ageing loop must not touch: W are not in the table yet, Z
\* have just come into it.
Lasts(c, n) == c.timeout = Inf \/ c.curr >= n
Apart(m, W, Z) ==
    /\ W \subseteq Entries /\ Z \subseteq Entries
    /\ \A x \in W : ~m[x].rtable
    /\ \A x \in Z : Lasts(m[x], 2)
    /\ \A x \in W \cup Z : m[x].child \in W \cup Z \cup {None}

\* After the first n entries of the list, es, have aged
Loop(s, n, m, es, c, h, W, Z) ==
    /\ Ageable(s, h, Gone(s)) /\ DOMAIN s = {"mem", "list", "cursor", "owed", "gone"}
    /\ s.list = es /\ s.cursor = c
    /\ Leave(m, s.mem, {})
    /\ \A x \in W : s.mem[x] = m[x]
    /\ \A x \in Z : /\ Kind(s.mem[x], m[x]) /\ s.mem[x].timeout = m[x].timeout
                    /\ Lasts(s.mem[x], 1)
                    /\ Lasts(s.mem[x], 2) \/ \E i \in 1 .. n : es[i] = x
    /\ \A x \in W \cup Z : x \notin Gone(s)

LEMMA LoopStep ==
    ASSUME NEW m \in Memory, NEW es \in Lists, NEW c, NEW h \in Holdings, NEW W, NEW Z,
           Apart(m, W, Z), NEW n \in 1 .. Len(es), NEW s,
           Loop(s, n - 1, m, es, c, h, W, Z)
    PROVE  Loop(Age(s, es[n]), n, m, es, c, h, W, Z)
<1> DEFINE e == es[n]
           r == Age(s, e)
           p == s.mem[e].child
<1>1. Len(es) \in Nat /\ e \in Entries
  BY DEF Lists
<1>2. /\ Ageable(s, h, Gone(s)) /\ DOMAIN s = {"mem", "list", "cursor", "owed", "gone"}
      /\ s.list = es /\ s.cursor = c
      /\ Leave(m, s.mem, {})
      /\ \A x \in W : s.mem[x] = m[x]
      /\ \A x \in Z : /\ Kind(s.mem[x], m[x]) /\ s.mem[x].timeout = m[x].timeout
                      /\ Lasts(s.mem[x], 1)
                      /\ Lasts(s.mem[x], 2) \/ \E i \in 1 .. n - 1 : es[i] = x
      /\ \A x \in W \cup Z : x \notin Gone(s)
  BY DEF Loop
<1>3. s.mem[e].rtable /\ Distinct(es)
  BY <1>1, <1>2 DEF Ageable, Listed
<1>4. e \notin W
  BY <1>2, <1>3 DEF Apart
<1>5. Ageable(r, h, Gone(r)) /\ Ages1(s, r, {e, p})
  BY <1>1, <1>2, AgeAll
<1>6. \A x \in W \cup Z : s.mem[x].child \in W \cup Z \cup {None}
  BY <1>2 DEF Apart, Kind
<1> HIDE DEF r, e, p
<1>7. /\ DOMAIN r = DOMAIN s /\ r.list = es /\ r.cursor = c
      /\ Leave(s.mem, r.mem, {})
  BY <1>2, <1>5 DEF Ages1
<1>8. Leave(m, r.mem, {})
  BY <1>2, <1>7, LeaveTrans
<1>9. \A i \in 1 .. n - 1 : i \in 1 .. n
  BY <1>1
<1>10. CASE e \in Z
  <2>1. \A i \in 1 .. n - 1 : es[i] # e
    <3> SUFFICES ASSUME NEW i \in 1 .. n - 1, es[i] = e PROVE FALSE
      OBVIOUS
    <3>1. i \in 1 .. Len(es) /\ n \in 1 .. Len(es) /\ i # n
      BY <1>1
    <3> QED
      BY <1>3, <3>1 DEF Distinct, e
  <2>2. Lasts(s.mem[e], 2)
    BY <1>2, <1>10, <2>1
  <2>3. /\ Ages1(s, r, {e}) /\ Gone(r) = Gone(s)
        /\ Kind(r.mem[e], s.mem[e]) /\ r.mem[e].timeout = s.mem[e].timeout
        /\ Lasts(r.mem[e], 1)
    BY <1>1, <1>2, <2>2, AgeYoung DEF Lasts, r
  <2>4. \A x \in Entries \ {e} : r.mem[x] = s.mem[x]
    BY <2>3 DEF Ages1
  <2>5. \A x \in W : r.mem[x] = m[x]
    BY <1>2, <1>4, <2>4 DEF Apart
  <2>6. ASSUME NEW x \in Z
        PROVE  /\ Kind(r.mem[x], m[x]) /\ r.mem[x].timeout = m[x].timeout
               /\ Lasts(r.mem[x], 1)
               /\ Lasts(r.mem[x], 2) \/ \E i \in 1 .. n : es[i] = x
    <3>1. CASE x = e
      <4>1. \E i \in 1 .. n : es[i] = x
        BY <1>1, <3>1 DEF e
      <4> QED
        BY <1>2, <2>3, <3>1, <4>1 DEF Kind, Who, Place
    <3>2. CASE x # e
      <4>1. r.mem[x] = s.mem[x]
        BY <2>4, <3>2 DEF Apart
      <4> QED
        BY <1>2, <1>9, <4>1
    <3> QED
      BY <3>1, <3>2
  <2> QED
    BY <1>2, <1>5, <1>7, <1>8, <2>3, <2>5, <2>6 DEF Loop, r, e
<1>11. CASE e \notin Z
  <2>1. p \notin W \cup Z
    <3> SUFFICES ASSUME p \in W \cup Z PROVE FALSE
      OBVIOUS
    <3>1. p \in Entries /\ p # None
      BY Nobody DEF Apart
    <3>2. s.mem[p].child = e
      BY <1>1, <1>2, <3>1 DEF Ageable, Sane, Paired, p
    <3> QED
      BY <1>1, <1>4, <1>6, <1>11, <3>2, Nobody
  <2>2. /\ \A x \in Entries \ {e, p} : r.mem[x] = s.mem[x]
        /\ Gone(r) \subseteq Gone(s) \cup {e, p}
    BY <1>5 DEF Ages1
  <2>3. \A x \in W \cup Z : r.mem[x] = s.mem[x] /\ x \notin Gone(r)
    BY <1>2, <1>4, <1>11, <2>1, <2>2 DEF Apart
  <2> QED
    BY <1>2, <1>5, <1>7, <1>8, <1>9, <2>3 DEF Loop, r, e
<1> QED
  BY <1>10, <1>11

\* While those that have been collected, G, leave the table
Shrinks(s, m, es, c, h, V, q, G) ==
    /\ IsState(s) /\ DOMAIN s = {"mem", "list", "cursor", "owed", "gone"}
    /\ s.gone \in Lists
    /\ Sane(s.mem, h, {}) /\ Listed(s.mem, s.list, s.cursor) /\ Owing(s.mem, s.owed, G)
    /\ Leave(m, s.mem, Entries)
    /\ \A x \in Entries : s.mem[x].rtable /\ Ahead(es, c, x) => Ahead(s.list, s.cursor, x)
    /\ \A x \in V : s.mem[x] = q[x]

LEMMA ShrinksStep ==
    ASSUME NEW m, NEW es, NEW c, NEW h \in Holdings, NEW V \in SUBSET Entries, NEW q, NEW G,
           \A x \in V : q[x].child \in V \cup {None},
           NEW e \in Entries, e \in G, e \notin V,
           NEW s, Shrinks(s, m, es, c, h, V, q, G)
    PROVE  Shrinks(FreeNolock(DelNolock(s, e), e), m, es, c, h, V, q, G)
<1> DEFINE r == FreeNolock(DelNolock(s, e), e)
           p == s.mem[e].child
<1>1. /\ IsState(s) /\ DOMAIN s = {"mem", "list", "cursor", "owed", "gone"}
      /\ s.gone \in Lists
      /\ Sane(s.mem, h, {}) /\ Listed(s.mem, s.list, s.cursor) /\ Owing(s.mem, s.owed, G)
      /\ Leave(m, s.mem, Entries)
      /\ \A x \in Entries : s.mem[x].rtable /\ Ahead(es, c, x) => Ahead(s.list, s.cursor, x)
      /\ \A x \in V : s.mem[x] = q[x]
  BY DEF Shrinks
<1>2. /\ IsState(r) /\ Only(r, s, {"mem", "list", "cursor"})
      /\ Sane(r.mem, h, {}) /\ Listed(r.mem, r.list, r.cursor)
      /\ Leave(s.mem, r.mem, {e})
      /\ \A x \in Entries \ {e, p} : r.mem[x] = s.mem[x]
      /\ \A x \in Entries \ {e} :
            Ahead(s.list, s.cursor, x) => Ahead(r.list, r.cursor, x)
  BY <1>1, RetireAll
<1>3. ~r.mem[e].rtable
  <2>1. IsState(DelNolock(s, e)) /\ ~DelNolock(s, e).mem[e].rtable
    BY <1>1, DelView, DelLeave
  <2>2. Leave(DelNolock(s, e).mem, r.mem, {})
    BY <2>1, FreeLeave
  <2> QED
    BY <2>1, <2>2 DEF Leave
<1> HIDE DEF r, p
<1>4. p \notin V
  <2> SUFFICES ASSUME p \in V PROVE FALSE
    OBVIOUS
  <2>1. p \in Entries /\ p # None
    BY Nobody
  <2>2. s.mem[p].child = e
    BY <1>1, <2>1 DEF Sane, Paired, p
  <2>3. e \in V \cup {None}
    BY <1>1, <2>2
  <2> QED
    BY <2>3, Nobody
<1>5. \A x \in V : r.mem[x] = q[x]
  BY <1>1, <1>2, <1>4
<1>6. r.owed = s.owed /\ r.gone = s.gone /\ DOMAIN r = DOMAIN s
  BY <1>1, <1>2 DEF Only
<1>7. Owing(r.mem, r.owed, G)
  BY <1>1, <1>2, <1>6, LeaveOwing
<1>8. Leave(m, r.mem, Entries)
  BY <1>1, <1>2 DEF Leave, Who
<1>9. \A x \in Entries : r.mem[x].rtable /\ Ahead(es, c, x) => Ahead(r.list, r.cursor, x)
  BY <1>1, <1>2, <1>3 DEF Leave
<1> QED
  BY <1>1, <1>2, <1>5, <1>6, <1>7, <1>8, <1>9 DEF Shrinks, r

-----------------------------------------------------------------------------
(* A tick *)

Records == [mem : Memory, list : Lists, cursor : Cursors, owed : SUBSET Tuples, gone : Lists]

LEMMA RecordsAre ==
    ASSUME NEW s, IsState(s), DOMAIN s = {"mem", "list", "cursor", "owed", "gone"},
           s.gone \in Lists
    PROVE  s \in Records
BY DEF IsState, Records

TableTyped == mem \in Memory /\ list \in Lists /\ cursor \in Cursors /\ owed \in SUBSET Tuples

\* The ageing loop keeps the table in order and does not touch what is apart.
LEMMA AgeingLoop ==
    ASSUME TableTyped, NEW h \in Holdings, NEW W, NEW Z, Apart(mem, W, Z),
           Sane(mem, h, {}), Listed(mem, list, cursor), Owing(mem, owed, {})
    PROVE  Loop(Aged, Len(list), mem, list, cursor, h, W, Z)
<1> DEFINE start == [mem |-> mem, list |-> list, cursor |-> cursor, owed |-> owed,
                     gone |-> <<>>]
           N == Len(list)
           Inv(s, n) == Loop(s, n, mem, list, cursor, h, W, Z)
           g == [p \in Records \X (1 .. N) |->
                    IF Age(p[1], list[p[2]]) \in Records THEN Age(p[1], list[p[2]]) ELSE p[1]]
<1>1. N \in Nat /\ mem \in Memory /\ list \in Lists
  BY DEF TableTyped, Lists
<1>2. start \in Records /\ Inv(start, 0)
  <2>1. <<>> \in Lists
    BY DEF Lists
  <2>2. start \in Records
    BY <2>1 DEF TableTyped, Records
  <2>3. Collects(start) /\ Gone(start) = {}
    BY <2>1 DEF Collects, IsState, TableTyped, Gone
  <2>4. Ageable(start, h, {})
    BY <2>3 DEF Ageable
  <2>5. Leave(mem, mem, {})
    BY DEF Leave, Who
  <2>6. \A x \in Z : Lasts(mem[x], 2) /\ Lasts(mem[x], 1)
    <3> SUFFICES ASSUME NEW x \in Z PROVE Lasts(mem[x], 2) /\ Lasts(mem[x], 1)
      OBVIOUS
    <3>1. x \in Entries /\ Lasts(mem[x], 2)
      BY DEF Apart
    <3>2. mem[x].curr \in 0 .. Inf
      BY <1>1, <3>1, CellFields DEF Memory
    <3> QED
      BY <3>1, <3>2, Forever DEF Lasts
  <2>7. DOMAIN start = {"mem", "list", "cursor", "owed", "gone"}
    OBVIOUS
  <2> QED
    BY <2>2, <2>3, <2>4, <2>5, <2>6, <2>7 DEF Loop, Kind, Who, Place
<1> HIDE DEF start, Inv
<1>3. ASSUME NEW s, NEW n \in 1 .. N, Inv(s, n - 1)
      PROVE  Inv(Age(s, list[n]), n)
  BY <1>1, <1>3, LoopStep DEF Inv
<1>4. ASSUME NEW s, NEW n, Inv(s, n)
      PROVE  s \in Records
  BY <1>4, RecordsAre DEF Inv, Loop, Ageable, Collects
<1>5. PICK f \in [0 .. N -> Records] :
         f[0] = start /\ \A n \in 1 .. N : f[n] = g[<<f[n - 1], n>>]
  <2>1. g \in Passes(Records, N)
    BY DEF Passes
  <2> HIDE DEF g, N
  <2>2. N \in Nat /\ start \in Records
    BY <1>1, <1>2
  <2>3. HasRun(Records, start, N, g)
    BY <2>1, <2>2, Iterates
  <2> QED
    BY <2>3 DEF HasRun
<1>6. \A n \in 1 .. N : f[n] = IF Age(f[n - 1], list[n]) \in Records
                               THEN Age(f[n - 1], list[n]) ELSE f[n - 1]
  <2> SUFFICES ASSUME NEW n \in 1 .. N
               PROVE  f[n] = IF Age(f[n - 1], list[n]) \in Records
                             THEN Age(f[n - 1], list[n]) ELSE f[n - 1]
    OBVIOUS
  <2>1. n - 1 \in 0 .. N
    BY <1>1
  <2>2. <<f[n - 1], n>> \in Records \X (1 .. N)
    BY <2>1
  <2> QED
    BY <1>5, <2>2
<1> HIDE DEF g
<1>7. \A n \in 0 .. N : Inv(f[n], n)
  <2> DEFINE G == {n \in 0 .. N : Inv(f[n], n)}
  <2>1. 0 \in G
    BY <1>1, <1>2, <1>5
  <2>2. ASSUME NEW n \in 1 .. N, n - 1 \in G
        PROVE  n \in G
    <3>1. Inv(Age(f[n - 1], list[n]), n)
      BY <1>3, <2>2
    <3>2. f[n] = Age(f[n - 1], list[n])
      BY <1>4, <1>6, <3>1
    <3> QED
      BY <1>1, <3>1, <3>2
  <2> HIDE DEF G
  <2>3. \A n \in 0 .. N : n \in G
    BY <1>1, <2>1, <2>2, Upto
  <2> QED
    BY <2>3 DEF G
<1>8. f = [n \in 0 .. N |-> IF n = 0 THEN start ELSE Age(f[n - 1], list[n])]
  <2>1. ASSUME NEW n \in 1 .. N
        PROVE  f[n] = Age(f[n - 1], list[n])
    <3>1. Inv(f[n - 1], n - 1)
      BY <1>1, <1>7
    <3> QED
      BY <1>3, <1>4, <1>6, <3>1
  <2>2. \A n \in 0 .. N : f[n] = IF n = 0 THEN start ELSE Age(f[n - 1], list[n])
    BY <1>1, <1>5, <2>1
  <2> QED
    BY <1>5, <2>2
<1>9. Ageing = [n \in 0 .. N |-> IF n = 0 THEN start ELSE Age(Ageing[n - 1], list[n])]
  BY <1>8 DEF Ageing, start, N
<1>10. \A n \in 0 .. N : Inv(Ageing[n], n)
  <2> DEFINE G == {n \in 0 .. N : Inv(Ageing[n], n)}
  <2>1. 0 \in G
    BY <1>1, <1>2, <1>9
  <2>2. ASSUME NEW n \in 1 .. N, n - 1 \in G
        PROVE  n \in G
    <3>1. Inv(Age(Ageing[n - 1], list[n]), n)
      BY <1>3, <2>2
    <3>2. Ageing[n] = Age(Ageing[n - 1], list[n])
      BY <1>1, <1>9
    <3> QED
      BY <1>1, <3>1, <3>2
  <2> HIDE DEF G
  <2>3. \A n \in 0 .. N : n \in G
    BY <1>1, <2>1, <2>2, Upto
  <2> QED
    BY <2>3 DEF G
<1> QED
  BY <1>1, <1>10 DEF Inv, Aged

\* What pfe_rtable_do_timeouts does to the table
LEMMA RetiringLoop ==
    ASSUME TableTyped, NEW h \in Holdings, NEW W, NEW Z, Apart(mem, W, Z),
           Sane(mem, h, {}), Listed(mem, list, cursor), Owing(mem, owed, {})
    PROVE  LET r == Retiring[Len(Aged.gone)]
           IN  /\ IsState(r)
               /\ Sane(r.mem, h, {}) /\ Listed(r.mem, r.list, r.cursor) /\ Owing(r.mem, r.owed, {})
               /\ Leave(mem, r.mem, Entries)
               /\ \A x \in Entries : r.mem[x].rtable /\ Ahead(list, cursor, x)
                                     => Ahead(r.list, r.cursor, x)
               /\ \A x \in W : r.mem[x] = mem[x]
               /\ \A x \in Z : /\ Kind(r.mem[x], mem[x]) /\ r.mem[x].timeout = mem[x].timeout
                               /\ Lasts(r.mem[x], 1)
<1> DEFINE gone == Aged.gone
           N == Len(gone)
           V == W \cup Z
           Inv(s) == Shrinks(s, mem, list, cursor, h, V, Aged.mem, Gone(Aged))
           Pass(s, n) == FreeNolock(DelNolock(s, gone[n]), gone[n])
           g == [p \in Records \X (1 .. N) |->
                    IF Pass(p[1], p[2]) \in Records THEN Pass(p[1], p[2]) ELSE p[1]]
<1>1. Loop(Aged, Len(list), mem, list, cursor, h, W, Z)
  BY AgeingLoop
<1>2. /\ Collects(Aged) /\ DOMAIN Aged = {"mem", "list", "cursor", "owed", "gone"}
      /\ Sane(Aged.mem, h, {}) /\ Listed(Aged.mem, Aged.list, Aged.cursor)
      /\ Owing(Aged.mem, Aged.owed, Gone(Aged))
      /\ Aged.list = list /\ Aged.cursor = cursor
      /\ Leave(mem, Aged.mem, {})
      /\ \A x \in W : Aged.mem[x] = mem[x]
      /\ \A x \in Z : /\ Kind(Aged.mem[x], mem[x]) /\ Aged.mem[x].timeout = mem[x].timeout
                      /\ Lasts(Aged.mem[x], 1)
      /\ \A x \in V : x \notin Gone(Aged)
  BY <1>1 DEF Loop, Ageable
<1>3. gone \in Lists /\ N \in Nat /\ \A n \in 1 .. N : gone[n] \in Entries /\ gone[n] \in Gone(Aged)
  BY <1>2 DEF Collects, Lists, Gone
<1>4. V \in SUBSET Entries /\ \A x \in V : Aged.mem[x].child \in V \cup {None}
  BY <1>2 DEF Apart, Kind
<1>5. Aged \in Records /\ Inv(Aged)
  <2>1. Aged \in Records
    BY <1>2, RecordsAre DEF Collects
  <2>2. Leave(mem, Aged.mem, Entries)
    BY <1>2 DEF Leave
  <2> QED
    BY <1>2, <2>1, <2>2 DEF Shrinks, Collects
<1> HIDE DEF Inv, V
<1>6. ASSUME NEW s, NEW n \in 1 .. N, Inv(s)
      PROVE  Inv(Pass(s, n))
  <2>1. gone[n] \in Entries /\ gone[n] \in Gone(Aged) /\ gone[n] \notin V
    BY <1>2, <1>3
  <2> HIDE DEF gone
  <2> QED
    BY <1>4, <1>6, <2>1, ShrinksStep DEF Inv
<1>7. ASSUME NEW s, Inv(s)
      PROVE  s \in Records
  BY <1>7, RecordsAre DEF Inv, Shrinks
<1> HIDE DEF gone, Pass
<1>8. PICK f \in [0 .. N -> Records] :
         f[0] = Aged /\ \A n \in 1 .. N : f[n] = g[<<f[n - 1], n>>]
  <2>1. g \in Passes(Records, N)
    BY DEF Passes
  <2> HIDE DEF g, N
  <2>2. HasRun(Records, Aged, N, g)
    BY <1>3, <1>5, <2>1, Iterates
  <2> QED
    BY <2>2 DEF HasRun
<1>9. \A n \in 1 .. N : f[n] = IF Pass(f[n - 1], n) \in Records
                               THEN Pass(f[n - 1], n) ELSE f[n - 1]
  <2> SUFFICES ASSUME NEW n \in 1 .. N
               PROVE  f[n] = IF Pass(f[n - 1], n) \in Records
                             THEN Pass(f[n - 1], n) ELSE f[n - 1]
    OBVIOUS
  <2>1. n - 1 \in 0 .. N
    BY <1>3
  <2>2. <<f[n - 1], n>> \in Records \X (1 .. N)
    BY <2>1
  <2> QED
    BY <1>8, <2>2
<1> HIDE DEF g
<1>10. \A n \in 0 .. N : Inv(f[n])
  <2> DEFINE G == {n \in 0 .. N : Inv(f[n])}
  <2>1. 0 \in G
    BY <1>3, <1>5, <1>8
  <2>2. ASSUME NEW n \in 1 .. N, n - 1 \in G
        PROVE  n \in G
    <3>1. Inv(Pass(f[n - 1], n))
      BY <1>6, <2>2
    <3>2. f[n] = Pass(f[n - 1], n)
      BY <1>7, <1>9, <3>1
    <3> QED
      BY <1>3, <3>1, <3>2
  <2> HIDE DEF G
  <2>3. \A n \in 0 .. N : n \in G
    BY <1>3, <2>1, <2>2, Upto
  <2> QED
    BY <2>3 DEF G
<1>11. f = [n \in 0 .. N |-> IF n = 0 THEN Aged ELSE Pass(f[n - 1], n)]
  <2>1. ASSUME NEW n \in 1 .. N
        PROVE  f[n] = Pass(f[n - 1], n)
    <3>1. Inv(f[n - 1])
      BY <1>3, <1>10
    <3> QED
      BY <1>6, <1>7, <1>9, <3>1
  <2>2. \A n \in 0 .. N : f[n] = IF n = 0 THEN Aged ELSE Pass(f[n - 1], n)
    BY <1>3, <1>8, <2>1
  <2> QED
    BY <1>8, <2>2
<1>12. Retiring = [n \in 0 .. N |-> IF n = 0 THEN Aged ELSE Pass(Retiring[n - 1], n)]
  BY <1>11 DEF Retiring, Pass, gone, N
<1>13. \A n \in 0 .. N : Inv(Retiring[n])
  <2> DEFINE G == {n \in 0 .. N : Inv(Retiring[n])}
  <2>1. 0 \in G
    BY <1>3, <1>5, <1>12
  <2>2. ASSUME NEW n \in 1 .. N, n - 1 \in G
        PROVE  n \in G
    <3>1. Inv(Pass(Retiring[n - 1], n))
      BY <1>6, <2>2
    <3>2. Retiring[n] = Pass(Retiring[n - 1], n)
      BY <1>3, <1>12
    <3> QED
      BY <1>3, <3>1, <3>2
  <2> HIDE DEF G
  <2>3. \A n \in 0 .. N : n \in G
    BY <1>3, <2>1, <2>2, Upto
  <2> QED
    BY <2>3 DEF G
<1> DEFINE r == Retiring[N]
<1>14. Shrinks(r, mem, list, cursor, h, V, Aged.mem, Gone(Aged))
  BY <1>3, <1>13 DEF Inv
<1> HIDE DEF r
<1>15. Owing(r.mem, r.owed, {})
  BY <1>14 DEF Shrinks, Owing
<1>16. /\ IsState(r) /\ Sane(r.mem, h, {}) /\ Listed(r.mem, r.list, r.cursor)
       /\ Leave(mem, r.mem, Entries)
       /\ \A x \in Entries : r.mem[x].rtable /\ Ahead(list, cursor, x)
                             => Ahead(r.list, r.cursor, x)
       /\ \A x \in V : r.mem[x] = Aged.mem[x]
  BY <1>14 DEF Shrinks
<1>17. \A x \in W : r.mem[x] = mem[x]
  BY <1>2, <1>16 DEF V
<1>18. \A x \in Z : /\ Kind(r.mem[x], mem[x]) /\ r.mem[x].timeout = mem[x].timeout
                    /\ Lasts(r.mem[x], 1)
  BY <1>2, <1>16 DEF V
<1> QED
  BY <1>15, <1>16, <1>17, <1>18 DEF r, gone

-----------------------------------------------------------------------------
(* The inductive invariant *)

Criteria == [tuples : SUBSET Tuples, routes : SUBSET Routes]
Workers == [cmd : Cmds, entry : Entries \cup {None}, rep : Entries \cup {None},
            crit : Criteria, late : BOOLEAN]

Typed ==
    /\ TableTyped
    /\ listing \in BOOLEAN /\ leaked \in BOOLEAN /\ beat \in BOOLEAN
    /\ routes \in SUBSET Routes /\ default \in 0 .. Inf
    /\ pc \in Pcs /\ fci \in Workers

\* The pointers with a reference that the FCI worker holds.  Those to the
\* entries that it registers have none.
Held(f) == [e \in Entries |->
               IF f.cmd = "register" THEN 0
               ELSE (IF f.entry = e THEN 1 ELSE 0) + (IF f.rep = e THEN 1 ELSE 0)]

TableInv ==
    /\ Sane(mem, Held(fci), {}) /\ Listed(mem, list, cursor) /\ Owing(mem, owed, {})

\* The command that is at each place of the FCI worker, and its pointers
Stages ==
    /\ pc = "idle" => fci = Idle
    /\ pc \in {"add", "add_rep", "undefined"} => fci.cmd = "register"
    /\ pc = "undefined" => fci.entry # None /\ fci.rep # None
    /\ pc = "child" => fci.cmd \in {"deregister", "query"}
    /\ pc = "del" => fci.cmd \in {"deregister", "drop"}
    /\ pc = "free" => fci.cmd \in {"deregister", "update", "query", "timeout", "drop"}
    /\ pc = "del_rep" => fci.cmd = "deregister"
    /\ pc = "free_rep" => fci.cmd \in {"deregister", "query"}
    /\ pc \in {"check", "set", "end"} => fci.cmd = "timeout"
    /\ pc = "next" => fci.cmd \in {"timeout", "drop"}
    /\ pc = "drop" => fci.cmd = "drop"

Pointers ==
    /\ pc \in {"child", "del", "free", "check", "set", "add"} => fci.entry # None
    /\ pc \in {"del_rep", "free_rep", "add_rep"} => fci.rep # None
    /\ pc \in {"next", "drop", "end", "del_rep", "free_rep"} => fci.entry = None
    /\ (pc = "child" \/ fci.cmd \in {"update", "timeout", "drop"}) => fci.rep = None

\* The mutex is left locked only when a tick has come in between.
Locks ==
    /\ leaked => fci.cmd = "timeout" /\ fci.late
    /\ pc = "set" => fci.late \/ mem[fci.entry].rtable

\* The entries that are being registered, before they are in the table ...
New(e) ==
    /\ mem[e].live /\ ~mem[e].rtable /\ ~mem[e].added /\ mem[e].tuple \in Tuples
    /\ mem[e].route \in routes

\* ... which is not for so long that the first could expire before the second
\* is there, if the time-out is two ticks or more.
Young(e) == default < 2 \/ Lasts(mem[e], IF fci.late THEN 1 ELSE 2)

\* If it is less the second may have been freed with the first, and nothing else
\* can have happened to it.
Registering ==
    /\ pc = "add" =>
          /\ New(fci.entry) /\ Young(fci.entry) /\ mem[fci.entry].child = fci.rep
          /\ fci.rep # None => New(fci.rep)
    /\ pc = "add_rep" /\ ~Overtaken =>
          /\ New(fci.rep) /\ mem[fci.rep].child = fci.entry
          /\ fci.entry # None => mem[fci.entry].rtable /\ Young(fci.entry)
    /\ Overtaken /\ mem[fci.rep].live => New(fci.rep)

\* The connections of a route that is being removed lie ahead.
Dropping ==
    fci.cmd = "drop" =>
        /\ \A t \in Tuples : t \in fci.crit.tuples
        /\ \A e \in Entries : mem[e].rtable /\ mem[e].route \in fci.crit.routes =>
              /\ pc # "drop"
              /\ (pc = "del" /\ e = fci.entry) \/ Ahead(list, cursor, e)

Routed == \A e \in Entries : mem[e].rtable => mem[e].route \in routes

IInv == /\ Typed /\ TableInv /\ Stages /\ Pointers /\ Locks /\ Registering /\ Dropping
        /\ Routed

-----------------------------------------------------------------------------
(* The worker of the table and the classifier *)

LEMMA Worker ==
    ASSUME NEW f \in Workers
    PROVE  /\ Held(f) \in Holdings
           /\ f.cmd \in Cmds /\ f.entry \in Entries \cup {None} /\ f.rep \in Entries \cup {None}
           /\ f.crit \in Criteria /\ f.late \in BOOLEAN
<1>1. f.cmd \in Cmds /\ f.entry \in Entries \cup {None} /\ f.rep \in Entries \cup {None}
      /\ f.crit \in Criteria /\ f.late \in BOOLEAN
  BY DEF Workers
<1> QED
  BY <1>1 DEF Held, Holdings

LEMMA Lating ==
    ASSUME NEW f \in Workers, NEW l \in BOOLEAN
    PROVE  LET g == [f EXCEPT !.late = l]
           IN  /\ g \in Workers /\ Held(g) = Held(f) /\ g.cmd = f.cmd /\ g.entry = f.entry
               /\ g.rep = f.rep /\ g.crit = f.crit /\ g.late = l
               /\ f.late = l => g = f
<1>1. LET g == [f EXCEPT !.late = l]
      IN  /\ g \in Workers /\ g.cmd = f.cmd /\ g.entry = f.entry
          /\ g.rep = f.rep /\ g.crit = f.crit /\ g.late = l
          /\ f.late = l => g = f
  BY DEF Workers
<1> QED
  BY <1>1 DEF Held

\* What the ageing must not touch
Coming == {fci.rep} \cup IF pc = "add" THEN {fci.entry} ELSE {}
Came == IF pc = "add" THEN {} ELSE {fci.entry}

LEMMA ComingApart ==
    ASSUME IInv, ~fci.late, pc \in {"add", "add_rep"},
           pc = "add_rep" => fci.entry = None \/ ~(default < 2)
    PROVE  Apart(mem, Coming \ {None}, Came \ {None})
<1>1. fci.entry \in Entries \cup {None} /\ fci.rep \in Entries \cup {None}
  BY Worker DEF IInv, Typed
<1>2. Paired(mem)
  BY DEF IInv, TableInv, Sane
<1>3. CASE pc = "add"
  <2>1. /\ New(fci.entry) /\ mem[fci.entry].child = fci.rep
        /\ fci.rep # None => New(fci.rep)
    BY <1>3 DEF IInv, Registering
  <2>2. Coming = {fci.rep, fci.entry} /\ Came = {} /\ fci.entry # None
    BY <1>3 DEF Coming, Came, IInv, Pointers
  <2>3. fci.rep # None => mem[fci.rep].child = fci.entry
    BY <1>1, <1>2, <2>1, <2>2 DEF Paired
  <2> QED
    BY <1>1, <2>1, <2>2, <2>3 DEF Apart, New
<1>4. CASE pc = "add_rep"
  <2>1. /\ New(fci.rep) /\ mem[fci.rep].child = fci.entry
        /\ fci.entry # None => Lasts(mem[fci.entry], 2)
    BY <1>4 DEF IInv, Registering, Young, Overtaken
  <2>2. Coming = {fci.rep} /\ Came = {fci.entry} /\ fci.rep # None
    BY <1>4 DEF Coming, Came, IInv, Pointers
  <2>3. fci.entry # None => mem[fci.entry].child = fci.rep
    BY <1>1, <1>2, <2>1, <2>2 DEF Paired
  <2> QED
    BY <1>1, <2>1, <2>2, <2>3 DEF Apart, New
<1> QED
  BY <1>3, <1>4

LEMMA Tick ==
    ASSUME IInv, DoTimeouts
    PROVE  IInv'
<1> DEFINE r == Retiring[Len(Aged.gone)]
           safe == \/ pc = "add"
                   \/ pc = "add_rep" /\ (fci.entry = None \/ ~(default < 2))
           W == IF safe THEN Coming \ {None} ELSE {}
           Z == IF safe THEN Came \ {None} ELSE {}
<1>1. /\ ~leaked /\ ~fci.late
      /\ mem' = r.mem /\ list' = r.list /\ cursor' = r.cursor /\ owed' = r.owed
      /\ fci' = [fci EXCEPT !.late = pc # "idle"] /\ pc' = pc
      /\ beat' = ~beat
      /\ UNCHANGED <<listing, leaked, routes, default>>
  BY DEF DoTimeouts, Becomes
<1>2. Held(fci) \in Holdings /\ TableTyped /\ fci \in Workers /\ fci.late \in BOOLEAN
  BY Worker DEF IInv, Typed
<1>3. Apart(mem, W, Z)
  <2>1. CASE safe
    BY <1>1, <2>1, ComingApart
  <2>2. CASE ~safe
    BY <2>2 DEF Apart
  <2> QED
    BY <2>1, <2>2
<1> HIDE DEF W, Z, safe
<1>4. /\ IsState(r)
      /\ Sane(r.mem, Held(fci), {}) /\ Listed(r.mem, r.list, r.cursor) /\ Owing(r.mem, r.owed, {})
      /\ Leave(mem, r.mem, Entries)
      /\ \A x \in Entries : r.mem[x].rtable /\ Ahead(list, cursor, x)
                            => Ahead(r.list, r.cursor, x)
      /\ \A x \in W : r.mem[x] = mem[x]
      /\ \A x \in Z : /\ Kind(r.mem[x], mem[x]) /\ r.mem[x].timeout = mem[x].timeout
                      /\ Lasts(r.mem[x], 1)
  BY <1>2, <1>3, RetiringLoop DEF IInv, TableInv
<1> HIDE DEF r
<1>5. /\ fci' \in Workers /\ Held(fci') = Held(fci) /\ fci'.cmd = fci.cmd
      /\ fci'.entry = fci.entry /\ fci'.rep = fci.rep /\ fci'.crit = fci.crit
      /\ fci'.late = (pc # "idle")
      /\ pc = "idle" => fci' = fci
  <2>1. PICK l \in BOOLEAN : l = (pc # "idle")
    OBVIOUS
  <2>2. fci' = [fci EXCEPT !.late = l]
    BY <1>1, <2>1
  <2>3. /\ fci' \in Workers /\ Held(fci') = Held(fci) /\ fci'.cmd = fci.cmd
        /\ fci'.entry = fci.entry /\ fci'.rep = fci.rep /\ fci'.crit = fci.crit
        /\ fci'.late = l
        /\ fci.late = l => fci' = fci
    BY <1>2, <2>2, Lating
  <2> QED
    BY <1>1, <1>2, <2>1, <2>3
<1>6. Typed'
  BY <1>1, <1>4, <1>5 DEF IInv, Typed, TableTyped, IsState
<1>7. TableInv'
  BY <1>1, <1>4, <1>5 DEF TableInv
<1>8. Stages'
  BY <1>1, <1>5 DEF IInv, Stages
<1>9. Pointers'
  BY <1>1, <1>5 DEF IInv, Pointers
<1>10. Locks'
  BY <1>1, <1>5 DEF IInv, Locks
<1>11. Registering'
  <2>1. CASE pc = "add"
    <3>1. /\ New(fci.entry) /\ Young(fci.entry) /\ mem[fci.entry].child = fci.rep
          /\ fci.rep # None => New(fci.rep)
          /\ fci.entry # None
      BY <2>1 DEF IInv, Registering, Pointers
    <3>2. fci.entry \in W /\ (fci.rep # None => fci.rep \in W)
      BY <2>1, <3>1 DEF W, Coming, safe
    <3>3. mem'[fci.entry] = mem[fci.entry] /\ (fci.rep # None => mem'[fci.rep] = mem[fci.rep])
      BY <1>1, <1>4, <3>2
    <3>4. mem[fci.entry].curr \in 0 .. Inf
      <4>1. fci.entry \in Entries /\ mem \in Memory
        BY <1>2, <3>1, Worker DEF TableTyped
      <4> QED
        BY <4>1, CellFields DEF Memory
    <3>5. default < 2 \/ Lasts(mem[fci.entry], 1)
      BY <1>1, <3>1, <3>4, Forever DEF Young, Lasts
    <3> QED
      BY <1>1, <1>5, <2>1, <3>1, <3>3, <3>5 DEF Registering, New, Young, Overtaken
  <2>2. CASE pc = "add_rep" /\ safe
    <3>1. /\ New(fci.rep) /\ mem[fci.rep].child = fci.entry
          /\ fci.entry # None => mem[fci.entry].rtable /\ Young(fci.entry)
          /\ fci.rep # None
      BY <1>1, <2>2 DEF IInv, Registering, Pointers, Overtaken
    <3>2. fci.rep \in W /\ (fci.entry # None => fci.entry \in Z)
      BY <2>2, <3>1 DEF W, Z, Coming, Came
    <3>3. mem'[fci.rep] = mem[fci.rep]
      BY <1>1, <1>4, <3>2
    <3>4. fci.entry # None => mem'[fci.entry].rtable /\ Lasts(mem'[fci.entry], 1)
      BY <1>1, <1>4, <3>1, <3>2 DEF Kind, Place
    <3>5. New(fci.rep)' /\ mem'[fci'.rep].child = fci'.entry
      BY <1>1, <1>5, <3>1, <3>3 DEF New
    <3>6. fci'.entry # None => mem'[fci'.entry].rtable /\ Young(fci.entry)'
      BY <1>1, <1>5, <2>2, <3>4 DEF Young
    <3>7. ~Overtaken'
      BY <1>1, <1>5, <2>2 DEF Overtaken, safe
    <3> QED
      BY <1>1, <2>2, <3>5, <3>6, <3>7 DEF Registering
  <2>3. CASE pc = "add_rep" /\ ~safe
    <3>1. New(fci.rep) /\ fci.rep # None /\ fci.cmd = "register"
      BY <1>1, <2>3 DEF IInv, Registering, Pointers, Overtaken, Stages
    <3>2. fci.rep \in Entries
      BY <1>2, <3>1, Worker
    <3>3. Overtaken'
      BY <1>1, <1>5, <2>3 DEF Overtaken, safe
    <3>4. ~mem'[fci.rep].rtable
      BY <1>1, <1>4, <3>1, <3>2 DEF Leave, New
    <3>5. ~mem'[fci.rep].added
      <4>1. Held(fci)[fci.rep] = 0
        BY <3>1, <3>2 DEF Held
      <4>2. Right(r.mem[fci.rep], 0)
        BY <1>4, <3>2, <4>1 DEF Sane, Counted
      <4>3. r.mem[fci.rep].ref = 0 \/ r.mem[fci.rep].rtable
        BY <4>2 DEF Right
      <4> QED
        BY <1>1, <3>4, <4>2, <4>3 DEF Right
    <3>6. ASSUME mem'[fci.rep].live
          PROVE  New(fci.rep)'
      <4>1. Who(mem'[fci.rep], mem[fci.rep])
        BY <1>1, <1>4, <3>2, <3>6 DEF Leave
      <4> QED
        BY <1>1, <1>5, <3>1, <3>4, <3>5, <3>6, <4>1 DEF New, Who
    <3> QED
      BY <1>1, <1>5, <2>3, <3>3, <3>6 DEF Registering
  <2>4. CASE pc \notin {"add", "add_rep"}
    BY <1>1, <2>4 DEF Registering, Overtaken
  <2> QED
    BY <2>1, <2>2, <2>3, <2>4
<1>12. \A x \in Entries : mem'[x].rtable => mem[x].rtable /\ mem'[x].route = mem[x].route
  BY <1>1, <1>4 DEF Leave, Who
<1>13. Dropping'
  <2>1. \A x \in Entries : mem'[x].rtable /\ Ahead(list, cursor, x) => Ahead(list', cursor', x)
    BY <1>1, <1>4
  <2> QED
    BY <1>1, <1>5, <1>12, <2>1 DEF IInv, Dropping
<1>14. Routed'
  BY <1>1, <1>12 DEF IInv, Routed
<1> QED
  BY <1>6, <1>7, <1>8, <1>9, <1>10, <1>11, <1>13, <1>14 DEF IInv

LEMMA Packet ==
    ASSUME IInv, NEW e \in Entries, Traffic(e)
    PROVE  IInv'
<1>1. /\ mem' = [mem EXCEPT ![e].active = TRUE]
      /\ UNCHANGED <<list, cursor, owed, listing, leaked, routes, default, pc, fci, beat>>
  BY DEF Traffic, fciVars
<1>2. mem \in Memory /\ mem[e] \in Cell /\ list \in Lists /\ cursor \in Cursors
  BY DEF IInv, Typed, TableTyped, Memory
<1>3. mem' = [mem EXCEPT ![e] = Busy(mem[e])]
  BY <1>1, <1>2 DEF Busy, Memory
<1>4. /\ Busy(mem[e]) \in Cell /\ Kind(Busy(mem[e]), mem[e])
      /\ Busy(mem[e]).timeout = mem[e].timeout /\ Busy(mem[e]).curr = mem[e].curr
  BY <1>2, BusyCell
<1>5. InTime(Busy(mem[e]))
  BY <1>4 DEF InTime, IInv, TableInv, Sane, Sound
<1>6. /\ mem' \in Memory /\ Sane(mem', Held(fci), {}) /\ Leave(mem, mem', {})
      /\ \A x \in Entries : mem'[x].rtable <=> mem[x].rtable
      /\ \A x \in Entries \ {e} : mem'[x] = mem[x]
      /\ mem'[e] = Busy(mem[e])
  <2>1. Sane(mem, Held(fci), {})
    BY DEF IInv, TableInv
  <2>2. QED
    <3> DEFINE d == Busy(mem[e])
    <3>1. mem' = Written(mem, e, d) /\ Fits(d, mem[e])
      BY <1>3, <1>4, <1>5 DEF Fits, Written
    <3> HIDE DEF d
    <3>2. /\ mem' \in Memory /\ Sane(mem', Held(fci), {}) /\ Leave(mem, mem', {})
          /\ \A x \in Entries : mem'[x].rtable <=> mem[x].rtable
          /\ \A x \in Entries \ {e} : mem'[x] = mem[x]
          /\ mem'[e] = d
      BY <1>2, <2>1, <3>1, Retimed
    <3> QED
      BY <3>2 DEF d
<1>7. \A x \in Entries : /\ Kind(mem'[x], mem[x]) /\ mem'[x].timeout = mem[x].timeout
                         /\ mem'[x].curr = mem[x].curr
  BY <1>4, <1>6 DEF Kind, Who, Place
<1>8. Typed'
  BY <1>1, <1>6 DEF IInv, Typed, TableTyped
<1>9. TableInv'
  <2>1. Listed(mem', list, cursor)
    BY <1>2, <1>6, ListedKept DEF IInv, TableInv
  <2>2. Owing(mem', owed, {})
    BY <1>6, LeaveOwing DEF IInv, TableInv
  <2> QED
    BY <1>1, <1>6, <2>1, <2>2 DEF TableInv
<1>10. Stages' /\ Pointers'
  BY <1>1 DEF IInv, Stages, Pointers
<1>11. fci.entry \in Entries \cup {None} /\ fci.rep \in Entries \cup {None}
  BY Worker DEF IInv, Typed
<1>12. Locks'
  BY <1>1, <1>6, <1>11 DEF IInv, Locks, Pointers
<1>13. Registering'
  <2>1. \A x \in Entries : New(x) => New(x)'
    BY <1>1, <1>7 DEF New, Kind, Who, Place
  <2>2. \A x \in Entries : Young(x) => Young(x)'
    BY <1>1, <1>7 DEF Young, Lasts
  <2>3. \A x \in Entries : mem'[x].child = mem[x].child /\ mem'[x].rtable = mem[x].rtable
    BY <1>7 DEF Kind, Place
  <2>4. \A x \in Entries : mem'[x].live = mem[x].live
    BY <1>7 DEF Kind, Who
  <2> QED
    BY <1>1, <1>11, <2>1, <2>2, <2>3, <2>4 DEF IInv, Registering, Pointers, Overtaken
<1>14. Dropping' /\ Routed'
  BY <1>1, <1>7 DEF IInv, Dropping, Routed, Kind, Who, Place
<1> QED
  BY <1>8, <1>9, <1>10, <1>12, <1>13, <1>14 DEF IInv

-----------------------------------------------------------------------------
(* The FCI worker: commands that end, and routes *)

LEMMA Named == None \notin {"register", "deregister", "update", "query", "timeout", "drop"}
BY ConntrackAssumption

\* Between commands the worker holds nothing.
Nothing == [e \in Entries |-> 0]

LEMMA IdleFields ==
    /\ Idle.cmd = None /\ Idle.entry = None /\ Idle.rep = None /\ Idle.late = FALSE
    /\ Idle.crit = All
BY DEF Idle

LEMMA IdleWorks == Idle \in Workers /\ Nothing \in Holdings /\ All \in Criteria
BY DEF Idle, All, Workers, Cmds, Criteria, Nothing, Holdings

LEMMA HeldNothing ==
    ASSUME NEW f, f.cmd = "register" \/ (f.entry = None /\ f.rep = None)
    PROVE  Held(f) = Nothing
<1>1. \A e \in Entries : e # None
  BY Nobody
<1> QED
  BY <1>1 DEF Held, Nothing

\* A command that ends in order
LEMMA Finish ==
    ASSUME Typed', Sane(mem', Nothing, {}), Listed(mem', list', cursor'),
           Owing(mem', owed', {}), ~leaked', pc' = "idle", fci' = Idle, Routed'
    PROVE  IInv'
<1>1. fci'.cmd = None /\ fci'.entry = None /\ fci'.rep = None
  BY IdleFields
<1>2. Held(fci') = Nothing
  BY <1>1, HeldNothing
<1>3. TableInv'
  BY <1>2 DEF TableInv
<1>4. Stages' /\ Pointers' /\ Locks' /\ Registering' /\ Dropping'
  BY <1>1, Named DEF Stages, Pointers, Locks, Registering, Overtaken, Dropping
<1> QED
  BY <1>3, <1>4 DEF IInv

\* What is in the table stays and the routes too, or fewer.
LEMMA RoutedKept ==
    ASSUME IInv, NEW D, Leave(mem, mem', D), routes' = routes
    PROVE  Routed'
BY DEF IInv, Routed, Leave, Who

LEMMA RoutedGoes ==
    ASSUME IInv, NEW D, Goes(mem, mem', D), routes' = routes
    PROVE  Routed'
BY DEF IInv, Routed, Goes, Who

LEMMA RouteAdded ==
    ASSUME IInv, NEW r \in Routes, AddRoute(r)
    PROVE  IInv'
<1>1. /\ pc = "idle" /\ ~leaked /\ routes' = routes \cup {r}
      /\ UNCHANGED <<mem, list, cursor, owed, listing, leaked, default, pc, fci, beat>>
  BY DEF AddRoute, At, tableVars, fciVars
<1>2. fci = Idle /\ Held(fci) = Nothing
  BY <1>1, IdleFields, HeldNothing DEF IInv, Stages
<1>3. Typed'
  BY <1>1 DEF IInv, Typed, TableTyped
<1>4. Routed'
  BY <1>1 DEF IInv, Routed
<1> QED
  BY <1>1, <1>2, <1>3, <1>4, Finish DEF IInv, TableInv

LEMMA RouteRemoved ==
    ASSUME IInv, RemoveRoute
    PROVE  IInv'
<1>1. /\ pc = "drop" /\ ~leaked /\ routes' = routes \ fci.crit.routes
      /\ pc' = "idle" /\ fci' = Idle
      /\ UNCHANGED <<mem, list, cursor, owed, listing, leaked, default, beat>>
  BY DEF RemoveRoute, At, Done, tableVars
<1>2. fci.cmd = "drop" /\ fci.entry = None /\ fci.rep = None
  BY <1>1 DEF IInv, Stages, Pointers
<1>3. Held(fci) = Nothing
  BY <1>2, HeldNothing
<1>4. Typed'
  BY <1>1, IdleWorks DEF IInv, Typed, TableTyped, Pcs
<1>5. Routed'
  BY <1>1, <1>2 DEF IInv, Routed, Dropping
<1> QED
  BY <1>1, <1>3, <1>4, <1>5, Finish DEF IInv, TableInv

LEMMA TimeoutsEnd ==
    ASSUME IInv, EndTimeouts
    PROVE  IInv'
<1>1. /\ pc = "end" /\ ~leaked /\ pc' = "idle" /\ fci' = Idle
      /\ UNCHANGED <<mem, list, cursor, owed, listing, leaked, routes, default, beat>>
  BY DEF EndTimeouts, At, Done, tableVars, Quiet
<1>2. fci.cmd = "timeout" /\ fci.entry = None /\ fci.rep = None
  BY <1>1 DEF IInv, Stages, Pointers
<1>3. Held(fci) = Nothing
  BY <1>2, HeldNothing
<1>4. Typed'
  BY <1>1, IdleWorks DEF IInv, Typed, TableTyped, Pcs
<1>5. Routed'
  BY <1>1 DEF IInv, Routed
<1> QED
  BY <1>1, <1>3, <1>4, <1>5, Finish DEF IInv, TableInv

-----------------------------------------------------------------------------
(* New entries *)

\* The lowest that is free
LEMMA FreshIs ==
    ASSUME NEW m, ~NoMemory(m)
    PROVE  Fresh(m) \in Entries /\ ~m[Fresh(m)].live
<1> DEFINE I == {e \in Entries : ~m[e].live}
<1>1. I \in SUBSET Nat /\ I # {}
  BY ConntrackAssumption DEF NoMemory
<1>2. Min(I) \in I
  BY <1>1, Least
<1> QED
  BY <1>2 DEF Fresh

\* A new entry is one on its own.
Newborn(d) ==
    /\ d \in Cell /\ d.live /\ ~d.rtable /\ ~d.added /\ d.ref = 0 /\ d.child = None
    /\ InTime(d)

LEMMA NewEntryIs ==
    ASSUME default \in 0 .. Inf, NEW t \in Tuples, NEW r \in Routes, NEW l \in BOOLEAN
    PROVE  LET d == NewEntry(t, r, l)
           IN  /\ Newborn(d) /\ d.tuple = t /\ d.route = r
               /\ d.timeout = default /\ d.curr = default
<1> DEFINE d == NewEntry(t, r, l)
<1>1. default \in 0 .. Inf /\ default =< default
  BY Forever
<1>2. DOMAIN Blank = {"live", "tuple", "route", "rtable", "ref", "child", "timeout",
                      "curr", "active", "callback", "added"}
  BY BlankFields, CellDomain
<1>3. d \in Cell
  BY <1>1, BlankFields DEF Cell, NewEntry
<1>4. /\ d.live = TRUE /\ d.rtable = FALSE /\ d.added = FALSE /\ d.ref = 0 /\ d.child = None
      /\ d.tuple = t /\ d.route = r /\ d.timeout = default /\ d.curr = default
  BY <1>2, BlankFields DEF NewEntry
<1> HIDE DEF d
<1> QED
  BY <1>1, <1>3, <1>4 DEF Newborn, InTime, d

\* It changes nothing for the others.
LEMMA Born ==
    ASSUME NEW m \in Memory, NEW e \in Entries, ~m[e].live, NEW d, Newborn(d),
           NEW h \in Holdings, Sane(m, h, {})
    PROVE  LET n == Written(m, e, d)
           IN  /\ n \in Memory /\ Sane(n, h, {}) /\ Goes(m, n, {})
               /\ \A x \in Entries : n[x].rtable <=> m[x].rtable
               /\ \A x \in Entries \ {e} : n[x] = m[x]
               /\ n[e] = d
<1> DEFINE n == Written(m, e, d)
<1>1. /\ n \in Memory
      /\ \A x \in Entries \ {e} : n[x] = m[x]
      /\ n[e] = d
  BY DEF Memory, Written, Newborn
<1> HIDE DEF n
<1>2. /\ d.live /\ ~d.rtable /\ ~d.added /\ d.ref = 0 /\ d.child = None /\ InTime(d)
  BY DEF Newborn
<1>3. ~m[e].rtable /\ ~m[e].added /\ m[e].ref = 0 /\ m[e].child = None
  BY DEF Sane, Sound
<1>4. \A x \in Entries : n[x].rtable <=> m[x].rtable
  BY <1>1, <1>2, <1>3
<1>5. Sound(n)
  <2> SUFFICES ASSUME NEW x \in Entries
               PROVE  /\ ~n[x].live => ~n[x].rtable /\ ~n[x].added /\ n[x].ref = 0 /\ n[x].child = None
                      /\ n[x].rtable => n[x].added /\ n[x].tuple \in Tuples
                      /\ n[x].timeout # Inf => n[x].curr =< n[x].timeout
    BY DEF Sound
  <2>1. CASE x = e
    BY <1>1, <1>2, <2>1 DEF InTime
  <2>2. CASE x # e
    BY <1>1, <2>2 DEF Sane, Sound
  <2> QED
    BY <2>1, <2>2
<1>6. Paired(n)
  <2> SUFFICES ASSUME NEW x \in Entries, n[x].child # None
               PROVE  n[x].child # x /\ n[n[x].child].live /\ n[n[x].child].child = x
    BY DEF Paired
  <2>1. x # e /\ n[x] = m[x]
    BY <1>1, <1>2
  <2>2. m[x].child \in Entries
    BY <2>1, CellFields DEF Memory
  <2>3. m[x].child # x /\ m[m[x].child].live /\ m[m[x].child].child = x
    BY <2>1 DEF Sane, Paired
  <2> QED
    BY <1>1, <2>1, <2>2, <2>3
<1>7. Unique(n)
  BY <1>1, <1>2 DEF Sane, Unique
<1>8. Counted(n, h, {})
  <2>1. h[e] = 0
    BY <1>3 DEF Sane, Counted, Right, Holdings
  <2> QED
    BY <1>1, <1>2, <2>1 DEF Sane, Counted, Right
<1>9. Goes(m, n, {})
  BY <1>1, <1>2, <1>3 DEF Goes, Who
<1> QED
  BY <1>1, <1>4, <1>5, <1>6, <1>7, <1>8, <1>9 DEF Sane, n

\* The two directions of a new connection are linked.
Partner(c, x) == [c EXCEPT !.child = x]

LEMMA PartnerCell ==
    ASSUME NEW c \in Cell, NEW x \in Entries
    PROVE  LET d == Partner(c, x)
           IN  d \in Cell /\ Who(d, c) /\ Times(d, c) /\ Place(d, c) /\ d.child = x
<1>1. DOMAIN c = {"live", "tuple", "route", "rtable", "ref", "child", "timeout",
                  "curr", "active", "callback", "added"}
  BY CellDomain
<1>2. Partner(c, x) \in Cell
  BY DEF Cell, Partner
<1>3. Who(Partner(c, x), c) /\ Times(Partner(c, x), c) /\ Place(Partner(c, x), c)
      /\ Partner(c, x).child = x
  BY <1>1 DEF Who, Times, Place, Partner
<1> QED
  BY <1>2, <1>3

LEMMA Linked ==
    ASSUME NEW m \in Memory, NEW e \in Entries, NEW f \in Entries, e # f,
           m[e].live, m[f].live, m[e].child = None, m[f].child = None,
           NEW h, Sane(m, h, {}), NEW n \in Memory,
           n[e] = Partner(m[e], f), n[f] = Partner(m[f], e),
           \A x \in Entries \ {e, f} : n[x] = m[x]
    PROVE  /\ Sane(n, h, {}) /\ Leave(m, n, {})
           /\ \A x \in Entries : n[x].rtable <=> m[x].rtable
<1>1. /\ Who(n[e], m[e]) /\ Times(n[e], m[e]) /\ Place(n[e], m[e]) /\ n[e].child = f
      /\ Who(n[f], m[f]) /\ Times(n[f], m[f]) /\ Place(n[f], m[f]) /\ n[f].child = e
  <2>1. m[e] \in Cell /\ m[f] \in Cell
    BY DEF Memory
  <2>2. Who(n[e], m[e]) /\ Times(n[e], m[e]) /\ Place(n[e], m[e]) /\ n[e].child = f
    BY <2>1, PartnerCell
  <2>3. Who(n[f], m[f]) /\ Times(n[f], m[f]) /\ Place(n[f], m[f]) /\ n[f].child = e
    BY <2>1, PartnerCell
  <2> QED
    BY <2>2, <2>3
<1>2. ASSUME NEW x \in Entries
      PROVE  Who(n[x], m[x]) /\ Times(n[x], m[x]) /\ Place(n[x], m[x])
  <2>1. CASE x \in {e, f}
    BY <1>1, <2>1
  <2>2. CASE x \notin {e, f}
    <3>1. n[x] = m[x]
      BY <2>2
    <3> QED
      BY <3>1 DEF Who, Times, Place
  <2> QED
    BY <2>1, <2>2
<1>3. Sound(n)
  <2> SUFFICES ASSUME NEW x \in Entries
               PROVE  /\ ~n[x].live => ~n[x].rtable /\ ~n[x].added /\ n[x].ref = 0 /\ n[x].child = None
                      /\ n[x].rtable => n[x].added /\ n[x].tuple \in Tuples
                      /\ n[x].timeout # Inf => n[x].curr =< n[x].timeout
    BY DEF Sound
  <2>1. /\ ~m[x].live => ~m[x].rtable /\ ~m[x].added /\ m[x].ref = 0 /\ m[x].child = None
        /\ m[x].rtable => m[x].added /\ m[x].tuple \in Tuples
        /\ m[x].timeout # Inf => m[x].curr =< m[x].timeout
    BY DEF Sane, Sound
  <2>2. x \notin {e, f} => n[x].child = m[x].child
    OBVIOUS
  <2> QED
    BY <1>2, <2>1, <2>2 DEF Who, Times, Place
<1>4. Paired(n)
  <2> SUFFICES ASSUME NEW x \in Entries, n[x].child # None
               PROVE  n[x].child # x /\ n[n[x].child].live /\ n[n[x].child].child = x
    BY DEF Paired
  <2>1. CASE x \in {e, f}
    <3>1. n[e].live /\ n[f].live
      BY <1>1 DEF Who
    <3> QED
      BY <1>1, <2>1, <3>1
  <2>2. CASE x \notin {e, f}
    <3>1. m[x].child \in Entries /\ n[x] = m[x]
      BY <2>2, CellFields DEF Memory
    <3>2. m[x].child # x /\ m[m[x].child].live /\ m[m[x].child].child = x
      BY <3>1 DEF Sane, Paired
    <3>3. m[x].child \notin {e, f}
      BY <3>2, Nobody
    <3> QED
      BY <3>1, <3>2, <3>3
  <2> QED
    BY <2>1, <2>2
<1>5. Unique(n)
  BY <1>2 DEF Sane, Unique, Who, Place
<1>6. Counted(n, h, {})
  BY <1>2 DEF Sane, Counted, Right, Place
<1> QED
  BY <1>2, <1>3, <1>4, <1>5, <1>6 DEF Sane, Leave, Who, Place

\* What is known between commands
LEMMA Between ==
    ASSUME IInv, pc = "idle"
    PROVE  /\ fci = Idle /\ ~fci.late /\ Held(fci) = Nothing /\ Nothing \in Holdings
           /\ Sane(mem, Nothing, {}) /\ Listed(mem, list, cursor) /\ Owing(mem, owed, {})
           /\ mem \in Memory /\ list \in Lists /\ cursor \in Cursors /\ default \in 0 .. Inf
<1>1. fci = Idle
  BY DEF IInv, Stages
<1>2. Held(fci) = Nothing
  BY <1>1, IdleFields, HeldNothing
<1> QED
  BY <1>1, <1>2, IdleFields, IdleWorks DEF IInv, TableInv, Typed, TableTyped

\* A command that works on entries e and x
Job(cmd, e, x, c) == [cmd |-> cmd, entry |-> e, rep |-> x, crit |-> c, late |-> FALSE]

LEMMA Jobs ==
    ASSUME NEW cmd \in Cmds, NEW e \in Entries \cup {None}, NEW x \in Entries \cup {None},
           NEW c \in Criteria
    PROVE  /\ Job(cmd, e, x, c) \in Workers
           /\ Job(cmd, e, x, c).cmd = cmd /\ Job(cmd, e, x, c).entry = e
           /\ Job(cmd, e, x, c).rep = x /\ Job(cmd, e, x, c).crit = c
           /\ ~Job(cmd, e, x, c).late
BY DEF Job, Workers

\* A registration that goes on
LEMMA Registers ==
    ASSUME Typed', Sane(mem', Nothing, {}), Listed(mem', list', cursor'),
           Owing(mem', owed', {}), ~leaked', Routed', Registering',
           pc' \in {"add", "add_rep"}, fci'.cmd = "register",
           pc' = "add" => fci'.entry # None, pc' = "add_rep" => fci'.rep # None
    PROVE  IInv'
<1>1. Held(fci') = Nothing
  BY HeldNothing
<1>2. TableInv'
  BY <1>1 DEF TableInv
<1>3. Stages' /\ Pointers' /\ Locks' /\ Dropping'
  BY DEF Stages, Pointers, Locks, Dropping
<1> QED
  BY <1>2, <1>3 DEF IInv

LEMMA OneRegistered ==
    ASSUME IInv, NEW t \in Tuples, NEW r \in Routes, NEW reply \in BOOLEAN,
           NEW l \in BOOLEAN, RegisterOne(t, r, reply, l)
    PROVE  IInv'
<1>0. PICK e, d, i, x : /\ e = Fresh(mem) /\ d = NewEntry(t, r, l)
                         /\ i = (IF reply THEN None ELSE e)
                         /\ x = (IF reply THEN e ELSE None)
  OBVIOUS
<1>1. /\ pc = "idle" /\ ~leaked /\ ~NoMemory(mem) /\ r \in routes
      /\ mem' = Written(mem, e, d)
      /\ pc' = IF reply THEN "add_rep" ELSE "add"
      /\ fci' = Job("register", i, x, All)
      /\ UNCHANGED <<list, cursor, owed, listing, leaked, routes, default, beat>>
  BY <1>0 DEF RegisterOne, At, Quiet, Written, Idle, Job
<1>2. e \in Entries /\ ~mem[e].live
  BY <1>0, <1>1, FreshIs
<1>3. Newborn(d) /\ d.tuple = t /\ d.route = r /\ d.timeout = default /\ d.curr = default
  BY <1>0, <1>1, Between, NewEntryIs
<1>4. /\ mem' \in Memory /\ Sane(mem', Nothing, {}) /\ Goes(mem, mem', {})
      /\ \A y \in Entries : mem'[y].rtable <=> mem[y].rtable
      /\ mem'[e] = d
  BY <1>1, <1>2, <1>3, Between, Born
<1>5. i \in Entries \cup {None} /\ x \in Entries \cup {None} /\ "register" \in Cmds
  BY <1>0, <1>2 DEF Cmds
<1>6. /\ fci' \in Workers /\ fci'.cmd = "register" /\ fci'.entry = i /\ fci'.rep = x
      /\ ~fci'.late
  BY <1>1, <1>5, IdleWorks, Jobs
<1>7. Typed'
  BY <1>1, <1>4, <1>6 DEF IInv, Typed, TableTyped, Pcs
<1>8. Listed(mem', list', cursor')
  BY <1>1, <1>4, Between, ListedKept
<1>9. Owing(mem', owed', {})
  BY <1>1, <1>4, Between, GoesOwing
<1>10. Routed'
  BY <1>1, <1>4, RoutedGoes
<1>11. New(e)'
  BY <1>1, <1>3, <1>4 DEF New, Newborn
<1>12. e # None
  BY <1>2, Nobody
<1>13. (default' < 2 \/ Lasts(mem'[e], 2)) /\ mem'[e].child = None
  BY <1>1, <1>3, <1>4, Between, Forever DEF Lasts, Newborn
<1>14. Registering'
  BY <1>0, <1>1, <1>6, <1>11, <1>12, <1>13 DEF Registering, Young, New, Overtaken
<1> QED
  BY <1>0, <1>1, <1>4, <1>6, <1>7, <1>8, <1>9, <1>10, <1>12, <1>14, Registers

LEMMA PairRegistered ==
    ASSUME IInv, NEW p \in Pairs, NEW r \in Routes, NEW rr \in Routes,
           NEW l \in BOOLEAN, RegisterPair(p, r, rr, l)
    PROVE  IInv'
<1>0. PICK e, d, m, x, c, n :
         /\ e = Fresh(mem) /\ d = NewEntry(p[1], r, l) /\ m = Written(mem, e, d)
         /\ x = Fresh(m) /\ c = NewEntry(p[2], rr, FALSE) /\ n = Written(m, x, c)
  OBVIOUS
<1>1. /\ pc = "idle" /\ ~leaked /\ ~NoMemory(mem) /\ r \in routes
      /\ UNCHANGED <<list, cursor, owed, listing, leaked, routes, default, beat>>
  BY DEF RegisterPair, At, Quiet
<1>2. \/ mem' = m /\ pc' = "idle" /\ fci' = Idle
      \/ /\ rr \in routes /\ ~NoMemory(m)
         /\ mem' = [m EXCEPT ![x] = Partner(c, e), ![e].child = x]
         /\ pc' = "add" /\ fci' = Job("register", e, x, All)
  BY <1>0 DEF RegisterPair, Done, Written, Partner, Job, Idle
<1>3. p[1] \in Tuples /\ p[2] \in Tuples
  BY ConntrackAssumption
<1>4. e \in Entries /\ ~mem[e].live
  BY <1>0, <1>1, FreshIs
<1>5. Newborn(d) /\ d.tuple = p[1] /\ d.route = r /\ d.timeout = default /\ d.curr = default
  BY <1>0, <1>1, <1>3, Between, NewEntryIs
<1>6. /\ m \in Memory /\ Sane(m, Nothing, {}) /\ Goes(mem, m, {})
      /\ \A y \in Entries : m[y].rtable <=> mem[y].rtable
      /\ m[e] = d
  BY <1>0, <1>1, <1>4, <1>5, Between, Born
<1>7. CASE mem' = m /\ pc' = "idle" /\ fci' = Idle
  <2>1. Typed'
    BY <1>1, <1>6, <1>7, IdleWorks DEF IInv, Typed, TableTyped, Pcs
  <2>2. Listed(mem', list', cursor')
    BY <1>1, <1>6, <1>7, Between, ListedKept
  <2>3. Owing(mem', owed', {})
    BY <1>1, <1>6, <1>7, Between, GoesOwing
  <2>4. Routed'
    BY <1>1, <1>6, <1>7, RoutedGoes
  <2> QED
    BY <1>1, <1>6, <1>7, <2>1, <2>2, <2>3, <2>4, Finish
<1>8. CASE /\ rr \in routes /\ ~NoMemory(m)
           /\ mem' = [m EXCEPT ![x] = Partner(c, e), ![e].child = x]
           /\ pc' = "add" /\ fci' = Job("register", e, x, All)
  <2>1. x \in Entries /\ ~m[x].live /\ x # e
    BY <1>0, <1>5, <1>6, <1>8, FreshIs DEF Newborn
  <2>2. Newborn(c) /\ c.tuple = p[2] /\ c.route = rr
    BY <1>0, <1>1, <1>3, Between, NewEntryIs
  <2>3. /\ n \in Memory /\ Sane(n, Nothing, {}) /\ Goes(m, n, {})
        /\ \A y \in Entries : n[y].rtable <=> m[y].rtable
        /\ \A y \in Entries \ {x} : n[y] = m[y]
        /\ n[x] = c
    <3>1. Nothing \in Holdings /\ m \in Memory /\ Sane(m, Nothing, {}) /\ n = Written(m, x, c)
      BY <1>0, <1>6, IdleWorks
    <3> QED
      BY <2>1, <2>2, <3>1, Born
  <2>4. n[e] = d
    BY <1>4, <1>6, <2>1, <2>3
  <2>5. /\ Partner(d, x) \in Cell /\ Partner(c, e) \in Cell
        /\ Who(Partner(d, x), d) /\ Times(Partner(d, x), d) /\ Place(Partner(d, x), d)
        /\ Who(Partner(c, e), c) /\ Place(Partner(c, e), c)
        /\ Partner(d, x).child = x /\ Partner(c, e).child = e
    BY <1>4, <1>5, <2>1, <2>2, PartnerCell DEF Newborn
  <2>6. /\ mem' \in Memory /\ mem'[e] = Partner(d, x) /\ mem'[x] = Partner(c, e)
        /\ \A y \in Entries \ {e, x} : mem'[y] = n[y]
    BY <1>4, <1>6, <1>8, <2>1, <2>3, <2>5 DEF Memory, Partner
  <2>7. n[e].live /\ n[x].live /\ n[e].child = None /\ n[x].child = None
    BY <1>5, <2>2, <2>3, <2>4 DEF Newborn
  <2>8. /\ Sane(mem', Nothing, {}) /\ Leave(n, mem', {})
        /\ \A y \in Entries : mem'[y].rtable <=> n[y].rtable
    <3>1. mem'[e] = Partner(n[e], x) /\ mem'[x] = Partner(n[x], e)
      BY <2>3, <2>4, <2>6
    <3> QED
      BY <1>4, <2>1, <2>3, <2>6, <2>7, <3>1, Linked
  <2>9. Goes(mem, mem', {})
    <3>1. Goes(mem, n, {} \cup {})
      BY <1>6, <2>3, GoesTrans
    <3>2. Goes(mem, mem', ({} \cup {}) \cup {})
      BY <2>8, <3>1, GoesTrans, LeaveGoes
    <3>3. ({} \cup {}) \cup {} = {}
      OBVIOUS
    <3> QED
      BY <3>2, <3>3
  <2>10. /\ fci' \in Workers /\ fci'.cmd = "register" /\ fci'.entry = e /\ fci'.rep = x
         /\ ~fci'.late
    BY <1>4, <1>8, <2>1, IdleWorks, Jobs DEF Cmds
  <2>11. Typed'
    BY <1>1, <1>8, <2>6, <2>10 DEF IInv, Typed, TableTyped, Pcs
  <2>12. Listed(mem', list', cursor')
    <3>1. \A y \in Entries : mem'[y].rtable <=> mem[y].rtable
      BY <1>6, <2>3, <2>8
    <3> QED
      BY <1>1, <3>1, Between, ListedKept
  <2>13. Owing(mem', owed', {})
    BY <1>1, <2>9, Between, GoesOwing
  <2>14. Routed'
    BY <1>1, <2>9, RoutedGoes
  <2>15. New(e)' /\ New(x)'
    <3>1. /\ mem'[e].live /\ ~mem'[e].rtable /\ ~mem'[e].added
          /\ mem'[e].tuple = p[1] /\ mem'[e].route = r
      BY <1>5, <2>5, <2>6 DEF Newborn, Who, Place
    <3>2. /\ mem'[x].live /\ ~mem'[x].rtable /\ ~mem'[x].added
          /\ mem'[x].tuple = p[2] /\ mem'[x].route = rr
      BY <2>2, <2>5, <2>6 DEF Newborn, Who, Place
    <3> QED
      BY <1>1, <1>3, <1>8, <3>1, <3>2 DEF New
  <2>16. (default' < 2 \/ Lasts(mem'[e], 2)) /\ mem'[e].child = x
    BY <1>1, <1>5, <2>5, <2>6, Between, Forever DEF Lasts, Times
  <2>17. Registering'
    BY <1>8, <2>10, <2>15, <2>16 DEF Registering, Young, New, Overtaken
  <2> QED
    BY <1>1, <1>4, <1>8, <2>8, <2>10, <2>11, <2>12, <2>13, <2>14, <2>17, Nobody, Registers
<1> QED
  BY <1>2, <1>7, <1>8

-----------------------------------------------------------------------------
(* Registration *)

\* An entry that comes into the table
Joined(c) == [c EXCEPT !.rtable = TRUE, !.ref = @ + 1, !.added = TRUE]

LEMMA JoinedCell ==
    ASSUME NEW c \in Cell
    PROVE  LET d == Joined(c)
           IN  /\ d \in Cell /\ Who(d, c) /\ Times(d, c) /\ d.child = c.child
               /\ d.rtable /\ d.added /\ d.ref = c.ref + 1
<1>1. DOMAIN c = {"live", "tuple", "route", "rtable", "ref", "child", "timeout",
                  "curr", "active", "callback", "added"}
  BY CellDomain
<1>2. c.ref \in Int /\ c.ref + 1 \in Int
  BY CellFields
<1>3. Joined(c) \in Cell
  BY <1>2 DEF Cell, Joined
<1>4. /\ Who(Joined(c), c) /\ Times(Joined(c), c) /\ Joined(c).child = c.child
      /\ Joined(c).rtable /\ Joined(c).added /\ Joined(c).ref = c.ref + 1
  BY <1>1 DEF Who, Times, Joined
<1> QED
  BY <1>3, <1>4

\* pfe_rtable_add_entry
LEMMA AddView ==
    ASSUME NEW s, IsState(s), NEW e \in Entries
    PROVE  LET r == Add(s, e)
           IN  /\ DOMAIN r = DOMAIN s
               /\ r.mem = Written(s.mem, e, Joined(s.mem[e]))
               /\ r.list = Append(s.list, e) /\ r.cursor = s.cursor
               /\ r.owed = IF s.mem[e].callback THEN s.owed \cup {s.mem[e].tuple} ELSE s.owed
               /\ r = [f \in DOMAIN r |-> r[f]]
<1>1. /\ s = [f \in DOMAIN s |-> s[f]] /\ {"mem", "list", "cursor", "owed"} \subseteq DOMAIN s
      /\ s.mem \in Memory
  BY DEF IsState
<1>2. s.mem[e] \in Cell /\ s.mem = [x \in Entries |-> s.mem[x]]
  BY <1>1 DEF Memory
<1>3. DOMAIN s.mem[e] = {"live", "tuple", "route", "rtable", "ref", "child", "timeout",
                         "curr", "active", "callback", "added"}
  BY <1>2, CellDomain
<1>4. Add(s, e).mem = Written(s.mem, e, Joined(s.mem[e]))
  BY <1>1, <1>2, <1>3 DEF Add, Written, Joined
<1>5. /\ Add(s, e).list = Append(s.list, e) /\ Add(s, e).cursor = s.cursor
      /\ Add(s, e).owed = IF s.mem[e].callback THEN s.owed \cup {s.mem[e].tuple} ELSE s.owed
  BY <1>1, <1>2, <1>3 DEF Add
<1>6. DOMAIN Add(s, e) = DOMAIN s
  BY <1>1 DEF Add
<1>7. Add(s, e) = [f \in DOMAIN Add(s, e) |-> Add(s, e)[f]]
  <2> DEFINE t == [s EXCEPT !.mem[e].rtable = TRUE, !.mem[e].ref = @ + 1,
                            !.mem[e].added = TRUE, !.list = Append(@, e)]
             o == IF s.mem[e].callback THEN t.owed \cup {s.mem[e].tuple} ELSE t.owed
  <2>1. Add(s, e) = [t EXCEPT !.owed = o]
    BY <1>1 DEF Add
  <2> HIDE DEF t, o
  <2>2. PICK x, y : x = t /\ y = o
    OBVIOUS
  <2>3. PICK r : r = [x EXCEPT !.owed = y]
    OBVIOUS
  <2>4. r = [f \in DOMAIN r |-> r[f]]
    BY <2>3
  <2> QED
    BY <2>1, <2>2, <2>3, <2>4
<1> QED
  BY <1>4, <1>5, <1>6, <1>7

\* The list with an entry that was not in it
LEMMA AppendListed ==
    ASSUME NEW es \in Lists, NEW e \in Entries, NEW c, NEW m, NEW n, Listed(m, es, c),
           ~m[e].rtable, n[e].rtable, \A x \in Entries \ {e} : n[x].rtable <=> m[x].rtable,
           c \in Cursors
    PROVE  Append(es, e) \in Lists /\ Listed(n, Append(es, e), c)
<1> DEFINE fs == Append(es, e)
<1>1. /\ Len(es) \in Nat /\ fs \in Lists /\ Len(fs) = Len(es) + 1
      /\ \A i \in 1 .. Len(es) : fs[i] = es[i]
      /\ fs[Len(es) + 1] = e
  BY DEF Lists
<1> HIDE DEF fs
<1>2. \A i \in 1 .. Len(fs) : i \in 1 .. Len(es) \/ i = Len(es) + 1
  BY <1>1
<1>3. \A i \in 1 .. Len(es) : i \in 1 .. Len(fs)
  BY <1>1
<1>4. Len(es) + 1 \in 1 .. Len(fs)
  BY <1>1
<1>5. \A i \in 1 .. Len(es) : es[i] # e
  BY DEF Listed
<1>6. Distinct(fs)
  <2>1. SUFFICES ASSUME NEW i \in 1 .. Len(fs), NEW j \in 1 .. Len(fs), fs[i] = fs[j]
                 PROVE  i = j
    BY DEF Distinct
  <2>2. CASE i \in 1 .. Len(es) /\ j \in 1 .. Len(es)
    BY <1>1, <2>1, <2>2 DEF Listed, Distinct
  <2>3. CASE ~(i \in 1 .. Len(es) /\ j \in 1 .. Len(es))
    BY <1>1, <1>2, <1>5, <2>1, <2>3
  <2> QED
    BY <2>2, <2>3
<1>7. ASSUME NEW x \in Entries
      PROVE  n[x].rtable <=> \E i \in 1 .. Len(fs) : fs[i] = x
  <2>1. CASE x = e
    BY <1>1, <1>4, <2>1
  <2>2. CASE x # e
    <3>1. n[x].rtable <=> \E i \in 1 .. Len(es) : es[i] = x
      BY <2>2 DEF Listed
    <3>2. (\E i \in 1 .. Len(es) : es[i] = x) <=> (\E i \in 1 .. Len(fs) : fs[i] = x)
      BY <1>1, <1>2, <1>3, <2>2
    <3> QED
      BY <3>1, <3>2
  <2> QED
    BY <2>1, <2>2
<1>8. c \in {None, End} \/ n[c].rtable
  <2>1. c \in {None, End} \/ (c \in Entries /\ m[c].rtable)
    BY DEF Listed, Cursors
  <2> QED
    BY <2>1
<1> QED
  BY <1>1, <1>6, <1>7, <1>8 DEF Listed, fs

\* A new entry comes into the table, with a tuple that is not there.
LEMMA AddSane ==
    ASSUME NEW s, IsState(s), NEW e \in Entries, NEW h \in Holdings,
           Sane(s.mem, h, {}), Listed(s.mem, s.list, s.cursor), Owing(s.mem, s.owed, {}),
           s.mem[e].live, ~s.mem[e].rtable, s.mem[e].tuple \in Tuples,
           \A x \in Entries : s.mem[x].rtable => s.mem[x].tuple # s.mem[e].tuple
    PROVE  LET r == Add(s, e)
           IN  /\ IsState(r)
               /\ Sane(r.mem, h, {}) /\ Listed(r.mem, r.list, r.cursor)
               /\ Owing(r.mem, r.owed, {})
               /\ \A x \in Entries \ {e} : r.mem[x] = s.mem[x]
               /\ Who(r.mem[e], s.mem[e]) /\ Times(r.mem[e], s.mem[e])
               /\ r.mem[e].child = s.mem[e].child /\ r.mem[e].rtable
<1> DEFINE r == Add(s, e)
<1>1. PICK m, n, c, d : m = s.mem /\ n = r.mem /\ c = m[e] /\ d = Joined(c)
  OBVIOUS
<1>2. /\ DOMAIN r = DOMAIN s /\ n = Written(m, e, d)
      /\ r.list = Append(s.list, e) /\ r.cursor = s.cursor
      /\ r.owed = IF c.callback THEN s.owed \cup {c.tuple} ELSE s.owed
      /\ r = [f \in DOMAIN r |-> r[f]]
  BY <1>1, AddView
<1> HIDE DEF r
<1>3. m \in Memory /\ c \in Cell
  BY <1>1 DEF IsState, Memory
<1>4. d \in Cell /\ Who(d, c) /\ Times(d, c) /\ d.child = c.child /\ d.rtable /\ d.added /\ d.ref = c.ref + 1
  BY <1>1, <1>3, JoinedCell
<1>5. /\ n \in Memory
      /\ \A x \in Entries \ {e} : n[x] = m[x]
      /\ n[e] = d
  BY <1>2, <1>3, <1>4 DEF Memory, Written
<1>6. /\ Sane(m, h, {}) /\ Listed(m, s.list, s.cursor) /\ Owing(m, s.owed, {})
      /\ c.live /\ ~c.rtable /\ c.tuple \in Tuples
      /\ \A x \in Entries : m[x].rtable => m[x].tuple # c.tuple
  BY <1>1
<1>7. Sound(n)
  <2> SUFFICES ASSUME NEW x \in Entries
               PROVE  /\ ~n[x].live => ~n[x].rtable /\ ~n[x].added /\ n[x].ref = 0 /\ n[x].child = None
                      /\ n[x].rtable => n[x].added /\ n[x].tuple \in Tuples
                      /\ n[x].timeout # Inf => n[x].curr =< n[x].timeout
    BY DEF Sound
  <2>1. CASE x = e
    BY <1>1, <1>4, <1>5, <1>6, <2>1 DEF Sane, Sound, Who, Times
  <2>2. CASE x # e
    BY <1>5, <1>6, <2>2 DEF Sane, Sound
  <2> QED
    BY <2>1, <2>2
<1>8. Paired(n)
  <2> SUFFICES ASSUME NEW x \in Entries, n[x].child # None
               PROVE  n[x].child # x /\ n[n[x].child].live /\ n[n[x].child].child = x
    BY DEF Paired
  <2>1. \A y \in Entries : n[y].child = m[y].child /\ n[y].live = m[y].live
    BY <1>1, <1>4, <1>5 DEF Who
  <2>2. m[x].child \in Entries
    BY <1>3, <2>1, CellFields DEF Memory
  <2>3. m[x].child # x /\ m[m[x].child].live /\ m[m[x].child].child = x
    BY <1>6, <2>1 DEF Sane, Paired
  <2> QED
    BY <2>1, <2>2, <2>3
<1>9. Unique(n)
  <2>1. \A x \in Entries : n[x].tuple = m[x].tuple
    BY <1>1, <1>4, <1>5 DEF Who
  <2>2. \A x \in Entries : n[x].rtable => x = e \/ m[x].rtable
    BY <1>5
  <2> QED
    BY <1>1, <1>6, <2>1, <2>2 DEF Sane, Unique
<1>10. Counted(n, h, {})
  <2>1. c.ref = h[e]
    BY <1>1, <1>6 DEF Sane, Counted, Right, Holdings
  <2> QED
    BY <1>4, <1>5, <1>6, <2>1 DEF Sane, Counted, Right
<1>11. Append(s.list, e) \in Lists /\ Listed(n, Append(s.list, e), s.cursor)
  <2>1. s.list \in Lists /\ s.cursor \in Cursors
    BY DEF IsState
  <2> QED
    BY <1>1, <1>4, <1>5, <1>6, <2>1, AppendListed
<1>12. Owing(n, r.owed, {})
  <2>1. SUFFICES ASSUME NEW t \in r.owed
                 PROVE  \E x \in Entries : n[x].rtable /\ n[x].tuple = t /\ n[x].callback
    BY DEF Owing
  <2>2. CASE c.callback /\ t = c.tuple
    BY <1>4, <1>5, <2>2 DEF Who
  <2>3. CASE t \in s.owed
    <3>1. PICK x \in Entries : m[x].rtable /\ m[x].tuple = t /\ m[x].callback
      BY <1>6, <2>3 DEF Owing
    <3>2. x # e
      BY <1>1, <1>6, <3>1
    <3> QED
      BY <1>5, <3>1, <3>2
  <2> QED
    BY <1>2, <2>1, <2>2, <2>3
<1>13. r.owed \in SUBSET Tuples
  BY <1>2, <1>6 DEF IsState
<1>14. IsState(r)
  BY <1>1, <1>2, <1>5, <1>11, <1>13 DEF IsState
<1> QED
  BY <1>1, <1>2, <1>4, <1>5, <1>7, <1>8, <1>9, <1>10, <1>11, <1>12, <1>14 DEF Sane, r

\* What is left of a registration is deleted and freed, each entry if it is
\* there still.
Dropped(s, y) ==
    IF y = None THEN s
    ELSE IF s.mem[y].live THEN Free(Del(s, y), y) ELSE [s EXCEPT !.stale = TRUE]

InOrder(s) ==
    /\ IsState(s) /\ Sane(s.mem, Nothing, {}) /\ Listed(s.mem, s.list, s.cursor)
    /\ Owing(s.mem, s.owed, {})

LEMMA DroppedAll ==
    ASSUME NEW s, InOrder(s), "stale" \in DOMAIN s, NEW y \in Entries \cup {None}
    PROVE  LET r == Dropped(s, y)
           IN  /\ InOrder(r) /\ "stale" \in DOMAIN r /\ Leave(s.mem, r.mem, Entries)
               /\ y = None => r = s
               /\ y # None /\ s.mem[y].live => r.stale = s.stale
<1> DEFINE r == Dropped(s, y)
<1>1. CASE y = None
  BY <1>1 DEF Dropped, Leave, Who
<1>2. CASE y # None /\ s.mem[y].live
  <2>1. y \in Entries /\ r = Free(Del(s, y), y) /\ Nothing \in Holdings /\ Nothing[y] = 0
    BY <1>2, IdleWorks DEF Dropped, Nothing
  <2>2. /\ IsState(s) /\ Sane(s.mem, Nothing, {}) /\ Listed(s.mem, s.list, s.cursor)
        /\ Owing(s.mem, s.owed, {})
    BY DEF InOrder
  <2>3. /\ IsState(r) /\ Only(r, s, {"mem", "list", "cursor", "owed"})
        /\ Sane(r.mem, Nothing, {}) /\ Listed(r.mem, r.list, r.cursor)
        /\ Leave(s.mem, r.mem, {y})
        /\ Owing(r.mem, r.owed, {})
    BY <1>2, <2>1, <2>2, DropAll
  <2> HIDE DEF r
  <2> QED
    BY <1>2, <2>1, <2>3 DEF InOrder, Only, Leave, r
<1>3. CASE y # None /\ ~s.mem[y].live
  <2>1. r = [s EXCEPT !.stale = TRUE]
    BY <1>3 DEF Dropped
  <2>2. /\ r.mem = s.mem /\ r.list = s.list /\ r.cursor = s.cursor /\ r.owed = s.owed
        /\ DOMAIN r = DOMAIN s /\ r = [f \in DOMAIN r |-> r[f]]
    BY <2>1 DEF InOrder, IsState
  <2> HIDE DEF r
  <2> QED
    BY <1>3, <2>2 DEF InOrder, IsState, Leave, Who, r
<1> QED
  BY <1>1, <1>2, <1>3

\* A registration that fails, at whichever of its entries
LEMMA Undone ==
    ASSUME IInv, pc \in {"add", "add_rep"}, ~leaked, Undo(fci.entry, fci.rep), Quiet,
           UNCHANGED beat,
           \/ fci.entry # None /\ fci.rep # None
           \/ /\ fci.entry # None => mem[fci.entry].live
              /\ fci.rep # None => mem[fci.rep].live
    PROVE  IInv'
<1> DEFINE start == [mem |-> mem, list |-> list, cursor |-> cursor,
                     owed |-> owed, stale |-> FALSE]
<1>0. PICK s, t, r : /\ s = start /\ t = Dropped(s, fci.entry)
                     /\ r = Dropped(t, fci.rep)
  OBVIOUS
<1>1. /\ Becomes(r)
      /\ IF r.stale THEN pc' = "undefined" /\ fci' = fci ELSE pc' = "idle" /\ fci' = Idle
  BY <1>0 DEF Undo, Dropped, Goto, Done
<1>2. fci \in Workers /\ fci.cmd = "register" /\ Held(fci) = Nothing
  BY HeldNothing DEF IInv, Stages, Typed
<1>3. fci.entry \in Entries \cup {None} /\ fci.rep \in Entries \cup {None}
  BY <1>2, Worker
<1>4. InOrder(s) /\ "stale" \in DOMAIN s /\ s.mem = mem /\ ~s.stale
  BY <1>0, <1>2 DEF InOrder, IsState, IInv, Typed, TableTyped, TableInv
<1> HIDE DEF start
<1>5. /\ InOrder(t) /\ "stale" \in DOMAIN t /\ Leave(s.mem, t.mem, Entries)
      /\ fci.entry = None => t = s
      /\ fci.entry # None /\ mem[fci.entry].live => ~t.stale
  BY <1>0, <1>3, <1>4, DroppedAll
<1>6. /\ InOrder(r) /\ Leave(t.mem, r.mem, Entries)
      /\ fci.rep = None => r = t
      /\ fci.rep # None /\ t.mem[fci.rep].live => r.stale = t.stale
  BY <1>0, <1>3, <1>5, DroppedAll
<1>7. t.stale => fci.entry # None /\ fci.rep # None
  BY <1>4, <1>5
<1>8. r.stale => fci.entry # None /\ fci.rep # None
  BY <1>4, <1>5, <1>6, <1>7
<1>9. Leave(mem, r.mem, Entries)
  BY <1>4, <1>5, <1>6 DEF Leave, Who
<1>10. /\ mem' = r.mem /\ list' = r.list /\ cursor' = r.cursor /\ owed' = r.owed
       /\ UNCHANGED <<listing, leaked, routes, default, beat>>
  BY <1>1 DEF Becomes, Quiet
<1>11. Routed'
  BY <1>9, <1>10, RoutedKept
<1>12. /\ mem' \in Memory /\ list' \in Lists /\ cursor' \in Cursors /\ owed' \in SUBSET Tuples
       /\ Sane(mem', Nothing, {}) /\ Listed(mem', list', cursor') /\ Owing(mem', owed', {})
  BY <1>6, <1>10 DEF InOrder, IsState
<1>13. Typed'
  BY <1>1, <1>2, <1>10, <1>12, IdleWorks DEF IInv, Typed, TableTyped, Pcs
<1>14. CASE r.stale
  <2>1. pc' = "undefined" /\ fci' = fci
    BY <1>1, <1>14
  <2>2. TableInv'
    BY <1>2, <1>12, <2>1 DEF TableInv
  <2>3. Stages' /\ Pointers' /\ Locks' /\ Registering' /\ Dropping'
    BY <1>2, <1>8, <1>10, <1>14, <2>1 DEF Stages, Pointers, Locks, Registering, Overtaken, Dropping
  <2> QED
    BY <1>11, <1>13, <2>2, <2>3 DEF IInv
<1>15. CASE ~r.stale
  BY <1>1, <1>10, <1>11, <1>12, <1>13, <1>15, Finish
<1> QED
  BY <1>14, <1>15

LEMMA TableState ==
    ASSUME TableTyped
    PROVE  /\ IsState(Table) /\ Table.mem = mem /\ Table.list = list
           /\ Table.cursor = cursor /\ Table.owed = owed
BY DEF Table, TableTyped, IsState

\* What adding a new entry does, when there is no duplicate
LEMMA Added ==
    ASSUME IInv, NEW e \in Entries, New(e), ~Duplicate(e), fci.cmd = "register",
           Becomes(Add(Table, e)), routes' = routes
    PROVE  /\ mem' \in Memory /\ list' \in Lists /\ cursor' \in Cursors
           /\ owed' \in SUBSET Tuples
           /\ Sane(mem', Nothing, {}) /\ Listed(mem', list', cursor') /\ Owing(mem', owed', {})
           /\ \A x \in Entries \ {e} : mem'[x] = mem[x]
           /\ Who(mem'[e], mem[e]) /\ Times(mem'[e], mem[e])
           /\ mem'[e].child = mem[e].child /\ mem'[e].rtable
           /\ Routed'
<1>1. PICK s, r : s = Table /\ r = Add(s, e)
  OBVIOUS
<1>2. /\ IsState(s) /\ s.mem = mem /\ s.list = list /\ s.cursor = cursor /\ s.owed = owed
  BY <1>1, TableState DEF IInv, Typed
<1>3. Held(fci) = Nothing /\ Nothing \in Holdings
  BY HeldNothing, IdleWorks
<1>4. /\ Sane(s.mem, Nothing, {}) /\ Listed(s.mem, s.list, s.cursor) /\ Owing(s.mem, s.owed, {})
  BY <1>2, <1>3 DEF IInv, TableInv
<1>5. /\ s.mem[e].live /\ ~s.mem[e].rtable /\ s.mem[e].tuple \in Tuples
      /\ mem[e].route \in routes
  BY <1>2 DEF New
<1>6. \A x \in Entries : s.mem[x].rtable => s.mem[x].tuple # s.mem[e].tuple
  BY <1>2 DEF Duplicate, InTable
<1>7. /\ IsState(r)
      /\ Sane(r.mem, Nothing, {}) /\ Listed(r.mem, r.list, r.cursor)
      /\ Owing(r.mem, r.owed, {})
      /\ \A x \in Entries \ {e} : r.mem[x] = s.mem[x]
      /\ Who(r.mem[e], s.mem[e]) /\ Times(r.mem[e], s.mem[e])
      /\ r.mem[e].child = s.mem[e].child /\ r.mem[e].rtable
  BY <1>1, <1>2, <1>3, <1>4, <1>5, <1>6, AddSane
<1>8. /\ mem' = r.mem /\ list' = r.list /\ cursor' = r.cursor /\ owed' = r.owed
  BY <1>1 DEF Becomes
<1>9. Routed'
  BY <1>2, <1>5, <1>7, <1>8 DEF IInv, Routed, Who
<1> QED
  BY <1>2, <1>7, <1>8, <1>9 DEF IsState

LEMMA EntryAdded ==
    ASSUME IInv, AddEntry
    PROVE  IInv'
<1>1. pc = "add" /\ ~leaked /\ UNCHANGED beat /\ Quiet
  BY DEF AddEntry, At
<1>2. /\ UNCHANGED <<listing, leaked, routes, default, beat>>
  BY <1>1 DEF Quiet
<1>3. /\ fci.cmd = "register" /\ fci.entry # None
      /\ New(fci.entry) /\ Young(fci.entry) /\ mem[fci.entry].child = fci.rep
      /\ fci.rep # None => New(fci.rep)
  BY <1>1 DEF IInv, Stages, Pointers, Registering
<1>4. fci \in Workers /\ fci.entry \in Entries /\ fci.rep \in Entries \cup {None}
  BY <1>3, Worker DEF IInv, Typed
<1>5. CASE Duplicate(fci.entry) \/ Full(fci.entry)
  <2>1. Undo(fci.entry, fci.rep)
    BY <1>5 DEF AddEntry
  <2>2. mem[fci.entry].live /\ (fci.rep # None => mem[fci.rep].live)
    BY <1>3 DEF New
  <2> QED
    BY <1>1, <2>1, <2>2, Undone
<1>6. CASE ~Duplicate(fci.entry) /\ ~Full(fci.entry)
  <2>0. PICK e : e = fci.entry
    OBVIOUS
  <2>1. /\ Becomes(Add(Table, e))
        /\ IF fci.rep = None THEN pc' = "idle" /\ fci' = Idle
           ELSE pc' = "add_rep" /\ fci' = fci
    BY <1>6, <2>0 DEF AddEntry, Done, Goto
  <2>2. /\ mem' \in Memory /\ list' \in Lists /\ cursor' \in Cursors
        /\ owed' \in SUBSET Tuples
        /\ Sane(mem', Nothing, {}) /\ Listed(mem', list', cursor') /\ Owing(mem', owed', {})
        /\ \A x \in Entries \ {e} : mem'[x] = mem[x]
        /\ Who(mem'[e], mem[e]) /\ Times(mem'[e], mem[e])
        /\ mem'[e].child = mem[e].child /\ mem'[e].rtable
        /\ Routed'
    BY <1>2, <1>3, <1>4, <1>6, <2>0, <2>1, Added
  <2>3. Typed'
    BY <1>2, <1>4, <2>1, <2>2, IdleWorks DEF IInv, Typed, TableTyped, Pcs
  <2>4. CASE fci.rep = None
    BY <1>1, <1>2, <2>1, <2>2, <2>3, <2>4, Finish
  <2>5. CASE fci.rep # None
    <3>1. fci.rep \in Entries /\ fci.rep # e /\ mem[fci.rep].child = e
      BY <1>3, <1>4, <2>0, <2>5 DEF IInv, TableInv, Sane, Paired
    <3>2. New(fci.rep)' /\ mem'[fci'.rep].child = fci'.entry
      BY <1>2, <1>3, <2>0, <2>1, <2>2, <2>5, <3>1 DEF New
    <3>3. Young(fci.entry)'
      BY <1>2, <1>3, <2>0, <2>1, <2>2, <2>5 DEF Young, Lasts, Times
    <3>4. Registering'
      BY <2>0, <2>1, <2>2, <2>5, <3>2, <3>3 DEF Registering
    <3> QED
      BY <1>1, <1>2, <1>3, <2>1, <2>2, <2>3, <2>5, <3>4, Registers
  <2> QED
    BY <2>4, <2>5
<1> QED
  BY <1>5, <1>6

LEMMA ReplyAdded ==
    ASSUME IInv, AddReply
    PROVE  IInv'
<1>1. pc = "add_rep" /\ ~leaked /\ UNCHANGED beat /\ Quiet
  BY DEF AddReply, At
<1>2. /\ UNCHANGED <<listing, leaked, routes, default, beat>>
  BY <1>1 DEF Quiet
<1>3. /\ fci.cmd = "register" /\ fci.rep # None
      /\ mem[fci.rep].live => New(fci.rep)
      /\ ~Overtaken => New(fci.rep) /\ mem[fci.rep].child = fci.entry
  BY <1>1 DEF IInv, Stages, Pointers, Registering
<1>4. fci \in Workers /\ fci.rep \in Entries /\ fci.entry \in Entries \cup {None}
  BY <1>3, Worker DEF IInv, Typed
<1>5. \/ fci.entry # None
      \/ /\ fci.entry # None => mem[fci.entry].live
         /\ fci.rep # None => mem[fci.rep].live
  BY <1>3 DEF New, Overtaken
<1>9. CASE ~mem[fci.rep].live
  <2>1. pc' = "undefined" /\ fci' = fci /\ UNCHANGED <<mem, list, cursor, owed>>
    BY <1>9 DEF AddReply, Goto, tableVars
  <2>2. fci.entry # None
    BY <1>3, <1>5, <1>9
  <2>3. Typed'
    BY <1>2, <1>4, <2>1 DEF IInv, Typed, TableTyped, Pcs
  <2>4. TableInv' /\ Routed'
    BY <1>2, <2>1 DEF IInv, TableInv, Routed
  <2>5. Stages' /\ Pointers' /\ Locks' /\ Registering' /\ Dropping'
    BY <1>1, <1>2, <1>3, <2>1, <2>2
       DEF Stages, Pointers, Locks, Registering, Dropping, Overtaken
  <2> QED
    BY <2>3, <2>4, <2>5 DEF IInv
<1>6. CASE mem[fci.rep].live /\ Duplicate(fci.rep)
  <2>1. /\ pc' = "idle" /\ fci' = Idle
        /\ UNCHANGED <<mem, list, cursor, owed>>
    BY <1>6 DEF AddReply, Done, tableVars
  <2>2. Held(fci) = Nothing
    BY <1>3, HeldNothing
  <2>3. Typed'
    BY <1>2, <2>1, IdleWorks DEF IInv, Typed, TableTyped, Pcs
  <2>4. Routed'
    BY <1>2, <2>1 DEF IInv, Routed
  <2> QED
    BY <1>1, <1>2, <2>1, <2>2, <2>3, <2>4, Finish DEF IInv, TableInv
<1>7. CASE mem[fci.rep].live /\ ~Duplicate(fci.rep) /\ Full(fci.rep)
  <2>1. Undo(fci.entry, fci.rep)
    BY <1>7 DEF AddReply
  <2> QED
    BY <1>1, <1>3, <1>5, <2>1, Undone
<1>8. CASE mem[fci.rep].live /\ ~Duplicate(fci.rep) /\ ~Full(fci.rep)
  <2>0. PICK e : e = fci.rep
    OBVIOUS
  <2>1. Becomes(Add(Table, e)) /\ pc' = "idle" /\ fci' = Idle
    BY <1>8, <2>0 DEF AddReply, Done
  <2>2. /\ mem' \in Memory /\ list' \in Lists /\ cursor' \in Cursors
        /\ owed' \in SUBSET Tuples
        /\ Sane(mem', Nothing, {}) /\ Listed(mem', list', cursor') /\ Owing(mem', owed', {})
        /\ Routed'
    BY <1>2, <1>3, <1>4, <1>8, <2>0, <2>1, Added
  <2>3. Typed'
    BY <1>2, <2>1, <2>2, IdleWorks DEF IInv, Typed, TableTyped, Pcs
  <2> QED
    BY <1>1, <1>2, <2>1, <2>2, <2>3, Finish
<1> QED
  BY <1>6, <1>7, <1>8, <1>9

-----------------------------------------------------------------------------
(* Searches *)

\* The first that matches
LEMMA SearchFinds ==
    ASSUME NEW es \in Lists, NEW c
    PROVE  LET f == Search(es, c)
           IN  \/ /\ f.entry = None /\ f.cursor = End
                  /\ \A j \in 1 .. Len(es) : ~Matches(es[j], c)
               \/ \E i \in 1 .. Len(es) :
                     /\ f.entry = es[i] /\ f.cursor = Behind(es, i) /\ Matches(es[i], c)
                     /\ \A j \in 1 .. Len(es) : Matches(es[j], c) => i =< j
<1> DEFINE I == {i \in 1 .. Len(es) : Matches(es[i], c)}
           f == Search(es, c)
<1>1. Len(es) \in Nat
  BY DEF Lists
<1>2. I \in SUBSET Nat
  BY <1>1
<1>3. PICK i : i = IF I # {} THEN Min(I) ELSE 0
  OBVIOUS
<1>4. f = IF i = 0 THEN [entry |-> None, cursor |-> End]
          ELSE [entry |-> es[i], cursor |-> Behind(es, i)]
  BY <1>3 DEF Search, SelectInSeq
<1>5. I # {} => i \in I /\ \A y \in I : i =< y
  BY <1>2, <1>3, Least
<1>6. I # {} => i # 0
  BY <1>1, <1>5
<1>7. CASE I = {}
  BY <1>3, <1>4, <1>7
<1>8. CASE I # {}
  <2>1. f.entry = es[i] /\ f.cursor = Behind(es, i)
    BY <1>4, <1>6, <1>8
  <2>2. i \in 1 .. Len(es) /\ Matches(es[i], c) /\ \A j \in 1 .. Len(es) : Matches(es[j], c) => i =< j
    BY <1>5, <1>8
  <2> QED
    BY <2>1, <2>2
<1> QED
  BY <1>7, <1>8

LEMMA Shifted ==
    ASSUME NEW N \in Nat, NEW M, NEW d \in 0 .. N, M = N - d, NEW i \in 1 .. M,
           NEW k, k = d + i
    PROVE  /\ k \in 1 .. N /\ k \in 0 .. N
           /\ i = M => k = N
           /\ k = N => i = M
           /\ i # M => i + 1 \in 1 .. M /\ d + (i + 1) = k + 1
           /\ k # N => k + 1 \in 1 .. N
<1>1. M \in Int /\ d \in Int /\ i \in Int
  OBVIOUS
<1> QED
  BY <1>1

\* A search of what is left of the list after d entries
LEMMA SearchFrom ==
    ASSUME list \in Lists, Listed(mem, list, cursor),
           NEW d \in 0 .. Len(list), NEW es \in Lists, Len(es) = Len(list) - d,
           \A i \in 1 .. Len(es) : es[i] = list[d + i], NEW c
    PROVE  LET f == Search(es, c)
           IN  /\ f.entry \in Entries \cup {None} /\ f.cursor \in Cursors
               /\ Listed(mem, list, f.cursor)
               /\ f.entry # None => mem[f.entry].rtable
               /\ \A j \in 1 .. Len(list) : d < j /\ Matches(list[j], c) =>
                     f.entry # None /\ (list[j] = f.entry \/ Ahead(list, f.cursor, list[j]))
<1> DEFINE f == Search(es, c)
<1>1. Len(list) \in Nat /\ \A j \in 1 .. Len(list) : list[j] \in Entries /\ mem[list[j]].rtable
  BY DEF Lists, Listed
<1>2. \A j \in 1 .. Len(list) : d < j => j - d \in 1 .. Len(es) /\ es[j - d] = list[j]
  <2> SUFFICES ASSUME NEW j \in 1 .. Len(list), d < j
               PROVE  j - d \in 1 .. Len(es) /\ es[j - d] = list[j]
    OBVIOUS
  <2>1. PICK i : i = j - d
    OBVIOUS
  <2>2. i \in 1 .. Len(es) /\ d + i = j
    BY <1>1, <2>1
  <2> QED
    BY <2>1, <2>2
<1>3. \/ /\ f.entry = None /\ f.cursor = End
         /\ \A j \in 1 .. Len(es) : ~Matches(es[j], c)
      \/ \E i \in 1 .. Len(es) :
            /\ f.entry = es[i] /\ f.cursor = Behind(es, i) /\ Matches(es[i], c)
            /\ \A j \in 1 .. Len(es) : Matches(es[j], c) => i =< j
  BY SearchFinds
<1> HIDE DEF f
<1>4. CASE /\ f.entry = None /\ f.cursor = End
           /\ \A j \in 1 .. Len(es) : ~Matches(es[j], c)
  <2>1. \A j \in 1 .. Len(list) : d < j => ~Matches(list[j], c)
    BY <1>2, <1>4
  <2>2. Listed(mem, list, f.cursor) /\ f.cursor \in Cursors
    BY <1>4 DEF Listed, Cursors
  <2> QED
    BY <1>4, <2>1, <2>2 DEF f
<1>5. ASSUME NEW i \in 1 .. Len(es), f.entry = es[i], f.cursor = Behind(es, i),
             Matches(es[i], c), \A j \in 1 .. Len(es) : Matches(es[j], c) => i =< j
      PROVE  /\ f.entry \in Entries \cup {None} /\ f.cursor \in Cursors
             /\ Listed(mem, list, f.cursor)
             /\ f.entry # None => mem[f.entry].rtable
             /\ \A j \in 1 .. Len(list) : d < j /\ Matches(list[j], c) =>
                   f.entry # None /\ (list[j] = f.entry \/ Ahead(list, f.cursor, list[j]))
  <2>1. PICK k : k = d + i
    OBVIOUS
  <2>0. PICK N, M : N = Len(list) /\ M = Len(es)
    OBVIOUS
  <2>s. /\ k \in 1 .. N /\ k \in 0 .. N
        /\ i = M => k = N
        /\ k = N => i = M
        /\ i # M => i + 1 \in 1 .. M /\ d + (i + 1) = k + 1
        /\ k # N => k + 1 \in 1 .. N
    <3>1. N \in Nat /\ d \in 0 .. N /\ M = N - d /\ i \in 1 .. M
      BY <1>1, <2>0
    <3> QED
      BY <2>1, <3>1, Shifted
  <2>2. k \in 1 .. Len(list) /\ es[i] = list[k] /\ k \in 0 .. Len(list)
    BY <2>0, <2>1, <2>s
  <2>3. f.entry = list[k] /\ f.entry \in Entries /\ f.entry # None /\ mem[f.entry].rtable
    BY <1>1, <1>5, <2>2, Nobody
  <2>4. f.cursor = Behind(list, k)
    <3>3. i # Len(es) => es[i + 1] = list[k + 1]
      <4> SUFFICES ASSUME i # Len(es) PROVE es[i + 1] = list[k + 1]
        OBVIOUS
      <4>1. PICK a : a = i + 1
        OBVIOUS
      <4>2. a \in 1 .. Len(es) /\ d + a = k + 1
        BY <2>0, <2>s, <4>1
      <4> QED
        BY <4>1, <4>2
    <3> QED
      BY <1>5, <2>0, <2>s, <3>3 DEF Behind
  <2>5. f.cursor \in Cursors
    BY <2>2, <2>4, BehindTyped
  <2>6. k # Len(list) => k + 1 \in 1 .. Len(list) /\ f.cursor = list[k + 1]
    <3>1. k # Len(list) => k + 1 \in 1 .. Len(list)
      BY <2>0, <2>s
    <3> QED
      BY <2>4, <3>1 DEF Behind
  <2>7. k = Len(list) => f.cursor = End
    BY <2>4 DEF Behind
  <2>8. Listed(mem, list, f.cursor)
    BY <1>1, <2>6, <2>7 DEF Listed
  <2>9. ASSUME NEW j \in 1 .. Len(list), d < j, Matches(list[j], c)
        PROVE  list[j] = f.entry \/ Ahead(list, f.cursor, list[j])
    <3>1. i =< j - d
      <4>1. PICK a : a = j - d
        OBVIOUS
      <4>2. a \in 1 .. Len(es) /\ Matches(es[a], c)
        BY <1>2, <2>9, <4>1
      <4> QED
        BY <1>5, <4>1, <4>2
    <3>2. k =< j
      BY <1>1, <2>1, <3>1
    <3>3. CASE k = j
      BY <2>3, <3>3
    <3>4. CASE k # j
      <4>1. k # Len(list) /\ k + 1 =< j
        BY <1>1, <2>2, <3>2, <3>4
      <4> QED
        BY <2>6, <4>1 DEF Ahead
    <3> QED
      BY <3>3, <3>4
  <2> QED
    BY <2>3, <2>5, <2>8, <2>9
<1> QED
  BY <1>3, <1>4, <1>5 DEF f

\* What a search finds: it is in the table, and what it has not come to yet is
\* ahead.
Found(f, X) ==
    /\ f.entry \in Entries \cup {None} /\ f.cursor \in Cursors
    /\ Listed(mem, list, f.cursor)
    /\ f.entry # None => mem[f.entry].rtable
    /\ \A x \in X : f.entry # None /\ (x = f.entry \/ Ahead(list, f.cursor, x))

LEMMA FirstFound ==
    ASSUME list \in Lists, cursor \in Cursors, Listed(mem, list, cursor), NEW c
    PROVE  Found(GetFirst(c), {x \in Entries : mem[x].rtable /\ Matches(x, c)})
<1>1. Len(list) \in Nat /\ \A x \in Entries : mem[x].rtable => \E j \in 1 .. Len(list) : list[j] = x
  BY DEF Lists, Listed
<1>2. CASE list = <<>>
  <2>1. Search(list, c).entry = None
    <3>1. Len(list) = 0
      BY <1>2
    <3> QED
      BY <3>1, SearchFinds
  <2>2. GetFirst(c).entry = None /\ GetFirst(c).cursor = cursor
    <3>1. GetFirst(c) = [Search(list, c) EXCEPT !.cursor = cursor]
      BY <1>2 DEF GetFirst
    <3>2. DOMAIN Search(list, c) = {"entry", "cursor"}
      BY DEF Search
    <3> QED
      BY <2>1, <3>1, <3>2
  <2>3. \A x \in Entries : ~mem[x].rtable
    BY <1>1, <1>2
  <2> QED
    BY <2>2, <2>3 DEF Found
<1>3. CASE list # <<>>
  <2>1. PICK f : f = Search(list, c)
    OBVIOUS
  <2>2. GetFirst(c) = f
    BY <1>3, <2>1 DEF GetFirst
  <2>3. /\ f.entry \in Entries \cup {None} /\ f.cursor \in Cursors
        /\ Listed(mem, list, f.cursor)
        /\ f.entry # None => mem[f.entry].rtable
        /\ \A j \in 1 .. Len(list) : 0 < j /\ Matches(list[j], c) =>
              f.entry # None /\ (list[j] = f.entry \/ Ahead(list, f.cursor, list[j]))
    <3>1. 0 \in 0 .. Len(list) /\ Len(list) = Len(list) - 0
          /\ \A i \in 1 .. Len(list) : list[i] = list[0 + i]
      BY <1>1
    <3> QED
      BY <2>1, <3>1, SearchFrom
  <2>4. \A j \in 1 .. Len(list) : 0 < j
    BY <1>1
  <2> QED
    BY <1>1, <2>2, <2>3, <2>4 DEF Found
<1> QED
  BY <1>2, <1>3

LEMMA NextFound ==
    ASSUME list \in Lists, cursor \in Cursors, Listed(mem, list, cursor)
    PROVE  Found(GetNext, {x \in Entries : Ahead(list, cursor, x) /\ Matches(x, fci.crit)})
<1> DEFINE X == {x \in Entries : Ahead(list, cursor, x) /\ Matches(x, fci.crit)}
<1>1. Len(list) \in Nat /\ \A j \in 1 .. Len(list) : list[j] \in Entries
  BY DEF Lists
<1>2. PICK es, f : es = Suffix(cursor) /\ f = Search(es, fci.crit)
  OBVIOUS
<1>3. GetNext = f
  BY <1>2 DEF GetNext
<1>4. \E d \in 0 .. Len(list) :
         /\ es \in Lists /\ Len(es) = Len(list) - d
         /\ \A i \in 1 .. Len(es) : es[i] = list[d + i]
         /\ \A x : Ahead(list, cursor, x) => \E j \in 1 .. Len(list) : d < j /\ list[j] = x
  <2>1. CASE cursor \in {None, End}
    <3>1. es = <<>>
      BY <1>2, <2>1 DEF Suffix
    <3>2. es \in Lists /\ Len(es) = 0
      BY <3>1 DEF Lists
    <3>3. \A x : ~Ahead(list, cursor, x)
      BY <1>1, <2>1, Nobody DEF Ahead
    <3>4. Len(list) \in 0 .. Len(list) /\ 0 = Len(list) - Len(list)
      BY <1>1
    <3> QED
      BY <1>1, <3>2, <3>3, <3>4
  <2>2. CASE cursor \notin {None, End}
    <3>1. PICK k : k = Where(list, cursor)
      OBVIOUS
    <3>2. es = SubSeq(list, k, Len(list))
      BY <1>2, <2>2, <3>1 DEF Suffix
    <3>3. \E i \in 1 .. Len(list) : list[i] = cursor
      BY <2>2 DEF Listed, Cursors
    <3>4. k \in 1 .. Len(list) /\ list[k] = cursor
      BY <1>1, <3>1, <3>3, WhereIs
    <3>5. /\ es \in Lists /\ Len(es) = Len(list) - (k - 1)
          /\ \A i \in 1 .. Len(es) : es[i] = list[(k - 1) + i]
      BY <1>1, <3>2, <3>4 DEF Lists
    <3>6. ASSUME NEW x, Ahead(list, cursor, x)
          PROVE  \E j \in 1 .. Len(list) : k - 1 < j /\ list[j] = x
      <4>1. PICK i \in 1 .. Len(list), j \in 1 .. Len(list) : i =< j /\ list[i] = cursor /\ list[j] = x
        BY <3>6 DEF Ahead
      <4>2. i = k
        BY <3>4, <4>1 DEF Listed, Distinct
      <4>3. k - 1 < j
        BY <1>1, <3>4, <4>1, <4>2
      <4> QED
        BY <4>1, <4>3
    <3>7. k - 1 \in 0 .. Len(list)
      BY <1>1, <3>4
    <3> QED
      BY <3>5, <3>6, <3>7
  <2> QED
    BY <2>1, <2>2
<1>5. PICK d \in 0 .. Len(list) :
         /\ es \in Lists /\ Len(es) = Len(list) - d
         /\ \A i \in 1 .. Len(es) : es[i] = list[d + i]
         /\ \A x : Ahead(list, cursor, x) => \E j \in 1 .. Len(list) : d < j /\ list[j] = x
  BY <1>4
<1>6. /\ f.entry \in Entries \cup {None} /\ f.cursor \in Cursors
      /\ Listed(mem, list, f.cursor)
      /\ f.entry # None => mem[f.entry].rtable
      /\ \A j \in 1 .. Len(list) : d < j /\ Matches(list[j], fci.crit) =>
            f.entry # None /\ (list[j] = f.entry \/ Ahead(list, f.cursor, list[j]))
  BY <1>2, <1>5, SearchFrom
<1>7. ASSUME NEW x \in X
      PROVE  f.entry # None /\ (x = f.entry \/ Ahead(list, f.cursor, x))
  BY <1>5, <1>6, <1>7
<1> QED
  BY <1>3, <1>6, <1>7 DEF Found

\* The one pointer that a search returns is held.
HeldBy(e) == IF e = None THEN Nothing ELSE More(Nothing, e)

LEMMA HeldOne ==
    ASSUME NEW f \in Workers, f.cmd # "register", f.rep = None
    PROVE  Held(f) = HeldBy(f.entry)
<1>1. \A e \in Entries : e # None
  BY Nobody
<1>2. f.entry \in Entries \cup {None}
  BY Worker
<1>3. CASE f.entry = None
  BY <1>1, <1>3 DEF Held, HeldBy, Nothing
<1>4. CASE f.entry # None
  <2>1. ASSUME NEW e \in Entries PROVE Held(f)[e] = More(Nothing, f.entry)[e]
    BY <1>1, <1>2, <1>4 DEF Held, More, Nothing
  <2>2. /\ DOMAIN Held(f) = Entries /\ DOMAIN More(Nothing, f.entry) = Entries
        /\ Held(f) = [e \in Entries |-> Held(f)[e]]
        /\ More(Nothing, f.entry) = [e \in Entries |-> More(Nothing, f.entry)[e]]
    BY DEF Held, More, Nothing
  <2>3. Held(f) = More(Nothing, f.entry)
    BY <2>1, <2>2
  <2> QED
    BY <1>4, <2>3 DEF HeldBy
<1> QED
  BY <1>3, <1>4

\* pfe_rtable_get_first and pfe_rtable_get_next take a reference.
LEMMA Took ==
    ASSUME Typed, TableInv, Held(fci) = Nothing, NEW f, NEW X, Found(f, X), Taken(f)
    PROVE  /\ mem' \in Memory /\ list' \in Lists /\ cursor' \in Cursors
           /\ owed' \in SUBSET Tuples
           /\ Sane(mem', HeldBy(f.entry), {}) /\ Listed(mem', list', cursor')
           /\ Owing(mem', owed', {})
           /\ \A x \in Entries : mem'[x].rtable = mem[x].rtable /\ Who(mem'[x], mem[x])
           /\ list' = list /\ cursor' = f.cursor
<1>1. /\ mem \in Memory /\ list \in Lists /\ owed \in SUBSET Tuples
      /\ Sane(mem, Nothing, {}) /\ Owing(mem, owed, {}) /\ Nothing \in Holdings
  BY IdleWorks DEF Typed, TableTyped, TableInv
<1>2. /\ cursor' = f.cursor /\ list' = list /\ owed' = owed
      /\ mem' = IF f.entry = None THEN mem ELSE [mem EXCEPT ![f.entry].ref = @ + 1]
  BY DEF Taken
<1>3. f.cursor \in Cursors /\ Listed(mem, list, f.cursor)
  BY DEF Found
<1>4. /\ mem' \in Memory /\ Sane(mem', HeldBy(f.entry), {})
      /\ \A x \in Entries : mem'[x].rtable = mem[x].rtable /\ Who(mem'[x], mem[x])
  <2>1. CASE f.entry = None
    BY <1>1, <1>2, <2>1 DEF HeldBy, Who
  <2>2. CASE f.entry # None
    <3>1. PICK e : e = f.entry
      OBVIOUS
    <3>2. e \in Entries /\ mem[e].live
      BY <1>1, <2>2, <3>1 DEF Found, Sane, Sound
    <3>3. mem' = [mem EXCEPT ![e].ref = @ + 1]
      BY <1>2, <2>2, <3>1
    <3>4. /\ mem' \in Memory /\ Sane(mem', More(Nothing, e), {})
          /\ \A x \in Entries : /\ mem'[x].rtable = mem[x].rtable /\ Who(mem'[x], mem[x])
      BY <1>1, <3>2, <3>3, TakeSane
    <3> QED
      BY <2>2, <3>1, <3>4 DEF HeldBy
  <2> QED
    BY <2>1, <2>2
<1>5. Listed(mem', list', cursor')
  BY <1>2, <1>3, <1>4, ListedKept
<1>6. Owing(mem', owed', {})
  <2>1. \A x \in Entries : /\ mem[x].rtable /\ mem[x].callback /\ mem[x].tuple \in owed /\ x \notin {}
                           => x \notin {} /\ mem'[x].rtable /\ mem'[x].callback /\ mem'[x].tuple = mem[x].tuple
    BY <1>4 DEF Who
  <2>2. Owing(mem', owed, {})
    BY <1>1, <2>1, OwingKept
  <2> QED
    BY <1>2, <2>2
<1> QED
  BY <1>1, <1>2, <1>3, <1>4, <1>5, <1>6

\* A command that begins with a search
LEMMA LookedUp ==
    ASSUME IInv, pc = "idle", ~leaked, NEW cmd, NEW c \in Criteria, NEW f, NEW p, NEW X,
           Found(f, X), Lookup(cmd, c, f, p),
           UNCHANGED <<leaked, routes, beat>>, default' \in 0 .. Inf, listing' \in BOOLEAN,
           <<cmd, p>> \in {<<"deregister", "child">>, <<"update", "free">>, <<"query", "child">>,
                           <<"timeout", "check">>, <<"drop", "del">>, <<"drop", "drop">>},
           cmd = "drop" => (p = "drop" <=> f.entry = None),
           cmd = "drop" =>
              /\ \A t \in Tuples : t \in c.tuples
              /\ \A e \in Entries : mem[e].rtable /\ mem[e].route \in c.routes => e \in X
    PROVE  IInv'
<1>1. PICK e : e = f.entry
  OBVIOUS
<1>2. /\ Taken(f)
      /\ IF e = None /\ cmd # "drop" THEN pc' = "idle" /\ fci' = Idle
         ELSE pc' = p /\ fci' = Job(cmd, e, None, c)
  BY <1>1 DEF Lookup, Done, Job, Idle
<1>3. Typed /\ TableInv /\ Held(fci) = Nothing
  BY Between DEF IInv
<1>4. /\ mem' \in Memory /\ list' \in Lists /\ cursor' \in Cursors
      /\ owed' \in SUBSET Tuples
      /\ Sane(mem', HeldBy(e), {}) /\ Listed(mem', list', cursor')
      /\ Owing(mem', owed', {})
      /\ \A x \in Entries : mem'[x].rtable = mem[x].rtable /\ Who(mem'[x], mem[x])
      /\ list' = list /\ cursor' = f.cursor
  BY <1>1, <1>2, <1>3, Took
<1>5. e \in Entries \cup {None}
  BY <1>1 DEF Found
<1>6. Routed'
  BY <1>4 DEF IInv, Routed, Who
<1>7. CASE e = None /\ cmd # "drop"
  <2>1. pc' = "idle" /\ fci' = Idle
    BY <1>2, <1>7
  <2>2. Typed'
    BY <1>4, <2>1, IdleWorks DEF IInv, Typed, TableTyped, Pcs
  <2>3. Sane(mem', Nothing, {})
    BY <1>4, <1>7 DEF HeldBy
  <2> QED
    BY <1>4, <1>6, <2>1, <2>2, <2>3, Finish
<1>8. CASE ~(e = None /\ cmd # "drop")
  <2>1. pc' = p /\ fci' = Job(cmd, e, None, c) /\ cmd \in Cmds /\ cmd # "register"
    BY <1>2, <1>8 DEF Cmds
  <2>2. /\ fci' \in Workers /\ fci'.cmd = cmd /\ fci'.entry = e /\ fci'.rep = None
        /\ fci'.crit = c /\ ~fci'.late
    <3>1. None \in Entries \cup {None}
      OBVIOUS
    <3>2. /\ Job(cmd, e, None, c) \in Workers
          /\ Job(cmd, e, None, c).cmd = cmd /\ Job(cmd, e, None, c).entry = e
          /\ Job(cmd, e, None, c).rep = None /\ Job(cmd, e, None, c).crit = c
          /\ ~Job(cmd, e, None, c).late
      BY <1>5, <2>1, <3>1, Jobs
    <3> QED
      BY <2>1, <3>2
  <2>3. Held(fci') = HeldBy(e)
    BY <2>1, <2>2, HeldOne
  <2>4. Typed'
    BY <1>4, <2>1, <2>2 DEF IInv, Typed, TableTyped, Pcs
  <2>5. TableInv'
    BY <1>4, <2>3 DEF TableInv
  <2>6. Stages' /\ Pointers'
    BY <1>1, <1>8, <2>1, <2>2 DEF Stages, Pointers
  <2>7. Locks' /\ Registering'
    BY <2>1 DEF Locks, Registering, Overtaken
  <2>8. Dropping'
    <3>1. SUFFICES ASSUME cmd = "drop"
                   PROVE  /\ \A t \in Tuples : t \in c.tuples
                          /\ \A x \in Entries : mem'[x].rtable /\ mem'[x].route \in c.routes =>
                                /\ p # "drop"
                                /\ (p = "del" /\ x = e) \/ Ahead(list, f.cursor, x)
      BY <1>4, <2>1, <2>2 DEF Dropping
    <3>2. \A x \in X : f.entry # None /\ (x = f.entry \/ Ahead(list, f.cursor, x))
      BY DEF Found
    <3>3. p = "del" \/ p = "drop"
      BY <3>1
    <3> QED
      BY <1>1, <1>4, <3>1, <3>2, <3>3 DEF Who
  <2> QED
    BY <1>6, <2>4, <2>5, <2>6, <2>7, <2>8 DEF IInv
<1> QED
  BY <1>7, <1>8

LEMMA TableFound ==
    ASSUME IInv
    PROVE  /\ \A c \in Criteria :
                 Found(GetFirst(c), {x \in Entries : mem[x].rtable /\ Matches(x, c)})
           /\ Found(GetNext, {x \in Entries : Ahead(list, cursor, x) /\ Matches(x, fci.crit)})
BY FirstFound, NextFound DEF IInv, Typed, TableTyped, TableInv

LEMMA ByTupleDone ==
    ASSUME IInv, NEW cmd \in {"deregister", "update"}, NEW t \in Tuples, ByTuple(cmd, t)
    PROVE  IInv'
<1>1. PICK c, f, p :
         /\ c = [All EXCEPT !.tuples = {t}] /\ f = GetFirst(c)
         /\ p = IF cmd = "deregister" THEN "child" ELSE "free"
  OBVIOUS
<1>2. /\ pc = "idle" /\ ~leaked /\ Lookup(cmd, c, f, p) /\ listing' = FALSE
      /\ UNCHANGED <<leaked, routes, default, beat>>
  BY <1>1 DEF ByTuple, At, GiveUpListing
<1>3. c \in Criteria
  BY <1>1 DEF All, Criteria
<1>4. Found(f, {x \in Entries : mem[x].rtable /\ Matches(x, c)})
  BY <1>1, <1>3, TableFound
<1>5. <<cmd, p>> \in {<<"deregister", "child">>, <<"update", "free">>, <<"query", "child">>,
                      <<"timeout", "check">>, <<"drop", "del">>, <<"drop", "drop">>}
  BY <1>1
<1>6. default' \in 0 .. Inf /\ listing' \in BOOLEAN
  BY <1>2 DEF IInv, Typed
<1> QED
  BY <1>2, <1>3, <1>4, <1>5, <1>6, LookedUp

LEMMA QueryDone ==
    ASSUME IInv, Query
    PROVE  IInv'
<1>1. PICK f : f = GetFirst(All)
  OBVIOUS
<1>2. /\ pc = "idle" /\ ~leaked /\ Lookup("query", All, f, "child")
      /\ listing' = (f.entry # None)
      /\ UNCHANGED <<leaked, routes, default, beat>>
  BY <1>1 DEF Query, At
<1>3. Found(f, {x \in Entries : mem[x].rtable /\ Matches(x, All)})
  BY <1>1, IdleWorks, TableFound
<1>4. default' \in 0 .. Inf /\ listing' \in BOOLEAN
  BY <1>2 DEF IInv, Typed
<1> QED
  BY <1>2, <1>3, <1>4, IdleWorks, LookedUp

LEMMA QueryContDone ==
    ASSUME IInv, QueryCont
    PROVE  IInv'
<1>1. PICK f : f = GetNext
  OBVIOUS
<1>2. /\ pc = "idle" /\ ~leaked /\ Lookup("query", All, f, "child")
      /\ listing' = (f.entry # None)
      /\ UNCHANGED <<leaked, routes, default, beat>>
  BY <1>1 DEF QueryCont, At
<1>3. Found(f, {x \in Entries : Ahead(list, cursor, x) /\ Matches(x, fci.crit)})
  BY <1>1, TableFound
<1>4. default' \in 0 .. Inf /\ listing' \in BOOLEAN
  BY <1>2 DEF IInv, Typed
<1> QED
  BY <1>2, <1>3, <1>4, IdleWorks, LookedUp

LEMMA SetTimeoutsDone ==
    ASSUME IInv, NEW t \in Timeouts, SetTimeouts(t)
    PROVE  IInv'
<1>1. PICK f : f = GetFirst(All)
  OBVIOUS
<1>2. /\ pc = "idle" /\ ~leaked /\ Lookup("timeout", All, f, "check")
      /\ listing' = FALSE /\ default' = t
      /\ UNCHANGED <<leaked, routes, beat>>
  BY <1>1 DEF SetTimeouts, At, GiveUpListing
<1>3. Found(f, {x \in Entries : mem[x].rtable /\ Matches(x, All)})
  BY <1>1, IdleWorks, TableFound
<1>4. default' \in 0 .. Inf /\ listing' \in BOOLEAN
  BY <1>2, ConntrackAssumption
<1> QED
  BY <1>2, <1>3, <1>4, IdleWorks, LookedUp

LEMMA DropRouteDone ==
    ASSUME IInv, NEW r \in Routes, DropRoute(r)
    PROVE  IInv'
<1>1. PICK c, f, p :
         /\ c = [All EXCEPT !.routes = {r}] /\ f = GetFirst(c)
         /\ p = IF f.entry = None THEN "drop" ELSE "del"
  OBVIOUS
<1> DEFINE X == {x \in Entries : mem[x].rtable /\ Matches(x, c)}
<1>2. /\ pc = "idle" /\ ~leaked /\ Lookup("drop", c, f, p) /\ listing' = FALSE
      /\ UNCHANGED <<leaked, routes, default, beat>>
  BY <1>1 DEF DropRoute, At, GiveUpListing
<1>3. c \in Criteria /\ c.tuples = Tuples /\ c.routes = {r}
  BY <1>1 DEF All, Criteria
<1>4. Found(f, X)
  BY <1>1, <1>3, TableFound
<1>5. /\ <<"drop", p>> \in {<<"deregister", "child">>, <<"update", "free">>, <<"query", "child">>,
                            <<"timeout", "check">>, <<"drop", "del">>, <<"drop", "drop">>}
      /\ p = "drop" <=> f.entry = None
  BY <1>1
<1>6. default' \in 0 .. Inf /\ listing' \in BOOLEAN
  BY <1>2 DEF IInv, Typed
<1>7. /\ \A t \in Tuples : t \in c.tuples
      /\ \A e \in Entries : mem[e].rtable /\ mem[e].route \in c.routes => e \in X
  BY <1>3 DEF Matches, IInv, TableInv, Sane, Sound
<1> HIDE DEF X
<1> QED
  BY <1>2, <1>3, <1>4, <1>5, <1>6, <1>7, LookedUp

\* The next connection, of all or of those that use the route
LEMMA NextDone ==
    ASSUME IInv, NextEntry
    PROVE  IInv'
<1>1. PICK f, e : f = GetNext /\ e = f.entry
  OBVIOUS
<1> DEFINE X == {x \in Entries : Ahead(list, cursor, x) /\ Matches(x, fci.crit)}
<1>2. /\ pc = "next" /\ ~leaked /\ Taken(f)
      /\ fci' = [fci EXCEPT !.entry = e]
      /\ pc' = IF e = None THEN IF fci.cmd = "drop" THEN "drop" ELSE "end"
               ELSE IF fci.cmd = "drop" THEN "del" ELSE "check"
      /\ UNCHANGED <<listing, leaked, routes, default, beat>>
  BY <1>1 DEF NextEntry, At, Quiet
<1>3. /\ fci.cmd \in {"timeout", "drop"} /\ fci.entry = None /\ fci.rep = None
      /\ Held(fci) = Nothing /\ fci \in Workers /\ Typed /\ TableInv
  BY <1>2, HeldNothing DEF IInv, Stages, Pointers, Typed
<1>4. Found(f, X)
  BY <1>1, TableFound
<1>5. /\ mem' \in Memory /\ list' \in Lists /\ cursor' \in Cursors
      /\ owed' \in SUBSET Tuples
      /\ Sane(mem', HeldBy(e), {}) /\ Listed(mem', list', cursor')
      /\ Owing(mem', owed', {})
      /\ \A x \in Entries : mem'[x].rtable = mem[x].rtable /\ Who(mem'[x], mem[x])
      /\ list' = list /\ cursor' = f.cursor
  BY <1>1, <1>2, <1>3, <1>4, Took
<1>6. e \in Entries \cup {None}
  BY <1>1, <1>4 DEF Found
<1>7. /\ fci' \in Workers /\ fci'.cmd = fci.cmd /\ fci'.entry = e /\ fci'.rep = None
      /\ fci'.crit = fci.crit
  BY <1>2, <1>3, <1>6 DEF Workers
<1>8. Held(fci') = HeldBy(e)
  BY <1>3, <1>7, HeldOne
<1>9. Typed'
  BY <1>2, <1>5, <1>7 DEF IInv, Typed, TableTyped, Pcs
<1>10. TableInv'
  BY <1>5, <1>8 DEF TableInv
<1>11. Stages' /\ Pointers'
  BY <1>2, <1>3, <1>7 DEF Stages, Pointers
<1>12. Locks' /\ Registering'
  BY <1>2 DEF Locks, Registering, Overtaken
<1>13. Routed'
  BY <1>2, <1>5 DEF IInv, Routed, Who
<1>14. Dropping'
  <2>1. SUFFICES ASSUME fci.cmd = "drop"
                 PROVE  /\ \A t \in Tuples : t \in fci.crit.tuples
                        /\ \A x \in Entries : mem'[x].rtable /\ mem'[x].route \in fci.crit.routes =>
                              /\ e # None
                              /\ x = e \/ Ahead(list, f.cursor, x)
    BY <1>2, <1>5, <1>7 DEF Dropping
  <2>2. \A t \in Tuples : t \in fci.crit.tuples
    BY <2>1 DEF IInv, Dropping
  <2>3. \A x \in Entries : mem[x].rtable /\ mem[x].route \in fci.crit.routes => x \in X
    <3>1. \A x \in Entries : mem[x].rtable => mem[x].tuple \in Tuples
      BY DEF IInv, TableInv, Sane, Sound
    <3>2. \A x \in Entries : mem[x].rtable /\ mem[x].route \in fci.crit.routes
             => Ahead(list, cursor, x)
      BY <1>2, <2>1 DEF IInv, Dropping
    <3> QED
      BY <2>2, <3>1, <3>2 DEF Matches
  <2> HIDE DEF X
  <2>4. \A x \in X : e # None /\ (x = e \/ Ahead(list, f.cursor, x))
    BY <1>1, <1>4 DEF Found
  <2> QED
    BY <1>5, <2>2, <2>3, <2>4 DEF Who
<1> QED
  BY <1>9, <1>10, <1>11, <1>12, <1>13, <1>14 DEF IInv

-----------------------------------------------------------------------------
(* The FCI worker: with the pointers it holds *)

LEMMA HeldMore ==
    ASSUME NEW f \in Workers, f.cmd # "register", f.rep = None, NEW c \in Entries,
           NEW g, g.cmd = f.cmd, g.entry = f.entry, g.rep = c
    PROVE  Held(g) = More(Held(f), c)
<1>1. \A e \in Entries : e # None
  BY Nobody
<1>2. ASSUME NEW e \in Entries PROVE Held(g)[e] = More(Held(f), c)[e]
  BY <1>1 DEF Held, More
<1>3. /\ Held(g) = [e \in Entries |-> Held(g)[e]]
      /\ More(Held(f), c) = [e \in Entries |-> More(Held(f), c)[e]]
  BY DEF Held, More
<1> QED
  BY <1>2, <1>3

LEMMA HeldLess ==
    ASSUME NEW f \in Workers, f.cmd # "register", NEW e \in Entries,
           NEW g, g.cmd = f.cmd,
           \/ f.entry = e /\ g.entry = None /\ g.rep = f.rep
           \/ f.rep = e /\ g.rep = None /\ g.entry = f.entry
    PROVE  Held(g) = Less(Held(f), e)
<1>1. \A x \in Entries : x # None
  BY Nobody
<1>2. ASSUME NEW x \in Entries PROVE Held(g)[x] = Less(Held(f), e)[x]
  BY <1>1 DEF Held, Less
<1>3. /\ Held(g) = [x \in Entries |-> Held(g)[x]]
      /\ Less(Held(f), e) = [x \in Entries |-> Less(Held(f), e)[x]]
  BY DEF Held, Less
<1> QED
  BY <1>2, <1>3

\* Who is held is alive.
LEMMA HeldLives ==
    ASSUME IInv, fci.cmd # "register", NEW e \in Entries, e \in {fci.entry, fci.rep}
    PROVE  Held(fci)[e] # 0 /\ Held(fci)[e] \in Nat /\ mem[e].live
<1>1. Held(fci)[e] # 0 /\ Held(fci)[e] \in Nat
  BY DEF Held
<1>2. Right(mem[e], Held(fci)[e])
  BY DEF IInv, TableInv, Sane, Counted
<1>3. mem[e].ref # 0
  BY <1>1, <1>2 DEF Right
<1> QED
  BY <1>1, <1>3 DEF IInv, TableInv, Sane, Sound

\* It is given back.
LEMMA Given ==
    ASSUME IInv, fci.cmd # "register", NEW e \in Entries, e \in {fci.entry, fci.rep},
           Becomes(Free(Table, e))
    PROVE  /\ mem' \in Memory /\ list' = list /\ cursor' = cursor /\ owed' = owed
           /\ Sane(mem', Less(Held(fci), e), {}) /\ Listed(mem', list', cursor')
           /\ Owing(mem', owed', {}) /\ Leave(mem, mem', {})
<1>1. PICK s, r, h, g : /\ s = Table /\ r = Free(s, e)
                        /\ h = Held(fci) /\ g = Less(h, e)
  OBVIOUS
<1>2. /\ IsState(s) /\ s.mem = mem /\ s.list = list /\ s.cursor = cursor /\ s.owed = owed
  BY <1>1, TableState DEF IInv, Typed
<1>3. /\ h \in Holdings /\ h[e] # 0 /\ h[e] \in Nat /\ mem[e].live
  BY <1>1, HeldLives, Worker DEF IInv, Typed
<1>4. /\ Sane(s.mem, h, {}) /\ Listed(s.mem, s.list, s.cursor) /\ Owing(s.mem, s.owed, {})
  BY <1>1, <1>2 DEF IInv, TableInv
<1>5. g[e] = h[e] - 1 /\ \A x \in Entries \ {e} : g[x] = h[x]
  BY <1>1, <1>3 DEF Less, Holdings
<1>6. IF s.mem[e].ref - 1 =< 0 /\ ~s.mem[e].rtable THEN g[e] = 0
      ELSE Right([s.mem[e] EXCEPT !.ref = @ - 1], g[e])
  <2>1. PICK c, d : c = s.mem[e] /\ d = [c EXCEPT !.ref = @ - 1]
    OBVIOUS
  <2>2. c \in Cell
    BY <1>2, <2>1 DEF IsState, Memory
  <2>3. d.ref = c.ref - 1 /\ d.rtable = c.rtable /\ d.added = c.added /\ c.ref \in Int
    BY <2>1, <2>2, CellFields DEF Cell
  <2>4. Right(c, h[e])
    BY <1>4, <2>1 DEF Sane, Counted
  <2>5. IF c.ref - 1 =< 0 /\ ~c.rtable THEN g[e] = 0 ELSE Right(d, g[e])
    BY <1>3, <1>5, <2>3, <2>4 DEF Right
  <2> QED
    BY <2>1, <2>5
<1>7. /\ IsState(r) /\ Only(r, s, {"mem"})
      /\ Sane(r.mem, g, {}) /\ Listed(r.mem, r.list, r.cursor)
      /\ Leave(s.mem, r.mem, {})
  <2>1. s.mem[e].live /\ {} \subseteq {e}
    BY <1>2, <1>3
  <2> QED
    BY <1>1, <1>2, <1>4, <1>5, <1>6, <2>1, GiveBack
<1>8. r.list = s.list /\ r.cursor = s.cursor /\ r.owed = s.owed
  BY <1>2, <1>7 DEF Only, IsState
<1>9. /\ mem' = r.mem /\ list' = r.list /\ cursor' = r.cursor /\ owed' = r.owed
  BY <1>1 DEF Becomes
<1>10. Owing(r.mem, s.owed, {})
  BY <1>4, <1>7, LeaveOwing
<1> QED
  BY <1>1, <1>2, <1>7, <1>8, <1>9, <1>10 DEF IsState

\* It is deleted.
LEMMA Deleted ==
    ASSUME IInv, fci.cmd # "register", NEW e \in Entries, e \in {fci.entry, fci.rep},
           Becomes(Del(Table, e))
    PROVE  /\ mem' \in Memory /\ list' \in Lists /\ cursor' \in Cursors
           /\ owed' \in SUBSET Tuples
           /\ Sane(mem', Held(fci), {}) /\ Listed(mem', list', cursor')
           /\ Owing(mem', owed', {}) /\ Leave(mem, mem', {e}) /\ ~mem'[e].rtable
           /\ \A x \in Entries \ {e} : Ahead(list, cursor, x) => Ahead(list', cursor', x)
<1>1. PICK s, r, h : s = Table /\ r = Del(s, e) /\ h = Held(fci)
  OBVIOUS
<1>2. /\ IsState(s) /\ s.mem = mem /\ s.list = list /\ s.cursor = cursor /\ s.owed = owed
  BY <1>1, TableState DEF IInv, Typed
<1>3. /\ h \in Holdings /\ h[e] # 0
  BY <1>1, HeldLives, Worker DEF IInv, Typed
<1>4. /\ Sane(s.mem, h, {}) /\ Listed(s.mem, s.list, s.cursor) /\ Owing(s.mem, s.owed, {})
  BY <1>1, <1>2 DEF IInv, TableInv
<1>5. /\ IsState(r)
      /\ Listed(r.mem, r.list, r.cursor)
      /\ ~r.mem[e].rtable
      /\ Leave(s.mem, r.mem, {e})
      /\ Owing(r.mem, r.owed, {})
      /\ \A x \in Entries \ {e} :
            Ahead(s.list, s.cursor, x) => Ahead(r.list, r.cursor, x)
  BY <1>1, <1>2, <1>3, <1>4, DelAll
<1>6. Sane(r.mem, h, {})
  BY <1>1, <1>2, <1>3, <1>4, DelHeld
<1>7. /\ mem' = r.mem /\ list' = r.list /\ cursor' = r.cursor /\ owed' = r.owed
  BY <1>1 DEF Becomes
<1> QED
  BY <1>1, <1>2, <1>5, <1>6, <1>7 DEF IsState

LEMMA ChildTaken ==
    ASSUME IInv, GetChild
    PROVE  IInv'
<1>0. PICK c : c = mem[fci.entry].child
  OBVIOUS
<1>1. /\ pc = "child" /\ ~leaked
      /\ mem' = IF c = None THEN mem ELSE [mem EXCEPT ![c].ref = @ + 1]
      /\ fci' = [fci EXCEPT !.rep = c]
      /\ pc' = IF fci.cmd = "query" THEN "free" ELSE "del"
      /\ UNCHANGED <<list, cursor, owed, listing, leaked, routes, default, beat>>
  BY <1>0 DEF GetChild, At, Quiet
<1>2. /\ fci.cmd \in {"deregister", "query"} /\ fci.entry # None /\ fci.rep = None
      /\ fci \in Workers
  BY <1>1 DEF IInv, Stages, Pointers, Typed
<1>3. fci.entry \in Entries /\ mem \in Memory /\ Held(fci) \in Holdings
  BY <1>2, Worker DEF IInv, Typed, TableTyped
<1>4. c \in Entries \cup {None} /\ (c # None => mem[c].live)
  BY <1>0, <1>3, CellFields DEF Memory, IInv, TableInv, Sane, Paired
<1>5. /\ fci' \in Workers /\ fci'.cmd = fci.cmd /\ fci'.entry = fci.entry /\ fci'.rep = c
      /\ fci'.crit = fci.crit
  BY <1>1, <1>2, <1>4 DEF Workers
<1>6. Sane(mem, Held(fci), {}) /\ Listed(mem, list, cursor) /\ Owing(mem, owed, {})
  BY DEF IInv, TableInv
<1>7. /\ mem' \in Memory /\ Sane(mem', Held(fci'), {})
      /\ \A x \in Entries : mem'[x].rtable = mem[x].rtable /\ Who(mem'[x], mem[x])
  <2>1. CASE c = None
    <3>1. Held(fci') = Held(fci)
      BY <1>2, <1>5, <2>1 DEF Held
    <3> QED
      BY <1>1, <1>3, <1>6, <2>1, <3>1 DEF Who
  <2>2. CASE c # None
    <3>1. c \in Entries /\ fci.cmd # "register"
      BY <1>2, <1>4, <2>2
    <3>2. Held(fci') = More(Held(fci), c)
      BY <1>2, <1>5, <3>1, HeldMore
    <3>3. mem' = [mem EXCEPT ![c].ref = @ + 1]
      BY <1>1, <2>2
    <3>4. /\ mem' \in Memory /\ Sane(mem', More(Held(fci), c), {})
          /\ \A x \in Entries : mem'[x].rtable = mem[x].rtable /\ Who(mem'[x], mem[x])
      BY <1>3, <1>4, <1>6, <2>2, <3>1, <3>3, TakeSane
    <3> QED
      BY <3>2, <3>4
  <2> QED
    BY <2>1, <2>2
<1>8. Listed(mem', list', cursor')
  <2>1. cursor \in Cursors
    BY DEF IInv, Typed, TableTyped
  <2> QED
    BY <1>1, <1>6, <1>7, <2>1, ListedKept
<1>9. Leave(mem, mem', {})
  BY <1>7 DEF Leave
<1>10. TableInv'
  <2>1. Owing(mem', owed, {})
    BY <1>6, <1>9, LeaveOwing
  <2> QED
    BY <1>1, <1>7, <1>8, <2>1 DEF TableInv
<1>11. Typed'
  BY <1>1, <1>5, <1>7 DEF IInv, Typed, TableTyped, Pcs
<1>12. Stages' /\ Pointers'
  BY <1>1, <1>2, <1>5 DEF Stages, Pointers
<1>13. Locks' /\ Registering'
  BY <1>1 DEF Locks, Registering, Overtaken
<1>14. Dropping'
  BY <1>2, <1>5 DEF Dropping
<1>15. Routed'
  BY <1>1, <1>9, RoutedKept
<1> QED
  BY <1>10, <1>11, <1>12, <1>13, <1>14, <1>15 DEF IInv

LEMMA EntryDeleted ==
    ASSUME IInv, DelEntry
    PROVE  IInv'
<1>0. PICK e : e = fci.entry
  OBVIOUS
<1>1. /\ pc = "del" /\ ~leaked /\ Becomes(Del(Table, e)) /\ pc' = "free" /\ fci' = fci
      /\ UNCHANGED <<listing, leaked, routes, default, beat>>
  BY <1>0 DEF DelEntry, At, Quiet, Goto
<1>2. /\ fci.cmd \in {"deregister", "drop"} /\ fci.cmd # "register" /\ e # None
      /\ fci.cmd = "drop" => fci.rep = None
      /\ fci \in Workers
  BY <1>0, <1>1 DEF IInv, Stages, Pointers, Typed
<1>3. e \in Entries
  BY <1>0, <1>2, Worker
<1>4. /\ mem' \in Memory /\ list' \in Lists /\ cursor' \in Cursors
      /\ owed' \in SUBSET Tuples
      /\ Sane(mem', Held(fci), {}) /\ Listed(mem', list', cursor')
      /\ Owing(mem', owed', {}) /\ Leave(mem, mem', {e}) /\ ~mem'[e].rtable
      /\ \A x \in Entries \ {e} : Ahead(list, cursor, x) => Ahead(list', cursor', x)
  BY <1>0, <1>1, <1>2, <1>3, Deleted
<1>5. Typed'
  BY <1>1, <1>4 DEF IInv, Typed, TableTyped, Pcs
<1>6. TableInv'
  BY <1>1, <1>4 DEF TableInv
<1>7. Stages' /\ Pointers' /\ Locks' /\ Registering'
  BY <1>0, <1>1, <1>2 DEF Stages, Pointers, Locks, Registering, Overtaken
<1>8. Dropping'
  <2>1. SUFFICES ASSUME fci.cmd = "drop"
                 PROVE  /\ \A t \in Tuples : t \in fci.crit.tuples
                        /\ \A x \in Entries : mem'[x].rtable /\ mem'[x].route \in fci.crit.routes =>
                              Ahead(list', cursor', x)
    BY <1>1 DEF Dropping
  <2>2. \A x \in Entries : mem'[x].rtable => x # e /\ mem[x].rtable /\ mem[x].route = mem'[x].route
    BY <1>4 DEF Leave, Who
  <2>3. /\ \A t \in Tuples : t \in fci.crit.tuples
        /\ \A x \in Entries : mem[x].rtable /\ mem[x].route \in fci.crit.routes =>
              x = e \/ Ahead(list, cursor, x)
    BY <1>0, <2>1 DEF IInv, Dropping
  <2> QED
    BY <1>4, <2>2, <2>3
<1>9. Routed'
  BY <1>1, <1>4, RoutedKept
<1> QED
  BY <1>5, <1>6, <1>7, <1>8, <1>9 DEF IInv

LEMMA EntryFreed ==
    ASSUME IInv, FreeEntry
    PROVE  IInv'
<1>0. PICK e : e = fci.entry
  OBVIOUS
<1>1. /\ pc = "free" /\ ~leaked /\ Becomes(Free(Table, e))
      /\ IF fci.cmd \in {"timeout", "drop"}
         THEN pc' = "next" /\ fci' = [fci EXCEPT !.entry = None]
         ELSE IF fci.rep = None THEN pc' = "idle" /\ fci' = Idle
         ELSE /\ pc' = IF fci.cmd = "query" THEN "free_rep" ELSE "del_rep"
              /\ fci' = [fci EXCEPT !.entry = None]
      /\ UNCHANGED <<listing, leaked, routes, default, beat>>
  BY <1>0 DEF FreeEntry, At, Quiet, Done
<1>2. /\ fci.cmd \in {"deregister", "update", "query", "timeout", "drop"}
      /\ fci.cmd # "register" /\ e # None
      /\ fci.cmd \in {"update", "timeout", "drop"} => fci.rep = None
      /\ fci \in Workers
  BY <1>0, <1>1 DEF IInv, Stages, Pointers, Typed
<1>3. e \in Entries /\ fci.rep \in Entries \cup {None}
  BY <1>0, <1>2, Worker
<1>4. /\ mem' \in Memory /\ list' = list /\ cursor' = cursor /\ owed' = owed
      /\ Sane(mem', Less(Held(fci), e), {}) /\ Listed(mem', list', cursor')
      /\ Owing(mem', owed', {}) /\ Leave(mem, mem', {})
  BY <1>0, <1>1, <1>2, <1>3, Given
<1>5. PICK g : g = [fci EXCEPT !.entry = None]
  OBVIOUS
<1>6. /\ g \in Workers /\ g.cmd = fci.cmd /\ g.entry = None /\ g.rep = fci.rep
      /\ g.crit = fci.crit
  BY <1>2, <1>5 DEF Workers
<1>7. Held(g) = Less(Held(fci), e)
  BY <1>0, <1>2, <1>3, <1>6, HeldLess
<1>8. Routed'
  BY <1>1, <1>4, RoutedKept
<1>9. Typed'
  BY <1>1, <1>4, <1>5, <1>6, IdleWorks DEF IInv, Typed, TableTyped, Pcs
<1>10. CASE fci.cmd \notin {"timeout", "drop"} /\ fci.rep = None
  <2>1. Less(Held(fci), e) = Nothing
    BY <1>6, <1>7, <1>10, HeldNothing
  <2> QED
    BY <1>1, <1>4, <1>8, <1>9, <1>10, <2>1, Finish
<1>11. CASE ~(fci.cmd \notin {"timeout", "drop"} /\ fci.rep = None)
  <2>1. /\ fci' = g
        /\ fci.cmd \in {"timeout", "drop"} => pc' = "next"
        /\ fci.cmd \notin {"timeout", "drop"} =>
              fci.rep # None /\ pc' = IF fci.cmd = "query" THEN "free_rep" ELSE "del_rep"
    BY <1>1, <1>5, <1>11
  <2>2. TableInv'
    BY <1>4, <1>7, <2>1 DEF TableInv
  <2>3. Stages' /\ Pointers'
    BY <1>2, <1>6, <2>1 DEF Stages, Pointers
  <2>4. Locks' /\ Registering'
    BY <1>1, <2>1 DEF Locks, Registering, Overtaken
  <2>5. Dropping'
    <3>1. SUFFICES ASSUME fci.cmd = "drop"
                   PROVE  /\ \A t \in Tuples : t \in fci.crit.tuples
                          /\ \A x \in Entries : mem'[x].rtable /\ mem'[x].route \in fci.crit.routes =>
                                Ahead(list, cursor, x)
      BY <1>4, <1>6, <2>1 DEF Dropping
    <3>2. \A x \in Entries : mem'[x].rtable => mem[x].rtable /\ mem[x].route = mem'[x].route
      BY <1>4 DEF Leave, Who
    <3> QED
      BY <1>1, <3>1, <3>2 DEF IInv, Dropping
  <2> QED
    BY <1>8, <1>9, <2>2, <2>3, <2>4, <2>5 DEF IInv
<1> QED
  BY <1>10, <1>11

LEMMA RepDeleted ==
    ASSUME IInv, DelRep
    PROVE  IInv'
<1>0. PICK e : e = fci.rep
  OBVIOUS
<1>1. /\ pc = "del_rep" /\ ~leaked /\ Becomes(Del(Table, e)) /\ pc' = "free_rep" /\ fci' = fci
      /\ UNCHANGED <<listing, leaked, routes, default, beat>>
  BY <1>0 DEF DelRep, At, Quiet, Goto
<1>2. /\ fci.cmd = "deregister" /\ fci.cmd # "register" /\ e # None /\ fci.entry = None
      /\ fci \in Workers
  BY <1>0, <1>1 DEF IInv, Stages, Pointers, Typed
<1>3. e \in Entries
  BY <1>0, <1>2, Worker
<1>4. /\ mem' \in Memory /\ list' \in Lists /\ cursor' \in Cursors
      /\ owed' \in SUBSET Tuples
      /\ Sane(mem', Held(fci), {}) /\ Listed(mem', list', cursor')
      /\ Owing(mem', owed', {}) /\ Leave(mem, mem', {e})
  BY <1>0, <1>1, <1>2, <1>3, Deleted
<1>5. Typed'
  BY <1>1, <1>4 DEF IInv, Typed, TableTyped, Pcs
<1>6. TableInv'
  BY <1>1, <1>4 DEF TableInv
<1>7. Stages' /\ Pointers' /\ Locks' /\ Registering' /\ Dropping'
  BY <1>0, <1>1, <1>2 DEF Stages, Pointers, Locks, Registering, Overtaken, Dropping
<1>8. Routed'
  BY <1>1, <1>4, RoutedKept
<1> QED
  BY <1>5, <1>6, <1>7, <1>8 DEF IInv

LEMMA RepFreed ==
    ASSUME IInv, FreeRep
    PROVE  IInv'
<1>0. PICK e, g : e = fci.rep /\ g = [fci EXCEPT !.rep = None]
  OBVIOUS
<1>1. /\ pc = "free_rep" /\ ~leaked /\ Becomes(Free(Table, e)) /\ pc' = "idle" /\ fci' = Idle
      /\ UNCHANGED <<listing, leaked, routes, default, beat>>
  BY <1>0 DEF FreeRep, At, Quiet, Done
<1>2. /\ fci.cmd \in {"deregister", "query"} /\ fci.cmd # "register" /\ e # None
      /\ fci.entry = None /\ fci \in Workers
  BY <1>0, <1>1 DEF IInv, Stages, Pointers, Typed
<1>3. e \in Entries
  BY <1>0, <1>2, Worker
<1>4. /\ mem' \in Memory /\ list' = list /\ cursor' = cursor /\ owed' = owed
      /\ Sane(mem', Less(Held(fci), e), {}) /\ Listed(mem', list', cursor')
      /\ Owing(mem', owed', {}) /\ Leave(mem, mem', {})
  BY <1>0, <1>1, <1>2, <1>3, Given
<1>5. g.cmd = fci.cmd /\ g.entry = None /\ g.rep = None
  BY <1>0, <1>2 DEF Workers
<1>6. Held(g) = Less(Held(fci), e)
  BY <1>0, <1>2, <1>3, <1>5, HeldLess
<1>7. Less(Held(fci), e) = Nothing
  BY <1>5, <1>6, HeldNothing
<1>8. Typed'
  BY <1>1, <1>4, IdleWorks DEF IInv, Typed, TableTyped, Pcs
<1>9. Routed'
  BY <1>1, <1>4, RoutedKept
<1> QED
  BY <1>1, <1>4, <1>7, <1>8, <1>9, Finish

\* What has elapsed fits into the new time-out.
LEMMA NewTimes ==
    ASSUME NEW c \in Cell, InTime(c), NEW t \in 0 .. Inf, NEW k,
           k = IF c.timeout = Inf THEN t
               ELSE IF c.timeout - c.curr >= t THEN 0 ELSE t - (c.timeout - c.curr)
    PROVE  k \in Ticks /\ t \in Ticks /\ k =< t
<1>1. c.timeout \in 0 .. Inf /\ c.curr \in 0 .. Inf
  BY CellFields
<1>2. PICK n : n = Inf
  OBVIOUS
<1>3. PICK a, b : a = c.timeout /\ b = c.curr
  OBVIOUS
<1>4. /\ n \in Nat /\ a \in 0 .. n /\ b \in 0 .. n /\ t \in 0 .. n
      /\ a # n => b =< a
      /\ k = IF a = n THEN t ELSE IF a - b >= t THEN 0 ELSE t - (a - b)
  BY <1>1, <1>2, <1>3, Forever DEF InTime
<1>5. k \in 0 .. n /\ t \in 0 .. n /\ k =< t
  BY <1>4
<1> QED
  BY <1>2, <1>5 DEF Ticks

LEMMA TimeoutSet ==
    ASSUME IInv, NEW e \in Entries, mem' = NewTimeout(e, default)
    PROVE  /\ mem' \in Memory /\ Sane(mem', Held(fci), {}) /\ Leave(mem, mem', {})
           /\ \A x \in Entries : mem'[x].rtable <=> mem[x].rtable
<1>1. PICK c, t, k, d :
         /\ c = mem[e] /\ t = default /\ d = Delayed(c, t, k)
         /\ k = IF c.timeout = Inf THEN t
                ELSE IF c.timeout - c.curr >= t THEN 0 ELSE t - (c.timeout - c.curr)
  OBVIOUS
<1>2. mem \in Memory /\ c \in Cell /\ t \in 0 .. Inf /\ Sane(mem, Held(fci), {})
  BY <1>1 DEF IInv, Typed, TableTyped, TableInv, Memory
<1>3. InTime(c)
  BY <1>1, <1>2 DEF InTime, Sane, Sound
<1>4. k \in Ticks /\ t \in Ticks /\ k =< t
  BY <1>1, <1>2, <1>3, NewTimes
<1>5. d \in Cell /\ Kind(d, c) /\ d.timeout = t /\ d.curr = k
  BY <1>1, <1>2, <1>4, DelayedCell
<1>6. Fits(d, mem[e])
  BY <1>1, <1>4, <1>5 DEF Fits, InTime
<1>7. mem' = Written(mem, e, d)
  BY <1>1, <1>2 DEF NewTimeout, Written, Delayed, Memory
<1> QED
  BY <1>2, <1>6, <1>7, Retimed

\* A step of FPP_CMD_IPV4_SET_TIMEOUT at an entry
LEMMA TimeoutStep ==
    ASSUME IInv, fci.cmd = "timeout", fci.entry # None, pc' \in {"set", "free"}, fci' = fci,
           mem' \in Memory, Sane(mem', Held(fci), {}), Leave(mem, mem', {}),
           \A x \in Entries : mem'[x].rtable <=> mem[x].rtable,
           UNCHANGED <<list, cursor, owed, listing, routes, default, beat>>,
           leaked' \in BOOLEAN, leaked' => fci.late,
           pc' = "set" => mem'[fci.entry].rtable
    PROVE  IInv'
<1>1. Typed'
  BY DEF IInv, Typed, TableTyped, Pcs
<1>2. TableInv'
  <2>1. cursor \in Cursors /\ Listed(mem, list, cursor) /\ Owing(mem, owed, {})
    BY DEF IInv, Typed, TableTyped, TableInv
  <2>2. Listed(mem', list, cursor)
    BY <2>1, ListedKept
  <2>3. Owing(mem', owed, {})
    BY <2>1, LeaveOwing
  <2> QED
    BY <2>2, <2>3 DEF TableInv
<1>3. fci.rep = None
  BY DEF IInv, Pointers
<1>4. Stages' /\ Pointers' /\ Locks' /\ Registering' /\ Dropping'
  BY <1>3 DEF Stages, Pointers, Locks, Registering, Overtaken, Dropping
<1>5. Routed'
  BY RoutedKept
<1> QED
  BY <1>1, <1>2, <1>4, <1>5 DEF IInv

LEMMA TableChecked ==
    ASSUME IInv, CheckTable
    PROVE  IInv'
<1>0. PICK e : e = fci.entry
  OBVIOUS
<1>1. /\ pc = "check" /\ ~leaked /\ leaked' = leaked /\ fci' = fci
      /\ UNCHANGED <<list, cursor, owed, listing, routes, default, beat>>
      /\ IF mem[e].rtable THEN pc' = "set" /\ mem' = mem
         ELSE pc' = "free" /\ mem' = NewTimeout(e, default)
  BY <1>0 DEF CheckTable, At, Quiet, Goto
<1>2. fci.cmd = "timeout" /\ e # None /\ fci \in Workers
  BY <1>0, <1>1 DEF IInv, Stages, Pointers, Typed
<1>3. e \in Entries
  BY <1>0, <1>2, Worker
<1>4. leaked' \in BOOLEAN /\ ~leaked'
  BY <1>1 DEF IInv, Typed
<1>5. CASE mem[e].rtable
  <2>1. /\ mem' \in Memory /\ Sane(mem', Held(fci), {}) /\ Leave(mem, mem', {})
        /\ \A x \in Entries : mem'[x].rtable <=> mem[x].rtable
    BY <1>1, <1>5 DEF IInv, Typed, TableTyped, TableInv, Leave, Who
  <2> QED
    BY <1>0, <1>1, <1>2, <1>5, <1>4, <2>1, TimeoutStep
<1>6. CASE ~mem[e].rtable
  <2>1. /\ mem' \in Memory /\ Sane(mem', Held(fci), {}) /\ Leave(mem, mem', {})
        /\ \A x \in Entries : mem'[x].rtable <=> mem[x].rtable
    BY <1>1, <1>3, <1>6, TimeoutSet
  <2> QED
    BY <1>0, <1>1, <1>2, <1>6, <1>4, <2>1, TimeoutStep
<1> QED
  BY <1>5, <1>6

LEMMA TimeoutWritten ==
    ASSUME IInv, SetTimeout
    PROVE  IInv'
<1>0. PICK e : e = fci.entry
  OBVIOUS
<1>1. /\ pc = "set" /\ ~leaked /\ leaked' = ~mem[e].rtable /\ fci' = fci
      /\ pc' = "free" /\ mem' = NewTimeout(e, default)
      /\ UNCHANGED <<list, cursor, owed, listing, routes, default, beat>>
  BY <1>0 DEF SetTimeout, At, Goto
<1>2. fci.cmd = "timeout" /\ e # None /\ fci \in Workers
  BY <1>0, <1>1 DEF IInv, Stages, Pointers, Typed
<1>3. e \in Entries
  BY <1>0, <1>2, Worker
<1>4. leaked' \in BOOLEAN /\ (leaked' => fci.late)
  BY <1>0, <1>1 DEF IInv, Locks
<1>5. /\ mem' \in Memory /\ Sane(mem', Held(fci), {}) /\ Leave(mem, mem', {})
      /\ \A x \in Entries : mem'[x].rtable <=> mem[x].rtable
  BY <1>1, <1>3, TimeoutSet
<1> QED
  BY <1>0, <1>1, <1>2, <1>4, <1>5, TimeoutStep

-----------------------------------------------------------------------------
(* The invariant holds *)

LEMMA AtFirst ==
    ASSUME Init
    PROVE  IInv
<1>1. /\ mem = [e \in Entries |-> Blank] /\ list = <<>> /\ cursor = None
      /\ listing = FALSE /\ leaked = FALSE /\ routes = {} /\ default = Default
      /\ pc = "idle" /\ fci = Idle /\ beat = FALSE /\ owed = {}
  BY DEF Init
<1>2. fci.cmd = None /\ fci.entry = None /\ fci.rep = None
  BY <1>1, IdleFields
<1>3. Held(fci) = Nothing
  BY <1>2, HeldNothing
<1>4. /\ mem \in Memory /\ list \in Lists /\ Len(list) = 0
      /\ \A e \in Entries : mem[e] = Blank
  BY <1>1, BlankFields DEF Memory, Lists
<1>5. Typed
  BY <1>1, <1>4, IdleWorks, ConntrackAssumption DEF Typed, TableTyped, Cursors, Pcs
<1>6. Sane(mem, Nothing, {})
  <2>1. Sound(mem) /\ Paired(mem) /\ Unique(mem)
    BY <1>4, BlankFields DEF Sound, Paired, Unique
  <2>2. Counted(mem, Nothing, {})
    BY <1>4, BlankFields DEF Counted, Right, Nothing
  <2> QED
    BY <2>1, <2>2 DEF Sane
<1>7. Listed(mem, list, cursor)
  BY <1>1, <1>4, BlankFields DEF Listed, Distinct
<1>8. Owing(mem, owed, {})
  BY <1>1 DEF Owing
<1>9. Routed
  BY <1>4, BlankFields DEF Routed
<1>10. Stages /\ Pointers /\ Locks /\ Registering /\ Dropping
  BY <1>1, <1>2, Named DEF Stages, Pointers, Locks, Registering, Overtaken, Dropping
<1> QED
  BY <1>3, <1>5, <1>6, <1>7, <1>8, <1>9, <1>10 DEF IInv, TableInv

LEMMA StepKeeps ==
    ASSUME IInv, [Next]_vars
    PROVE  IInv'
<1>1. CASE DoTimeouts
  BY <1>1, Tick
<1>2. CASE FciStep
  BY <1>2, EntryAdded, ReplyAdded, ChildTaken, EntryDeleted, EntryFreed, RepDeleted,
     RepFreed, NextDone, TimeoutsEnd, TableChecked, TimeoutWritten, RouteRemoved
     DEF FciStep
<1>3. CASE Command
  <2>1. CASE \E r \in Routes : AddRoute(r) \/ DropRoute(r)
    BY <2>1, RouteAdded, DropRouteDone
  <2>2. CASE \E p \in Pairs, r, rr \in Routes, l \in BOOLEAN : RegisterPair(p, r, rr, l)
    BY <2>2, PairRegistered
  <2>3. CASE \E t \in Singles, r \in Routes, x, l \in BOOLEAN : RegisterOne(t, r, x, l)
    <3>1. PICK t \in Singles, r \in Routes, x \in BOOLEAN, l \in BOOLEAN : RegisterOne(t, r, x, l)
      BY <2>3
    <3>2. t \in Tuples
      BY ConntrackAssumption
    <3> QED
      BY <3>1, <3>2, OneRegistered
  <2>4. CASE \E t \in Tuples, c \in {"deregister", "update"} : ByTuple(c, t)
    BY <2>4, ByTupleDone
  <2>5. CASE Query \/ QueryCont
    BY <2>5, QueryDone, QueryContDone
  <2>6. CASE \E t \in Timeouts : SetTimeouts(t)
    BY <2>6, SetTimeoutsDone
  <2> QED
    BY <1>3, <2>1, <2>2, <2>3, <2>4, <2>5, <2>6 DEF Command
<1>4. CASE \E e \in Entries : Traffic(e)
  BY <1>4, Packet
<1>5. CASE UNCHANGED vars
  <2>1. UNCHANGED <<mem, list, cursor, owed, listing, leaked, routes, default, pc, fci, beat>>
    BY <1>5 DEF vars, tableVars, fciVars
  <2>2. Typed' /\ TableInv' /\ Stages' /\ Pointers'
    BY <2>1 DEF IInv, Typed, TableTyped, TableInv, Stages, Pointers
  <2>3. Locks' /\ Registering' /\ Dropping' /\ Routed'
    BY <2>1 DEF IInv, Locks, Registering, Overtaken, Dropping, Routed, New, Young
  <2> QED
    BY <2>2, <2>3 DEF IInv
<1> QED
  BY <1>1, <1>2, <1>3, <1>4, <1>5 DEF Next

\* The inductive invariant holds in every state: the counters, the list and the
\* pairing of the entries of pfe_rtable.c, with what the FCI worker knows at each
\* step of a command (fci_connections.c, fci_routes.c).
THEOREM TableInvariant == Spec => []IInv
<1>1. Init => IInv
  BY AtFirst
<1>2. IInv /\ [Next]_vars => IInv'
  BY StepKeeps
<1> QED
  BY <1>1, <1>2, PTL DEF Spec

\* The types of pfe_rtable_entry_t and of the commands, no pointer to memory that
\* pfe_rtable_entry_free_nolock has given back, and no entry that is left
\* between the table and its end (pfe_rtable.c:690-760).
THEOREM MemoryIsSafe == Spec => []MemoryInv
<1>1. IInv => MemoryInv
  <2> SUFFICES ASSUME IInv PROVE MemoryInv
    OBVIOUS
  <2>1. /\ TableTyped /\ Typed
        /\ Sane(mem, Held(fci), {}) /\ Listed(mem, list, cursor)
    BY DEF IInv, Typed, TableInv
  <2>2. /\ fci \in Workers /\ fci.entry \in Entries \cup {None} /\ fci.rep \in Entries \cup {None}
    BY <2>1, Worker DEF Typed
  <2>3. TypeOK
    <3>1. mem \in [Entries ->
            [live : BOOLEAN, tuple : Tuples \cup {None}, route : Routes \cup {None},
             rtable : BOOLEAN, ref : Int, child : Entries \cup {None},
             timeout : 0 .. Inf, curr : 0 .. Inf, active : BOOLEAN,
             callback : BOOLEAN, added : BOOLEAN]]
      BY <2>1 DEF TableTyped, Memory, Cell
    <3>2. fci \in [cmd : Cmds, entry : Entries \cup {None},
                   rep : Entries \cup {None}, late : BOOLEAN,
                   crit : [tuples : SUBSET Tuples, routes : SUBSET Routes]]
      BY <2>1 DEF Typed, Workers, Criteria
    <3>3. default \in 0 .. Inf
      BY <2>1, Forever DEF Typed
    <3>4. list \in Seq(Entries) /\ cursor \in Entries \cup {None, End} /\ owed \subseteq Tuples
      BY <2>1 DEF TableTyped, Lists, Cursors
    <3>5. /\ listing \in BOOLEAN /\ leaked \in BOOLEAN /\ routes \subseteq Routes
          /\ pc \in Pcs /\ beat \in BOOLEAN
      BY <2>1 DEF Typed
    <3> QED
      BY <3>1, <3>2, <3>3, <3>4, <3>5 DEF TypeOK
  <2>4. Range(list) = InTable
    <3>1. Range(list) = {list[i] : i \in DOMAIN list}
      BY DEF Range
    <3>2. DOMAIN list = 1 .. Len(list) /\ \A i \in 1 .. Len(list) : list[i] \in Entries
      BY <2>1 DEF TableTyped, Lists
    <3>3. \A x \in Entries : mem[x].rtable <=> \E i \in 1 .. Len(list) : list[i] = x
      BY <2>1 DEF Listed
    <3> QED
      BY <3>1, <3>2, <3>3 DEF InTable
  <2>5. cursor \in {None, End} \cup InTable
    BY <2>1 DEF Listed, TableTyped, Cursors, InTable
  <2>6. \A e \in Entries : mem[e].live =>
           /\ mem[e].child \in {None, End} \/ mem[mem[e].child].live
           /\ mem[e].child # None => mem[mem[e].child].child = e
    BY <2>1 DEF Sane, Paired
  <2>7. ASSUME pc # "undefined", ~Overtaken, NEW e \in {fci.entry, fci.rep}
        PROVE  e \in {None, End} \/ mem[e].live
    <3>1. CASE fci.cmd # "register"
      <4>1. e \in Entries \cup {None}
        BY <2>2, <2>7
      <4> QED
        BY <2>7, <3>1, <4>1, HeldLives
    <3>2. CASE fci.cmd = "register"
      <4>1. pc \in {"add", "add_rep"}
        BY <2>1, <2>7, <3>2, IdleFields, Named DEF IInv, Stages, Typed, Pcs
      <4>2. \A x \in Entries : mem[x].child # None => mem[mem[x].child].live
        BY <2>1 DEF Sane, Paired
      <4> QED
        BY <2>2, <2>7, <4>1, <4>2 DEF IInv, Registering, New, TableInv, Sane, Sound
    <3> QED
      BY <3>1, <3>2
  <2>8. NoDangling
    BY <2>4, <2>5, <2>6, <2>7 DEF NoDangling
  <2>9. RemovedIsFreed
    <3> SUFFICES ASSUME pc = "idle", NEW e \in Entries, mem[e].added
                 PROVE  mem[e].rtable
      BY DEF RemovedIsFreed
    <3>1. Right(mem[e], 0)
      BY Between DEF Nothing, Sane, Counted
    <3> QED
      BY <3>1 DEF Right
  <2> QED
    BY <2>3, <2>8, <2>9 DEF MemoryInv
<1> QED
  BY <1>1, TableInvariant, PTL

\* The worker can stop at freed memory only in the registration of both
\* directions (fci_connections_ipv4_cmd), and with the mutex of the table locked
\* only when a tick removed the entry that pfe_rtable_entry_set_timeout was
\* waiting to change.
THEOREM StopsAreKnown == Spec => []StuckNeedsABadMoment
<1>1. IInv => StuckNeedsABadMoment
  BY DEF IInv, Stages, Locks, StuckNeedsABadMoment
<1> QED
  BY <1>1, TableInvariant, PTL

\* A client that listens is told of the end of each connection: pfe_rtable_del_entry
\* and pfe_rtable_do_timeouts call the callback before the entry goes.
THEOREM RemovalsAreTold == Spec => []NoSilentRemoval
<1>1. IInv => NoSilentRemoval
  BY DEF IInv, TableInv, Owing, NoSilentRemoval, InTable
<1> QED
  BY <1>1, TableInvariant, PTL

\* fci_routes_drop_one removes all the connections of the route, whatever the
\* ageing does to the cursor meanwhile.
THEOREM RoutesOutlive == Spec => []EntriesHaveRoutes
<1>1. IInv => EntriesHaveRoutes
  BY DEF IInv, Routed, EntriesHaveRoutes, InTable
<1> QED
  BY <1>1, TableInvariant, PTL
=============================================================================
