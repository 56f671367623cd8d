----------------------------- MODULE IfDbProof -----------------------------
(***************************************************************************)
(* Who has the lock of the interface database has the database to itself,  *)
(* what was looked up stays registered while it is worked with, and a      *)
(* listing returns every interface once, for any number of driver threads, *)
(* clients, slaves and interfaces and every width of the session           *)
(* identifiers.                                                            *)
(***************************************************************************)
EXTENDS IfDb, SequenceTheorems, NaturalsInduction, WellFoundedInduction, TLAPS

\* What is recorded of the lock is the lock.
HolderLocked ==
    /\ locked => holder # None
    /\ holder # None => locked
    /\ holder \in Hosts => session = host[holder].session
    /\ holder = Fci => session = fciSession
    /\ holder \in Slaves => session = holder
    /\ holder \in Hosts \cup Slaves \cup {Fci, None}

\* The states of the driver threads are records with these fields.
Shaped ==
    /\ DOMAIN host = Hosts
    /\ \A h \in Hosts : DOMAIN host[h] = {"pc", "session", "entry"}

\* No identifier that a driver thread or the FCI worker has is a slave's.
NotNamed ==
    /\ seed \in Int
    /\ fciSession \in Int \ (1 .. 15)
    /\ \A h \in Hosts : host[h].session \in Int \ (1 .. 15)

\* Until an identifier is reused, one that is not 0 belongs to the holder, and
\* that of the holder to nobody else.
Apart ==
    /\ \A h \in Hosts : host[h].session # 0 => holder = h
    /\ locked => session # 0
    /\ holder \in Hosts => session # fciSession

IInv == Shaped /\ NotNamed /\ HolderLocked /\ (~reused => Apart)

-----------------------------------------------------------------------------
(* The invariant                                                           *)

LEMMA NamesApart ==
    /\ None \notin Hosts /\ None \notin Slaves /\ Fci \notin Hosts /\ Fci \notin Slaves
    /\ None # Fci /\ Hosts \cap Slaves = {} /\ Slaves \subseteq 1 .. 15
  BY IfDbAssumption

LEMMA SeedIsInt == seed \in Int => NewSeed \in Int /\ NewSession \in Int \ (1 .. 15)
  <1> SUFFICES ASSUME seed \in Int PROVE NewSeed \in Int /\ NewSession \in Int \ (1 .. 15)
    OBVIOUS
  <1>1. U32 \div 16 \in Nat \ {0}
    BY IfDbAssumption
  <1>2. NewSeed \in Int
    BY <1>1 DEF NewSeed
  <1> QED BY <1>2 DEF NewSession

LEMMA Initially == Init => IInv
  <1> SUFFICES ASSUME Init PROVE IInv
    OBVIOUS
  <1>1. Shaped
    BY DEF Init, Shaped, IdleHost
  <1>2. NotNamed
    BY IfDbAssumption DEF Init, NotNamed, IdleHost
  <1>3. HolderLocked
    BY NamesApart DEF Init, HolderLocked
  <1>4. Apart
    BY NamesApart DEF Init, Apart, IdleHost
  <1> QED BY <1>1, <1>2, <1>3, <1>4 DEF IInv

\* A step that leaves the lock and the identifiers alone.
Quiet ==
    /\ UNCHANGED <<lockVars, fciSession>>
    /\ Shaped'
    /\ \A h \in Hosts : host'[h].session = host[h].session

LEMMA QuietKeeps == IInv /\ Quiet => IInv'
  BY DEF IInv, Quiet, lockVars, NotNamed, HolderLocked, Apart

LEMMA GoIsQuiet ==
    ASSUME Shaped, UNCHANGED <<lockVars, fciSession>>,
           NEW h \in Hosts, NEW pc, NEW e, Go(h, pc, e)
    PROVE  Quiet
  BY DEF Shaped, Quiet, Go

LEMMA HostIsQuiet ==
    ASSUME IInv, NEW h \in Hosts,
           \/ HostLockFails(h) \/ HostAdd(h) \/ HostFind(h) \/ HostRemove(h)
           \/ HostSweep(h) \/ HostSweepOut(h) \/ HostRead(h)
    PROVE  Quiet
  <1>1. UNCHANGED <<lockVars, fciSession>>
    BY DEF HostLockFails, HostAdd, HostFind, HostRemove, HostSweep, HostSweepOut, HostRead,
      hostFrame
  <1>2. \E pc, e : Go(h, pc, e)
    BY DEF HostLockFails, HostAdd, HostFind, HostRemove, HostSweep, HostSweepOut, HostRead
  <1> QED BY <1>1, <1>2, GoIsQuiet DEF IInv

\* A free lock is nobody's, and nobody has an identifier but the FCI worker.
LEMMA Free ==
    ASSUME IInv, ~locked
    PROVE  holder = None /\ (~reused => \A h \in Hosts : host[h].session = 0)
  BY NamesApart DEF IInv, HolderLocked, Apart

LEMMA HostLockKeeps ==
    ASSUME IInv, NEW h \in Hosts, HostLock(h)
    PROVE  IInv'
  <1> USE DEF HostLock, Lock
  <1>1. /\ seed' \in Int
        /\ session' \in Int \ (1 .. 15)
        /\ fciSession' = fciSession
    BY SeedIsInt DEF IInv, NotNamed, hostFrame
  <1>2. /\ host'[h].session = session'
        /\ \A k \in Hosts \ {h} : host'[k] = host[k]
        /\ Shaped'
    BY DEF IInv, Shaped
  <1>3. NotNamed'
    BY <1>1, <1>2 DEF IInv, NotNamed
  <1>4. HolderLocked'
    BY <1>2, NamesApart DEF HolderLocked
  <1>5. ASSUME ~reused' PROVE Apart'
    <2>1. ~reused /\ NewSession # 0 /\ NewSession # fciSession
      BY <1>5, NamesApart
    <2> QED BY <1>1, <1>2, <2>1, Free DEF Apart
  <1> QED BY <1>2, <1>3, <1>4, <1>5 DEF IInv

LEMMA HostUnlockKeeps ==
    ASSUME IInv, NEW h \in Hosts, HostUnlock(h)
    PROVE  IInv'
  <1>1. /\ host'[h].session = 0
        /\ \A k \in Hosts \ {h} : host'[k] = host[k]
        /\ Shaped'
    BY DEF IInv, Shaped, HostUnlock, IdleHost
  <1>2. seed' = seed /\ fciSession' = fciSession /\ reused' = reused
    BY DEF HostUnlock, Unlock, hostFrame, lockVars
  <1>3. NotNamed'
    BY <1>1, <1>2 DEF IInv, NotNamed
  <1>4. CASE Holds(host[h].session)
    <2>1. ~locked' /\ holder' = None
      BY <1>4 DEF HostUnlock, Unlock
    <2>2. HolderLocked'
      BY <2>1, NamesApart DEF HolderLocked
    <2>3. ASSUME ~reused' PROVE Apart'
      <3>1. holder = h
        BY <1>2, <1>4, <2>3 DEF IInv, Apart, Holds
      <3>2. \A k \in Hosts : host'[k].session = 0
        BY <1>1, <1>2, <2>3, <3>1 DEF IInv, Apart
      <3> QED BY <2>1, <3>2, NamesApart DEF Apart
    <2> QED BY <1>1, <1>3, <2>2, <2>3 DEF IInv
  <1>5. CASE ~Holds(host[h].session)
    <2>1. UNCHANGED lockVars
      BY <1>5 DEF HostUnlock, Unlock
    <2>2. holder # h
      BY <1>5, NamesApart DEF IInv, HolderLocked, Holds
    <2>3. HolderLocked'
      BY <1>1, <1>2, <2>1, <2>2 DEF IInv, HolderLocked, lockVars
    <2>4. ASSUME ~reused' PROVE Apart'
      BY <1>1, <1>2, <2>1, <2>2, <2>4 DEF IInv, Apart, lockVars
    <2> QED BY <1>1, <1>3, <2>3, <2>4 DEF IInv
  <1> QED BY <1>4, <1>5

\* A lock or an unlock under an identifier that is no driver thread's.
LEMMA FciLockKeeps ==
    ASSUME IInv, NEW c \in FciClients, FciLock(c)
    PROVE  IInv'
  <1> USE DEF FciLock, Lock
  <1>1. seed' \in Int /\ session' \in Int \ (1 .. 15) /\ fciSession' = session' /\ host' = host
    BY SeedIsInt DEF IInv, NotNamed, fciFrame
  <1>2. NotNamed' /\ Shaped'
    BY <1>1 DEF IInv, NotNamed, Shaped
  <1>3. HolderLocked'
    BY <1>1, NamesApart DEF HolderLocked
  <1>4. ASSUME ~reused' PROVE Apart'
    <2>1. ~reused /\ NewSession # 0
      BY <1>4
    <2> QED BY <1>1, <2>1, Free, NamesApart DEF Apart
  <1> QED BY <1>2, <1>3, <1>4 DEF IInv

\* Before identifiers are reused, who unlocks with its own has the lock.
LEMMA OnlyTheHolder ==
    ASSUME IInv, ~reused
    PROVE  /\ \A h \in Hosts : Holds(host[h].session) => holder = h
           /\ Holds(fciSession) => holder = Fci
           /\ \A s \in Slaves : Holds(s) => holder = s
  <1>1. \A h \in Hosts : Holds(host[h].session) => holder = h
    BY DEF IInv, Apart, Holds
  <1>2. Holds(fciSession) => holder = Fci
    BY NamesApart DEF IInv, NotNamed, HolderLocked, Apart, Holds
  <1>3. ASSUME NEW s \in Slaves, Holds(s) PROVE holder = s
    BY <1>3, NamesApart DEF IInv, NotNamed, HolderLocked, Holds
  <1> QED BY <1>1, <1>2, <1>3

LEMMA UnlockKeeps ==
    ASSUME IInv, NEW id, Unlock(id), id = fciSession \/ id \in Slaves,
           host' = host, fciSession' = fciSession
    PROVE  IInv'
  <1>1. seed' = seed /\ reused' = reused
    BY DEF Unlock, lockVars
  <1>2. NotNamed' /\ Shaped'
    BY <1>1 DEF IInv, NotNamed, Shaped
  <1>3. CASE Holds(id)
    <2>1. ~locked' /\ holder' = None
      BY <1>3 DEF Unlock
    <2>2. HolderLocked'
      BY <2>1, NamesApart DEF HolderLocked
    <2>3. ASSUME ~reused' PROVE Apart'
      <3>1. holder = Fci \/ holder \in Slaves
        BY <1>1, <1>3, <2>3, OnlyTheHolder
      <3>2. \A k \in Hosts : host[k].session = 0
        BY <1>1, <2>3, <3>1, NamesApart DEF IInv, Apart
      <3> QED BY <2>1, <3>2, NamesApart DEF Apart
    <2> QED BY <1>2, <2>2, <2>3 DEF IInv
  <1>4. CASE ~Holds(id)
    BY <1>4, QuietKeeps DEF Unlock, Quiet, IInv, Shaped
  <1> QED BY <1>3, <1>4

LEMMA LockOwnedKeeps ==
    ASSUME IInv, NEW s \in Slaves, LockOwned(s), host' = host, fciSession' = fciSession
    PROVE  IInv'
  <1> USE DEF LockOwned
  <1>1. NotNamed' /\ Shaped'
    BY DEF IInv, NotNamed, Shaped
  <1>2. HolderLocked'
    BY NamesApart DEF HolderLocked
  <1>3. ASSUME ~reused' PROVE Apart'
    <2>1. s # 0
      BY NamesApart
    <2> QED BY <1>3, <2>1, Free, NamesApart DEF Apart
  <1> QED BY <1>1, <1>2, <1>3 DEF IInv

LEMMA HostKeeps == ASSUME IInv, NEW h \in Hosts, Host(h) PROVE IInv'
  BY HostLockKeeps, HostUnlockKeeps, HostIsQuiet, QuietKeeps DEF Host

LEMMA FciKeeps == ASSUME IInv, FciWorker PROVE IInv'
  <1>1. ASSUME NEW c \in FciClients, FciUnlock(c) PROVE IInv'
    BY <1>1, UnlockKeeps DEF FciUnlock, fciFrame
  <1>2. CASE FciRegister \/ FciFind \/ FciUpdate \/ FciDeregister \/ FciQuery
    <2>1. Quiet
      BY <1>2 DEF FciRegister, FciFind, FciUpdate, FciDeregister, FciQuery, fciFrame,
        Quiet, IInv, Shaped
    <2> QED BY <2>1, QuietKeeps
  <1> QED BY <1>1, <1>2, FciLockKeeps DEF FciWorker

LEMMA RpcKeeps == ASSUME IInv, NEW s \in Slaves, Rpc(s) PROVE IInv'
  <1>1. host' = host /\ fciSession' = fciSession
    BY DEF Rpc, RpcTake, RpcFinish
  <1>2. LockOwned(s) \/ Unlock(s) \/ UNCHANGED lockVars
    BY DEF Rpc, RpcTake, RpcFinish
  <1>3. CASE UNCHANGED lockVars
    BY <1>1, <1>3, QuietKeeps DEF Quiet, IInv, Shaped
  <1> QED BY <1>1, <1>2, <1>3, LockOwnedKeeps, UnlockKeeps

LEMMA StepKeeps == IInv /\ [Next]_vars => IInv'
  <1> SUFFICES ASSUME IInv, [Next]_vars PROVE IInv'
    OBVIOUS
  <1>1. ASSUME NEW t \in Threads, SlaveThread(t) PROVE IInv'
    <2>1. UNCHANGED slaveFrame
      BY <1>1 DEF SlaveThread, SlaveStart, SlaveRetry, SlaveGoOn, SlaveTimeout
    <2> QED BY <2>1, QuietKeeps DEF slaveFrame, Quiet, IInv, Shaped
  <1>2. ASSUME NEW s \in Slaves, LoseRequest(s) PROVE IInv'
    BY <1>2, QuietKeeps DEF LoseRequest, slaveFrame, Quiet, IInv, Shaped
  <1>3. CASE UNCHANGED vars
    BY <1>3, QuietKeeps DEF vars, Quiet, IInv, Shaped
  <1> QED BY <1>1, <1>2, <1>3, HostKeeps, FciKeeps, RpcKeeps DEF Next

-----------------------------------------------------------------------------
(* What it is good for                                                     *)

\* Who does not hold the lock changes nothing under it.
Untouched == UNCHANGED <<list, cur, crit, locked, session>>

LEMMA OthersTouchNothing ==
    ASSUME IInv, NEW who \in Hosts \cup {Fci} \cup Slaves, Acts(who),
           ~reused, holder \notin {None, who}
    PROVE  Untouched
  <1>1. locked
    BY DEF IInv, HolderLocked
  <1> USE DEF Untouched, dbVars, lockVars, GetFirst, GetNext, Add, RemoveEntry
  <1>2. ASSUME who \in Hosts, Host(who) PROVE Untouched
    <2>1. ~Holds(host[who].session)
      BY <1>2, OnlyTheHolder
    <2>2. CASE HostLock(who)
      BY <1>1, <2>2 DEF HostLock, Lock
    <2>3. CASE HostLockFails(who) \/ HostAdd(who) \/ HostFind(who) \/ HostRemove(who)
      BY <2>1, <2>3 DEF HostLockFails, HostAdd, HostFind, HostRemove
    <2>4. CASE HostSweep(who) \/ HostSweepOut(who) \/ HostUnlock(who) \/ HostRead(who)
      BY <2>1, <2>4 DEF HostSweep, HostSweepOut, HostUnlock, Unlock, HostRead
    <2> QED BY <1>2, <2>2, <2>3, <2>4 DEF Host
  <1>3. ASSUME who = Fci, FciWorker PROVE Untouched
    <2>1. ~Holds(fciSession)
      BY <1>3, OnlyTheHolder
    <2>2. ASSUME NEW c \in FciClients, FciLock(c) \/ FciUnlock(c) PROVE Untouched
      BY <1>1, <2>1, <2>2 DEF FciLock, Lock, FciUnlock, Unlock
    <2>3. CASE FciRegister \/ FciFind \/ FciUpdate \/ FciDeregister \/ FciQuery
      BY <2>1, <2>3 DEF FciRegister, FciFind, FciUpdate, FciDeregister, FciQuery
    <2> QED BY <1>3, <2>2, <2>3 DEF FciWorker
  <1>4. ASSUME who \in Slaves, Rpc(who) PROVE Untouched
    <2>1. ~Holds(who)
      BY <1>4, OnlyTheHolder
    <2>2. CASE RpcTake(who)
      BY <1>1, <2>1, <2>2 DEF RpcTake, LockOwned, Unlock
    <2>3. CASE RpcFinish(who)
      BY <2>1, <2>3 DEF RpcFinish
    <2> QED BY <1>4, <2>2, <2>3 DEF Rpc
  <1> QED BY <1>2, <1>3, <1>4 DEF Acts

\* No driver thread, FCI command or call of a slave other than the holder's
\* changes the list, a listing or the lock (pfe_if_db_check_precondition and
\* pfe_if_db_unlock), for all constants that meet IfDbAssumption, until a
\* session identifier comes round again.
THEOREM ExclusiveAccess == Spec => Exclusive
  <1> DEFINE Alone ==
        \A who \in Hosts \cup {Fci} \cup Slaves :
            ~reused /\ holder \notin {None, who} /\ Acts(who)
                => UNCHANGED <<list, cur, crit, locked, session>>
  <1>1. IInv /\ [Next]_vars => [Alone]_vars
    BY OthersTouchNothing DEF Untouched
  <1> HIDE DEF Alone
  <1>2. Spec => [][Alone]_vars
    BY <1>1, Initially, StepKeeps, PTL DEF Spec
  <1> QED BY <1>2 DEF Exclusive, Alone

-----------------------------------------------------------------------------
(* Lists without duplicates                                                *)

\* A list of interfaces, each of them once.
Perm(l) == l \in Seq(Ifaces) /\ IsInjective(l)

Place(l, x) == CHOOSE i \in 1 .. Len(l) : l[i] = x
Nxt(l, i) == IF i = Len(l) THEN EndOfList ELSE l[i + 1]

\* The part of the list from entry y on.
Rest(l, y) == IF y = EndOfList THEN {} ELSE {l[i] : i \in Place(l, y) .. Len(l)}

\* The operators of the model are these of its list.
LEMMA OfTheList ==
    /\ \A x : PositionOf(x) = Place(list, x)
    /\ \A i : After(i) = Nxt(list, i)
    /\ StillToList = Rest(list, cur)
  BY DEF PositionOf, Place, After, Nxt, StillToList, Rest

\* Some position is the first one.
LEMMA Least ==
    ASSUME NEW I \in SUBSET Nat, I # {}
    PROVE  Min(I) \in I /\ \A i \in I : Min(I) =< i
  <1> DEFINE R == {p \in Nat \X Nat : p[1] < p[2]}
  <1>1. IsWellFoundedOn(R, Nat)
    BY NatLessThanWellFounded DEF OpToRel
  <1>2. PICK m \in I : \A y \in I : <<y, m>> \notin R
    <2> HIDE DEF R
    <2> QED BY <1>1, WFMin
  <1>3. ASSUME NEW y \in I PROVE m =< y
    <2>1. ~(y < m)
      BY <1>2
    <2> QED BY <2>1
  <1> QED BY <1>3 DEF Min

LEMMA PlaceOf ==
    ASSUME NEW l, Perm(l), NEW i \in 1 .. Len(l)
    PROVE  Place(l, l[i]) = i /\ l[i] \in Ifaces /\ l[i] \in Range(l)
  BY DEF Perm, Place, IsInjective, Range

LEMMA Occurs ==
    ASSUME NEW l, Perm(l), NEW x \in Range(l)
    PROVE  \E i \in 1 .. Len(l) : x = l[i]
  BY DEF Perm, Range

LEMMA RestFrom ==
    ASSUME NEW l, Perm(l), NEW i \in 1 .. Len(l)
    PROVE  Rest(l, l[i]) = {l[j] : j \in i .. Len(l)}
  BY PlaceOf, IfDbAssumption DEF Rest

LEMMA RestBehind ==
    ASSUME NEW l, Perm(l), NEW i \in 1 .. Len(l)
    PROVE  /\ Nxt(l, i) \in (Range(l) \ {l[i]}) \cup {EndOfList}
           /\ Rest(l, Nxt(l, i)) = Rest(l, l[i]) \ {l[i]}
           /\ l[i] \in Rest(l, l[i])
  <1>0. Len(l) \in Nat
    BY DEF Perm
  <1>1. Rest(l, l[i]) = {l[j] : j \in i .. Len(l)}
    BY RestFrom
  <1>2. \A j \in 1 .. Len(l) : l[j] = l[i] => j = i
    BY DEF Perm, IsInjective
  <1>3. Rest(l, l[i]) \ {l[i]} = {l[j] : j \in i + 1 .. Len(l)}
    BY <1>0, <1>1, <1>2
  <1>6. l[i] \in Rest(l, l[i])
    BY <1>0, <1>1
  <1>4. CASE i = Len(l)
    BY <1>0, <1>3, <1>4, <1>6 DEF Nxt, Rest
  <1>5. CASE i # Len(l)
    <2>1. i + 1 \in 1 .. Len(l) /\ Nxt(l, i) = l[i + 1]
      BY <1>0, <1>5 DEF Nxt
    <2>2. Rest(l, l[i + 1]) = {l[j] : j \in i + 1 .. Len(l)}
      BY <2>1, RestFrom
    <2>3. l[i + 1] \in Range(l) \ {l[i]}
      BY <1>2, <2>1, PlaceOf
    <2> QED BY <1>3, <1>6, <2>1, <2>2, <2>3
  <1> QED BY <1>4, <1>5

\* An interface appended to a list that does not have it.
LEMMA Appended ==
    ASSUME NEW l, Perm(l), NEW x \in Ifaces, x \notin Range(l)
    PROVE  Perm(Append(l, x)) /\ Range(Append(l, x)) = Range(l) \cup {x}
  <1>1. /\ Append(l, x) \in Seq(Ifaces)
        /\ Len(Append(l, x)) = Len(l) + 1
        /\ Len(l) \in Nat
        /\ \A i \in 1 .. Len(l) : Append(l, x)[i] = l[i]
        /\ Append(l, x)[Len(l) + 1] = x
    BY AppendProperties DEF Perm
  <1>2. \A i \in 1 .. Len(l) : l[i] # x
    BY PlaceOf
  <1>3. IsInjective(Append(l, x))
    BY <1>1, <1>2 DEF Perm, IsInjective
  <1>4. Range(Append(l, x)) = Range(l) \cup {x}
    BY <1>1 DEF Range, Perm
  <1> QED BY <1>1, <1>3, <1>4 DEF Perm

LEMMA RemovedAt ==
    ASSUME NEW l, Perm(l), NEW p \in 1 .. Len(l)
    PROVE  /\ RemoveAt(l, p) \in Seq(Ifaces)
           /\ Len(RemoveAt(l, p)) = Len(l) - 1
           /\ \A j \in 1 .. Len(l) - 1 :
                RemoveAt(l, p)[j] = l[IF j < p THEN j ELSE j + 1]
  <1> DEFINE a == SubSeq(l, 1, p - 1)
             b == SubSeq(l, p + 1, Len(l))
  <1>0. Len(l) \in Nat /\ p \in Nat /\ p - 1 \in Int /\ p + 1 \in Int /\ l \in Seq(Ifaces)
    BY DEF Perm
  <1>1. \A i \in 1 .. Len(l) : l[i] \in Ifaces
    BY PlaceOf
  <1>2. /\ a \in Seq(Ifaces) /\ Len(a) = p - 1
        /\ \A i \in 1 .. p - 1 : a[i] = l[i]
    <2>1. \A i \in 1 .. p - 1 : l[i] \in Ifaces
      BY <1>0, <1>1
    <2>2. /\ a \in Seq(Ifaces)
          /\ Len(a) = IF 1 =< p - 1 THEN (p - 1) - 1 + 1 ELSE 0
          /\ \A i \in 1 .. (p - 1) - 1 + 1 : a[i] = l[1 + i - 1]
      <3> HIDE DEF a
      <3> QED BY <1>0, <2>1, SubSeqProperties DEF a
    <2> HIDE DEF a
    <2>3. \A i \in 1 .. p - 1 : 1 + i - 1 = i /\ i \in 1 .. (p - 1) - 1 + 1
      BY <1>0
    <2>4. Len(a) = p - 1
      BY <1>0, <2>2
    <2> QED BY <2>2, <2>3, <2>4
  <1>3. /\ b \in Seq(Ifaces) /\ Len(b) = Len(l) - p
        /\ \A i \in 1 .. Len(l) - p : b[i] = l[p + i]
    <2>1. \A i \in p + 1 .. Len(l) : l[i] \in Ifaces
      BY <1>0, <1>1
    <2>2. /\ b \in Seq(Ifaces)
          /\ Len(b) = IF p + 1 =< Len(l) THEN Len(l) - (p + 1) + 1 ELSE 0
          /\ \A i \in 1 .. Len(l) - (p + 1) + 1 : b[i] = l[(p + 1) + i - 1]
      <3> HIDE DEF b
      <3> QED BY <1>0, <2>1, SubSeqProperties DEF b
    <2> HIDE DEF b
    <2>3. \A i \in 1 .. Len(l) - p : (p + 1) + i - 1 = p + i /\ i \in 1 .. Len(l) - (p + 1) + 1
      BY <1>0
    <2>4. Len(b) = Len(l) - p
      BY <1>0, <2>2
    <2> QED BY <2>2, <2>3, <2>4
  <1>4. RemoveAt(l, p) = a \o b
    BY DEF RemoveAt
  <1> HIDE DEF a, b
  <1>5. /\ a \o b \in Seq(Ifaces)
        /\ Len(a \o b) = Len(a) + Len(b)
        /\ \A i \in 1 .. Len(a) + Len(b) :
             (a \o b)[i] = IF i <= Len(a) THEN a[i] ELSE b[i - Len(a)]
    BY <1>2, <1>3, ConcatProperties
  <1>6. ASSUME NEW j \in 1 .. Len(l) - 1
        PROVE  (a \o b)[j] = l[IF j < p THEN j ELSE j + 1]
    <2>0. (a \o b)[j] = IF j <= p - 1 THEN a[j] ELSE b[j - (p - 1)]
      BY <1>0, <1>2, <1>3, <1>5
    <2>1. CASE j < p
      BY <1>0, <1>2, <2>0, <2>1
    <2>2. CASE ~(j < p)
      <3>1. j - (p - 1) \in 1 .. Len(l) - p /\ p + (j - (p - 1)) = j + 1 /\ ~(j <= p - 1)
        BY <1>0, <2>2
      <3> QED BY <1>3, <2>0, <2>2, <3>1
    <2> QED BY <2>1, <2>2
  <1> QED BY <1>0, <1>2, <1>3, <1>4, <1>5, <1>6

\* Taking an entry out leaves the order of the others.
LEMMA Removed ==
    ASSUME NEW l, Perm(l), NEW p \in 1 .. Len(l)
    PROVE  LET m == RemoveAt(l, p)
           IN  /\ Perm(m) /\ Range(m) = Range(l) \ {l[p]}
               /\ \A y \in (Range(l) \ {l[p]}) \cup {EndOfList} :
                    Rest(m, y) = Rest(l, y) \ {l[p]}
  <1> DEFINE m == RemoveAt(l, p)
  <1>0. Len(l) \in Nat /\ p \in Nat /\ l \in Seq(Ifaces) /\ DOMAIN l = 1 .. Len(l)
    BY DEF Perm
  <1>1. /\ m \in Seq(Ifaces) /\ Len(m) = Len(l) - 1
        /\ \A j \in 1 .. Len(l) - 1 : m[j] = l[IF j < p THEN j ELSE j + 1]
    BY RemovedAt
  <1>2. \A i, j \in 1 .. Len(l) : l[i] = l[j] => i = j
    BY <1>0 DEF Perm, IsInjective
  <1> HIDE DEF m
  <1>3. DOMAIN m = 1 .. Len(l) - 1
    BY <1>1
  <1>4. IsInjective(m)
    <2> SUFFICES ASSUME NEW i \in 1 .. Len(l) - 1, NEW j \in 1 .. Len(l) - 1, m[i] = m[j]
                 PROVE  i = j
      BY <1>3 DEF IsInjective
    <2> DEFINE a == IF i < p THEN i ELSE i + 1
               b == IF j < p THEN j ELSE j + 1
    <2>1. a \in 1 .. Len(l) /\ b \in 1 .. Len(l)
      BY <1>0
    <2>2. l[a] = l[b]
      BY <1>1
    <2>3. a = b
      <3> HIDE DEF a, b
      <3> QED BY <1>2, <2>1, <2>2
    <2> QED BY <1>0, <2>3
  <1>5. Perm(m)
    BY <1>1, <1>4 DEF Perm
  <1>6. ASSUME NEW q \in 1 .. Len(l), q # p
        PROVE  LET r == IF q < p THEN q ELSE q - 1
               IN  r \in 1 .. Len(l) - 1 /\ m[r] = l[q]
    BY <1>0, <1>1, <1>6
  <1>7. Range(m) = Range(l) \ {l[p]}
    <2>1. ASSUME NEW x \in Range(m) PROVE x \in Range(l) \ {l[p]}
      <3>1. PICK j \in 1 .. Len(l) - 1 : x = m[j]
        BY <1>3 DEF Range
      <3>2. PICK i \in 1 .. Len(l) : i # p /\ x = l[i]
        BY <1>0, <1>1, <3>1
      <3> QED BY <1>2, <3>2, PlaceOf
    <2>2. ASSUME NEW x \in Range(l) \ {l[p]} PROVE x \in Range(m)
      <3>1. PICK q \in 1 .. Len(l) : x = l[q]
        BY <1>0 DEF Range
      <3>2. \E r \in 1 .. Len(l) - 1 : m[r] = x
        BY <1>6, <3>1
      <3> QED BY <1>3, <3>2 DEF Range
    <2> QED BY <2>1, <2>2
  <1>8. ASSUME NEW q \in 1 .. Len(l), q # p
        PROVE  Rest(m, l[q]) = Rest(l, l[q]) \ {l[p]}
    <2> DEFINE r == IF q < p THEN q ELSE q - 1
    <2>1. r \in 1 .. Len(l) - 1 /\ m[r] = l[q]
      BY <1>6, <1>8
    <2>2. Rest(l, l[q]) = {l[j] : j \in q .. Len(l)}
      BY RestFrom
    <2>3. Rest(m, l[q]) = {m[j] : j \in r .. Len(l) - 1}
      <3> HIDE DEF r, m
      <3>1. Len(m) = Len(l) - 1 /\ r \in 1 .. Len(m)
        BY <1>1, <2>1
      <3>2. Rest(m, m[r]) = {m[j] : j \in r .. Len(m)}
        BY <1>5, <3>1, RestFrom
      <3> QED BY <2>1, <3>1, <3>2
    <2>4. ASSUME NEW j \in r .. Len(l) - 1
          PROVE  m[j] \in {l[k] : k \in q .. Len(l)} \ {l[p]}
      <3>1. PICK k \in 1 .. Len(l) : k # p /\ q <= k /\ m[j] = l[k]
        <4>0. j \in 1 .. Len(l) - 1 /\ p \in 1 .. Len(l) /\ Len(l) \in Nat
          BY <1>0, <2>1
        <4>1. m[j] = l[IF j < p THEN j ELSE j + 1]
          BY <1>1, <4>0
        <4>2. CASE j < p
          BY <1>8, <4>0, <4>1, <4>2
        <4>3. CASE ~(j < p)
          <5>1. j + 1 \in 1 .. Len(l) /\ j + 1 # p /\ q <= j + 1
            BY <1>8, <4>0, <4>3
          <5> QED BY <4>1, <4>3, <5>1
        <4> QED BY <4>2, <4>3
      <3>2. l[k] # l[p]
        BY <1>2, <3>1
      <3> QED BY <1>0, <3>1, <3>2
    <2>5. ASSUME NEW k \in q .. Len(l), k # p
          PROVE  l[k] \in {m[j] : j \in r .. Len(l) - 1}
      <3>1. k \in 1 .. Len(l)
        BY <1>0
      <3> DEFINE j == IF k < p THEN k ELSE k - 1
      <3>2. j \in 1 .. Len(l) - 1 /\ m[j] = l[k]
        BY <1>6, <2>5, <3>1
      <3>3. j \in r .. Len(l) - 1
        BY <1>0, <2>5, <3>1, <3>2
      <3> QED BY <3>2, <3>3
    <2> HIDE DEF r
    <2> QED BY <2>2, <2>3, <2>4, <2>5
  <1>9. Rest(m, EndOfList) = Rest(l, EndOfList) \ {l[p]}
    BY DEF Rest
  <1>10. ASSUME NEW y \in Range(l) \ {l[p]} PROVE Rest(m, y) = Rest(l, y) \ {l[p]}
    <2>1. PICK q \in 1 .. Len(l) : y = l[q]
      BY <1>0 DEF Range
    <2> QED BY <1>8, <2>1
  <1>11. \A y \in (Range(l) \ {l[p]}) \cup {EndOfList} : Rest(m, y) = Rest(l, y) \ {l[p]}
    BY <1>9, <1>10
  <1> QED BY <1>5, <1>7, <1>11 DEF m

-----------------------------------------------------------------------------
(* The list and the listing                                                *)

\* There is more than one interface: else a search for one is one for all.
Several == \A x \in Ifaces : Ifaces # {x}

ListShape == Perm(list) /\ crit \subseteq Ifaces /\ listed \subseteq Ifaces

ListInv == ListShape /\ CursorLive /\ (Several => ListingComplete)

LEMMA FromIs ==
    ASSUME Perm(list), NEW i \in Nat \ {0}, NEW c
    PROVE  /\ From(i, c).entry \in (Range(list) \cap c) \cup {None}
           /\ From(i, c).next \in Range(list) \cup {EndOfList}
  <1> DEFINE M == {j \in i .. Len(list) : list[j] \in c}
  <1>1. CASE M = {}
    BY <1>1 DEF From
  <1>2. CASE M # {}
    <2>1. From(i, c) = [entry |-> list[Min(M)], next |-> Nxt(list, Min(M))]
      BY <1>2, OfTheList DEF From
    <2>2. M \in SUBSET Nat
      BY DEF Perm
    <2>3. Min(M) \in M
      <3> HIDE DEF M
      <3> QED BY <1>2, <2>2, Least
    <2>4. Min(M) \in 1 .. Len(list) /\ list[Min(M)] \in c
      BY <2>3 DEF Perm
    <2> HIDE DEF M
    <2>5. list[Min(M)] \in Range(list)
      BY <2>4, PlaceOf
    <2>6. Nxt(list, Min(M)) \in Range(list) \cup {EndOfList}
      BY <2>4, RestBehind
    <2> QED BY <2>1, <2>4, <2>5, <2>6
  <1> QED BY <1>1, <1>2

\* Among all interfaces the next one is the first from there on.
LEMMA FromAll ==
    ASSUME Perm(list), NEW i \in 1 .. Len(list)
    PROVE  From(i, Ifaces) = [entry |-> list[i], next |-> Nxt(list, i)]
  <1> DEFINE M == {j \in i .. Len(list) : list[j] \in Ifaces}
  <1>0. Len(list) \in Nat /\ i \in Int
    BY DEF Perm
  <1>1. M \in SUBSET Nat /\ i \in M /\ \A j \in M : i =< j
    BY <1>0, PlaceOf
  <1>2. M # {}
    BY <1>1
  <1>3. Min(M) = i
    <2>1. Min(M) \in M /\ \A j \in M : Min(M) =< j
      <3> HIDE DEF M
      <3> QED BY <1>1, <1>2, Least
    <2> HIDE DEF M
    <2>2. Min(M) =< i
      BY <1>1, <2>1
    <2>3. i =< Min(M)
      BY <1>1, <2>1
    <2>4. Min(M) \in Int
      <3>1. M \subseteq Nat
        BY <1>1, Zenon
      <3>2. Min(M) \in Nat
        BY <2>1, <3>1
      <3> QED BY <3>2
    <2> QED BY <1>0, <2>2, <2>3, <2>4
  <1>4. From(i, Ifaces) = [entry |-> list[Min(M)], next |-> After(Min(M))]
    BY <1>2 DEF From
  <1> HIDE DEF M
  <1> QED BY <1>3, <1>4, OfTheList

LEMMA CompleteIs ==
    ListingComplete <=>
        (crit = Ifaces => /\ listed \cap Rest(list, cur) = {}
                          /\ Range(list) = listed \cup Rest(list, cur))
  BY OfTheList DEF ListingComplete

LEMMA CompleteWillBe ==
    ListingComplete' <=>
        (crit' = Ifaces => /\ listed' \cap Rest(list', cur') = {}
                           /\ Range(list') = listed' \cup Rest(list', cur'))
  BY DEF ListingComplete, StillToList, Rest, PositionOf, Place

LEMMA StillListed == ListInv /\ UNCHANGED dbVars => ListInv'
  <1> SUFFICES ASSUME ListInv, UNCHANGED dbVars PROVE ListInv'
    OBVIOUS
  <1>1. list' = list /\ cur' = cur /\ crit' = crit /\ listed' = listed
    BY DEF dbVars
  <1>2. ListShape' /\ CursorLive'
    BY <1>1 DEF ListInv, ListShape, CursorLive
  <1>3. Several => ListingComplete'
    BY <1>1, CompleteIs, CompleteWillBe DEF ListInv
  <1> QED BY <1>2, <1>3 DEF ListInv, Several

LEMMA GetFirstKeeps ==
    ASSUME ListInv, NEW id, NEW c \in SUBSET Ifaces, GetFirst(id, c)
    PROVE  ListInv'
  <1>0. Perm(list) /\ cur \in Range(list) \cup {EndOfList} /\ Len(list) \in Nat
    BY DEF ListInv, ListShape, CursorLive, Perm
  <1>1. CASE UNCHANGED dbVars
    BY <1>1, StillListed
  <1>2. CASE ~UNCHANGED dbVars
    <2>1. /\ crit' = c /\ list' = list
          /\ cur' = IF list = <<>> THEN cur ELSE From(1, c).next
          /\ listed' = Returned(From(1, c).entry)
      BY <1>2 DEF GetFirst
    <2>2. /\ From(1, c).entry \in Range(list) \cup {None}
          /\ From(1, c).next \in Range(list) \cup {EndOfList}
      BY <1>0, FromIs
    <2>3. Range(list) \subseteq Ifaces
      BY <1>0, Occurs, PlaceOf
    <2>4. ListShape' /\ CursorLive'
      BY <1>0, <2>1, <2>2, <2>3 DEF ListShape, CursorLive, Returned
    <2>5. CASE c # Ifaces
      BY <2>1, <2>4, <2>5, CompleteWillBe DEF ListInv
    <2>6. CASE c = Ifaces /\ list = <<>>
      <3>1. Range(list) = {} /\ From(1, c).entry = None
        BY <2>6 DEF Range, From
      <3>2. cur' = EndOfList /\ listed' = {}
        BY <1>0, <2>1, <2>6, <3>1 DEF Returned
      <3> QED BY <2>1, <2>4, <3>1, <3>2, CompleteWillBe DEF ListInv, Rest
    <2>7. CASE c = Ifaces /\ list # <<>>
      <3>1. 1 \in 1 .. Len(list)
        BY <1>0, <2>7 DEF Perm
      <3>2. listed' = {list[1]} /\ cur' = Nxt(list, 1)
        <4>1. list[1] # None
          BY <1>0, <3>1, PlaceOf, IfDbAssumption
        <4>2. From(1, c) = [entry |-> list[1], next |-> Nxt(list, 1)]
          BY <1>0, <2>7, <3>1, FromAll
        <4> QED BY <2>1, <2>7, <4>1, <4>2 DEF Returned
      <3>3. /\ Rest(list, Nxt(list, 1)) = Rest(list, list[1]) \ {list[1]}
            /\ list[1] \in Rest(list, list[1])
        BY <1>0, <3>1, RestBehind
      <3>4. Rest(list, list[1]) = Range(list)
        <4>1. Rest(list, list[1]) = {list[j] : j \in 1 .. Len(list)}
          BY <1>0, <3>1, RestFrom
        <4>2. DOMAIN list = 1 .. Len(list)
          BY <1>0 DEF Perm
        <4> QED BY <4>1, <4>2 DEF Range
      <3> QED BY <2>1, <2>4, <3>2, <3>3, <3>4, CompleteWillBe DEF ListInv
    <2> QED BY <2>5, <2>6, <2>7
  <1> QED BY <1>1, <1>2

LEMMA GetNextKeeps ==
    ASSUME ListInv, NEW id, GetNext(id)
    PROVE  ListInv'
  <1>0. Perm(list) /\ cur \in Range(list) \cup {EndOfList} /\ Len(list) \in Nat
    BY DEF ListInv, ListShape, CursorLive, Perm
  <1>1. CASE UNCHANGED dbVars
    BY <1>1, StillListed
  <1>2. CASE ~UNCHANGED dbVars
    <2>1. Holds(id) /\ cur # EndOfList
      BY <1>2 DEF GetNext
    <2>2. PICK p \in 1 .. Len(list) : cur = list[p]
      BY <1>0, <2>1, Occurs
    <2>3. PositionOf(cur) = p
      BY <1>0, <2>2, PlaceOf, OfTheList
    <2>4. /\ crit' = crit /\ list' = list
          /\ cur' = From(p, crit).next
          /\ listed' = listed \cup Returned(From(p, crit).entry)
      BY <2>1, <2>3 DEF GetNext, Following
    <2>5. /\ From(p, crit).entry \in Range(list) \cup {None}
          /\ From(p, crit).next \in Range(list) \cup {EndOfList}
      BY <1>0, FromIs
    <2>6. Range(list) \subseteq Ifaces
      BY <1>0, Occurs, PlaceOf
    <2>7. ListShape' /\ CursorLive'
      BY <1>0, <2>4, <2>5, <2>6 DEF ListInv, ListShape, CursorLive, Returned
    <2>8. ASSUME Several, crit = Ifaces
          PROVE  /\ listed' \cap Rest(list', cur') = {}
                 /\ Range(list') = listed' \cup Rest(list', cur')
      <3>1. listed' = listed \cup {cur} /\ cur' = Nxt(list, p)
        <4>1. cur # None
          BY <1>0, <2>2, PlaceOf, IfDbAssumption
        <4>2. From(p, crit) = [entry |-> list[p], next |-> Nxt(list, p)]
          BY <1>0, <2>8, FromAll
        <4> QED BY <2>2, <2>4, <4>1, <4>2 DEF Returned
      <3>2. /\ Rest(list, Nxt(list, p)) = Rest(list, cur) \ {cur}
            /\ cur \in Rest(list, cur)
        BY <1>0, <2>2, RestBehind
      <3>3. /\ listed \cap Rest(list, cur) = {}
            /\ Range(list) = listed \cup Rest(list, cur)
        BY <2>8, CompleteIs DEF ListInv
      <3> QED BY <2>4, <3>1, <3>2, <3>3
    <2> QED BY <2>4, <2>7, <2>8, CompleteWillBe DEF ListInv
  <1> QED BY <1>1, <1>2

LEMMA AddKeeps ==
    ASSUME ListInv, NEW id, NEW x \in New, Add(id, x)
    PROVE  ListInv' /\ Range(list) \subseteq Range(list')
  <1>1. CASE UNCHANGED dbVars
    BY <1>1, StillListed DEF dbVars
  <1>2. CASE ~UNCHANGED dbVars
    <2>1. /\ list' = Append(list, x) \/ list' = list
          /\ crit' = {x} /\ cur' = EndOfList /\ listed' = {}
      BY <1>2 DEF Add
    <2>2. x \in Ifaces /\ x \notin Range(list) /\ Perm(list)
      BY DEF New, ListInv, ListShape
    <2>3. Perm(list') /\ Range(list) \subseteq Range(list')
      <3>1. Perm(Append(list, x)) /\ Range(Append(list, x)) = Range(list) \cup {x}
        BY <2>2, Appended
      <3> QED BY <2>1, <2>2, <3>1
    <2>4. ListShape' /\ CursorLive'
      BY <2>1, <2>2, <2>3 DEF ListShape, CursorLive
    <2>5. Several => ListingComplete'
      BY <2>1, <2>2, CompleteWillBe DEF Several
    <2> QED BY <2>3, <2>4, <2>5 DEF ListInv, Several
  <1> QED BY <1>1, <1>2

LEMMA RemoveKeeps ==
    ASSUME ListInv, NEW id, NEW x \in Ifaces, RemoveEntry(id, x)
    PROVE  ListInv'
  <1>0. /\ Perm(list) /\ cur \in Range(list) \cup {EndOfList} /\ Len(list) \in Nat
        /\ Range(list) \subseteq Ifaces
    BY Occurs, PlaceOf DEF ListInv, ListShape, CursorLive, Perm
  <1>1. CASE UNCHANGED dbVars
    BY <1>1, StillListed
  <1>2. CASE ~UNCHANGED dbVars
    <2>0. /\ list' = Unlinked(x)
          /\ cur' = IF cur = x THEN Nxt(list, PositionOf(x)) ELSE cur
          /\ listed' = listed \ {x} /\ crit' = crit
      BY <1>2, OfTheList DEF RemoveEntry
    <2>1. CASE x \notin Range(list)
      <3>1. list' = list /\ cur' = cur
        BY <1>0, <2>0, <2>1, IfDbAssumption DEF Unlinked
      <3>2. ListShape' /\ CursorLive'
        BY <1>0, <2>0, <3>1 DEF ListInv, ListShape, CursorLive
      <3>3. ASSUME Several, crit = Ifaces
            PROVE  /\ listed' \cap Rest(list', cur') = {}
                   /\ Range(list') = listed' \cup Rest(list', cur')
        <4>1. /\ listed \cap Rest(list, cur) = {}
              /\ Range(list) = listed \cup Rest(list, cur)
          BY <3>3, CompleteIs DEF ListInv
        <4> QED BY <2>0, <2>1, <3>1, <4>1
      <3> QED BY <2>0, <3>2, <3>3, CompleteWillBe DEF ListInv
    <2>2. CASE x \in Range(list)
      <3>1. PICK p \in 1 .. Len(list) : x = list[p]
        BY <1>0, <2>2, Occurs
      <3>2. PositionOf(x) = p
        BY <1>0, <3>1, PlaceOf, OfTheList
      <3>3. list' = RemoveAt(list, p)
        BY <2>0, <2>2, <3>2 DEF Unlinked
      <3>4. /\ Perm(list') /\ Range(list') = Range(list) \ {x}
            /\ \A y \in (Range(list) \ {x}) \cup {EndOfList} :
                 Rest(list', y) = Rest(list, y) \ {x}
        BY <1>0, <3>1, <3>3, Removed
      <3>5. /\ Nxt(list, p) \in (Range(list) \ {x}) \cup {EndOfList}
            /\ Rest(list, Nxt(list, p)) = Rest(list, x) \ {x}
        BY <1>0, <3>1, RestBehind
      <3>6. /\ cur' \in (Range(list) \ {x}) \cup {EndOfList}
            /\ Rest(list, cur') \ {x} = Rest(list, cur) \ {x}
        BY <1>0, <2>0, <3>2, <3>5
      <3>7. ListShape' /\ CursorLive'
        BY <2>0, <3>4, <3>6 DEF ListInv, ListShape, CursorLive
      <3>8. ASSUME Several, crit = Ifaces
            PROVE  /\ listed' \cap Rest(list', cur') = {}
                   /\ Range(list') = listed' \cup Rest(list', cur')
        <4>1. /\ listed \cap Rest(list, cur) = {}
              /\ Range(list) = listed \cup Rest(list, cur)
          BY <3>8, CompleteIs DEF ListInv
        <4>2. Rest(list', cur') = Rest(list, cur) \ {x}
          BY <3>4, <3>6
        <4> QED BY <2>0, <3>4, <4>1, <4>2
      <3> QED BY <2>0, <3>7, <3>8, CompleteWillBe DEF ListInv
    <2> QED BY <2>1, <2>2
  <1> QED BY <1>1, <1>2

-----------------------------------------------------------------------------
(* Types                                                                   *)

\* Requests on their way: those that name an interface name one there may be.
Sent ==
    {r \in [who : Threads, call : Calls, iface : Entries, live : BOOLEAN] :
        r.call \in {"destroy", "use"} => r.iface \in Ifaces}

LockShape ==
    /\ locked \in BOOLEAN /\ session \in 0 .. U32 - 1 /\ seed \in Seeds
    /\ fciSession \in 0 .. U32 - 1
    /\ holder \in Hosts \cup {Fci, None} \cup Slaves /\ client \in FciClients \cup {None}
    /\ reused \in BOOLEAN

Progress == {"idle", "locked", "unlocked", "found", "done", "sweep", "next", "read"}

\* The entry a driver thread works with, not what a lookup reads in the end.
Held(h) == IF At(h, "read") THEN None ELSE host[h].entry

\* Who has found an interface has an entry.
HostShape ==
    /\ host \in [Hosts -> [pc : Progress, session : 0 .. U32 - 1, entry : Entries]]
    /\ \A h \in Hosts : host[h].pc \in {"found", "sweep"} => host[h].entry \in Ifaces

FciShape ==
    /\ fci \in [pc : {"idle", "found"}, entry : Entries]
    /\ fci.pc = "idle" => fci.entry = None
    /\ fci.pc = "found" => fci.entry \in Ifaces

RpcShape ==
    /\ rpc \in [pc : {"idle", "found"}, entry : Entries, req : Sent \cup {NoRequest}]
    /\ rpc.pc = "idle" => rpc.entry = None
    /\ rpc.pc = "found" => rpc.entry \in Ifaces /\ rpc.req \in Sent

\* A slave's channel carries the requests of its own threads.
ChanShape ==
    /\ chan \in [Slaves -> Seq(Sent)]
    /\ \A s \in Slaves : \A i \in 1 .. Len(chan[s]) : SlaveOf[chan[s][i].who] = s

CallShape ==
    /\ call \in [Threads -> Calls \cup {"idle"}]
    /\ tries \in [Threads -> 0 .. MaxTries]
    /\ rep \in [Threads -> {"none", "EOK", "ENOLCK", "done"}]
    /\ faults \in 0 .. MaxFaults
    /\ lost \in [Slaves -> BOOLEAN]

Shapes ==
    LockShape /\ ListInv /\ HostShape /\ FciShape /\ RpcShape /\ ChanShape /\ CallShape

LEMMA Widths ==
    /\ U32 \in Nat /\ U32 - 1 \in Nat /\ 0 \in 0 .. U32 - 1
    /\ Slaves \subseteq 0 .. U32 - 1
    /\ U32 = 16 * (U32 \div 16) /\ U32 \div 16 \in Nat /\ U32 \div 16 > 1
  <1>1. U32 \in Nat /\ U32 % 16 = 0 /\ U32 >= 32 /\ Slaves \subseteq 1 .. 15
    BY IfDbAssumption
  <1>2. U32 = 16 * (U32 \div 16) /\ U32 \div 16 \in Nat /\ U32 \div 16 > 1
    BY <1>1
  <1> QED BY <1>1, <1>2

LEMMA SessionFits ==
    ASSUME seed \in Seeds
    PROVE  NewSeed \in Seeds /\ NewSession \in 0 .. U32 - 1
  <1> DEFINE n == U32 \div 16
  <1>1. n \in Nat /\ n > 1 /\ U32 = 16 * n
    BY Widths
  <1>2. seed + 1 \in Nat
    BY <1>1 DEF Seeds
  <1> HIDE DEF n
  <1>3. (seed + 1) % n \in 0 .. n - 1
    BY <1>1, <1>2
  <1>4. NewSeed = (seed + 1) % n /\ Seeds = 0 .. n - 1
    BY DEF NewSeed, Seeds, n
  <1> QED BY <1>1, <1>3, <1>4 DEF NewSession

LEMMA TypesHold == Shapes => TypeOK
  <1> SUFFICES ASSUME Shapes PROVE TypeOK
    OBVIOUS
  <1>1. IsInjective(list) /\ Range(list) \subseteq Ifaces
    BY Occurs, PlaceOf DEF Shapes, ListInv, ListShape, Perm
  <1>2. cur \in Ifaces \cup {EndOfList} /\ crit \subseteq Ifaces /\ listed \subseteq Ifaces
    BY <1>1 DEF Shapes, ListInv, ListShape, CursorLive
  <1>3. rpc.req \in Request \cup {NoRequest} \/ rpc.req.iface = None
    BY DEF Shapes, RpcShape, Sent, Request, Entries
  <1> QED
    BY <1>1, <1>2, <1>3 DEF Shapes, TypeOK, LockShape, HostShape, FciShape, CallShape, Progress

-----------------------------------------------------------------------------
(* Every step keeps them                                                   *)

LEMMA LockFits ==
    ASSUME LockShape, NEW who \in Hosts \cup {Fci}, Lock(who),
           fciSession' \in {fciSession, session'}, client' \in FciClients \cup {client}
    PROVE  LockShape' /\ session' \in 0 .. U32 - 1
  BY SessionFits DEF LockShape, Lock

LEMMA UnlockFits ==
    ASSUME LockShape, NEW id, Unlock(id), fciSession' = fciSession
    PROVE  LockShape'
  <1>1. ((U32 - 1 - session) * 16) % U32 \in 0 .. U32 - 1
    BY Widths DEF LockShape
  <1> QED BY <1>1 DEF LockShape, Unlock, lockVars

LEMMA LockOwnedFits ==
    ASSUME LockShape, NEW s \in Slaves, LockOwned(s), fciSession' = fciSession
    PROVE  LockShape'
  BY Widths DEF LockShape, LockOwned

LEMMA LockSame ==
    ASSUME LockShape, UNCHANGED lockVars, fciSession' = fciSession
    PROVE  LockShape'
  BY DEF LockShape, lockVars

\* What a lookup finds is on the list.
LEMMA FoundIs ==
    ASSUME ListInv, NEW id, NEW c
    PROVE  /\ Found(id, c) \in (Range(list) \cap c) \cup {None}
           /\ Found(id, c) # None => Holds(id)
  BY FromIs DEF Found, ListInv, ListShape

LEMMA FollowingIs ==
    ASSUME ListInv, NEW id
    PROVE  /\ Following(id) \in Range(list) \cup {None}
           /\ Following(id) # None => Holds(id)
  <1>1. CASE Holds(id) /\ cur # EndOfList
    <2>1. PICK p \in 1 .. Len(list) : cur = list[p]
      BY <1>1, Occurs DEF ListInv, ListShape, CursorLive
    <2>2. PositionOf(cur) = p /\ p \in Nat \ {0}
      BY <2>1, PlaceOf, OfTheList DEF ListInv, ListShape, Perm
    <2> QED BY <1>1, <2>2, FromIs DEF Following, ListInv, ListShape
  <1>2. CASE ~(Holds(id) /\ cur # EndOfList)
    BY <1>2 DEF Following
  <1> QED BY <1>1, <1>2

LEMMA ListedIsIface == ListInv => Range(list) \subseteq Ifaces
  BY Occurs, PlaceOf DEF ListInv, ListShape

\* A driver thread's step.
LEMMA GoFits ==
    ASSUME HostShape, NEW h \in Hosts, NEW pc \in Progress, NEW e \in Entries, Go(h, pc, e),
           pc # "read", pc \in {"found", "sweep"} => e \in Ifaces
    PROVE  HostShape' /\ Held(h)' = e /\ \A k \in Hosts \ {h} : host'[k] = host[k]
  BY DEF HostShape, Go, Held, At

\* What the steps of a driver thread do to the list and to the entry it has:
\* an entry it gets is on the list, and who removes one has none then.
LEMMA HostStep ==
    ASSUME Shapes, NEW h \in Hosts, Host(h)
    PROVE  /\ HostShape' /\ ListInv' /\ LockShape'
           /\ \A k \in Hosts \ {h} : host'[k] = host[k]
           /\ Range(list) \subseteq Range(list') \/ Holds(host[h].session)
           /\ \/ Held(h)' = None
              \/ /\ Held(h)' \in Range(list) /\ list' = list
                 /\ UNCHANGED lockVars /\ Holds(host[h].session)
           /\ \/ HostLock(h)
              \/ UNCHANGED lockVars
              \/ Unlock(host[h].session) /\ Held(h)' = None
  <1> DEFINE id == host[h].session
             Goal ==
                /\ HostShape' /\ ListInv' /\ LockShape'
                /\ \A k \in Hosts \ {h} : host'[k] = host[k]
                /\ Range(list) \subseteq Range(list') \/ Holds(id)
                /\ \/ Held(h)' = None
                   \/ /\ Held(h)' \in Range(list) /\ list' = list
                      /\ UNCHANGED lockVars /\ Holds(id)
                /\ \/ HostLock(h)
                   \/ UNCHANGED lockVars
                   \/ Unlock(host[h].session) /\ Held(h)' = None
  <1>0. /\ HostShape /\ ListInv /\ LockShape /\ Range(list) \subseteq Ifaces
        /\ None \in Entries /\ Ifaces \subseteq Entries
    BY ListedIsIface DEF Shapes, Entries
  <1>1. CASE HostLock(h)
    <2>1. LockShape' /\ session' \in 0 .. U32 - 1
      BY <1>0, <1>1, LockFits DEF HostLock, hostFrame
    <2>2. ListInv' /\ list' = list
      BY <1>0, <1>1, StillListed DEF HostLock, dbVars
    <2>3. /\ HostShape' /\ Held(h)' = None
          /\ \A k \in Hosts \ {h} : host'[k] = host[k]
      BY <1>0, <1>1, <2>1 DEF HostLock, HostShape, Progress, Held, At
    <2> QED BY <1>1, <2>1, <2>2, <2>3
  <1>2. CASE HostLockFails(h)
    <2>1. Go(h, "unlocked", None)
      BY <1>2 DEF HostLockFails
    <2>2. /\ HostShape' /\ Held(h)' = None
          /\ \A k \in Hosts \ {h} : host'[k] = host[k]
      BY <1>0, <2>1, GoFits DEF Progress
    <2>3. UNCHANGED lockVars /\ LockShape' /\ ListInv' /\ list' = list
      BY <1>0, <1>2, LockSame, StillListed DEF HostLockFails, hostFrame, dbVars
    <2> QED BY <2>2, <2>3
  <1>3. CASE HostAdd(h)
    <2>1. Go(h, "done", None)
      BY <1>3 DEF HostAdd
    <2>2. /\ HostShape' /\ Held(h)' = None
          /\ \A k \in Hosts \ {h} : host'[k] = host[k]
      BY <1>0, <2>1, GoFits DEF Progress
    <2>3. UNCHANGED lockVars /\ LockShape'
      BY <1>0, <1>3, LockSame DEF HostAdd, hostFrame
    <2>4. ListInv' /\ Range(list) \subseteq Range(list')
      BY <1>0, <1>3, AddKeeps DEF HostAdd
    <2> QED BY <2>2, <2>3, <2>4
  <1>4. CASE HostFind(h)
    <2>1. PICK x \in Ifaces :
            /\ GetFirst(id, {x})
            /\ Go(h, IF Found(id, {x}) = None THEN "done" ELSE "found", Found(id, {x}))
      BY <1>4 DEF HostFind
    <2>2. /\ Found(id, {x}) \in Range(list) \cup {None}
          /\ Found(id, {x}) # None => Holds(id)
      BY <1>0, FoundIs
    <2>3. /\ HostShape' /\ Held(h)' = Found(id, {x})
          /\ \A k \in Hosts \ {h} : host'[k] = host[k]
      BY <1>0, <2>1, <2>2, GoFits DEF Progress
    <2>4. UNCHANGED lockVars /\ LockShape'
      BY <1>0, <1>4, LockSame DEF HostFind, hostFrame
    <2>5. ListInv' /\ list' = list
      BY <1>0, <2>1, GetFirstKeeps DEF GetFirst, dbVars
    <2> QED BY <2>2, <2>3, <2>4, <2>5
  <1>5. CASE HostRemove(h) \/ HostSweepOut(h)
    <2>1. host[h].entry \in Ifaces
      BY <1>0, <1>5 DEF HostShape, HostRemove, HostSweepOut, At
    <2>2. RemoveEntry(id, host[h].entry)
      BY <1>5 DEF HostRemove, HostSweepOut
    <2>3. Go(h, "done", None) \/ Go(h, "next", None)
      BY <1>5 DEF HostRemove, HostSweepOut
    <2>4. /\ HostShape' /\ Held(h)' = None
          /\ \A k \in Hosts \ {h} : host'[k] = host[k]
      BY <1>0, <2>3, GoFits DEF Progress
    <2>5. UNCHANGED lockVars /\ LockShape'
      BY <1>0, <1>5, LockSame DEF HostRemove, HostSweepOut, hostFrame
    <2>6. ListInv'
      BY <1>0, <2>1, <2>2, RemoveKeeps
    <2>7. Range(list) \subseteq Range(list') \/ Holds(id)
      BY <2>2 DEF RemoveEntry, dbVars
    <2> QED BY <2>4, <2>5, <2>6, <2>7
  <1>6. CASE HostSweep(h)
    <2> DEFINE found == IF At(h, "locked") THEN Found(id, Ifaces) ELSE Following(id)
    <2>1. /\ GetFirst(id, Ifaces) \/ GetNext(id)
          /\ Go(h, IF found = None THEN "done" ELSE "sweep", found)
      BY <1>6 DEF HostSweep
    <2>2. found \in Range(list) \cup {None} /\ (found # None => Holds(id))
      BY <1>0, FoundIs, FollowingIs
    <2> HIDE DEF found
    <2>3. /\ HostShape' /\ Held(h)' = found
          /\ \A k \in Hosts \ {h} : host'[k] = host[k]
      BY <1>0, <2>1, <2>2, GoFits DEF Progress
    <2>4. UNCHANGED lockVars /\ LockShape'
      BY <1>0, <1>6, LockSame DEF HostSweep, hostFrame
    <2>5. ListInv' /\ list' = list
      BY <1>0, <2>1, GetFirstKeeps, GetNextKeeps DEF GetFirst, GetNext, dbVars
    <2> QED BY <2>2, <2>3, <2>4, <2>5
  <1>7. CASE HostUnlock(h)
    <2>1. /\ HostShape' /\ Held(h)' = None
          /\ \A k \in Hosts \ {h} : host'[k] = host[k]
      BY <1>0, <1>7, Widths DEF HostUnlock, HostShape, IdleHost, Progress, Held, At
    <2>2. LockShape' /\ Unlock(host[h].session)
      BY <1>0, <1>7, UnlockFits DEF HostUnlock, hostFrame
    <2>3. ListInv' /\ list' = list
      BY <1>0, <1>7, StillListed DEF HostUnlock, dbVars
    <2> QED BY <2>1, <2>2, <2>3
  <1>8. CASE HostRead(h)
    <2>1. /\ HostShape' /\ Held(h)' = None
          /\ \A k \in Hosts \ {h} : host'[k] = host[k]
      BY <1>0, <1>8, GoFits DEF HostRead, Progress
    <2>2. UNCHANGED lockVars /\ LockShape'
      BY <1>0, <1>8, LockSame DEF HostRead, hostFrame
    <2>3. ListInv' /\ list' = list
      BY <1>0, <1>8, StillListed DEF HostRead, dbVars
    <2> QED BY <2>1, <2>2, <2>3
  <1> QED BY <1>1, <1>2, <1>3, <1>4, <1>5, <1>6, <1>7, <1>8 DEF Host

LEMMA FciStep ==
    ASSUME Shapes, FciWorker
    PROVE  /\ FciShape' /\ ListInv' /\ LockShape'
           /\ Range(list) \subseteq Range(list') \/ Holds(fciSession)
           /\ \/ fci'.entry = None
              \/ fci' = fci /\ list' = list /\ UNCHANGED lockVars
              \/ /\ fci'.entry \in Range(list) /\ list' = list
                 /\ UNCHANGED lockVars /\ Holds(fciSession)
           /\ \/ Lock(Fci) /\ fci.entry = None /\ fci' = fci
              \/ UNCHANGED lockVars
              \/ Unlock(fciSession) /\ fci.entry = None /\ fci' = fci
  <1> DEFINE Goal ==
                /\ FciShape' /\ ListInv' /\ LockShape'
                /\ Range(list) \subseteq Range(list') \/ Holds(fciSession)
                /\ \/ fci'.entry = None
                   \/ fci' = fci /\ list' = list /\ UNCHANGED lockVars
                   \/ /\ fci'.entry \in Range(list) /\ list' = list
                      /\ UNCHANGED lockVars /\ Holds(fciSession)
                /\ \/ Lock(Fci) /\ fci.entry = None /\ fci' = fci
                   \/ UNCHANGED lockVars
                   \/ Unlock(fciSession) /\ fci.entry = None /\ fci' = fci
  <1>0. /\ FciShape /\ ListInv /\ LockShape /\ Range(list) \subseteq Ifaces
        /\ None \in Entries /\ Ifaces \subseteq Entries
    BY ListedIsIface DEF Shapes, Entries
  <1>1. ASSUME NEW c \in FciClients, FciLock(c) PROVE Goal
    <2>1. LockShape' /\ Lock(Fci)
      BY <1>0, <1>1, LockFits DEF FciLock
    <2>2. FciShape' /\ fci' = fci /\ fci.entry = None
      BY <1>0, <1>1 DEF FciLock, FciShape
    <2>3. ListInv' /\ list' = list
      BY <1>0, <1>1, StillListed DEF FciLock, dbVars
    <2> QED BY <2>1, <2>2, <2>3
  <1>2. ASSUME NEW c \in FciClients, FciUnlock(c) PROVE Goal
    <2>1. LockShape' /\ Unlock(fciSession)
      BY <1>0, <1>2, UnlockFits DEF FciUnlock
    <2>2. FciShape' /\ fci' = fci /\ fci.entry = None
      BY <1>0, <1>2 DEF FciUnlock, FciShape
    <2>3. ListInv' /\ list' = list
      BY <1>0, <1>2, StillListed DEF FciUnlock, dbVars
    <2> QED BY <2>1, <2>2, <2>3
  <1>3. ASSUME FciRegister PROVE Goal
    <2>1. LockShape' /\ UNCHANGED lockVars
      BY <1>0, <1>3, LockSame DEF FciRegister
    <2>2. FciShape' /\ fci'.entry = None
      BY <1>0, <1>3 DEF FciRegister, FciShape
    <2>3. ListInv' /\ Range(list) \subseteq Range(list')
      BY <1>0, <1>3, AddKeeps DEF FciRegister
    <2> QED BY <2>1, <2>2, <2>3
  <1>4. ASSUME FciFind PROVE Goal
    <2>1. LockShape' /\ UNCHANGED lockVars
      BY <1>0, <1>4, LockSame DEF FciFind
    <2>2. PICK x \in Ifaces :
            /\ GetFirst(fciSession, {x})
            /\ fci' = [pc |-> IF Found(fciSession, {x}) = None THEN "idle" ELSE "found",
                       entry |-> Found(fciSession, {x})]
      BY <1>4 DEF FciFind
    <2>3. /\ Found(fciSession, {x}) \in Range(list) \cup {None}
          /\ Found(fciSession, {x}) # None => Holds(fciSession)
      BY <1>0, FoundIs
    <2>4. FciShape' /\ fci'.entry = Found(fciSession, {x})
      BY <1>0, <2>2, <2>3 DEF FciShape
    <2>5. ListInv' /\ list' = list
      BY <1>0, <2>2, GetFirstKeeps DEF GetFirst, dbVars
    <2> QED BY <2>1, <2>3, <2>4, <2>5
  <1>5. ASSUME FciUpdate PROVE Goal
    <2>1. LockShape' /\ UNCHANGED lockVars
      BY <1>0, <1>5, LockSame DEF FciUpdate
    <2>2. FciShape' /\ fci'.entry = None
      BY <1>0, <1>5 DEF FciUpdate, FciShape, IdleFci
    <2>3. ListInv' /\ list' = list
      BY <1>0, <1>5, StillListed DEF FciUpdate, dbVars
    <2> QED BY <2>1, <2>2, <2>3
  <1>6. ASSUME FciDeregister PROVE Goal
    <2>1. LockShape' /\ UNCHANGED lockVars
      BY <1>0, <1>6, LockSame DEF FciDeregister
    <2>2. FciShape' /\ fci'.entry = None /\ fci.entry \in Ifaces
      BY <1>0, <1>6 DEF FciDeregister, FciShape, IdleFci
    <2>3. ListInv' /\ (Range(list) \subseteq Range(list') \/ Holds(fciSession))
      BY <1>0, <1>6, <2>2, RemoveKeeps DEF FciDeregister, RemoveEntry, dbVars
    <2> QED BY <2>1, <2>2, <2>3
  <1>7. ASSUME FciQuery PROVE Goal
    <2>1. LockShape' /\ UNCHANGED lockVars
      BY <1>0, <1>7, LockSame DEF FciQuery
    <2>2. FciShape' /\ fci' = fci
      BY <1>0, <1>7 DEF FciQuery, FciShape
    <2>3. ListInv' /\ list' = list
      BY <1>0, <1>7, GetFirstKeeps, GetNextKeeps DEF FciQuery, GetFirst, GetNext, dbVars
    <2> QED BY <2>1, <2>2, <2>3
  <1> HIDE DEF Goal
  <1>8. Goal
    BY <1>1, <1>2, <1>3, <1>4, <1>5, <1>6, <1>7 DEF FciWorker
  <1> QED BY <1>8 DEF Goal

-----------------------------------------------------------------------------
(* Slaves and their requests                                               *)

LEMMA NoneIsNoCall == NoRequest.call = "none" /\ "none" \notin Calls
  BY DEF NoRequest, Calls

LEMMA ForsakeFits ==
    ASSUME NEW t, NEW r \in Sent
    PROVE  Forsake(t, r) \in Sent /\ Forsake(t, r).who = r.who
  BY DEF Forsake, Sent

\* A thread's step to another call touches only what waits for its answer.
LEMMA ProceedFits ==
    ASSUME RpcShape, ChanShape, CallShape,
           NEW t \in Threads, NEW c \in Calls \cup {"idle"}, Proceed(t, c)
    PROVE  /\ RpcShape' /\ ChanShape'
           /\ call' \in [Threads -> Calls \cup {"idle"}]
           /\ rep' \in [Threads -> {"none", "EOK", "ENOLCK", "done"}]
           /\ rpc'.entry = rpc.entry
           /\ rpc.entry # None => rpc'.req.who = rpc.req.who
  <1> DEFINE s == SlaveOf[t]
             left == [i \in DOMAIN chan[s] |-> Forsake(t, chan[s][i])]
  <1>0. s \in Slaves /\ chan[s] \in Seq(Sent) /\ Len(chan[s]) \in Nat
    <2>1. s \in Slaves
      BY IfDbAssumption
    <2>2. chan[s] \in Seq(Sent)
      BY <2>1 DEF ChanShape
    <2> QED BY <2>1, <2>2
  <1>1. /\ call' \in [Threads -> Calls \cup {"idle"}]
        /\ rep' \in [Threads -> {"none", "EOK", "ENOLCK", "done"}]
    BY DEF Proceed, CallShape
  <1>2. rpc' = [rpc EXCEPT !.req = Forsake(t, rpc.req)]
    BY DEF Proceed
  <1>3. ASSUME rpc.req \in Sent
        PROVE  RpcShape' /\ rpc'.entry = rpc.entry /\ rpc'.req.who = rpc.req.who
    <2>1. Forsake(t, rpc.req) \in Sent /\ Forsake(t, rpc.req).who = rpc.req.who
      BY <1>3, ForsakeFits
    <2>2. RpcShape' /\ rpc'.entry = rpc.entry /\ rpc'.req.who = rpc.req.who
      BY <1>2, <2>1 DEF RpcShape
    <2> QED BY <2>2
  <1>4. ASSUME rpc.req = NoRequest
        PROVE  RpcShape' /\ rpc'.entry = rpc.entry /\ rpc'.req = rpc.req
    <2>1. Forsake(t, rpc.req) = rpc.req
      BY <1>4, NoneIsNoCall DEF Forsake, Mine
    <2>2. RpcShape' /\ rpc'.entry = rpc.entry /\ rpc'.req = rpc.req
      BY <1>2, <2>1 DEF RpcShape
    <2> QED BY <2>2
  <1>5. /\ RpcShape' /\ rpc'.entry = rpc.entry
        /\ rpc.entry # None => rpc'.req.who = rpc.req.who
    BY <1>3, <1>4 DEF RpcShape
  <1>6. /\ left \in Seq(Sent) /\ Len(left) = Len(chan[s])
        /\ \A i \in 1 .. Len(left) : SlaveOf[left[i].who] = s
    <2>1. DOMAIN chan[s] = 1 .. Len(chan[s])
      BY <1>0
    <2>2. \A i \in 1 .. Len(chan[s]) :
            /\ chan[s][i] \in Sent /\ SlaveOf[chan[s][i].who] = s
      BY <1>0 DEF ChanShape
    <2>3. \A i \in 1 .. Len(chan[s]) :
            /\ Forsake(t, chan[s][i]) \in Sent
            /\ SlaveOf[Forsake(t, chan[s][i]).who] = s
      BY <2>2, ForsakeFits
    <2>4. left \in [1 .. Len(chan[s]) -> Sent]
      BY <2>1, <2>3
    <2>5. left \in Seq(Sent) /\ Len(left) = Len(chan[s])
      BY <1>0, <2>4
    <2>6. \A i \in 1 .. Len(chan[s]) : left[i] = Forsake(t, chan[s][i])
      BY <2>1
    <2> HIDE DEF left
    <2> QED BY <2>3, <2>5, <2>6
  <1> HIDE DEF left
  <1>7. PICK x \in IF c \in {"destroy", "use"} THEN Ifaces ELSE {None} :
            chan' = [chan EXCEPT ![s] =
                        IF c = "idle" THEN left
                        ELSE Append(left, [who |-> t, call |-> c, iface |-> x, live |-> TRUE])]
    BY DEF Proceed, left
  <1> DEFINE r == [who |-> t, call |-> c, iface |-> x, live |-> TRUE]
             q == IF c = "idle" THEN left ELSE Append(left, r)
  <1>8. /\ q \in Seq(Sent) /\ \A i \in 1 .. Len(q) : SlaveOf[q[i].who] = s
    <2>1. CASE c = "idle"
      BY <1>6, <2>1
    <2>2. CASE c # "idle"
      <3>1. r \in Sent /\ SlaveOf[r.who] = s
        BY <2>2 DEF Sent, Entries
      <3> HIDE DEF r
      <3>2. /\ Append(left, r) \in Seq(Sent) /\ Len(Append(left, r)) = Len(left) + 1
            /\ \A i \in 1 .. Len(left) : Append(left, r)[i] = left[i]
            /\ Append(left, r)[Len(left) + 1] = r
        BY <1>6, <3>1, AppendProperties
      <3>3. \A i \in 1 .. Len(Append(left, r)) : SlaveOf[Append(left, r)[i].who] = s
        BY <1>0, <1>6, <3>1, <3>2
      <3> QED BY <2>2, <3>2, <3>3
    <2> QED BY <2>1, <2>2
  <1>9. ChanShape'
    <2>1. chan' = [chan EXCEPT ![s] = q]
      BY <1>7
    <2> HIDE DEF q
    <2> QED BY <1>0, <1>8, <2>1 DEF ChanShape
  <1> QED BY <1>1, <1>5, <1>9

LEMMA NextCallIs ==
    ASSUME NEW t \in Threads, CallShape, NextCall(t)
    PROVE  \E c \in Calls \cup {"idle"} : Proceed(t, c)
  BY DEF NextCall, Calls, CallShape

LEMMA ThreadStep ==
    ASSUME Shapes, NEW t \in Threads, SlaveThread(t)
    PROVE  /\ RpcShape' /\ ChanShape' /\ CallShape'
           /\ UNCHANGED slaveFrame
           /\ rpc'.entry = rpc.entry
           /\ rpc.entry # None => rpc'.req.who = rpc.req.who
  <1>0. /\ RpcShape /\ ChanShape /\ CallShape /\ MaxTries \in Nat \ {0} /\ MaxFaults \in Nat
    BY IfDbAssumption DEF Shapes
  <1>1. UNCHANGED slaveFrame /\ lost' = lost
    BY DEF SlaveThread, SlaveStart, SlaveRetry, SlaveGoOn, SlaveTimeout
  <1>2. PICK c \in Calls \cup {"idle"} : Proceed(t, c)
    BY <1>0, NextCallIs DEF SlaveThread, SlaveStart, SlaveRetry, SlaveGoOn, SlaveTimeout, Calls
  <1>3. /\ tries' \in [Threads -> 0 .. MaxTries] /\ faults' \in 0 .. MaxFaults
    BY <1>0 DEF SlaveThread, SlaveStart, SlaveRetry, SlaveGoOn, SlaveTimeout, CallShape
  <1> QED BY <1>0, <1>1, <1>2, <1>3, ProceedFits DEF CallShape

LEMMA ChanTail ==
    ASSUME ChanShape, NEW s \in Slaves, chan[s] # <<>>, chan' = [chan EXCEPT ![s] = Tail(@)]
    PROVE  ChanShape' /\ Head(chan[s]) \in Sent /\ SlaveOf[Head(chan[s]).who] = s
  <1>1. chan[s] \in Seq(Sent) /\ Len(chan[s]) \in Nat \ {0}
    BY DEF ChanShape
  <1>2. Head(chan[s]) = chan[s][1] /\ chan[s][1] \in Sent /\ SlaveOf[chan[s][1].who] = s
    BY <1>1 DEF ChanShape
  <1>3. /\ Tail(chan[s]) \in Seq(Sent) /\ Len(Tail(chan[s])) = Len(chan[s]) - 1
        /\ \A i \in 1 .. Len(Tail(chan[s])) : Tail(chan[s])[i] = chan[s][i + 1]
    BY <1>1, HeadTailProperties
  <1>4. \A i \in 1 .. Len(Tail(chan[s])) : SlaveOf[Tail(chan[s])[i].who] = s
    BY <1>1, <1>3 DEF ChanShape
  <1>5. ChanShape'
    BY <1>3, <1>4 DEF ChanShape
  <1> QED BY <1>2, <1>5

LEMMA LoseStep ==
    ASSUME Shapes, NEW s \in Slaves, LoseRequest(s)
    PROVE  ChanShape' /\ CallShape' /\ UNCHANGED <<slaveFrame, rpc>>
  <1>1. ChanShape'
    BY ChanTail DEF LoseRequest, Shapes
  <1>2. CallShape'
    BY IfDbAssumption DEF LoseRequest, Shapes, CallShape, slaveVars
  <1> QED BY <1>1, <1>2 DEF LoseRequest

LEMMA AnswerFits ==
    ASSUME CallShape, NEW r \in Sent, NEW ret \in {"EOK", "ENOLCK", "done"},
           rep' = rep \/ Answer(r, ret)
    PROVE  rep' \in [Threads -> {"none", "EOK", "ENOLCK", "done"}]
  BY DEF CallShape, Answer, Sent

LEMMA RpcStep ==
    ASSUME Shapes, NEW s \in Slaves, Rpc(s)
    PROVE  /\ RpcShape' /\ ChanShape' /\ CallShape' /\ ListInv' /\ LockShape'
           /\ UNCHANGED <<host, fciSession, fci>>
           /\ rpc.entry # None => SlaveOf[rpc.req.who] = s
           /\ Range(list) \subseteq Range(list') \/ Holds(s)
           /\ \/ rpc'.entry = None
              \/ /\ rpc'.entry \in Range(list) /\ list' = list
                 /\ SlaveOf[rpc'.req.who] = s
                 /\ UNCHANGED lockVars /\ Holds(s)
           /\ \/ LockOwned(s) /\ rpc'.entry = None
              \/ UNCHANGED lockVars
              \/ Unlock(s) /\ rpc'.entry = None
  <1> DEFINE Goal ==
           /\ RpcShape' /\ ChanShape' /\ CallShape' /\ ListInv' /\ LockShape'
           /\ UNCHANGED <<host, fciSession, fci>>
           /\ rpc.entry # None => SlaveOf[rpc.req.who] = s
           /\ Range(list) \subseteq Range(list') \/ Holds(s)
           /\ \/ rpc'.entry = None
              \/ /\ rpc'.entry \in Range(list) /\ list' = list
                 /\ SlaveOf[rpc'.req.who] = s
                 /\ UNCHANGED lockVars /\ Holds(s)
           /\ \/ LockOwned(s) /\ rpc'.entry = None
              \/ UNCHANGED lockVars
              \/ Unlock(s) /\ rpc'.entry = None
  <1>0. /\ RpcShape /\ ChanShape /\ CallShape /\ ListInv /\ LockShape
        /\ Range(list) \subseteq Ifaces /\ Ifaces \subseteq Entries
    BY ListedIsIface DEF Shapes, Entries
  <1>1. ASSUME RpcTake(s) PROVE Goal
    <2> DEFINE r == Head(chan[s])
    <2>1. ChanShape' /\ r \in Sent /\ SlaveOf[r.who] = s
      BY <1>0, <1>1, ChanTail DEF RpcTake
    <2>2. rpc.entry = None /\ UNCHANGED <<host, fciSession, fci, call, tries, faults>>
      BY <1>0, <1>1 DEF RpcTake, RpcShape
    <2>3. \/ /\ LockOwned(s) \/ UNCHANGED lockVars
             /\ Answer(r, "ENOLCK") \/ Answer(r, "EOK")
             /\ UNCHANGED <<dbVars, rpc, lost>>
          \/ /\ Unlock(s)
             /\ Answer(r, "ENOLCK") \/ Answer(r, "EOK")
             /\ lost' = [lost EXCEPT ![s] = FALSE]
             /\ UNCHANGED <<dbVars, rpc>>
          \/ /\ (\E x \in New : Add(s, x)) \/ UNCHANGED dbVars
             /\ Answer(r, "done")
             /\ UNCHANGED <<lockVars, rpc, lost>>
          \/ /\ r.iface \in Ifaces
             /\ GetFirst(s, {r.iface})
             /\ IF Found(s, {r.iface}) = None THEN Answer(r, "done") /\ UNCHANGED rpc
                ELSE rpc' = [pc |-> "found", entry |-> r.iface, req |-> r] /\ UNCHANGED rep
             /\ UNCHANGED <<lockVars, lost>>
      BY <1>1, <2>1 DEF RpcTake, Sent
    <2> HIDE DEF r
    <2>4. rep' \in [Threads -> {"none", "EOK", "ENOLCK", "done"}]
      BY <1>0, <2>1, <2>3, AnswerFits
    <2>5. CallShape'
      BY <1>0, <2>2, <2>3, <2>4 DEF CallShape
    <2>6. LockShape'
      BY <1>0, <2>2, <2>3, LockOwnedFits, UnlockFits, LockSame
    <2>7. ListInv' /\ Range(list) \subseteq Range(list')
      <3>1. ASSUME UNCHANGED dbVars PROVE ListInv' /\ Range(list) \subseteq Range(list')
        BY <1>0, <3>1, StillListed DEF dbVars
      <3>2. ASSUME NEW x \in New, Add(s, x) PROVE ListInv' /\ Range(list) \subseteq Range(list')
        BY <1>0, <3>2, AddKeeps
      <3>3. ASSUME r.iface \in Ifaces, GetFirst(s, {r.iface})
            PROVE  ListInv' /\ Range(list) \subseteq Range(list')
        BY <1>0, <3>3, GetFirstKeeps DEF GetFirst, dbVars
      <3> QED BY <2>3, <3>1, <3>2, <3>3
    <2>8. CASE rpc' = rpc
      <3>1. RpcShape' /\ rpc'.entry = None
        BY <1>0, <2>2, <2>8 DEF RpcShape
      <3> QED BY <2>1, <2>2, <2>3, <2>5, <2>6, <2>7, <3>1
    <2>9. CASE rpc' # rpc
      <3>1. /\ r.iface \in Ifaces /\ GetFirst(s, {r.iface})
            /\ Found(s, {r.iface}) # None
            /\ rpc' = [pc |-> "found", entry |-> r.iface, req |-> r]
            /\ UNCHANGED lockVars
        BY <2>3, <2>9
      <3>2. r.iface \in Range(list) /\ Holds(s)
        BY <1>0, <3>1, FoundIs
      <3>3. RpcShape'
        BY <1>0, <2>1, <3>1 DEF RpcShape
      <3>4. list' = list
        BY <3>1 DEF GetFirst, dbVars
      <3> QED BY <2>1, <2>2, <2>5, <2>6, <2>7, <3>1, <3>2, <3>3, <3>4
    <2> QED BY <2>8, <2>9
  <1>2. ASSUME RpcFinish(s) PROVE Goal
    <2>1. /\ rpc.entry \in Ifaces /\ rpc.req \in Sent /\ SlaveOf[rpc.req.who] = s
          /\ rpc' = IdleRpc
          /\ UNCHANGED <<lockVars, host, fciSession, fci, chan, call, tries, faults, lost>>
      BY <1>0, <1>2 DEF RpcFinish, RpcShape
    <2>2. RpcShape' /\ rpc'.entry = None
      BY <2>1 DEF RpcShape, IdleRpc, Entries
    <2>3. rep' \in [Threads -> {"none", "EOK", "ENOLCK", "done"}]
      BY <1>0, <1>2, <2>1, AnswerFits DEF RpcFinish
    <2>4. CallShape' /\ ChanShape'
      BY <1>0, <2>1, <2>3 DEF CallShape, ChanShape
    <2>5. LockShape'
      BY <1>0, <2>1, LockSame
    <2>6. RemoveEntry(s, rpc.entry) \/ UNCHANGED dbVars
      BY <1>2 DEF RpcFinish
    <2>7. ListInv' /\ (Range(list) \subseteq Range(list') \/ Holds(s))
      <3>1. CASE UNCHANGED dbVars
        BY <1>0, <3>1, StillListed DEF dbVars
      <3>2. CASE RemoveEntry(s, rpc.entry)
        BY <1>0, <2>1, <3>2, RemoveKeeps DEF RemoveEntry, dbVars
      <3> QED BY <2>6, <3>1, <3>2
    <2> QED BY <2>1, <2>2, <2>4, <2>5, <2>7
  <1> HIDE DEF Goal
  <1>3. Goal
    BY <1>1, <1>2 DEF Rpc
  <1> QED BY <1>3 DEF Goal

-----------------------------------------------------------------------------
(* Entries that are worked with                                            *)

\* Who works with an entry has the lock.
Owned ==
    /\ \A h \in Hosts : Held(h) # None => holder = h
    /\ fci.entry # None => holder = Fci
    /\ rpc.entry # None => holder = SlaveOf[rpc.req.who]

EntriesInv == Owned /\ EntriesLive

FullInv == IInv /\ Shapes /\ (~reused => EntriesInv)

\* An identifier that was used stays reused.
LEMMA ReusedStays ==
    ASSUME Shapes, \/ \E who : Lock(who) \/ LockOwned(who) \/ Unlock(who)
                   \/ UNCHANGED lockVars
    PROVE  reused => reused'
  BY DEF Lock, LockOwned, Unlock, lockVars

\* Whose entry is with whom: the slave of the call that is served has a name
\* that no driver thread has.
LEMMA ServedSlave ==
    ASSUME RpcShape, rpc.entry # None
    PROVE  SlaveOf[rpc.req.who] \in Slaves
  BY IfDbAssumption DEF RpcShape, Sent

\* While a driver thread has the lock nobody else has an entry.
LEMMA AloneHost ==
    ASSUME Shapes, Owned, NEW h \in Hosts, holder \in {h, None}
    PROVE  /\ \A k \in Hosts \ {h} : Held(k) = None
           /\ fci.entry = None /\ rpc.entry = None
  BY NamesApart, ServedSlave DEF Owned, Shapes

LEMMA HostEntries ==
    ASSUME FullInv, NEW h \in Hosts, Host(h), ~reused'
    PROVE  EntriesInv'
  <1>1. /\ HostShape' /\ ListInv' /\ LockShape'
        /\ \A k \in Hosts \ {h} : host'[k] = host[k]
        /\ Range(list) \subseteq Range(list') \/ Holds(host[h].session)
        /\ \/ Held(h)' = None
           \/ /\ Held(h)' \in Range(list) /\ list' = list
              /\ UNCHANGED lockVars /\ Holds(host[h].session)
        /\ \/ HostLock(h)
           \/ UNCHANGED lockVars
           \/ Unlock(host[h].session) /\ Held(h)' = None
    BY HostStep DEF FullInv
  <1>2. fci' = fci /\ rpc' = rpc
    BY DEF Host, HostLock, HostLockFails, HostAdd, HostFind, HostRemove, HostSweep,
      HostSweepOut, HostUnlock, HostRead, hostFrame
  <1>3. ~reused /\ Owned /\ EntriesLive
    BY <1>1, ReusedStays DEF FullInv, EntriesInv, HostLock
  <1>4. Holds(host[h].session) => holder = h
    BY <1>3, OnlyTheHolder DEF FullInv
  <1>5. CASE holder \in {h, None}
    <2>1. /\ \A k \in Hosts \ {h} : Held(k) = None
          /\ fci.entry = None /\ rpc.entry = None
      BY <1>3, <1>5, AloneHost DEF FullInv
    <2>2. Held(h)' # None => holder' = h
      BY <1>1, <1>4 DEF lockVars
    <2>3. Owned'
      BY <1>1, <1>2, <2>1, <2>2 DEF Owned, Held, At
    <2>4. EntriesLive'
      BY <1>1, <1>2, <2>1 DEF EntriesLive, Held, At
    <2> QED BY <2>3, <2>4 DEF EntriesInv
  <1>6. CASE holder \notin {h, None}
    <2>1. ~Holds(host[h].session) /\ locked
      BY <1>4, <1>6 DEF FullInv, IInv, HolderLocked
    <2>2. UNCHANGED lockVars /\ Held(h)' = None /\ Range(list) \subseteq Range(list')
      BY <1>1, <2>1 DEF HostLock, Lock, Unlock
    <2>3. Owned'
      BY <1>1, <1>2, <1>3, <2>2 DEF Owned, Held, At, lockVars
    <2>4. EntriesLive'
      BY <1>1, <1>2, <1>3, <2>2 DEF EntriesLive, Held, At
    <2> QED BY <2>3, <2>4 DEF EntriesInv
  <1> QED BY <1>5, <1>6

LEMMA FciEntries ==
    ASSUME FullInv, FciWorker, ~reused'
    PROVE  EntriesInv'
  <1>1. /\ FciShape' /\ ListInv' /\ LockShape'
        /\ Range(list) \subseteq Range(list') \/ Holds(fciSession)
        /\ \/ fci'.entry = None
           \/ fci' = fci /\ list' = list /\ UNCHANGED lockVars
           \/ /\ fci'.entry \in Range(list) /\ list' = list
              /\ UNCHANGED lockVars /\ Holds(fciSession)
        /\ \/ Lock(Fci) /\ fci.entry = None /\ fci' = fci
           \/ UNCHANGED lockVars
           \/ Unlock(fciSession) /\ fci.entry = None /\ fci' = fci
    BY FciStep DEF FullInv
  <1>2. host' = host /\ rpc' = rpc
    BY DEF FciWorker, FciLock, FciUnlock, FciRegister, FciFind, FciUpdate, FciDeregister,
      FciQuery, fciFrame
  <1>3. ~reused /\ Owned /\ EntriesLive
    BY <1>1, ReusedStays DEF FullInv, EntriesInv
  <1>4. Holds(fciSession) => holder = Fci
    BY <1>3, OnlyTheHolder DEF FullInv
  <1>5. CASE holder \in {Fci, None}
    <2>1. (\A k \in Hosts : Held(k) = None) /\ rpc.entry = None
      BY <1>3, <1>5, NamesApart, ServedSlave DEF Owned, FullInv, Shapes
    <2>2. fci'.entry # None => holder' = Fci
      BY <1>1, <1>3, <1>4 DEF Owned, lockVars
    <2>3. Owned'
      BY <1>2, <2>1, <2>2 DEF Owned, Held, At
    <2>4. EntriesLive'
      BY <1>1, <1>2, <1>3, <2>1 DEF EntriesLive, Held, At
    <2> QED BY <2>3, <2>4 DEF EntriesInv
  <1>6. CASE holder \notin {Fci, None}
    <2>1. ~Holds(fciSession) /\ locked /\ fci.entry = None
      BY <1>3, <1>4, <1>6 DEF Owned, FullInv, IInv, HolderLocked
    <2>2. UNCHANGED lockVars /\ fci'.entry = None /\ Range(list) \subseteq Range(list')
      BY <1>1, <2>1 DEF Lock, Unlock
    <2>3. Owned'
      BY <1>2, <1>3, <2>2 DEF Owned, Held, At, lockVars
    <2>4. EntriesLive'
      BY <1>2, <1>3, <2>2 DEF EntriesLive, Held, At
    <2> QED BY <2>3, <2>4 DEF EntriesInv
  <1> QED BY <1>5, <1>6

LEMMA RpcEntries ==
    ASSUME FullInv, NEW s \in Slaves, Rpc(s), ~reused'
    PROVE  EntriesInv'
  <1>1. /\ UNCHANGED <<host, fciSession, fci>>
        /\ rpc.entry # None => SlaveOf[rpc.req.who] = s
        /\ Range(list) \subseteq Range(list') \/ Holds(s)
        /\ \/ rpc'.entry = None
           \/ /\ rpc'.entry \in Range(list) /\ list' = list
              /\ SlaveOf[rpc'.req.who] = s
              /\ UNCHANGED lockVars /\ Holds(s)
        /\ \/ LockOwned(s) /\ rpc'.entry = None
           \/ UNCHANGED lockVars
           \/ Unlock(s) /\ rpc'.entry = None
    BY RpcStep DEF FullInv
  <1>2. ~reused /\ Owned /\ EntriesLive
    BY <1>1, ReusedStays DEF FullInv, EntriesInv
  <1>3. Holds(s) => holder = s
    BY <1>2, OnlyTheHolder DEF FullInv
  <1>4. CASE holder \in {s, None}
    <2>1. (\A k \in Hosts : Held(k) = None) /\ fci.entry = None
      BY <1>2, <1>4, NamesApart DEF Owned
    <2>2. rpc'.entry # None => holder' = SlaveOf[rpc'.req.who]
      BY <1>1, <1>3 DEF lockVars
    <2>3. Owned'
      BY <1>1, <2>1, <2>2 DEF Owned, Held, At
    <2>4. EntriesLive'
      BY <1>1, <2>1 DEF EntriesLive, Held, At
    <2> QED BY <2>3, <2>4 DEF EntriesInv
  <1>5. CASE holder \notin {s, None}
    <2>1. ~Holds(s) /\ locked
      BY <1>3, <1>5 DEF FullInv, IInv, HolderLocked
    <2>2. UNCHANGED lockVars /\ rpc'.entry = None /\ Range(list) \subseteq Range(list')
      BY <1>1, <2>1 DEF LockOwned, Unlock
    <2>3. Owned'
      BY <1>1, <1>2, <2>2 DEF Owned, Held, At, lockVars
    <2>4. EntriesLive'
      BY <1>1, <1>2, <2>2 DEF EntriesLive, Held, At
    <2> QED BY <2>3, <2>4 DEF EntriesInv
  <1> QED BY <1>4, <1>5

\* A step of a slave's thread or of the transport.
LEMMA RemoteEntries ==
    ASSUME FullInv, UNCHANGED slaveFrame, rpc'.entry = rpc.entry,
           rpc.entry # None => rpc'.req.who = rpc.req.who, ~reused'
    PROVE  EntriesInv'
  <1>1. UNCHANGED <<host, fci, list, holder, reused>>
    BY DEF slaveFrame, lockVars, dbVars
  <1>2. Owned' /\ EntriesLive'
    BY <1>1 DEF FullInv, EntriesInv, Owned, EntriesLive, Held, At
  <1> QED BY <1>2 DEF EntriesInv

-----------------------------------------------------------------------------
(* The invariant                                                           *)

LEMMA FullInit == Init => FullInv
  <1> SUFFICES ASSUME Init PROVE FullInv
    OBVIOUS
  <1> USE DEF Init
  <1>1. LockShape
    BY Widths, IfDbAssumption DEF LockShape, Seeds
  <1>2. ListInv
    <2>1. Perm(list) /\ Range(list) = {}
      BY DEF Perm, IsInjective, Range
    <2>2. Rest(list, cur) = {}
      BY DEF Rest
    <2> QED BY <2>1, <2>2, CompleteIs DEF ListInv, ListShape, CursorLive
  <1>3. HostShape /\ FciShape /\ RpcShape
    BY Widths DEF HostShape, FciShape, RpcShape, IdleHost, IdleFci, IdleRpc, Progress, Entries
  <1>4. ChanShape
    <2>1. <<>> \in Seq(Sent) /\ Len(<<>>) = 0
      OBVIOUS
    <2> QED BY <2>1 DEF ChanShape
  <1>5. CallShape
    BY IfDbAssumption DEF CallShape
  <1>6. EntriesInv
    BY DEF EntriesInv, Owned, EntriesLive, Held, At, IdleHost, IdleFci, IdleRpc
  <1> QED BY <1>1, <1>2, <1>3, <1>4, <1>5, <1>6, Initially DEF FullInv, Shapes

LEMMA FullKeeps == FullInv /\ [Next]_vars => FullInv'
  <1> SUFFICES ASSUME FullInv, [Next]_vars PROVE FullInv'
    OBVIOUS
  <1>0. IInv' /\ Shapes
    BY StepKeeps DEF FullInv
  <1>1. ASSUME NEW h \in Hosts, Host(h) PROVE FullInv'
    <2>1. UNCHANGED hostFrame
      BY <1>1 DEF Host, HostLock, HostLockFails, HostAdd, HostFind, HostRemove, HostSweep,
        HostSweepOut, HostUnlock, HostRead
    <2>2. FciShape' /\ RpcShape' /\ ChanShape' /\ CallShape'
      BY <1>0, <2>1 DEF hostFrame, slaveVars, Shapes, FciShape, RpcShape, ChanShape, CallShape
    <2>3. HostShape' /\ ListInv' /\ LockShape'
      BY <1>0, <1>1, HostStep
    <2>4. ~reused' => EntriesInv'
      BY <1>1, HostEntries
    <2> QED BY <1>0, <2>2, <2>3, <2>4 DEF FullInv, Shapes
  <1>2. ASSUME FciWorker PROVE FullInv'
    <2>1. UNCHANGED fciFrame
      BY <1>2 DEF FciWorker, FciLock, FciUnlock, FciRegister, FciFind, FciUpdate,
        FciDeregister, FciQuery
    <2>2. HostShape' /\ RpcShape' /\ ChanShape' /\ CallShape'
      BY <1>0, <2>1 DEF fciFrame, slaveVars, Shapes, HostShape, RpcShape, ChanShape, CallShape
    <2>3. FciShape' /\ ListInv' /\ LockShape'
      BY <1>0, <1>2, FciStep
    <2>4. ~reused' => EntriesInv'
      BY <1>2, FciEntries
    <2> QED BY <1>0, <2>2, <2>3, <2>4 DEF FullInv, Shapes
  <1>3. ASSUME NEW t \in Threads, SlaveThread(t) PROVE FullInv'
    <2>1. /\ RpcShape' /\ ChanShape' /\ CallShape' /\ UNCHANGED slaveFrame
          /\ rpc'.entry = rpc.entry
          /\ rpc.entry # None => rpc'.req.who = rpc.req.who
      BY <1>0, <1>3, ThreadStep
    <2>2. LockShape' /\ ListInv' /\ HostShape' /\ FciShape'
      BY <1>0, <2>1, LockSame, StillListed DEF slaveFrame, Shapes, HostShape, FciShape
    <2>3. ~reused' => EntriesInv'
      BY <2>1, RemoteEntries
    <2> QED BY <1>0, <2>1, <2>2, <2>3 DEF FullInv, Shapes
  <1>4. ASSUME NEW s \in Slaves, LoseRequest(s) PROVE FullInv'
    <2>1. ChanShape' /\ CallShape' /\ UNCHANGED <<slaveFrame, rpc>>
      BY <1>0, <1>4, LoseStep
    <2>2. LockShape' /\ ListInv' /\ HostShape' /\ FciShape' /\ RpcShape'
      BY <1>0, <2>1, LockSame, StillListed DEF slaveFrame, Shapes, HostShape, FciShape, RpcShape
    <2>3. ~reused' => EntriesInv'
      BY <2>1, RemoteEntries
    <2> QED BY <1>0, <2>1, <2>2, <2>3 DEF FullInv, Shapes
  <1>5. ASSUME NEW s \in Slaves, Rpc(s) PROVE FullInv'
    <2>1. /\ RpcShape' /\ ChanShape' /\ CallShape' /\ ListInv' /\ LockShape'
          /\ UNCHANGED <<host, fciSession, fci>>
      BY <1>0, <1>5, RpcStep
    <2>2. HostShape' /\ FciShape'
      BY <1>0, <2>1 DEF Shapes, HostShape, FciShape
    <2>3. ~reused' => EntriesInv'
      BY <1>5, RpcEntries
    <2> QED BY <1>0, <2>1, <2>2, <2>3 DEF FullInv, Shapes
  <1>6. ASSUME UNCHANGED vars PROVE FullInv'
    <2>1. UNCHANGED <<slaveFrame, rpc, chan, slaveVars, faults, lost>>
      BY <1>6 DEF vars, slaveFrame
    <2>2. LockShape' /\ ListInv' /\ HostShape' /\ FciShape' /\ RpcShape'
      BY <1>0, <2>1, LockSame, StillListed DEF slaveFrame, Shapes, HostShape, FciShape, RpcShape
    <2>3. ChanShape' /\ CallShape'
      BY <1>0, <2>1 DEF slaveVars, Shapes, ChanShape, CallShape
    <2>4. ~reused' => EntriesInv'
      BY <2>1, RemoteEntries
    <2> QED BY <1>0, <2>2, <2>3, <2>4 DEF FullInv, Shapes
  <1> QED BY <1>1, <1>2, <1>3, <1>4, <1>5, <1>6 DEF Next

\* An interface that was looked up (pfe_if_db_get_first, _get_next) stays
\* registered until its user is done with it, and a listing goes on at an
\* interface that is registered or at the end (pfe_if_db_remove moves the
\* cursor), for all constants that meet IfDbAssumption.
THEOREM PointersValid == Spec => []PointersInv
  <1>1. FullInv => PointersInv
    <2>1. FullInv => (~reused => EntriesLive)
      BY DEF FullInv, EntriesInv
    <2>2. FullInv => EntriesLive
      BY <2>1 DEF EntriesLive
    <2> QED BY <2>2, TypesHold DEF FullInv, Shapes, ListInv, PointersInv
  <1> QED BY <1>1, FullInit, FullKeeps, PTL DEF Spec

\* A listing of all interfaces (pfe_if_db_get_first, _get_next) returns each
\* interface once, whatever is removed meanwhile, if there are at least two
\* that may be registered.
THEOREM ListingIsComplete == ASSUME Several PROVE Spec => []ListingComplete
  <1>1. FullInv => ListingComplete
    BY Several DEF FullInv, Shapes, ListInv
  <1> QED BY <1>1, FullInit, FullKeeps, PTL DEF Spec
=============================================================================
