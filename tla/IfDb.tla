-------------------------------- MODULE IfDb --------------------------------
(***************************************************************************)
(* The database of the logical interfaces and its lock (pfe_if_db.c), with *)
(* those that use them: driver threads of the master that register, look   *)
(* up and unregister interfaces (pfe_platform_master.c), the FCI worker    *)
(* that serves the user's clients (fci_interfaces.c), and the threads of   *)
(* slave drivers, whose calls the master executes one after the other      *)
(* (pfe_log_if_slave.c, pfe_platform_idex_rpc_cbk).                        *)
(*                                                                         *)
(* The lock does not block and is not tied to a thread: it is held by a    *)
(* session identifier, and every operation says which.  What runs under    *)
(* the mutex is one step.                                                  *)
(***************************************************************************)
EXTENDS Integers, SequencesExt, FiniteSetsExt

CONSTANTS
    Hosts,      \* driver threads of the master
    FciClients, \* users of libfci
    Slaves,     \* slave drivers, by the identifier that names their session
    Threads,    \* their threads
    SlaveOf,    \* SlaveOf[t]: the driver of thread t
    Ifaces,     \* logical interfaces that may exist
    U32,        \* 2^32
    FirstSeed,  \* 123
    MaxTries,   \* bound: attempts of a slave to get the lock, 1500
    MaxFaults,  \* bound: requests of slaves lost or late
    Fci, None, EndOfList

ASSUME IfDbAssumption ==
    /\ U32 \in Nat /\ U32 % 16 = 0 /\ U32 >= 32
    /\ FirstSeed \in 0 .. U32 \div 16 - 1
    /\ Slaves \subseteq 1 .. 15 /\ SlaveOf \in [Threads -> Slaves]
    /\ MaxTries \in Nat \ {0} /\ MaxFaults \in Nat
    /\ None \notin Ifaces /\ EndOfList \notin Ifaces
    /\ Fci # None /\ {Fci, None} \cap (Hosts \cup Slaves) = {} /\ Hosts \cap Slaves = {}

\* Only the low bits of the seed get into a session identifier.
Seeds == 0 .. U32 \div 16 - 1

VARIABLES
    locked, session, seed,  \* if_db_context
    list,       \* db->theList, the registered interfaces
    cur,        \* db->cur_item
    crit,       \* db->cur_crit and its argument: the interfaces that match
    host,       \* each driver thread: progress, session_id, the entry it holds
    fciSession, \* fci_context->if_session_id
    fci,        \* the FCI worker: progress and the entry it holds
    rpc,        \* the handler of calls: progress, entry and request
    chan,       \* requests on their way from each slave
    call,       \* the call each thread of a slave is in
    tries,      \* failed attempts to get the lock
    rep,        \* the answer to the call
    faults,     \* requests lost or late so far
    holder,     \* ghost: who got the lock last and has not had it released
    client,     \* ghost: the user's client that got it
    listed,     \* ghost: what the listing under way has returned
    reused,     \* ghost: a session has got an identifier that is still used
    lost        \* ghost: an unlock request of the slave has been lost

lockVars == <<locked, session, seed, holder, client, reused>>
dbVars == <<list, cur, crit, listed>>
slaveVars == <<call, tries, rep>>
vars == <<lockVars, dbVars, host, fciSession, fci, rpc, chan, slaveVars, faults, lost>>

Calls == {"lock", "create", "destroy", "use", "unlock"}
Request == [who : Threads, call : Calls, iface : Ifaces, live : BOOLEAN]
NoRequest == [call |-> "none"]
IdleHost == [pc |-> "idle", session |-> 0, entry |-> None]
IdleFci == [pc |-> "idle", entry |-> None]
IdleRpc == [pc |-> "idle", entry |-> None, req |-> NoRequest]

\* pfe_if_db_create
Init ==
    /\ locked = FALSE /\ session = 0 /\ seed = FirstSeed
    /\ list = <<>> /\ cur = EndOfList /\ crit = Ifaces
    /\ host = [h \in Hosts |-> IdleHost]
    /\ fciSession = 0 /\ fci = IdleFci /\ rpc = IdleRpc
    /\ chan = [s \in Slaves |-> <<>>]
    /\ call = [t \in Threads |-> "idle"]
    /\ tries = [t \in Threads |-> 0] /\ rep = [t \in Threads |-> "none"]
    /\ faults = 0
    /\ holder = None /\ client = None /\ listed = {} /\ reused = FALSE
    /\ lost = [s \in Slaves |-> FALSE]

-----------------------------------------------------------------------------
(* The lock                                                                *)

NewSeed == (seed + 1) % (U32 \div 16)

\* Fault: the identifier is not cut to 32 bits.
NewSessionWide == (seed + 1) * 16

NewSession == NewSeed * 16

\* pfe_if_db_lock.  A lookup that did not get the lock goes on with 0, and
\* the FCI worker with the identifier of its last session.
Lock(who) ==
    /\ ~locked
    /\ locked' = TRUE
    /\ seed' = NewSeed
    /\ session' = NewSession
    /\ holder' = who
    /\ reused' = (reused \/ NewSession = 0 \/ (who # Fci /\ NewSession = fciSession))

\* pfe_if_db_lock_owned
LockOwned(name) ==
    /\ ~locked
    /\ locked' = TRUE
    /\ session' = name
    /\ holder' = name
    /\ UNCHANGED <<seed, client, reused>>

Holds(id) == locked /\ session = id

\* Fault: whoever unlocks, the lock is released.
UnlockAny(id) ==
    IF locked
    THEN /\ locked' = FALSE
         /\ session' = ((U32 - 1 - session) * 16) % U32
         /\ holder' = None /\ client' = None
         /\ UNCHANGED <<seed, reused>>
    ELSE UNCHANGED lockVars

\* pfe_if_db_unlock
Unlock(id) ==
    IF Holds(id)
    THEN /\ locked' = FALSE
         /\ session' = ((U32 - 1 - session) * 16) % U32
         /\ holder' = None /\ client' = None
         /\ UNCHANGED <<seed, reused>>
    ELSE UNCHANGED lockVars

-----------------------------------------------------------------------------
(* The list                                                                *)

After(i) == IF i = Len(list) THEN EndOfList ELSE list[i + 1]

PositionOf(x) == CHOOSE i \in 1 .. Len(list) : list[i] = x

\* The first interface from position i on that matches, and where to go on.
From(i, c) ==
    LET matches == {j \in i .. Len(list) : list[j] \in c}
    IN  IF matches = {} THEN [entry |-> None, next |-> EndOfList]
        ELSE [entry |-> list[Min(matches)], next |-> After(Min(matches))]

Returned(x) == {x} \ {None}

\* Fault: the lock is not looked at.
FoundUnlocked(id, c) == From(1, c).entry

Found(id, c) == IF Holds(id) THEN From(1, c).entry ELSE None

\* pfe_if_db_get_first
GetFirst(id, c) ==
    IF Holds(id)
    THEN /\ crit' = c
         /\ cur' = IF list = <<>> THEN cur ELSE From(1, c).next
         /\ listed' = Returned(From(1, c).entry)
         /\ UNCHANGED list
    ELSE UNCHANGED dbVars

\* pfe_if_db_get_next
Following(id) ==
    IF Holds(id) /\ cur # EndOfList THEN From(PositionOf(cur), crit).entry ELSE None

\* Fault: the position is not saved when an interface is found.
GetNextStays(id) ==
    IF Holds(id) /\ cur # EndOfList
    THEN /\ cur' = cur
         /\ listed' = listed \cup Returned(Following(id))
         /\ UNCHANGED <<list, crit>>
    ELSE UNCHANGED dbVars

GetNext(id) ==
    IF Holds(id) /\ cur # EndOfList
    THEN /\ cur' = From(PositionOf(cur), crit).next
         /\ listed' = listed \cup Returned(Following(id))
         /\ UNCHANGED <<list, crit>>
    ELSE UNCHANGED dbVars

\* pfe_if_db_add of an interface just created, which first looks for it
Add(id, x) ==
    IF Holds(id)
    THEN /\ list' \in {Append(list, x), list}  \* ENOMEM
         /\ crit' = {x}
         /\ cur' = EndOfList
         /\ listed' = {}
    ELSE UNCHANGED dbVars

Unlinked(x) ==
    IF x \in Range(list) THEN RemoveAt(list, PositionOf(x)) ELSE list

\* Fault: the removed interface stays the current one.
RemoveEntryUnderCursor(id, x) ==
    IF Holds(id)
    THEN /\ list' = Unlinked(x)
         /\ listed' = listed \ {x}
         /\ UNCHANGED <<cur, crit>>
    ELSE UNCHANGED dbVars

\* pfe_if_db_remove
RemoveEntry(id, x) ==
    IF Holds(id)
    THEN /\ list' = Unlinked(x)
         /\ cur' = IF cur = x THEN After(PositionOf(x)) ELSE cur
         /\ listed' = listed \ {x}
         /\ UNCHANGED crit
    ELSE UNCHANGED dbVars

New == Ifaces \ Range(list)

-----------------------------------------------------------------------------
(* Driver threads of the master                                            *)

hostFrame == <<fciSession, fci, rpc, chan, slaveVars, faults, lost>>

At(h, pc) == host[h].pc = pc
Go(h, pc, entry) == host' = [host EXCEPT ![h].pc = pc, ![h].entry = entry]

HostLock(h) ==
    /\ At(h, "idle")
    /\ Lock(h)
    /\ host' = [host EXCEPT ![h] = [pc |-> "locked", session |-> session', entry |-> None]]
    /\ UNCHANGED <<client, dbVars, hostFrame>>

\* pfe_platform_get_log_if_by_id, _by_name: the lookup goes on without lock.
HostLockFails(h) ==
    /\ At(h, "idle") /\ locked
    /\ Go(h, "unlocked", None)
    /\ UNCHANGED <<lockVars, dbVars, hostFrame>>

\* pfe_platform_register_log_if
HostAdd(h) ==
    /\ At(h, "locked")
    /\ \E x \in New : Add(host[h].session, x)
    /\ Go(h, "done", None)
    /\ UNCHANGED <<lockVars, hostFrame>>

\* The lookups, pfe_platform_unregister_log_if
HostFind(h) ==
    /\ At(h, "locked") \/ At(h, "unlocked")
    /\ \E x \in Ifaces :
        LET found == Found(host[h].session, {x})
        IN  /\ GetFirst(host[h].session, {x})
            /\ Go(h, IF found = None THEN "done" ELSE "found", found)
    /\ UNCHANGED <<lockVars, hostFrame>>

HostRemove(h) ==
    /\ At(h, "found")
    /\ RemoveEntry(host[h].session, host[h].entry)
    /\ Go(h, "done", None)
    /\ UNCHANGED <<lockVars, hostFrame>>

\* pfe_platform_destroy_ifaces
HostSweep(h) ==
    /\ At(h, "locked") \/ At(h, "next")
    /\ LET first == At(h, "locked")
           found == IF first THEN Found(host[h].session, Ifaces)
                    ELSE Following(host[h].session)
       IN  /\ IF first THEN GetFirst(host[h].session, Ifaces) ELSE GetNext(host[h].session)
           /\ Go(h, IF found = None THEN "done" ELSE "sweep", found)
    /\ UNCHANGED <<lockVars, hostFrame>>

HostSweepOut(h) ==
    /\ At(h, "sweep")
    /\ RemoveEntry(host[h].session, host[h].entry)
    /\ Go(h, "next", None)
    /\ UNCHANGED <<lockVars, hostFrame>>

\* A lookup has still to read the entry it has found, and the session
\* identifier has no more use.
HostUnlock(h) ==
    /\ At(h, "found") \/ At(h, "done")
    /\ Unlock(host[h].session)
    /\ host' = [host EXCEPT ![h] =
                    IF At(h, "found") THEN [pc |-> "read", session |-> 0, entry |-> @.entry]
                    ELSE IdleHost]
    /\ UNCHANGED <<dbVars, hostFrame>>

\* pfe_if_db_entry_get_log_if, of memory that may be free by now
HostRead(h) ==
    /\ At(h, "read")
    /\ Go(h, "idle", None)
    /\ UNCHANGED <<lockVars, dbVars, hostFrame>>

Host(h) ==
    \/ HostLock(h) \/ HostLockFails(h) \/ HostAdd(h) \/ HostFind(h) \/ HostRemove(h)
    \/ HostSweep(h) \/ HostSweepOut(h) \/ HostUnlock(h) \/ HostRead(h)

-----------------------------------------------------------------------------
(* The FCI worker, one command of a client after the other                 *)

fciFrame == <<host, rpc, chan, slaveVars, faults, lost>>

\* FPP_CMD_IF_LOCK_SESSION
FciLock(c) ==
    /\ fci.pc = "idle"
    /\ Lock(Fci)
    /\ fciSession' = session' /\ client' = c
    /\ UNCHANGED <<dbVars, fci, fciFrame>>

\* FPP_CMD_IF_UNLOCK_SESSION
FciUnlock(c) ==
    /\ fci.pc = "idle"
    /\ Unlock(fciSession)
    /\ UNCHANGED <<dbVars, fciSession, fci, fciFrame>>

\* FPP_CMD_LOG_IF with FPP_ACTION_REGISTER
FciRegister ==
    /\ fci.pc = "idle"
    /\ \E x \in New : Add(fciSession, x)
    /\ UNCHANGED <<lockVars, fciSession, fci, fciFrame>>

\* FPP_ACTION_UPDATE and FPP_ACTION_DEREGISTER up to the lookup
FciFind ==
    /\ fci.pc = "idle"
    /\ \E x \in Ifaces :
        LET found == Found(fciSession, {x})
        IN  /\ GetFirst(fciSession, {x})
            /\ fci' = [pc |-> IF found = None THEN "idle" ELSE "found", entry |-> found]
    /\ UNCHANGED <<lockVars, fciSession, fciFrame>>

FciUpdate ==
    /\ fci.pc = "found"
    /\ fci' = IdleFci
    /\ UNCHANGED <<lockVars, dbVars, fciSession, fciFrame>>

FciDeregister ==
    /\ fci.pc = "found"
    /\ RemoveEntry(fciSession, fci.entry)
    /\ fci' = IdleFci
    /\ UNCHANGED <<lockVars, fciSession, fciFrame>>

\* FPP_ACTION_QUERY, FPP_ACTION_QUERY_CONT
FciQuery ==
    /\ fci.pc = "idle"
    /\ GetFirst(fciSession, Ifaces) \/ GetNext(fciSession)
    /\ UNCHANGED <<lockVars, fciSession, fci, fciFrame>>

FciWorker ==
    \/ \E c \in FciClients : FciLock(c) \/ FciUnlock(c)
    \/ FciRegister \/ FciFind \/ FciUpdate \/ FciDeregister \/ FciQuery

-----------------------------------------------------------------------------
(* Slaves                                                                  *)

slaveFrame == <<lockVars, dbVars, host, fciSession, fci>>

Mine(t, r) == r.call # "none" /\ r.who = t /\ r.live

\* The call of the thread is still on its way or being served.
Pending(t) ==
    \/ Mine(t, rpc.req)
    \/ \E i \in DOMAIN chan[SlaveOf[t]] : Mine(t, chan[SlaveOf[t]][i])

\* An answer to a request nobody waits for is dropped.
Forsake(t, r) == IF Mine(t, r) THEN [r EXCEPT !.live = FALSE] ELSE r

\* The thread goes on to a call; the last one is forsaken if it waits still.
Proceed(t, c) ==
    LET s == SlaveOf[t]
        left == [i \in DOMAIN chan[s] |-> Forsake(t, chan[s][i])]
    IN  /\ call' = [call EXCEPT ![t] = c]
        /\ rep' = [rep EXCEPT ![t] = "none"]
        /\ rpc' = [rpc EXCEPT !.req = Forsake(t, @)]
        /\ \E x \in IF c \in {"destroy", "use"} THEN Ifaces ELSE {None} :
            chan' = [chan EXCEPT ![s] =
                        IF c = "idle" THEN left
                        ELSE Append(left, [who |-> t, call |-> c, iface |-> x, live |-> TRUE])]

SlaveStart(t) ==
    /\ call[t] = "idle"
    /\ Proceed(t, "lock")
    /\ tries' = [tries EXCEPT ![t] = 1]
    /\ UNCHANGED <<slaveFrame, faults, lost>>

\* Fault: the lock is left when the operation is over.
NextCallNoUnlock(t) ==
    IF call[t] = "lock" THEN \E c \in {"create", "destroy", "use"} : Proceed(t, c)
    ELSE Proceed(t, "idle")

\* The operation is called whether the lock was got or not, and then the
\* lock released.
NextCall(t) ==
    CASE call[t] = "lock" -> \E c \in {"create", "destroy", "use"} : Proceed(t, c)
      [] call[t] \in {"create", "destroy", "use"} -> Proceed(t, "unlock")
      [] OTHER -> Proceed(t, "idle")

\* pfe_log_if_db_lock tries for 1.5 s.
SlaveRetry(t) ==
    /\ call[t] = "lock" /\ rep[t] = "ENOLCK" /\ tries[t] < MaxTries
    /\ Proceed(t, "lock")
    /\ tries' = [tries EXCEPT ![t] = @ + 1]
    /\ UNCHANGED <<slaveFrame, faults, lost>>

SlaveGoOn(t) ==
    /\ rep[t] # "none"
    /\ ~(call[t] = "lock" /\ rep[t] = "ENOLCK" /\ tries[t] < MaxTries)
    /\ NextCall(t)
    /\ tries' = [tries EXCEPT ![t] = 0]
    /\ UNCHANGED <<slaveFrame, faults, lost>>

\* The transport failed, or the master is late.
SlaveTimeout(t) ==
    /\ call[t] # "idle" /\ rep[t] = "none"
    /\ Pending(t) => faults < MaxFaults
    /\ faults' = IF Pending(t) THEN faults + 1 ELSE faults
    /\ NextCall(t)
    /\ tries' = [tries EXCEPT ![t] = 0]
    /\ UNCHANGED <<slaveFrame, lost>>

LoseRequest(s) ==
    /\ chan[s] # <<>> /\ faults < MaxFaults
    /\ faults' = faults + 1
    /\ chan' = [chan EXCEPT ![s] = Tail(@)]
    /\ lost' = [lost EXCEPT ![s] = @ \/ Head(chan[s]).call = "unlock"]
    /\ UNCHANGED <<slaveFrame, rpc, slaveVars>>

Answer(r, ret) == rep' = IF r.live THEN [rep EXCEPT ![r.who] = ret] ELSE rep

\* pfe_platform_idex_rpc_cbk
RpcTake(s) ==
    /\ rpc.pc = "idle" /\ chan[s] # <<>>
    /\ chan' = [chan EXCEPT ![s] = Tail(@)]
    /\ LET r == Head(chan[s]) IN
        \/ /\ r.call = "lock"
           /\ LockOwned(s) \/ (locked /\ UNCHANGED lockVars)
           /\ Answer(r, IF locked THEN "ENOLCK" ELSE "EOK")
           /\ UNCHANGED <<dbVars, rpc, lost>>
        \/ /\ r.call = "unlock"
           /\ Unlock(s)
           /\ Answer(r, IF Holds(s) THEN "EOK" ELSE "ENOLCK")
           /\ lost' = [lost EXCEPT ![s] = FALSE]
           /\ UNCHANGED <<dbVars, rpc>>
        \/ /\ r.call = "create"
           /\ \/ \E x \in New : Add(s, x)
              \/ New = {} /\ UNCHANGED dbVars
           /\ Answer(r, "done")
           /\ UNCHANGED <<lockVars, rpc, lost>>
        \/ /\ r.call \in {"destroy", "use"}
           /\ GetFirst(s, {r.iface})
           /\ IF Found(s, {r.iface}) = None THEN Answer(r, "done") /\ UNCHANGED rpc
              ELSE rpc' = [pc |-> "found", entry |-> r.iface, req |-> r] /\ UNCHANGED rep
           /\ UNCHANGED <<lockVars, lost>>
    /\ UNCHANGED <<host, fciSession, fci, call, tries, faults>>

\* With the interface found: for PFE_PLATFORM_RPC_PFE_LOG_IF_DESTROY it is
\* looked up again, by its address, and removed.
RpcFinish(s) ==
    /\ rpc.pc = "found" /\ SlaveOf[rpc.req.who] = s
    /\ IF rpc.req.call = "destroy" /\ Found(s, {rpc.entry}) # None
       THEN RemoveEntry(s, rpc.entry) ELSE UNCHANGED dbVars
    /\ Answer(rpc.req, "done")
    /\ rpc' = IdleRpc
    /\ UNCHANGED <<lockVars, host, fciSession, fci, chan, call, tries, faults, lost>>

SlaveThread(t) == SlaveStart(t) \/ SlaveRetry(t) \/ SlaveGoOn(t) \/ SlaveTimeout(t)
Rpc(s) == RpcTake(s) \/ RpcFinish(s)

Next ==
    \/ \E h \in Hosts : Host(h)
    \/ FciWorker
    \/ \E t \in Threads : SlaveThread(t)
    \/ \E s \in Slaves : LoseRequest(s) \/ Rpc(s)

Spec == Init /\ [][Next]_vars

\* A thread of a slave goes on when it is answered and when nothing can come,
\* and the master serves requests; nobody has to begin anything.
FairSpec ==
    /\ Spec
    /\ \A t \in Threads :
        WF_vars(SlaveRetry(t) \/ SlaveGoOn(t) \/ (~Pending(t) /\ SlaveTimeout(t)))
    /\ \A s \in Slaves : WF_vars(Rpc(s))

-----------------------------------------------------------------------------
(* Properties                                                              *)

Entries == Ifaces \cup {None}

TypeOK ==
    /\ locked \in BOOLEAN /\ session \in 0 .. U32 - 1 /\ seed \in Seeds
    /\ IsInjective(list) /\ Range(list) \subseteq Ifaces
    /\ cur \in Ifaces \cup {EndOfList} /\ crit \subseteq Ifaces
    /\ host \in [Hosts -> [pc : {"idle", "locked", "unlocked", "found", "done", "sweep", "next",
                                  "read"},
                           session : 0 .. U32 - 1, entry : Entries]]
    /\ fciSession \in 0 .. U32 - 1 /\ fci \in [pc : {"idle", "found"}, entry : Entries]
    /\ rpc.req \in Request \cup {NoRequest} \/ rpc.req.iface = None
    /\ call \in [Threads -> Calls \cup {"idle"}] /\ tries \in [Threads -> 0 .. MaxTries]
    /\ rep \in [Threads -> {"none", "EOK", "ENOLCK", "done"}]
    /\ faults \in 0 .. MaxFaults
    /\ holder \in Hosts \cup {Fci, None} \cup Slaves /\ client \in FciClients \cup {None}
    /\ listed \subseteq Ifaces /\ reused \in BOOLEAN /\ lost \in [Slaves -> BOOLEAN]

Acts(who) ==
    \/ who \in Hosts /\ Host(who)
    \/ who = Fci /\ FciWorker
    \/ who \in Slaves /\ Rpc(who)

\* Who has the lock has the database to itself: no other driver thread, FCI
\* command or call of another slave changes the list or a listing, or takes
\* the lock away, until a session identifier comes round again.
Exclusive ==
    [][\A who \in Hosts \cup {Fci} \cup Slaves :
        ~reused /\ holder \notin {None, who} /\ Acts(who)
            => UNCHANGED <<list, cur, crit, locked, session>>]_vars

\* An entry that was looked up stays registered while it is worked with,
\* although the mutex is released between the two: entries are freed when
\* they are removed.  The lookups of pfe_platform_master.c (3147, 3191) keep to
\* this only until they unlock: what they read of the entry afterwards may be
\* free, and they alone may read such an entry.
EntriesLive ==
    ~reused =>
        /\ \A h \in Hosts : ~At(h, "read") => host[h].entry \in Range(list) \cup {None}
        /\ fci.entry \in Range(list) \cup {None}
        /\ rpc.entry \in Range(list) \cup {None}

\* Where a listing goes on is an entry of the list, or its end.
CursorLive == cur \in Range(list) \cup {EndOfList}

StillToList ==
    IF cur = EndOfList THEN {} ELSE {list[i] : i \in PositionOf(cur) .. Len(list)}

\* A listing of all interfaces returns each of them once, in spite of the
\* removal of any of them.
ListingComplete ==
    crit = Ifaces => listed \cap StillToList = {} /\ Range(list) = listed \cup StillToList

\* The lock of a slave is released: by the call that took it, even if its
\* answers are late or did not come, unless its unlock request has been lost.
SlaveLockReleased ==
    \A s \in Slaves : (holder = s) ~> (holder # s \/ lost[s])

\* fpp_ext.h on FPP_CMD_IF_UNLOCK_SESSION: it fails when the database is
\* locked by some other client.
OnlyItsClientUnlocks ==
    [][\A c \in FciClients : FciUnlock(c) /\ holder = Fci /\ holder' = None => client = c]_vars

\* What is pointed to exists: the types, the entries that were looked up, but
\* for those a lookup reads after its unlock, and the place where a listing
\* goes on.
PointersInv == TypeOK /\ EntriesLive /\ CursorLive
=============================================================================
