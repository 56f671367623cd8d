------------------------------- MODULE FciCore -------------------------------
(***************************************************************************)
(* The core of the fast control interface: fci_core_linux.c and the        *)
(* ownership that fci.c and fci_owner.c enforce.                           *)
(*                                                                         *)
(* Requests of local processes arrive by netlink and are handled in the    *)
(* context of the sender, under the lock of the core; requests of slave    *)
(* drivers arrive by RPC, are handled one by one by the IDEX worker and do *)
(* not take that lock.  What keeps their commands apart is the ownership:  *)
(* a sender owns the interface explicitly, by the lock command, or only    *)
(* while its command is executed (the floating lock).                      *)
(*                                                                         *)
(* A process that registers gets a slot in the list of clients.  The       *)
(* connections it makes keep a pointer to the slot, to tell it when they   *)
(* go.  The list has a lock of its own, because connections expire in      *)
(* another thread.                                                         *)
(*                                                                         *)
(* An error that any thread logs is an item of the health monitor: the     *)
(* thread stores it and announces what is stored to all clients, wherever  *)
(* it is and whatever it holds.  Under the lock of the list errors are     *)
(* only printed.                                                           *)
(*                                                                         *)
(* Locals wait for mutexes interruptibly: a signal ends the wait if the    *)
(* mutex is taken.  Kernel threads have no signals.                        *)
(***************************************************************************)
EXTENDS Integers, Sequences, FiniteSets, SequencesExt

CONSTANTS
    Procs,       \* local processes, by their command socket
    Sockets,     \* the sockets on which a process can receive events
    Slaves,      \* slave drivers
    Local,       \* the sender of all local requests
    Worker, Ageing,   \* kernel threads: IDEX, routing table
    Others,      \* threads that only report: error polling, calls of the network stack
    Permitted,   \* the senders that may own the interface
    Slots,       \* 1 .. FCI_CFG_MAX_CLIENTS
    Conns,       \* connections
    QueueLen,    \* PFE_HM_QUEUE_LEN
    Budgets,     \* bounds: how many requests, reports and faults there are at most
    None

ASSUME FciAssumption ==
    /\ Slots = 1 .. Cardinality(Slots) /\ IsFiniteSet(Slots)
    /\ Permitted \subseteq {Local} \cup Slaves /\ Local \notin Slaves
    /\ {Worker, Ageing} \cap (Procs \cup Others) = {} /\ Worker # Ageing
    /\ Procs \cap Others = {}
    /\ None \notin {Local, Worker, Ageing} \cup Others \cup Slaves \cup Procs \cup Slots
    /\ None \notin [cmd : Procs, back : Procs \X Sockets]
    /\ QueueLen \in Nat /\ Budgets \subseteq [requests : Nat, reports : Nat, faults : Nat]

VARIABLES
    clients,    \* the list of clients: who is connected in each slot
    some,       \* __context.is_some_client
    owner,      \* lock_owner_if
    core, clientsLock, ownerMutex, rtable,  \* who holds each mutex
    conns,      \* the connections and their reference to a client
    items,      \* how many items the health monitor has stored
    pc, req,    \* every thread: progress, request
    hm,         \* every thread: progress in announcing items, in the midst of the rest
    dead,       \* processes that exited without unregistering
    signalled,  \* processes with a pending signal
    budget,     \* what the environment may still do
    leaked,     \* ghost: a request ended with the lock of the core held
    cutShort    \* ghost: the last announcement of items failed with some left

lockVars == <<core, clientsLock, ownerMutex, rtable>>
ghosts == <<leaked, cutShort>>
envVars == <<dead, signalled, budget>>
vars == <<clients, some, owner, lockVars, conns, items, pc, req, hm, envVars, ghosts>>

Threads == Procs \cup {Worker, Ageing} \cup Others
Registrations == [cmd : Procs, back : Procs \X Sockets]
Unused == [slot |-> None, maker |-> None, live |-> FALSE]
Conn == [slot : Slots \cup {None}, maker : Registrations \cup {None}, live : BOOLEAN]

\* Sessions, and commands that make or remove a connection
Commands == {<<"lock">>, <<"unlock">>} \cup ({"add", "drop"} \X Conns)
Requests(p) == Commands \cup {<<"unregister">>} \cup ({"register"} \X ({p} \X Sockets))
NoRequest == [what |-> None, sender |-> None, slot |-> None, maker |-> None,
              floating |-> FALSE]

\* Items may have been stored before the control interface starts.
Init ==
    /\ clients = [s \in Slots |-> None] /\ some = FALSE /\ owner = None
    /\ core = None /\ clientsLock = None /\ ownerMutex = None /\ rtable = None
    /\ conns = [c \in Conns |-> Unused] /\ items \in 0 .. QueueLen
    /\ pc = [t \in Threads |-> "idle"] /\ req = [t \in Threads |-> NoRequest]
    /\ hm = [t \in Threads |-> "none"] /\ dead = {} /\ signalled = {}
    /\ budget \in Budgets
    /\ leaked = FALSE /\ cutShort = FALSE

Goto(t, p) == pc' = [pc EXCEPT ![t] = p]
Ends(t) == Goto(t, "idle") /\ req' = [req EXCEPT ![t] = NoRequest]

\* Where a thread is, if it is not announcing
At(t, p) == pc[t] = p /\ hm[t] = "none"

Keeps == UNCHANGED <<clients, some, owner, conns, items, hm>>

-----------------------------------------------------------------------------
(* The environment *)

Spend(what) == budget[what] > 0 /\ budget' = [budget EXCEPT ![what] = @ - 1]

\* A local process sends a request; it waits for the reply.
Send(p, r) ==
    /\ At(p, "idle") /\ p \notin dead /\ Spend("requests")
    /\ Goto(p, "core")
    /\ req' = [req EXCEPT ![p] = [NoRequest EXCEPT !.what = r, !.sender = Local]]
    /\ Keeps /\ UNCHANGED <<lockVars, dead, signalled, ghosts>>

\* PFE_PLATFORM_RPC_PFE_FCI_PROXY: a request of a slave, without a client.
SendRemote(s, r) ==
    /\ At(Worker, "idle") /\ Spend("requests")
    /\ Goto(Worker, "owner")
    /\ req' = [req EXCEPT ![Worker] = [NoRequest EXCEPT !.what = r, !.sender = s]]
    /\ Keeps /\ UNCHANGED <<lockVars, dead, signalled, ghosts>>

\* fci_client_unbind, "invoked when client died", leaves the list as it is.
Die(p) ==
    /\ At(p, "idle") /\ p \notin dead /\ Spend("faults") /\ dead' = dead \cup {p}
    /\ Keeps /\ UNCHANGED <<lockVars, pc, req, signalled, ghosts>>

Signal(p) ==
    /\ ~At(p, "idle") /\ p \notin signalled /\ Spend("faults")
    /\ signalled' = signalled \cup {p}
    /\ Keeps /\ UNCHANGED <<lockVars, pc, req, dead, ghosts>>

-----------------------------------------------------------------------------
(* Reports to the health monitor *)

\* pfe_hm_report: with a full storage the item is dropped; then the call-back.
Reports(t) ==
    /\ items' = IF items < QueueLen THEN items + 1 ELSE items
    /\ hm' = [hm EXCEPT ![t] = "fetch"]

\* NXP_LOG_ERROR in passing: by a thread outside of a request, or executing a
\* command, with the mutexes that it holds there.
Report(t) ==
    /\ \E p \in {"idle", "exec", "notify", "end", "done"} : At(t, p)
    /\ t \notin dead /\ clientsLock # t /\ Spend("reports") /\ Reports(t)
    /\ UNCHANGED <<clients, some, owner, conns, lockVars, pc, req, dead, signalled, ghosts>>

-----------------------------------------------------------------------------
(* The list of clients *)

Connected == {s \in Slots : clients[s] # None}
First(P(_)) == SelectInSeq([s \in Slots |-> s], P)

AwaitsClients(t) ==
    IF hm[t] = "none" THEN pc[t] \in {"register", "unregister", "find", "notify"}
    ELSE hm[t] = "announce"

TakeClientsLock(t) ==
    /\ AwaitsClients(t) /\ clientsLock = None /\ clientsLock' = t
    /\ Keeps /\ UNCHANGED <<core, ownerMutex, rtable, pc, req, envVars, ghosts>>

Holding(t, p) == At(t, p) /\ clientsLock = t
UnlockClients == clientsLock' = None

\* The first slot that is free or has the socket: a duplicate further down is
\* not noticed.
SlotFor(b) == First(LAMBDA s : clients[s] = None \/ clients[s].back = b)

\* fci_core_get_count_of_clients is 1.  (The mutant is off by one.)
IsFirstBefore(cs) == Cardinality({s \in Slots : cs[s] # None}) = 0
IsFirst(cs) == Cardinality({s \in Slots : cs[s] # None}) = 1

\* FCI_MSG_CLIENT_REGISTER
Enlist(t, b) ==
    /\ Holding(t, "register")
    /\ LET s == SlotFor(b)
           added == s # 0 /\ clients[s] = None
           after == [clients EXCEPT ![s] = [cmd |-> t, back |-> b]]
       IN  IF added
           THEN /\ clients' = after /\ some' = TRUE
                /\ IF IsFirst(after)
                   THEN hm' = [hm EXCEPT ![t] = "fetch"] /\ cutShort' = FALSE
                   ELSE UNCHANGED <<hm, cutShort>>
           ELSE UNCHANGED <<clients, some, hm, cutShort>>
    /\ Goto(t, "done")
    /\ UNCHANGED <<owner, conns, items, core, ownerMutex, rtable, req, envVars, leaked>>

\* The first client gets the stored items, after the lock of the list has been
\* released.  (The mutant announces them with the lock held.)
RegisterHolding(t, b) ==
    Enlist(t, b) /\ IF hm'[t] = "fetch" THEN UNCHANGED clientsLock ELSE UnlockClients
Register(t, b) == Enlist(t, b) /\ UnlockClients

SlotOf(p) == First(LAMBDA s : clients[s] # None /\ clients[s].cmd = p)

\* The slots of the others stay where they are.  (The mutant closes the gap.)
Compacted(s) ==
    [x \in Slots |-> IF s = 0 \/ x < s THEN clients[x]
                     ELSE IF x + 1 \in Slots THEN clients[x + 1] ELSE None]
Emptied(s) == [x \in Slots |-> IF x = s THEN None ELSE clients[x]]

\* FCI_MSG_CLIENT_UNREGISTER: connections keep their reference to the slot.
\* (The ghost forgets whom they meant.)
Unregister(t) ==
    /\ Holding(t, "unregister")
    /\ LET s == SlotOf(t)
           gone == Emptied(s)
       IN  /\ clients' = gone
           /\ some' = IF s # 0 /\ \A x \in Slots : gone[x] = None THEN FALSE ELSE some
           /\ conns' = [c \in Conns |-> IF conns[c].slot = s
                                        THEN [conns[c] EXCEPT !.maker = None] ELSE conns[c]]
    /\ UnlockClients /\ Goto(t, "done")
    /\ UNCHANGED <<owner, items, core, ownerMutex, rtable, req, hm, envVars, ghosts>>

\* FCI_MSG_CMD: the client is bound to the request.
Bound(t) ==
    /\ Holding(t, "find")
    /\ LET s == SlotOf(t)
       IN  req' = [req EXCEPT ![t].slot = IF s = 0 THEN None ELSE s,
                              ![t].maker = IF s = 0 THEN None ELSE clients[s]]
    /\ UnlockClients /\ Goto(t, "owner")

\* The lock of the core stays with the request.  (The mutant releases it.)
FindAndRelease(t) ==
    /\ Bound(t) /\ core' = None
    /\ Keeps /\ UNCHANGED <<ownerMutex, rtable, envVars, ghosts>>

Find(t) ==
    /\ Bound(t)
    /\ Keeps /\ UNCHANGED <<core, ownerMutex, rtable, envVars, ghosts>>

-----------------------------------------------------------------------------
(* The lock of the core *)

Handlers(r) ==
    CASE r[1] = "register" -> "register"
      [] r[1] = "unregister" -> "unregister"
      [] OTHER -> "find"

TakeCore(p) ==
    /\ At(p, "core") /\ core = None
    /\ core' = p /\ Goto(p, Handlers(req[p].what))
    /\ Keeps /\ UNCHANGED <<clientsLock, ownerMutex, rtable, req, envVars, ghosts>>

\* The request is done: a local one gives the lock back and is replied to.
Done(t) ==
    /\ At(t, "done")
    /\ IF t \in Procs THEN core' = None /\ Goto(t, "reply") /\ UNCHANGED req
       ELSE Ends(t) /\ UNCHANGED core
    /\ Keeps /\ UNCHANGED <<clientsLock, ownerMutex, rtable, envVars, ghosts>>

Returns(p) ==
    /\ Ends(p) /\ signalled' = signalled \ {p}
    /\ UNCHANGED <<clientsLock, ownerMutex, rtable, dead, budget>>

Reply(p) ==
    /\ At(p, "reply") /\ core = None
    /\ Returns(p) /\ Keeps /\ UNCHANGED <<core, ghosts>>

\* The reply cannot be sent, which is reported with the lock held.
ReplyFails(p) ==
    /\ At(p, "reply") /\ core = None /\ core' = p
    /\ Spend("faults") /\ Goto(p, "failed") /\ Reports(p)
    /\ UNCHANGED <<clients, some, owner, conns, clientsLock, ownerMutex, rtable, req, dead, signalled, ghosts>>

Unreplied(p) ==
    /\ At(p, "failed") /\ core' = None
    /\ Returns(p) /\ Keeps /\ UNCHANGED ghosts

-----------------------------------------------------------------------------
(* What a signal does to a thread that waits for a mutex somebody holds *)

Interrupted(p, mutex) == p \in signalled /\ mutex \notin {None, p}

\* The request is dropped with a report, and the reply is sent all the same.
InterruptedCore(p) ==
    /\ At(p, "core") /\ Interrupted(p, core) /\ Goto(p, "reply") /\ Reports(p)
    /\ UNCHANGED <<clients, some, owner, conns, lockVars, req, envVars, ghosts>>

\* fci_handle_msg returns with the lock of the core held.
InterruptedClients(p) ==
    /\ \E step \in {"register", "unregister", "find"} : At(p, step)
    /\ Interrupted(p, clientsLock) /\ Goto(p, "reply") /\ leaked' = TRUE
    /\ Keeps /\ UNCHANGED <<lockVars, req, envVars, cutShort>>

\* The signal is still pending, so that the wait for the reply ends at once, be
\* it that the thread waits for itself: again a report.
InterruptedReply(p) ==
    /\ At(p, "reply") /\ p \in signalled /\ core # None
    /\ Goto(p, "return") /\ Reports(p)
    /\ UNCHANGED <<clients, some, owner, conns, lockVars, req, envVars, ghosts>>

Leave(p) ==
    /\ At(p, "return")
    /\ Returns(p) /\ Keeps /\ UNCHANGED <<core, ghosts>>

-----------------------------------------------------------------------------
(* Ownership and execution, for local and remote senders alike *)

\* fci_owner_lock_cmd, fci_owner_unlock_cmd
SessionCommand(t) ==
    /\ At(t, "owner") /\ ownerMutex = None
    /\ LET me == req[t].sender
       IN  \/ /\ req[t].what[1] = "lock"
              /\ owner' = IF owner = None /\ me \in Permitted THEN me ELSE owner
           \/ /\ req[t].what[1] = "unlock"
              /\ owner' = IF owner = me THEN None ELSE owner
    /\ Goto(t, "done")
    /\ UNCHANGED <<clients, some, conns, items, lockVars, req, hm, envVars, ghosts>>

IsCommand(t) == req[t].what[1] \in {"add", "drop"}

\* fci_owner_authorize: an owner executes without the mutex.
Authorized(t) ==
    /\ At(t, "owner") /\ ownerMutex = None /\ IsCommand(t)
    /\ owner = req[t].sender /\ Goto(t, "exec")
    /\ Keeps /\ UNCHANGED <<lockVars, req, envVars, ghosts>>

\* fci_owner_get_floating_lock: the mutex is kept until the command is done.
MayFloat(s) == owner = None /\ s \in Permitted

GetFloating(t) ==
    /\ At(t, "owner") /\ ownerMutex = None /\ IsCommand(t)
    /\ MayFloat(req[t].sender)
    /\ owner' = req[t].sender /\ ownerMutex' = t
    /\ req' = [req EXCEPT ![t].floating = TRUE] /\ Goto(t, "exec")
    /\ UNCHANGED <<clients, some, conns, items, core, clientsLock, rtable, hm, envVars, ghosts>>

Refuse(t) ==
    /\ At(t, "owner") /\ ownerMutex = None /\ IsCommand(t)
    /\ owner # req[t].sender /\ ~MayFloat(req[t].sender)
    /\ Goto(t, "done")
    /\ Keeps /\ UNCHANGED <<lockVars, req, envVars, ghosts>>

Executing(t, what) == At(t, "exec") /\ req[t].what[1] = what /\ rtable = None

\* FPP_ACTION_REGISTER of a connection: it remembers the client.
AddConn(t) ==
    /\ Executing(t, "add")
    /\ LET c == req[t].what[2]
       IN  conns' = IF conns[c].live THEN conns
                    ELSE [conns EXCEPT ![c] = [slot |-> req[t].slot,
                                               maker |-> req[t].maker, live |-> TRUE]]
    /\ Goto(t, "end")
    /\ UNCHANGED <<clients, some, owner, items, lockVars, req, hm, envVars, ghosts>>

\* FPP_ACTION_DEREGISTER, fci_connections_ipv4_cbk: a connection without a
\* client goes silently.  The mutex of the table is held over the call-back.
DropConn(t) ==
    /\ Executing(t, "drop")
    /\ LET c == req[t].what[2]
       IN  IF conns[c].slot = None
           THEN conns' = [conns EXCEPT ![c] = Unused] /\ Goto(t, "end") /\ UNCHANGED rtable
           ELSE rtable' = t /\ Goto(t, "notify") /\ UNCHANGED conns
    /\ UNCHANGED <<clients, some, owner, items, core, clientsLock, ownerMutex, req, hm, envVars, ghosts>>

\* pfe_rtable_do_timeouts: a connection expires.
Expire(c) ==
    /\ At(Ageing, "idle") /\ rtable = None /\ conns[c].live
    /\ IF conns[c].slot = None
       THEN conns' = [conns EXCEPT ![c] = Unused] /\ UNCHANGED <<rtable, pc, req>>
       ELSE /\ rtable' = Ageing /\ Goto(Ageing, "notify") /\ UNCHANGED conns
            /\ req' = [req EXCEPT ![Ageing].what = <<"drop", c>>]
    /\ UNCHANGED <<clients, some, owner, items, core, clientsLock, ownerMutex, hm, envVars, ghosts>>

Removed(t) ==
    /\ conns' = [conns EXCEPT ![req[t].what[2]] = Unused] /\ rtable' = None
    /\ IF t = Ageing THEN Ends(t) ELSE Goto(t, "end") /\ UNCHANGED req
    /\ UNCHANGED <<clients, some, owner, items, core, ownerMutex, hm, envVars, ghosts>>

\* fci_core_client_send, under the lock of the list: whether it is sent is ignored.
Notify(t) == Holding(t, "notify") /\ UnlockClients /\ Removed(t)
InterruptedNotify(p) ==
    /\ At(p, "notify") /\ Interrupted(p, clientsLock)
    /\ Removed(p) /\ UNCHANGED clientsLock

EndCommand(t) ==
    /\ At(t, "end")
    /\ IF req[t].floating THEN owner' = None /\ ownerMutex' = None
       ELSE UNCHANGED <<owner, ownerMutex>>
    /\ Goto(t, "done")
    /\ UNCHANGED <<clients, some, conns, items, core, clientsLock, rtable, req, hm, envVars, ghosts>>

-----------------------------------------------------------------------------
(* The items of the health monitor: fci_hm_cb *)

\* A thread returns to what it was doing, and a process with nothing else to do
\* to its own code, where it gets its signal.
Silent(t) ==
    /\ hm' = [hm EXCEPT ![t] = "none"]
    /\ signalled' = IF pc[t] = "idle" THEN signalled \ {t} ELSE signalled

Fetch(t) ==
    /\ hm[t] = "fetch"
    /\ IF some /\ items > 0
       THEN /\ items' = items - 1 /\ hm' = [hm EXCEPT ![t] = "announce"]
            /\ UNCHANGED <<signalled, cutShort>>
       ELSE Silent(t) /\ UNCHANGED items /\ cutShort' = (cutShort /\ items > 0)
    /\ UNCHANGED <<clients, some, owner, conns, lockVars, pc, req, dead, budget, leaked>>

\* fci_core_client_send_broadcast returns what sending to the last client
\* returned.
LastAlive == \E s \in Connected :
                /\ \A x \in Connected : x <= s
                /\ clients[s].cmd \notin dead

Announcing(t) == hm[t] = "announce" /\ clientsLock = t

\* Sent: the next item is fetched.
Broadcast(t) ==
    /\ Announcing(t) /\ LastAlive /\ UnlockClients
    /\ hm' = [hm EXCEPT ![t] = "fetch"]
    /\ UNCHANGED <<clients, some, owner, conns, items, core, ownerMutex, rtable, pc, req, envVars, ghosts>>

\* An error ends the loop, whatever is still stored.  Sending may fail for a
\* client that lives, too: no memory, or its receive buffer is full.
BroadcastFails(t) ==
    /\ Announcing(t) /\ UnlockClients /\ Silent(t)
    /\ cutShort' = (Connected # {} \/ cutShort)
    /\ UNCHANGED <<clients, some, owner, conns, items, core, ownerMutex, rtable, pc, req, dead, budget, leaked>>

InterruptedBroadcast(p) ==
    /\ hm[p] = "announce" /\ Interrupted(p, clientsLock)
    /\ Silent(p) /\ cutShort' = TRUE
    /\ UNCHANGED <<clients, some, owner, conns, items, lockVars, pc, req, dead, budget, leaked>>

-----------------------------------------------------------------------------
Step(t) ==
    \/ TakeClientsLock(t) \/ Notify(t) \/ Report(t)
    \/ Fetch(t) \/ Broadcast(t) \/ BroadcastFails(t)
    \/ SessionCommand(t) \/ Authorized(t) \/ GetFloating(t) \/ Refuse(t)
    \/ AddConn(t) \/ DropConn(t) \/ EndCommand(t) \/ Done(t)

LocalStep(p) ==
    \/ TakeCore(p) \/ Unregister(p) \/ Find(p) \/ Register(p, req[p].what[2])
    \/ Reply(p) \/ ReplyFails(p) \/ Unreplied(p) \/ Leave(p)
    \/ InterruptedCore(p) \/ InterruptedClients(p) \/ InterruptedReply(p)
    \/ InterruptedNotify(p) \/ InterruptedBroadcast(p)

Next ==
    \/ \E p \in Procs : \/ \E r \in Requests(p) : Send(p, r)
                        \/ Die(p) \/ Signal(p) \/ LocalStep(p)
    \/ \E s \in Slaves, r \in Commands : SendRemote(s, r)
    \/ \E c \in Conns : Expire(c)
    \/ \E t \in Threads : Step(t)

Spec == Init /\ [][Next]_vars

-----------------------------------------------------------------------------
TypeOK ==
    /\ clients \in [Slots -> Registrations \cup {None}]
    /\ some \in BOOLEAN /\ owner \in Permitted \cup {None}
    /\ core \in Procs \cup {None} /\ ownerMutex \in Procs \cup {Worker, None}
    /\ {clientsLock, rtable} \subseteq Threads \cup {None}
    /\ conns \in [Conns -> Conn] /\ items \in 0 .. QueueLen
    /\ hm \in [Threads -> {"none", "fetch", "announce"}]
    /\ dead \subseteq Procs /\ signalled \subseteq Procs

InCommand(t) == t # Ageing /\ pc[t] \in {"exec", "notify", "end"}

\* Commands of local processes and of slaves reach the data bases of the driver
\* one at a time, although the two do not share a lock, and whoever executes one
\* owns the interface until it is done: nobody else takes or gives it away.
\* (With the types of the variables.)
OneCommandAtATime ==
    /\ TypeOK
    /\ \A t, u \in Threads : InCommand(t) /\ InCommand(u) => t = u
    /\ \A t \in Threads : InCommand(t) => owner = req[t].sender

\* As long as the process that made a connection has not unregistered, the slot
\* that the connection refers to is its own: the event that the connection has
\* gone reaches it and nobody else.
EventsToMaker ==
    \A c \in Conns : conns[c].maker # None => clients[conns[c].slot] = conns[c].maker

\* No item of the health monitor waits in the storage while a client is
\* registered: somebody is announcing, unless an announcement has failed since
\* the storage was last found empty or a first client registered.  It fails when
\* sending to the last client in the list does, be the client dead or alive, or
\* when a signal ends the wait for the lock of the list.
ItemsAnnounced ==
    items > 0 /\ Connected # {} /\ ~cutShort => \E t \in Threads : hm[t] # "none"

\* Whom a thread waits for
WaitsFor(t) ==
    IF t = None THEN None ELSE
    CASE AwaitsClients(t) /\ clientsLock # t -> clientsLock
      [] At(t, "core") \/ At(t, "reply") -> core
      [] At(t, "owner") -> ownerMutex
      [] At(t, "exec") -> rtable
      [] OTHER -> None

\* Four mutexes, taken in different orders by three kinds of threads: whoever
\* waits, waits for somebody who can go on, and nobody rests with a mutex held;
\* unless a request was interrupted with the lock of the core held.
WaitsEnd ==
    ~leaked =>
        \A t \in Threads :
            /\ WaitsFor(WaitsFor(WaitsFor(WaitsFor(WaitsFor(t))))) = None
            /\ At(t, "idle") => t \notin {core, clientsLock, ownerMutex, rtable}

=============================================================================
