---------------------------- MODULE FciCoreProof ----------------------------
(***************************************************************************)
(* The control interface for any number of processes, slaves, connections, *)
(* clients and requests: commands are executed one at a time by the owner, *)
(* events reach the process that made the connection, stored items are     *)
(* announced, and every wait ends.                                         *)
(*                                                                         *)
(* A local process works under the lock of the core from the moment it has *)
(* taken it until it replies; there is one worker for the slaves.  That    *)
(* local commands and those of slaves do not meet follows from the owner.  *)
(* Reports and announcements disturb none of that: they leave a thread     *)
(* where it is (lemma Asides).                                             *)
(***************************************************************************)
EXTENDS FciCore, FiniteSetTheorems, WellFoundedInduction, TLAPS

\* Where a local process holds the lock of the core
Served == {"register", "unregister", "find", "owner", "exec", "notify", "end", "done",
           "failed"}
Steps == Served \cup {"idle", "core", "reply", "return"}
What == {None} \cup Commands \cup UNION {Requests(p) : p \in Procs}
Req == [what : What, sender : Slaves \cup {Local, None}, slot : Slots \cup {None},
        maker : Registrations \cup {None}, floating : BOOLEAN]

Typed == TypeOK /\ pc \in [Threads -> Steps] /\ req \in [Threads -> Req]

\* What each thread does
Roles ==
    /\ pc[Worker] \in {"idle", "owner", "exec", "notify", "end", "done"}
    /\ pc[Ageing] \in {"idle", "notify"}
    /\ \A t \in Others : pc[t] = "idle"

\* Whose request it is
Senders ==
    /\ \A p \in Procs :
         /\ pc[p] # "idle" => req[p].sender = Local
         /\ pc[p] = "core" => req[p].what \in Requests(p)
         /\ pc[p] = "register" => req[p].what[2] \in Procs \X Sockets
    /\ pc[Worker] # "idle" => req[Worker].sender \in Slaves
    /\ req[Worker].maker = None

\* The lock of the core goes with the request.
CoreKept ==
    /\ \A p \in Procs : pc[p] \in Served => core = p
    /\ core # None /\ ~leaked => pc[core] \in Served

\* Where the holder of each other mutex is
Holders ==
    /\ clientsLock # None => AwaitsClients(clientsLock)
    /\ rtable # None => pc[rtable] = "notify"
    /\ ownerMutex # None => pc[ownerMutex] \in {"exec", "notify", "end"}
                            /\ req[ownerMutex].floating

\* Who executes a command owns the interface.
Owning == \A t \in Threads : InCommand(t) => owner = req[t].sender

\* A command that is about to make a connection knows a client that still is
\* in its slot, and so does a connection whose maker has not unregistered.
Refers(slot, maker) == maker # None => slot \in Slots /\ clients[slot] = maker
References ==
    /\ \A p \in Procs : pc[p] \in {"owner", "exec"} => Refers(req[p].slot, req[p].maker)
    /\ \A c \in Conns : Refers(conns[c].slot, conns[c].maker)

Known == some <=> Connected # {}

IInv == /\ Typed /\ Roles /\ Senders /\ CoreKept /\ Holders /\ Owning
        /\ References /\ Known /\ ItemsAnnounced

Environment ==
    \/ \E p \in Procs : (\E r \in Requests(p) : Send(p, r)) \/ Die(p) \/ Signal(p)
    \/ \E s \in Slaves, r \in Commands : SendRemote(s, r)

\* Reporting, announcing and taking the lock of the list, and what a thread does else
Aside(t) ==
    \/ TakeClientsLock(t) \/ Report(t) \/ Fetch(t) \/ Broadcast(t) \/ BroadcastFails(t)
    \/ InterruptedBroadcast(t)
Work(t) ==
    \/ Notify(t) \/ SessionCommand(t) \/ Authorized(t) \/ GetFloating(t) \/ Refuse(t)
    \/ AddConn(t) \/ DropConn(t) \/ EndCommand(t) \/ Done(t)
LocalWork(p) ==
    \/ TakeCore(p) \/ Unregister(p) \/ Find(p) \/ Register(p, req[p].what[2])
    \/ Reply(p) \/ ReplyFails(p) \/ Unreplied(p) \/ Leave(p)
    \/ InterruptedCore(p) \/ InterruptedClients(p) \/ InterruptedReply(p)
    \/ InterruptedNotify(p)

\* Every step is one of these.
LEMMA Split ==
    [Next]_vars =>
        \/ Environment \/ UNCHANGED vars
        \/ \E t \in Threads : Aside(t) \/ Work(t)
        \/ \E p \in Procs : LocalWork(p)
        \/ \E c \in Conns : Expire(c)
BY DEF Next, Environment, Step, LocalStep, Aside, Work, LocalWork, Threads

-----------------------------------------------------------------------------
(* The first slot that fits *)

\* SelectInSeq chooses an index that there is.
LEMMA Least ==
    ASSUME NEW I \in SUBSET Nat, I # {}
    PROVE  Min(I) \in I
<1> DEFINE R == {p \in Nat \X Nat : p[1] < p[2]}
<1>1. IsWellFoundedOn(R, Nat)
  BY NatLessThanWellFounded DEF OpToRel
<1>2. PICK m \in I : \A y \in I : <<y, m>> \notin R
  <2> HIDE DEF R
  <2> QED
    BY <1>1, WFMin
<1>3. ASSUME NEW y \in I PROVE m =< y
  <2>1. ~(y < m)
    BY <1>2
  <2> QED
    BY <2>1
<1> QED
  BY <1>3 DEF Min

\* The slots are the indices of the sequence that First looks through.
LEMMA Numbered ==
    /\ Cardinality(Slots) \in Nat
    /\ Slots \subseteq Nat \ {0}
    /\ Len([s \in Slots |-> s]) = Cardinality(Slots)
<1> DEFINE n == Cardinality(Slots)
<1>1. n \in Nat /\ Slots = 1 .. n
  BY FciAssumption, FS_CardinalityType
<1> HIDE DEF n
<1> QED
  BY <1>1 DEF n

\* fci_core_get_client returns a slot of the process, or none.
LEMMA SlotOfFound ==
    ASSUME NEW p
    PROVE  /\ SlotOf(p) \in Slots \cup {0}
           /\ SlotOf(p) # 0 => clients[SlotOf(p)] # None /\ clients[SlotOf(p)].cmd = p
<1> DEFINE q == [s \in Slots |-> s]
           I == {i \in 1 .. Len(q) : clients[q[i]] # None /\ clients[q[i]].cmd = p}
<1>1. SlotOf(p) = IF I # {} THEN Min(I) ELSE 0
  BY DEF SlotOf, First, SelectInSeq
<1>2. I = {i \in Slots : clients[i] # None /\ clients[i].cmd = p}
  BY Numbered, FciAssumption
<1>3. I # {} => Min(I) \in I
  BY <1>2, Numbered, Least
<1> QED
  BY <1>1, <1>2, <1>3

\* The registration finds a slot, or none.
LEMMA SlotForFound ==
    ASSUME NEW b
    PROVE  SlotFor(b) \in Slots \cup {0}
<1> DEFINE q == [s \in Slots |-> s]
           I == {i \in 1 .. Len(q) : clients[q[i]] = None \/ clients[q[i]].back = b}
<1>1. SlotFor(b) = IF I # {} THEN Min(I) ELSE 0
  BY DEF SlotFor, First, SelectInSeq
<1>2. I \in SUBSET Slots
  BY Numbered, FciAssumption
<1>3. I # {} => Min(I) \in I
  BY <1>2, Numbered, Least
<1> QED
  BY <1>1, <1>2, <1>3

-----------------------------------------------------------------------------
(* Types *)

\* Requests are requests, and a registration brings its socket along.
LEMMA Kinds ==
    /\ NoRequest \in Req
    /\ \A r \in Commands : r \in What
    /\ \A c \in Conns : <<"drop", c>> \in What
    /\ \A p \in Procs : \A r \in Requests(p) : r \in What
    /\ \A p \in Procs : \A r \in Requests(p) :
           r[1] = "register" => r[2] \in Procs \X Sockets
<1>1. NoRequest \in Req
  BY DEF NoRequest, Req, What
<1>2. \A r \in Commands : r \in What
  BY DEF What
<1>3. \A c \in Conns : <<"drop", c>> \in Commands
  BY DEF Commands
<1>4. \A p \in Procs : \A r \in Requests(p) : r \in What
  BY DEF What
<1>5. ASSUME NEW p \in Procs, NEW r \in Requests(p), r[1] = "register"
      PROVE  r[2] \in Procs \X Sockets
  <2>1. r \notin Commands
    BY <1>5 DEF Commands
  <2>2. r # <<"unregister">>
    BY <1>5
  <2> QED
    BY <2>1, <2>2 DEF Requests
<1> QED
  BY <1>1, <1>2, <1>3, <1>4, <1>5

\* A started interface has the types.
LEMMA TypeInit == Init => Typed
<1> SUFFICES ASSUME Init PROVE Typed
  OBVIOUS
<1>1. pc \in [Threads -> Steps] /\ req \in [Threads -> Req]
  BY Kinds DEF Init, Steps
<1>2. TypeOK
  BY DEF Init, TypeOK, Unused, Conn
<1> QED
  BY <1>1, <1>2 DEF Typed

\* The ways a thread goes on keep its types.
LEMMA Moved ==
    ASSUME Typed, NEW t \in Threads
    PROVE  /\ \A p \in Steps : Goto(t, p) => pc' \in [Threads -> Steps]
           /\ Ends(t) => pc' \in [Threads -> Steps] /\ req' \in [Threads -> Req]
           /\ Reports(t) => hm' \in [Threads -> {"none", "fetch", "announce"}]
                            /\ items' \in 0 .. QueueLen
<1>1. \A p \in Steps : Goto(t, p) => pc' \in [Threads -> Steps]
  BY DEF Typed, Goto
<1>2. Ends(t) => pc' \in [Threads -> Steps] /\ req' \in [Threads -> Req]
  BY <1>1, Kinds DEF Typed, Ends, Steps
<1>3. Reports(t) => hm' \in [Threads -> {"none", "fetch", "announce"}]
                    /\ items' \in 0 .. QueueLen
  BY FciAssumption DEF Reports, Typed, TypeOK
<1> QED
  BY <1>1, <1>2, <1>3

\* What the processes and the slaves do keeps the types.
LEMMA TypeEnv == Typed /\ Environment => Typed'
<1> SUFFICES ASSUME Typed, Environment PROVE Typed'
  OBVIOUS
<1>1. ASSUME NEW p \in Procs, NEW r \in Requests(p), Send(p, r) PROVE Typed'
  <2>1. pc' \in [Threads -> Steps]
    BY <1>1, Moved DEF Send, Threads, Steps, At
  <2>2. req' \in [Threads -> Req]
    BY <1>1, Kinds DEF Send, Typed, Threads, Req, At
  <2> QED
    BY <1>1, <2>1, <2>2 DEF Send, Keeps, lockVars, Typed, TypeOK, At
<1>2. ASSUME NEW s \in Slaves, NEW r \in Commands, SendRemote(s, r) PROVE Typed'
  <2>1. pc' \in [Threads -> Steps]
    BY <1>2, Moved DEF SendRemote, Threads, Steps, Served
  <2>2. req' \in [Threads -> Req]
    BY <1>2, Kinds DEF SendRemote, Typed, Threads, Req
  <2> QED
    BY <1>2, <2>1, <2>2 DEF SendRemote, Keeps, lockVars, Typed, TypeOK
<1>3. ASSUME NEW p \in Procs, Die(p) \/ Signal(p) PROVE Typed'
  BY <1>3 DEF Die, Signal, Keeps, lockVars, Typed, TypeOK
<1> QED
  BY <1>1, <1>2, <1>3 DEF Environment

\* Every step keeps the types.
LEMMA TypeStep == Typed /\ Roles /\ Senders /\ [Next]_vars => Typed'
<1> SUFFICES ASSUME Typed, Roles, Senders, [Next]_vars PROVE Typed'
  OBVIOUS
<1>1. ASSUME NEW t \in Threads, Notify(t) PROVE Typed'
  <2>1. conns' \in [Conns -> Conn]
    BY <1>1 DEF Notify, Removed, Typed, TypeOK, Unused, Conn
  <2>2. pc' \in [Threads -> Steps] /\ req' \in [Threads -> Req]
    BY <1>1, Moved DEF Notify, Removed, Steps, Served, Typed
  <2> QED
    BY <1>1, <2>1, <2>2 DEF Notify, Removed, UnlockClients, envVars, Typed, TypeOK
<1>2. ASSUME NEW t \in Threads, Aside(t) PROVE Typed'
  <2>1. UNCHANGED <<clients, some, owner, conns, core, ownerMutex, rtable, pc, req, dead>>
    BY <1>2
    DEF Aside, TakeClientsLock, Report, Fetch, Broadcast, BroadcastFails,
        InterruptedBroadcast, Keeps, lockVars, envVars
  <2>2. clientsLock' \in Threads \cup {None}
    BY <1>2
    DEF Aside, TakeClientsLock, Report, Fetch, Broadcast, BroadcastFails,
        InterruptedBroadcast, UnlockClients, lockVars, Typed, TypeOK
  <2>3. hm' \in [Threads -> {"none", "fetch", "announce"}] /\ items' \in 0 .. QueueLen
    BY <1>2, Moved, FciAssumption
    DEF Aside, TakeClientsLock, Report, Fetch, Broadcast, BroadcastFails,
        InterruptedBroadcast, Silent, Keeps, Typed, TypeOK
  <2>4. signalled' \subseteq Procs
    BY <1>2
    DEF Aside, TakeClientsLock, Report, Fetch, Broadcast, BroadcastFails,
        InterruptedBroadcast, Silent, envVars, Typed, TypeOK
  <2> QED
    BY <2>1, <2>2, <2>3, <2>4 DEF Typed, TypeOK
<1>3. ASSUME NEW t \in Threads, Done(t) PROVE Typed'
  <2>1. /\ pc' \in [Threads -> Steps] /\ req' \in [Threads -> Req]
        /\ core' \in Procs \cup {None}
    BY <1>3, Moved DEF Done, Steps, Typed, TypeOK
  <2> QED
    BY <1>3, <2>1 DEF Done, Keeps, envVars, Typed, TypeOK
<1>4. ASSUME NEW t \in Threads, SessionCommand(t) PROVE Typed'
  <2>1. pc' \in [Threads -> Steps] /\ req' \in [Threads -> Req]
    BY <1>4, Moved DEF SessionCommand, Steps, Served, Typed
  <2>2. owner' \in Permitted \cup {None}
    BY <1>4 DEF SessionCommand, Typed, TypeOK
  <2> QED
    BY <1>4, <2>1, <2>2 DEF SessionCommand, lockVars, envVars, Typed, TypeOK
<1>5. ASSUME NEW t \in Threads, Authorized(t) PROVE Typed'
  <2>1. pc' \in [Threads -> Steps]
    BY <1>5, Moved DEF Authorized, Steps, Served, At
  <2> QED
    BY <1>5, <2>1 DEF Authorized, Keeps, lockVars, envVars, Typed, TypeOK, At
<1>6. ASSUME NEW t \in Threads, GetFloating(t) PROVE Typed'
  <2>1. pc' \in [Threads -> Steps]
    BY <1>6, Moved DEF GetFloating, Steps, Served
  <2>2. req' \in [Threads -> Req]
    BY <1>6 DEF GetFloating, Typed, Req
  <2>3. owner' \in Permitted
    BY <1>6 DEF GetFloating, MayFloat
  <2>4. t \in Procs \cup {Worker}
    BY <1>6 DEF GetFloating, At, Roles, Threads
  <2> QED
    BY <1>6, <2>1, <2>2, <2>3, <2>4 DEF GetFloating, envVars, Typed, TypeOK
<1>7. ASSUME NEW t \in Threads, Refuse(t) PROVE Typed'
  <2>1. pc' \in [Threads -> Steps] /\ req' \in [Threads -> Req]
    BY <1>7, Moved DEF Refuse, Steps, Served, Typed
  <2> QED
    BY <1>7, <2>1 DEF Refuse, Keeps, lockVars, envVars, Typed, TypeOK
<1>8. ASSUME NEW t \in Threads, AddConn(t) PROVE Typed'
  <2>1. pc' \in [Threads -> Steps]
    BY <1>8, Moved DEF AddConn, Steps, Served
  <2>2. [slot |-> req[t].slot, maker |-> req[t].maker, live |-> TRUE] \in Conn
    BY DEF Typed, Req, Conn
  <2>3. conns' \in [Conns -> Conn]
    BY <1>8, <2>2 DEF AddConn, Typed, TypeOK
  <2> QED
    BY <1>8, <2>1, <2>3 DEF AddConn, lockVars, envVars, Typed, TypeOK
<1>9. ASSUME NEW t \in Threads, DropConn(t) PROVE Typed'
  <2>1. pc' \in [Threads -> Steps]
    BY <1>9, Moved DEF DropConn, Steps, Served
  <2>2. conns' \in [Conns -> Conn]
    <3>1. Unused \in Conn
      BY DEF Unused, Conn
    <3> QED
      BY <1>9, <3>1 DEF DropConn, Typed, TypeOK
  <2> QED
    BY <1>9, <2>1, <2>2 DEF DropConn, envVars, Typed, TypeOK
<1>10. ASSUME NEW t \in Threads, EndCommand(t) PROVE Typed'
  <2>1. pc' \in [Threads -> Steps] /\ req' \in [Threads -> Req]
    BY <1>10, Moved DEF EndCommand, Steps, Served, Typed
  <2> QED
    BY <1>10, <2>1 DEF EndCommand, envVars, Typed, TypeOK, At
<1>11. ASSUME NEW p \in Procs, TakeCore(p) PROVE Typed'
  <2>1. pc' \in [Threads -> Steps]
    BY <1>11, Moved DEF TakeCore, Steps, Served, Handlers, Threads, At
  <2> QED
    BY <1>11, <2>1 DEF TakeCore, Keeps, envVars, Typed, TypeOK, At
<1>12. ASSUME NEW p \in Procs, Reply(p) \/ Unreplied(p) \/ Leave(p) PROVE Typed'
  <2>1. pc' \in [Threads -> Steps] /\ req' \in [Threads -> Req]
    BY <1>12, Moved DEF Reply, Unreplied, Leave, Returns, Threads
  <2>2. core' \in Procs \cup {None}
    BY <1>12 DEF Reply, Unreplied, Leave, Typed, TypeOK
  <2> QED
    BY <1>12, <2>1, <2>2 DEF Reply, Unreplied, Leave, Returns, Keeps, Typed, TypeOK
<1>13. ASSUME NEW p \in Procs, Unregister(p) PROVE Typed'
  <2>1. pc' \in [Threads -> Steps] /\ req' \in [Threads -> Req]
    BY <1>13, Moved DEF Unregister, Threads, Steps, Served, Typed
  <2>2. clients' \in [Slots -> Registrations \cup {None}]
    BY <1>13 DEF Unregister, Emptied, Typed, TypeOK
  <2>3. conns' \in [Conns -> Conn]
    BY <1>13 DEF Unregister, Typed, TypeOK, Conn
  <2>4. some' \in BOOLEAN
    BY <1>13 DEF Unregister, Typed, TypeOK
  <2> QED
    BY <1>13, <2>1, <2>2, <2>3, <2>4 DEF Unregister, UnlockClients, envVars, Typed, TypeOK
<1>14. ASSUME NEW p \in Procs, Find(p) PROVE Typed'
  <2>1. pc' \in [Threads -> Steps]
    BY <1>14, Moved DEF Find, Bound, Threads, Steps, Served
  <2>2. SlotOf(p) \in Slots \cup {0}
    BY SlotOfFound
  <2>3. req' \in [Threads -> Req]
    <3> DEFINE s == IF SlotOf(p) = 0 THEN None ELSE SlotOf(p)
               m == IF SlotOf(p) = 0 THEN None ELSE clients[SlotOf(p)]
    <3>1. s \in Slots \cup {None} /\ m \in Registrations \cup {None}
      BY <2>2 DEF Typed, TypeOK
    <3>2. req' = [req EXCEPT ![p].slot = s, ![p].maker = m]
      BY <1>14 DEF Find, Bound
    <3> HIDE DEF s, m
    <3>3. p \in Threads /\ req[p] \in Req /\ req \in [Threads -> Req]
      BY DEF Typed, Threads
    <3>4. [req[p] EXCEPT !.slot = s, !.maker = m] \in Req
      BY <3>1, <3>3 DEF Req
    <3> QED
      BY <3>2, <3>3, <3>4
  <2> QED
    BY <1>14, <2>1, <2>3 DEF Find, Bound, Keeps, UnlockClients, envVars, Typed, TypeOK
<1>15. ASSUME NEW p \in Procs, Register(p, req[p].what[2]) PROVE Typed'
  <2>1. req[p].what[2] \in Procs \X Sockets
    BY <1>15 DEF Register, Enlist, Holding, Senders, At
  <2>2. [cmd |-> p, back |-> req[p].what[2]] \in Registrations
    BY <2>1 DEF Registrations
  <2>3. pc' \in [Threads -> Steps] /\ req' \in [Threads -> Req]
    BY <1>15, Moved DEF Register, Enlist, Threads, Steps, Served, Typed
  <2>4. clients' \in [Slots -> Registrations \cup {None}] /\ some' \in BOOLEAN
    BY <1>15, <2>2 DEF Register, Enlist, Typed, TypeOK
  <2>5. hm' \in [Threads -> {"none", "fetch", "announce"}]
    BY <1>15 DEF Register, Enlist, Typed, TypeOK
  <2> QED
    BY <1>15, <2>3, <2>4, <2>5 DEF Register, Enlist, UnlockClients, envVars, Typed, TypeOK
<1>16. ASSUME NEW p \in Procs,
              InterruptedCore(p) \/ InterruptedReply(p) \/ InterruptedClients(p)
       PROVE  Typed'
  <2>1. pc' \in [Threads -> Steps]
    BY <1>16, Moved DEF InterruptedCore, InterruptedReply, InterruptedClients, Threads, Steps
  <2>2. hm' \in [Threads -> {"none", "fetch", "announce"}] /\ items' \in 0 .. QueueLen
    BY <1>16, Moved
    DEF InterruptedCore, InterruptedReply, InterruptedClients, Keeps, Threads, Typed, TypeOK
  <2> QED
    BY <1>16, <2>1, <2>2
    DEF InterruptedCore, InterruptedReply, InterruptedClients, Keeps, lockVars, envVars,
        Typed, TypeOK
<1>17. ASSUME NEW p \in Procs, InterruptedNotify(p) PROVE Typed'
  <2>1. conns' \in [Conns -> Conn]
    BY <1>17 DEF InterruptedNotify, Removed, Typed, TypeOK, Unused, Conn
  <2>2. pc' \in [Threads -> Steps] /\ req' \in [Threads -> Req]
    BY <1>17, Moved DEF InterruptedNotify, Removed, Steps, Served, Threads, Typed
  <2> QED
    BY <1>17, <2>1, <2>2 DEF InterruptedNotify, Removed, envVars, Typed, TypeOK
<1>18. ASSUME NEW p \in Procs, ReplyFails(p) PROVE Typed'
  <2>1. pc' \in [Threads -> Steps]
    BY <1>18, Moved DEF ReplyFails, Threads, Steps, Served
  <2>2. hm' \in [Threads -> {"none", "fetch", "announce"}] /\ items' \in 0 .. QueueLen
    BY <1>18, Moved DEF ReplyFails, Threads
  <2> QED
    BY <1>18, <2>1, <2>2 DEF ReplyFails, Typed, TypeOK
<1>19. ASSUME NEW c \in Conns, Expire(c) PROVE Typed'
  <2>1. conns' \in [Conns -> Conn]
    <3>1. Unused \in Conn
      BY DEF Unused, Conn
    <3> QED
      BY <1>19, <3>1 DEF Expire, Typed, TypeOK, At
  <2>2. pc' \in [Threads -> Steps]
    BY <1>19, Moved DEF Expire, Steps, Served, Threads, Typed, At
  <2>3. req' \in [Threads -> Req]
    BY <1>19, Kinds DEF Expire, Typed, Req, At
  <2> QED
    BY <1>19, <2>1, <2>2, <2>3 DEF Expire, envVars, Threads, Typed, TypeOK, At
<1>20. CASE UNCHANGED vars
  BY <1>20 DEF vars, lockVars, envVars, Typed, TypeOK
<1> QED
  BY <1>1, <1>2, <1>3, <1>4, <1>5, <1>6, <1>7, <1>8, <1>9, <1>10, <1>11, <1>12,
     <1>13, <1>14, <1>15, <1>16, <1>17, <1>18, <1>19, <1>20, TypeEnv, Split
  DEF Work, LocalWork

-----------------------------------------------------------------------------
(* Threads and their requests *)

\* Reports and announcements leave a thread where it is, and all but the items,
\* the lock of the clients and what a signal is pending for.
LEMMA Asides ==
    ASSUME NEW t \in Threads, Aside(t)
    PROVE  UNCHANGED <<clients, some, owner, conns, core, ownerMutex, rtable, pc, req, leaked>>
BY DEF Aside, TakeClientsLock, Report, Fetch, Broadcast, BroadcastFails, InterruptedBroadcast,
       Keeps, lockVars, envVars, ghosts

\* A step of one thread is none of the others.
LEMMA Elsewhere ==
    ASSUME Typed, NEW t \in Threads, NEW u \in Threads \ {t}
    PROVE  /\ Work(t) \/ Aside(t) => pc'[u] = pc[u] /\ req'[u] = req[u] /\ hm'[u] = hm[u]
           /\ t \in Procs /\ LocalWork(t) =>
                  pc'[u] = pc[u] /\ req'[u] = req[u] /\ hm'[u] = hm[u]
<1>0. /\ pc \in [Threads -> Steps] /\ req \in [Threads -> Req]
      /\ hm \in [Threads -> {"none", "fetch", "announce"}]
  BY DEF Typed, TypeOK
<1>1. CASE Aside(t)
  <2>1. hm'[u] = hm[u]
    BY <1>0, <1>1
    DEF Aside, TakeClientsLock, Report, Reports, Fetch, Broadcast, BroadcastFails,
        InterruptedBroadcast, Silent, Keeps
  <2> QED
    BY <1>1, <2>1, Asides
<1>2. CASE Work(t)
  BY <1>0, <1>2
  DEF Work, Notify, Removed, SessionCommand, Authorized, GetFloating, Refuse, AddConn,
      DropConn, EndCommand, Done, Ends, Goto, Keeps
<1>3. ASSUME t \in Procs, LocalWork(t)
      PROVE  pc'[u] = pc[u] /\ req'[u] = req[u] /\ hm'[u] = hm[u]
  BY <1>0, <1>3
  DEF LocalWork, TakeCore, Reply, ReplyFails, Unreplied, Leave, Returns, Ends, Unregister,
      Find, Bound, Register, Enlist, InterruptedCore, InterruptedClients,
      InterruptedReply, InterruptedNotify, Removed, Goto, Keeps, Reports
<1> QED
  BY <1>1, <1>2, <1>3

\* A thread stays in its part of the code.
LEMMA RolesStep == Typed /\ Roles /\ [Next]_vars => Roles'
<1> SUFFICES ASSUME Typed, Roles, [Next]_vars PROVE Roles'
  OBVIOUS
<1>0. /\ pc \in [Threads -> Steps] /\ {Worker, Ageing} \cup Others \cup Procs = Threads
      /\ Procs \cap ({Worker, Ageing} \cup Others) = {} /\ Worker # Ageing
      /\ {Worker, Ageing} \cap Others = {}
  BY FciAssumption DEF Typed, Threads
<1>1. CASE Environment
  BY <1>0, <1>1 DEF Environment, Send, Die, Signal, SendRemote, Goto, Roles
<1>2. ASSUME NEW p \in Procs, LocalWork(p) PROVE Roles'
  BY <1>0, <1>2, Elsewhere DEF Roles
<1>3. ASSUME NEW t \in Threads, Work(t) PROVE Roles'
  <2>1. \A u \in Threads \ {t} : pc'[u] = pc[u]
    BY <1>3, Elsewhere
  <2>2. CASE t = Worker
    <3>1. pc'[t] \in {"idle", "owner", "exec", "notify", "end", "done"}
      BY <1>0, <1>3, <2>2
      DEF Work, Notify, Removed, SessionCommand, Authorized, GetFloating,
          Refuse, AddConn, DropConn, EndCommand, Done, Ends, Goto, Roles
    <3> QED
      BY <1>0, <2>1, <2>2, <3>1 DEF Roles
  <2>3. CASE t = Ageing
    <3>1. pc'[t] \in {"idle", "notify"}
      BY <1>0, <1>3, <2>3
      DEF Work, Executing, Holding, At, Notify, Removed, SessionCommand,
          Authorized, GetFloating, Refuse, AddConn, DropConn, EndCommand, Done, Ends, Goto,
          Roles
    <3> QED
      BY <1>0, <2>1, <2>3, <3>1 DEF Roles
  <2>4. CASE t \in Others
    <3>1. pc[t] = "idle"
      BY <2>4 DEF Roles
    <3>2. pc'[t] = "idle"
      BY <1>0, <1>3, <3>1
      DEF Work, Executing, Holding, At, Notify, SessionCommand, Authorized,
          GetFloating, Refuse, AddConn, DropConn, EndCommand, Done
    <3> QED
      BY <1>0, <2>1, <2>4, <3>2 DEF Roles
  <2>5. CASE t \in Procs
    BY <1>0, <2>1, <2>5 DEF Roles
  <2> QED
    BY <1>0, <2>2, <2>3, <2>4, <2>5
<1>4. ASSUME NEW c \in Conns, Expire(c) PROVE Roles'
  BY <1>0, <1>4 DEF Expire, Goto, Roles
<1>5. ASSUME NEW t \in Threads, Aside(t) PROVE Roles'
  BY <1>5, Asides DEF Roles
<1>6. CASE UNCHANGED vars
  BY <1>6 DEF vars, Roles
<1> QED
  BY <1>1, <1>2, <1>3, <1>4, <1>5, <1>6, Split

\* A request keeps its sender.
LEMMA SendersStep == Typed /\ Roles /\ Senders /\ [Next]_vars => Senders'
<1> SUFFICES ASSUME Typed, Roles, Senders, [Next]_vars PROVE Senders'
  OBVIOUS
<1> USE FciAssumption DEF Senders
<1>0. /\ pc \in [Threads -> Steps] /\ req \in [Threads -> Req]
      /\ Procs \cup {Worker, Ageing} \cup Others = Threads
  BY DEF Typed, Threads
<1>1. ASSUME NEW p \in Procs, NEW r \in Requests(p), Send(p, r) PROVE Senders'
  <2>1. /\ pc' = [pc EXCEPT ![p] = "core"]
        /\ req' = [req EXCEPT ![p] = [NoRequest EXCEPT !.what = r, !.sender = Local]]
    BY <1>1 DEF Send, Goto, At
  <2>2. req'[p].sender = Local /\ req'[p].what = r
    BY <1>0, <2>1 DEF NoRequest
  <2>3. pc'[p] = "core" /\ \A u \in Threads \ {p} : pc'[u] = pc[u] /\ req'[u] = req[u]
    BY <1>0, <2>1
  <2> QED
    BY <1>0, <2>2, <2>3
<1>2. ASSUME NEW s \in Slaves, NEW r \in Commands, SendRemote(s, r) PROVE Senders'
  <2>1. /\ pc' = [pc EXCEPT ![Worker] = "owner"]
        /\ req' = [req EXCEPT ![Worker] = [NoRequest EXCEPT !.what = r, !.sender = s]]
    BY <1>2 DEF SendRemote, Goto
  <2>2. req'[Worker].sender = s /\ req'[Worker].maker = None
    BY <1>0, <2>1 DEF NoRequest
  <2>3. \A u \in Threads \ {Worker} : pc'[u] = pc[u] /\ req'[u] = req[u]
    BY <1>0, <2>1
  <2> QED
    BY <1>0, <2>2, <2>3
<1>3. ASSUME NEW t \in Threads, Aside(t) PROVE Senders'
  BY <1>3, Asides
<1>4. ASSUME NEW p \in Procs, Die(p) \/ Signal(p) PROVE Senders'
  BY <1>4 DEF Die, Signal
<1>5. ASSUME NEW p \in Procs, LocalWork(p) PROVE Senders'
  <2>1. \A u \in Threads \ {p} : pc'[u] = pc[u] /\ req'[u] = req[u]
    BY <1>0, <1>5, Elsewhere
  <2>2. pc[p] # "idle"
    BY <1>5
    DEF LocalWork, TakeCore, Reply, Unregister, Find, Bound, Register, Enlist,
        Holding, InterruptedCore, InterruptedClients, InterruptedReply,
        InterruptedNotify, Interrupted, ReplyFails, Unreplied, Leave, Reports, At
  <2>3. pc'[p] # "idle" => req'[p].sender = req[p].sender
    <3>1. CASE Find(p)
      BY <1>0, <3>1 DEF Find, Bound, Req
    <3>2. CASE ~Find(p)
      BY <1>0, <1>5, <3>2
      DEF LocalWork, TakeCore, Reply, Returns, Ends, Unregister, Register, Enlist,
          InterruptedCore, InterruptedClients, InterruptedReply, InterruptedNotify,
          Removed, Goto, ReplyFails, Unreplied, Leave, Reports, At
    <3> QED
      BY <3>1, <3>2
  <2>4. pc'[p] # "core"
    BY <1>0, <1>5
    DEF LocalWork, TakeCore, Handlers, Reply, Returns, Ends, Unregister, Find, Bound,
        Register, Enlist, InterruptedCore, InterruptedClients, InterruptedReply,
        InterruptedNotify, Removed, Goto, ReplyFails, Unreplied, Leave, Reports, At
  <2>5. pc'[p] = "register" => req'[p].what[2] \in Procs \X Sockets
    <3>1. CASE TakeCore(p)
      <4>1. pc[p] = "core" /\ pc' = [pc EXCEPT ![p] = Handlers(req[p].what)] /\ req' = req
        BY <3>1 DEF TakeCore, Goto, At
      <4>2. pc'[p] = "register" => req[p].what[1] = "register"
        BY <1>0, <4>1 DEF Handlers
      <4> QED
        BY <4>1, <4>2, Kinds
    <3>2. CASE ~TakeCore(p)
      <4>1. pc'[p] # "register"
        BY <1>0, <1>5, <3>2
        DEF LocalWork, Reply, Returns, Ends, Unregister, Find, Bound, Register,
            Enlist, InterruptedCore, InterruptedClients, InterruptedReply,
            InterruptedNotify, Removed, Goto, ReplyFails, Unreplied, Leave, Reports,
            At
      <4> QED
        BY <4>1
    <3> QED
      BY <3>1, <3>2
  <2> QED
    BY <1>0, <2>1, <2>2, <2>3, <2>4, <2>5
<1>6. ASSUME NEW t \in Threads, Work(t) PROVE Senders'
  <2>1. \A u \in Threads \ {t} : pc'[u] = pc[u] /\ req'[u] = req[u]
    BY <1>0, <1>6, Elsewhere
  <2>2. pc[t] \notin {"idle", "core"} \/ pc'[t] = pc[t]
    BY <1>6
    DEF Work, Executing, Holding, Notify,
        SessionCommand, Authorized, GetFloating, Refuse, AddConn, DropConn,
        EndCommand, Goto, Done, At
  <2>3. pc'[t] \notin {"core", "register"} \/ (pc'[t] = pc[t] /\ req'[t] = req[t])
    BY <1>0, <1>6
    DEF Work, Notify, Removed, SessionCommand, Authorized,
        GetFloating, Refuse, AddConn, DropConn, EndCommand, Ends, Goto, Done, At
  <2>4. /\ pc'[t] # "idle" => pc[t] # "idle" /\ req'[t].sender = req[t].sender
        /\ req'[t].maker \in {req[t].maker, None}
    <3>1. CASE GetFloating(t)
      BY <1>0, <3>1 DEF GetFloating, At, Goto, Req
    <3>2. CASE ~GetFloating(t)
      BY <1>0, <1>6, <2>2, <3>2
      DEF Work, Notify, Removed, SessionCommand, Authorized, Refuse,
          AddConn, DropConn, EndCommand, Ends, Goto, NoRequest, Done, At
    <3> QED
      BY <3>1, <3>2
  <2> QED
    BY <1>0, <2>1, <2>2, <2>3, <2>4
<1>7. ASSUME NEW c \in Conns, Expire(c) PROVE Senders'
  BY <1>0, <1>7 DEF Expire, Goto, At
<1>8. CASE UNCHANGED vars
  BY <1>8 DEF vars
<1> QED
  BY <1>1, <1>2, <1>3, <1>4, <1>5, <1>6, <1>7, <1>8, Split DEF Environment

-----------------------------------------------------------------------------
(* The four mutexes *)

\* The lock of the core is taken with a request and given back with it.
LEMMA CoreStep == Typed /\ Roles /\ CoreKept /\ [Next]_vars => CoreKept'
<1> SUFFICES ASSUME Typed, Roles, CoreKept, [Next]_vars PROVE CoreKept'
  OBVIOUS
<1> USE FciAssumption DEF CoreKept
<1>0. /\ pc \in [Threads -> Steps] /\ core \in Procs \cup {None}
      /\ Procs \cup {Worker, Ageing} \cup Others = Threads
      /\ Procs \cap ({Worker, Ageing} \cup Others) = {} /\ None \notin Procs
  BY DEF Typed, TypeOK, Threads
<1>1. CASE Environment
  BY <1>0, <1>1
  DEF Environment, Send, Die, Signal, SendRemote, Goto, lockVars, ghosts, Served, At
<1>2. ASSUME NEW p \in Procs, LocalWork(p) PROVE CoreKept'
  <2>1. \A u \in Procs \ {p} : pc'[u] = pc[u]
    BY <1>0, <1>2, Elsewhere
  <2>2. CASE TakeCore(p)
    BY <1>0, <2>1, <2>2 DEF TakeCore, Goto, Handlers, Served, ghosts, At
  <2>3. CASE Reply(p) \/ Unreplied(p) \/ Leave(p) \/ InterruptedReply(p)
    BY <1>0, <2>1, <2>3
    DEF Reply, Unreplied, Leave, InterruptedReply, Returns, Ends, Goto, Served, ghosts,
        lockVars, At
  <2>4. CASE ReplyFails(p)
    BY <1>0, <2>1, <2>4 DEF ReplyFails, Goto, Served, ghosts, At
  <2>5. CASE InterruptedCore(p) \/ InterruptedClients(p)
    BY <1>0, <2>1, <2>5
    DEF InterruptedCore, InterruptedClients, Interrupted, Goto, Served, ghosts,
        lockVars, At
  <2>6. CASE Unregister(p) \/ Register(p, req[p].what[2]) \/ Find(p) \/ InterruptedNotify(p)
    <3>1. pc[p] \in Served /\ leaked' = leaked /\ core' = core
      BY <2>6
      DEF Unregister, Register, Enlist, Find, Bound, InterruptedNotify, Removed, Keeps,
          Holding, Served, ghosts, At
    <3>2. pc'[p] \in Served
      BY <1>0, <2>6
      DEF Unregister, Register, Enlist, Find, Bound, InterruptedNotify, Removed, Goto,
          Served
    <3> QED
      BY <1>0, <2>1, <3>1, <3>2
  <2> QED
    BY <1>2, <2>2, <2>3, <2>4, <2>5, <2>6 DEF LocalWork
<1>3. ASSUME NEW t \in Threads, Work(t) PROVE CoreKept'
  <2>1. leaked' = leaked /\ \A u \in Threads \ {t} : pc'[u] = pc[u]
    BY <1>0, <1>3, Elsewhere DEF Work, Notify, Removed, SessionCommand, Authorized, GetFloating,
                Refuse, AddConn, DropConn, EndCommand, Done, ghosts
  <2>2. pc[t] \in Served
    BY <1>3
    DEF Work, Notify, Holding, SessionCommand,
        Authorized, GetFloating, Refuse, AddConn, DropConn, Executing, EndCommand,
        Goto, Served, Done, At
  <2>3. CASE t \in Procs
    <3>1. CASE Done(t)
      BY <1>0, <2>1, <2>2, <2>3, <3>1 DEF Done, Goto, Served
    <3>2. CASE ~Done(t)
      <4>1. core' = core
        BY <1>3, <3>2
        DEF Work, Notify, Removed, SessionCommand, Authorized,
            GetFloating, Refuse, AddConn, DropConn, EndCommand, lockVars
      <4>2. pc'[t] \in Served
        BY <1>0, <1>3, <2>2, <2>3, <3>2
        DEF Work, Notify, Removed, SessionCommand, Authorized,
            GetFloating, Refuse, AddConn, DropConn, EndCommand, Goto, Served
      <4> QED
        BY <1>0, <2>1, <2>2, <2>3, <4>1, <4>2
    <3> QED
      BY <3>1, <3>2
  <2>4. CASE t \notin Procs
    <3>1. core' = core
      BY <1>0, <1>3, <2>2, <2>4
      DEF Work, Notify, Removed, SessionCommand, Authorized,
          GetFloating, Refuse, AddConn, DropConn, EndCommand, lockVars, Done, At
    <3> QED
      BY <1>0, <2>1, <2>4, <3>1
  <2> QED
    BY <2>3, <2>4
<1>4. ASSUME NEW c \in Conns, Expire(c) PROVE CoreKept'
  BY <1>0, <1>4 DEF Expire, Goto, ghosts, At
<1>5. ASSUME NEW t \in Threads, Aside(t) PROVE CoreKept'
  BY <1>5, Asides
<1>6. CASE UNCHANGED vars
  BY <1>6 DEF vars, lockVars, ghosts
<1> QED
  BY <1>1, <1>2, <1>3, <1>4, <1>5, <1>6, Split

\* The other mutexes are held where the code holds them.
LEMMA HoldersStep == Typed /\ Roles /\ Holders /\ [Next]_vars => Holders'
<1> SUFFICES ASSUME Typed, Roles, Holders, [Next]_vars PROVE Holders'
  OBVIOUS
<1> USE FciAssumption DEF Holders, AwaitsClients
<1>0. /\ pc \in [Threads -> Steps] /\ req \in [Threads -> Req]
      /\ {clientsLock, rtable, ownerMutex} \subseteq Threads \cup {None}
      /\ Procs \cup {Worker, Ageing} \cup Others = Threads /\ None \notin Threads
  BY DEF Typed, TypeOK, Threads
<1>1. CASE Environment
  <2>1. UNCHANGED <<clientsLock, rtable, ownerMutex, hm>>
    BY <1>1 DEF Environment, Send, Die, Signal, SendRemote, lockVars, Keeps
  <2>2. \A u \in Threads : ~At(u, "idle") => pc'[u] = pc[u] /\ req'[u] = req[u]
    BY <1>0, <1>1 DEF Environment, Send, Die, Signal, SendRemote, Goto, At
  <2> QED
    BY <1>0, <2>1, <2>2 DEF At
<1>2. ASSUME NEW p \in Procs, LocalWork(p) PROVE Holders'
  <2>1. \A u \in Threads \ {p} : pc'[u] = pc[u] /\ req'[u] = req[u] /\ hm'[u] = hm[u]
    BY <1>0, <1>2, Elsewhere
  <2>2. CASE TakeCore(p) \/ Reply(p) \/ Leave(p)
    BY <1>0, <2>1, <2>2 DEF TakeCore, Reply, Leave, Returns, At
  <2>3. CASE Unreplied(p) \/ ReplyFails(p)
    BY <1>0, <2>1, <2>3 DEF Unreplied, ReplyFails, Returns, At
  <2>4. CASE InterruptedCore(p) \/ InterruptedReply(p) \/ InterruptedClients(p)
    BY <1>0, <2>1, <2>4
    DEF InterruptedCore, InterruptedReply, InterruptedClients, Interrupted, lockVars, At
  <2>5. CASE Unregister(p) \/ Register(p, req[p].what[2]) \/ Find(p)
    BY <1>0, <2>1, <2>5
    DEF Unregister, Register, Enlist, Find, Bound, Holding, UnlockClients, At
  <2>6. CASE InterruptedNotify(p)
    <3>1. pc[p] = "notify" /\ pc'[p] = "end" /\ req' = req
      BY <1>0, <2>6, FciAssumption DEF InterruptedNotify, Removed, Goto, At
    <3> QED
      BY <1>0, <2>1, <2>6, <3>1 DEF InterruptedNotify, Interrupted, Removed
  <2> QED
    BY <1>2, <2>2, <2>3, <2>4, <2>5, <2>6 DEF LocalWork
<1>3. ASSUME NEW t \in Threads, Work(t) PROVE Holders'
  <2>1. \A u \in Threads \ {t} : pc'[u] = pc[u] /\ req'[u] = req[u] /\ hm'[u] = hm[u]
    BY <1>0, <1>3, Elsewhere
  <2>2. CASE Done(t)
    BY <1>0, <2>1, <2>2 DEF Done, At
  <2>3. CASE Notify(t)
    <3>1. /\ pc[t] = "notify" /\ clientsLock = t /\ clientsLock' = None /\ rtable' = None
          /\ ownerMutex' = ownerMutex
      BY <2>3 DEF Notify, Holding, UnlockClients, Removed, At
    <3>2. t # Ageing => pc'[t] = "end" /\ req' = req
      BY <1>0, <2>3 DEF Notify, Removed, Goto
    <3>3. ownerMutex # Ageing
      BY DEF Typed, TypeOK
    <3> QED
      BY <1>0, <2>1, <3>1, <3>2, <3>3
  <2>4. CASE SessionCommand(t) \/ Authorized(t) \/ Refuse(t)
    BY <1>0, <2>1, <2>4 DEF SessionCommand, Authorized, Refuse, lockVars, At
  <2>5. CASE GetFloating(t)
    <3>1. pc[t] = "owner" /\ hm[t] = "none" /\ pc'[t] = "exec" /\ req'[t].floating
      BY <1>0, <2>5 DEF GetFloating, Goto, Req, At
    <3> QED
      BY <1>0, <2>1, <2>5, <3>1 DEF GetFloating
  <2>6. CASE AddConn(t) \/ DropConn(t)
    <3>1. /\ pc[t] = "exec" /\ hm[t] = "none" /\ pc'[t] \in {"notify", "end"} /\ req' = req
          /\ UNCHANGED <<clientsLock, ownerMutex>>
      BY <1>0, <2>6 DEF AddConn, DropConn, Executing, Goto, At, lockVars
    <3>2. rtable' = rtable \/ (rtable' = t /\ pc'[t] = "notify")
      <4>1. rtable' = rtable \/ (rtable' = t /\ Goto(t, "notify"))
        BY <2>6, Zenon DEF AddConn, DropConn, lockVars
      <4> QED
        BY <1>0, <4>1 DEF Goto
    <3> QED
      BY <1>0, <2>1, <3>1, <3>2
  <2>7. CASE EndCommand(t)
    BY <1>0, <2>1, <2>7 DEF EndCommand, At
  <2> QED
    BY <1>3, <2>2, <2>3, <2>4, <2>5, <2>6, <2>7 DEF Work
<1>4. ASSUME NEW c \in Conns, Expire(c) PROVE Holders'
  <2>1. /\ pc[Ageing] = "idle" /\ hm[Ageing] = "none"
        /\ UNCHANGED <<clientsLock, ownerMutex, hm>>
    BY <1>4 DEF Expire, At
  <2>2. \A u \in Threads \ {Ageing} : pc'[u] = pc[u] /\ req'[u] = req[u]
    BY <1>0, <1>4 DEF Expire, Goto
  <2>3. rtable' = rtable \/ (rtable' = Ageing /\ pc'[Ageing] = "notify")
    <3>1. rtable' = rtable \/ (rtable' = Ageing /\ Goto(Ageing, "notify"))
      BY <1>4, Zenon DEF Expire
    <3> QED
      BY <1>0, <3>1 DEF Goto
  <2> QED
    BY <1>0, <2>1, <2>2, <2>3
<1>5. ASSUME NEW t \in Threads, Aside(t) PROVE Holders'
  <2>1. \A u \in Threads \ {t} : hm'[u] = hm[u]
    BY <1>5, Elsewhere
  <2>2. UNCHANGED <<pc, req, rtable, ownerMutex>>
    BY <1>5, Asides
  <2>3. (clientsLock # None => AwaitsClients(clientsLock))'
    <3>1. CASE TakeClientsLock(t)
      BY <3>1 DEF TakeClientsLock, Keeps
    <3>2. CASE ~TakeClientsLock(t)
      <4>1. clientsLock' = None \/ (clientsLock' = clientsLock /\ clientsLock # t)
        BY <1>5, <3>2
        DEF Aside, Report, Fetch, Broadcast, BroadcastFails, InterruptedBroadcast,
            Announcing, Interrupted, UnlockClients, lockVars
      <4> QED
        BY <1>0, <2>1, <2>2, <4>1
    <3> QED
      BY <3>1, <3>2
  <2> QED
    BY <2>2, <2>3
<1>6. CASE UNCHANGED vars
  BY <1>6 DEF vars, lockVars
<1> QED
  BY <1>1, <1>2, <1>3, <1>4, <1>5, <1>6, Split

-----------------------------------------------------------------------------
(* One command at a time *)

\* Two threads at work on commands of one sender are the same: the local ones
\* hold the lock of the core, the worker has the slaves to itself.
LEMMA OneEach ==
    ASSUME Roles, Senders, CoreKept, NEW t \in Threads, NEW u \in Threads,
           pc[t] \in {"owner", "exec", "end"} \/ (pc[t] = "notify" /\ t # Ageing),
           pc[u] \in {"owner", "exec", "end"} \/ (pc[u] = "notify" /\ u # Ageing)
    PROVE  req[t].sender # None /\ (req[t].sender = req[u].sender => t = u)
<1>1. t \in Procs \cup {Worker} /\ u \in Procs \cup {Worker}
  BY FciAssumption DEF Roles, Threads
<1>2. \A v \in {t, u} :
          /\ v \in Procs => req[v].sender = Local /\ core = v
          /\ v = Worker => req[v].sender \in Slaves
  BY FciAssumption, <1>1 DEF Senders, CoreKept, Served
<1> QED
  BY <1>1, <1>2, FciAssumption

\* Commands are executed one at a time.
LEMMA Alone ==
    ASSUME Roles, Senders, CoreKept, Owning, NEW t \in Threads, NEW u \in Threads,
           InCommand(t), InCommand(u)
    PROVE  t = u
BY OneEach DEF Owning, InCommand

\* Nobody takes or gives away the ownership while a command is executed.
LEMMA OwningStep ==
    Typed /\ Roles /\ Senders /\ CoreKept /\ Owning /\ [Next]_vars => Owning'
<1> SUFFICES ASSUME Typed, Roles, Senders, CoreKept, Owning, [Next]_vars PROVE Owning'
  OBVIOUS
<1>0. /\ pc \in [Threads -> Steps] /\ req \in [Threads -> Req]
      /\ Procs \cup {Worker, Ageing} \cup Others = Threads
  BY DEF Typed, Threads
\* A thread that comes into no command, and what the others do while the owner
\* stays the same.
<1>00. ASSUME NEW t \in Threads, owner' = owner,
              \A u \in Threads \ {t} : pc'[u] = pc[u] /\ req'[u] = req[u],
              InCommand(t)' => owner = req'[t].sender
       PROVE  Owning'
  BY <1>00 DEF Owning, InCommand
<1>1. CASE Environment
  <2>1. owner' = owner
    BY <1>1 DEF Environment, Send, Die, Signal, SendRemote, Keeps, At
  <2>2. \A u \in Threads : \/ pc'[u] = pc[u] /\ req'[u] = req[u]
                           \/ pc'[u] \in {"core", "owner"}
    BY <1>0, <1>1 DEF Environment, Send, Die, Signal, SendRemote, Goto, At
  <2> QED
    BY <2>1, <2>2 DEF Owning, InCommand
<1>2. ASSUME NEW p \in Procs, LocalWork(p) PROVE Owning'
  <2>1. \A u \in Threads \ {p} : pc'[u] = pc[u] /\ req'[u] = req[u]
    BY <1>0, <1>2, Elsewhere
  <2>2. owner' = owner
    BY <1>2
    DEF LocalWork, TakeCore, Reply, Unregister, Find, Register, Enlist,
        InterruptedCore, InterruptedClients, InterruptedReply, InterruptedNotify,
        Removed, Keeps, ReplyFails, Unreplied, Leave, Reports, At
  <2>3. CASE InterruptedNotify(p)
    <3>1. pc[p] = "notify" /\ p # Ageing /\ req' = req
      BY <2>3, FciAssumption DEF InterruptedNotify, Interrupted, Removed, At
    <3> QED
      BY <1>0, <1>00, <2>1, <2>2, <3>1 DEF Owning, InCommand
  <2>4. CASE ~InterruptedNotify(p)
    <3>1. pc'[p] \notin {"exec", "notify", "end"}
      BY <1>0, <1>2, <2>4
      DEF LocalWork, TakeCore, Handlers, Reply, Returns, Ends, Unregister, Find,
          Bound, Register, Enlist, InterruptedCore, InterruptedClients,
          InterruptedReply, Goto, ReplyFails, Unreplied, Leave, Reports, At
    <3> QED
      BY <1>0, <1>00, <2>1, <2>2, <3>1 DEF InCommand
  <2> QED
    BY <2>3, <2>4
<1>3. ASSUME NEW t \in Threads, Work(t) PROVE Owning'
  <2>1. \A u \in Threads \ {t} : pc'[u] = pc[u] /\ req'[u] = req[u]
    BY <1>0, <1>3, Elsewhere
  <2>2. CASE Notify(t)
    <3>1. pc[t] = "notify" /\ owner' = owner /\ (t # Ageing => req' = req)
      BY <2>2 DEF Notify, Removed, Holding, At
    <3> QED
      BY <1>00, <2>1, <3>1 DEF Owning, InCommand
  <2>3. CASE Refuse(t) \/ Done(t)
    <3>1. pc'[t] \notin {"exec", "notify", "end"}
      BY <1>0, <2>3 DEF Refuse, Done, Ends, Goto
    <3>2. owner' = owner
      BY <2>3 DEF Refuse, Done, Keeps
    <3> QED
      BY <1>00, <2>1, <3>1, <3>2 DEF InCommand
  <2>4. CASE SessionCommand(t)
    <3>1. pc[t] = "owner" /\ pc'[t] = "done"
      BY <1>0, <2>4 DEF SessionCommand, At, Goto
    <3>2. ASSUME NEW u \in Threads, u # t, InCommand(u) PROVE owner' = owner
      <4>1. owner = req[u].sender /\ owner # None /\ owner # req[t].sender
        BY <3>1, <3>2, OneEach DEF Owning, InCommand
      <4> QED
        BY <2>4, <4>1 DEF SessionCommand
    <3> QED
      BY <1>0, <2>1, <3>1, <3>2 DEF Owning, InCommand
  <2>5. CASE Authorized(t)
    <3>1. owner = req[t].sender /\ owner' = owner /\ req' = req
      BY <2>5 DEF Authorized, Keeps, At
    <3> QED
      BY <1>00, <2>1, <3>1
  <2>6. CASE GetFloating(t)
    <3>1. pc[t] = "owner" /\ owner = None /\ owner' = req[t].sender
      BY <2>6 DEF GetFloating, At, MayFloat
    <3>2. req'[t].sender = req[t].sender
      BY <1>0, <2>6 DEF GetFloating, Req
    <3>3. ASSUME NEW u \in Threads, u # t PROVE ~InCommand(u)
      BY <3>1, <3>3, OneEach DEF Owning, InCommand
    <3> QED
      BY <2>1, <3>1, <3>2, <3>3 DEF Owning, InCommand
  <2>7. CASE AddConn(t) \/ DropConn(t)
    <3>1. pc[t] = "exec" /\ owner' = owner /\ req' = req
      BY <2>7 DEF AddConn, DropConn, Executing, lockVars, At
    <3>2. t # Ageing
      BY <3>1 DEF Roles
    <3> QED
      BY <1>00, <2>1, <3>1, <3>2 DEF Owning, InCommand
  <2>8. CASE EndCommand(t)
    <3>1. pc[t] = "end" /\ pc'[t] = "done" /\ t # Ageing
      BY <1>0, <2>8 DEF EndCommand, Goto, Roles, At
    <3>2. \A u \in Threads : u # t => ~InCommand(u)
      BY <3>1, Alone DEF InCommand
    <3> QED
      BY <2>1, <3>1, <3>2 DEF Owning, InCommand
  <2> QED
    BY <1>3, <2>2, <2>3, <2>4, <2>5, <2>6, <2>7, <2>8 DEF Work
<1>4. ASSUME NEW c \in Conns, Expire(c) PROVE Owning'
  <2>1. owner' = owner /\ \A u \in Threads \ {Ageing} : pc'[u] = pc[u] /\ req'[u] = req[u]
    BY <1>0, <1>4 DEF Expire, Goto, At
  <2> QED
    BY <1>0, <1>00, <2>1 DEF InCommand
<1>5. ASSUME NEW t \in Threads, Aside(t) PROVE Owning'
  BY <1>5, Asides DEF Owning, InCommand
<1>6. CASE UNCHANGED vars
  BY <1>6 DEF vars, Owning, InCommand
<1> QED
  BY <1>1, <1>2, <1>3, <1>4, <1>5, <1>6, Split

-----------------------------------------------------------------------------
(* The list of clients *)

\* A client that registers takes a slot that was free, or nothing.
LEMMA Enlisted ==
    ASSUME Typed, Senders, NEW p \in Procs, Register(p, req[p].what[2])
    PROVE  \/ UNCHANGED <<clients, some, hm, cutShort>>
           \/ \E s \in Slots :
                /\ clients[s] = None /\ clients'[s] # None /\ some' = TRUE
                /\ \A x \in Slots \ {s} : clients'[x] = clients[x]
                /\ Connected # {} => UNCHANGED <<hm, cutShort>>
                /\ Connected = {} => hm' = [hm EXCEPT ![p] = "fetch"]
<1> DEFINE b == req[p].what[2]
           s == SlotFor(b)
           after == [clients EXCEPT ![s] = [cmd |-> p, back |-> b]]
<1>1. CASE ~(s # 0 /\ clients[s] = None)
  BY <1>1 DEF Register, Enlist
<1>2. CASE s # 0 /\ clients[s] = None
  <2>1. s \in Slots
    BY <1>2, SlotForFound
  <2>2. [cmd |-> p, back |-> b] # None
    <3>1. b \in Procs \X Sockets
      BY DEF Register, Enlist, Holding, Senders, At
    <3>2. [cmd |-> p, back |-> b] \in [cmd : Procs, back : Procs \X Sockets]
      BY <3>1
    <3> QED
      BY <3>2, FciAssumption
  <2>3. /\ clients' = after /\ some' = TRUE
        /\ IF IsFirst(after) THEN hm' = [hm EXCEPT ![p] = "fetch"] /\ cutShort' = FALSE
                             ELSE UNCHANGED <<hm, cutShort>>
    BY <1>2 DEF Register, Enlist
  <2>4. after[s] # None /\ \A x \in Slots \ {s} : after[x] = clients[x]
    BY <2>1, <2>2 DEF Typed, TypeOK
  <2>5. Connected # {} => ~IsFirst(after)
    <3>1. SUFFICES ASSUME NEW x \in Slots, clients[x] # None, IsFirst(after) PROVE FALSE
      BY DEF Connected
    <3> DEFINE S == {y \in Slots : after[y] # None}
    <3>2. s \in S /\ x \in S /\ x # s
      BY <1>2, <2>1, <2>4, <3>1
    <3>3. IsFiniteSet(S)
      BY FciAssumption, FS_Subset
    <3>4. Cardinality(S) = 1
      BY <3>1 DEF IsFirst
    <3>5. \E y : S = {y}
      <4> HIDE DEF S
      <4> QED
        BY <3>3, <3>4, FS_Singleton
    <3> QED
      BY <3>2, <3>5
  <2>6. Connected = {} => IsFirst(after)
    <3>1. SUFFICES ASSUME Connected = {} PROVE IsFirst(after)
      OBVIOUS
    <3>2. {y \in Slots : after[y] # None} = {s}
      BY <2>1, <2>4, <3>1 DEF Connected
    <3> QED
      BY <3>2, FS_Singleton DEF IsFirst
  <2> QED
    BY <1>2, <2>1, <2>3, <2>4, <2>5, <2>6
<1> QED
  BY <1>1, <1>2

\* What leaves the clients and the connections alone and brings no thread to a
\* command leaves the references alone.
LEMMA ReferencesKept ==
    ASSUME References, UNCHANGED clients,
           \A c \in Conns : conns'[c].maker # None => conns'[c] = conns[c],
           \A p \in Procs : pc'[p] \in {"owner", "exec"} =>
                               pc[p] \in {"owner", "exec"} /\ req'[p].slot = req[p].slot
                               /\ req'[p].maker = req[p].maker
    PROVE  References'
BY DEF References, Refers

\* Connections and commands refer to a slot of their maker.
LEMMA ReferencesStep ==
    Typed /\ Roles /\ Senders /\ CoreKept /\ References /\ [Next]_vars => References'
<1> SUFFICES ASSUME Typed, Roles, Senders, CoreKept, References, [Next]_vars
             PROVE  References'
  OBVIOUS
<1>0. /\ pc \in [Threads -> Steps] /\ req \in [Threads -> Req]
      /\ conns \in [Conns -> Conn] /\ clients \in [Slots -> Registrations \cup {None}]
      /\ Procs \cup {Worker, Ageing} \cup Others = Threads
      /\ Procs \cap ({Worker, Ageing} \cup Others) = {}
  BY FciAssumption DEF Typed, TypeOK, Threads
<1>1. CASE Environment
  <2>1. UNCHANGED <<clients, conns>>
    BY <1>1 DEF Environment, Send, Die, Signal, SendRemote, Keeps, At
  <2>2. \A p \in Procs : pc'[p] \in {"owner", "exec"} => pc[p] = pc'[p] /\ req'[p] = req[p]
    BY <1>0, <1>1 DEF Environment, Send, Die, Signal, SendRemote, Goto, At
  <2> QED
    BY <2>1, <2>2, ReferencesKept
<1>2. ASSUME NEW p \in Procs, LocalWork(p) PROVE References'
  <2>1. \A u \in Threads \ {p} : pc'[u] = pc[u] /\ req'[u] = req[u]
    BY <1>0, <1>2, Elsewhere
  <2>2. ~Find(p) => pc'[p] \notin {"owner", "exec"}
    BY <1>0, <1>2
    DEF LocalWork, TakeCore, Handlers, Reply, Returns, Ends, Unregister, Register,
        Enlist, InterruptedCore, InterruptedClients, InterruptedReply,
        InterruptedNotify, Removed, Goto, ReplyFails, Unreplied, Leave, Reports, At
  <2>3. CASE ~(Find(p) \/ Register(p, req[p].what[2]) \/ Unregister(p))
    <3>1. UNCHANGED clients /\ \A c \in Conns : conns'[c].maker # None => conns'[c] = conns[c]
      BY <1>0, <1>2, <2>3
      DEF LocalWork, TakeCore, Reply, ReplyFails, Unreplied, Leave, InterruptedCore,
          InterruptedClients, InterruptedReply, InterruptedNotify, Removed, Keeps, Unused
    <3> QED
      BY <1>0, <2>1, <2>2, <2>3, <3>1, ReferencesKept
  <2>4. CASE Find(p)
    <3> DEFINE s == IF SlotOf(p) = 0 THEN None ELSE SlotOf(p)
               m == IF SlotOf(p) = 0 THEN None ELSE clients[SlotOf(p)]
    <3>1. UNCHANGED <<clients, conns>> /\ req' = [req EXCEPT ![p].slot = s, ![p].maker = m]
      BY <2>4 DEF Find, Bound, Keeps
    <3>2. Refers(s, m)
      BY SlotOfFound DEF Refers
    <3> HIDE DEF s, m
    <3>3. req'[p].slot = s /\ req'[p].maker = m
      BY <1>0, <3>1 DEF Req
    <3> QED
      BY <1>0, <2>1, <3>1, <3>2, <3>3 DEF References, Refers
  <2>5. CASE Register(p, req[p].what[2])
    <3>1. ASSUME NEW s, NEW m, Refers(s, m) PROVE Refers(s, m)'
      BY <2>5, <3>1, Enlisted DEF Refers
    <3>2. conns' = conns
      BY <2>5 DEF Register, Enlist
    <3>3. ~Find(p)
      BY <2>5 DEF Register, Enlist, Holding, Find, Bound, At
    <3>4. \A q \in Procs : pc'[q] \in {"owner", "exec"} => q # p
      BY <2>2, <3>3
    <3> QED
      BY <1>0, <2>1, <3>1, <3>2, <3>4 DEF References
  <2>6. CASE Unregister(p)
    <3>1. pc[p] = "unregister" /\ pc'[p] = "done"
      BY <1>0, <2>6 DEF Unregister, Holding, Goto, At
    <3>2. core = p
      BY <3>1 DEF CoreKept, Served
    <3>3. \A q \in Procs : pc[q] \in {"owner", "exec"} => FALSE
      BY <3>1, <3>2 DEF CoreKept, Served
    <3>4. \A q \in Procs : pc'[q] \notin {"owner", "exec"}
      BY <1>0, <2>1, <3>1, <3>3
    <3>5. ASSUME NEW c \in Conns, conns'[c].maker # None
          PROVE  conns'[c].slot \in Slots /\ clients'[conns'[c].slot] = conns'[c].maker
      <4> DEFINE s == SlotOf(p)
      <4>1. conns' = [d \in Conns |-> IF conns[d].slot = s
                                      THEN [conns[d] EXCEPT !.maker = None] ELSE conns[d]]
        BY <2>6 DEF Unregister
      <4>2. conns[c].slot # s /\ conns'[c] = conns[c]
        BY <1>0, <3>5, <4>1 DEF Conn
      <4>3. conns[c].slot \in Slots /\ clients[conns[c].slot] = conns[c].maker
        BY <3>5, <4>2 DEF References, Refers
      <4>4. clients'[conns[c].slot] = clients[conns[c].slot]
        BY <2>6, <4>2, <4>3 DEF Unregister, Emptied
      <4> QED
        BY <4>2, <4>3, <4>4
    <3> QED
      BY <3>4, <3>5 DEF References, Refers
  <2> QED
    BY <2>3, <2>4, <2>5, <2>6
<1>3. ASSUME NEW t \in Threads, Work(t) PROVE References'
  <2>1. \A u \in Threads \ {t} : pc'[u] = pc[u] /\ req'[u] = req[u]
    BY <1>0, <1>3, Elsewhere
  <2>2. UNCHANGED clients
    BY <1>3
    DEF Work, Notify, Removed, SessionCommand, Authorized,
        GetFloating, Refuse, AddConn, DropConn, EndCommand, Keeps, Done, At
  <2>3. pc'[t] \in {"owner", "exec"} =>
            /\ pc[t] \in {"owner", "exec"} /\ req'[t].slot = req[t].slot
            /\ req'[t].maker = req[t].maker
    <3>1. CASE GetFloating(t)
      BY <1>0, <3>1 DEF GetFloating, Req, At
    <3>2. CASE Authorized(t)
      BY <1>0, <3>2 DEF Authorized, At
    <3>3. CASE ~(GetFloating(t) \/ Authorized(t))
      <4>1. pc'[t] \notin {"owner", "exec"}
        BY <1>0, <1>3, <3>3
        DEF Work, Notify, Removed, SessionCommand, Refuse, AddConn, DropConn,
            EndCommand, Ends, Goto, Done, At
      <4> QED
        BY <4>1
    <3> QED
      BY <3>1, <3>2, <3>3
  <2>4. CASE AddConn(t)
    <3>1. pc[t] = "exec"
      BY <2>4 DEF AddConn, Executing, At
    <3>2. Refers(req[t].slot, req[t].maker)
      BY <3>1 DEF References, Refers, Threads, Roles, Senders
    <3>3. \A c \in Conns :
              \/ conns'[c] = conns[c]
              \/ conns'[c].slot = req[t].slot /\ conns'[c].maker = req[t].maker
      BY <1>0, <2>4 DEF AddConn
    <3> QED
      BY <1>0, <2>1, <2>2, <2>3, <3>2, <3>3 DEF References, Refers
  <2>5. CASE ~AddConn(t)
    <3>1. \A c \in Conns : conns'[c].maker # None => conns'[c] = conns[c]
      BY <1>0, <1>3, <2>5
      DEF Work, Notify, Removed, SessionCommand, Authorized,
          GetFloating, Refuse, DropConn, EndCommand, Keeps, Unused, Done, At
    <3> QED
      BY <1>0, <2>1, <2>2, <2>3, <3>1, ReferencesKept
  <2> QED
    BY <2>4, <2>5
<1>4. ASSUME NEW c \in Conns, Expire(c) PROVE References'
  <2>1. \A p \in Procs : pc'[p] = pc[p] /\ req'[p] = req[p]
    BY <1>0, <1>4 DEF Expire, Goto, At
  <2>2. UNCHANGED clients /\ \A d \in Conns : conns'[d].maker # None => conns'[d] = conns[d]
    BY <1>0, <1>4 DEF Expire, Unused, At
  <2> QED
    BY <2>1, <2>2, ReferencesKept
<1>5. ASSUME NEW t \in Threads, Aside(t) PROVE References'
  BY <1>5, Asides, ReferencesKept
<1>6. CASE UNCHANGED vars
  BY <1>6, ReferencesKept DEF vars
<1> QED
  BY <1>1, <1>2, <1>3, <1>4, <1>5, <1>6, Split

\* is_some_client is true to the list.
LEMMA KnownStep == Typed /\ Senders /\ Known /\ [Next]_vars => Known'
<1> SUFFICES ASSUME Typed, Senders, Known, [Next]_vars PROVE Known'
  OBVIOUS
<1>1. ASSUME UNCHANGED <<clients, some>> PROVE Known'
  BY <1>1 DEF Known, Connected
<1>2. ASSUME NEW p \in Procs, Register(p, req[p].what[2]) PROVE Known'
  BY <1>2, Enlisted, <1>1 DEF Known, Connected
<1>3. ASSUME NEW p \in Procs, Unregister(p) PROVE Known'
  <2> DEFINE s == SlotOf(p)
  <2>1. clients' = Emptied(s)
        /\ some' = IF s # 0 /\ \A x \in Slots : Emptied(s)[x] = None THEN FALSE ELSE some
    BY <1>3 DEF Unregister
  <2>2. CASE s = 0
    <3>1. clients' = clients
      BY <2>1, <2>2, Numbered DEF Emptied, Typed, TypeOK
    <3> QED
      BY <1>1, <2>1, <2>2, <3>1
  <2>3. CASE s # 0
    <3>1. s \in Slots /\ clients[s] # None
      BY <2>3, SlotOfFound
    <3>2. some
      BY <3>1 DEF Known, Connected
    <3> QED
      BY <2>1, <2>3, <3>2 DEF Known, Connected
  <2> QED
    BY <2>2, <2>3
<1>4. CASE UNCHANGED vars
  BY <1>1, <1>4 DEF vars
<1>5. ASSUME NEW p \in Procs, LocalWork(p) PROVE Known'
  BY <1>1, <1>2, <1>3, <1>5
  DEF LocalWork, TakeCore, Reply, Find, InterruptedCore, InterruptedClients,
      InterruptedReply, InterruptedNotify, Removed, Keeps, ReplyFails, Unreplied,
      Leave, Reports, At
<1>6. ASSUME NEW t \in Threads, Work(t) PROVE Known'
  BY <1>1, <1>6
  DEF Work, Notify, Removed, SessionCommand, Authorized, GetFloating,
      Refuse, AddConn, DropConn, EndCommand, Keeps, Done, At
<1>7. CASE Environment \/ \E c \in Conns : Expire(c)
  BY <1>1, <1>7 DEF Environment, Send, Die, Signal, SendRemote, Expire, Keeps
<1>8. ASSUME NEW t \in Threads, Aside(t) PROVE Known'
  BY <1>1, <1>8, Asides
<1> QED
  BY <1>4, <1>5, <1>6, <1>7, <1>8, Split

-----------------------------------------------------------------------------
(* The items of the health monitor *)

\* Items are stored only when somebody is about to announce them, and the last
\* announcement leaves none.
LEMMA ItemsStep ==
    Typed /\ Senders /\ Known /\ ItemsAnnounced /\ [Next]_vars => ItemsAnnounced'
<1> SUFFICES ASSUME Typed, Senders, Known, ItemsAnnounced, [Next]_vars
             PROVE  ItemsAnnounced'
  OBVIOUS
<1>0. /\ hm \in [Threads -> {"none", "fetch", "announce"}] /\ items \in Nat
      /\ Procs \subseteq Threads
  BY FciAssumption DEF Typed, TypeOK, Threads
\* Whoever announces goes on, and nobody is connected anew.
<1>1. ASSUME UNCHANGED <<items, cutShort, hm>>, Connected' \subseteq Connected
      PROVE  ItemsAnnounced'
  BY <1>1 DEF ItemsAnnounced
\* Somebody begins to announce, or goes on.
<1>2. ASSUME NEW t \in Threads, hm'[t] # "none" PROVE ItemsAnnounced'
  BY <1>2 DEF ItemsAnnounced
<1>3. CASE Environment \/ \E c \in Conns : Expire(c)
  <2>1. UNCHANGED <<items, cutShort, hm, clients>>
    BY <1>3 DEF Environment, Send, Die, Signal, SendRemote, Expire, Keeps, ghosts
  <2> QED
    BY <1>1, <2>1 DEF Connected
<1>4. ASSUME NEW p \in Procs, LocalWork(p) PROVE ItemsAnnounced'
  <2>1. CASE ReplyFails(p) \/ InterruptedCore(p) \/ InterruptedReply(p)
    <3>1. hm'[p] = "fetch"
      BY <1>0, <2>1 DEF ReplyFails, InterruptedCore, InterruptedReply, Reports
    <3> QED
      BY <1>0, <1>2, <3>1
  <2>2. CASE TakeCore(p) \/ Reply(p) \/ Unreplied(p) \/ Leave(p) \/ Find(p)
             \/ InterruptedClients(p) \/ InterruptedNotify(p)
    <3>1. UNCHANGED <<items, cutShort, hm, clients>>
      BY <2>2
      DEF TakeCore, Reply, Unreplied, Leave, Find, InterruptedClients, InterruptedNotify,
          Removed, Keeps, ghosts
    <3> QED
      BY <1>1, <3>1 DEF Connected
  <2>3. CASE Unregister(p)
    <3>1. UNCHANGED <<items, cutShort, hm>>
      BY <2>3 DEF Unregister, ghosts
    <3>2. Connected' \subseteq Connected
      BY <2>3 DEF Unregister, Emptied, Connected
    <3> QED
      BY <1>1, <3>1, <3>2
  <2>4. CASE Register(p, req[p].what[2])
    <3>1. items' = items
      BY <2>4 DEF Register, Enlist
    <3>2. CASE UNCHANGED <<clients, some, hm, cutShort>>
      BY <1>1, <3>1, <3>2 DEF Connected
    <3>3. CASE hm' = [hm EXCEPT ![p] = "fetch"]
      BY <1>0, <1>2, <3>3
    <3>4. CASE Connected # {} /\ UNCHANGED <<hm, cutShort>>
      BY <3>1, <3>4 DEF ItemsAnnounced
    <3> QED
      BY <2>4, <3>2, <3>3, <3>4, Enlisted
  <2> QED
    BY <1>4, <2>1, <2>2, <2>3, <2>4 DEF LocalWork
<1>5. ASSUME NEW t \in Threads, Work(t) PROVE ItemsAnnounced'
  <2>1. UNCHANGED <<items, cutShort, hm, clients>>
    BY <1>5
    DEF Work, Notify, Removed, SessionCommand, Authorized, GetFloating, Refuse, AddConn,
        DropConn, EndCommand, Done, Keeps, ghosts
  <2> QED
    BY <1>1, <2>1 DEF Connected
<1>6. ASSUME NEW t \in Threads, Aside(t) PROVE ItemsAnnounced'
  <2>1. Connected' = Connected /\ some' = some
    BY <1>6, Asides DEF Connected
  <2>2. CASE TakeClientsLock(t)
    BY <1>1, <2>1, <2>2 DEF TakeClientsLock, Keeps, ghosts
  <2>3. CASE Report(t) \/ Broadcast(t)
    <3>1. hm'[t] = "fetch"
      BY <1>0, <2>3 DEF Report, Reports, Broadcast
    <3> QED
      BY <1>2, <3>1
  <2>4. CASE BroadcastFails(t) \/ InterruptedBroadcast(t)
    BY <2>1, <2>4 DEF BroadcastFails, InterruptedBroadcast, ItemsAnnounced
  <2>5. CASE Fetch(t)
    <3>1. CASE some /\ items > 0
      <4>1. hm'[t] = "announce"
        BY <1>0, <2>5, <3>1 DEF Fetch
      <4> QED
        BY <1>2, <4>1
    <3>2. CASE ~(some /\ items > 0)
      <4>1. items' = items
        BY <2>5, <3>2 DEF Fetch
      <4> QED
        BY <2>1, <3>2, <4>1 DEF ItemsAnnounced, Known
    <3> QED
      BY <3>1, <3>2
  <2> QED
    BY <1>6, <2>2, <2>3, <2>4, <2>5 DEF Aside
<1>7. CASE UNCHANGED vars
  BY <1>1, <1>7 DEF vars, ghosts, Connected
<1> QED
  BY <1>3, <1>4, <1>5, <1>6, <1>7, Split

-----------------------------------------------------------------------------
\* The interface starts without clients, connections and requests.
LEMMA InvInit == Init => IInv
<1> SUFFICES ASSUME Init PROVE IInv
  OBVIOUS
<1>1. Typed
  BY TypeInit
<1>2. /\ \A t \in Threads : pc[t] = "idle" /\ req[t] = NoRequest
      /\ Procs \cup {Worker, Ageing} \cup Others = Threads
  BY DEF Init, Threads
<1>3. Roles /\ Senders
  BY <1>2 DEF Roles, Senders, NoRequest
<1>4. CoreKept /\ Holders
  BY <1>2 DEF Init, CoreKept, Holders, Served, Threads
<1>5. Owning
  BY <1>2 DEF Owning, InCommand
<1>6. References
  BY <1>2 DEF Init, References, Refers, Unused, Threads
<1>7. Known /\ ItemsAnnounced
  BY DEF Init, Known, Connected, ItemsAnnounced
<1> QED
  BY <1>1, <1>3, <1>4, <1>5, <1>6, <1>7 DEF IInv

\* What every step of the control interface preserves.
THEOREM FciInvariant == Spec => []IInv
<1>1. IInv /\ [Next]_vars => IInv'
  BY TypeStep, RolesStep, SendersStep, CoreStep, HoldersStep, OwningStep, ReferencesStep,
     KnownStep, ItemsStep DEF IInv
<1> QED
  BY <1>1, InvInit, PTL DEF Spec

\* Commands of local processes and of slaves are executed one at a time, by the
\* owner of the interface (fci_owner_get_floating_lock), although the two share
\* no lock.
THEOREM CommandsExclusive == Spec => []OneCommandAtATime
<1>1. IInv => OneCommandAtATime
  BY Alone DEF IInv, Typed, Owning, OneCommandAtATime
<1> QED
  BY <1>1, FciInvariant, PTL

\* The slot a connection refers to (fci_connections_ipvx_ct_cmd) belongs to its
\* maker until that unregisters.
THEOREM EventsReachMaker == Spec => []EventsToMaker
<1>1. IInv => EventsToMaker
  BY DEF IInv, References, Refers, EventsToMaker
<1> QED
  BY <1>1, FciInvariant, PTL

\* Stored items are being announced while a client is registered, by whoever has
\* reported one or by the registration of the first client (fci_hm_cb), unless
\* sending to the last client of the list failed or a signal ended the loop.
THEOREM ItemsAreAnnounced == Spec => []ItemsAnnounced
<1>1. IInv => ItemsAnnounced
  BY DEF IInv
<1> QED
  BY <1>1, FciInvariant, PTL

\* The four mutexes are taken in one order: who waits for a lock waits for a
\* thread that goes on, unless fci_handle_msg returned with the lock of the core
\* held.
THEOREM WaitsDoEnd == Spec => []WaitsEnd
<1>1. IInv => WaitsEnd
  <2> SUFFICES ASSUME IInv, ~leaked, NEW t \in Threads
               PROVE  /\ WaitsFor(WaitsFor(WaitsFor(WaitsFor(WaitsFor(t))))) = None
                      /\ At(t, "idle") => t \notin {core, clientsLock, ownerMutex, rtable}
    BY DEF WaitsEnd
  <2>0. /\ None \notin Threads
        /\ {core, clientsLock, ownerMutex, rtable} \subseteq Threads \cup {None}
        /\ pc \in [Threads -> Steps]
    BY FciAssumption DEF IInv, Typed, TypeOK, Threads
  <2>1. WaitsFor(None) = None
    BY DEF WaitsFor
  <2>2. WaitsFor(clientsLock) = None
    BY <2>1 DEF IInv, Holders, AwaitsClients, WaitsFor, At
  <2>3. WaitsFor(rtable) \in {clientsLock, None}
    BY <2>1 DEF IInv, Holders, WaitsFor, At
  <2>4. WaitsFor(ownerMutex) \in {rtable, clientsLock, None}
    BY <2>1 DEF IInv, Holders, WaitsFor, At
  <2>5. WaitsFor(core) \in {ownerMutex, rtable, clientsLock, None}
    BY <2>1 DEF IInv, CoreKept, Served, WaitsFor, At
  <2>6. WaitsFor(t) \in {core, ownerMutex, rtable, clientsLock, None}
    BY <2>1 DEF WaitsFor, At
  <2>7. At(t, "idle") => t \notin {core, clientsLock, ownerMutex, rtable}
    BY <2>0 DEF IInv, CoreKept, Holders, AwaitsClients, Served, At
  <2> HIDE DEF WaitsFor
  <2> QED
    BY <2>1, <2>2, <2>3, <2>4, <2>5, <2>6, <2>7
<1> QED
  BY <1>1, FciInvariant, PTL
=============================================================================
