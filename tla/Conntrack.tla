------------------------------ MODULE Conntrack ------------------------------
(***************************************************************************)
(* The life of a routing table entry, shared by two threads: the FCI       *)
(* worker, which registers, lists and removes connections for its clients  *)
(* (fci_connections.c, fci_routes.c), and the worker of the routing table, *)
(* which ages them (pfe_rtable.c).                                         *)
(*                                                                         *)
(* An entry is memory with a reference counter.  One counts for the table, *)
(* one for every pointer that the FCI worker got by get_first, get_next or *)
(* get_child and has not given back.  The two directions of a connection   *)
(* point to each other, and those pointers are not counted.                *)
(*                                                                         *)
(* What runs under the mutex of the table is one step.  How the entries    *)
(* lie in the hash table is left out, except that there may be no room.    *)
(***************************************************************************)
EXTENDS Integers, SequencesExt, FiniteSetsExt

CONSTANTS
    Entries,    \* memory for entries, 1 .. n: an allocation takes the lowest
    Tuples,     \* 5-tuples
    Pairs,      \* connections that clients register: <<original, reply>>
    Singles,    \* and those in one direction only
    Used,       \* the 5-tuples of the packets that arrive
    Routes,     \* route IDs
    Bucket,     \* Bucket[t]: the hash of a 5-tuple
    PoolSize,   \* physical entries for those that share a hash
    Default,    \* the time-out of new entries at first, in ticks
    Timeouts,   \* those that clients set
    Inf,        \* 0xffffffff: never, and the mark of the ageing loop
    None, End   \* NULL and the head of the list

ASSUME ConntrackAssumption ==
    /\ Entries \subseteq Nat \ {0} /\ IsFiniteSet(Entries)
    /\ Pairs \subseteq Tuples \X Tuples /\ Singles \subseteq Tuples /\ Used \subseteq Tuples
    /\ Bucket \in [Tuples -> Nat] /\ PoolSize \in Nat
    /\ Inf \in Nat /\ {Default} \cup Timeouts \subseteq 0 .. Inf
    /\ {None, End} \cap (Entries \cup Tuples \cup Routes) = {} /\ None # End
    /\ None \notin {"register", "deregister", "update", "query", "timeout", "drop"}

VARIABLES
    mem,        \* the memory of the entries
    list,       \* rtable->active_entries
    cursor,     \* rtable->cur_item: an entry, the head of the list, or NULL
    listing,    \* a client may continue the listing with QUERY_CONT
    leaked,     \* the mutex of the table is held and nobody will release it
    routes,     \* fci_context->route_db
    default,    \* fci_context->default_timeouts
    pc, fci,    \* the FCI worker: progress, command, the pointers it holds
    beat,       \* ghost: changes with every tick
    owed        \* ghost: connections whose end the client has to be told

tableVars == <<mem, list, cursor, owed>>
fciVars == <<pc, fci>>
vars == <<tableVars, listing, leaked, routes, default, fciVars, beat>>

Blank == [live |-> FALSE, tuple |-> None, route |-> None, rtable |-> FALSE,
          ref |-> 0, child |-> None, timeout |-> Inf, curr |-> Inf,
          active |-> FALSE, callback |-> FALSE, added |-> FALSE]
Pcs == {"idle", "add", "add_rep", "child", "del", "free", "del_rep", "free_rep",
        "check", "set", "next", "end", "drop", "undefined"}

\* rtable->cur_crit and its argument, as what they match.  It outlives the
\* command only for a listing, where it is All.
All == [tuples |-> Tuples, routes |-> Routes]
Idle == [cmd |-> None, entry |-> None, rep |-> None,
         crit |-> All, late |-> FALSE]

\* pfe_rtable_create, fci_init
Init ==
    /\ mem = [e \in Entries |-> Blank] /\ list = <<>> /\ cursor = None
    /\ listing = FALSE /\ leaked = FALSE /\ routes = {} /\ default = Default
    /\ pc = "idle" /\ fci = Idle /\ beat = FALSE /\ owed = {}

InTable == {e \in Entries : mem[e].rtable}

(***************************************************************************)
(* What the functions of the table do to it, s, under its mutex.           *)
(***************************************************************************)
Table == [mem |-> mem, list |-> list, cursor |-> cursor, owed |-> owed]

Becomes(s) ==
    /\ mem' = s.mem /\ list' = s.list /\ cursor' = s.cursor /\ owed' = s.owed

\* pfe_rtable_entry_free_nolock: the last reference takes the entry with it,
\* unless it is in the table.
Deallocate(s, e) ==
    [s EXCEPT !.mem = [x \in Entries |->
        IF x = e THEN Blank
        ELSE IF x = @[e].child THEN [@[x] EXCEPT !.child = None] ELSE @[x]]]

FreeNolock(s, e) ==
    IF s.mem[e].ref <= 0 /\ ~s.mem[e].rtable THEN Deallocate(s, e) ELSE s

Free(s, e) == FreeNolock([s EXCEPT !.mem[e].ref = @ - 1], e)

\* fci_connections_ipv4_cbk: the client learns that the connection has gone.
\* To tell it about both directions the callback takes a reference to the
\* other one, and gives it back.
Callback(s, e) ==
    LET told == [s EXCEPT !.owed = @ \ {s.mem[e].tuple}]
        child == s.mem[e].child
    IN  IF ~s.mem[e].callback THEN s
        ELSE IF child = None THEN told ELSE FreeNolock(told, child)

Where(es, e) == SelectInSeq(es, LAMBDA x : x = e)

\* The entry behind the ith of a list, or the head of the list
Behind(es, i) == IF i = Len(es) THEN End ELSE es[i + 1]

After(s, e) == Behind(s.list, Where(s.list, e))

DelUnderCursor(s, e) ==
    IF ~s.mem[e].rtable THEN s
    ELSE [s EXCEPT !.mem[e].rtable = FALSE, !.mem[e].ref = @ - 1,
                   !.list = RemoveFirst(@, e)]

\* pfe_rtable_del_entry_nolock
DelNolock(s, e) ==
    IF ~s.mem[e].rtable THEN s
    ELSE [s EXCEPT !.mem[e].rtable = FALSE, !.mem[e].ref = @ - 1,
                   !.list = RemoveFirst(@, e),
                   !.cursor = IF @ = e THEN After(s, e) ELSE @]

\* pfe_rtable_del_entry
Del(s, e) == DelNolock(Callback(s, e), e)

\* pfe_rtable_add_entry, when there is room and no duplicate
Add(s, e) ==
    [s EXCEPT !.mem[e].rtable = TRUE, !.mem[e].ref = @ + 1,
              !.mem[e].added = TRUE,
              !.list = Append(@, e),
              !.owed = IF s.mem[e].callback THEN @ \cup {s.mem[e].tuple} ELSE @]

Duplicate(e) == \E x \in InTable : mem[x].tuple = mem[e].tuple

\* The first entry of a hash lies in the hash table, the others in the pool.
Full(e) ==
    LET Hash(x) == Bucket[mem[x].tuple]
        used == {Hash(x) : x \in InTable}
    IN  /\ Hash(e) \in used
        /\ Cardinality(InTable) - Cardinality(used) >= PoolSize

Matches(e, c) == mem[e].tuple \in c.tuples /\ mem[e].route \in c.routes
Suffix(c) ==
    IF c \in {None, End} THEN <<>>
    ELSE SubSeq(list, Where(list, c), Len(list))

\* The search of pfe_rtable_get_first and pfe_rtable_get_next among entries
\* es: the first that matches, or None, and the cursor behind it.
Search(es, c) ==
    LET i == SelectInSeq(es, LAMBDA e : Matches(e, c))
    IN  IF i = 0 THEN [entry |-> None, cursor |-> End]
        ELSE [entry |-> es[i], cursor |-> Behind(es, i)]

Taken(found) ==
    /\ cursor' = found.cursor
    /\ mem' = IF found.entry = None THEN mem
              ELSE [mem EXCEPT ![found.entry].ref = @ + 1]
    /\ UNCHANGED <<list, owed>>

\* pfe_rtable_get_first: an empty table leaves the cursor where it is.
GetFirst(c) ==
    LET found == Search(list, c)
    IN  IF list = <<>> THEN [found EXCEPT !.cursor = cursor] ELSE found

\* pfe_rtable_get_next
GetNext == Search(Suffix(cursor), fci.crit)

-----------------------------------------------------------------------------
(***************************************************************************)
(* The worker of the table, every second (pfe_rtable_do_timeouts).         *)
(***************************************************************************)
ExpireUntold(s, e) ==
    LET t == Callback(s, e)
        child == t.mem[e].child
        alone == [t EXCEPT !.gone = Append(@, e)]
    IN  IF child = None THEN alone
        ELSE IF t.mem[child].timeout = Inf THEN alone
        ELSE [alone EXCEPT !.gone = Append(@, child), !.mem[child].timeout = Inf]

\* An entry whose time is up goes with its partner, which is marked so that
\* the loop skips it.
Expire(s, e) ==
    LET t == Callback(s, e)
        child == t.mem[e].child
        alone == [t EXCEPT !.gone = Append(@, e)]
    IN  IF child = None THEN alone
        ELSE IF t.mem[child].timeout = Inf THEN alone
        ELSE [Callback(alone, child) EXCEPT
                 !.gone = Append(@, child), !.mem[child].timeout = Inf]

AgeBelowZero(s, e) ==
    LET older == [s EXCEPT !.mem[e].curr = @ - 1]
    IN  IF s.mem[e].timeout = Inf THEN s
        ELSE IF s.mem[e].active
             THEN [s EXCEPT !.mem[e].curr = s.mem[e].timeout,
                            !.mem[e].active = FALSE]
        ELSE IF older.mem[e].curr = -1 THEN Expire(older, e) ELSE older

Age(s, e) ==
    LET left == IF s.mem[e].curr >= 1 THEN s.mem[e].curr - 1 ELSE 0
        older == [s EXCEPT !.mem[e].curr = left]
    IN  IF s.mem[e].timeout = Inf THEN s
        ELSE IF s.mem[e].active
             THEN [s EXCEPT !.mem[e].curr = s.mem[e].timeout,
                            !.mem[e].active = FALSE]
        ELSE IF left = 0 THEN Expire(older, e) ELSE older

\* The list after its first n entries have aged; those that go are collected.
Ageing[n \in 0 .. Len(list)] ==
    IF n = 0 THEN [mem |-> mem, list |-> list, cursor |-> cursor, owed |-> owed,
                   gone |-> <<>>]
    ELSE Age(Ageing[n - 1], list[n])

Aged == Ageing[Len(list)]

\* The first n of them have left the table.
Retiring[n \in 0 .. Len(Aged.gone)] ==
    IF n = 0 THEN Aged
    ELSE LET e == Aged.gone[n]
         IN  FreeNolock(DelNolock(Retiring[n - 1], e), e)

\* A command takes far less than a second: at most one tick falls into it.
DoTimeouts ==
    /\ ~leaked /\ list # <<>> /\ ~fci.late
    /\ Becomes(Retiring[Len(Aged.gone)])
    /\ fci' = [fci EXCEPT !.late = pc # "idle"] /\ UNCHANGED pc
    /\ beat' = ~beat
    /\ UNCHANGED <<listing, leaked, routes, default>>

\* The classifier forwards a packet with the entry.
Traffic(e) ==
    /\ mem[e].rtable /\ mem[e].tuple \in Used
    /\ ~mem[e].active /\ mem[e].timeout # Inf
    /\ mem' = [mem EXCEPT ![e].active = TRUE]
    /\ UNCHANGED <<list, cursor, owed, listing, leaked, routes, default, fciVars, beat>>

-----------------------------------------------------------------------------
(***************************************************************************)
(* The FCI worker.  It serves one command after the other.                 *)
(***************************************************************************)
At(p) == pc = p /\ ~leaked /\ UNCHANGED beat
Goto(p) == pc' = p /\ UNCHANGED fci
Done == pc' = "idle" /\ fci' = Idle
Quiet == UNCHANGED <<listing, leaked, routes, default>>

\* FPP_CMD_IP_ROUTE, FPP_ACTION_REGISTER
AddRoute(r) ==
    /\ At("idle") /\ r \notin routes /\ routes' = routes \cup {r}
    /\ UNCHANGED <<tableVars, listing, leaked, default, fciVars>>

Fresh(m) == Min({e \in Entries : ~m[e].live})
NoMemory(m) == \A e \in Entries : m[e].live

\* fci_connections_create_entry
NewEntry(tuple, route, callback) ==
    [Blank EXCEPT !.live = TRUE, !.tuple = tuple, !.route = route,
                  !.timeout = default, !.curr = default, !.callback = callback]

\* FPP_ACTION_REGISTER of both directions: fci_connections_ipv4_cmd_to_entry,
\* fci_connections_ipv4_cmd_to_rep_entry.  A missing reply route ends the
\* command, and the entry that exists by then is forgotten.
RegisterPair(p, r, rr, listener) ==
    /\ At("idle") /\ r \in routes /\ ~NoMemory(mem)
    /\ LET e == Fresh(mem)
           m == [mem EXCEPT ![e] = NewEntry(p[1], r, listener)]
           x == Fresh(m)
       IN  IF rr \notin routes \/ NoMemory(m)
           THEN mem' = m /\ Done
           ELSE /\ mem' = [m EXCEPT ![x] = [NewEntry(p[2], rr, FALSE)
                                               EXCEPT !.child = e],
                                    ![e].child = x]
                /\ pc' = "add"
                /\ fci' = [Idle EXCEPT !.cmd = "register", !.entry = e, !.rep = x]
    /\ UNCHANGED <<list, cursor, owed>> /\ Quiet

\* The same with one direction disabled
RegisterOne(t, r, reply, listener) ==
    /\ At("idle") /\ r \in routes /\ ~NoMemory(mem)
    /\ LET e == Fresh(mem)
       IN  /\ mem' = [mem EXCEPT ![e] = NewEntry(t, r, listener)]
           /\ pc' = IF reply THEN "add_rep" ELSE "add"
           /\ fci' = [Idle EXCEPT !.cmd = "register",
                         !.entry = IF reply THEN None ELSE e,
                         !.rep = IF reply THEN e ELSE None]
    /\ UNCHANGED <<list, cursor, owed>> /\ Quiet

\* What is left of a registration that failed: each new entry is deleted, as
\* if it were in the table, and freed.  If deleting the first has freed the
\* second the worker goes on with memory it does not own any more.
Undo(e, x) ==
    LET Drop(s, y) == IF y = None THEN s
                      ELSE IF s.mem[y].live THEN Free(Del(s, y), y)
                      ELSE [s EXCEPT !.stale = TRUE]
        start == [mem |-> mem, list |-> list, cursor |-> cursor,
                  owed |-> owed, stale |-> FALSE]
        end == Drop(Drop(start, e), x)
    IN  /\ Becomes(end)
        /\ IF end.stale THEN Goto("undefined") ELSE Done

AddEntry ==
    /\ At("add")
    /\ IF Duplicate(fci.entry) \/ Full(fci.entry)
       THEN Undo(fci.entry, fci.rep)
       ELSE /\ Becomes(Add(Table, fci.entry))
            /\ IF fci.rep = None THEN Done ELSE Goto("add_rep")
    /\ Quiet

\* A duplicate in the reply direction is tolerated: the new entry stays linked
\* to its partner without being in the table.
AddReply ==
    /\ At("add_rep")
    /\ IF ~mem[fci.rep].live THEN Goto("undefined") /\ UNCHANGED tableVars
       ELSE IF Duplicate(fci.rep) THEN Done /\ UNCHANGED tableVars
       ELSE IF Full(fci.rep) THEN Undo(fci.entry, fci.rep)
       ELSE Becomes(Add(Table, fci.rep)) /\ Done
    /\ Quiet

\* A command that works on the entries it finds
Lookup(cmd, c, found, p) ==
    /\ Taken(found)
    /\ IF found.entry = None /\ cmd # "drop" THEN Done
       ELSE /\ pc' = p
            /\ fci' = [Idle EXCEPT !.cmd = cmd, !.entry = found.entry, !.crit = c]

\* ... is the end of a listing that another command was doing.
GiveUpListing == listing' = FALSE

\* FPP_ACTION_DEREGISTER and FPP_ACTION_UPDATE
ByTuple(cmd, t) ==
    /\ At("idle")
    /\ LET c == [All EXCEPT !.tuples = {t}]
       IN  Lookup(cmd, c, GetFirst(c), IF cmd = "deregister" THEN "child" ELSE "free")
    /\ GiveUpListing /\ UNCHANGED <<leaked, routes, default>>

\* FPP_ACTION_QUERY
Query ==
    /\ At("idle")
    /\ LET found == GetFirst(All)
       IN  /\ Lookup("query", All, found, "child")
           /\ listing' = (found.entry # None)
    /\ UNCHANGED <<leaked, routes, default>>

\* FPP_ACTION_QUERY_CONT
QueryCont ==
    /\ At("idle") /\ listing
    /\ Lookup("query", All, GetNext, "child")
    /\ listing' = (GetNext.entry # None)
    /\ UNCHANGED <<leaked, routes, default>>

\* FPP_CMD_IPV4_SET_TIMEOUT: the default for new connections, then each of
\* those that exist
SetTimeouts(t) ==
    /\ At("idle") /\ default' = t
    /\ Lookup("timeout", All, GetFirst(All), "check")
    /\ GiveUpListing /\ UNCHANGED <<leaked, routes>>

DropRouteOnly(r) ==
    /\ At("idle") /\ r \in routes
    /\ LET c == [All EXCEPT !.routes = {r}]
       IN  Lookup("drop", c, [entry |-> None, cursor |-> cursor], "drop")
    /\ GiveUpListing /\ UNCHANGED <<leaked, routes, default>>

\* fci_routes_drop_one: first the connections that use the route
DropRoute(r) ==
    /\ At("idle") /\ r \in routes
    /\ LET c == [All EXCEPT !.routes = {r}]
           found == GetFirst(c)
       IN  Lookup("drop", c, found, IF found.entry = None THEN "drop" ELSE "del")
    /\ GiveUpListing /\ UNCHANGED <<leaked, routes, default>>

RemoveRoute ==
    /\ At("drop") /\ routes' = routes \ fci.crit.routes /\ Done
    /\ UNCHANGED <<tableVars, listing, leaked, default>>

\* pfe_rtable_entry_get_child
GetChild ==
    /\ At("child")
    /\ LET c == mem[fci.entry].child
       IN  /\ mem' = IF c = None THEN mem ELSE [mem EXCEPT ![c].ref = @ + 1]
           /\ fci' = [fci EXCEPT !.rep = c]
           /\ pc' = IF fci.cmd = "query" THEN "free" ELSE "del"
    /\ UNCHANGED <<list, cursor, owed>> /\ Quiet

DelEntry ==
    /\ At("del")
    /\ Becomes(Del(Table, fci.entry)) /\ Goto("free")
    /\ Quiet

FreeEntryOnly ==
    /\ At("free")
    /\ Becomes(Free(Table, fci.entry))
    /\ IF fci.cmd \in {"timeout", "drop"}
       THEN pc' = "next" /\ fci' = [fci EXCEPT !.entry = None]
       ELSE Done
    /\ Quiet

FreeEntry ==
    /\ At("free")
    /\ Becomes(Free(Table, fci.entry))
    /\ IF fci.cmd \in {"timeout", "drop"}
       THEN pc' = "next" /\ fci' = [fci EXCEPT !.entry = None]
       ELSE IF fci.rep = None THEN Done
       ELSE /\ pc' = IF fci.cmd = "query" THEN "free_rep" ELSE "del_rep"
            /\ fci' = [fci EXCEPT !.entry = None]
    /\ Quiet

DelRep ==
    /\ At("del_rep")
    /\ Becomes(Del(Table, fci.rep)) /\ Goto("free_rep")
    /\ Quiet

FreeRep ==
    /\ At("free_rep")
    /\ Becomes(Free(Table, fci.rep)) /\ Done
    /\ Quiet

NextEntry ==
    /\ At("next")
    /\ Taken(GetNext)
    /\ fci' = [fci EXCEPT !.entry = GetNext.entry]
    /\ pc' = IF GetNext.entry = None
             THEN IF fci.cmd = "drop" THEN "drop" ELSE "end"
             ELSE IF fci.cmd = "drop" THEN "del" ELSE "check"
    /\ Quiet

EndTimeouts ==
    /\ At("end") /\ Done /\ UNCHANGED tableVars /\ Quiet

NewTimeoutRestarts(e, t) == [mem EXCEPT ![e].timeout = t, ![e].curr = t]

\* pfe_rtable_entry_set_timeout: what has elapsed stays elapsed.
NewTimeout(e, t) ==
    LET elapsed == mem[e].timeout - mem[e].curr
    IN  [mem EXCEPT ![e].timeout = t,
            ![e].curr = IF mem[e].timeout = Inf THEN t
                        ELSE IF elapsed >= t THEN 0 ELSE t - elapsed]

\* An entry that is in no table is written at once; for the others the worker
\* waits for the mutex.
CheckTable ==
    /\ At("check")
    /\ IF mem[fci.entry].rtable
       THEN Goto("set") /\ UNCHANGED mem
       ELSE Goto("free") /\ mem' = NewTimeout(fci.entry, default)
    /\ UNCHANGED <<list, cursor, owed>> /\ Quiet

SetTimeoutNoUnlock ==
    /\ At("set")
    /\ mem' = NewTimeout(fci.entry, default)
    /\ leaked' = TRUE
    /\ Goto("free")
    /\ UNCHANGED <<list, cursor, owed, listing, routes, default>>

\* The mutex is found through the entry again to release it.
SetTimeout ==
    /\ At("set")
    /\ mem' = NewTimeout(fci.entry, default)
    /\ leaked' = ~mem[fci.entry].rtable
    /\ Goto("free")
    /\ UNCHANGED <<list, cursor, owed, listing, routes, default>>

-----------------------------------------------------------------------------
FciStep ==
    \/ AddEntry \/ AddReply \/ GetChild \/ DelEntry \/ FreeEntry \/ DelRep
    \/ FreeRep \/ NextEntry \/ EndTimeouts \/ CheckTable \/ SetTimeout
    \/ RemoveRoute

Command ==
    \/ \E r \in Routes : AddRoute(r) \/ DropRoute(r)
    \/ \E p \in Pairs, r, rr \in Routes, l \in BOOLEAN : RegisterPair(p, r, rr, l)
    \/ \E t \in Singles, r \in Routes, x, l \in BOOLEAN : RegisterOne(t, r, x, l)
    \/ \E t \in Tuples, c \in {"deregister", "update"} : ByTuple(c, t)
    \/ Query \/ QueryCont
    \/ \E t \in Timeouts : SetTimeouts(t)

Next == DoTimeouts \/ FciStep \/ Command \/ \E e \in Entries : Traffic(e)

Spec == Init /\ [][Next]_vars

\* The tick comes every second, and a command does not stop halfway.  No other
\* step changes beat, and no step of a command leaves pc, so that these say the
\* same as weak fairness of DoTimeouts and FciStep and are quick to evaluate.
Beats == ~leaked /\ list # <<>> /\ ~fci.late /\ beat' = ~beat
Moves == ~leaked /\ pc \notin {"idle", "undefined"} /\ pc' \in Pcs \ {pc}
FairSpec == Spec /\ WF_beat(Beats) /\ WF_pc(Moves)

-----------------------------------------------------------------------------
(***************************************************************************)
(* Properties                                                              *)
(***************************************************************************)
Stuck == leaked \/ pc = "undefined"

Cmds == {"register", "deregister", "update", "query", "timeout", "drop", None}

\* Every variable keeps its type.
TypeOK ==
    /\ mem \in [Entries ->
          [live : BOOLEAN, tuple : Tuples \cup {None}, route : Routes \cup {None},
           rtable : BOOLEAN, ref : Int, child : Entries \cup {None},
           timeout : 0 .. Inf, curr : 0 .. Inf, active : BOOLEAN,
           callback : BOOLEAN, added : BOOLEAN]]
    /\ list \in Seq(Entries) /\ cursor \in Entries \cup {None, End}
    /\ listing \in BOOLEAN
    /\ leaked \in BOOLEAN /\ routes \subseteq Routes /\ default \in 0 .. Inf
    /\ pc \in Pcs /\ beat \in BOOLEAN
    /\ fci \in [cmd : Cmds, entry : Entries \cup {None},
                 rep : Entries \cup {None}, late : BOOLEAN,
                 crit : [tuples : SUBSET Tuples, routes : SUBSET Routes]]
    /\ owed \subseteq Tuples

\* With a time-out of one tick or none, which the FCI accepts, the first entry
\* of a pair may expire before the second is in the table.
Overtaken ==
    pc = "add_rep" /\ fci.entry # None /\ fci.late /\ default < 2

\* No pointer leads to memory that was given back: those of the list, of the
\* cursor, of an entry to its partner, and those the FCI worker holds while the
\* worker of the table ages entries between its steps.  The two exceptions are
\* a registration that fails and one that the ageing overtakes, see
\* StuckNeedsABadMoment.
NoDangling ==
    LET Live(e) == e \in {None, End} \/ mem[e].live
    IN  /\ Range(list) = InTable
        /\ cursor \in {None, End} \cup InTable
        /\ \A e \in Entries : mem[e].live =>
              /\ Live(mem[e].child)
              /\ mem[e].child # None => mem[mem[e].child].child = e
        /\ pc # "undefined" /\ ~Overtaken => Live(fci.entry) /\ Live(fci.rep)

\* An entry that was in the table is freed when it leaves it: between commands
\* none is left that is out of the table.
RemovedIsFreed ==
    pc = "idle" => \A e \in Entries : mem[e].added => mem[e].rtable

\* There are three ways for the driver to stop, and no fourth.  The worker uses
\* freed memory only when it registers both directions: if the client listens
\* and one of them is refused, the callback that deleting the first entry calls
\* frees the second; and if the time-out is below two ticks, the first may
\* expire before the second is added, and takes it along.  And the mutex stays
\* locked when the table removes an entry while the worker waits to change its
\* time-out.
StuckNeedsABadMoment ==
    /\ pc = "undefined" =>
          fci.cmd = "register" /\ fci.entry # None /\ fci.rep # None
    /\ leaked => fci.cmd = "timeout" /\ fci.late

\* A connection does not leave the table unless the client that registered it
\* is told.
NoSilentRemoval ==
    owed \subseteq {mem[e].tuple : e \in InTable}

\* No connection outlives its route: the routes of all entries are in the
\* database between commands, although ageing moves the cursor with which the
\* connections of a route are found.
EntriesHaveRoutes ==
    pc = "idle" => \A e \in InTable : mem[e].route \in routes

\* A connection with a time-out that is not used any more leaves the table,
\* whatever the clients do meanwhile.
Ages(e) == mem[e].rtable /\ mem[e].timeout # Inf
AgedOut ==
    \A e \in Entries : []<>~Ages(e) \/ []<>mem[e].active \/ <>[]Stuck

\* "This prevents invalid access to deallocated memory through child pointer."
\* (pfe_rtable.c:694)
NoUseAfterFree == pc # "undefined"

\* The memory of the entries: the types, no pointer to what was freed, and
\* nothing that is out of the table left unfreed.
MemoryInv == TypeOK /\ NoDangling /\ RemovedIsFreed
=============================================================================
