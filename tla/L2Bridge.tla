------------------------------- MODULE L2Bridge -------------------------------
(***************************************************************************)
(* The VLAN domains and the static MAC entries of the bridge: pfe_l2br.c   *)
(* driven by the commands of fci_l2br_domains.c and fci_l2br.c.            *)
(*                                                                         *)
(* The classifier firmware looks a VLAN up in a table of the class memory, *)
(* a hash table with a collision space, which the driver rewrites entry by *)
(* entry while frames are forwarded: one write of the driver is one step   *)
(* here and the firmware may look between any two.  The commands           *)
(* themselves run one at a time, under the lock of the control interface.  *)
(*                                                                         *)
(* The driver keeps a list of domains and a list of static entries, each   *)
(* with one cursor and one search criterion that all lookups share.        *)
(* Commands to the MAC table hardware may time out, and then the hardware  *)
(* has or has not carried them out.                                        *)
(*                                                                         *)
(* Abstracted: the action data of a domain is its forward list; the        *)
(* statistics index, the untagged list and the learned MAC addresses are   *)
(* left out, and so is running out of memory.                              *)
(***************************************************************************)
EXTENDS Integers, Sequences, FiniteSets, SequencesExt

CONSTANTS
    Coll,         \* hash slots; the collision space starts here
    Size,         \* slots of the table
    Default,      \* the VLAN of the default domain
    Users,        \* the VLANs that clients register
    Ifs,          \* the interfaces, by id
    IfsOf,        \* those that clients put into each VLAN
    Keys,         \* the static entries that clients register
    KeyVlan,      \* the VLAN of each of them
    MaxTimeouts,  \* hardware commands that time out
    All, End, Null, Freed, None   \* criteria and cursors

ASSUME TableAssumption ==
    /\ Coll \in Nat \ {0} /\ Size \in Nat /\ Size >= Coll
    /\ Default \in Nat \ {0} /\ Users \subseteq Nat \ {0, 1} /\ Default \notin Users
    /\ Ifs \subseteq Nat /\ IfsOf \in [{0, Default} \cup Users -> SUBSET Ifs]
    /\ KeyVlan \in [Keys -> Nat] /\ MaxTimeouts \in Nat
    /\ {All, End} \cap ({0, Default} \cup Users \cup Keys) = {} /\ All # End
    /\ {Null, Freed} \cap (Keys \cup {End}) = {} /\ Null # Freed
    /\ None \notin {"endless", "hang", "null", "freed"} /\ \A a \in SUBSET Ifs : a # None
    /\ None \notin {"register", "update", "deregister"}

VARIABLES
    table,      \* the VLAN table in the class memory
    todo,       \* the writes to it that the command has still to make
    pc,         \* where the command stands
    cmd,        \* the command
    rest,       \* the interfaces it has still to go through
    domains,    \* the list of domains
    curDomain, domCrit,    \* its cursor and criterion
    fwd,        \* the forward list of each domain
    ifaces,     \* the interfaces in the list of each domain
    statics,    \* the list of static entries
    curStatic, statCrit,   \* its cursor and criterion
    list,       \* the forward list of each static entry
    mac,        \* the static entries in the MAC table, with their forward list
    unsure,     \* ghost: entries whose last hardware command timed out
    timeouts,   \* ghost: hardware commands that timed out
    mutex,      \* the bridge mutex was left locked
    down,       \* why the driver serves no more commands
    broken      \* ghost: a chain was cut by the update or removal of an entry

tableVars == <<table, todo, broken>>
domainVars == <<domains, curDomain, domCrit, fwd, ifaces>>
staticVars == <<statics, curStatic, statCrit, list, mac, unsure, timeouts>>
vars == <<table, todo, pc, cmd, rest, domains, curDomain, domCrit, fwd, ifaces,
          statics, curStatic, statCrit, list, mac, unsure, timeouts, mutex, down, broken>>

Fallback == 0
Vlans == {Fallback, Default} \cup Users
Slots == 0 .. Size - 1

Entry == [valid : BOOLEAN, vlan : Vlans, act : SUBSET Ifs, col : Slots]   \* col 0: none
Zero == [valid |-> FALSE, vlan |-> 0, act |-> {}, col |-> 0]
New(v, a) == [valid |-> TRUE, vlan |-> v, act |-> a, col |-> 0]

-----------------------------------------------------------------------------
(* The table *)

Hash(v) == v % Coll

\* The first slots on the chain of a VLAN, n more than its head ...
Paths(t, v) ==
    LET path[n \in 0 .. Size] ==
            IF n = 0 THEN <<Hash(v)>>
            ELSE LET before == path[n - 1]
                     next == t[Last(before)].col
                 IN  IF next = 0 THEN before ELSE Append(before, next)
    IN  path

\* ... and all of them, or Size + 1 when it runs in a circle.
Walk(t, v) == Paths(t, v)[Size]

\* The place of the VLAN on its chain, 0 if it is not there.
Place(t, v) == SelectInSeq(Walk(t, v), LAMBDA p : t[p].vlan = v)

\* A search along a chain that runs in a circle never ends.
Endless(t, v) == Place(t, v) = 0 /\ Len(Walk(t, v)) > Size
Spins(t, v) == t[Hash(v)].valid /\ Endless(t, v)

\* Where the firmware finds a VLAN: valid entries on the chain.
Found(t, v) == {p \in Range(Walk(t, v)) : t[p].valid /\ t[p].vlan = v}

Write(p, e) == <<[slot |-> p, entry |-> e]>>

\* A plain update overwrites an inner entry of the chain together with its
\* collision pointer.
UpdateWrites(t, v, a) ==
    LET at == Place(t, v)
        p == Walk(t, v)[at]
    IN  IF at = 1 THEN Write(p, [t[p] EXCEPT !.act = a, !.valid = TRUE]) ELSE Write(p, New(v, a))

MayUpdate(t, v) == \/ Place(t, v) = 1
                   \/ Place(t, v) > 1 /\ t[Hash(v)].valid

UpdateCuts(t, v) == Place(t, v) > 1 /\ t[Walk(t, v)[Place(t, v)]].col # 0

\* The slots the search for a free one goes through.
FreeFrom(t, v) ==
    LET last == Last(Walk(t, v))
    IN  {p \in Slots : p >= last /\ p >= Coll /\ ~t[p].valid}

MayAdd(t, v) == /\ ~ (Place(t, v) = 1) /\ ~ (Place(t, v) > 1 /\ t[Hash(v)].valid)
                /\ t[Hash(v)].valid => FreeFrom(t, v) # {}

AddWrites(t, v, a) ==
    LET last == Last(Walk(t, v))
        p == CHOOSE q \in FreeFrom(t, v) : \A r \in FreeFrom(t, v) : q <= r
    IN  IF ~t[Hash(v)].valid THEN Write(Hash(v), New(v, a))
        ELSE Write(p, New(v, a)) \o Write(last, [t[last] EXCEPT !.col = p])

\* The entry behind the head takes the head's place.  (The mutant clears it first.)
ClearThenMove(t, head, next) == Write(next, Zero) \o Write(head, t[next])
MoveToHead(t, head, next) == Write(head, t[next]) \o Write(next, Zero)

DeleteWrites(t, v) ==
    LET at == Place(t, v)
        p == Walk(t, v)[at]
        next == t[p].col
        prev == Walk(t, v)[at - 1]
    IN  CASE at = 0 -> <<>>
          [] at = 1 /\ next = 0 -> Write(p, Zero)
          [] at = 1 /\ next # 0 -> MoveToHead(t, p, next)
          [] at > 1 /\ next # 0 -> Write(prev, [t[prev] EXCEPT !.col = next]) \o Write(p, Zero)
          [] at > 1 /\ next = 0 -> Write(prev, [t[prev] EXCEPT !.valid = FALSE, !.col = 0])
                                     \o Write(p, Zero)

DeleteCuts(t, v) == Place(t, v) > 1 /\ t[Walk(t, v)[Place(t, v)]].col = 0

-----------------------------------------------------------------------------
(* The lists *)

IsDomain(v) == v \in Range(domains)
IsStatic(k) == k \in Range(statics)

Where(seq, x) == SelectInSeq(seq, LAMBDA y : y = x)
After(seq, x) == IF x = Last(seq) THEN End ELSE seq[Where(seq, x) + 1]

\* What is in S of the sequence, in its order
Only(seq, S) ==
    LET kept[n \in 0 .. Len(seq)] ==
            IF n = 0 THEN <<>>
            ELSE IF seq[n] \in S THEN Append(kept[n - 1], seq[n]) ELSE kept[n - 1]
    IN  kept[Len(seq)]

\* Mutant: the cursor stays at what was found.
SoughtHere(seq, x, cursor) ==
    CASE x \in Range(seq) -> x
      [] x \notin Range(seq) /\ seq # <<>> -> End
      [] seq = <<>> -> cursor

\* The cursor after a search that starts at the head of the list.
Sought(seq, x, cursor) ==
    CASE x \in Range(seq) -> After(seq, x)
      [] x \notin Range(seq) /\ seq # <<>> -> End
      [] seq = <<>> -> cursor

\* The cursor after a search from the cursor on, under a criterion.
Onward(seq, cursor, crit) ==
    LET from == {n \in 1 .. Len(seq) : n >= Where(seq, cursor)}
        hits == {n \in from : crit \in {All, seq[n]}}
    IN  IF cursor = End \/ hits = {} THEN End
        ELSE After(seq, seq[CHOOSE n \in hits : \A m \in hits : n <= m])

LookUpDomain(v) == /\ domCrit' = v
                   /\ curDomain' = Sought(domains, v, curDomain)

LookUpStatic(k) == /\ statCrit' = k
                   /\ curStatic' = Sought(statics, k, curStatic)

-----------------------------------------------------------------------------
Idle == pc = "idle" /\ down = None
At(step) == pc = step /\ todo = <<>> /\ down = None

NoCmd == [kind |-> None, vlan |-> None, want |-> {}]
Start(kind, v, want, step, ifs) ==
    cmd' = [kind |-> kind, vlan |-> v, want |-> want] /\ pc' = step /\ rest' = ifs
Goto(step) == pc' = step /\ UNCHANGED <<cmd, rest>>
Finish == pc' = "idle" /\ cmd' = NoCmd /\ rest' = {}

StopAs(why) == /\ down' = why
               /\ UNCHANGED <<pc, cmd, rest, mutex, tableVars, domainVars, staticVars>>

\* Whoever takes the mutex that was left locked spins for ever (oal_mutex_lock).
Hangs == mutex /\ StopAs("hang")

Put(writes, cuts) == /\ todo' = writes
                     /\ broken' = (broken \/ cuts)
                     /\ UNCHANGED table

\* The class memory is written entry by entry.
WriteOne ==
    /\ todo # <<>> /\ down = None
    /\ table' = [table EXCEPT ![Head(todo).slot] = Head(todo).entry]
    /\ todo' = Tail(todo)
    /\ UNCHANGED <<pc, cmd, rest, mutex, down, broken, domainVars, staticVars>>

-----------------------------------------------------------------------------
(* FPP_CMD_L2_BD *)

\* Register: the domain is new, and its entry discards everything at first; or
\* there is no room for its entry, and what was made is destroyed.  (Its search
\* never comes to a circle: the update after the registration that closes one
\* does not return.)
Register ==
    /\ Idle
    /\ \E v \in Users : \E want \in SUBSET IfsOf[v] :
         /\ ~IsDomain(v) /\ ~Spins(table, v) /\ LookUpDomain(v)
         /\ \/ /\ MayAdd(table, v)
               /\ Put(AddWrites(table, v, {}), FALSE)
               /\ Start("register", v, want, "link", {})
            \/ /\ ~MayAdd(table, v)
               /\ Put(DeleteWrites(table, v), DeleteCuts(table, v))
               /\ Start("register", v, want, "undo", {})
    /\ UNCHANGED <<mutex, down, domains, fwd, ifaces, staticVars>>

RegisterAgain ==
    /\ Idle
    /\ \E v \in Users :
         /\ IsDomain(v)
         /\ \/ Hangs
            \/ /\ ~mutex /\ LookUpDomain(v)
               /\ UNCHANGED <<pc, cmd, rest, mutex, down, domains, fwd, ifaces, tableVars, staticVars>>

\* The new domain joins the list, and the update of its settings finds it there.
Link ==
    /\ At("link")
    /\ \/ Hangs
       \/ /\ ~mutex /\ Goto("ucast")
          /\ domains' = Append(domains, cmd.vlan)
          /\ curDomain' = End /\ domCrit' = cmd.vlan
          /\ UNCHANGED <<mutex, down, fwd, ifaces, tableVars, staticVars>>

\* The domain that did not make it to the table is not in the list either.
Undo ==
    /\ At("undo")
    /\ \/ Hangs
       \/ ~mutex /\ Finish /\ UNCHANGED <<mutex, down, tableVars, domainVars, staticVars>>

Update ==
    /\ Idle
    /\ \E v \in Vlans : \E want \in SUBSET IfsOf[v] :
         /\ LookUpDomain(v)
         /\ \/ IsDomain(v) /\ Start("update", v, want, "ucast", {})
            \/ ~IsDomain(v) /\ UNCHANGED <<pc, cmd, rest>>
    /\ UNCHANGED <<mutex, down, domains, fwd, ifaces, tableVars, staticVars>>

\* The entry of the command's VLAN gets the forward list a.  With none to be
\* found that fails, but for the fallback domain, where nobody looks.
UpdateEntry(a, Done, Failed) ==
    /\ ~Spins(table, cmd.vlan)
    /\ \/ /\ MayUpdate(table, cmd.vlan)
          /\ Put(UpdateWrites(table, cmd.vlan, a), UpdateCuts(table, cmd.vlan))
          /\ Done
       \/ /\ ~MayUpdate(table, cmd.vlan)
          /\ UNCHANGED tableVars
          /\ IF cmd.vlan = Fallback THEN Done ELSE Failed
    /\ UNCHANGED <<mutex, down>>

\* A registration that fails removes the domain again.
Finalize == \/ cmd.kind = "register" /\ pc' = "remove" /\ rest' = ifaces[cmd.vlan] /\ UNCHANGED cmd
            \/ cmd.kind # "register" /\ Finish

\* The unicast and then the multicast actions, each an update of the entry.
SetUcast == At("ucast") /\ UpdateEntry(fwd[cmd.vlan], Goto("mcast"), Finalize)
                        /\ UNCHANGED <<domainVars, staticVars>>
SetMcast == /\ At("mcast")
            /\ UpdateEntry(fwd[cmd.vlan], pc' = "ifs" /\ rest' = Ifs /\ UNCHANGED cmd, Finalize)
            /\ UNCHANGED <<domainVars, staticVars>>

\* The interfaces in the order of their ids.
NextIf == CHOOSE i \in rest : \A j \in rest : i <= j
Passed == rest' = rest \ {NextIf} /\ UNCHANGED <<pc, cmd>>

\* pfe_l2br_domain_add_if: the bit stays set when the update fails.
AddIf ==
    /\ At("ifs") /\ rest # {} /\ NextIf \in cmd.want \ ifaces[cmd.vlan]
    /\ fwd' = [fwd EXCEPT ![cmd.vlan] = @ \cup {NextIf}]
    /\ UpdateEntry(fwd'[cmd.vlan],
                   Passed /\ ifaces' = [ifaces EXCEPT ![cmd.vlan] = @ \cup {NextIf}],
                   Finalize /\ UNCHANGED ifaces)
    /\ UNCHANGED <<domains, curDomain, domCrit, staticVars>>

\* pfe_l2br_domain_del_if: the bit stays clear when the update fails.
DelIf(Done, Failed) ==
    /\ fwd' = [fwd EXCEPT ![cmd.vlan] = @ \ {NextIf}]
    /\ UpdateEntry(fwd'[cmd.vlan],
                   Done /\ ifaces' = [ifaces EXCEPT ![cmd.vlan] = @ \ {NextIf}],
                   Failed /\ UNCHANGED ifaces)
    /\ UNCHANGED <<domains, curDomain, domCrit, staticVars>>

\* An interface that is there already is removed, to be added again.
ReplaceIf == /\ At("ifs") /\ rest # {} /\ NextIf \in cmd.want \cap ifaces[cmd.vlan]
             /\ DelIf(UNCHANGED <<pc, cmd, rest>>, Finalize)

\* An interface that is not wanted goes, and with it what was learned of it.
DropIf == /\ At("ifs") /\ rest # {} /\ NextIf \in ifaces[cmd.vlan] \ cmd.want
          /\ DelIf(Goto("flush"), Finalize)

SkipIf == /\ At("ifs") /\ rest # {} /\ NextIf \notin cmd.want \cup ifaces[cmd.vlan]
          /\ Passed /\ UNCHANGED <<mutex, down, tableVars, domainVars, staticVars>>

\* The loop is over, or it meets a bit that is no interface and stops there: the
\* client gets an error but the domain stays.
IfsDone == /\ At("ifs") /\ Finish /\ UNCHANGED <<mutex, down, tableVars, domainVars, staticVars>>

Deregister ==
    /\ Idle
    /\ \E v \in Users :
         /\ LookUpDomain(v)
         /\ \/ IsDomain(v) /\ Start("deregister", v, {}, "remove", ifaces[v])
            \/ ~IsDomain(v) /\ UNCHANGED <<pc, cmd, rest>>
    /\ UNCHANGED <<mutex, down, domains, fwd, ifaces, tableVars, staticVars>>

\* fci_l2br_domain_remove: every interface, whether or not that works ...
RemoveIf == At("remove") /\ rest # {} /\ DelIf(Goto("flush"), Passed)

\* ... then the entry of the table ...
Destroy ==
    /\ At("remove") /\ rest = {} /\ ~Endless(table, cmd.vlan)
    /\ Put(DeleteWrites(table, cmd.vlan), DeleteCuts(table, cmd.vlan))
    /\ Goto("unlink") /\ UNCHANGED <<mutex, down, domainVars, staticVars>>

\* ... and the domain, from under the cursor.
Unlink ==
    /\ At("unlink")
    /\ \/ Hangs
       \/ /\ ~mutex /\ Finish
          /\ curDomain' = IF curDomain = cmd.vlan THEN After(domains, cmd.vlan) ELSE curDomain
          /\ domains' = Only(domains, Vlans \ {cmd.vlan})
          /\ fwd' = [fwd EXCEPT ![cmd.vlan] = {}]
          /\ ifaces' = [ifaces EXCEPT ![cmd.vlan] = {}]
          /\ UNCHANGED <<mutex, down, domCrit, tableVars, staticVars>>

\* An update or a removal that goes round in circles.
UpdateSpins ==
    /\ \/ At("ucast") \/ At("mcast")
       \/ At("ifs") /\ rest # {} /\ NextIf \in cmd.want \cup ifaces[cmd.vlan]
       \/ At("remove")
    /\ IF rest = {} /\ pc = "remove" THEN Endless(table, cmd.vlan) ELSE Spins(table, cmd.vlan)
    /\ StopAs("endless")

QueryDomains ==
    /\ Idle /\ domCrit' = All /\ curDomain' = After(domains, Head(domains))
    /\ UNCHANGED <<pc, cmd, rest, mutex, down, domains, fwd, ifaces, tableVars, staticVars>>

QueryDomainsCont ==
    /\ Idle /\ curDomain' = Onward(domains, curDomain, domCrit)
    /\ UNCHANGED <<pc, cmd, rest, mutex, down, domains, domCrit, fwd, ifaces, tableVars, staticVars>>

\* A connection that adds a VLAN tag looks the domain up, too.
RtableLooksUp ==
    /\ Idle /\ \E v \in Users : LookUpDomain(v)
    /\ UNCHANGED <<pc, cmd, rest, mutex, down, domains, fwd, ifaces, tableVars, staticVars>>

-----------------------------------------------------------------------------
(* FPP_CMD_L2_STATIC_ENT *)

\* Mutant: the driver forgets an entry without telling the hardware.
DeleteMacsNot(keys, late, kept) ==
    late = {} /\ kept = {} /\ UNCHANGED <<timeouts, mac, unsure>>

\* Deletions from the MAC table; those in late time out, and of these the
\* hardware carries out all but the ones in kept.
DeleteMacs(keys, late, kept) ==
    /\ kept \subseteq late /\ late \subseteq keys
    /\ timeouts + Cardinality(late) <= MaxTimeouts
    /\ timeouts' = timeouts + Cardinality(late)
    /\ mac' = [k \in Keys |-> IF k \in keys \ kept THEN None ELSE mac[k]]
    /\ unsure' = (unsure \ keys) \cup late

\* pfe_l2br_static_entry_destroy_nolock: the cursor stays where it is.
DestroyStatics(keys) ==
    /\ statics' = Only(statics, Keys \ keys)
    /\ list' = [k \in Keys |-> IF k \in keys THEN None ELSE list[k]]
    /\ curStatic' = IF curStatic \in keys THEN Freed ELSE curStatic

\* Only an error of the last deletion counts, and then nobody unlocks the mutex.
LeavesLockedBusy(victims, late) == victims # <<>>   \* mutant: whenever there was a deletion
LeavesLocked(victims, late) == victims # <<>> /\ Last(victims) \in late

\* pfe_l2br_domain_flush_by_if, after the interface was removed.
FlushIf ==
    /\ At("flush")
    /\ LET victims == Only(statics, {k \in Range(statics) :
                                        KeyVlan[k] = cmd.vlan /\ NextIf \in list[k]})
       IN  \/ Hangs
           \/ /\ ~mutex
              /\ \E late \in SUBSET Range(victims), kept \in SUBSET Range(victims) :
                   /\ DeleteMacs(Range(victims), late, kept)
                   /\ mutex' = LeavesLocked(victims, late)
              /\ DestroyStatics(Range(victims))
              /\ \/ cmd.kind = "update" /\ mutex' /\ Finish
                 \/ cmd.kind # "update" /\ pc' = "remove" /\ rest' = rest \ {NextIf} /\ UNCHANGED cmd
                 \/ cmd.kind = "update" /\ ~mutex' /\ pc' = "ifs" /\ rest' = rest \ {NextIf} /\ UNCHANGED cmd
              /\ UNCHANGED <<down, statCrit, tableVars, domainVars>>

\* A command to add or update an entry of the MAC table: done, or timed out
\* with or without effect.
MacCommand(k, a, Done, Failed) ==
    \/ /\ mac' = [mac EXCEPT ![k] = a] /\ unsure' = unsure \ {k}
       /\ UNCHANGED timeouts /\ Done
    \/ /\ timeouts < MaxTimeouts /\ timeouts' = timeouts + 1
       /\ unsure' = unsure \cup {k}
       /\ mac' \in {mac, [mac EXCEPT ![k] = a]} /\ Failed

\* pfe_l2br_static_add_entry: its search moves the cursor but sets no criterion.
\* An entry that the hardware still has from before may be refused.
StaticRegister ==
    /\ Idle
    /\ \E k \in Keys, a \in SUBSET Ifs :
         \/ Hangs
         \/ /\ ~mutex
            /\ curStatic' = Sought(statics, k, curStatic)
            /\ \/ /\ ~IsStatic(k)
                  /\ MacCommand(k, a,
                        statics' = Append(statics, k) /\ list' = [list EXCEPT ![k] = a],
                        UNCHANGED <<statics, list>>)
               \/ /\ IsStatic(k) \/ mac[k] # None
                  /\ UNCHANGED <<statics, list, mac, unsure, timeouts>>
            /\ UNCHANGED <<pc, cmd, rest, mutex, down, statCrit, tableVars, domainVars>>

\* The forward list and three flags, each an update of the whole entry: when
\* the first times out, the next one writes the old list again.
StaticUpdate ==
    /\ Idle
    /\ \E k \in Keys, a \in SUBSET Ifs :
         \/ Hangs
         \/ /\ ~mutex /\ LookUpStatic(k)
            /\ \/ /\ IsStatic(k) /\ mac[k] # None
                  /\ \/ /\ list' = [list EXCEPT ![k] = a]
                        /\ UNCHANGED timeouts
                     \/ /\ timeouts < MaxTimeouts /\ timeouts' = timeouts + 1
                        /\ list' \in {list, [list EXCEPT ![k] = a]}
                  /\ mac' = [mac EXCEPT ![k] = list'[k]]
                  /\ unsure' = unsure \ {k}
               \/ /\ ~IsStatic(k) \/ mac[k] = None
                  /\ UNCHANGED <<list, mac, unsure, timeouts>>
            /\ UNCHANGED <<pc, cmd, rest, mutex, down, statics, tableVars, domainVars>>

\* The lookup has moved the cursor past the entry that goes.
StaticDeregister ==
    /\ Idle
    /\ \E k \in Keys :
         \/ Hangs
         \/ /\ ~mutex /\ LookUpStatic(k)
            /\ IF IsStatic(k)
               THEN /\ \E late \in SUBSET {k}, kept \in SUBSET {k} : DeleteMacs({k}, late, kept)
                    /\ statics' = Only(statics, Keys \ {k})
                    /\ list' = [list EXCEPT ![k] = None]
               ELSE UNCHANGED <<statics, list, mac, unsure, timeouts>>
            /\ UNCHANGED <<pc, cmd, rest, mutex, down, tableVars, domainVars>>

QueryStatics ==
    /\ Idle
    /\ \/ Hangs
       \/ /\ ~mutex /\ statCrit' = All
          /\ curStatic' = IF statics = <<>> THEN curStatic ELSE After(statics, Head(statics))
          /\ UNCHANGED <<pc, cmd, rest, mutex, down, statics, list, mac, unsure, timeouts,
                         tableVars, domainVars>>

\* Nothing keeps a client from going on with a listing that was never started
\* or whose next entry is gone.
QueryStaticsCont ==
    /\ Idle
    /\ \/ Hangs
       \/ ~mutex /\ curStatic = Null /\ StopAs("null")
       \/ ~mutex /\ curStatic = Freed /\ StopAs("freed")
       \/ /\ ~mutex /\ curStatic \notin {Null, Freed}
          /\ curStatic' = Onward(statics, curStatic, statCrit)
          /\ UNCHANGED <<pc, cmd, rest, mutex, down, statics, statCrit, list, mac, unsure, timeouts,
                         tableVars, domainVars>>

-----------------------------------------------------------------------------
(* FPP_CMD_L2_FLUSH_STATIC, _ALL and _LEARNED *)

FlushStatic ==
    /\ Idle
    /\ \/ Hangs
       \/ /\ ~mutex /\ DestroyStatics(Keys)
          /\ \E late \in SUBSET Range(statics), kept \in SUBSET Range(statics) :
               DeleteMacs(Range(statics), late, kept)
          /\ UNCHANGED <<pc, cmd, rest, mutex, down, statCrit, tableVars, domainVars>>

\* Everything goes from the list, and then from the hardware, which is
\* initialised unless that times out as well.
FlushAll ==
    /\ Idle
    /\ \/ Hangs
       \/ /\ ~mutex /\ DestroyStatics(Keys)
          /\ \/ /\ \E late \in SUBSET Range(statics) :
                     /\ timeouts + Cardinality(late) <= MaxTimeouts
                     /\ timeouts' = timeouts + Cardinality(late)
                /\ mac' = [k \in Keys |-> None] /\ unsure' = {}
             \/ \E late \in SUBSET Range(statics), kept \in SUBSET Range(statics) :
                  /\ kept \subseteq late
                  /\ timeouts + Cardinality(late) < MaxTimeouts
                  /\ timeouts' = timeouts + Cardinality(late) + 1
                  /\ unsure' = unsure \cup late
                  /\ mac' = [k \in Keys |-> IF IsStatic(k) /\ k \notin kept THEN None ELSE mac[k]]
          /\ UNCHANGED <<pc, cmd, rest, mutex, down, statCrit, tableVars, domainVars>>

\* Learned addresses are not in the model, but they are flushed under the mutex.
FlushLearned == Idle /\ Hangs

-----------------------------------------------------------------------------
Commands ==
    \/ Register \/ RegisterAgain \/ Update \/ Deregister
    \/ QueryDomains \/ QueryDomainsCont \/ RtableLooksUp
    \/ StaticRegister \/ StaticUpdate \/ StaticDeregister \/ QueryStatics \/ QueryStaticsCont
    \/ FlushStatic \/ FlushAll \/ FlushLearned

Steps ==
    \/ WriteOne \/ Link \/ Undo \/ SetUcast \/ SetMcast \/ UpdateSpins
    \/ AddIf \/ ReplaceIf \/ DropIf \/ SkipIf \/ IfsDone
    \/ RemoveIf \/ FlushIf \/ Destroy \/ Unlink

\* The bridge after pfe_l2br_create: the default and the fallback domain, each at
\* the head of its chain.  Were it the same, the fallback domain would not get
\* into the table, because its first update does not add it.
Init ==
    /\ table = [p \in Slots |-> CASE p = Hash(Default) -> New(Default, {})
                                  [] p = Hash(Fallback) /\ Hash(Fallback) # Hash(Default)
                                       -> New(Fallback, {})
                                  [] OTHER -> Zero]
    /\ todo = <<>> /\ pc = "idle" /\ cmd = NoCmd /\ rest = {} /\ broken = FALSE
    /\ domains = <<Default, Fallback>> /\ curDomain = End /\ domCrit = Default
    /\ fwd = [v \in Vlans |-> {}] /\ ifaces = [v \in Vlans |-> {}]
    /\ statics = <<>> /\ curStatic = Null /\ statCrit = All
    /\ list = [k \in Keys |-> None] /\ mac = [k \in Keys |-> None]
    /\ unsure = {} /\ timeouts = 0 /\ mutex = FALSE /\ down = None

Next == Commands \/ Steps
Spec == Init /\ [][Next]_vars

-----------------------------------------------------------------------------
(* Properties *)

TypeOK ==
    /\ table \in [Slots -> Entry]
    /\ todo \in Seq([slot : Slots, entry : Entry])
    /\ pc \in {"idle", "link", "undo", "ucast", "mcast", "ifs", "flush", "remove", "unlink"}
    /\ cmd = NoCmd \/ cmd \in [kind : {"register", "update", "deregister"}, vlan : Vlans,
                                want : SUBSET Ifs]
    /\ rest \subseteq Ifs
    /\ domains \in Seq(Vlans) /\ domCrit \in Vlans \cup {All}
    /\ fwd \in [Vlans -> SUBSET Ifs] /\ ifaces \in [Vlans -> SUBSET Ifs]
    /\ statics \in Seq(Keys) /\ statCrit \in Keys \cup {All}
    /\ curStatic \in Keys \cup {End, Null, Freed}
    /\ list \in [Keys -> (SUBSET Ifs) \cup {None}] /\ mac \in [Keys -> (SUBSET Ifs) \cup {None}]
    /\ unsure \subseteq Keys /\ timeouts \in 0 .. MaxTimeouts
    /\ mutex \in BOOLEAN /\ broken \in BOOLEAN
    /\ down \in {None, "endless", "hang", "null", "freed"}

\* A VLAN that the command under way is just entering or taking out.
Moving(v) == v = cmd.vlan /\ pc \in {"link", "undo", "unlink"}

\* Between any two writes of any command the firmware finds every domain, with
\* the forward list the driver keeps for it (the new one once the write is
\* done), and no VLAN that has no domain: adding an entry to a chain, updating
\* its head, removing its head or an inner entry never loses another one, even
\* for a moment, and no search goes round in circles.  That ends with the first
\* update of an inner collision entry (pfe_l2br.c:441) or removal of the last
\* one (pfe_l2br.c:640).
FirmwareFindsDomains ==
    /\ TypeOK
    /\ ~broken =>
         /\ down # "endless"
         /\ \A v \in Vlans : ~Moving(v) =>
              /\ Cardinality(Found(table, v)) = IF IsDomain(v) THEN 1 ELSE 0
              /\ \A p \in Found(table, v) : table[p].act = fwd[v] \/ (v = cmd.vlan /\ todo # <<>>)

\* Lookups, listings, registrations and removals in any order leave the cursor
\* of the domains at a domain of the list or at its end (pfe_l2br.c:1100).  The
\* cursor of the static entries is caught by a flush and by nothing else.
CursorsLive ==
    [][/\ curDomain' \in Range(domains') \cup {End}
       /\ \/ curStatic' \in Range(statics') \cup {End, Null}
          \/ curStatic' = Freed /\ (curStatic = Freed \/ pc = "flush" \/ statics' = <<>>)]_vars

\* Unless a command to it timed out, the MAC table holds the static entries the
\* driver lists, no more and no less, with the forward lists it believes they
\* have.
StaticsMirrored ==
    /\ TypeOK
    /\ \A k \in Keys \ unsure : mac[k] = list[k] /\ (list[k] # None) = IsStatic(k)

\* Nobody finds the bridge mutex locked for ever, unless a flush of a domain's
\* interface has met a time-out (pfe_l2br.c:1708).
HangNeedsTimeout == mutex \/ down = "hang" => timeouts > 0

\* What a command to the MAC table that times out can do is no more than these
\* two: the drift of one key, and the mutex left locked.
TimeoutsContained == StaticsMirrored /\ HangNeedsTimeout

\* A search that goes "through all callisions" (pfe_l2br.c:434, :512) ends.
NoEndlessSearch == down # "endless"
=============================================================================
