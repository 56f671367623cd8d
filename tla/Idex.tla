-------------------------------- MODULE Idex --------------------------------
(***************************************************************************)
(* Inter-driver exchange (pfe_idex.c): the blocking RPC by which a slave   *)
(* driver instance asks the master to do something on its behalf.          *)
(*                                                                         *)
(* Callers are threads of the slave, each inside pfe_idex_rpc().  A        *)
(* request instance is named <<c, n>>: the n-th call of caller c.  The     *)
(* IHC work handler of the slave is SlaveRx, that of the master is         *)
(* MasterServe.  The transport (skb fifos, HIF rings, DMA) is two lossy    *)
(* FIFO channels: every way in which a frame may be dropped below the      *)
(* IDEX layer is one of the Lose* actions.                                 *)
(*                                                                         *)
(* Every critical section under req_list_lock is one step; what the code   *)
(* does outside of the lock (taking the sequence number, polling the       *)
(* state) is a step of its own.                                            *)
(***************************************************************************)
EXTENDS Naturals, Sequences, FiniteSets

CONSTANTS
    Callers,    \* threads of the slave that issue RPCs
    MaxCalls,   \* bound: calls issued by any thread
    Quota,      \* bound: Quota[c] of them by thread c
    Ids,        \* RPC identifiers
    RespLen,    \* RespLen[id]: payload the master answers to id
    RespRoom,   \* RespRoom[id]: resp_len the slave passes with id
    ChanCap,    \* bound: frames in flight in one direction
    SeqNums,    \* numbers before pfe_idex_seqnum_t wraps: 2^32 in the code
    FirstNum    \* the random number the counter starts from

SeqNum == 0 .. SeqNums - 1

ASSUME IdexAssumption ==
    /\ Ids # {}
    /\ MaxCalls \in Nat
    /\ Quota \in [Callers -> 0 .. MaxCalls]
    /\ ChanCap \in Nat
    /\ SeqNums \in Nat /\ FirstNum \in SeqNum
    /\ RespLen \in [Ids -> Nat]
    /\ RespRoom \in [Ids -> Nat]

Inst == Callers \X (1 .. MaxCalls)

\* An answer names the request it was computed for; the code only has id.
Answer == [id : Ids, of : Inst, len : Nat]
Unwritten == [len |-> 0]
ReqFrame == [seq : SeqNum, id : Ids, of : Inst]
RespFrame == [seq : SeqNum, ans : Answer]

States == {"NEW", "COMMITTED", "COMPLETED", "INVALID"}
Outcomes == {"none", "EOK", "ETIMEDOUT", "ETX", "EINVAL", "ENOMEM"}
PCs == {"idle", "bump", "link", "commit", "send", "invalidate", "wait",
        "release", "finish"}

VARIABLES
    reqSeqNum,  \* idex->req_seq_num
    reqList,    \* the instances linked into idex->req_list
    tail,       \* order of insertion into req_list
    req,        \* the request headers
    reqFreed,   \* instances given back to the allocator
    respBuf,    \* local_resp_buf of each call
    bufFreed,   \* calls whose local_resp_buf has been freed
    pc, calls,  \* position of each caller, number of calls it made
    outcome,    \* value returned by each call
    toMaster,   \* requests in flight
    toSlave     \* responses in flight

vars == <<reqSeqNum, reqList, tail, req, reqFreed, respBuf, bufFreed, pc,
          calls, outcome, toMaster, toSlave>>

Cur(c) == <<c, calls[c]>>

\* Fault: the room of the response header is forgotten.
NewReqShort(seq, id) ==
    [seq |-> seq, id |-> id, state |-> "NEW", pos |-> 0,
     room |-> RespRoom[id] - 1]

NewReq(seq, id) ==
    [seq |-> seq, id |-> id, state |-> "NEW", pos |-> 0, room |-> RespRoom[id]]

\* pfe_idex_request_get_by_id: the first match, and the last item of the
\* list when nothing matches (the loop variable is not reset).  The set has
\* one element, none when the list is empty.
GetById(seq) ==
    LET match == {i \in reqList : req[i].seq = seq}
    IN  IF match # {} THEN {i \in match : \A j \in match : req[i].pos <= req[j].pos}
        ELSE {i \in reqList : \A j \in reqList : req[j].pos <= req[i].pos}

\* pfe_idex_request_set_state
SetState(seq, state) ==
    LET hit == GetById(seq)
    IN  req' = [i \in Inst |-> IF i \in hit THEN [req[i] EXCEPT !.state = state]
                               ELSE req[i]]

Goto(c, from, to) == pc[c] = from /\ pc' = [pc EXCEPT ![c] = to]

-----------------------------------------------------------------------------
Init ==
    /\ reqSeqNum = FirstNum
    /\ reqList = {}
    /\ tail = 1
    /\ req = [i \in Inst |-> [seq |-> FirstNum, id |-> CHOOSE id \in Ids : TRUE,
                              state |-> "NEW", pos |-> 0, room |-> 0]]
    /\ reqFreed = {}
    /\ respBuf = [i \in Inst |-> Unwritten]
    /\ bufFreed = {}
    /\ pc = [c \in Callers |-> "idle"]
    /\ calls = [c \in Callers |-> 0]
    /\ outcome = [i \in Inst |-> "none"]
    /\ toMaster = <<>>
    /\ toSlave = <<>>

-----------------------------------------------------------------------------
(* The caller: pfe_idex_rpc -> pfe_idex_request_send                       *)

\* Allocate the request and read the sequence number (no lock is held).
StartCall(c, id) ==
    /\ Goto(c, "idle", "bump")
    /\ calls[c] < Quota[c]
    /\ calls' = [calls EXCEPT ![c] = @ + 1]
    /\ req' = [req EXCEPT ![<<c, calls[c] + 1>>] = NewReq(reqSeqNum, id)]
    /\ UNCHANGED <<reqSeqNum, reqList, tail, reqFreed, respBuf, bufFreed,
                   outcome, toMaster, toSlave>>

\* One of the two allocations fails before anything is shared.
NoMemory(c) ==
    /\ pc[c] = "idle"
    /\ calls[c] < Quota[c]
    /\ calls' = [calls EXCEPT ![c] = @ + 1]
    /\ outcome' = [outcome EXCEPT ![<<c, calls[c] + 1>>] = "ENOMEM"]
    /\ UNCHANGED <<reqSeqNum, reqList, tail, req, reqFreed, respBuf, bufFreed,
                   pc, toMaster, toSlave>>

\* idex->req_seq_num++ stores the successor, modulo the width, of the value
\* read before or, if the compiler loads it again, of what it holds by now.
BumpSeq(c) ==
    /\ Goto(c, "bump", "link")
    /\ \E seen \in {req[Cur(c)].seq, reqSeqNum} : reqSeqNum' = (seen + 1) % SeqNums
    /\ UNCHANGED <<reqList, tail, req, reqFreed, respBuf, bufFreed, calls,
                   outcome, toMaster, toSlave>>

LinkRequest(c) ==
    /\ Goto(c, "link", "commit")
    /\ reqList' = reqList \cup {Cur(c)}
    /\ req' = [req EXCEPT ![Cur(c)].pos = tail]
    /\ tail' = tail + 1
    /\ UNCHANGED <<reqSeqNum, reqFreed, respBuf, bufFreed, calls, outcome,
                   toMaster, toSlave>>

CommitRequest(c) ==
    /\ Goto(c, "commit", "send")
    /\ SetState(req[Cur(c)].seq, "COMMITTED")
    /\ UNCHANGED <<reqSeqNum, reqList, tail, reqFreed, respBuf, bufFreed,
                   calls, outcome, toMaster, toSlave>>

SendFrame(c) ==
    /\ Goto(c, "send", "wait")
    /\ Len(toMaster) < ChanCap
    /\ toMaster' = Append(toMaster, [seq |-> req[Cur(c)].seq,
                                     id |-> req[Cur(c)].id, of |-> Cur(c)])
    /\ UNCHANGED <<reqSeqNum, reqList, tail, req, reqFreed, respBuf, bufFreed,
                   calls, outcome, toSlave>>

\* No memory for the frame or the skb, or the IHC TX fifo is full.
SendFails(c) ==
    /\ Goto(c, "send", "invalidate")
    /\ UNCHANGED <<reqSeqNum, reqList, tail, req, reqFreed, respBuf, bufFreed,
                   calls, outcome, toMaster, toSlave>>

\* The request stays linked; pfe_idex_rpc releases the buffer it points to.
Invalidate(c) ==
    /\ Goto(c, "invalidate", "idle")
    /\ SetState(req[Cur(c)].seq, "INVALID")
    /\ outcome' = [outcome EXCEPT ![Cur(c)] = "ETX"]
    /\ bufFreed' = bufFreed \cup {Cur(c)}
    /\ UNCHANGED <<reqSeqNum, reqList, tail, reqFreed, respBuf, calls,
                   toMaster, toSlave>>

\* One turn of the polling loop finds the request completed.
SeeCompleted(c) ==
    /\ Goto(c, "wait", "release")
    /\ req[Cur(c)].state = "COMPLETED"
    /\ outcome' = [outcome EXCEPT ![Cur(c)] = "EOK"]
    /\ UNCHANGED <<reqSeqNum, reqList, tail, req, reqFreed, respBuf, bufFreed,
                   calls, toMaster, toSlave>>

\* Fault: the time-out is not reported.
TimeoutUnreported(c) ==
    /\ Goto(c, "wait", "release")
    /\ outcome' = [outcome EXCEPT ![Cur(c)] = "EOK"]
    /\ UNCHANGED <<reqSeqNum, reqList, tail, req, reqFreed, respBuf, bufFreed,
                   calls, toMaster, toSlave>>

\* Fault: the polling loop has no bound.
TimeoutNever(c) ==
    /\ pc[c] = "wait" /\ req[Cur(c)].state = "COMPLETED"
    /\ TimeoutUnreported(c)

\* The loop has run out; the state may have changed during the last sleep.
Timeout(c) ==
    /\ Goto(c, "wait", "release")
    /\ outcome' = [outcome EXCEPT ![Cur(c)] = "ETIMEDOUT"]
    /\ UNCHANGED <<reqSeqNum, reqList, tail, req, reqFreed, respBuf, bufFreed,
                   calls, toMaster, toSlave>>

\* Fault: the request is freed but stays linked.
ReleaseLinked(c) ==
    /\ Goto(c, "release", "finish")
    /\ reqFreed' = reqFreed \cup {Cur(c)}
    /\ UNCHANGED <<reqSeqNum, reqList, tail, req, respBuf, bufFreed, calls,
                   outcome, toMaster, toSlave>>

Release(c) ==
    /\ Goto(c, "release", "finish")
    /\ reqList' = reqList \ {Cur(c)}
    /\ reqFreed' = reqFreed \cup {Cur(c)}
    /\ UNCHANGED <<reqSeqNum, tail, req, respBuf, bufFreed, calls, outcome,
                   toMaster, toSlave>>

\* Fault: the RPC id of the answer is not checked.
VerdictsUnchecked(i) ==
    IF respBuf[i] = Unwritten THEN {"EOK", "EINVAL", "ENOMEM"}
    ELSE IF respBuf[i].len > RespRoom[req[i].id] THEN {"ENOMEM"}
    ELSE {"EOK"}

\* What pfe_idex_rpc makes of its response buffer after a completed request.
\* A buffer nothing was written to holds whatever the allocator left in it.
Verdicts(i) ==
    IF respBuf[i] = Unwritten THEN {"EOK", "EINVAL", "ENOMEM"}
    ELSE IF respBuf[i].id # req[i].id THEN {"EINVAL"}
    ELSE IF respBuf[i].len > RespRoom[req[i].id] THEN {"ENOMEM"}
    ELSE {"EOK"}

Finish(c) ==
    /\ Goto(c, "finish", "idle")
    /\ IF outcome[Cur(c)] = "EOK"
       THEN \E v \in Verdicts(Cur(c)) :
                outcome' = [outcome EXCEPT ![Cur(c)] = v]
       ELSE outcome' = outcome
    /\ bufFreed' = bufFreed \cup {Cur(c)}
    /\ UNCHANGED <<reqSeqNum, reqList, tail, req, reqFreed, respBuf, calls,
                   toMaster, toSlave>>

-----------------------------------------------------------------------------
(* The two work handlers and the wire                                      *)

\* pfe_idex_do_rx on the master: run the RPC callback, which answers through
\* pfe_idex_set_rpc_ret_val; the answer may fail to be sent.
MasterServe ==
    /\ toMaster # <<>>
    /\ LET m == Head(toMaster)
           r == [seq |-> m.seq,
                 ans |-> [id |-> m.id, of |-> m.of, len |-> RespLen[m.id]]]
       IN  \/ Len(toSlave) < ChanCap /\ toSlave' = Append(toSlave, r)
           \/ toSlave' = toSlave
    /\ toMaster' = Tail(toMaster)
    /\ UNCHANGED <<reqSeqNum, reqList, tail, req, reqFreed, respBuf, bufFreed,
                   pc, calls, outcome>>

\* pfe_idex_do_rx on the slave -> pfe_idex_request_finalize
SlaveRx ==
    /\ toSlave # <<>>
    /\ toSlave' = Tail(toSlave)
    /\ LET m == Head(toSlave)
           hit == GetById(m.seq)
           fits(i) == m.ans.len <= req[i].room
       IN  /\ respBuf' = [i \in Inst |-> IF i \in hit /\ fits(i) THEN m.ans
                                         ELSE respBuf[i]]
           /\ req' = [i \in Inst |->
                        IF i \notin hit THEN req[i]
                        ELSE [req[i] EXCEPT
                                !.state = "COMPLETED",
                                !.room = IF fits(i) THEN m.ans.len ELSE @]]
    /\ UNCHANGED <<reqSeqNum, reqList, tail, reqFreed, bufFreed, pc, calls,
                   outcome, toMaster>>

LoseRequest ==
    /\ toMaster # <<>>
    /\ toMaster' = Tail(toMaster)
    /\ UNCHANGED <<reqSeqNum, reqList, tail, req, reqFreed, respBuf, bufFreed,
                   pc, calls, outcome, toSlave>>

LoseResponse ==
    /\ toSlave # <<>>
    /\ toSlave' = Tail(toSlave)
    /\ UNCHANGED <<reqSeqNum, reqList, tail, req, reqFreed, respBuf, bufFreed,
                   pc, calls, outcome, toMaster>>

-----------------------------------------------------------------------------
CallerStep(c) ==
    \/ BumpSeq(c) \/ LinkRequest(c) \/ CommitRequest(c)
    \/ SendFrame(c) \/ SendFails(c) \/ Invalidate(c)
    \/ SeeCompleted(c) \/ Timeout(c) \/ Release(c) \/ Finish(c)

Next ==
    \/ \E c \in Callers, id \in Ids : StartCall(c, id)
    \/ \E c \in Callers : NoMemory(c) \/ CallerStep(c)
    \/ MasterServe \/ SlaveRx \/ LoseRequest \/ LoseResponse

Spec == Init /\ [][Next]_vars

\* Every thread inside a call is scheduled and its polling loop is bounded;
\* nothing is assumed of the master or of the wire.
FairSpec == Spec /\ \A c \in Callers : WF_vars(CallerStep(c))
-----------------------------------------------------------------------------
(* Properties                                                              *)

TypeOK ==
    /\ reqSeqNum \in SeqNum
    /\ reqList \subseteq Inst
    /\ tail \in Nat
    /\ req \in [Inst -> [seq : SeqNum, id : Ids, state : States, pos : Nat,
                         room : Nat]]
    /\ reqFreed \subseteq Inst
    /\ respBuf \in [Inst -> Answer \cup {Unwritten}]
    /\ bufFreed \subseteq Inst
    /\ pc \in [Callers -> PCs]
    /\ calls \in [Callers -> 0 .. MaxCalls]
    /\ outcome \in [Inst -> Outcomes]
    /\ toMaster \in Seq(ReqFrame)
    /\ toSlave \in Seq(RespFrame)

\* No freed request is reachable from req_list, which the IHC work handler
\* walks at any moment, in particular between a time-out and the release.
LinkedIsLive == reqList \cap reqFreed = {}

Settled(i) == i \in bufFreed

\* A call never reports success on the strength of an answer computed for
\* another RPC id: the check in pfe_idex_rpc catches every answer that
\* pfe_idex_request_finalize gave to the wrong request of another kind.
AnswerKindChecked ==
    \A i \in Inst : (Settled(i) /\ outcome[i] = "EOK" /\ respBuf[i] # Unwritten)
                        => respBuf[i].id = req[i].id

Misdelivered(i) ==
    respBuf[i] # Unwritten /\ req[respBuf[i].of].seq # req[i].seq

\* An answer only ever reaches a request with another sequence number when
\* some call has given up on its own answer before: as long as no RPC times
\* out, however the threads interleave and whatever the wire drops, the
\* match by sequence number is exact.  The number is all it looks at: of two
\* pending requests that drew the same one, in a race or because the counter
\* has wrapped, either may get the answer to the other.
MisdeliveryNeedsTimeout ==
    (\E i \in Inst : Misdelivered(i)) => \E j \in Inst : outcome[j] = "ETIMEDOUT"

\* Every RPC returns to its caller, whatever the wire loses: the polling loop
\* of pfe_idex_request_send gives up after 1500 turns.
EveryCallReturns == \A c \in Callers : pc[c] # "idle" ~> pc[c] = "idle"

-----------------------------------------------------------------------------
(* What the source says and the code does not do                           *)

\* pfe_idex_request_get_by_id "returns the IDEX request instance or NULL if
\* not found": only the request with the sequence number of the response is
\* ever completed by it.
CompletedByOwnAnswer ==
    [][\A i \in reqList :
        (req[i].state # "COMPLETED" /\ req'[i].state = "COMPLETED")
            => toSlave[1].seq = req[i].seq]_vars

\* "Every request can be identified by its unique sequence number."
UniqueSeqNum ==
    \A i, j \in reqList : req[i].seq = req[j].seq => i = j

\* "Mark the request as INVALID. Will be destroyed by time-out task."
InvalidIsDestroyed ==
    \A i \in Inst : (i \in reqList /\ req[i].state = "INVALID") ~> i \in reqFreed

\* "If response is bigger than this number of bytes, the buffer will not be
\* written and error code indicating no memory condition ENOMEM will be
\* returned": whatever the call returns other than a transport error.
TooBigIsENOMEM ==
    \A i \in Inst :
        (Settled(i) /\ RespLen[req[i].id] > RespRoom[req[i].id]
            /\ outcome[i] \notin {"ETIMEDOUT", "ETX"})
        => outcome[i] = "ENOMEM"
=============================================================================
