------------------------------ MODULE IdexProof ------------------------------
(* Theorems about Idex, for every set of callers, every set of RPC ids and *)
(* every bound on the calls and on the frames in flight.                   *)
EXTENDS Idex, TLAPS

(***************************************************************************)
(* A caller inside a call has issued at least one.                         *)
(***************************************************************************)
InCall == \A c \in Callers : pc[c] # "idle" => calls[c] > 0

TypeInv == TypeOK /\ InCall

ReqRec == [seq : SeqNum, id : Ids, state : States, pos : Nat, room : Nat]

\* What the transport hands over is what was put into it.
LEMMA SeqType ==
    ASSUME NEW S, NEW q \in Seq(S)
    PROVE  /\ q # <<>> => Head(q) \in S /\ Tail(q) \in Seq(S)
           /\ \A x \in S : Append(q, x) \in Seq(S)
  OBVIOUS

\* The request of a caller inside a call is an instance.
LEMMA CurType ==
    ASSUME TypeInv, NEW c \in Callers, pc[c] # "idle"
    PROVE  Cur(c) \in Inst
  <1>1. calls[c] \in 1 .. MaxCalls
    BY IdexAssumption DEF TypeInv, TypeOK, InCall
  <1>. QED  BY <1>1 DEF Cur, Inst

\* pfe_idex_request_set_state keeps the request headers well formed.
LEMMA SetStateType ==
    ASSUME TypeOK, NEW s, NEW st \in States, SetState(s, st)
    PROVE  req' \in [Inst -> ReqRec]
  <1> DEFINE hit == GetById(s)
  <1>1. \A i \in Inst : [req[i] EXCEPT !.state = st] \in ReqRec
    BY DEF TypeOK, ReqRec
  <1>2. req' = [i \in Inst |-> IF i \in hit THEN [req[i] EXCEPT !.state = st]
                               ELSE req[i]]
    BY DEF SetState
  <1>. QED  BY <1>1, <1>2 DEF TypeOK, ReqRec

\* A caller that has calls left has an instance left.
LEMMA NextCall ==
    ASSUME TypeOK, NEW c \in Callers, calls[c] < Quota[c]
    PROVE  calls[c] + 1 \in 1 .. MaxCalls
  <1>1. calls[c] \in Nat /\ Quota[c] \in 0 .. MaxCalls /\ MaxCalls \in Nat
    BY IdexAssumption DEF TypeOK
  <1>. QED  BY <1>1

LEMMA InitType == ASSUME Init PROVE TypeInv
  <1>1. (CHOOSE id \in Ids : TRUE) \in Ids
    BY IdexAssumption
  <1>. QED  BY <1>1, IdexAssumption
            DEF Init, TypeInv, TypeOK, InCall, PCs, Outcomes, States, Inst

LEMMA StartCallType ==
    ASSUME TypeInv, NEW c \in Callers, NEW id \in Ids, StartCall(c, id)
    PROVE  TypeInv'
  <1>. USE IdexAssumption DEF TypeInv, TypeOK
  <1>1. calls[c] + 1 \in 1 .. MaxCalls
    BY NextCall DEF StartCall
  <1>2. <<c, calls[c] + 1>> \in Inst
    BY <1>1 DEF Inst
  <1>3. NewReq(reqSeqNum, id) \in ReqRec
    BY DEF NewReq, ReqRec, States
  <1>4. req' \in [Inst -> ReqRec]
    BY <1>2, <1>3 DEF StartCall, ReqRec
  <1>5. calls' \in [Callers -> 0 .. MaxCalls] /\ pc' \in [Callers -> PCs]
    BY <1>1 DEF StartCall, Goto, PCs
  <1>6. InCall'
    BY <1>1, <1>5 DEF StartCall, Goto, InCall
  <1>. QED  BY <1>4, <1>5, <1>6 DEF StartCall, ReqRec

LEMMA NoMemoryType ==
    ASSUME TypeInv, NEW c \in Callers, NoMemory(c)
    PROVE  TypeInv'
  <1>. USE IdexAssumption DEF TypeInv, TypeOK
  <1>1. calls[c] + 1 \in 1 .. MaxCalls
    BY NextCall DEF NoMemory
  <1>2. calls' \in [Callers -> 0 .. MaxCalls]
    BY <1>1 DEF NoMemory
  <1>4. outcome' \in [Inst -> Outcomes]
    BY DEF NoMemory, Outcomes
  <1>3. InCall'
    BY <1>1 DEF NoMemory, InCall
  <1>. QED  BY <1>2, <1>3, <1>4 DEF NoMemory

LEMMA CallerStepType ==
    ASSUME TypeInv, NEW c \in Callers, CallerStep(c)
    PROVE  TypeInv'
  <1>1. pc[c] # "idle"
    BY DEF CallerStep, Goto, BumpSeq, LinkRequest, CommitRequest, SendFrame,
       SendFails, Invalidate, SeeCompleted, Timeout, Release, Finish
  <1>2. Cur(c) \in Inst
    BY <1>1, CurType
  <1>3. pc' \in [Callers -> PCs] /\ calls' = calls
    BY DEF CallerStep, Goto, BumpSeq, LinkRequest, CommitRequest, SendFrame,
       SendFails, Invalidate, SeeCompleted, Timeout, Release, Finish,
       TypeInv, TypeOK, PCs
  <1>4. InCall'
    <2>1. \A d \in Callers : pc'[d] # "idle" => pc[d] # "idle"
      BY DEF CallerStep, Goto, BumpSeq, LinkRequest, CommitRequest, SendFrame,
         SendFails, Invalidate, SeeCompleted, Timeout, Release, Finish,
         TypeInv, TypeOK
    <2>. QED  BY <2>1, <1>3 DEF InCall, TypeInv
  <1>. USE DEF TypeInv, TypeOK, Outcomes
  <1>5. CASE BumpSeq(c)
    <2>1. \A n \in SeqNum : (n + 1) % SeqNums \in SeqNum
      <3>1. SeqNums \in Nat /\ SeqNums > 0
        BY IdexAssumption DEF SeqNum
      <3>2. \A k \in Nat : k % SeqNums \in 0 .. SeqNums - 1
        BY <3>1
      <3>3. \A n \in SeqNum : n + 1 \in Nat
        BY <3>1 DEF SeqNum
      <3>. HIDE DEF TypeInv, TypeOK, Outcomes
      <3>. QED
        <4>1. TAKE n \in SeqNum
        <4>2. PICK m \in Nat : m = n + 1
          BY <3>3
        <4>3. m % SeqNums \in 0 .. SeqNums - 1
          BY <3>2
        <4>. QED  BY <4>2, <4>3 DEF SeqNum
    <2>2. req[Cur(c)].seq \in SeqNum /\ reqSeqNum \in SeqNum
      BY <1>2
    <2>3. reqSeqNum' \in SeqNum
      BY <1>5, <2>1, <2>2 DEF BumpSeq
    <2>. QED  BY <1>2, <1>3, <1>4, <1>5, <2>3 DEF BumpSeq
  <1>6. CASE LinkRequest(c)
    <2>1. req' = [req EXCEPT ![Cur(c)].pos = tail]
      BY <1>6 DEF LinkRequest
    <2>2. req' \in [Inst -> ReqRec]
      BY <2>1, <1>2 DEF ReqRec
    <2>3. reqList' \subseteq Inst /\ tail' \in Nat
      BY <1>2, <1>6 DEF LinkRequest
    <2>. QED  BY <2>2, <2>3, <1>3, <1>4, <1>6 DEF LinkRequest, ReqRec
  <1>7. CASE CommitRequest(c)
    <2>1. req' \in [Inst -> ReqRec]
      BY <1>7, SetStateType DEF CommitRequest, States
    <2>. QED  BY <2>1, <1>3, <1>4, <1>7 DEF CommitRequest, ReqRec
  <1>8. CASE SendFrame(c)
    <2> DEFINE m == [seq |-> req[Cur(c)].seq, id |-> req[Cur(c)].id,
                     of |-> Cur(c)]
    <2>1. m \in ReqFrame
      BY <1>2 DEF ReqFrame
    <2>2. toMaster' = Append(toMaster, m)
      BY <1>8 DEF SendFrame
    <2>3. toMaster' \in Seq(ReqFrame)
      <3>. HIDE DEF m
      <3>. QED  BY <2>1, <2>2, SeqType
    <2>. QED  BY <2>3, <1>2, <1>3, <1>4, <1>8 DEF SendFrame
  <1>9. CASE SendFails(c)
    BY <1>3, <1>4, <1>9 DEF SendFails
  <1>10. CASE Invalidate(c)
    <2>1. req' \in [Inst -> ReqRec]
      BY <1>10, SetStateType DEF Invalidate, States
    <2>. QED  BY <2>1, <1>2, <1>3, <1>4, <1>10 DEF Invalidate, ReqRec
  <1>11. CASE SeeCompleted(c)
    BY <1>2, <1>3, <1>4, <1>11 DEF SeeCompleted
  <1>12. CASE Timeout(c)
    BY <1>2, <1>3, <1>4, <1>12 DEF Timeout
  <1>13. CASE Release(c)
    BY <1>2, <1>3, <1>4, <1>13 DEF Release
  <1>14. CASE Finish(c)
    <2>1. Verdicts(Cur(c)) \subseteq Outcomes
      BY DEF Verdicts
    <2>2. outcome' \in [Inst -> Outcomes]
      BY <2>1, <1>14 DEF Finish
    <2>. QED  BY <2>2, <1>2, <1>3, <1>4, <1>14 DEF Finish
  <1>. QED  BY <1>5, <1>6, <1>7, <1>8, <1>9, <1>10, <1>11, <1>12, <1>13, <1>14
            DEF CallerStep

LEMMA HandlerType ==
    ASSUME TypeInv, MasterServe \/ SlaveRx \/ LoseRequest \/ LoseResponse
    PROVE  TypeInv'
  <1>. USE DEF TypeInv, TypeOK
  <1>1. CASE MasterServe
    <2>1. Head(toMaster) \in ReqFrame /\ Tail(toMaster) \in Seq(ReqFrame)
      BY <1>1, SeqType DEF MasterServe
    <2> DEFINE m == Head(toMaster)
               r == [seq |-> m.seq,
                     ans |-> [id |-> m.id, of |-> m.of, len |-> RespLen[m.id]]]
    <2>2. r \in RespFrame
      BY <2>1, IdexAssumption DEF Answer, ReqFrame, RespFrame
    <2>3. toSlave' = Append(toSlave, r) \/ toSlave' = toSlave
      BY <1>1 DEF MasterServe
    <2>4. toSlave' \in Seq(RespFrame)
      <3>. HIDE DEF r
      <3>1. toSlave \in Seq(RespFrame)
        OBVIOUS
      <3>2. Append(toSlave, r) \in Seq(RespFrame)
        BY <2>2, <3>1, SeqType
      <3>. QED  BY <2>3, <3>1, <3>2
    <2>. QED  BY <2>1, <2>4, <1>1 DEF MasterServe, InCall
  <1>2. CASE SlaveRx
    <2> DEFINE m == Head(toSlave)
               hit == GetById(m.seq)
               fits(i) == m.ans.len <= req[i].room
               done(i) == [req[i] EXCEPT
                             !.state = "COMPLETED",
                             !.room = IF fits(i) THEN m.ans.len ELSE @]
    <2>1. m \in RespFrame /\ Tail(toSlave) \in Seq(RespFrame)
      BY <1>2, SeqType DEF SlaveRx
    <2>2. m.ans \in Answer /\ m.ans.len \in Nat
      BY <2>1 DEF Answer, RespFrame
    <2>3. \A i \in Inst : done(i) \in ReqRec
      <3>. SUFFICES ASSUME NEW i \in Inst PROVE done(i) \in ReqRec
        OBVIOUS
      <3>1. req[i] \in ReqRec
        BY DEF ReqRec
      <3>2. CASE fits(i)
        BY <3>1, <3>2, <2>2 DEF ReqRec, States
      <3>3. CASE ~fits(i)
        BY <3>1, <3>3 DEF ReqRec, States
      <3>. QED  BY <3>2, <3>3
    <2>4. req' = [i \in Inst |-> IF i \notin hit THEN req[i] ELSE done(i)]
      BY <1>2 DEF SlaveRx
    <2>5. respBuf' = [i \in Inst |-> IF i \in hit /\ fits(i) THEN m.ans
                                     ELSE respBuf[i]]
      BY <1>2 DEF SlaveRx
    <2>6. req' \in [Inst -> ReqRec]
      <3>. HIDE DEF hit, done
      <3>. QED  BY <2>3, <2>4 DEF ReqRec
    <2>7. respBuf' \in [Inst -> Answer \cup {Unwritten}]
      <3>. HIDE DEF hit, fits, m
      <3>. QED  BY <2>2, <2>5
    <2>. HIDE DEF hit, fits, m, done
    <2>. QED  BY <2>1, <2>6, <2>7, <1>2 DEF SlaveRx, InCall, ReqRec
  <1>3. CASE LoseRequest
    BY <1>3, SeqType DEF LoseRequest, InCall
  <1>4. CASE LoseResponse
    BY <1>4, SeqType DEF LoseResponse, InCall
  <1>. QED  BY <1>1, <1>2, <1>3, <1>4

LEMMA NextType == ASSUME TypeInv, [Next]_vars PROVE TypeInv'
  <1>1. CASE UNCHANGED vars
    BY <1>1 DEF vars, TypeInv, TypeOK, InCall
  <1>2. CASE Next
    BY <1>2, StartCallType, NoMemoryType, CallerStepType, HandlerType DEF Next
  <1>. QED  BY <1>1, <1>2

\* The state of the RPC layer stays well formed: in particular every request
\* header, whoever wrote it last, keeps a legal state and buffer length.
THEOREM TypeCorrect == Spec => []TypeOK
  <1>1. Init => TypeInv
    BY InitType
  <1>2. TypeInv /\ [Next]_vars => TypeInv'
    BY NextType
  <1>3. TypeInv => TypeOK
    BY DEF TypeInv
  <1>. QED  BY <1>1, <1>2, <1>3, PTL DEF Spec

(***************************************************************************)
(* Memory safety of the request list.  The strengthening says where in its *)
(* call the owner of a freed request or of a freed buffer must be.         *)
(***************************************************************************)
FreedReqs ==
    \A i \in reqFreed :
        /\ i[2] <= calls[i[1]]
        /\ i[2] = calls[i[1]] => pc[i[1]] \in {"finish", "idle"}

FreedBufs ==
    \A i \in bufFreed :
        /\ i[2] <= calls[i[1]]
        /\ i[2] = calls[i[1]] => pc[i[1]] = "idle"

\* A caller evaluates its buffer only when its request is off the list.
FinishAfterFree == \A c \in Callers : pc[c] = "finish" => Cur(c) \in reqFreed

SafeInv ==
    /\ TypeInv
    /\ LinkedIsLive
    /\ FreedReqs
    /\ FreedBufs
    /\ FinishAfterFree

LEMMA InstPair ==
    \A i \in Inst : i[1] \in Callers /\ i[2] \in 1 .. MaxCalls /\ i = <<i[1], i[2]>>
  BY DEF Inst

LEMMA InstNat == \A i \in Inst : i[1] \in Callers /\ i[2] \in Nat
  <1>1. MaxCalls \in Nat
    BY IdexAssumption
  <1>. QED  BY <1>1 DEF Inst

LEMMA CallsNat == ASSUME TypeOK PROVE \A d \in Callers : calls[d] \in Nat
  <1>1. MaxCalls \in Nat /\ calls \in [Callers -> 0 .. MaxCalls]
    BY IdexAssumption DEF TypeOK
  <1>. QED  BY <1>1

LEMMA SafeStart ==
    ASSUME SafeInv, NEW c \in Callers,
           NoMemory(c) \/ \E id \in Ids : StartCall(c, id)
    PROVE  (LinkedIsLive /\ FreedReqs /\ FreedBufs /\ FinishAfterFree)'
  <1>. USE DEF SafeInv, TypeInv, TypeOK
  <1>1. /\ reqList' = reqList /\ reqFreed' = reqFreed /\ bufFreed' = bufFreed
        /\ \A d \in Callers \ {c} : calls'[d] = calls[d] /\ pc'[d] = pc[d]
        /\ calls'[c] = calls[c] + 1 /\ pc'[c] \in {"bump", "idle"}
    BY DEF StartCall, NoMemory, Goto
  <1>2. \A d \in Callers : calls[d] \in Nat
    BY CallsNat
  <1>3. LinkedIsLive'
    BY <1>1 DEF LinkedIsLive
  <1>4. FreedReqs'
    <2>. SUFFICES ASSUME NEW i \in reqFreed
                  PROVE  /\ i[2] <= calls'[i[1]]
                         /\ i[2] = calls'[i[1]] => pc'[i[1]] \in {"finish", "idle"}
      BY <1>1 DEF FreedReqs
    <2>1. i[1] \in Callers /\ i[2] \in Nat /\ i[2] <= calls[i[1]]
      BY InstNat DEF FreedReqs
    <2>2. CASE i[1] = c
      <3>. HIDE DEF SafeInv, TypeInv, TypeOK
      <3>1. calls[c] \in Nat /\ calls'[c] = calls[c] + 1 /\ i[2] <= calls[c]
        BY <1>1, <1>2, <2>1, <2>2
      <3>. QED  BY <2>1, <2>2, <3>1
    <2>3. CASE i[1] # c
      BY <1>1, <2>1, <2>3 DEF FreedReqs
    <2>. QED  BY <2>2, <2>3
  <1>5. FreedBufs'
    <2>. SUFFICES ASSUME NEW i \in bufFreed
                  PROVE  /\ i[2] <= calls'[i[1]]
                         /\ i[2] = calls'[i[1]] => pc'[i[1]] = "idle"
      BY <1>1 DEF FreedBufs
    <2>1. i[1] \in Callers /\ i[2] \in Nat /\ i[2] <= calls[i[1]]
      BY InstNat DEF FreedBufs
    <2>2. CASE i[1] = c
      <3>. HIDE DEF SafeInv, TypeInv, TypeOK
      <3>1. calls[c] \in Nat /\ calls'[c] = calls[c] + 1 /\ i[2] <= calls[c]
        BY <1>1, <1>2, <2>1, <2>2
      <3>. QED  BY <2>1, <2>2, <3>1
    <2>3. CASE i[1] # c
      BY <1>1, <2>1, <2>3 DEF FreedBufs
    <2>. QED  BY <2>2, <2>3
  <1>6. FinishAfterFree'
    BY <1>1 DEF FinishAfterFree, Cur
  <1>. QED  BY <1>3, <1>4, <1>5, <1>6

LEMMA SafeCaller ==
    ASSUME SafeInv, NEW c \in Callers, CallerStep(c)
    PROVE  (LinkedIsLive /\ FreedReqs /\ FreedBufs /\ FinishAfterFree)'
  <1>. USE DEF SafeInv
  <1>1. pc[c] # "idle"
    BY DEF CallerStep, Goto, BumpSeq, LinkRequest, CommitRequest, SendFrame,
       SendFails, Invalidate, SeeCompleted, Timeout, Release, Finish
  <1>2. Cur(c) \in Inst /\ Cur(c)[1] = c /\ Cur(c)[2] = calls[c] /\ calls[c] \in Nat
    <2>1. Cur(c) \in Inst
      BY <1>1, CurType
    <2>2. calls[c] \in Nat
      BY IdexAssumption DEF TypeInv, TypeOK
    <2>. QED  BY <2>1, <2>2 DEF Cur
  <1>3. calls' = calls /\ \A d \in Callers \ {c} : pc'[d] = pc[d]
    BY DEF CallerStep, Goto, BumpSeq, LinkRequest, CommitRequest, SendFrame,
       SendFails, Invalidate, SeeCompleted, Timeout, Release, Finish,
       TypeInv, TypeOK
  <1>4. \A i \in reqFreed : i[1] = c => i[2] # calls[c] \/ pc[c] = "finish"
    BY <1>1 DEF FreedReqs
  <1>5. \A i \in bufFreed : i[1] = c => i[2] # calls[c]
    BY <1>1 DEF FreedBufs
  <1>6. CASE /\ reqList' = reqList /\ reqFreed' = reqFreed /\ bufFreed' = bufFreed
             /\ pc[c] # "finish" /\ pc'[c] \notin {"finish", "idle"}
    \* the steps from the number to the wait, and its end
    <2>1. LinkedIsLive'
      BY <1>6 DEF LinkedIsLive
    <2>2. FreedReqs'
      BY <1>3, <1>4, <1>6, InstPair DEF FreedReqs, TypeInv, TypeOK
    <2>3. FreedBufs'
      BY <1>3, <1>5, <1>6, InstPair DEF FreedBufs, TypeInv, TypeOK
    <2>4. FinishAfterFree'
      BY <1>3, <1>6 DEF FinishAfterFree, Cur
    <2>. QED  BY <2>1, <2>2, <2>3, <2>4
  <1>7. CASE LinkRequest(c)
    <2>1. Cur(c) \notin reqFreed
      BY <1>2, <1>4, <1>7 DEF LinkRequest, Goto
    <2>2. /\ reqList' = reqList \cup {Cur(c)} /\ reqFreed' = reqFreed
          /\ bufFreed' = bufFreed /\ pc[c] # "finish" /\ pc'[c] = "commit"
      BY <1>7 DEF LinkRequest, Goto, TypeInv, TypeOK
    <2>3. LinkedIsLive'
      BY <2>1, <2>2 DEF LinkedIsLive
    <2>4. FreedReqs'
      BY <1>3, <1>4, <2>2, InstPair DEF FreedReqs, TypeInv, TypeOK
    <2>5. FreedBufs'
      BY <1>3, <1>5, <2>2, InstPair DEF FreedBufs, TypeInv, TypeOK
    <2>6. FinishAfterFree'
      BY <1>3, <2>2 DEF FinishAfterFree, Cur
    <2>. QED  BY <2>3, <2>4, <2>5, <2>6
  <1>8. CASE Release(c)
    <2>1. /\ reqList' = reqList \ {Cur(c)} /\ reqFreed' = reqFreed \cup {Cur(c)}
          /\ bufFreed' = bufFreed /\ pc[c] # "finish" /\ pc'[c] = "finish"
      BY <1>8 DEF Release, Goto, TypeInv, TypeOK
    <2>2. LinkedIsLive'
      BY <2>1 DEF LinkedIsLive
    <2>3. FreedReqs'
      <3>. SUFFICES ASSUME NEW i \in reqFreed'
                    PROVE  /\ i[2] <= calls'[i[1]]
                           /\ i[2] = calls'[i[1]] => pc'[i[1]] \in {"finish", "idle"}
        BY DEF FreedReqs
      <3>1. CASE i = Cur(c)
        BY <1>2, <1>3, <2>1, <3>1
      <3>2. CASE i \in reqFreed /\ i[1] = c
        BY <1>3, <1>4, <2>1, <3>2 DEF FreedReqs
      <3>3. CASE i \in reqFreed /\ i[1] # c
        BY <1>3, <3>3, InstPair DEF FreedReqs, TypeInv, TypeOK
      <3>. QED  BY <2>1, <3>1, <3>2, <3>3
    <2>4. FreedBufs'
      BY <1>3, <1>5, <2>1, InstPair DEF FreedBufs, TypeInv, TypeOK
    <2>5. FinishAfterFree'
      BY <1>3, <2>1 DEF FinishAfterFree, Cur
    <2>. QED  BY <2>2, <2>3, <2>4, <2>5
  <1>9. CASE Invalidate(c) \/ Finish(c)
    <2>1. /\ reqList' = reqList /\ reqFreed' = reqFreed
          /\ bufFreed' = bufFreed \cup {Cur(c)} /\ pc'[c] = "idle"
      BY <1>9 DEF Invalidate, Finish, Goto, TypeInv, TypeOK
    <2>2. LinkedIsLive'
      BY <2>1 DEF LinkedIsLive
    <2>3. FreedReqs'
      BY <1>3, <2>1, InstPair DEF FreedReqs, TypeInv, TypeOK
    <2>4. FreedBufs'
      BY <1>2, <1>3, <2>1, InstPair DEF FreedBufs, TypeInv, TypeOK
    <2>5. FinishAfterFree'
      BY <1>3, <2>1 DEF FinishAfterFree, Cur
    <2>. QED  BY <2>2, <2>3, <2>4, <2>5
  <1>10. CASE BumpSeq(c) \/ CommitRequest(c) \/ SendFrame(c) \/ SendFails(c)
                \/ SeeCompleted(c) \/ Timeout(c)
    BY <1>6, <1>10 DEF BumpSeq, CommitRequest, SendFrame, SendFails,
       SeeCompleted, Timeout, Goto, TypeInv, TypeOK
  <1>. QED  BY <1>7, <1>8, <1>9, <1>10 DEF CallerStep

LEMMA SafeNext == ASSUME SafeInv, [Next]_vars PROVE SafeInv'
  <1>1. TypeInv'
    BY NextType DEF SafeInv
  <1>2. CASE /\ reqList' = reqList /\ reqFreed' = reqFreed
             /\ bufFreed' = bufFreed /\ pc' = pc /\ calls' = calls
    BY <1>1, <1>2 DEF SafeInv, LinkedIsLive, FreedReqs, FreedBufs,
                      FinishAfterFree, Cur
  <1>3. CASE UNCHANGED vars \/ MasterServe \/ SlaveRx \/ LoseRequest \/ LoseResponse
    BY <1>2, <1>3 DEF vars, MasterServe, SlaveRx, LoseRequest, LoseResponse
  <1>4. CASE Next
    BY <1>1, <1>3, <1>4, SafeStart, SafeCaller DEF Next, SafeInv
  <1>. QED  BY <1>3, <1>4

LEMMA SafeInit == ASSUME Init PROVE SafeInv
  BY InitType DEF Init, SafeInv, LinkedIsLive, FreedReqs, FreedBufs,
                  FinishAfterFree

\* The IHC work handler never walks over a freed request: whatever times out,
\* is lost or is answered late, nothing on req_list has been freed.
THEOREM ListIsMemorySafe == Spec => []LinkedIsLive
  <1>1. Init => SafeInv
    BY SafeInit
  <1>2. SafeInv /\ [Next]_vars => SafeInv'
    BY SafeNext
  <1>3. SafeInv => LinkedIsLive
    BY DEF SafeInv
  <1>. QED  BY <1>1, <1>2, <1>3, PTL DEF Spec

(***************************************************************************)
(* The check of the RPC id in pfe_idex_rpc.                                *)
(***************************************************************************)
SettledIsFreed == \A i \in bufFreed : outcome[i] = "EOK" => i \in reqFreed

KindInv == SafeInv /\ SettledIsFreed /\ AnswerKindChecked

\* A step that leaves every settled call alone leaves the property alone.
LEMMA KindFrame ==
    ASSUME KindInv, bufFreed' = bufFreed, reqFreed \subseteq reqFreed',
           \A i \in bufFreed : /\ outcome'[i] = outcome[i]
                               /\ req'[i].id = req[i].id
                               /\ outcome[i] = "EOK" => respBuf'[i] = respBuf[i]
    PROVE  SettledIsFreed' /\ AnswerKindChecked'
  BY DEF KindInv, SettledIsFreed, AnswerKindChecked, Settled

LEMMA KindCaller ==
    ASSUME KindInv, NEW c \in Callers, CallerStep(c)
    PROVE  SettledIsFreed' /\ AnswerKindChecked'
  <1>. USE DEF KindInv, SafeInv, TypeInv, TypeOK
  <1>1. pc[c] # "idle"
    BY DEF CallerStep, Goto, BumpSeq, LinkRequest, CommitRequest, SendFrame,
       SendFails, Invalidate, SeeCompleted, Timeout, Release, Finish
  <1>2. Cur(c) \in Inst /\ Cur(c)[1] = c /\ Cur(c)[2] = calls[c]
    BY <1>1, CurType DEF Cur
  <1>3. Cur(c) \notin bufFreed
    BY <1>1, <1>2 DEF FreedBufs
  <1>4. respBuf' = respBuf /\ reqFreed \subseteq reqFreed'
    BY DEF CallerStep, BumpSeq, LinkRequest, CommitRequest, SendFrame,
       SendFails, Invalidate, SeeCompleted, Timeout, Release, Finish
  <1>5. \A i \in Inst : req'[i].id = req[i].id
    <2>1. CASE LinkRequest(c)
      BY <1>2, <2>1 DEF LinkRequest
    <2>2. ASSUME NEW s, NEW st, SetState(s, st)
          PROVE  \A i \in Inst : req'[i].id = req[i].id
      <3> DEFINE hit == GetById(s)
      <3>1. req' = [i \in Inst |-> IF i \in hit THEN [req[i] EXCEPT !.state = st]
                                   ELSE req[i]]
        BY <2>2 DEF SetState
      <3>. HIDE DEF hit
      <3>. QED  BY <3>1
    <2>3. CASE CommitRequest(c) \/ Invalidate(c)
      BY <2>2, <2>3 DEF CommitRequest, Invalidate
    <2>4. CASE ~ (LinkRequest(c) \/ CommitRequest(c) \/ Invalidate(c))
      BY <2>4 DEF CallerStep, BumpSeq, SendFrame, SendFails, SeeCompleted,
         Timeout, Release, Finish
    <2>. QED  BY <2>1, <2>3, <2>4
  <1>6. \A i \in Inst : i # Cur(c) => outcome'[i] = outcome[i]
    BY <1>2 DEF CallerStep, BumpSeq, LinkRequest, CommitRequest, SendFrame,
       SendFails, Invalidate, SeeCompleted, Timeout, Release, Finish
  <1>7. CASE bufFreed' = bufFreed
    BY <1>3, <1>4, <1>5, <1>6, <1>7, KindFrame
  <1>8. CASE Invalidate(c)
    <2>1. outcome'[Cur(c)] = "ETX" /\ bufFreed' = bufFreed \cup {Cur(c)}
      BY <1>2, <1>8 DEF Invalidate
    <2>. QED  BY <1>4, <1>5, <1>6, <2>1
              DEF SettledIsFreed, AnswerKindChecked, Settled
  <1>9. CASE Finish(c)
    <2>1. bufFreed' = bufFreed \cup {Cur(c)} /\ reqFreed' = reqFreed
      BY <1>9 DEF Finish
    <2>2. Cur(c) \in reqFreed
      BY <1>9 DEF Finish, Goto, FinishAfterFree
    <2>3. outcome'[Cur(c)] = "EOK"
             => respBuf[Cur(c)] = Unwritten \/ respBuf[Cur(c)].id = req[Cur(c)].id
      <3>1. CASE outcome[Cur(c)] = "EOK"
        <4>1. outcome'[Cur(c)] \in Verdicts(Cur(c))
          BY <1>2, <1>9, <3>1 DEF Finish
        <4>. QED  BY <4>1 DEF Verdicts
      <3>2. CASE outcome[Cur(c)] # "EOK"
        BY <1>9, <3>2 DEF Finish
      <3>. QED  BY <3>1, <3>2
    <2>4. SettledIsFreed'
      BY <1>6, <2>1, <2>2 DEF SettledIsFreed
    <2>5. AnswerKindChecked'
      BY <1>4, <1>5, <1>6, <2>1, <2>3 DEF AnswerKindChecked, Settled
    <2>. QED  BY <2>4, <2>5
  <1>. QED  BY <1>7, <1>8, <1>9
            DEF CallerStep, BumpSeq, LinkRequest, CommitRequest, SendFrame,
                SendFails, SeeCompleted, Timeout, Release

LEMMA KindNext == ASSUME KindInv, [Next]_vars PROVE KindInv'
  <1>. USE DEF KindInv, SafeInv, TypeInv, TypeOK
  <1>1. SafeInv'
    BY SafeNext
  <1>2. ASSUME NEW c \in Callers, NEW id \in Ids, StartCall(c, id)
        PROVE  SettledIsFreed' /\ AnswerKindChecked'
    <2> DEFINE new == <<c, calls[c] + 1>>
    <2>1. new \notin bufFreed
      <3>1. calls[c] \in Nat
        BY IdexAssumption
      <3>. QED  BY <3>1 DEF FreedBufs
    <2>2. \A i \in bufFreed : req'[i] = req[i]
      <3>1. req' = [req EXCEPT ![new] = NewReq(reqSeqNum, id)]
        BY <1>2 DEF StartCall
      <3>. HIDE DEF new
      <3>. QED  BY <2>1, <3>1
    <2>3. /\ bufFreed' = bufFreed /\ reqFreed' = reqFreed
          /\ outcome' = outcome /\ respBuf' = respBuf
      BY <1>2 DEF StartCall
    <2>. QED  BY <2>2, <2>3, KindFrame
  <1>3. CASE SlaveRx
    <2> DEFINE m == Head(toSlave)
               hit == GetById(m.seq)
               fits(i) == m.ans.len <= req[i].room
               done(i) == [req[i] EXCEPT
                             !.state = "COMPLETED",
                             !.room = IF fits(i) THEN m.ans.len ELSE @]
    <2>1. req' = [i \in Inst |-> IF i \notin hit THEN req[i] ELSE done(i)]
      BY <1>3 DEF SlaveRx
    <2>2. respBuf' = [i \in Inst |-> IF i \in hit /\ fits(i) THEN m.ans
                                     ELSE respBuf[i]]
      BY <1>3 DEF SlaveRx
    <2>3. hit \subseteq reqList
      BY DEF GetById
    <2>4. \A i \in Inst : done(i).id = req[i].id
      OBVIOUS
    <2>5. \A i \in Inst : req'[i].id = req[i].id
      <3>. HIDE DEF hit, done
      <3>. QED  BY <2>1, <2>4
    <2>6. \A i \in bufFreed : outcome[i] = "EOK" => i \notin hit
      BY <2>3 DEF SettledIsFreed, LinkedIsLive
    <2>7. \A i \in bufFreed : outcome[i] = "EOK" => respBuf'[i] = respBuf[i]
      <3>. HIDE DEF hit, fits, m
      <3>. QED  BY <2>2, <2>6
    <2>8. bufFreed' = bufFreed /\ reqFreed' = reqFreed /\ outcome' = outcome
      BY <1>3 DEF SlaveRx
    <2>. QED  BY <1>1, <2>5, <2>7, <2>8, KindFrame
  <1>4. CASE UNCHANGED vars \/ MasterServe \/ LoseRequest \/ LoseResponse
    BY <1>1, <1>4, KindFrame DEF vars, MasterServe, LoseRequest, LoseResponse
  <1>5. ASSUME NEW c \in Callers, NoMemory(c)
        PROVE  SettledIsFreed' /\ AnswerKindChecked'
    <2> DEFINE new == <<c, calls[c] + 1>>
    <2>1. new \notin bufFreed
      <3>1. calls[c] \in Nat
        BY IdexAssumption
      <3>. QED  BY <3>1 DEF FreedBufs
    <2>2. \A i \in bufFreed : outcome'[i] = outcome[i]
      <3>1. outcome' = [outcome EXCEPT ![new] = "ENOMEM"]
        BY <1>5 DEF NoMemory
      <3>. HIDE DEF new
      <3>. QED  BY <2>1, <3>1
    <2>3. /\ bufFreed' = bufFreed /\ reqFreed' = reqFreed
          /\ req' = req /\ respBuf' = respBuf
      BY <1>5 DEF NoMemory
    <2>. QED  BY <2>2, <2>3, KindFrame
  <1>. QED  BY <1>1, <1>2, <1>3, <1>4, <1>5, KindCaller DEF Next

\* A call only reports success with the answer to a request of its own RPC
\* id, in spite of pfe_idex_request_get_by_id completing the wrong request
\* with a late answer.
THEOREM AnswersHaveTheRightKind == Spec => []AnswerKindChecked
  <1>1. Init => KindInv
    BY SafeInit DEF Init, KindInv, SettledIsFreed, AnswerKindChecked, Settled
  <1>2. KindInv /\ [Next]_vars => KindInv'
    BY KindNext
  <1>3. KindInv => AnswerKindChecked
    BY DEF KindInv
  <1>. QED  BY <1>1, <1>2, <1>3, PTL DEF Spec

(***************************************************************************)
(* Misdelivery.  As long as no RPC has timed out, what is due - a frame in *)
(* flight, or a completion its caller has not seen yet - can be paired one *)
(* to one with callers that wait, under the same sequence number.  So an   *)
(* answer always finds a linked request with its number and the fallback   *)
(* of pfe_idex_request_get_by_id is never taken, although numbers are not  *)
(* unique and an answer may go to another caller than it was computed for. *)
(***************************************************************************)

\* Caller i[1] has started call i[2] and, if still in it, is at one of S.
Past(i, S) ==
    /\ i[2] <= calls[i[1]]
    /\ i[2] = calls[i[1]] => pc[i[1]] \in S

Shared == {"commit", "send", "invalidate", "wait", "release"}
Sent == {"wait", "release", "finish", "idle"}
Over == {"release", "finish", "idle"}

Linked == \A i \in reqList : Past(i, PCs \ {"bump", "link"})

OnList == \A c \in Callers : pc[c] \in Shared => Cur(c) \in reqList

FreshIsNew ==
    \A c \in Callers : pc[c] \in {"bump", "link"} => req[Cur(c)].state = "NEW"

ListOrder ==
    \A i \in reqList :
        /\ req[i].pos < tail
        /\ \A j \in reqList : req[i].pos = req[j].pos => i = j

Frames ==
    /\ \A k \in 1 .. Len(toMaster) :
          /\ Past(toMaster[k].of, Sent)
          /\ toMaster[k].seq = req[toMaster[k].of].seq
    /\ \A k \in 1 .. Len(toSlave) :
          /\ Past(toSlave[k].ans.of, Sent)
          /\ toSlave[k].seq = req[toSlave[k].ans.of].seq

OneFrame ==
    /\ \A j, k \in 1 .. Len(toMaster) : toMaster[j].of = toMaster[k].of => j = k
    /\ \A j, k \in 1 .. Len(toSlave) :
          toSlave[j].ans.of = toSlave[k].ans.of => j = k
    /\ \A j \in 1 .. Len(toMaster), k \in 1 .. Len(toSlave) :
          toMaster[j].of # toSlave[k].ans.of

Buffers ==
    \A i \in Inst : respBuf[i] # Unwritten =>
        Past(i, PCs \ {"bump", "link"}) /\ Past(respBuf[i].of, PCs)

TimedOut == \A i \in Inst : outcome[i] = "ETIMEDOUT" => Past(i, Over)

PlaceInv ==
    /\ TypeInv
    /\ Linked
    /\ OnList
    /\ FreshIsNew
    /\ ListOrder
    /\ Frames
    /\ OneFrame
    /\ Buffers
    /\ TimedOut

InFlight ==
    {toMaster[k].of : k \in 1 .. Len(toMaster)}
        \cup {toSlave[k].ans.of : k \in 1 .. Len(toSlave)}

At(S) == {i \in Inst : i[2] = calls[i[1]] /\ pc[i[1]] \in S}

Unseen == {i \in At({"commit", "send", "wait"}) : req[i].state = "COMPLETED"}

Due == (InFlight \X {"frame"}) \cup (Unseen \X {"done"})

\* D can be paired one to one with elements of W of the same number.
Matched(D, W, r) ==
    \E f \in [D -> W] :
        /\ \A x, y \in D : f[x] = f[y] => x = y
        /\ \A x \in D : r[f[x]].seq = r[x[1]].seq

NoTimeout == \A j \in Inst : outcome[j] # "ETIMEDOUT"

Exact ==
    NoTimeout => /\ Matched(Due, At({"wait"}), req)
                 /\ \A i \in Inst : ~ Misdelivered(i)

MatchInv == PlaceInv /\ Exact

LEMMA MatchedLess ==
    ASSUME NEW D, NEW W, NEW r, NEW D2, NEW W2, NEW r2, Matched(D, W, r),
           D2 \subseteq D, W \subseteq W2,
           \A x \in D2 : r2[x[1]].seq = r[x[1]].seq,
           \A w \in W : r2[w].seq = r[w].seq
    PROVE  Matched(D2, W2, r2)
  <1>1. PICK f \in [D -> W] : /\ \A x, y \in D : f[x] = f[y] => x = y
                              /\ \A x \in D : r[f[x]].seq = r[x[1]].seq
    BY DEF Matched
  <1> DEFINE g == [x \in D2 |-> f[x]]
  <1>2. g \in [D2 -> W2]
    OBVIOUS
  <1>3. \A x \in D2 : g[x] = f[x] /\ f[x] \in W /\ x \in D
    BY <1>1
  <1>4. \A x, y \in D2 : g[x] = g[y] => x = y
    BY <1>1, <1>3
  <1>5. \A x \in D2 : r2[g[x]].seq = r2[x[1]].seq
    BY <1>1, <1>3
  <1>. HIDE DEF g
  <1>. QED  BY <1>2, <1>4, <1>5 DEF Matched

LEMMA MatchedMore ==
    ASSUME NEW D, NEW W, NEW r, NEW z, NEW w, Matched(D, W, r),
           z \notin D, w \notin W, r[w].seq = r[z[1]].seq
    PROVE  Matched(D \cup {z}, W \cup {w}, r)
  <1>1. PICK f \in [D -> W] : /\ \A x, y \in D : f[x] = f[y] => x = y
                              /\ \A x \in D : r[f[x]].seq = r[x[1]].seq
    BY DEF Matched
  <1> DEFINE g == [x \in D \cup {z} |-> IF x = z THEN w ELSE f[x]]
  <1>2. g \in [D \cup {z} -> W \cup {w}]
    OBVIOUS
  <1>3. g[z] = w /\ \A x \in D : g[x] = f[x] /\ f[x] \in W /\ f[x] # w
    OBVIOUS
  <1>. HIDE DEF g
  <1>4. \A x, y \in D \cup {z} : g[x] = g[y] => x = y
    BY <1>1, <1>3
  <1>5. \A x \in D \cup {z} : r[g[x]].seq = r[x[1]].seq
    BY <1>1, <1>3
  <1>. QED  BY <1>2, <1>4, <1>5 DEF Matched

LEMMA MatchedFewer ==
    ASSUME NEW D, NEW W, NEW r, NEW z, NEW w, Matched(D, W, r),
           z \in D, w \in W, r[w].seq = r[z[1]].seq
    PROVE  Matched(D \ {z}, W \ {w}, r)
  <1>1. PICK f \in [D -> W] : /\ \A x, y \in D : f[x] = f[y] => x = y
                              /\ \A x \in D : r[f[x]].seq = r[x[1]].seq
    BY DEF Matched
  <1> DEFINE g == [x \in D \ {z} |-> IF f[x] = w THEN f[z] ELSE f[x]]
  <1>2. \A x \in D \ {z} : f[x] \in W /\ f[z] \in W /\ f[x] # f[z]
    BY <1>1
  <1>3. g \in [D \ {z} -> W \ {w}]
    BY <1>2
  <1>4. \A x \in D \ {z} : g[x] = IF f[x] = w THEN f[z] ELSE f[x]
    OBVIOUS
  <1>. HIDE DEF g
  <1>5. \A x, y \in D \ {z} : g[x] = g[y] => x = y
    BY <1>1, <1>2, <1>4
  <1>6. \A x \in D \ {z} : r[g[x]].seq = r[x[1]].seq
    BY <1>1, <1>4
  <1>. QED  BY <1>3, <1>5, <1>6 DEF Matched

LEMMA MatchedSwap ==
    ASSUME NEW D, NEW W, NEW r, NEW z, NEW y, Matched(D, W, r),
           z \in D, r[y[1]].seq = r[z[1]].seq
    PROVE  Matched((D \ {z}) \cup {y}, W, r)
  <1> DEFINE E == (D \ {z}) \cup {y}
  <1>1. CASE y \in D \ {z}
    <2>1. E \subseteq D
      BY <1>1
    <2>. HIDE DEF E
    <2>2. Matched(E, W, r)
      BY <2>1, MatchedLess
    <2>. QED  BY <2>2 DEF E
  <1>2. CASE y \notin D \ {z}
    <2>1. PICK f \in [D -> W] : /\ \A x, x2 \in D : f[x] = f[x2] => x = x2
                                /\ \A x \in D : r[f[x]].seq = r[x[1]].seq
      BY DEF Matched
    <2> DEFINE g == [x \in E |-> IF x = y THEN f[z] ELSE f[x]]
    <2>2. g \in [E -> W]
      OBVIOUS
    <2>3. g[y] = f[z] /\ \A x \in E \ {y} : g[x] = f[x] /\ x \in D \ {z}
      OBVIOUS
    <2>. HIDE DEF g
    <2>4. \A x, x2 \in E : g[x] = g[x2] => x = x2
      BY <1>2, <2>1, <2>3
    <2>5. \A x \in E : r[g[x]].seq = r[x[1]].seq
      BY <2>1, <2>3
    <2>. HIDE DEF E
    <2>6. Matched(E, W, r)
      BY <2>2, <2>4, <2>5 DEF Matched
    <2>. QED  BY <2>6 DEF E
  <1>. QED  BY <1>1, <1>2

(* Where a call has got to only moves on.                                  *)

LEMMA PastStart ==
    ASSUME TypeInv, NEW c \in Callers, NoMemory(c) \/ \E id \in Ids : StartCall(c, id),
           NEW S, NEW i \in Inst, Past(i, S)
    PROVE  Past(i, S)' /\ i # <<c, calls[c] + 1>>
  <1>0. calls \in [Callers -> 0 .. MaxCalls] /\ pc \in [Callers -> PCs]
    BY DEF TypeInv, TypeOK
  <1>1. /\ \A d \in Callers \ {c} : calls'[d] = calls[d] /\ pc'[d] = pc[d]
        /\ calls'[c] = calls[c] + 1
    BY <1>0 DEF StartCall, NoMemory, Goto
  <1>2. i[1] \in Callers /\ i[2] \in Nat /\ \A d \in Callers : calls[d] \in Nat
    BY InstNat, CallsNat DEF TypeInv
  <1>3. CASE i[1] = c
    <2>1. /\ calls[c] \in Nat /\ calls'[c] = calls[c] + 1
          /\ i[2] \in Nat /\ i[2] <= calls[c]
      BY <1>1, <1>2, <1>3 DEF Past
    <2>2. i[2] < calls'[c] /\ i[2] # calls[c] + 1
      BY <2>1
    <2>. QED  BY <1>3, <2>1, <2>2 DEF Past
  <1>4. CASE i[1] # c
    BY <1>1, <1>2, <1>4 DEF Past
  <1>. QED  BY <1>3, <1>4

\* A frame names the instance it was sent for.
LEMMA FrameTypes ==
    ASSUME TypeOK
    PROVE  /\ toMaster \in Seq(ReqFrame) /\ toSlave \in Seq(RespFrame)
           /\ \A k \in 1 .. Len(toMaster) : toMaster[k].of \in Inst
           /\ \A k \in 1 .. Len(toSlave) : toSlave[k].ans.of \in Inst
  <1>1. toMaster \in Seq(ReqFrame) /\ toSlave \in Seq(RespFrame)
    BY DEF TypeOK
  <1>2. \A k \in 1 .. Len(toMaster) : toMaster[k] \in ReqFrame
    BY <1>1
  <1>3. \A k \in 1 .. Len(toSlave) : toSlave[k] \in RespFrame
    BY <1>1
  <1>4. \A x \in ReqFrame : x.of \in Inst
    BY DEF ReqFrame
  <1>5. \A x \in RespFrame : x.ans.of \in Inst
    <2>1. \A x \in RespFrame : x.ans \in Answer
      BY DEF RespFrame
    <2>2. \A a \in Answer : a.of \in Inst
      BY DEF Answer
    <2>. QED  BY <2>1, <2>2
  <1>. QED  BY <1>1, <1>2, <1>3, <1>4, <1>5

LEMMA StepFacts ==
    ASSUME TypeInv, NEW c \in Callers, CallerStep(c)
    PROVE  /\ pc[c] # "idle" /\ Cur(c) \in Inst
           /\ Cur(c)[1] = c /\ Cur(c)[2] = calls[c] /\ calls[c] \in Nat
           /\ calls' = calls /\ \A d \in Callers \ {c} : pc'[d] = pc[d]
           /\ \A d \in Callers : Cur(d)' = Cur(d)
  <1>1. pc[c] # "idle"
    BY DEF CallerStep, Goto, BumpSeq, LinkRequest, CommitRequest, SendFrame,
       SendFails, Invalidate, SeeCompleted, Timeout, Release, Finish
  <1>2. Cur(c) \in Inst /\ Cur(c)[1] = c /\ Cur(c)[2] = calls[c] /\ calls[c] \in Nat
    <2>1. Cur(c) \in Inst
      BY <1>1, CurType
    <2>2. calls[c] \in Nat
      BY IdexAssumption DEF TypeInv, TypeOK
    <2>. QED  BY <2>1, <2>2 DEF Cur
  <1>3. calls' = calls /\ \A d \in Callers \ {c} : pc'[d] = pc[d]
    BY DEF CallerStep, Goto, BumpSeq, LinkRequest, CommitRequest, SendFrame,
       SendFails, Invalidate, SeeCompleted, Timeout, Release, Finish,
       TypeInv, TypeOK
  <1>. QED  BY <1>1, <1>2, <1>3 DEF Cur

LEMMA PastCaller ==
    ASSUME TypeInv, NEW c \in Callers, CallerStep(c), NEW S, NEW i \in Inst,
           Past(i, S), pc[c] \in S => pc'[c] \in S
    PROVE  Past(i, S)'
  <1>1. i[1] \in Callers
    BY InstPair
  <1>2. calls' = calls /\ \A d \in Callers \ {c} : pc'[d] = pc[d]
    BY StepFacts
  <1>. QED  BY <1>1, <1>2 DEF Past

\* Every set of places the invariant speaks of is closed under the steps.
LEMMA PlacesClosed ==
    ASSUME TypeInv, NEW c \in Callers, CallerStep(c)
    PROVE  /\ pc[c] \in PCs /\ pc'[c] \in PCs
           /\ pc[c] \in PCs \ {"bump", "link"} => pc'[c] \in PCs \ {"bump", "link"}
           /\ pc[c] \in Sent => pc'[c] \in Sent
           /\ pc[c] \in Over => pc'[c] \in Over
  <1>1. pc[c] \in PCs
    BY DEF TypeInv, TypeOK
  <1>. QED
    BY <1>1 DEF CallerStep, Goto, BumpSeq, LinkRequest, CommitRequest, SendFrame,
       SendFails, Invalidate, SeeCompleted, Timeout, Release, Finish,
       TypeInv, TypeOK, Sent, Over, PCs

\* What SetState and pfe_idex_request_finalize leave alone.
SameHeads ==
    \A i \in Inst : /\ req'[i].seq = req[i].seq
                    /\ req'[i].pos = req[i].pos
                    /\ i \notin reqList => req'[i].state = req[i].state

LEMMA SetStateHeads ==
    ASSUME TypeOK, NEW s, NEW st, SetState(s, st)
    PROVE  SameHeads
  <1> DEFINE hit == GetById(s)
  <1>1. req' = [i \in Inst |-> IF i \in hit THEN [req[i] EXCEPT !.state = st]
                               ELSE req[i]]
    BY DEF SetState
  <1>2. hit \subseteq reqList
    BY DEF GetById
  <1>. HIDE DEF hit
  <1>3. \A i \in Inst : req[i] \in ReqRec
    BY DEF TypeOK, ReqRec
  <1>. QED  BY <1>1, <1>2, <1>3 DEF SameHeads, ReqRec

LEMMA PlaceStart ==
    ASSUME PlaceInv, NEW c \in Callers,
           NoMemory(c) \/ \E id \in Ids : StartCall(c, id)
    PROVE  PlaceInv'
  <1> DEFINE new == <<c, calls[c] + 1>>
  <1>. USE DEF PlaceInv
  <1>1. TypeInv'
    BY StartCallType, NoMemoryType
  <1>2. /\ reqList' = reqList /\ tail' = tail /\ respBuf' = respBuf
        /\ toMaster' = toMaster /\ toSlave' = toSlave
        /\ \A d \in Callers \ {c} : calls'[d] = calls[d] /\ pc'[d] = pc[d]
        /\ calls'[c] = calls[c] + 1
        /\ pc[c] = "idle" /\ pc'[c] \in {"bump", "idle"}
    BY DEF StartCall, NoMemory, Goto, TypeInv, TypeOK
  <1>3. new \in Inst
    BY NextCall DEF StartCall, NoMemory, Inst, TypeInv
  <1>4. \A i \in Inst \ {new} : req'[i] = req[i] /\ outcome'[i] = outcome[i]
    BY <1>3 DEF StartCall, NoMemory, TypeInv, TypeOK
  <1>5. outcome'[new] = "ETIMEDOUT" => outcome[new] = "ETIMEDOUT"
    BY <1>3 DEF StartCall, NoMemory, TypeInv, TypeOK
  <1>6. ASSUME NEW i \in Inst, NEW S, Past(i, S) PROVE Past(i, S)' /\ i # new
    BY <1>6, PastStart
  <1>7. Linked'
    BY <1>2, <1>6 DEF Linked, TypeInv, TypeOK
  <1>8. OnList'
    <2>1. \A d \in Callers : pc'[d] \in Shared => d # c
      BY <1>2 DEF Shared
    <2>. QED  BY <1>2, <2>1 DEF OnList, Cur
  <1>9. FreshIsNew'
    <2>. SUFFICES ASSUME NEW d \in Callers, pc'[d] \in {"bump", "link"}
                  PROVE  req'[Cur(d)'].state = "NEW"
      BY DEF FreshIsNew
    <2>1. CASE d = c
      <3>1. \E id \in Ids : StartCall(c, id)
        BY <1>2, <2>1 DEF NoMemory
      <3>2. PICK id \in Ids : StartCall(c, id)
        BY <3>1
      <3>3. req'[new] = NewReq(reqSeqNum, id)
        BY <1>3, <3>2 DEF StartCall, TypeInv, TypeOK
      <3>4. Cur(d)' = new
        BY <1>2, <2>1 DEF Cur
      <3>. QED  BY <3>3, <3>4 DEF NewReq
    <2>2. CASE d # c
      <3>1. Cur(d)' = Cur(d) /\ pc'[d] = pc[d] /\ Cur(d) \in Inst /\ Cur(d) # new
        BY <1>2, <2>2, CurType DEF Cur
      <3>. QED  BY <1>4, <3>1 DEF FreshIsNew
    <2>. QED  BY <2>1, <2>2
  <1>10. \A i \in reqList : i \in Inst /\ i # new
    BY <1>6 DEF Linked, TypeInv, TypeOK
  <1>11. ListOrder'
    BY <1>2, <1>4, <1>10 DEF ListOrder
  <1>12. Frames'
    <2>1. \A k \in 1 .. Len(toMaster) : toMaster[k].of \in Inst
      BY FrameTypes DEF TypeInv
    <2>2. \A k \in 1 .. Len(toSlave) : toSlave[k].ans.of \in Inst
      BY FrameTypes DEF TypeInv
    <2>3. \A k \in 1 .. Len(toMaster) :
             Past(toMaster[k].of, Sent)' /\ toMaster[k].of # new
      BY <1>2, <1>6, <2>1 DEF Frames, Past
    <2>4. \A k \in 1 .. Len(toSlave) :
             Past(toSlave[k].ans.of, Sent)' /\ toSlave[k].ans.of # new
      BY <1>2, <1>6, <2>2 DEF Frames, Past
    <2>. QED  BY <1>2, <1>4, <2>1, <2>2, <2>3, <2>4 DEF Frames
  <1>13. OneFrame'
    BY <1>2 DEF OneFrame
  <1>14. Buffers'
    <2>. SUFFICES ASSUME NEW i \in Inst, respBuf[i] # Unwritten
                  PROVE  /\ Past(i, PCs \ {"bump", "link"})'
                         /\ Past(respBuf[i].of, PCs)'
      BY <1>2 DEF Buffers
    <2>1. respBuf[i].of \in Inst
      BY DEF TypeInv, TypeOK, Answer
    <2>2. Past(i, PCs \ {"bump", "link"}) /\ Past(respBuf[i].of, PCs)
      BY DEF Buffers
    <2>3. Past(i, PCs \ {"bump", "link"})'
      BY <1>6, <2>2
    <2>4. \A o \in Inst : Past(o, PCs) => Past(o, PCs)'
      BY <1>6
    <2>5. Past(respBuf[i].of, PCs)'
      BY <1>2, <2>1, <2>2, <2>4 DEF Past
    <2>. QED  BY <2>3, <2>5
  <1>15. TimedOut'
    BY <1>4, <1>5, <1>6 DEF TimedOut
  <1>. QED  BY <1>1, <1>7, <1>8, <1>9, <1>11, <1>12, <1>13, <1>14, <1>15

\* A caller's step that leaves the wire, the buffers and the list order alone.
LEMMA PlaceCaller ==
    ASSUME PlaceInv, NEW c \in Callers, CallerStep(c)
    PROVE  PlaceInv'
  <1>. USE DEF PlaceInv
  <1>1. TypeInv'
    BY CallerStepType
  <1>2. /\ Cur(c) \in Inst /\ Cur(c)[1] = c /\ Cur(c)[2] = calls[c]
        /\ calls[c] \in Nat /\ calls' = calls
        /\ \A d \in Callers \ {c} : pc'[d] = pc[d]
        /\ \A d \in Callers : Cur(d)' = Cur(d)
    BY StepFacts
  <1>3. \A d \in Callers : d # c => Cur(d) # Cur(c)
    BY DEF Cur
  <1>4. ASSUME NEW i \in Inst, NEW S \in {PCs, Sent, Over, PCs \ {"bump", "link"}},
               Past(i, S)
        PROVE  Past(i, S)'
    BY <1>4, PastCaller, PlacesClosed
  <1>5. SameHeads \/ LinkRequest(c)
    <2>1. CASE CommitRequest(c) \/ Invalidate(c)
      BY <2>1, SetStateHeads DEF CommitRequest, Invalidate, TypeInv
    <2>2. CASE ~ (CommitRequest(c) \/ Invalidate(c) \/ LinkRequest(c))
      BY <2>2 DEF CallerStep, BumpSeq, SendFrame, SendFails, SeeCompleted,
         Timeout, Release, Finish, SameHeads
    <2>. QED  BY <2>1, <2>2
  <1>6. CASE LinkRequest(c)
    <2>1. /\ reqList' = reqList \cup {Cur(c)} /\ tail' = tail + 1
          /\ pc[c] = "link" /\ pc'[c] = "commit"
          /\ respBuf' = respBuf /\ toMaster' = toMaster /\ toSlave' = toSlave
          /\ outcome' = outcome
      BY <1>6 DEF LinkRequest, Goto, TypeInv, TypeOK
    <2>2. /\ req' = [req EXCEPT ![Cur(c)].pos = tail]
          /\ tail \in Nat /\ \A i \in Inst : req[i] \in ReqRec
      BY <1>6 DEF LinkRequest, TypeInv, TypeOK, ReqRec
    <2>3. /\ req'[Cur(c)].pos = tail
          /\ \A i \in Inst : req'[i].seq = req[i].seq /\ req'[i].state = req[i].state
          /\ \A i \in Inst \ {Cur(c)} : req'[i] = req[i]
      BY <1>2, <2>2 DEF ReqRec, TypeInv, TypeOK
    <2>4. Past(Cur(c), PCs \ {"bump", "link"})'
      BY <1>2, <2>1 DEF Past, PCs
    <2>5. Linked'
      <3>1. \A i \in reqList : Past(i, PCs \ {"bump", "link"})'
        BY <1>4 DEF Linked, TypeInv, TypeOK
      <3>. QED  BY <1>2, <2>1, <2>4, <3>1 DEF Linked, Past
    <2>6. Cur(c) \notin reqList
      BY <1>2, <2>1 DEF Linked, Past
    <2>7. OnList'
      BY <1>2, <2>1 DEF OnList
    <2>8. FreshIsNew'
      <3>1. \A d \in Callers : pc'[d] \in {"bump", "link"}
               => d # c /\ pc[d] \in {"bump", "link"} /\ Cur(d) \in Inst
        BY <1>2, <2>1, CurType
      <3>. QED  BY <1>2, <2>3, <3>1 DEF FreshIsNew
    <2>9. ListOrder'
      <3>1. \A i \in reqList : /\ i \in Inst /\ i # Cur(c)
                               /\ req[i].pos \in Nat /\ req[i].pos < tail
                               /\ req'[i].pos = req[i].pos
        BY <2>2, <2>3, <2>6 DEF ListOrder, TypeInv, TypeOK, ReqRec
      <3>2. \A i \in reqList' : req'[i].pos < tail'
        BY <2>1, <2>2, <2>3, <3>1
      <3>3. \A i, j \in reqList' : req'[i].pos = req'[j].pos => i = j
        BY <2>1, <2>2, <2>3, <3>1 DEF ListOrder
      <3>. QED  BY <3>2, <3>3 DEF ListOrder
    <2>10. Frames'
      <3>1. \A k \in 1 .. Len(toMaster) : toMaster[k].of \in Inst
        BY FrameTypes DEF TypeInv
      <3>2. \A k \in 1 .. Len(toSlave) : toSlave[k].ans.of \in Inst
        BY FrameTypes DEF TypeInv
      <3>. QED  BY <1>4, <2>1, <2>3, <3>1, <3>2 DEF Frames, Past
    <2>11. OneFrame'
      BY <2>1 DEF OneFrame
    <2>12. Buffers'
      <3>1. \A i \in Inst : respBuf[i] # Unwritten => respBuf[i].of \in Inst
        BY DEF TypeInv, TypeOK, Answer
      <3>. QED  BY <1>4, <2>1, <3>1 DEF Buffers, Past
    <2>13. TimedOut'
      BY <1>4, <2>1 DEF TimedOut
    <2>. QED  BY <1>1, <2>5, <2>7, <2>8, <2>9, <2>10, <2>11, <2>12, <2>13
  <1>7. CASE SameHeads /\ ~ LinkRequest(c)
    <2>1. /\ reqList' \subseteq reqList /\ tail' = tail /\ respBuf' = respBuf
          /\ toSlave' = toSlave
      BY <1>7 DEF CallerStep, BumpSeq, CommitRequest, SendFrame,
         SendFails, Invalidate, SeeCompleted, Timeout, Release, Finish
    <2>2. Linked'
      BY <1>4, <2>1 DEF Linked, TypeInv, TypeOK
    <2>3. OnList'
      <3>1. pc'[c] \in Shared => pc[c] \in Shared /\ ~ Release(c)
        BY <1>7 DEF CallerStep, Goto, BumpSeq, CommitRequest, SendFrame,
           SendFails, Invalidate, SeeCompleted, Timeout, Release, Finish,
           TypeInv, TypeOK, Shared
      <3>2. reqList' = reqList \/ (Release(c) /\ reqList' = reqList \ {Cur(c)})
        BY <1>7 DEF CallerStep, BumpSeq, CommitRequest, SendFrame,
           SendFails, Invalidate, SeeCompleted, Timeout, Release, Finish
      <3>3. \A d \in Callers : d # c => (pc'[d] \in Shared => Cur(d) \in reqList')
        BY <1>2, <1>3, <3>2 DEF OnList
      <3>4. pc'[c] \in Shared => Cur(c) \in reqList'
        BY <3>1, <3>2 DEF OnList
      <3>. QED  BY <1>2, <3>3, <3>4 DEF OnList
    <2>4. FreshIsNew'
      <3>1. pc'[c] \in {"bump", "link"} => pc[c] = "bump"
        BY <1>7 DEF CallerStep, Goto, BumpSeq, CommitRequest, SendFrame,
           SendFails, Invalidate, SeeCompleted, Timeout, Release, Finish,
           TypeInv, TypeOK
      <3>2. \A d \in Callers : pc'[d] \in {"bump", "link"}
                => pc[d] \in {"bump", "link"} /\ Cur(d) \in Inst
        BY <1>2, <3>1, CurType
      <3>3. \A d \in Callers : pc[d] \in {"bump", "link"} => Cur(d) \notin reqList
        BY InstPair DEF Linked, Past, Cur
      <3>. QED  BY <1>2, <1>7, <3>2, <3>3 DEF FreshIsNew, SameHeads
    <2>5. ListOrder'
      BY <1>7, <2>1 DEF ListOrder, SameHeads, TypeInv, TypeOK
    <2>6. /\ \A k \in 1 .. Len(toMaster) : toMaster[k].of \in Inst
          /\ \A k \in 1 .. Len(toSlave) : toSlave[k].ans.of \in Inst
      BY FrameTypes DEF TypeInv
    <2>7. /\ \A k \in 1 .. Len(toMaster) : Past(toMaster[k].of, Sent)
          /\ \A k \in 1 .. Len(toSlave) : Past(toSlave[k].ans.of, Sent)
      BY DEF Frames
    <2>8. \A o \in Inst : Past(o, Sent) => Past(o, Sent)'
      BY <1>4
    <2>9. Frames' /\ OneFrame'
      <3>1. CASE SendFrame(c)
        <4> DEFINE m == [seq |-> req[Cur(c)].seq, id |-> req[Cur(c)].id,
                         of |-> Cur(c)]
        <4>1. toMaster' = Append(toMaster, m) /\ pc[c] = "send" /\ pc'[c] = "wait"
              /\ req' = req
          BY <3>1 DEF SendFrame, Goto, TypeInv, TypeOK
        <4>2. m.of = Cur(c) /\ m.seq = req[Cur(c)].seq
          OBVIOUS
        <4>3. Past(Cur(c), Sent)' /\ ~ Past(Cur(c), Sent)
          BY <1>2, <4>1 DEF Past, Sent
        <4>. HIDE DEF m
        <4>4. /\ Len(toMaster) \in Nat /\ Len(toMaster') = Len(toMaster) + 1
              /\ toMaster'[Len(toMaster) + 1] = m
              /\ \A k \in 1 .. Len(toMaster) : toMaster'[k] = toMaster[k]
          BY <4>1 DEF TypeInv, TypeOK
        <4>5. Frames'
          <5>1. \A k \in 1 .. Len(toMaster') : k \in 1 .. Len(toMaster) \/ k = Len(toMaster) + 1
            BY <4>4
          <5>2. \A k \in 1 .. Len(toMaster) : Past(toMaster[k].of, Sent)'
            BY <2>6, <2>7, <2>8, <4>4 DEF Past
          <5>3. toMaster'[Len(toMaster) + 1].of = Cur(c)'
            BY <1>2, <4>2, <4>4
          <5>4. \A k \in 1 .. Len(toMaster') :
                  Past(toMaster[k].of, Sent)' /\ toMaster'[k].seq = req'[toMaster'[k].of].seq
            <6>. SUFFICES ASSUME NEW k \in 1 .. Len(toMaster')
                          PROVE  /\ Past(toMaster[k].of, Sent)'
                                 /\ toMaster'[k].seq = req'[toMaster'[k].of].seq
              OBVIOUS
            <6>1. CASE k \in 1 .. Len(toMaster)
              BY <4>1, <4>4, <5>2, <6>1 DEF Frames
            <6>2. CASE k = Len(toMaster) + 1
              BY <1>2, <4>1, <4>2, <4>3, <4>4, <5>3, <6>2 DEF Past
            <6>. QED  BY <5>1, <6>1, <6>2
          <5>5. \A k \in 1 .. Len(toSlave') :
                  Past(toSlave[k].ans.of, Sent)'
                    /\ toSlave'[k].seq = req'[toSlave'[k].ans.of].seq
            <6>1. \A k \in 1 .. Len(toSlave) : toSlave[k].seq = req[toSlave[k].ans.of].seq
              BY DEF Frames
            <6>2. \A k \in 1 .. Len(toSlave) : Past(toSlave[k].ans.of, Sent)'
              BY <2>1, <2>6, <2>7, <2>8 DEF Past
            <6>. QED  BY <2>1, <4>1, <6>1, <6>2
          <5>. QED  BY <5>4, <5>5 DEF Frames
        <4>6. /\ \A k \in 1 .. Len(toMaster) : toMaster[k].of # Cur(c)
              /\ \A k \in 1 .. Len(toSlave) : toSlave[k].ans.of # Cur(c)
          BY <2>7, <4>3
        <4>7. OneFrame'
          <5>1. \A k \in 1 .. Len(toMaster') :
                  \/ k \in 1 .. Len(toMaster) /\ toMaster'[k] = toMaster[k]
                  \/ k = Len(toMaster) + 1 /\ toMaster'[k].of = Cur(c)
            BY <4>2, <4>4
          <5>2. \A j, k \in 1 .. Len(toMaster') :
                  toMaster'[j].of = toMaster'[k].of => j = k
            BY <4>6, <5>1 DEF OneFrame
          <5>3. \A j \in 1 .. Len(toMaster'), k \in 1 .. Len(toSlave) :
                  toMaster'[j].of # toSlave[k].ans.of
            BY <4>6, <5>1 DEF OneFrame
          <5>. QED  BY <2>1, <5>2, <5>3 DEF OneFrame
        <4>. QED  BY <4>5, <4>7
      <3>2. CASE ~ SendFrame(c)
        <4>1. toMaster' = toMaster
          BY <1>7, <3>2 DEF CallerStep, BumpSeq, CommitRequest,
             SendFails, Invalidate, SeeCompleted, Timeout, Release, Finish
        <4>2. Frames'
          BY <1>7, <2>1, <2>6, <2>7, <2>8, <4>1 DEF Frames, Past, SameHeads
        <4>. QED  BY <2>1, <4>1, <4>2 DEF OneFrame
      <3>. QED  BY <3>1, <3>2
    <2>10. Buffers'
      <3>1. \A i \in Inst : respBuf[i] # Unwritten => respBuf[i].of \in Inst
        BY DEF TypeInv, TypeOK, Answer
      <3>. QED  BY <1>4, <2>1, <3>1 DEF Buffers, Past
    <2>11. TimedOut'
      <3>1. \A i \in Inst : i # Cur(c) => outcome'[i] = outcome[i]
        BY <1>2, <1>7 DEF CallerStep, BumpSeq, CommitRequest, SendFrame,
           SendFails, Invalidate, SeeCompleted, Timeout, Release, Finish,
           TypeInv, TypeOK
      <3>2. outcome'[Cur(c)] = outcome[Cur(c)] \/ pc'[c] \in Over
        BY <1>2, <1>7 DEF CallerStep, Goto, BumpSeq, CommitRequest, SendFrame,
           SendFails, Invalidate, SeeCompleted, Timeout, Release, Finish,
           TypeInv, TypeOK, Over
      <3>3. pc'[c] \in Over => Past(Cur(c), Over)'
        BY <1>2 DEF Past
      <3>. QED  BY <1>2, <1>4, <3>1, <3>2, <3>3 DEF TimedOut
    <2>. QED  BY <1>1, <2>2, <2>3, <2>4, <2>5, <2>9, <2>10, <2>11
  <1>. QED  BY <1>5, <1>6, <1>7

\* The frames left when the first one is taken off.
LEMMA TailFrames ==
    ASSUME NEW S, NEW q \in Seq(S), q # <<>>
    PROVE  /\ Len(q) \in Nat /\ 1 \in 1 .. Len(q) /\ Head(q) = q[1]
           /\ \A k \in 1 .. Len(Tail(q)) :
                k \in Nat /\ k + 1 \in 1 .. Len(q) /\ Tail(q)[k] = q[k + 1]
  OBVIOUS

LEMMA AppendFrames ==
    ASSUME NEW S, NEW q \in Seq(S), NEW m
    PROVE  /\ Len(q) \in Nat /\ Len(Append(q, m)) = Len(q) + 1
           /\ Append(q, m)[Len(q) + 1] = m
           /\ \A k \in 1 .. Len(q) : Append(q, m)[k] = q[k]
  OBVIOUS

\* The slave's work handler changes no number and no place in the list.
LEMMA SlaveRxHeads ==
    ASSUME TypeOK, SlaveRx
    PROVE  /\ SameHeads
           /\ \A i \in Inst : \/ respBuf'[i] = respBuf[i]
                              \/ /\ i \in GetById(Head(toSlave).seq)
                                 /\ respBuf'[i] = Head(toSlave).ans
           /\ \A i \in Inst :
                req'[i].state # req[i].state => i \in GetById(Head(toSlave).seq)
  <1> DEFINE m == Head(toSlave)
             hit == GetById(m.seq)
             fits(i) == m.ans.len <= req[i].room
             done(i) == [req[i] EXCEPT
                           !.state = "COMPLETED",
                           !.room = IF fits(i) THEN m.ans.len ELSE @]
  <1>1. req' = [i \in Inst |-> IF i \notin hit THEN req[i] ELSE done(i)]
    BY DEF SlaveRx
  <1>2. respBuf' = [i \in Inst |-> IF i \in hit /\ fits(i) THEN m.ans
                                   ELSE respBuf[i]]
    BY DEF SlaveRx
  <1>3. hit \subseteq reqList
    BY DEF GetById
  <1>4. \A i \in Inst : done(i).seq = req[i].seq /\ done(i).pos = req[i].pos
    BY DEF TypeOK
  <1>. HIDE DEF hit, done, fits, m
  <1>5. SameHeads
    BY <1>1, <1>3, <1>4 DEF SameHeads
  <1>6. \A i \in Inst : respBuf'[i] = respBuf[i] \/ (i \in hit /\ respBuf'[i] = m.ans)
    BY <1>2
  <1>7. \A i \in Inst : req'[i].state # req[i].state => i \in hit
    BY <1>1
  <1>. QED  BY <1>5, <1>6, <1>7 DEF hit, m

LEMMA PlaceHandler ==
    ASSUME PlaceInv,
           UNCHANGED vars \/ MasterServe \/ SlaveRx \/ LoseRequest \/ LoseResponse
    PROVE  PlaceInv'
  <1>. USE DEF PlaceInv
  <1>1. TypeInv'
    BY HandlerType DEF vars, TypeInv, TypeOK, InCall
  <1>2. /\ reqList' = reqList /\ tail' = tail /\ calls' = calls /\ pc' = pc
        /\ outcome' = outcome
    BY DEF vars, MasterServe, SlaveRx, LoseRequest, LoseResponse
  <1>3. \A i, S : Past(i, S)' <=> Past(i, S)
    BY <1>2 DEF Past
  <1>4. SameHeads
    <2>1. CASE SlaveRx
      BY <2>1, SlaveRxHeads DEF TypeInv
    <2>2. CASE ~ SlaveRx
      BY <2>2 DEF vars, MasterServe, LoseRequest, LoseResponse, SameHeads
    <2>. QED  BY <2>1, <2>2
  <1>5. Linked' /\ OnList' /\ TimedOut'
    BY <1>2, <1>3 DEF Linked, OnList, TimedOut, Cur, Past
  <1>6. FreshIsNew'
    <2>1. \A d \in Callers : pc[d] \in {"bump", "link"}
             => Cur(d) \in Inst /\ Cur(d) \notin reqList
      BY CurType, InstPair DEF Linked, Past, Cur
    <2>. QED  BY <1>2, <1>4, <2>1 DEF FreshIsNew, SameHeads, Cur
  <1>7. ListOrder'
    BY <1>2, <1>4 DEF ListOrder, SameHeads, TypeInv, TypeOK
  <1>8. /\ toMaster \in Seq(ReqFrame) /\ toSlave \in Seq(RespFrame)
        /\ \A k \in 1 .. Len(toMaster) : toMaster[k].of \in Inst
        /\ \A k \in 1 .. Len(toSlave) : toSlave[k].ans.of \in Inst
    BY FrameTypes DEF TypeInv
  \* the frames in flight before the step
  <1>old. /\ \A k \in 1 .. Len(toMaster) :
              Past(toMaster[k].of, Sent) /\ toMaster[k].seq = req'[toMaster[k].of].seq
         /\ \A k \in 1 .. Len(toSlave) :
              /\ Past(toSlave[k].ans.of, Sent)
              /\ toSlave[k].seq = req'[toSlave[k].ans.of].seq
    BY <1>4, <1>8 DEF Frames, SameHeads
  <1>9. Frames' /\ OneFrame'
    <2>1. CASE toMaster' = toMaster /\ toSlave' = toSlave
      BY <1>2, <1>old, <2>1 DEF Frames, OneFrame, Past
    <2>2. CASE LoseRequest \/ (MasterServe /\ toSlave' = toSlave)
      <3>1. toMaster # <<>> /\ toMaster' = Tail(toMaster) /\ toSlave' = toSlave
        BY <2>2 DEF LoseRequest, MasterServe
      <3>2. \A k \in 1 .. Len(toMaster') :
               k \in Nat /\ k + 1 \in 1 .. Len(toMaster) /\ toMaster'[k] = toMaster[k + 1]
        BY <1>8, <3>1, TailFrames
      <3>3. \A k \in 1 .. Len(toMaster') :
               Past(toMaster[k].of, Sent)'
                 /\ toMaster'[k].seq = req'[toMaster'[k].of].seq
        BY <1>2, <1>old, <3>2 DEF Past
      <3>4. Frames'
        BY <1>2, <1>old, <3>1, <3>3 DEF Frames, Past
      <3>5. OneFrame'
        BY <3>1, <3>2 DEF OneFrame
      <3>. QED  BY <3>4, <3>5
    <2>3. CASE LoseResponse \/ SlaveRx
      <3>1. toSlave # <<>> /\ toSlave' = Tail(toSlave) /\ toMaster' = toMaster
        BY <2>3 DEF LoseResponse, SlaveRx
      <3>2. \A k \in 1 .. Len(toSlave') :
               k \in Nat /\ k + 1 \in 1 .. Len(toSlave) /\ toSlave'[k] = toSlave[k + 1]
        BY <1>8, <3>1, TailFrames
      <3>3. \A k \in 1 .. Len(toSlave') :
               Past(toSlave[k].ans.of, Sent)'
                 /\ toSlave'[k].seq = req'[toSlave'[k].ans.of].seq
        BY <1>2, <1>old, <3>2 DEF Past
      <3>4. Frames'
        BY <1>2, <1>old, <3>1, <3>3 DEF Frames, Past
      <3>5. OneFrame'
        BY <3>1, <3>2 DEF OneFrame
      <3>. QED  BY <3>4, <3>5
    <2>4. CASE MasterServe /\ toSlave' # toSlave
      <3> DEFINE m == Head(toMaster)
                 r == [seq |-> m.seq,
                       ans |-> [id |-> m.id, of |-> m.of, len |-> RespLen[m.id]]]
      <3>1. toMaster # <<>> /\ toMaster' = Tail(toMaster)
            /\ toSlave' = Append(toSlave, r) /\ req' = req
        BY <2>4 DEF MasterServe
      <3>2. r.seq = m.seq /\ r.ans.of = m.of /\ m = toMaster[1]
            /\ 1 \in 1 .. Len(toMaster)
        BY <1>8, <3>1, TailFrames
      <3>3. \A k \in 1 .. Len(toMaster') :
               k \in Nat /\ k + 1 \in 1 .. Len(toMaster) /\ toMaster'[k] = toMaster[k + 1]
        BY <1>8, <3>1, TailFrames
      <3>. HIDE DEF r, m
      <3>4. /\ Len(toSlave) \in Nat /\ Len(toSlave') = Len(toSlave) + 1
            /\ toSlave'[Len(toSlave) + 1] = r
            /\ \A k \in 1 .. Len(toSlave) : toSlave'[k] = toSlave[k]
        BY <1>8, <3>1, AppendFrames
      <3>5. \A k \in 1 .. Len(toSlave') : k \in 1 .. Len(toSlave) \/ k = Len(toSlave) + 1
        BY <3>4
      <3>6. Frames'
        <4>1. ASSUME NEW k \in 1 .. Len(toMaster')
              PROVE  /\ Past(toMaster[k].of, Sent)'
                     /\ toMaster'[k].seq = req'[toMaster'[k].of].seq
          BY <1>2, <1>old, <3>3 DEF Past
        <4>2. ASSUME NEW k \in 1 .. Len(toSlave')
              PROVE  /\ Past(toSlave[k].ans.of, Sent)'
                     /\ toSlave'[k].seq = req'[toSlave'[k].ans.of].seq
          <5>1. CASE k \in 1 .. Len(toSlave)
            BY <1>2, <1>old, <3>4, <5>1 DEF Past
          <5>2. CASE k = Len(toSlave) + 1
            <6>1. Past(r.ans.of, Sent) /\ r.seq = req'[r.ans.of].seq
              BY <1>old, <3>2
            <6>. QED  BY <1>2, <3>4, <5>2, <6>1 DEF Past
          <5>. QED  BY <3>5, <5>1, <5>2
        <4>. QED  BY <4>1, <4>2 DEF Frames
      <3>7. \A k \in 1 .. Len(toMaster') : toMaster'[k].of # r.ans.of
        BY <3>2, <3>3 DEF OneFrame
      <3>8. \A k \in 1 .. Len(toSlave) : toSlave[k].ans.of # r.ans.of
        BY <3>2 DEF OneFrame
      <3>9. OneFrame'
        <4>1. \A j, k \in 1 .. Len(toMaster') : toMaster'[j].of = toMaster'[k].of => j = k
          BY <3>3 DEF OneFrame
        <4>2. \A j, k \in 1 .. Len(toSlave') :
                toSlave'[j].ans.of = toSlave'[k].ans.of => j = k
          BY <3>4, <3>5, <3>8 DEF OneFrame
        <4>3. \A j \in 1 .. Len(toMaster'), k \in 1 .. Len(toSlave') :
                toMaster'[j].of # toSlave'[k].ans.of
          <5>. SUFFICES ASSUME NEW j \in 1 .. Len(toMaster'), NEW k \in 1 .. Len(toSlave')
                        PROVE  toMaster'[j].of # toSlave'[k].ans.of
            OBVIOUS
          <5>1. j + 1 \in 1 .. Len(toMaster) /\ toMaster'[j] = toMaster[j + 1]
            BY <3>3
          <5>2. CASE k \in 1 .. Len(toSlave)
            BY <3>4, <5>1, <5>2 DEF OneFrame
          <5>3. CASE k = Len(toSlave) + 1
            BY <3>4, <3>7, <5>3
          <5>. QED  BY <3>5, <5>2, <5>3
        <4>. QED  BY <4>1, <4>2, <4>3 DEF OneFrame
      <3>. QED  BY <3>6, <3>9
    <2>. QED  BY <2>1, <2>2, <2>3, <2>4 DEF vars
  <1>10. Buffers'
    <2>1. \A i \in Inst : respBuf[i] # Unwritten => respBuf[i].of \in Inst
      BY DEF TypeInv, TypeOK, Answer
    <2>2. CASE SlaveRx
      <3>1. Head(toSlave) = toSlave[1] /\ 1 \in 1 .. Len(toSlave)
        BY <1>8, <2>2, TailFrames DEF SlaveRx
      <3>2. Past(Head(toSlave).ans.of, PCs)
        BY <3>1 DEF Frames, Past, Sent, PCs
      <3>3. GetById(Head(toSlave).seq) \subseteq reqList
        BY DEF GetById
      <3>4. \A i \in Inst : \/ respBuf'[i] = respBuf[i]
                            \/ (i \in reqList /\ respBuf'[i] = Head(toSlave).ans)
        BY <2>2, <3>3, SlaveRxHeads DEF TypeInv
      <3>. QED  BY <1>2, <3>2, <3>4 DEF Buffers, Linked, Past
    <2>3. CASE ~ SlaveRx
      <3>1. respBuf' = respBuf
        BY <2>3 DEF vars, MasterServe, LoseRequest, LoseResponse
      <3>. QED  BY <1>2, <3>1 DEF Buffers, Past
    <2>. QED  BY <2>2, <2>3
  <1>. QED  BY <1>1, <1>5, <1>6, <1>7, <1>9, <1>10

LEMMA PlaceNext == ASSUME PlaceInv, [Next]_vars PROVE PlaceInv'
  BY PlaceStart, PlaceCaller, PlaceHandler DEF Next

\* A time-out is never taken back.
LEMMA TimeoutStays ==
    ASSUME PlaceInv, [Next]_vars, NoTimeout'
    PROVE  NoTimeout
  <1>. USE DEF PlaceInv
  <1>. SUFFICES ASSUME NEW j \in Inst, outcome[j] = "ETIMEDOUT"
                PROVE  outcome'[j] = "ETIMEDOUT"
    BY DEF NoTimeout
  <1>1. Past(j, Over)
    BY DEF TimedOut
  <1>2. ASSUME NEW c \in Callers, NoMemory(c) PROVE outcome'[j] = outcome[j]
    <2>1. j # <<c, calls[c] + 1>>
      BY <1>1, <1>2, PastStart
    <2>. QED  BY <1>2, <2>1 DEF NoMemory, TypeInv, TypeOK
  <1>3. ASSUME NEW c \in Callers, CallerStep(c) PROVE outcome'[j] = "ETIMEDOUT"
    <2>1. Cur(c) \in Inst /\ Cur(c)[1] = c /\ Cur(c)[2] = calls[c]
      BY <1>3, StepFacts
    <2>2. CASE j # Cur(c)
      BY <1>3, <2>1, <2>2 DEF CallerStep, BumpSeq, LinkRequest, CommitRequest, SendFrame,
         SendFails, Invalidate, SeeCompleted, Timeout, Release, Finish,
         TypeInv, TypeOK
    <2>3. CASE j = Cur(c)
      <3>1. pc[c] \in Over
        BY <1>1, <2>1, <2>3 DEF Past
      <3>. QED
        BY <1>3, <3>1, <2>3 DEF CallerStep, Goto, BumpSeq, LinkRequest, CommitRequest,
           SendFrame, SendFails, Invalidate, SeeCompleted, Timeout, Release,
           Finish, Over
    <2>. QED  BY <2>2, <2>3
  <1>4. CASE \/ UNCHANGED vars \/ MasterServe \/ SlaveRx \/ LoseRequest
             \/ LoseResponse \/ \E c \in Callers, id \in Ids : StartCall(c, id)
    BY <1>4 DEF vars, MasterServe, SlaveRx, LoseRequest, LoseResponse, StartCall
  <1>. QED  BY <1>2, <1>3, <1>4 DEF Next

\* What is due and who waits, when only less of it is left.
LEMMA ExactLess ==
    ASSUME Exact, NoTimeout, Due' \subseteq Due, At({"wait"}) \subseteq At({"wait"})',
           \A x \in Due' : req'[x[1]].seq = req[x[1]].seq,
           \A w \in At({"wait"}) : req'[w].seq = req[w].seq
    PROVE  Matched(Due, At({"wait"}), req)'
  <1> DEFINE W == At({"wait"})
             D == Due
  <1>1. Matched(D, W, req)
    BY DEF Exact
  <1>2. /\ D' \subseteq D /\ W \subseteq W'
        /\ \A x \in D' : req'[x[1]].seq = req[x[1]].seq
        /\ \A w \in W : req'[w].seq = req[w].seq
    OBVIOUS
  <1>. HIDE DEF D, W
  <1>3. Matched(D', W', req')
    BY <1>1, <1>2, MatchedLess
  <1>. QED  BY <1>3 DEF D, W, Matched

LEMMA DueOf ==
    ASSUME PlaceInv
    PROVE  /\ \A i \in InFlight : i \in Inst /\ Past(i, Sent)
           /\ \A i \in Unseen : i \in Inst /\ Past(i, PCs)
           /\ \A x \in Due : x[1] \in Inst /\ Past(x[1], PCs)
  <1>. USE DEF PlaceInv
  <1>1. \A i \in InFlight : i \in Inst /\ Past(i, Sent)
    BY FrameTypes DEF InFlight, Frames, TypeInv
  <1>2. \A i \in Unseen : i \in Inst /\ Past(i, PCs)
    <2>1. \A i \in Inst : i[1] \in Callers /\ i[2] \in Nat
      BY InstPair, IdexAssumption
    <2>2. \A c \in Callers : calls[c] \in Nat /\ pc[c] \in PCs
      BY IdexAssumption DEF TypeInv, TypeOK
    <2>. QED  BY <2>1, <2>2 DEF Unseen, At, Past
  <1>3. Sent \subseteq PCs
    BY DEF Sent, PCs
  <1>4. \A x \in Due : x[1] \in InFlight \/ x[1] \in Unseen
    BY DEF Due
  <1>. QED  BY <1>1, <1>2, <1>3, <1>4 DEF Past

LEMMA ExactStart ==
    ASSUME PlaceInv, Exact, NEW c \in Callers,
           NoMemory(c) \/ \E id \in Ids : StartCall(c, id), NoTimeout
    PROVE  /\ Matched(Due, At({"wait"}), req)'
           /\ \A i \in Inst : ~ Misdelivered(i)'
  <1> DEFINE new == <<c, calls[c] + 1>>
  <1>. USE DEF PlaceInv
  <1>1. /\ respBuf' = respBuf /\ toMaster' = toMaster /\ toSlave' = toSlave
        /\ \A d \in Callers \ {c} : calls'[d] = calls[d] /\ pc'[d] = pc[d]
        /\ calls'[c] = calls[c] + 1
        /\ pc[c] = "idle" /\ pc'[c] \in {"bump", "idle"}
    BY DEF StartCall, NoMemory, Goto, TypeInv, TypeOK
  <1>2. new \in Inst
    BY NextCall DEF StartCall, NoMemory, Inst, TypeInv
  <1>3. \A i \in Inst \ {new} : req'[i] = req[i]
    BY <1>2 DEF StartCall, NoMemory, TypeInv, TypeOK
  <1>4. \A i \in Inst : \A S : Past(i, S) => i # new
    BY PastStart
  <1>5. InFlight' = InFlight
    BY <1>1 DEF InFlight
  <1>6. \A i \in Inst : i[1] \in Callers
    BY InstPair
  <1>7. At({"wait"}) \subseteq At({"wait"})'
    BY <1>1, <1>6 DEF At
  <1>8. Unseen' \subseteq Unseen
    <2>1. At({"commit", "send", "wait"})' \subseteq At({"commit", "send", "wait"})
      BY <1>1, <1>6 DEF At
    <2>2. \A i \in At({"commit", "send", "wait"})' : i \in Inst /\ i # new
      <3>1. \A i \in At({"commit", "send", "wait"})' : i \in Inst /\ i[1] # c
        BY <1>1 DEF At
      <3>. QED  BY <3>1
    <2>. QED  BY <1>3, <2>1, <2>2 DEF Unseen
  <1>9. Due' \subseteq Due
    BY <1>5, <1>8 DEF Due
  <1>10. \A x \in Due' : x[1] \in Inst /\ x[1] # new
    BY <1>4, <1>9, DueOf
  <1>11. \A w \in At({"wait"}) : w \in Inst /\ w # new
    <2>1. \A w \in At({"wait"}) : w \in Inst /\ w[1] # c
      BY <1>1 DEF At
    <2>. QED  BY <2>1
  <1>12. Matched(Due, At({"wait"}), req)'
    <2>1. /\ \A x \in Due' : req'[x[1]].seq = req[x[1]].seq
          /\ \A w \in At({"wait"}) : req'[w].seq = req[w].seq
      BY <1>3, <1>10, <1>11
    <2>. QED  BY <1>7, <1>9, <2>1, ExactLess
  <1>13. ASSUME NEW i \in Inst PROVE ~ Misdelivered(i)'
    <2>. SUFFICES ASSUME respBuf[i] # Unwritten
                  PROVE  req'[respBuf[i].of].seq = req'[i].seq
      BY <1>1 DEF Misdelivered
    <2>1. respBuf[i].of \in Inst
      BY DEF TypeInv, TypeOK, Answer
    <2>2. i # new /\ respBuf[i].of # new
      BY <1>4, <2>1 DEF Buffers
    <2>. QED  BY <1>3, <2>1, <2>2 DEF Exact, Misdelivered
  <1>. QED  BY <1>12, <1>13

LEMMA ExactCaller ==
    ASSUME PlaceInv, Exact, NEW c \in Callers, CallerStep(c), NoTimeout, NoTimeout'
    PROVE  /\ Matched(Due, At({"wait"}), req)'
           /\ \A i \in Inst : ~ Misdelivered(i)'
  <1>. USE DEF PlaceInv
  <1>1. /\ pc[c] # "idle" /\ Cur(c) \in Inst /\ Cur(c)[1] = c
        /\ Cur(c)[2] = calls[c] /\ calls' = calls
        /\ \A d \in Callers \ {c} : pc'[d] = pc[d]
    BY StepFacts
  <1>2. ~ Timeout(c)
    <2>. SUFFICES ASSUME Timeout(c) PROVE FALSE
      OBVIOUS
    <2>1. outcome'[Cur(c)] = "ETIMEDOUT"
      BY <1>1 DEF Timeout, TypeInv, TypeOK
    <2>. QED  BY <1>1, <2>1 DEF NoTimeout
  <1>3. /\ \A i \in Inst : req'[i].seq = req[i].seq
        /\ \A i \in Inst : req'[i].state = "COMPLETED" => req[i].state = "COMPLETED"
    <2>1. ASSUME NEW s, NEW st \in States, st # "COMPLETED", SetState(s, st)
          PROVE  \A i \in Inst : req'[i].state = "COMPLETED" => req[i].state = "COMPLETED"
      <3> DEFINE hit == GetById(s)
      <3>1. req' = [i \in Inst |-> IF i \in hit THEN [req[i] EXCEPT !.state = st]
                                   ELSE req[i]]
        BY <2>1 DEF SetState
      <3>2. \A i \in Inst : [req[i] EXCEPT !.state = st].state = st
        BY DEF TypeInv, TypeOK
      <3>. HIDE DEF hit
      <3>. QED  BY <2>1, <3>1, <3>2
    <2>2. CASE CommitRequest(c)
      <3>1. SetState(req[Cur(c)].seq, "COMMITTED") /\ "COMMITTED" \in States
        BY <2>2 DEF CommitRequest, States
      <3>. QED  BY <2>1, <3>1, SetStateHeads DEF SameHeads, TypeInv
    <2>3. CASE Invalidate(c)
      <3>1. SetState(req[Cur(c)].seq, "INVALID") /\ "INVALID" \in States
        BY <2>3 DEF Invalidate, States
      <3>. QED  BY <2>1, <3>1, SetStateHeads DEF SameHeads, TypeInv
    <2>4. CASE LinkRequest(c)
      <3>1. req' = [req EXCEPT ![Cur(c)].pos = tail]
        BY <2>4 DEF LinkRequest
      <3>. QED  BY <1>1, <3>1 DEF TypeInv, TypeOK
    <2>5. CASE ~ (CommitRequest(c) \/ Invalidate(c) \/ LinkRequest(c))
      BY <2>5 DEF CallerStep, BumpSeq, SendFrame, SendFails, SeeCompleted,
         Timeout, Release, Finish
    <2>. QED  BY <2>2, <2>3, <2>4, <2>5
  <1>4. respBuf' = respBuf /\ toSlave' = toSlave
    BY DEF CallerStep, BumpSeq, LinkRequest, CommitRequest, SendFrame,
       SendFails, Invalidate, SeeCompleted, Timeout, Release, Finish
  <1>5. \A i \in Inst : ~ Misdelivered(i)'
    <2>1. \A i \in Inst : respBuf[i] # Unwritten => respBuf[i].of \in Inst
      BY DEF TypeInv, TypeOK, Answer
    <2>. QED  BY <1>3, <1>4, <2>1 DEF Exact, Misdelivered
  <1>6. \A i \in Inst \ {Cur(c)} : \A S : i \in At(S)' <=> i \in At(S)
    <2>1. \A i \in Inst : i # Cur(c) => i[1] \in Callers /\ (i[1] # c \/ i[2] # calls[c])
      BY InstPair DEF Cur
    <2>. QED  BY <1>1, <2>1 DEF At
  <1>7. \A S : /\ Cur(c) \in At(S) <=> pc[c] \in S
               /\ Cur(c) \in At(S)' <=> pc'[c] \in S
    BY <1>1 DEF At
  <1>8. \A i \in Unseen' : i \in Unseen \/ i = Cur(c)
    BY <1>3, <1>6 DEF Unseen, At
  <1>9. (\A x \in Due : x[1] \in Inst) /\ (\A w \in At({"wait"}) : w \in Inst)
    BY DueOf DEF At
  <1>10. CASE \/ BumpSeq(c) \/ LinkRequest(c) \/ CommitRequest(c)
              \/ SendFails(c) \/ Invalidate(c) \/ Release(c) \/ Finish(c)
    <2>1. toMaster' = toMaster /\ pc[c] # "wait"
      BY <1>10 DEF BumpSeq, LinkRequest, CommitRequest, SendFails,
         Invalidate, Release, Finish, Goto
    <2>2. Cur(c) \in Unseen' => Cur(c) \in Unseen
      <3>1. CASE LinkRequest(c)
        <4>1. req[Cur(c)].state = "NEW"
          BY <3>1 DEF FreshIsNew, LinkRequest, Goto
        <4>. QED  BY <1>1, <1>3, <4>1 DEF Unseen
      <3>2. CASE CommitRequest(c)
        BY <1>1, <1>3, <1>7, <3>2 DEF CommitRequest, Goto, Unseen
      <3>3. CASE ~ LinkRequest(c) /\ ~ CommitRequest(c)
        <4>1. pc'[c] \notin {"commit", "send", "wait"}
          BY <1>10, <3>3 DEF BumpSeq, SendFails, Invalidate, Release, Finish,
             Goto, TypeInv, TypeOK
        <4>. QED  BY <1>7, <4>1 DEF Unseen
      <3>. QED  BY <3>1, <3>2, <3>3
    <2>3. Unseen' \subseteq Unseen
      BY <1>8, <2>2
    <2>4. InFlight' = InFlight
      BY <1>4, <2>1 DEF InFlight
    <2>5. Due' \subseteq Due
      BY <2>3, <2>4 DEF Due
    <2>6. At({"wait"}) \subseteq At({"wait"})'
      BY <1>6, <1>7, <1>9, <2>1
    <2>7. Matched(Due, At({"wait"}), req)'
      BY <1>3, <1>9, <2>5, <2>6, ExactLess
    <2>. QED  BY <1>5, <2>7
  <1>11. CASE SendFrame(c)
    <2> DEFINE z == <<Cur(c), "frame">>
               W == At({"wait"})
    <2>1. /\ pc[c] = "send" /\ pc'[c] = "wait" /\ req' = req
      BY <1>11 DEF SendFrame, Goto, TypeInv, TypeOK
    <2>2. InFlight' \subseteq InFlight \cup {Cur(c)}
      <3> DEFINE m == [seq |-> req[Cur(c)].seq, id |-> req[Cur(c)].id,
                       of |-> Cur(c)]
      <3>1. toMaster' = Append(toMaster, m)
        BY <1>11 DEF SendFrame
      <3>2. m.of = Cur(c)
        OBVIOUS
      <3>. HIDE DEF m
      <3>3. /\ Len(toMaster') = Len(toMaster) + 1 /\ Len(toMaster) \in Nat
            /\ toMaster'[Len(toMaster) + 1] = m
            /\ \A k \in 1 .. Len(toMaster) : toMaster'[k] = toMaster[k]
        BY <3>1, FrameTypes, AppendFrames DEF TypeInv
      <3>4. \A k \in 1 .. Len(toMaster') :
               toMaster'[k].of = Cur(c)
                 \/ (k \in 1 .. Len(toMaster) /\ toMaster'[k] = toMaster[k])
        BY <3>2, <3>3
      <3>. QED  BY <1>4, <3>4 DEF InFlight
    <2>3. Cur(c) \notin InFlight
      BY <1>1, <2>1, DueOf DEF Past, Sent
    <2>4. Unseen' \subseteq Unseen
      BY <1>1, <1>7, <1>8, <2>1 DEF Unseen
    <2>5. Due' \subseteq Due \cup {z}
      BY <2>2, <2>4 DEF Due
    <2>6. z \notin Due /\ z[1] = Cur(c)
      BY <2>3 DEF Due
    <2>7. Cur(c) \notin W /\ W \cup {Cur(c)} \subseteq W'
      BY <1>6, <1>7, <1>9, <2>1
    <2>. HIDE DEF z, W
    <2>8. Matched(Due, W, req)
      BY DEF Exact, W
    <2>9. Matched(Due \cup {z}, W \cup {Cur(c)}, req)
      BY <2>6, <2>7, <2>8, MatchedMore
    <2>10. Matched(Due', W', req')
      BY <2>1, <2>5, <2>7, <2>9, MatchedLess
    <2>. QED  BY <1>5, <2>10 DEF W, Matched
  <1>12. CASE SeeCompleted(c)
    <2> DEFINE z == <<Cur(c), "done">>
               W == At({"wait"})
    <2>1. /\ pc[c] = "wait" /\ pc'[c] = "release" /\ req' = req
          /\ toMaster' = toMaster /\ req[Cur(c)].state = "COMPLETED"
      BY <1>12 DEF SeeCompleted, Goto, TypeInv, TypeOK
    <2>2. InFlight' = InFlight
      BY <1>4, <2>1 DEF InFlight
    <2>3. Unseen' \subseteq Unseen \ {Cur(c)} /\ Cur(c) \in Unseen
      BY <1>1, <1>7, <1>8, <2>1 DEF Unseen
    <2>4. Due' \subseteq Due \ {z} /\ z \in Due /\ z[1] = Cur(c)
      BY <2>2, <2>3 DEF Due
    <2>5. Cur(c) \in W /\ W \ {Cur(c)} \subseteq W'
      BY <1>6, <1>7, <1>9, <2>1
    <2>. HIDE DEF z, W
    <2>6. Matched(Due, W, req)
      BY DEF Exact, W
    <2>7. Matched(Due \ {z}, W \ {Cur(c)}, req)
      BY <2>4, <2>5, <2>6, MatchedFewer
    <2>8. Matched(Due', W', req')
      BY <2>1, <2>4, <2>5, <2>7, MatchedLess
    <2>. QED  BY <1>5, <2>8 DEF W, Matched
  <1>. QED  BY <1>2, <1>10, <1>11, <1>12 DEF CallerStep

LEMMA ExactSlaveRx ==
    ASSUME PlaceInv, Exact, SlaveRx, NoTimeout
    PROVE  /\ Matched(Due, At({"wait"}), req)'
           /\ \A i \in Inst : ~ Misdelivered(i)'
  <1> DEFINE m == Head(toSlave)
             o == m.ans.of
             hit == GetById(m.seq)
             z == <<o, "frame">>
             W == At({"wait"})
  <1>. USE DEF PlaceInv
  <1>1. /\ toSlave # <<>> /\ toSlave' = Tail(toSlave) /\ toMaster' = toMaster
        /\ calls' = calls /\ pc' = pc
    BY DEF SlaveRx
  <1>2. /\ m = toSlave[1] /\ 1 \in 1 .. Len(toSlave)
        /\ \A k \in 1 .. Len(toSlave') :
             k \in Nat /\ k + 1 \in 1 .. Len(toSlave) /\ toSlave'[k] = toSlave[k + 1]
    BY <1>1, FrameTypes, TailFrames DEF TypeInv
  <1>3. o \in Inst /\ m.seq = req[o].seq /\ o \in InFlight /\ z \in Due /\ z[1] = o
    BY <1>2, FrameTypes DEF Frames, InFlight, Due, TypeInv
  <1>4. InFlight' \subseteq InFlight \ {o}
    <2>1. \A k \in 1 .. Len(toMaster) : toMaster[k].of # o
      BY <1>2 DEF OneFrame
    <2>2. \A k \in 1 .. Len(toSlave') : toSlave'[k].ans.of # o
      <3>. SUFFICES ASSUME NEW k \in 1 .. Len(toSlave'), toSlave'[k].ans.of = o
                    PROVE  FALSE
        OBVIOUS
      <3>1. k + 1 \in 1 .. Len(toSlave) /\ toSlave'[k] = toSlave[k + 1] /\ k \in 1 .. Len(toSlave')
        BY <1>2
      <3>2. k + 1 = 1
        BY <1>2, <3>1 DEF OneFrame
      <3>. QED  BY <3>1, <3>2
    <2>. QED  BY <1>1, <1>2, <2>1, <2>2 DEF InFlight
  <1>5. Matched(Due, W, req)
    BY DEF Exact
  <1>6. /\ SameHeads
        /\ \A i \in Inst : respBuf'[i] = respBuf[i] \/ (i \in hit /\ respBuf'[i] = m.ans)
        /\ \A i \in Inst : req'[i].state # req[i].state => i \in hit
    BY SlaveRxHeads DEF TypeInv
  \* some caller waits with this number, and its request is linked
  <1>7. \E w \in W : req[w].seq = req[o].seq
    <2>. HIDE DEF W, z, o
    <2>. QED  BY <1>3, <1>5 DEF Matched
  <1>8. \E w \in reqList : req[w].seq = m.seq
    <2>1. PICK w \in W : req[w].seq = req[o].seq
      BY <1>7
    <2>2. w[1] \in Callers /\ pc[w[1]] = "wait" /\ w = Cur(w[1])
      BY <2>1, InstPair DEF At, Cur
    <2>3. w \in reqList
      BY <2>2 DEF OnList, Shared
    <2>. QED  BY <1>3, <2>1, <2>3
  <1>9. \A h \in hit : h \in reqList /\ req[h].seq = m.seq
    BY <1>8 DEF GetById
  <1>10. \A h, h2 \in hit : h = h2
    <2>1. \A h, h2 \in hit : req[h].pos <= req[h2].pos
      BY <1>8 DEF GetById
    <2>2. \A h \in hit : req[h].pos \in Nat
      BY <1>9 DEF TypeInv, TypeOK
    <2>3. \A h, h2 \in hit : req[h].pos = req[h2].pos
      <3>. HIDE DEF hit
      <3>. QED  BY <2>1, <2>2
    <2>. QED  BY <1>9, <2>3 DEF ListOrder
  <1>. HIDE DEF hit
  <1>11. \A i \in Unseen' : i \in Unseen \/ i \in hit
    BY <1>1, <1>6 DEF Unseen, At
  <1>12. \A i \in Inst : req'[i].seq = req[i].seq
    BY <1>6 DEF SameHeads
  <1>13. W' = W /\ \A w \in W : w \in Inst
    BY <1>1 DEF At
  <1>14. Matched(Due, At({"wait"}), req)'
    <2>1. CASE hit = {}
      <3>1. Unseen' \subseteq Unseen
        BY <1>11, <2>1
      <3>2. Due' \subseteq Due
        BY <1>4, <3>1 DEF Due
      <3>. QED  BY <1>12, <1>13, <3>2, ExactLess, DueOf
    <2>2. CASE hit # {}
      <3>1. PICK h \in hit : TRUE
        BY <2>2
      <3> DEFINE y == <<h, "done">>
      <3>2. Unseen' \subseteq Unseen \cup {h}
        BY <1>10, <1>11, <3>1
      <3>3. Due' \subseteq (Due \ {z}) \cup {y} /\ y[1] = h
        BY <1>4, <3>2 DEF Due
      <3>4. req[h].seq = req[o].seq
        BY <1>3, <1>9, <3>1
      <3>5. h \in Inst
        BY <1>9, <3>1 DEF TypeInv, TypeOK
      <3>6. \A x \in (Due \ {z}) \cup {y} : x[1] \in Inst
        BY <3>3, <3>5, DueOf
      <3>. HIDE DEF W, z, y, o
      <3>7. Matched((Due \ {z}) \cup {y}, W, req)
        BY <1>3, <1>5, <3>3, <3>4, MatchedSwap
      <3>8. Matched(Due', W', req')
        BY <1>12, <1>13, <3>3, <3>6, <3>7, MatchedLess
      <3>. QED  BY <3>8 DEF W, Matched
    <2>. QED  BY <2>1, <2>2
  <1>15. ASSUME NEW i \in Inst PROVE ~ Misdelivered(i)'
    <2>1. CASE i \in hit /\ respBuf'[i] = m.ans
      <3>1. req[i].seq = req[o].seq
        BY <1>3, <1>9, <2>1
      <3>. QED  BY <1>3, <1>12, <2>1, <3>1 DEF Misdelivered
    <2>2. CASE respBuf'[i] = respBuf[i]
      <3>1. respBuf[i] # Unwritten => respBuf[i].of \in Inst
        BY DEF TypeInv, TypeOK, Answer
      <3>. QED  BY <1>12, <2>2, <3>1 DEF Exact, Misdelivered
    <2>. QED  BY <1>6, <2>1, <2>2
  <1>. QED  BY <1>14, <1>15

LEMMA ExactWire ==
    ASSUME PlaceInv, Exact, NoTimeout,
           UNCHANGED vars \/ MasterServe \/ LoseRequest \/ LoseResponse
    PROVE  /\ Matched(Due, At({"wait"}), req)'
           /\ \A i \in Inst : ~ Misdelivered(i)'
  <1>. USE DEF PlaceInv
  <1>1. req' = req /\ respBuf' = respBuf /\ calls' = calls /\ pc' = pc
    BY DEF vars, MasterServe, LoseRequest, LoseResponse
  <1>2. InFlight' \subseteq InFlight
    <2>1. CASE UNCHANGED vars
      BY <2>1 DEF vars, InFlight
    <2>2. CASE LoseRequest \/ (MasterServe /\ toSlave' = toSlave)
      <3>1. toMaster # <<>> /\ toMaster' = Tail(toMaster) /\ toSlave' = toSlave
        BY <2>2 DEF LoseRequest, MasterServe
      <3>2. \A k \in 1 .. Len(toMaster') :
               k \in Nat /\ k + 1 \in 1 .. Len(toMaster) /\ toMaster'[k] = toMaster[k + 1]
        BY <3>1, FrameTypes, TailFrames DEF TypeInv
      <3>. QED  BY <3>1, <3>2 DEF InFlight
    <2>3. CASE LoseResponse
      <3>1. toSlave # <<>> /\ toSlave' = Tail(toSlave) /\ toMaster' = toMaster
        BY <2>3 DEF LoseResponse
      <3>2. \A k \in 1 .. Len(toSlave') :
               k \in Nat /\ k + 1 \in 1 .. Len(toSlave) /\ toSlave'[k] = toSlave[k + 1]
        BY <3>1, FrameTypes, TailFrames DEF TypeInv
      <3>. QED  BY <3>1, <3>2 DEF InFlight
    <2>4. CASE MasterServe /\ toSlave' # toSlave
      <3> DEFINE m == Head(toMaster)
                 r == [seq |-> m.seq,
                       ans |-> [id |-> m.id, of |-> m.of, len |-> RespLen[m.id]]]
      <3>1. toMaster # <<>> /\ toMaster' = Tail(toMaster)
            /\ toSlave' = Append(toSlave, r)
        BY <2>4 DEF MasterServe
      <3>2. r.ans.of = toMaster[1].of /\ 1 \in 1 .. Len(toMaster)
        BY <3>1, FrameTypes, TailFrames DEF TypeInv
      <3>3. \A k \in 1 .. Len(toMaster') :
               k \in Nat /\ k + 1 \in 1 .. Len(toMaster) /\ toMaster'[k] = toMaster[k + 1]
        BY <3>1, FrameTypes, TailFrames DEF TypeInv
      <3>. HIDE DEF r, m
      <3>4. /\ Len(toSlave) \in Nat /\ Len(toSlave') = Len(toSlave) + 1
            /\ toSlave'[Len(toSlave) + 1] = r
            /\ \A k \in 1 .. Len(toSlave) : toSlave'[k] = toSlave[k]
        BY <3>1, FrameTypes, AppendFrames DEF TypeInv
      <3>5. \A k \in 1 .. Len(toSlave') : k \in 1 .. Len(toSlave) \/ k = Len(toSlave) + 1
        BY <3>4
      <3>6. \A k \in 1 .. Len(toSlave') : toSlave'[k].ans.of \in InFlight
        BY <3>2, <3>4, <3>5 DEF InFlight
      <3>7. \A k \in 1 .. Len(toMaster') : toMaster'[k].of \in InFlight
        BY <3>3 DEF InFlight
      <3>. QED  BY <3>6, <3>7 DEF InFlight
    <2>. QED  BY <2>1, <2>2, <2>3, <2>4
  <1>3. Unseen' = Unseen /\ At({"wait"})' = At({"wait"})
    BY <1>1 DEF Unseen, At
  <1>4. Due' \subseteq Due
    BY <1>2, <1>3 DEF Due
  <1>5. Matched(Due, At({"wait"}), req)'
    BY <1>1, <1>3, <1>4, ExactLess
  <1>. QED  BY <1>1, <1>5 DEF Exact, Misdelivered

LEMMA MatchInit == ASSUME Init PROVE MatchInv
  <1>1. PlaceInv
    BY InitType DEF Init, PlaceInv, Linked, OnList, FreshIsNew, ListOrder, Frames,
       OneFrame, Buffers, TimedOut, Shared
  <1>2. Due = {}
    BY DEF Init, Due, InFlight, Unseen, At
  <1>3. Matched(Due, At({"wait"}), req)
    <2> DEFINE W == At({"wait"})
               f == [x \in {} |-> x]
    <2>1. f \in [{} -> W]
      OBVIOUS
    <2>. QED  BY <1>2, <2>1 DEF Matched
  <1>4. \A i \in Inst : ~ Misdelivered(i)
    BY DEF Init, Misdelivered
  <1>. QED  BY <1>1, <1>3, <1>4 DEF MatchInv, Exact

LEMMA MatchNext == ASSUME MatchInv, [Next]_vars PROVE MatchInv'
  <1>. USE DEF MatchInv
  <1>1. PlaceInv'
    BY PlaceNext
  <1>2. ASSUME NoTimeout'
        PROVE  /\ Matched(Due, At({"wait"}), req)'
               /\ \A i \in Inst : ~ Misdelivered(i)'
    <2>1. NoTimeout
      BY <1>2, TimeoutStays
    <2>. QED  BY <1>2, <2>1, ExactStart, ExactCaller, ExactSlaveRx, ExactWire DEF Next
  <1>. QED  BY <1>1, <1>2 DEF Exact

\* As long as no RPC times out, however the threads interleave, whatever the
\* wire drops and although two requests can have the same number, drawn in a
\* race or because the counter has wrapped, an answer is only ever stored for a
\* request with the number it carries.
THEOREM MatchIsExact == Spec => []MisdeliveryNeedsTimeout
  <1>1. Init => MatchInv
    BY MatchInit
  <1>2. MatchInv /\ [Next]_vars => MatchInv'
    BY MatchNext
  <1>3. MatchInv => MisdeliveryNeedsTimeout
    BY DEF MatchInv, Exact, NoTimeout, MisdeliveryNeedsTimeout
  <1>. QED  BY <1>1, <1>2, <1>3, PTL DEF Spec
=============================================================================
