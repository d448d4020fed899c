------------------------ MODULE DebotInterfacesProofs ------------------------
(***************************************************************************)
(* Proofs about DebotInterfaces, for every set of call slots, every number *)
(* of scripted inputs and every set of answerId arguments.                 *)
(***************************************************************************)
EXTENDS DebotInterfaces, TLAPS

\* A call consumes a scripted input only in the step that ends it.
PendingInv == \A s \in Slots : st[s] # "done" => got[s] = 0

\* The two halves of ScriptedInputsDelivered: every input before the
\* cursor was taken, and what each taking call did with its input.
Taken == \A i \in 1..(cursor - 1) : \E s \in Slots : got[s] = i

Delivered(s) ==
  got[s] # 0 =>
    /\ got[s] < cursor
    /\ req[s].iface \in {AddressInputId, AmountInputId}
    /\ \A t \in Slots \ {s} : got[t] # got[s]
    /\ \/ reply[s] = [kind |-> "answer", input |-> got[s],
                      aid |-> req[s].aid.val]
       \/ ~ValidAnswerId(req[s].aid) /\ reply[s] = ErrReply

DInv == TypeOK /\ PendingInv /\ Taken /\ \A s \in Slots : Delivered(s)

USE IdsAssumption, BoundsAssumption, AnswerArgsAssumption

\* The strengthening says what ScriptedInputsDelivered says.
LEMMA DInvDelivered == DInv => ScriptedInputsDelivered
  BY DEF DInv, Taken, Delivered, ScriptedInputsDelivered

LEMMA DInvInit == Init => DInv
<1> SUFFICES ASSUME Init PROVE DInv
  OBVIOUS
<1>1. TypeOK
  <2>1. (CHOOSE a \in AnswerArgs : TRUE) \in AnswerArgs
    BY AnswerArgsAssumption, Zenon
  <2>2. req \in [Slots -> [iface : Ids, aid : AnswerArgs]]
    BY <2>1 DEF Init, Ids
  <2>3. QED
    BY <2>2 DEF Init, TypeOK, Replies, NoReply
<1>2. PendingInv /\ Taken /\ \A s \in Slots : Delivered(s)
  BY DEF Init, PendingInv, Taken, Delivered
<1>3. QED
  BY <1>1, <1>2 DEF DInv

\* A step that leaves the processor, the requests and the replies of the
\* calls that took an input alone keeps Taken and Delivered.
LEMMA QuietStep ==
  ASSUME DInv, UNCHANGED <<cursor, got>>,
         \A s \in Slots : got[s] # 0 => req'[s] = req[s] /\ reply'[s] = reply[s]
  PROVE  Taken' /\ \A s \in Slots : Delivered(s)'
  BY DEF DInv, Taken, Delivered

LEMMA DInvNext == DInv /\ [Next]_vars => DInv'
<1> SUFFICES ASSUME DInv, [Next]_vars PROVE DInv'
  OBVIOUS
<1>0. TypeOK /\ PendingInv
  BY DEF DInv
<1>1. ASSUME NEW s \in Slots, Issue(s) PROVE DInv'
  <2>1. st[s] = "idle" /\ got[s] = 0
    BY <1>0, <1>1 DEF Issue, PendingInv
  <2>2. PICK id \in Ids, a \in AnswerArgs :
          req' = [req EXCEPT ![s] = [iface |-> id, aid |-> a]]
    BY <1>1 DEF Issue
  <2>3. TypeOK' /\ PendingInv'
    BY <1>0, <1>1, <2>2 DEF Issue, TypeOK, PendingInv
  <2>4. Taken' /\ \A t \in Slots : Delivered(t)'
    BY <1>0, <1>1, <2>1, <2>2, QuietStep DEF Issue, TypeOK
  <2>5. QED
    BY <2>3, <2>4 DEF DInv
<1>2. ASSUME NEW s \in Slots, CallPlain(s) PROVE DInv'
  <2>1. TypeOK' /\ PendingInv'
    BY <1>0, <1>2 DEF CallPlain, TypeOK, PendingInv
  <2>2. Taken' /\ \A t \in Slots : Delivered(t)'
    BY <1>2, QuietStep DEF CallPlain
  <2>3. QED
    BY <2>1, <2>2 DEF DInv
<1>3. ASSUME NEW s \in Slots, InnerReturns(s) PROVE DInv'
  <2>1. st[s] = "inner" /\ got[s] = 0
    BY <1>0, <1>3 DEF InnerReturns, PendingInv
  <2>2. PICK r \in {InnerReply, ErrReply} : reply' = [reply EXCEPT ![s] = r]
    BY <1>3 DEF InnerReturns
  <2>3. TypeOK' /\ PendingInv'
    BY <1>0, <1>3, <2>2 DEF InnerReturns, TypeOK, PendingInv, Replies,
                            InnerReply, ErrReply
  <2>4. Taken' /\ \A t \in Slots : Delivered(t)'
    BY <1>0, <1>3, <2>1, <2>2, QuietStep DEF InnerReturns, TypeOK
  <2>5. QED
    BY <2>3, <2>4 DEF DInv
<1>4. ASSUME NEW s \in Slots, BrowserCall(s) PROVE DInv'
  <2>1. st[s] = "issued" /\ got[s] = 0 /\ Registry[req[s].iface] = "browser"
        /\ UNCHANGED req
    BY <1>0, <1>4 DEF BrowserCall, PendingInv
  <2>2. req[s].iface \in {AddressInputId, AmountInputId}
    BY <1>0, <2>1 DEF Registry, Ids, TypeOK
  <2>3. CASE UNCHANGED <<cursor, got>> /\ st' = [st EXCEPT ![s] = "inner"]
             /\ UNCHANGED reply
    <3>1. TypeOK' /\ PendingInv'
      BY <1>0, <2>1, <2>3 DEF TypeOK, PendingInv
    <3>2. Taken' /\ \A t \in Slots : Delivered(t)'
      BY <2>1, <2>3, QuietStep
    <3>3. QED
      BY <3>1, <3>2 DEF DInv
  <2>4. CASE UNCHANGED <<cursor, got>> /\ st' = [st EXCEPT ![s] = "done"]
             /\ reply' = [reply EXCEPT ![s] = ErrReply]
    <3>1. TypeOK' /\ PendingInv'
      BY <1>0, <2>1, <2>4 DEF TypeOK, PendingInv, Replies, ErrReply
    <3>2. Taken' /\ \A t \in Slots : Delivered(t)'
      BY <1>0, <2>1, <2>4, QuietStep DEF TypeOK
    <3>3. QED
      BY <3>1, <3>2 DEF DInv
  <2>5. CASE /\ cursor <= MaxInputs /\ cursor' = cursor + 1
             /\ got' = [got EXCEPT ![s] = cursor]
             /\ st' = [st EXCEPT ![s] = "done"]
             /\ reply' = [reply EXCEPT ![s] =
                            IF AnswerIdOk(req[s].aid)
                              THEN ScriptedReply(s, cursor) ELSE ErrReply]
    <3>1. cursor \in 1..MaxInputs /\ req[s].aid \in AnswerArgs
      BY <1>0, <2>5 DEF TypeOK
    <3>2. reply'[s] \in Replies
      BY <1>0, <2>5, <3>1 DEF TypeOK, AnswerIdOk, ScriptedReply, Replies,
                              ErrReply
    <3>3. TypeOK' /\ PendingInv'
      BY <1>0, <2>1, <2>5, <3>1, <3>2 DEF TypeOK, PendingInv
    <3>4. Taken'
      <4>1. SUFFICES ASSUME NEW i \in 1..(cursor' - 1)
                     PROVE  \E t \in Slots : got'[t] = i
        BY DEF Taken
      <4>2. CASE i = cursor
        BY <1>0, <2>5, <4>2 DEF TypeOK
      <4>3. CASE i # cursor
        <5>1. i \in 1..(cursor - 1)
          BY <1>0, <2>5, <4>3 DEF TypeOK
        <5>2. PICK t \in Slots : got[t] = i
          BY <5>1 DEF DInv, Taken
        <5>3. t # s /\ got'[t] = i
          BY <1>0, <2>1, <2>5, <5>1, <5>2 DEF TypeOK
        <5>4. QED
          BY <5>3
      <4>4. QED
        BY <4>2, <4>3
    <3>5. Delivered(s)'
      <4>1. \A t \in Slots \ {s} : got[t] < cursor
        BY <1>0, <2>1 DEF DInv, Delivered, TypeOK
      <4>2. \/ reply'[s] = [kind |-> "answer", input |-> cursor,
                            aid |-> req[s].aid.val]
            \/ ~ValidAnswerId(req[s].aid) /\ reply'[s] = ErrReply
        BY <1>0, <2>5 DEF TypeOK, AnswerIdOk, ValidAnswerId, ScriptedReply
      <4>3. QED
        BY <1>0, <2>1, <2>2, <2>5, <3>1, <4>1, <4>2 DEF Delivered, TypeOK
    <3>6. ASSUME NEW t \in Slots \ {s} PROVE Delivered(t)'
      BY <1>0, <2>1, <2>5, <3>1 DEF DInv, Delivered, TypeOK
    <3>7. QED
      BY <3>3, <3>4, <3>5, <3>6 DEF DInv
  <2>6. QED
    BY <1>4, <2>3, <2>4, <2>5 DEF BrowserCall
<1>5. CASE UNCHANGED vars
  BY <1>5 DEF vars, DInv, TypeOK, PendingInv, Taken, Delivered
<1>6. QED
  BY <1>1, <1>2, <1>3, <1>4, <1>5 DEF Next

\* Whatever the interleaving of the engine's interface calls, every
\* scripted input the ManifestProcessor handed out went to exactly one
\* AddressInput or AmountInput call, which answered the DeBot with it at
\* its answerId unless that answerId is not a u32 (BrowserInterface::call,
\* dinterface.rs 105-114).
THEOREM ScriptedInputsDeliveredThm == Spec => []ScriptedInputsDelivered
  BY DInvInit, DInvNext, DInvDelivered, PTL DEF Spec

\* Every reachable state is well typed for every value of the constants;
\* in particular an answer reaches the DeBot only with an answerId that is
\* a u32, because decode_answer_id (dinterface.rs 119-127) rejects a value
\* past u32::MAX before BrowserInterface::call builds its Ok.
THEOREM TypeCorrect == Spec => []TypeOK
<1>1. DInv => TypeOK
  BY DEF DInv
<1>2. QED
  BY <1>1, DInvInit, DInvNext, PTL DEF Spec
=============================================================================
