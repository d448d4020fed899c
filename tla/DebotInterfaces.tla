--------------------------- MODULE DebotInterfaces ---------------------------
(***************************************************************************)
(* The interfaces evs-cli offers a DeBot (src/src/debot/interfaces/        *)
(* dinterface.rs).  SupportedInterfaces::new registers ten interfaces by   *)
(* their id; AddressInput and AmountInput are wrapped in a                 *)
(* BrowserInterface that first asks the shared ManifestProcessor (the      *)
(* scripted inputs of a pipechain) for the answer, under its write lock,   *)
(* and only when the processor has none calls the real interface.         *)
(*                                                                         *)
(* The DeBot engine may have several interface calls under way: the        *)
(* interfaces are Send + Sync and their call is async.  Each call slot     *)
(* below is one such call.  The processor's next_input is not in this      *)
(* source: it is modelled as a cursor over the scripted inputs that either *)
(* hands out the next input, asks for the real interface, or fails.        *)
(***************************************************************************)
EXTENDS Naturals

CONSTANTS
  AddressInputId,  \* id of the AddressInput interface
  AmountInputId,   \* id of the AmountInput interface
  OtherIds,        \* ids of the eight other interfaces of new()
  Slots,           \* interface calls the engine makes
  MaxInputs,       \* scripted inputs in the pipechain
  U32Max,          \* largest value of a u32
  AnswerArgs       \* the args["answerId"] values a DeBot may send

ASSUME IdsAssumption ==
  /\ AddressInputId # AmountInputId
  /\ OtherIds \cap {AddressInputId, AmountInputId} = {}
ASSUME BoundsAssumption == MaxInputs \in Nat /\ U32Max \in Nat
\* An answerId argument: absent or not a string (str = FALSE), else a
\* string with an optional sign, whether the rest is a non-empty run of
\* decimal digits, and the value of those digits.
ASSUME AnswerArgsAssumption ==
  /\ AnswerArgs # {}
  /\ AnswerArgs \subseteq [str : BOOLEAN, sign : {"none", "plus", "minus"},
                           digits : BOOLEAN, val : Nat]

VARIABLES
  cursor,  \* next scripted input of the ManifestProcessor (1-based)
  st,      \* per call: "idle", "issued", "inner" (awaiting the real
           \* interface) or "done"
  req,     \* per call: the interface id and the answerId argument
  got,     \* per call: the scripted input it consumed, or 0
  reply    \* per call: what the interface returned to the engine

vars == <<cursor, st, req, got, reply>>

Ids == {AddressInputId, AmountInputId} \cup OtherIds

\* What a call returned to the engine: nothing yet, an error, the real
\* interface's answer, or a scripted input sent to an answerId.
Replies == [kind : {"none", "err", "inner", "answer"}, input : 0..MaxInputs,
            aid : 0..U32Max]

NoReply == [kind |-> "none", input |-> 0, aid |-> 0]
ErrReply == [kind |-> "err", input |-> 0, aid |-> 0]
InnerReply == [kind |-> "inner", input |-> 0, aid |-> 0]

-----------------------------------------------------------------------------
\* Mutant: every interface of new() is wrapped in a BrowserInterface.
RegistryAllWrapped == [i \in Ids |-> "browser"]

\* SupportedInterfaces::new (lines 44-82) with InterfaceWrapper::wrap
\* (35-42): the map from id to interface; the AddressInput and AmountInput
\* entries are BrowserInterfaces over the shared processor.
Registry ==
  [i \in Ids |-> IF i \in {AddressInputId, AmountInputId} THEN "browser"
                                                          ELSE "plain"]

\* Mutant: the answerId is parsed with no check against u32::MAX.
AnswerIdOkNoBound(a) == a.str /\ a.sign \in {"none", "plus"} /\ a.digits

\* decode_answer_id (lines 119-127): args["answerId"].as_str(), then
\* u32::from_str_radix(.., 10), which takes an optional "+" and rejects
\* "-", an empty digit run and a value past u32::MAX.
AnswerIdOk(a) == a.str /\ a.sign \in {"none", "plus"} /\ a.digits /\ a.val <= U32Max

\* Mutant: the scripted params are dropped, the DeBot gets json!({}).
ScriptedReplyEmpty(s, i) ==
  [kind |-> "answer", input |-> 0, aid |-> req[s].aid.val]

\* Ok((answer_id, params.unwrap_or(json!({})))) of line 112: the answer
\* carries the scripted input i to the DeBot's answerId.
ScriptedReply(s, i) ==
  [kind |-> "answer", input |-> i, aid |-> req[s].aid.val]

\* The engine calls interface id with an answerId argument.
Issue(s) ==
  /\ st[s] = "idle"
  /\ \E id \in Ids, a \in AnswerArgs :
       req' = [req EXCEPT ![s] = [iface |-> id, aid |-> a]]
  /\ st' = [st EXCEPT ![s] = "issued"]
  /\ UNCHANGED <<cursor, got, reply>>

\* An interface that is not wrapped is the real one: the engine's call
\* goes straight to it.
CallPlain(s) ==
  /\ st[s] = "issued"
  /\ Registry[req[s].iface] = "plain"
  /\ st' = [st EXCEPT ![s] = "inner"]
  /\ UNCHANGED <<cursor, req, got, reply>>

\* BrowserInterface::call, lines 105-114, up to the await of the inner
\* call: next_input under the processor's write lock (line 106), then the
\* match.  A scripted input is consumed before decode_answer_id runs.
BrowserCall(s) ==
  /\ st[s] = "issued"
  /\ Registry[req[s].iface] = "browser"
  /\ \/ /\ st' = [st EXCEPT ![s] = "inner"]            \* InterfaceCallNeeded
        /\ UNCHANGED <<cursor, got, reply>>
     \/ /\ st' = [st EXCEPT ![s] = "done"]             \* Err(e)
        /\ reply' = [reply EXCEPT ![s] = ErrReply]
        /\ UNCHANGED <<cursor, got>>
     \/ /\ cursor <= MaxInputs                          \* Ok(params)
        /\ cursor' = cursor + 1
        /\ got' = [got EXCEPT ![s] = cursor]
        /\ st' = [st EXCEPT ![s] = "done"]
        /\ reply' = [reply EXCEPT ![s] =
                       IF AnswerIdOk(req[s].aid) THEN ScriptedReply(s, cursor)
                                                 ELSE ErrReply]
  /\ UNCHANGED req

\* The real interface answers (self.inner_interface.call(..).await, line
\* 108), with its own answer or its own error.
InnerReturns(s) ==
  /\ st[s] = "inner"
  /\ st' = [st EXCEPT ![s] = "done"]
  /\ reply' \in {[reply EXCEPT ![s] = r] : r \in {InnerReply, ErrReply}}
  /\ UNCHANGED <<cursor, req, got>>

Init ==
  /\ cursor = 1
  /\ st = [s \in Slots |-> "idle"]
  /\ req = [s \in Slots |-> [iface |-> AddressInputId,
                             aid |-> CHOOSE a \in AnswerArgs : TRUE]]
  /\ got = [s \in Slots |-> 0]
  /\ reply = [s \in Slots |-> NoReply]

Next == \E s \in Slots : Issue(s) \/ CallPlain(s) \/ BrowserCall(s)
                         \/ InnerReturns(s)

Spec == Init /\ [][Next]_vars

-----------------------------------------------------------------------------
\* Every variable holds a value of its type.
TypeOK ==
  /\ cursor \in 1..(MaxInputs + 1)
  /\ st \in [Slots -> {"idle", "issued", "inner", "done"}]
  /\ req \in [Slots -> [iface : Ids, aid : AnswerArgs]]
  /\ got \in [Slots -> 0..MaxInputs]
  /\ reply \in [Slots -> Replies]

\* The reference for a DeBot's answerId: an unsigned 32-bit function id
\* written in decimal, with no sign.
ValidAnswerId(a) == a.str /\ a.sign = "none" /\ a.digits /\ a.val <= U32Max

\* Scripted inputs of the pipechain are handed out once each, and only to
\* AddressInput and AmountInput calls, whatever the interleaving
\* of the engine's calls: every input before the processor's cursor went
\* to exactly one call, and that call answered the DeBot with it at the
\* answerId the DeBot gave, unless that answerId does not decode.
ScriptedInputsDelivered ==
  /\ \A i \in 1..(cursor - 1) : \E s \in Slots : got[s] = i
  /\ \A s \in Slots : got[s] # 0 =>
       /\ got[s] < cursor
       /\ req[s].iface \in {AddressInputId, AmountInputId}
       /\ \A t \in Slots \ {s} : got[t] # got[s]
       /\ \/ reply[s] = [kind |-> "answer", input |-> got[s],
                         aid |-> req[s].aid.val]
          \/ ~ValidAnswerId(req[s].aid) /\ reply[s] = ErrReply
=============================================================================
