------------------------- MODULE CallRefinementProofs -------------------------
(***************************************************************************)
(* The safety part of the refinement of CallOutcome by Call, for every     *)
(* value of the constants: every step of the task or of the ledger is a    *)
(* step of CallOutcome under the mapping of CallRefinement, or leaves the  *)
(* mapped state alone.  The argument rests on the inductive invariant of   *)
(* CallProofs, in the state before the step and in the state after it.     *)
(***************************************************************************)
EXTENDS CallRefinement, CallProofs

\* A step in which the task returns is a Return of CallOutcome when it
\* hands over the message only where CallOutcome allows it and the message
\* does not un-lapse.
LEMMA ReturnStep ==
  ASSUME IInv, IInv', pc # "done", pc' = "done", UNCHANGED inp,
         net' \in Abs!MaySubmit, Lapsed => Lapsed', result' # "none"
  PROVE  Abs!Return
  <1>1. result' \in Abs!Answers
    BY DEF IInv, TypeOK, Results, Abs!Answers
  <1>2. Abs!Agrees(result)'
    BY DEF IInv, ResultMatchesLedger, Abs!Agrees, Lapsed
  <1>3. replay' # "none" => result' = "ExecErr"
    BY DEF IInv, ReplayInv
  <1>4. Lapsed' \in {Lapsed, TRUE}
    BY DEF Lapsed
  <1>5. QED
    BY <1>1, <1>2, <1>3, <1>4 DEF Abs!Return

\* A step that neither returns nor touches what CallOutcome sees is a
\* stutter of it.
LEMMA StutterStep ==
  ASSUME (pc = "done") = (pc' = "done"),
         UNCHANGED <<inp, net, result>>, (replay # "none") = (replay' # "none"),
         Lapsed' = Lapsed
  PROVE  UNCHANGED Abs!avars
  BY DEF Abs!avars
\* A message CallOutcome already has stays allowed by MaySubmit.
LEMMA NetMaySubmit == net \in Abs!MaySubmit
  BY DEF Abs!MaySubmit

-----------------------------------------------------------------------------
USE AccStatesAssumption, FailingAssumption, LifetimeAssumption,
    ClockAssumption, MaxOtherTxAssumption, NoDumpAssumption

\* The mapping takes the initial states of the call to initial states of
\* CallOutcome.
LEMMA RefInit == Init => Abs!Init
  BY DEF Init, Abs!Init, Lapsed, EntryFlags, Flags

\* Every step of the task or the ledger maps to a step of CallOutcome or
\* to a stutter.
LEMMA RefNext == IInv /\ IInv' /\ [Next]_vars => [Abs!Next]_Abs!avars
<1> SUFFICES ASSUME IInv, IInv', [Next]_vars PROVE [Abs!Next]_Abs!avars
  OBVIOUS
<1>. USE DEF ledgerVars
<1>1. CASE ComposeMessage
  <2>1. /\ pc = "start" /\ net = "none" /\ replay = "none"
        /\ UNCHANGED <<inp, net, replay, clock>>
        /\ expire' = Seconds(clock) + Lifetime
    BY <1>1 DEF ComposeMessage, IInv, StartInv
  <2>2. ~Lapsed /\ ~Lapsed'
    BY <2>1, SecondsNat DEF Lapsed, IInv, TypeOK
  <2>3. CASE pc' = "done"
    <3>1. result' = "EncodingErr"
      BY <1>1, <2>3 DEF ComposeMessage, Finish, AfterMessage, AfterEncode
    <3>2. QED
      BY <2>1, <2>2, <2>3, <3>1, NetMaySubmit, ReturnStep DEF Abs!Next
  <2>4. CASE pc' # "done"
    <3>1. UNCHANGED result
      BY <1>1, <2>4 DEF ComposeMessage, Finish
    <3>2. QED
      BY <2>1, <2>2, <2>4, <3>1, StutterStep DEF Lapsed
  <2>5. QED
    BY <2>3, <2>4
<1>2. CASE LoadMessage
  <2>1. /\ pc = "start" /\ net = "none" /\ replay = "none" /\ ~Lapsed
        /\ UNCHANGED <<inp, net, replay, clock>>
    BY <1>2 DEF LoadMessage, IInv, StartInv, Lapsed
  <2>2. CASE pc' = "done"
    <3>1. result' = "EncodingErr"
      BY <1>2, <2>2 DEF LoadMessage, Finish
    <3>2. QED
      BY <2>1, <2>2, <3>1, NetMaySubmit, ReturnStep DEF Abs!Next
  <2>3. CASE pc' # "done"
    <3>1. UNCHANGED result
      BY <1>2, <2>3 DEF LoadMessage, Finish
    <3>2. CASE Lapsed'
      BY <2>1, <2>3, <3>1, <3>2 DEF Abs!Next, Abs!Lapse
    <3>3. CASE ~Lapsed'
      BY <2>1, <2>3, <3>1, <3>3, StutterStep DEF Lapsed
    <3>4. QED
      BY <3>2, <3>3
  <2>4. QED
    BY <2>2, <2>3
<1>3. CASE EmulateLocally
  <2>1. /\ pc = "emulate" /\ pc' # "start"
        /\ UNCHANGED <<inp, net, replay, clock, expire>>
    BY <1>3 DEF EmulateLocally, AfterEmulation, AfterEncode, Finish
  <2>2. Lapsed' = Lapsed
    BY <2>1 DEF Lapsed
  <2>3. CASE pc' = "done"
    <3>1. result' # "none"
      BY <1>3, <2>3 DEF EmulateLocally, AfterEmulation, AfterEncode, Finish
    <3>2. QED
      BY <2>1, <2>2, <2>3, <3>1, NetMaySubmit, ReturnStep DEF Abs!Next
  <2>4. CASE pc' # "done"
    <3>1. UNCHANGED result
      BY <1>3, <2>4 DEF EmulateLocally, AfterEmulation, AfterEncode, Finish
    <3>2. QED
      BY <2>1, <2>2, <2>4, <3>1, StutterStep DEF Lapsed
  <2>5. QED
    BY <2>3, <2>4
<1>4. CASE SendMessageAndWait
  <2>1. /\ pc = "send" /\ net = "none" /\ ~inp.is_fee
        /\ UNCHANGED <<inp, replay, clock, expire>>
    BY <1>4 DEF SendMessageAndWait, IInv, NetInv, FeeInv
  <2>2. pc' # "start"
    BY <1>4 DEF SendMessageAndWait, Finish
  <2>3. Lapsed' = Lapsed
    BY <2>1, <2>2 DEF Lapsed
  <2>4. CASE pc' = "done"
    <3>1. result' # "none" /\ net' \in {"none", "pending"}
      BY <1>4, <2>1, <2>4 DEF SendMessageAndWait, Finish
    <3>2. net' \in Abs!MaySubmit
      BY <2>1, <3>1 DEF Abs!MaySubmit
    <3>3. QED
      BY <2>1, <2>3, <2>4, <3>1, <3>2, ReturnStep DEF Abs!Next
  <2>5. CASE pc' # "done"
    <3>1. UNCHANGED result /\ net' = "pending"
      BY <1>4, <2>5 DEF SendMessageAndWait, Finish
    <3>2. QED
      BY <2>1, <2>3, <2>5, <3>1 DEF Abs!Next, Abs!Submit
  <2>6. QED
    BY <2>4, <2>5
<1>5. CASE WaitSentMessage
  <2>1. /\ pc = "sendwait" /\ pc' = "done" /\ result' # "none"
        /\ UNCHANGED <<inp, net, replay, clock, expire>>
    BY <1>5 DEF WaitSentMessage, TxOutcome, Finish
  <2>2. Lapsed' = Lapsed
    BY <2>1 DEF Lapsed
  <2>3. QED
    BY <2>1, <2>2, NetMaySubmit, ReturnStep DEF Abs!Next
<1>6. CASE CaptureDump
  <2>1. /\ pc = "dump" /\ pc' \in {"process", "done"}
        /\ UNCHANGED <<inp, net, replay, clock, expire>>
    BY <1>6 DEF CaptureDump, Finish
  <2>2. Lapsed' = Lapsed
    BY <2>1 DEF Lapsed
  <2>3. CASE pc' = "done"
    <3>1. result' # "none"
      BY <1>6, <2>3 DEF CaptureDump, Finish
    <3>2. QED
      BY <2>1, <2>2, <2>3, <3>1, NetMaySubmit, ReturnStep DEF Abs!Next
  <2>4. CASE pc' # "done"
    <3>1. UNCHANGED result
      BY <1>6, <2>4 DEF CaptureDump, Finish
    <3>2. QED
      BY <2>1, <2>2, <2>4, <3>1, StutterStep DEF Lapsed
  <2>5. QED
    BY <2>3, <2>4
<1>7. CASE ProcessMessage
  <2>1. /\ pc = "process" /\ pc' \in {"finish", "wait"}
        /\ net = "none" /\ ~inp.is_fee /\ net' \in {"none", "pending"}
        /\ UNCHANGED <<inp, replay, result, clock, expire>>
    BY <1>7 DEF ProcessMessage, IInv, NetInv, FeeInv
  <2>2. Lapsed' = Lapsed
    BY <2>1 DEF Lapsed
  <2>3. CASE net' = "none"
    BY <2>1, <2>2, <2>3, StutterStep
  <2>4. CASE net' = "pending"
    BY <2>1, <2>2, <2>4 DEF Abs!Next, Abs!Submit
  <2>5. QED
    BY <2>1, <2>3, <2>4
<1>8. CASE WaitForTransaction
  <2>1. /\ pc = "wait" /\ pc' = "finish"
        /\ UNCHANGED <<inp, net, replay, result, clock, expire>>
    BY <1>8 DEF WaitForTransaction
  <2>2. Lapsed' = Lapsed
    BY <2>1 DEF Lapsed
  <2>3. QED
    BY <2>1, <2>2, StutterStep
<1>9. CASE DebugReplay
  <2>1. /\ pc = "finish" /\ pc' = "done"
        /\ UNCHANGED <<inp, net, clock, expire>>
    BY <1>9 DEF DebugReplay, Finish
  <2>2. result' # "none"
    <3>1. res # "none"
      BY <2>1 DEF IInv, ResSetInv
    <3>2. QED
      BY <1>9, <3>1 DEF DebugReplay, Finish, CallResult
  <2>3. Lapsed' = Lapsed
    BY <2>1 DEF Lapsed
  <2>4. QED
    BY <2>1, <2>2, <2>3, NetMaySubmit, ReturnStep DEF Abs!Next
<1>10. CASE Tick
  <2>1. /\ pc # "start" /\ Seconds(clock) <= expire
        /\ UNCHANGED <<inp, pc, net, replay, result, expire>>
    BY <1>10 DEF Tick, clientVars
  <2>2. ~Lapsed
    BY <2>1, SecondsNat DEF Lapsed, IInv, TypeOK
  <2>3. CASE Lapsed'
    BY <2>1, <2>2, <2>3 DEF Abs!Next, Abs!Lapse
  <2>4. CASE ~Lapsed'
    BY <2>1, <2>2, <2>4, StutterStep DEF Lapsed
  <2>5. QED
    BY <2>3, <2>4
<1>11. CASE OtherTx
  <2>1. UNCHANGED <<inp, pc, net, replay, result, expire, clock>>
    BY <1>11 DEF OtherTx, clientVars
  <2>2. QED
    BY <2>1, StutterStep DEF Lapsed
<1>12. CASE Execute
  <2>1. /\ net = "pending" /\ Seconds(clock) <= expire
        /\ net' \in {"ok", "failed"}
        /\ UNCHANGED <<inp, pc, replay, result, expire, clock>>
    BY <1>12 DEF Execute, clientVars
  <2>2. ~Lapsed /\ ~Lapsed'
    BY <2>1, SecondsNat DEF Lapsed, IInv, TypeOK
  <2>3. QED
    BY <2>1, <2>2 DEF Abs!Next, Abs!Execute, Lapsed
<1>13. CASE UNCHANGED vars
  <2>1. UNCHANGED <<inp, pc, net, replay, result, expire, clock>>
    BY <1>13 DEF vars, clientVars, ledgerVars
  <2>2. QED
    BY <2>1, StutterStep DEF Lapsed
<1>14. QED
  BY <1>1, <1>2, <1>3, <1>4, <1>5, <1>6, <1>7, <1>8, <1>9, <1>10, <1>11,
     <1>12, <1>13 DEF Next, Client, Ledger

\* Call implements the safety part of CallOutcome: every behaviour of the
\* task and its ledger, mapped by CallRefinement, starts in an initial state
\* of CallOutcome and moves only by its steps.  Together with the TLC run of
\* Refinement, which adds the fairness, this is the refinement.
THEOREM RefinementSafety == Spec => Abs!Init /\ [][Abs!Next]_Abs!avars
  <1>1. Init => Abs!Init
    BY RefInit
  <1>2. [][Next]_vars /\ []IInv => [][Abs!Next]_Abs!avars
    <2>1. IInv /\ IInv' /\ [Next]_vars => [Abs!Next]_Abs!avars
      BY RefNext
    <2>2. QED
      BY <2>1, PTL
  <1>3. QED
    BY <1>1, <1>2, IInvInvariant, PTL DEF Spec
=============================================================================
