----------------------------- MODULE CallProofs -----------------------------
(***************************************************************************)
(* Proofs about Call, for every value of its constants.                    *)
(***************************************************************************)
EXTENDS Call, TLAPS

(***************************************************************************)
(* The inductive invariant.  FeeNeverSubmits and ReplayWithinExpiry are    *)
(* not inductive by themselves: a fee estimation stays out of the          *)
(* submitting states, the ledger has nothing of ours before the task       *)
(* submits, the dump's time never runs ahead of the clock, and an          *)
(* execution error was reported only for a message the ledger executed.    *)
(***************************************************************************)

\* A fee estimation never leaves composition and emulation.
FeeInv == inp.is_fee => pc \in {"start", "emulate", "done"} /\ net = "none"

\* Before the first await the task has no dump, no message out, no replay.
StartInv == pc = "start" => dump = NoDump /\ net = "none" /\ replay = "none"

\* Nothing of ours is on the ledger until the task submits.
NetInv == pc \in {"start", "emulate", "send", "dump", "process"} => net = "none"

\* The dump's time was read from the clock.
DumpClockInv == dump # NoDump => dump.now <= clock

\* The dump precedes the execution, which precedes expire.
DumpExecInv ==
  dump # NoDump /\ net \in {"ok", "failed"} => Seconds(dump.now) <= expire

\* An execution error was read from an executed, aborted message.
ResInv == res = "ExecErr" => net = "failed"

\* A success was read from a message the ledger executed successfully.
ResOkInv == res = "Ok" => net = "ok"

\* The wait gave up only on a message still pending past its expire; the
\* ledger no longer executes it.
ExpiredInv == res = "Expired" => net = "pending" /\ Seconds(clock) > expire

\* The ledger-dependent results call_contract_with_client returns are
\* process_message's.
ResultInv ==
  ~inp.with_msg /\ result \in {"Ok", "ExecErr", "Expired"} => result = res

\* The two entry points keep to their own steps: a prepared message is
\* sent and waited for; call_contract_with_client sends only with
\* async_call.
SendInv ==
  /\ pc = "sendwait" => inp.with_msg
  /\ pc = "send" => inp.with_msg \/ inp.async_call
  /\ pc \in {"emulate", "dump", "process", "wait", "finish"} => ~inp.with_msg

\* A replay is the last step of a debug_fail call that failed on the ledger.
ReplayInv ==
  replay # "none" =>
    pc = "done" /\ ~inp.with_msg /\ inp.debug_fail /\ result = "ExecErr"

\* Such a call always ends with a replay.
DoneInv ==
  pc = "done" /\ ~inp.with_msg /\ inp.debug_fail /\ result = "ExecErr"
    => replay # "none"

\* Emulation, the async send and the dump come after the encoding; the dump
\* is reached only under debug_fail.
MsgInv == /\ pc \in {"emulate", "send", "dump"} => message = "Some"
          /\ pc = "dump" => inp.debug_fail

\* Under debug_fail, the task submits only after the dump was taken.
DumpInv == inp.debug_fail /\ pc \in {"process", "wait", "finish"} => dump # NoDump

\* process_message never panics: its result is never a Panic.
ResPanicInv == res # "Panic"

\* process_message has answered by the time the closing check runs.
ResSetInv == pc = "finish" => res # "none"

IInv == /\ TypeOK
        /\ FeeInv
        /\ StartInv
        /\ NetInv
        /\ DumpClockInv
        /\ DumpExecInv
        /\ ResInv
        /\ ResOkInv
        /\ ExpiredInv
        /\ ResultInv
        /\ ReplayWithinExpiry
        /\ MsgInv
        /\ DumpInv
        /\ ResPanicInv
        /\ ResSetInv
        /\ NoPanic
        /\ SendInv
        /\ ReplayInv
        /\ DoneInv
        /\ ResultMatchesLedger

-----------------------------------------------------------------------------
(***************************************************************************)
(* Lemmas on the conversion from milliseconds to seconds.                  *)
(***************************************************************************)

\* now() / 1000 of a clock reading is a natural number.
LEMMA SecondsNat == ASSUME NEW m \in Nat PROVE Seconds(m) \in Nat
  BY DEF Seconds

\* A later clock reading is never an earlier second.
LEMMA SecondsMono == ASSUME NEW a \in Nat, NEW b \in Nat, a <= b
                     PROVE  Seconds(a) <= Seconds(b)
  BY DEF Seconds

-----------------------------------------------------------------------------
USE AccStatesAssumption, FailingAssumption, LifetimeAssumption,
    ClockAssumption, MaxOtherTxAssumption, NoDumpAssumption

\* The call starts in a state of the invariant.
LEMMA InitIInv == Init => IInv
<1> SUFFICES ASSUME Init PROVE IInv
  OBVIOUS
<1>1. TypeOK
  <2>1. inp \in EntryFlags /\ pc \in PCs /\ expire \in Nat
        /\ message \in {"None", "Some"}
    BY DEF Init, PCs
  <2>2. /\ emulated \in AccStates \cup {EmptyAcc, Absent}
        /\ emuSeen \in AccStates \cup {Absent}
        /\ dump \in [acc : AccStates, now : Nat] \cup {NoDump}
    BY DEF Init
  <2>3. /\ res \in Results /\ result \in Results
        /\ replay \in {"none", "finished", "failed"} /\ replayAt \in Nat
    BY DEF Init, Results
  <2>4. /\ clock \in Nat /\ acc \in AccStates \cup {Absent}
        /\ net \in NetStates /\ execAcc \in AccStates \cup {Absent}
        /\ otherTx \in 0..MaxOtherTx
    BY DEF Init, NetStates
  <2>5. QED
    BY <2>1, <2>2, <2>3, <2>4 DEF TypeOK
<1>2. FeeInv /\ StartInv /\ NetInv /\ ResInv /\ ReplayWithinExpiry
  BY DEF Init, FeeInv, StartInv, NetInv, ResInv, ReplayWithinExpiry
<1>5. ResOkInv /\ ExpiredInv /\ ResultInv
  BY DEF Init, ResOkInv, ExpiredInv, ResultInv
<1>6. MsgInv /\ DumpInv /\ ResPanicInv /\ ResSetInv /\ NoPanic
  BY DEF Init, MsgInv, DumpInv, ResPanicInv, ResSetInv, NoPanic
<1>3. DumpClockInv /\ DumpExecInv
  BY DEF Init, DumpClockInv, DumpExecInv
<1>7. SendInv /\ ReplayInv /\ DoneInv /\ ResultMatchesLedger
  BY DEF Init, SendInv, ReplayInv, DoneInv, ResultMatchesLedger
<1>4. QED
  BY <1>1, <1>2, <1>3, <1>5, <1>6, <1>7 DEF IInv

\* Every step of the task or of the ledger keeps the invariant.
LEMMA NextIInv == IInv /\ [Next]_vars => IInv'
<1> SUFFICES ASSUME IInv, [Next]_vars PROVE IInv'
  OBVIOUS
<1>. USE DEF IInv, TypeOK, Flags, Results, PCs, NetStates, FeeInv, StartInv,
             NetInv, DumpClockInv, DumpExecInv, ResInv, ResOkInv, ExpiredInv,
             ResultInv, ReplayWithinExpiry, MsgInv, DumpInv, ResPanicInv,
             ResSetInv, NoPanic, SendInv, ReplayInv, DoneInv, ResultMatchesLedger,
             EntryFlags, clientVars, ledgerVars
<1>1. CASE ComposeMessage
  BY <1>1, SecondsNat DEF ComposeMessage, Finish, NeedsEncodedMsg, AfterMessage,
                          AfterEncode
<1>2. CASE EmulateLocally
  BY <1>2 DEF EmulateLocally, Finish, AfterEmulation, AfterEncode, ExecFails
<1>3. CASE SendMessageAndWait
  <2>1. pc = "send" /\ net = "none" /\ replay = "none"
    BY <1>3 DEF SendMessageAndWait
  <2>2. UNCHANGED <<inp, expire, message, emulated, emuSeen, dump, res, replay,
                    replayAt, clock, acc, execAcc, otherTx>>
    BY <1>3 DEF SendMessageAndWait
  <2>3. \/ net' = "pending" /\ inp.async_call /\ pc' = "done"
           /\ result' = "OkEmpty"
        \/ net' = "pending" /\ ~inp.async_call /\ pc' = "sendwait"
           /\ result' = result
        \/ net' \in {"none", "pending"} /\ pc' = "done"
           /\ result' = "TransportErr"
    BY <1>3, <2>1 DEF SendMessageAndWait, Finish
  <2>4. QED
    BY <2>1, <2>2, <2>3
<1>4. CASE CaptureDump
  <2>1. pc = "dump" /\ message = "Some" /\ inp.debug_fail
    BY <1>4 DEF CaptureDump
  <2>2. \/ /\ pc' = "done" /\ result' = "TransportErr" /\ dump' = dump
        \/ /\ pc' = "process" /\ result' = result
           /\ dump' = [acc |-> acc, now |-> clock] /\ acc \in AccStates
    BY <1>4, <2>1 DEF CaptureDump, Finish, DumpQueryOk
  <2>3. UNCHANGED <<inp, expire, message, emulated, emuSeen, res, replay,
                    replayAt, clock, acc, net, execAcc, otherTx>>
    BY <1>4 DEF CaptureDump
  <2>4. CASE pc' = "done" /\ result' = "TransportErr" /\ dump' = dump
    BY <2>1, <2>3, <2>4
  <2>5. CASE /\ pc' = "process" /\ result' = result
             /\ dump' = [acc |-> acc, now |-> clock] /\ acc \in AccStates
    <3>1. dump' \in [acc : AccStates, now : Nat]
      BY <2>5
    <3>2. dump' # NoDump
      BY <3>1, NoDumpAssumption
    <3>3. dump'.now <= clock'
      BY <2>3, <2>5
    <3>4. QED
      BY <2>1, <2>3, <2>5, <3>1, <3>2, <3>3
  <2>6. QED
    BY <2>2, <2>4, <2>5
<1>5. CASE ProcessMessage
  BY <1>5 DEF ProcessMessage
<1>6. CASE WaitForTransaction
  <2>1. /\ pc = "wait" /\ pc' = "finish"
        /\ \/ net = "ok" /\ res' = "Ok"
           \/ net = "failed" /\ res' = "ExecErr"
           \/ net = "pending" /\ Seconds(clock) > expire /\ res' = "Expired"
    BY <1>6 DEF WaitForTransaction, TxOutcome, GivesUp
  <2>2. UNCHANGED <<inp, expire, message, emulated, emuSeen, dump, replay,
                    replayAt, result, clock, acc, net, execAcc, otherTx>>
    BY <1>6 DEF WaitForTransaction
  <2>3. QED
    BY <2>1, <2>2
<1>7. CASE DebugReplay
  <2>1. pc = "finish" /\ pc' = "done" /\ ~inp.with_msg /\ replay = "none"
    BY <1>7 DEF DebugReplay, Finish
  <2>2. UNCHANGED <<inp, expire, message, emulated, emuSeen, dump, res, clock,
                    acc, net, execAcc, otherTx>>
    BY <1>7 DEF DebugReplay
  <2>3. CASE ShouldReplay
    <3>1. dump \in [acc : AccStates, now : Nat] /\ net = "failed"
      BY <2>1, <2>3 DEF ShouldReplay
    <3>2. /\ replayAt' = Seconds(dump.now)
          /\ replay' \in {"finished", "failed"}
          /\ result' = res
      BY <1>7, <2>3, <3>1 DEF DebugReplay, Finish, ReplayTime, ReplayOutcome,
                              CallResult
    <3>3. replayAt' \in Nat /\ replayAt' <= expire
      BY <3>1, <3>2, SecondsNat
    <3>4. inp.debug_fail /\ res = "ExecErr"
      BY <2>3 DEF ShouldReplay
    <3>5. QED
      BY <2>1, <2>2, <3>2, <3>3, <3>4
  <2>4. CASE ~ShouldReplay
    <3>1. result' = res /\ UNCHANGED <<replay, replayAt>>
      BY <1>7, <2>4 DEF DebugReplay, Finish
    <3>2. ~(inp.debug_fail /\ res = "ExecErr")
      BY <2>4 DEF ShouldReplay
    <3>3. QED
      BY <2>1, <2>2, <3>1, <3>2
  <2>5. QED
    BY <2>3, <2>4
<1>8. CASE Tick
  <2>1. res # "Expired" /\ result # "Expired"
    BY <1>8, SecondsNat DEF Tick
  <2>2. ExpiredInv' /\ DumpExecInv' /\ ResultMatchesLedger'
    BY <1>8, <2>1 DEF Tick
  <2>3. DumpClockInv'
    BY <1>8 DEF Tick
  <2>4. QED
    BY <1>8, <2>2, <2>3 DEF Tick
<1>9. CASE OtherTx
  BY <1>9 DEF OtherTx
<1>10. CASE Execute
  <2>1. dump # NoDump => Seconds(dump.now) <= Seconds(clock)
    BY SecondsMono
  <2>2. net' \in {"ok", "failed"} /\ execAcc' \in AccStates
    BY <1>10 DEF Execute
  <2>3. DumpExecInv'
    BY <1>10, <2>1, <2>2, SecondsNat DEF Execute
  <2>4. /\ res \notin {"Expired", "Ok", "ExecErr"}
        /\ result \notin {"Expired", "Ok", "ExecErr"}
    BY <1>10, SecondsNat DEF Execute
  <2>5. QED
    BY <1>10, <2>2, <2>3, <2>4 DEF Execute
<1>11. CASE UNCHANGED vars
  BY <1>11 DEF vars, clientVars, ledgerVars
<1>12. CASE LoadMessage
  <2>1. /\ pc = "start" /\ inp.with_msg /\ ~inp.is_fee
        /\ dump = NoDump /\ net = "none" /\ replay = "none"
    BY <1>12 DEF LoadMessage
  <2>2. UNCHANGED <<inp, emulated, emuSeen, dump, res, replay, replayAt,
                    clock, acc, net, execAcc, otherTx>>
    BY <1>12 DEF LoadMessage
  <2>3. \/ pc' = "done" /\ result' = "EncodingErr"
           /\ UNCHANGED <<expire, message>>
        \/ pc' = "send" /\ result' = result /\ message' = "Some"
           /\ expire' \in Nat
    BY <1>12, SecondsNat DEF LoadMessage, Finish, PreparedExpire
  <2>4. QED
    BY <2>1, <2>2, <2>3
<1>13. CASE WaitSentMessage
  <2>1. /\ pc = "sendwait" /\ pc' = "done" /\ inp.with_msg
        /\ replay = "none"
        /\ \/ net = "ok" /\ result' = "Ok"
           \/ net = "failed" /\ result' = "ExecErr"
           \/ net = "pending" /\ Seconds(clock) > expire
              /\ result' = "Expired"
    BY <1>13 DEF WaitSentMessage, TxOutcome, GivesUp, Finish
  <2>2. UNCHANGED <<inp, expire, message, emulated, emuSeen, dump, res,
                    replay, replayAt, clock, acc, net, execAcc, otherTx>>
    BY <1>13 DEF WaitSentMessage
  <2>3. QED
    BY <2>1, <2>2
<1>14. QED
  BY <1>1, <1>2, <1>3, <1>4, <1>5, <1>6, <1>7, <1>8, <1>9, <1>10, <1>11,
     <1>12, <1>13 DEF Next, Client, Ledger

\* IInv holds in every state of every behaviour.
THEOREM IInvInvariant == Spec => []IInv
  BY InitIInv, NextIInv, PTL DEF Spec

\* Type correctness of the call and the ledger.
THEOREM TypeCorrect == Spec => []TypeOK
  BY IInvInvariant, PTL DEF IInv

\* A fee estimation (is_fee) never submits the message to the ledger.
THEOREM FeeNeverSubmitsThm == Spec => []FeeNeverSubmits
  BY IInvInvariant, PTL DEF IInv, FeeInv, FeeNeverSubmits

\* The debug replay never runs at a block time past the message's expire.
THEOREM ReplayWithinExpiryThm == Spec => []ReplayWithinExpiry
  BY IInvInvariant, PTL DEF IInv

\* A synchronous call reports what the ledger did with its message: Ok only
\* after a successful execution, ExecErr only after an aborted one, Expired
\* only for a message that was not executed and no longer can be.
THEOREM ResultMatchesLedgerThm == Spec => []ResultMatchesLedger
  BY IInvInvariant, PTL DEF IInv

\* The task never unwraps a None: the message at line 366 and the dump at
\* line 378 are always there when the code reaches them.
THEOREM NoPanicThm == Spec => []NoPanic
  BY IInvInvariant, PTL DEF IInv

\* The steps that may touch the ledger's record of the message.  Only the
\* sends at pc "send" and "process" and the ledger's execution of a pending
\* message change it, and the sends happen before anything of ours is on
\* the ledger (NetInv).
LEMMA VerdictStep ==
  IInv /\ [Next]_vars => [(net \in {"ok", "failed"}) => net' = net]_vars
<1> SUFFICES ASSUME IInv, [Next]_vars, net \in {"ok", "failed"}
             PROVE  net' = net
  BY DEF vars
<1>1. pc \notin {"start", "emulate", "send", "dump", "process"}
  BY DEF IInv, NetInv
<1>2. CASE SendMessageAndWait
  BY <1>1, <1>2 DEF SendMessageAndWait
<1>3. CASE ProcessMessage
  BY <1>1, <1>3 DEF ProcessMessage
<1>4. CASE Execute
  BY <1>4 DEF Execute
<1>5. CASE ~SendMessageAndWait /\ ~ProcessMessage /\ ~Execute
  BY <1>5 DEF Next, Client, Ledger, ComposeMessage, LoadMessage,
              EmulateLocally, WaitSentMessage, CaptureDump,
              WaitForTransaction, DebugReplay, Tick, OtherTx, vars,
              clientVars, ledgerVars
<1>6. QED
  BY <1>2, <1>3, <1>4, <1>5

\* Once the ledger has executed the message, successfully or aborted, its
\* verdict stands: no later send of the call (lines 201-210, 371) and no
\* later execution replaces it.
THEOREM LedgerVerdictFinalThm == Spec => LedgerVerdictFinal
  BY IInvInvariant, VerdictStep, PTL DEF Spec, LedgerVerdictFinal
=============================================================================
