-------------------------------- MODULE Call --------------------------------
(***************************************************************************)
(* One invocation of call_contract_with_client, or of                      *)
(* call_contract_with_msg for a message prepared earlier (src/src/call.rs), *)
(* driving a call to a contract, together with the ledger it talks to.     *)
(*                                                                         *)
(* The client is a single async task.  Each action below is the code that  *)
(* runs between two network awaits: composing and encoding the message,    *)
(* the local emulation (emulate_locally), the asynchronous send            *)
(* (send_message_and_wait with async_call), the debug dump, the            *)
(* submission and the wait inside the SDK's process_message, and the      *)
(* closing check that starts the debug replay.  Between any two of them    *)
(* the ledger moves on: time passes, other senders change the account,     *)
(* and the submitted message is executed or lost.                          *)
(***************************************************************************)
EXTENDS Naturals

CONSTANTS
  AccStates,      \* states a deployed account at the address can be in
  FailingStates,  \* states on which executing the message aborts
  EmptyAcc,       \* the dummy Account::with_address of the fee emulation
  Absent,         \* no account at the address
  NoDump,         \* the dump of a call without debug_fail
  Lifetime,       \* config.lifetime, in seconds
  StartMs,        \* wall-clock readings (ms) at which the call may start
  TickMs,         \* how far the clock advances in one step (ms)
  MaxOtherTx      \* bound on transactions of other senders to the account

ASSUME AccStatesAssumption == AccStates # {} /\ Absent \notin AccStates
                              /\ EmptyAcc \notin AccStates \cup {Absent}
ASSUME FailingAssumption == FailingStates \subseteq AccStates \cup {EmptyAcc}
ASSUME LifetimeAssumption == Lifetime \in Nat
ASSUME ClockAssumption == StartMs \subseteq Nat /\ TickMs \in Nat \ {0}
ASSUME MaxOtherTxAssumption == MaxOtherTx \in Nat
ASSUME NoDumpAssumption == NoDump \notin [acc : AccStates, now : Nat]

VARIABLES
  inp,      \* the call's inputs: the entry point (with_msg), Config flags,
            \* is_fee, and whether the ABI/params load and the arguments
            \* encode (or the prepared message unpacks and decodes)
  pc,       \* which await the task is at
  expire,   \* header expire (seconds), fixed when the message is composed
  message,  \* the Option message of line 318: Some once encode_message ran
  emulated, \* account state emulate_locally ran against, or Absent
  emuSeen,  \* account state on the ledger when emulate_locally queried it
  dump,     \* debug dump: [acc, now] or NoDump
  res,      \* result of process_message
  replay,   \* outcome of the debug replay
  replayAt, \* block_unixtime the replay executed with
  result,   \* what call_contract_with_client returns
  clock,    \* wall clock, ms
  acc,      \* account state on the ledger
  net,      \* our message on the ledger
  execAcc,  \* account state our message was executed against
  otherTx   \* transactions of other senders so far

clientVars == <<inp, pc, expire, message, emulated, emuSeen, dump, res,
                replay, replayAt, result>>
ledgerVars == <<clock, acc, net, execAcc, otherTx>>
vars == <<clientVars, ledgerVars>>

Flags == [with_msg : BOOLEAN, is_fee : BOOLEAN, async_call : BOOLEAN,
          local_run : BOOLEAN, debug_fail : BOOLEAN, prep_ok : BOOLEAN,
          args_ok : BOOLEAN]

\* call_contract_with_msg has no is_fee parameter.
EntryFlags == {f \in Flags : f.with_msg => ~f.is_fee}

PCs == {"start", "emulate", "send", "sendwait", "dump", "process", "wait",
        "finish", "done"}

\* Outcomes the caller can see.  "Panic" is an unwrap of None.
Results == {"none", "Ok", "OkNull", "OkEmpty", "EncodingErr",
            "AccountErr", "EmulationErr", "TransportErr", "ExecErr",
            "Expired", "Panic"}

NetStates == {"none", "pending", "ok", "failed"}

Seconds(ms) == ms \div 1000

\* The executor aborts the message on these account states.
ExecFails(s) == s \in FailingStates

-----------------------------------------------------------------------------
(***************************************************************************)
(* Client: call_contract_with_client and the functions it calls.           *)
(***************************************************************************)

\* Mutant: needs_encoded_msg without debug_fail.
NeedsEncodedMsgNoDebug == inp.is_fee \/ inp.async_call \/ inp.local_run

\* needs_encoded_msg, lines 313-316.
NeedsEncodedMsg ==
  inp.is_fee \/ inp.async_call \/ inp.local_run \/ inp.debug_fail

\* Where the task goes after the message is ready and no early return was
\* taken: the dump when debug_fail (line 345), else process_message.
AfterEncode == IF inp.debug_fail THEN "dump" ELSE "process"

\* Where the task goes once the message is encoded (lines 322-334): the
\* emulation first under local_run or is_fee, else the async send.
AfterMessage ==
  IF inp.local_run \/ inp.is_fee THEN "emulate"
  ELSE IF inp.async_call THEN "send"
  ELSE AfterEncode

Finish(r) == /\ result' = r
             /\ pc' = "done"

\* Lines 295-337 up to the first await that touches the network: load the
\* ABI, fix the header, prepare the params and, when needed, encode.
ComposeMessage ==
  /\ pc = "start"
  /\ ~inp.with_msg
  /\ expire' = Seconds(clock) + Lifetime
  /\ \/ /\ ~inp.prep_ok
        /\ Finish("EncodingErr")
        /\ UNCHANGED message
     \/ /\ inp.prep_ok
        /\ NeedsEncodedMsg
        /\ ~inp.args_ok
        /\ Finish("EncodingErr")
        /\ UNCHANGED message
     \/ /\ inp.prep_ok
        /\ NeedsEncodedMsg
        /\ inp.args_ok
        /\ message' = "Some"
        /\ pc' = AfterMessage
        /\ UNCHANGED result
     \/ /\ inp.prep_ok
        /\ ~NeedsEncodedMsg
        /\ pc' = AfterEncode
        /\ UNCHANGED <<message, result>>
  /\ UNCHANGED <<inp, emulated, emuSeen, dump, res, replay, replayAt>>
  /\ UNCHANGED ledgerVars

\* Mutant: the fee estimation does not return after printing the fees.
AfterEmulationNoFeeReturn ==
  IF inp.async_call THEN pc' = "send" /\ UNCHANGED result
                    ELSE pc' = AfterEncode /\ UNCHANGED result

\* What call_contract_with_client does once emulate_locally returned Ok
\* (lines 324-333): a fee estimation returns, an async call is sent.
AfterEmulation ==
  IF inp.is_fee THEN Finish("OkNull")
  ELSE IF inp.async_call THEN pc' = "send" /\ UNCHANGED result
  ELSE pc' = AfterEncode /\ UNCHANGED result

\* emulate_locally (lines 127-186) and what the caller does with its
\* result (lines 322-333).  The account query fails when there is no
\* account or the transport fails (queryOk); in fee mode any failure is
\* answered with a dummy account.
EmulateLocally ==
  /\ pc = "emulate"
  /\ \E queryOk \in BOOLEAN :
       LET found == queryOk /\ acc # Absent
           state == IF found THEN acc ELSE EmptyAcc
       IN  \/ /\ ~found
              /\ ~inp.is_fee
              /\ Finish("AccountErr")
              /\ UNCHANGED emulated
           \/ /\ found \/ inp.is_fee
              /\ emulated' = state
              /\ IF ExecFails(state) THEN Finish("EmulationErr")
                                      ELSE AfterEmulation
  /\ emuSeen' = acc
  /\ UNCHANGED <<inp, expire, message, dump, res, replay, replayAt>>
  /\ UNCHANGED ledgerVars

\* send_message (lines 201-210) of send_message_and_wait, called at line 329
\* with async_call or at line 474 for a prepared message.  A transport
\* error may come before or after the ledger has the message.  Without
\* async_call the task goes on to wait (line 212).
SendMessageAndWait ==
  /\ pc = "send"
  /\ \/ /\ net' = "pending"
        /\ IF inp.async_call THEN Finish("OkEmpty")
                            ELSE pc' = "sendwait" /\ UNCHANGED result
     \/ /\ net' \in {net, "pending"}
        /\ Finish("TransportErr")
  /\ UNCHANGED <<inp, expire, message, emulated, emuSeen, dump, res, replay,
                 replayAt>>
  /\ UNCHANGED <<clock, acc, execAcc, otherTx>>

\* Mutant: a "not found" answer is taken for the account's boc.
DumpQueryOkUnchecked(queryOk) == queryOk

\* query_account_field(addr, "boc") returned the account (line 346).
DumpQueryOk(queryOk) == queryOk /\ acc # Absent

\* The debug dump, lines 345-369: the account, the config account, the
\* encoded message (message.unwrap()) and the time, before submission.
CaptureDump ==
  /\ pc = "dump"
  /\ \E queryOk \in BOOLEAN :
       \/ /\ ~DumpQueryOk(queryOk)
          /\ Finish("TransportErr")
          /\ UNCHANGED dump
       \/ /\ DumpQueryOk(queryOk)
          /\ IF message = "Some"
               THEN /\ dump' = [acc |-> acc, now |-> clock]
                    /\ pc' = "process"
                    /\ UNCHANGED result
               ELSE Finish("Panic") /\ UNCHANGED dump
  /\ UNCHANGED <<inp, expire, message, emulated, emuSeen, res, replay,
                 replayAt>>
  /\ UNCHANGED ledgerVars

\* process_message (lines 231-262, called at line 371): the SDK encodes the
\* params and sends the message; DidSend is printed.
ProcessMessage ==
  /\ pc = "process"
  /\ \/ /\ ~inp.args_ok
        /\ res' = "EncodingErr"
        /\ pc' = "finish"
        /\ UNCHANGED net
     \/ /\ inp.args_ok
        /\ net' = "pending"
        /\ pc' = "wait"
        /\ UNCHANGED res
     \/ /\ inp.args_ok
        /\ net' \in {net, "pending"}
        /\ res' = "TransportErr"
        /\ pc' = "finish"
  /\ UNCHANGED <<inp, expire, message, emulated, emuSeen, dump, replay,
                 replayAt, result>>
  /\ UNCHANGED <<clock, acc, execAcc, otherTx>>

\* Mutant: the wait does not give up at expire.
GivesUpNever == FALSE

\* The SDK stops waiting once the blocks it sees are past expire.
GivesUp == Seconds(clock) > expire

\* What the SDK's wait for the transaction of the message reports: its
\* result, its abort, or that no block up to expire holds it.
TxOutcome(r) ==
  \/ net = "ok" /\ r = "Ok"
  \/ net = "failed" /\ r = "ExecErr"
  \/ net = "pending" /\ GivesUp /\ r = "Expired"

\* The wait inside process_message.
WaitForTransaction ==
  /\ pc = "wait"
  /\ \E r \in Results : TxOutcome(r) /\ res' = r
  /\ pc' = "finish"
  /\ UNCHANGED <<inp, expire, message, emulated, emuSeen, dump, replay,
                 replayAt, result>>
  /\ UNCHANGED ledgerVars

\* Mutant: a message the ledger did not execute successfully is sent again.
WaitSentMessageRetry ==
  /\ pc = "sendwait"
  /\ \E r \in Results :
       /\ TxOutcome(r)
       /\ IF r = "Ok" THEN Finish(r) ELSE pc' = "send" /\ UNCHANGED result
  /\ UNCHANGED <<inp, expire, message, emulated, emuSeen, dump, res, replay,
                 replayAt>>
  /\ UNCHANGED ledgerVars

\* wait_for_transaction of send_message_and_wait (lines 212-225): its
\* result is returned as it is, with no replay.
WaitSentMessage ==
  /\ pc = "sendwait"
  /\ \E r \in Results : TxOutcome(r) /\ Finish(r)
  /\ UNCHANGED <<inp, expire, message, emulated, emuSeen, dump, res, replay,
                 replayAt>>
  /\ UNCHANGED ledgerVars

\* The condition of lines 373-374.
ShouldReplay == inp.debug_fail /\ res = "ExecErr"

\* Mutant: block_unixtime read from the clock when the replay starts.
ReplayTimeNow == Seconds(clock)

\* block_unixtime: (now / 1000) as u32 of the dumped now (line 391).
ReplayTime == Seconds(dump.now)

\* Mutant: a replay that finishes turns the call into a success.
CallResultMasked(rep) == IF rep = "finished" THEN "Ok" ELSE res

\* res.map_err(..) of line 419: the result of process_message, whatever
\* the replay did.
CallResult(rep) == res

\* The replay's outcome on the dumped account at block time at.
ReplayOutcome(at) ==
  IF ExecFails(dump.acc) \/ at > expire THEN "failed" ELSE "finished"

\* Lines 373-419: on SDK_EXECUTION_ERROR_CODE with debug_fail, replay the
\* dumped message on the dumped account at the dumped time; the executor
\* rejects a message whose expire is before block_unixtime.  The result of
\* process_message is returned either way.
DebugReplay ==
  /\ pc = "finish"
  /\ IF ShouldReplay
       THEN IF dump = NoDump
              THEN Finish("Panic") /\ UNCHANGED <<replay, replayAt>>
              ELSE /\ replayAt' = ReplayTime
                   /\ replay' = ReplayOutcome(ReplayTime)
                   /\ Finish(CallResult(ReplayOutcome(ReplayTime)))
       ELSE Finish(res) /\ UNCHANGED <<replay, replayAt>>
  /\ UNCHANGED <<inp, expire, message, emulated, emuSeen, dump, res>>
  /\ UNCHANGED ledgerVars

\* A prepared message was composed earlier with the same lifetime: its
\* expire is at most a fresh one's, and may already be past.
PreparedExpire == 0..(Seconds(clock) + Lifetime)

\* call_contract_with_msg, lines 453-474: load the ABI, unpack the message,
\* decode its call parameters, then send it (line 474).
LoadMessage ==
  /\ pc = "start"
  /\ inp.with_msg
  /\ \/ /\ ~(inp.prep_ok /\ inp.args_ok)
        /\ Finish("EncodingErr")
        /\ UNCHANGED <<expire, message>>
     \/ /\ inp.prep_ok /\ inp.args_ok
        /\ expire' \in PreparedExpire
        /\ message' = "Some"
        /\ pc' = "send"
        /\ UNCHANGED result
  /\ UNCHANGED <<inp, emulated, emuSeen, dump, res, replay, replayAt>>
  /\ UNCHANGED ledgerVars

Client == ComposeMessage \/ LoadMessage \/ EmulateLocally
          \/ SendMessageAndWait \/ WaitSentMessage \/ CaptureDump
          \/ ProcessMessage \/ WaitForTransaction \/ DebugReplay

-----------------------------------------------------------------------------
(***************************************************************************)
(* Ledger and wall clock.                                                  *)
(***************************************************************************)

\* Time passes while the call is under way, up to the first second past
\* expire (nothing the call does depends on time after that).
Tick ==
  /\ pc # "start"
  /\ Seconds(clock) <= expire
  /\ clock' = clock + TickMs
  /\ UNCHANGED <<clientVars, acc, net, execAcc, otherTx>>

\* Another sender's transaction changes (or deploys) the account.
OtherTx ==
  /\ otherTx < MaxOtherTx
  /\ acc' \in AccStates \ {acc}
  /\ otherTx' = otherTx + 1
  /\ UNCHANGED <<clientVars, clock, net, execAcc>>

\* The ledger executes our message in a block no later than its expire.
\* A message to no account is never executed.
Execute ==
  /\ net = "pending"
  /\ acc # Absent
  /\ Seconds(clock) <= expire
  /\ net' = IF ExecFails(acc) THEN "failed" ELSE "ok"
  /\ execAcc' = acc
  /\ UNCHANGED <<clientVars, clock, acc, otherTx>>

Ledger == Tick \/ OtherTx \/ Execute

-----------------------------------------------------------------------------
Init ==
  /\ inp \in EntryFlags
  /\ pc = "start"
  /\ expire = 0
  /\ message = "None"
  /\ emulated = Absent
  /\ emuSeen = Absent
  /\ dump = NoDump
  /\ res = "none"
  /\ replay = "none"
  /\ replayAt = 0
  /\ result = "none"
  /\ clock \in StartMs
  /\ acc \in AccStates \cup {Absent}
  /\ net = "none"
  /\ execAcc = Absent
  /\ otherTx = 0

Next == Client \/ Ledger

\* The task runs whenever it can (its awaits return: the SDK's transport
\* has its own timeouts), and real time passes.  The ledger is not assumed
\* to execute the message: it may be lost.
Fairness == WF_vars(Client) /\ WF_vars(Tick)

Spec == Init /\ [][Next]_vars /\ Fairness

-----------------------------------------------------------------------------
(***************************************************************************)
(* Properties.                                                             *)
(***************************************************************************)

\* Every variable holds a value of its type.
TypeOK ==
  /\ inp \in EntryFlags
  /\ pc \in PCs
  /\ expire \in Nat
  /\ message \in {"None", "Some"}
  /\ emulated \in AccStates \cup {EmptyAcc, Absent}
  /\ emuSeen \in AccStates \cup {Absent}
  /\ dump \in [acc : AccStates, now : Nat] \cup {NoDump}
  /\ res \in Results
  /\ replay \in {"none", "finished", "failed"}
  /\ replayAt \in Nat
  /\ result \in Results
  /\ clock \in Nat
  /\ acc \in AccStates \cup {Absent}
  /\ net \in NetStates
  /\ execAcc \in AccStates \cup {Absent}
  /\ otherTx \in 0..MaxOtherTx

\* A fee estimation (is_fee) never puts the message on the ledger, whatever
\* the emulation and the other flags do (spec 4.2 step 1).
FeeNeverSubmits == inp.is_fee => net = "none"

\* The task never unwraps a None: the dump's message.unwrap() and the
\* replay's dump.unwrap() always find a value.
NoPanic == result # "Panic"

\* A synchronous call reports what the ledger did: Ok only if the message
\* was executed successfully, ExecErr only if it was executed and aborted,
\* Expired only if it was not executed (and, past expire, never will be).
ResultMatchesLedger ==
  /\ result = "Ok" => net = "ok"
  /\ result = "ExecErr" => net = "failed"
  /\ result = "Expired" => net = "pending" /\ Seconds(clock) > expire

\* The replay never runs at a block time past the message's expire, so it
\* can only fail for the reason the ledger did, never as "expired".
ReplayWithinExpiry == replay # "none" => replayAt <= expire

\* The ledger's verdict on the message is final: once it has executed the
\* message, successfully or not, no step of the call sends it again
\* (send_message at lines 201-210, process_message at line 371) and the
\* ledger does not execute it again, whatever transport errors, waits and
\* replays came before.
LedgerVerdictFinal == [][(net \in {"ok", "failed"}) => net' = net]_vars

\* Every call returns.
Termination == <>(pc = "done")

\* Spec 4.2: with local_run and no is_fee the emulation is a pre-flight
\* check only; the call goes on to the ledger whatever its outcome.
LocalRunAdvisory ==
  ~(inp.local_run /\ ~inp.is_fee /\ result \in {"EmulationErr", "AccountErr"})

\* Spec 3/4.5: the replay reproduces the remote execution: it runs on the
\* account state the ledger executed the message against, so it aborts too.
ReplayReproducesFailure == replay # "none" => replay = "failed"

\* Spec 4.3: the dummy account is used only when the account does not exist.
FeeDummyOnlyWhenAbsent == emulated = EmptyAcc => emuSeen = Absent
=============================================================================
