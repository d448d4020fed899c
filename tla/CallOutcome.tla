----------------------------- MODULE CallOutcome -----------------------------
(***************************************************************************)
(* What one contract call of evs-cli promises its user, whichever entry    *)
(* point and flags it runs with (src/src/call.rs): it submits the message  *)
(* at most once and never for a fee estimation, the ledger executes the    *)
(* message at most once and never once its expire has passed, and the     *)
(* call returns exactly once, with an answer that agrees with the ledger:  *)
(* success only for an executed message, the execution error only for an  *)
(* aborted one, "expired" only for one the ledger will never execute.  A   *)
(* debug replay may accompany only an execution error.                     *)
(*                                                                         *)
(* Everything else the call does (the emulation, the dump, the waits) is   *)
(* invisible at this level.                                                *)
(***************************************************************************)


VARIABLES
  status,   \* "running" until the call returns, then "done"
  fee,      \* the call is a fee estimation
  net,      \* the message on the ledger: none, pending, ok or failed
  lapsed,   \* the message's expire has passed: it can no longer execute
  result,   \* what the call returned
  replayed  \* a debug replay was run

avars == <<status, fee, net, lapsed, result, replayed>>

\* What a call can return.
Answers == {"Ok", "OkNull", "OkEmpty", "EncodingErr", "AccountErr",
            "EmulationErr", "TransportErr", "ExecErr", "Expired", "Panic"}

\* The call's answer r agrees with the ledger.
Agrees(r) ==
  /\ r = "Ok" => net = "ok"
  /\ r = "ExecErr" => net = "failed"
  /\ r = "Expired" => net = "pending" /\ lapsed

\* What the ledger may hold after a step that may hand it the message.
MaySubmit == IF ~fee /\ net = "none" THEN {"none", "pending"} ELSE {net}

Init ==
  /\ status = "running"
  /\ fee \in BOOLEAN
  /\ net = "none"
  /\ lapsed = FALSE
  /\ result = "none"
  /\ replayed = FALSE

\* The call hands the message to the ledger.
Submit ==
  /\ status = "running"
  /\ net = "none"
  /\ ~fee
  /\ net' = "pending"
  /\ UNCHANGED <<status, fee, lapsed, result, replayed>>

\* The ledger executes the message, if it is still in time.
Execute ==
  /\ net = "pending"
  /\ ~lapsed
  /\ net' \in {"ok", "failed"}
  /\ UNCHANGED <<status, fee, lapsed, result, replayed>>

\* The message's expire passes.
Lapse ==
  /\ ~lapsed
  /\ lapsed' = TRUE
  /\ UNCHANGED <<status, fee, net, result, replayed>>

\* The call returns; it may hand the message over in the same step (an
\* asynchronous send, or a transport error after the ledger got it), and
\* a message that never had a fresh expire may be found lapsed.  A replay
\* comes only with an execution error.
Return ==
  /\ status = "running"
  /\ status' = "done"
  /\ net' \in MaySubmit
  /\ lapsed' \in {lapsed, TRUE}
  /\ result' \in Answers
  /\ Agrees(result)'
  /\ replayed' \in BOOLEAN
  /\ replayed' => result' = "ExecErr"
  /\ UNCHANGED fee

Next == Submit \/ Execute \/ Lapse \/ Return

\* Every call returns.
Spec == Init /\ [][Next]_avars /\ WF_avars(Return)

=============================================================================
