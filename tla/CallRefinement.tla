---------------------------- MODULE CallRefinement ----------------------------
(***************************************************************************)
(* The call of src/src/call.rs, as modelled by Call, implements the        *)
(* promise of CallOutcome.  The refinement mapping reads the abstract      *)
(* state off the task and the ledger: the call is done when the task has   *)
(* returned, the message has lapsed once the clock is past the expire the  *)
(* task fixed, and a replay was run when the task recorded its outcome.    *)
(***************************************************************************)
EXTENDS Call

\* The message has lapsed: the task has fixed its expire and the wall clock
\* is past it.
Lapsed == pc # "start" /\ Seconds(clock) > expire

Abs == INSTANCE CallOutcome
         WITH status <- IF pc = "done" THEN "done" ELSE "running",
              fee <- inp.is_fee,
              net <- net,
              lapsed <- Lapsed,
              result <- result,
              replayed <- replay # "none"

\* Every behaviour of the call, for both entry points and every flag, is a
\* behaviour of CallOutcome, its fairness included: the task returns once
\* with an answer that agrees with the ledger, submits at most once and
\* never for is_fee, and replays only after an execution error.
Refinement == Abs!Spec
=============================================================================
