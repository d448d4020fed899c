# TLA+ models of evs-cli's contract call path

This directory models the part of evs-cli that calls a contract. It covers:

- `call_contract_with_client` and the functions it drives, in `src/src/call.rs`;
- `call_contract_with_msg`, which sends a prepared message;
- the parser of command-line arguments, also in `call.rs`;
- the interfaces the DeBot browser offers, in
  `src/src/debot/interfaces/dinterface.rs`.

TLC checks the models on small instances. TLAPS proves these results for
every value of the constants:

- the main safety properties of the call;
- the properties of an abstract specification of what a call promises;
- that the call implements that specification.

## The system

One `evs-cli call` is one async task. It makes these steps:

- It composes the message: the ABI, a header with `expire = lifetime + now()`,
  and the prepared parameters.
- `needs_encoded_msg` (lines 313-316) decides whether it also encodes the
  message itself. It does so for `is_fee`, `async_call`, `local_run` and
  `debug_fail`.
- Then it picks a path (lines 318-345):
  - `emulate_locally` for `local_run` or `is_fee`. A fee estimation returns
    after this.
  - `send_message_and_wait` for `async_call`. This returns.
  - Otherwise, under `debug_fail`, it first dumps the account and the time
    (345-369).
- It runs `process_message`, which submits the message and waits for the
  transaction until the message's expire.
- Under `debug_fail`, on the SDK's execution error code, it replays the
  dumped message on the dumped account (373-419). It then returns
  `process_message`'s result unchanged.

The task waits on the network between these steps. Meanwhile the ledger moves
on: time passes, other senders change the account, and the message is
executed or lost. The task is the only actor of the repository. The ledger,
the SDK and the executor are its environment.

`call_contract_with_msg` (lines 453-474) makes two steps:

- It loads the ABI, unpacks the prepared message and decodes its call
  parameters.
- It calls `send_message_and_wait`, which sends the message. Unless
  `async_call` is set, it then waits for the transaction with
  `wait_for_transaction`.

Nothing is replayed on this path. The message keeps the expire it was
prepared with.

`parse_params` / `build_json_from_params` (lines 83-125, 486-493) turn the
command line `--name value ...` into the JSON arguments. A single parameter is
taken to be the JSON itself.

A DeBot calls the browser's interfaces by id. `SupportedInterfaces::new`
registers ten of them. AddressInput and AmountInput are wrapped in a
`BrowserInterface` that first asks the shared `ManifestProcessor` for a
scripted input, under its write lock. That processor holds the scripted
inputs of a pipechain.

- On `InterfaceCallNeeded`, the call goes to the real interface.
- On another error, the call fails.
- On a scripted input, the wrapper answers the DeBot's `answerId` with that
  input, after `decode_answer_id` has parsed the answerId.

## Modules

| Module | Models | Source |
|---|---|---|
| `Call` | the call task, both entry points, and its ledger environment | call.rs 127-262, 285-420, 453-474 |
| `CallProofs` | inductive invariant and theorems about `Call` | |
| `MCCall` | TLC instance of `Call` | |
| `CallOutcome` | abstract specification of what one call promises, with its proofs | |
| `CallRefinement` | refinement mapping from `Call` to `CallOutcome` | |
| `CallRefinementProofs` | proof of the safety part of the refinement | |
| `MCCallRefinement` | TLC instance of `CallRefinement` | |
| `DebotInterfaces` | interface registry, `BrowserInterface::call`, `decode_answer_id` | dinterface.rs 22-127 |
| `DebotInterfacesProofs` | proofs of `ScriptedInputsDelivered` and `TypeOK` | |
| `MCDebotInterfaces` | TLC instance of `DebotInterfaces` | |
| `ParseParams` | which token `build_json_from_params` takes for each input | call.rs 83-125, 486-493 |
| `ParseParamsProofs` | proofs of `TypeOK` and `RoundTripPlainValues` for every ABI | |
| `MCParseParams` | TLC instance of `ParseParams` | |

### Call

Variables:

- client state: `inp` (the entry point `with_msg`, the flags, and whether the
  params load and encode),
  `pc` (the await the task is at), `expire`, `message` (the `Option` of line
  318), `emulated`/`emuSeen` (the state the emulation ran on, and the ledger's
  at that time), `dump`, `res` (process_message's result), `replay`/`replayAt`,
  `result`;
- ledger state: `clock` (ms), `acc`, `net` (our message: none, pending, ok or
  failed), `execAcc`, `otherTx`.

There is one clock. The client's `now()` (the expire of line 297) and the
ledger's block time are both read from `clock`. A client clock that runs
ahead of or behind the ledger's is not modelled, so `ResultMatchesLedger`
and `ReplayWithinExpiry` hold for synchronised clocks only.

Each client action is the code between two awaits, including the early
returns:

- `ComposeMessage` is lines 295-337.
- `LoadMessage` is `call_contract_with_msg` up to the send (453-474). The
  expire of the prepared message is any value up to a fresh one's
  (`PreparedExpire`). It may already be past.
- `EmulateLocally` is `emulate_locally` together with the caller's handling
  at 322-333.
- `SendMessageAndWait` and `CaptureDump` follow the code of the same name.
  Without `async_call`, `SendMessageAndWait` goes on to `WaitSentMessage`
  (212-225). That step returns the SDK's result of the wait (`TxOutcome`)
  as it is.
- `ProcessMessage` and `WaitForTransaction` are the submission and the wait
  inside the SDK's `process_message`.
- `DebugReplay` is 373-419.

The environment actions are:

- `Tick`: the clock advances by `TickMs`.
- `OtherTx`: another sender changes the account, at most `MaxOtherTx` times.
- `Execute`: the ledger executes a pending message no later than its expire.

A transport error can come before or after the ledger has the message.
Messages can be lost, because nothing forces `Execute`.

Data is abstracted:

- An account state is a model value. `FailingStates` are the states on which
  the message aborts.
- The replay's TVM run fails when the dumped state fails or when its block
  time is past expire.
- Fees, printing and formatting are left out.

### CallOutcome and CallRefinement

`CallOutcome` is what a caller can rely on, whichever path the call takes. Its
state is:

- `status`: running or done;
- `fee`: whether the call is a fee estimation;
- the message on the ledger (`net`);
- `lapsed`: the message's expire has passed;
- `result`;
- `replayed`: whether a debug replay ran.

Its steps are:

- `Submit`: never for a fee estimation.
- `Execute`: only a pending message that has not lapsed.
- `Lapse`.
- `Return`: exactly once. It may hand the message over in the same step
  (an async send, or a transport error after delivery). The answer must
  agree with the ledger: Ok only for an executed message, ExecErr only for
  an aborted one, Expired only for a pending lapsed one. A replay comes
  only with ExecErr.

Weak fairness on `Return` says that every call returns.

`CallRefinement` maps `Call` onto it:

- `status` is done once `pc = "done"`.
- `lapsed` is `pc # "start"` and a clock past the expire.
- `replayed` is `replay # "none"`.

The other variables are identities. Every client step between two awaits
maps to a stutter, a `Submit` or a `Return`. `Tick` maps to a stutter or a
`Lapse`, and the ledger's `Execute` maps to `Execute`.

### DebotInterfaces

The model has three parts:

- **Registry.** `Registry` is the map built by `SupportedInterfaces::new`.
  It says which ids are wrapped.
- **Call slots.** Each slot is one interface call of the DeBot engine.
  Several can be under way, because the interfaces are `Send + Sync` and
  their `call` is async. The engine is the environment: `Issue` picks an
  interface id and an answerId argument.
- **Actions.**
  - `CallPlain` is a call to an unwrapped interface.
  - `BrowserCall` is lines 105-114 up to the inner await. Taking the lock
    and calling `next_input` are one atomic step, because the guard lives
    only for the statement of line 106.
  - `InnerReturns` is the inner interface's answer.

`ManifestProcessor` is not in this copy of the repository. It is modelled as
a cursor over `MaxInputs` scripted inputs, whose `next_input` does one of
three things: hands out the next input, asks for the real interface, or
fails.

An answerId argument is a record with these fields:

- whether it is a JSON string;
- its sign;
- whether the rest is a run of digits;
- its value.

`AnswerIdOk` is what `u32::from_str_radix(.., 10)` accepts. The property
compares it with `ValidAnswerId`, the reference form of a DeBot function id.

### ParseParams

A token is a word with a number of leading dashes. `FindParam` is the
`iter.find` of line 93: the first token whose word is the input's name. The
value is the next token. `FirstMissing` gives the first input for which the
loop returns "not found" or "has no value". The type conversion of a value
(lines 100-120) does not change which token is taken, and is left out.
`Init` (through `Invocation`) enumerates every command line written for a
subset of a method's inputs, and also single JSON strings. The keys come in
any order (a bijection from 1..n onto the given inputs), each with
1..MaxDashes dashes. `CommandLine` puts the p-th key at position 2p-1 and
its value at 2p.

## Runs

| Run | Checks | Result |
|---|---|---|
| `call` (MCCall.cfg) | TypeOK, FeeNeverSubmits, NoPanic, ResultMatchesLedger, ReplayWithinExpiry, Termination, LedgerVerdictFinal | pass, 29724 states |
| `call_refinement` (MCCallRefinement.cfg) | Refinement (`CallOutcome!Spec`, fairness included) | pass, 29724 states |
| `local_run_advisory` | LocalRunAdvisory | violation |
| `replay_reproduces_failure` | ReplayReproducesFailure | violation |
| `fee_dummy_only_when_absent` | FeeDummyOnlyWhenAbsent | violation |
| `params` (MCParseParams.cfg) | TypeOK, RoundTripPlainValues | pass, 1258 states |
| `params_round_trip` | ParamsRoundTrip | violation |
| `debot_interfaces` (MCDebotInterfaces.cfg) | TypeOK, ScriptedInputsDelivered | pass, 2112083 states |

`ScriptedInputsDelivered` says that every scripted input before the
processor's cursor went to exactly one call, and that call was to
AddressInput or AmountInput. That call answered the DeBot with the input, at
the answerId the DeBot gave. The only exception is an answerId that is not a
valid u32 decimal: then the input is lost and the call fails, because
`next_input` consumed it before `decode_answer_id` ran. The property is
broken by each of these mutants:

- a registry that wraps every interface;
- a reply that drops the params.

Bounds of `call`:

- Two account states, one of which fails, plus "absent".
- All flag combinations of both entry points (the prepared-message path has
  no `is_fee`).
- A lifetime of 2 s.
- Start times 0, 600 and 1500 ms, with a 700 ms clock step.
  - Second boundaries are crossed at different phases, and the wait can give
    up with the message still pending.
  - The 1500 ms start lets a prepared message's expire already be past
    when it is loaded.
- One transaction of another sender, which is enough to make the dump stale.

Every path of lines 313-345 is reached, and so is every outcome of every
await.

Bounds of `params`: the `setParams(wallet, key)` method from the DeBot test,
plus a one-input method, two plain values, and up to two dashes. That
instance has every collision between a value and a key name. A collision
needs two inputs.

Bounds of `debot_interfaces`:

- Three concurrent calls and two scripted inputs, so that one call can find
  the pipechain exhausted.
- Two of the eight unwrapped interfaces.
- Seven answerId arguments. They cover each way `decode_answer_id` can
  succeed or fail: no string, a `+` sign, a `-` sign, an empty digit run,
  the largest value, and one past it.
- The u32 is narrowed to 8 bits. The code only compares with the largest
  value, and that comparison is kept.

Deadlock is not checked in either model. The CLI process ends when the call
returns, and the DeBot engine stops once its calls have returned.

Fairness is weak fairness on the client's steps and on `Tick`:

- The client's steps are justified because every await returns. The SDK's
  transport has its own timeouts, and the wait ends at expire.
- `Tick` is justified because real time passes.

The ledger is not assumed to execute the message. `Termination` therefore
holds even when the message is lost. `CallOutcome` assumes only weak fairness
of `Return`. The `call_refinement` run checks that `Call`'s own fairness
provides it.

`DebotInterfaces` has no fairness and no liveness property. The real
interfaces (a terminal prompt, a menu) wait for the user, who may never
answer.

## Findings

- **LocalRunAdvisory** (call.rs:323). Under `local_run`, a failed emulation
  ends the call. Spec 4.2 calls the local run a pre-flight check.
- **ReplayReproducesFailure** (call.rs:345). The sequence is:
  1. the dump is taken;
  2. another transaction changes the account;
  3. the message is submitted and aborts on the new state.

  The replay then runs on the old state and finishes. The replay does not
  reproduce the failure it is meant to explain.
- **FeeDummyOnlyWhenAbsent** (call.rs:135). In fee mode, any query error,
  including a transport error, replaces the account by the dummy one.
- **ParamsRoundTrip** (call.rs:93). With `--key wallet --wallet v1`, wallet
  gets the value `--wallet`. The key search also matches value tokens.

## Proofs

Every theorem is `Spec => []P`, proved through the inductive invariant `IInv`,
which is `TypeOK` and the following:

- `FeeInv`: a fee estimation stays in start, emulate or done, with nothing
  submitted.
- `StartInv` and `NetInv`: nothing is on the ledger before the task submits.
- `DumpClockInv`: the dump's time never runs ahead of the clock.
- `DumpExecInv`: an executed message was executed after the dump and no later
  than expire.
- `ResInv` and `ResOkInv`: ExecErr and Ok were read from a message the ledger
  executed.
- `ExpiredInv`: Expired means the message is still pending past its expire.
- `ResultInv`: the returned Ok, ExecErr or Expired is process_message's
  result.
- `MsgInv`: emulation, the async send and the dump come after encoding,
  and the dump is reached only under debug_fail.
- `DumpInv`: under debug_fail, nothing is submitted before the dump.
- `ResPanicInv`: process_message's result is never a panic.
- `ReplayWithinExpiry` and `NoPanic` themselves.

The properties are not inductive alone:

- `ReplayWithinExpiry` needs `DumpExecInv` and `DumpClockInv`.
- `ResultMatchesLedger` needs `ExpiredInv`, so that `Tick` and `Execute` cannot
  follow an Expired result.
- `NoPanic` needs `MsgInv` and `DumpInv`, so that the unwraps at lines 366
  and 378 always find a value.

The proof has one
case per action (`NextIInv`), and `InitIInv` for the initial states. It uses
two lemmas on `Seconds`: the result is a natural number, and it is monotone.
The assumptions are the named `ASSUME`s of `Call`: the account states are
distinct from the sentinels (`NoDump` included), the lifetime is a natural
number, and the clock step is positive.

The theorems of `CallProofs` are:

- `TypeCorrect`
- `FeeNeverSubmitsThm`
- `ReplayWithinExpiryThm`
- `ResultMatchesLedgerThm`
- `NoPanicThm`
- `LedgerVerdictFinalThm`. This is the action property
  `[][net \in {"ok", "failed"} => net' = net]_vars`. Its step lemma
  `VerdictStep` uses `NetInv`: the two sends (at pc "send" and "process")
  happen while nothing of ours is on the ledger, and `Execute` needs a
  pending message. The `call` run checks it. The mutant
  `WaitSentMessageRetry`, which sends the message again after a failed
  wait, breaks it.

These are the further invariants for the prepared-message path and the
replay:

- `SendInv`: each entry point keeps to its own steps.
- `ReplayInv` and `DoneInv`: a replay happened exactly for a failed
  debug_fail call.
- `ResSetInv`: process_message has answered before the closing check.

`ResultMatchesLedger` is itself a conjunct of `IInv`. On the
prepared-message path the returned result is the wait's, with no `res` in
between.

`CallRefinementProofs` proves `RefinementSafety`:
`Spec => Abs!Init /\ [][Abs!Next]_Abs!avars`. The proof has three parts:

- `RefInit`.
- `RefNext`, with one case per action of `Call`. It uses `IInv` in the states
  before and after the step.
- Two lemmas:
  - `ReturnStep`: a step in which the task returns is a `Return` when its
    answer satisfies `ResultMatchesLedger'` and `ReplayInv'`.
  - `StutterStep`.

`DebotInterfacesProofs` proves `ScriptedInputsDeliveredThm` for any set of
call slots, any number of scripted inputs and any answerId arguments. The
invariant is strengthened by `PendingInv`: a call holds an input only once
it is done, so `Issue` and `InnerReturns` never touch a call that holds one.
The `BrowserCall` step that takes an input needs two facts:

- every earlier input is below the cursor, which keeps the new one
  distinct;
- the reply is either the scripted answer or, for an answerId that
  `from_str_radix` rejects, an error.

The proof rests on the named assumptions of `DebotInterfaces`:

- the two wrapped ids are distinct from each other and from the others;
- the bounds are natural numbers;
- the answerId arguments are a non-empty set of records.

Some results are only model-checked:

- `Termination`, and the fairness part of `Refinement` (weak fairness of
  `Return`), are liveness. TLAPS does not handle liveness here. TLC checks
  them on the instance.

`ParseParamsProofs` proves `TypeCorrect` and `RoundTripPlainValuesThm` for
every ABI, every set of values and every `MaxDashes`. The proof has four
layers:

- `LeastIndex`: `SelectInSeq` returns a least passing index. A non-empty
  set of naturals has a `Min`, by `WFMin` and `NatLessThanWellFounded` of
  the library.
- `FindParamSpec` and `FirstMissingSpec`: what the key search and the
  loop return.
- `OrderFacts`, `CommandLineFacts` and `KeyIndex`: with plain values, the
  p-th key is found at 2p-1, whatever its dashes, and an input left out is
  not found. This rests on the key order being a bijection and on values
  being disjoint from input names (`AbiAssumption`).
- `ParseCommandLine`: `build_json_from_params` returns exactly the written
  arguments, or an error when an input is missing.

The inductive invariant `PInv` is `TypeOK /\ Invocation /\ Parsed`: the
command line stays one that `Init` allows, and `out` is what
`parse_params` returns on it. `ParseParamsOfType` gives the type of the
result for any token vector. A value never comes from one past the end,
because the loop stops at a key that is the last token.

`DebotInterfacesProofs` also proves `TypeCorrect` from `DInv`: an answer
reaches the DeBot only at an answerId within u32.

## Not modelled

- Logger setup. `set_boxed_logger` works once per process, and a process
  makes one call.
- `decode_call_parameters`, `parse_integer_param` and the token-suffix
  conversion. `convert.rs` is not in this copy.
- The u32 overflow of `expire_at`.
- `ManifestProcessor` itself. It is not in this copy, and the spec does not
  describe it. Its `next_input` is the nondeterministic environment of
  `DebotInterfaces`.
- The inner interfaces (Menu, Terminal, ...). They are not in this copy,
  and each is an answer or an error.
- The DeBot argument decoders other than `decode_answer_id` (`decode_arg`,
  `decode_string_arg`, `decode_num_arg`, `decode_int256`, `decode_array`).
  They are pure field extractions and hex or number conversions with no
  state, used only by interfaces that are not in this copy.
- Liveness of DeBot calls. An inner interface can wait for the user forever,
  so no fairness on its answer is justified.

## Plan

1. Model the type conversion of parameters (`parse_integer_param`, arrays)
   once `convert.rs` is available.
2. Model `ManifestProcessor::next_input` from its source, when it is
   available, in place of the nondeterministic cursor.
