---------------------------- MODULE ParseParams ----------------------------
(***************************************************************************)
(* parse_params and build_json_from_params (src/src/call.rs): how the      *)
(* command line "--name value --name value ..." of a call becomes the JSON *)
(* arguments of the method.                                                *)
(*                                                                         *)
(* A command-line token is a word with some leading dashes.  For each      *)
(* input of the method, in the ABI's order, the code takes the first token *)
(* whose word (after trim_start_matches('-')) is the input's name, and the *)
(* token right after it as the value.  The conversion of the value by the  *)
(* input's type (lines 100-120) is left out: it does not change which      *)
(* token is taken.                                                         *)
(*                                                                         *)
(* The state is one command line, the arguments it was written for, and   *)
(* what parse_params made of it.                                           *)
(***************************************************************************)
EXTENDS Naturals, Sequences, SequencesExt

CONSTANTS
  Abi,        \* the methods of the ABI: method name -> sequence of input names
  Unknown,    \* a method the ABI does not have
  Values,     \* words that are not input names, used as argument values
  MaxDashes   \* most leading dashes a key token has

InputNames == UNION {ToSet(Abi[m]) : m \in DOMAIN Abi}

\* A function's inputs are a list of named params (ton_abi's input_params),
\* with distinct names; the plain values are not input names.
ASSUME AbiAssumption ==
  /\ Unknown \notin DOMAIN Abi
  /\ \A m \in DOMAIN Abi : Abi[m] \in Seq(STRING) /\ IsInjective(Abi[m])
  /\ Values \cap InputNames = {}
ASSUME MaxDashesAssumption == MaxDashes \in Nat \ {0}

VARIABLES
  method,   \* the method called
  args,     \* the value word the user wrote for each input
  argv,     \* params_vec: the command-line tokens
  out       \* what parse_params returned, of kind "none" before it ran

vars == <<method, args, argv, out>>

Words == InputNames \cup Values

Token(d, w) == [dashes |-> d, word |-> w]

NoOut == [kind |-> "none", val |-> "none"]

\* trim_start_matches('-'), line 93.
TrimDashes(t) == t.word

-----------------------------------------------------------------------------
\* Mutant: the key is compared with its dashes still on.
FindParamUntrimmed(params, name) ==
  SelectInSeq(params, LAMBDA t : t = Token(0, name))

\* iter.find(..) of lines 92-94: the index of the first token naming the
\* input, 0 when there is none.
FindParam(params, name) ==
  SelectInSeq(params, LAMBDA t : TrimDashes(t) = name)

\* The first input, in the ABI's order, for which the loop of lines 91-122
\* returns an error, and which error; 0 when there is none.
FirstMissing(params, inputs) ==
  SelectInSeq(inputs, LAMBDA n : FindParam(params, n) \in {0, Len(params)})

\* build_json_from_params, lines 83-125.
BuildJsonFromParams(params, m) ==
  IF m \notin DOMAIN Abi
    THEN [kind |-> "err", val |-> "failed to load function from abi"]
  ELSE LET inputs == Abi[m]
           k == FirstMissing(params, inputs)
       IN  IF k # 0
             THEN [kind |-> "err",
                   val  |-> IF FindParam(params, inputs[k]) = 0
                              THEN "not found" ELSE "has no value"]
             ELSE [kind |-> "obj",
                   val  |-> [n \in ToSet(inputs) |->
                               params[FindParam(params, n) + 1]]]

\* Mutant: the whole parameter vector is passed on as the JSON string.
ParseParamsOfWhole(params, m) ==
  IF Len(params) = 1 THEN [kind |-> "json", val |-> params]
                     ELSE BuildJsonFromParams(params, m)

\* parse_params, lines 486-493: a single parameter is the JSON itself.
ParseParamsOf(params, m) ==
  IF Len(params) = 1 THEN [kind |-> "json", val |-> params[1]]
                     ELSE BuildJsonFromParams(params, m)

-----------------------------------------------------------------------------
\* The command line written for the arguments a, keys in the given order:
\* the p-th key, with its dashes, at 2p-1 and its value right after it.
CommandLine(a, order, dash) ==
  [j \in 1..(2 * Len(order)) |->
     LET n == order[(j + 1) \div 2]
     IN  IF j % 2 = 1 THEN Token(dash[n], n) ELSE Token(0, a[n])]

\* A call is given either "--name value" pairs written for some of the
\* inputs of a method (the user may leave some out), or a single JSON
\* string.
Invocation ==
  \E m \in DOMAIN Abi : \E given \in SUBSET ToSet(Abi[m]) :
     /\ method \in {m, Unknown}
     /\ args \in [given -> Words]
     /\ \/ \E order \in Bijection(1..Cardinality(given), given),
              dash \in [given -> 1..MaxDashes] :
             argv = CommandLine(args, order, dash)
        \/ \E v \in Values : argv = <<Token(0, v)>>

Init == Invocation /\ out = NoOut

\* The call of parse_params.
Parse ==
  /\ out = NoOut
  /\ out' = ParseParamsOf(argv, method)
  /\ UNCHANGED <<method, args, argv>>

Next == Parse

Spec == Init /\ [][Next]_vars

-----------------------------------------------------------------------------
Tokens == [dashes : 0..MaxDashes, word : Words]

Errors == {"failed to load function from abi", "not found", "has no value"}

\* Every variable holds a value of its type: the JSON string is one token,
\* an object maps input names to tokens.
TypeOK ==
  /\ method \in DOMAIN Abi \cup {Unknown}
  /\ argv \in Seq(Tokens)
  /\ out.kind \in {"none", "err", "json", "obj"}
  /\ out.kind = "err" => out.val \in Errors
  /\ out.kind = "json" => DOMAIN out.val = {"dashes", "word"}
                          /\ out.val \in Tokens
  /\ out.kind = "obj" => out.val \in [DOMAIN out.val -> Tokens]
                         /\ DOMAIN out.val \subseteq InputNames

\* The arguments the user meant, as build_json_from_params should return
\* them.
Meant == [n \in DOMAIN args |-> Token(0, args[n])]

\* For a known method called with "--name value" pairs whose values are
\* not input names, parse_params gives back exactly the arguments written
\* when every input was given, whatever the order of the keys and their
\* dashes, and an error naming a missing argument otherwise.
RoundTripPlainValues ==
  (out # NoOut /\ method # Unknown /\ Len(argv) # 1
     /\ \A n \in DOMAIN args : args[n] \in Values)
    => IF DOMAIN args = ToSet(Abi[method])
         THEN out = [kind |-> "obj", val |-> Meant]
         ELSE out.kind = "err"

\* The command line carries the arguments it was written for (the round
\* trip of spec 8, taken from the command line): every line giving all the
\* inputs of a known method parses to exactly those arguments.
ParamsRoundTrip ==
  (out # NoOut /\ method # Unknown /\ Len(argv) # 1
     /\ DOMAIN args = ToSet(Abi[method]))
    => out = [kind |-> "obj", val |-> Meant]
=============================================================================
