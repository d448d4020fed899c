------------------------- MODULE ParseParamsProofs -------------------------
(***************************************************************************)
(* Proofs about ParseParams for every ABI, every set of plain values and   *)
(* every number of dashes: what the key search of build_json_from_params  *)
(* (src/src/call.rs 91-98) returns, and that a command line written as    *)
(* "--name value" pairs with plain values is parsed back to exactly the    *)
(* arguments it was written for.                                           *)
(***************************************************************************)
EXTENDS ParseParams, TLAPS, FiniteSetTheorems, SequenceTheorems,
        WellFoundedInduction

USE AbiAssumption, MaxDashesAssumption

-----------------------------------------------------------------------------
(***************************************************************************)
(* SelectInSeq returns the least index that passes its test.  A non-empty  *)
(* set of naturals has a least element because < is well-founded on Nat.   *)
(***************************************************************************)
LEMMA LeastIndex ==
  ASSUME NEW I \in SUBSET Nat, I # {}
  PROVE  Min(I) \in I /\ \A y \in I : Min(I) <= y
<1>1. \E x \in I : \A y \in I : ~(<<y, x>> \in OpToRel(<, Nat))
  BY NatLessThanWellFounded, WFMin
<1>2. \E x \in I : \A y \in I : ~(y < x)
  BY <1>1, Zenon DEF OpToRel
<1>3. \E x \in I : \A y \in I : x <= y
  BY <1>2
<1>4. QED
  BY <1>3, Zenon DEF Min

\* iter.find of line 92: an index of the command line, 0 exactly when no
\* token names the input, and otherwise a token that names it.
LEMMA FindParamSpec ==
  ASSUME NEW params \in Seq(Tokens), NEW name
  PROVE  /\ FindParam(params, name) \in 0..Len(params)
         /\ FindParam(params, name) = 0
              <=> \A i \in 1..Len(params) : params[i].word # name
         /\ FindParam(params, name) # 0
              => params[FindParam(params, name)].word = name
<1> DEFINE I == {i \in 1..Len(params) : TrimDashes(params[i]) = name}
<1>1. FindParam(params, name) = IF I # {} THEN Min(I) ELSE 0
  BY DEF FindParam, SelectInSeq
<1>2. CASE I = {}
  BY <1>1, <1>2 DEF TrimDashes
<1>3. CASE I # {}
  <2>1. Min(I) \in I
    <3>1. I \in SUBSET Nat
      OBVIOUS
    <3>2. QED
      BY <1>3, <3>1, LeastIndex
  <2>2. QED
    BY <1>1, <1>3, <2>1 DEF TrimDashes
<1>4. QED
  BY <1>2, <1>3

\* The loop of lines 91-122 stops at an input whose key is missing or is
\* the last token, and runs through when there is none.
LEMMA FirstMissingSpec ==
  ASSUME NEW params \in Seq(Tokens), NEW inputs \in Seq(STRING)
  PROVE  /\ FirstMissing(params, inputs) \in 0..Len(inputs)
         /\ FirstMissing(params, inputs) = 0
              <=> \A j \in 1..Len(inputs) :
                    FindParam(params, inputs[j]) \notin {0, Len(params)}
         /\ FirstMissing(params, inputs) # 0
              => FindParam(params, inputs[FirstMissing(params, inputs)])
                   \in {0, Len(params)}
<1> DEFINE I == {j \in 1..Len(inputs) :
                   FindParam(params, inputs[j]) \in {0, Len(params)}}
<1>1. FirstMissing(params, inputs) = IF I # {} THEN Min(I) ELSE 0
  BY DEF FirstMissing, SelectInSeq
<1>2. CASE I = {}
  BY <1>1, <1>2
<1>3. CASE I # {}
  <2>1. Min(I) \in I
    <3>1. I \in SUBSET Nat
      OBVIOUS
    <3>2. QED
      BY <1>3, <3>1, LeastIndex
  <2>2. QED
    BY <1>1, <1>3, <2>1
<1>4. QED
  BY <1>2, <1>3

-----------------------------------------------------------------------------
(***************************************************************************)
(* The command lines of Invocation.                                        *)
(***************************************************************************)
\* An order of the given keys lists each of them exactly once.
LEMMA OrderFacts ==
  ASSUME NEW m \in DOMAIN Abi, NEW given \in SUBSET ToSet(Abi[m]),
         NEW order \in Bijection(1..Cardinality(given), given)
  PROVE  /\ given \subseteq InputNames
         /\ order \in Seq(given)
         /\ \A p, q \in 1..Len(order) : order[p] = order[q] => p = q
         /\ \A n \in given : \E p \in 1..Len(order) : order[p] = n
<1>1. IsFiniteSet(ToSet(Abi[m]))
  <2>1. Abi[m] \in Surjection(1..Len(Abi[m]), ToSet(Abi[m]))
    BY DEF Surjection, ToSet
  <2>2. QED
    BY <2>1, FS_Surjection, FS_Interval
<1>2. Cardinality(given) \in Nat
  BY <1>1, FS_Subset, FS_CardinalityType
<1>3. /\ order \in [1..Cardinality(given) -> given]
      /\ IsInjective(order)
      /\ \A n \in given : \E p \in 1..Cardinality(given) : order[p] = n
  BY DEF Bijection, Injection, Surjection
<1>4. Len(order) = Cardinality(given)
  BY <1>2, <1>3
<1>5. QED
  BY <1>2, <1>3, <1>4 DEF IsInjective, InputNames

\* The p-th key sits at 2p-1 and its value at 2p, and nothing else is on
\* the line.
LEMMA CommandLineFacts ==
  ASSUME NEW m \in DOMAIN Abi, NEW given \in SUBSET ToSet(Abi[m]),
         NEW a \in [given -> Words],
         NEW order \in Bijection(1..Cardinality(given), given),
         NEW dash \in [given -> 1..MaxDashes]
  PROVE  LET cl == CommandLine(a, order, dash)
             L == Len(order)
         IN  /\ cl \in Seq(Tokens)
             /\ Len(cl) = 2 * L
             /\ \A p \in 1..L :
                  /\ cl[2 * p - 1] = Token(dash[order[p]], order[p])
                  /\ cl[2 * p] = Token(0, a[order[p]])
             /\ \A j \in 1..Len(cl) : \E p \in 1..L : j \in {2 * p - 1, 2 * p}
<1> DEFINE cl == CommandLine(a, order, dash)
           L == Len(order)
<1>1. order \in Seq(given) /\ given \subseteq InputNames
  BY OrderFacts
<1>2. L \in Nat
  BY <1>1
<1>3. \A j \in 1..(2 * L) : (j + 1) \div 2 \in 1..L
  BY <1>2
<1>4. cl \in [1..(2 * L) -> Tokens]
  BY <1>1, <1>3 DEF CommandLine, Token, Tokens, Words
<1>5. cl \in Seq(Tokens) /\ Len(cl) = 2 * L
  BY <1>2, <1>4
<1>6. ASSUME NEW p \in 1..L
      PROVE  /\ cl[2 * p - 1] = Token(dash[order[p]], order[p])
             /\ cl[2 * p] = Token(0, a[order[p]])
  <2>1. (2 * p - 1 + 1) \div 2 = p /\ (2 * p - 1) % 2 = 1
    BY <1>2
  <2>2. (2 * p + 1) \div 2 = p /\ (2 * p) % 2 = 0
    BY <1>2
  <2>3. QED
    BY <1>2, <2>1, <2>2 DEF CommandLine
<1>7. \A j \in 1..(2 * L) : \E p \in 1..L : j \in {2 * p - 1, 2 * p}
  <2>1. SUFFICES ASSUME NEW j \in 1..(2 * L)
                 PROVE  \E p \in 1..L : j \in {2 * p - 1, 2 * p}
    OBVIOUS
  <2>2. (j + 1) \div 2 \in 1..L /\ j \in {2 * ((j + 1) \div 2) - 1, 2 * ((j + 1) \div 2)}
    BY <1>2
  <2>3. QED
    BY <2>2
<1>8. QED
  BY <1>5, <1>6, <1>7

\* With plain values, the key search of line 92 finds the p-th key at
\* 2p-1, whatever its dashes, and finds no token for an input left out.
LEMMA KeyIndex ==
  ASSUME NEW m \in DOMAIN Abi, NEW given \in SUBSET ToSet(Abi[m]),
         NEW a \in [given -> Values],
         NEW order \in Bijection(1..Cardinality(given), given),
         NEW dash \in [given -> 1..MaxDashes]
  PROVE  LET cl == CommandLine(a, order, dash)
         IN  /\ \A p \in 1..Len(order) : FindParam(cl, order[p]) = 2 * p - 1
             /\ \A n \in InputNames \ given : FindParam(cl, n) = 0
<1> DEFINE cl == CommandLine(a, order, dash)
           L == Len(order)
<1>1. a \in [given -> Words]
  BY DEF Words
<1>2. /\ cl \in Seq(Tokens)
      /\ Len(cl) = 2 * L
      /\ \A p \in 1..L :
           /\ cl[2 * p - 1] = Token(dash[order[p]], order[p])
           /\ cl[2 * p] = Token(0, a[order[p]])
      /\ \A j \in 1..Len(cl) : \E p \in 1..L : j \in {2 * p - 1, 2 * p}
  BY <1>1, CommandLineFacts
<1>3. /\ given \subseteq InputNames
      /\ order \in Seq(given)
      /\ \A p, q \in 1..L : order[p] = order[q] => p = q
  BY OrderFacts
\* Every token names a given key or is a plain value.
<1>4. \A j \in 1..Len(cl) :
        \/ \E p \in 1..L : j = 2 * p - 1 /\ cl[j].word = order[p]
        \/ cl[j].word \in Values
  <2>1. SUFFICES ASSUME NEW j \in 1..Len(cl)
                 PROVE  \/ \E p \in 1..L : j = 2 * p - 1 /\ cl[j].word = order[p]
                        \/ cl[j].word \in Values
    OBVIOUS
  <2>2. PICK p \in 1..L : j \in {2 * p - 1, 2 * p}
    BY <1>2
  <2>3. CASE j = 2 * p - 1
    <3>1. cl[j] = Token(dash[order[p]], order[p])
      BY <1>2, <2>2, <2>3
    <3>2. cl[j].word = order[p]
      BY <3>1 DEF Token
    <3>3. QED
      BY <2>2, <2>3, <3>2
  <2>4. CASE j = 2 * p
    <3>1. order[p] \in given
      BY <1>3, <2>2
    <3>2. cl[j] = Token(0, a[order[p]])
      BY <1>2, <2>2, <2>4
    <3>3. cl[j].word = a[order[p]]
      BY <3>2 DEF Token
    <3>4. QED
      BY <3>1, <3>3
  <2>5. QED
    BY <2>2, <2>3, <2>4
<1>5. ASSUME NEW p \in 1..L PROVE FindParam(cl, order[p]) = 2 * p - 1
  <2> DEFINE k == FindParam(cl, order[p])
  <2>1. /\ k \in 0..Len(cl)
        /\ k = 0 <=> \A i \in 1..Len(cl) : cl[i].word # order[p]
        /\ k # 0 => cl[k].word = order[p]
    BY <1>2, FindParamSpec
  <2>2. cl[2 * p - 1].word = order[p] /\ 2 * p - 1 \in 1..Len(cl)
    <3>1. L \in Nat
      BY <1>3
    <3>2. 2 * p - 1 \in 1..Len(cl)
      BY <1>2, <3>1
    <3>3. cl[2 * p - 1] = Token(dash[order[p]], order[p])
      BY <1>2
    <3>4. QED
      BY <3>2, <3>3 DEF Token
  <2>3. k \in 1..Len(cl) /\ cl[k].word = order[p]
    BY <2>1, <2>2
  <2>4. order[p] \notin Values
    BY <1>3, AbiAssumption
  <2>5. PICK q \in 1..L : k = 2 * q - 1 /\ cl[k].word = order[q]
    BY <1>4, <2>3, <2>4
  <2>6. q = p
    BY <1>3, <2>3, <2>5
  <2>7. QED
    BY <2>5, <2>6
<1>6. ASSUME NEW n \in InputNames \ given PROVE FindParam(cl, n) = 0
  <2>1. \A i \in 1..Len(cl) : cl[i].word # n
    <3>1. n \notin Values
      BY AbiAssumption
    <3>2. \A p \in 1..L : order[p] # n
      BY <1>3
    <3>3. QED
      BY <1>4, <3>1, <3>2
  <2>2. QED
    BY <1>2, <2>1, FindParamSpec
<1>7. QED
  BY <1>5, <1>6

\* build_json_from_params on such a command line returns the object of
\* exactly the written arguments when every input of the method was given,
\* and an error when one was left out.
LEMMA ParseCommandLine ==
  ASSUME NEW m \in DOMAIN Abi, NEW given \in SUBSET ToSet(Abi[m]),
         NEW a \in [given -> Values],
         NEW order \in Bijection(1..Cardinality(given), given),
         NEW dash \in [given -> 1..MaxDashes]
  PROVE  LET cl == CommandLine(a, order, dash)
         IN  IF given = ToSet(Abi[m])
               THEN BuildJsonFromParams(cl, m)
                      = [kind |-> "obj", val |-> [n \in given |-> Token(0, a[n])]]
               ELSE BuildJsonFromParams(cl, m).kind = "err"
<1> DEFINE cl == CommandLine(a, order, dash)
           L == Len(order)
           inputs == Abi[m]
<1>1. a \in [given -> Words]
  BY DEF Words
<1>2. /\ cl \in Seq(Tokens)
      /\ Len(cl) = 2 * L
      /\ \A p \in 1..L : cl[2 * p] = Token(0, a[order[p]])
  BY <1>1, CommandLineFacts
<1>3. /\ \A p \in 1..L : FindParam(cl, order[p]) = 2 * p - 1
      /\ \A n \in InputNames \ given : FindParam(cl, n) = 0
  BY KeyIndex
<1>4. /\ order \in Seq(given)
      /\ \A n \in given : \E p \in 1..L : order[p] = n
  BY OrderFacts
<1>5. inputs \in Seq(STRING) /\ ToSet(inputs) \subseteq InputNames
  BY AbiAssumption DEF InputNames
<1>6. CASE given = ToSet(inputs)
  <2>1. ASSUME NEW n \in given
        PROVE  /\ FindParam(cl, n) \in 1..(Len(cl) - 1)
               /\ cl[FindParam(cl, n) + 1] = Token(0, a[n])
    <3>1. PICK p \in 1..L : order[p] = n
      BY <1>4
    <3>2. FindParam(cl, n) = 2 * p - 1
      BY <1>3, <3>1
    <3>3. L \in Nat
      BY <1>4
    <3>4. QED
      BY <1>2, <3>1, <3>2, <3>3
  <2>2. FirstMissing(cl, inputs) = 0
    <3>1. \A j \in 1..Len(inputs) : FindParam(cl, inputs[j]) \notin {0, Len(cl)}
      BY <1>6, <2>1 DEF ToSet
    <3>2. QED
      BY <1>2, <1>5, <3>1, FirstMissingSpec
  <2>3. QED
    BY <1>6, <2>1, <2>2 DEF BuildJsonFromParams
<1>7. CASE given # ToSet(inputs)
  <2>1. PICK n \in ToSet(inputs) : n \notin given
    BY <1>7
  <2>2. PICK j \in 1..Len(inputs) : inputs[j] = n
    BY <2>1 DEF ToSet
  <2>3. FindParam(cl, inputs[j]) = 0
    BY <1>3, <1>5, <2>1, <2>2
  <2>4. FirstMissing(cl, inputs) # 0
    BY <1>2, <1>5, <2>2, <2>3, FirstMissingSpec
  <2>5. QED
    BY <1>7, <2>4 DEF BuildJsonFromParams
<1>8. QED
  BY <1>6, <1>7

\* What parse_params returns for any vector of tokens is well typed: the
\* value taken for an input is a token of the vector, never one past its
\* end, because the loop stops at a key that is the last token.
LEMMA ParseParamsOfType ==
  ASSUME NEW params \in Seq(Tokens), NEW mm
  PROVE  LET o == ParseParamsOf(params, mm)
         IN  /\ o.kind \in {"err", "json", "obj"}
             /\ o.kind = "err" => o.val \in Errors
             /\ o.kind = "json" => DOMAIN o.val = {"dashes", "word"}
                                   /\ o.val \in Tokens
             /\ o.kind = "obj" => o.val \in [DOMAIN o.val -> Tokens]
                                  /\ DOMAIN o.val \subseteq InputNames
<1>1. CASE Len(params) = 1
  <2>0. 1 \in 1..Len(params)
    BY <1>1
  <2>1. params[1] \in Tokens
    BY <2>0, ElementOfSeq, Zenon
  <2>2. DOMAIN params[1] = {"dashes", "word"}
    BY <2>1 DEF Tokens
  <2>3. QED
    BY <1>1, <2>1, <2>2 DEF ParseParamsOf
<1>2. CASE Len(params) # 1 /\ mm \notin DOMAIN Abi
  BY <1>2 DEF ParseParamsOf, BuildJsonFromParams, Errors
<1>3. CASE Len(params) # 1 /\ mm \in DOMAIN Abi
  <2> DEFINE inputs == Abi[mm]
             k == FirstMissing(params, inputs)
  <2>1. inputs \in Seq(STRING) /\ ToSet(inputs) \subseteq InputNames
    BY <1>3, AbiAssumption DEF InputNames
  <2>2. CASE k # 0
    BY <1>3, <2>2 DEF ParseParamsOf, BuildJsonFromParams, Errors
  <2>3. CASE k = 0
    <3>1. ASSUME NEW n \in ToSet(inputs)
          PROVE  params[FindParam(params, n) + 1] \in Tokens
      <4>1. PICK j \in 1..Len(inputs) : inputs[j] = n
        BY DEF ToSet
      <4>2. FindParam(params, n) \notin {0, Len(params)}
        BY <2>1, <2>3, <4>1, FirstMissingSpec
      <4>3. FindParam(params, n) \in 0..Len(params)
        BY FindParamSpec
      <4>4. QED
        BY <4>2, <4>3
    <3>2. QED
      BY <1>3, <2>1, <2>3, <3>1 DEF ParseParamsOf, BuildJsonFromParams
  <2>4. QED
    BY <2>2, <2>3
<1>4. QED
  BY <1>1, <1>2, <1>3

-----------------------------------------------------------------------------
(***************************************************************************)
(* The inductive invariant: the call is one of the invocations of Init,    *)
(* and once parse_params has run, out is what it returns on them.          *)
(***************************************************************************)
Parsed == out # NoOut => out = ParseParamsOf(argv, method)

PInv == TypeOK /\ Invocation /\ Parsed

\* Every invocation is a vector of tokens.
LEMMA InvocationType ==
  ASSUME Invocation
  PROVE  method \in DOMAIN Abi \cup {Unknown} /\ argv \in Seq(Tokens)
<1>0. PICK m \in DOMAIN Abi : \E given \in SUBSET ToSet(Abi[m]) :
        /\ method \in {m, Unknown}
        /\ args \in [given -> Words]
        /\ \/ \E order \in Bijection(1..Cardinality(given), given),
                 dash \in [given -> 1..MaxDashes] :
                argv = CommandLine(args, order, dash)
           \/ \E v \in Values : argv = <<Token(0, v)>>
  BY DEF Invocation
<1>1. PICK given \in SUBSET ToSet(Abi[m]) :
        /\ method \in {m, Unknown}
        /\ args \in [given -> Words]
        /\ \/ \E order \in Bijection(1..Cardinality(given), given),
                 dash \in [given -> 1..MaxDashes] :
                argv = CommandLine(args, order, dash)
           \/ \E v \in Values : argv = <<Token(0, v)>>
  BY <1>0
<1>2. CASE \E order \in Bijection(1..Cardinality(given), given),
              dash \in [given -> 1..MaxDashes] :
             argv = CommandLine(args, order, dash)
  BY <1>1, <1>2, CommandLineFacts
<1>3. CASE \E v \in Values : argv = <<Token(0, v)>>
  BY <1>1, <1>3 DEF Tokens, Token, Words
<1>4. QED
  BY <1>1, <1>2, <1>3

LEMMA PInvInit == Init => PInv
<1> SUFFICES ASSUME Init PROVE PInv
  OBVIOUS
<1>1. method \in DOMAIN Abi \cup {Unknown} /\ argv \in Seq(Tokens)
  BY InvocationType DEF Init
<1>2. QED
  BY <1>1 DEF Init, PInv, TypeOK, Parsed, NoOut

LEMMA PInvNext == PInv /\ [Next]_vars => PInv'
<1> SUFFICES ASSUME PInv, [Next]_vars PROVE PInv'
  OBVIOUS
<1>1. argv \in Seq(Tokens) /\ method \in DOMAIN Abi \cup {Unknown}
  BY DEF PInv, TypeOK
<1>2. Invocation'
  <2>1. UNCHANGED <<method, args, argv>>
    BY DEF Next, Parse, vars
  <2>2. QED
    BY <2>1 DEF PInv, Invocation
<1>3. CASE Parse
  <2>1. out' = ParseParamsOf(argv, method) /\ UNCHANGED <<method, argv>>
    BY <1>3 DEF Parse
  <2>2. TypeOK'
    BY <1>1, <2>1, ParseParamsOfType DEF TypeOK
  <2>3. QED
    BY <1>2, <2>1, <2>2 DEF PInv, Parsed
<1>4. CASE UNCHANGED vars
  BY <1>2, <1>4 DEF vars, PInv, TypeOK, Parsed
<1>5. QED
  BY <1>3, <1>4 DEF Next

\* The strengthening gives the round trip: a parsed command line of a known
\* method is one written as pairs (a JSON string is one token), and
\* ParseCommandLine says what build_json_from_params makes of it.
LEMMA PInvRoundTrip == PInv => RoundTripPlainValues
<1> SUFFICES ASSUME PInv, out # NoOut, method # Unknown, Len(argv) # 1,
                    \A n \in DOMAIN args : args[n] \in Values
             PROVE  IF DOMAIN args = ToSet(Abi[method])
                      THEN out = [kind |-> "obj", val |-> Meant]
                      ELSE out.kind = "err"
  BY DEF RoundTripPlainValues
<1>1. PICK m \in DOMAIN Abi : \E given \in SUBSET ToSet(Abi[m]) :
        /\ method \in {m, Unknown}
        /\ args \in [given -> Words]
        /\ \/ \E order \in Bijection(1..Cardinality(given), given),
                 dash \in [given -> 1..MaxDashes] :
                argv = CommandLine(args, order, dash)
           \/ \E v \in Values : argv = <<Token(0, v)>>
  BY DEF PInv, Invocation
<1>2. PICK given \in SUBSET ToSet(Abi[m]) :
        /\ method \in {m, Unknown}
        /\ args \in [given -> Words]
        /\ \/ \E order \in Bijection(1..Cardinality(given), given),
                 dash \in [given -> 1..MaxDashes] :
                argv = CommandLine(args, order, dash)
           \/ \E v \in Values : argv = <<Token(0, v)>>
  BY <1>1
<1>3. method = m /\ args \in [given -> Values] /\ DOMAIN args = given
  BY <1>2
<1>4. PICK order \in Bijection(1..Cardinality(given), given),
           dash \in [given -> 1..MaxDashes] :
             argv = CommandLine(args, order, dash)
  BY <1>2
<1>5. out = BuildJsonFromParams(argv, m)
  BY <1>3 DEF PInv, Parsed, ParseParamsOf
<1>6. Meant = [n \in given |-> Token(0, args[n])]
  BY <1>3 DEF Meant
<1>7. QED
  BY <1>3, <1>4, <1>5, <1>6, ParseCommandLine

-----------------------------------------------------------------------------
\* Every value parse_params (call.rs 486-493) returns is well typed, for
\* every ABI: a JSON string is one token, and the object of
\* build_json_from_params maps input names to tokens of the command line,
\* never to one past its end.
THEOREM TypeCorrect == Spec => []TypeOK
<1>1. PInv => TypeOK
  BY DEF PInv
<1>2. QED
  BY <1>1, PInvInit, PInvNext, PTL DEF Spec

\* For every ABI and every command line of "--name value" pairs with plain
\* values, in any order and with any number of dashes per key,
\* build_json_from_params (call.rs 83-125) returns exactly the arguments
\* written when every input of the method was given, and an error when one
\* was left out.
THEOREM RoundTripPlainValuesThm == Spec => []RoundTripPlainValues
  BY PInvInit, PInvNext, PInvRoundTrip, PTL DEF Spec
=============================================================================
