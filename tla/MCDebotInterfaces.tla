------------------------ MODULE MCDebotInterfaces ------------------------
(***************************************************************************)
(* DebotInterfaces with three concurrent interface calls, two scripted     *)
(* inputs (so that one call finds the pipechain exhausted), two of the     *)
(* eight unwrapped interfaces, and answerId arguments covering each way    *)
(* decode_answer_id can go.  A u32 is narrowed to 8 bits: only the        *)
(* comparison with the largest value matters, and it is kept.             *)
(***************************************************************************)
EXTENDS DebotInterfaces

MCU32Max == 255

MCAnswerArgs ==
  { [str |-> FALSE, sign |-> "none", digits |-> FALSE, val |-> 0],
    [str |-> TRUE, sign |-> "none", digits |-> TRUE, val |-> 7],
    [str |-> TRUE, sign |-> "plus", digits |-> TRUE, val |-> 7],
    [str |-> TRUE, sign |-> "minus", digits |-> TRUE, val |-> 1],
    [str |-> TRUE, sign |-> "none", digits |-> FALSE, val |-> 0],
    [str |-> TRUE, sign |-> "none", digits |-> TRUE, val |-> MCU32Max],
    [str |-> TRUE, sign |-> "none", digits |-> TRUE, val |-> MCU32Max + 1] }
=============================================================================
