CONSTANTS
  AddressInputId = addressInput
  AmountInputId = amountInput
  OtherIds = {menu, terminal}
  Slots = {c1, c2, c3}
  MaxInputs = 2
  U32Max <- MCU32Max
  AnswerArgs <- MCAnswerArgs

SPECIFICATION Spec
\* Once every call has returned the engine has nothing left to do.
CHECK_DEADLOCK FALSE

INVARIANTS
  TypeOK
  ScriptedInputsDelivered
