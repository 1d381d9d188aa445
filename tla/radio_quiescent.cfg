CONSTANTS
  TxPowers <- MC_TxPowers
  TxPowerInputs <- MC_TxPowerInputs
  Channels <- MC_Channels
  AdvAnswers <- MC_AdvAnswersNoTifs
  QuiescentCalls = TRUE
  MaxWraps = 0
  RxDisableInstant = TRUE
SPECIFICATION Spec
INVARIANTS TypeOK BufferDiscipline
PROPERTIES ReceiveEndAfterStart TxCompletes FrameEnds
