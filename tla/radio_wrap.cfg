CONSTANTS
  TxPowers <- MC_TxPowers
  TxPowerInputs <- MC_TxPowerInputs
  Channels <- MC_Channels
  AdvAnswers <- MC_AdvAnswersNoTifs
  QuiescentCalls = TRUE
  MaxWraps = 1
  RxDisableInstant = TRUE
SPECIFICATION Spec

PROPERTIES ReceiveEndAfterStart TxCompletes FrameEnds
