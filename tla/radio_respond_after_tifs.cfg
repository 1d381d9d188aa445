CONSTANTS
  TxPowers <- MC_TxPowers
  TxPowerInputs <- MC_TxPowerInputs
  Channels <- MC_Channels
  AdvAnswers <- MC_AdvAnswersAll
  QuiescentCalls = TRUE
  MaxWraps = 0
  RxDisableInstant = TRUE
SPECIFICATION Spec
PROPERTY TxCompletes
