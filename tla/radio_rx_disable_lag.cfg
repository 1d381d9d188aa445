CONSTANTS
  TxPowers <- MC_TxPowers
  TxPowerInputs <- MC_TxPowerInputs
  Channels <- MC_Channels
  AdvAnswers <- MC_AdvAnswersNoTifs
  QuiescentCalls = TRUE
  MaxWraps = 0
  RxDisableInstant = FALSE
SPECIFICATION Spec
INVARIANT BufferDiscipline
