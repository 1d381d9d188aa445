----------------------------- MODULE MC_BleRadio -----------------------------
(* Model-checking instance of BleRadio: one valid TX power level and one   *)
(* input TxPower::try_from rejects, one RF channel.                        *)
EXTENDS BleRadio

MC_TxPowers == {"ZerodBm", "Pos4dBm"}
MC_TxPowerInputs == {"ZerodBm", "Pos4dBm", "Unsupported"}
MC_Channels == {"ch37"}
MC_AdvAnswersNoTifs == {"TX", "GoToSleep"}
MC_AdvAnswersAll == {"TX", "RespondAfterTifs", "GoToSleep"}
=============================================================================
