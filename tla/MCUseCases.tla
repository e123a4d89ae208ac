----------------------------- MODULE MCUseCases -----------------------------
(* Values of UseCases for TLC.                                               *)
EXTENDS UseCases

MCOuts == {"primary"}
MCSessions == {"lpa"}
MCCaptures == {"rec"}
MCCalls == {"voice"}
MCOutputs == {"speaker", "headset"}
MCInputs == {"mic"}
MCCallStates == {"INACTIVE", "ACTIVE", "HOLD"}
MCModes == {"NORMAL", "IN_CALL"}
MCFaults == {"voice", "voip", "write"}
=============================================================================
