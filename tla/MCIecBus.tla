------------------------------- MODULE MCIecBus -------------------------------
(* Two drives, of types with and without the answer to ATN that toggles.    *)
EXTENDS IecBus

TwoUnits == <<"8", "9">>
AnyLines == Lines
AnyOutputs == Outputs
=============================================================================
