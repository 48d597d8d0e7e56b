----------------------------- MODULE MCDdeServer -----------------------------
(* Two clients and the strings that tell the paths of the server apart.    *)
EXTENDS DdeServer

MCSet == [kind |-> "set", display |-> FALSE, no_wait |-> FALSE, saturation |-> FALSE]
MCCalibrate == [MCSet EXCEPT !.kind = "configure"]
MCMeasure == [MCSet EXCEPT !.kind = "measure"]
MCShowNoWait == [MCMeasure EXCEPT !.display = TRUE, !.no_wait = TRUE]
MCSaturation == [MCShowNoWait EXCEPT !.saturation = TRUE]

MCScripts == { <<>>, <<MCShowNoWait>>, <<MCShowNoWait, MCSet>>, <<MCMeasure>>,
               <<MCCalibrate, MCSaturation>> }
=============================================================================
