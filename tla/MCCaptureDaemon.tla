-------------------------- MODULE MCCaptureDaemon --------------------------
(***************************************************************************)
(* Constants for model checking CaptureDaemon, as in MCCaptureStateMachine.*)
(***************************************************************************)
EXTENDS CaptureDaemon

MCFormat == {"small", "large", "jpeg"}
MCCompressed == {"jpeg"}
MCSizeImage == [f \in MCFormat |-> IF f = "small" THEN 1 ELSE 2]
MCSizes == {1, 2}
=============================================================================
