----------------------- MODULE MCCaptureStateMachine -----------------------
(***************************************************************************)
(* Constants for model checking CaptureStateMachine: two raw formats of    *)
(* different sizes and a compressed one, whose size_image is only an upper *)
(* bound.                                                                  *)
(***************************************************************************)
EXTENDS CaptureStateMachine

MCFormat == {"small", "large", "jpeg"}
MCCompressed == {"jpeg"}
MCSizeImage == [f \in MCFormat |-> IF f = "small" THEN 1 ELSE 2]
MCSizes == {1, 2}
=============================================================================
