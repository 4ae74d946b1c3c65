------------------------- MODULE MCMacOSInputSource -------------------------
(* A tablet that reports pressure or nothing, used beside a mouse, and a   *)
(* tablet point with force: whether the sample has it depends on the mask. *)
EXTENDS MacOSInputSource

MCTabletMasks == {{}, {"Pressure"}}
OneReading    == {{"Pressure"}}
=============================================================================
