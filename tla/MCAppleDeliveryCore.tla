------------------------ MODULE MCAppleDeliveryCore ------------------------
(* A small device: it may report pressure or nothing, and a point may or   *)
(* may not carry a pressure reading.                                       *)
EXTENDS AppleDeliveryCore

MCMasks    == {{}, {"Pressure"}}
MCReadings == {{}, {"Pressure"}}
=============================================================================
