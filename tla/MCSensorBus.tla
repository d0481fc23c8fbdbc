---------------------------- MODULE MCSensorBus ----------------------------
(* SensorBus for TLC: an ltc2945 between two Fireflies and the SFP. *)
EXTENDS SensorBus

MCSensors == <<"ff1", "ltc", "ff2", "ttc">>
MCKind == [s \in {"ff1", "ltc", "ff2", "ttc"} |->
  IF s = "ltc" THEN "ltc2945" ELSE IF s = "ttc" THEN "sfp" ELSE "firefly4"]

=============================================================================
