---------------------------- MODULE MCMonitoring ----------------------------
(* Monitoring for TLC: an ltc2945, two Fireflies, a temperature and a voltage
   of the Zynq of which two files can fail. *)
EXTENDS Monitoring

MCSensors == <<"ltc", "ff13", "ff12">>
MCKind == [s \in {"ltc", "ff13", "ff12"} |-> IF s = "ltc" THEN "ltc2945" ELSE "firefly4"]
MCKeyOf == [s \in {"ltc", "ff13", "ff12"} |->
  CASE s = "ltc" -> "ltc2945_v1p8" [] s = "ff13" -> "firefly13" [] s = "ff12" -> "firefly12"]
MCChannels == <<"PL temp", "VCCINT">>
MCTemperatures == {"PL temp"}
MCFallible == {<<"PL temp", "offset">>, <<"VCCINT", "raw">>}
MCBaseName == [c \in {"PL temp", "VCCINT"} |-> IF c = "PL temp" THEN "in_temp20" ELSE "in_voltage2"]
MCFpgaRows == <<<<"vint", 2>>>>
MCLower == [name \in {"PL temp", "VCCINT", "TMP100_z"} |->
  CASE name = "PL temp" -> "pl temp" [] name = "VCCINT" -> "vccint" [] name = "TMP100_z" -> "tmp100_z"]

=============================================================================
