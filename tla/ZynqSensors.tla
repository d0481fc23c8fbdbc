---------------------------- MODULE ZynqSensors ----------------------------
(***************************************************************************)
(* The Zynq's own temperatures and voltages (Sensor/src/zynqOnBoard.c).    *)
(* Each channel has files below /sys that hold its raw value and its       *)
(* conversion constants.  The constants are read once, in the first calls  *)
(* of zynqOnBoardRead() until one of them gets to the last channel.        *)
(*                                                                         *)
(* A call runs in one thread and is one step: the files it finds are the   *)
(* parameter of the step.  What a number is worth is modelled by where it  *)
(* comes from.                                                             *)
(***************************************************************************)
EXTENDS Naturals, Sequences, FiniteSetsExt

CONSTANTS
  Channels,      (* the rows of zynqDataRecs, in their order               *)
  Temperatures,  (* those that have an offset, too                         *)
  Fallible       (* bound: the files whose reading can fail                *)

C == {Channels[i] : i \in DOMAIN Channels}
Files == C \X {"scale", "offset", "raw"}

ASSUME ZynqAssumption ==
  /\ Channels \in Seq(C) /\ Channels # <<>>
  /\ \A i, j \in DOMAIN Channels : Channels[i] = Channels[j] => i = j
  /\ Temperatures \subseteq C
  /\ Fallible \subseteq Files

VARIABLES
  initDone,  (* no more reading of constants                               *)
  err,       (* of each channel: which file could not be read              *)
  scale,     (* where each channel's scale and ...                         *)
  offset,    (* ... offset come from; behind a missing file it is the table  *)
  value      (* the last conversion, and with which constants it was made  *)

zvars == <<initDone, err, scale, offset, value>>

(* A constant is the one in the table or the one in the file. *)
Origins == {"table", "file"}

(* readZynqConstantString() returns the text of a file, or nothing if there is no
   file.  (If the file is there and cannot be read, it returns a '0' before what
   is left of the file it read last; that is taken for text here as it is there.) *)
Outcomes == {"file", "none"}
Possible == {out \in [Files -> Outcomes] : \A f \in Files \ Fallible : out[f] = "file"}

Never == [age |-> "never", scale |-> "table", offset |-> "table"]

ZInit ==
  /\ initDone = FALSE
  /\ err = [c \in C |-> "none"]
  /\ scale = [c \in C |-> "table"]
  /\ offset = [c \in C |-> "table"]
  /\ value = [c \in C |-> Never]

-----------------------------------------------------------------------------
(* The constants of channel c that cannot be read; the first counts. *)
Lacks(out, c) ==
  IF out[<<c, "scale">>] = "none" THEN "scale"
  ELSE IF c \in Temperatures /\ out[<<c, "offset">>] = "none" THEN "offset"
  ELSE "none"

(* The row at which the loop returns, or the one behind the last. *)
Stop(out) ==
  Min({i \in DOMAIN Channels : Lacks(out, Channels[i]) # "none"} \cup {Len(Channels) + 1})

Row(c) == CHOOSE i \in DOMAIN Channels : Channels[i] = c

(* The errors when the initialisation, if there was one, has returned.  Nothing
   takes back the error of an earlier call. *)
InitError(out) ==
  [c \in C |-> IF ~initDone /\ Row(c) = Stop(out) THEN Lacks(out, c) ELSE err[c]]

(* Mutant: the flag is set before the loop. *)
DoInit_FlagFirst(out) ==
  /\ initDone' = TRUE
  /\ scale' = [c \in C |->
       IF ~initDone /\ Row(c) <= Stop(out) /\ Lacks(out, c) # "scale" THEN out[<<c, "scale">>] ELSE scale[c]]
  /\ offset' = [c \in C |->
       IF ~initDone /\ Row(c) <= Stop(out) /\ c \in Temperatures /\ Lacks(out, c) = "none"
       THEN out[<<c, "offset">>] ELSE offset[c]]

(* doInitIntoUserBuffer(): from the first row up to a file that is missing. *)
DoInit(out) ==
  /\ initDone' = (initDone \/ Stop(out) > Len(Channels))
  /\ scale' = [c \in C |->
       IF ~initDone /\ Row(c) <= Stop(out) /\ Lacks(out, c) # "scale" THEN out[<<c, "scale">>] ELSE scale[c]]
  /\ offset' = [c \in C |->
       IF ~initDone /\ Row(c) <= Stop(out) /\ c \in Temperatures /\ Lacks(out, c) = "none"
       THEN out[<<c, "offset">>] ELSE offset[c]]

(* readZynqSensorValue() leaves a channel alone whose constants are missing. *)
Skipped(e) == e \in {"scale", "offset"}

ReadError(out, c, e) ==
  IF Skipped(e) THEN e ELSE IF out[<<c, "raw">>] = "none" THEN "raw" ELSE "none"

Kept(v) == IF v.age = "never" THEN v ELSE [v EXCEPT !.age = "before"]

(* zynqOnBoardRead(). *)
ReadZynq(out) ==
  /\ DoInit(out)
  /\ err' = [c \in C |-> ReadError(out, c, InitError(out)[c])]
  /\ value' = [c \in C |->
       IF Skipped(InitError(out)[c]) \/ out[<<c, "raw">>] = "none" THEN Kept(value[c])
       ELSE [age |-> "now", scale |-> scale'[c], offset |-> offset'[c]]]

-----------------------------------------------------------------------------
ZTypeOK ==
  /\ initDone \in BOOLEAN
  /\ err \in [C -> {"none", "scale", "offset", "raw"}]
  /\ scale \in [C -> Origins] /\ offset \in [C -> Origins]
  /\ value \in [C -> [age : {"never", "before", "now"}, scale : Origins, offset : Origins]]

=============================================================================
