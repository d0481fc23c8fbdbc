---------------------------- MODULE SensorRound ----------------------------
(***************************************************************************)
(* What a round of sensorMonitor() promises about the sensors on the bus,  *)
(* with the transfers left out: they are read in turn, and a record is     *)
(* either empty or what this very sensor answered in its last turn.        *)
(* SensorBus implements this; Monitoring builds on it.                     *)
(***************************************************************************)
EXTENDS Naturals, Sequences

CONSTANTS Sensors, Kind, Nothing   (* as in SensorBus *)

VARIABLES
  turn,    (* the sensor whose turn it is                                  *)
  round,   (* the round, modulo 2                                          *)
  busy,    (* is its readfcn running?                                      *)
  record   (* the record of each sensor                                    *)

rvars == <<turn, round, busy, record>>

This == Sensors[turn]
Empty == [present |-> FALSE, low |-> Nothing, high |-> Nothing]
Own(page) == [of |-> This, page |-> page, round |-> round]

RoundInit ==
  /\ turn = 1
  /\ round = 0
  /\ busy = FALSE
  /\ record = [i \in {Sensors[j] : j \in DOMAIN Sensors} |-> Empty]

(* readfcn is called; a module's record is cleared first. *)
BeginRead ==
  /\ ~busy
  /\ busy' = TRUE
  /\ record' = IF Kind[This] = "ltc2945" THEN record ELSE [record EXCEPT ![This] = Empty]
  /\ UNCHANGED <<turn, round>>

(* The second halves that it may have: an ltc2945 may keep the temperature it
   had, an SFP do without. *)
Highs ==
  IF Kind[This] = "ltc2945" THEN {Own("low"), record[This].high}
  ELSE IF Kind[This] = "sfp" THEN {Own("high"), Nothing} ELSE {Own("high")}

(* Mutant: a reading that fails leaves the record as it was. *)
Answers_Keep == {record[This]} \cup {[present |-> TRUE, low |-> Own("low"), high |-> h] : h \in Highs}

(* What it may leave behind: nothing, its own two halves, or of an SFP the half
   that was read before it failed, marked as no update. *)
Answers ==
  {Empty} \cup {[present |-> TRUE, low |-> Own("low"), high |-> h] : h \in Highs}
          \cup (IF Kind[This] = "sfp" THEN {[Empty EXCEPT !.low = Own("low")]} ELSE {})

EndRead ==
  /\ busy
  /\ busy' = FALSE
  /\ \E answer \in Answers : record' = [record EXCEPT ![This] = answer]
  /\ turn' = IF turn = Len(Sensors) THEN 1 ELSE turn + 1
  /\ round' = IF turn = Len(Sensors) THEN 1 - round ELSE round

RoundNext == BeginRead \/ EndRead

RoundSpec == RoundInit /\ [][RoundNext]_rvars

=============================================================================
