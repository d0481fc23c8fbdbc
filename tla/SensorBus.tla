----------------------------- MODULE SensorBus -----------------------------
(***************************************************************************)
(* One bus with sensors on it, read in turn by sensorMonitor()             *)
(* (Sensor/src/sensorData.c, sensorI2C.c, firefly.c, ltc2945.c, sfp.c and  *)
(* I2c/src/i2cDevUser.c).  The Firefly modules and the SFP share one       *)
(* device address: an enable register selects the one that answers.  Every *)
(* transfer can fail, and modules are plugged in and out at any time.      *)
(*                                                                         *)
(* The contents of a device are two pages, of an SFP at two addresses; a   *)
(* byte that was read is known by the device, the page and the round it    *)
(* was read from and in.                                                   *)
(***************************************************************************)
EXTENDS Naturals, Sequences

CONSTANTS
  Sensors,   (* sensorList, in the order of the table                      *)
  Kind,      (* of each sensor: "firefly4", "sfp" or "ltc2945"             *)
  Nothing    (* no module, no data                                         *)

S == {Sensors[i] : i \in DOMAIN Sensors}

ASSUME SensorAssumption ==
  /\ Sensors \in Seq(S) /\ Sensors # <<>>
  /\ \A i, j \in DOMAIN Sensors : Sensors[i] = Sensors[j] => i = j
  /\ Kind \in [S -> {"firefly4", "sfp", "ltc2945"}]
  /\ Nothing \notin S

Pages == {"low", "high"}

VARIABLES
  plugged,   (* the sensors that answer                                    *)
  selected,  (* the module the enable register lets through                *)
  pointer,   (* the page each device will be read from next                *)
  turn,      (* "is" of sensorMonitor()                                    *)
  todo,      (* the sensorRead() and sensorWrite() calls left for it       *)
  stage,     (* the transfer that comes next                               *)
  status,    (* i2cBusErrCode                                              *)
  buffer,    (* iicbuffer: what the last read put there                    *)
  copied,    (* the first half of rdbuf                                    *)
  record,    (* valueBuffer of each sensor                                 *)
  round,     (* which call of sensorMonitor() this is, modulo 2            *)
  clean      (* history: nothing went wrong for this sensor in this turn   *)

vars == <<plugged, selected, pointer, turn, todo, stage, status, buffer, copied, record, round, clean>>

(* The sensors with a switchChannelSelector: the address of the enable register. *)
Gated == {s \in S : Kind[s] # "ltc2945"}
Firefly == {s \in S : Kind[s] = "firefly4"}
Sfp == {s \in S : Kind[s] = "sfp"}
This == Sensors[turn]

(* readfcn as the calls it makes; reg is the register that a sensorRead()
   writes first, or the byte that a sensorWrite() sends. *)
Reading(reg) == [op |-> "read", reg |-> reg]
Writing(reg) == [op |-> "write", reg |-> reg]
Calls(s) ==
  IF Kind[s] = "ltc2945" THEN <<Reading("low")>>
  ELSE IF Kind[s] = "sfp" THEN <<Reading("low"), Reading("high")>>
  ELSE <<Writing("low"), Reading("low"), Writing("high"), Reading("high")>>

Empty == [present |-> FALSE, low |-> Nothing, high |-> Nothing]

Init ==
  /\ plugged \in SUBSET S
  /\ selected \in Gated \cup {Nothing}
  /\ pointer \in [S -> Pages]
  /\ turn = 1
  /\ todo = <<>>
  /\ stage = "start"
  /\ status = "ok"
  /\ buffer = Nothing
  /\ copied = Nothing
  /\ record = [s \in S |-> Empty]
  /\ round = 0
  /\ clean = TRUE

-----------------------------------------------------------------------------
(* readfcn returns; sensorMonitor() goes on, and is called again. *)
NextSensor ==
  /\ turn' = IF turn = Len(Sensors) THEN 1 ELSE turn + 1
  /\ round' = IF turn = Len(Sensors) THEN 1 - round ELSE round
  /\ todo' = <<>>
  /\ stage' = "start"

(* Mutant: the record is only cleared when a reading has succeeded. *)
GiveUp_Keep ==
  /\ NextSensor
  /\ clean' = FALSE
  /\ UNCHANGED <<plugged, copied, record>>

(* A call returned 0: readfcn gives up.  A Firefly record stays as memset()
   left it, ltc2945Read() clears its own, and sfpRead(), which stores each half as
   it has it, says that the record was not updated. *)
Leftover == IF This \in Sfp /\ Len(todo) = 1 THEN [Empty EXCEPT !.low = copied] ELSE Empty
GiveUp ==
  /\ NextSensor
  /\ record' = [record EXCEPT ![This] = Leftover]
  /\ clean' = FALSE
  /\ UNCHANGED <<plugged, copied>>

Begin(stg) == stage' = stg /\ todo' = Calls(This)

(* readfcn is called; those of the modules clear their record. *)
StartSensor ==
  /\ stage = "start"
  /\ IF This \in Gated
     THEN /\ Begin(IF This \in Firefly THEN "presence" ELSE "select")
          /\ record' = [record EXCEPT ![This] = Empty]
     ELSE Begin("put") /\ UNCHANGED record
  /\ clean' = TRUE
  /\ UNCHANGED <<plugged, selected, pointer, turn, status, buffer, copied, round>>

(* Mutant: the presence bit is taken to be active high. *)
ReadPresence_ActiveHigh(ok) ==
  /\ stage = "presence"
  /\ status' = IF ok THEN "ok" ELSE "failed"
  /\ buffer' = Nothing
  /\ IF ~ok \/ This \in plugged
     THEN NextSensor ELSE stage' = "select" /\ UNCHANGED <<turn, round, todo>>
  /\ clean' = (clean /\ ok /\ This \in plugged)
  /\ UNCHANGED <<plugged, selected, pointer, copied, record>>

(* fireflyIsPresent(): sensorRead() of the register with the presence bits,
   which needs no selector.  A failure, of the write that chooses the register
   or of the read, reads as "bit not set": present. *)
ReadPresence(ok) ==
  /\ stage = "presence"
  /\ status' = IF ok THEN "ok" ELSE "failed"
  /\ buffer' = Nothing
  /\ IF ok /\ This \notin plugged
     THEN NextSensor ELSE stage' = "select" /\ UNCHANGED <<turn, round, todo>>
  /\ clean' = (clean /\ ok /\ This \in plugged)
  /\ UNCHANGED <<plugged, selected, pointer, copied, record>>

(* regen: write the enable register and read it back; only the write counts
   for the modules. *)
I2CRegEnable(out) ==
  /\ selected' = IF out = "unwritten" THEN selected ELSE This
  /\ status' = IF out = "done" THEN "ok" ELSE "failed"

(* Mutant: sensorRead() tests the status as sensorWrite() does. *)
Select_NoTest(out) ==
  /\ stage = "select"
  /\ I2CRegEnable(out)
  /\ stage' = "put" /\ clean' = (clean /\ out = "done")
  /\ UNCHANGED <<plugged, pointer, turn, todo, buffer, copied, record, round>>

(* sensorRead() returns if that failed; sensorWrite() compares the -1 with
   XST_FAILURE, 1, and goes on. *)
Select(out) ==
  /\ stage = "select"
  /\ I2CRegEnable(out)
  /\ UNCHANGED <<buffer, pointer>>
  /\ IF status' = "failed" /\ Head(todo).op = "read"
     THEN GiveUp
     ELSE /\ stage' = "put" /\ clean' = (clean /\ out = "done")
          /\ UNCHANGED <<plugged, turn, todo, copied, record, round>>

(* The device at the address of this sensor, if one answers. *)
Addressed == IF This \in Gated THEN selected ELSE This
Answers == Addressed \in plugged

(* A transfer that succeeds has moved every byte; what may come back from a
   device that is not there is a failure. *)
I2CWrite(ok) == ok => Answers
I2CRead(ok) == ok => Answers

(* The register write of a sensorRead(), or all of a sensorWrite(). *)
Put(ok) ==
  /\ stage = "put"
  /\ I2CWrite(ok)
  /\ status' = IF ok THEN "ok" ELSE "failed"
  /\ UNCHANGED <<buffer, selected>>
  /\ IF ok
     THEN /\ pointer' = [pointer EXCEPT ![Addressed] = Head(todo).reg]
          /\ IF Head(todo).op = "read" THEN stage' = "get" /\ UNCHANGED todo
             ELSE stage' = "select" /\ todo' = Tail(todo)
          /\ UNCHANGED <<plugged, turn, copied, record, round, clean>>
     ELSE GiveUp /\ UNCHANGED pointer

(* ltc2945Read(): two zero bytes in the place of the temperature end it
   before it is stored. *)
LtcRecord(data, adin) ==
  [present |-> TRUE, low |-> data, high |-> IF adin = 0 THEN record[This].high ELSE data]

(* sfpRead(): a module whose byte 92 says so has no second half. *)
HasMore(extended) == Len(todo) > 1 /\ (This \in Sfp => extended # 0)
SfpRecord(data) ==
  IF Len(todo) > 1 THEN [present |-> TRUE, low |-> data, high |-> Nothing]
  ELSE [present |-> TRUE, low |-> copied, high |-> data]

FireflyRecord(data) == [present |-> TRUE, low |-> copied, high |-> data]

(* The read itself.  Where it leaves the pointer is the device's affair; tested
   stands for the bytes of the answer that the driver looks at. *)
Get(ok, left, tested) ==
  /\ stage = "get"
  /\ I2CRead(ok)
  /\ status' = IF ok THEN "ok" ELSE "failed"
  /\ selected' = selected
  /\ IF ~ok THEN GiveUp /\ buffer' = Nothing /\ UNCHANGED pointer
     ELSE LET data == [of |-> Addressed, page |-> pointer[Addressed], round |-> round] IN
       /\ buffer' = data
       /\ pointer' = [pointer EXCEPT ![Addressed] = left]
       /\ IF HasMore(tested)
          THEN /\ copied' = data
               /\ stage' = "select" /\ todo' = Tail(todo)
               /\ UNCHANGED <<turn, round, record>>
          ELSE /\ record' = [record EXCEPT ![This] =
                    IF This \in Firefly THEN FireflyRecord(data)
                    ELSE IF This \in Sfp THEN SfpRecord(data) ELSE LtcRecord(data, tested)]
               /\ NextSensor
               /\ UNCHANGED copied
       /\ UNCHANGED <<plugged, clean>>

Step ==
  \/ StartSensor
  \/ \E ok \in BOOLEAN : ReadPresence(ok) \/ Put(ok)
  \/ \E out \in {"done", "unwritten", "unread"} : Select(out)
  \/ \E ok \in BOOLEAN, left \in Pages, tested \in {0, 1} : Get(ok, left, tested)

(* A sensor is plugged in or out. *)
Plug(s) ==
  /\ plugged' = IF s \in plugged THEN plugged \ {s} ELSE plugged \cup {s}
  /\ clean' = (clean /\ s # This)
  /\ UNCHANGED <<selected, pointer, turn, todo, stage, status, buffer, copied, record, round>>

Next == Step \/ \E s \in S : Plug(s)

Spec == Init /\ [][Next]_vars

-----------------------------------------------------------------------------
Data == {Nothing} \cup [of : S, page : Pages, round : {0, 1}]

TypeOK ==
  /\ plugged \subseteq S /\ selected \in Gated \cup {Nothing}
  /\ pointer \in [S -> Pages]
  /\ turn \in DOMAIN Sensors
  /\ stage \in {"start", "presence", "select", "put", "get"}
  /\ stage \in {"select", "put", "get"} => todo # <<>>
  /\ status \in {"ok", "failed"} /\ round \in {0, 1} /\ clean \in BOOLEAN
  /\ {buffer, copied} \subseteq Data
  /\ record \in [S -> [present : BOOLEAN, low : Data, high : Data]]

(* What this round, or the one before, has read from page p of sensor s. *)
Read(s, p, r) == [of |-> s, page |-> p, round |-> r]
RoundOf(s) ==
  IF \E i \in DOMAIN Sensors : Sensors[i] = s /\ i < turn THEN round ELSE 1 - round

(* An SFP may do without its second half. *)
OwnHigh(s, r) == {Read(s, "high", r)} \cup {Nothing : sfp \in {s} \cap Sfp}

(* The record of a module that says present holds the two halves of that module's
   own memory, both read in the module's last turn: never another module's bytes
   through the shared buffer or a wrong selection, never those of an earlier
   round (firefly.c:148-193, sfp.c:17-71, sensorI2C.c:55-90). *)
RecordIsOwn ==
  \A s \in Gated : record[s].present /\ (stage = "start" \/ s # This) =>
    /\ record[s].low = Read(s, "low", RoundOf(s))
    /\ record[s].high \in OwnHigh(s, RoundOf(s))

(* A sensor whose transfers all succeeded while it was plugged in has its
   record, whatever happened to the sensors before it (sensorI2C.c:33-95). *)
CleanReadIsRecorded ==
  [][turn' # turn /\ clean /\ clean' => record'[This].present]_vars

(* However the transfers go, a round is one of SensorRound: the records of the
   sensors that are not being read stand still, and one that has been read is
   empty or of that sensor and that round. *)
ServiceRound == INSTANCE SensorRound WITH busy <- stage # "start"
ImplementsRound == ServiceRound!RoundSpec

=============================================================================
