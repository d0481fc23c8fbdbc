---------------------------- MODULE SensorProofs ----------------------------
(***************************************************************************)
(* Proofs about the two ways in which the board's sensors are read.        *)
(*                                                                         *)
(* SensorBus, for every table of sensors: the invariant from which it      *)
(* follows that a record is the sensor's own, and that each step of the    *)
(* transfers is one of SensorRound or changes nothing there.               *)
(*                                                                         *)
(* IpmcBlock, for every block size, every number of writes and every range *)
(* of sequence numbers, when the file holds the whole block: a record is   *)
(* of one write.                                                           *)
(***************************************************************************)
EXTENDS SensorBus, IpmcBlock, TLAPS

(* The bus. *)

(* What is left of the calls of fireflyRead4() as it goes on. *)
FourLeft  == <<Writing("low"), Reading("low"), Writing("high"), Reading("high")>>
ThreeLeft == <<Reading("low"), Writing("high"), Reading("high")>>
TwoLeft   == <<Writing("high"), Reading("high")>>
OneLeft   == <<Reading("high")>>
LtcLeft   == <<Reading("low")>>
SfpLeft   == <<Reading("low"), Reading("high")>>

AtWork == stage \in {"select", "put", "get"}

(* The control state belongs to the sensor and to the call under way. *)
CallUnderWay ==
  /\ stage = "presence" => This \in Firefly /\ todo = FourLeft
  /\ AtWork /\ This \in Firefly => todo \in {FourLeft, ThreeLeft, TwoLeft, OneLeft}
  /\ AtWork /\ This \in Sfp => todo \in {SfpLeft, OneLeft}
  /\ AtWork /\ This \notin Gated => todo = LtcLeft /\ stage # "select"

(* A sensorRead() whose selection succeeded has its own module in front of it
   when it writes the register, and the register when it reads. *)
ReadIsAimed ==
  /\ stage = "put" /\ Head(todo).op = "read" => Addressed = This
  /\ stage = "get" => Head(todo).op = "read" /\ Addressed = This /\ pointer[This] = Head(todo).reg

HalfIsOwn == AtWork /\ This \in Gated /\ todo \in {TwoLeft, OneLeft} => copied = Read(This, "low", round)

ClearedFirst == stage # "start" /\ This \in Gated => record[This] = Empty

BusInv == TypeOK /\ CallUnderWay /\ ReadIsAimed /\ HalfIsOwn /\ ClearedFirst /\ RecordIsOwn

-----------------------------------------------------------------------------
(* Facts about the table and the lists of calls. *)
LEMMA Table ==
  /\ DOMAIN Sensors = 1 .. Len(Sensors) /\ Len(Sensors) \in Nat /\ Len(Sensors) > 0
  /\ \A i \in DOMAIN Sensors : Sensors[i] \in S
  /\ \A s \in S : \E i \in DOMAIN Sensors : Sensors[i] = s
<1>1. Sensors \in Seq(S) /\ Sensors # <<>>
  BY SensorAssumption
<1>2. DOMAIN Sensors = 1 .. Len(Sensors) /\ Len(Sensors) \in Nat /\ Len(Sensors) > 0
  BY <1>1
<1>3. QED
  BY <1>2 DEF S

LEMMA Lists ==
  /\ Head(FourLeft) = Writing("low") /\ Tail(FourLeft) = ThreeLeft /\ Len(FourLeft) = 4 /\ FourLeft # <<>>
  /\ Head(ThreeLeft) = Reading("low") /\ Tail(ThreeLeft) = TwoLeft /\ Len(ThreeLeft) = 3 /\ ThreeLeft # <<>>
  /\ Head(TwoLeft) = Writing("high") /\ Tail(TwoLeft) = OneLeft /\ Len(TwoLeft) = 2 /\ TwoLeft # <<>>
  /\ Head(OneLeft) = Reading("high") /\ Len(OneLeft) = 1 /\ OneLeft # <<>>
  /\ Head(LtcLeft) = Reading("low") /\ Len(LtcLeft) = 1 /\ LtcLeft # <<>>
  /\ Head(SfpLeft) = Reading("low") /\ Tail(SfpLeft) = OneLeft /\ Len(SfpLeft) = 2 /\ SfpLeft # <<>>
BY DEF FourLeft, ThreeLeft, TwoLeft, OneLeft, LtcLeft, SfpLeft

LEMMA Kinds ==
  /\ Gated = Firefly \cup Sfp /\ Firefly \cap Sfp = {} /\ Gated \subseteq S
  /\ \A s \in S : (s \in Firefly) <=> (Kind[s] = "firefly4")
  /\ \A s \in S : (s \in Sfp) <=> (Kind[s] = "sfp")
  /\ \A s \in S : (s \notin Gated) <=> (Kind[s] = "ltc2945")
BY SensorAssumption DEF Gated, Firefly, Sfp

LEMMA CallsOf ==
  \A s \in S : Calls(s) = IF s \in Firefly THEN FourLeft ELSE IF s \in Sfp THEN SfpLeft ELSE LtcLeft
BY Kinds DEF Calls, FourLeft, SfpLeft, LtcLeft

LEMMA Ops ==
  ASSUME NEW reg
  PROVE  /\ Reading(reg).op = "read" /\ Reading(reg).reg = reg
         /\ Writing(reg).op = "write" /\ Writing(reg).reg = reg
BY DEF Reading, Writing

(* When the turn passes on, only the round of the sensor that had it changes. *)
LEMMA TurnMoves ==
  ASSUME TypeOK, NextSensor
  PROVE  /\ turn' \in DOMAIN Sensors /\ round' \in {0, 1} /\ stage' = "start"
         /\ \A s \in S : RoundOf(s)' = IF s = This THEN round ELSE RoundOf(s)
<1>1. turn \in 1 .. Len(Sensors) /\ round \in {0, 1} /\ Len(Sensors) \in Nat
  BY Table DEF TypeOK
<1>2. turn' \in DOMAIN Sensors /\ round' \in {0, 1} /\ stage' = "start"
  <2>1. turn' \in 1 .. Len(Sensors)
    <3>1. turn' = 1 \/ (turn # Len(Sensors) /\ turn' = turn + 1)
      BY DEF NextSensor
    <3>2. QED
      BY <3>1, <1>1
  <2>2. round' \in {0, 1}
    BY <1>1 DEF NextSensor
  <2>3. QED
    BY <2>1, <2>2, Table DEF NextSensor
<1>3. ASSUME NEW s \in S
      PROVE  RoundOf(s)' = IF s = This THEN round ELSE RoundOf(s)
  <2>1. PICK i \in DOMAIN Sensors : Sensors[i] = s
    BY Table
  <2>2. \A j \in DOMAIN Sensors : Sensors[j] = s <=> j = i
    BY <2>1, SensorAssumption
  <2>3. /\ RoundOf(s) = IF i < turn THEN round ELSE 1 - round
        /\ RoundOf(s)' = IF i < turn' THEN round' ELSE 1 - round'
    BY <2>2 DEF RoundOf
  <2>4. s = This <=> i = turn
    BY <2>2, <1>1, Table DEF This
  <2>5. i \in 1 .. Len(Sensors)
    BY Table
  <2>6. CASE turn = Len(Sensors)
    <3>1. turn' = 1 /\ round' = 1 - round
      BY <2>6 DEF NextSensor
    <3>2. QED
      BY <3>1, <2>3, <2>4, <2>5, <2>6, <1>1
  <2>7. CASE turn # Len(Sensors)
    <3>1. turn' = turn + 1 /\ round' = round
      BY <2>7 DEF NextSensor
    <3>2. QED
      BY <3>1, <2>3, <2>4, <2>5, <2>7, <1>1
  <2>8. QED
    BY <2>6, <2>7
<1>4. QED
  BY <1>2, <1>3

-----------------------------------------------------------------------------
(* The sensor whose turn it is is one of the table, and so are its calls. *)
LEMMA ThisIsSensor ==
  ASSUME TypeOK
  PROVE  This \in S
BY Table DEF TypeOK, This

(* A turn that ends with an empty or an own record leaves the invariant. *)
LEMMA TurnEnds ==
  ASSUME BusInv, NextSensor,
         \A s \in S : s # This => record'[s] = record[s],
         This \in Gated /\ record'[This].present =>
           record'[This].low = Read(This, "low", round) /\ record'[This].high \in OwnHigh(This, round)
  PROVE  (CallUnderWay /\ ReadIsAimed /\ HalfIsOwn /\ ClearedFirst /\ RecordIsOwn)'
<1>1. stage' = "start" /\ \A s \in S : RoundOf(s)' = IF s = This THEN round ELSE RoundOf(s)
  BY TurnMoves DEF BusInv
<1>2. (CallUnderWay /\ ReadIsAimed /\ HalfIsOwn /\ ClearedFirst)'
  BY <1>1 DEF CallUnderWay, ReadIsAimed, HalfIsOwn, ClearedFirst, AtWork
<1>3. ASSUME NEW s \in Gated, record'[s].present
      PROVE  /\ record'[s].low = Read(s, "low", RoundOf(s)')
             /\ record'[s].high \in OwnHigh(s, RoundOf(s)')
  <2>1. s \in S
    BY DEF Gated
  <2>2. CASE s = This
    BY <2>1, <2>2, <1>1, <1>3
  <2>3. CASE s # This
    <3>1. record'[s] = record[s] /\ RoundOf(s)' = RoundOf(s)
      BY <2>1, <2>3, <1>1
    <3>2. record[s].low = Read(s, "low", RoundOf(s)) /\ record[s].high \in OwnHigh(s, RoundOf(s))
      BY <3>1, <1>3, <2>3 DEF BusInv, RecordIsOwn
    <3>3. QED
      BY <3>1, <3>2
  <2>4. QED
    BY <2>2, <2>3
<1>4. RecordIsOwn'
  BY <1>1, <1>3 DEF RecordIsOwn, Read, OwnHigh
<1>5. QED
  BY <1>2, <1>4

(* readfcn gives up while a call of it is under way. *)
LEMMA GivesUp ==
  ASSUME BusInv, AtWork, GiveUp, selected' \in Gated \cup {Nothing}, pointer' \in [S -> Pages],
         status' \in {"ok", "failed"}, buffer' \in Data
  PROVE  BusInv'
<1>1. NextSensor /\ record' = [record EXCEPT ![This] = Leftover] /\ This \in S
  BY ThisIsSensor DEF GiveUp, BusInv
<1>2. Leftover \in [present : BOOLEAN, low : Data, high : Data] /\ ~ Leftover.present
  BY DEF Leftover, BusInv, TypeOK, Empty, Data
<1>3. /\ record' \in [S -> [present : BOOLEAN, low : Data, high : Data]]
      /\ record'[This] = Leftover
      /\ \A s \in S : s # This => record'[s] = record[s]
  BY <1>1, <1>2 DEF BusInv, TypeOK
<1>4. TypeOK'
  BY <1>1, <1>3, TurnMoves DEF BusInv, TypeOK, GiveUp
<1>5. QED
  BY <1>1, <1>2, <1>3, <1>4, TurnEnds DEF BusInv

LEMMA InitBusInv == Init => BusInv
<1> SUFFICES ASSUME Init PROVE BusInv
  OBVIOUS
<1>1. TypeOK
  BY Table DEF Init, TypeOK, Empty, Data
<1>2. CallUnderWay /\ ReadIsAimed /\ HalfIsOwn /\ ClearedFirst
  BY DEF Init, CallUnderWay, ReadIsAimed, HalfIsOwn, ClearedFirst, AtWork
<1>3. RecordIsOwn
  BY DEF Init, RecordIsOwn, Empty, Gated
<1>4. QED
  BY <1>1, <1>2, <1>3 DEF BusInv

LEMMA StartSensorInv ==
  ASSUME BusInv, StartSensor
  PROVE  BusInv'
<1>1. This \in S /\ stage = "start"
  BY ThisIsSensor DEF BusInv, StartSensor
<1>2. CASE This \in Gated
  <2>1. /\ IF This \in Firefly THEN stage' = "presence" /\ todo' = FourLeft
                              ELSE stage' = "select" /\ todo' = SfpLeft
        /\ record' = [record EXCEPT ![This] = Empty]
    BY <1>1, <1>2, CallsOf, Kinds DEF StartSensor, Begin
  <2>2. TypeOK'
    BY <2>1, <1>1, Lists DEF BusInv, TypeOK, StartSensor, Empty, Data
  <2>3. record'[This] = Empty /\ \A s \in S : s # This => record'[s] = record[s]
    BY <2>1, <1>1 DEF BusInv, TypeOK
  <2>4. (CallUnderWay /\ ReadIsAimed /\ HalfIsOwn /\ ClearedFirst)'
    <3>1. SfpLeft \notin {TwoLeft, OneLeft}
      BY Lists, Ops
    <3>2. This' = This
      BY DEF StartSensor, This
    <3>3. QED
      BY <2>1, <2>3, <1>2, <3>1, <3>2, Kinds DEF CallUnderWay, ReadIsAimed, HalfIsOwn, ClearedFirst, AtWork
  <2>5. \A s \in Gated : RoundOf(s)' = RoundOf(s)
    BY DEF StartSensor, RoundOf
  <2>6. RecordIsOwn'
    BY <2>1, <2>3, <2>5, <1>1 DEF BusInv, RecordIsOwn, StartSensor, This, Read, OwnHigh, Gated
  <2>7. QED
    BY <2>2, <2>4, <2>6 DEF BusInv
<1>3. CASE This \notin Gated
  <2>1. stage' = "put" /\ todo' = LtcLeft /\ record' = record
    BY <1>1, <1>3, CallsOf, Kinds DEF StartSensor, Begin
  <2>2. TypeOK'
    BY <2>1, Lists DEF BusInv, TypeOK, StartSensor
  <2>3. (CallUnderWay /\ ReadIsAimed /\ HalfIsOwn /\ ClearedFirst)'
    BY <2>1, <1>3, Kinds DEF StartSensor, CallUnderWay, ReadIsAimed, HalfIsOwn, ClearedFirst, AtWork, This, Addressed
  <2>4. \A s \in Gated : RoundOf(s)' = RoundOf(s)
    BY DEF StartSensor, RoundOf
  <2>5. RecordIsOwn'
    BY <2>1, <2>4, <1>1 DEF BusInv, RecordIsOwn, StartSensor, This, Read, OwnHigh
  <2>6. QED
    BY <2>2, <2>3, <2>5 DEF BusInv
<1>4. QED
  BY <1>2, <1>3

(* Nothing in the records moves, and the turn goes on. *)
LEMMA TurnGoesOn ==
  ASSUME BusInv, UNCHANGED <<turn, round, record>>, stage # "start", stage' # "start"
  PROVE  (ClearedFirst /\ RecordIsOwn)'
<1>1. This' = This /\ \A s \in S : RoundOf(s)' = RoundOf(s)
  BY DEF This, RoundOf
<1>2. ClearedFirst'
  BY <1>1 DEF BusInv, ClearedFirst
<1>3. RecordIsOwn'
  BY <1>1, Kinds DEF BusInv, RecordIsOwn, Read, OwnHigh
<1>4. QED
  BY <1>2, <1>3

LEMMA ReadPresenceInv ==
  ASSUME BusInv, NEW ok \in BOOLEAN, ReadPresence(ok)
  PROVE  BusInv'
<1>1. This \in Firefly /\ This \notin Sfp /\ todo = FourLeft /\ record[This] = Empty /\ stage = "presence"
  BY Kinds DEF BusInv, ReadPresence, CallUnderWay, ClearedFirst
<1>2. CASE ok /\ This \notin plugged
  <2>1. NextSensor /\ record' = record
    BY <1>2 DEF ReadPresence
  <2>2. TypeOK'
    BY <2>1, <1>2, TurnMoves DEF BusInv, TypeOK, ReadPresence, Data
  <2>3. ~ record'[This].present
    BY <2>1, <1>1 DEF Empty
  <2>4. QED
    BY <2>1, <2>2, <2>3, TurnEnds DEF BusInv
<1>3. CASE ~(ok /\ This \notin plugged)
  <2>1. stage' = "select" /\ UNCHANGED <<turn, round, todo, record, copied>>
    BY <1>3 DEF ReadPresence
  <2>2. TypeOK'
    BY <2>1, <1>1, Lists DEF BusInv, TypeOK, ReadPresence, Data
  <2>3. (CallUnderWay /\ ReadIsAimed /\ HalfIsOwn)'
    <3>1. This' = This /\ todo' = FourLeft /\ FourLeft \notin {TwoLeft, OneLeft}
      BY <2>1, <1>1, Lists DEF This
    <3>2. QED
      BY <3>1, <2>1, <1>1, Kinds DEF CallUnderWay, ReadIsAimed, HalfIsOwn, AtWork
  <2>4. QED
    BY <2>1, <2>2, <2>3, <1>1, TurnGoesOn DEF BusInv
<1>4. QED
  BY <1>2, <1>3

LEMMA SelectInv ==
  ASSUME BusInv, NEW out \in {"done", "unwritten", "unread"}, Select(out)
  PROVE  BusInv'
<1>1. This \in Gated /\ stage = "select"
  BY DEF BusInv, Select, CallUnderWay, AtWork
<1>2. selected' \in Gated \cup {Nothing} /\ status' \in {"ok", "failed"}
  BY <1>1 DEF BusInv, TypeOK, Select, I2CRegEnable
<1>3. CASE status' = "failed" /\ Head(todo).op = "read"
  <2>1. GiveUp /\ buffer' = buffer /\ pointer' = pointer
    BY <1>3 DEF Select
  <2>2. QED
    BY <2>1, <1>1, <1>2, GivesUp DEF BusInv, TypeOK, AtWork
<1>4. CASE ~(status' = "failed" /\ Head(todo).op = "read")
  <2>1. /\ stage' = "put" /\ UNCHANGED <<turn, round, todo, record, copied, plugged, buffer, pointer>>
        /\ clean' \in BOOLEAN
    BY <1>4 DEF Select, BusInv, TypeOK
  <2>2. TypeOK'
    BY <2>1, <1>1, <1>2 DEF BusInv, TypeOK
  <2>3. This' = This
    BY <2>1 DEF This
  <2>4. (CallUnderWay /\ HalfIsOwn)'
    BY <2>1, <2>3, <1>1 DEF BusInv, CallUnderWay, HalfIsOwn, AtWork, Read
  <2>5. ReadIsAimed'
    <3>1. ASSUME Head(todo).op = "read"
          PROVE  selected' = This
      BY <1>4, <3>1 DEF Select, I2CRegEnable
    <3>2. QED
      BY <3>1, <2>1, <2>3, <1>1 DEF ReadIsAimed, Addressed
  <2>6. QED
    BY <2>1, <2>2, <2>4, <2>5, <1>1, TurnGoesOn DEF BusInv
<1>5. QED
  BY <1>3, <1>4

LEMMA PutInv ==
  ASSUME BusInv, NEW ok \in BOOLEAN, Put(ok)
  PROVE  BusInv'
<1>1. stage = "put" /\ This \in S
  BY ThisIsSensor DEF BusInv, Put
<1>2. CASE ~ok
  <2>1. GiveUp /\ UNCHANGED <<buffer, selected, pointer>> /\ status' = "failed"
    BY <1>2 DEF Put
  <2>2. QED
    BY <1>1, <2>1, GivesUp DEF BusInv, TypeOK, AtWork
<1>3. CASE ok
  <2>1. /\ UNCHANGED <<buffer, selected, plugged, turn, copied, record, round, clean>>
        /\ status' = "ok" /\ Addressed \in plugged
        /\ pointer' = [pointer EXCEPT ![Addressed] = Head(todo).reg]
        /\ This' = This /\ Addressed' = Addressed
    BY <1>3 DEF Put, I2CWrite, Answers, This, Addressed
  <2>2. /\ todo \in {FourLeft, ThreeLeft, TwoLeft, OneLeft, SfpLeft, LtcLeft}
        /\ This \in Firefly => todo \in {FourLeft, ThreeLeft, TwoLeft, OneLeft}
        /\ This \in Sfp => todo \in {SfpLeft, OneLeft}
        /\ This \notin Gated => todo = LtcLeft
    BY <1>1, Kinds DEF BusInv, CallUnderWay, AtWork
  <2>3. Head(todo).reg \in Pages
    BY <2>2, Lists, Ops DEF Pages
  <2>4. pointer' \in [S -> Pages] /\ pointer'[Addressed] = Head(todo).reg
    BY <2>1, <2>3 DEF BusInv, TypeOK
  <2>5. CASE Head(todo).op = "read"
    <3>1. stage' = "get" /\ todo' = todo
      BY <1>3, <2>5 DEF Put
    <3>2. Addressed = This
      BY <1>1, <2>5 DEF BusInv, ReadIsAimed
    <3>3. TypeOK'
      BY <1>1, <2>1, <2>4, <3>1 DEF BusInv, TypeOK
    <3>4. (CallUnderWay /\ HalfIsOwn)'
      BY <1>1, <2>1, <3>1 DEF BusInv, CallUnderWay, HalfIsOwn, AtWork, Read
    <3>5. ReadIsAimed'
      BY <2>1, <2>4, <2>5, <3>1, <3>2 DEF ReadIsAimed
    <3>6. QED
      BY <1>1, <2>1, <3>1, <3>3, <3>4, <3>5, TurnGoesOn DEF BusInv
  <2>6. CASE Head(todo).op # "read"
    <3>1. stage' = "select" /\ todo' = Tail(todo)
      BY <1>3, <2>6 DEF Put
    <3>2. This \in Firefly /\ This \notin Sfp /\ todo \in {FourLeft, TwoLeft}
      BY <2>2, <2>6, <1>1, Lists, Ops, Kinds
    <3>3. todo' \in {ThreeLeft, OneLeft} /\ (todo' \in {TwoLeft, OneLeft} => todo = TwoLeft)
      BY <3>1, <3>2, Lists
    <3>4. TypeOK'
      BY <1>1, <2>1, <2>4, <3>1, <3>3, Lists DEF BusInv, TypeOK
    <3>5. (CallUnderWay /\ ReadIsAimed /\ HalfIsOwn)'
      BY <1>1, <2>1, <3>1, <3>2, <3>3, Kinds DEF BusInv, CallUnderWay, ReadIsAimed, HalfIsOwn, AtWork, Read
    <3>6. QED
      BY <1>1, <2>1, <3>1, <3>4, <3>5, TurnGoesOn DEF BusInv
  <2>7. QED
    BY <2>5, <2>6
<1>4. QED
  BY <1>2, <1>3

LEMMA PlugInv ==
  ASSUME BusInv, NEW s \in S, Plug(s)
  PROVE  BusInv'
<1>1. UNCHANGED <<selected, pointer, turn, todo, stage, status, buffer, copied, record, round>>
  BY DEF Plug
<1>2. TypeOK'
  BY <1>1 DEF Plug, BusInv, TypeOK
<1>3. This' = This /\ Addressed' = Addressed /\ \A t \in S : RoundOf(t)' = RoundOf(t)
  BY <1>1 DEF This, Addressed, RoundOf
<1>4. (CallUnderWay /\ ReadIsAimed /\ HalfIsOwn /\ ClearedFirst)'
  BY <1>1, <1>3 DEF BusInv, CallUnderWay, ReadIsAimed, HalfIsOwn, ClearedFirst, AtWork, Read
<1>5. RecordIsOwn'
  BY <1>1, <1>3, Kinds DEF BusInv, RecordIsOwn, Read, OwnHigh
<1>6. QED
  BY <1>2, <1>4, <1>5 DEF BusInv

(* The last read of a turn fills the record from the sensor's own memory. *)
OwnRecord(h) == [present |-> TRUE, low |-> Read(This, "low", round), high |-> h]
OwnHighs == IF This \in Gated THEN OwnHigh(This, round) ELSE {record[This].high, Read(This, "low", round)}
LastGet ==
  /\ NextSensor /\ UNCHANGED copied
  /\ \E h \in OwnHighs : record' = [record EXCEPT ![This] = OwnRecord(h)]

(* The first half, if another follows. *)
FirstGet ==
  /\ This \in Gated /\ stage' = "select"
  /\ \/ This \in Firefly /\ todo' = TwoLeft
     \/ This \in Sfp /\ todo' = OneLeft
  /\ copied' = Read(This, "low", round) /\ UNCHANGED <<turn, round, record>>

LEMMA GetReads ==
  ASSUME BusInv, NEW left \in Pages, NEW tested \in {0, 1}, Get(TRUE, left, tested)
  PROVE  /\ UNCHANGED <<plugged, selected, clean>> /\ status' = "ok"
         /\ pointer' \in [S -> Pages] /\ buffer' \in Data /\ This \in S
         /\ FirstGet \/ LastGet
<1>1. stage = "get" /\ This \in S /\ Addressed = This /\ pointer[This] = Head(todo).reg /\ Head(todo).op = "read"
  BY ThisIsSensor DEF BusInv, Get, ReadIsAimed
<1>2. /\ This \in Firefly => todo \in {ThreeLeft, OneLeft}
      /\ This \in Sfp => todo \in {SfpLeft, OneLeft}
      /\ This \notin Gated => todo = LtcLeft
  BY <1>1, Lists, Ops DEF BusInv, CallUnderWay, AtWork
<1> DEFINE data == Read(This, Head(todo).reg, round)
<1>3. /\ UNCHANGED <<plugged, selected, clean>> /\ status' = "ok" /\ buffer' = data
      /\ pointer' = [pointer EXCEPT ![This] = left]
  BY <1>1 DEF Get, Read
<1>4. Head(todo).reg \in Pages
  BY <1>1, <1>2, Lists, Ops, Kinds DEF Pages
<1>5. pointer' \in [S -> Pages] /\ buffer' \in Data
  BY <1>1, <1>3, <1>4 DEF BusInv, TypeOK, Data, Read
<1>6. CASE HasMore(tested)
  <2>1. copied' = data /\ stage' = "select" /\ todo' = Tail(todo) /\ UNCHANGED <<turn, round, record>>
    BY <1>1, <1>6 DEF Get, Read
  <2>2. Len(todo) > 1
    BY <1>6 DEF HasMore
  <2>3. \/ This \in Firefly /\ todo = ThreeLeft
        \/ This \in Sfp /\ todo = SfpLeft
    BY <1>1, <1>2, <2>2, Lists, Kinds
  <2>4. data = Read(This, "low", round) /\ This \in Gated
    BY <2>3, Lists, Ops, Kinds
  <2>5. FirstGet
    BY <2>1, <2>3, <2>4, Lists DEF FirstGet
  <2>6. QED
    BY <1>1, <1>3, <1>5, <2>5
<1>7. CASE ~ HasMore(tested)
  <2>1. /\ NextSensor /\ UNCHANGED copied
        /\ record' = [record EXCEPT ![This] =
              IF This \in Firefly THEN FireflyRecord(data)
              ELSE IF This \in Sfp THEN SfpRecord(data) ELSE LtcRecord(data, tested)]
    BY <1>1, <1>7 DEF Get, Read
  <2>2. ASSUME This \in Gated, todo = OneLeft
        PROVE  copied = Read(This, "low", round) /\ data = Read(This, "high", round)
    BY <1>1, <2>2, Lists, Ops DEF BusInv, HalfIsOwn, AtWork
  <2>3. CASE This \in Firefly
    <3>1. todo = OneLeft /\ This \in Gated
      BY <1>2, <1>7, <2>3, Lists, Kinds DEF HasMore
    <3>2. FireflyRecord(data) = OwnRecord(Read(This, "high", round))
      BY <2>2, <3>1 DEF FireflyRecord, OwnRecord
    <3>3. Read(This, "high", round) \in OwnHighs
      BY <3>1 DEF OwnHighs, OwnHigh
    <3>4. QED
      BY <1>1, <1>3, <1>5, <2>1, <2>3, <3>2, <3>3 DEF LastGet
  <2>4. CASE This \in Sfp
    <3>1. This \notin Firefly /\ This \in Gated
      BY <2>4, Kinds
    <3>2. CASE todo = SfpLeft
      <4>0. Len(todo) > 1 /\ data = Read(This, "low", round)
        BY <3>2, Lists, Ops
      <4>1. SfpRecord(data) = OwnRecord(Nothing)
        BY <4>0 DEF SfpRecord, OwnRecord
      <4>2. Nothing \in OwnHighs
        BY <2>4, <3>1 DEF OwnHighs, OwnHigh
      <4>3. QED
        BY <1>1, <1>3, <1>5, <2>1, <2>4, <3>1, <4>1, <4>2 DEF LastGet
    <3>3. CASE todo = OneLeft
      <4>0. ~(Len(todo) > 1) /\ copied = Read(This, "low", round) /\ data = Read(This, "high", round)
        BY <2>2, <3>1, <3>3, Lists
      <4>1. SfpRecord(data) = OwnRecord(Read(This, "high", round))
        BY <4>0 DEF SfpRecord, OwnRecord
      <4>2. Read(This, "high", round) \in OwnHighs
        BY <3>1 DEF OwnHighs, OwnHigh
      <4>3. QED
        BY <1>1, <1>3, <1>5, <2>1, <2>4, <3>1, <4>1, <4>2 DEF LastGet
    <3>4. QED
      BY <1>2, <2>4, <3>2, <3>3
  <2>5. CASE This \notin Gated
    <3>1. data = Read(This, "low", round) /\ This \notin Firefly /\ This \notin Sfp
      BY <1>2, <2>5, Lists, Ops, Kinds
    <3> DEFINE h == IF tested = 0 THEN record[This].high ELSE data
    <3>2. LtcRecord(data, tested) = OwnRecord(h)
      BY <3>1 DEF LtcRecord, OwnRecord
    <3>3. h \in OwnHighs
      BY <2>5, <3>1 DEF OwnHighs
    <3>4. QED
      BY <1>1, <1>3, <1>5, <2>1, <3>1, <3>2, <3>3 DEF LastGet
  <2>6. QED
    BY <2>3, <2>4, <2>5, Kinds
<1>8. QED
  BY <1>6, <1>7

LEMMA GetInv ==
  ASSUME BusInv, NEW ok \in BOOLEAN, NEW left \in Pages, NEW tested \in {0, 1}, Get(ok, left, tested)
  PROVE  BusInv'
<1>1. CASE ~ok
  <2>1. GiveUp /\ UNCHANGED <<selected, pointer>> /\ status' = "failed" /\ buffer' = Nothing /\ AtWork
    BY <1>1 DEF Get, AtWork
  <2>2. QED
    BY <2>1, GivesUp DEF BusInv, TypeOK, Data
<1>2. CASE ok
  <2>0. Get(TRUE, left, tested) /\ stage = "get"
    BY <1>2 DEF Get
  <2>1. /\ UNCHANGED <<plugged, selected, clean>> /\ status' = "ok"
        /\ pointer' \in [S -> Pages] /\ buffer' \in Data /\ This \in S
    BY <2>0, GetReads
  <2>2. CASE FirstGet
    <3>1. copied' \in Data
      BY <2>1, <2>2 DEF FirstGet, BusInv, TypeOK, Data, Read, Pages
    <3>2. TypeOK'
      BY <2>1, <2>2, <3>1, Lists DEF FirstGet, BusInv, TypeOK
    <3>3. This' = This
      BY <2>2 DEF FirstGet, This
    <3>4. (CallUnderWay /\ ReadIsAimed /\ HalfIsOwn)'
      BY <2>2, <3>3, Kinds DEF FirstGet, CallUnderWay, ReadIsAimed, HalfIsOwn, AtWork, Read
    <3>5. QED
      BY <2>0, <2>2, <3>2, <3>4, TurnGoesOn DEF FirstGet, BusInv
  <2>3. CASE LastGet
    <3>1. PICK h \in OwnHighs : record' = [record EXCEPT ![This] = OwnRecord(h)]
      BY <2>3 DEF LastGet
    <3>2. h \in Data /\ Read(This, "low", round) \in Data
      BY <2>1, <3>1 DEF OwnHighs, OwnHigh, BusInv, TypeOK, Data, Read, Pages
    <3>3. OwnRecord(h) \in [present : BOOLEAN, low : Data, high : Data]
      BY <3>2 DEF OwnRecord
    <3>4. /\ record' \in [S -> [present : BOOLEAN, low : Data, high : Data]]
          /\ record'[This] = OwnRecord(h)
          /\ \A s \in S : s # This => record'[s] = record[s]
      BY <2>1, <3>1, <3>3 DEF BusInv, TypeOK
    <3>5. NextSensor /\ UNCHANGED copied
      BY <2>3 DEF LastGet
    <3>6. TypeOK'
      BY <2>1, <3>4, <3>5, TurnMoves DEF BusInv, TypeOK
    <3>7. This \in Gated =>
            record'[This].low = Read(This, "low", round) /\ record'[This].high \in OwnHigh(This, round)
      BY <3>1, <3>4 DEF OwnRecord, OwnHighs
    <3>8. QED
      BY <3>4, <3>5, <3>6, <3>7, TurnEnds DEF BusInv
  <2>4. QED
    BY <2>0, <2>2, <2>3, GetReads
<1>3. QED
  BY <1>1, <1>2

-----------------------------------------------------------------------------
LEMMA BusStep ==
  ASSUME BusInv, [Next]_vars
  PROVE  BusInv'
<1>1. CASE UNCHANGED vars
  BY <1>1 DEF vars, BusInv, TypeOK, CallUnderWay, ReadIsAimed, HalfIsOwn, ClearedFirst, RecordIsOwn,
              AtWork, This, Addressed, Read, RoundOf, OwnHigh
<1>2. CASE Next
  BY <1>2, StartSensorInv, ReadPresenceInv, SelectInv, PutInv, GetInv, PlugInv DEF Next, Step
<1>3. QED
  BY <1>1, <1>2

(* The invariant of the transfers, for every table of sensors. *)
THEOREM BusInvariant == Spec => []BusInv
<1>1. QED
  BY InitBusInv, BusStep, PTL DEF Spec

(* Every variable keeps to its set: no transfer leaves the control state
   without the calls that are left (sensorData.c, sensorI2C.c). *)
THEOREM BusTypeCorrect == Spec => []TypeOK
<1>1. BusInv => TypeOK
  BY DEF BusInv
<1>2. QED
  BY <1>1, BusInvariant, PTL

(* The record of a module that says present is made of halves of this module's
   own memory that were read in its last turn (firefly.c:148-193, sfp.c:17-71). *)
THEOREM BusRecordIsOwn == Spec => []RecordIsOwn
<1>1. BusInv => RecordIsOwn
  BY DEF BusInv
<1>2. QED
  BY <1>1, BusInvariant, PTL

LEMMA CleanStep ==
  ASSUME BusInv, [Next]_vars, turn' # turn, clean, clean'
  PROVE  record'[This].present
<1>1. Step
  <2>1. ~ \E s \in S : Plug(s)
    BY DEF Plug
  <2>2. QED
    BY <2>1 DEF Next, vars
<1>2. ~ StartSensor /\ ~ GiveUp
  BY DEF StartSensor, GiveUp
<1>3. ASSUME NEW ok \in BOOLEAN
      PROVE  ~ ReadPresence(ok) /\ ~ Put(ok)
  BY <1>2 DEF ReadPresence, Put
<1>4. ASSUME NEW out \in {"done", "unwritten", "unread"}
      PROVE  ~ Select(out)
  BY <1>2 DEF Select
<1>5. ASSUME NEW ok \in BOOLEAN, NEW left \in Pages, NEW tested \in {0, 1}, Get(ok, left, tested)
      PROVE  record'[This].present
  <2>1. ok
    BY <1>2, <1>5 DEF Get
  <2>2. LastGet /\ This \in S
    BY <1>5, <2>1, GetReads DEF FirstGet
  <2>3. QED
    BY <2>2 DEF LastGet, OwnRecord, BusInv, TypeOK
<1>6. QED
  BY <1>1, <1>2, <1>3, <1>4, <1>5 DEF Step

(* A turn in which nothing went wrong for this sensor fills its record, however
   the turns of the others went. *)
THEOREM BusCleanReadIsRecorded == Spec => CleanReadIsRecorded
<1>1. BusInv /\ [Next]_vars => [turn' # turn /\ clean /\ clean' => record'[This].present]_vars
  BY CleanStep
<1>2. QED
  BY <1>1, BusInvariant, PTL DEF Spec, CleanReadIsRecorded

-----------------------------------------------------------------------------
(* The steps of the transfers, seen as steps of a round. *)
LEMMA EndsRead ==
  ASSUME stage # "start", NextSensor, NEW answer \in ServiceRound!Answers,
         record' = [record EXCEPT ![This] = answer]
  PROVE  ServiceRound!EndRead
BY DEF NextSensor, ServiceRound!EndRead, ServiceRound!This, This

LEMMA GiveUpEndsRead ==
  ASSUME BusInv, AtWork, GiveUp
  PROVE  ServiceRound!EndRead
<1>1. This \in S /\ stage # "start"
  BY ThisIsSensor DEF BusInv, AtWork
<1>2. Leftover \in ServiceRound!Answers
  <2>1. CASE This \in Sfp /\ Len(todo) = 1
    <3>1. todo = OneLeft /\ Kind[This] = "sfp" /\ This \in Gated
      BY <1>1, <2>1, Lists, Kinds DEF BusInv, CallUnderWay
    <3>2. copied = Read(This, "low", round)
      BY <3>1 DEF BusInv, HalfIsOwn
    <3>3. QED
      BY <2>1, <3>1, <3>2 DEF Leftover, Read, Empty, This, ServiceRound!Answers, ServiceRound!Own,
                              ServiceRound!This, ServiceRound!Empty
  <2>2. CASE ~(This \in Sfp /\ Len(todo) = 1)
    BY <2>2 DEF Leftover, Empty, ServiceRound!Answers, ServiceRound!Empty
  <2>3. QED
    BY <2>1, <2>2
<1>3. QED
  BY <1>1, <1>2, EndsRead DEF GiveUp

LEMMA StepIsRound ==
  ASSUME BusInv, [Next]_vars
  PROVE  [ServiceRound!RoundNext]_(ServiceRound!rvars)
<1> DEFINE Same == UNCHANGED <<turn, round, stage # "start", record>>
<1> USE DEF ServiceRound!RoundNext, ServiceRound!rvars
<1>1. ASSUME StartSensor PROVE ServiceRound!BeginRead
  <2>1. This \in S
    BY ThisIsSensor DEF BusInv
  <2>2. QED
    BY <1>1, <2>1, Kinds DEF StartSensor, Begin, Empty, This, ServiceRound!BeginRead,
                      ServiceRound!This, ServiceRound!Empty
<1>2. ASSUME NEW ok \in BOOLEAN, ReadPresence(ok) PROVE ServiceRound!EndRead \/ Same
  <2>1. record[This] = Empty /\ record' = record /\ stage # "start" /\ This \in S
    BY <1>2, ThisIsSensor, Kinds DEF BusInv, ClearedFirst, CallUnderWay, ReadPresence
  <2>2. CASE ok /\ This \notin plugged
    <3>1. NextSensor /\ record' = [record EXCEPT ![This] = Empty]
      BY <1>2, <2>1, <2>2 DEF ReadPresence, BusInv, TypeOK
    <3>2. Empty \in ServiceRound!Answers
      BY DEF ServiceRound!Answers, ServiceRound!Empty, Empty
    <3>3. QED
      BY <2>1, <3>1, <3>2, EndsRead
  <2>3. CASE ~(ok /\ This \notin plugged)
    BY <1>2, <2>1, <2>3 DEF ReadPresence
  <2>4. QED
    BY <2>2, <2>3
<1>3. ASSUME NEW out \in {"done", "unwritten", "unread"}, Select(out) PROVE ServiceRound!EndRead \/ Same
  BY <1>3, GiveUpEndsRead DEF Select, AtWork
<1>4. ASSUME NEW ok \in BOOLEAN, Put(ok) PROVE ServiceRound!EndRead \/ Same
  BY <1>4, GiveUpEndsRead DEF Put, AtWork
<1>5. ASSUME NEW ok \in BOOLEAN, NEW left \in Pages, NEW tested \in {0, 1}, Get(ok, left, tested)
      PROVE  ServiceRound!EndRead \/ Same
  <2>1. stage = "get"
    BY <1>5 DEF Get
  <2>2. CASE ~ok
    BY <1>5, <2>1, <2>2, GiveUpEndsRead DEF Get, AtWork
  <2>3. CASE ok
    <3>1. LastGet \/ Same
      BY <1>5, <2>1, <2>3, GetReads DEF FirstGet
    <3>2. ASSUME LastGet PROVE ServiceRound!EndRead
      <4>1. PICK h \in OwnHighs : record' = [record EXCEPT ![This] = OwnRecord(h)]
        BY <3>2 DEF LastGet
      <4>2. This \in S
        BY ThisIsSensor DEF BusInv
      <4>3. h \in ServiceRound!Highs
        BY <4>1, <4>2, Kinds DEF OwnHighs, OwnHigh, Read, This, ServiceRound!Highs, ServiceRound!Own, ServiceRound!This
      <4>4. OwnRecord(h) \in ServiceRound!Answers
        BY <4>3 DEF OwnRecord, Read, This, ServiceRound!Answers, ServiceRound!Own, ServiceRound!This
      <4>5. QED
        BY <2>1, <3>2, <4>1, <4>4, EndsRead DEF LastGet
    <3>3. QED
      BY <3>1, <3>2
  <2>4. QED
    BY <2>2, <2>3
<1>6. ASSUME (\E s \in S : Plug(s)) \/ UNCHANGED vars PROVE Same
  BY <1>6 DEF Plug, vars
<1>7. QED
  BY <1>1, <1>2, <1>3, <1>4, <1>5, <1>6 DEF Next, Step

(* The transfers implement the round: whatever fails, a record that is not
   being read stands still, and one that was read is empty or its sensor's own. *)
THEOREM BusImplementsRound == Spec => ImplementsRound
<1>1. Init => ServiceRound!RoundInit
  BY DEF Init, S, Empty, ServiceRound!RoundInit, ServiceRound!Empty
<1>2. QED
  BY <1>1, StepIsRound, BusInvariant, PTL DEF Spec, ImplementsRound, ServiceRound!RoundSpec

-----------------------------------------------------------------------------
(* The block of the IPMC. *)

(* Two writes less than SeqMod apart have different sequence numbers. *)
LEMMA SeqidsDiffer ==
  ASSUME NEW a \in Nat, NEW b \in Nat, b <= a, a - b < SeqMod, Seqid(a) = Seqid(b)
  PROVE  a = b
<1> DEFINE qa == a \div SeqMod
           qb == b \div SeqMod
           r == a % SeqMod
<1>0. SeqMod \in Nat \ {0}
  BY BlockAssumption
<1>1. qa \in Int /\ r \in Nat /\ a = SeqMod * qa + r
  BY <1>0
<1>2. qb \in Int /\ b = SeqMod * qb + r
  BY <1>0 DEF Seqid
<1>3. a - b = SeqMod * (qa - qb)
  BY <1>0, <1>1, <1>2, SMT
<1> HIDE DEF qa, qb, r
<1>4. SUFFICES ASSUME qa # qb PROVE FALSE
  BY <1>1, <1>2
<1>5. CASE qa - qb >= 1
  <2>1. SeqMod * (qa - qb) >= SeqMod
    BY <1>0, <1>1, <1>2, <1>5, SMT
  <2> QED BY <2>1, <1>3, <1>0
<1>6. CASE qa - qb <= -1
  <2>1. SeqMod * (qa - qb) <= -SeqMod
    BY <1>0, <1>1, <1>2, <1>6, SMT
  <2> QED BY <2>1, <1>3, <1>0
<1> QED BY <1>1, <1>2, <1>4, <1>5, <1>6

(* A block, written from the first cell to the last, that begins and ends with
   the same sequence number is of one write. *)
LEMMA SameSeqidOneWrite ==
  ASSUME NEW m \in [Cells -> Nat], Ordered(m), Recent(m), Seqid(m[1]) = Seqid(m[LastCell])
  PROVE  \A c \in Cells : m[c] = m[1]
<1>1. 1 \in Cells /\ LastCell \in Cells /\ m[1] \in Nat /\ m[LastCell] \in Nat
  BY BlockAssumption DEF Cells
<1>2. m[LastCell] <= m[1]
  BY <1>1, BlockAssumption DEF Ordered, Cells
<1>3. m[1] = m[LastCell]
  BY <1>1, <1>2, SeqidsDiffer DEF Recent
<1>4. ASSUME NEW c \in Cells PROVE m[c] = m[1]
  <2>1. m[c] <= m[1] /\ m[LastCell] <= m[c] /\ m[c] \in Nat
    BY <1>1, BlockAssumption DEF Ordered, Cells
  <2> QED BY <2>1, <1>1, <1>3
<1> QED BY <1>4

LEMMA InitIInv == BlockInit => BlockInv
<1> SUFFICES ASSUME BlockInit PROVE BlockInv
  OBVIOUS
<1> USE BlockAssumption DEF BlockInit
<1>1. BlockTypeOK
  <2>1. mem \in [Cells -> Nat] /\ fbuf \in [Cells -> Nat] /\ raw \in [DataCells -> Nat]
    OBVIOUS
  <2>2. hdr \in Headers /\ shown \in Headers \cup {NoHeader}
    BY DEF Headers
  <2>3. next \in 2 .. (LastCell + 1) /\ allocated \in {-1, 0, NBytes} /\ copying \in {0, NBytes}
    OBVIOUS
  <2> QED BY <2>1, <2>2, <2>3 DEF BlockTypeOK
<1>2. mem = [c \in Cells |-> 0] /\ fbuf = mem /\ 1 \in Cells /\ LastCell \in Cells
  BY DEF Cells
<1>3. Ordered(mem) /\ Recent(mem) /\ Ordered(fbuf) /\ Recent(fbuf)
  BY <1>2 DEF Ordered, Recent
<1>4. \A c \in Cells : c < next => mem[c] = mem[1]
  BY <1>2
<1> QED BY <1>1, <1>3, <1>4 DEF BlockInv, RecordIsOneWrite

LEMMA CellFacts ==
  /\ 1 \in Cells /\ 2 \in Cells /\ 3 \in Cells /\ LastCell \in Cells /\ DataCells \subseteq Cells
  /\ LastCell # 1 /\ LastCell \in Int
BY BlockAssumption DEF Cells, DataCells

(* The IPMC keeps the block in order and the reader's part as it is. *)
LEMMA BeginWriteIInv == BlockInv /\ BeginWrite => BlockInv'
<1> SUFFICES ASSUME BlockInv, BeginWrite PROVE BlockInv'
  OBVIOUS
<1> USE CellFacts, BlockAssumption DEF BlockInv, BeginWrite
<1>1. BlockTypeOK'
  BY DEF BlockTypeOK, Cells
<1>2. Ordered(mem)' /\ Recent(mem)'
  BY DEF BlockTypeOK, Ordered, Recent, Cells
<1>3. (\A c \in Cells : c < next => mem[c] = mem[1])'
  BY DEF BlockTypeOK, Cells
<1>4. (Ordered(fbuf) /\ Recent(fbuf))'
  BY DEF Ordered, Recent
<1>5. (pc = "recheck" => Seqid(hdr.seq) = Seqid(fbuf[TrailerCell]))' /\ RecordIsOneWrite'
  BY DEF TrailerCell, RecordIsOneWrite, Seqid
<1> QED BY <1>1, <1>2, <1>3, <1>4, <1>5

LEMMA WriteCellIInv == BlockInv /\ WriteCell => BlockInv'
<1> SUFFICES ASSUME BlockInv, WriteCell PROVE BlockInv'
  OBVIOUS
<1> USE CellFacts, BlockAssumption DEF BlockInv, WriteCell
<1>1. BlockTypeOK'
  BY DEF BlockTypeOK, Cells
<1>2. Ordered(mem)' /\ Recent(mem)'
  <2>1. next \in Cells /\ next # 1 /\ mem \in [Cells -> Nat]
    BY DEF BlockTypeOK, Cells
  <2>2. ASSUME NEW c \in Cells, NEW d \in Cells, c <= d PROVE mem'[d] <= mem'[c]
    <3>1. mem[d] <= mem[c] /\ mem[d] <= mem[1] /\ mem[c] \in Nat /\ mem[d] \in Nat /\ mem[1] \in Nat
      BY <2>1, <2>2 DEF Ordered, Cells
    <3>2. c < next => mem[c] = mem[1]
      BY DEF BlockTypeOK
    <3> QED BY <2>1, <2>2, <3>1, <3>2 DEF Cells
  <2>3. Recent(mem)'
    <3>1. mem[LastCell] \in Nat /\ mem[1] \in Nat /\ mem[LastCell] <= mem[1]
      BY <2>1 DEF Ordered, Cells
    <3> QED BY <2>1, <3>1 DEF Recent
  <2> QED BY <2>2, <2>3 DEF Ordered
<1>3. (\A c \in Cells : c < next => mem[c] = mem[1])'
  BY DEF BlockTypeOK, Cells
<1>4. (Ordered(fbuf) /\ Recent(fbuf))'
  BY DEF Ordered, Recent
<1>5. (pc = "recheck" => Seqid(hdr.seq) = Seqid(fbuf[TrailerCell]))' /\ RecordIsOneWrite'
  BY DEF TrailerCell, RecordIsOneWrite, Seqid
<1> QED BY <1>1, <1>2, <1>3, <1>4, <1>5

LEMMA ReadHeaderIInv ==
  ASSUME NEW ok \in BOOLEAN, NEW memory \in BOOLEAN, BlockInv, ReadHeader(ok, memory)
  PROVE  BlockInv'
<1> USE CellFacts, BlockAssumption DEF BlockInv, ReadHeader, Close
<1>1. BlockTypeOK'
  BY DEF BlockTypeOK, Headers, Invalid
<1>2. (Ordered(mem) /\ Recent(mem) /\ Ordered(fbuf) /\ Recent(fbuf))'
  BY DEF Ordered, Recent
<1>3. (\A c \in Cells : c < next => mem[c] = mem[1])'
  OBVIOUS
<1>4. (pc # "idle" => hdr = [seq |-> fbuf[1], rest |-> fbuf[2]])'
  OBVIOUS
<1>5. RecordIsOneWrite' /\ pc' \in {"idle", "allocate"}
  BY DEF RecordIsOneWrite
<1> QED BY <1>1, <1>2, <1>3, <1>4, <1>5

LEMMA AllocateIInv ==
  ASSUME NEW memory \in BOOLEAN, BlockInv, Allocate(memory)
  PROVE  BlockInv'
<1> USE CellFacts, BlockAssumption DEF BlockInv, Allocate, Close
<1>1. BlockTypeOK'
  BY DEF BlockTypeOK, Bytes
<1>2. (Ordered(mem) /\ Recent(mem) /\ Ordered(fbuf) /\ Recent(fbuf))'
  BY DEF Ordered, Recent
<1>3. (pc # "idle" => hdr = [seq |-> fbuf[1], rest |-> fbuf[2]])'
  OBVIOUS
<1>4. RecordIsOneWrite' /\ pc' \in {"idle", "data"}
  BY DEF RecordIsOneWrite
<1> QED BY <1>1, <1>2, <1>3, <1>4

LEMMA ReadDataIInv ==
  ASSUME ~Truncates, NEW last \in 2 .. (LastCell - 1), BlockInv, ReadData(last)
  PROVE  BlockInv'
<1> USE CellFacts, BlockAssumption DEF BlockInv, ReadData, Close, File
<1>0. last = LastCell - 1 /\ pc = "data" /\ pc' = "trailer" /\ hdr' = hdr
  OBVIOUS
<1>1. BlockTypeOK'
  <2>1. raw' \in [DataCells -> Nat]
    <3>1. fbuf \in [Cells -> Nat] /\ raw \in [DataCells -> Nat]
      BY DEF BlockTypeOK
    <3>2. \A c \in DataCells : (IF c <= last /\ hdr.rest # 0 THEN fbuf[c] ELSE raw[c]) \in Nat
      BY <3>1
    <3>3. raw' = [c \in DataCells |-> IF c <= last /\ hdr.rest # 0 THEN fbuf[c] ELSE raw[c]]
      OBVIOUS
    <3> QED BY ONLY <3>2, <3>3
  <2>2. hdr # Invalid /\ hdr' \in Headers /\ copying' = 0
    BY <1>0 DEF BlockTypeOK
  <2> QED BY <1>0, <2>1, <2>2 DEF BlockTypeOK
<1>2. (Ordered(mem) /\ Recent(mem) /\ Ordered(fbuf) /\ Recent(fbuf))'
  BY DEF Ordered, Recent
<1>3. (pc # "idle" => hdr = [seq |-> fbuf[1], rest |-> fbuf[2]])'
  BY <1>0
<1>4. (hdr.rest # 0 => \A c \in DataCells : raw[c] = fbuf[c])'
  BY <1>0 DEF DataCells
<1>5. RecordIsOneWrite'
  BY <1>0 DEF RecordIsOneWrite
<1> QED BY <1>0, <1>1, <1>2, <1>3, <1>4, <1>5

LEMMA ReadTrailerIInv ==
  ASSUME ~Truncates, NEW ok \in BOOLEAN, BlockInv, ReadTrailer(ok)
  PROVE  BlockInv'
<1> USE CellFacts, BlockAssumption DEF BlockInv, ReadTrailer, Close, File
<1>0. ok /\ pc = "trailer"
  OBVIOUS
<1>1. CASE Seqid(hdr.seq) # Seqid(fbuf[TrailerCell])
  <2>1. pc' = "idle" /\ hdr' = Invalid
    BY <1>0, <1>1
  <2>2. BlockTypeOK'
    BY <1>0, <1>1 DEF BlockTypeOK, Headers
  <2>3. (Ordered(mem) /\ Recent(mem) /\ Ordered(fbuf) /\ Recent(fbuf))'
    BY DEF Ordered, Recent
  <2>4. RecordIsOneWrite'
    BY <2>1 DEF RecordIsOneWrite
  <2> QED BY <2>1, <2>2, <2>3, <2>4
<1>2. CASE Seqid(hdr.seq) = Seqid(fbuf[TrailerCell])
  <2>1. pc' = "recheck" /\ hdr' = hdr
    BY <1>0, <1>2
  <2>2. BlockTypeOK'
    BY <1>0, <2>1, <1>2 DEF BlockTypeOK
  <2>3. (Ordered(mem) /\ Recent(mem) /\ Ordered(fbuf) /\ Recent(fbuf))'
    BY DEF Ordered, Recent
  <2>4. (Seqid(hdr.seq) = Seqid(fbuf[TrailerCell]))'
    BY <1>2, <2>1 DEF TrailerCell, Seqid
  <2>5. RecordIsOneWrite'
    BY <2>1 DEF RecordIsOneWrite
  <2> QED BY <1>0, <2>1, <2>2, <2>3, <2>4, <2>5
<1> QED BY <1>1, <1>2

(* Where the record becomes valid: header, data and trailer are cells of one
   buffer that begins and ends with the same sequence number. *)
LEMMA RecheckIInv == BlockInv /\ Recheck => BlockInv'
<1> SUFFICES ASSUME BlockInv, Recheck PROVE BlockInv'
  OBVIOUS
<1> USE CellFacts, BlockAssumption DEF BlockInv, Recheck, Close, File
<1>1. pc' = "idle" /\ hdr' = hdr /\ stamp' = fbuf[TrailerCell] /\ copying' = 0
  OBVIOUS
<1>2. BlockTypeOK'
  <2>1. stamp' \in Nat
    BY <1>1 DEF BlockTypeOK, TrailerCell
  <2> QED BY <1>1, <2>1 DEF BlockTypeOK
<1>3. (Ordered(mem) /\ Recent(mem) /\ Ordered(fbuf) /\ Recent(fbuf))'
  BY DEF Ordered, Recent
<1>4. RecordIsOneWrite'
  <2>1. SUFFICES ASSUME hdr.rest # 0
                 PROVE  hdr.rest = hdr.seq /\ stamp' = hdr.seq /\ \A c \in DataCells : raw[c] = hdr.seq
    BY <1>1 DEF RecordIsOneWrite
  <2>2. TrailerCell = LastCell /\ hdr.seq = fbuf[1] /\ hdr.rest = fbuf[2]
    BY <2>1 DEF TrailerCell
  <2>3. Seqid(fbuf[1]) = Seqid(fbuf[LastCell])
    BY <2>2
  <2>4. \A c \in Cells : fbuf[c] = fbuf[1]
    BY <2>3, SameSeqidOneWrite DEF BlockTypeOK
  <2> QED BY <1>1, <2>1, <2>2, <2>4
<1> QED BY <1>1, <1>2, <1>3, <1>4

LEMMA FormatIInv == BlockInv /\ Format => BlockInv'
<1> SUFFICES ASSUME BlockInv, Format PROVE BlockInv'
  OBVIOUS
<1> USE CellFacts, BlockAssumption DEF BlockInv, Format
<1>1. BlockTypeOK'
  <2>1. decoder' \in BOOLEAN /\ shown' \in Headers \cup {NoHeader}
    BY DEF BlockTypeOK
  <2> QED BY <2>1 DEF BlockTypeOK
<1>2. (Ordered(mem) /\ Recent(mem) /\ Ordered(fbuf) /\ Recent(fbuf))'
  BY DEF Ordered, Recent
<1>3. RecordIsOneWrite' /\ pc' = "idle"
  BY DEF RecordIsOneWrite
<1> QED BY <1>1, <1>2, <1>3

LEMMA StutterIInv == BlockInv /\ UNCHANGED blockVars => BlockInv'
BY DEF BlockInv, BlockTypeOK, Ordered, Recent, RecordIsOneWrite, TrailerCell, Seqid, blockVars

(* The inductive invariant of the block holds in every reachable state
   (ipmcSensorBlock.c:99-181). *)
THEOREM BlockInvariant == ASSUME ~Truncates PROVE BlockSpec => []BlockInv
<1>1. BlockInv /\ [BlockNext]_blockVars => BlockInv'
  <2> SUFFICES ASSUME BlockInv, [BlockNext]_blockVars PROVE BlockInv'
    OBVIOUS
  <2>1. CASE BeginWrite \/ WriteCell \/ Recheck \/ Format
    BY <2>1, BeginWriteIInv, WriteCellIInv, RecheckIInv, FormatIInv
  <2>2. CASE \E ok, memory \in BOOLEAN : ReadHeader(ok, memory)
    BY <2>2, ReadHeaderIInv
  <2>3. CASE \E memory \in BOOLEAN : Allocate(memory)
    BY <2>3, AllocateIInv
  <2>4. CASE \E last \in 2 .. (LastCell - 1) : ReadData(last)
    BY <2>4, ReadDataIInv
  <2>5. CASE \E ok \in BOOLEAN : ReadTrailer(ok)
    BY <2>5, ReadTrailerIInv
  <2>6. CASE UNCHANGED blockVars
    BY <2>6, StutterIInv
  <2> QED BY <2>1, <2>2, <2>3, <2>4, <2>5, <2>6 DEF BlockNext
<1> QED BY <1>1, InitIInv, PTL DEF BlockSpec

(* Type correctness of the reader and the block. *)
THEOREM BlockTypeCorrect == ASSUME ~Truncates PROVE BlockSpec => []BlockTypeOK
<1>1. BlockInv => BlockTypeOK
  BY DEF BlockInv
<1> QED BY <1>1, BlockInvariant, PTL

(* A record that is not marked invalid is of one write of the IPMC, however the
   writes and the reads interleave (ipmcSensorBlock.c:99-181). *)
THEOREM BlockRecordIsOneWrite == ASSUME ~Truncates PROVE BlockSpec => []RecordIsOneWrite
<1>1. BlockInv => RecordIsOneWrite
  BY DEF BlockInv
<1> QED BY <1>1, BlockInvariant, PTL

=============================================================================
