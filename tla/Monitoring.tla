----------------------------- MODULE Monitoring -----------------------------
(***************************************************************************)
(* One cycle after the other of QuasarServer::mainLoop(): DRegs::update()  *)
(* reads the sensors on the bus (SensorRound), the Zynq (ZynqSensors) and  *)
(* the block of the IPMC, formats them as one document (Documents) and     *)
(* publishes what it finds there, all of it with the status OpcUa_Good.    *)
(*                                                                         *)
(* A published value is known by where it comes from.  One that the code   *)
(* takes from an uninitialised pointer is any value, or the end of the     *)
(* process.                                                                *)
(***************************************************************************)
EXTENDS SensorRound, ZynqSensors, Documents, FiniteSets

CONSTANTS
  KeyOf,     (* of each sensor: its name in the document, with its tag     *)
  BaseName,  (* of each channel: the name of its files                     *)
  FpgaRows,  (* <<entry, row>>: what "fpga" shows of zynqDataRecs          *)
  Missing,   (* -99, for what is not in the document                       *)
  Garbage    (* whatever stood in memory, another module's values perhaps  *)

S == {Sensors[i] : i \in DOMAIN Sensors}
Ltc == {s \in S : Kind[s] = "ltc2945"}
Firefly == {s \in S : Kind[s] = "firefly4"}

(* The names in a document that the code gives itself have no capitals. *)
Fixed == {"hwid", "fdna", "ureg", "versions", "fwvers", "swvers", "type", "title", "sensor", "zynqps", "fpga", "ipmc",
          "name", "present", "status", "rxpower", "id", "model", "serial", "fwversion"}

ASSUME MonitoringAssumption ==
  /\ Sensors \in Seq(S) /\ Sensors # <<>>
  /\ Kind \in [S -> {"firefly4", "sfp", "ltc2945"}]
  /\ FpgaRows \in Seq(Range(FpgaRows)) /\ \A i \in DOMAIN FpgaRows : FpgaRows[i][2] \in DOMAIN Channels
  /\ Cardinality({Nothing, Missing, Garbage} \cup S) = Cardinality(S) + 3
  /\ Missing # TRUE
  /\ Fixed \cap DOMAIN Lower = {}
  /\ \A i, j \in DOMAIN Sensors : Sensors[i] = Sensors[j] => i = j
  /\ \A s, t \in S : SameName(KeyOf[s], KeyOf[t]) => s = t
  /\ \A s \in S : SmallLetters(KeyOf[s]) \notin Fixed
  /\ \A c, d \in C : ~SameName(c, BaseName[d]) /\ (SameName(c, d) => c = d)

VARIABLES
  pc,         (* where mainLoop(), or update() below it, is                *)
  maxprint,   (* how many documents were written to the file               *)
  block,      (* the record of the IPMC block: "none", "valid" or "invalid" *)
  decoder,    (* the decoder of the block has been chosen                  *)
  document,   (* top: the document of this cycle                           *)
  printed,    (* how the last document that was printed came out           *)
  published   (* the cache variables, by group                             *)

mvars == <<pc, maxprint, block, decoder, document, printed, published>>
vars == <<rvars, zvars, mvars>>

(* The items of a Firefly, of which the twelve numbers from "status" to "tempC"
   are one here, and those of the block. *)
FireflyItems == {"present", "rxpower", "status", "id", "model", "serial", "fwversion"}
IpmcItems == {"status", "rawtime", "time", "TMP100_z"}

Init ==
  /\ RoundInit /\ ZInit
  /\ pc = "loop"
  /\ maxprint = 0
  /\ block = "none"
  /\ decoder = FALSE
  /\ document = Null
  /\ printed = "never"
  /\ published = [header |-> [item \in {"hwid", "fwvers", "swvers"} |-> Missing],
                  ltc |-> [s \in Ltc |-> [item \in 2..4 |-> Missing]],
                  firefly |-> [s \in Firefly |-> [item \in FireflyItems |-> Missing]],
                  fpga |-> [i \in DOMAIN FpgaRows |-> Missing],
                  zynq |-> [c \in C |-> Missing],
                  ipmc |-> [item \in IpmcItems |-> Missing]]

GoTo(from, to) == pc = from /\ pc' = to

-----------------------------------------------------------------------------
(* while(ShutDownFlag() == 0), and half a second of sleep: a signal can have set
   the flag (ServerLifecycle) or not. *)
TestFlag ==
  /\ GoTo("loop", "sensors") \/ GoTo("loop", "ended")
  /\ UNCHANGED <<rvars, zvars, maxprint, block, decoder, document, printed, published>>

(* sensorMonitor(): the sensors on the bus, each as SensorRound has it ... *)
MonitorBus ==
  /\ pc = "sensors"
  /\ RoundNext
  /\ pc' = IF round' # round THEN "zynq" ELSE "sensors"
  /\ UNCHANGED <<zvars, maxprint, block, decoder, document, printed, published>>

(* ... then the Zynq ... *)
MonitorZynq ==
  /\ GoTo("zynq", "ipmc")
  /\ \E out \in Possible : ReadZynq(out)
  /\ UNCHANGED <<rvars, maxprint, block, decoder, document, printed, published>>

(* ... and the IPMC, as IpmcBlock has it: the record stays if the file cannot be
   opened, is marked invalid, or is that of one write. *)
MonitorIpmc ==
  /\ GoTo("ipmc", "format")
  /\ block' \in {block, "invalid", "valid"}
  /\ UNCHANGED <<rvars, zvars, maxprint, decoder, document, printed, published>>

-----------------------------------------------------------------------------
(* The format functions.  The value of a number is where it comes from. *)
SysinfoData ==
  <<<<"hwid", CreateNumber("hwid")>>, <<"fdna", CreateString("fdna")>>,
    <<"ureg", ArrayOf([i \in 1..8 |-> CreateNumber("ureg")])>>,
    <<"versions", AddItems(CreateObject, <<<<"fwvers", CreateNumber("fwvers")>>, <<"swvers", CreateNumber("swvers")>>>>)>>,
    <<"type", CreateString("type")>>, <<"title", CreateString("title")>>>>
SysinfoFormat(top) == AddItems(top, SysinfoData)

(* The format function of a sensor adds one item to the object it is given: an
   array, or of a Firefly an object. *)
SensorArray(s, values) == <<KeyOf[s], ArrayOf(values)>>

(* Name, noUpd, voltage, current, temperature. *)
Ltc2945Format(s) ==
  SensorArray(s, <<CreateString(s), CreateNumber(~record[s].present), CreateNumber(record[s].low),
                   CreateNumber(record[s].low), CreateNumber(record[s].high)>>)

(* noUpd, vendor, part, txPower, rxPower. *)
SfpFormat(s) ==
  SensorArray(s, <<CreateNumber(~record[s].present), CreateString(record[s].low), CreateString(record[s].low),
                   CreateNumber(record[s].high), CreateNumber(record[s].high)>>)

(* Of a module that is not there it files that and no more. *)
ModuleData(s) ==
  LET low == record[s].low
      high == record[s].high
  IN  IF ~record[s].present THEN <<>>
      ELSE <<<<"status", CreateNumber(low)>>, <<"rxpower", ArrayOf([i \in 1..4 |-> CreateNumber(low)])>>,
             <<"id", CreateNumber(low)>>, <<"model", CreateString(high)>>, <<"serial", CreateString(high)>>,
             <<"fwversion", CreateString(low)>>>>

FireflyFormat4(s) ==
  <<KeyOf[s], AddItems(CreateObject, <<<<"name", CreateString(s)>>, <<"present", CreateNumber(record[s].present)>>>> \o ModuleData(s))>>

BusItem(s) == CASE Kind[s] = "ltc2945" -> Ltc2945Format(s) [] Kind[s] = "sfp" -> SfpFormat(s) [] OTHER -> FireflyFormat4(s)

(* Mutant: the format function files a value that could not be read, too. *)
FileChannel_Always(c) == <<c, CreateNumber(value[c])>>

(* A value is filed under the name of the channel, and the -999 of an error
   under the name of its files, where nobody looks for it. *)
FileChannel(c) == IF err[c] = "none" THEN <<c, CreateNumber(value[c])>> ELSE <<BaseName[c], CreateNumber("-999")>>

(* "fpga" has four of the rows besides, whatever their error says. *)
ZynqOnBoardFormat(parent) ==
  LET shown == [i \in DOMAIN FpgaRows |-> <<FpgaRows[i][1], CreateString(value[Channels[FpgaRows[i][2]]])>>] IN
  AddItems(parent,
    <<<<"zynqps", AddItems(CreateObject, [i \in DOMAIN Channels |-> FileChannel(Channels[i])])>>,
      <<"fpga", AddItems(CreateObject, <<<<"up", CreateNumber("up")>>>> \o shown)>>>>)

(* The decoder is chosen once, for the board of the first valid header. *)
SetupDecoder == decoder \/ block = "valid"

(* What the decoder files: the header (of six items one here), the time, and a
   table of converted values (of thirty). *)
HeaderData == <<<<"status", CreateNumber(block)>>>>
DecodedData ==
  <<<<"rawtime", CreateNumber(block)>>, <<"time", CreateString(block)>>, <<"TMP100_z", CreateNumber(block)>>>>

IpmcSensorBlockFormat(parent) ==
  IF ~SetupDecoder THEN parent
  ELSE AddItemToObject(parent, "ipmc", AddItems(CreateObject, HeaderData \o DecodedData))

(* The sensors in the order of the table. *)
SensorFormat(top) ==
  LET bus == AddItems(CreateObject, [i \in DOMAIN Sensors |-> BusItem(Sensors[i])]) IN
  AddItemToObject(top, "sensor", IpmcSensorBlockFormat(ZynqOnBoardFormat(bus)))

(* How the texts of a document can look: it is printed in all of these ways. *)
Texts == {<<>>, <<"plain">>, <<"short", "control">>}
Look(number, text) == [number |-> number, name |-> <<"plain", "plain">>, text |-> text]
Looks == {Look(number, <<>>) : number \in NumberClasses} \cup {Look("int", text) : text \in Texts}

(* The document is made, and the first two are printed to a file, of which
   nothing tests that it could be opened. *)
Format(opened) ==
  LET top == SensorFormat(SysinfoFormat(CreateObject))
      print == maxprint < 2
  IN  /\ pc = "format"
      /\ decoder' = SetupDecoder
      /\ document' = top
      /\ printed' = IF ~print THEN printed
                    ELSE IF \A look \in Looks : PrintDocument(top, look).fits THEN "fits" ELSE "overrun"
      /\ pc' = IF print /\ ~opened THEN "crashed" ELSE "extract"
      /\ maxprint' = IF print THEN maxprint + 1 ELSE maxprint
      /\ UNCHANGED <<rvars, zvars, block, published>>

-----------------------------------------------------------------------------
(* What the extract functions take from an item, or what they have without it. *)
Value(item, without) == IF item = Null THEN without ELSE item.value
Sensor == GetObjectItem(document, "sensor")

ExtractHeader ==
  LET versions == GetObjectItem(document, "versions") IN
  [item \in {"hwid", "fwvers", "swvers"} |->
     Value(GetObjectItem(IF item = "hwid" THEN document ELSE versions, item), Missing)]

(* extract_ltc() takes voltage, current and temperature without a look at
   noUpd: the zeroes of a failed reading and an old temperature, too. *)
ExtractLtc ==
  [s \in Ltc |-> [place \in 2..4 |-> Value(GetArrayItem(GetObjectItem(Sensor, KeyOf[s]), place), Garbage)]]

(* Mutant: one call, with the number of another module. *)
Module_Fixed(s) == GetObjectItem(Sensor, KeyOf[CHOOSE t \in Firefly : TRUE])

(* The entry of the document that the variables of a module are taken from. *)
Module(s) == GetObjectItem(Sensor, KeyOf[s])

(* extract_firefly(), called for every module.  Of what is not in the entry the
   numbers become -99, but the identification, the received powers and the
   strings are taken from uninitialised variables and pointers. *)
ExtractFirefly ==
  [s \in Firefly |-> [item \in FireflyItems |->
     CASE item \in {"present", "status"} -> Value(GetObjectItem(Module(s), item), Missing)
       [] item = "rxpower" -> Value(GetArrayItem(GetObjectItem(Module(s), item), 0), Garbage)
       [] OTHER -> Value(GetObjectItem(Module(s), item), Garbage)]]

ExtractFpga ==
  [i \in DOMAIN FpgaRows |-> Value(GetObjectItem(GetObjectItem(Sensor, "fpga"), FpgaRows[i][1]), Garbage)]

(* extract_zynq() looks for the names of the channels. *)
ExtractZynq == [c \in C |-> Value(GetObjectItem(GetObjectItem(Sensor, "zynqps"), c), Missing)]

(* extract_ipmc(): all pointers are uninitialised if the document has no block;
   one that is marked invalid is published as it is. *)
ExtractIpmc == [item \in IpmcItems |-> Value(GetObjectItem(GetObjectItem(Sensor, "ipmc"), item), Garbage)]

(* Group after group, and the document is deleted. *)
Extract ==
  /\ GoTo("extract", "loop")
  /\ published' = [header |-> ExtractHeader, ltc |-> ExtractLtc, firefly |-> ExtractFirefly,
                    fpga |-> ExtractFpga, zynq |-> ExtractZynq, ipmc |-> ExtractIpmc]
  /\ document' = Null
  /\ UNCHANGED <<rvars, zvars, maxprint, block, decoder, printed>>

(* An uninitialised pointer leads nowhere. *)
Crash ==
  /\ GoTo("extract", "crashed")
  /\ GetObjectItem(Sensor, "ipmc") = Null \/ \E s \in Firefly : GetObjectItem(Module(s), "rxpower") = Null
  /\ UNCHANGED <<rvars, zvars, maxprint, block, decoder, document, printed, published>>

Next ==
  \/ TestFlag \/ MonitorBus \/ MonitorZynq \/ MonitorIpmc
  \/ \E opened \in BOOLEAN : Format(opened)
  \/ Extract \/ Crash

Spec == Init /\ [][Next]_vars

-----------------------------------------------------------------------------
Read(s, page, r) == [of |-> s, page |-> page, round |-> r]
Halves == {Nothing} \cup [of : S, page : {"low", "high"}, round : {0, 1}]
Records == [present : BOOLEAN, low : Halves, high : Halves]
Values == [age : {"never", "before", "now"}, scale : Origins, offset : Origins]

TypeOK ==
  /\ ZTypeOK
  /\ turn \in DOMAIN Sensors /\ round \in {0, 1} /\ busy \in BOOLEAN /\ record \in [S -> Records]
  /\ pc \in {"loop", "sensors", "zynq", "ipmc", "format", "extract", "ended", "crashed"}
  /\ pc # "sensors" => turn = 1 /\ ~busy
  /\ maxprint \in 0 .. 2 /\ decoder \in BOOLEAN
  /\ block \in {"none", "valid", "invalid"}
  /\ printed \in {"never", "fits", "overrun"}
  /\ published.ltc \in [Ltc -> [2..4 -> Halves \cup {Missing}]]
  /\ published.firefly \in [Firefly -> [FireflyItems -> Halves \cup BOOLEAN \cup {Missing, Garbage}]]
  /\ published.fpga \in [DOMAIN FpgaRows -> Values \cup {Missing}]
  /\ published.zynq \in [C -> Values \cup {Missing}]
  /\ published.ipmc \in [IpmcItems -> {"none", "valid", "invalid", Missing, Garbage}]

(* At the end of a cycle everything that is published of a Firefly that is said
   to be present is of that module and of this cycle, and the numbers of one
   that is not are all -99: never those of another module or of the time before
   it was pulled out (DRegs.cpp:285-450, firefly.c:209-252). *)
PresentModuleIsWhole ==
  pc = "loop" => \A s \in Firefly : LET ff == published.firefly[s] IN
    IF ff.present = TRUE
    THEN /\ \A item \in {"status", "rxpower", "id", "fwversion"} : ff[item] = Read(s, "low", 1 - round)
         /\ \A item \in {"model", "serial"} : ff[item] = Read(s, "high", 1 - round)
    ELSE ff.status = Missing

(* A published voltage or current was read in this cycle, or is the zero of a
   reading that failed in this cycle; it is never an old one.  (A temperature
   can be: ltc2945.c:51.) *)
PowerIsOfThisCycle ==
  pc = "loop" /\ printed # "never" =>
    \A s \in Ltc, place \in 2..3 : published.ltc[s][place] \in {Nothing, Read(s, "low", 1 - round)}

(* A published temperature or voltage of the Zynq was read in this cycle, or is
   -99 (zynqOnBoard.c:249-266, DRegs.cpp:651-766). *)
ZynqIsOfThisCycle ==
  pc = "loop" => \A c \in C : published.zynq[c] = Missing \/ published.zynq[c].age = "now"

(* ... and once the constants have been read it was converted with them. *)
PublishedIsConverted ==
  pc = "loop" /\ initDone => \A c \in C :
    \/ published.zynq[c] = Missing
    \/ published.zynq[c].scale # "table" /\ (c \in Temperatures => published.zynq[c].offset # "table")

(* Printing a document does not write behind what it has allocated, at no level
   and whatever numbers and strings it holds: what the print functions count
   beforehand is enough for what they write (cJSON.c:149-180, 264-320, 438-516,
   555-665). *)
PrintFits == printed # "overrun"

=============================================================================
