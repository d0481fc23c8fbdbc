------------------------------- MODULE MetaData -------------------------------
(***************************************************************************)
(* The server's own objects in the address space, StandardMetaData and     *)
(* below: configureMeta(), the writes of log levels that clients send, and *)
(* destroyMeta() while the server still takes them (Meta/src/).            *)
(***************************************************************************)
EXTENDS LogIt, FiniteSets, FiniteSetsExt

CONSTANTS
  Absent,          (* no element, no write                                 *)
  Threads,         (* the threads of the stack that serve writes           *)
  Registrations,   (* the components the server may register, in order     *)
  Unregistered,    (* names a configuration may have besides               *)
  Texts,           (* what clients write                                   *)
  NotText,         (* ... among it a value that is no string               *)
  ConfigTexts,     (* the levels a configuration may name (Meta.xsd)       *)
  Pools,           (* the SourceVariableThreadPool elements it may have    *)
  MaxEntries,      (* bound: ComponentLogLevel elements of a configuration *)
  MaxWrites        (* bound: writes                                        *)

Names == {Registrations[i] : i \in DOMAIN Registrations}

(* The writes under way: the object, the text, and how far it has come. *)
Writes ==
  [node : ({"GeneralLogLevel"} \X {""}) \cup ({"ComponentLogLevel"} \X Names), text : Texts, at : {"test", "call", "store"}]

ASSUME MetaAssumption ==
  /\ Registrations \in Seq(Names) /\ Absent \notin Writes
  /\ NotText \notin DOMAIN Upper /\ Texts \subseteq DOMAIN Upper \cup {NotText}
  /\ \A text \in ConfigTexts : text \in DOMAIN Upper /\ IsLogLevel(text)
  /\ Pools \subseteq [min : Nat, max : Nat]
  /\ MaxEntries \in Nat /\ MaxWrites \in Nat

VARIABLES
  config,    (* the StandardMetaData element                               *)
  main,      (* what the main thread does next                             *)
  unregistered,  (* the components still to be registered                  *)
  threw,     (* start() ended with an exception                            *)
  nodes,     (* the objects of the address space, by their nodes           *)
  devices,   (* the device objects, by the nodes they were made for        *)
  request,   (* the write each thread of the stack serves                  *)
  writes,    (* how many there have been                                   *)
  crashed

mvars == <<config, main, unregistered, threw, nodes, devices, request, writes, crashed>>
vars == <<lvars, mvars>>

-----------------------------------------------------------------------------
(* The classes, each with its constructor, getters, setters and link to the
   device: under which object its node goes, the variables with what they show at
   first (a setter replaces it), and whether there is a device to link. *)
ASStandardMetaData == [parent |-> "ObjectsFolder", shows |-> <<>>, device |-> TRUE]
ASLog == [parent |-> "StandardMetaData", shows |-> <<>>, device |-> FALSE]
ASGeneralLogLevel(level) == [parent |-> "Log", shows |-> [logLevel |-> level], device |-> TRUE]
ASComponentLogLevels == [parent |-> "Log", shows |-> <<>>, device |-> FALSE]
ASComponentLogLevel(level) == [parent |-> "ComponentLogLevels", shows |-> [logLevel |-> level], device |-> TRUE]
ASSourceVariableThreadPool(min, max) ==
  [parent |-> "StandardMetaData", shows |-> [minThreads |-> min, maxThreads |-> max], device |-> TRUE]
ASQuasar == [parent |-> "StandardMetaData", shows |-> [version |-> "dummy version"], device |-> TRUE]
ASServer ==
  [parent |-> "StandardMetaData", shows |-> [remainingCertificateValidity |-> "uninitialized"], device |-> TRUE]
ASBuildInformation ==
  [parent |-> "StandardMetaData",
   shows |-> [BuildHost |-> "host", BuildTimestamp |-> "time", CommitID |-> "commit", ToolkitLibs |-> "libraries"],
   device |-> TRUE]

(* The device objects have a base class each, with the parent it is given and
   the link to the node, which is made once and is never taken back. *)
Unlinked(parent) == [parent |-> parent, addressSpaceLink |-> <<>>]
Base_DStandardMetaData == Unlinked("DRoot")
Base_DGeneralLogLevel == Unlinked(Absent)
Base_DComponentLogLevel == Unlinked(Absent)
Base_DSourceVariableThreadPool == Unlinked(Absent)
Base_DQuasar == Unlinked("DRoot")
Base_DServer == Unlinked("DRoot")
Base_DBuildInformation == Unlinked(Absent)

NewDevice ==
  [StandardMetaData |-> Base_DStandardMetaData, GeneralLogLevel |-> Base_DGeneralLogLevel,
   ComponentLogLevel |-> Base_DComponentLogLevel, SourceVariableThreadPool |-> Base_DSourceVariableThreadPool,
   Quasar |-> Base_DQuasar, Server |-> Base_DServer, BuildInformation |-> Base_DBuildInformation]

(* A node is known by its address: its class and its name. *)
Node(class, name) == <<class, name>>

(* The constructor adds the node to its parent, which must be there; an address
   in use, like a parent that is missing, makes it abort(). *)
CanAdd(node, class) ==
  /\ node \notin DOMAIN nodes
  /\ class.parent = "ObjectsFolder" \/ \E n \in DOMAIN nodes : n[1] = class.parent

(* linkHandlerObjectAndAddressSpaceNode(): each points to the other.  A node is
   linked once, when it is new. *)
LinkDevice(class) == [shows |-> class.shows, toDevice |-> class.device]
UnlinkDevice(node) == nodes' = [nodes EXCEPT ![node].toDevice = FALSE]
LinkAddressSpace(node) == [NewDevice[node[1]] EXCEPT !.addressSpaceLink = node]

WithNode(node, class) == [n \in DOMAIN nodes \cup {node} |-> IF n = node THEN LinkDevice(class) ELSE nodes[n]]
WithDevice(node) == [n \in DOMAIN devices \cup {node} |-> IF n = node THEN LinkAddressSpace(node) ELSE devices[n]]

(* A setter of the node. *)
WithValue(node, variable, value) == [nodes EXCEPT ![node].shows[variable] = value]

-----------------------------------------------------------------------------
Entries == UNION {[1..k -> [name : Names \cup Unregistered, level : ConfigTexts]] : k \in 0..MaxEntries}

(* What the main thread does after each step. *)
Program ==
  [initializeLogging |-> "register", register |-> "StandardMetaData", StandardMetaData |-> "Log", Log |-> "GeneralLogLevel",
   GeneralLogLevel |-> "validate", validate |-> "ComponentLogLevels", ComponentLogLevels |-> "ComponentLogLevel",
   ComponentLogLevel |-> "SourceVariableThreadPool", SourceVariableThreadPool |-> "Quasar", Quasar |-> "version",
   version |-> "Server", Server |-> "BuildInformation", BuildInformation |-> "serve",
   serve |-> "unlink", unlink |-> "stop", stop |-> "stopped"]

Init ==
  /\ LInit
  /\ config \in [general : ConfigTexts \cup {Absent}, components : Entries \cup {Absent}, pool : Pools \cup {Absent}]
  /\ main = "initializeLogging" /\ unregistered = Registrations
  /\ threw = FALSE
  /\ nodes = <<>> /\ devices = <<>>
  /\ request = [t \in Threads |-> Absent]
  /\ writes = 0
  /\ crashed = FALSE

Done == main' = Program[main]
Others == UNCHANGED <<config, unregistered, threw, request, writes>>

(* Start and main loop end, normally or with an exception. *)
Shutdown == main' = "unlink"

(* initializeLogIt() *)
InitializeLogIt ==
  /\ main = "initializeLogging"
  /\ InitializeLogging(INF)
  /\ Done
  /\ UNCHANGED <<config, unregistered, threw, nodes, devices, request, writes, crashed>>

Register ==
  /\ main = "register"
  /\ IF unregistered = <<>> THEN Done /\ UNCHANGED <<lvars, unregistered>>
     ELSE /\ RegisterLoggingComponent(Head(unregistered), INF)
          /\ unregistered' = Tail(unregistered)
          /\ UNCHANGED main
  /\ UNCHANGED <<config, threw, nodes, devices, request, writes, crashed>>

(* Makes the node, or ends the server. *)
Add(node, class) ==
  /\ nodes' = IF CanAdd(node, class) THEN WithNode(node, class) ELSE nodes
  /\ devices' = IF CanAdd(node, class) /\ class.device THEN WithDevice(node) ELSE devices
  /\ crashed' = ~CanAdd(node, class)
  /\ Others

(* DQuasar::updateVersion(), which goes through the link. *)
UpdateVersion ==
  /\ main = "version"
  /\ LET link == devices[Node("Quasar", "")].addressSpaceLink IN
     IF link = <<>> THEN crashed' = TRUE /\ UNCHANGED nodes
     ELSE nodes' = WithValue(link, "version", "QUASAR_VERSION_STR") /\ UNCHANGED crashed
  /\ Done
  /\ UNCHANGED <<lvars, config, unregistered, threw, devices, request, writes>>

(* getSourceVariableThreadPoolConfig(): the element, or one with the defaults of
   Meta.xsd; its pool is made only where the toolkit's managers are. *)
PoolConfig == IF config.pool = Absent THEN [min |-> 1, max |-> 10] ELSE config.pool

(* The objects without a level. *)
ConfigureObject ==
  /\ \/ main = "StandardMetaData" /\ Add(Node("StandardMetaData", ""), ASStandardMetaData)
     \/ main = "Log" /\ Add(Node("Log", ""), ASLog)
     \/ main = "ComponentLogLevels" /\ Add(Node("ComponentLogLevels", ""), ASComponentLogLevels)
     \/ main = "SourceVariableThreadPool"
        /\ Add(Node("SourceVariableThreadPool", ""), ASSourceVariableThreadPool(PoolConfig.min, PoolConfig.max))
     \/ main = "Quasar" /\ Add(Node("Quasar", ""), ASQuasar)
     \/ main = "Server" /\ Add(Node("Server", ""), ASServer)
     \/ main = "BuildInformation" /\ Add(Node("BuildInformation", ""), ASBuildInformation)
  /\ Done
  /\ UNCHANGED lvars

(* getGeneralLogLevelFromConfig() *)
GeneralLogLevelFromConfig == IF config.general = Absent THEN LogLevelToString(GetNonComponentLogLevel) ELSE config.general

(* configureGeneralLogLevel(): the constructor of the device writes the level. *)
ConfigureGeneralLogLevel ==
  /\ main = "GeneralLogLevel"
  /\ Add(Node("GeneralLogLevel", ""), ASGeneralLogLevel(GeneralLogLevelFromConfig))
  /\ SetNonComponentLogLevel(LogLevelFromString(GeneralLogLevelFromConfig))
  /\ Done

ComponentConfig == IF config.components = Absent THEN <<>> ELSE config.components

(* Mutant: a component may be given twice. *)
Sane_Twice(entries) == \A i \in DOMAIN entries : GetComponentHandle(entries[i].name) # InvalidHandle

(* validateComponentLogLevels(): every name is registered, none is given twice. *)
Sane(entries) ==
  /\ \A i \in DOMAIN entries : GetComponentHandle(entries[i].name) # InvalidHandle
  /\ \A i, j \in DOMAIN entries : entries[i].name = entries[j].name => i = j

ValidateComponentLogLevels ==
  /\ main = "validate"
  /\ IF Sane(ComponentConfig) THEN Done /\ UNCHANGED threw
     ELSE Shutdown /\ threw' = TRUE
  /\ UNCHANGED <<lvars, config, unregistered, nodes, devices, request, writes, crashed>>

(* getComponentLogLevelFromConfig(): the last entry of that name, or the level in use. *)
ComponentLogLevelFromConfig(h) ==
  LET given == {i \in DOMAIN ComponentConfig : ComponentConfig[i].name = GetComponentName(h)}
  IN IF given = {} THEN LogLevelToString(GetComponentLogLevel(h)) ELSE ComponentConfig[Max(given)].level

(* configureComponentLogLevels(): one object for each component, by handle. *)
ConfigureComponentLogLevel ==
  /\ main = "ComponentLogLevel"
  /\ LET made == {n \in DOMAIN nodes : n[1] = "ComponentLogLevel"}
         h == Cardinality(made) + 1
     IN IF h \notin DOMAIN GetComponentLogsList THEN Done /\ UNCHANGED <<lvars, config, unregistered, threw, nodes, devices, request, writes, crashed>>
        ELSE /\ Add(Node("ComponentLogLevel", GetComponentName(h)), ASComponentLogLevel(ComponentLogLevelFromConfig(h)))
             /\ SetComponentLogLevel(h, LogLevelFromString(ComponentLogLevelFromConfig(h)))
             /\ UNCHANGED main

-----------------------------------------------------------------------------
(* Clients write log levels from the end of the configuration until the server
   has stopped. *)
Serving == ~threw /\ main \in {"serve", "unlink", "stop"}

Delegating == {n \in DOMAIN nodes : n[1] \in {"GeneralLogLevel", "ComponentLogLevel"}}

(* ASDelegatingVariable::setValue() *)
BeginWrite(t) ==
  /\ Serving /\ request[t] = Absent /\ writes < MaxWrites
  /\ \E n \in Delegating, text \in Texts : request' = [request EXCEPT ![t] = [node |-> n, text |-> text, at |-> "test"]]
  /\ writes' = writes + 1
  /\ UNCHANGED <<lvars, config, main, unregistered, threw, nodes, devices, crashed>>

Answer(t) == request' = [request EXCEPT ![t] = Absent]

(* writeLogLevel() of the node: the type of the value, and whether there is a
   device. *)
TestWrite(t) ==
  /\ request[t] # Absent /\ request[t].at = "test"
  /\ IF request[t].text # NotText /\ nodes[request[t].node].toDevice
     THEN request' = [request EXCEPT ![t].at = "call"]
     ELSE Answer(t)
  /\ UNCHANGED <<lvars, config, main, unregistered, threw, nodes, devices, writes, crashed>>

(* Mutant: the text is stored whatever the device says of it. *)
CallDevice_Stored(t) ==
  /\ request[t] # Absent /\ request[t].at = "call"
  /\ IF ~IsLogLevel(request[t].text) THEN UNCHANGED lvars
     ELSE IF request[t].node[1] = "GeneralLogLevel" THEN SetNonComponentLogLevel(LogLevelFromString(request[t].text))
     ELSE SetComponentLogLevel(GetComponentHandle(request[t].node[2]), LogLevelFromString(request[t].text))
  /\ request' = [request EXCEPT ![t].at = "store"]
  /\ UNCHANGED <<config, main, unregistered, threw, nodes, devices, writes, crashed>>

(* DGeneralLogLevel::writeLogLevel() and DComponentLogLevel::writeLogLevel().  The
   node reads its pointer a second time to call them; if it is gone by then, the
   compiler may have kept the first value, or the call goes through null. *)
CallDevice(t) ==
  /\ request[t] # Absent /\ request[t].at = "call"
  /\ LET text == request[t].text
         node == request[t].node
     IN \/ /\ IsLogLevel(text)
           /\ IF node[1] = "GeneralLogLevel" THEN SetNonComponentLogLevel(LogLevelFromString(text))
              ELSE SetComponentLogLevel(GetComponentHandle(node[2]), LogLevelFromString(text))
           /\ request' = [request EXCEPT ![t].at = "store"]
           /\ UNCHANGED crashed
        \/ ~IsLogLevel(text) /\ Answer(t) /\ UNCHANGED <<lvars, crashed>>
        \/ ~nodes[node].toDevice /\ crashed' = TRUE /\ UNCHANGED <<lvars, request>>
  /\ UNCHANGED <<config, main, unregistered, threw, nodes, devices, writes>>

(* What the device took is then shown. *)
StoreValue(t) ==
  /\ request[t] # Absent /\ request[t].at = "store"
  /\ nodes' = WithValue(request[t].node, "logLevel", request[t].text)
  /\ Answer(t)
  /\ UNCHANGED <<lvars, config, main, unregistered, threw, devices, writes, crashed>>

-----------------------------------------------------------------------------
(* The main loop ends. *)
EndLoop ==
  /\ main = "serve"
  /\ Shutdown
  /\ UNCHANGED <<lvars, config, unregistered, threw, nodes, devices, request, writes, crashed>>

(* Mutant: a class is forgotten. *)
UnlinkedClasses_Fewer ==
  <<"StandardMetaData", "GeneralLogLevel", "ComponentLogLevel", "Quasar", "SourceVariableThreadPool", "BuildInformation">>

(* destroyMeta(): class by class, every object of the class there is. *)
UnlinkedClasses == <<"StandardMetaData", "GeneralLogLevel", "ComponentLogLevel", "Quasar", "Server",
                     "SourceVariableThreadPool", "BuildInformation">>

(* findAllObjectsByPatternInNodeManager() with the pattern of every name: the
   objects of the class, referenced or not. *)
FindAllObjects(class) == {n \in DOMAIN nodes : n[1] = class}
LinkedOf(class) == {n \in FindAllObjects(class) : nodes[n].toDevice}

DestroyMeta ==
  /\ main = "unlink"
  /\ LET left == {i \in DOMAIN UnlinkedClasses : LinkedOf(UnlinkedClasses[i]) # {}}
     IN IF left = {} THEN Done /\ UNCHANGED nodes
        ELSE /\ \E n \in LinkedOf(UnlinkedClasses[Min(left)]) : UnlinkDevice(n)
             /\ UNCHANGED main
  /\ UNCHANGED <<lvars, config, unregistered, threw, devices, request, writes, crashed>>

(* m_pServer->stop() waits for the threads of the stack; the nodes go. *)
Stop ==
  /\ main = "stop" /\ \A t \in Threads : request[t] = Absent
  /\ Done
  /\ UNCHANGED <<lvars, config, unregistered, threw, nodes, devices, request, writes, crashed>>

Main ==
  \/ InitializeLogIt \/ Register \/ ConfigureObject \/ UpdateVersion \/ ConfigureGeneralLogLevel \/ ValidateComponentLogLevels
  \/ ConfigureComponentLogLevel \/ EndLoop \/ DestroyMeta \/ Stop

Next ==
  /\ ~crashed
  /\ Main \/ \E t \in Threads : BeginWrite(t) \/ TestWrite(t) \/ CallDevice(t) \/ StoreValue(t)

Spec == Init /\ [][Next]_vars

-----------------------------------------------------------------------------
(* What a message of this level writes that belongs to an object for levels. *)
Written(node, level) ==
  IF node[1] = "GeneralLogLevel" THEN LogWithoutComponent(level)
  ELSE LogWithComponent(level, GetComponentHandle(node[2]))

(* Where writes come from one thread, as with open62541, the level an object
   shows decides what is logged, whatever was written, refused or cut off by the
   shutdown: every sink gets each message from that level on, under the name of
   the component, and none below.  Only the write under way may be ahead of what
   is shown (ASDelegatingVariable.h:49-62, LogIt.cpp:116-140). *)
ShownIsInUse ==
  \A n \in Delegating :
    (\A t \in Threads : request[t] = Absent \/ request[t].node # n \/ request[t].at # "store")
      => /\ IsLogLevel(nodes[n].shows.logLevel)
         /\ \A level \in Levels :
              Written(n, level) =
                IF level < LogLevelFromString(nodes[n].shows.logLevel) THEN {}
                ELSE {<<Backends[i], [level |-> LogLevelToString(level), component |-> n[2]]>> : i \in DOMAIN Backends}

(* A server that serves has every level its configuration gives, and has given
   every component an object; a configuration with names that are unknown or
   conflict never gets that far (meta.cpp:77-83). *)
SaneLevelsApply ==
  (main = "serve" /\ writes = 0) =>
    /\ \A i \in DOMAIN ComponentConfig : \A level \in Levels :
         IsLoggable(level, ComponentConfig[i].name) <=> level >= LogLevelFromString(ComponentConfig[i].level)
    /\ \A name \in DOMAIN handles : Node("ComponentLogLevel", name) \in DOMAIN nodes
    /\ \A level \in Levels : IsGenerallyLoggable(level) <=>
         level >= IF config.general = Absent THEN INF ELSE LogLevelFromString(config.general)

(* A node that points to a device is the one that device points to, so that
   updates and writes meet the same object, and when the server has stopped no
   node points to a device any more, also after a configuration that was given up
   half way: the destructors of the nodes take a link that is left for an error. *)
NothingStaysLinked ==
  /\ \A n \in DOMAIN nodes : nodes[n].toDevice => n \in DOMAIN devices /\ devices[n].addressSpaceLink = n
  /\ main = "stopped" => \A n \in DOMAIN nodes : ~nodes[n].toDevice

=============================================================================
