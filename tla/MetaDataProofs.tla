---------------------------- MODULE MetaDataProofs ----------------------------
(***************************************************************************)
(* Proofs about MetaData and LogIt, for every list of components, every    *)
(* configuration and every sequence of writes: the registry is one         *)
(* (Registry), no link outlives the server (Linked), a configuration       *)
(* arrives (Applied) and, if writes come from one thread, the address      *)
(* space shows the levels in use (Shown).                                  *)
(***************************************************************************)
EXTENDS MetaData, FiniteSetTheorems, SequenceTheorems, TLAPS

Component == [name : Names, level : Levels]

(* The two structures of the registry fit together. *)
Registry ==
  /\ exists \in BOOLEAN /\ general \in Levels
  /\ components \in Seq(Component) /\ Len(components) <= MaxComponents
  /\ DOMAIN handles \subseteq Names
  /\ ~exists => components = <<>> /\ DOMAIN handles = {}
  /\ exists => sinks = Backends
  /\ \A name \in DOMAIN handles : handles[name] \in 1..Len(components) /\ components[handles[name]].name = name
  /\ \A h \in 1..Len(components) : components[h].name \in DOMAIN handles /\ handles[components[h].name] = h

(* What is known of the nodes, whatever the thread of the server does. *)
Linked ==
  /\ \A n \in DOMAIN nodes : nodes[n] = [shows |-> nodes[n].shows, toDevice |-> nodes[n].toDevice]
  /\ \A n \in DOMAIN nodes : nodes[n].toDevice =>
       /\ n \in DOMAIN devices /\ devices[n].addressSpaceLink = n
       /\ \E i \in DOMAIN UnlinkedClasses : n[1] = UnlinkedClasses[i]
  /\ \A n \in Delegating :
       /\ nodes[n].shows \in [logLevel : DOMAIN Upper]
       /\ n = <<"GeneralLogLevel", "">> \/ (n = <<"ComponentLogLevel", n[2]>> /\ n[2] \in DOMAIN handles)
  /\ main \in {"stop", "stopped"} => \A n \in DOMAIN nodes : ~ nodes[n].toDevice

(* The main thread, and the writes meanwhile. *)
Early == {"initializeLogging", "register", "StandardMetaData", "Log", "GeneralLogLevel"}
Steps == DOMAIN Program \cup {"stopped"}
Served ==
  /\ threw => main \in {"unlink", "stop", "stopped"}
  /\ main \notin Early \cup {"validate"} /\ ~ threw => Sane(ComponentConfig)
  /\ config \in [general : ConfigTexts \cup {Absent}, components : Entries \cup {Absent}, pool : Pools \cup {Absent}]
  /\ main \in Steps /\ (main # "initializeLogging" => exists)
  /\ unregistered \in Seq(Names)
  /\ writes \in Nat
  /\ request \in [Threads -> Writes \cup {Absent}]
  /\ \A t \in Threads : request[t] # Absent =>
       /\ main \in {"serve", "unlink", "stop"} /\ writes # 0
       /\ request[t].node \in Delegating
       /\ request[t].at # "test" => request[t].text \in DOMAIN Upper
       /\ request[t].at = "store" => IsLogLevel(request[t].text)

Meta == Registry /\ Linked /\ Served

(* What the configuration asks for, and the objects of the components. *)
Late == {"SourceVariableThreadPool", "Quasar", "version", "Server", "BuildInformation", "serve"}
Given == IF config.general = Absent THEN INF ELSE LogLevelFromString(config.general)
Made == {n \in DOMAIN nodes : n[1] = "ComponentLogLevel"}
ObjectOf(h) == <<"ComponentLogLevel", components[h].name>>
Counted(k) ==
  /\ IsFiniteSet(Made) /\ Cardinality(Made) = k
  /\ Made = {ObjectOf(h) : h \in 1..k}

(* The configuration arrives, object by object. *)
Applied ==
  /\ main \in Early => general = INF
  /\ writes = 0 /\ main \notin Early => general = Given
  /\ main \in Early => Delegating = {}
  /\ main \in {"validate", "ComponentLogLevels"} => Made = {}
  /\ main = "ComponentLogLevel" => \E k \in 0..Len(components) : Counted(k)
  /\ main \in Late => \A h \in 1..Len(components) : ObjectOf(h) \in DOMAIN nodes
  /\ writes = 0 => \A h \in 1..Len(components), i \in DOMAIN ComponentConfig :
       ObjectOf(h) \in DOMAIN nodes /\ ComponentConfig[i].name = components[h].name
         => components[h].level = LogLevelFromString(ComponentConfig[i].level)

(* The level an object stands for, and what is shown unless it is just being stored. *)
InUse(n) == IF n[1] = "GeneralLogLevel" THEN general ELSE components[handles[n[2]]].level
Storing(t, n) == request[t] # Absent /\ request[t].node = n /\ request[t].at = "store"
Shown ==
  \A n \in Delegating :
    /\ (\A t \in Threads : ~ Storing(t, n)) =>
         IsLogLevel(nodes[n].shows.logLevel) /\ InUse(n) = LogLevelFromString(nodes[n].shows.logLevel)
    /\ \A t \in Threads : Storing(t, n) => InUse(n) = LogLevelFromString(request[t].text)

-----------------------------------------------------------------------------
(* No spelling is one of two levels. *)
LEMMA LevelOfText ==
  ASSUME NEW text \in DOMAIN Upper, NEW level \in Levels, Upper[text] \in Spellings[level]
  PROVE  IsLogLevel(text) /\ LogLevelFromString(text) = level
<1>1. /\ Spellings[0] = {"TRC", "TRACE"} /\ Spellings[1] = {"DBG", "DEBUG"}
      /\ Spellings[2] = {"INF", "INFO", "INFORMATION"} /\ Spellings[3] = {"WRN", "WARN", "WARNING"}
      /\ Spellings[4] = {"ERR", "ERROR"}
  <2>1. Spellings[0] = {"TRC", "TRACE"}
    BY DEF Spellings, Levels
  <2>2. Spellings[1] = {"DBG", "DEBUG"}
    BY DEF Spellings, Levels
  <2>3. Spellings[2] = {"INF", "INFO", "INFORMATION"}
    BY DEF Spellings, Levels
  <2>4. Spellings[3] = {"WRN", "WARN", "WARNING"}
    BY DEF Spellings, Levels
  <2>5. Spellings[4] = {"ERR", "ERROR"}
    BY DEF Spellings, Levels
  <2>6. QED
    BY <2>1, <2>2, <2>3, <2>4, <2>5
<1>2. \A l \in Levels : l = 0 \/ l = 1 \/ l = 2 \/ l = 3 \/ l = 4
  BY DEF Levels
<1>3. ASSUME NEW other \in Levels, Upper[text] \in Spellings[other]
      PROVE  other = level
  BY <1>1, <1>2, <1>3
<1>4. IsLogLevel(text)
  BY DEF IsLogLevel
<1>5. LogLevelFromString(text) \in Levels /\ Upper[text] \in Spellings[LogLevelFromString(text)]
  BY DEF LogLevelFromString
<1>6. QED
  BY <1>3, <1>4, <1>5

LEMMA LevelTexts ==
  ASSUME NEW text \in DOMAIN Upper, IsLogLevel(text)
  PROVE  LogLevelFromString(text) \in Levels
<1>1. PICK level \in Levels : Upper[text] \in Spellings[level]
  BY DEF IsLogLevel
<1>2. QED
  BY <1>1, LevelOfText

(* A level written as text is read as that level. *)
LEMMA LevelNames ==
  ASSUME NEW level \in Levels
  PROVE  /\ LogLevelToString(level) \in DOMAIN Upper /\ IsLogLevel(LogLevelToString(level))
         /\ LogLevelFromString(LogLevelToString(level)) = level
<1>1. level = 0 \/ level = 1 \/ level = 2 \/ level = 3 \/ level = 4
  BY DEF Levels
<1>2. LogLevelToString(level) \in {"TRC", "DBG", "INF", "WRN", "ERR"} /\ LogLevelToString(level) \in Spellings[level]
  <2>1. CASE level = 0
    BY <2>1 DEF LogLevelToString, Spellings, Levels
  <2>2. CASE level = 1
    BY <2>2 DEF LogLevelToString, Spellings, Levels
  <2>3. CASE level = 2
    BY <2>3 DEF LogLevelToString, Spellings, Levels
  <2>4. CASE level = 3
    BY <2>4 DEF LogLevelToString, Spellings, Levels
  <2>5. CASE level = 4
    BY <2>5 DEF LogLevelToString, Spellings, Levels
  <2>6. QED
    BY <1>1, <2>1, <2>2, <2>3, <2>4, <2>5
<1>3. LogLevelToString(level) \in DOMAIN Upper /\ Upper[LogLevelToString(level)] = LogLevelToString(level)
  BY <1>2, LogItAssumption
<1>4. QED
  BY <1>2, <1>3, LevelOfText

-----------------------------------------------------------------------------
(* A new component gets the next handle; nothing else changes. *)
LEMMA AddKeepsRegistry ==
  ASSUME Registry, exists, NEW name \in Names, NEW level \in Levels,
         AddComponent(name, level), UNCHANGED <<exists, general, sinks>>
  PROVE  Registry'
<1>1. PICK n \in Nat : n = Len(components) /\ DOMAIN components = 1..n /\ n <= MaxComponents
  BY DEF Registry
<1>2. CASE UNCHANGED <<components, handles>>
  BY <1>2 DEF Registry
<1>3. CASE GetComponentHandle(name) = InvalidHandle /\ Len(components) < MaxComponents
  <2>1. /\ components' = Append(components, [name |-> name, level |-> level])
        /\ handles' = [m \in DOMAIN handles \cup {name} |-> IF m = name THEN Len(components') ELSE handles[m]]
    BY <1>3 DEF AddComponent
  <2>2. [name |-> name, level |-> level] \in Component
    BY DEF Component
  <2>3. /\ components' \in Seq(Component) /\ Len(components') = n + 1
        /\ \A h \in 1..n : components'[h] = components[h]
        /\ components'[n + 1] = [name |-> name, level |-> level]
    BY <1>1, <2>1, <2>2 DEF Registry
  <2>4. name \notin DOMAIN handles
    <3>1. ASSUME name \in DOMAIN handles
          PROVE  FALSE
      <4>1. handles[name] \in 1..n
        BY <1>1, <3>1 DEF Registry
      <4>2. handles[name] = 0
        BY <1>3, <3>1 DEF GetComponentHandle, HasHandle, InvalidHandle
      <4>3. QED
        BY <4>1, <4>2
    <3>2. QED
      BY <3>1
  <2>5. n + 1 <= MaxComponents
    BY <1>1, <1>3, LogItAssumption
  <2>6. /\ DOMAIN handles' = DOMAIN handles \cup {name} /\ handles'[name] = n + 1
        /\ \A m \in DOMAIN handles : handles'[m] = handles[m]
    BY <2>1, <2>3, <2>4
  <2>7. ASSUME NEW m \in DOMAIN handles'
        PROVE  handles'[m] \in 1..(n + 1) /\ components'[handles'[m]].name = m
    <3>1. CASE m = name
      BY <3>1, <2>3, <2>6
    <3>2. CASE m # name
      <4>1. m \in DOMAIN handles /\ handles[m] \in 1..n /\ components[handles[m]].name = m
        BY <1>1, <2>6, <2>7, <3>2 DEF Registry
      <4>2. QED
        BY <4>1, <2>3, <2>6
    <3>3. QED
      BY <3>1, <3>2
  <2>8. ASSUME NEW h \in 1..(n + 1)
        PROVE  components'[h].name \in DOMAIN handles' /\ handles'[components'[h].name] = h
    <3>1. CASE h = n + 1
      BY <3>1, <2>3, <2>6
    <3>2. CASE h # n + 1
      <4>1. h \in 1..n
        BY <2>8, <3>2
      <4>2. components[h].name \in DOMAIN handles /\ handles[components[h].name] = h
        BY <1>1, <4>1 DEF Registry
      <4>3. QED
        BY <4>1, <4>2, <2>3, <2>6
    <3>3. QED
      BY <3>1, <3>2
  <2>9. QED
    BY <2>3, <2>5, <2>6, <2>7, <2>8 DEF Registry
<1>4. QED
  BY <1>2, <1>3 DEF AddComponent

(* A level changes, and only that one. *)
LEMMA SetKeepsRegistry ==
  ASSUME Registry, NEW handle, NEW level \in Levels, SetComponentLogLevel(handle, level)
  PROVE  /\ Registry' /\ handles' = handles /\ general' = general /\ Len(components') = Len(components)
         /\ \A h \in 1..Len(components) :
              /\ components'[h].name = components[h].name
              /\ components'[h].level = IF exists /\ h = handle THEN level ELSE components[h].level
<1>1. PICK n \in Nat : n = Len(components) /\ DOMAIN components = 1..n /\ n <= MaxComponents
  BY DEF Registry
<1>2. UNCHANGED <<exists, handles, general, sinks>>
  BY DEF SetComponentLogLevel
<1>3. \A h \in 1..n : components[h] \in Component
  BY <1>1 DEF Registry
<1>4. CASE ~ HasAttributes(handle)
  <2>1. components' = components
    BY <1>4 DEF SetComponentLogLevel
  <2>2. \A h \in 1..n : exists /\ h = handle => FALSE
    BY <1>1, <1>4 DEF HasAttributes
  <2>3. QED
    BY <1>1, <1>2, <2>1, <2>2 DEF Registry
<1>5. CASE HasAttributes(handle)
  <2>1. components' = [components EXCEPT ![handle].level = level] /\ exists /\ handle \in 1..n
    BY <1>1, <1>5 DEF SetComponentLogLevel, HasAttributes
  <2>2. DOMAIN components' = 1..n
    BY <1>1, <2>1
  <2>3. \A h \in 1..n : /\ components'[h] \in Component /\ components'[h].name = components[h].name
                        /\ components'[h].level = IF h = handle THEN level ELSE components[h].level
    BY <1>1, <1>3, <2>1 DEF Component
  <2>4. components' \in [1..n -> Component]
    BY <1>1, <2>1, <2>2, <2>3
  <2>5. components' \in Seq(Component) /\ Len(components') = n
    BY <2>4
  <2>6. Registry'
    <3>1. ASSUME NEW name \in DOMAIN handles
          PROVE  handles[name] \in 1..n /\ components'[handles[name]].name = name
      BY <1>1, <2>3 DEF Registry
    <3>2. ASSUME NEW h \in 1..n
          PROVE  components'[h].name \in DOMAIN handles /\ handles[components'[h].name] = h
      BY <1>1, <2>3 DEF Registry
    <3>3. QED
      BY <1>1, <1>2, <2>1, <2>5, <3>1, <3>2 DEF Registry
  <2>7. QED
    BY <1>1, <1>2, <2>1, <2>3, <2>5, <2>6
<1>6. QED
  BY <1>4, <1>5

-----------------------------------------------------------------------------
(* The levels a configuration gives, or that are taken over from LogIt. *)
LEMMA GeneralGiven ==
  ASSUME Registry, Served
  PROVE  /\ GeneralLogLevelFromConfig \in DOMAIN Upper /\ IsLogLevel(GeneralLogLevelFromConfig)
         /\ LogLevelFromString(GeneralLogLevelFromConfig) \in Levels
         /\ LogLevelFromString(GeneralLogLevelFromConfig) =
              IF config.general = Absent THEN general ELSE LogLevelFromString(config.general)
<1>1. CASE config.general = Absent
  <2>1. GeneralLogLevelFromConfig = LogLevelToString(general) /\ general \in Levels
    BY <1>1 DEF GeneralLogLevelFromConfig, GetNonComponentLogLevel, Registry
  <2>2. QED
    BY <1>1, <2>1, LevelNames
<1>2. CASE config.general # Absent
  <2>1. GeneralLogLevelFromConfig = config.general /\ config.general \in ConfigTexts
    BY <1>2 DEF GeneralLogLevelFromConfig, Served
  <2>2. config.general \in DOMAIN Upper /\ IsLogLevel(config.general)
    BY <2>1, MetaAssumption
  <2>3. QED
    BY <1>2, <2>1, <2>2, LevelTexts
<1>3. QED
  BY <1>1, <1>2

LEMMA EntryFacts ==
  ASSUME Served, NEW i \in DOMAIN ComponentConfig
  PROVE  /\ ComponentConfig[i].level \in DOMAIN Upper /\ IsLogLevel(ComponentConfig[i].level)
         /\ i \in Nat
<1>1. ComponentConfig = config.components /\ config.components \in Entries
  <2>1. CASE config.components = Absent
    <3>1. ComponentConfig = <<>>
      BY <2>1 DEF ComponentConfig
    <3>2. DOMAIN <<>> = {}
      OBVIOUS
    <3>3. QED
      BY <3>1, <3>2
  <2>2. CASE config.components # Absent
    BY <2>2 DEF ComponentConfig, Served
  <2>3. QED
    BY <2>1, <2>2
<1>2. PICK k \in 0..MaxEntries : ComponentConfig \in [1..k -> [name : Names \cup Unregistered, level : ConfigTexts]]
  BY <1>1 DEF Entries
<1>3. k \in Nat
  BY MetaAssumption
<1>4. ComponentConfig[i].level \in ConfigTexts /\ i \in Nat
  BY <1>2, <1>3
<1>5. QED
  BY <1>4, MetaAssumption

LEMMA MaxOfOne ==
  ASSUME NEW i \in Nat
  PROVE  Max({i}) = i
<1>1. \E x \in {i} : \A y \in {i} : x >= y
  OBVIOUS
<1>2. QED
  BY <1>1 DEF Max

LEMMA ComponentGiven ==
  ASSUME Registry, Served, exists, Sane(ComponentConfig), NEW h \in 1..Len(components)
  PROVE  /\ ComponentLogLevelFromConfig(h) \in DOMAIN Upper /\ IsLogLevel(ComponentLogLevelFromConfig(h))
         /\ LogLevelFromString(ComponentLogLevelFromConfig(h)) \in Levels
         /\ GetComponentName(h) = components[h].name /\ components[h].name \in DOMAIN handles
         /\ \A i \in DOMAIN ComponentConfig : ComponentConfig[i].name = components[h].name =>
              ComponentLogLevelFromConfig(h) = ComponentConfig[i].level
<1> DEFINE given == {i \in DOMAIN ComponentConfig : ComponentConfig[i].name = GetComponentName(h)}
<1>1. DOMAIN components = 1..Len(components) /\ components[h] \in Component
  BY ElementOfSeq DEF Registry
<1>2. GetComponentName(h) = components[h].name /\ components[h].name \in DOMAIN handles
  BY <1>1 DEF GetComponentName, HasAttributes, Registry
<1>3. ComponentLogLevelFromConfig(h) =
        IF given = {} THEN LogLevelToString(GetComponentLogLevel(h)) ELSE ComponentConfig[Max(given)].level
  BY DEF ComponentLogLevelFromConfig
<1>4. CASE given = {}
  <2>1. components[h].level \in Levels /\ ComponentLogLevelFromConfig(h) = LogLevelToString(components[h].level)
    BY <1>1, <1>3, <1>4 DEF GetComponentLogLevel, Component
  <2>2. QED
    BY <1>2, <1>4, <2>1, LevelNames
<1>5. CASE given # {}
  <2>1. PICK i \in DOMAIN ComponentConfig : ComponentConfig[i].name = GetComponentName(h)
    BY <1>5
  <2>2. given = {i}
    BY <2>1 DEF Sane
  <2>3. i \in Nat /\ ComponentConfig[i].level \in DOMAIN Upper /\ IsLogLevel(ComponentConfig[i].level)
    BY EntryFacts
  <2>4. ComponentLogLevelFromConfig(h) = ComponentConfig[i].level
    BY <1>3, <2>2, <2>3, MaxOfOne
  <2>5. \A j \in DOMAIN ComponentConfig : ComponentConfig[j].name = components[h].name => j = i
    BY <1>2, <2>2
  <2>6. QED
    BY <1>2, <2>3, <2>4, <2>5, LevelTexts
<1>6. QED
  BY <1>4, <1>5

-----------------------------------------------------------------------------
LEMMA NewDevices ==
  ASSUME NEW i \in DOMAIN UnlinkedClasses
  PROVE  NewDevice[UnlinkedClasses[i]] = [parent |-> NewDevice[UnlinkedClasses[i]].parent, addressSpaceLink |-> <<>>]
<1>1. i \in 1..7
  BY DEF UnlinkedClasses
<1>2. UnlinkedClasses[i] \in {"StandardMetaData", "GeneralLogLevel", "ComponentLogLevel", "Quasar", "Server",
                              "SourceVariableThreadPool", "BuildInformation"}
  BY <1>1 DEF UnlinkedClasses
<1>3. QED
  BY <1>2 DEF NewDevice, Unlinked, Base_DStandardMetaData, Base_DGeneralLogLevel, Base_DComponentLogLevel,
              Base_DSourceVariableThreadPool, Base_DQuasar, Base_DServer, Base_DBuildInformation

LEMMA NodeFields ==
  ASSUME NEW s, NEW d, NEW node, node = [shows |-> s, toDevice |-> d]
  PROVE  node.shows = s /\ node.toDevice = d /\ node = [shows |-> node.shows, toDevice |-> node.toDevice]
<1>1. node.shows = s
  OBVIOUS
<1>2. node.toDevice = d
  OBVIOUS
<1>3. QED
  BY <1>1, <1>2

LEMMA LinkIsNode ==
  ASSUME NEW p, NEW q, NEW node
  PROVE  [[parent |-> p, addressSpaceLink |-> q] EXCEPT !.addressSpaceLink = node].addressSpaceLink = node
OBVIOUS

(* A node that is made is linked both ways, or not at all. *)
LEMMA AddKeepsLinks ==
  ASSUME Linked, NEW node, NEW class, Add(node, class), UNCHANGED handles, main' \notin {"stop", "stopped"},
         class.device \in BOOLEAN,
         class.device => \E i \in DOMAIN UnlinkedClasses : node[1] = UnlinkedClasses[i],
         node[1] \in {"GeneralLogLevel", "ComponentLogLevel"} =>
           /\ class.shows \in [logLevel : DOMAIN Upper]
           /\ node = <<"GeneralLogLevel", "">> \/ (node = <<"ComponentLogLevel", node[2]>> /\ node[2] \in DOMAIN handles)
  PROVE  Linked'
<1>1. CASE ~ CanAdd(node, class)
  BY <1>1 DEF Add, Linked, Delegating
<1>2. CASE CanAdd(node, class)
  <2>1. /\ DOMAIN nodes' = DOMAIN nodes \cup {node} /\ node \notin DOMAIN nodes
        /\ nodes'[node] = [shows |-> class.shows, toDevice |-> class.device]
        /\ \A n \in DOMAIN nodes : nodes'[n] = nodes[n]
    BY <1>2 DEF Add, CanAdd, WithNode, LinkDevice
  <2>2. /\ nodes'[node].shows = class.shows /\ nodes'[node].toDevice = class.device
        /\ nodes'[node] = [shows |-> nodes'[node].shows, toDevice |-> nodes'[node].toDevice]
    <3>1. PICK s, d, new : s = class.shows /\ d = class.device /\ new = nodes'[node]
      OBVIOUS
    <3>2. new = [shows |-> s, toDevice |-> d]
      BY <2>1, <3>1
    <3>3. new.shows = s /\ new.toDevice = d /\ new = [shows |-> new.shows, toDevice |-> new.toDevice]
      BY <3>2, NodeFields
    <3>4. QED
      BY <3>1, <3>3
  <2>3. /\ DOMAIN devices \subseteq DOMAIN devices'
        /\ \A n \in DOMAIN devices : n # node => devices'[n] = devices[n]
    BY <1>2 DEF Add, WithDevice
  <2>4. \A n \in DOMAIN nodes' : nodes'[n] = [shows |-> nodes'[n].shows, toDevice |-> nodes'[n].toDevice]
    BY <2>1, <2>2 DEF Linked
  <2>5. ASSUME NEW n \in DOMAIN nodes', nodes'[n].toDevice
        PROVE  /\ n \in DOMAIN devices' /\ devices'[n].addressSpaceLink = n
               /\ \E i \in DOMAIN UnlinkedClasses : n[1] = UnlinkedClasses[i]
    <3>1. CASE n = node
      <4>1. class.device
        BY <2>2, <2>5, <3>1
      <4>2. PICK i \in DOMAIN UnlinkedClasses : node[1] = UnlinkedClasses[i]
        BY <4>1
      <4>3. node \in DOMAIN devices' /\ devices'[node] = LinkAddressSpace(node)
        BY <1>2, <4>1 DEF Add, WithDevice
      <4>4. LinkAddressSpace(node).addressSpaceLink = node
        <5>1. PICK p : NewDevice[node[1]] = [parent |-> p, addressSpaceLink |-> <<>>]
          BY <4>2, NewDevices
        <5>2. LinkAddressSpace(node) = [[parent |-> p, addressSpaceLink |-> <<>>] EXCEPT !.addressSpaceLink = node]
          BY <5>1 DEF LinkAddressSpace
        <5>3. QED
          BY <5>2, LinkIsNode
      <4>5. QED
        BY <3>1, <4>2, <4>3, <4>4
    <3>2. CASE n # node
      BY <2>1, <2>3, <2>5, <3>2 DEF Linked
    <3>3. QED
      BY <3>1, <3>2
  <2>6. ASSUME NEW n \in Delegating'
        PROVE  /\ nodes'[n].shows \in [logLevel : DOMAIN Upper]
               /\ n = <<"GeneralLogLevel", "">> \/ (n = <<"ComponentLogLevel", n[2]>> /\ n[2] \in DOMAIN handles)
    <3>1. n \in DOMAIN nodes' /\ n[1] \in {"GeneralLogLevel", "ComponentLogLevel"}
      BY <2>6 DEF Delegating
    <3>2. CASE n = node
      BY <2>2, <3>1, <3>2
    <3>3. CASE n # node
      <4>1. n \in Delegating
        BY <2>1, <3>1, <3>3 DEF Delegating
      <4>2. QED
        BY <2>1, <3>1, <3>3, <4>1 DEF Linked
    <3>4. QED
      BY <3>2, <3>3
  <2>7. QED
    BY <2>4, <2>5, <2>6 DEF Linked
<1>3. QED
  BY <1>1, <1>2

(* A value that is shown changes no link. *)
LEMMA ValueKeepsLinks ==
  ASSUME Linked, NEW node, NEW variable, NEW value, nodes' = WithValue(node, variable, value),
         variable = "logLevel" => value \in DOMAIN Upper, UNCHANGED <<handles, devices>>,
         main' \in {"stop", "stopped"} => main' = main
  PROVE  /\ Linked' /\ DOMAIN nodes' = DOMAIN nodes /\ Delegating' = Delegating
         /\ \A n \in DOMAIN nodes : n # node => nodes'[n] = nodes[n]
         /\ node \in Delegating /\ variable = "logLevel" => nodes'[node].shows.logLevel = value
         /\ variable # "logLevel" => \A n \in Delegating : nodes'[n].shows.logLevel = nodes[n].shows.logLevel
<1>1. /\ DOMAIN nodes' = DOMAIN nodes
      /\ \A n \in DOMAIN nodes : n # node => nodes'[n] = nodes[n]
      /\ node \in DOMAIN nodes => nodes'[node] = [nodes[node] EXCEPT !.shows = [nodes[node].shows EXCEPT ![variable] = value]]
  BY DEF WithValue
<1>2. Delegating' = Delegating
  BY <1>1 DEF Delegating
<1>3. node \in DOMAIN nodes =>
        /\ nodes'[node] = [shows |-> nodes'[node].shows, toDevice |-> nodes'[node].toDevice]
        /\ nodes'[node].toDevice = nodes[node].toDevice
        /\ nodes'[node].shows = [nodes[node].shows EXCEPT ![variable] = value]
  BY <1>1 DEF Linked
<1>4. node \in Delegating =>
        /\ nodes'[node].shows \in [logLevel : DOMAIN Upper]
        /\ nodes'[node].shows.logLevel = IF variable = "logLevel" THEN value ELSE nodes[node].shows.logLevel
  <2>1. ASSUME node \in Delegating
        PROVE  nodes[node].shows \in [logLevel : DOMAIN Upper] /\ node \in DOMAIN nodes
    BY <2>1 DEF Linked, Delegating
  <2>2. QED
    BY <1>3, <2>1
<1>5. \A n \in DOMAIN nodes : nodes'[n].toDevice = nodes[n].toDevice
  BY <1>1, <1>3
<1>6. Linked'
  <2>1. \A n \in DOMAIN nodes' : nodes'[n] = [shows |-> nodes'[n].shows, toDevice |-> nodes'[n].toDevice]
    BY <1>1, <1>3 DEF Linked
  <2>2. \A n \in Delegating' : nodes'[n].shows \in [logLevel : DOMAIN Upper]
    BY <1>1, <1>2, <1>4 DEF Linked, Delegating
  <2>3. QED
    BY <2>1, <2>2, <1>1, <1>2, <1>5 DEF Linked
<1>7. \A n \in Delegating : n \in DOMAIN nodes
  BY DEF Delegating
<1>8. QED
  BY <1>1, <1>2, <1>4, <1>6, <1>7

-----------------------------------------------------------------------------
LEMMA MetaInit == Init => Meta
<1>1. ASSUME Init
      PROVE  Meta
  <2>1. DOMAIN <<>> = {} /\ <<>> \in Seq(Component) /\ Len(<<>>) = 0 /\ 0 <= MaxComponents
    <3>1. DOMAIN <<>> = {}
      OBVIOUS
    <3>2. <<>> \in Seq(Component) /\ Len(<<>>) = 0
      OBVIOUS
    <3>3. QED
      BY <3>1, <3>2, LogItAssumption
  <2>2. /\ exists = FALSE /\ components = <<>> /\ handles = <<>> /\ general = INF
        /\ nodes = <<>> /\ main = "initializeLogging" /\ unregistered = Registrations
    BY <1>1 DEF Init, LInit
  <2>3. \A h : h \notin 1..0
    OBVIOUS
  <2>4. INF \in Levels
    BY DEF INF, Levels
  <2>5. Registry
    BY <2>1, <2>2, <2>3, <2>4 DEF Registry
  <2>6. Linked
    BY <2>1, <2>2 DEF Linked, Delegating
  <2>7. Served
    BY <1>1, <2>2, MetaAssumption DEF Init, Served, Early, Steps, Program
  <2>8. QED
    BY <2>5, <2>6, <2>7 DEF Meta
<1>2. QED
  BY <1>1

(* Nothing is written before the server serves. *)
LEMMA ServedStays ==
  ASSUME Served, main \notin {"serve", "unlink", "stop"}, UNCHANGED <<config, request, writes>>,
         main' \in Steps, main' # "initializeLogging" => exists', unregistered' \in Seq(Names),
         threw' => main' \in {"unlink", "stop", "stopped"},
         main' \notin Early \cup {"validate"} /\ ~ threw' => Sane(ComponentConfig)'
  PROVE  Served'
<1>1. \A t \in Threads : request[t] = Absent
  BY DEF Served
<1>2. QED
  BY <1>1 DEF Served

LEMMA SaneStays ==
  ASSUME UNCHANGED <<exists, handles, config>>
  PROVE  Sane(ComponentConfig)' <=> Sane(ComponentConfig)
BY DEF Sane, ComponentConfig, GetComponentHandle, HasHandle

LEMMA RegistryStays ==
  ASSUME Registry, UNCHANGED lvars
  PROVE  Registry'
BY DEF Registry, lvars

LEMMA LinkedStays ==
  ASSUME Linked, UNCHANGED <<nodes, devices, handles>>, main' \in {"stop", "stopped"} => main \in {"stop", "stopped"}
  PROVE  Linked'
BY DEF Linked, Delegating

(* The steps of the configuration. *)
LEMMA MetaLogging ==
  ASSUME Meta, InitializeLogIt \/ Register
  PROVE  Meta'
<1> USE DEF Meta
<1>1. INF \in Levels
  BY DEF INF, Levels
<1>2. CASE InitializeLogIt
  <2>1. /\ main = "initializeLogging" /\ main' = "register" /\ main \in Early /\ main' \in Early
        /\ UNCHANGED <<config, unregistered, threw, nodes, devices, request, writes, crashed>>
    BY <1>2 DEF InitializeLogIt, Done, Program, Early
  <2>2. Registry' /\ exists'
    <3>1. CASE exists
      BY <1>2, <3>1, RegistryStays DEF InitializeLogIt, InitializeLogging, lvars
    <3>2. CASE ~ exists
      <4>1. exists' = TRUE /\ components' = <<>> /\ handles' = <<>> /\ sinks' = Backends /\ general' = INF
        BY <1>2, <3>2 DEF InitializeLogIt, InitializeLogging, CreateInstance, InitializeSinks
      <4>2. DOMAIN <<>> = {}
        OBVIOUS
      <4>3. <<>> \in Seq(Component) /\ Len(<<>>) = 0 /\ 0 <= MaxComponents /\ \A h : h \notin 1..0
        BY LogItAssumption
      <4>4. QED
        BY <1>1, <4>1, <4>2, <4>3 DEF Registry
    <3>3. QED
      BY <3>1, <3>2
  <2>3. handles' = handles \/ \A n \in Delegating : n = <<"GeneralLogLevel", "">>
    <3>1. CASE exists
      BY <1>2, <3>1 DEF InitializeLogIt, InitializeLogging, lvars
    <3>2. CASE ~ exists
      BY <3>2 DEF Registry, Linked, Delegating
    <3>3. QED
      BY <3>1, <3>2
  <2>4. Linked'
    BY <2>1, <2>3 DEF Linked, Delegating
  <2>5. QED
    BY <2>1, <2>2, <2>4, ServedStays DEF Served, Steps, Program, Early
<1>3. CASE Register
  <2>1. main = "register" /\ exists /\ UNCHANGED <<config, threw, nodes, devices, request, writes, crashed>>
    BY <1>3 DEF Register, Served
  <2>2. CASE unregistered = <<>>
    <3>1. main' = "StandardMetaData" /\ UNCHANGED <<lvars, unregistered>>
      BY <1>3, <2>1, <2>2 DEF Register, Done, Program
    <3>2. Registry' /\ Linked'
      BY <2>1, <3>1, RegistryStays, LinkedStays DEF lvars
    <3>3. QED
      BY <2>1, <3>1, <3>2, ServedStays DEF Served, Steps, Program, Early, lvars
  <2>3. CASE unregistered # <<>>
    <3>1. /\ unregistered' = Tail(unregistered) /\ main' = main
          /\ AddComponent(Head(unregistered), INF) /\ UNCHANGED <<exists, general, sinks>>
      BY <1>3, <2>1, <2>3 DEF Register, RegisterLoggingComponent
    <3>2. Head(unregistered) \in Names /\ unregistered' \in Seq(Names)
      BY <2>3, <3>1 DEF Served
    <3>3. PICK name \in Names : name = Head(unregistered)
      BY <3>2
    <3>4. Registry'
      BY <1>1, <2>1, <3>1, <3>3, AddKeepsRegistry
    <3>5. DOMAIN handles \subseteq DOMAIN handles'
      BY <3>1, <3>3 DEF AddComponent
    <3>6. Linked'
      BY <2>1, <3>1, <3>5 DEF Linked, Delegating
    <3>7. QED
      BY <2>1, <3>1, <3>2, <3>4, <3>6, ServedStays DEF Served, Steps, Program, Early
  <2>4. QED
    BY <2>2, <2>3
<1>4. QED
  BY <1>2, <1>3

LEMMA MetaObject ==
  ASSUME Meta, ConfigureObject
  PROVE  Meta'
<1> USE DEF Meta
<1>1. UNCHANGED lvars /\ Registry'
  BY RegistryStays DEF ConfigureObject
<1>2. /\ main \in {"StandardMetaData", "Log", "ComponentLogLevels", "SourceVariableThreadPool", "Quasar", "Server", "BuildInformation"}
      /\ main' = Program[main] /\ UNCHANGED <<config, unregistered, threw, request, writes>>
  BY DEF ConfigureObject, Done, Add, Others
<1>3. /\ main' \in Steps /\ main' \notin {"initializeLogging", "stop", "stopped"}
      /\ main' \notin Early \cup {"validate"} => main \notin Early \cup {"validate"}
  BY <1>2 DEF Program, Steps, Early
<1>4. exists /\ ~ threw
  BY <1>2 DEF Served
<1>5. PICK class : /\ Add(<<main, "">>, class) /\ class.device \in BOOLEAN
                   /\ class.device => main \notin {"Log", "ComponentLogLevels"}
  <2>1. CASE main = "StandardMetaData"
    <3>1. Add(<<main, "">>, ASStandardMetaData) /\ ASStandardMetaData.device = TRUE
      BY <2>1 DEF ConfigureObject, Node, ASStandardMetaData
    <3>2. QED
      BY <2>1, <3>1
  <2>2. CASE main = "Log"
    <3>1. Add(<<main, "">>, ASLog) /\ ASLog.device = FALSE
      BY <2>2 DEF ConfigureObject, Node, ASLog
    <3>2. QED
      BY <2>2, <3>1
  <2>3. CASE main = "ComponentLogLevels"
    <3>1. Add(<<main, "">>, ASComponentLogLevels) /\ ASComponentLogLevels.device = FALSE
      BY <2>3 DEF ConfigureObject, Node, ASComponentLogLevels
    <3>2. QED
      BY <2>3, <3>1
  <2>4. CASE main = "SourceVariableThreadPool"
    <3>1. PICK class : class = ASSourceVariableThreadPool(PoolConfig.min, PoolConfig.max)
      OBVIOUS
    <3>2. Add(<<main, "">>, class) /\ class.device = TRUE
      BY <2>4, <3>1 DEF ConfigureObject, Node, ASSourceVariableThreadPool
    <3>3. QED
      BY <2>4, <3>2
  <2>5. CASE main = "Quasar"
    <3>1. Add(<<main, "">>, ASQuasar) /\ ASQuasar.device = TRUE
      BY <2>5 DEF ConfigureObject, Node, ASQuasar
    <3>2. QED
      BY <2>5, <3>1
  <2>6. CASE main = "Server"
    <3>1. Add(<<main, "">>, ASServer) /\ ASServer.device = TRUE
      BY <2>6 DEF ConfigureObject, Node, ASServer
    <3>2. QED
      BY <2>6, <3>1
  <2>7. CASE main = "BuildInformation"
    <3>1. Add(<<main, "">>, ASBuildInformation) /\ ASBuildInformation.device = TRUE
      BY <2>7 DEF ConfigureObject, Node, ASBuildInformation
    <3>2. QED
      BY <2>7, <3>1
  <2>8. QED
    BY <1>2, <2>1, <2>2, <2>3, <2>4, <2>5, <2>6, <2>7
<1>6. PICK node : node = <<main, "">> /\ node[1] = main
  <2>1. <<main, "">>[1] = main
    OBVIOUS
  <2>2. QED
    BY <2>1
<1>7. class.device => \E i \in DOMAIN UnlinkedClasses : node[1] = UnlinkedClasses[i]
  <2>1. DOMAIN UnlinkedClasses = 1..7
    BY DEF UnlinkedClasses
  <2>2. /\ UnlinkedClasses[1] = "StandardMetaData" /\ UnlinkedClasses[4] = "Quasar" /\ UnlinkedClasses[5] = "Server"
        /\ UnlinkedClasses[6] = "SourceVariableThreadPool" /\ UnlinkedClasses[7] = "BuildInformation"
    BY DEF UnlinkedClasses
  <2>3. 1 \in 1..7 /\ 4 \in 1..7 /\ 5 \in 1..7 /\ 6 \in 1..7 /\ 7 \in 1..7
    OBVIOUS
  <2>4. QED
    BY <1>2, <1>5, <1>6, <2>1, <2>2, <2>3
<1>8. node[1] \notin {"GeneralLogLevel", "ComponentLogLevel"}
  BY <1>2, <1>6
<1>9. Linked'
  BY <1>1, <1>3, <1>5, <1>6, <1>7, <1>8, AddKeepsLinks DEF lvars
<1>10. Served'
  BY <1>1, <1>2, <1>3, <1>4, ServedStays, SaneStays DEF Served, lvars
<1>11. QED
  BY <1>1, <1>9, <1>10

LEMMA MetaVersion ==
  ASSUME Meta, UpdateVersion
  PROVE  Meta'
<1> USE DEF Meta
<1>1. /\ main = "version" /\ main' = "Server" /\ UNCHANGED <<lvars, config, unregistered, threw, devices, request, writes>>
  BY DEF UpdateVersion, Done, Program
<1>2. Registry'
  BY <1>1, RegistryStays
<1>3. Linked'
  <2>1. CASE UNCHANGED nodes
    BY <1>1, <2>1, LinkedStays DEF lvars
  <2>2. CASE ~ UNCHANGED nodes
    <3>1. PICK link, value : nodes' = WithValue(link, "version", value)
      BY <2>2 DEF UpdateVersion
    <3>2. QED
      BY <1>1, <3>1, ValueKeepsLinks DEF lvars
  <2>3. QED
    BY <2>1, <2>2
<1>4. Served'
  BY <1>1, ServedStays, SaneStays DEF Served, lvars, Steps, Program, Early
<1>5. QED
  BY <1>2, <1>3, <1>4

LEMMA MetaGeneral ==
  ASSUME Meta, ConfigureGeneralLogLevel
  PROVE  Meta'
<1> USE DEF Meta
<1>1. /\ main = "GeneralLogLevel" /\ main' = "validate" /\ UNCHANGED <<config, unregistered, threw, request, writes>>
      /\ UNCHANGED <<exists, components, handles, sinks>>
      /\ general' = IF exists THEN LogLevelFromString(GeneralLogLevelFromConfig) ELSE general
  BY DEF ConfigureGeneralLogLevel, Done, Program, Add, Others, SetNonComponentLogLevel
<1>2. Registry'
  BY <1>1, GeneralGiven DEF Registry
<1>3. PICK node, class : /\ node = <<"GeneralLogLevel", "">> /\ node[1] = "GeneralLogLevel" /\ Add(node, class)
                         /\ class.device = TRUE /\ class.shows = [logLevel |-> GeneralLogLevelFromConfig]
  <2>1. PICK class : class = ASGeneralLogLevel(GeneralLogLevelFromConfig)
    OBVIOUS
  <2>2. class.device = TRUE /\ class.shows = [logLevel |-> GeneralLogLevelFromConfig]
    BY <2>1 DEF ASGeneralLogLevel
  <2>3. <<"GeneralLogLevel", "">>[1] = "GeneralLogLevel" /\ Add(<<"GeneralLogLevel", "">>, class)
    BY <2>1 DEF ConfigureGeneralLogLevel, Node
  <2>4. QED
    BY <2>2, <2>3
<1>4. \E i \in DOMAIN UnlinkedClasses : node[1] = UnlinkedClasses[i]
  <2>1. DOMAIN UnlinkedClasses = 1..7 /\ UnlinkedClasses[2] = "GeneralLogLevel" /\ 2 \in 1..7
    BY DEF UnlinkedClasses
  <2>2. QED
    BY <1>3, <2>1
<1>5. class.shows \in [logLevel : DOMAIN Upper]
  <2>1. PICK text \in DOMAIN Upper : text = GeneralLogLevelFromConfig
    BY GeneralGiven
  <2>2. class.shows = [logLevel |-> text]
    BY <1>3, <2>1
  <2>3. [logLevel |-> text] \in [logLevel : DOMAIN Upper]
    OBVIOUS
  <2>4. QED
    BY <2>2, <2>3
<1>6. Linked'
  BY <1>1, <1>3, <1>4, <1>5, AddKeepsLinks
<1>7. Served'
  BY <1>1, ServedStays DEF Served, Steps, Program, Early
<1>8. QED
  BY <1>2, <1>6, <1>7

LEMMA MetaValidate ==
  ASSUME Meta, ValidateComponentLogLevels
  PROVE  Meta'
<1> USE DEF Meta
<1>1. main = "validate" /\ UNCHANGED <<lvars, config, unregistered, nodes, devices, request, writes, crashed>>
  BY DEF ValidateComponentLogLevels
<1>2. \/ Sane(ComponentConfig) /\ main' = "ComponentLogLevels" /\ UNCHANGED threw
      \/ main' = "unlink" /\ threw' = TRUE
  BY DEF ValidateComponentLogLevels, Done, Program, Shutdown
<1>3. Registry' /\ Linked'
  BY <1>1, <1>2, RegistryStays, LinkedStays DEF lvars
<1>4. Served'
  BY <1>1, <1>2, ServedStays, SaneStays DEF Served, Steps, Program, Early, lvars
<1>5. QED
  BY <1>3, <1>4

(* One component's object is made, or all have theirs. *)
LEMMA ComponentStep ==
  ASSUME Meta, ConfigureComponentLogLevel
  PROVE  /\ main = "ComponentLogLevel" /\ exists /\ ~ threw /\ Sane(ComponentConfig)
         /\ UNCHANGED <<config, unregistered, threw, request, writes>>
         /\ \/ /\ main' = "SourceVariableThreadPool" /\ UNCHANGED <<lvars, nodes, devices, crashed>>
               /\ (Cardinality(Made) + 1) \notin 1..Len(components)
            \/ /\ main' = main
               /\ \E h \in 1..Len(components) : \E node, class :
                    /\ h = Cardinality(Made) + 1 /\ node = ObjectOf(h) /\ Add(node, class)
                    /\ node[1] = "ComponentLogLevel" /\ node[2] = components[h].name
                    /\ class.device = TRUE /\ class.parent = "ComponentLogLevels"
                    /\ class.shows = [logLevel |-> ComponentLogLevelFromConfig(h)]
                    /\ SetComponentLogLevel(h, LogLevelFromString(ComponentLogLevelFromConfig(h)))
<1> USE DEF Meta
<1>1. main = "ComponentLogLevel" /\ exists /\ ~ threw /\ Sane(ComponentConfig)
  BY DEF ConfigureComponentLogLevel, Served, Early
<1>2. Made = {n \in DOMAIN nodes : n[1] = "ComponentLogLevel"}
  BY DEF Made
<1>3. PICK h : h = Cardinality(Made) + 1
  OBVIOUS
<1>4. DOMAIN GetComponentLogsList = 1..Len(components)
  BY <1>1 DEF GetComponentLogsList, Registry
<1>5. CASE h \notin 1..Len(components)
  <2>1. /\ main' = "SourceVariableThreadPool"
        /\ UNCHANGED <<lvars, config, unregistered, threw, nodes, devices, request, writes, crashed>>
    BY <1>1, <1>2, <1>3, <1>4, <1>5 DEF ConfigureComponentLogLevel, Done, Program
  <2>2. QED
    BY <1>1, <1>3, <1>5, <2>1
<1>6. CASE h \in 1..Len(components)
  <2>1. /\ Add(Node("ComponentLogLevel", GetComponentName(h)), ASComponentLogLevel(ComponentLogLevelFromConfig(h)))
        /\ SetComponentLogLevel(h, LogLevelFromString(ComponentLogLevelFromConfig(h)))
        /\ UNCHANGED main
    BY <1>2, <1>3, <1>4, <1>6 DEF ConfigureComponentLogLevel
  <2>2. GetComponentName(h) = components[h].name
    BY <1>1, <1>6, ComponentGiven
  <2>3. PICK class : class = ASComponentLogLevel(ComponentLogLevelFromConfig(h))
    OBVIOUS
  <2>4. /\ class.device = TRUE /\ class.parent = "ComponentLogLevels"
        /\ class.shows = [logLevel |-> ComponentLogLevelFromConfig(h)]
    BY <2>3 DEF ASComponentLogLevel
  <2>5. PICK node : node = ObjectOf(h) /\ node[1] = "ComponentLogLevel" /\ node[2] = components[h].name
    <3>1. ObjectOf(h)[1] = "ComponentLogLevel" /\ ObjectOf(h)[2] = components[h].name
      BY DEF ObjectOf
    <3>2. QED
      BY <3>1
  <2>6. Add(node, class)
    BY <2>1, <2>2, <2>3, <2>5 DEF Node, ObjectOf
  <2>7. UNCHANGED <<config, unregistered, threw, request, writes>>
    BY <2>6 DEF Add, Others
  <2>8. QED
    BY <1>1, <1>3, <1>6, <2>1, <2>4, <2>5, <2>6, <2>7
<1>7. QED
  BY <1>5, <1>6

LEMMA MetaComponent ==
  ASSUME Meta, ConfigureComponentLogLevel
  PROVE  Meta'
<1> USE DEF Meta
<1>1. /\ main = "ComponentLogLevel" /\ exists /\ ~ threw /\ Sane(ComponentConfig)
      /\ UNCHANGED <<config, unregistered, threw, request, writes>>
  BY ComponentStep
<1>2. CASE main' = "SourceVariableThreadPool" /\ UNCHANGED <<lvars, nodes, devices, crashed>>
  <2>1. Registry' /\ Linked'
    BY <1>1, <1>2, RegistryStays, LinkedStays DEF lvars
  <2>2. Served'
    BY <1>1, <1>2, ServedStays, SaneStays DEF Served, Steps, Program, Early, lvars
  <2>3. QED
    BY <2>1, <2>2
<1>3. ASSUME main' = main, NEW h \in 1..Len(components), NEW node, NEW class,
             node = ObjectOf(h), Add(node, class), node[1] = "ComponentLogLevel", node[2] = components[h].name,
             class.device = TRUE, class.shows = [logLevel |-> ComponentLogLevelFromConfig(h)],
             SetComponentLogLevel(h, LogLevelFromString(ComponentLogLevelFromConfig(h)))
      PROVE  Meta'
  <2>1. LogLevelFromString(ComponentLogLevelFromConfig(h)) \in Levels /\ components[h].name \in DOMAIN handles
    BY <1>1, ComponentGiven
  <2>2. Registry' /\ handles' = handles /\ exists' = exists
    BY <1>3, <2>1, SetKeepsRegistry DEF SetComponentLogLevel
  <2>3. \E i \in DOMAIN UnlinkedClasses : node[1] = UnlinkedClasses[i]
    BY <1>3 DEF UnlinkedClasses
  <2>4. class.shows \in [logLevel : DOMAIN Upper]
    BY <1>1, <1>3, ComponentGiven
  <2>5. node = <<"ComponentLogLevel", node[2]>> /\ node[2] \in DOMAIN handles
    BY <1>3, <2>1 DEF ObjectOf
  <2>6. Linked'
    BY <1>1, <1>3, <2>2, <2>3, <2>4, <2>5, AddKeepsLinks
  <2>7. Served'
    BY <1>1, <1>3, <2>2, ServedStays, SaneStays DEF Served, Steps, Program, Early
  <2>8. QED
    BY <2>2, <2>6, <2>7
<1>4. QED
  BY <1>2, <1>3, ComponentStep

(* The end of the server. *)
LEMMA MetaEnd ==
  ASSUME Meta, EndLoop \/ DestroyMeta \/ Stop
  PROVE  Meta'
<1> USE DEF Meta
<1>1. UNCHANGED <<lvars, config, unregistered, threw, devices, request, writes, crashed>> /\ Registry'
  BY RegistryStays DEF EndLoop, DestroyMeta, Stop
<1>2. CASE EndLoop
  <2>1. main = "serve" /\ main' = "unlink" /\ UNCHANGED nodes
    BY <1>2 DEF EndLoop, Shutdown
  <2>2. Linked'
    BY <1>1, <2>1, LinkedStays DEF lvars
  <2>3. Delegating' = Delegating /\ (Sane(ComponentConfig)' <=> Sane(ComponentConfig))
    BY <1>1, <2>1, SaneStays DEF Delegating, lvars
  <2>4. Served'
    BY <1>1, <2>1, <2>3 DEF Served, Steps, Program, Early, lvars
  <2>5. QED
    BY <1>1, <2>2, <2>4
<1>3. CASE Stop
  <2>1. main = "stop" /\ main' = "stopped" /\ UNCHANGED nodes /\ \A t \in Threads : request[t] = Absent
    BY <1>3 DEF Stop, Done, Program
  <2>2. Linked'
    BY <1>1, <2>1, LinkedStays DEF lvars
  <2>3. Delegating' = Delegating /\ (Sane(ComponentConfig)' <=> Sane(ComponentConfig))
    BY <1>1, <2>1, SaneStays DEF Delegating, lvars
  <2>4. Served'
    BY <1>1, <2>1, <2>3 DEF Served, Steps, Program, Early, lvars
  <2>5. QED
    BY <1>1, <2>2, <2>4
<1>4. CASE DestroyMeta
  <2> DEFINE left == {i \in DOMAIN UnlinkedClasses : LinkedOf(UnlinkedClasses[i]) # {}}
  <2>1. main = "unlink"
    BY <1>4 DEF DestroyMeta
  <2>2. \/ left = {} /\ main' = "stop" /\ UNCHANGED nodes
        \/ /\ main' = "unlink"
           /\ \E n \in DOMAIN nodes : nodes' = [nodes EXCEPT ![n].toDevice = FALSE]
    <3>1. \A class : LinkedOf(class) \subseteq DOMAIN nodes
      BY DEF LinkedOf, FindAllObjects
    <3>2. PICK class : class = UnlinkedClasses[Min(left)]
      OBVIOUS
    <3>3. IF left = {} THEN Done /\ UNCHANGED nodes
          ELSE (\E n \in LinkedOf(class) : UnlinkDevice(n)) /\ UNCHANGED main
      BY <1>4, <3>2 DEF DestroyMeta
    <3>4. CASE left = {}
      BY <2>1, <3>3, <3>4 DEF Done, Program
    <3>5. CASE left # {}
      <4>1. PICK n \in LinkedOf(class) : UnlinkDevice(n)
        BY <3>3, <3>5
      <4>2. main' = "unlink"
        BY <2>1, <3>3, <3>5
      <4>3. QED
        BY <3>1, <4>1, <4>2 DEF UnlinkDevice
    <3>6. QED
      BY <3>4, <3>5
  <2>3. DOMAIN nodes' = DOMAIN nodes /\ Delegating' = Delegating
    BY <2>2 DEF Delegating
  <2>4. Linked'
    <3>1. CASE left = {} /\ main' = "stop" /\ UNCHANGED nodes
      <4>1. ASSUME NEW n \in DOMAIN nodes, nodes[n].toDevice
            PROVE  FALSE
        <5>1. PICK i \in DOMAIN UnlinkedClasses : n[1] = UnlinkedClasses[i]
          BY <4>1 DEF Linked
        <5>2. i \in left
          BY <4>1, <5>1 DEF LinkedOf, FindAllObjects
        <5>3. QED
          BY <3>1, <5>2
      <4>2. QED
        BY <1>1, <3>1, <4>1, <2>3 DEF Linked, lvars
    <3>2. ASSUME NEW n \in DOMAIN nodes, nodes' = [nodes EXCEPT ![n].toDevice = FALSE], main' = "unlink"
          PROVE  Linked'
      <4>1. nodes'[n] = [nodes[n] EXCEPT !.toDevice = FALSE] /\ \A m \in DOMAIN nodes : m # n => nodes'[m] = nodes[m]
        BY <3>2
      <4>2. nodes'[n] = [shows |-> nodes[n].shows, toDevice |-> FALSE]
        BY <4>1 DEF Linked
      <4>3. nodes'[n].shows = nodes[n].shows /\ nodes'[n].toDevice = FALSE
        BY <4>2
      <4>4. \A m \in DOMAIN nodes' : nodes'[m] = [shows |-> nodes'[m].shows, toDevice |-> nodes'[m].toDevice]
        BY <2>3, <4>1, <4>2, <4>3 DEF Linked
      <4>5. \A m \in DOMAIN nodes : nodes'[m].toDevice => m # n /\ nodes[m].toDevice
        BY <4>1, <4>3
      <4>6. \A m \in DOMAIN nodes : nodes'[m].shows = nodes[m].shows
        BY <4>1, <4>3
      <4>7. \A m \in Delegating : nodes'[m].shows \in [logLevel : DOMAIN Upper]
        BY <4>6 DEF Linked, Delegating
      <4>8. QED
        BY <1>1, <2>3, <3>2, <4>4, <4>5, <4>7 DEF Linked, lvars
    <3>3. QED
      BY <2>2, <3>1, <3>2
  <2>5. Served'
    <3>1. main' \in {"unlink", "stop"} /\ (Sane(ComponentConfig)' <=> Sane(ComponentConfig))
      BY <1>1, <2>2, SaneStays DEF lvars
    <3>2. QED
      BY <1>1, <2>1, <2>3, <3>1 DEF Served, Steps, Program, Early, lvars
  <2>6. QED
    BY <1>1, <2>4, <2>5
<1>5. QED
  BY <1>2, <1>3, <1>4

LEMMA WriteMoves ==
  ASSUME NEW r \in Writes, NEW where \in {"test", "call", "store"}, NEW next, next = [r EXCEPT !.at = where]
  PROVE  next \in Writes /\ next.node = r.node /\ next.text = r.text /\ next.at = where
<1>1. PICK S : S = ({"GeneralLogLevel"} \X {""}) \cup ({"ComponentLogLevel"} \X Names)
  OBVIOUS
<1>2. Writes = [node : S, text : Texts, at : {"test", "call", "store"}]
  BY <1>1 DEF Writes
<1>3. r \in [node : S, text : Texts, at : {"test", "call", "store"}]
  BY <1>2
<1>4. /\ next \in [node : S, text : Texts, at : {"test", "call", "store"}]
      /\ next.node = r.node /\ next.text = r.text /\ next.at = where
  BY <1>3
<1>5. QED
  BY <1>2, <1>4

(* What a write under way is. *)
LEMMA RequestFacts ==
  ASSUME Meta, NEW t \in Threads, request[t] # Absent
  PROVE  /\ request[t] \in Writes
         /\ request[t].at \in {"test", "call", "store"}
         /\ main \in {"serve", "unlink", "stop"} /\ exists /\ writes # 0
         /\ request[t].node \in Delegating
         /\ request[t].node[1] # "GeneralLogLevel" => request[t].node[2] \in DOMAIN handles
<1>1. request[t] \in Writes
  BY DEF Meta, Served
<1>2. /\ main \in {"serve", "unlink", "stop"} /\ exists /\ writes # 0 /\ request[t].node \in Delegating
  BY DEF Meta, Served
<1>3. request[t].node[1] # "GeneralLogLevel" => request[t].node[2] \in DOMAIN handles
  <2>1. PICK n \in Delegating : n = request[t].node
    BY <1>2
  <2>2. n = <<"GeneralLogLevel", "">> => n[1] = "GeneralLogLevel"
    <3>1. <<"GeneralLogLevel", "">>[1] = "GeneralLogLevel"
      OBVIOUS
    <3>2. QED
      BY <3>1
  <2>3. n = <<"GeneralLogLevel", "">> \/ n[2] \in DOMAIN handles
    BY DEF Meta, Linked
  <2>4. QED
    BY <2>1, <2>2, <2>3
<1>4. QED
  BY <1>1, <1>2, <1>3 DEF Writes

(* A write goes on or ends; nothing else of the server's state changes. *)
LEMMA RequestGoesOn ==
  ASSUME Meta, NEW t \in Threads, UNCHANGED <<config, main, unregistered, threw>>,
         writes' \in Nat, writes' = 0 => writes = 0, UNCHANGED <<exists, handles>>, Delegating' = Delegating,
         NEW next \in Writes \cup {Absent}, request' = [request EXCEPT ![t] = next],
         next # Absent =>
           /\ main \in {"serve", "unlink", "stop"} /\ writes' # 0 /\ next.node \in Delegating
           /\ next.at # "test" => next.text \in DOMAIN Upper
           /\ next.at = "store" => IsLogLevel(next.text)
  PROVE  Served'
<1>1. Sane(ComponentConfig)' <=> Sane(ComponentConfig)
  BY SaneStays
<1>2. request'[t] = next /\ \A u \in Threads : u # t => request'[u] = request[u]
  BY DEF Meta, Served
<1>3. request' \in [Threads -> Writes \cup {Absent}]
  BY DEF Meta, Served
<1>4. ASSUME NEW u \in Threads, request'[u] # Absent
      PROVE  /\ main \in {"serve", "unlink", "stop"} /\ writes' # 0
             /\ request'[u].node \in Delegating
             /\ request'[u].at # "test" => request'[u].text \in DOMAIN Upper
             /\ request'[u].at = "store" => IsLogLevel(request'[u].text)
  <2>1. CASE u = t
    BY <1>2, <1>4, <2>1
  <2>2. CASE u # t
    BY <1>2, <1>4, <2>2 DEF Meta, Served
  <2>3. QED
    BY <2>1, <2>2
<1>5. QED
  BY <1>1, <1>3, <1>4 DEF Meta, Served

LEMMA MetaWrite ==
  ASSUME Meta, NEW t \in Threads, BeginWrite(t) \/ TestWrite(t) \/ CallDevice(t) \/ StoreValue(t)
  PROVE  Meta'
<1> USE DEF Meta
<1>1. UNCHANGED <<config, main, unregistered, threw, devices>>
  BY DEF BeginWrite, TestWrite, CallDevice, StoreValue
<1>2. Absent \in Writes \cup {Absent} /\ writes \in Nat
  BY DEF Served
<1>3. CASE BeginWrite(t)
  <2>1. /\ UNCHANGED <<lvars, nodes>> /\ main \in {"serve", "unlink", "stop"} /\ writes' = writes + 1
    BY <1>3 DEF BeginWrite, Serving
  <2>2. PICK n \in Delegating, text \in Texts : request' = [request EXCEPT ![t] = [node |-> n, text |-> text, at |-> "test"]]
    BY <1>3 DEF BeginWrite
  <2>3. n \in ({"GeneralLogLevel"} \X {""}) \cup ({"ComponentLogLevel"} \X Names)
    <3>1. CASE n = <<"GeneralLogLevel", "">>
      BY <3>1
    <3>2. CASE n # <<"GeneralLogLevel", "">>
      <4>1. PICK name \in Names : n = <<"ComponentLogLevel", name>>
        BY <3>2 DEF Linked, Registry
      <4>2. QED
        BY <4>1
    <3>3. QED
      BY <3>1, <3>2
  <2>4. PICK next \in Writes : next = [node |-> n, text |-> text, at |-> "test"]
    BY <2>3 DEF Writes
  <2>5. next.node = n /\ next.at = "test"
    BY <2>4
  <2>6. Registry' /\ Linked' /\ Delegating' = Delegating
    BY <1>1, <2>1, RegistryStays, LinkedStays DEF lvars, Delegating
  <2>7. writes' \in Nat /\ writes' # 0
    BY <1>2, <2>1
  <2>8. Served'
    BY <1>1, <2>1, <2>2, <2>4, <2>5, <2>6, <2>7, RequestGoesOn DEF lvars
  <2>9. QED
    BY <2>6, <2>8
<1>4. CASE TestWrite(t)
  <2>1. UNCHANGED <<lvars, nodes, writes>> /\ request[t] # Absent
    BY <1>4 DEF TestWrite
  <2>2. Registry' /\ Linked' /\ Delegating' = Delegating
    BY <1>1, <2>1, RegistryStays, LinkedStays DEF lvars, Delegating
  <2>3. CASE Answer(t)
    BY <1>1, <1>2, <2>1, <2>2, <2>3, RequestGoesOn DEF Answer, lvars
  <2>4. CASE request[t].text # NotText /\ request' = [request EXCEPT ![t].at = "call"]
    <3>1. PICK next : next = [request[t] EXCEPT !.at = "call"]
      OBVIOUS
    <3>2. request' = [request EXCEPT ![t] = next]
      BY <2>4, <3>1
    <3>3. request[t] \in Writes /\ request[t].node \in Delegating /\ main \in {"serve", "unlink", "stop"} /\ writes # 0
      BY <2>1, RequestFacts
    <3>4. next \in Writes /\ next.node = request[t].node /\ next.text = request[t].text /\ next.at = "call"
      BY <3>1, <3>3, WriteMoves
    <3>5. request[t].text \in DOMAIN Upper
      BY <2>4, <3>3, MetaAssumption DEF Writes
    <3>6. Served'
      BY <1>1, <1>2, <2>1, <2>2, <3>2, <3>3, <3>4, <3>5, RequestGoesOn DEF lvars
    <3>7. QED
      BY <2>2, <3>6
  <2>5. QED
    BY <1>4, <2>3, <2>4 DEF TestWrite
<1>5. CASE CallDevice(t)
  <2>1. UNCHANGED <<nodes, writes>> /\ request[t] # Absent /\ request[t].at = "call"
    BY <1>5 DEF CallDevice
  <2>2. Delegating' = Delegating
    BY <2>1 DEF Delegating
  <2>3. request[t].text \in DOMAIN Upper
    BY <2>1 DEF Served
  <2>4. CASE UNCHANGED <<lvars, request>>
    <3>1. Registry' /\ Linked'
      BY <1>1, <2>1, <2>4, RegistryStays, LinkedStays DEF lvars
    <3>2. request' = [request EXCEPT ![t] = request[t]] /\ request[t] \in Writes \cup {Absent}
      BY <2>4 DEF Served
    <3>3. Sane(ComponentConfig)' <=> Sane(ComponentConfig)
      BY <1>1, <2>4, SaneStays DEF lvars
    <3>4. Served'
      BY <1>1, <2>1, <2>2, <2>4, <3>3 DEF Served, lvars
    <3>5. QED
      BY <3>1, <3>4
  <2>5. CASE Answer(t) /\ UNCHANGED lvars
    <3>1. Registry' /\ Linked'
      BY <1>1, <2>1, <2>5, RegistryStays, LinkedStays DEF lvars
    <3>2. Served'
      BY <1>1, <1>2, <2>1, <2>2, <2>5, RequestGoesOn DEF Answer, lvars
    <3>3. QED
      BY <3>1, <3>2
  <2>6. CASE /\ IsLogLevel(request[t].text)
             /\ IF request[t].node[1] = "GeneralLogLevel" THEN SetNonComponentLogLevel(LogLevelFromString(request[t].text))
                ELSE SetComponentLogLevel(GetComponentHandle(request[t].node[2]), LogLevelFromString(request[t].text))
             /\ request' = [request EXCEPT ![t].at = "store"]
    <3>1. PICK level \in Levels : level = LogLevelFromString(request[t].text)
      BY <2>3, <2>6, LevelTexts
    <3>2. Registry' /\ UNCHANGED <<exists, handles>>
      <4>1. CASE SetNonComponentLogLevel(level)
        BY <4>1 DEF SetNonComponentLogLevel, Registry
      <4>2. CASE SetComponentLogLevel(GetComponentHandle(request[t].node[2]), level)
        <5>1. PICK handle : handle = GetComponentHandle(request[t].node[2])
          OBVIOUS
        <5>2. SetComponentLogLevel(handle, level)
          BY <4>2, <5>1
        <5>3. UNCHANGED <<exists, handles>>
          BY <5>2 DEF SetComponentLogLevel
        <5>4. QED
          BY <5>2, <5>3, SetKeepsRegistry
      <4>3. QED
        BY <2>6, <3>1, <4>1, <4>2
    <3>3. Linked'
      BY <1>1, <2>1, <3>2, LinkedStays
    <3>4. PICK next : next = [request[t] EXCEPT !.at = "store"]
      OBVIOUS
    <3>5. request' = [request EXCEPT ![t] = next]
      BY <2>6, <3>4
    <3>6. request[t] \in Writes /\ request[t].node \in Delegating /\ main \in {"serve", "unlink", "stop"} /\ writes # 0
      BY <2>1, RequestFacts
    <3>7. next \in Writes /\ next.node = request[t].node /\ next.text = request[t].text /\ next.at = "store"
      BY <3>4, <3>6, WriteMoves
    <3>8. Served'
      BY <1>1, <1>2, <2>1, <2>2, <2>3, <2>6, <3>2, <3>5, <3>6, <3>7, RequestGoesOn
    <3>9. QED
      BY <3>2, <3>3, <3>8
  <2>7. QED
    BY <1>5, <2>4, <2>5, <2>6 DEF CallDevice
<1>6. CASE StoreValue(t)
  <2>1. UNCHANGED <<lvars, writes>> /\ request[t] # Absent /\ request[t].at = "store" /\ Answer(t)
    BY <1>6 DEF StoreValue
  <2>2. PICK node, text : /\ node = request[t].node /\ text = request[t].text
                          /\ nodes' = WithValue(node, "logLevel", text)
    BY <1>6 DEF StoreValue
  <2>3. text \in DOMAIN Upper
    BY <2>1, <2>2 DEF Served
  <2>4. Registry' /\ Linked' /\ Delegating' = Delegating
    BY <1>1, <2>1, <2>2, <2>3, RegistryStays, ValueKeepsLinks DEF lvars
  <2>5. Served'
    BY <1>1, <1>2, <2>1, <2>4, RequestGoesOn DEF Answer, lvars
  <2>6. QED
    BY <2>4, <2>5
<1>7. QED
  BY <1>3, <1>4, <1>5, <1>6

LEMMA MetaStep == Meta /\ [Next]_vars => Meta'
<1>1. ASSUME Meta, UNCHANGED vars
      PROVE  Meta'
  <2>1. UNCHANGED lvars /\ UNCHANGED mvars
    BY <1>1 DEF vars
  <2>2. Registry' /\ Linked'
    BY <1>1, <2>1, RegistryStays, LinkedStays DEF Meta, mvars, lvars
  <2>3. Delegating' = Delegating /\ (Sane(ComponentConfig)' <=> Sane(ComponentConfig))
    BY <2>1, SaneStays DEF Delegating, mvars, lvars
  <2>4. Served'
    BY <1>1, <2>1, <2>3 DEF Meta, Served, mvars, lvars
  <2>5. QED
    BY <2>2, <2>4 DEF Meta
<1>2. QED
  BY <1>1, MetaLogging, MetaObject, MetaVersion, MetaGeneral, MetaValidate, MetaComponent, MetaEnd, MetaWrite
     DEF Next, Main

(* The registry, the links and the writes under way fit together in every reachable
   state. *)
THEOREM MetaInvariant == Spec => []Meta
BY MetaInit, MetaStep, PTL DEF Spec

(* A handle is one component's for good and a name never stands for two, however
   often components are registered and whenever the list is full
   (LogItInstance.cpp:87-127). *)
THEOREM MetaOneHandlePerName == Spec => []OneHandlePerName
<1>1. Meta => OneHandlePerName
  <2>1. ASSUME Meta, NEW h \in 1..Len(components)
        PROVE  GetComponentHandle(components[h].name) = h
    <3>1. exists
      <4>1. components = <<>> => Len(components) = 0
        OBVIOUS
      <4>2. h \notin 1..0
        OBVIOUS
      <4>3. QED
        BY <2>1, <4>1, <4>2 DEF Meta, Registry
    <3>2. QED
      BY <2>1, <3>1 DEF Meta, Registry, GetComponentHandle, HasHandle
  <2>2. QED
    BY <2>1 DEF Meta, Registry, OneHandlePerName
<1>2. QED
  BY <1>1, MetaInvariant, PTL

(* A node that points to a device is the one the device points to, and when the
   server has stopped no node points to a device any more, whatever was configured
   and however the start ended (meta.cpp:316-330, MetaUtils.h:43-48). *)
THEOREM MetaNothingStaysLinked == Spec => []NothingStaysLinked
<1>1. Meta => NothingStaysLinked
  BY DEF Meta, Linked, NothingStaysLinked
<1>2. QED
  BY <1>1, MetaInvariant, PTL

-----------------------------------------------------------------------------
LEMMA ObjectFacts ==
  ASSUME Meta, NEW h \in 1..Len(components)
  PROVE  /\ ObjectOf(h)[1] = "ComponentLogLevel" /\ ObjectOf(h)[2] = components[h].name
         /\ ObjectOf(h) \in DOMAIN nodes <=> ObjectOf(h) \in Made
         /\ \A g \in 1..Len(components) : ObjectOf(g) = ObjectOf(h) => g = h
<1>1. \A g : ObjectOf(g)[1] = "ComponentLogLevel" /\ ObjectOf(g)[2] = components[g].name
  BY DEF ObjectOf
<1>2. ASSUME NEW g \in 1..Len(components), ObjectOf(g) = ObjectOf(h)
      PROVE  g = h
  <2>1. components[g].name = components[h].name
    BY <1>1, <1>2
  <2>2. handles[components[g].name] = g /\ handles[components[h].name] = h
    BY DEF Meta, Registry
  <2>3. QED
    BY <2>1, <2>2
<1>3. QED
  BY <1>1, <1>2 DEF Made

LEMMA MadeDelegates == Made \subseteq Delegating
BY DEF Made, Delegating

LEMMA AppliedInit == Init => Applied
<1>1. ASSUME Init
      PROVE  Applied
  <2>1. DOMAIN <<>> = {}
    OBVIOUS
  <2>2. main = "initializeLogging" /\ nodes = <<>> /\ general = INF
    BY <1>1 DEF Init, LInit
  <2>3. Delegating = {}
    BY <2>1, <2>2 DEF Delegating
  <2>4. DOMAIN nodes = {}
    BY <2>1, <2>2
  <2>5. QED
    BY <2>2, <2>3, <2>4 DEF Applied, Early, Late
<1>2. QED
  BY <1>1

(* The configuration goes on while objects and levels of components stay. *)
LEMMA AppliedGoesOn ==
  ASSUME Meta, Applied, UNCHANGED <<general, components, config, writes>>, Made' = Made,
         main' \in Early <=> main \in Early, main \in Early => Delegating' = {},
         main' \in {"validate", "ComponentLogLevels"} => main \in {"validate", "ComponentLogLevels"},
         main' # "ComponentLogLevel", main' \in Late => main \in Late
  PROVE  Applied'
<1>1. \A h \in 1..Len(components) : /\ ObjectOf(h)' = ObjectOf(h)
                                    /\ ObjectOf(h) \in DOMAIN nodes' <=> ObjectOf(h) \in DOMAIN nodes
  <2>1. \A h : ObjectOf(h)' = ObjectOf(h)
    BY DEF ObjectOf
  <2>2. ASSUME NEW h \in 1..Len(components)
        PROVE  ObjectOf(h) \in DOMAIN nodes' <=> ObjectOf(h) \in DOMAIN nodes
    <3>1. PICK node : node = ObjectOf(h) /\ node[1] = "ComponentLogLevel"
      BY ObjectFacts
    <3>2. node \in DOMAIN nodes <=> node \in Made
      BY <3>1 DEF Made
    <3>3. node \in DOMAIN nodes' <=> node \in Made'
      BY <3>1 DEF Made
    <3>4. QED
      BY <3>1, <3>2, <3>3
  <2>3. QED
    BY <2>1, <2>2
<1>2. Given' = Given /\ ComponentConfig' = ComponentConfig
  BY DEF Given, ComponentConfig
<1>3. \A h \in 1..Len(components), i \in DOMAIN ComponentConfig :
        writes = 0 /\ ObjectOf(h) \in DOMAIN nodes' /\ ComponentConfig[i].name = components[h].name
          => components[h].level = LogLevelFromString(ComponentConfig[i].level)
  BY <1>1 DEF Applied
<1>4. main' \in Late => \A h \in 1..Len(components) : ObjectOf(h) \in DOMAIN nodes'
  BY <1>1 DEF Applied
<1>5. (main' \in Early => general = INF) /\ (writes = 0 /\ main' \notin Early => general = Given)
  BY DEF Applied
<1>6. main' \in {"validate", "ComponentLogLevels"} => Made' = {}
  BY DEF Applied
<1>7. QED
  BY <1>1, <1>2, <1>3, <1>4, <1>5, <1>6 DEF Applied

(* Before there is an object of a component. *)
LEMMA AppliedBefore ==
  ASSUME Made' = {}, main' \notin {"ComponentLogLevel"} \cup Late, main' \in Early => Delegating' = {} /\ general' = INF,
         writes' = 0 /\ main' \notin Early => general' = Given'
  PROVE  Applied'
<1>1. \A h : ObjectOf(h)' \notin DOMAIN nodes'
  <2>1. ASSUME NEW h, ObjectOf(h)' \in DOMAIN nodes'
        PROVE  FALSE
    <3>1. PICK node : node = ObjectOf(h)' /\ node[1] = "ComponentLogLevel"
      <4>1. ObjectOf(h)'[1] = "ComponentLogLevel"
        BY DEF ObjectOf
      <4>2. QED
        BY <4>1
    <3>2. node \in Made'
      BY <2>1, <3>1 DEF Made
    <3>3. QED
      BY <3>2
  <2>2. QED
    BY <2>1
<1>2. QED
  BY <1>1 DEF Applied

(* What Add() does to the objects of the components. *)
LEMMA AddMakes ==
  ASSUME NEW node, NEW class, Add(node, class)
  PROVE  /\ node[1] # "ComponentLogLevel" => Made' = Made
         /\ node[1] \notin {"GeneralLogLevel", "ComponentLogLevel"} => Delegating' = Delegating
         /\ node[1] = "ComponentLogLevel" => Made' = Made \/ Made' = Made \cup {node}
         /\ DOMAIN nodes' \subseteq DOMAIN nodes \cup {node} /\ DOMAIN nodes \subseteq DOMAIN nodes'
<1>1. DOMAIN nodes' = DOMAIN nodes \/ DOMAIN nodes' = DOMAIN nodes \cup {node}
  BY DEF Add, WithNode
<1>2. QED
  BY <1>1 DEF Made, Delegating

LEMMA AppliedLogging ==
  ASSUME Meta, Applied, InitializeLogIt \/ Register
  PROVE  Applied'
<1>1. UNCHANGED nodes /\ main \in Early /\ main' \in Early
  BY DEF InitializeLogIt, Register, Done, Program, Early
<1>2. general' = INF
  BY <1>1 DEF InitializeLogIt, Register, InitializeLogging, RegisterLoggingComponent, lvars, Applied
<1>3. Delegating' = {} /\ Made' = {}
  BY <1>1 DEF Applied, Delegating, Made
<1>4. main' \notin {"ComponentLogLevel"} \cup Late
  BY <1>1 DEF Early, Late
<1>5. QED
  BY <1>1, <1>2, <1>3, <1>4, AppliedBefore

LEMMA ObjectSteps ==
  /\ Program["StandardMetaData"] = "Log" /\ Program["Log"] = "GeneralLogLevel"
  /\ Program["SourceVariableThreadPool"] = "Quasar" /\ Program["Quasar"] = "version"
  /\ Program["Server"] = "BuildInformation" /\ Program["BuildInformation"] = "serve"
BY DEF Program

LEMMA AppliedObject ==
  ASSUME Meta, Applied, ConfigureObject
  PROVE  Applied'
<1>1. UNCHANGED lvars /\ UNCHANGED <<config, writes>>
  BY DEF ConfigureObject, Add, Others
<1>2. /\ main \in {"StandardMetaData", "Log", "ComponentLogLevels", "SourceVariableThreadPool", "Quasar", "Server", "BuildInformation"}
      /\ main' = Program[main] /\ \E class : Add(<<main, "">>, class)
  BY DEF ConfigureObject, Done, Node
<1>3. PICK node, class : node = <<main, "">> /\ node[1] = main /\ Add(node, class)
  <2>1. <<main, "">>[1] = main
    OBVIOUS
  <2>2. QED
    BY <1>2, <2>1
<1>4. Made' = Made /\ Delegating' = Delegating
  BY <1>2, <1>3, AddMakes
<1>5. CASE main # "ComponentLogLevels"
  <2>1. /\ main' \in Early <=> main \in Early
        /\ main' \notin {"validate", "ComponentLogLevels", "ComponentLogLevel"}
        /\ main' \in Late => main \in Late
    <3>1. CASE main \in {"StandardMetaData", "Log"}
      <4>1. main' \in {"Log", "GeneralLogLevel"}
        BY <1>2, <3>1, ObjectSteps
      <4>2. QED
        BY <3>1, <4>1 DEF Early, Late
    <3>2. CASE main \in {"SourceVariableThreadPool", "Quasar", "Server", "BuildInformation"}
      <4>1. main' \in {"Quasar", "version", "BuildInformation", "serve"}
        BY <1>2, <3>2, ObjectSteps
      <4>2. QED
        BY <3>2, <4>1 DEF Early, Late
    <3>3. QED
      BY <1>2, <1>5, <3>1, <3>2
  <2>2. main \in Early => Delegating' = {}
    BY <1>4 DEF Applied
  <2>3. UNCHANGED <<general, components, config, writes>>
    BY <1>1 DEF lvars
  <2>4. QED
    BY <1>4, <2>1, <2>2, <2>3, AppliedGoesOn
<1>6. CASE main = "ComponentLogLevels"
  <2>1. main' = "ComponentLogLevel" /\ Made' = {} /\ main \notin Early
    BY <1>2, <1>4, <1>6 DEF Program, Applied, Early
  <2>2. IsFiniteSet({}) /\ Cardinality({}) = 0
    BY FS_EmptySet
  <2>3. Counted(0)'
    <3>1. {ObjectOf(h)' : h \in 1..0} = {}
      OBVIOUS
    <3>2. QED
      BY <2>1, <2>2, <3>1 DEF Counted
  <2>4. 0 \in 0..Len(components')
    BY <1>1 DEF Meta, Registry, lvars
  <2>5. \A h \in 1..Len(components) : ObjectOf(h)' \notin DOMAIN nodes'
    <3>1. ASSUME NEW h \in 1..Len(components)
          PROVE  ObjectOf(h)' \notin DOMAIN nodes'
      <4>1. PICK object : object = ObjectOf(h)' /\ object[1] = "ComponentLogLevel"
        <5>1. ObjectOf(h)'[1] = "ComponentLogLevel"
          BY DEF ObjectOf
        <5>2. QED
          BY <5>1
      <4>2. QED
        BY <2>1, <4>1 DEF Made
    <3>2. QED
      BY <3>1
  <2>6. Given' = Given /\ UNCHANGED <<general, components>>
    BY <1>1 DEF Given, lvars
  <2>7. writes' = 0 => general' = Given'
    BY <1>1, <2>1, <2>6 DEF Applied
  <2>8. QED
    BY <2>1, <2>3, <2>4, <2>5, <2>6, <2>7 DEF Applied, Early, Late
<1>7. QED
  BY <1>5, <1>6

LEMMA AppliedVersion ==
  ASSUME Meta, Applied, UpdateVersion
  PROVE  Applied'
<1>1. /\ main = "version" /\ main' = "Server" /\ UNCHANGED lvars /\ UNCHANGED <<config, writes>>
      /\ DOMAIN nodes' = DOMAIN nodes
  BY DEF UpdateVersion, Done, Program, WithValue
<1>2. Made' = Made /\ UNCHANGED <<general, components, config, writes>>
  BY <1>1 DEF Made, lvars
<1>3. QED
  BY <1>1, <1>2, AppliedGoesOn DEF Early, Late

LEMMA AppliedGeneral ==
  ASSUME Meta, Applied, ConfigureGeneralLogLevel
  PROVE  Applied'
<1>1. /\ main = "GeneralLogLevel" /\ main' = "validate" /\ main \in Early /\ main' \notin Early
      /\ UNCHANGED <<config, writes, exists>> /\ exists
      /\ general' = IF exists THEN LogLevelFromString(GeneralLogLevelFromConfig) ELSE general
  BY DEF ConfigureGeneralLogLevel, Done, Program, Add, Others, SetNonComponentLogLevel, Early, Meta, Served
<1>2. general' = Given /\ Given' = Given
  <2>1. general = INF
    BY <1>1 DEF Applied
  <2>2. QED
    BY <1>1, <2>1, GeneralGiven DEF Given, Meta
<1>3. Made = {}
  BY <1>1, MadeDelegates DEF Applied
<1>4. Made' = Made
  <2>1. PICK node, class : node = <<"GeneralLogLevel", "">> /\ node[1] = "GeneralLogLevel" /\ Add(node, class)
    <3>1. <<"GeneralLogLevel", "">>[1] = "GeneralLogLevel"
      OBVIOUS
    <3>2. \E class : Add(<<"GeneralLogLevel", "">>, class)
      BY DEF ConfigureGeneralLogLevel, Node
    <3>3. QED
      BY <3>1, <3>2
  <2>2. QED
    BY <2>1, AddMakes
<1>5. QED
  BY <1>1, <1>2, <1>3, <1>4, AppliedBefore DEF Late

LEMMA AppliedValidate ==
  ASSUME Meta, Applied, ValidateComponentLogLevels
  PROVE  Applied'
<1>1. /\ main = "validate" /\ main' \in {"ComponentLogLevels", "unlink"} /\ UNCHANGED lvars
      /\ UNCHANGED <<config, nodes, writes>>
  BY DEF ValidateComponentLogLevels, Done, Program, Shutdown
<1>2. Made' = Made /\ UNCHANGED <<general, components, config, writes>>
  BY <1>1 DEF Made, lvars
<1>3. QED
  BY <1>1, <1>2, AppliedGoesOn DEF Early, Late

LEMMA AppliedEnd ==
  ASSUME Meta, Applied, EndLoop \/ DestroyMeta \/ Stop
  PROVE  Applied'
<1>1. /\ UNCHANGED lvars /\ UNCHANGED <<config, writes>> /\ DOMAIN nodes' = DOMAIN nodes
      /\ main \in {"serve", "unlink", "stop"} /\ main' \in {"unlink", "stop", "stopped"}
  <2>1. CASE EndLoop
    BY <2>1 DEF EndLoop, Shutdown
  <2>2. CASE Stop
    BY <2>2 DEF Stop, Done, Program
  <2>3. CASE DestroyMeta
    <3>1. PICK class : \/ Done /\ UNCHANGED nodes
                       \/ (\E n \in LinkedOf(class) : UnlinkDevice(n)) /\ UNCHANGED main
      BY <2>3 DEF DestroyMeta
    <3>2. main = "unlink" /\ UNCHANGED lvars /\ UNCHANGED <<config, writes>>
      BY <2>3 DEF DestroyMeta
    <3>3. QED
      BY <3>1, <3>2 DEF Done, Program, UnlinkDevice
  <2>4. QED
    BY <2>1, <2>2, <2>3
<1>2. Made' = Made /\ UNCHANGED <<general, components, config, writes>>
  BY <1>1 DEF Made, lvars
<1>3. QED
  BY <1>1, <1>2, AppliedGoesOn DEF Early, Late

(* A component's object gets the next handle's name and the level it is given. *)
LEMMA AppliedComponent ==
  ASSUME Meta, Applied, ConfigureComponentLogLevel
  PROVE  Applied'
<1>1. /\ main = "ComponentLogLevel" /\ exists /\ ~ threw /\ Sane(ComponentConfig)
      /\ UNCHANGED <<config, unregistered, threw, request, writes>>
  BY ComponentStep
<1>2. PICK k \in 0..Len(components) : Counted(k)
  BY <1>1 DEF Applied
<1>3. PICK n \in Nat : n = Len(components)
  BY DEF Meta, Registry
<1>4. k \in Nat /\ k <= n
  BY <1>2, <1>3
<1>5. writes = 0 => general = Given
  BY <1>1 DEF Applied, Early
<1>6. CASE /\ main' = "SourceVariableThreadPool" /\ UNCHANGED <<lvars, nodes, devices, crashed>>
           /\ (Cardinality(Made) + 1) \notin 1..Len(components)
  <2>1. k = n
    <3>1. (k + 1) \notin 1..n
      BY <1>2, <1>3, <1>6 DEF Counted
    <3>2. QED
      BY <1>4, <3>1
  <2>2. \A h \in 1..Len(components) : ObjectOf(h) \in DOMAIN nodes
    BY <1>2, <1>3, <2>1 DEF Counted, Made
  <2>3. /\ \A h : ObjectOf(h)' = ObjectOf(h)
        /\ Given' = Given /\ ComponentConfig' = ComponentConfig /\ UNCHANGED <<general, components>>
    BY <1>1, <1>6 DEF ObjectOf, Given, ComponentConfig, lvars
  <2>4. QED
    BY <1>1, <1>5, <1>6, <2>2, <2>3 DEF Applied, Early, Late
<1>7. ASSUME main' = main, NEW h \in 1..Len(components), NEW node, NEW class,
             h = Cardinality(Made) + 1, node = ObjectOf(h), Add(node, class),
             node[1] = "ComponentLogLevel", node[2] = components[h].name,
             SetComponentLogLevel(h, LogLevelFromString(ComponentLogLevelFromConfig(h)))
      PROVE  Applied'
  <2>1. PICK level \in Levels : level = LogLevelFromString(ComponentLogLevelFromConfig(h))
    BY <1>1, ComponentGiven DEF Meta
  <2>2. SetComponentLogLevel(h, level)
    BY <1>7, <2>1
  <2>3. /\ general' = general /\ Len(components') = n
        /\ \A g \in 1..n : /\ components'[g].name = components[g].name
                           /\ g # h => components'[g].level = components[g].level
        /\ components'[h].level = level
    BY <1>1, <1>3, <2>2, SetKeepsRegistry DEF Meta
  <2>4. \A g \in 1..n : ObjectOf(g)' = ObjectOf(g)
    BY <2>3 DEF ObjectOf
  <2>5. h = k + 1 /\ h \in 1..n
    BY <1>2, <1>3, <1>7 DEF Counted
  <2>6. node \notin Made
    <3>1. ASSUME NEW g \in 1..k, node = ObjectOf(g)
          PROVE  FALSE
      <4>1. g \in 1..n /\ g # h
        BY <1>4, <2>5
      <4>2. QED
        BY <1>3, <1>7, <3>1, <4>1, ObjectFacts
    <3>2. QED
      BY <1>2, <3>1 DEF Counted
  <2>7. \E j \in 0..Len(components') : Counted(j)'
    <3>1. \A j \in 1..n : ObjectOf(j)' = ObjectOf(j)
      BY <2>4
    <3>2. CASE Made' = Made
      <4>1. {ObjectOf(g)' : g \in 1..k} = {ObjectOf(g) : g \in 1..k}
        BY <1>4, <3>1
      <4>2. Counted(k)'
        BY <1>2, <3>2, <4>1 DEF Counted
      <4>3. QED
        BY <1>4, <2>3, <4>2
    <3>3. CASE Made' = Made \cup {node}
      <4>1. IsFiniteSet(Made') /\ Cardinality(Made') = k + 1
        BY <1>2, <2>6, <3>3, FS_AddElement DEF Counted
      <4>2. {ObjectOf(g)' : g \in 1..(k + 1)} = {ObjectOf(g) : g \in 1..k} \cup {node}
        <5>1. 1..(k + 1) = (1..k) \cup {h}
          BY <1>4, <2>5
        <5>2. \A g \in 1..(k + 1) : ObjectOf(g)' = ObjectOf(g)
          BY <1>4, <2>5, <3>1
        <5>3. QED
          BY <1>7, <5>1, <5>2
      <4>3. Counted(k + 1)'
        BY <1>2, <3>3, <4>1, <4>2 DEF Counted
      <4>4. QED
        BY <1>4, <2>3, <2>5, <4>3
    <3>4. QED
      BY <1>7, <3>2, <3>3, AddMakes
  <2>8. ASSUME writes = 0, NEW g \in 1..n, NEW i \in DOMAIN ComponentConfig,
               ObjectOf(g) \in DOMAIN nodes', ComponentConfig[i].name = components[g].name
        PROVE  components'[g].level = LogLevelFromString(ComponentConfig[i].level)
    <3>1. CASE g = h
      <4>1. ComponentLogLevelFromConfig(h) = ComponentConfig[i].level
        BY <1>1, <2>8, <3>1, ComponentGiven DEF Meta
      <4>2. QED
        BY <2>1, <2>3, <3>1, <4>1
    <3>2. CASE g # h
      <4>1. ObjectOf(g) # node
        BY <1>3, <1>7, <3>2, ObjectFacts
      <4>2. ObjectOf(g) \in DOMAIN nodes
        BY <1>7, <2>8, <4>1, AddMakes
      <4>3. QED
        BY <1>3, <2>3, <2>8, <3>2, <4>2 DEF Applied
    <3>3. QED
      BY <3>1, <3>2
  <2>9. Given' = Given /\ ComponentConfig' = ComponentConfig
    BY <1>1 DEF Given, ComponentConfig
  <2>10. QED
    BY <1>1, <1>5, <1>7, <2>3, <2>4, <2>7, <2>8, <2>9 DEF Applied, Early, Late
<1>8. QED
  BY <1>6, <1>7, ComponentStep

(* Writes change levels, and no more. *)
LEMMA AppliedWrite ==
  ASSUME Meta, Applied, NEW t \in Threads, BeginWrite(t) \/ TestWrite(t) \/ CallDevice(t) \/ StoreValue(t)
  PROVE  Applied'
<1>1. main' = main /\ main \in {"serve", "unlink", "stop"} /\ writes' # 0 /\ DOMAIN nodes' = DOMAIN nodes
  <2>1. CASE BeginWrite(t)
    BY <2>1 DEF BeginWrite, Serving, Meta, Served
  <2>2. CASE TestWrite(t)
    BY <2>2, RequestFacts DEF TestWrite
  <2>3. CASE CallDevice(t)
    BY <2>3, RequestFacts DEF CallDevice
  <2>4. CASE StoreValue(t)
    BY <2>4, RequestFacts DEF StoreValue, WithValue
  <2>5. QED
    BY <2>1, <2>2, <2>3, <2>4
<1>2. /\ Len(components') = Len(components)
      /\ \A h \in 1..Len(components) : components'[h].name = components[h].name
  <2>1. CASE components' = components
    BY <2>1
  <2>2. ASSUME CallDevice(t), components' # components
        PROVE  /\ Len(components') = Len(components)
               /\ \A h \in 1..Len(components) : components'[h].name = components[h].name
    <3>1. /\ request[t] # Absent /\ request[t].at = "call" /\ IsLogLevel(request[t].text)
          /\ SetComponentLogLevel(GetComponentHandle(request[t].node[2]), LogLevelFromString(request[t].text))
      BY <2>2 DEF CallDevice, SetNonComponentLogLevel, lvars
    <3>2. LogLevelFromString(request[t].text) \in Levels
      BY <3>1, LevelTexts DEF Meta, Served
    <3>3. PICK handle, level : /\ level \in Levels /\ SetComponentLogLevel(handle, level)
      BY <3>1, <3>2
    <3>4. QED
      BY <3>3, SetKeepsRegistry DEF Meta
  <2>3. QED
    BY <2>1, <2>2 DEF BeginWrite, TestWrite, StoreValue, lvars
<1>3. \A h \in 1..Len(components) : ObjectOf(h)' = ObjectOf(h)
  BY <1>2 DEF ObjectOf
<1>4. QED
  BY <1>1, <1>2, <1>3 DEF Applied, Early, Late

LEMMA AppliedStep == Meta /\ Applied /\ [Next]_vars => Applied'
<1>1. ASSUME Meta, Applied, UNCHANGED vars
      PROVE  Applied'
  <2>1. UNCHANGED <<general, components, config, writes, nodes, main>>
    BY <1>1 DEF vars, lvars, mvars
  <2>2. Made' = Made /\ Delegating' = Delegating
    BY <2>1 DEF Made, Delegating
  <2>3. CASE main # "ComponentLogLevel"
    BY <1>1, <2>1, <2>2, <2>3, AppliedGoesOn DEF Applied
  <2>4. CASE main = "ComponentLogLevel"
    <3>1. /\ \A h : ObjectOf(h)' = ObjectOf(h)
          /\ Given' = Given /\ ComponentConfig' = ComponentConfig
      BY <2>1 DEF ObjectOf, Given, ComponentConfig
    <3>2. PICK k \in 0..Len(components) : Counted(k)
      BY <1>1, <2>4 DEF Applied
    <3>3. Counted(k)'
      BY <2>2, <3>1, <3>2 DEF Counted
    <3>4. QED
      BY <1>1, <2>1, <2>4, <3>1, <3>2, <3>3 DEF Applied, Early, Late
  <2>5. QED
    BY <2>3, <2>4
<1>2. QED
  BY <1>1, AppliedLogging, AppliedObject, AppliedVersion, AppliedGeneral, AppliedValidate, AppliedComponent,
     AppliedEnd, AppliedWrite DEF Next, Main

(* A server that serves has the levels its configuration gives, and an object for
   every component: a configuration that names an unknown component, or one twice,
   never gets that far (meta.cpp:77-131). *)
THEOREM MetaSaneLevelsApply == Spec => []SaneLevelsApply
<1>1. ASSUME Meta, Applied, main = "serve", writes = 0
      PROVE  SaneLevelsApply
  <2>1. exists /\ ~ threw /\ main \in Late /\ main \notin Early \cup {"validate"} /\ Sane(ComponentConfig)
    BY <1>1 DEF Meta, Served, Early, Late
  <2>2. \A h \in 1..Len(components) : ObjectOf(h) \in DOMAIN nodes
    BY <1>1, <2>1 DEF Applied
  <2>3. ASSUME NEW i \in DOMAIN ComponentConfig, NEW level \in Levels
        PROVE  IsLoggable(level, ComponentConfig[i].name) <=> level >= LogLevelFromString(ComponentConfig[i].level)
    <3>1. PICK name : name = ComponentConfig[i].name
      OBVIOUS
    <3>2. name \in DOMAIN handles /\ GetComponentHandle(name) = handles[name]
      BY <2>1, <3>1 DEF Sane, GetComponentHandle, HasHandle
    <3>3. PICK h \in 1..Len(components) : h = handles[name] /\ components[h].name = name
      BY <1>1, <3>2 DEF Meta, Registry
    <3>4. components[h].level = LogLevelFromString(ComponentConfig[i].level)
      BY <1>1, <2>2, <3>1, <3>3 DEF Applied
    <3>5. h # InvalidHandle /\ HasAttributes(h)
      BY <1>1, <2>1 DEF InvalidHandle, HasAttributes, Meta, Registry
    <3>6. IsLoggable(level, name) <=> level >= components[h].level
      BY <3>2, <3>3, <3>5 DEF IsLoggable, IsHandleLoggable, GetComponentLogLevel
    <3>7. QED
      BY <3>1, <3>4, <3>6
  <2>4. ASSUME NEW name \in DOMAIN handles
        PROVE  Node("ComponentLogLevel", name) \in DOMAIN nodes
    <3>1. PICK h \in 1..Len(components) : components[h].name = name
      BY <1>1 DEF Meta, Registry
    <3>2. QED
      BY <2>2, <3>1 DEF Node, ObjectOf
  <2>5. general = IF config.general = Absent THEN INF ELSE LogLevelFromString(config.general)
    BY <1>1, <2>1 DEF Applied, Given
  <2>6. ASSUME NEW level \in Levels
        PROVE  IsGenerallyLoggable(level) <=>
                 level >= IF config.general = Absent THEN INF ELSE LogLevelFromString(config.general)
    BY <2>1, <2>5 DEF IsGenerallyLoggable
  <2>7. QED
    BY <2>3, <2>4, <2>6 DEF SaneLevelsApply
<1>2. Meta /\ Applied => SaneLevelsApply
  BY <1>1 DEF SaneLevelsApply
<1>3. QED
  BY <1>2, AppliedInit, AppliedStep, MetaInvariant, PTL DEF Spec

-----------------------------------------------------------------------------
(* What the writes of one thread do to the levels and to what is shown. *)
OneWriter == \A t, u \in Threads : t = u

(* An object stands for the general level, or for the component of a handle. *)
LEMMA DelegatingFacts ==
  ASSUME Meta, NEW n \in Delegating
  PROVE  \/ n = <<"GeneralLogLevel", "">> /\ n[1] = "GeneralLogLevel" /\ n[2] = "" /\ InUse(n) = general
         \/ \E g \in 1..Len(components) :
              /\ n = ObjectOf(g) /\ n[1] = "ComponentLogLevel" /\ n[2] = components[g].name
              /\ n[2] \in DOMAIN handles /\ handles[n[2]] = g /\ InUse(n) = components[g].level
<1>1. CASE n = <<"GeneralLogLevel", "">>
  <2>1. <<"GeneralLogLevel", "">>[1] = "GeneralLogLevel" /\ <<"GeneralLogLevel", "">>[2] = ""
    OBVIOUS
  <2>2. n[1] = "GeneralLogLevel" /\ n[2] = ""
    BY <1>1, <2>1
  <2>3. QED
    BY <1>1, <2>2 DEF InUse
<1>2. CASE n # <<"GeneralLogLevel", "">>
  <2>1. PICK name \in DOMAIN handles : n = <<"ComponentLogLevel", name>>
    BY <1>2 DEF Meta, Linked
  <2>2. n[1] = "ComponentLogLevel" /\ n[2] = name
    BY <2>1
  <2>3. PICK g \in 1..Len(components) : g = handles[name] /\ components[g].name = name
    BY DEF Meta, Registry
  <2>4. n = ObjectOf(g) /\ InUse(n) = components[g].level
    BY <2>1, <2>2, <2>3 DEF ObjectOf, InUse
  <2>5. QED
    BY <2>1, <2>2, <2>3, <2>4
<1>3. QED
  BY <1>1, <1>2

LEMMA ShownStays ==
  ASSUME Shown, UNCHANGED <<general, components, handles>>, Delegating' \subseteq Delegating,
         \A n \in Delegating : nodes'[n].shows.logLevel = nodes[n].shows.logLevel,
         \A t \in Threads, n \in Delegating : Storing(t, n)' <=> Storing(t, n),
         \A t \in Threads, n \in Delegating : Storing(t, n) => request'[t].text = request[t].text
  PROVE  Shown'
<1>1. \A n : InUse(n)' = InUse(n)
  BY DEF InUse
<1>2. SUFFICES ASSUME NEW n \in Delegating'
               PROVE  /\ (\A t \in Threads : ~ Storing(t, n)') =>
                           /\ IsLogLevel(nodes'[n].shows.logLevel)
                           /\ InUse(n)' = LogLevelFromString(nodes'[n].shows.logLevel)
                      /\ \A t \in Threads : Storing(t, n)' => InUse(n)' = LogLevelFromString(request'[t].text)
  BY DEF Shown
<1>3. n \in Delegating
  BY <1>2
<1>4. QED
  BY <1>1, <1>3 DEF Shown

(* Before the server serves, and when it is on its way out, nothing is stored. *)
LEMMA NoStoring ==
  ASSUME Meta, main \notin {"serve", "unlink", "stop"} \/ (\A t \in Threads : request[t] = Absent)
  PROVE  \A t \in Threads : \A n : ~ Storing(t, n)
BY DEF Meta, Served, Storing

LEMMA ShownInit == Init => Shown
<1>1. SUFFICES ASSUME Init PROVE Shown
  OBVIOUS
<1>2. DOMAIN <<>> = {}
  OBVIOUS
<1>3. Delegating = {}
  BY <1>1, <1>2 DEF Init, Delegating
<1>4. QED
  BY <1>3 DEF Shown

(* Steps that leave the levels and what is shown alone. *)
LEMMA ShownQuiet ==
  ASSUME Meta, Applied, Shown,
         InitializeLogIt \/ Register \/ UpdateVersion \/ ValidateComponentLogLevels \/ EndLoop \/ DestroyMeta \/ Stop
  PROVE  Shown'
<1>1. CASE InitializeLogIt \/ Register
  <2>1. UNCHANGED nodes /\ main \in Early
    BY <1>1 DEF InitializeLogIt, Register, Early
  <2>2. Delegating' = {}
    BY <2>1 DEF Applied, Delegating
  <2>3. QED
    BY <2>2 DEF Shown
<1>2. CASE ValidateComponentLogLevels \/ EndLoop \/ Stop
  <2>1. UNCHANGED lvars /\ UNCHANGED <<nodes, request>>
    BY <1>2 DEF ValidateComponentLogLevels, EndLoop, Stop
  <2>2. Delegating' = Delegating /\ \A t, n : Storing(t, n)' <=> Storing(t, n)
    BY <2>1 DEF Delegating, Storing
  <2>3. QED
    BY <2>1, <2>2, ShownStays DEF lvars
<1>3. CASE UpdateVersion
  <2>1. UNCHANGED lvars /\ UNCHANGED <<request, devices>> /\ main' = "Server"
    BY <1>3 DEF UpdateVersion, Done, Program
  <2>2. \A t, n : Storing(t, n)' <=> Storing(t, n)
    BY <2>1 DEF Storing
  <2>3. CASE UNCHANGED nodes
    <3>1. Delegating' = Delegating
      BY <2>3 DEF Delegating
    <3>2. QED
      BY <2>1, <2>2, <2>3, <3>1, ShownStays DEF lvars
  <2>4. CASE ~ UNCHANGED nodes
    <3>1. PICK link, value : nodes' = WithValue(link, "version", value)
      BY <1>3, <2>4 DEF UpdateVersion
    <3>2. Delegating' = Delegating /\ \A n \in Delegating : nodes'[n].shows.logLevel = nodes[n].shows.logLevel
      BY <2>1, <3>1, ValueKeepsLinks DEF Meta, lvars
    <3>3. QED
      BY <2>1, <2>2, <3>2, ShownStays DEF lvars
  <2>5. QED
    BY <2>3, <2>4
<1>4. CASE DestroyMeta
  <2>1. UNCHANGED lvars /\ UNCHANGED request
    BY <1>4 DEF DestroyMeta
  <2>2. PICK class : UNCHANGED nodes \/ \E n \in LinkedOf(class) : UnlinkDevice(n)
    BY <1>4 DEF DestroyMeta
  <2>3. DOMAIN nodes' = DOMAIN nodes /\ \A n \in DOMAIN nodes : nodes'[n].shows = nodes[n].shows
    <3>1. CASE UNCHANGED nodes
      BY <3>1
    <3>2. ASSUME NEW node \in LinkedOf(class), UnlinkDevice(node)
          PROVE  DOMAIN nodes' = DOMAIN nodes /\ \A n \in DOMAIN nodes : nodes'[n].shows = nodes[n].shows
      <4>1. node \in DOMAIN nodes
        BY DEF LinkedOf, FindAllObjects
      <4>2. PICK shows, link : shows = nodes[node].shows /\ link = nodes[node].toDevice
        OBVIOUS
      <4>3. nodes[node] = [shows |-> shows, toDevice |-> link]
        BY <4>1, <4>2 DEF Meta, Linked
      <4>4. [nodes[node] EXCEPT !.toDevice = FALSE].shows = nodes[node].shows
        BY <4>2, <4>3
      <4>5. QED
        BY <3>2, <4>1, <4>4 DEF UnlinkDevice
    <3>3. QED
      BY <2>2, <3>1, <3>2
  <2>4. Delegating' = Delegating /\ \A t, n : Storing(t, n)' <=> Storing(t, n)
    BY <2>1, <2>3 DEF Delegating, Storing
  <2>5. \A n \in Delegating : nodes'[n].shows.logLevel = nodes[n].shows.logLevel
    BY <2>3 DEF Delegating
  <2>6. QED
    BY <2>1, <2>4, <2>5, ShownStays DEF lvars
<1>5. QED
  BY <1>1, <1>2, <1>3, <1>4

(* A node that is added shows what its class gives; the others keep what they show. *)
LEMMA AddShows ==
  ASSUME Meta, NEW node, NEW class, Add(node, class), UNCHANGED handles
  PROVE  /\ Delegating' \subseteq Delegating \cup {node}
         /\ \A n \in Delegating : n \in Delegating' /\ nodes'[n].shows.logLevel = nodes[n].shows.logLevel
         /\ node \in Delegating' /\ node \notin Delegating => nodes'[node].shows = class.shows
<1>1. CASE nodes' = nodes
  <2>1. Delegating' = Delegating
    BY <1>1 DEF Delegating
  <2>2. QED
    BY <1>1, <2>1
<1>2. CASE CanAdd(node, class) /\ nodes' = WithNode(node, class)
  <2>1. node \notin DOMAIN nodes
    BY <1>2 DEF CanAdd
  <2>2. DOMAIN nodes' = DOMAIN nodes \cup {node} /\ nodes'[node] = LinkDevice(class)
        /\ \A n \in DOMAIN nodes : nodes'[n] = nodes[n]
    BY <1>2, <2>1 DEF WithNode
  <2>3. nodes'[node].shows = class.shows
    BY <2>2 DEF LinkDevice
  <2>4. QED
    BY <2>2, <2>3 DEF Delegating
<1>3. QED
  BY <1>1, <1>2 DEF Add

LEMMA ShownObject ==
  ASSUME Meta, Applied, Shown, ConfigureObject
  PROVE  Shown'
<1>1. UNCHANGED lvars /\ UNCHANGED request
  BY DEF ConfigureObject, Add, Others
<1>2. PICK node, class : Add(node, class) /\ node[1] \notin {"GeneralLogLevel", "ComponentLogLevel"}
  <2>1. /\ Node("StandardMetaData", "")[1] = "StandardMetaData" /\ Node("Log", "")[1] = "Log"
        /\ Node("ComponentLogLevels", "")[1] = "ComponentLogLevels"
        /\ Node("SourceVariableThreadPool", "")[1] = "SourceVariableThreadPool"
        /\ Node("Quasar", "")[1] = "Quasar" /\ Node("Server", "")[1] = "Server"
        /\ Node("BuildInformation", "")[1] = "BuildInformation"
    BY DEF Node
  <2>2. \E node, class : Add(node, class) /\ node \in {Node("StandardMetaData", ""), Node("Log", ""),
          Node("ComponentLogLevels", ""), Node("SourceVariableThreadPool", ""), Node("Quasar", ""), Node("Server", ""),
          Node("BuildInformation", "")}
    BY DEF ConfigureObject
  <2>3. QED
    BY <2>1, <2>2
<1>3. Delegating' = Delegating
  BY <1>2, AddMakes
<1>4. \A n \in Delegating : nodes'[n].shows.logLevel = nodes[n].shows.logLevel
  BY <1>1, <1>2, AddShows DEF lvars
<1>5. \A t, n : Storing(t, n)' <=> Storing(t, n)
  BY <1>1 DEF Storing
<1>6. QED
  BY <1>1, <1>3, <1>4, <1>5, ShownStays DEF lvars

(* The general level is set to what its new object shows. *)
LEMMA ShownGeneral ==
  ASSUME Meta, Applied, Shown, ConfigureGeneralLogLevel
  PROVE  Shown'
<1> DEFINE text == GeneralLogLevelFromConfig
<1>1. /\ main = "GeneralLogLevel" /\ exists /\ UNCHANGED <<components, handles, request>>
      /\ general' = IF exists THEN LogLevelFromString(text) ELSE general
  BY DEF ConfigureGeneralLogLevel, Add, Others, SetNonComponentLogLevel, Meta, Served
<1>2. Delegating = {}
  BY <1>1 DEF Applied, Early
<1>3. PICK node, class : /\ node = <<"GeneralLogLevel", "">> /\ node[1] = "GeneralLogLevel" /\ Add(node, class)
                         /\ class.shows = [logLevel |-> text]
  <2>1. <<"GeneralLogLevel", "">>[1] = "GeneralLogLevel"
    OBVIOUS
  <2>2. ASGeneralLogLevel(text).shows = [logLevel |-> text]
    BY DEF ASGeneralLogLevel
  <2>3. QED
    BY <2>1, <2>2 DEF ConfigureGeneralLogLevel, Node
<1>4. ASSUME NEW n \in Delegating'
      PROVE  n = node /\ nodes'[n].shows.logLevel = text /\ InUse(n)' = general'
  <2>1. n = node
    BY <1>1, <1>2, <1>3, AddShows
  <2>2. nodes'[n].shows = [logLevel |-> text]
    BY <1>1, <1>2, <1>3, <2>1, AddShows
  <2>3. nodes'[n].shows.logLevel = text
    BY <2>2
  <2>4. InUse(n)' = general'
    BY <1>3, <2>1 DEF InUse
  <2>5. QED
    BY <2>1, <2>3, <2>4
<1>5. \A t \in Threads : \A n : ~ Storing(t, n)'
  <2>1. \A t \in Threads : \A n : ~ Storing(t, n)
    BY <1>1, NoStoring
  <2>2. QED
    BY <1>1, <2>1 DEF Storing
<1>6. IsLogLevel(text) /\ general' = LogLevelFromString(text)
  BY <1>1, GeneralGiven DEF Meta
<1>7. QED
  BY <1>4, <1>5, <1>6 DEF Shown

(* So is the level of a component; the objects there are stand for others. *)
LEMMA ShownComponent ==
  ASSUME Meta, Applied, Shown, ConfigureComponentLogLevel
  PROVE  Shown'
<1>1. /\ main = "ComponentLogLevel" /\ exists /\ ~ threw /\ Sane(ComponentConfig)
      /\ UNCHANGED <<config, unregistered, threw, request, writes>>
  BY ComponentStep
<1>2. \A t \in Threads : \A n : ~ Storing(t, n) /\ ~ Storing(t, n)'
  <2>1. \A t \in Threads : \A n : ~ Storing(t, n)
    BY <1>1, NoStoring
  <2>2. QED
    BY <1>1, <2>1 DEF Storing
<1>3. CASE UNCHANGED <<lvars, nodes>>
  <2>1. Delegating' = Delegating
    BY <1>3 DEF Delegating
  <2>2. QED
    BY <1>2, <1>3, <2>1, ShownStays DEF lvars
<1>4. ASSUME NEW h \in 1..Len(components), NEW node, NEW class,
             h = Cardinality(Made) + 1, node = ObjectOf(h), Add(node, class),
             node[1] = "ComponentLogLevel", node[2] = components[h].name,
             class.shows = [logLevel |-> ComponentLogLevelFromConfig(h)],
             SetComponentLogLevel(h, LogLevelFromString(ComponentLogLevelFromConfig(h)))
      PROVE  Shown'
  <2>1. PICK text : text = ComponentLogLevelFromConfig(h)
    OBVIOUS
  <2>2. IsLogLevel(text) /\ LogLevelFromString(text) \in Levels
    BY <1>1, <2>1, ComponentGiven DEF Meta
  <2>3. PICK level \in Levels : level = LogLevelFromString(text)
    BY <2>2
  <2>4. SetComponentLogLevel(h, level)
    BY <1>4, <2>1, <2>3
  <2>5. /\ general' = general /\ handles' = handles /\ Len(components') = Len(components)
        /\ \A g \in 1..Len(components) :
             components'[g].level = IF g = h THEN level ELSE components[g].level
    BY <1>1, <2>4, SetKeepsRegistry DEF Meta
  <2>6. node \notin Delegating
    <3>1. PICK k \in 0..Len(components) : Counted(k)
      BY <1>1 DEF Applied
    <3>2. PICK l \in Nat : l = Len(components)
      BY DEF Meta, Registry
    <3>3. h = k + 1 /\ k \in Nat /\ k <= l
      BY <1>4, <3>1, <3>2 DEF Counted
    <3>4. ASSUME NEW g \in 1..k, node = ObjectOf(g)
          PROVE  FALSE
      <4>1. g \in 1..l /\ g # h
        BY <3>3
      <4>2. QED
        BY <1>4, <3>2, <3>4, <4>1, ObjectFacts
    <3>5. node \notin Made
      BY <3>1, <3>4 DEF Counted
    <3>6. QED
      BY <1>4, <3>5 DEF Made, Delegating
  <2>7. ASSUME NEW n \in Delegating', n # node
        PROVE  IsLogLevel(nodes'[n].shows.logLevel) /\ InUse(n)' = LogLevelFromString(nodes'[n].shows.logLevel)
    <3>1. n \in Delegating /\ nodes'[n].shows.logLevel = nodes[n].shows.logLevel
      BY <1>4, <2>5, <2>7, AddShows
    <3>2. InUse(n)' = InUse(n)
      <4>1. CASE n[1] = "GeneralLogLevel"
        BY <2>5, <4>1 DEF InUse
      <4>2. CASE n[1] # "GeneralLogLevel"
        <5>1. PICK g \in 1..Len(components) : n = ObjectOf(g) /\ handles[n[2]] = g
          BY <3>1, <4>2, DelegatingFacts
        <5>2. g # h
          BY <1>4, <2>7, <5>1
        <5>3. QED
          BY <2>5, <4>2, <5>1, <5>2 DEF InUse
      <4>3. QED
        BY <4>1, <4>2
    <3>3. QED
      BY <1>2, <3>1, <3>2 DEF Shown
  <2>8. ASSUME node \in Delegating'
        PROVE  IsLogLevel(nodes'[node].shows.logLevel) /\ InUse(node)' = LogLevelFromString(nodes'[node].shows.logLevel)
    <3>1. nodes'[node].shows = [logLevel |-> text]
      BY <1>4, <2>1, <2>5, <2>6, <2>8, AddShows
    <3>2. nodes'[node].shows.logLevel = text
      BY <3>1
    <3>3. handles[node[2]] = h
      BY <1>4 DEF Meta, Registry
    <3>4. InUse(node)' = level
      BY <1>4, <2>5, <3>3 DEF InUse
    <3>5. QED
      BY <2>2, <2>3, <3>2, <3>4
  <2>9. QED
    BY <1>2, <2>7, <2>8 DEF Shown
<1>5. QED
  BY <1>3, <1>4, ComponentStep

(* The device sets the level of the object that is written, and of no other. *)
LEMMA CallSets ==
  ASSUME Meta, NEW t \in Threads, request[t] # Absent, NEW node, node = request[t].node, NEW level \in Levels,
         IF node[1] = "GeneralLogLevel" THEN SetNonComponentLogLevel(level)
         ELSE SetComponentLogLevel(GetComponentHandle(node[2]), level)
  PROVE  /\ UNCHANGED handles /\ InUse(node)' = level
         /\ \A n \in Delegating : n # node => InUse(n)' = InUse(n)
<1>1. node \in Delegating /\ exists
  BY RequestFacts
<1>2. CASE node[1] = "GeneralLogLevel"
  <2>1. UNCHANGED <<components, handles>> /\ general' = level
    BY <1>1, <1>2 DEF SetNonComponentLogLevel
  <2>2. node = <<"GeneralLogLevel", "">>
    BY <1>1, <1>2, DelegatingFacts
  <2>3. ASSUME NEW n \in Delegating, n # node
        PROVE  InUse(n)' = InUse(n)
    <3>1. n[1] # "GeneralLogLevel"
      BY <2>2, <2>3, DelegatingFacts
    <3>2. QED
      BY <2>1, <3>1 DEF InUse
  <2>4. QED
    BY <1>2, <2>1, <2>3 DEF InUse
<1>3. CASE node[1] # "GeneralLogLevel"
  <2>1. PICK h \in 1..Len(components) : /\ node = ObjectOf(h) /\ node[2] \in DOMAIN handles /\ handles[node[2]] = h
    BY <1>1, <1>3, DelegatingFacts
  <2>2. GetComponentHandle(node[2]) = h
    BY <1>1, <2>1 DEF GetComponentHandle, HasHandle
  <2>3. SetComponentLogLevel(h, level)
    BY <1>3, <2>2
  <2>4. /\ general' = general /\ handles' = handles
        /\ \A g \in 1..Len(components) : components'[g].level = IF g = h THEN level ELSE components[g].level
    BY <1>1, <2>3, SetKeepsRegistry DEF Meta
  <2>5. InUse(node)' = level
    BY <1>3, <2>1, <2>4 DEF InUse
  <2>6. ASSUME NEW n \in Delegating, n # node
        PROVE  InUse(n)' = InUse(n)
    <3>1. CASE n[1] = "GeneralLogLevel"
      BY <2>4, <3>1 DEF InUse
    <3>2. CASE n[1] # "GeneralLogLevel"
      <4>1. PICK g \in 1..Len(components) : n = ObjectOf(g) /\ handles[n[2]] = g
        BY <3>2, DelegatingFacts
      <4>2. g # h
        BY <2>1, <2>6, <4>1
      <4>3. QED
        BY <2>4, <3>2, <4>1, <4>2 DEF InUse
    <3>3. QED
      BY <3>1, <3>2
  <2>7. QED
    BY <2>4, <2>5, <2>6
<1>4. QED
  BY <1>2, <1>3

LEMMA ShownWrite ==
  ASSUME OneWriter, Meta, Shown, NEW t \in Threads, BeginWrite(t) \/ TestWrite(t) \/ CallDevice(t) \/ StoreValue(t)
  PROVE  Shown'
<1>1. \A u \in Threads : u = t
  BY DEF OneWriter
<1>2. request \in [Threads -> Writes \cup {Absent}] /\ request[t] \in Writes \cup {Absent}
  BY DEF Meta, Served
<1>3. ASSUME UNCHANGED <<lvars, nodes>>, \A n : ~ Storing(t, n) /\ ~ Storing(t, n)'
      PROVE  Shown'
  <2>1. Delegating' = Delegating
    BY <1>3 DEF Delegating
  <2>2. QED
    BY <1>1, <1>3, <2>1, ShownStays DEF lvars
<1>4. ASSUME NEW next, request' = [request EXCEPT ![t] = next], next = Absent \/ next.at # "store"
      PROVE  \A n : ~ Storing(t, n)'
  <2>1. request'[t] = next
    BY <1>2, <1>4
  <2>2. QED
    BY <1>4, <2>1 DEF Storing
<1>5. CASE BeginWrite(t)
  <2>1. UNCHANGED <<lvars, nodes>> /\ request[t] = Absent
    BY <1>5 DEF BeginWrite
  <2>2. PICK n, text : request' = [request EXCEPT ![t] = [node |-> n, text |-> text, at |-> "test"]]
    BY <1>5 DEF BeginWrite
  <2>3. [node |-> n, text |-> text, at |-> "test"].at # "store"
    OBVIOUS
  <2>4. \A m : ~ Storing(t, m)'
    BY <1>4, <2>2, <2>3
  <2>5. QED
    BY <1>3, <2>1, <2>4 DEF Storing
<1>6. CASE TestWrite(t)
  <2>1. UNCHANGED <<lvars, nodes>> /\ request[t] # Absent /\ request[t].at = "test"
    BY <1>6 DEF TestWrite
  <2>2. PICK next : request' = [request EXCEPT ![t] = next] /\ (next = Absent \/ next = [request[t] EXCEPT !.at = "call"])
    BY <1>6 DEF TestWrite, Answer
  <2>3. next = Absent \/ next.at # "store"
    BY <1>2, <2>1, <2>2, WriteMoves
  <2>4. \A m : ~ Storing(t, m)'
    BY <1>4, <2>2, <2>3
  <2>5. QED
    BY <1>3, <2>1, <2>4 DEF Storing
<1>7. CASE CallDevice(t)
  <2>1. UNCHANGED nodes /\ request[t] # Absent /\ request[t].at = "call"
    BY <1>7 DEF CallDevice
  <2>2. \A n : ~ Storing(t, n)
    BY <2>1 DEF Storing
  <2>3. CASE UNCHANGED <<lvars, request>>
    <3>1. \A n : ~ Storing(t, n)'
      BY <2>2, <2>3 DEF Storing
    <3>2. QED
      BY <1>3, <2>1, <2>2, <2>3, <3>1
  <2>4. CASE Answer(t) /\ UNCHANGED lvars
    <3>1. \A n : ~ Storing(t, n)'
      BY <1>4, <2>4 DEF Answer
    <3>2. QED
      BY <1>3, <2>1, <2>2, <2>4, <3>1
  <2>5. ASSUME NEW node, NEW text, node = request[t].node, text = request[t].text, IsLogLevel(text),
               IF node[1] = "GeneralLogLevel" THEN SetNonComponentLogLevel(LogLevelFromString(text))
               ELSE SetComponentLogLevel(GetComponentHandle(node[2]), LogLevelFromString(text)),
               request' = [request EXCEPT ![t].at = "store"]
        PROVE  Shown'
    <3>1. text \in DOMAIN Upper
      BY <2>1, <2>5 DEF Meta, Served
    <3>2. PICK level \in Levels : level = LogLevelFromString(text)
      BY <2>5, <3>1, LevelTexts
    <3>3. /\ UNCHANGED handles /\ InUse(node)' = level
          /\ \A n \in Delegating : n # node => InUse(n)' = InUse(n)
      <4>1. IF node[1] = "GeneralLogLevel" THEN SetNonComponentLogLevel(level)
            ELSE SetComponentLogLevel(GetComponentHandle(node[2]), level)
        BY <2>5, <3>2
      <4>2. QED
        BY <2>1, <2>5, <4>1, CallSets
    <3>4. PICK next : next = [request[t] EXCEPT !.at = "store"]
      OBVIOUS
    <3>5. next \in Writes /\ next.node = node /\ next.text = text /\ next.at = "store"
      BY <1>2, <2>1, <2>5, <3>4, WriteMoves
    <3>6. request'[t] = next /\ next # Absent
      BY <1>2, <2>5, <3>4, <3>5, MetaAssumption
    <3>7. Delegating' = Delegating
      BY <2>1 DEF Delegating
    <3>8. ASSUME NEW n \in Delegating
          PROVE  /\ (\A u \in Threads : ~ Storing(u, n)') =>
                      IsLogLevel(nodes'[n].shows.logLevel) /\ InUse(n)' = LogLevelFromString(nodes'[n].shows.logLevel)
                 /\ \A u \in Threads : Storing(u, n)' => InUse(n)' = LogLevelFromString(request'[u].text)
      <4>1. CASE n = node
        <5>1. Storing(t, n)'
          BY <3>5, <3>6, <4>1 DEF Storing
        <5>2. request'[t].text = text
          BY <3>5, <3>6
        <5>3. QED
          BY <1>1, <3>2, <3>3, <4>1, <5>1, <5>2
      <4>2. CASE n # node
        <5>1. ~ Storing(t, n)'
          BY <3>5, <3>6, <4>2 DEF Storing
        <5>2. IsLogLevel(nodes[n].shows.logLevel) /\ InUse(n) = LogLevelFromString(nodes[n].shows.logLevel)
          BY <1>1, <2>2 DEF Shown
        <5>3. QED
          BY <1>1, <2>1, <3>3, <4>2, <5>1, <5>2
      <4>3. QED
        BY <4>1, <4>2
    <3>9. QED
      BY <3>7, <3>8 DEF Shown
  <2>6. QED
    BY <1>7, <2>3, <2>4, <2>5 DEF CallDevice
<1>8. CASE StoreValue(t)
  <2>1. UNCHANGED <<lvars, devices, main>> /\ request[t] # Absent /\ request[t].at = "store" /\ Answer(t)
    BY <1>8 DEF StoreValue
  <2>2. PICK node, text : /\ node = request[t].node /\ text = request[t].text
                          /\ nodes' = WithValue(node, "logLevel", text)
    BY <1>8 DEF StoreValue
  <2>3. text \in DOMAIN Upper /\ IsLogLevel(text) /\ node \in Delegating
    BY <2>1, <2>2 DEF Meta, Served
  <2>4. /\ Delegating' = Delegating /\ nodes'[node].shows.logLevel = text
        /\ \A n \in Delegating : n # node => nodes'[n] = nodes[n]
    <3>1. /\ Delegating' = Delegating /\ nodes'[node].shows.logLevel = text
          /\ \A n \in DOMAIN nodes : n # node => nodes'[n] = nodes[n]
      BY <2>1, <2>2, <2>3, ValueKeepsLinks DEF Meta, lvars
    <3>2. QED
      BY <3>1 DEF Delegating
  <2>5. \A u \in Threads : \A n : ~ Storing(u, n)'
    BY <1>1, <1>4, <2>1 DEF Answer
  <2>6. \A n : InUse(n)' = InUse(n)
    BY <2>1 DEF InUse, lvars
  <2>7. ASSUME NEW n \in Delegating
        PROVE  IsLogLevel(nodes'[n].shows.logLevel) /\ InUse(n)' = LogLevelFromString(nodes'[n].shows.logLevel)
    <3>1. CASE n = node
      <4>1. Storing(t, n)
        BY <2>1, <2>2, <3>1 DEF Storing
      <4>2. InUse(n) = LogLevelFromString(text)
        BY <2>2, <4>1 DEF Shown
      <4>3. QED
        BY <2>3, <2>4, <2>6, <3>1, <4>2
    <3>2. CASE n # node
      <4>1. \A u \in Threads : ~ Storing(u, n)
        BY <1>1, <2>2, <3>2 DEF Storing
      <4>2. QED
        BY <2>4, <2>6, <3>2, <4>1 DEF Shown
    <3>3. QED
      BY <3>1, <3>2
  <2>8. QED
    BY <2>4, <2>5, <2>7 DEF Shown
<1>9. QED
  BY <1>5, <1>6, <1>7, <1>8

LEMMA ShownStep == OneWriter /\ Meta /\ Applied /\ Shown /\ [Next]_vars => Shown'
<1>1. ASSUME Shown, UNCHANGED vars
      PROVE  Shown'
  <2>1. UNCHANGED lvars /\ UNCHANGED <<nodes, request>>
    BY <1>1 DEF vars, mvars
  <2>2. Delegating' = Delegating /\ \A t, n : Storing(t, n)' <=> Storing(t, n)
    BY <2>1 DEF Delegating, Storing
  <2>3. QED
    BY <1>1, <2>1, <2>2, ShownStays DEF lvars
<1>2. QED
  BY <1>1, ShownQuiet, ShownObject, ShownGeneral, ShownComponent, ShownWrite DEF Next, Main

LEMMA RecordNamed ==
  ASSUME NEW text, NEW none, NEW name
  PROVE  [[level |-> text, component |-> none] EXCEPT !.component = name] = [level |-> text, component |-> name]
OBVIOUS

LEMMA RecordOf ==
  ASSUME NEW severity, NEW name
  PROVE  LogRecord(severity, name) = [level |-> LogLevelToString(severity), component |-> name]
BY RecordNamed DEF LogRecord, InitializeStream

(* Where writes come from one thread, as with open62541, an object shows the level
   that decides what is logged, whatever was written, refused or cut off by the
   shutdown: each message from that level on goes to every sink under the name of
   the component, and none below does (ASDelegatingVariable.h:49-62,
   LogIt.cpp:116-140). *)
THEOREM MetaShownIsInUse == OneWriter => (Spec => []ShownIsInUse)
<1>1. ASSUME Meta, Applied, Shown, NEW n \in Delegating, NEW level \in Levels,
             \A t \in Threads : request[t] = Absent \/ request[t].node # n \/ request[t].at # "store"
      PROVE  /\ IsLogLevel(nodes[n].shows.logLevel)
             /\ Written(n, level) =
                  IF level < LogLevelFromString(nodes[n].shows.logLevel) THEN {}
                  ELSE {<<Backends[i], [level |-> LogLevelToString(level), component |-> n[2]]>> : i \in DOMAIN Backends}
  <2>1. PICK shown : shown = LogLevelFromString(nodes[n].shows.logLevel)
    OBVIOUS
  <2>2. IsLogLevel(nodes[n].shows.logLevel) /\ InUse(n) = shown /\ shown \in Levels
    <3>1. IsLogLevel(nodes[n].shows.logLevel) /\ InUse(n) = shown
      BY <1>1, <2>1 DEF Shown, Storing
    <3>2. nodes[n].shows.logLevel \in DOMAIN Upper
      BY <1>1 DEF Meta, Linked
    <3>3. QED
      BY <2>1, <3>1, <3>2, LevelTexts
  <2>3. exists /\ sinks = Backends
    <3>1. main \notin Early
      BY <1>1 DEF Applied
    <3>2. exists
      BY <1>1, <3>1 DEF Meta, Served, Early
    <3>3. QED
      BY <1>1, <3>2 DEF Meta, Registry
  <2>4. CASE n[1] = "GeneralLogLevel"
    <3>1. n[2] = "" /\ general = shown
      BY <1>1, <2>2, <2>4, DelegatingFacts
    <3>2. IsGenerallyLoggable(level) <=> ~ (level < shown)
      <4>1. general \in Levels /\ general = shown
        BY <2>2, <3>1
      <4>2. level >= general <=> ~ (level < general)
        BY <4>1 DEF Levels
      <4>3. QED
        BY <2>3, <4>1, <4>2, Zenon DEF IsGenerallyLoggable
    <3>3. Written(n, level) = IF level < shown THEN {} ELSE LogMessage(InitializeStream(level))
      BY <2>4, <3>2 DEF Written, LogWithoutComponent
    <3>4. QED
      BY <2>1, <2>2, <2>3, <3>1, <3>3 DEF LogMessage, InitializeStream
  <2>5. CASE n[1] # "GeneralLogLevel"
    <3>1. PICK h \in 1..Len(components) : /\ n[2] = components[h].name /\ components[h].level = shown
                                         /\ n[2] \in DOMAIN handles /\ handles[n[2]] = h
      BY <1>1, <2>2, <2>5, DelegatingFacts
    <3>2. GetComponentHandle(n[2]) = h /\ HasAttributes(h) /\ GetComponentName(h) = n[2]
      BY <1>1, <2>3, <3>1 DEF GetComponentHandle, HasHandle, HasAttributes, GetComponentName, Meta, Registry
    <3>3. IsHandleLoggable(level, h) <=> ~ (level < shown)
      BY <2>2, <3>1, <3>2 DEF IsHandleLoggable, GetComponentLogLevel, Levels
    <3>4. Written(n, level) = IF level < shown THEN {} ELSE LogMessage(LogRecord(level, n[2]))
      BY <2>5, <3>2, <3>3 DEF Written, LogWithComponent
    <3>5. QED
      BY <2>1, <2>2, <2>3, <3>4, RecordOf DEF LogMessage
  <2>6. QED
    BY <2>4, <2>5
<1>2. Meta /\ Applied /\ Shown => ShownIsInUse
  <2>1. 0 \in Levels
    BY DEF Levels
  <2>2. QED
    BY <1>1, <2>1 DEF ShownIsInUse
<1>3. SUFFICES ASSUME OneWriter PROVE Spec => []ShownIsInUse
  OBVIOUS
<1>4. Meta /\ Applied /\ Shown /\ [Next]_vars => Shown'
  BY <1>3, ShownStep
<1>5. QED
  BY <1>2, <1>4, ShownInit, AppliedInit, AppliedStep, MetaInvariant, PTL DEF Spec

=============================================================================
