--------------------------- MODULE ServerConfigXml ---------------------------
(***************************************************************************)
(* ServerConfigXml::loadConfiguration(): ServerConfig.xml, which the       *)
(* Unified Automation backend reads before the address space is built.     *)
(* A cursor walks the document (getChild(), getParentNode()); each setting *)
(* is looked for below the cursor and, if its content converts, kept in a  *)
(* member; then each UaEndpoint makes an endpoint or fails.                *)
(*                                                                         *)
(* A document is [root, elements, endpoints, files]: whether it can be     *)
(* read and has a UaServerConfig, the contents of the elements at a path   *)
(* below that, in order, its UaEndpoint elements, and the certificates     *)
(* there are.                                                              *)
(***************************************************************************)
EXTENDS Naturals, SequencesExt

VARIABLES
  document,      (* the file                                               *)
  cursor,        (* where pXmlDoc stands below UaServerConfig              *)
  position,      (* the next of the Instructions                           *)
  members,       (* <<place of the instruction, what was kept>>; the others *)
                 (* are as ServerConfigData made them                      *)
  uaEndpoints,   (* m_uaEndpointArray while it is filled                   *)
  successCount,  (* how many of them are configured                        *)
  files,         (* the certificates that are there with their keys        *)
  ret            (* what loadConfiguration() will return                   *)

xmlVars == <<document, cursor, position, members, uaEndpoints, successCount, files, ret>>

-----------------------------------------------------------------------------
(* The code as a list of instructions.  Which type a setting has decides which
   contents are kept. *)
Setting(name, type) == [do |-> "read", name |-> name, type |-> type]
Settings(names, type) == [i \in DOMAIN names |-> Setting(names[i], type)]
List(name, type) == [do |-> "list", name |-> name, type |-> type]
Section(name, body) == <<[do |-> "enter", name |-> name, size |-> Len(body)]>> \o body \o <<[do |-> "leave"]>>

SessionLimits == Settings(
  <<"MaxRequestAge", "MaxSessionCount", "MinSessionTimeout", "MaxSessionTimeout", "MaxBrowseContinuationPoints",
    "MaxHistoryContinuationPoints", "MinPublishingInterval", "MaxPublishingInterval", "MinKeepAliveInterval">>, "number")
SubscriptionLimits == Settings(
  <<"MinSubscriptionLifetime", "MaxSubscriptionLifetime", "MaxRetransmitionQueueSize", "MaxNotificationsPerPublish",
    "MaxDataQueueSize", "MaxEventQueueSize", "MaxSubscriptionCount", "MaxMonitoredItemCount",
    "MaxMonitoredItemPerSubscriptionCount", "MinSupportedSampleRate">>, "number")
Profiles ==
  Section("AvailableLocaleIds", <<List("LocaleId", "text")>>)
    \o Section("AvailableServerProfiles", <<List("ServerProfileUri", "text")>>)
    \o <<Setting("IsAuditActivated", "bool")>>
RedundancySettings == Section("RedundancySettings", <<Setting("RedundancySupport", "choice"), List("ServerUri", "text")>>)
AdditionalServerEntries == Section("AdditionalServerEntries", <<List("ApplicationDescription", "any")>>)
AvailableSamplingRates == Section("AvailableSamplingRates", <<List("SamplingRate", "number")>>)
UserIdentityTokens == Section("UserIdentityTokens", Settings(<<"EnableAnonymous", "EnableUserPw">>, "bool"))
ServerNames ==
  Settings(<<"ApplicationUri", "ManufacturerName", "ApplicationName", "SoftwareVersion", "BuildNumber">>, "text")
    \o Settings(<<"ServerUri", "ServerName">>, "place holder")
Serializer == Section("Serializer", Settings(
  <<"MaxAlloc", "MaxStringLength", "MaxByteStringLength", "MaxArrayLength", "MaxMessageSize">>, "number"))
StackThreadPoolSettings == Section("StackThreadPoolSettings",
  <<Setting("Enabled", "bool")>> \o Settings(<<"MinThreads", "MaxThreads", "MaxJobs">>, "number")
    \o <<Setting("BlockOnAdd", "bool"), Setting("Timeout", "timeout")>>)
Trace == Section("Trace",
  <<Setting("UaStackTraceEnabled", "bool"), Setting("UaStackTraceLevel", "choice"), Setting("UaAppTraceEnabled", "bool"),
    Setting("UaAppTraceLevel", "choice"), Setting("UaAppTraceMaxEntries", "number"),
    Setting("UaAppTraceMaxBackup", "number"), Setting("UaAppTraceFile", "place holder")>>)
ThreadPoolSettings == Section("ThreadPoolSettings", Settings(
  <<"MinSizeTransactionManager", "MaxSizeTransactionManager",
    "MinSizeSubscriptionManager", "MaxSizeSubscriptionManager">>, "number"))
DiscoveryRegistration == Section("DiscoveryRegistration",
  <<Setting("AutomaticCertificateExchange", "bool")>>
    \o Settings(<<"DiscoveryServerCertificateFile", "DiscoveryServerStoreName", "DiscoveryServerCertificateName">>, "text")
    \o <<Setting("RegistrationInterval", "number"), List("Url", "first")>>)
RejectedCertificates == <<Setting("RejectedCertificatesDirectory", "text")>>

Instructions ==
  SessionLimits \o SubscriptionLimits \o Profiles \o RedundancySettings \o AdditionalServerEntries
    \o AvailableSamplingRates \o UserIdentityTokens \o ServerNames \o Serializer \o StackThreadPoolSettings
    \o Trace \o ThreadPoolSettings \o DiscoveryRegistration \o RejectedCertificates

Kept == {i \in DOMAIN Instructions : Instructions[i].do \in {"read", "list"}}

(* The section an instruction is written in, and the path of its element. *)
Enclosing == [i \in Kept |->
  LET opened == {j \in 1 .. i - 1 : Instructions[j].do = "enter" /\ i <= j + Instructions[j].size} IN
  IF opened = {} THEN <<>> ELSE <<Instructions[CHOOSE j \in opened : TRUE].name>>]
Path == [i \in Kept |-> Append(Enclosing[i], Instructions[i].name)]

-----------------------------------------------------------------------------
(* A content is [text, of]: what it looks like and which element it is of.  An
   element without content gives a null pointer. *)
Converts(content, type) ==
  CASE type = "any" -> TRUE
    [] type \in {"number", "timeout"} -> content.text \in {"number", "zero"}
    [] OTHER -> content.text # "empty"

(* "true" or anything else; one of the known words or anything else; no timeout
   is an infinite one. *)
Value(content, type) ==
  CASE type = "bool" -> [content EXCEPT !.text = IF @ = "true" THEN "true" ELSE "false"]
    [] type = "choice" -> [content EXCEPT !.text = IF @ = "known" THEN "known" ELSE "none"]
    [] type = "timeout" /\ content.text = "zero" -> [content EXCEPT !.text = "infinite"]
    [] OTHER -> content
Replaced == [text |-> "default, its place holder replaced", of |-> <<>>]
EightRates == [text |-> "50 to 10000 ms", of |-> <<>>]
Null == [text |-> "null", of |-> <<>>]

(* The array has room for every element, but those that do not convert leave
   theirs at the end.  The index of DiscoveryUrls is not counted up: each one
   overwrites the one before. *)
Filled(contents, type) ==
  LET good == SelectSeq(contents, LAMBDA c : Converts(c, type)) IN
  [k \in DOMAIN contents |->
     CASE type = "first" -> IF k = 1 /\ good # <<>> THEN Last(good) ELSE Null
       [] OTHER -> IF k <= Len(good) THEN good[k] ELSE Null]

Present(path) == path \in DOMAIN document.elements
Contents(path) == document.elements[path]

(* What is kept of a setting whose element, or whose section, is missing. *)
IfMissing(i) == IF Instructions[i].type = "place holder" THEN {<<i, Replaced>>} ELSE {}
IfSectionMissing(i) == IF Instructions[i].name = "SamplingRate" THEN {<<i, EightRates>>} ELSE {}
Member(i, content, type) == IF Converts(content, type) THEN {<<i, Value(content, type)>>} ELSE {}

-----------------------------------------------------------------------------
XmlInit(documents) ==
  /\ document \in documents
  /\ cursor = <<>> /\ position = 0
  /\ members = {}
  /\ uaEndpoints = <<>> /\ successCount = 0 /\ files = document.files /\ ret = "Good"

AfterSettings == Len(Instructions) + 1
Loaded == position = AfterSettings + 1

(* loadXmlFile(), and the search for UaServerConfig. *)
OpenDocument ==
  /\ position = 0
  /\ IF document.root THEN position' = 1 /\ UNCHANGED ret
                      ELSE position' = AfterSettings + 1 /\ ret' = "BadInternalError"
  /\ UNCHANGED <<document, cursor, members, uaEndpoints, successCount, files>>

At(instruction) == position \in DOMAIN Instructions /\ Instructions[position].do = instruction
Instruction == Instructions[position]
Element == Append(cursor, Instruction.name)

(* Mutant: getParentNode() only where the content was kept. *)
ReadSetting_Stays ==
  LET content == Contents(Element)[1] IN
  /\ At("read")
  /\ members' = members \cup IF Present(Element) THEN Member(position, content, Instruction.type)
                                                 ELSE IfMissing(position)
  /\ cursor' = IF Present(Element) /\ ~Converts(content, Instruction.type) THEN Element ELSE cursor
  /\ position' = position + 1
  /\ UNCHANGED <<document, uaEndpoints, successCount, files, ret>>

(* getChild(), getContent(), getParentNode(). *)
ReadSetting ==
  LET content == Contents(Element)[1] IN
  /\ At("read")
  /\ members' = members \cup IF Present(Element) THEN Member(position, content, Instruction.type)
                                                 ELSE IfMissing(position)
  /\ position' = position + 1
  /\ UNCHANGED <<document, cursor, uaEndpoints, successCount, files, ret>>

(* getChildElements(), which leaves the cursor where it is. *)
ReadList ==
  /\ At("list")
  /\ members' = members \cup IF Present(Element) THEN {<<position, Filled(Contents(Element), Instruction.type)>>} ELSE {}
  /\ position' = position + 1
  /\ UNCHANGED <<document, cursor, uaEndpoints, successCount, files, ret>>

EnterSection ==
  /\ At("enter")
  /\ IF Present(Element)
     THEN cursor' = Element /\ position' = position + 1 /\ UNCHANGED members
     ELSE /\ UNCHANGED cursor
          /\ position' = position + Instruction.size + 2
          /\ members' = members \cup IfSectionMissing(position + 1)
  /\ UNCHANGED <<document, uaEndpoints, successCount, files, ret>>

LeaveSection ==
  /\ At("leave")
  /\ cursor' = Front(cursor) /\ position' = position + 1
  /\ UNCHANGED <<document, members, uaEndpoints, successCount, files, ret>>

-----------------------------------------------------------------------------
(* UaEndpointXml::setXmlConfig().  A UaEndpoint element is [url, stackUrl,
   flags, store, certificate, generate, opens, serializer, security]: its
   addresses, the contents of those of the three flags that are there, what it
   says of its store, the certificate it names, whether that may be made,
   whether store, certificate and key can be read, and the security settings. *)
UrlIsBad(e) == e.url = "absent"
UrlOf(url) == IF url \in {"empty", "port"} THEN "localhost" ELSE "as written"

(* It is visible, and a discovery URL, unless that is "false"; it is redundant
   only if that is "true".  A flag that is missing stays as UaEndpoint made it. *)
FlagOf(name, content) == IF name = "Redundancy" THEN content = "true" ELSE content # "false"
Flags(e) ==
  {<<name, FlagOf(name, e.flags[name])>> : name \in DOMAIN e.flags} \ {<<"Redundancy", FALSE>>}

(* An OpenSSLStore with its four elements; no other store is supported. *)
StoreIsMissing(e) == e.store = "absent"
StoreIsBad(e) == StoreIsMissing(e) \/ e.store # "complete"

Available(e) == e.certificate \in files
MayBeMade(e) == e.generate = "true"
SerializerIsBad(e) == e.serializer \notin {"absent", "Binary", "Xml"}

Modes == {"None", "Sign", "SignAndEncrypt"}
DefaultSecurity == <<[policy |-> TRUE, modes |-> <<"None">>]>>
SecurityIsBad(settings) ==
  \E k \in DOMAIN settings :
    ~settings[k].policy \/ settings[k].modes = <<>> \/ ToSet(settings[k].modes) \ Modes # {}

(* The first that fails ends it. *)
SetXmlConfig(e) ==
  IF UrlIsBad(e) \/ StoreIsBad(e) THEN "BadInvalidArgument"
  ELSE IF ~Available(e) /\ ~MayBeMade(e) THEN "BadInternalError"
  ELSE IF ~e.opens THEN "Bad"
  ELSE IF SerializerIsBad(e) \/ SecurityIsBad(e.security) THEN "BadInvalidArgument"
  ELSE "Good"

(* The certificate is made as soon as it is missed, whatever fails after that. *)
Makes(e) == ~UrlIsBad(e) /\ ~StoreIsBad(e) /\ ~Available(e) /\ MayBeMade(e)

Configured(e) ==
  [url |-> UrlOf(e.url), stackUrl |-> e.stackUrl, flags |-> Flags(e), certificate |-> e.certificate,
   serializer |-> IF e.serializer = "Xml" THEN "Xml" ELSE "Binary",
   security |-> IF e.security = <<>> THEN DefaultSecurity ELSE e.security]
NoEndpoint == [url |-> "null"]

AtEndpoints == position = AfterSettings /\ Len(uaEndpoints) < Len(document.endpoints)

(* One round of the loop: a failed endpoint leaves its place empty. *)
ReadEndpoint ==
  LET e == document.endpoints[Len(uaEndpoints) + 1] IN
  /\ AtEndpoints
  /\ ret' = SetXmlConfig(e)
  /\ files' = IF Makes(e) THEN files \cup {e.certificate} ELSE files
  /\ IF ret' = "Good" THEN /\ uaEndpoints' = Append(uaEndpoints, Configured(e))
                          /\ successCount' = successCount + 1
                     ELSE /\ uaEndpoints' = Append(uaEndpoints, NoEndpoint)
                          /\ UNCHANGED successCount
  /\ UNCHANGED <<document, cursor, position, members>>

(* The array is cut to the number of endpoints that succeeded; ret is that of
   the last one. *)
FinishLoading ==
  /\ position = AfterSettings /\ ~AtEndpoints
  /\ position' = position + 1
  /\ uaEndpoints' = SubSeq(uaEndpoints, 1, successCount)
  /\ ret' = IF document.endpoints = <<>> THEN "BadInternalError"
            ELSE IF successCount = 0 THEN "BadConfigurationError" ELSE ret
  /\ UNCHANGED <<document, cursor, members, successCount, files>>

XmlNext == OpenDocument \/ ReadSetting \/ ReadList \/ EnterSection \/ LeaveSection \/ ReadEndpoint \/ FinishLoading

-----------------------------------------------------------------------------
(* What the element at the path of a setting says, wherever the cursor was. *)
Written(i) ==
  LET setting == Instructions[i] IN
  IF Enclosing[i] # <<>> /\ ~Present(Enclosing[i]) THEN IfSectionMissing(i)
  ELSE IF setting.do = "list" THEN IF Present(Path[i]) THEN {<<i, Filled(Contents(Path[i]), setting.type)>>} ELSE {}
  ELSE IF Present(Path[i]) THEN Member(i, Contents(Path[i])[1], setting.type) ELSE IfMissing(i)

(* When the configuration has been loaded, each setting is the one its own
   element gives, and the default if that is missing, empty or no number,
   whatever is missing, empty or of the same name elsewhere before it; and if it
   was loaded with success the endpoints kept are able to serve, with a
   certificate that is there, and if none failed they are those of the document
   in its order (serverconfigxml.cpp:107-1246).  (After one that failed others
   are cut off: see the README.) *)
LoadedIsWritten ==
  Loaded /\ document.root =>
    /\ cursor = <<>>
    /\ members = UNION {Written(i) : i \in Kept}
    /\ ret = "Good" =>
         /\ uaEndpoints # <<>>
         /\ \A k \in DOMAIN uaEndpoints : uaEndpoints[k] # NoEndpoint =>
              uaEndpoints[k].certificate \in files /\ ~SecurityIsBad(uaEndpoints[k].security)
         /\ Len(uaEndpoints) = Len(document.endpoints) =>
              uaEndpoints = [k \in DOMAIN document.endpoints |-> Configured(document.endpoints[k])]

=============================================================================
