-------------------------------- MODULE LogIt --------------------------------
(***************************************************************************)
(* The registry of logging components and their levels (LogIt.cpp,         *)
(* LogItInstance.cpp, LogLevels.cpp), and where a message goes             *)
(* (LogRecord.cpp, LogSinks.cpp).  A component's handle is its index; a    *)
(* second structure, m_componentNames, finds the handle of a name.         *)
(***************************************************************************)
EXTENDS Naturals, Sequences

CONSTANTS
  Upper,           (* std::toupper() on the texts that occur               *)
  MaxComponents,   (* g_sMaxComponentIdCount                               *)
  Backends         (* the sinks compiled in (LOGIT_BACKEND_...), in order  *)

ASSUME LogItAssumption ==
  /\ MaxComponents \in Nat /\ Backends \in Seq({Backends[i] : i \in DOMAIN Backends})
  /\ \A text \in {"TRC", "DBG", "INF", "WRN", "ERR"} : text \in DOMAIN Upper /\ Upper[text] = text

VARIABLES
  exists,       (* g_sLogItInstance has been made                          *)
  components,   (* m_components: names and levels                          *)
  handles,      (* m_componentNames                                        *)
  general,      (* m_nonComponentLogLevel                                  *)
  sinks         (* m_logSinksInstance                                      *)

lvars == <<exists, components, handles, general, sinks>>

(* enum LOG_LEVEL: TRC, DBG, INF, WRN, ERR. *)
Levels == 0..4
INF == 2

LogLevelToString(level) == <<"TRC", "DBG", "INF", "WRN", "ERR">>[level + 1]

(* The spellings of each level, in capitals. *)
Spellings == [level \in Levels |->
  <<{"TRC", "TRACE"}, {"DBG", "DEBUG"}, {"INF", "INFO", "INFORMATION"},
    {"WRN", "WARN", "WARNING"}, {"ERR", "ERROR"}>>[level + 1]]

IsLogLevel(text) == \E level \in Levels : Upper[text] \in Spellings[level]
LogLevelFromString(text) == CHOOSE level \in Levels : Upper[text] \in Spellings[level]

(* There is no instance at first: nothing is logged or registered. *)
LInit == exists = FALSE /\ components = <<>> /\ handles = <<>> /\ general = INF /\ sinks = <<>>

CreateInstance == exists' = TRUE /\ components' = <<>> /\ handles' = <<>>

(* Each is made, initialized and added. *)
InitializeSinks == sinks' = Backends

(* The first call counts. *)
InitializeLogging(level) ==
  IF exists THEN UNCHANGED lvars ELSE CreateInstance /\ InitializeSinks /\ general' = level

-----------------------------------------------------------------------------
InvalidHandle == 0
HasHandle(name) == name \in DOMAIN handles
GetComponentHandle(name) == IF exists /\ HasHandle(name) THEN handles[name] ELSE InvalidHandle

(* getComponentAttributes() finds what is registered, by its handle. *)
HasAttributes(handle) == exists /\ handle \in DOMAIN components

GetComponentLogLevel(handle) == components[handle].level
GetComponentName(handle) == IF HasAttributes(handle) THEN components[handle].name ELSE "UNKNOWN"
GetComponentLogsList == [handle \in {h \in DOMAIN components : exists} |-> components[handle].name]

(* Mutant: a name that is there is added again. *)
AddComponent_Again(name, level) ==
  IF Len(components) < MaxComponents
  THEN /\ components' = Append(components, [name |-> name, level |-> level])
       /\ handles' = [n \in DOMAIN handles \cup {name} |-> IF n \in DOMAIN handles THEN handles[n] ELSE Len(components')]
  ELSE UNCHANGED <<components, handles>>

(* A name that is there keeps its attributes; a list that is full refuses. *)
AddComponent(name, level) ==
  IF GetComponentHandle(name) = InvalidHandle /\ Len(components) < MaxComponents
  THEN /\ components' = Append(components, [name |-> name, level |-> level])
       /\ handles' = [n \in DOMAIN handles \cup {name} |-> IF n = name THEN Len(components') ELSE handles[n]]
  ELSE UNCHANGED <<components, handles>>

(* That is caught and logged. *)
RegisterLoggingComponent(name, level) ==
  /\ IF exists THEN AddComponent(name, level) ELSE UNCHANGED <<components, handles>>
  /\ UNCHANGED <<exists, general, sinks>>

SetComponentLogLevel(handle, level) ==
  /\ components' = IF HasAttributes(handle) THEN [components EXCEPT ![handle].level = level] ELSE components
  /\ UNCHANGED <<exists, handles, general, sinks>>

GetNonComponentLogLevel == general
SetNonComponentLogLevel(level) ==
  general' = (IF exists THEN level ELSE general) /\ UNCHANGED <<exists, components, handles, sinks>>

(* Whether a message of this level is logged: a general one, one of the component
   of this handle, or of this name. *)
IsGenerallyLoggable(level) == exists /\ level >= general
IsHandleLoggable(level, handle) == HasAttributes(handle) /\ level >= GetComponentLogLevel(handle)
IsLoggable(level, name) ==
  GetComponentHandle(name) # InvalidHandle /\ IsHandleLoggable(level, GetComponentHandle(name))

-----------------------------------------------------------------------------
(* A message by what it begins with: its level and the component it is of. *)
InitializeStream(level) == [level |-> LogLevelToString(level), component |-> ""]
LogRecord(level, name) == [InitializeStream(level) EXCEPT !.component = name]

(* The record goes to every sink when it is destroyed. *)
LogMessage(record) == {<<sinks[i], record>> : i \in DOMAIN sinks}

(* What LOG(level) and LOG(level, handle) write. *)
LogWithoutComponent(level) ==
  IF IsGenerallyLoggable(level) THEN LogMessage(InitializeStream(level)) ELSE {}
LogWithComponent(level, handle) ==
  IF IsHandleLoggable(level, handle) THEN LogMessage(LogRecord(level, GetComponentName(handle))) ELSE {}

-----------------------------------------------------------------------------
(* Both structures know the same components: a handle is one component's for
   good, and a name never stands for two (LogItInstance.cpp:87-127). *)
OneHandlePerName ==
  /\ Len(components) <= MaxComponents
  /\ \A name \in DOMAIN handles : handles[name] \in 1..Len(components) /\ components[handles[name]].name = name
  /\ \A h \in 1..Len(components) : GetComponentHandle(components[h].name) = h

=============================================================================
