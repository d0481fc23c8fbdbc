--------------------------- MODULE ServerLifecycle ---------------------------
(***************************************************************************)
(* The life of the server: BaseQuasarServer::startApplication() and        *)
(* serverRun() in the main thread, signals, and the requests of            *)
(* SourceVariables that are under way at any point of it.                  *)
(***************************************************************************)
EXTENDS SourceVariables, Integers

VARIABLES
  main,     (* the next thing the main thread does                         *)
  handled,  (* signals are: one the process was started to ignore stays ignored *)
  flag,     (* ShutDownFlag()                                              *)
  only,     (* isCreateCertificateOnly                                     *)
  server,   (* m_pServer points to an OpcServer                            *)
  code      (* what startApplication() returns                             *)

mvars == <<main, handled, flag, only, server, code>>
asked == <<handled, only>>
vars == <<svars, mvars>>

Init ==
  /\ SInit
  /\ main = "register"
  /\ handled = FALSE
  /\ flag = FALSE
  /\ only = FALSE
  /\ server = FALSE
  /\ code = 0

GoTo(from, to) == main = from /\ main' = to
Exit(with) == main' = "returned" /\ code' = with
Requests == <<managers, stack, jobs, address>>

-----------------------------------------------------------------------------
RegisterSignalHandler ==
  /\ GoTo("register", "parse")
  /\ handled' \in BOOLEAN
  /\ UNCHANGED <<svars, flag, only, server, code>>

(* A signal handler sets the flag. *)
Signal == handled /\ flag' = TRUE /\ UNCHANGED <<svars, main, asked, server, code>>

(* parseCommandLine(): help and version end the program, whatever else is asked. *)
ParseCommandLine(readable, options) ==
  /\ main = "parse"
  /\ IF ~readable THEN Exit(1) /\ UNCHANGED only
     ELSE IF options \cap {"help", "version"} # {} THEN Exit(0) /\ UNCHANGED only
     ELSE /\ GoTo("parse", "environment") /\ UNCHANGED code
          /\ only' = ("create_certificate" \in options)
  /\ UNCHANGED <<svars, handled, flag, server>>

(* The platform layer may fail with a code of its own, and logging may throw. *)
InitializeEnvironment ==
  /\ main = "environment"
  /\ \/ GoTo("environment", "config") /\ UNCHANGED code
     \/ \E with \in {-1, 1} : Exit(with)
  /\ UNCHANGED <<svars, asked, flag, server>>

(* The server object is made; it may not like its configuration. *)
SetServerConfig ==
  /\ main = "config"
  /\ server' = TRUE
  /\ \/ GoTo("config", IF only THEN "certificate" ELSE "types") /\ UNCHANGED code
     \/ Exit(-1)
  /\ UNCHANGED <<svars, asked, flag>>

(* createCertificate(): a configuration is loaded and the modules are started
   for it, each of which may throw; no endpoint is opened. *)
CertificateSteps == {"loadConfiguration", "initialize core", "start core", "initialize server", "start server"}
CreateCertificate ==
  /\ main = "certificate"
  /\ \E good \in SUBSET CertificateSteps : Exit(IF good = CertificateSteps THEN 0 ELSE 1)
  /\ UNCHANGED <<svars, asked, flag, server>>

(* start() has the node manager called back: afterStartUp() makes the nodes of
   the types and calls the configuration handler. *)
CreateTypeNodes ==
  /\ GoTo("types", "meta")
  /\ UNCHANGED <<svars, asked, flag, server, code>>

(* Of configure(), configureMeta() makes the pool and the configuration of the
   classes links the devices. *)
ConfigureMeta ==
  /\ GoTo("meta", "devices")
  /\ pool' = "up"
  /\ UNCHANGED <<serving, linked, crashed, Requests, service, asked, flag, server, code>>

(* (When the endpoints open is up to the server's library.) *)
ConfigureDevices ==
  /\ GoTo("devices", "prepare")
  /\ linked' = TRUE
  /\ serving' = TRUE
  /\ UNCHANGED <<pool, crashed, Requests, service, asked, flag, server, code>>

(* The handler goes on with validateDeviceTree(), optimize(),
   setupSynchronization() and initialize(). *)
PrepareEngine ==
  /\ GoTo("prepare", "endpoints")
  /\ UNCHANGED <<svars, asked, flag, server, code>>

(* start() says which endpoints it opened, and returns. *)
ReportEndpoints ==
  /\ GoTo("endpoints", "loop")
  /\ UNCHANGED <<svars, asked, flag, server, code>>

Starting == {"types", "meta", "devices", "prepare", "endpoints"}

(* Mutant: an exception ends serverRun() at once. *)
Throw_Returns ==
  /\ main \in Starting \cup {"loop"}
  /\ Exit(1)
  /\ UNCHANGED <<svars, asked, flag, server>>

(* An exception out of start() (for a library that did not start, or a handler
   that said OpcUa_Bad, it throws one, too) or out of the main loop is caught, and the shutdown goes its way. *)
Throw ==
  /\ main \in Starting \cup {"loop"}
  /\ main' = "destroyPool"
  /\ code' = 1
  /\ UNCHANGED <<svars, asked, flag, server>>

TestFlag ==
  /\ flag /\ GoTo("loop", "destroyPool")
  /\ UNCHANGED <<svars, asked, flag, server, code>>

-----------------------------------------------------------------------------
(* SourceVariables_destroySourceVariablesThreadPool(): the destructor tells the
   workers to stop ... *)
DestroyPool ==
  /\ main = "destroyPool"
  /\ IF pool = "up" THEN main' = "join" /\ Pool!Close
     ELSE main' = "unlinkDevices" /\ UNCHANGED service
  /\ UNCHANGED <<lvars, Requests, asked, flag, server, code>>

(* Mutant: the devices go before the pool's threads have stopped. *)
JoinWorkers_Later ==
  /\ GoTo("join", "flush")
  /\ linked' = FALSE
  /\ UNCHANGED <<serving, pool, crashed, Requests, service, asked, flag, server, code>>

(* ... waits for them ... *)
JoinWorkers ==
  /\ GoTo("join", "flush")
  /\ \A w \in Workers : doing[w] = None
  /\ UNCHANGED <<svars, asked, flag, server, code>>

(* ... and deletes the jobs that nobody took; then the pointer is reset. *)
FlushJob ==
  /\ main = "flush" /\ Pool!Discard
  /\ UNCHANGED <<lvars, Requests, mvars>>

FreePool ==
  /\ pending = <<>> /\ GoTo("flush", "unlinkDevices")
  /\ pool' = "gone"
  /\ UNCHANGED <<serving, linked, crashed, Requests, service, asked, flag, server, code>>

(* unlinkAllDevices(), destroyMeta() and unlinkAllChildren(). *)
UnlinkDevices ==
  /\ GoTo("unlinkDevices", "stop")
  /\ linked' = FALSE
  /\ UNCHANGED <<serving, pool, crashed, Requests, service, asked, flag, server, code>>

(* m_pServer->stop() returns when the stack's threads are back, and the server
   is deleted. *)
StopServer ==
  /\ main = "stop" /\ \A t \in Threads : at[t] = "idle"
  /\ Exit(code)
  /\ serving' = FALSE
  /\ server' = FALSE
  /\ UNCHANGED <<pool, linked, crashed, Requests, service, asked, flag>>

Main ==
  \/ RegisterSignalHandler \/ InitializeEnvironment \/ SetServerConfig \/ CreateCertificate
  \/ \E readable \in BOOLEAN, options \in SUBSET {"help", "version", "create_certificate"} :
       ParseCommandLine(readable, options)
  \/ CreateTypeNodes \/ ConfigureMeta \/ ConfigureDevices \/ PrepareEngine \/ ReportEndpoints \/ TestFlag
  \/ DestroyPool \/ JoinWorkers \/ FlushJob \/ FreePool \/ UnlinkDevices \/ StopServer

Running == ~crashed /\ main # "returned"

Next ==
  /\ Running
  /\ \/ Main \/ Throw \/ Signal
     \/ (\E t \in Threads : StackStep(t)) /\ UNCHANGED mvars
     \/ (\E p \in Performers : JobStep(p)) /\ UNCHANGED mvars
     \/ (\E w \in Workers : TakeJob(w)) /\ main # "flush" /\ UNCHANGED mvars

Serve(t) == Running /\ (BeginItem(t) \/ Spawn(t) \/ AddJob(t)) /\ UNCHANGED mvars
Perform(p) == Running /\ JobStep(p) /\ UNCHANGED mvars
Work(w) == Running /\ ~closed /\ TakeJob(w) /\ UNCHANGED mvars

Fairness ==
  /\ WF_vars(Running /\ Main)
  /\ \A t \in Threads : WF_vars(Serve(t))
  /\ \A p \in Performers : SF_vars(Perform(p))
  /\ \A w \in Workers : WF_vars(Work(w))

Spec == Init /\ [][Next]_vars /\ Fairness

-----------------------------------------------------------------------------
TypeOK ==
  /\ STypeOK
  /\ main \in Starting \cup {"register", "parse", "environment", "config", "certificate", "loop", "destroyPool",
                              "join", "flush", "unlinkDevices", "stop", "returned"}
  /\ handled \in BOOLEAN /\ (flag => handled) /\ flag \in BOOLEAN /\ only \in BOOLEAN /\ server \in BOOLEAN /\ code \in {-1, 0, 1}
  /\ serving => server /\ pool # "none"

(* An asynchronous job never runs into devices that have been unlinked, however
   late it was taken from the queue: the pool is destroyed first, and that
   waits for its threads (BaseQuasarServer.cpp:166-171). *)
JobsFindTheirDevices ==
  \A w \in Workers : phase[w] # "idle" => linked

(* Whichever way start or main loop come to their end, nothing is left behind:
   no thread at work, no job, no pool, no link, no server.  (The exits before
   the start, which leave m_pServer as it is, had none of the others.) *)
CleanExit ==
  main = "returned" =>
    /\ pool # "up" /\ ~linked /\ ~serving
    /\ \A p \in Performers : doing[p] = None
    /\ \A item \in Items : status[item] \notin {"pending", "running"}

(* Unless the server shuts down, a request that was taken is answered: no job
   is stuck behind a mutex that an exception left locked, none is forgotten. *)
TakenIsAnswered ==
  \A item \in Items : returned[item] = "good" ~> (closed \/ crashed \/ \E a \in answers : a.job = item)

(* A signal ends a server that has started, whatever the requests do. *)
SignalEnds == (flag /\ main = "loop") ~> (main = "returned" \/ crashed)

=============================================================================
