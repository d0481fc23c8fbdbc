------------------------------- MODULE Startup -------------------------------
(***************************************************************************)
(* The two files of a start in their order: OpcServer::start() has         *)
(* ServerConfig.xml loaded (ServerConfigXml) and, if that went well, calls *)
(* back configure() (Configurator), which makes the address space.         *)
(***************************************************************************)
EXTENDS Configurator, ServerConfigXml

CONSTANT Started  (* bound: the documents after which configure() is explored *)

StartupInit(documents) == XmlInit(documents) /\ Init

Configure == Loaded /\ ret = "Good" /\ document \in Started /\ Next

StartupNext ==
  \/ XmlNext /\ UNCHANGED vars
  \/ Configure /\ UNCHANGED xmlVars

StartupVars == <<vars, xmlVars>>
(* The loop of elaborateFormula() runs on. *)
StartupFairness == WF_vars(Elaborate)

StartupSpec(documents) == StartupInit(documents) /\ [][StartupNext]_StartupVars /\ StartupFairness

=============================================================================
