----------------------------- MODULE MCMetaData -----------------------------
(* MetaData for TLC: the two components of the server, one of them registered
   again by the developer's code, and a third one the list has no room for. *)
EXTENDS MetaData

CONSTANT t1

MCUpper == [text \in {"TRC", "DBG", "INF", "WRN", "ERR", "warning", "loud"} |->
  CASE text = "warning" -> "WARNING" [] text = "loud" -> "LOUD" [] OTHER -> text]
MCRegistrations == <<"CalcVars", "CalcVars", "AddressSpace", "Device">>
MCBackends == <<"StdOutLog", "UaTraceSink">>
MCPools == {[min |-> 2, max |-> 2]}

=============================================================================
