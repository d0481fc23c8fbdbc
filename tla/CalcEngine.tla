----------------------------- MODULE CalcEngine -----------------------------
(***************************************************************************)
(* CalculatedVariables::Engine while the configuration is loaded           *)
(* (CalculatedVariables/src/CalculatedVariablesEngine.cpp): variables      *)
(* register, calculated variables are instantiated on top of those already *)
(* registered, optimize() drops the ParserVariables no formula uses, and   *)
(* setupSynchronization() gives the others their synchronizers, walking    *)
(* the list backwards and the graph depth first, one neighbour at a time.  *)
(*                                                                         *)
(* A ParserVariable is known by its position in s_parserVariables at the   *)
(* time it was registered.  Formulas are the sets of variables they read.  *)
(***************************************************************************)
EXTENDS Naturals, Sequences

CONSTANT MaxVariables  (* how many variables a configuration has at most   *)

ASSUME MaxVariablesAssumption == MaxVariables \in Nat

VARIABLES
  registered,  (* the variables in the order of registration               *)
  listed,      (* the ParserVariables still in s_parserVariables           *)
  notifies,    (* m_notifiedVariable of every calculated variable          *)
  sync,        (* the synchronizer of every ParserVariable, 0 if none      *)
  created,     (* s_numSynchronizers                                       *)
  cursor,      (* the iterator of setupSynchronization()                   *)
  search,      (* the calls of dfsAndSetSynchronizer(): its ParserVariable *)
               (* and the neighbours it has not looked at                  *)
  phase        (* configurationInitializerHandler                          *)

vars == <<registered, listed, notifies, sync, created, cursor, search, phase>>

Null == 0
Ids == DOMAIN registered

Init ==
  /\ registered = <<>>
  /\ listed = {}
  /\ notifies = <<>>
  /\ sync = <<>>
  /\ created = 0
  /\ cursor = Null
  /\ search = <<>>
  /\ phase = "configure"

(* m_valueVariables and m_statusVariables of the calculated variable behind
   ParserVariable v, empty for any other variable. *)
Inputs(v) == registered[v].value \cup registered[v].status

(* m_notifiedVariables of ParserVariable v. *)
Notified(v) == {c \in Ids : registered[c].calc /\ v \in Inputs(c)}

(* A calculated variable whose formulas read no variable. *)
IsConstant(v) == registered[v].calc /\ Inputs(v) = {}

(* registerVariableForCalculatedVariables: a new ParserVariable at the end. *)
Enlist(r) ==
  /\ Len(registered) < MaxVariables
  /\ registered' = Append(registered, r)
  /\ listed' = listed \cup {Len(registered) + 1}
  /\ notifies' = Append(notifies, IF r.calc THEN Len(registered) + 1 ELSE Null)
  /\ sync' = Append(sync, Null)
  /\ UNCHANGED <<created, cursor, search, phase>>

(* A cache variable or a numeric free variable. *)
RegisterVariable ==
  /\ phase = "configure"
  /\ Enlist([calc |-> FALSE, value |-> {}, status |-> {}])

(* The formulas may name what is registered by then. *)
InstantiateCalculatedVariable(value, status) ==
  /\ phase = "configure"
  /\ Enlist([calc |-> TRUE, value |-> value, status |-> status])

(* A formula names a variable that is not registered: the exception ends the
   configuration. *)
FormulaNotFound ==
  /\ phase = "configure"
  /\ phase' = "failed"
  /\ UNCHANGED <<registered, listed, notifies, sync, created, cursor, search>>

(* Mutant: the calculated variable keeps its pointer to the erased one. *)
Optimize_KeepPointer ==
  /\ phase = "configure"
  /\ listed' = {v \in listed : Notified(v) # {}}
  /\ cursor' = Len(registered)
  /\ phase' = "synchronize"
  /\ UNCHANGED <<registered, notifies, sync, created, search>>

(* optimize(): a ParserVariable that notifies nothing is erased and its
   calculated variable forgets it.  A variable has one listener at most, the one
   its registration adds, so that none is skipped. *)
Optimize ==
  /\ phase = "configure"
  /\ listed' = {v \in listed : Notified(v) # {}}
  /\ notifies' = [v \in Ids |-> IF Notified(v) = {} THEN Null ELSE notifies[v]]
  /\ cursor' = Len(registered)
  /\ phase' = "synchronize"
  /\ UNCHANGED <<registered, sync, created, search>>

(* Mutant: descendants only. *)
Adjacent_Descendants(v) == {notifies[c] : c \in Notified(v)} \ {Null}

(* The ParserVariables the depth-first search goes to from v: the inputs of
   the calculated variable behind v, then the calculated variables v feeds. *)
Adjacent(v) == Inputs(v) \cup ({notifies[c] : c \in Notified(v)} \ {Null})

(* Only what has no synchronizer yet and can change is given one. *)
Visitable(v) == sync[v] = Null /\ ~IsConstant(v)

(* The call dfsAndSetSynchronizer(v, synchronizer) begins. *)
Call(v) == [var |-> v, todo |-> Adjacent(v)]
Top == search[Len(search)]
Below == SubSeq(search, 1, Len(search) - 1)

Searching == phase = "synchronize" /\ search # <<>>

(* One round of the loop of setupSynchronization(), until it calls
   dfsAndSetSynchronizer(). *)
SynchronizeNext ==
  /\ phase = "synchronize" /\ search = <<>>
  /\ cursor # Null
  /\ IF cursor \in listed /\ Notified(cursor) # {} /\ Visitable(cursor)
     THEN /\ created' = created + 1
          /\ sync' = [sync EXCEPT ![cursor] = created']
          /\ search' = <<Call(cursor)>>
     ELSE UNCHANGED <<sync, created, search>>
  /\ cursor' = cursor - 1
  /\ UNCHANGED <<registered, listed, notifies, phase>>

(* dfsAndSetSynchronizer() looks at a neighbour, and calls itself for it.  The
   order of the neighbours is that of the formulas' texts: any. *)
LookAt(u) ==
  /\ Searching
  /\ u \in Top.todo
  /\ LET caller == [Top EXCEPT !.todo = Top.todo \ {u}] IN
     IF Visitable(u)
     THEN /\ sync' = [sync EXCEPT ![u] = created]
          /\ search' = Below \o <<caller, Call(u)>>
     ELSE /\ search' = Below \o <<caller>>
          /\ UNCHANGED sync
  /\ UNCHANGED <<registered, listed, notifies, created, cursor, phase>>

Return ==
  /\ Searching
  /\ Top.todo = {}
  /\ search' = Below
  /\ UNCHANGED <<registered, listed, notifies, sync, created, cursor, phase>>

Synchronized ==
  /\ phase = "synchronize" /\ search = <<>>
  /\ cursor = Null
  /\ phase' = "ready"
  /\ UNCHANGED <<registered, listed, notifies, sync, created, cursor, search>>

Next ==
  \/ RegisterVariable
  \/ \E value, status \in SUBSET Ids : InstantiateCalculatedVariable(value, status)
  \/ FormulaNotFound
  \/ Optimize
  \/ SynchronizeNext
  \/ \E u \in Ids : LookAt(u)
  \/ Return
  \/ Synchronized

Spec == Init /\ [][Next]_vars

-----------------------------------------------------------------------------
TypeOK ==
  /\ Len(registered) <= MaxVariables
  /\ \A v \in Ids : registered[v] \in [calc : BOOLEAN, value : SUBSET Ids, status : SUBSET Ids]
  /\ listed \subseteq Ids
  /\ notifies \in [Ids -> Ids \cup {Null}]
  /\ sync \in [Ids -> 0 .. created]
  /\ created \in 0 .. MaxVariables
  /\ cursor \in 0 .. MaxVariables
  /\ search \in Seq([var : Ids, todo : SUBSET Ids])
  /\ phase \in {"configure", "synchronize", "ready", "failed"}

(* After optimize() nothing that is still used points to an erased
   ParserVariable: neither the inputs of a formula nor m_notifiedVariable of a
   calculated variable, which the search follows
   (CalculatedVariablesEngine.cpp:283-294,313-329). *)
NoDanglingVariable ==
  \A v \in Ids : Inputs(v) \subseteq listed /\ notifies[v] \in listed \cup {Null}

(* The graph whose parts must not be updated concurrently: an input and the
   ParserVariable of a calculated variable it feeds, constants left out. *)
Live == {v \in listed : ~IsConstant(v)}
Linked(u, v) == u \in Inputs(v) \/ v \in Inputs(u)

(* What is reached from u: what every set has that has u and with a variable
   all those linked to it. *)
Closed(S) == \A u \in S, v \in Live : Linked(u, v) => v \in S
Connected(u, v) == \A S \in SUBSET Live : u \in S /\ Closed(S) => v \in S

(* When the engine is ready, two ParserVariables have the same synchronizer
   exactly if the graph connects them: no part of the graph is torn between
   two locks and independent parts do not share one, in whatever order the
   variables were registered; constants and erased variables have none, so
   they join no parts (CalculatedVariablesEngine.cpp:305-361). *)
DomainsAreComponents ==
  phase = "ready" =>
    /\ \A u, v \in Live : sync[u] # Null /\ (sync[u] = sync[v] <=> Connected(u, v))
    /\ \A v \in Ids \ Live : sync[v] = Null

=============================================================================
