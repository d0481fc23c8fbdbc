--------------------------- MODULE CalcVariables ---------------------------
(***************************************************************************)
(* Calculated variables at run time (CalculatedVariables/src and           *)
(* AddressSpace/src/ChangeNotifyingVariable.cpp).  A thread that sets a    *)
(* variable stores the value in the address space, then its change         *)
(* listener stores it in the ParserVariable, under the synchronizer the    *)
(* engine assigned, and updates every calculated variable that reads it,   *)
(* which sets that variable in turn.  The calls nest, so every thread has  *)
(* a stack of frames, one for each setValue() and the update() before it.  *)
(***************************************************************************)
EXTENDS Naturals, Sequences

CONSTANTS
  Threads,    (* the device thread, the server's own threads               *)
  Vars,       (* free, cache and calculated variables                      *)
  Calc,       (* the calculated ones                                       *)
  Free,       (* the free ones                                             *)
  ValueIn,    (* m_valueVariables of each, a sequence                      *)
  StatusIn,   (* m_statusVariables of each, a sequence                     *)
  ValueFormula(_, _),   (* what the value formula of a calculated variable  *)
                        (* gives for the numbers of its inputs             *)
  StatusFormula(_, _),  (* ... and the status formula; without one, not zero *)
  Notifies,   (* m_notifiedVariables of the ParserVariable of each         *)
  Listed,     (* the variables whose change listener optimize() left       *)
  Sync,       (* the synchronizer of each ParserVariable, or NoSync        *)
  NoSync,
  Writes,     (* which variables each thread sets                          *)
  Doubles,    (* the numbers there are                                     *)
  Numbers,    (* those that are written                                    *)
  NoValue,    (* an empty variant                                          *)
  Nobody,     (* a synchronizer is not held                                *)
  MaxWrites   (* bound: how often each variable is set                     *)

(* The calculated variables that a ParserVariable notifies, and the variables
   that can change: all but the calculated ones whose formulas read none. *)
Notified(v) == {Notifies[v][i] : i \in DOMAIN Notifies[v]}
Changing == {v \in Vars : v \notin Calc \/ \E u \in Vars : v \in Notified(u)}

(* The graph.  A ParserVariable notifies what reads it, and it is listed.  Each
   variable is set by one thread at most. *)
ASSUME GraphAssumption ==
  /\ Calc \subseteq Vars /\ Listed \subseteq Vars /\ Free \subseteq Vars \ Calc
  /\ ValueIn \in [Vars -> Seq(Vars)] /\ StatusIn \in [Vars -> Seq(Vars)]
  /\ Notifies \in [Vars -> Seq(Calc)]
  /\ \A c \in Calc : \A i \in DOMAIN ValueIn[c] : ValueIn[c][i] \in Listed /\ c \in Notified(ValueIn[c][i])
  /\ \A c \in Calc : \A i \in DOMAIN StatusIn[c] : StatusIn[c][i] \in Listed /\ c \in Notified(StatusIn[c][i])
  /\ Sync \in [Vars -> {Sync[v] : v \in Vars}]
  /\ Writes \in [Threads -> SUBSET (Vars \ Calc)]
  /\ \A t, u \in Threads : t # u => Writes[t] \cap Writes[u] = {}
  /\ Nobody \notin Threads

(* What EngineInputsShareSynchronizer proves of the engine (CalcEngineProofs): a
   calculated variable that is listed has the synchronizer of its inputs. *)
ASSUME SynchronizerAssumption ==
  \A c \in Calc \cap Listed : \A v \in Changing :
    c \in Notified(v) => Sync[v] = Sync[c] /\ Sync[c] # NoSync

ASSUME NumberAssumption ==
  /\ Numbers \cup {0} \subseteq Doubles /\ NoValue \notin Doubles
  /\ \A c \in Calc : \A numbers \in [DOMAIN ValueIn[c] -> Doubles] : ValueFormula(c, numbers) \in Doubles
  /\ MaxWrites \in Nat

Synchronizers == {Sync[v] : v \in Vars} \ {NoSync}

(* A UaDataValue: its status and its value. *)
Data(numbers) ==
  [st : {"Good", "Bad"}, val : numbers \cup {NoValue}] \cup [st : {"Waiting"}, val : {NoValue}]

VARIABLES
  asv,     (* the value of each variable in the address space              *)
  pv,      (* m_value and m_state of each ParserVariable                   *)
  stack,   (* the calls each thread is in, innermost last                  *)
  owner,   (* the holder of each (recursive) synchronizer                  *)
  depth,   (* how often the holder has locked it                           *)
  writes   (* how often each free or cache variable has been set           *)

vars == <<asv, pv, stack, owner, depth, writes>>

-----------------------------------------------------------------------------
(* Mutant: a variable that still waits for data counts as zero. *)
Convert_WaitingIsGood(d) ==
  IF d.val = NoValue THEN [state |-> IF d.st = "Waiting" THEN "Good" ELSE "Bad", num |-> 0]
  ELSE [state |-> "Good", num |-> d.val]

(* ChangeListener::operator(): what a ParserVariable makes of a value.  The
   status is looked at for BadWaitingForInitialData only. *)
Convert(d) ==
  IF d.st = "Waiting" THEN [state |-> "Waiting", num |-> 0]
  ELSE IF d.val = NoValue THEN [state |-> "Bad", num |-> 0]
  ELSE [state |-> "Good", num |-> d.val]

NotGood(c) == {i \in DOMAIN ValueIn[c] : pv[ValueIn[c][i]].state # "Good"}
FirstNotGood(c) == CHOOSE i \in NotGood(c) : \A j \in NotGood(c) : i <= j

(* update(), first part: the first value input that is not good decides. *)
Rejected(c) == [st |-> pv[ValueIn[c][FirstNotGood(c)]].state, val |-> NoValue]

(* What the parsers find in the variables they were given. *)
NumbersOf(inputs) == [i \in DOMAIN inputs |-> pv[inputs[i]].num]

(* update(), second part. *)
Evaluated(c) ==
  [st  |-> IF StatusFormula(c, NumbersOf(StatusIn[c])) = 0 THEN "Bad" ELSE "Good",
   val |-> ValueFormula(c, NumbersOf(ValueIn[c]))]

Updated(c) == IF NotGood(c) # {} THEN Rejected(c) ELSE Evaluated(c)

(* A cache variable that has not been set: what it shows is older than its
   listener. *)
Unset(v) == v \notin Calc \cup Free /\ writes[v] = 0

(* Every calculated variable shows what its inputs give. *)
Consistent ==
  /\ \A v \in Listed : Unset(v) \/ pv[v] = Convert(asv[v])
  /\ \A c \in Calc : asv[c] = Updated(c)

(* The configuration is loaded (Configurator): a free variable has its initial
   value, a cache variable shows one or waits for data, its ParserVariable
   waits in any case, and the calculated ones show what that gives them. *)
Init ==
  /\ writes = [v \in Vars \ Calc |-> 0]
  /\ asv \in [Vars -> {d \in Data(Doubles) : d.val = NoValue <=> d.st = "Waiting"}]
  /\ \A v \in Vars \ Calc : asv[v] \in Data(Numbers)
  /\ \A v \in Free : asv[v].st = "Good"
  /\ pv = [v \in Vars |-> IF Unset(v) THEN [state |-> "Waiting", num |-> 0] ELSE Convert(asv[v])]
  /\ Consistent
  /\ stack = [t \in Threads |-> <<>>]
  /\ owner = [s \in Synchronizers |-> Nobody]
  /\ depth = [s \in Synchronizers |-> 0]

-----------------------------------------------------------------------------
Top(t) == stack[t][Len(stack[t])]
At(t, place) == stack[t] # <<>> /\ Top(t).at = place
Replace(t, frame) == stack' = [stack EXCEPT ![t][Len(stack[t])] = frame]
Return(t) == stack' = [stack EXCEPT ![t] = SubSeq(@, 1, Len(@) - 1)]

(* A frame that is about to set v to d, and one that is about to update c. *)
SetFrame(v, d) == [at |-> "base", var |-> v, data |-> d, todo |-> <<>>]
UpdateFrame(c) == [SetFrame(c, asv[c]) EXCEPT !.at = "check"]

(* A thread sets a free or cache variable. *)
WriteVariable(t, v, d) ==
  /\ stack[t] = <<>>
  /\ writes[v] < MaxWrites
  /\ writes' = [writes EXCEPT ![v] = @ + 1]
  /\ stack' = [stack EXCEPT ![t] = <<SetFrame(v, d)>>]
  /\ UNCHANGED <<asv, pv, owner, depth>>

(* ChangeNotifyingVariable::setValue: the address space first, under no lock
   of its own, which takes the value, then the listener, if there is one. *)
SetBase(t) ==
  /\ At(t, "base")
  /\ asv' = [asv EXCEPT ![Top(t).var] = Top(t).data]
  /\ IF Top(t).var \in Listed THEN Replace(t, [Top(t) EXCEPT !.at = "listen"]) ELSE Return(t)
  /\ UNCHANGED <<pv, owner, depth, writes>>

(* Mutant: setValueNonSynchronized called directly. *)
Listen_Unlocked(t) ==
  /\ At(t, "listen")
  /\ pv' = [pv EXCEPT ![Top(t).var] = Convert(Top(t).data)]
  /\ Replace(t, [Top(t) EXCEPT !.at = "notify", !.todo = Notifies[Top(t).var]])
  /\ UNCHANGED <<asv, owner, depth, writes>>

(* ParserVariable::setValue: lock the synchronizer, if there is one, store
   value and state, and set out to notify. *)
Listen(t) ==
  /\ At(t, "listen")
  /\ LET v == Top(t).var  s == Sync[v] IN
       /\ IF s = NoSync THEN UNCHANGED <<owner, depth>>
          ELSE /\ owner[s] \in {Nobody, t}
               /\ owner' = [owner EXCEPT ![s] = t]
               /\ depth' = [depth EXCEPT ![s] = @ + 1]
       /\ pv' = [pv EXCEPT ![v] = Convert(Top(t).data)]
       /\ Replace(t, [Top(t) EXCEPT !.at = "notify", !.todo = Notifies[v]])
  /\ UNCHANGED <<asv, writes>>

(* The next calculated variable of m_notifiedVariables: update() it. *)
NotifyNext(t) ==
  /\ At(t, "notify")
  /\ Top(t).todo # <<>>
  /\ stack' = [stack EXCEPT ![t] =
       Append([@ EXCEPT ![Len(stack[t])] = [Top(t) EXCEPT !.todo = Tail(@)]], UpdateFrame(Head(Top(t).todo)))]
  /\ UNCHANGED <<asv, pv, owner, depth, writes>>

(* update() looks at the states of the value inputs ... *)
CheckInputs(t) ==
  /\ At(t, "check")
  /\ LET c == Top(t).var IN
       Replace(t, IF NotGood(c) # {} THEN SetFrame(c, Rejected(c)) ELSE [Top(t) EXCEPT !.at = "eval"])
  /\ UNCHANGED <<asv, pv, owner, depth, writes>>

(* ... and evaluates the formulas. *)
Evaluate(t) ==
  /\ At(t, "eval")
  /\ Replace(t, SetFrame(Top(t).var, Evaluated(Top(t).var)))
  /\ UNCHANGED <<asv, pv, owner, depth, writes>>

(* Mutant: the recursive lock is released with the innermost call. *)
NotifiedAll_Unlock(t) ==
  /\ At(t, "notify")
  /\ Top(t).todo = <<>>
  /\ LET s == Sync[Top(t).var] IN
       IF s = NoSync THEN UNCHANGED <<owner, depth>>
       ELSE /\ depth' = [depth EXCEPT ![s] = @ - 1]
            /\ owner' = [owner EXCEPT ![s] = Nobody]
  /\ Return(t)
  /\ UNCHANGED <<asv, pv, writes>>

(* Mutant: the lock is not released. *)
NotifiedAll_KeepLock(t) ==
  /\ At(t, "notify")
  /\ Top(t).todo = <<>>
  /\ Return(t)
  /\ UNCHANGED <<asv, pv, owner, depth, writes>>

(* All are notified: unlock and return from setValue(). *)
NotifiedAll(t) ==
  /\ At(t, "notify")
  /\ Top(t).todo = <<>>
  /\ LET s == Sync[Top(t).var] IN
       IF s = NoSync THEN UNCHANGED <<owner, depth>>
       ELSE /\ depth' = [depth EXCEPT ![s] = @ - 1]
            /\ owner' = [owner EXCEPT ![s] = IF depth[s] = 1 THEN Nobody ELSE t]
  /\ Return(t)
  /\ UNCHANGED <<asv, pv, writes>>

Step(t) ==
  \/ SetBase(t)
  \/ Listen(t)
  \/ NotifyNext(t)
  \/ CheckInputs(t)
  \/ Evaluate(t)
  \/ NotifiedAll(t)

Next ==
  \E t \in Threads :
    Step(t) \/ \E v \in Writes[t], d \in Data(Numbers) : WriteVariable(t, v, d)

Spec == Init /\ [][Next]_vars

(* A thread inside setValue() keeps running, and gets a synchronizer that is
   free again and again. *)
FairSpec == Spec /\ \A t \in Threads : WF_vars(Step(t)) /\ SF_vars(Listen(t))

-----------------------------------------------------------------------------
Idle == \A t \in Threads : stack[t] = <<>>

Frames ==
  [at : {"base", "listen", "notify", "check", "eval"}, var : Vars, data : Data(Doubles), todo : Seq(Calc)]

TypeOK ==
  /\ asv \in [Vars -> Data(Doubles)]
  /\ pv \in [Vars -> [state : {"Good", "Bad", "Waiting"}, num : Doubles]]
  /\ stack \in [Threads -> Seq(Frames)]
  /\ owner \in [Synchronizers -> Threads \cup {Nobody}]
  /\ depth \in [Synchronizers -> Nat]
  /\ writes \in [Vars \ Calc -> Nat]

(* When no thread is inside setValue(), every calculated variable shows what
   its formulas give for the present values of their inputs: no update was
   lost or overtaken by an older one (ChangeNotifyingVariable.cpp:57-62,
   ParserVariable.cpp:48-71, CalculatedVariable.cpp:68-112). *)
SettledIsConsistent == Idle => Consistent

(* The same where the result is wrong for good: the calculated variables that
   no other formula reads. "called whenever value OR status variable bound to
   this variable has changed" (CalculatedVariable.cpp:64). *)
FinalResultsAreCurrent == Idle => \A c \in Calc : asv[c] = Updated(c)

Updating(t, c) ==
  \E i \in DOMAIN stack[t] : stack[t][i].var = c /\ stack[t][i].at \in {"check", "eval", "base"}

(* No calculated variable is inside update() in two threads at once: its
   parsers and its result have no lock of their own
   (CalculatedVariable.cpp:68-112, ParserVariable.cpp:67-71). *)
UpdatedByOneThread ==
  \A c \in Calc : \A t, u \in Threads : Updating(t, c) /\ Updating(u, c) => t = u

(* An empty value never turns into a number downstream: while nothing moves, a
   calculated variable with an empty value input is empty and not good. *)
EmptyPropagates ==
  Idle => \A c \in Calc :
    (\E i \in DOMAIN ValueIn[c] : asv[ValueIn[c][i]].val = NoValue)
      => asv[c].val = NoValue /\ asv[c].st # "Good"

(* Every setValue() returns: the nested locks never form a cycle
   (ParserVariable.cpp:67-71). *)
SetValueReturns == \A t \in Threads : (stack[t] # <<>>) ~> (stack[t] = <<>>)

=============================================================================
