------------------------- MODULE CalcVariablesProofs -------------------------
(***************************************************************************)
(* Proofs about CalcVariables for every graph, every formula and every     *)
(* number of threads.  A calculated variable is "guarded" if everything    *)
(* that notifies it has one synchronizer: the thread that updates it holds *)
(* that synchronizer, so nobody else updates it or changes its inputs.     *)
(***************************************************************************)
EXTENDS CalcVariables, FiniteSets, FiniteSetTheorems, SequenceTheorems, WellFoundedInduction, TLAPS

Guarded ==
  {c \in Calc : \A u, v \in Changing :
     c \in Notified(u) /\ c \in Notified(v) => Sync[u] = Sync[v] /\ Sync[u] # NoSync}

(* What is left to notify of a frame. *)
Left(f) == {f.todo[k] : k \in DOMAIN f.todo}

(* The frames of a thread are a walk along the graph: it starts with a variable
   the thread has written, and each frame but the last one is notifying the
   variable of the next. *)
FrameInv(t, i) ==
  LET f == stack[t][i] IN
  /\ i < Len(stack[t]) => f.at = "notify"
  /\ i = 1 => f.var \in Writes[t] /\ f.at \notin {"check", "eval"} /\ writes[f.var] # 0
  /\ i > 1 => f.var \in Notified(stack[t][i - 1].var)
  /\ Left(f) \subseteq Notified(f.var)
StackInv == \A t \in Threads : \A i \in DOMAIN stack[t] : FrameInv(t, i)

(* The frames of t in which it has locked s. *)
Holds(f, s) == f.at = "notify" /\ Sync[f.var] = s
Held(t, s) == {i \in DOMAIN stack[t] : Holds(stack[t][i], s)}

LockInv ==
  \A s \in Synchronizers :
    /\ owner[s] = Nobody => depth[s] = 0
    /\ \A t \in Threads : /\ Held(t, s) # {} => owner[s] = t
                          /\ owner[s] = t => depth[s] = Cardinality(Held(t, s)) /\ depth[s] # 0

(* What is stored next is what was meant: a result belongs to the present
   inputs, and what the listener gets is what the address space has. *)
Meant(t) == stack[t] # <<>> =>
  /\ \A v \in Guarded \cup (Vars \ Calc) : Top(t).var = v /\ Top(t).at = "listen" => asv[v] = Top(t).data
  /\ \A c \in Guarded : Top(t).var = c =>
       /\ Top(t).at = "base" => Top(t).data = Updated(c)
       /\ Top(t).at = "eval" => NotGood(c) = {}
DataInv == \A t \in Threads : Meant(t)

(* The listener of v has still to be called; c has still to be updated. *)
Setting(v) == \E t \in Threads : (At(t, "base") \/ At(t, "listen")) /\ Top(t).var = v
Updates(f, c) ==
  \/ f.var = c /\ f.at \in {"check", "eval", "base"}
  \/ f.at = "notify" /\ c \in Left(f)
Pending(c) == \E t \in Threads : \E i \in DOMAIN stack[t] : Updates(stack[t][i], c)

ListenerInv ==
  \A v \in Listed : v \in Guarded \cup (Vars \ Calc) =>
    Unset(v) \/ pv[v] = Convert(asv[v]) \/ Setting(v)
ResultInv == \A c \in Guarded : asv[c] = Updated(c) \/ Pending(c)

(* A cache variable that nobody has set: its ParserVariable waits. *)
WaitInv == \A v \in Vars : Unset(v) => pv[v].state = "Waiting"

IInv == TypeOK /\ StackInv /\ LockInv /\ DataInv /\ ListenerInv /\ ResultInv /\ WaitInv

-----------------------------------------------------------------------------
(* Facts about the stacks. *)
LEMMA Stacks ==
  ASSUME TypeOK, NEW t \in Threads
  PROVE  /\ stack[t] \in Seq(Frames) /\ Len(stack[t]) \in Nat /\ DOMAIN stack[t] = 1 .. Len(stack[t])
         /\ \A i \in DOMAIN stack[t] : stack[t][i] \in Frames
         /\ stack[t] # <<>> => Len(stack[t]) \in DOMAIN stack[t] /\ Top(t) = stack[t][Len(stack[t])]
BY DEF TypeOK, Top

(* The last frame is replaced: nothing else moves. *)
LEMMA Replaced ==
  ASSUME TypeOK, NEW t \in Threads, stack[t] # <<>>, NEW f \in Frames, Replace(t, f)
  PROVE  /\ stack' \in [Threads -> Seq(Frames)]
         /\ \A u \in Threads : u # t => stack'[u] = stack[u]
         /\ Len(stack'[t]) = Len(stack[t]) /\ DOMAIN stack'[t] = DOMAIN stack[t] /\ stack'[t] # <<>>
         /\ \A i \in DOMAIN stack[t] : stack'[t][i] = IF i = Len(stack[t]) THEN f ELSE stack[t][i]
<1>1. stack[t] \in Seq(Frames) /\ Len(stack[t]) \in DOMAIN stack[t]
  BY Stacks
<1>2. stack'[t] = [stack[t] EXCEPT ![Len(stack[t])] = f] /\ DOMAIN stack' = Threads
      /\ \A u \in Threads : u # t => stack'[u] = stack[u]
  BY DEF Replace, TypeOK
<1>3. stack'[t] \in Seq(Frames)
  BY <1>1, <1>2
<1>4. stack' \in [Threads -> Seq(Frames)]
  BY <1>2, <1>3 DEF TypeOK, Replace
<1>5. QED
  BY <1>1, <1>2, <1>3, <1>4

(* The last frame is dropped. *)
LEMMA Returned ==
  ASSUME TypeOK, NEW t \in Threads, stack[t] # <<>>, Return(t)
  PROVE  /\ stack' \in [Threads -> Seq(Frames)]
         /\ \A u \in Threads : u # t => stack'[u] = stack[u]
         /\ Len(stack'[t]) = Len(stack[t]) - 1 /\ DOMAIN stack'[t] = DOMAIN stack[t] \ {Len(stack[t])}
         /\ \A i \in DOMAIN stack'[t] : stack'[t][i] = stack[t][i]
<1>1. stack[t] \in Seq(Frames) /\ Len(stack[t]) \in DOMAIN stack[t] /\ Len(stack[t]) \in Nat
  BY Stacks
<1>2. stack'[t] = SubSeq(stack[t], 1, Len(stack[t]) - 1) /\ DOMAIN stack' = Threads
      /\ \A u \in Threads : u # t => stack'[u] = stack[u]
  BY DEF Return, TypeOK
<1>3. stack'[t] \in Seq(Frames) /\ Len(stack'[t]) = Len(stack[t]) - 1
      /\ \A i \in 1 .. Len(stack[t]) - 1 : stack'[t][i] = stack[t][i]
  BY <1>1, <1>2
<1>4. stack' \in [Threads -> Seq(Frames)]
  BY <1>2, <1>3 DEF TypeOK, Return
<1>5. QED
  BY <1>1, <1>2, <1>3, <1>4

LEMMA Below ==
  ASSUME NEW k \in Nat, k # 0, k # 1
  PROVE  k - 1 \in 1 .. (k - 1) /\ k - 1 \in 1 .. k /\ k - 1 < k
OBVIOUS

LEMMA OneOrMore ==
  ASSUME NEW k \in Nat, k > 0
  PROVE  k = 1 \/ k > 1
OBVIOUS

LEMMA SetFrames ==
  ASSUME NEW v \in Vars, NEW d \in Data(Doubles)
  PROVE  /\ SetFrame(v, d) \in Frames /\ Left(SetFrame(v, d)) = {}
         /\ SetFrame(v, d).at = "base" /\ SetFrame(v, d).var = v /\ SetFrame(v, d).data = d
BY DEF SetFrame, Frames, Left

LEMMA Graph ==
  /\ Calc \subseteq Vars /\ Guarded \subseteq Calc
  /\ \A v \in Vars : Notified(v) \subseteq Calc
  /\ \A t \in Threads : Writes[t] \subseteq Vars \ Calc
<1>1. Calc \subseteq Vars /\ Guarded \subseteq Calc
  BY GraphAssumption DEF Guarded
<1>2. ASSUME NEW v \in Vars, NEW i \in DOMAIN Notifies[v]
      PROVE  Notifies[v][i] \in Calc
  <2>1. Notifies[v] \in Seq(Calc)
    BY GraphAssumption
  <2>2. QED
    BY <2>1
<1>3. QED
  BY <1>1, <1>2, GraphAssumption DEF Notified

(* A set of positions that is not empty has a first one. *)
LEMMA First ==
  ASSUME NEW T, T \subseteq Nat, T # {}
  PROVE  \E i \in T : \A j \in T : i <= j
<1>1. \E i \in T : \A j \in T : ~ (<<j, i>> \in OpToRel(<, Nat))
  BY NatLessThanWellFounded, WFMin
<1>2. PICK i \in T : \A j \in T : ~ (<<j, i>> \in OpToRel(<, Nat))
  BY <1>1
<1>3. ASSUME NEW j \in T
      PROVE  i <= j
  <2>1. i \in Nat /\ j \in Nat
    OBVIOUS
  <2>2. ~ (j < i)
    BY <1>2, <2>1 DEF OpToRel
  <2>3. QED
    BY <2>1, <2>2
<1>4. QED
  BY <1>3

LEMMA FirstIsNotGood ==
  ASSUME NEW c \in Calc, NotGood(c) # {}
  PROVE  FirstNotGood(c) \in NotGood(c)
<1>1. ValueIn[c] \in Seq(Vars)
  BY GraphAssumption
<1>2. NotGood(c) \subseteq Nat
  BY <1>1 DEF NotGood
<1>3. QED
  BY <1>2, First DEF FirstNotGood

(* What a formula gives depends on the ParserVariables that notify it. *)
LEMMA SameInputs ==
  ASSUME NEW c \in Calc, \A v \in Vars : c \in Notified(v) => pv'[v] = pv[v]
  PROVE  NotGood(c)' = NotGood(c) /\ Updated(c)' = Updated(c)
<1>1. /\ \A i \in DOMAIN ValueIn[c] : pv'[ValueIn[c][i]] = pv[ValueIn[c][i]]
      /\ \A i \in DOMAIN StatusIn[c] : pv'[StatusIn[c][i]] = pv[StatusIn[c][i]]
  BY GraphAssumption
<1>2. NotGood(c)' = NotGood(c)
  BY <1>1 DEF NotGood
<1>3. NumbersOf(ValueIn[c])' = NumbersOf(ValueIn[c]) /\ NumbersOf(StatusIn[c])' = NumbersOf(StatusIn[c])
  BY <1>1 DEF NumbersOf
<1>4. FirstNotGood(c)' = FirstNotGood(c)
  BY <1>2 DEF FirstNotGood
<1>5. Evaluated(c)' = Evaluated(c)
  BY <1>3 DEF Evaluated
<1>6. NotGood(c) # {} => Rejected(c)' = Rejected(c)
  <2>1. NotGood(c) # {} => FirstNotGood(c) \in DOMAIN ValueIn[c]
    BY FirstIsNotGood DEF NotGood
  <2>2. QED
    BY <1>1, <1>4, <2>1 DEF Rejected
<1>7. QED
  BY <1>2, <1>5, <1>6 DEF Updated

-----------------------------------------------------------------------------
(* Which frames can be of which variables. *)
LEMMA Places ==
  ASSUME TypeOK, StackInv, NEW t \in Threads, NEW i \in DOMAIN stack[t]
  PROVE  /\ i \in Nat /\ i > 0 /\ i <= Len(stack[t])
         /\ stack[t][i] \in Frames /\ stack[t][i].var \in Vars
         /\ stack[t][i].var \in Calc <=> i > 1
         /\ stack[t][i].var \in Changing
         /\ i > 1 => /\ i - 1 \in DOMAIN stack[t] /\ stack[t][i - 1].at = "notify"
                     /\ stack[t][i].var \in Notified(stack[t][i - 1].var)
         /\ stack[t][i].at # "notify" => i = Len(stack[t])
<1>1. /\ i \in 1 .. Len(stack[t]) /\ Len(stack[t]) \in Nat /\ stack[t][i] \in Frames
      /\ DOMAIN stack[t] = 1 .. Len(stack[t]) /\ \A j \in DOMAIN stack[t] : stack[t][j] \in Frames
  BY Stacks
<1>2. \A j \in DOMAIN stack[t] : stack[t][j].var \in Vars
  BY <1>1 DEF Frames
<1>3. i = 1 => stack[t][i].var \in Vars \ Calc
  BY Graph DEF StackInv, FrameInv
<1>4. i > 1 => i - 1 \in DOMAIN stack[t] /\ i - 1 < Len(stack[t])
  BY <1>1
<1>5. i > 1 => stack[t][i - 1].at = "notify" /\ stack[t][i].var \in Notified(stack[t][i - 1].var)
  BY <1>4 DEF StackInv, FrameInv
<1>6. i > 1 => stack[t][i].var \in Calc
  BY <1>2, <1>4, <1>5, Graph
<1>7. stack[t][i].var \in Changing
  BY <1>1, <1>2, <1>3, <1>4, <1>5 DEF Changing
<1>8. stack[t][i].at # "notify" => i = Len(stack[t])
  BY <1>1 DEF StackInv, FrameInv
<1>9. QED
  BY <1>1, <1>2, <1>3, <1>4, <1>5, <1>6, <1>7, <1>8

(* Who updates a guarded variable holds the synchronizer of all that notifies
   it ... *)
LEMMA UpdaterHolds ==
  ASSUME TypeOK, StackInv, LockInv, NEW t \in Threads, NEW i \in DOMAIN stack[t],
         stack[t][i].var \in Guarded, NEW v \in Changing, stack[t][i].var \in Notified(v)
  PROVE  Sync[v] \in Synchronizers /\ owner[Sync[v]] = t
<1> DEFINE p == stack[t][i - 1].var
<1>1. i > 1 /\ i - 1 \in DOMAIN stack[t] /\ stack[t][i - 1].at = "notify" /\ stack[t][i].var \in Notified(p)
  BY Places, Graph
<1>2. p \in Changing /\ p \in Vars
  BY <1>1, Places
<1>3. Sync[v] = Sync[p] /\ Sync[v] # NoSync
  BY <1>1, <1>2 DEF Guarded
<1>4. Sync[v] \in Synchronizers
  BY <1>2, <1>3 DEF Synchronizers
<1>5. i - 1 \in Held(t, Sync[v])
  BY <1>1, <1>3 DEF Held, Holds
<1>6. QED
  BY <1>4, <1>5 DEF LockInv

(* ... so there is one thread that does. *)
LEMMA OneUpdater ==
  ASSUME TypeOK, StackInv, LockInv, NEW t \in Threads, NEW u \in Threads,
         NEW i \in DOMAIN stack[t], NEW j \in DOMAIN stack[u],
         stack[t][i].var = stack[u][j].var, stack[t][i].var \in Guarded
  PROVE  t = u
<1>1. i > 1 /\ i - 1 \in DOMAIN stack[t] /\ stack[t][i].var \in Notified(stack[t][i - 1].var)
  BY Places, Graph
<1>2. stack[t][i - 1].var \in Changing
  BY <1>1, Places
<1>3. owner[Sync[stack[t][i - 1].var]] = t /\ owner[Sync[stack[t][i - 1].var]] = u
  BY <1>1, <1>2, UpdaterHolds
<1>4. QED
  BY <1>3

(* A variable that is set, but not calculated, is set by one thread, too. *)
LEMMA OneSetter ==
  ASSUME TypeOK, StackInv, LockInv, NEW t \in Threads, NEW u \in Threads,
         NEW i \in DOMAIN stack[t], NEW j \in DOMAIN stack[u],
         stack[t][i].var = stack[u][j].var, stack[t][i].var \in Guarded \cup (Vars \ Calc)
  PROVE  t = u
<1>1. CASE stack[t][i].var \in Guarded
  BY <1>1, OneUpdater
<1>2. CASE stack[t][i].var \notin Calc
  <2>1. i = 1 /\ j = 1
    BY <1>2, Places
  <2>2. stack[t][i].var \in Writes[t] /\ stack[t][i].var \in Writes[u]
    BY <2>1 DEF StackInv, FrameInv
  <2>3. QED
    BY <2>2, GraphAssumption
<1>3. QED
  BY <1>1, <1>2

-----------------------------------------------------------------------------
LEMMA Types ==
  /\ Data(Numbers) \subseteq Data(Doubles)
  /\ \A d \in Data(Doubles) : Convert(d) \in [state : {"Good", "Bad", "Waiting"}, num : Doubles]
  /\ \A v \in Vars : Sync[v] # NoSync => Sync[v] \in Synchronizers
<1>1. Data(Numbers) \subseteq Data(Doubles)
  BY NumberAssumption DEF Data
<1>2. ASSUME NEW d \in Data(Doubles)
      PROVE  Convert(d) \in [state : {"Good", "Bad", "Waiting"}, num : Doubles]
  <2>1. d.st = "Waiting" \/ d.val = NoValue \/ d.val \in Doubles
    BY <1>2 DEF Data
  <2>2. QED
    BY <2>1, NumberAssumption DEF Convert
<1>3. QED
  BY <1>1, <1>2 DEF Synchronizers

(* What update() makes of its inputs is a value that can be shown. *)
LEMMA ResultType ==
  ASSUME TypeOK, NEW c \in Calc
  PROVE  /\ NotGood(c) # {} => Rejected(c) \in Data(Doubles)
         /\ Evaluated(c) \in Data(Doubles)
<1>1. \A i \in DOMAIN ValueIn[c] : ValueIn[c][i] \in Vars
  <2>1. ValueIn[c] \in Seq(Vars)
    BY GraphAssumption
  <2>2. QED
    BY <2>1
<1>2. \A v \in Vars : pv[v].state \in {"Good", "Bad", "Waiting"} /\ pv[v].num \in Doubles
  BY DEF TypeOK
<1>3. NotGood(c) # {} => Rejected(c) \in Data(Doubles)
  <2>1. NotGood(c) # {} => FirstNotGood(c) \in NotGood(c)
    BY FirstIsNotGood
  <2>2. NotGood(c) # {} => pv[ValueIn[c][FirstNotGood(c)]].state \in {"Bad", "Waiting"}
    BY <1>1, <1>2, <2>1 DEF NotGood
  <2>3. QED
    BY <2>2 DEF Rejected, Data
<1>4. Evaluated(c) \in Data(Doubles)
  <2>1. NumbersOf(ValueIn[c]) \in [DOMAIN ValueIn[c] -> Doubles]
    BY <1>1, <1>2 DEF NumbersOf
  <2>2. ValueFormula(c, NumbersOf(ValueIn[c])) \in Doubles
    BY <2>1, NumberAssumption
  <2>3. QED
    BY <2>2 DEF Evaluated, Data
<1>5. QED
  BY <1>3, <1>4

LEMMA InitInv == Init => IInv
<1> SUFFICES ASSUME Init PROVE IInv
  OBVIOUS
<1>1. \A t \in Threads : stack[t] = <<>>
  BY DEF Init
<1>2. TypeOK
  <2>1. asv \in [Vars -> Data(Doubles)]
    BY DEF Init
  <2>2. pv \in [Vars -> [state : {"Good", "Bad", "Waiting"}, num : Doubles]]
    BY <2>1, Types, NumberAssumption DEF Init
  <2>3. stack \in [Threads -> Seq(Frames)]
    BY DEF Init
  <2>4. QED
    BY <2>1, <2>2, <2>3 DEF Init, TypeOK
<1>3. StackInv /\ DataInv
  BY <1>1 DEF StackInv, DataInv, Meant
<1>4. LockInv
  <2>1. \A t \in Threads, s \in Synchronizers : Held(t, s) = {}
    BY <1>1 DEF Held, Holds
  <2>2. QED
    BY <2>1, GraphAssumption DEF Init, LockInv
<1>5. ListenerInv /\ ResultInv
  BY Graph DEF Init, Consistent, ListenerInv, ResultInv
<1>6. WaitInv
  BY DEF Init, WaitInv
<1>7. QED
  BY <1>2, <1>3, <1>4, <1>5, <1>6 DEF IInv

-----------------------------------------------------------------------------
(* The locks stay as they are while the same frames notify. *)
LEMMA LocksStay ==
  ASSUME LockInv, UNCHANGED <<owner, depth>>,
         \A t \in Threads, s \in Synchronizers : Held(t, s)' = Held(t, s)
  PROVE  LockInv'
BY DEF LockInv

(* The frames that hold a synchronizer can be counted. *)
LEMMA HeldIsFinite ==
  ASSUME TypeOK, NEW t \in Threads, NEW s
  PROVE  IsFiniteSet(Held(t, s))
<1>1. DOMAIN stack[t] = 1 .. Len(stack[t]) /\ Len(stack[t]) \in Nat
  BY Stacks
<1>2. IsFiniteSet(1 .. Len(stack[t]))
  BY <1>1, FS_Interval
<1>3. Held(t, s) \subseteq 1 .. Len(stack[t])
  BY <1>1 DEF Held
<1>4. QED
  BY <1>2, <1>3, FS_Subset

(* The last frame of a thread is another one now. *)
LEMMA HeldReplaced ==
  ASSUME NEW t \in Threads, NEW s, NEW n \in DOMAIN stack[t], DOMAIN stack'[t] = DOMAIN stack[t],
         \A i \in DOMAIN stack[t] : i # n => stack'[t][i] = stack[t][i]
  PROVE  /\ (Holds(stack[t][n], s) <=> Holds(stack'[t][n], s)) => Held(t, s)' = Held(t, s)
         /\ Holds(stack'[t][n], s) => Held(t, s)' = Held(t, s) \cup {n}
         /\ ~ Holds(stack[t][n], s) => n \notin Held(t, s)
<1>1. ASSUME Holds(stack[t][n], s) <=> Holds(stack'[t][n], s)
      PROVE  Held(t, s)' = Held(t, s)
  BY <1>1 DEF Held
<1>2. ASSUME Holds(stack'[t][n], s)
      PROVE  Held(t, s)' = Held(t, s) \cup {n}
  BY <1>2 DEF Held
<1>3. QED
  BY <1>1, <1>2 DEF Held

(* A thread locks a synchronizer that is free or its own. *)
LEMMA Locked ==
  ASSUME TypeOK, LockInv, NEW t \in Threads, NEW s \in Synchronizers, NEW n,
         owner[s] \in {Nobody, t},
         owner'[s] = t, depth'[s] = depth[s] + 1,
         \A r \in Synchronizers : r # s => owner'[r] = owner[r] /\ depth'[r] = depth[r],
         n \notin Held(t, s), Held(t, s)' = Held(t, s) \cup {n},
         \A u \in Threads, r \in Synchronizers : u # t \/ r # s => Held(u, r)' = Held(u, r)
  PROVE  LockInv'
<1>1. Cardinality(Held(t, s)') = Cardinality(Held(t, s)) + 1
  BY HeldIsFinite, FS_AddElement
<1>2. owner'[s] = t /\ depth'[s] = depth[s] + 1 /\ depth[s] \in Nat /\ t # Nobody
  BY GraphAssumption DEF TypeOK
<1>3. depth[s] = Cardinality(Held(t, s))
  <2>1. CASE owner[s] = t
    BY <2>1 DEF LockInv
  <2>2. CASE owner[s] = Nobody
    <3>1. Held(t, s) = {} /\ depth[s] = 0
      BY <2>2, <1>2 DEF LockInv
    <3>2. QED
      BY <3>1, FS_EmptySet
  <2>3. QED
    BY <2>1, <2>2
<1>4. \A u \in Threads : u # t => Held(u, s)' = {}
  BY GraphAssumption DEF LockInv
<1>5. ASSUME NEW r \in Synchronizers
      PROVE  /\ owner'[r] = Nobody => depth'[r] = 0
             /\ \A u \in Threads :
                  /\ Held(u, r)' # {} => owner'[r] = u
                  /\ owner'[r] = u => depth'[r] = Cardinality(Held(u, r)') /\ depth'[r] # 0
  <2>1. CASE r = s
    <3>1. depth'[s] = Cardinality(Held(t, s)')
      BY <1>1, <1>2, <1>3
    <3>2. depth'[s] # 0
      BY <1>2
    <3>3. QED
      BY <2>1, <3>1, <3>2, <1>2, <1>4
  <2>2. CASE r # s
    <3>1. owner'[r] = owner[r] /\ depth'[r] = depth[r]
      BY <2>2
    <3>2. \A u \in Threads : Held(u, r)' = Held(u, r)
      BY <2>2
    <3>3. QED
      BY <3>1, <3>2 DEF LockInv
  <2>3. QED
    BY <2>1, <2>2
<1>6. QED
  BY <1>5 DEF LockInv

(* A thread unlocks a synchronizer that it holds. *)
LEMMA Unlocked ==
  ASSUME TypeOK, LockInv, NEW t \in Threads, NEW s \in Synchronizers, NEW n \in Held(t, s),
         owner'[s] = IF depth[s] = 1 THEN Nobody ELSE t,
         depth'[s] = depth[s] - 1,
         \A r \in Synchronizers : r # s => owner'[r] = owner[r] /\ depth'[r] = depth[r],
         Held(t, s)' = Held(t, s) \ {n},
         \A u \in Threads, r \in Synchronizers : u # t \/ r # s => Held(u, r)' = Held(u, r)
  PROVE  LockInv' /\ depth'[s] \in Nat
<1>1. owner[s] = t /\ depth[s] = Cardinality(Held(t, s)) /\ depth[s] # 0
  BY DEF LockInv
<1>2. Cardinality(Held(t, s)') = Cardinality(Held(t, s)) - 1 /\ IsFiniteSet(Held(t, s)')
  BY HeldIsFinite, FS_RemoveElement
<1>3. /\ depth[s] \in Nat /\ depth'[s] = depth[s] - 1 /\ t # Nobody
      /\ owner'[s] = IF depth[s] = 1 THEN Nobody ELSE t
  BY GraphAssumption DEF TypeOK
<1>4. \A u \in Threads : u # t => Held(u, s)' = {}
  BY <1>1 DEF LockInv
<1>5. depth'[s] = 0 => Held(t, s)' = {}
  <2>1. depth'[s] = 0 => Cardinality(Held(t, s)') = 0
    BY <1>1, <1>2, <1>3
  <2>2. QED
    BY <1>2, <2>1, FS_EmptySet
<1>6. ASSUME NEW r \in Synchronizers
      PROVE  /\ owner'[r] = Nobody => depth'[r] = 0
             /\ \A u \in Threads :
                  /\ Held(u, r)' # {} => owner'[r] = u
                  /\ owner'[r] = u => depth'[r] = Cardinality(Held(u, r)') /\ depth'[r] # 0
  <2>1. CASE r = s
    <3>1. owner'[s] = Nobody <=> depth'[s] = 0
      BY <1>1, <1>3
    <3>2. owner'[s] = Nobody \/ owner'[s] = t
      BY <1>3
    <3>3. depth'[s] = Cardinality(Held(t, s)')
      BY <1>1, <1>2, <1>3
    <3>4. QED
      BY <2>1, <3>1, <3>2, <3>3, <1>3, <1>4, <1>5, GraphAssumption
  <2>2. CASE r # s
    <3>1. owner'[r] = owner[r] /\ depth'[r] = depth[r]
      BY <2>2
    <3>2. \A u \in Threads : Held(u, r)' = Held(u, r)
      BY <2>2
    <3>3. QED
      BY <3>1, <3>2 DEF LockInv
  <2>3. QED
    BY <2>1, <2>2
<1>7. depth'[s] \in Nat
  BY <1>1, <1>3
<1>8. QED
  BY <1>6, <1>7 DEF LockInv

(* What another thread stores next is meant as before if its variable and what
   notifies that are left alone. *)
LEMMA OthersMeant ==
  ASSUME DataInv, NEW u \in Threads, stack'[u] = stack[u],
         \A v \in Guarded \cup (Vars \ Calc) : stack[u] # <<>> /\ v = Top(u).var => asv'[v] = asv[v],
         \A c \in Guarded : stack[u] # <<>> /\ c = Top(u).var
                           => Updated(c)' = Updated(c) /\ NotGood(c)' = NotGood(c)
  PROVE  Meant(u)'
<1>1. Top(u)' = Top(u)
  BY DEF Top
<1>2. Meant(u)
  BY DEF DataInv
<1>3. QED
  BY <1>1, <1>2 DEF Meant

(* An update is pending as long as a frame of the thread at work stands for it. *)
LEMMA PendingStays ==
  ASSUME NEW c, Pending(c), NEW t \in Threads, \A u \in Threads : u # t => stack'[u] = stack[u],
         \A i \in DOMAIN stack[t] :
           Updates(stack[t][i], c) => i \in DOMAIN stack'[t] /\ Updates(stack'[t][i], c)
  PROVE  Pending(c)'
BY DEF Pending

(* The listener of w has still to be called if the thread at work sets another
   variable. *)
LEMMA SettingStays ==
  ASSUME NEW w, Setting(w), NEW t \in Threads, \A u \in Threads : u # t => stack'[u] = stack[u],
         At(t, "base") \/ At(t, "listen") => Top(t).var # w
  PROVE  Setting(w)'
BY DEF Setting, At, Top

(* A thread begins to set a variable. *)
LEMMA WriteStep ==
  ASSUME IInv, NEW t \in Threads, NEW v \in Writes[t], NEW d \in Data(Numbers), WriteVariable(t, v, d)
  PROVE  IInv'
<1> USE DEF IInv
<1> DEFINE f == SetFrame(v, d)
<1>1. v \in Vars \ Calc /\ d \in Data(Doubles)
  BY Graph, Types
<1>2. f \in Frames /\ f.at = "base" /\ f.var = v /\ f.todo = <<>>
  BY <1>1 DEF SetFrame, Frames
<1>3. /\ stack' \in [Threads -> Seq(Frames)] /\ stack'[t] = <<f>> /\ stack[t] = <<>>
      /\ \A u \in Threads : u # t => stack'[u] = stack[u]
  BY <1>2 DEF WriteVariable, TypeOK
<1>4. DOMAIN stack'[t] = {1} /\ stack'[t][1] = f /\ Len(stack'[t]) = 1 /\ DOMAIN stack[t] = {}
  BY <1>3
<1>5. /\ writes' \in [Vars \ Calc -> Nat] /\ writes'[v] # 0
      /\ \A w \in Vars \ Calc : writes'[w] = writes[w] \/ writes'[w] # 0
  BY <1>1 DEF WriteVariable, TypeOK
<1>6. UNCHANGED <<asv, pv, owner, depth>>
  BY DEF WriteVariable
<1>7. TypeOK'
  BY <1>3, <1>5, <1>6 DEF TypeOK
<1>8. StackInv'
  <2>1. ASSUME NEW u \in Threads, NEW i \in DOMAIN stack'[u], u # t
        PROVE  FrameInv(u, i)'
    <3>1. i \in DOMAIN stack[u] /\ stack'[u] = stack[u]
      BY <1>3, <2>1
    <3>2. FrameInv(u, i) /\ (i = 1 => stack[u][i].var \in Vars \ Calc)
      BY <3>1, Graph DEF StackInv, FrameInv
    <3>3. QED
      BY <3>1, <3>2, <1>5 DEF FrameInv
  <2>2. ASSUME NEW i \in DOMAIN stack'[t]
        PROVE  FrameInv(t, i)'
    BY <1>2, <1>4, <1>5, <2>2 DEF Left, FrameInv
  <2>3. QED
    BY <2>1, <2>2 DEF StackInv
<1>9. LockInv'
  <2>1. \A u \in Threads, s \in Synchronizers : Held(u, s)' = Held(u, s)
    BY <1>2, <1>3, <1>4 DEF Held, Holds
  <2>2. QED
    BY <1>6, <2>1, LocksStay
<1>10. DataInv'
  <2>1. \A c \in Guarded : Updated(c)' = Updated(c) /\ NotGood(c)' = NotGood(c)
    BY <1>6, Graph, SameInputs
  <2>2. Top(t)' = f
    BY <1>4 DEF Top
  <2>3. f.at = "base" /\ f.var \notin Guarded
    BY <1>1, <1>2, Graph
  <2>4. Meant(t)'
    BY <2>2, <2>3 DEF Meant
  <2>5. \A u \in Threads : u # t => Meant(u)'
    BY <1>3, <1>6, <2>1, OthersMeant
  <2>6. QED
    BY <2>4, <2>5 DEF DataInv
<1>11. ListenerInv'
  <2>1. ASSUME NEW w \in Vars, Setting(w)
        PROVE  Setting(w)'
    BY <2>1, <1>3 DEF Setting, At, Top
  <2>2. Setting(v)'
    <3>1. At(t, "base")' /\ Top(t)'.var = v
      BY <1>2, <1>3, <1>4 DEF At, Top
    <3>2. QED
      BY <3>1 DEF Setting
  <2>3. \A w \in Vars : w # v /\ Unset(w) => Unset(w)'
    BY <1>1 DEF Unset, WriteVariable, TypeOK
  <2>4. QED
    BY <1>6, <2>1, <2>2, <2>3, GraphAssumption DEF ListenerInv
<1>12. ResultInv'
  <2>1. \A c \in Guarded : Updated(c)' = Updated(c)
    BY <1>6, Graph, SameInputs
  <2>2. ASSUME NEW c \in Guarded, Pending(c)
        PROVE  Pending(c)'
    BY <2>2, <1>3, <1>4 DEF Pending
  <2>3. QED
    BY <1>6, <2>1, <2>2 DEF ResultInv
<1>13. WaitInv'
  BY <1>5, <1>6 DEF WaitInv, Unset
<1>14. QED
  BY <1>7, <1>8, <1>9, <1>10, <1>11, <1>12, <1>13

(* A step of one thread leaves the frames of the others alone. *)
LEMMA OthersStay ==
  ASSUME StackInv, NEW t \in Threads, writes' = writes, \A u \in Threads : u # t => stack'[u] = stack[u]
  PROVE  \A u \in Threads : u # t => \A i \in DOMAIN stack'[u] : FrameInv(u, i)'
<1>1. ASSUME NEW u \in Threads, u # t, NEW i \in DOMAIN stack'[u]
      PROVE  FrameInv(u, i)'
  <2>1. stack'[u] = stack[u] /\ FrameInv(u, i)
    BY <1>1 DEF StackInv
  <2>2. QED
    BY <2>1 DEF FrameInv
<1>2. QED
  BY <1>1

(* Who is at work is at the last frame. *)
LEMMA AtTop ==
  ASSUME TypeOK, StackInv, NEW t \in Threads, NEW place, At(t, place)
  PROVE  /\ stack[t] # <<>> /\ Len(stack[t]) \in DOMAIN stack[t] /\ Top(t) = stack[t][Len(stack[t])]
         /\ Top(t) \in Frames /\ Top(t).at = place /\ Top(t).var \in Vars /\ Top(t).var \in Changing
         /\ Top(t).var \in Calc <=> Len(stack[t]) > 1
         /\ FrameInv(t, Len(stack[t]))
         /\ Len(stack[t]) \in Nat /\ Len(stack[t]) > 0
         /\ Len(stack[t]) = 1 \/ Len(stack[t]) > 1
<1>1. stack[t] # <<>> /\ Len(stack[t]) \in DOMAIN stack[t] /\ Top(t) = stack[t][Len(stack[t])] /\ Top(t).at = place
  BY Stacks DEF At
<1>2. FrameInv(t, Len(stack[t]))
  BY <1>1 DEF StackInv
<1>3. Len(stack[t]) \in Nat /\ Len(stack[t]) > 0
  BY <1>1, Places
<1>4. Len(stack[t]) = 1 \/ Len(stack[t]) > 1
  BY <1>3, OneOrMore
<1>5. QED
  BY <1>1, <1>2, <1>3, <1>4, Places

(* The value goes to the address space, and the listener is called if there is
   one. *)
LEMMA SetBaseStep ==
  ASSUME IInv, NEW t \in Threads, SetBase(t)
  PROVE  IInv'
<1> USE DEF IInv
<1> DEFINE f == Top(t)
           v == Top(t).var
           n == Len(stack[t])
           g == [f EXCEPT !.at = "listen"]
<1>1. /\ stack[t] # <<>> /\ n \in DOMAIN stack[t] /\ f = stack[t][n] /\ f \in Frames /\ f.at = "base"
      /\ v \in Vars /\ v \in Changing /\ (v \in Calc <=> n > 1) /\ FrameInv(t, n) /\ n > 0
  <2>1. At(t, "base")
    BY DEF SetBase
  <2>2. QED
    BY <2>1, AtTop
<1>2. n \in Nat /\ DOMAIN stack[t] = 1 .. n /\ stack[t] \in Seq(Frames)
  BY Stacks
<1>3. asv' = [asv EXCEPT ![v] = f.data] /\ UNCHANGED <<pv, owner, depth, writes>>
  BY DEF SetBase
<1>4. g \in Frames /\ g.at = "listen" /\ g.var = v /\ g.data = f.data /\ g.todo = f.todo
  BY <1>1 DEF Frames
<1>5. v \in Listed =>
        /\ stack' \in [Threads -> Seq(Frames)] /\ Len(stack'[t]) = n /\ DOMAIN stack'[t] = DOMAIN stack[t]
        /\ stack'[t] # <<>>
        /\ \A i \in DOMAIN stack[t] : stack'[t][i] = IF i = n THEN g ELSE stack[t][i]
  BY <1>1, <1>4, Replaced DEF SetBase
<1>6. v \notin Listed =>
        /\ stack' \in [Threads -> Seq(Frames)] /\ Len(stack'[t]) = n - 1 /\ DOMAIN stack'[t] = DOMAIN stack[t] \ {n}
        /\ \A i \in DOMAIN stack'[t] : stack'[t][i] = stack[t][i]
  BY <1>1, Returned DEF SetBase
<1>7. \A u \in Threads : u # t => stack'[u] = stack[u]
  BY <1>1, <1>4, Replaced, Returned DEF SetBase
<1>8. TypeOK'
  <2>1. f.data \in Data(Doubles)
    BY <1>1 DEF Frames
  <2>2. asv' \in [Vars -> Data(Doubles)]
    BY <1>3, <2>1 DEF TypeOK
  <2>3. QED
    BY <1>3, <1>5, <1>6, <2>2 DEF TypeOK
<1>9. StackInv'
  <2>1. ASSUME NEW i \in DOMAIN stack'[t]
        PROVE  FrameInv(t, i)'
    <3>1. i \in DOMAIN stack[t] /\ FrameInv(t, i)
      BY <2>1, <1>5, <1>6 DEF StackInv
    <3>2. i > 1 => i - 1 \in DOMAIN stack[t] /\ i - 1 # n
      BY <3>1, <1>2
    <3>3. CASE v \in Listed
      <4>1. stack'[t][i] = IF i = n THEN g ELSE stack[t][i]
        BY <3>1, <3>3, <1>5
      <4>2. i > 1 => stack'[t][i - 1] = stack[t][i - 1]
        BY <3>2, <3>3, <1>5
      <4>3. Left(g) = Left(f)
        BY <1>4 DEF Left
      <4>4. CASE i = n
        BY <4>1, <4>2, <4>3, <4>4, <3>1, <3>3, <1>1, <1>2, <1>3, <1>4, <1>5 DEF FrameInv
      <4>5. CASE i # n
        BY <4>1, <4>2, <4>5, <3>1, <3>3, <1>2, <1>3, <1>5 DEF FrameInv
      <4>6. QED
        BY <4>4, <4>5
    <3>4. CASE v \notin Listed
      <4>1. i > 1 => i - 1 \in DOMAIN stack'[t]
        BY <3>1, <3>4, <1>2, <1>6
      <4>2. stack'[t][i] = stack[t][i] /\ (i > 1 => stack'[t][i - 1] = stack[t][i - 1])
        BY <4>1, <3>4, <1>6
      <4>3. i < Len(stack'[t]) => i < Len(stack[t])
        BY <3>1, <3>4, <1>2, <1>6
      <4>4. QED
        BY <3>1, <4>2, <4>3, <1>3 DEF FrameInv
    <3>5. QED
      BY <3>3, <3>4
  <2>2. QED
    BY <2>1, <1>3, <1>7, OthersStay DEF StackInv
<1>10. LockInv'
  <2>1. \A s \in Synchronizers : Held(t, s)' = Held(t, s)
    BY <1>1, <1>4, <1>5, <1>6 DEF Held, Holds
  <2>2. \A u \in Threads, s \in Synchronizers : Held(u, s)' = Held(u, s)
    BY <2>1, <1>7 DEF Held, Holds
  <2>3. QED
    BY <1>3, <2>2, LocksStay
<1>11. \A c \in Guarded : Updated(c)' = Updated(c) /\ NotGood(c)' = NotGood(c)
  BY <1>3, Graph, SameInputs
<1>12. DataInv'
  <2>1. ASSUME NEW u \in Threads, u # t
        PROVE  Meant(u)'
    <3>1. ASSUME NEW w \in Guarded \cup (Vars \ Calc), stack[u] # <<>>, w = Top(u).var
          PROVE  asv'[w] = asv[w]
      <4>1. Len(stack[u]) \in DOMAIN stack[u] /\ Top(u) = stack[u][Len(stack[u])]
        BY <3>1, Stacks
      <4>2. w # v
        BY <4>1, <3>1, <1>1, <2>1, OneSetter
      <4>3. QED
        BY <4>2, <3>1, <1>1, <1>3, Graph DEF TypeOK
    <3>2. QED
      BY <3>1, <1>7, <1>11, <2>1, OthersMeant
  <2>2. ASSUME stack'[t] # <<>>
        PROVE  Meant(t)'
    <3>1. CASE v \in Listed
      <4>1. Top(t)' = g
        BY <3>1, <1>1, <1>5 DEF Top
      <4>2. asv'[v] = f.data
        BY <1>1, <1>3 DEF TypeOK
      <4>3. QED
        BY <4>1, <4>2, <1>4 DEF Meant
    <3>2. CASE v \notin Listed
      <4>1. n - 1 \in DOMAIN stack'[t] /\ n - 1 \in DOMAIN stack[t] /\ n - 1 < n
        <5>1. Len(stack'[t]) = n - 1 /\ stack'[t] \in Seq(Frames) /\ DOMAIN stack'[t] = 1 .. (n - 1)
          BY <3>2, <1>2, <1>6
        <5>2. n - 1 # 0
          <6>1. Len(stack'[t]) # 0
            BY <5>1, <2>2, EmptySeq
          <6>2. QED
            BY <5>1, <6>1
        <5>3. QED
          <6>1. n \in Nat /\ n # 1 /\ n \in 1 .. n
            BY <5>2, <1>1, <1>2
          <6>2. n # 0
            BY <6>1
          <6>3. n - 1 \in 1 .. (n - 1) /\ n - 1 \in 1 .. n /\ n - 1 < n
            BY <6>1, <6>2, Below
          <6>4. QED
            BY <5>1, <6>3, <1>2
      <4>2. Top(t)' = stack[t][n - 1]
        BY <3>2, <4>1, <1>6 DEF Top
      <4>3. stack[t][n - 1].at = "notify"
        BY <4>1 DEF StackInv, FrameInv
      <4>4. QED
        BY <4>2, <4>3 DEF Meant
    <3>3. QED
      BY <3>1, <3>2
  <2>3. Meant(t)'
    BY <2>2 DEF Meant
  <2>4. QED
    BY <2>1, <2>3 DEF DataInv
<1>13. ListenerInv'
  <2>1. ASSUME NEW w \in Listed, w \in Guarded \cup (Vars \ Calc)
        PROVE  Unset(w)' \/ pv'[w] = Convert(asv'[w]) \/ Setting(w)'
    <3>1. CASE w = v
      <4>1. At(t, "listen")' /\ Top(t)'.var = v
        BY <2>1, <3>1, <1>1, <1>4, <1>5 DEF At, Top
      <4>2. QED
        BY <3>1, <4>1 DEF Setting
    <3>2. CASE w # v
      <4>1. asv'[w] = asv[w] /\ w \in Vars
        BY <2>1, <3>2, <1>3, <1>1, GraphAssumption DEF TypeOK
      <4>2. Unset(w) => Unset(w)'
        BY <1>3 DEF Unset
      <4>3. Setting(w) => Setting(w)'
        BY <3>2, <1>7, SettingStays
      <4>4. QED
        BY <2>1, <4>1, <4>2, <4>3, <1>3 DEF ListenerInv
    <3>3. QED
      BY <3>1, <3>2
  <2>2. QED
    BY <2>1 DEF ListenerInv
<1>14. ResultInv'
  <2>1. ASSUME NEW c \in Guarded
        PROVE  asv'[c] = Updated(c)' \/ Pending(c)'
    <3>1. CASE c = v
      <4>1. f.data = Updated(c)
        BY <3>1, <2>1, <1>1 DEF DataInv, Meant
      <4>2. QED
        BY <4>1, <3>1, <2>1, <1>1, <1>3, <1>11 DEF TypeOK
    <3>2. CASE c # v
      <4>1. asv'[c] = asv[c]
        BY <2>1, <3>2, <1>3, <1>1, Graph DEF TypeOK
      <4>2. ASSUME Pending(c)
            PROVE  Pending(c)'
        <5>1. ASSUME NEW i \in DOMAIN stack[t], Updates(stack[t][i], c)
              PROVE  i \in DOMAIN stack'[t] /\ Updates(stack'[t][i], c)
          <6>1. i # n
            BY <5>1, <3>2, <1>1 DEF Updates
          <6>2. i \in DOMAIN stack'[t] /\ stack'[t][i] = stack[t][i]
            BY <6>1, <1>5, <1>6
          <6>3. QED
            BY <5>1, <6>2
        <5>2. QED
          BY <4>2, <5>1, <1>7, PendingStays
      <4>3. QED
        BY <2>1, <4>1, <4>2, <1>11 DEF ResultInv
    <3>3. QED
      BY <3>1, <3>2
  <2>2. QED
    BY <2>1 DEF ResultInv
<1>15. WaitInv'
  BY <1>3 DEF WaitInv, Unset
<1>16. QED
  BY <1>8, <1>9, <1>10, <1>12, <1>13, <1>14, <1>15

(* The listener stores the value under the synchronizer. *)
LEMMA ListenStep ==
  ASSUME IInv, NEW t \in Threads, Listen(t)
  PROVE  IInv'
<1> USE DEF IInv
<1>0. PICK f \in Frames, n \in Nat : f = Top(t) /\ n = Len(stack[t])
  BY AtTop DEF Listen
<1> DEFINE v == f.var
           g == [f EXCEPT !.at = "notify", !.todo = Notifies[v]]
<1>1. /\ stack[t] # <<>> /\ n \in DOMAIN stack[t] /\ f = stack[t][n] /\ f \in Frames /\ f.at = "listen"
      /\ v \in Vars /\ v \in Changing /\ (v \in Calc <=> n > 1) /\ FrameInv(t, n) /\ n > 0
  <2>1. At(t, "listen")
    BY DEF Listen
  <2>2. QED
    BY <2>1, <1>0, AtTop
<1>2. n \in Nat /\ DOMAIN stack[t] = 1 .. n /\ stack[t] \in Seq(Frames)
  BY <1>0, Stacks
<1>3. pv' = [pv EXCEPT ![v] = Convert(f.data)] /\ UNCHANGED <<asv, writes>> /\ Replace(t, g)
  BY <1>0 DEF Listen
<1>4. /\ Sync[v] = NoSync => UNCHANGED <<owner, depth>>
      /\ Sync[v] # NoSync => /\ owner[Sync[v]] \in {Nobody, t} /\ Sync[v] \in Synchronizers
                             /\ owner' = [owner EXCEPT ![Sync[v]] = t]
                             /\ depth' = [depth EXCEPT ![Sync[v]] = @ + 1]
  BY <1>0, <1>1, Types DEF Listen
<1>5. g \in Frames /\ g.at = "notify" /\ g.var = v /\ g.todo = Notifies[v] /\ Left(g) = Notified(v)
  <2>1. Notifies[v] \in Seq(Calc)
    BY <1>1, GraphAssumption
  <2>2. g \in Frames /\ g.at = "notify" /\ g.var = v /\ g.todo = Notifies[v]
    BY <2>1, <1>1 DEF Frames
  <2>3. QED
    BY <2>2 DEF Left, Notified
<1> HIDE DEF g
<1>6. /\ stack' \in [Threads -> Seq(Frames)] /\ Len(stack'[t]) = n /\ DOMAIN stack'[t] = DOMAIN stack[t]
      /\ stack'[t] # <<>> /\ stack'[t][n] = g
      /\ \A i \in DOMAIN stack[t] : i # n => stack'[t][i] = stack[t][i]
  BY <1>0, <1>1, <1>3, <1>5, Replaced
<1>7. \A u \in Threads : u # t => stack'[u] = stack[u]
  BY <1>1, <1>3, <1>5, Replaced
<1>8. TypeOK'
  <2>1. Convert(f.data) \in [state : {"Good", "Bad", "Waiting"}, num : Doubles]
    BY <1>1, Types DEF Frames
  <2>2. pv' \in [Vars -> [state : {"Good", "Bad", "Waiting"}, num : Doubles]]
    BY <1>3, <2>1 DEF TypeOK
  <2>3. owner' \in [Synchronizers -> Threads \cup {Nobody}] /\ depth' \in [Synchronizers -> Nat]
    <3>1. CASE Sync[v] = NoSync
      BY <3>1, <1>4 DEF TypeOK
    <3>2. CASE Sync[v] # NoSync
      <4>1. owner' \in [Synchronizers -> Threads \cup {Nobody}]
        BY <3>2, <1>4 DEF TypeOK
      <4>2. depth' \in [Synchronizers -> Nat]
        BY <3>2, <1>4 DEF TypeOK
      <4>3. QED
        BY <4>1, <4>2
    <3>3. QED
      BY <3>1, <3>2
  <2>4. QED
    BY <1>3, <1>6, <2>2, <2>3 DEF TypeOK
<1>9. StackInv'
  <2>1. ASSUME NEW i \in DOMAIN stack'[t]
        PROVE  FrameInv(t, i)'
    <3>1. i \in DOMAIN stack[t] /\ FrameInv(t, i)
      BY <2>1, <1>6 DEF StackInv
    <3>2. i > 1 => i - 1 \in DOMAIN stack[t] /\ i - 1 # n
      BY <3>1, <1>2
    <3>3. IF i = n THEN stack'[t][i] = g ELSE stack'[t][i] = stack[t][i]
      BY <3>1, <1>6
    <3>4. i > 1 => stack'[t][i - 1] = stack[t][i - 1]
      BY <3>2, <1>6
    <3>5. CASE i = n
      BY <3>1, <3>3, <3>4, <3>5, <1>1, <1>2, <1>3, <1>5, <1>6 DEF FrameInv
    <3>6. CASE i # n
      BY <3>1, <3>3, <3>4, <3>6, <1>2, <1>3, <1>6 DEF FrameInv
    <3>7. QED
      BY <3>5, <3>6
  <2>2. QED
    BY <2>1, <1>3, <1>7, OthersStay DEF StackInv
<1>10. LockInv'
  <2>1. \A u \in Threads, s \in Synchronizers : u # t => Held(u, s)' = Held(u, s)
    BY <1>7 DEF Held, Holds
  <2>2. \A s \in Synchronizers : s # Sync[v] => Held(t, s)' = Held(t, s)
    <3>1. \A s \in Synchronizers : s # Sync[v] => ~ Holds(stack[t][n], s) /\ ~ Holds(stack'[t][n], s)
      BY <1>1, <1>5, <1>6 DEF Holds
    <3>2. ASSUME NEW s \in Synchronizers, s # Sync[v]
          PROVE  Held(t, s)' = Held(t, s)
      BY <3>1, <3>2, <1>1, <1>6, HeldReplaced
    <3>3. QED
      BY <3>2
  <2>3. CASE Sync[v] = NoSync
    <3>1. \A u \in Threads, s \in Synchronizers : Held(u, s)' = Held(u, s)
      BY <2>1, <2>2, <2>3 DEF Synchronizers
    <3>2. QED
      BY <2>3, <3>1, <1>4, LocksStay
  <2>4. CASE Sync[v] # NoSync
    <3>1. PICK s \in Synchronizers : s = Sync[v]
      BY <2>4, <1>4
    <3>2. Held(t, s)' = Held(t, s) \cup {n} /\ n \notin Held(t, s)
      <4>1. ~ Holds(stack[t][n], s) /\ Holds(stack'[t][n], s)
        BY <3>1, <1>1, <1>5, <1>6 DEF Holds
      <4>2. QED
        BY <4>1, <1>1, <1>6, HeldReplaced
    <3>3. \A u \in Threads, r \in Synchronizers : u # t \/ r # s => Held(u, r)' = Held(u, r)
      BY <3>1, <2>1, <2>2
    <3>4. /\ owner[s] \in {Nobody, t} /\ owner'[s] = t /\ depth'[s] = depth[s] + 1
          /\ \A r \in Synchronizers : r # s => owner'[r] = owner[r] /\ depth'[r] = depth[r]
      BY <2>4, <3>1, <1>4 DEF TypeOK
    <3>5. QED
      BY <3>2, <3>3, <3>4, Locked
  <2>5. QED
    BY <2>3, <2>4
<1>11. \A c \in Guarded : c \notin Notified(v) => Updated(c)' = Updated(c) /\ NotGood(c)' = NotGood(c)
  <2>1. \A w \in Vars : w # v => pv'[w] = pv[w]
    BY <1>3 DEF TypeOK
  <2>2. QED
    BY <2>1, Graph, SameInputs
<1>12. DataInv'
  <2>1. ASSUME NEW u \in Threads, u # t
        PROVE  Meant(u)'
    <3>1. ASSUME NEW c \in Guarded, stack[u] # <<>>, c = Top(u).var
          PROVE  c \notin Notified(v)
      <4>1. Len(stack[u]) \in DOMAIN stack[u] /\ Top(u) = stack[u][Len(stack[u])]
        BY <3>1, Stacks
      <4>2. c \in Notified(v) => Sync[v] \in Synchronizers /\ owner[Sync[v]] = u
        BY <4>1, <3>1, <1>1, UpdaterHolds
      <4>3. QED
        BY <4>2, <2>1, <1>4, GraphAssumption DEF Synchronizers
    <3>2. QED
      BY <3>1, <1>3, <1>7, <1>11, <2>1, OthersMeant
  <2>2. Meant(t)'
    <3>1. Top(t)' = g
      BY <1>0, <1>1, <1>6 DEF Top
    <3>2. QED
      BY <3>1, <1>5 DEF Meant
  <2>3. QED
    BY <2>1, <2>2 DEF DataInv
<1>13. ListenerInv'
  <2>1. ASSUME NEW w \in Listed, w \in Guarded \cup (Vars \ Calc)
        PROVE  Unset(w)' \/ pv'[w] = Convert(asv'[w]) \/ Setting(w)'
    <3>1. CASE w = v
      <4>1. asv[v] = f.data
        BY <2>1, <3>1, <1>0, <1>1 DEF DataInv, Meant
      <4>2. QED
        BY <4>1, <3>1, <1>1, <1>3 DEF TypeOK
    <3>2. CASE w # v
      <4>1. pv'[w] = pv[w] /\ asv'[w] = asv[w]
        BY <2>1, <3>2, <1>3, <1>1, GraphAssumption DEF TypeOK
      <4>2. Unset(w) => Unset(w)'
        BY <1>3 DEF Unset
      <4>3. Setting(w) => Setting(w)'
        BY <3>2, <1>0, <1>7, SettingStays
      <4>4. QED
        BY <2>1, <4>1, <4>2, <4>3 DEF ListenerInv
    <3>3. QED
      BY <3>1, <3>2
  <2>2. QED
    BY <2>1 DEF ListenerInv
<1>14. ResultInv'
  <2>1. ASSUME NEW c \in Guarded
        PROVE  asv'[c] = Updated(c)' \/ Pending(c)'
    <3>1. CASE c \in Notified(v)
      <4>1. Updates(stack'[t][n], c) /\ n \in DOMAIN stack'[t]
        BY <3>1, <1>1, <1>5, <1>6 DEF Updates
      <4>2. QED
        BY <4>1 DEF Pending
    <3>2. CASE c \notin Notified(v)
      <4>1. ASSUME Pending(c)
            PROVE  Pending(c)'
        <5>1. ASSUME NEW i \in DOMAIN stack[t], Updates(stack[t][i], c)
              PROVE  i \in DOMAIN stack'[t] /\ Updates(stack'[t][i], c)
          <6>1. i # n
            BY <5>1, <1>1 DEF Updates
          <6>2. QED
            BY <5>1, <6>1, <1>6
        <5>2. QED
          BY <4>1, <5>1, <1>7, PendingStays
      <4>2. QED
        BY <2>1, <3>2, <4>1, <1>3, <1>11 DEF ResultInv
    <3>3. QED
      BY <3>1, <3>2
  <2>2. QED
    BY <2>1 DEF ResultInv
<1>15. WaitInv'
  <2>1. ~ Unset(v)
    <3>1. n > 1 \/ n = 1
      BY <1>1, <1>2
    <3>2. n = 1 => writes[v] # 0
      BY <1>1 DEF FrameInv
    <3>3. QED
      BY <3>1, <3>2, <1>1 DEF Unset
  <2>2. \A w \in Vars : w # v => pv'[w] = pv[w]
    BY <1>3 DEF TypeOK
  <2>3. QED
    BY <2>1, <2>2, <1>3 DEF WaitInv, Unset
<1>16. QED
  BY <1>8, <1>9, <1>10, <1>12, <1>13, <1>14, <1>15

(* A step inside update(): the last frame goes on to what it means to do. *)
LEMMA UpdateStep ==
  ASSUME IInv, NEW t \in Threads, NEW place \in {"check", "eval"}, At(t, place),
         NEW g \in Frames, Replace(t, g), UNCHANGED <<asv, pv, owner, depth, writes>>,
         g.var = Top(t).var, g.at \in {"eval", "base"}, Left(g) \subseteq Notified(g.var),
         \A c \in Guarded : c = g.var => /\ g.at = "base" => g.data = Updated(c)
                                         /\ g.at = "eval" => NotGood(c) = {}
  PROVE  IInv'
<1> USE DEF IInv
<1>0. PICK f \in Frames, n \in Nat : f = Top(t) /\ n = Len(stack[t])
  BY AtTop
<1> DEFINE v == f.var
<1>1. /\ stack[t] # <<>> /\ n \in DOMAIN stack[t] /\ f = stack[t][n] /\ f.at \in {"check", "eval"}
      /\ v \in Vars /\ FrameInv(t, n) /\ n > 0
  BY <1>0, AtTop
<1>2. DOMAIN stack[t] = 1 .. n
  BY <1>0, Stacks
<1>3. /\ stack' \in [Threads -> Seq(Frames)] /\ Len(stack'[t]) = n /\ DOMAIN stack'[t] = DOMAIN stack[t]
      /\ stack'[t] # <<>> /\ stack'[t][n] = g
      /\ \A i \in DOMAIN stack[t] : i # n => stack'[t][i] = stack[t][i]
  BY <1>0, <1>1, Replaced
<1>4. \A u \in Threads : u # t => stack'[u] = stack[u]
  BY <1>1, Replaced
<1>5. \A c \in Guarded : Updated(c)' = Updated(c) /\ NotGood(c)' = NotGood(c)
  BY Graph, SameInputs
<1>6. TypeOK'
  BY <1>3 DEF TypeOK
<1>7. StackInv'
  <2>1. ASSUME NEW i \in DOMAIN stack'[t]
        PROVE  FrameInv(t, i)'
    <3>1. i \in DOMAIN stack[t] /\ FrameInv(t, i)
      BY <2>1, <1>3 DEF StackInv
    <3>2. i > 1 => i - 1 \in DOMAIN stack[t] /\ i - 1 # n
      BY <3>1, <1>2
    <3>3. IF i = n THEN stack'[t][i] = g ELSE stack'[t][i] = stack[t][i]
      BY <3>1, <1>3
    <3>4. i > 1 => stack'[t][i - 1] = stack[t][i - 1]
      BY <3>2, <1>3
    <3>5. CASE i = n
      <4>1. n # 1
        BY <1>1 DEF FrameInv
      <4>2. QED
        BY <4>1, <3>1, <3>3, <3>4, <3>5, <1>0, <1>1, <1>3 DEF FrameInv
    <3>6. CASE i # n
      BY <3>1, <3>3, <3>4, <3>6, <1>0, <1>3 DEF FrameInv
    <3>7. QED
      BY <3>5, <3>6
  <2>2. QED
    BY <2>1, <1>4, OthersStay DEF StackInv
<1>8. LockInv'
  <2>1. ASSUME NEW s \in Synchronizers
        PROVE  Held(t, s)' = Held(t, s)
    <3>1. ~ Holds(stack[t][n], s) /\ ~ Holds(stack'[t][n], s)
      BY <1>1, <1>3 DEF Holds
    <3>2. QED
      BY <3>1, <1>1, <1>3, HeldReplaced
  <2>2. \A u \in Threads, s \in Synchronizers : u # t => Held(u, s)' = Held(u, s)
    BY <1>4 DEF Held
  <2>3. QED
    BY <2>1, <2>2, LocksStay
<1>9. DataInv'
  <2>1. \A u \in Threads : u # t => Meant(u)'
    BY <1>4, <1>5, OthersMeant
  <2>2. Top(t)' = g
    BY <1>3 DEF Top
  <2>3. Meant(t)'
    BY <2>2, <1>5 DEF Meant
  <2>4. QED
    BY <2>1, <2>3 DEF DataInv
<1>10. ListenerInv'
  <2>1. ASSUME NEW w \in Listed, Setting(w)
        PROVE  Setting(w)'
    BY <2>1, <1>0, <1>1, <1>4, SettingStays DEF At
  <2>2. \A w \in Listed : Unset(w)' <=> Unset(w)
    BY DEF Unset
  <2>3. QED
    BY <2>1, <2>2 DEF ListenerInv
<1>11. ResultInv'
  <2>1. ASSUME NEW c \in Guarded, Pending(c)
        PROVE  Pending(c)'
    <3>1. ASSUME NEW i \in DOMAIN stack[t], Updates(stack[t][i], c)
          PROVE  i \in DOMAIN stack'[t] /\ Updates(stack'[t][i], c)
      <4>1. CASE i = n
        BY <3>1, <4>1, <1>0, <1>1, <1>3 DEF Updates
      <4>2. CASE i # n
        BY <3>1, <4>2, <1>3
      <4>3. QED
        BY <4>1, <4>2
    <3>2. QED
      BY <2>1, <3>1, <1>4, PendingStays
  <2>2. QED
    BY <2>1, <1>5 DEF ResultInv
<1>12. WaitInv'
  BY DEF WaitInv, Unset
<1>13. QED
  BY <1>6, <1>7, <1>8, <1>9, <1>10, <1>11, <1>12

LEMMA CheckInputsStep ==
  ASSUME IInv, NEW t \in Threads, CheckInputs(t)
  PROVE  IInv'
<1>0. At(t, "check") /\ TypeOK /\ StackInv
  BY DEF CheckInputs, IInv
<1>1. PICK f \in Frames : f = Top(t)
  BY <1>0, AtTop
<1>2. f.var \in Calc /\ Left(f) \subseteq Notified(f.var)
  <2>1. FrameInv(t, Len(stack[t])) /\ f = stack[t][Len(stack[t])] /\ f.at = "check" /\ f.var \in Vars
        /\ (Len(stack[t]) = 1 \/ Len(stack[t]) > 1) /\ (f.var \in Calc <=> Len(stack[t]) > 1)
    BY <1>0, <1>1, AtTop
  <2>2. Len(stack[t]) # 1
    BY <2>1 DEF FrameInv
  <2>3. QED
    BY <2>1, <2>2 DEF FrameInv
<1> DEFINE c == f.var
<1>3. Replace(t, IF NotGood(c) # {} THEN SetFrame(c, Rejected(c)) ELSE [f EXCEPT !.at = "eval"])
      /\ UNCHANGED <<asv, pv, owner, depth, writes>>
  BY <1>1 DEF CheckInputs
<1>4. CASE NotGood(c) # {}
  <2>1. Rejected(c) \in Data(Doubles) /\ Updated(c) = Rejected(c)
    BY <1>0, <1>2, <1>4, ResultType DEF Updated
  <2>2. PICK g \in Frames : g = SetFrame(c, Rejected(c))
    BY <1>2, <2>1, Graph, SetFrames
  <2>3. g.at = "base" /\ g.var = c /\ g.data = Updated(c) /\ Left(g) = {}
    BY <1>2, <2>1, <2>2, Graph, SetFrames
  <2>4. QED
    BY <1>0, <1>1, <1>3, <1>4, <2>2, <2>3, UpdateStep
<1>5. CASE NotGood(c) = {}
  <2>1. PICK g \in Frames : g = [f EXCEPT !.at = "eval"]
    BY DEF Frames
  <2>2. g.at = "eval" /\ g.var = c /\ g.todo = f.todo
    BY <2>1 DEF Frames
  <2>3. Left(g) = Left(f)
    BY <2>2 DEF Left
  <2>4. QED
    BY <1>0, <1>1, <1>2, <1>3, <1>5, <2>1, <2>2, <2>3, UpdateStep
<1>6. QED
  BY <1>4, <1>5

LEMMA EvaluateStep ==
  ASSUME IInv, NEW t \in Threads, Evaluate(t)
  PROVE  IInv'
<1>0. At(t, "eval") /\ TypeOK /\ StackInv
  BY DEF Evaluate, IInv
<1>1. PICK f \in Frames : f = Top(t)
  BY <1>0, AtTop
<1>2. f.var \in Calc /\ f.at = "eval" /\ stack[t] # <<>>
  <2>1. FrameInv(t, Len(stack[t])) /\ f = stack[t][Len(stack[t])] /\ f.at = "eval" /\ f.var \in Vars
        /\ (Len(stack[t]) = 1 \/ Len(stack[t]) > 1) /\ (f.var \in Calc <=> Len(stack[t]) > 1)
        /\ stack[t] # <<>>
    BY <1>0, <1>1, AtTop
  <2>2. Len(stack[t]) # 1
    BY <2>1 DEF FrameInv
  <2>3. QED
    BY <2>1, <2>2
<1> DEFINE c == f.var
<1>3. Replace(t, SetFrame(c, Evaluated(c))) /\ UNCHANGED <<asv, pv, owner, depth, writes>>
  BY <1>1 DEF Evaluate
<1>4. Evaluated(c) \in Data(Doubles)
  BY <1>0, <1>2, ResultType
<1>5. PICK g \in Frames : g = SetFrame(c, Evaluated(c))
  BY <1>2, <1>4, Graph, SetFrames
<1>6. g.at = "base" /\ g.var = c /\ g.data = Evaluated(c) /\ Left(g) = {}
  BY <1>2, <1>4, <1>5, Graph, SetFrames
<1>7. \A d \in Guarded : d = c => Updated(d) = Evaluated(c)
  BY <1>1, <1>2 DEF IInv, DataInv, Meant, Updated
<1>8. QED
  BY <1>0, <1>1, <1>3, <1>5, <1>6, <1>7, UpdateStep

(* The next variable to notify moves from the list of a frame f to a frame k of
   its own. *)
Grown(t, f, n, g, k) ==
  /\ stack' \in [Threads -> Seq(Frames)] /\ \A u \in Threads : u # t => stack'[u] = stack[u]
  /\ DOMAIN stack'[t] = DOMAIN stack[t] \cup {n + 1} /\ Len(stack'[t]) = n + 1
  /\ stack'[t][n] = g /\ stack'[t][n + 1] = k
  /\ \A i \in DOMAIN stack[t] : i # n => stack'[t][i] = stack[t][i]
  /\ g.at = "notify" /\ g.var = f.var /\ k.at = "check" /\ Left(k) = {}
  /\ Left(f) = Left(g) \cup {k.var}

LEMMA Notifying ==
  ASSUME TypeOK, NEW t \in Threads, At(t, "notify"), NEW f \in Frames, f = Top(t), f.todo # <<>>,
         NEW n \in Nat, n = Len(stack[t]), NotifyNext(t)
  PROVE  \E g, k \in Frames : Grown(t, f, n, g, k)
<1>1. stack[t] \in Seq(Frames) /\ stack[t] # <<>> /\ n \in DOMAIN stack[t] /\ DOMAIN stack[t] = 1 .. n
      /\ f = stack[t][n]
  BY Stacks DEF At
<1>2. f.todo \in Seq(Calc) /\ f.at = "notify"
  BY DEF Frames, At
<1>3. PICK c \in Calc : c = Head(f.todo)
  BY <1>2
<1>4. c \in Vars /\ asv[c] \in Data(Doubles)
  BY <1>3, Graph DEF TypeOK
<1>5. PICK k \in Frames : k = UpdateFrame(c)
  <2>1. SetFrame(c, asv[c]) \in Frames
    BY <1>4, SetFrames
  <2>2. \A h \in Frames : [h EXCEPT !.at = "check"] \in Frames
    BY DEF Frames
  <2>3. UpdateFrame(c) \in Frames
    BY <2>1, <2>2 DEF UpdateFrame
  <2>4. QED
    BY <2>3
<1>6. k.at = "check" /\ k.var = c /\ k.todo = <<>>
  BY <1>5 DEF UpdateFrame, SetFrame
<1>7. Tail(f.todo) \in Seq(Calc)
  BY <1>2
<1>8. PICK g \in Frames : g = [f EXCEPT !.todo = Tail(f.todo)]
  BY <1>7 DEF Frames
<1>9. g.at = "notify" /\ g.var = f.var /\ g.todo = Tail(f.todo)
  BY <1>2, <1>8 DEF Frames
<1>10. Left(f) = Left(g) \cup {c} /\ Left(k) = {}
  <2>1. /\ Len(f.todo) \in Nat /\ Len(f.todo) # 0 /\ DOMAIN f.todo = 1 .. Len(f.todo)
        /\ DOMAIN g.todo = 1 .. (Len(f.todo) - 1) /\ c = f.todo[1]
        /\ \A i \in 1 .. (Len(f.todo) - 1) : g.todo[i] = f.todo[i + 1]
    BY <1>2, <1>3, <1>9, EmptySeq
  <2>2. \A d \in Left(f) : d \in Left(g) \cup {c}
    <3>1. ASSUME NEW i \in DOMAIN f.todo
          PROVE  f.todo[i] \in Left(g) \cup {c}
      <4>1. i = 1 \/ (i - 1 \in 1 .. (Len(f.todo) - 1) /\ (i - 1) + 1 = i)
        BY <2>1
      <4>2. i # 1 => f.todo[i] = g.todo[i - 1] /\ i - 1 \in DOMAIN g.todo
        BY <2>1, <4>1
      <4>3. QED
        BY <2>1, <4>2 DEF Left
    <3>2. QED
      BY <3>1 DEF Left
  <2>3. \A d \in Left(g) \cup {c} : d \in Left(f)
    <3>1. c \in Left(f)
      BY <2>1 DEF Left
    <3>2. ASSUME NEW i \in DOMAIN g.todo
          PROVE  g.todo[i] \in Left(f)
      <4>1. i + 1 \in DOMAIN f.todo /\ g.todo[i] = f.todo[i + 1]
        BY <2>1
      <4>2. QED
        BY <4>1 DEF Left
    <3>3. QED
      BY <3>1, <3>2 DEF Left
  <2>4. Left(k) = {}
    BY <1>6 DEF Left
  <2>5. QED
    BY <2>2, <2>3, <2>4
<1>11. stack'[t] = Append([stack[t] EXCEPT ![n] = g], k)
       /\ DOMAIN stack' = Threads /\ \A u \in Threads : u # t => stack'[u] = stack[u]
  BY <1>1, <1>3, <1>5, <1>8 DEF NotifyNext, TypeOK
<1>12. [stack[t] EXCEPT ![n] = g] \in Seq(Frames) /\ Len([stack[t] EXCEPT ![n] = g]) = n
       /\ \A i \in DOMAIN stack[t] : [stack[t] EXCEPT ![n] = g][i] = IF i = n THEN g ELSE stack[t][i]
  BY <1>1
<1>13. /\ stack'[t] \in Seq(Frames) /\ Len(stack'[t]) = n + 1 /\ DOMAIN stack'[t] = 1 .. (n + 1)
       /\ stack'[t][n + 1] = k /\ \A i \in 1 .. n : stack'[t][i] = [stack[t] EXCEPT ![n] = g][i]
  BY <1>11, <1>12
<1>14. stack' \in [Threads -> Seq(Frames)]
  BY <1>11, <1>13 DEF TypeOK, NotifyNext
<1>15. DOMAIN stack'[t] = DOMAIN stack[t] \cup {n + 1}
  BY <1>1, <1>13
<1>16. stack'[t][n] = g /\ \A i \in DOMAIN stack[t] : i # n => stack'[t][i] = stack[t][i]
  BY <1>1, <1>12, <1>13
<1>17. Grown(t, f, n, g, k)
  BY <1>6, <1>9, <1>10, <1>11, <1>13, <1>14, <1>15, <1>16 DEF Grown
<1>18. QED
  BY <1>17

LEMMA NotifyNextStep ==
  ASSUME IInv, NEW t \in Threads, NotifyNext(t)
  PROVE  IInv'
<1> USE DEF IInv
<1>0. PICK f \in Frames, n \in Nat : f = Top(t) /\ n = Len(stack[t])
  BY AtTop DEF NotifyNext
<1> DEFINE v == f.var
<1>1. /\ At(t, "notify") /\ f.todo # <<>> /\ stack[t] # <<>> /\ n \in DOMAIN stack[t] /\ f = stack[t][n]
      /\ f.at = "notify" /\ v \in Vars /\ FrameInv(t, n) /\ n > 0 /\ UNCHANGED <<asv, pv, owner, depth, writes>>
  BY <1>0, AtTop DEF NotifyNext
<1>2. DOMAIN stack[t] = 1 .. n /\ n + 1 \notin DOMAIN stack[t] /\ n + 1 # n /\ n + 1 > 1
  BY <1>0, <1>1, Stacks
<1>3. PICK g, k \in Frames :
        /\ stack' \in [Threads -> Seq(Frames)] /\ \A u \in Threads : u # t => stack'[u] = stack[u]
        /\ DOMAIN stack'[t] = DOMAIN stack[t] \cup {n + 1} /\ Len(stack'[t]) = n + 1
        /\ stack'[t][n] = g /\ stack'[t][n + 1] = k
        /\ \A i \in DOMAIN stack[t] : i # n => stack'[t][i] = stack[t][i]
        /\ g.at = "notify" /\ g.var = v /\ k.at = "check" /\ Left(k) = {}
        /\ Left(f) = Left(g) \cup {k.var}
  <2>1. \E g, k \in Frames : Grown(t, f, n, g, k)
    BY <1>0, <1>1, Notifying
  <2>2. QED
    BY <2>1 DEF Grown
<1>4. \A c \in Guarded : Updated(c)' = Updated(c) /\ NotGood(c)' = NotGood(c)
  BY <1>1, Graph, SameInputs
<1>5. TypeOK'
  BY <1>1, <1>3 DEF TypeOK
<1>6. StackInv'
  <2>1. Left(f) \subseteq Notified(v)
    BY <1>0, <1>1 DEF FrameInv
  <2>2. ASSUME NEW i \in DOMAIN stack'[t]
        PROVE  FrameInv(t, i)'
    <3>1. CASE i = n + 1
      <4>1. stack'[t][i] = k /\ stack'[t][i - 1] = g /\ i > 1 /\ ~ (i < Len(stack'[t]))
        BY <3>1, <1>2, <1>3
      <4>2. k.var \in Notified(g.var)
        BY <2>1, <1>3
      <4>3. QED
        BY <4>1, <4>2, <1>3 DEF FrameInv
    <3>2. CASE i # n + 1
      <4>1. i \in DOMAIN stack[t] /\ FrameInv(t, i)
        BY <2>2, <3>2, <1>3 DEF StackInv
      <4>2. i > 1 => i - 1 \in DOMAIN stack[t] /\ i - 1 # n
        BY <4>1, <1>2
      <4>3. i > 1 => stack'[t][i - 1] = stack[t][i - 1]
        BY <4>2, <1>3
      <4>4. CASE i = n
        <5>1. stack'[t][i] = g /\ stack[t][i] = f
          BY <4>4, <1>1, <1>3
        <5>2. Left(g) \subseteq Notified(g.var)
          BY <2>1, <1>3
        <5>3. QED
          BY <4>1, <4>3, <5>1, <5>2, <1>1, <1>3 DEF FrameInv
      <4>5. CASE i # n
        <5>1. stack'[t][i] = stack[t][i] /\ i < Len(stack[t])
          BY <4>1, <4>5, <1>0, <1>2, <1>3
        <5>2. QED
          BY <4>1, <4>3, <5>1, <1>1 DEF FrameInv
      <4>6. QED
        BY <4>4, <4>5
    <3>3. QED
      BY <3>1, <3>2
  <2>3. QED
    BY <2>2, <1>1, <1>3, OthersStay DEF StackInv
<1>7. LockInv'
  <2>1. ASSUME NEW s \in Synchronizers
        PROVE  Held(t, s)' = Held(t, s)
    <3>1. ~ Holds(k, s) /\ (Holds(g, s) <=> Holds(f, s))
      BY <1>1, <1>3 DEF Holds
    <3>2. ASSUME NEW i \in DOMAIN stack[t]
          PROVE  Holds(stack'[t][i], s) <=> Holds(stack[t][i], s)
      BY <3>1, <1>1, <1>3
    <3>3. QED
      BY <3>1, <3>2, <1>3 DEF Held
  <2>2. \A u \in Threads, s \in Synchronizers : u # t => Held(u, s)' = Held(u, s)
    BY <1>3 DEF Held
  <2>3. QED
    BY <2>1, <2>2, <1>1, LocksStay
<1>8. DataInv'
  <2>1. \A u \in Threads : u # t => Meant(u)'
    BY <1>1, <1>3, <1>4, OthersMeant
  <2>2. Top(t)' = k
    BY <1>3 DEF Top
  <2>3. Meant(t)'
    BY <2>2, <1>3 DEF Meant
  <2>4. QED
    BY <2>1, <2>3 DEF DataInv
<1>9. ListenerInv'
  <2>1. ASSUME NEW w \in Listed, Setting(w)
        PROVE  Setting(w)'
    BY <2>1, <1>0, <1>1, <1>3, SettingStays DEF At
  <2>2. \A w \in Listed : Unset(w)' <=> Unset(w)
    BY <1>1 DEF Unset
  <2>3. QED
    BY <2>1, <2>2, <1>1 DEF ListenerInv
<1>10. ResultInv'
  <2>1. ASSUME NEW c \in Guarded, Pending(c)
        PROVE  Pending(c)'
    <3>1. CASE c = k.var
      <4>1. n + 1 \in DOMAIN stack'[t] /\ Updates(stack'[t][n + 1], c)
        BY <3>1, <1>3 DEF Updates
      <4>2. QED
        BY <4>1 DEF Pending
    <3>2. CASE c # k.var
      <4>1. ASSUME NEW i \in DOMAIN stack[t], Updates(stack[t][i], c)
            PROVE  i \in DOMAIN stack'[t] /\ Updates(stack'[t][i], c)
        <5>1. CASE i = n
          BY <4>1, <5>1, <3>2, <1>1, <1>3 DEF Updates
        <5>2. CASE i # n
          BY <4>1, <5>2, <1>3
        <5>3. QED
          BY <5>1, <5>2
      <4>2. QED
        BY <2>1, <4>1, <1>3, PendingStays
    <3>3. QED
      BY <3>1, <3>2
  <2>2. QED
    BY <2>1, <1>1, <1>4 DEF ResultInv
<1>11. WaitInv'
  BY <1>1 DEF WaitInv, Unset
<1>12. QED
  BY <1>5, <1>6, <1>7, <1>8, <1>9, <1>10, <1>11

(* setValue() unlocks and returns. *)
LEMMA NotifiedAllStep ==
  ASSUME IInv, NEW t \in Threads, NotifiedAll(t)
  PROVE  IInv'
<1> USE DEF IInv
<1>0. PICK f \in Frames, n \in Nat : f = Top(t) /\ n = Len(stack[t])
  BY AtTop DEF NotifiedAll
<1> DEFINE v == f.var
<1>1. /\ stack[t] # <<>> /\ n \in DOMAIN stack[t] /\ f = stack[t][n] /\ f.at = "notify" /\ f.todo = <<>>
      /\ v \in Vars /\ n > 0 /\ UNCHANGED <<asv, pv, writes>> /\ Return(t)
  BY <1>0, AtTop DEF NotifiedAll
<1>2. DOMAIN stack[t] = 1 .. n /\ Left(f) = {}
  BY <1>0, <1>1, Stacks DEF Left
<1>3. /\ stack' \in [Threads -> Seq(Frames)] /\ \A u \in Threads : u # t => stack'[u] = stack[u]
      /\ Len(stack'[t]) = n - 1 /\ DOMAIN stack'[t] = DOMAIN stack[t] \ {n}
      /\ \A i \in DOMAIN stack'[t] : stack'[t][i] = stack[t][i]
  BY <1>0, <1>1, Returned
<1>4. \A c \in Guarded : Updated(c)' = Updated(c) /\ NotGood(c)' = NotGood(c)
  BY <1>1, Graph, SameInputs
<1>5. StackInv'
  <2>1. ASSUME NEW i \in DOMAIN stack'[t]
        PROVE  FrameInv(t, i)'
    <3>1. i \in DOMAIN stack[t] /\ FrameInv(t, i) /\ i # n
      BY <2>1, <1>3 DEF StackInv
    <3>2. i > 1 => i - 1 \in DOMAIN stack[t] /\ i - 1 # n
      BY <3>1, <1>2
    <3>3. stack'[t][i] = stack[t][i] /\ (i > 1 => stack'[t][i - 1] = stack[t][i - 1])
      BY <2>1, <3>2, <1>3
    <3>4. i < Len(stack[t])
      BY <3>1, <1>0, <1>2
    <3>5. QED
      BY <3>1, <3>3, <3>4, <1>1 DEF FrameInv
  <2>2. QED
    BY <2>1, <1>1, <1>3, OthersStay DEF StackInv
<1>6. LockInv' /\ owner' \in [Synchronizers -> Threads \cup {Nobody}] /\ depth' \in [Synchronizers -> Nat]
  <2>1. \A u \in Threads, s \in Synchronizers : u # t => Held(u, s)' = Held(u, s)
    BY <1>3 DEF Held
  <2>2. ASSUME NEW s \in Synchronizers, s # Sync[v]
        PROVE  Held(t, s)' = Held(t, s)
    <3>1. ~ Holds(stack[t][n], s)
      BY <2>2, <1>1 DEF Holds
    <3>2. QED
      BY <3>1, <1>3 DEF Held
  <2>3. CASE Sync[v] = NoSync
    <3>1. UNCHANGED <<owner, depth>>
      BY <2>3, <1>0 DEF NotifiedAll
    <3>2. \A u \in Threads, s \in Synchronizers : Held(u, s)' = Held(u, s)
      BY <2>1, <2>2, <2>3 DEF Synchronizers
    <3>3. QED
      BY <3>1, <3>2, LocksStay DEF TypeOK
  <2>4. CASE Sync[v] # NoSync
    <3>1. PICK s \in Synchronizers : s = Sync[v]
      BY <2>4, <1>1, Types
    <3>2. /\ owner' = [owner EXCEPT ![s] = IF depth[s] = 1 THEN Nobody ELSE t]
          /\ depth' = [depth EXCEPT ![s] = @ - 1]
      BY <2>4, <3>1, <1>0 DEF NotifiedAll
    <3>3. /\ owner'[s] = (IF depth[s] = 1 THEN Nobody ELSE t) /\ depth'[s] = depth[s] - 1
          /\ \A r \in Synchronizers : r # s => owner'[r] = owner[r] /\ depth'[r] = depth[r]
      BY <3>2 DEF TypeOK
    <3>4. Holds(stack[t][n], s)
      BY <3>1, <1>1 DEF Holds
    <3>5. n \in Held(t, s)
      BY <3>4, <1>1 DEF Held
    <3>6. Held(t, s)' = Held(t, s) \ {n}
      BY <1>3 DEF Held
    <3>7. \A u \in Threads, r \in Synchronizers : u # t \/ r # s => Held(u, r)' = Held(u, r)
      BY <2>1, <2>2, <3>1
    <3>8. LockInv' /\ depth'[s] \in Nat
      BY <3>3, <3>5, <3>6, <3>7, Unlocked
    <3>9. QED
      BY <3>2, <3>8 DEF TypeOK
  <2>5. QED
    BY <2>3, <2>4
<1>7. TypeOK'
  BY <1>1, <1>3, <1>6 DEF TypeOK
<1>8. DataInv'
  <2>1. \A u \in Threads : u # t => Meant(u)'
    BY <1>1, <1>3, <1>4, OthersMeant
  <2>2. ASSUME stack'[t] # <<>>
        PROVE  Meant(t)'
    <3>1. stack'[t] \in Seq(Frames) /\ Len(stack'[t]) # 0
      BY <2>2, <1>3, EmptySeq
    <3>2. n # 0 /\ n # 1
      BY <3>1, <1>1, <1>3
    <3>3. n - 1 \in 1 .. n /\ n - 1 < n
      BY <3>2, Below
    <3>4. n - 1 \in DOMAIN stack'[t] /\ n - 1 \in DOMAIN stack[t]
      BY <3>3, <1>2, <1>3
    <3>5. Top(t)' = stack[t][n - 1]
      BY <3>4, <1>3 DEF Top
    <3>6. stack[t][n - 1].at = "notify"
      BY <3>3, <3>4, <1>0 DEF StackInv, FrameInv
    <3>7. QED
      BY <3>5, <3>6 DEF Meant
  <2>3. Meant(t)'
    BY <2>2 DEF Meant
  <2>4. QED
    BY <2>1, <2>3 DEF DataInv
<1>9. ListenerInv'
  <2>1. ASSUME NEW w \in Listed, Setting(w)
        PROVE  Setting(w)'
    BY <2>1, <1>0, <1>1, <1>3, SettingStays DEF At
  <2>2. \A w \in Listed : Unset(w)' <=> Unset(w)
    BY <1>1 DEF Unset
  <2>3. QED
    BY <2>1, <2>2, <1>1 DEF ListenerInv
<1>10. ResultInv'
  <2>1. ASSUME NEW c \in Guarded, Pending(c)
        PROVE  Pending(c)'
    <3>1. ASSUME NEW i \in DOMAIN stack[t], Updates(stack[t][i], c)
          PROVE  i \in DOMAIN stack'[t] /\ Updates(stack'[t][i], c)
      <4>1. i # n
        BY <3>1, <1>1, <1>2 DEF Updates
      <4>2. QED
        BY <3>1, <4>1, <1>3
    <3>2. QED
      BY <2>1, <3>1, <1>3, PendingStays
  <2>2. QED
    BY <2>1, <1>1, <1>4 DEF ResultInv
<1>11. WaitInv'
  BY <1>1 DEF WaitInv, Unset
<1>12. QED
  BY <1>5, <1>6, <1>7, <1>8, <1>9, <1>10, <1>11

LEMMA Induction == IInv /\ [Next]_vars => IInv'
<1>1. ASSUME IInv, UNCHANGED vars
      PROVE  IInv'
  <2>1. \A c \in Calc : Updated(c)' = Updated(c) /\ NotGood(c)' = NotGood(c)
    BY <1>1, SameInputs DEF vars
  <2>2. TypeOK' /\ StackInv' /\ LockInv' /\ ListenerInv' /\ WaitInv'
    <3>1. TypeOK'
      BY <1>1 DEF IInv, vars, TypeOK
    <3>2. StackInv'
      BY <1>1 DEF IInv, vars, StackInv, FrameInv
    <3>3. LockInv'
      <4>1. \A t \in Threads, s \in Synchronizers : Held(t, s)' = Held(t, s)
        BY <1>1 DEF vars, Held
      <4>2. QED
        BY <1>1, <4>1, LocksStay DEF IInv, vars
    <3>4. ListenerInv'
      BY <1>1 DEF IInv, vars, ListenerInv, Setting, At, Top, Unset
    <3>5. WaitInv'
      BY <1>1 DEF IInv, vars, WaitInv, Unset
    <3>6. QED
      BY <3>1, <3>2, <3>3, <3>4, <3>5
  <2>3. \A t \in Threads : Meant(t)'
    BY <1>1, <2>1, Graph, OthersMeant DEF IInv, vars
  <2>4. ResultInv'
    BY <1>1, <2>1, Graph DEF IInv, vars, ResultInv, Pending
  <2>5. QED
    BY <2>2, <2>3, <2>4 DEF IInv, DataInv
<1>2. ASSUME IInv, NEW t \in Threads, Step(t)
      PROVE  IInv'
  BY <1>2, SetBaseStep, ListenStep, NotifyNextStep, CheckInputsStep, EvaluateStep, NotifiedAllStep DEF Step
<1>3. QED
  BY <1>1, <1>2, WriteStep DEF Next

-----------------------------------------------------------------------------
(* The invariant holds in every reachable state: values, frames and locks keep
   their types, the nested calls follow the graph, a lock is held as often as it
   was taken, and no update is forgotten (CalculatedVariable.cpp:68-112,
   ParserVariable.cpp:48-71). *)
THEOREM CalcInvariant == Spec => []IInv
<1>1. Init => IInv
  BY InitInv
<1>2. IInv /\ [Next]_vars => IInv'
  BY Induction
<1>3. QED
  BY <1>1, <1>2, PTL DEF Spec

(* The engine gives a calculated variable that is listed one synchronizer with
   all that notifies it. *)
LEMMA ListedAreGuarded == Calc \cap Listed \subseteq Guarded
BY SynchronizerAssumption DEF Guarded

(* Nothing is left to do when no thread is inside setValue(). *)
LEMMA NothingPending ==
  ASSUME IInv, Idle
  PROVE  /\ \A c \in Guarded : asv[c] = Updated(c)
         /\ \A v \in Listed : v \in Guarded \cup (Vars \ Calc) => Unset(v) \/ pv[v] = Convert(asv[v])
<1>1. \A t \in Threads : DOMAIN stack[t] = {} /\ stack[t] = <<>>
  <2>1. DOMAIN <<>> = {}
    OBVIOUS
  <2>2. QED
    BY <2>1 DEF Idle
<1>2. \A c : ~ Pending(c)
  BY <1>1 DEF Pending
<1>3. \A v : ~ Setting(v)
  BY <1>1 DEF Setting, At
<1>4. QED
  BY <1>2, <1>3 DEF IInv, ResultInv, ListenerInv

(* Whatever the graph, a calculated variable that is read by others is right when
   no thread is inside setValue(): it shows, in the address space and to those
   that read it, what its formulas give for the present inputs
   (CalculatedVariable.cpp:68-112, ParserVariable.cpp:48-71). *)
THEOREM ReadResultsAreCurrent ==
  Spec => [](Idle => \A c \in Calc \cap Listed : asv[c] = Updated(c) /\ pv[c] = Convert(asv[c]))
<1>1. IInv => (Idle => \A c \in Calc \cap Listed : asv[c] = Updated(c) /\ pv[c] = Convert(asv[c]))
  BY NothingPending, ListedAreGuarded DEF Unset
<1>2. QED
  BY <1>1, CalcInvariant, PTL

(* The graph is such that the variables that notify one calculated variable share
   a synchronizer.  optimize() guarantees it for those that are listed only; for
   the others it is a condition on the configuration. *)
OneDomain == Calc \subseteq Guarded

(* On such a graph nothing is out of date when no thread is inside setValue(): no
   update was lost or overtaken by an older one (ChangeNotifyingVariable.cpp:57-62,
   ParserVariable.cpp:48-71, CalculatedVariable.cpp:68-112). *)
THEOREM CalcSettledIsConsistent == OneDomain => (Spec => []SettledIsConsistent)
<1>1. OneDomain /\ IInv => SettledIsConsistent
  BY NothingPending, GraphAssumption DEF OneDomain, SettledIsConsistent, Consistent
<1>2. ASSUME OneDomain
      PROVE  Spec => []SettledIsConsistent
  <2>1. IInv => SettledIsConsistent
    BY <1>1, <1>2
  <2>2. QED
    BY <2>1, CalcInvariant, PTL
<1>3. QED
  BY <1>2

(* On such a graph no calculated variable is inside update() in two threads at
   once, though its parsers and its result have no lock of their own
   (CalculatedVariable.cpp:68-112, ParserVariable.cpp:67-71). *)
THEOREM CalcUpdatedByOneThread == OneDomain => (Spec => []UpdatedByOneThread)
<1>1. OneDomain /\ IInv => UpdatedByOneThread
  BY OneUpdater DEF OneDomain, IInv, UpdatedByOneThread, Updating
<1>2. ASSUME OneDomain
      PROVE  Spec => []UpdatedByOneThread
  <2>1. IInv => UpdatedByOneThread
    BY <1>1, <1>2
  <2>2. QED
    BY <2>1, CalcInvariant, PTL
<1>3. QED
  BY <1>2

(* On such a graph an empty input never turns into a number: whatever the formula
   does, its result is empty and not good (CalculatedVariable.cpp:70-83,
   ChangeListener in ChangeNotifyingVariable.cpp). *)
THEOREM CalcEmptyPropagates == OneDomain => (Spec => []EmptyPropagates)
<1>1. ASSUME OneDomain, IInv, Idle, NEW c \in Calc, NEW i \in DOMAIN ValueIn[c],
             asv[ValueIn[c][i]].val = NoValue
      PROVE  asv[c].val = NoValue /\ asv[c].st # "Good"
  <2>1. PICK w \in Listed : w = ValueIn[c][i] /\ w \in Vars
    BY <1>1, GraphAssumption
  <2>2. asv[c] = Updated(c) /\ (Unset(w) \/ pv[w] = Convert(asv[w]))
    BY <1>1, <2>1, NothingPending DEF OneDomain
  <2>3. pv[w].state # "Good"
    <3>1. CASE Unset(w)
      BY <1>1, <2>1, <3>1 DEF IInv, WaitInv
    <3>2. CASE pv[w] = Convert(asv[w])
      BY <1>1, <2>1, <3>2 DEF Convert
    <3>3. QED
      BY <2>2, <3>1, <3>2
  <2>4. i \in NotGood(c)
    BY <1>1, <2>1, <2>3 DEF NotGood
  <2>5. asv[c] = Rejected(c) /\ FirstNotGood(c) \in NotGood(c)
    BY <2>2, <2>4, FirstIsNotGood DEF Updated
  <2>6. pv[ValueIn[c][FirstNotGood(c)]].state # "Good"
    BY <2>5 DEF NotGood
  <2>7. QED
    BY <2>5, <2>6 DEF Rejected
<1>2. ASSUME OneDomain
      PROVE  Spec => []EmptyPropagates
  <2>1. IInv => EmptyPropagates
    BY <1>1, <1>2 DEF EmptyPropagates
  <2>2. QED
    BY <2>1, CalcInvariant, PTL
<1>3. QED
  BY <1>2

-----------------------------------------------------------------------------
(* A thread that has to wait for a synchronizer. *)
Wanted(t) == Sync[Top(t).var]
Waits(t) == At(t, "listen") /\ Wanted(t) # NoSync /\ owner[Wanted(t)] \notin {Nobody, t}

(* Whoever waits for a synchronizer waits for a thread that is inside setValue()
   and waits for none itself: as notifications nest, each takes the synchronizer
   of its variable with those above still held, and nowhere but here is it said
   that these are one and the same (ParserVariable.cpp:56-71,
   CalculatedVariablesEngine.cpp:305-361). *)
HolderIsAtWork ==
  \A t \in Threads : Waits(t) => LET u == owner[Wanted(t)] IN stack[u] # <<>> /\ ~ Waits(u)

(* A variable whose listener has been called is listed. *)
Heard(f) == f.at \in {"listen", "notify"} => f.var \in Listed
AllHeard == \A t \in Threads : \A i \in DOMAIN stack[t] : Heard(stack[t][i])

LEMMA HeardReplaced ==
  ASSUME IInv, AllHeard, NEW t \in Threads, stack[t] # <<>>, NEW f, Replace(t, f), Heard(f)
  PROVE  AllHeard'
<1>1. stack[t] \in Seq(Frames) /\ Len(stack[t]) \in DOMAIN stack[t] /\ stack \in [Threads -> Seq(Frames)]
  BY Stacks DEF IInv, TypeOK
<1>2. stack'[t] = [stack[t] EXCEPT ![Len(stack[t])] = f] /\ \A u \in Threads : u # t => stack'[u] = stack[u]
  BY <1>1 DEF Replace
<1>3. DOMAIN stack'[t] = DOMAIN stack[t]
      /\ \A i \in DOMAIN stack[t] : stack'[t][i] = IF i = Len(stack[t]) THEN f ELSE stack[t][i]
  BY <1>1, <1>2
<1>4. QED
  BY <1>2, <1>3 DEF AllHeard

LEMMA HeardReturned ==
  ASSUME IInv, AllHeard, NEW t \in Threads, stack[t] # <<>>, Return(t)
  PROVE  AllHeard'
<1>1. /\ \A u \in Threads : u # t => stack'[u] = stack[u]
      /\ DOMAIN stack'[t] = DOMAIN stack[t] \ {Len(stack[t])}
      /\ \A i \in DOMAIN stack'[t] : stack'[t][i] = stack[t][i]
  BY Returned DEF IInv
<1>2. QED
  BY <1>1 DEF AllHeard

LEMMA TopIsHeard ==
  ASSUME IInv, AllHeard, NEW t \in Threads, stack[t] # <<>>
  PROVE  Heard(Top(t)) /\ Top(t) \in Frames
<1>1. Len(stack[t]) \in DOMAIN stack[t] /\ Top(t) = stack[t][Len(stack[t])] /\ Top(t) \in Frames
  BY Stacks DEF IInv
<1>2. QED
  BY <1>1 DEF AllHeard

LEMMA HeardStep ==
  ASSUME IInv, AllHeard, NEW t \in Threads, Step(t)
  PROVE  AllHeard'
<1>1. stack[t] # <<>> /\ Heard(Top(t)) /\ Top(t) \in Frames
  <2>1. stack[t] # <<>>
    BY DEF Step, SetBase, Listen, NotifyNext, CheckInputs, Evaluate, NotifiedAll, At
  <2>2. QED
    BY <2>1, TopIsHeard
<1>2. PICK f \in Frames : f = Top(t)
  BY <1>1
<1>3. CASE SetBase(t)
  <2>1. CASE f.var \in Listed
    <3>1. Replace(t, [f EXCEPT !.at = "listen"])
      BY <1>2, <1>3, <2>1 DEF SetBase
    <3>2. Heard([f EXCEPT !.at = "listen"])
      BY <2>1 DEF Heard, Frames
    <3>3. QED
      BY <1>1, <3>1, <3>2, HeardReplaced
  <2>2. CASE f.var \notin Listed
    BY <1>1, <1>2, <1>3, <2>2, HeardReturned DEF SetBase
  <2>3. QED
    BY <2>1, <2>2
<1>4. CASE Listen(t)
  <2>1. Replace(t, [f EXCEPT !.at = "notify", !.todo = Notifies[f.var]])
    BY <1>2, <1>4 DEF Listen
  <2>2. f.at = "listen" /\ f.var \in Listed
    BY <1>1, <1>2, <1>4 DEF Listen, At, Heard
  <2>3. Heard([f EXCEPT !.at = "notify", !.todo = Notifies[f.var]])
    BY <2>2 DEF Heard, Frames
  <2>4. QED
    BY <1>1, <2>1, <2>3, HeardReplaced
<1>5. CASE NotifyNext(t)
  <2>1. PICK n \in Nat : n = Len(stack[t]) /\ n \in DOMAIN stack[t]
    BY <1>1, Stacks DEF IInv
  <2>2. PICK g, k \in Frames : Grown(t, f, n, g, k)
    BY <1>2, <1>5, <2>1, Notifying DEF IInv, NotifyNext
  <2>3. Heard(g) /\ Heard(k)
    BY <1>1, <1>2, <1>5, <2>2 DEF Heard, Grown, NotifyNext, At
  <2>4. QED
    BY <2>1, <2>2, <2>3 DEF AllHeard, Grown
<1>6. CASE CheckInputs(t)
  <2>1. PICK d : d = IF NotGood(f.var) # {} THEN SetFrame(f.var, Rejected(f.var)) ELSE [f EXCEPT !.at = "eval"]
    OBVIOUS
  <2>2. Replace(t, d)
    BY <1>2, <1>6, <2>1 DEF CheckInputs
  <2>3. d.at \in {"base", "eval"}
    BY <2>1 DEF SetFrame, Frames
  <2>4. Heard(d)
    BY <2>3 DEF Heard
  <2>5. QED
    BY <1>1, <2>2, <2>4, HeardReplaced
<1>7. CASE Evaluate(t)
  <2>1. Replace(t, SetFrame(f.var, Evaluated(f.var)))
    BY <1>2, <1>7 DEF Evaluate
  <2>2. PICK d : d = SetFrame(f.var, Evaluated(f.var))
    OBVIOUS
  <2>3. Heard(d)
    BY <2>2 DEF Heard, SetFrame
  <2>4. QED
    BY <1>1, <2>1, <2>2, <2>3, HeardReplaced
<1>8. CASE NotifiedAll(t)
  BY <1>1, <1>8, HeardReturned DEF NotifiedAll
<1>9. QED
  BY <1>3, <1>4, <1>5, <1>6, <1>7, <1>8 DEF Step

LEMMA CalcHeard == Spec => []AllHeard
<1>1. Init => AllHeard
  <2>1. SUFFICES ASSUME Init
                 PROVE  AllHeard
    OBVIOUS
  <2>2. \A t \in Threads : stack[t] = <<>>
    BY <2>1 DEF Init
  <2>3. QED
    BY <2>2 DEF AllHeard
<1>2. IInv /\ AllHeard /\ [Next]_vars => AllHeard'
  <2>1. SUFFICES ASSUME IInv, AllHeard, [Next]_vars
                 PROVE  AllHeard'
    OBVIOUS
  <2>2. CASE \E t \in Threads : Step(t)
    BY <2>1, <2>2, HeardStep
  <2>3. ASSUME NEW t \in Threads, NEW v, NEW d, WriteVariable(t, v, d)
        PROVE  AllHeard'
    <3>1. stack'[t] = <<SetFrame(v, d)>> /\ \A u \in Threads : u # t => stack'[u] = stack[u]
      BY <2>1, <2>3 DEF WriteVariable, IInv, TypeOK
    <3>2. DOMAIN stack'[t] = {1} /\ stack'[t][1].at = "base"
      BY <3>1 DEF SetFrame
    <3>3. QED
      BY <2>1, <3>1, <3>2 DEF AllHeard, Heard
  <2>4. CASE UNCHANGED vars
    BY <2>1, <2>4 DEF AllHeard, vars
  <2>5. QED
    BY <2>1, <2>2, <2>3, <2>4 DEF Next
<1>3. QED
  BY <1>1, <1>2, CalcInvariant, PTL DEF Spec

(* The frames of a thread that have called a listener are of one synchronizer:
   that of the variable the thread is setting. *)
LEMMA OneSynchronizer ==
  ASSUME IInv, AllHeard, NEW t \in Threads, NEW i \in DOMAIN stack[t], stack[t][i].at \in {"listen", "notify"}
  PROVE  Sync[stack[t][i].var] = Sync[stack[t][1].var]
<1> DEFINE At1(j) == Sync[stack[t][j].var] = Sync[stack[t][1].var]
           T == {j \in DOMAIN stack[t] : stack[t][j].at \in {"listen", "notify"} /\ ~ At1(j)}
<1>1. SUFFICES ASSUME T # {}
               PROVE  FALSE
  OBVIOUS
<1>2. DOMAIN stack[t] = 1 .. Len(stack[t]) /\ T \subseteq Nat
  BY Stacks DEF IInv
<1>3. PICK j \in T : \A k \in T : j <= k
  <2>1. PICK S : S = T
    OBVIOUS
  <2>2. \E j \in S : \A k \in S : j <= k
    BY <1>1, <1>2, <2>1, First
  <2>3. QED
    BY <2>1, <2>2
<1>4. j \in DOMAIN stack[t] /\ j # 1 /\ ~ At1(j) /\ stack[t][j].at \in {"listen", "notify"}
  BY <1>3
<1>5. j > 1
  BY <1>2, <1>4
<1>6. PICK c, p : c = stack[t][j].var /\ p = stack[t][j - 1].var
  OBVIOUS
<1>7. /\ c \in Calc /\ c \in Notified(p) /\ j - 1 \in DOMAIN stack[t] /\ stack[t][j - 1].at = "notify"
  BY <1>4, <1>5, <1>6, Places DEF IInv
<1>8. p \in Changing /\ c \in Listed
  BY <1>4, <1>6, <1>7, Places DEF IInv, AllHeard, Heard
<1>9. Sync[p] = Sync[c]
  BY <1>7, <1>8, SynchronizerAssumption
<1>10. j - 1 \notin T
  BY <1>2, <1>3, <1>4
<1>11. At1(j - 1)
  BY <1>7, <1>10
<1>12. QED
  BY <1>4, <1>6, <1>9, <1>11

(* For any graph the engine can give, with any number of threads: whoever waits
   for a synchronizer waits for a thread that goes on.  Locks are taken one inside
   the other, but they are the same lock (ParserVariable.cpp:56-71,
   CalculatedVariablesEngine.cpp:305-361). *)
THEOREM CalcHolderIsAtWork == Spec => []HolderIsAtWork
<1>1. IInv /\ AllHeard => HolderIsAtWork
  <2>1. SUFFICES ASSUME IInv, AllHeard, NEW t \in Threads, Waits(t), NEW u, u = owner[Wanted(t)]
                 PROVE  stack[u] # <<>> /\ ~ Waits(u)
    BY DEF HolderIsAtWork
  <2>2. PICK s : s = Wanted(t)
    OBVIOUS
  <2>3. s # NoSync /\ owner[s] = u /\ u \notin {Nobody, t} /\ stack[t] # <<>>
    BY <2>1, <2>2 DEF Waits, At
  <2>4. s \in Synchronizers
    <3>1. Top(t) \in Frames
      BY <2>1, <2>3, TopIsHeard
    <3>2. Top(t).var \in Vars
      BY <3>1 DEF Frames
    <3>3. QED
      BY <2>2, <2>3, <3>2 DEF Wanted, Synchronizers
  <2>5. u \in Threads /\ Held(u, s) # {}
    <3>1. u \in Threads
      BY <2>1, <2>3, <2>4 DEF IInv, TypeOK
    <3>2. depth[s] = Cardinality(Held(u, s)) /\ depth[s] # 0
      BY <2>1, <2>3, <2>4, <3>1 DEF IInv, LockInv
    <3>3. QED
      BY <3>1, <3>2, FS_EmptySet
  <2>6. PICK i \in DOMAIN stack[u] : stack[u][i].at = "notify" /\ Sync[stack[u][i].var] = s
    BY <2>5 DEF Held, Holds
  <2>7. stack[u] # <<>>
    BY <2>6
  <2>8. ASSUME Waits(u)
        PROVE  FALSE
    <3>1. PICK n : n = Len(stack[u])
      OBVIOUS
    <3>2. n \in DOMAIN stack[u] /\ Top(u) = stack[u][n]
      BY <2>1, <2>5, <2>7, <3>1, Stacks DEF IInv
    <3>3. stack[u][n].at = "listen"
      BY <2>8, <3>2 DEF Waits, At
    <3>4. Sync[stack[u][n].var] = Sync[stack[u][1].var]
      BY <2>1, <2>5, <3>2, <3>3, OneSynchronizer
    <3>5. Sync[stack[u][i].var] = Sync[stack[u][1].var]
      BY <2>1, <2>5, <2>6, OneSynchronizer
    <3>6. Wanted(u) = s
      BY <2>6, <3>2, <3>4, <3>5 DEF Wanted
    <3>7. QED
      BY <2>3, <2>8, <3>6 DEF Waits
  <2>9. QED
    BY <2>7, <2>8
<1>2. QED
  BY <1>1, CalcInvariant, CalcHeard, PTL

=============================================================================
