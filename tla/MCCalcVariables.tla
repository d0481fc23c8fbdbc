-------------------------- MODULE MCCalcVariables --------------------------
(***************************************************************************)
(* CalcVariables for TLC.  The graph is one of two: in "inner", y reads x, *)
(* which reads a and b; in "final", x reads a and b and nothing reads x.   *)
(* Listeners and synchronizers are those that CalcEngine says the graph     *)
(* gets.                                                                   *)
(***************************************************************************)
EXTENDS CalcVariables

CONSTANT Shape
LOCAL INSTANCE SequencesExt

(* The variables in the order of registration, as CalcEngine has them. *)
Registered ==
  LET free == [calc |-> FALSE, value |-> {}, status |-> {}] IN
  IF Shape = "inner"
  THEN << free, free, [calc |-> TRUE, value |-> {1, 2}, status |-> {2}],
          [calc |-> TRUE, value |-> {3}, status |-> {}] >>
  ELSE << free, free, [calc |-> TRUE, value |-> {1, 2}, status |-> {2}] >>

N == Len(Registered)
Used == {v \in 1 .. N : \E c \in 1 .. N : v \in Registered[c].value \cup Registered[c].status}

Engine == INSTANCE CalcEngine WITH
  MaxVariables <- N, registered <- Registered, listed <- Used,
  notifies <- [v \in 1 .. N |-> IF Registered[v].calc /\ v \in Used THEN v ELSE 0],
  sync <- [v \in 1 .. N |-> 0], created <- 0, cursor <- N, search <- <<>>, phase <- "synchronize"

(* One synchronizer for each connected part (DomainsAreComponents), known by its
   first variable. *)
EngineSync ==
  [v \in 1 .. N |->
     IF v \in Engine!Live
     THEN CHOOSE u \in Engine!Live : /\ Engine!Connected(u, v)
                                     /\ \A w \in Engine!Live : Engine!Connected(w, v) => u <= w
     ELSE 0]

Ascending(S) == SetToSortSeq(S, LAMBDA u, v : u < v)

MCVars == 1 .. N
MCCalc == {v \in 1 .. N : Registered[v].calc}
MCValueIn == [v \in 1 .. N |-> Ascending(Registered[v].value)]
MCStatusIn == [v \in 1 .. N |-> Ascending(Registered[v].status)]
(* A calculated variable is pushed once for each formula that reads v. *)
MCNotifies ==
  [v \in 1 .. N |->
     FoldLeft(LAMBDA acc, c : acc \o (IF v \in Registered[c].value THEN <<c>> ELSE <<>>)
                                  \o (IF v \in Registered[c].status THEN <<c>> ELSE <<>>),
              <<>>, Ascending(MCCalc))]
MCListed == Used
MCSync == EngineSync

(* Sums are enough to tell old inputs from new; a status formula, if there is one,
   is true when the sum of its inputs is not zero. *)
MCDoubles == 0 .. 4
MCValueFormula(c, numbers) == FoldLeft(LAMBDA acc, n : acc + n, 0, numbers) % 5
MCStatusFormula(c, numbers) == IF numbers = <<>> THEN 1 ELSE MCValueFormula(c, numbers)

(* Thread "device" sets variable 1, a cache variable, thread "client" variable
   2, a free one. *)
MCFree == {2}
MCThreads == {"device", "client"}
MCWrites == [t \in MCThreads |-> IF t = "device" THEN {1} ELSE {2}]

=============================================================================
