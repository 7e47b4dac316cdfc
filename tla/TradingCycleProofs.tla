-------------------------- MODULE TradingCycleProofs --------------------------
(***************************************************************************)
(* For any number of cycles, operators and orders: what a halt lets out    *)
(* and what a completed run has polled.  With one operator at a time the   *)
(* two tables of the kill switch agree.                                    *)
(***************************************************************************)
EXTENDS TradingCycle, TLAPS

-----------------------------------------------------------------------------
(* Types                                                                   *)

(* The first control row and the empty hand of an operator are typed.     *)
LEMMA FreshTypes == FreshControls \in Controls /\ NoCommand.verb = "none"
                      /\ NoCommand \in [verb : Verbs \cup {"none"}, seen : Controls]
BY SettingsAssumption DEF FreshControls, Controls, NoCommand, Modes

(* A command sets fields of the row it loaded to values of their range.    *)
LEMMA WantedTypes ==
  ASSUME NEW verb \in Verbs, NEW seen \in Controls
  PROVE  Wanted(verb, seen) \in Controls
BY DEF Wanted, Controls, Verbs, Modes

(* Each column of the row is the wanted one or the present one.            *)
LEMMA WrittenFields ==
  ASSUME NEW wanted \in Controls, NEW seen \in Controls, control \in Controls
  PROVE  /\ Written(wanted, seen) \in Controls
         /\ Written(wanted, seen).kill =
              IF wanted.kill # seen.kill THEN wanted.kill ELSE control.kill
<1>1. DOMAIN control = {"kill", "enabled", "paused", "mode"}
  BY DEF Controls
<1> QED
  BY <1>1 DEF Written, Controls

(* The initial state is typed.                                            *)
LEMMA TypeInit == Init => TypeOK
<1> SUFFICES ASSUME Init PROVE TypeOK
  OBVIOUS
<1>1. session \in [Operators -> [verb : Verbs \cup {"none"}, seen : Controls]]
  BY FreshTypes DEF Init
<1> QED
  BY <1>1, FreshTypes DEF Init, TypeOK, Steps

(* Commands keep the types.                                               *)
LEMMA CommandTypes ==
  ASSUME TypeOK, NEW p \in Operators, Command(p)
  PROVE  TypeOK'
<1>1. CASE \E verb \in Commands : Load(p, verb)
  <2>1. PICK verb \in Commands : Load(p, verb)
    BY <1>1
  <2>2. session' = [session EXCEPT ![p] = [verb |-> verb, seen |-> control]]
    BY <2>1 DEF Load
  <2>3. session' \in [Operators -> [verb : Verbs \cup {"none"}, seen : Controls]]
    BY <2>2, CommandAssumption DEF TypeOK
  <2>4. commands' \in Nat
    BY <2>1 DEF Load, TypeOK
  <2> QED
    BY <2>1, <2>3, <2>4 DEF Load, TypeOK, books
<1>2. CASE Commit(p)
  <2> DEFINE verb == session[p].verb
             seen == session[p].seen
  <2>1. verb \in Verbs /\ seen \in Controls
    BY <1>2 DEF TypeOK, Commit
  <2>2. control' = Written(Wanted(verb, seen), seen)
    BY <1>2 DEF Commit
  <2>3. control' \in Controls
    BY <2>1, <2>2, WantedTypes, WrittenFields DEF TypeOK
  <2>4. killRow' \in BOOLEAN
    BY <1>2 DEF Commit, KillRowAfter, TypeOK
  <2>5. row' \in [Orders -> {"none", "open", "canceled", "closed", "rejected"}]
    BY <1>2 DEF Commit, TypeOK
  <2>6. pardoned' \subseteq Orders
    BY <1>2 DEF Commit, TypeOK
  <2>7. session' \in [Operators -> [verb : Verbs \cup {"none"}, seen : Controls]]
    BY <1>2, FreshTypes DEF Commit, TypeOK
  <2> QED
    BY <1>2, <2>3, <2>4, <2>5, <2>6, <2>7 DEF Commit, TypeOK
<1>3. CASE SetStrategy(p) \/ CommandFails(p)
  <2>1. session' \in [Operators -> [verb : Verbs \cup {"none"}, seen : Controls]]
    BY <1>3, FreshTypes DEF SetStrategy, CommandFails, TypeOK
  <2>2. strategyOn' \in BOOLEAN
    BY <1>3 DEF SetStrategy, CommandFails, TypeOK
  <2> QED
    BY <1>3, <2>1, <2>2 DEF SetStrategy, CommandFails, TypeOK, books
<1> QED
  BY <1>1, <1>2, <1>3 DEF Command

(* A cycle leaves the controls and what the halt pardoned alone.           *)
CycleOnly == UNCHANGED <<controls, pardoned>>

(* The steps of a cycle keep the types.                                   *)
LEMMA CycleTypes ==
  ASSUME TypeOK, NEW c \in Cycles, Start(c) \/ CycleStep(c) \/ CycleFault(c)
  PROVE  TypeOK' /\ CycleOnly
<1>1. CycleOnly
  BY DEF CycleOnly, Start, CycleStep, CycleFault, GovernancePasses, GuardStops,
         IngestionReady, Evaluate, Recheck, BeginSubmission, Accept, Record, AllSent,
         Reconcile, Complete, GovernancePauses, IngestionNotReady, EvaluationFails,
         ReconcileFails, StepRaises, Crash
<1>2. faults' \in Nat
  <2>1. faults' = faults \/ faults' = faults + 1
    BY DEF Start, CycleStep, CycleFault, GovernancePasses, GuardStops, Fault,
           IngestionReady, Evaluate, Recheck, BeginSubmission, Accept, Record, AllSent,
           Reconcile, Complete, GovernancePauses, IngestionNotReady, EvaluationFails,
           ReconcileFails, StepRaises, Crash
  <2> QED
    BY <2>1 DEF TypeOK
<1>3. pc' \in [Cycles -> Steps]
  <2>1. CASE IngestionReady(c) \/ Reconcile(c)
    <3>1. pc' \in {[pc EXCEPT ![c] = s] : s \in {"preReconcile", "evaluation", "risk"}}
      BY <2>1 DEF IngestionReady, Reconcile, GoTo
    <3> QED
      BY <3>1 DEF TypeOK, Steps
  <2>2. CASE Start(c) \/ CycleFault(c) \/ Complete(c) \/ GuardStops(c)
    <3>1. \/ UNCHANGED pc
          \/ pc' \in {[pc EXCEPT ![c] = s] : s \in {"idle", "governance"}}
      BY <2>2 DEF Start, CycleFault, Complete, GuardStops, EndRun, GovernancePauses,
                  IngestionNotReady, EvaluationFails, ReconcileFails, StepRaises, Crash
    <3> QED
      BY <3>1 DEF TypeOK, Steps
  <2>3. CASE GovernancePasses(c) \/ Recheck(c) \/ BeginSubmission(c)
    <3>1. pc' \in {[pc EXCEPT ![c] = s] : s \in {"idle", "guard", "submission", "sending", "reconcile"}}
      BY <2>3 DEF GovernancePasses, Recheck, BeginSubmission, GoTo, EndRun
    <3> QED
      BY <3>1 DEF TypeOK, Steps
  <2>4. CASE Evaluate(c) \/ Accept(c) \/ Record(c) \/ AllSent(c)
    <3>1. \/ UNCHANGED pc
          \/ pc' \in {[pc EXCEPT ![c] = s] : s \in {"recheck", "reconcile"}}
      BY <2>4 DEF Evaluate, Accept, Record, AllSent, GoTo
    <3> QED
      BY <3>1 DEF TypeOK, Steps
  <2> QED
    BY <2>1, <2>2, <2>3, <2>4 DEF CycleStep
<1>4. plan' \in [Cycles -> SUBSET Orders]
  <2>1. CASE Evaluate(c)
    BY <2>1 DEF Evaluate, Unplanned, TypeOK
  <2>2. CASE Accept(c)
    BY <2>2 DEF Accept, TypeOK
  <2>3. CASE ~Evaluate(c) /\ ~Accept(c)
    <3>1. UNCHANGED plan \/ plan' = [plan EXCEPT ![c] = {}]
      BY <2>3 DEF Start, CycleStep, CycleFault, GovernancePasses, GuardStops, GoTo, EndRun,
           IngestionReady, Recheck, BeginSubmission, Record, AllSent, Reconcile,
           Complete, GovernancePauses, IngestionNotReady, EvaluationFails, ReconcileFails,
           StepRaises, Crash
    <3> QED
      BY <3>1 DEF TypeOK
  <2> QED
    BY <2>1, <2>2, <2>3
<1>5. job' \in [Cycles -> {"none", "running", "skipped", "completed", "failed"}]
  BY DEF Start, CycleStep, CycleFault, GovernancePasses, GuardStops, GoTo, EndRun,
         IngestionReady, Evaluate, Recheck, BeginSubmission, Accept, Record, AllSent,
         Reconcile, Complete, GovernancePauses, IngestionNotReady, EvaluationFails,
         ReconcileFails, StepRaises, Crash, TypeOK
<1>6. \/ UNCHANGED <<broker, row, unpolled>> /\ sent' \in {sent, [sent EXCEPT ![c] = {}]}
      \/ Accept(c) \/ Record(c) \/ StepRaises(c)
      \/ \E S \in SUBSET Tracked : Poll(S)
  BY DEF Start, CycleStep, CycleFault, GovernancePasses, GuardStops, books,
         IngestionReady, Evaluate, Recheck, BeginSubmission, AllSent, Reconcile,
         Complete, GovernancePauses, IngestionNotReady, EvaluationFails, ReconcileFails,
         Crash
<1>7. /\ broker' \in [Orders -> {"none", "live", "done"}]
      /\ row' \in [Orders -> {"none", "open", "canceled", "closed", "rejected"}]
      /\ unpolled' \subseteq Orders /\ sent' \in [Cycles -> SUBSET Orders]
  <2>1. CASE UNCHANGED <<broker, row, unpolled>> /\ sent' \in {sent, [sent EXCEPT ![c] = {}]}
    BY <2>1 DEF TypeOK
  <2>2. CASE Accept(c)
    BY <2>2 DEF Accept, TypeOK
  <2>3. CASE Record(c)
    BY <2>3 DEF Record, TypeOK
  <2>4. CASE StepRaises(c)
    BY <2>4 DEF StepRaises, TypeOK
  <2>5. CASE \E S \in SUBSET Tracked : Poll(S)
    BY <2>5 DEF Poll, TypeOK
  <2> QED
    BY <1>6, <2>1, <2>2, <2>3, <2>4, <2>5
<1>8. hand' \in [Cycles -> SUBSET Orders]
  <2>1. CASE Accept(c)
    BY <2>1 DEF Accept, TypeOK
  <2>2. CASE ~Accept(c)
    <3>1. UNCHANGED hand \/ hand' = [hand EXCEPT ![c] = {}]
      BY <2>2 DEF Start, CycleStep, CycleFault, GovernancePasses, GuardStops, GoTo, EndRun,
           IngestionReady, Evaluate, Recheck, BeginSubmission, Record, AllSent, Reconcile,
           Complete, GovernancePauses, IngestionNotReady, EvaluationFails, ReconcileFails,
           StepRaises, Crash
    <3> QED
      BY <3>1 DEF TypeOK
  <2> QED
    BY <2>1, <2>2
<1> QED
  BY <1>1, <1>2, <1>3, <1>4, <1>5, <1>7, <1>8 DEF TypeOK, CycleOnly, controls

(* Every step keeps the types.                                            *)
LEMMA TypeStep == ASSUME TypeOK, [Next]_vars PROVE TypeOK'
<1>1. CASE \E c \in Cycles : Start(c) \/ CycleStep(c) \/ CycleFault(c)
  BY <1>1, CycleTypes
<1>2. CASE \E p \in Operators : Command(p)
  BY <1>2, CommandTypes
<1>3. CASE \E o \in Orders : BrokerEnds(o)
  BY <1>3 DEF BrokerEnds, TypeOK, controls
<1>4. CASE UNCHANGED vars
  BY <1>4 DEF vars, TypeOK
<1> QED
  BY <1>1, <1>2, <1>3, <1>4 DEF Next

(* Every variable of the cycle and the controls keeps to its range.        *)
THEOREM TypesKept == Spec => []TypeOK
BY TypeInit, TypeStep, PTL DEF Spec


-----------------------------------------------------------------------------
(* One operator at a time                                                  *)

(* A command in hand was given on the present row.                         *)
LoadedIsPresent ==
  \A p \in Operators : session[p].verb # "none" => session[p].seen = control

TablesInv == TypeOK /\ TablesAgree /\ LoadedIsPresent

(* A commit of the only operator writes both tables alike.                *)
LEMMA TablesCommit ==
  ASSUME TablesInv, \A q, r \in Operators : q = r, NEW p \in Operators, Commit(p)
  PROVE  TablesAgree' /\ LoadedIsPresent'
<1> DEFINE verb == session[p].verb
           seen == session[p].seen
<1>1. verb \in Verbs /\ seen = control /\ control \in Controls /\ control.kill = killRow
  BY DEF TablesInv, TypeOK, Commit, LoadedIsPresent, TablesAgree
<1>2. Wanted(verb, seen) \in Controls
  BY <1>1, WantedTypes
<1>3. control'.kill = Wanted(verb, seen).kill
  BY <1>1, <1>2, WrittenFields DEF Commit
<1>4. killRow' = KillRowAfter(verb, seen)
  BY DEF Commit
<1>5. Wanted(verb, seen).kill = KillRowAfter(verb, seen)
  BY <1>1 DEF Wanted, KillRowAfter, Controls, Verbs, Modes
<1>6. session'[p].verb = "none"
  BY DEF Commit, TablesInv, TypeOK, NoCommand
<1> QED
  BY <1>3, <1>4, <1>5, <1>6 DEF TablesAgree, LoadedIsPresent

(* TablesInv is inductive with one operator.                              *)
LEMMA TablesStep ==
  ASSUME TablesInv, \A p, q \in Operators : p = q, [Next]_vars
  PROVE  TablesInv'
<1>1. TypeOK'
  BY TypeStep DEF TablesInv
<1>2. CASE UNCHANGED <<control, killRow, session>>
  BY <1>1, <1>2 DEF TablesInv, TablesAgree, LoadedIsPresent
<1>3. CASE \E c \in Cycles : Start(c) \/ CycleStep(c) \/ CycleFault(c)
  BY <1>2, <1>3, CycleTypes DEF CycleOnly, controls, TablesInv
<1>4. CASE \E p \in Operators : Command(p)
  <2>1. PICK p \in Operators : Command(p)
    BY <1>4
  <2>2. CASE Commit(p)
    BY <1>1, <2>2, TablesCommit DEF TablesInv
  <2>3. CASE ~Commit(p)
    <3>1. UNCHANGED <<control, killRow>>
      BY <2>1, <2>3 DEF Command, Load, SetStrategy, CommandFails
    <3>2. session'[p].verb # "none" => session'[p].seen = control
      <4>1. CASE \E v \in Commands : Load(p, v)
        BY <4>1 DEF Load, TablesInv, TypeOK
      <4>2. CASE SetStrategy(p) \/ CommandFails(p)
        BY <4>2, FreshTypes DEF SetStrategy, CommandFails, TablesInv, TypeOK
      <4> QED
        BY <2>1, <2>3, <4>1, <4>2 DEF Command
    <3> QED
      BY <1>1, <3>1, <3>2 DEF TablesInv, TablesAgree, LoadedIsPresent
  <2> QED
    BY <2>2, <2>3
<1>5. CASE \E o \in Orders : BrokerEnds(o)
  BY <1>2, <1>5 DEF BrokerEnds, controls
<1> QED
  BY <1>2, <1>3, <1>4, <1>5 DEF Next, vars

(* Both tables start without a halt.                                      *)
LEMMA TablesInit == Init => TablesInv
<1> SUFFICES ASSUME Init PROVE TablesInv
  OBVIOUS
<1>1. TypeOK
  BY TypeInit
<1>2. TablesAgree
  BY DEF Init, TablesAgree, FreshControls
<1>3. LoadedIsPresent
  BY FreshTypes DEF Init, LoadedIsPresent
<1> QED
  BY <1>1, <1>2, <1>3 DEF TablesInv

(* The control row and the kill switch's own table, which the live gate    *)
(* reads, stay in sync as KillSwitchService's doc says, if no two commands *)
(* are in hand at the same time.                                           *)
THEOREM ControlsAreSound ==
  ASSUME \A p, q \in Operators : p = q
  PROVE  Spec => []ControlsSound
<1>1. TablesInv /\ [Next]_vars => TablesInv'
  BY TablesStep
<1>2. TablesInv => ControlsSound
  BY DEF TablesInv, ControlsSound
<1> QED
  BY TablesInit, <1>1, <1>2, PTL DEF Spec

-----------------------------------------------------------------------------
(* What a halt lets out                                                    *)

(* Orders past the last check while the switch is on were past it when it  *)
(* went on.                                                                *)
PastIsPardoned ==
  control.kill => \A c \in Cycles : PastChecks(c) => plan[c] \subseteq pardoned

(* The live gate asks the other table of the kill switch.                  *)
GateHolds == Environment = "live" /\ control.kill => killRow

HaltInv == TypeOK /\ PastIsPardoned

(* A command that halts pardons what is past its checks.                  *)
LEMMA HaltCommand ==
  ASSUME HaltInv, NEW p \in Operators, Command(p)
  PROVE  PastIsPardoned'
<1>1. UNCHANGED <<pc, plan>>
  BY DEF Command, Load, Commit, SetStrategy, CommandFails
<1>2. CASE UNCHANGED <<control, pardoned>>
  BY <1>1, <1>2 DEF HaltInv, PastIsPardoned, PastChecks
<1>3. CASE Commit(p)
  <2> DEFINE verb == session[p].verb
             seen == session[p].seen
  <2>1. verb \in Verbs /\ seen \in Controls /\ control \in Controls
    BY <1>3 DEF HaltInv, TypeOK, Commit
  <2>2. Wanted(verb, seen) \in Controls
    BY <2>1, WantedTypes
  <2>3. control'.kill = IF Wanted(verb, seen).kill # seen.kill
                          THEN Wanted(verb, seen).kill ELSE control.kill
    BY <1>3, <2>1, <2>2, WrittenFields DEF Commit
  <2>4. CASE verb = "halt" /\ ~control.kill
    <3>1. pardoned' = UNION {plan[c] : c \in {d \in Cycles : PastChecks(d)}}
      BY <1>3, <2>4 DEF Commit
    <3> QED
      BY <1>1, <3>1 DEF PastIsPardoned, PastChecks
  <2>5. CASE ~(verb = "halt" /\ ~control.kill)
    <3>1. UNCHANGED pardoned
      BY <1>3, <2>5 DEF Commit
    <3>2. control'.kill => control.kill
      <4>1. CASE verb = "halt"
        BY <2>5, <4>1
      <4>2. CASE verb # "halt"
        BY <2>1, <2>3, <4>2 DEF Wanted, Controls, Verbs, Modes
      <4> QED
        BY <4>1, <4>2
    <3> QED
      BY <1>1, <3>1, <3>2 DEF HaltInv, PastIsPardoned, PastChecks
  <2> QED
    BY <2>4, <2>5
<1>4. CASE ~Commit(p)
  BY <1>2, <1>4 DEF Command, Load, SetStrategy, CommandFails
<1> QED
  BY <1>3, <1>4

(* No cycle gets past its checks under a halt.                            *)
LEMMA HaltCycle ==
  ASSUME HaltInv, GateHolds, NEW c \in Cycles, Start(c) \/ CycleStep(c) \/ CycleFault(c)
  PROVE  PastIsPardoned'
<1>1. UNCHANGED <<control, pardoned>>
  BY CycleTypes DEF HaltInv, CycleOnly, controls
<1>2. control.kill /\ PastChecks(c)' => PastChecks(c) /\ plan'[c] \subseteq plan[c]
  <2> SUFFICES ASSUME control.kill, PastChecks(c)'
               PROVE  PastChecks(c) /\ plan'[c] \subseteq plan[c]
    OBVIOUS
  <2>1. Blocked /\ (Environment = "live" => GuardRaises) /\ Environment \in {"paper", "live"}
    BY SettingsAssumption DEF Blocked, GateHolds, GuardRaises
  <2>2. pc'[c] \in {"submission", "sending"}
    BY DEF PastChecks
  <2>3. Accept(c) \/ Record(c) \/ (BeginSubmission(c) /\ ~GuardRaises)
    BY <2>1, <2>2 DEF HaltInv, TypeOK, Start, CycleStep, CycleFault, GovernancePasses,
       GuardStops, GoTo, EndRun, IngestionReady, Evaluate, Recheck, BeginSubmission,
       AllSent, Reconcile, Complete, GovernancePauses, IngestionNotReady,
       EvaluationFails, ReconcileFails, StepRaises, Crash
  <2>4. CASE Accept(c) \/ Record(c)
    BY <2>4 DEF Accept, Record, PastChecks, HaltInv, TypeOK
  <2>5. CASE BeginSubmission(c) /\ ~GuardRaises
    BY <2>1, <2>5 DEF BeginSubmission, PastChecks, GoTo, HaltInv, TypeOK
  <2> QED
    BY <2>3, <2>4, <2>5
<1>3. \A d \in Cycles \ {c} : pc'[d] = pc[d] /\ plan'[d] = plan[d]
  BY DEF HaltInv, TypeOK, Start, CycleStep, CycleFault, GovernancePasses,
     GuardStops, GoTo, EndRun, IngestionReady, Evaluate, Recheck, BeginSubmission, Accept,
     Record, AllSent, Reconcile, Complete, GovernancePauses, IngestionNotReady,
     EvaluationFails, ReconcileFails, StepRaises, Crash
<1> QED
  BY <1>1, <1>2, <1>3 DEF HaltInv, PastIsPardoned, PastChecks

(* HaltInv is inductive where the last check sees the halt.               *)
LEMMA HaltStep == ASSUME HaltInv, GateHolds, [Next]_vars PROVE HaltInv'
<1>1. TypeOK'
  BY TypeStep DEF HaltInv
<1>2. CASE \E c \in Cycles : Start(c) \/ CycleStep(c) \/ CycleFault(c)
  BY <1>1, <1>2, HaltCycle DEF HaltInv
<1>3. CASE \E p \in Operators : Command(p)
  BY <1>1, <1>3, HaltCommand DEF HaltInv
<1>4. CASE UNCHANGED <<control, pc, plan, pardoned>>
  BY <1>1, <1>4 DEF HaltInv, PastIsPardoned, PastChecks
<1> QED
  BY <1>2, <1>3, <1>4 DEF Next, BrokerEnds, controls, vars

(* There is no halt at the start.                                         *)
LEMMA HaltInit == Init => HaltInv
BY TypeInit DEF Init, HaltInv, PastIsPardoned, FreshControls

(* Only an acceptance takes an order to the broker.                        *)
LEMMA LeavesBySending ==
  ASSUME TypeOK, [Next]_vars, NEW o \in Orders, broker[o] = "none", broker'[o] # "none"
  PROVE  \E c \in Cycles : Accept(c) /\ o \in plan[c]
<1>1. CASE \E c \in Cycles : Accept(c)
  <2>1. PICK c \in Cycles : Accept(c)
    BY <1>1
  <2>2. PICK gone \in plan[c] : broker' = [broker EXCEPT ![gone] = "live"]
    BY <2>1 DEF Accept
  <2>3. o = gone
    BY <2>2 DEF TypeOK
  <2> QED
    BY <2>1, <2>2, <2>3
<1>2. CASE ~\E c \in Cycles : Accept(c)
  BY <1>2 DEF Next, vars, Start, CycleStep, CycleFault, GovernancePasses,
     GuardStops, IngestionReady, Evaluate, Recheck, BeginSubmission,
     Record, AllSent, Reconcile, Complete, GovernancePauses, IngestionNotReady, Poll,
     EvaluationFails, ReconcileFails, StepRaises, Crash, Command, Load, Commit,
     SetStrategy, CommandFails, BrokerEnds, TypeOK, books
<1> QED
  BY <1>1, <1>2

(* Under HaltInv only what was past its checks leaves.                    *)
LEMMA HaltGuards ==
  ASSUME HaltInv, [Next]_vars
  PROVE  \A o \in Orders : control.kill /\ broker[o] = "none" /\ broker'[o] # "none" => o \in pardoned
<1>1. \A c \in Cycles : Accept(c) => PastChecks(c)
  BY DEF Accept, PastChecks
<1> QED
  BY <1>1, LeavesBySending DEF HaltInv, PastIsPardoned

(* Trading on paper, a halt lets out only what cycles already carried past *)
(* the recheck, however many operators and cycles there are.               *)
THEOREM HaltHoldsOnPaper ==
  ASSUME Environment = "paper"
  PROVE  Spec => OnlyPardonedLeave
<1>1. GateHolds
  BY DEF GateHolds
<1>2. HaltInv /\ [Next]_vars => HaltInv'
  BY <1>1, HaltStep
<1>3. HaltInv /\ [Next]_vars =>
        [\A o \in Orders : control.kill /\ broker[o] = "none" /\ broker'[o] # "none" => o \in pardoned]_vars
  BY HaltGuards
<1> QED
  BY HaltInit, <1>2, <1>3, PTL DEF Spec, OnlyPardonedLeave

(* In any environment it does if one command is in hand at a time: the     *)
(* tables then agree, and the live gate sees the halt.                     *)
THEOREM HaltHoldsWithOneOperator ==
  ASSUME \A p, q \in Operators : p = q
  PROVE  Spec => OnlyPardonedLeave
<1>1. TablesInv => GateHolds
  BY DEF TablesInv, TablesAgree, GateHolds
<1>2. TablesInv /\ [Next]_vars => TablesInv'
  BY TablesStep
<1>3. TablesInv /\ HaltInv /\ [Next]_vars => HaltInv'
  BY <1>1, HaltStep
<1>4. HaltInv /\ [Next]_vars =>
        [\A o \in Orders : control.kill /\ broker[o] = "none" /\ broker'[o] # "none" => o \in pardoned]_vars
  BY HaltGuards
<1> QED
  BY TablesInit, HaltInit, <1>2, <1>3, <1>4, PTL DEF Spec, OnlyPardonedLeave


-----------------------------------------------------------------------------
(* What a completed run has polled                                         *)

BeforeSending ==
  {"governance", "guard", "preReconcile", "evaluation", "recheck", "submission"}

(* An order is planned once, before it is accepted, and accepted in one    *)
(* run; a cycle holds one without its row at a time.                       *)
SentOnce ==
  /\ \A c \in Cycles : \A o \in plan[c] : broker[o] = "none"
  /\ \A c, d \in Cycles : c # d => plan[c] \cap plan[d] = {}
  /\ \A c \in Cycles : \A o \in sent[c] : broker[o] # "none"
  /\ \A c, d \in Cycles : c # d => sent[c] \cap sent[d] = {}
  /\ \A c \in Cycles : hand[c] \subseteq sent[c] /\ \A o, q \in hand[c] : o = q

(* A run has sent nothing before its submission, keeps track of what it    *)
(* has sent, and leaves nothing unpolled behind its reconciliation.        *)
RunIsPolled ==
  \A c \in Cycles :
    /\ pc[c] \in BeforeSending => sent[c] = {}
    /\ pc[c] # "idle" => sent[c] \cap unpolled \subseteq Tracked \cup hand[c]
    /\ pc[c] = "risk" \/ job[c] = "completed" => sent[c] \cap unpolled = {}
    /\ job[c] = "completed" => pc[c] = "idle"
    /\ pc[c] # "sending" => hand[c] = {}

PollInv == TypeOK /\ SentOnce /\ RunIsPolled

(* Nothing is planned, sent or tracked at the start.                      *)
LEMMA PollInit == Init => PollInv
BY TypeInit DEF Init, PollInv, SentOnce, RunIsPolled, BeforeSending


(* A cycle's step changes its own position, plan, hand and row only.       *)
LEMMA OwnStep ==
  ASSUME TypeOK, NEW c \in Cycles, Start(c) \/ CycleStep(c) \/ CycleFault(c)
  PROVE  \A d \in Cycles \ {c} :
           /\ pc'[d] = pc[d] /\ plan'[d] = plan[d] /\ job'[d] = job[d]
           /\ sent'[d] = sent[d] /\ hand'[d] = hand[d]
<1> DEFINE Own(f, g) == \A d \in Cycles \ {c} : g[d] = f[d]
<1> SUFFICES Own(pc, pc') /\ Own(plan, plan') /\ Own(job, job') /\ Own(sent, sent')
               /\ Own(hand, hand')
  OBVIOUS
<1>1. CASE Start(c)
  BY <1>1 DEF TypeOK, Start
<1>2. CASE Accept(c) \/ Record(c)
  BY <1>2 DEF TypeOK, Accept, Record
<1>3. CASE Evaluate(c)
  BY <1>3 DEF TypeOK, Evaluate, books
<1>4. CASE Reconcile(c) \/ ReconcileFails(c)
  BY <1>4 DEF TypeOK, Reconcile, ReconcileFails, Poll, GoTo, EndRun
<1>5. CASE GovernancePasses(c) \/ GuardStops(c) \/ IngestionReady(c) \/ Recheck(c)
  BY <1>5 DEF TypeOK, GovernancePasses, GuardStops, IngestionReady, Recheck, GoTo, EndRun,
              books
<1>6. CASE BeginSubmission(c) \/ AllSent(c) \/ Complete(c)
  BY <1>6 DEF TypeOK, BeginSubmission, AllSent, Complete, GoTo, EndRun, books
<1>7. CASE GovernancePauses(c) \/ IngestionNotReady(c) \/ EvaluationFails(c)
           \/ StepRaises(c) \/ Crash(c)
  BY <1>7 DEF TypeOK, GovernancePauses, IngestionNotReady, EvaluationFails, StepRaises,
              Crash, EndRun, books
<1> QED
  BY <1>1, <1>2, <1>3, <1>4, <1>5, <1>6, <1>7 DEF CycleStep, CycleFault

(* Polling leaves tracked what was.                                        *)
LEMMA PollKeeps ==
  ASSUME NEW S \in SUBSET Tracked, Poll(S)
  PROVE  /\ UNCHANGED <<broker, sent>> /\ unpolled' = unpolled \ S
         /\ Tracked \ S \subseteq Tracked'
BY DEF Poll, Tracked

(* Accepting: the order was in no run's sent set, and is in hand now.      *)
LEMMA AcceptKeeps ==
  ASSUME PollInv, TypeOK', NEW c \in Cycles, Accept(c)
  PROVE  PollInv'
<1>1. PICK o \in plan[c] : /\ plan' = [plan EXCEPT ![c] = @ \ {o}]
                           /\ hand' = [hand EXCEPT ![c] = {o}]
                           /\ broker' = [broker EXCEPT ![o] = "live"]
                           /\ unpolled' = unpolled \cup {o}
                           /\ sent' = [sent EXCEPT ![c] = @ \cup {o}]
  BY DEF Accept
<1>2. o \in Orders /\ broker[o] = "none" /\ pc[c] = "sending" /\ UNCHANGED <<pc, job, row>>
      /\ hand[c] = {}
  BY DEF Accept, PollInv, SentOnce, TypeOK
<1>3. \A d \in Cycles : plan'[d] \subseteq plan[d]
        /\ (d # c => sent'[d] = sent[d] /\ hand'[d] = hand[d])
  BY <1>1 DEF PollInv, TypeOK
<1>4. \A d \in Cycles : o \notin plan'[d]
  BY <1>1, <1>2 DEF PollInv, SentOnce, TypeOK
<1>5. \A q \in Orders \ {o} : broker'[q] = broker[q]
  BY <1>1 DEF PollInv, TypeOK
<1>6. broker'[o] = "live" /\ sent'[c] = sent[c] \cup {o} /\ hand'[c] = {o}
  BY <1>1, <1>2 DEF PollInv, TypeOK
<1>7. \A d \in Cycles : o \notin sent[d] /\ plan[d] \subseteq Orders /\ sent[d] \subseteq Orders
  BY <1>2 DEF PollInv, SentOnce, TypeOK
<1>8. SentOnce'
  <2>1. \A d \in Cycles : \A q \in plan'[d] : broker'[q] = "none"
    BY <1>3, <1>4, <1>5, <1>7 DEF PollInv, SentOnce
  <2>2. \A d, e \in Cycles : d # e => plan'[d] \cap plan'[e] = {}
    BY <1>3 DEF PollInv, SentOnce
  <2>3. \A d \in Cycles : \A q \in sent'[d] : broker'[q] # "none"
    BY <1>3, <1>5, <1>6, <1>7 DEF PollInv, SentOnce
  <2>4. \A d, e \in Cycles : d # e => sent'[d] \cap sent'[e] = {}
    BY <1>3, <1>6, <1>7 DEF PollInv, SentOnce
  <2>5. \A d \in Cycles : hand'[d] \subseteq sent'[d] /\ \A p, q \in hand'[d] : p = q
    BY <1>3, <1>6 DEF PollInv, SentOnce
  <2> QED
    BY <2>1, <2>2, <2>3, <2>4, <2>5 DEF SentOnce
<1>9. RunIsPolled'
  <2> SUFFICES ASSUME NEW d \in Cycles
               PROVE  /\ pc[d] \in BeforeSending => sent'[d] = {}
                      /\ pc[d] # "idle" => sent'[d] \cap unpolled' \subseteq Tracked \cup hand'[d]
                      /\ pc[d] = "risk" \/ job[d] = "completed" => sent'[d] \cap unpolled' = {}
                      /\ job[d] = "completed" => pc[d] = "idle"
                      /\ pc[d] # "sending" => hand'[d] = {}
    BY <1>2 DEF RunIsPolled, Tracked
  <2>1. CASE d = c
    <3>1. sent[c] \cap unpolled \subseteq Tracked
      BY <1>2 DEF PollInv, RunIsPolled
    <3> QED
      BY <1>1, <1>2, <1>6, <2>1, <3>1 DEF PollInv, RunIsPolled, BeforeSending
  <2>2. CASE d # c
    BY <1>1, <1>3, <1>7, <2>2 DEF PollInv, RunIsPolled
  <2> QED
    BY <2>1, <2>2
<1> QED
  BY <1>8, <1>9 DEF PollInv

(* Recording: what was in hand is tracked now, or known to be done.        *)
LEMMA RecordKeeps ==
  ASSUME PollInv, TypeOK', NEW c \in Cycles, Record(c)
  PROVE  PollInv'
<1>1. PICK o \in hand[c] :
        \/ row' = [row EXCEPT ![o] = "open"] /\ UNCHANGED unpolled
        \/ row' = [row EXCEPT ![o] = "closed"] /\ unpolled' = unpolled \ {o}
  BY DEF Record
<1>2. /\ UNCHANGED <<pc, plan, job, broker, sent>> /\ hand' = [hand EXCEPT ![c] = {}]
      /\ o \in Orders /\ o \in sent[c] /\ hand[c] = {o}
  BY DEF Record, PollInv, SentOnce, TypeOK
<1>3. hand'[c] = {} /\ \A d \in Cycles \ {c} : hand'[d] = hand[d]
  BY <1>2 DEF PollInv, TypeOK
<1>4. SentOnce'
  BY <1>2, <1>3 DEF PollInv, SentOnce
<1>5. unpolled' \subseteq unpolled /\ (o \in unpolled' => o \in Tracked')
  BY <1>1, <1>2 DEF Tracked, PollInv, TypeOK
<1>6. Tracked \ {o} \subseteq Tracked'
  BY <1>1 DEF Tracked, PollInv, TypeOK
<1>7. RunIsPolled'
  <2> SUFFICES ASSUME NEW d \in Cycles
               PROVE  /\ pc[d] # "idle" => sent[d] \cap unpolled' \subseteq Tracked' \cup hand'[d]
                      /\ pc[d] # "sending" => hand'[d] = {}
    BY <1>2, <1>5 DEF PollInv, RunIsPolled
  <2>1. pc[d] # "sending" => hand'[d] = {}
    BY <1>3 DEF PollInv, RunIsPolled
  <2>2. ASSUME pc[d] # "idle" PROVE sent[d] \cap unpolled' \subseteq Tracked' \cup hand'[d]
    <3>1. sent[d] \cap unpolled \subseteq Tracked \cup hand[d]
      BY <2>2 DEF PollInv, RunIsPolled
    <3>2. hand[d] \subseteq hand'[d] \cup {o}
      BY <1>2, <1>3
    <3> QED
      BY <1>5, <1>6, <3>1, <3>2
  <2> QED
    BY <2>1, <2>2
<1> QED
  BY <1>4, <1>7 DEF PollInv

(* Planning takes orders no cycle has planned or sent.                     *)
LEMMA EvaluateKeeps ==
  ASSUME PollInv, TypeOK', NEW c \in Cycles, Evaluate(c)
  PROVE  PollInv'
<1>1. PICK S \in SUBSET Unplanned : plan' = [plan EXCEPT ![c] = S]
  BY DEF Evaluate
<1>2. pc' = [pc EXCEPT ![c] = "recheck"] /\ pc[c] = "evaluation"
      /\ UNCHANGED <<hand, job, broker, row, unpolled, sent>>
  BY DEF Evaluate, books
<1>3. \A d \in Cycles \ {c} : plan'[d] = plan[d] /\ pc'[d] = pc[d]
  BY <1>1, <1>2 DEF PollInv, TypeOK
<1>4. plan'[c] = S /\ pc'[c] = "recheck"
  BY <1>1, <1>2 DEF PollInv, TypeOK
<1>5. \A o \in S : broker[o] = "none" /\ \A d \in Cycles : o \notin plan[d]
  BY DEF Unplanned
<1>6. SentOnce'
  <2>1. \A d \in Cycles : \A o \in plan'[d] : broker'[o] = "none"
    BY <1>2, <1>3, <1>4, <1>5 DEF PollInv, SentOnce
  <2>2. \A d, e \in Cycles : d # e => plan'[d] \cap plan'[e] = {}
    BY <1>3, <1>4, <1>5 DEF PollInv, SentOnce
  <2> QED
    BY <1>2, <2>1, <2>2 DEF PollInv, SentOnce
<1>7. RunIsPolled'
  BY <1>2, <1>3, <1>4 DEF PollInv, RunIsPolled, BeforeSending, Tracked
<1> QED
  BY <1>6, <1>7 DEF PollInv

(* Reconciling polls all that is tracked, so what the run has sent.        *)
LEMMA ReconcileKeeps ==
  ASSUME PollInv, TypeOK', NEW c \in Cycles, Reconcile(c) \/ ReconcileFails(c)
  PROVE  PollInv'
<1>1. PICK S \in SUBSET Tracked : Poll(S) /\ (Reconcile(c) => S = Tracked)
  BY DEF Reconcile, ReconcileFails
<1>2. /\ UNCHANGED <<broker, sent>> /\ unpolled' = unpolled \ S
      /\ Tracked \ S \subseteq Tracked'
  BY <1>1, PollKeeps
<1>3. \A d \in Cycles : plan'[d] \subseteq plan[d]
  BY DEF Reconcile, ReconcileFails, GoTo, EndRun, PollInv, TypeOK
<1>4. hand'[c] = {} /\ hand[c] = {}
  BY DEF Reconcile, ReconcileFails, GoTo, EndRun, PollInv, TypeOK, RunIsPolled
<1>5. \A d \in Cycles \ {c} : pc'[d] = pc[d] /\ job'[d] = job[d] /\ hand'[d] = hand[d]
  BY OwnStep DEF PollInv, CycleStep, CycleFault
<1>6. SentOnce'
  BY <1>2, <1>3, <1>4, <1>5 DEF PollInv, SentOnce
<1>7. \/ pc[c] = "preReconcile" /\ pc'[c] = "evaluation" /\ UNCHANGED job
      \/ pc[c] = "reconcile" /\ pc'[c] = "risk" /\ UNCHANGED job /\ S = Tracked
      \/ pc'[c] = "idle" /\ job'[c] = "failed"
  BY <1>1 DEF Reconcile, ReconcileFails, GoTo, EndRun, PollInv, TypeOK
<1>8. RunIsPolled'
  <2> SUFFICES ASSUME NEW d \in Cycles
               PROVE  /\ pc'[d] \in BeforeSending => sent[d] = {}
                      /\ pc'[d] # "idle" => sent[d] \cap unpolled' \subseteq Tracked' \cup hand'[d]
                      /\ pc'[d] = "risk" \/ job'[d] = "completed" => sent[d] \cap unpolled' = {}
                      /\ job'[d] = "completed" => pc'[d] = "idle"
                      /\ pc'[d] # "sending" => hand'[d] = {}
    BY <1>2 DEF RunIsPolled
  <2>1. CASE d = c
    <3>1. CASE pc[c] = "preReconcile" /\ pc'[c] = "evaluation" /\ UNCHANGED job
      BY <1>4, <2>1, <3>1 DEF PollInv, RunIsPolled, BeforeSending
    <3>2. CASE pc[c] = "reconcile" /\ pc'[c] = "risk" /\ UNCHANGED job /\ S = Tracked
      <4>1. sent[c] \cap unpolled \subseteq Tracked
        BY <1>4, <3>2 DEF PollInv, RunIsPolled
      <4>2. sent[c] \cap unpolled' = {}
        BY <1>2, <3>2, <4>1
      <4> QED
        BY <1>4, <2>1, <3>2, <4>2 DEF PollInv, RunIsPolled, BeforeSending
    <3>3. CASE pc'[c] = "idle" /\ job'[c] = "failed"
      BY <1>4, <2>1, <3>3 DEF BeforeSending
    <3> QED
      BY <1>7, <3>1, <3>2, <3>3
  <2>2. CASE d # c
    BY <1>2, <1>5, <2>2 DEF PollInv, RunIsPolled
  <2> QED
    BY <2>1, <2>2
<1> QED
  BY <1>6, <1>8 DEF PollInv

(* A step that raises marks at most the order in its own hand.             *)
LEMMA RaisesKeeps ==
  ASSUME PollInv, TypeOK', NEW c \in Cycles, StepRaises(c)
  PROVE  PollInv'
<1>1. /\ UNCHANGED <<broker, unpolled, sent>>
      /\ pc' = [pc EXCEPT ![c] = "idle"] /\ plan' = [plan EXCEPT ![c] = {}]
      /\ hand' = [hand EXCEPT ![c] = {}]
      /\ job' \in {[job EXCEPT ![c] = s] : s \in {"failed", "running"}}
      /\ Tracked \ hand[c] \subseteq Tracked'
  BY DEF StepRaises, EndRun, Tracked
<1>2. pc'[c] = "idle" /\ plan'[c] = {} /\ hand'[c] = {} /\ job'[c] # "completed"
  BY <1>1 DEF PollInv, TypeOK
<1>3. \A d \in Cycles \ {c} : pc'[d] = pc[d] /\ plan'[d] = plan[d] /\ job'[d] = job[d]
                              /\ hand'[d] = hand[d]
  BY <1>1 DEF PollInv, TypeOK
<1>4. SentOnce'
  BY <1>1, <1>2, <1>3 DEF PollInv, SentOnce
<1>5. \A d \in Cycles \ {c} : sent[d] \cap hand[c] = {}
  BY DEF PollInv, SentOnce
<1>6. RunIsPolled'
  BY <1>1, <1>2, <1>3, <1>5 DEF PollInv, RunIsPolled, BeforeSending
<1> QED
  BY <1>4, <1>6 DEF PollInv

(* The other steps of a run leave the books alone.                         *)
LEMMA OtherKeeps ==
  ASSUME PollInv, TypeOK', NEW c \in Cycles, Start(c) \/ CycleStep(c) \/ CycleFault(c),
         ~Accept(c), ~Record(c), ~Evaluate(c), ~Reconcile(c), ~ReconcileFails(c),
         ~StepRaises(c)
  PROVE  PollInv'
<1>1. UNCHANGED <<broker, row, unpolled>>
  BY DEF Start, CycleStep, CycleFault, GovernancePasses, GuardStops, IngestionReady,
     Recheck, BeginSubmission, AllSent, Complete, GovernancePauses, IngestionNotReady,
     EvaluationFails, Crash, books
<1>2. \A d \in Cycles : plan'[d] \subseteq plan[d]
  BY DEF Start, CycleStep, CycleFault, GovernancePasses, GuardStops, IngestionReady,
     Recheck, BeginSubmission, AllSent, Complete, GovernancePauses, IngestionNotReady,
     EvaluationFails, Crash, GoTo, EndRun, PollInv, TypeOK
<1>3. sent' \in {sent, [sent EXCEPT ![c] = {}]} /\ hand' \in {hand, [hand EXCEPT ![c] = {}]}
  BY DEF Start, CycleStep, CycleFault, GovernancePasses, GuardStops, IngestionReady,
     Recheck, BeginSubmission, AllSent, Complete, GovernancePauses, IngestionNotReady,
     EvaluationFails, Crash, GoTo, EndRun, books
<1>4. Start(c) => UNCHANGED hand /\ pc[c] = "idle"
  BY DEF Start
<1>5. ~Start(c) => UNCHANGED sent
  BY DEF Start, CycleStep, CycleFault, GovernancePasses, GuardStops, IngestionReady,
     Recheck, BeginSubmission, AllSent, Complete, GovernancePauses, IngestionNotReady,
     EvaluationFails, Crash, GoTo, EndRun, books
<1>6. pc'[c] # "sending" => hand'[c] = {}
  <2>1. CASE Start(c)
    BY <1>4, <2>1 DEF PollInv, RunIsPolled
  <2>2. CASE AllSent(c)
    BY <2>2 DEF AllSent, GoTo
  <2>3. CASE ~Start(c) /\ ~AllSent(c)
    <3>1. pc[c] # "sending" \/ hand' = [hand EXCEPT ![c] = {}]
      BY <2>3 DEF CycleStep, CycleFault, GovernancePasses, GuardStops, IngestionReady,
         Recheck, BeginSubmission, Complete, GovernancePauses, IngestionNotReady,
         EvaluationFails, Crash, EndRun
    <3>2. pc[c] # "sending" => hand[c] = {}
      BY DEF PollInv, RunIsPolled
    <3> QED
      BY <1>3, <3>1, <3>2 DEF PollInv, TypeOK
  <2> QED
    BY <2>1, <2>2, <2>3
<1>7. \A d \in Cycles \ {c} : /\ pc'[d] = pc[d] /\ job'[d] = job[d]
                              /\ sent'[d] = sent[d] /\ hand'[d] = hand[d]
  BY OwnStep DEF PollInv
<1>8. /\ \A d \in Cycles : sent'[d] \subseteq sent[d] /\ hand'[d] \subseteq hand[d]
      /\ hand'[c] \subseteq sent'[c]
  <2>1. sent'[c] \subseteq sent[c] /\ hand'[c] \subseteq hand[c]
    BY <1>3 DEF PollInv, TypeOK
  <2>2. hand'[c] \subseteq sent'[c]
    BY <1>4, <1>5, <2>1 DEF PollInv, SentOnce, RunIsPolled
  <2> QED
    BY <1>7, <2>1, <2>2
<1>9. SentOnce'
  <2>1. \A d \in Cycles : \A o \in plan'[d] : broker'[o] = "none"
    BY <1>1, <1>2 DEF PollInv, SentOnce
  <2>2. \A d, e \in Cycles : d # e => plan'[d] \cap plan'[e] = {}
    BY <1>2 DEF PollInv, SentOnce
  <2>3. \A d \in Cycles : \A o \in sent'[d] : broker'[o] # "none"
    BY <1>1, <1>8 DEF PollInv, SentOnce
  <2>4. \A d, e \in Cycles : d # e => sent'[d] \cap sent'[e] = {}
    BY <1>8 DEF PollInv, SentOnce
  <2>5. \A d \in Cycles : hand'[d] \subseteq sent'[d] /\ \A p, q \in hand'[d] : p = q
    BY <1>7, <1>8 DEF PollInv, SentOnce
  <2> QED
    BY <2>1, <2>2, <2>3, <2>4, <2>5 DEF SentOnce
<1>10. /\ pc'[c] \in BeforeSending => sent'[c] = {}
       /\ pc'[c] # "idle" => sent'[c] = {} \/ (pc[c] # "idle" /\ sent'[c] = sent[c] /\ hand'[c] = hand[c])
       /\ pc'[c] = "risk" => pc[c] = "risk"
       /\ job'[c] = "completed" =>
            pc'[c] = "idle" /\ (pc[c] \in BeforeSending \cup {"risk"} \/ job[c] = "completed")
  <2>1. CASE Start(c)
    BY <2>1 DEF Start, PollInv, TypeOK, RunIsPolled, BeforeSending
  <2>2. CASE CycleFault(c)
    BY <2>2 DEF CycleFault, GovernancePauses, IngestionNotReady, EvaluationFails,
       Crash, EndRun, PollInv, TypeOK, BeforeSending
  <2>3. CASE CycleStep(c)
    <3>1. sent' = sent
      BY <2>3 DEF CycleStep, GovernancePasses, GuardStops, IngestionReady, Recheck,
         BeginSubmission, AllSent, Complete, books
    <3>2. pc'[c] \in BeforeSending => pc[c] \in BeforeSending
      <4>1. pc[c] \in BeforeSending \/ AllSent(c) \/ Complete(c)
        BY <2>3 DEF CycleStep, GovernancePasses, GuardStops, IngestionReady, Recheck,
           BeginSubmission, BeforeSending
      <4>2. AllSent(c) \/ Complete(c) => pc'[c] \in {"reconcile", "idle"}
        BY DEF AllSent, Complete, GoTo, EndRun, PollInv, TypeOK
      <4> QED
        BY <4>1, <4>2 DEF BeforeSending
    <3>3. pc'[c] # "risk"
      BY <2>3 DEF CycleStep, GovernancePasses, GuardStops, IngestionReady, Recheck,
         BeginSubmission, AllSent, Complete, GoTo, EndRun, PollInv, TypeOK
    <3>4. job'[c] = "completed" => pc'[c] = "idle" /\ pc[c] = "risk"
      <4>1. pc[c] # "idle" /\ job[c] # "completed"
        <5>1. pc[c] # "idle"
          BY <2>3 DEF CycleStep, GovernancePasses, GuardStops, IngestionReady, Recheck,
             BeginSubmission, AllSent, Complete
        <5> QED
          BY <5>1 DEF PollInv, RunIsPolled
      <4>2. Complete(c) \/ job' \in {job} \cup {[job EXCEPT ![c] = s] : s \in {"failed", "skipped"}}
        BY <2>3 DEF CycleStep, GovernancePasses, GuardStops, IngestionReady, Recheck,
           BeginSubmission, AllSent, GoTo, EndRun
      <4>3. Complete(c) => pc'[c] = "idle" /\ pc[c] = "risk"
        BY DEF Complete, EndRun, PollInv, TypeOK
      <4> QED
        BY <4>1, <4>2, <4>3 DEF PollInv, TypeOK
    <3>5. pc'[c] # "idle" => pc[c] # "idle" /\ hand'[c] = hand[c]
      BY <2>3 DEF CycleStep, GovernancePasses, GuardStops, IngestionReady, Recheck,
         BeginSubmission, AllSent, Complete, GoTo, EndRun, PollInv, TypeOK
    <3> QED
      BY <3>1, <3>2, <3>3, <3>4, <3>5 DEF PollInv, RunIsPolled
  <2> QED
    BY <2>1, <2>2, <2>3
<1>11. RunIsPolled'
  <2> SUFFICES ASSUME NEW d \in Cycles
               PROVE  /\ pc'[d] \in BeforeSending => sent'[d] = {}
                      /\ pc'[d] # "idle" => sent'[d] \cap unpolled \subseteq Tracked \cup hand'[d]
                      /\ pc'[d] = "risk" \/ job'[d] = "completed" => sent'[d] \cap unpolled = {}
                      /\ job'[d] = "completed" => pc'[d] = "idle"
                      /\ pc'[d] # "sending" => hand'[d] = {}
    BY <1>1 DEF RunIsPolled, Tracked
  <2>1. CASE d = c
    <3>1. pc'[c] # "idle" => sent'[c] \cap unpolled \subseteq Tracked \cup hand'[c]
      BY <1>10 DEF PollInv, RunIsPolled
    <3>2. pc'[c] = "risk" \/ job'[c] = "completed" => sent'[c] \cap unpolled = {}
      BY <1>8, <1>10 DEF PollInv, RunIsPolled
    <3> QED
      BY <1>6, <1>10, <2>1, <3>1, <3>2
  <2>2. CASE d # c
    BY <1>7, <2>2 DEF PollInv, RunIsPolled
  <2> QED
    BY <2>1, <2>2
<1> QED
  BY <1>9, <1>11 DEF PollInv

(* PollInv is inductive.                                                  *)
LEMMA PollStep == ASSUME PollInv, [Next]_vars PROVE PollInv'
<1>1. TypeOK'
  BY TypeStep DEF PollInv
<1>2. CASE \E c \in Cycles : Start(c) \/ CycleStep(c) \/ CycleFault(c)
  BY <1>1, <1>2, AcceptKeeps, RecordKeeps, EvaluateKeeps, ReconcileKeeps, RaisesKeeps,
     OtherKeeps
<1>3. CASE \E p \in Operators : Command(p)
  <2>1. UNCHANGED <<pc, plan, hand, job, broker, unpolled, sent>>
    BY <1>3 DEF Command, Load, Commit, SetStrategy, CommandFails, books
  <2>2. Tracked \subseteq Tracked'
    BY <1>3 DEF Command, Load, Commit, SetStrategy, CommandFails, books, Tracked
  <2> QED
    BY <1>1, <2>1, <2>2 DEF PollInv, SentOnce, RunIsPolled
<1>4. CASE \E o \in Orders : BrokerEnds(o)
  <2>1. UNCHANGED <<pc, plan, hand, job, row, unpolled, sent>>
    BY <1>4 DEF BrokerEnds
  <2>2. \A o \in Orders : broker'[o] = "none" <=> broker[o] = "none"
    BY <1>4 DEF BrokerEnds, PollInv, TypeOK
  <2>3. \A c \in Cycles : plan[c] \subseteq Orders /\ sent[c] \subseteq Orders
    BY DEF PollInv, TypeOK
  <2> QED
    BY <1>1, <2>1, <2>2, <2>3 DEF PollInv, SentOnce, RunIsPolled, Tracked
<1>5. CASE UNCHANGED vars
  BY <1>1, <1>5 DEF vars, PollInv, SentOnce, RunIsPolled, Tracked
<1> QED
  BY <1>2, <1>3, <1>4, <1>5 DEF Next

(* A run whose job row says completed has polled every order the broker    *)
(* accepted from it, whatever other runs, halts and faults did meanwhile.  *)
THEOREM CompletedRunsPolled == Spec => []CompletedIsReconciled
<1>1. PollInv => CompletedIsReconciled
  BY DEF PollInv, RunIsPolled, CompletedIsReconciled
<1> QED
  BY PollInit, PollStep, <1>1, PTL DEF Spec
=============================================================================
