---------------------------- MODULE TradingCycle ----------------------------
(***************************************************************************)
(* The trading cycle and the runtime controls that stop it: cycle runs     *)
(* that may overlap, operators who halt, pause, stop and release while     *)
(* they run, and the rows both leave behind.  What a step does inside is   *)
(* in OrderReconciliation, OrderSubmission and TickRisk; here a step       *)
(* passes, ends the run or raises, and an order is accepted by the broker, *)
(* recorded, done, and polled.  TradingFreezeService stores nothing, so    *)
(* its checks always pass.                                                 *)
(***************************************************************************)
EXTENDS Integers, FiniteSets

CONSTANTS
  Cycles,       \* runs of the cycle that may be going on at the same time
  Operators,    \* sessions that may give commands at the same time
  Orders,       \* the orders the evaluations come up with, one after another
  Environment,  \* settings.trading_environment: "paper" or "live"
  Portfolio,    \* several strategies: reconcile before the evaluation too
  SkipEvaluation, HoldPositions,  \* the two degraded-mode settings
  Commands,     \* the commands the operators choose from
  MaxCommands,  \* bound on the operators' commands
  MaxFaults     \* bound on skips by governance, failing steps and crashes

Modes == {"simulation", "paper", "live"}
Verbs == {"halt", "resume", "pause", "enable", "disable", "strategy"} \cup Modes

ASSUME SettingsAssumption ==
  /\ Environment \in {"paper", "live"}
  /\ Portfolio \in BOOLEAN /\ SkipEvaluation \in BOOLEAN /\ HoldPositions \in BOOLEAN
ASSUME CommandAssumption == Commands \subseteq Verbs
ASSUME BoundAssumption == MaxCommands \in Nat /\ MaxFaults \in Nat

VARIABLES
  control,     \* the runtime_control_state row
  killRow,     \* kill_switch_state.is_enabled
  strategyOn,  \* the strategy's control state
  session,     \* [operator -> the command in hand and the row it loaded]
  pc, plan,    \* [cycle -> step; orders evaluated and not yet sent]
  hand,        \* [cycle -> {the order accepted whose row is not committed}]
  job,         \* [cycle -> its latest runtime_job_runs row; "skipped" is a row
               \* completed with the output "skipped"]
  broker,      \* [order -> its state at the broker]; external
  row,         \* [order -> its broker_orders row]
  unpolled,    \* orders not polled since they were accepted: history
  sent,        \* [cycle -> orders sent in its latest run]: a history variable
  pardoned,    \* orders past every check when the switch went on: history
  commands, faults

controls == <<control, killRow, strategyOn, session, commands>>
books == <<broker, row, unpolled, sent>>
vars == <<control, killRow, strategyOn, session, pc, plan, hand, job, broker, row,
          unpolled, sent, pardoned, commands, faults>>

Controls == [kill : BOOLEAN, enabled : BOOLEAN, paused : BOOLEAN, mode : Modes]
Steps == {"idle", "governance", "guard", "preReconcile", "evaluation", "recheck",
          "submission", "sending", "reconcile", "risk"}

ModeTransitions ==
  {<<"simulation", "paper">>, <<"paper", "simulation">>, <<"paper", "live">>,
   <<"live", "paper">>} \cup {<<m, m>> : m \in Modes}

BlockedNoKill ==  \* mutant: trading_enabled stands in for the kill switch
  ~control.enabled \/ control.paused \/ control.mode # Environment

(* get_cycle_block_reason                                                  *)
Blocked ==
  control.kill \/ ~control.enabled \/ control.paused \/ control.mode # Environment

GuardNever == FALSE  \* mutant: the live gate does not ask the kill switch

(* assert_trading_mode_allowed: only the live gate asks the kill switch's  *)
(* own table.                                                              *)
GuardRaises == Environment = "live" /\ killRow

Tracked == {o \in Orders : row[o] \in {"open", "canceled"}}

FreshControls == [kill |-> FALSE, enabled |-> TRUE, paused |-> FALSE, mode |-> Environment]
NoCommand == [verb |-> "none", seen |-> FreshControls]

Init ==
  /\ control = FreshControls
  /\ killRow = FALSE /\ strategyOn = TRUE
  /\ session = [p \in Operators |-> NoCommand]
  /\ pc = [c \in Cycles |-> "idle"] /\ plan = [c \in Cycles |-> {}]
  /\ hand = [c \in Cycles |-> {}]
  /\ job = [c \in Cycles |-> "none"]
  /\ broker = [o \in Orders |-> "none"] /\ row = [o \in Orders |-> "none"]
  /\ unpolled = {} /\ sent = [c \in Cycles |-> {}] /\ pardoned = {}
  /\ commands = 0 /\ faults = 0

-----------------------------------------------------------------------------
(* Operators: a command loads the row, and writes and commits later        *)

Load(p, verb) ==
  /\ session[p].verb = "none" /\ commands < MaxCommands
  /\ verb \in Modes => <<control.mode, verb>> \in ModeTransitions
  /\ session' = [session EXCEPT ![p] = [verb |-> verb, seen |-> control]]
  /\ commands' = commands + 1
  /\ UNCHANGED <<control, killRow, strategyOn, pc, plan, hand, job, books, pardoned, faults>>

(* What the command sets, on the row it loaded.                            *)
Wanted(verb, seen) ==
  CASE verb = "halt" -> [seen EXCEPT !.kill = TRUE, !.enabled = FALSE, !.paused = FALSE]
    [] verb = "resume" /\ seen.kill ->
         [seen EXCEPT !.kill = FALSE, !.enabled = TRUE, !.paused = FALSE]
    [] verb = "resume" /\ ~seen.kill -> [seen EXCEPT !.paused = FALSE]
    [] verb = "pause" -> [seen EXCEPT !.paused = TRUE]
    [] verb = "enable" -> [seen EXCEPT !.enabled = TRUE]
    [] verb = "disable" -> [seen EXCEPT !.enabled = FALSE]
    [] verb \in Modes -> [seen EXCEPT !.mode = verb]
    [] OTHER -> seen

(* The ORM's UPDATE names the columns that differ from the loaded ones.    *)
Written(wanted, seen) ==
  [f \in DOMAIN control |-> IF wanted[f] # seen[f] THEN wanted[f] ELSE control[f]]

KillRowForgotten(verb, seen) ==  \* mutant: a release leaves the table alone
  verb = "halt" \/ killRow

KillRowAfter(verb, seen) ==
  CASE verb = "halt" -> TRUE
    [] verb = "resume" /\ seen.kill -> FALSE
    [] OTHER -> killRow

PastChecks(c) == pc[c] = "sending" \/ (pc[c] = "submission" /\ Environment = "paper")

(* The UPDATE locks the row until the commit, so from it on the command is *)
(* one step; the kill switch's own row is read after it.  A halt marks the *)
(* open orders cancelled in the database and tells the broker nothing.     *)
Commit(p) ==
  LET verb == session[p].verb
      seen == session[p].seen
  IN /\ verb \notin {"none", "strategy"}
     /\ control' = Written(Wanted(verb, seen), seen)
     /\ killRow' = KillRowAfter(verb, seen)
     /\ row' = IF verb # "halt" THEN row
               ELSE [o \in Orders |-> IF row[o] = "open" THEN "canceled" ELSE row[o]]
     /\ pardoned' = IF verb = "halt" /\ ~control.kill
                      THEN UNION {plan[c] : c \in {d \in Cycles : PastChecks(d)}}
                      ELSE pardoned
     /\ session' = [session EXCEPT ![p] = NoCommand]
     /\ UNCHANGED <<strategyOn, pc, plan, hand, job, broker, unpolled, sent,
                    commands, faults>>

SetStrategy(p) ==
  /\ session[p].verb = "strategy"
  /\ strategyOn' = ~strategyOn
  /\ session' = [session EXCEPT ![p] = NoCommand]
  /\ UNCHANGED <<control, killRow, pc, plan, hand, job, books, pardoned, commands, faults>>

(* The handler rolls back.                                                 *)
CommandFails(p) ==
  /\ session[p].verb # "none"
  /\ session' = [session EXCEPT ![p] = NoCommand]
  /\ UNCHANGED <<control, killRow, strategyOn, pc, plan, hand, job, books, pardoned, commands, faults>>

-----------------------------------------------------------------------------
(* The steps of a cycle run                                                *)

GoTo(c, step) == pc' = [pc EXCEPT ![c] = step] /\ UNCHANGED <<plan, hand, job>>

EndRun(c, status) ==
  /\ pc' = [pc EXCEPT ![c] = "idle"]
  /\ plan' = [plan EXCEPT ![c] = {}]
  /\ hand' = [hand EXCEPT ![c] = {}]
  /\ job' = [job EXCEPT ![c] = status]

(* Something goes wrong that the bound counts.                             *)
Fault == faults < MaxFaults /\ faults' = faults + 1

(* The row is saved as running before the controls are read.              *)
Start(c) ==
  /\ pc[c] = "idle"
  /\ IF Blocked
       THEN job' = [job EXCEPT ![c] = "skipped"] /\ UNCHANGED pc
       ELSE /\ job' = [job EXCEPT ![c] = "running"]
            /\ pc' = [pc EXCEPT ![c] = "governance"]
  /\ sent' = [sent EXCEPT ![c] = {}]
  /\ UNCHANGED <<controls, plan, hand, broker, row, unpolled, pardoned, faults>>

(* The drawdown check lets the cycle pass, also when it fails itself; the  *)
(* strategy's control is looked at next.                                   *)
GovernancePasses(c) ==
  /\ pc[c] = "governance"
  /\ IF strategyOn THEN GoTo(c, "guard") ELSE EndRun(c, "skipped")
  /\ UNCHANGED <<controls, books, pardoned, faults>>

GovernancePauses(c) ==
  /\ pc[c] = "governance" /\ Fault /\ EndRun(c, "skipped")
  /\ UNCHANGED <<controls, books, pardoned>>

GuardStops(c) ==
  /\ pc[c] = "guard" /\ GuardRaises /\ EndRun(c, "failed")
  /\ UNCHANGED <<controls, books, pardoned, faults>>

IngestionReady(c) ==
  /\ pc[c] = "guard" /\ ~GuardRaises
  /\ GoTo(c, IF Portfolio THEN "preReconcile" ELSE "evaluation")
  /\ UNCHANGED <<controls, books, pardoned, faults>>

IngestionNotReady(c) ==
  /\ pc[c] = "guard" /\ ~GuardRaises /\ Fault
  /\ EndRun(c, IF SkipEvaluation THEN "completed" ELSE "failed")
  /\ UNCHANGED <<controls, books, pardoned>>

Unplanned == {o \in Orders : broker[o] = "none"} \ UNION {plan[c] : c \in Cycles}

Evaluate(c) ==
  /\ pc[c] = "evaluation"
  /\ pc' = [pc EXCEPT ![c] = "recheck"]
  /\ \E S \in SUBSET Unplanned : plan' = [plan EXCEPT ![c] = S]
  /\ UNCHANGED <<controls, hand, job, books, pardoned, faults>>

EvaluationFails(c) ==
  /\ pc[c] = "evaluation" /\ Fault
  /\ EndRun(c, IF HoldPositions THEN "completed" ELSE "failed")
  /\ UNCHANGED <<controls, books, pardoned>>

Recheck(c) ==
  /\ pc[c] = "recheck"
  /\ IF Blocked THEN EndRun(c, "failed") ELSE GoTo(c, "submission")
  /\ UNCHANGED <<controls, books, pardoned, faults>>

(* The job has its own guard, and sends nothing for a disabled strategy;   *)
(* the run goes on either way.                                             *)
BeginSubmission(c) ==
  /\ pc[c] = "submission"
  /\ CASE GuardRaises -> EndRun(c, "failed")
       [] ~GuardRaises /\ strategyOn -> GoTo(c, "sending")
       [] ~GuardRaises /\ ~strategyOn ->
            /\ pc' = [pc EXCEPT ![c] = "reconcile"]
            /\ plan' = [plan EXCEPT ![c] = {}] /\ UNCHANGED <<hand, job>>
  /\ UNCHANGED <<controls, books, pardoned, faults>>

(* The broker accepts the order of one intent.                             *)
Accept(c) ==
  /\ pc[c] = "sending" /\ hand[c] = {}
  /\ \E o \in plan[c] :
       /\ plan' = [plan EXCEPT ![c] = @ \ {o}]
       /\ hand' = [hand EXCEPT ![c] = {o}]
       /\ broker' = [broker EXCEPT ![o] = "live"]
       /\ unpolled' = unpolled \cup {o}
       /\ sent' = [sent EXCEPT ![c] = @ \cup {o}]
  /\ UNCHANGED <<controls, pc, job, row, pardoned, faults>>

(* Its row commits, closed at once if the acknowledgement shows it done.   *)
Record(c) ==
  /\ \E o \in hand[c] :
       \/ row' = [row EXCEPT ![o] = "open"] /\ UNCHANGED unpolled
       \/ /\ broker[o] = "done"
          /\ row' = [row EXCEPT ![o] = "closed"] /\ unpolled' = unpolled \ {o}
  /\ hand' = [hand EXCEPT ![c] = {}]
  /\ UNCHANGED <<controls, pc, plan, job, broker, sent, pardoned, faults>>

AllSent(c) ==
  /\ pc[c] = "sending" /\ plan[c] = {} /\ hand[c] = {} /\ GoTo(c, "reconcile")
  /\ UNCHANGED <<controls, books, pardoned, faults>>

PollOpenOnly(S) ==  \* mutant: what the kill switch marked is not polled
  /\ row' = [o \in Orders |-> IF o \in S /\ row[o] = "open"
                                THEN IF broker[o] = "done" THEN "closed" ELSE "open"
                                ELSE row[o]]
  /\ unpolled' = unpolled \ S
  /\ UNCHANGED <<broker, sent>>

Poll(S) ==
  /\ row' = [o \in Orders |-> IF o \in S THEN IF broker[o] = "done" THEN "closed" ELSE "open"
                                         ELSE row[o]]
  /\ unpolled' = unpolled \ S
  /\ UNCHANGED <<broker, sent>>

Reconcile(c) ==
  /\ pc[c] \in {"preReconcile", "reconcile"}
  /\ Poll(Tracked)
  /\ GoTo(c, IF pc[c] = "preReconcile" THEN "evaluation" ELSE "risk")
  /\ UNCHANGED <<controls, pardoned, faults>>

FailureGoesOn(c) ==  \* mutant: a failed reconciliation is only logged
  /\ pc[c] \in {"preReconcile", "reconcile"} /\ Fault
  /\ \E S \in SUBSET Tracked : Poll(S)
  /\ GoTo(c, IF pc[c] = "preReconcile" THEN "evaluation" ELSE "risk")
  /\ UNCHANGED <<controls, pardoned>>

(* Polling raises on some order; those before it are committed.            *)
ReconcileFails(c) ==
  /\ pc[c] \in {"preReconcile", "reconcile"} /\ Fault
  /\ \E S \in SUBSET Tracked : Poll(S)
  /\ EndRun(c, "failed")
  /\ UNCHANGED <<controls, pardoned>>

(* The sleeve snapshot never fails the run; the risk snapshot ends it.     *)
Complete(c) ==
  /\ pc[c] = "risk" /\ EndRun(c, "completed")
  /\ UNCHANGED <<controls, books, pardoned, faults>>

(* A step raises.  Before the try block nothing marks the row; after it    *)
(* the handler does, unless its own save fails.  An order accepted and not *)
(* yet recorded gets a rejected row, or none.                              *)
StepRaises(c) ==
  /\ pc[c] # "idle" /\ Fault
  /\ \E status \in IF pc[c] = "governance" THEN {"running"} ELSE {"failed", "running"} :
       EndRun(c, status)
  /\ \/ UNCHANGED row
     \/ row' = [o \in Orders |-> IF o \in hand[c] THEN "rejected" ELSE row[o]]
  /\ UNCHANGED <<controls, broker, unpolled, sent, pardoned>>

Crash(c) ==
  /\ pc[c] # "idle" /\ Fault /\ EndRun(c, "running")
  /\ UNCHANGED <<controls, books, pardoned>>

(* The broker fills, cancels or expires an order.                          *)
BrokerEnds(o) ==
  /\ broker[o] = "live"
  /\ broker' = [broker EXCEPT ![o] = "done"]
  /\ UNCHANGED <<controls, pc, plan, hand, job, row, unpolled, sent, pardoned, faults>>

-----------------------------------------------------------------------------
CycleStep(c) ==
  \/ GovernancePasses(c) \/ GuardStops(c) \/ IngestionReady(c) \/ Evaluate(c) \/ Recheck(c) \/ BeginSubmission(c)
  \/ Accept(c) \/ Record(c) \/ AllSent(c) \/ Reconcile(c) \/ Complete(c)

CycleFault(c) ==
  \/ GovernancePauses(c) \/ IngestionNotReady(c) \/ EvaluationFails(c)
  \/ ReconcileFails(c) \/ StepRaises(c) \/ Crash(c)

Command(p) ==
  (\E verb \in Commands : Load(p, verb)) \/ Commit(p) \/ SetStrategy(p) \/ CommandFails(p)

Next ==
  \/ \E c \in Cycles : Start(c) \/ CycleStep(c) \/ CycleFault(c)
  \/ \E p \in Operators : Command(p)
  \/ \E o \in Orders : BrokerEnds(o)

Spec == Init /\ [][Next]_vars

(* The cycle is scheduled again and again, and its steps return or raise.  *)
FairSpec == Spec /\ \A c \in Cycles : WF_vars(Start(c)) /\ WF_vars(CycleStep(c))

-----------------------------------------------------------------------------
(* Properties                                                              *)

(* Every variable keeps to its range.                                      *)
TypeOK ==
  /\ control \in Controls /\ killRow \in BOOLEAN /\ strategyOn \in BOOLEAN
  /\ session \in [Operators -> [verb : Verbs \cup {"none"}, seen : Controls]]
  /\ pc \in [Cycles -> Steps] /\ plan \in [Cycles -> SUBSET Orders]
  /\ hand \in [Cycles -> SUBSET Orders]
  /\ job \in [Cycles -> {"none", "running", "skipped", "completed", "failed"}]
  /\ broker \in [Orders -> {"none", "live", "done"}]
  /\ row \in [Orders -> {"none", "open", "canceled", "closed", "rejected"}]
  /\ unpolled \subseteq Orders /\ sent \in [Cycles -> SUBSET Orders]
  /\ pardoned \subseteq Orders
  /\ commands \in Nat /\ faults \in Nat

(* KillSwitchService's doc: the control row stays in sync with the kill    *)
(* switch's own table, which the automations and the live gate read.  Two  *)
(* commands at once can break it, so it is checked with one operator.      *)
TablesAgree == control.kill = killRow

(* The controls agree with each other and every variable keeps to its      *)
(* range; in particular a halt's mark is a status the books know.          *)
ControlsSound == TypeOK /\ TablesAgree

(* After a halt no order goes out except those a cycle already carried     *)
(* past its last check, however many cycles and commands there are.        *)
OnlyPardonedLeave ==
  [][\A o \in Orders :
       control.kill /\ broker[o] = "none" /\ broker'[o] # "none" => o \in pardoned]_vars

(* A run recorded as completed has polled every order the broker accepted  *)
(* from it, since it did: a run that left one without its row, where no    *)
(* poll finds it, is not recorded as completed.                            *)
CompletedIsReconciled ==
  \A c \in Cycles : job[c] = "completed" => sent[c] \cap unpolled = {}

(* If the kill switch stays on, in the end every cycle is skipped.         *)
HaltQuiets ==
  <>[]control.kill =>
    <>[](\A c \in Cycles : pc[c] = "idle")

(* When trading goes on, an order that ended at the broker is closed in    *)
(* the books in the end, a halt's false cancellation notwithstanding,      *)
(* unless a fault between its acceptance and its row left it without one.  *)
TradingOn == ~Blocked /\ strategyOn /\ ~killRow
Abandoned(o) ==
  faults > 0 /\ row[o] \in {"none", "rejected"} /\ \A c \in Cycles : o \notin hand[c]
OrdersSettle ==
  \A o \in Orders :
    <>[]TradingOn => [](broker[o] = "done" => <>(row[o] = "closed" \/ Abandoned(o)))
=============================================================================
