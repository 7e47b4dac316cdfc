------------------------------ MODULE EodChain ------------------------------
(***************************************************************************)
(* The end-of-day chain of one trading date: the soak loop that starts it, *)
(* EodChainRunner with its retries, its resume after a shutdown or a       *)
(* crash, the job rows it commits, and the rescue of orphan rows.  A step  *)
(* is its position in eod_chain_steps; what a step computes is external.   *)
(* Every save is a commit, so the rows survive a crash and nothing else    *)
(* does: the chain context, with the values one step leaves for the next,  *)
(* lives in the process.  A rescue reads the running rows in one step and  *)
(* overwrites the rows it read in another, whatever they say by then.      *)
(***************************************************************************)
EXTENDS Integers, Sequences, FiniteSets

CONSTANTS
  StepCount,    \* number of steps of the chain
  Blocking,     \* the steps whose failure skips every later one
  Applicable,   \* the steps whose applies() holds on this date
  MaxAttempts,  \* [step -> attempts of one run of the chain]
  Giver,        \* resolve_raw_bars_dataset: fills the context's values
  Needs,        \* the steps that index those values
  Elsewhere,    \* other processes that rescue: the command, the research loop
  MaxStops,     \* bound on shutdowns, crashes and broken runs of the chain
  MaxFaults     \* bound on exceptions a step raises by itself

Steps == 1..StepCount

ASSUME StepAssumption ==
  /\ StepCount \in Nat \ {0}
  /\ Blocking \subseteq Steps /\ Applicable \subseteq Steps
  /\ Needs \subseteq Steps /\ Giver \in Steps
  /\ MaxAttempts \in [Steps -> Nat \ {0}]
ASSUME BoundAssumption == MaxStops \in Nat /\ MaxFaults \in Nat

Rescuers == Elsewhere \cup {"soak"}

VARIABLES
  proc,      \* the scheduler process: down, rescuing at its start, idle in its
             \* loop, or where in run()
  shutdown,  \* InterruptibleSleeper's flag
  eodDone,   \* _eod_done_for is today
  parents,   \* the chain's parent rows of the date, in order of their start
  old,       \* the parent rows started before the rescue's cutoff
  done,      \* steps with a completed child row under any parent row
  ctx,       \* the chain in hand
  read,      \* [rescuer -> the rows its rescue under way has read as running]
  runs,      \* [step -> times its work took effect]: a history variable
  ownFault,  \* steps that raised by themselves: a history variable
  undone,    \* steps whose completed row a rescue overwrote: history
  robbed,    \* a rescue overwrote an outcome: a history variable
  stops, faults

rows == <<parents, old, done>>
bounds == <<stops, faults>>
work == <<runs, ownFault>>
rescue == <<read, undone, robbed>>
history == <<work, rescue>>
vars == <<proc, shutdown, eodDone, parents, old, done, ctx, read, runs, ownFault,
          undone, robbed, stops, faults>>

DoneStatuses == {"completed", "completed_with_errors", "failed"}

(* A crashed parent row stays "running"; "rescued" is the row the orphan   *)
(* rescue marked failed, told apart by its error message.                  *)
ParentStatuses == DoneStatuses \cup {"running", "interrupted", "rescued"}

Contexts == [parent : Nat, at : 1..(StepCount + 1), attempt : Nat, values : BOOLEAN,
             resumed : SUBSET Steps, failed : SUBSET Steps, skipped : SUBSET Steps,
             blocked : BOOLEAN]

ContextFromScratch(n, resumed) ==  \* mutant: completed_steps_for is forgotten
  [parent |-> n, at |-> 1, attempt |-> 0, values |-> FALSE, resumed |-> {},
   failed |-> {}, skipped |-> {}, blocked |-> FALSE]

FreshContext(n, resumed) ==
  [parent |-> n, at |-> 1, attempt |-> 0, values |-> FALSE, resumed |-> resumed,
   failed |-> {}, skipped |-> {}, blocked |-> FALSE]

IsDoneFor == \E n \in DOMAIN parents : parents[n] \in DoneStatuses

InRun == {"next", "step", "ran", "sleep", "ending"}

(* What a rescue has read: parent rows, and the child row of the step at   *)
(* work, if it is old enough (0: none).                                    *)
Reads == [parents : SUBSET Nat, child : Nat]
NothingRead == [parents |-> {}, child |-> 0]

Init ==
  /\ proc = "down" /\ shutdown = FALSE /\ eodDone = FALSE
  /\ parents = <<>> /\ old = {} /\ done = {}
  /\ ctx = FreshContext(0, {})
  /\ read = [r \in Rescuers |-> NothingRead]
  /\ runs = [s \in Steps |-> 0] /\ ownFault = {} /\ undone = {} /\ robbed = FALSE
  /\ stops = 0 /\ faults = 0

-----------------------------------------------------------------------------
(* The process around the chain                                            *)

(* The SELECT of a rescue: the running rows started before its cutoff.     *)
Stale == {n \in old : parents[n] = "running"}

Reading(r, child) == read' = [read EXCEPT ![r] = [parents |-> Stale, child |-> child]]

RescuedLost(n) == "lost"  \* mutant: a status no reader knows

Rescued(n) == "rescued"

(* Its UPDATE, by key: the rows may have changed since.  A child row that  *)
(* says completed stops counting for completed_steps_for.                  *)
Overwriting(r) ==
  /\ parents' = [n \in DOMAIN parents |->
                   IF n \in read[r].parents THEN Rescued(n) ELSE parents[n]]
  /\ robbed' = (robbed \/ \E n \in read[r].parents : parents[n] \in DoneStatuses)
  /\ done' = done \ {read[r].child}
  /\ undone' = undone \cup (done \cap {read[r].child})
  /\ read' = [read EXCEPT ![r] = NothingRead]

(* A start of the soak loop rescues orphan rows before anything else; the  *)
(* cutoff of half an hour spares rows of a process that died just now.     *)
Boot ==
  /\ proc = "down"
  /\ proc' = "boot" /\ shutdown' = FALSE /\ eodDone' = FALSE
  /\ Reading("soak", 0)
  /\ UNCHANGED <<rows, ctx, work, undone, robbed, bounds>>

BootRescues ==
  /\ proc = "boot"
  /\ proc' = "idle"
  /\ Overwriting("soak")
  /\ UNCHANGED <<shutdown, eodDone, old, ctx, work, bounds>>

(* The same rescue from the command line, or by the research loop's start, *)
(* at any moment of the process that runs the chain.                       *)
RescueReads(r) ==
  /\ read[r] = NothingRead
  /\ \E child \in {0} \cup {s \in {ctx.at} : proc \in {"step", "ran"} /\ ctx.parent \in old} :
       Reading(r, child)
  /\ UNCHANGED <<proc, shutdown, eodDone, rows, ctx, work, undone, robbed, bounds>>

RescueWrites(r) ==
  /\ read[r] # NothingRead
  /\ Overwriting(r)
  /\ UNCHANGED <<proc, shutdown, eodDone, old, ctx, work, bounds>>

HalfHourPasses ==
  /\ old # DOMAIN parents
  /\ old' = DOMAIN parents
  /\ UNCHANGED <<proc, shutdown, eodDone, parents, done, ctx, history, bounds>>

StartAgain ==  \* mutant: is_done_for is not asked
  /\ proc = "idle" /\ ~shutdown /\ ~eodDone
  /\ parents' = Append(parents, "running")
  /\ ctx' = FreshContext(Len(parents) + 1, done)
  /\ proc' = "next"
  /\ UNCHANGED <<shutdown, eodDone, old, done, history, bounds>>

StartOnce ==  \* mutant: any parent row of the date counts as done
  /\ proc = "idle" /\ ~shutdown /\ ~eodDone
  /\ IF parents # <<>>
       THEN eodDone' = TRUE /\ UNCHANGED <<proc, parents, ctx>>
       ELSE /\ parents' = <<"running">>
            /\ ctx' = FreshContext(1, done)
            /\ proc' = "next" /\ UNCHANGED eodDone
  /\ UNCHANGED <<shutdown, old, done, history, bounds>>

StartChain ==
  /\ proc = "idle" /\ ~shutdown /\ ~eodDone
  /\ IF IsDoneFor
       THEN eodDone' = TRUE /\ UNCHANGED <<proc, parents, ctx>>
       ELSE /\ parents' = Append(parents, "running")
            /\ ctx' = FreshContext(Len(parents) + 1, done)
            /\ proc' = "next" /\ UNCHANGED eodDone
  /\ UNCHANGED <<shutdown, old, done, history, bounds>>

RequestShutdown ==
  /\ proc # "down" /\ ~shutdown /\ stops < MaxStops
  /\ shutdown' = TRUE /\ stops' = stops + 1
  /\ UNCHANGED <<proc, eodDone, rows, ctx, history, faults>>

Exit ==
  /\ proc = "idle" /\ shutdown
  /\ proc' = "down"
  /\ UNCHANGED <<shutdown, eodDone, rows, ctx, history, bounds>>

Crash ==
  /\ proc # "down" /\ stops < MaxStops
  /\ proc' = "down" /\ stops' = stops + 1
  /\ read' = [read EXCEPT !["soak"] = NothingRead]
  /\ UNCHANGED <<shutdown, eodDone, rows, ctx, work, undone, robbed, faults>>

(* The runner itself cannot work, for example the database is unreachable: *)
(* the loop prints, backs off and starts the chain again.                  *)
ChainBreaks ==
  /\ proc \in InRun /\ stops < MaxStops
  /\ proc' = "idle" /\ stops' = stops + 1
  /\ UNCHANGED <<shutdown, eodDone, rows, ctx, history, faults>>

-----------------------------------------------------------------------------
(* One iteration of the loop over the steps                                *)

Advance(c) == [c EXCEPT !.at = @ + 1, !.attempt = 0]

SkipResumed ==
  /\ proc = "next" /\ ctx.at \in ctx.resumed
  /\ ctx' = Advance(ctx)
  /\ UNCHANGED <<proc, shutdown, eodDone, rows, history, bounds>>

AtNewStep == proc = "next" /\ ctx.at \in Steps \ ctx.resumed

Interrupt ==
  /\ AtNewStep /\ shutdown
  /\ proc' = "ending"
  /\ UNCHANGED <<shutdown, eodDone, rows, ctx, history, bounds>>

SkipStep ==
  /\ AtNewStep /\ ~shutdown
  /\ ctx.blocked \/ ctx.at \notin Applicable
  /\ ctx' = Advance([ctx EXCEPT !.skipped = @ \cup {ctx.at}])
  /\ UNCHANGED <<proc, shutdown, eodDone, rows, history, bounds>>

(* An attempt has a child row of its own: a rescue that read the row of an *)
(* earlier one cannot touch it.                                            *)
BeginAttempt ==
  /\ \/ /\ AtNewStep /\ ~shutdown
        /\ ~ctx.blocked /\ ctx.at \in Applicable
     \/ proc = "sleep" /\ ~shutdown
  /\ ctx' = [ctx EXCEPT !.attempt = @ + 1]
  /\ proc' = "step"
  /\ read' = [r \in Rescuers |->
                IF read[r].child = ctx.at THEN [read[r] EXCEPT !.child = 0] ELSE read[r]]
  /\ UNCHANGED <<shutdown, eodDone, rows, work, undone, robbed, bounds>>

(* The step's own transactions commit before its row is marked completed.  *)
StepRuns ==
  /\ proc = "step"
  /\ ctx.at \in Needs => ctx.values
  /\ runs' = [runs EXCEPT ![ctx.at] = @ + 1]
  /\ ctx' = [ctx EXCEPT !.values = @ \/ ctx.at = Giver]
  /\ proc' = "ran"
  /\ UNCHANGED <<shutdown, eodDone, rows, ownFault, rescue, bounds>>

RecordCompleted ==
  /\ proc = "ran"
  /\ done' = done \cup {ctx.at}
  /\ ctx' = Advance(ctx) /\ proc' = "next"
  /\ UNCHANGED <<shutdown, eodDone, parents, old, history, bounds>>

RecordFailedGoOn ==  \* mutant: a blocking step's failure blocks nothing
  IF ctx.attempt < MaxAttempts[ctx.at]
    THEN proc' = "sleep" /\ UNCHANGED ctx
    ELSE /\ proc' = "next"
         /\ ctx' = Advance([ctx EXCEPT !.failed = @ \cup {ctx.at}])

RecordFailed ==
  IF ctx.attempt < MaxAttempts[ctx.at]
    THEN proc' = "sleep" /\ UNCHANGED ctx
    ELSE /\ proc' = "next"
         /\ ctx' = Advance([ctx EXCEPT !.failed = @ \cup {ctx.at},
                                       !.blocked = @ \/ ctx.at \in Blocking])

(* A step may raise before or after transactions of its own have committed. *)
StepRaises ==
  /\ proc \in {"step", "ran"} /\ faults < MaxFaults
  /\ faults' = faults + 1
  /\ ownFault' = ownFault \cup {ctx.at}
  /\ RecordFailed
  /\ UNCHANGED <<shutdown, eodDone, rows, runs, rescue, stops>>

(* ctx.values[...] raises KeyError when no step of this run filled it.     *)
StepMissesValues ==
  /\ proc = "step" /\ ctx.at \in Needs /\ ~ctx.values
  /\ RecordFailed
  /\ UNCHANGED <<shutdown, eodDone, rows, history, bounds>>

InterruptRetry ==
  /\ proc = "sleep" /\ shutdown
  /\ proc' = "ending"
  /\ UNCHANGED <<shutdown, eodDone, rows, ctx, history, bounds>>

LoopEnds == proc = "next" /\ ctx.at = StepCount + 1

StatusByFailures ==  \* mutant: blocked_by is not looked at
  IF proc = "ending" THEN "interrupted"
  ELSE IF ctx.failed # {} THEN "completed_with_errors"
  ELSE "completed"

ChainStatus ==
  IF proc = "ending" THEN "interrupted"
  ELSE IF ctx.blocked THEN "failed"
  ELSE IF ctx.failed # {} THEN "completed_with_errors"
  ELSE "completed"

EndChain ==
  /\ proc = "ending" \/ LoopEnds
  /\ parents' = [parents EXCEPT ![ctx.parent] = ChainStatus]
  /\ eodDone' = (ChainStatus # "interrupted")
  /\ proc' = "idle"
  /\ UNCHANGED <<shutdown, old, done, ctx, history, bounds>>

ChainStep ==
  \/ SkipResumed \/ Interrupt \/ SkipStep \/ BeginAttempt \/ StepRuns
  \/ RecordCompleted \/ StepMissesValues \/ InterruptRetry \/ EndChain

Next ==
  \/ Boot \/ BootRescues \/ StartChain \/ Exit \/ ChainStep \/ StepRaises
  \/ \E r \in Elsewhere : RescueReads(r) \/ RescueWrites(r)
  \/ HalfHourPasses
  \/ RequestShutdown \/ Crash \/ ChainBreaks

Spec == Init /\ [][Next]_vars

(* docker-compose restarts the process, the loop comes round again while   *)
(* the evening lasts, and the runner does not stop by itself.              *)
FairSpec ==
  /\ Spec
  /\ WF_vars(Boot) /\ WF_vars(BootRescues) /\ WF_vars(StartChain)
  /\ WF_vars(Exit) /\ WF_vars(ChainStep)

-----------------------------------------------------------------------------
(* Properties                                                              *)

(* Every variable keeps to its range.                                      *)
TypeOK ==
  /\ proc \in {"down", "boot", "idle"} \cup InRun
  /\ shutdown \in BOOLEAN /\ eodDone \in BOOLEAN
  /\ parents \in Seq(ParentStatuses) /\ old \subseteq DOMAIN parents
  /\ done \subseteq Steps
  /\ ctx \in Contexts /\ read \in [Rescuers -> Reads]
  /\ runs \in [Steps -> Nat] /\ ownFault \subseteq Steps
  /\ undone \subseteq Steps /\ robbed \in BOOLEAN
  /\ stops \in Nat /\ faults \in Nat

(* No step runs before every blocking step ahead of it has completed, in   *)
(* this run of the chain or in one it resumes (blocked_by and              *)
(* completed_steps_for); a rescue may since have overwritten its row.      *)
Working == proc \in {"step", "ran", "sleep"}
BlockingFirst ==
  Working => \A s \in Blocking \cap Applicable : s < ctx.at => s \in done \cup undone

(* A step whose row says completed is not run again, whatever stops and    *)
(* restarts the chain in between.                                          *)
RecordedRunsOnce == [][\A s \in done : runs'[s] = runs[s]]_vars

(* Once the chain completed or failed for the date, no step runs, and only *)
(* a rescue that had read the row while it was running takes the outcome   *)
(* away: neither a restart nor a later rescue does.                        *)
OutcomeUnderRescue ==
  \E r \in Rescuers : \E n \in read[r].parents : parents[n] \in DoneStatuses
OutcomeStands ==
  [][IsDoneFor => runs' = runs /\ (IsDoneFor' \/ OutcomeUnderRescue)]_vars

(* A chain reported completed did every step that applied, and one with    *)
(* errors every blocking step; the two differ by what raised.              *)
OutcomeIsTrue ==
  \A n \in DOMAIN parents :
    /\ parents[n] = "completed" => Applicable \subseteq done \cup undone
    /\ parents[n] = "completed_with_errors" =>
         Blocking \cap Applicable \subseteq done \cup undone /\ ~(Applicable \subseteq done)

(* Each restart of the process resumes the chain until the date has an     *)
(* outcome: a bounded number of shutdowns and crashes cannot lose the day. *)
(* A rescue can: the process that wrote the outcome does not start again.  *)
DayCloses == <>[](IsDoneFor \/ (robbed /\ eodDone))

(* The runner's doc: a chain interrupted by a shutdown or a crash          *)
(* continues after the last completed step.  So a date is recorded as      *)
(* failed only if one of its steps raised by itself.                       *)
FailsByItself ==
  (\E n \in DOMAIN parents : parents[n] = "failed") => ownFault # {}
=============================================================================
