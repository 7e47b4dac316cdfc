---------------------------- MODULE EodChainProofs ----------------------------
(***************************************************************************)
(* For a chain of any length, any retries and any stops and faults: the    *)
(* safety properties of EodChain hold.  They follow from ChainInv, which   *)
(* says what the chain in hand knows of the steps behind it.               *)
(***************************************************************************)
EXTENDS EodChain, TLAPS

(* Steps that have had a completed row, a rescue's overwriting or not.     *)
Worked == done \cup undone

(* The chain in hand has its row, resumes recorded steps only, and the     *)
(* date has no outcome yet.                                                *)
RunIsOpen ==
  /\ ctx.parent \in DOMAIN parents
  /\ ctx.resumed \subseteq Worked
  /\ ~IsDoneFor

(* What is done lies behind, or was done before this run; what failed lies *)
(* behind, applied, and is not done.                                       *)
BehindIsTrue ==
  /\ \A s \in done : s \in ctx.resumed \/ s < ctx.at
  /\ ctx.failed \subseteq Applicable \ done
  /\ \A s \in ctx.failed : s < ctx.at

(* A step behind that did not complete left its trace in blocked or failed. *)
TraceIsKept ==
  /\ ~ctx.blocked => \A s \in Blocking \cap Applicable : s < ctx.at => s \in Worked
  /\ ~ctx.blocked /\ ctx.failed = {} => \A s \in Applicable : s < ctx.at => s \in Worked

(* A step is worked on only if it applies, nothing blocks it, and no run   *)
(* completed it.                                                           *)
InHand ==
  proc \in {"step", "ran", "sleep"} =>
    ~ctx.blocked /\ ctx.at \in Applicable \ ctx.resumed

ChainInv ==
  /\ TypeOK /\ OutcomeIsTrue
  /\ proc \in InRun => RunIsOpen /\ BehindIsTrue /\ TraceIsKept /\ InHand

-----------------------------------------------------------------------------
(* Types                                                                   *)

(* A rescue's UPDATE keeps the rows in place and makes no outcome.          *)
LEMMA OverwritingKeeps ==
  ASSUME TypeOK, NEW r \in Rescuers, Overwriting(r)
  PROVE  /\ parents' \in Seq(ParentStatuses) /\ DOMAIN parents' = DOMAIN parents
         /\ \A n \in DOMAIN parents :
              parents'[n] = parents[n] \/ (parents'[n] = "rescued" /\ n \in read[r].parents)
         /\ done' \subseteq done /\ Worked' = Worked
         /\ undone' \subseteq Steps /\ robbed' \in BOOLEAN /\ read' \in [Rescuers -> Reads]
<1>1. parents \in Seq(ParentStatuses) /\ robbed \in BOOLEAN /\ undone \subseteq Steps
      /\ done \subseteq Steps /\ read \in [Rescuers -> Reads]
  BY DEF TypeOK
<1>2. parents' \in Seq(ParentStatuses) /\ DOMAIN parents' = DOMAIN parents
  BY <1>1 DEF Overwriting, Rescued, ParentStatuses, DoneStatuses
<1>3. \A n \in DOMAIN parents :
        parents'[n] = parents[n] \/ (parents'[n] = "rescued" /\ n \in read[r].parents)
  BY DEF Overwriting, Rescued
<1>4. done' \subseteq done /\ Worked' = Worked /\ undone' \subseteq Steps
  BY <1>1 DEF Overwriting, Worked
<1>5. robbed' \in BOOLEAN
  BY <1>1, Zenon DEF Overwriting
<1>6. NothingRead \in Reads
  BY DEF NothingRead, Reads
<1>7. read' \in [Rescuers -> Reads]
  BY <1>1, <1>6 DEF Overwriting
<1> QED
  BY <1>2, <1>3, <1>4, <1>5, <1>7

(* A rescue's SELECT reads rows of the table.                              *)
LEMMA ReadingTypes ==
  ASSUME TypeOK, NEW r \in Rescuers, NEW child \in Nat, Reading(r, child)
  PROVE  read' \in [Rescuers -> Reads]
<1>1. Stale \subseteq Nat
  BY DEF Stale, TypeOK
<1> QED
  BY <1>1 DEF Reading, Reads, TypeOK

(* A start adds one running row at the end.                                *)
LEMMA StartAppends ==
  ASSUME parents \in Seq(ParentStatuses)
  PROVE  LET more == Append(parents, "running")
         IN /\ more \in Seq(ParentStatuses) /\ DOMAIN parents \subseteq DOMAIN more
            /\ Len(parents) + 1 \in DOMAIN more /\ Len(parents) + 1 \in Nat
            /\ \A n \in DOMAIN more : more[n] = "running" \/ (n \in DOMAIN parents /\ more[n] = parents[n])
            /\ \A n \in DOMAIN parents : more[n] = parents[n]
BY DEF ParentStatuses

(* The chain in hand and its parts are typed.                             *)
LEMMA ContextTypes ==
  ASSUME ctx \in Contexts
  PROVE  /\ ctx.at \in 1..(StepCount + 1) /\ ctx.at \in Int /\ ctx.attempt \in Nat
         /\ ctx.resumed \subseteq Steps /\ ctx.failed \subseteq Steps
         /\ ctx.skipped \subseteq Steps /\ ctx.blocked \in BOOLEAN
BY StepAssumption DEF Contexts, Steps

(* A process starts with no chain.                                        *)
LEMMA ChainInit == Init => ChainInv
<1> SUFFICES ASSUME Init PROVE ChainInv
  OBVIOUS
<1>1. FreshContext(0, {}) \in Contexts
  BY StepAssumption DEF FreshContext, Contexts
<1>2. parents \in Seq(ParentStatuses) /\ old \subseteq DOMAIN parents
  BY DEF Init
<1>3. runs \in [Steps -> Nat] /\ read \in [Rescuers -> Reads]
  BY DEF Init, NothingRead, Reads
<1>4. TypeOK
  BY <1>1, <1>2, <1>3 DEF Init, TypeOK
<1> QED
  BY <1>4 DEF Init, ChainInv, OutcomeIsTrue, InRun


-----------------------------------------------------------------------------
(* The process around the chain                                            *)

(* A rescue's UPDATE writes no outcome, and what completed still worked.   *)
LEMMA RescueStep ==
  ASSUME ChainInv, NEW r \in Rescuers, Overwriting(r), proc' \in {proc, "idle"},
         UNCHANGED <<shutdown, eodDone, old, ctx, work, bounds>>
  PROVE  ChainInv'
<1>1. /\ parents' \in Seq(ParentStatuses) /\ DOMAIN parents' = DOMAIN parents
      /\ \A n \in DOMAIN parents : parents'[n] = parents[n] \/ parents'[n] = "rescued"
      /\ done' \subseteq done /\ Worked' = Worked
      /\ undone' \subseteq Steps /\ robbed' \in BOOLEAN /\ read' \in [Rescuers -> Reads]
  BY OverwritingKeeps DEF ChainInv
<1>2. TypeOK'
  BY <1>1 DEF ChainInv, TypeOK, InRun, bounds, work
<1>3. OutcomeIsTrue'
  BY <1>1 DEF ChainInv, OutcomeIsTrue, Worked
<1>4. ~IsDoneFor => ~IsDoneFor'
  BY <1>1 DEF IsDoneFor, DoneStatuses
<1>5. ASSUME proc' \in InRun PROVE RunIsOpen' /\ BehindIsTrue' /\ TraceIsKept' /\ InHand'
  <2>1. proc' = proc /\ UNCHANGED ctx
    BY <1>5 DEF InRun
  <2>2. RunIsOpen /\ BehindIsTrue /\ TraceIsKept /\ InHand
    BY <1>5, <2>1 DEF ChainInv
  <2>3. RunIsOpen'
    BY <1>1, <1>4, <2>1, <2>2 DEF RunIsOpen
  <2>4. BehindIsTrue' /\ InHand'
    BY <1>1, <2>1, <2>2 DEF BehindIsTrue, InHand
  <2>5. TraceIsKept'
    BY <1>1, <2>1, <2>2 DEF TraceIsKept
  <2> QED
    BY <2>3, <2>4, <2>5
<1> QED
  BY <1>2, <1>3, <1>5 DEF ChainInv

(* Steps that touch neither the rows nor the context, and stay in the run  *)
(* or leave it.                                                            *)
LEMMA QuietStep ==
  ASSUME ChainInv, TypeOK', UNCHANGED <<parents, done, undone, ctx>>,
         \/ proc' \in {"down", "boot", "idle", "ending"} /\ (proc' = "ending" => proc \in InRun)
         \/ proc' = proc
  PROVE  ChainInv'
<1>1. OutcomeIsTrue'
  BY DEF ChainInv, OutcomeIsTrue
<1>2. ASSUME proc' \in InRun PROVE RunIsOpen' /\ BehindIsTrue' /\ TraceIsKept' /\ InHand'
  <2>1. proc \in InRun /\ (proc' = proc \/ proc' = "ending")
    BY <1>2 DEF InRun
  <2>2. RunIsOpen /\ BehindIsTrue /\ TraceIsKept /\ InHand
    BY <2>1 DEF ChainInv
  <2>3. RunIsOpen' /\ BehindIsTrue' /\ TraceIsKept'
    BY <2>2 DEF RunIsOpen, IsDoneFor, BehindIsTrue, TraceIsKept, Worked
  <2>4. InHand'
    BY <2>1, <2>2 DEF InHand
  <2> QED
    BY <2>3, <2>4
<1> QED
  BY <1>1, <1>2 DEF ChainInv

(* Starting a chain takes over the completed rows of the date.            *)
LEMMA StartStep ==
  ASSUME ChainInv, StartChain
  PROVE  ChainInv'
<1>1. CASE IsDoneFor
  <2>1. UNCHANGED <<proc, parents, done, undone, ctx>>
    BY <1>1 DEF StartChain, history, rescue
  <2>2. TypeOK'
    BY <1>1 DEF StartChain, ChainInv, TypeOK, history, work, rescue, bounds
  <2> QED
    BY <2>1, <2>2, QuietStep
<1>2. CASE ~IsDoneFor
  <2> DEFINE more == Append(parents, "running")
  <2>1. /\ parents' = more /\ ctx' = FreshContext(Len(parents) + 1, done) /\ proc' = "next"
        /\ UNCHANGED <<shutdown, eodDone, old, done, work, rescue, stops, faults>>
    BY <1>2 DEF StartChain, history, bounds
  <2>2. /\ more \in Seq(ParentStatuses) /\ DOMAIN parents \subseteq DOMAIN more
        /\ Len(parents) + 1 \in DOMAIN more /\ Len(parents) + 1 \in Nat
        /\ \A n \in DOMAIN more : more[n] = "running" \/ (n \in DOMAIN parents /\ more[n] = parents[n])
    BY StartAppends DEF ChainInv, TypeOK
  <2>3. ctx' \in Contexts
    BY <2>1, <2>2, StepAssumption DEF FreshContext, Contexts, ChainInv, TypeOK
  <2>4. TypeOK'
    BY <2>1, <2>2, <2>3 DEF ChainInv, TypeOK, InRun, work, rescue
  <2>5. OutcomeIsTrue'
    <3> HIDE DEF more
    <3> QED
      BY <2>1, <2>2 DEF ChainInv, OutcomeIsTrue, rescue
  <2>6. ~IsDoneFor'
    <3> HIDE DEF more
    <3> QED
      BY <1>2, <2>1, <2>2 DEF IsDoneFor, DoneStatuses
  <2>7. /\ ctx'.parent = Len(parents) + 1 /\ ctx'.at = 1 /\ ctx'.resumed = done
        /\ ctx'.failed = {} /\ ctx'.blocked = FALSE
    BY <2>1 DEF FreshContext
  <2>8. RunIsOpen' /\ InHand'
    BY <2>1, <2>2, <2>6, <2>7 DEF RunIsOpen, InHand, Worked
  <2>9. BehindIsTrue'
    BY <2>1, <2>7 DEF BehindIsTrue
  <2>10. TraceIsKept'
    <3>1. \A s \in Steps : ~(s < 1)
      BY StepAssumption DEF Steps
    <3>2. Applicable \subseteq Steps
      BY StepAssumption
    <3> QED
      BY <2>7, <3>1, <3>2 DEF TraceIsKept
  <2> QED
    BY <2>4, <2>5, <2>8, <2>9, <2>10 DEF ChainInv
<1> QED
  BY <1>1, <1>2

-----------------------------------------------------------------------------
(* The loop over the steps                                                 *)

(* Moving on to the next step keeps the invariant if the step left behind  *)
(* is done, or does not apply, or is in failed, or the chain is blocked.   *)
LEMMA AdvanceStep ==
  ASSUME ChainInv, proc \in InRun, ctx.at \in Steps, NEW c \in Contexts,
         c.at = ctx.at + 1, c.parent = ctx.parent, c.resumed = ctx.resumed,
         ctx' = c, proc' = "next", TypeOK', UNCHANGED parents,
         done \subseteq done', done' \subseteq done \cup {ctx.at}, UNCHANGED undone,
         \/ c.failed = ctx.failed /\ (c.blocked = ctx.blocked)
            /\ (ctx.blocked \/ ctx.at \notin Applicable \/ ctx.at \in Worked')
         \/ /\ c.failed = ctx.failed \cup {ctx.at} /\ done' = done
            /\ ctx.at \in Applicable \ done
            /\ c.blocked = (ctx.blocked \/ ctx.at \in Blocking)
  PROVE  ChainInv'
<1> DEFINE at == ctx.at
<1>0. RunIsOpen /\ BehindIsTrue /\ TraceIsKept /\ OutcomeIsTrue /\ TypeOK
  BY DEF ChainInv
<1>1. /\ Applicable \subseteq Steps /\ Blocking \subseteq Steps /\ done \subseteq Steps
      /\ c.failed \subseteq Steps /\ ctx.failed \subseteq Steps
  <2>1. c.failed \subseteq Steps /\ ctx.failed \subseteq Steps
    BY <1>0 DEF TypeOK, Contexts
  <2> QED
    BY <1>0, <2>1, StepAssumption DEF TypeOK
<1>2. \A s \in Steps : s < c.at <=> (s < at \/ s = at)
  <2> SUFFICES ASSUME NEW s \in Steps PROVE s < at + 1 <=> (s < at \/ s = at)
    OBVIOUS
  <2> QED
    BY StepAssumption DEF Steps
<1>3. at \notin ctx.failed
  BY <1>0, StepAssumption DEF Steps, BehindIsTrue
<1>4. RunIsOpen' /\ Worked \subseteq Worked' /\ (done' = done => Worked' = Worked)
  BY <1>0 DEF RunIsOpen, IsDoneFor, Worked
<1>5. BehindIsTrue'
  <2>1. \A s \in done' : s \in c.resumed \/ s < c.at
    BY <1>0, <1>1, <1>2 DEF BehindIsTrue
  <2>2. c.failed \subseteq Applicable \ done'
    BY <1>0, <1>1, <1>3 DEF BehindIsTrue
  <2>3. \A s \in c.failed : s < c.at
    BY <1>0, <1>1, <1>2 DEF BehindIsTrue
  <2> QED
    BY <2>1, <2>2, <2>3 DEF BehindIsTrue
<1>6. TraceIsKept'
  <2>1. ASSUME ~c.blocked, NEW s \in Blocking \cap Applicable, s < c.at
        PROVE  s \in Worked'
    BY <1>0, <1>1, <1>2, <1>4, <2>1 DEF TraceIsKept
  <2>2. ASSUME ~c.blocked, c.failed = {}, NEW s \in Applicable, s < c.at
        PROVE  s \in Worked'
    BY <1>0, <1>1, <1>2, <1>4, <2>2 DEF TraceIsKept
  <2> QED
    BY <2>1, <2>2 DEF TraceIsKept
<1>7. OutcomeIsTrue'
  BY <1>0 DEF OutcomeIsTrue, RunIsOpen, IsDoneFor, DoneStatuses
<1>8. InHand'
  BY DEF InHand
<1> QED
  BY <1>4, <1>5, <1>6, <1>7, <1>8 DEF ChainInv


(* Going on to the next step keeps the context typed.                     *)
LEMMA AdvanceTypes ==
  ASSUME NEW c \in Contexts, c.at \in Steps
  PROVE  /\ Advance(c) \in Contexts /\ Advance(c).at = c.at + 1
         /\ Advance(c).parent = c.parent /\ Advance(c).resumed = c.resumed
         /\ Advance(c).failed = c.failed /\ Advance(c).blocked = c.blocked
<1>1. c.at \in 1..StepCount
  BY DEF Steps
<1>2. c.at + 1 \in 1..(StepCount + 1)
  BY <1>1, StepAssumption
<1> QED
  BY <1>2 DEF Advance, Contexts

(* A step completed in an earlier run is behind the chain truly.          *)
LEMMA SkipResumedKeeps == ASSUME ChainInv, SkipResumed PROVE ChainInv'
<1>1. ctx \in Contexts /\ RunIsOpen /\ BehindIsTrue /\ proc \in InRun
  BY DEF ChainInv, TypeOK, SkipResumed, InRun
<1>2. ctx.at \in Steps /\ ctx.at \in Worked
  BY <1>1 DEF SkipResumed, RunIsOpen, Contexts
<1>3. /\ ctx' = Advance(ctx) /\ proc' = "next"
      /\ UNCHANGED <<shutdown, eodDone, parents, old, done, work, rescue, stops, faults>>
  BY DEF SkipResumed, rows, history, bounds
<1>4. TypeOK'
  BY <1>1, <1>2, <1>3, AdvanceTypes DEF ChainInv, TypeOK, InRun, work, rescue
<1>5. UNCHANGED undone /\ Worked' = Worked
  BY <1>3 DEF rescue, Worked
<1> QED
  BY <1>1, <1>2, <1>3, <1>4, <1>5, AdvanceTypes, AdvanceStep

(* So is one whose blocking steps did not complete, or that does not apply. *)
LEMMA SkipStepKeeps == ASSUME ChainInv, SkipStep PROVE ChainInv'
<1> DEFINE c == [ctx EXCEPT !.skipped = @ \cup {ctx.at}]
<1>1. ctx \in Contexts /\ proc \in InRun /\ ctx.at \in Steps /\ BehindIsTrue
  BY DEF ChainInv, TypeOK, SkipStep, AtNewStep, InRun
<1>2. /\ c \in Contexts /\ c.at = ctx.at /\ c.parent = ctx.parent
      /\ c.resumed = ctx.resumed /\ c.failed = ctx.failed /\ c.blocked = ctx.blocked
  BY <1>1 DEF Contexts
<1>3. /\ ctx' = Advance(c) /\ proc' = "next" /\ (ctx.blocked \/ ctx.at \notin Applicable)
      /\ UNCHANGED <<shutdown, eodDone, parents, old, done, work, rescue, stops, faults>>
  BY DEF SkipStep, AtNewStep, rows, history, bounds
<1>4. /\ Advance(c) \in Contexts /\ Advance(c).at = ctx.at + 1
      /\ Advance(c).parent = ctx.parent /\ Advance(c).resumed = ctx.resumed
      /\ Advance(c).failed = ctx.failed /\ Advance(c).blocked = ctx.blocked
  <2> HIDE DEF c
  <2> QED
    BY <1>1, <1>2, AdvanceTypes
<1>5. UNCHANGED undone
  BY <1>3 DEF rescue
<1>6. TypeOK'
  BY <1>3, <1>4 DEF ChainInv, TypeOK, InRun, work, rescue
<1> QED
  BY <1>1, <1>3, <1>4, <1>5, <1>6, AdvanceStep

(* So is one whose completed row was just written.                        *)
LEMMA RecordCompletedKeeps == ASSUME ChainInv, RecordCompleted PROVE ChainInv'
<1>1. /\ ctx \in Contexts /\ proc \in InRun /\ InHand /\ BehindIsTrue
  BY DEF ChainInv, TypeOK, RecordCompleted, InRun
<1>2. ctx.at \in Steps
  BY <1>1, StepAssumption DEF InHand, RecordCompleted
<1>3. /\ ctx' = Advance(ctx) /\ proc' = "next" /\ done' = done \cup {ctx.at}
      /\ UNCHANGED <<shutdown, eodDone, parents, old, work, rescue, stops, faults>>
  BY DEF RecordCompleted, history, bounds
<1>4. UNCHANGED undone /\ ctx.at \in Worked'
  BY <1>3 DEF rescue, Worked
<1>5. TypeOK'
  BY <1>1, <1>2, <1>3, AdvanceTypes DEF ChainInv, TypeOK, InRun, work, rescue
<1> QED
  BY <1>1, <1>2, <1>3, <1>4, <1>5, AdvanceTypes, AdvanceStep

(* Beginning or doing an attempt moves within the step in hand.            *)
LEMMA WithinStep ==
  ASSUME ChainInv, proc \in InRun, proc' \in InRun, TypeOK', InHand',
         UNCHANGED <<parents, done, undone>>, NEW c \in Contexts, ctx' = c,
         c.at = ctx.at, c.parent = ctx.parent, c.resumed = ctx.resumed,
         c.failed = ctx.failed, c.blocked = ctx.blocked
  PROVE  ChainInv'
BY DEF ChainInv, RunIsOpen, IsDoneFor, BehindIsTrue, TraceIsKept, OutcomeIsTrue, Worked

(* An attempt begins only when every blocking step ahead completed.       *)
LEMMA BeginAttemptKeeps == ASSUME ChainInv, BeginAttempt PROVE ChainInv'
<1> DEFINE c == [ctx EXCEPT !.attempt = @ + 1]
<1>1. ctx \in Contexts /\ proc \in InRun /\ InHand
  BY DEF ChainInv, TypeOK, BeginAttempt, AtNewStep, InRun
<1>2. /\ c \in Contexts /\ c.at = ctx.at /\ c.parent = ctx.parent
      /\ c.resumed = ctx.resumed /\ c.failed = ctx.failed /\ c.blocked = ctx.blocked
  BY <1>1 DEF Contexts
<1>3. /\ ctx' = c /\ proc' = "step"
      /\ UNCHANGED <<shutdown, eodDone, parents, old, done, work, undone, robbed, stops, faults>>
  BY DEF BeginAttempt, rows, bounds
<1>4. ~ctx.blocked /\ ctx.at \in Applicable \ ctx.resumed
  BY <1>1 DEF BeginAttempt, AtNewStep, InHand
<1>5. read' \in [Rescuers -> Reads]
  <2>1. \A x \in Reads : [x EXCEPT !.child = 0] \in Reads
    BY DEF Reads
  <2> QED
    BY <2>1 DEF BeginAttempt, ChainInv, TypeOK
<1> HIDE DEF c
<1>6. TypeOK' /\ InHand' /\ proc' \in InRun
  BY <1>2, <1>3, <1>4, <1>5 DEF ChainInv, TypeOK, InHand, InRun, work
<1> QED
  BY <1>1, <1>2, <1>3, <1>6, WithinStep

(* A step's effect falls between its attempt and its row.                 *)
LEMMA StepRunsKeeps == ASSUME ChainInv, StepRuns PROVE ChainInv'
<1> DEFINE c == [ctx EXCEPT !.values = @ \/ ctx.at = Giver]
<1>1. ctx \in Contexts /\ proc \in InRun /\ InHand
  BY DEF ChainInv, TypeOK, StepRuns, InRun
<1>2. /\ c.at = ctx.at /\ c.parent = ctx.parent
      /\ c.resumed = ctx.resumed /\ c.failed = ctx.failed /\ c.blocked = ctx.blocked
  BY <1>1 DEF Contexts
<1>3. c \in Contexts
  <2>1. (ctx.values \/ ctx.at = Giver) \in BOOLEAN
    BY Zenon
  <2> QED
    BY <1>1, <2>1 DEF Contexts
<1>4. /\ ctx' = c /\ proc' = "ran" /\ runs' = [runs EXCEPT ![ctx.at] = @ + 1]
      /\ UNCHANGED <<shutdown, eodDone, parents, old, done, ownFault, rescue, stops, faults>>
  BY DEF StepRuns, rows, bounds
<1>5. ~ctx.blocked /\ ctx.at \in Applicable \ ctx.resumed
  BY <1>1 DEF StepRuns, InHand
<1>6. runs' \in [Steps -> Nat]
  <2>1. runs \in [Steps -> Nat] /\ ctx.at \in Steps
    BY <1>5, StepAssumption DEF ChainInv, TypeOK
  <2>2. runs[ctx.at] + 1 \in Nat
    BY <2>1
  <2> QED
    BY <1>4, <2>1, <2>2
<1> HIDE DEF c
<1>7. TypeOK' /\ InHand' /\ proc' \in InRun
  BY <1>2, <1>3, <1>4, <1>5, <1>6 DEF ChainInv, TypeOK, InHand, InRun, rescue
<1>8. UNCHANGED undone
  BY <1>4 DEF rescue
<1> QED
  BY <1>1, <1>2, <1>3, <1>4, <1>7, <1>8, WithinStep

(* A failed attempt is retried, or the step joins the failed ones.         *)
LEMMA RecordFailedKeeps ==
  ASSUME ChainInv, proc \in {"step", "ran"}, RecordFailed,
         UNCHANGED <<shutdown, eodDone, parents, old, done, runs, read, undone, robbed, stops>>,
         ownFault' \subseteq Steps, faults' \in Nat
  PROVE  ChainInv'
<1> DEFINE c == [ctx EXCEPT !.failed = @ \cup {ctx.at}, !.blocked = @ \/ ctx.at \in Blocking]
<1>1. ctx \in Contexts /\ proc \in InRun /\ InHand /\ BehindIsTrue
  BY DEF ChainInv, TypeOK, InRun
<1>2. ~ctx.blocked /\ ctx.at \in Applicable \ ctx.resumed /\ ctx.at \in Steps
  BY <1>1, StepAssumption DEF InHand
<1>3. CASE proc' = "sleep" /\ UNCHANGED ctx
  <2>1. TypeOK' /\ InHand' /\ proc' \in InRun
    BY <1>2, <1>3 DEF ChainInv, TypeOK, InHand, InRun
  <2> QED
    BY <1>1, <1>3, <2>1, WithinStep
<1>4. CASE proc' = "next" /\ ctx' = Advance(c)
  <2>1. c \in Contexts
    <3>1. (ctx.blocked \/ ctx.at \in Blocking) \in BOOLEAN
      BY Zenon
    <3> QED
      BY <1>1, <1>2, <3>1 DEF Contexts
  <2>2. /\ c.at = ctx.at /\ c.parent = ctx.parent /\ c.resumed = ctx.resumed
        /\ c.failed = ctx.failed \cup {ctx.at}
        /\ c.blocked = (ctx.blocked \/ ctx.at \in Blocking)
    BY <1>1 DEF Contexts
  <2>3. /\ Advance(c) \in Contexts /\ Advance(c).at = ctx.at + 1
        /\ Advance(c).parent = ctx.parent /\ Advance(c).resumed = ctx.resumed
        /\ Advance(c).failed = ctx.failed \cup {ctx.at}
        /\ Advance(c).blocked = (ctx.blocked \/ ctx.at \in Blocking)
    <3> HIDE DEF c
    <3> QED
      BY <1>2, <2>1, <2>2, AdvanceTypes
  <2>4. ctx.at \notin done
    BY <1>2, <1>1, StepAssumption DEF BehindIsTrue, Steps
  <2>5. TypeOK'
    BY <1>4, <2>3 DEF ChainInv, TypeOK, InRun
  <2> QED
    BY <1>1, <1>2, <1>4, <2>3, <2>4, <2>5, AdvanceStep
<1> QED
  BY <1>3, <1>4 DEF RecordFailed

(* An outcome is written when no step is left, from what the steps did.   *)
LEMMA EndChainKeeps == ASSUME ChainInv, EndChain PROVE ChainInv'
<1>1. /\ proc \in InRun /\ RunIsOpen /\ BehindIsTrue /\ TraceIsKept
      /\ TypeOK /\ OutcomeIsTrue
  BY DEF ChainInv, EndChain, LoopEnds, InRun
<1>2. /\ parents' = [parents EXCEPT ![ctx.parent] = ChainStatus] /\ proc' = "idle"
      /\ eodDone' = (ChainStatus # "interrupted")
      /\ UNCHANGED <<shutdown, old, done, ctx, work, read, undone, robbed, stops, faults>>
  BY DEF EndChain, history, rescue, bounds
<1>3. ChainStatus \in ParentStatuses
  BY DEF ChainStatus, ParentStatuses, DoneStatuses
<1>4. parents' \in Seq(ParentStatuses) /\ DOMAIN parents' = DOMAIN parents
  <2> DEFINE seq == parents
  <2>1. seq \in Seq(ParentStatuses) /\ parents' = [seq EXCEPT ![ctx.parent] = ChainStatus]
    BY <1>1, <1>2 DEF TypeOK
  <2> HIDE DEF seq
  <2>2. seq \in [1..Len(seq) -> ParentStatuses] /\ DOMAIN seq = 1..Len(seq) /\ Len(seq) \in Nat
    BY <2>1
  <2>3. parents' \in [1..Len(seq) -> ParentStatuses]
    BY <1>3, <2>1, <2>2
  <2>4. parents' \in Seq(ParentStatuses) /\ DOMAIN parents' = DOMAIN seq
    BY <2>2, <2>3
  <2> QED
    BY <2>4 DEF seq
<1>5. TypeOK'
  BY <1>1, <1>2, <1>4 DEF TypeOK, work
<1>6. OutcomeIsTrue'
  <2> SUFFICES ASSUME NEW n \in DOMAIN parents
               PROVE  /\ parents'[n] = "completed" => Applicable \subseteq Worked
                      /\ parents'[n] = "completed_with_errors" =>
                           Blocking \cap Applicable \subseteq Worked /\ ~(Applicable \subseteq done)
    BY <1>2, <1>4 DEF OutcomeIsTrue, Worked
  <2>1. CASE n # ctx.parent
    BY <1>1, <1>2, <2>1 DEF OutcomeIsTrue, TypeOK, Worked
  <2>2. CASE n = ctx.parent
    <3>1. parents'[n] = ChainStatus
      BY <1>1, <1>2, <2>2 DEF TypeOK
    <3>2. CASE proc = "ending"
      BY <3>1, <3>2 DEF ChainStatus
    <3>3. CASE LoopEnds
      <4>1. \A s \in Steps : s < ctx.at
        BY <3>3, StepAssumption DEF LoopEnds, Steps
      <4>2. Applicable \subseteq Steps
        BY StepAssumption
      <4>3. ~ctx.blocked => Blocking \cap Applicable \subseteq Worked
        BY <1>1, <4>1, <4>2 DEF TraceIsKept
      <4>4. ~ctx.blocked /\ ctx.failed = {} => Applicable \subseteq Worked
        BY <1>1, <4>1, <4>2 DEF TraceIsKept
      <4>5. ctx.failed # {} => ~(Applicable \subseteq done)
        BY <1>1 DEF BehindIsTrue
      <4> QED
        BY <3>1, <4>3, <4>4, <4>5 DEF ChainStatus
    <3> QED
      BY <3>2, <3>3 DEF EndChain
  <2> QED
    BY <2>1, <2>2
<1> QED
  BY <1>2, <1>5, <1>6 DEF ChainInv, InRun

(* ChainInv is inductive.                                                 *)
LEMMA ChainStepKeeps == ASSUME ChainInv, [Next]_vars PROVE ChainInv'
<1>1. CASE Boot
  <2>1. UNCHANGED <<parents, done, undone, ctx>> /\ proc' = "boot"
    BY <1>1 DEF Boot, rows
  <2>2. read' \in [Rescuers -> Reads]
    BY <1>1, ReadingTypes DEF Boot, ChainInv, Rescuers
  <2>3. TypeOK'
    BY <1>1, <2>2 DEF Boot, ChainInv, TypeOK, rows, work, bounds
  <2> QED
    BY <2>1, <2>3, QuietStep
<1>2. CASE BootRescues
  BY <1>2, RescueStep DEF BootRescues, Rescuers
<1>9. CASE \E r \in Elsewhere : RescueReads(r) \/ RescueWrites(r)
  <2>1. PICK r \in Elsewhere : RescueReads(r) \/ RescueWrites(r)
    BY <1>9
  <2>2. r \in Rescuers
    BY DEF Rescuers
  <2>3. CASE RescueWrites(r)
    BY <2>2, <2>3, RescueStep DEF RescueWrites
  <2>4. CASE RescueReads(r)
    <3>1. ctx.at \in Nat
      BY StepAssumption DEF ChainInv, TypeOK, Contexts
    <3>2. PICK child \in Nat : Reading(r, child)
      BY <2>4, <3>1 DEF RescueReads
    <3>3. read' \in [Rescuers -> Reads]
      BY <2>2, <3>2, ReadingTypes DEF ChainInv
    <3>4. UNCHANGED <<proc, parents, done, undone, ctx>>
      BY <2>4 DEF RescueReads, rows
    <3>5. TypeOK'
      BY <2>4, <3>3 DEF RescueReads, ChainInv, TypeOK, rows, work, bounds
    <3> QED
      BY <3>4, <3>5, QuietStep
  <2> QED
    BY <2>1, <2>3, <2>4
<1>3. CASE StartChain
  BY <1>3, StartStep
<1>4. CASE Exit \/ Crash \/ ChainBreaks \/ HalfHourPasses \/ RequestShutdown
           \/ Interrupt \/ InterruptRetry
  <2>1. UNCHANGED <<parents, done, undone, robbed, ctx>>
    BY <1>4 DEF Exit, Crash, ChainBreaks, HalfHourPasses, RequestShutdown,
                Interrupt, InterruptRetry, rows, history, rescue
  <2>2. \/ proc' \in {"down", "idle", "ending"} /\ (proc' = "ending" => proc \in InRun)
        \/ proc' = proc
    BY <1>4 DEF Exit, Crash, ChainBreaks, HalfHourPasses, RequestShutdown,
                Interrupt, InterruptRetry, AtNewStep, InRun
  <2>3. UNCHANGED <<eodDone, runs, ownFault, faults>>
    BY <1>4 DEF Exit, Crash, ChainBreaks, HalfHourPasses, RequestShutdown, Interrupt,
                InterruptRetry, rows, history, work, bounds
  <2>4. /\ shutdown' \in {shutdown, TRUE} /\ old' \in {old, DOMAIN parents}
        /\ stops' \in {stops, stops + 1}
        /\ read' \in {read, [read EXCEPT !["soak"] = NothingRead]}
    BY <1>4 DEF Exit, Crash, ChainBreaks, HalfHourPasses, RequestShutdown, Interrupt,
                InterruptRetry, rows, history, rescue, bounds
  <2>5. proc' \in {"down", "boot", "idle"} \cup InRun
    BY <2>2 DEF ChainInv, TypeOK, InRun
  <2>6. old' \subseteq DOMAIN parents'
    BY <2>1, <2>4 DEF ChainInv, TypeOK
  <2>7. shutdown' \in BOOLEAN /\ stops' \in Nat /\ read' \in [Rescuers -> Reads]
    <3>1. shutdown \in BOOLEAN /\ stops \in Nat /\ read \in [Rescuers -> Reads]
      BY DEF ChainInv, TypeOK
    <3>2. shutdown' \in BOOLEAN
      BY <2>4, <3>1, Zenon
    <3>3. stops' \in Nat
      BY <2>4, <3>1
    <3>4. NothingRead \in Reads
      BY DEF NothingRead, Reads
    <3>5. read' \in [Rescuers -> Reads]
      BY <2>4, <3>1, <3>4
    <3> QED
      BY <3>2, <3>3, <3>5
  <2>8. TypeOK'
    BY <2>1, <2>3, <2>5, <2>6, <2>7 DEF ChainInv, TypeOK
  <2> QED
    BY <2>1, <2>2, <2>8, QuietStep
<1>5. CASE SkipResumed \/ SkipStep \/ BeginAttempt \/ StepRuns \/ RecordCompleted \/ EndChain
  BY <1>5, SkipResumedKeeps, SkipStepKeeps, BeginAttemptKeeps, StepRunsKeeps,
     RecordCompletedKeeps, EndChainKeeps
<1>6. CASE StepRaises
  <2>1. ctx.at \in Steps
    BY <1>6, StepAssumption DEF StepRaises, ChainInv, InHand, InRun
  <2>2. ownFault' \subseteq Steps /\ faults' \in Nat
    BY <1>6, <2>1 DEF StepRaises, ChainInv, TypeOK
  <2> QED
    BY <1>6, <2>2, RecordFailedKeeps DEF StepRaises, rows, rescue
<1>7. CASE StepMissesValues
  BY <1>7, RecordFailedKeeps
  DEF StepMissesValues, rows, history, work, rescue, bounds, ChainInv, TypeOK
<1>8. CASE UNCHANGED vars
  <2>1. TypeOK'
    BY <1>8 DEF vars, ChainInv, TypeOK
  <2> QED
    BY <1>8, <2>1, QuietStep DEF vars
<1> QED
  BY <1>1, <1>2, <1>3, <1>4, <1>5, <1>6, <1>7, <1>8, <1>9 DEF Next, ChainStep

-----------------------------------------------------------------------------
(* The theorems                                                            *)

(* ChainInv holds in every reachable state.                               *)
LEMMA ChainInvIsInvariant == Spec => []ChainInv
BY ChainInit, ChainStepKeeps, PTL DEF Spec

(* Every variable of the runner keeps to its range.                        *)
THEOREM TypesKept == Spec => []TypeOK
<1>1. ChainInv => TypeOK
  BY DEF ChainInv
<1> QED
  BY <1>1, ChainInvIsInvariant, PTL

(* Whatever is retried, resumed or rescued, a step works only after every  *)
(* blocking step ahead of it is completed: blocked_by with the resume of   *)
(* completed_steps_for keeps the order across processes.                   *)
THEOREM BlockingComesFirst == Spec => []BlockingFirst
<1>1. ChainInv => BlockingFirst
  <2> SUFFICES ASSUME ChainInv, Working PROVE BlockingFirst
    BY DEF BlockingFirst
  <2>1. TraceIsKept /\ InHand
    BY DEF ChainInv, Working, InRun
  <2> QED
    BY <2>1 DEF TraceIsKept, InHand, Working, BlockingFirst, Worked
<1> QED
  BY <1>1, ChainInvIsInvariant, PTL

(* What _finish_chain records of a date is true of its steps, for every    *)
(* chain and every history of the date.                                    *)
THEOREM OutcomesAreTrue == Spec => []OutcomeIsTrue
<1>1. ChainInv => OutcomeIsTrue
  BY DEF ChainInv
<1> QED
  BY <1>1, ChainInvIsInvariant, PTL

(* A step's work takes effect only while it is not recorded as completed.  *)
LEMMA RunsAreNew ==
  ASSUME ChainInv, [Next]_vars, runs' # runs
  PROVE  /\ ~IsDoneFor /\ UNCHANGED <<parents, done>>
         /\ \A s \in done : runs'[s] = runs[s]
<1>1. StepRuns
  BY DEF Next, ChainStep, vars, Boot, BootRescues, StartChain, Exit, StepRaises,
         RescueReads, RescueWrites, HalfHourPasses, RequestShutdown, Crash, ChainBreaks,
         SkipResumed, Interrupt, SkipStep, BeginAttempt, RecordCompleted,
         StepMissesValues, InterruptRetry, EndChain, history, work
<1>2. RunIsOpen /\ BehindIsTrue /\ InHand /\ TypeOK
  BY <1>1 DEF ChainInv, StepRuns, InRun
<1>3. ctx.at \notin done
  BY <1>1, <1>2, StepAssumption DEF StepRuns, BehindIsTrue, InHand, Steps
<1>4. runs' = [runs EXCEPT ![ctx.at] = @ + 1] /\ UNCHANGED <<parents, done>>
  BY <1>1 DEF StepRuns, rows
<1> QED
  BY <1>2, <1>3, <1>4 DEF RunIsOpen, TypeOK

(* A step is never run again while its row says completed.                 *)
THEOREM RecordedStepsRunOnce == Spec => RecordedRunsOnce
<1>1. ChainInv /\ [Next]_vars => [\A s \in done : runs'[s] = runs[s]]_vars
  BY RunsAreNew
<1> QED
  BY <1>1, ChainInvIsInvariant, PTL DEF Spec, RecordedRunsOnce

(* An outcome of the date stands against restarts and later rescues:       *)
(* is_done_for closes the date for the soak loop, and only a rescue whose  *)
(* read came before the outcome takes it away.                             *)
THEOREM OutcomesStand == Spec => OutcomeStands
<1>1. ASSUME ChainInv, [Next]_vars, IsDoneFor
      PROVE  runs' = runs /\ (IsDoneFor' \/ OutcomeUnderRescue)
  <2>1. runs' = runs
    BY <1>1, RunsAreNew
  <2>2. proc \notin InRun
    BY <1>1 DEF ChainInv, RunIsOpen
  <2>3. UNCHANGED parents \/ \E r \in Rescuers : Overwriting(r)
    BY <1>1, <2>2
    DEF Next, ChainStep, vars, Boot, BootRescues, StartChain, Exit, StepRaises,
        RescueReads, RescueWrites, HalfHourPasses, RequestShutdown, Crash, ChainBreaks,
        SkipResumed, Interrupt, SkipStep, BeginAttempt, StepRuns, RecordCompleted,
        StepMissesValues, InterruptRetry, EndChain, LoopEnds, InRun, rows, Rescuers
  <2>4. ASSUME UNCHANGED parents PROVE IsDoneFor'
    BY <1>1, <2>4 DEF IsDoneFor
  <2>5. ASSUME NEW r \in Rescuers, Overwriting(r) PROVE IsDoneFor' \/ OutcomeUnderRescue
    <3>1. PICK n \in DOMAIN parents : parents[n] \in DoneStatuses
      BY <1>1 DEF IsDoneFor
    <3>2. /\ DOMAIN parents' = DOMAIN parents
          /\ parents'[n] = parents[n] \/ n \in read[r].parents
      BY <1>1, <2>5, <3>1, OverwritingKeeps DEF ChainInv
    <3> QED
      BY <3>1, <3>2 DEF IsDoneFor, OutcomeUnderRescue
  <2> QED
    BY <2>1, <2>3, <2>4, <2>5
<1>2. ChainInv /\ [Next]_vars =>
        [IsDoneFor => runs' = runs /\ (IsDoneFor' \/ OutcomeUnderRescue)]_vars
  BY <1>1
<1> QED
  BY <1>2, ChainInvIsInvariant, PTL DEF Spec, OutcomeStands
=============================================================================
