------------------------------ MODULE Schedules ------------------------------
(***************************************************************************)
(* A script schedule: the row of script_schedules, the background          *)
(* scheduler that fires it when it is due (runDueSchedules, fireSchedule,  *)
(* advanceNextRun), and the handlers that edit it in the meantime          *)
(* (ScheduleHandler.Create, Update and Delete).                            *)
(*                                                                         *)
(* Schedules do not touch each other's rows, so one row is modelled.  A    *)
(* recurrent schedule is its period; Impossible is a cron expression that  *)
(* is well formed but has no date, for which the cron library gives the    *)
(* zero time.  A schedule with a run_at has no cron expression: Once.      *)
(* Invalid is an expression that the handlers no longer accept, in a row   *)
(* that was written before the server started.                             *)
(*                                                                         *)
(* The NOW() of the database and the time.Now() of the server are one      *)
(* clock.                                                                  *)
(***************************************************************************)
EXTENDS Naturals, FiniteSets

CONSTANTS
    TargetAgents,
    Periods,       \* recurrent schedules: time from one date to the next
    MaxTime,       \* bound: the clock
    MaxFaults,     \* bound: crashes of the server and failed statements
    MaxEdits,      \* bound: calls of Update
    Once, Impossible, Invalid

ASSUME SchedulesAssumption ==
    /\ Periods \subseteq Nat \ {0}
    /\ MaxTime \in Nat /\ MaxFaults \in Nat /\ MaxEdits \in Nat
    /\ Once \notin Nat /\ Impossible \notin Nat /\ Invalid \notin Nat
    /\ Once # Impossible /\ Invalid \notin {Once, Impossible}

Modes == Periods \cup {Once, Impossible}

VARIABLES
    now,
    exists,                   \* the row is there
    mode, enabled, next,      \* cron_expression or run_at, enabled, next_run_at
    sched, d,                 \* the scheduler: where it is, the row as it read it
    targets,                  \* agents that have yet to get their command
    editing, edit,            \* Update: between its SELECT and its UPDATE
    edits, faults,
    fired,                    \* <<agent, date>>: commands created
    twice,                    \* ... more than once
    disturbed                 \* a firing met a fault or an edit

row == <<exists, mode, enabled, next>>
scheduler == <<sched, d, targets>>
handler == <<editing, edit, edits>>
history == <<fired, twice, disturbed>>
scheduleVars == <<now, row, scheduler, handler, faults, history>>

Due == exists /\ enabled /\ next <= now

\* schedule.Next(time.Now()): a later date, or the zero time.
NextDate(m) == IF m = Impossible THEN 0 ELSE now + m

\* The dates Create and Update accept for a mode: run_at is in the future.
Dates(m) == IF m = Once THEN {now + 1, now + 2} ELSE {NextDate(m)}

NoRow == [mode |-> Once, due |-> 0]

ScheduleInit ==
    /\ now = 1
    /\ exists = TRUE /\ enabled = TRUE
    /\ \/ mode \in Modes /\ next \in Dates(mode)
       \/ mode = Invalid /\ next \in Dates(Once)
    /\ sched = "idle" /\ d = NoRow /\ targets = {}
    /\ editing = FALSE /\ edit = [mode |-> Once, enabled |-> FALSE]
    /\ edits = 0 /\ faults = 0
    /\ fired = {} /\ twice = {} /\ disturbed = FALSE

Tick ==
    /\ now < MaxTime
    /\ now' = now + 1
    /\ UNCHANGED <<row, scheduler, handler, faults, history>>

-----------------------------------------------------------------------------
(* The scheduler *)

\* Faulty variant: a disabled schedule is read too.
PollDisabled ==
    /\ sched = "idle" /\ exists /\ next <= now
    /\ d' = [mode |-> mode, due |-> next]
    /\ sched' = "fire"
    /\ UNCHANGED <<now, row, targets, handler, faults, history>>

\* Faulty variant: only a date that is exactly now is due.
PollExact ==
    /\ sched = "idle" /\ Due /\ next = now
    /\ d' = [mode |-> mode, due |-> next]
    /\ sched' = "fire"
    /\ UNCHANGED <<now, row, targets, handler, faults, history>>

\* runDueSchedules reads the due row; what follows uses what it has read.
Poll ==
    /\ sched = "idle" /\ Due
    /\ d' = [mode |-> mode, due |-> next]
    /\ sched' = "fire"
    /\ UNCHANGED <<now, row, targets, handler, faults, history>>

\* The script and the agents are looked up: possibly none.
ResolveTargets ==
    /\ sched = "fire"
    /\ \E S \in SUBSET TargetAgents : targets' = S
    /\ sched' = "create"
    /\ UNCHANGED <<now, row, d, handler, faults, history>>

\* One command for one agent; an error is logged and the next one is tried.
\* A command refers to its schedule, so none is created without the row.
CreateCommand(a) ==
    /\ sched = "create" /\ a \in targets
    /\ targets' = targets \ {a}
    /\ LET c == <<a, d.due>>
       IN  \/ /\ exists
              /\ fired' = fired \cup {c}
              /\ twice' = IF c \in fired THEN twice \cup {c} ELSE twice
           \/ UNCHANGED <<fired, twice>>
    /\ UNCHANGED <<now, row, sched, d, handler, faults, disturbed>>

\* Faulty variant: next_run_at is computed from the date that was due.
AdvanceFromDue ==
    IF d.mode \in {Once, Invalid}
    THEN enabled' = FALSE /\ UNCHANGED next
    ELSE /\ next' = IF d.mode = Impossible THEN 0 ELSE d.due + d.mode
         /\ UNCHANGED enabled

\* The row is disabled after a run_at, and when the expression is not parsed;
\* otherwise its date is computed from now with the expression that was read.
Advance ==
    IF d.mode \in {Once, Invalid}
    THEN enabled' = FALSE /\ UNCHANGED next
    ELSE next' = NextDate(d.mode) /\ UNCHANGED enabled

\* advanceNextRun, deferred by fireSchedule: also after an error.  Its UPDATE
\* may fail, which is only logged.
AdvanceNextRun ==
    /\ sched = "create" /\ targets = {}
    /\ sched' = "idle" /\ d' = NoRow
    /\ \/ /\ exists /\ Advance
          /\ disturbed' = (disturbed \/ editing) /\ UNCHANGED faults
       \/ /\ faults < MaxFaults
          /\ faults' = faults + 1 /\ disturbed' = TRUE
          /\ UNCHANGED <<enabled, next>>
       \/ /\ ~exists /\ UNCHANGED <<enabled, next, faults, disturbed>>
    /\ UNCHANGED <<now, exists, mode, targets, handler, fired, twice>>

\* The server stops during a firing; the next one starts with a poll.
ServerCrash ==
    /\ sched # "idle" /\ faults < MaxFaults
    /\ faults' = faults + 1
    /\ sched' = "idle" /\ d' = NoRow /\ targets' = {}
    /\ editing' = FALSE
    /\ disturbed' = TRUE
    /\ UNCHANGED <<now, row, edit, edits, fired, twice>>

-----------------------------------------------------------------------------
(* ScheduleHandler *)

\* Update reads the row first.
UpdateRead ==
    /\ ~editing /\ exists /\ edits < MaxEdits
    /\ editing' = TRUE /\ edits' = edits + 1
    /\ edit' = [mode |-> mode, enabled |-> enabled]
    /\ UNCHANGED <<now, row, scheduler, faults, history>>

\* Then writes all of its columns, enabled as the request says or as it was
\* read; next_run_at only when the schedule or the target changes, and not when
\* the date is the zero time.
UpdateWrite ==
    /\ editing
    /\ editing' = FALSE
    /\ \/ ~exists /\ UNCHANGED <<mode, enabled, next>>
       \/ /\ exists /\ enabled' \in BOOLEAN
          /\ \/ mode' = edit.mode /\ UNCHANGED next
             \/ \E m \in Modes \ {Impossible} : mode' = m /\ next' \in Dates(m)
             \/ mode' = Impossible /\ UNCHANGED next
    /\ disturbed' = (disturbed \/ sched # "idle" \/ enabled # edit.enabled
                     \/ (enabled' /\ ~enabled))
    /\ UNCHANGED <<now, exists, scheduler, edit, edits, faults, fired, twice>>

DeleteSchedule ==
    /\ exists
    /\ exists' = FALSE
    /\ UNCHANGED <<now, mode, enabled, next, scheduler, handler, faults, history>>

-----------------------------------------------------------------------------
Fire == Poll \/ ResolveTargets \/ (\E a \in TargetAgents : CreateCommand(a)) \/ AdvanceNextRun

ScheduleNext ==
    \/ Tick \/ Fire \/ ServerCrash
    \/ UpdateRead \/ UpdateWrite \/ DeleteSchedule

ScheduleSpec == ScheduleInit /\ [][ScheduleNext]_scheduleVars

\* The goroutine of the scheduler polls for ever.
ScheduleFairSpec == ScheduleSpec /\ WF_scheduleVars(Fire)

-----------------------------------------------------------------------------
\* An agent gets at most one command for a date, as long as no fault and no
\* edit meets a firing, and apart from an expression without a date.
OnePerDate ==
    \A c \in twice : disturbed \/ c[2] = 0

\* A firing that ends leaves the schedule not due, however the row was edited
\* while it ran: "pour ne jamais re-déclencher en boucle serrée".  Not after a
\* failed UPDATE, nor for an expression without a date.
NotDueAfterFiring ==
    [][(AdvanceNextRun /\ faults' = faults /\ d.mode # Impossible) => ~Due']_scheduleVars

\* A schedule that is due does not stay due: it is fired and advanced, also
\* after a crash in the middle of the firing or a failed UPDATE.
DueIsHandled ==
    Due ~> (~Due \/ mode = Impossible \/ d.mode = Impossible)
=============================================================================
