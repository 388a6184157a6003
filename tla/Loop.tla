-------------------------------- MODULE Loop --------------------------------
(***************************************************************************)
(* The resident process (internal/agent/agent.go): it waits for the next   *)
(* tick of Schedule, runs a pass under the pass lock, records the result   *)
(* in the schedule and in Metrics, and waits again, until it is asked to   *)
(* stop or dies.  What a pass does is modules Agent and Pass; here it ends *)
(* in one of the ways Run can tell apart.                                  *)
(*                                                                         *)
(* Two clocks run: the wall clock, which says when the next tick is and    *)
(* which somebody may set, and the timer, which cannot be set.  Boundaries *)
(* of every multiple of an interval meet again after setting.period, so    *)
(* the wall clock is kept modulo that.                                     *)
(***************************************************************************)
EXTENDS Integers, FiniteSets, FiniteSetsExt

CONSTANTS
  Settings,     \* hash of the host, interval and splay, with the period of the clock
  Longest,
  Never,
  Passes,       \* names for passes; one that nothing refers to is used again
  MaxFailures,  \* where the count of failed passes stops
  Jumps,        \* how far the wall clock may be set ahead, or back modulo the period
  MaxTrouble    \* datum reconcile commands, times the wall clock is set, deaths,
                \* errors taking the lock and reports that cannot be written, together

Sched == INSTANCE Schedule
Reg == INSTANCE Metrics

ASSUME LongestAssumption == Longest \in Nat /\ Longest >= 8
ASSUME SettingsAssumption ==
  \A s \in Settings : /\ s.interval \in 1..Longest /\ s.splay \in Nat /\ s.hash \in Nat
                      /\ s.period \in 1..Longest /\ s.period % (8 * s.interval) = 0
ASSUME PassesAssumption == Passes \subseteq Nat /\ IsFiniteSet(Passes) /\ Cardinality(Passes) >= 5
ASSUME FailuresAssumption == MaxFailures \in Nat /\ MaxFailures >= 3
ASSUME JumpsAssumption == Jumps \subseteq Int

VARIABLES
  setting,
  now,        \* the wall clock
  stage,      \* "waiting", "passing", "reported", "down" or "crashed"
  wait,       \* what is left on the timer
  schedule,   \* a.schedule
  registry,   \* a.registry, whose failures are a.consecutiveFailures
  stopping,   \* whether the context of Run is cancelled
  command,    \* whether a datum reconcile holds the lock
  disk,       \* the latest report in the state directory
  trouble,
  steady,     \* the wall clock was not set since the timer was
  streak,     \* upstream failures in a row that the process has seen
  apart       \* a report was not written, or was written by a command

clocks == <<now, wait, steady>>
memory == <<schedule, registry, streak>>
vars == <<setting, clocks, stage, memory, stopping, command, disk, trouble, apart>>

TypeOK ==
  /\ setting \in Settings
  /\ now \in 0..(setting.period - 1) /\ wait \in 0..setting.period
  /\ stage \in {"waiting", "passing", "reported", "down", "crashed"}
  /\ schedule.upstream \in 0..3
  /\ registry.failures \in 0..MaxFailures /\ streak \in 0..MaxFailures
  /\ registry.attempt \in Passes \cup {Never} /\ registry.success \in Passes \cup {Never}
  /\ registry.latest \in [pass : Passes \cup {Never}, fine : BOOLEAN]
  /\ disk \in [pass : Passes \cup {Never}, fine : BOOLEAN]
  /\ {stopping, command, steady, apart} \subseteq BOOLEAN

-----------------------------------------------------------------------------
Running == stage \in {"waiting", "passing", "reported"}

Counted(n) == IF n < MaxFailures THEN n + 1 ELSE n

Known == {registry.attempt, registry.success, registry.latest.pass, disk.pass}
Fresh == Min(Passes \ Known)

Trouble == trouble < MaxTrouble /\ trouble' = trouble + 1
NoTrouble == UNCHANGED trouble

\* The head of the loop: the timer is set for the next tick by the wall clock.
Arm(s) ==
  /\ stage' = "waiting"
  /\ wait' = Sched!Wait(s, now)
  /\ steady' = TRUE
  /\ UNCHANGED now

\* New and the start of Run: the schedule is new, and the registry shows the
\* report on disk before any pass has run.  There is no pass at startup.
SeedNothing == Reg!Empty                        \* defect: zeros until the first pass
Seed == IF disk = Reg!NoReport THEN Reg!Empty ELSE Reg!RecordPass(Reg!Empty, disk, 0)

Boot ==
  /\ registry' = Seed
  /\ Arm(schedule)
  /\ UNCHANGED <<setting, schedule, streak, stopping, command, disk, apart>>

\* The process is gone, and with it all it remembered.
Gone ==
  /\ schedule' = Sched!New(setting.hash, setting.interval, setting.splay)
  /\ streak' = 0 /\ registry' = Reg!Empty
  /\ wait' = 0 /\ steady' = TRUE
  /\ stopping' = FALSE /\ apart' = FALSE
  /\ UNCHANGED <<setting, now, command, disk>>

Init ==
  /\ setting \in Settings
  /\ now = 0
  /\ stage = "down" /\ wait = 0 /\ steady = TRUE
  /\ schedule = Sched!New(setting.hash, setting.interval, setting.splay)
  /\ streak = 0 /\ registry = Reg!Empty
  /\ stopping = FALSE /\ command = FALSE /\ apart = FALSE
  /\ disk \in {Reg!NoReport} \cup [pass : {Min(Passes)}, fine : BOOLEAN]
  /\ trouble = 0

-----------------------------------------------------------------------------
(* Recording.                                                              *)

Streak(failure) == streak' = IF failure = "upstream" THEN Counted(streak) ELSE 0

\* recordFailure: a pass that produced no report failed, whatever it says.
Failed(failure) ==
  /\ schedule' = Sched!Record(schedule, failure)
  /\ registry' = Reg!RecordFailure(registry, Counted(registry.failures))
  /\ Streak(failure)

\* recordPass.
Passed(report) ==
  LET failure == IF report.fine THEN "none" ELSE "local"
  IN  /\ schedule' = Sched!Record(schedule, failure)
      /\ registry' = Reg!RecordPass(registry, report, IF report.fine THEN 0 ELSE Counted(registry.failures))
      /\ Streak(failure)

-----------------------------------------------------------------------------
(* The loop.                                                               *)

\* The timer fires.  A lock that is held skips the tick and nothing is
\* recorded; an error taking it is a local failure.
Tick ==
  /\ stage = "waiting" /\ wait = 0
  /\ \/ /\ ~command
        /\ stage' = "passing"
        /\ registry' = Reg!RecordAttempt(registry, Fresh)
        /\ steady' = TRUE /\ NoTrouble
        /\ UNCHANGED <<now, wait, schedule, streak>>
     \/ /\ command
        /\ Arm(schedule) /\ NoTrouble
        /\ UNCHANGED memory
     \/ /\ Failed("local")
        /\ Arm(schedule') /\ Trouble
  /\ UNCHANGED <<setting, stopping, command, disk, apart>>

\* The pass ends without a report: fetching, resolving or observing failed or
\* timed out, which counts as upstream, or applying was cut off.  Once the
\* agent is asked to stop, this is an abandoned pass and nothing is recorded.
Abandon(failure) == IF stopping THEN UNCHANGED memory ELSE Failed(failure)

PassErrs ==
  /\ stage = "passing"
  /\ \E failure \in {"upstream", "local"} : Abandon(failure)
  /\ Arm(schedule')
  /\ UNCHANGED <<setting, stopping, command, disk, trouble, apart>>

\* The pass ends with a report, which is written if it can be.
Report(fine) == [pass |-> registry.attempt, fine |-> fine]
WriteReport ==
  /\ stage = "passing"
  /\ \E fine \in BOOLEAN :
       \/ /\ disk' = Report(fine) /\ apart' = FALSE
          /\ stage' = "reported" /\ NoTrouble
          /\ UNCHANGED <<clocks, memory>>
       \/ /\ Passed(Report(fine)) /\ apart' = TRUE
          /\ Arm(schedule') /\ Trouble
          /\ UNCHANGED disk
  /\ UNCHANGED <<setting, stopping, command>>

\* What was written is recorded.
PassReports ==
  /\ stage = "reported"
  /\ Passed(disk)
  /\ Arm(schedule')
  /\ UNCHANGED <<setting, stopping, command, disk, trouble, apart>>

-----------------------------------------------------------------------------
(* Around the loop.                                                        *)

\* SIGTERM or SIGINT; select finds the context done, though it may take a
\* timer that is ready at the same moment.
AskToStop ==
  /\ Running /\ ~stopping
  /\ stopping' = TRUE
  /\ UNCHANGED <<setting, clocks, stage, memory, command, disk, trouble, apart>>

Stop ==
  /\ stage = "waiting" /\ stopping
  /\ stage' = "down" /\ Gone /\ NoTrouble

\* The process dies; the service manager restarts it unless it had been
\* asked to stop (Restart=on-failure in packaging/datum.service).
Crash ==
  /\ Running
  /\ stage' = IF stopping THEN "down" ELSE "crashed"
  /\ Gone /\ Trouble

Start == stage = "down" /\ Boot /\ NoTrouble
Restart == stage = "crashed" /\ Boot /\ NoTrouble

\* An operator's pass, which writes a report of its own if it gets that far.
\* It needs the lock, and leaves the schedule and the registry alone.
CommandTakes ==
  /\ ~command /\ stage \notin {"passing", "reported"}
  /\ command' = TRUE
  /\ Trouble
  /\ UNCHANGED <<setting, clocks, stage, memory, stopping, disk, apart>>

CommandEnds ==
  /\ command /\ command' = FALSE
  /\ \/ UNCHANGED <<disk, apart>>
     \/ \E fine \in BOOLEAN : disk' = [pass |-> Fresh, fine |-> fine] /\ apart' = Running
  /\ UNCHANGED <<setting, clocks, stage, memory, stopping, trouble>>

\* Time goes by for both clocks.  A timer may fire late, but a select with
\* the context done does not wait for it.
Elapse ==
  /\ stage # "reported" /\ ~(stage = "waiting" /\ stopping)
  /\ now' = (now + 1) % setting.period
  /\ wait' = IF stage = "waiting" /\ wait > 0 THEN wait - 1 ELSE wait
  /\ UNCHANGED <<setting, steady, stage, memory, stopping, command, disk, trouble, apart>>

\* Somebody, or the network, sets the wall clock; the timer does not notice.
SetClock ==
  /\ \E jump \in Jumps : now' = (now + jump) % setting.period
  /\ steady' = (stage # "waiting")
  /\ Trouble
  /\ UNCHANGED <<setting, wait, stage, memory, stopping, command, disk, apart>>

-----------------------------------------------------------------------------

Next == \/ Tick
        \/ PassErrs
        \/ WriteReport
        \/ PassReports
        \/ AskToStop
        \/ Stop
        \/ Crash
        \/ Start
        \/ Restart
        \/ CommandTakes
        \/ CommandEnds
        \/ Elapse
        \/ SetClock

Spec == Init /\ [][Next]_vars

\* Time passes and timers fire, a pass ends, by its timeout if nothing else,
\* a command ends or is ended, select returns and the service manager
\* restarts.  Nobody has to start an agent that was stopped.
Fairness ==
  /\ WF_vars(Elapse) /\ WF_vars(Tick) /\ WF_vars(Stop) /\ WF_vars(Restart)
  /\ WF_vars(PassErrs \/ WriteReport) /\ WF_vars(PassReports) /\ WF_vars(CommandEnds)

FairSpec == Spec /\ Fairness

-----------------------------------------------------------------------------
(* Properties.                                                             *)

Ladder == <<1, 2, 4, 8>>

(* However passes overran, were skipped, failed or died before, the timer  *)
(* is set for the host's own minute: the first time after now that lies    *)
(* its offset past a boundary of the interval, or of the multiple of it    *)
(* the host has backed off to (schedule.go:60-66, 116-121).  A clock that  *)
(* is set moves the tick being waited for and no other.                    *)
TimerIsTheNextTick ==
  stage = "waiting" /\ wait > 0 /\ steady =>
    LET every == setting.interval * Ladder[schedule.upstream + 1]
    IN  /\ wait <= every
        /\ (now + wait) % every = (IF setting.splay = 0 THEN 0 ELSE setting.hash % setting.splay) % every

(* The interval is stretched only while the remote keeps failing: after n  *)
(* upstream failures in a row to 2^n intervals and never beyond eight, and *)
(* one pass that reaches the host, or the wish to stop, stretches nothing  *)
(* (schedule.go:22-34, 100-114).  A host that waits longer shows it in the *)
(* count of failed passes.                                                 *)
OnlyTheRemoteBacksOff ==
  stage = "waiting" =>
    /\ wait <= setting.interval * Ladder[Min({streak, 3}) + 1]
    /\ schedule.upstream = Min({streak, 3})
    /\ streak <= registry.failures

(* What is served is of the passes it claims to be of, on the host it runs *)
(* on: the report datum status would show, unless one was not written or a *)
(* command wrote it; a success that is not older than a report that says   *)
(* so; and an attempt without a report only while it runs, after a failure *)
(* or when stopping (agent.go:98-102, metrics.go:89-128).                  *)
MetricsAreOfTheLastPass ==
  Running =>
    /\ stage # "reported" /\ ~apart => registry.latest = disk
    /\ registry.latest.fine => registry.success = registry.latest.pass
    /\ stage = "waiting" /\ registry.attempt # registry.latest.pass => stopping \/ registry.failures > 0

(* An agent nobody stops starts passes for ever, however they fail, hang,  *)
(* are skipped or die, and one that is asked to stop ends                  *)
(* (failure-handling.md:45-48, agent.go:132-137).                          *)
KeepsGoingUntilStopped ==
  /\ <>[](stage # "down") => []<>(stage = "passing")
  /\ stopping ~> ~stopping
=============================================================================
