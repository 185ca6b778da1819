----------------------------- MODULE Scheduler -----------------------------
(***************************************************************************)
(* scheduler/mod.rs and the `schedule' command: a loop that sleeps until    *)
(* the hour and minute of the cron expression and then runs a cycle of      *)
(* hunt, patrol and consolidation.  Time passes in half minutes; nobody     *)
(* sets the clock, and the other three fields of the expression are not     *)
(* looked at.                                                               *)
(***************************************************************************)
EXTENDS Naturals, Sequences

CONSTANTS
  DayLength,     \* minutes of a day
  TargetMinute,  \* the minute of the day that the expression names
  LastTick       \* bound on time

\* A time of day; `parse' takes any number, and one past midnight is a time of no day.
ASSUME SchedulerAssumption ==
  /\ DayLength \in Nat \ {0} /\ TargetMinute \in 0..DayLength - 1
  /\ LastTick \in Nat

VARIABLES
  tick,          \* half minutes
  loop,          \* where the loop is, since when, and when it wakes up
  cycles         \* history: when it began to wait, and when the cycle began

schedulerVars == <<tick, loop, cycles>>

Minute(t) == t \div 2

\* Seeded fault: in the target minute itself there is no need to wait.
SecondsUntilNextOrNow(t) ==
  LET current == Minute(t) % DayLength
  IN 2 * IF TargetMinute >= current THEN TargetMinute - current ELSE DayLength - current + TargetMinute

\* Whole minutes, from the minute that has begun.
SecondsUntilNext(t) ==
  LET current == Minute(t) % DayLength
  IN 2 * IF TargetMinute > current THEN TargetMinute - current ELSE DayLength - current + TargetMinute

Loop(at, since, wake) == loop' = [at |-> at, since |-> since, wake |-> wake]

Sleep ==
  /\ loop.at = "decide"
  /\ Loop("sleep", tick, tick + SecondsUntilNext(tick))
  /\ UNCHANGED <<tick, cycles>>

\* The sleep is over and nobody called stop.
Trigger ==
  /\ loop.at = "sleep" /\ tick = loop.wake
  /\ cycles' = Append(cycles, [since |-> loop.since, at |-> tick])
  /\ \/ Loop("hunt", loop.since, tick)
     \/ Loop("decide", tick, tick)  \* no client, model or database: logged
  /\ UNCHANGED tick

\* The errors of hunt, patrol and consolidation are logged; each goes on.
Proceeded == [hunt |-> "patrol", patrol |-> "dream", dream |-> "decide"]
EndOfStage ==
  /\ loop.at \in DOMAIN Proceeded
  /\ Loop(Proceeded[loop.at], loop.since, loop.wake)
  /\ UNCHANGED <<tick, cycles>>

\* Only the sleep listens; what is pressed in a cycle is lost, because the handler
\* that the first sleep installed replaces the default one.
CtrlC ==
  /\ IF loop.at = "sleep" THEN Loop("stopped", loop.since, loop.wake) ELSE UNCHANGED loop
  /\ UNCHANGED <<tick, cycles>>

\* A sleeper is woken in time.
HalfMinute ==
  /\ tick < LastTick /\ loop.at # "decide" /\ ~(loop.at = "sleep" /\ tick = loop.wake)
  /\ tick' = tick + 1
  /\ UNCHANGED <<loop, cycles>>

SchedulerAt(t) == tick = t /\ loop = [at |-> "decide", since |-> t, wake |-> t] /\ cycles = <<>>
SchedulerInit == \E t \in 0..2 * DayLength - 1 : SchedulerAt(t)
SchedulerNext == Sleep \/ Trigger \/ EndOfStage \/ CtrlC \/ HalfMinute

SchedulerSpec == SchedulerInit /\ [][SchedulerNext]_schedulerVars

\* Cycles begin in the minute that the expression names, each in the first such
\* minute that begins after the loop began to wait: two never begin in the same
\* minute, however short a cycle is, and a day is left out only while a cycle
\* goes on.
RunsAreScheduled ==
  \A i \in DOMAIN cycles :
    LET missed == Minute(cycles[i].since) + 1..Minute(cycles[i].at) - 1
    IN /\ Minute(cycles[i].at) % DayLength = TargetMinute
       /\ Minute(cycles[i].at) > Minute(cycles[i].since)
       /\ \A m \in missed : m % DayLength # TargetMinute
       /\ i > 1 => Minute(cycles[i].at) >= Minute(cycles[i - 1].at) + DayLength
=============================================================================
