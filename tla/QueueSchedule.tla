------------------------------ MODULE QueueSchedule ------------------------------
(* The scheduler of data/queue_scheduler.rs against one queue: what its tick   *)
(* reads, decides and does, while users start, stop and edit the queue, jobs   *)
(* are added to it, its runs end, the clock goes on and the machine's state    *)
(* changes.  A step is what happens between two awaits.  What starting and     *)
(* stopping do to downloads is module QueueRuns'; here a run is on or off.     *)
EXTENDS Integers, FiniteSets

CONSTANTS
    Nil,
    DayLen,         (* moments in a day                                        *)
    Grace,          (* DAILY_GRACE_MINUTES, in moments                         *)
    OneshotWindow,  (* ONESHOT_WINDOW_HOURS, in moments                        *)
    FirstDay, LastDay,   (* bounds on the clock                                *)
    Schedules,      (* what users may set                                      *)
    Commands,       (* condition commands                                      *)
    Available       (* available_conditions: kinds this host can answer        *)

Kinds == {"JobAdded", "Unmetered", "Idle", "AcPower", "Command"}
Times == 0 .. DayLen - 1
Clocks == [day : Nat, time : Times]

Daily == [kind : {"daily"}, start : Times, stop : Times \cup {Nil}, days : SUBSET (0 .. 6)]
Once == [kind : {"once"}, start : Clocks, stop : Clocks \cup {Nil}]
Condition ==
    {s \in [kind : {"condition"}, all : BOOLEAN, enabled : SUBSET Kinds,
            command : Commands \cup {Nil}] : "Command" \in s.enabled <=> s.command # Nil}
Manual == [kind |-> "manual"]
Polls == [cmd : Commands, ok : BOOLEAN]

ASSUME ScheduleAssumption ==
    /\ DayLen \in Nat \ {0}
    /\ Grace \in 1 .. DayLen /\ OneshotWindow \in Nat
    /\ FirstDay \in Nat \ {0} /\ LastDay \in Nat
    /\ Nil \notin Times /\ Nil \notin Clocks /\ Nil \notin Commands
    /\ Nil \notin Schedules /\ Nil \notin Polls
    /\ Commands \cap Kinds = {}
    /\ Manual \in Schedules
    /\ Schedules \subseteq {Manual} \cup Daily \cup Once \cup Condition
    /\ Available \subseteq Kinds

VARIABLES
    clock,      (* Local::now()                                                *)
    world,      (* the conditions that hold, the commands that would exit 0    *)
    sched,      (* the queue's schedule, in AppState::queues                   *)
    on, by,     (* whether the queue's run is on, and who started it           *)
    last,       (* last_active of the queue                                    *)
    poll,       (* its CmdPoll                                                 *)
    tick,       (* the scheduler's task                                        *)
    added,      (* queue_took_a_job, when it has found the queue at rest       *)
    spend,      (* spend_one_off_schedule: its copy of the schedule            *)
    dismissed   (* history: the user stopped the run of the present verdict    *)

vars == <<clock, world, sched, on, by, last, poll, tick, added, spend, dismissed>>

Resting == [pc |-> "sleep", snap |-> Manual, read |-> {}]
NoneAdded == [pc |-> "sleep", snap |-> Manual]

TypeOK ==
    /\ clock \in Clocks /\ clock.day >= FirstDay
    /\ world \subseteq Kinds \cup Commands
    /\ sched \in Schedules
    /\ on \in BOOLEAN /\ by \in {"nobody", "tick", "user", "added", "edited"}
    /\ last \in BOOLEAN
    /\ poll \in Polls \cup {Nil}
    /\ tick \in [pc : {"sleep", "probe", "poll", "decide", "start", "ask", "stop"},
                 snap : Schedules, read : SUBSET Kinds]
    /\ added \in [pc : {"sleep", "read", "probe", "start"}, snap : Schedules]
    /\ spend \in Schedules \cup {Nil}
    /\ dismissed \in BOOLEAN

Init ==
    /\ clock = [day |-> FirstDay, time |-> 0]
    /\ world \in SUBSET (Commands \cup (Available \ {"JobAdded", "Command"}))
    /\ sched \in Schedules
    /\ on = FALSE /\ by = "nobody"
    /\ last = FALSE /\ poll = Nil
    /\ tick = Resting /\ added = NoneAdded /\ spend = Nil
    /\ dismissed = FALSE

-------------------------------------------------------------------------------
(* Verdicts.                                                                   *)

(* Moments from the occurrence of day d (today or yesterday) to now.           *)
SinceOccurrence(s, d, now) == (IF d = now.day THEN 0 ELSE DayLen) + now.time - s.start

RunLength(s) ==
    IF s.stop = Nil THEN Grace
    ELSE IF s.stop > s.start THEN s.stop - s.start ELSE s.stop - s.start + DayLen

DailyDue_TodayOnly(s, now) ==
    \E d \in {now.day} :
       /\ d % 7 \in s.days
       /\ SinceOccurrence(s, d, now) \in 0 .. RunLength(s) - 1

(* daily_due: an occurrence of today, or of yesterday reaching past midnight.  *)
DailyDue(s, now) ==
    \E d \in {now.day - 1, now.day} :
       /\ d % 7 \in s.days
       /\ SinceOccurrence(s, d, now) \in 0 .. RunLength(s) - 1

Moment(c) == c.day * DayLen + c.time
NotBefore(now, c) == Moment(now) >= Moment(c)

OnceDue(s, now, running) ==
    /\ NotBefore(now, s.start)
    /\ IF s.stop = Nil THEN running \/ Moment(now) < Moment(s.start) + OneshotWindow
                       ELSE ~NotBefore(now, s.stop)

(* CondSet::holds, over the conditions this host can answer.                   *)
Holds(s, met) ==
    LET enabled == s.enabled \cap Available IN
    /\ enabled # {}
    /\ IF s.all THEN enabled \subseteq met ELSE enabled \cap met # {}

(* verdict: a moment that has passed counts as met for a queue that is running.*)
Verdict(s, now, read, running) ==
    \/ s.kind = "daily" /\ ((running /\ s.stop = Nil) \/ DailyDue(s, now))
    \/ s.kind = "once" /\ OnceDue(s, now, running)
    \/ s.kind = "condition" /\ Holds(s, IF running THEN read \cup {"JobAdded"} ELSE read)

ShouldRun(s, now, read) == Verdict(s, now, read, FALSE)
MayContinue(s, now, read) == Verdict(s, now, read, TRUE)

WithinWindow(s, now) == s.kind \in {"daily", "once"} /\ ShouldRun(s, now, {})

(* spent_by_run.                                                               *)
SpentByRun(s, now) == s.kind = "once" /\ NotBefore(now, s.start)

-------------------------------------------------------------------------------
(* What start_queue and stop_queue come to here.  A start may start nothing (a *)
(* full disk, nothing in the list); a run that is on stays whose it was.       *)

StartQueue(who) ==
    \/ on' = TRUE /\ by' = IF on THEN by ELSE who
    \/ UNCHANGED <<on, by>>

StopQueue == on' = FALSE /\ by' = "nobody"

(* The conditions read by conditions::probe: one that cannot be read now does  *)
(* not hold.                                                                   *)
Probed(s) ==
    IF s.kind = "condition" THEN SUBSET (world \cap s.enabled \cap Available) ELSE {{}}

HasCommand(s) == s.kind = "condition" /\ s.command # Nil

-------------------------------------------------------------------------------
(* The tick.                                                                   *)

TickSnapshot ==
    /\ tick.pc = "sleep"
    /\ tick' = [Resting EXCEPT !.pc = "probe", !.snap = sched]
    /\ UNCHANGED <<clock, world, sched, on, by, last, poll, added, spend, dismissed>>

TickProbe ==
    /\ tick.pc = "probe"
    /\ \E r \in Probed(tick.snap) : tick' = [tick EXCEPT !.pc = "poll", !.read = r]
    /\ UNCHANGED <<clock, world, sched, on, by, last, poll, added, spend, dismissed>>

Fresh_AnyCommand(cmd) == poll # Nil

(* A verdict may still be fresh only if it is of the command now configured.   *)
Fresh(cmd) == poll # Nil /\ poll.cmd = cmd

(* poll_due_commands: its interval may or may not have elapsed.                *)
TickPoll ==
    LET cmd == tick.snap.command IN
    /\ tick.pc = "poll"
    /\ IF HasCommand(tick.snap) /\ "Command" \in Available
       THEN \/ poll' = [cmd |-> cmd, ok |-> cmd \in world]
            \/ Fresh(cmd) /\ UNCHANGED poll
       ELSE UNCHANGED poll
    /\ tick' = [tick EXCEPT !.pc = "decide"]
    /\ UNCHANGED <<clock, world, sched, on, by, last, added, spend, dismissed>>

Reading == tick.read \cup IF poll # Nil /\ poll.ok THEN {"Command"} ELSE {}

TickDecide_ByRun ==
    LET active == ShouldRun(tick.snap, clock, Reading)
        to == IF active /\ ~on THEN "start"
              ELSE IF MayContinue(tick.snap, clock, Reading) THEN "sleep" ELSE "ask"
    IN
    /\ tick.pc = "decide"
    /\ tick' = IF to = "sleep" THEN Resting ELSE [tick EXCEPT !.pc = to, !.read = Reading]
    /\ last' = IF to = "sleep" THEN active ELSE last
    /\ dismissed' = (dismissed /\ active)
    /\ UNCHANGED <<clock, world, sched, on, by, poll, added, spend>>

(* The edge: what the tick knew against what it sees.                          *)
TickDecide ==
    LET active == ShouldRun(tick.snap, clock, Reading)
        to == IF active /\ ~last THEN "start"
              ELSE IF MayContinue(tick.snap, clock, Reading) THEN "sleep" ELSE "ask"
    IN
    /\ tick.pc = "decide"
    /\ tick' = IF to = "sleep" THEN Resting ELSE [tick EXCEPT !.pc = to, !.read = Reading]
    /\ last' = IF to = "sleep" THEN active ELSE last
    /\ dismissed' = (dismissed /\ active)
    /\ UNCHANGED <<clock, world, sched, on, by, poll, added, spend>>

(* The verdict is remembered whether or not the queue could be started.        *)
TickStart ==
    /\ tick.pc = "start"
    /\ StartQueue("tick")
    /\ last' = TRUE
    /\ tick' = Resting
    /\ UNCHANGED <<clock, world, sched, poll, added, spend, dismissed>>

TickAsk_TriggerOnly ==
    LET byTrigger == tick.snap.kind = "condition" /\ "JobAdded" \in tick.snap.enabled /\ on IN
    /\ tick.pc = "ask"
    /\ IF byTrigger
       THEN tick' = [tick EXCEPT !.pc = "stop"] /\ UNCHANGED last
       ELSE tick' = Resting /\ last' = FALSE
    /\ dismissed' = (dismissed /\ last')
    /\ UNCHANGED <<clock, world, sched, on, by, poll, added, spend>>

(* by_trigger.                                                                 *)
TickAsk ==
    LET byTrigger == tick.snap.kind = "condition" /\ "JobAdded" \in tick.snap.enabled /\ on IN
    /\ tick.pc = "ask"
    /\ IF last \/ byTrigger
       THEN tick' = [tick EXCEPT !.pc = "stop"] /\ UNCHANGED last
       ELSE tick' = Resting /\ last' = FALSE
    /\ dismissed' = (dismissed /\ last')
    /\ UNCHANGED <<clock, world, sched, on, by, poll, added, spend>>

TickStop ==
    /\ tick.pc = "stop"
    /\ StopQueue
    /\ last' = FALSE /\ dismissed' = FALSE
    /\ tick' = Resting
    /\ UNCHANGED <<clock, world, sched, poll, added, spend>>

Tick ==
    TickSnapshot \/ TickProbe \/ TickPoll \/ TickDecide \/ TickStart \/ TickAsk \/ TickStop

-------------------------------------------------------------------------------
(* queue_took_a_job.  A queue that is running takes the job like any other.    *)

AddJob ==
    /\ added.pc = "sleep" /\ ~on
    /\ added' = [NoneAdded EXCEPT !.pc = "read"]
    /\ UNCHANGED <<clock, world, sched, on, by, last, poll, tick, spend, dismissed>>

AddedReads ==
    /\ added.pc = "read"
    /\ added' =
         IF WithinWindow(sched, clock) THEN [added EXCEPT !.pc = "start"]
         ELSE IF sched.kind = "condition" /\ "JobAdded" \in sched.enabled
              THEN [added EXCEPT !.pc = "probe", !.snap = sched]
              ELSE NoneAdded
    /\ UNCHANGED <<clock, world, sched, on, by, last, poll, tick, spend, dismissed>>

(* The gate is read now, not off the last tick.                                *)
AddedProbes ==
    LET s == added.snap
        ok == IF HasCommand(s) /\ s.command \in world THEN {"Command"} ELSE {}
    IN
    /\ added.pc = "probe"
    /\ \E r \in Probed(s) :
         added' = IF Holds(s, r \cup ok \cup {"JobAdded"})
                  THEN [NoneAdded EXCEPT !.pc = "start"] ELSE NoneAdded
    /\ UNCHANGED <<clock, world, sched, on, by, last, poll, tick, spend, dismissed>>

AddedStarts ==
    /\ added.pc = "start"
    /\ StartQueue("added")
    /\ added' = NoneAdded
    /\ dismissed' = (dismissed /\ ~on')
    /\ UNCHANGED <<clock, world, sched, last, poll, tick, spend>>

-------------------------------------------------------------------------------
(* Users, the end of a run, the clock and the machine.                         *)

UserStart ==
    /\ StartQueue("user")
    /\ dismissed' = (dismissed /\ ~on')
    /\ UNCHANGED <<clock, world, sched, last, poll, tick, added, spend>>

UserStop ==
    /\ on
    /\ StopQueue
    /\ dismissed' = (dismissed \/ last)
    /\ UNCHANGED <<clock, world, sched, last, poll, tick, added, spend>>

(* upsert_queue with another schedule.                                         *)
Edited(s) ==
    /\ sched' = s
    /\ by' = IF on THEN "edited" ELSE by
    /\ dismissed' = FALSE

UserEdit(s) ==
    /\ s # sched
    /\ Edited(s)
    /\ UNCHANGED <<clock, world, on, last, poll, tick, added, spend>>

(* maybe_finish_queue: the run is over; spend_one_off_schedule reads the queue.*)
RunEnds ==
    /\ on /\ spend = Nil
    /\ on' = FALSE /\ by' = "nobody"
    /\ spend' = IF SpentByRun(sched, clock) THEN sched ELSE Nil
    /\ UNCHANGED <<clock, world, sched, last, poll, tick, added, dismissed>>

(* ... and writes it back, on Manual.                                          *)
SpendWrites ==
    /\ spend # Nil
    /\ Edited(Manual)
    /\ spend' = Nil
    /\ UNCHANGED <<clock, world, on, last, poll, tick, added>>

ClockMoves ==
    /\ clock.day < LastDay \/ clock.time < DayLen - 1
    /\ clock' = IF clock.time < DayLen - 1 THEN [clock EXCEPT !.time = @ + 1]
                ELSE [day |-> clock.day + 1, time |-> 0]
    /\ UNCHANGED <<world, sched, on, by, last, poll, tick, added, spend, dismissed>>

WorldChanges(k) ==
    /\ world' = IF k \in world THEN world \ {k} ELSE world \cup {k}
    /\ UNCHANGED <<clock, sched, on, by, last, poll, tick, added, spend, dismissed>>

Next ==
    \/ Tick
    \/ AddJob \/ AddedReads \/ AddedProbes \/ AddedStarts
    \/ UserStart \/ UserStop \/ \E s \in Schedules : UserEdit(s)
    \/ RunEnds \/ SpendWrites
    \/ ClockMoves
    \/ \E k \in Commands \cup (Available \ {"JobAdded", "Command"}) : WorldChanges(k)

Spec == Init /\ [][Next]_vars

-------------------------------------------------------------------------------
(* Properties.                                                                 *)

(* What a recurring schedule means: "an occurrence belongs to the day it starts*)
(* on and lasts until its stop time", which is the next time the clock shows   *)
(* it; without one it lasts a grace.  Here for any day ever.                   *)
Earlier(c, d) == c.day < d.day \/ (c.day = d.day /\ c.time < d.time)

StopOf(s, d) == [day |-> IF s.stop > s.start THEN d ELSE d + 1, time |-> s.stop]

GraceEnd(s, d) ==
    IF s.start + Grace < DayLen THEN [day |-> d, time |-> s.start + Grace]
    ELSE [day |-> d + 1, time |-> s.start + Grace - DayLen]

InOccurrence(s, d, now) ==
    /\ d % 7 \in s.days
    /\ ~Earlier(now, [day |-> d, time |-> s.start])
    /\ Earlier(now, IF s.stop = Nil THEN GraceEnd(s, d) ELSE StopOf(s, d))

(* daily_due, which looks at two days only, answers what the schedule means.   *)
DueIsTheWindow ==
    \A s \in Schedules \cap Daily :
       DailyDue(s, clock) <=> \E d \in 0 .. clock.day : InOccurrence(s, d, clock)

(* The conditions of s, its trigger left out, no longer let a run go on.       *)
Lapsed(s, read) ==
    LET states == (s.enabled \cap Available) \ {"JobAdded"} IN
    /\ s.kind = "condition" /\ states # {}
    /\ IF s.all THEN ~(states \subseteq read) ELSE states \cap read = {}

(* Nothing may stand in for a trigger, which counts as met once a run is on.   *)
NoLooseTrigger ==
    \A s \in Schedules :
       s.kind = "condition" /\ ~s.all => "JobAdded" \notin s.enabled \cap Available

(* "Every condition is symmetric": a run the tick started under the present    *)
(* schedule does not go on past a tick that saw its conditions lapse.          *)
LapseStops ==
    [][(tick.pc # "sleep" /\ tick'.pc = "sleep" /\ Lapsed(tick.snap, Reading))
       => ~(on' /\ by' = "tick")]_vars

(* A decision rests on the verdict of the command that is configured, not of   *)
(* one it replaced.                                                            *)
VerdictIsOfItsCommand ==
    tick.pc = "decide" /\ HasCommand(tick.snap) /\ "Command" \in Available
    => poll # Nil /\ poll.cmd = tick.snap.command

(* A run the user stopped is not put back by the tick as long as the schedule  *)
(* has said "run" all along: transitions are edges of the verdict.             *)
UserStopHolds ==
    [][tick.pc = "start" /\ tick'.pc = "sleep" => ~dismissed]_vars

(* "A queue the user started by hand is never stopped from here."              *)
ByHandIsSpared ==
    [][tick.pc = "stop" /\ tick'.pc = "sleep" => by # "user"]_vars

(* "A one-off whose time has not come is untouched" by the end of a run.       *)
FutureIsUntouched ==
    [][spend # Nil /\ spend' = Nil => SpentByRun(sched, clock)]_vars
===============================================================================
