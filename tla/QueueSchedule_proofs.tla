------------------------- MODULE QueueSchedule_proofs -------------------------
(* Theorems about data/queue_scheduler.rs for days of any length, any set of   *)
(* schedules and commands, and any machine.                                    *)
EXTENDS QueueSchedule, TLAPS

(* daily_due agrees with what a recurring schedule means, at any moment.       *)
LEMMA DailyDueCorrect ==
  ASSUME NEW s \in Daily, NEW now \in Clocks, now.day >= 1
  PROVE  DailyDue(s, now) <=> \E d \in 0 .. now.day : InOccurrence(s, d, now)
<1> DEFINE Past(d) == IF d = now.day THEN 0 ELSE DayLen
<1>0. /\ DayLen \in Nat \ {0} /\ Grace \in 1 .. DayLen /\ Nil \notin Times
      /\ now.day \in Nat /\ now.time \in Times
      /\ s.start \in Times /\ s.stop \in Times \cup {Nil}
  BY ScheduleAssumption DEF Daily, Clocks
<1>1. ASSUME NEW d \in {now.day - 1, now.day}
      PROVE  SinceOccurrence(s, d, now) \in 0 .. RunLength(s) - 1
             <=> /\ ~Earlier(now, [day |-> d, time |-> s.start])
                 /\ Earlier(now, IF s.stop = Nil THEN GraceEnd(s, d) ELSE StopOf(s, d))
  <2>1. CASE s.stop = Nil
    BY <1>0, <2>1 DEF SinceOccurrence, RunLength, Earlier, GraceEnd, Times
  <2>2. CASE s.stop # Nil /\ s.stop > s.start
    BY <1>0, <2>2 DEF SinceOccurrence, RunLength, Earlier, StopOf, Times
  <2>3. CASE s.stop # Nil /\ ~(s.stop > s.start)
    BY <1>0, <2>3 DEF SinceOccurrence, RunLength, Earlier, StopOf, Times
  <2> QED
    BY <2>1, <2>2, <2>3
<1>2. ASSUME NEW d \in 0 .. now.day, InOccurrence(s, d, now)
      PROVE  d \in {now.day - 1, now.day}
  <2>1. CASE s.stop = Nil
    BY <1>0, <1>2, <2>1 DEF InOccurrence, Earlier, GraceEnd, Times
  <2>2. CASE s.stop # Nil
    BY <1>0, <1>2, <2>2 DEF InOccurrence, Earlier, StopOf, Times
  <2> QED
    BY <2>1, <2>2
<1>3. {now.day - 1, now.day} \subseteq 0 .. now.day
  BY <1>0
<1> QED
  BY <1>1, <1>2, <1>3 DEF DailyDue, InOccurrence

-------------------------------------------------------------------------------
(* What the scheduler remembers of a run it started.                           *)

Stoppable(s) == s.kind = "condition" /\ "JobAdded" \notin s.enabled

(* While the schedule is the one the run was started under, the tick's copy is *)
(* the present one, and the last verdict still says the run is the tick's.     *)
RunIsRemembered ==
    on /\ by = "tick" => /\ tick.pc # "sleep" => tick.snap = sched
                         /\ Stoppable(sched) => last

(* What a tick that goes on to start or to stop has seen.                      *)
Edge ==
    /\ tick.pc = "start" => ~last /\ ~Lapsed(tick.snap, Reading)
    /\ dismissed => last
    /\ "JobAdded" \notin world \cup tick.read

IInv == TypeOK /\ VerdictIsOfItsCommand /\ RunIsRemembered /\ Edge

LEMMA CommandKnown ==
  ASSUME NEW s \in Schedules, HasCommand(s) PROVE s.command \in Commands
<1>1. s \in Condition
  BY ScheduleAssumption DEF HasCommand, Daily, Once, Manual
<1> QED
  BY <1>1 DEF HasCommand, Condition

LEMMA StartedBy ==
  ASSUME NEW who \in {"tick", "user", "added"}, TypeOK, StartQueue(who)
  PROVE  on' \in BOOLEAN /\ by' \in {"nobody", "tick", "user", "added", "edited"}
<1>1. CASE on' = TRUE /\ by' = IF on THEN by ELSE who
  <2>1. on' \in BOOLEAN
    BY <1>1, Zenon
  <2>2. by' \in {by, who}
    BY <1>1, Zenon
  <2> QED
    BY <2>1, <2>2 DEF TypeOK
<1>2. CASE UNCHANGED <<on, by>>
  BY <1>2 DEF TypeOK
<1> QED
  BY <1>1, <1>2 DEF StartQueue

LEMMA TypeInit == Init => TypeOK
<1> SUFFICES ASSUME Init PROVE TypeOK
  OBVIOUS
<1>1. clock \in Clocks /\ clock.day >= FirstDay
  BY ScheduleAssumption DEF Init, Clocks, Times
<1>2. world \subseteq Kinds \cup Commands
  BY ScheduleAssumption DEF Init
<1>3. tick \in [pc : {"sleep", "probe", "poll", "decide", "start", "ask", "stop"},
               snap : Schedules, read : SUBSET Kinds]
  BY ScheduleAssumption DEF Init, Resting
<1>4. added \in [pc : {"sleep", "read", "probe", "start"}, snap : Schedules]
  BY ScheduleAssumption DEF Init, NoneAdded
<1> QED
  BY <1>1, <1>2, <1>3, <1>4 DEF Init, TypeOK

LEMMA TypeStep == TypeOK /\ [Next]_vars => TypeOK'
<1> SUFFICES ASSUME TypeOK, [Next]_vars PROVE TypeOK'
  OBVIOUS
<1>a. Manual \in Schedules /\ Available \subseteq Kinds
  BY ScheduleAssumption
<1> USE <1>a DEF TypeOK, Resting, NoneAdded
<1>1. CASE TickSnapshot
  BY <1>1 DEF TickSnapshot
<1>2. CASE TickProbe
  <2>1. PICK r \in Probed(tick.snap) : tick' = [tick EXCEPT !.pc = "poll", !.read = r]
    BY <1>2 DEF TickProbe
  <2>2. r \subseteq Kinds
    BY <2>1 DEF Probed
  <2>3. tick' \in [pc : {"poll"}, snap : Schedules, read : SUBSET Kinds]
    BY <2>1, <2>2
  <2> QED
    BY <1>2, <2>3 DEF TickProbe
<1>3. CASE TickPoll
  <2>1. poll' \in Polls \cup {Nil}
    <3>1. CASE UNCHANGED poll
      BY <3>1
    <3>2. CASE HasCommand(tick.snap)
               /\ poll' = [cmd |-> tick.snap.command, ok |-> tick.snap.command \in world]
      <4>1. tick.snap.command \in Commands
        BY <3>2, CommandKnown
      <4>2. (tick.snap.command \in world) \in BOOLEAN
        OBVIOUS
      <4> QED
        BY <3>2, <4>1, <4>2, Zenon DEF Polls
    <3> QED
      BY <1>3, <3>1, <3>2 DEF TickPoll
  <2>2. tick' \in [pc : {"decide"}, snap : Schedules, read : SUBSET Kinds]
    BY <1>3 DEF TickPoll
  <2> QED
    BY <1>3, <2>1, <2>2 DEF TickPoll
<1>4. CASE TickDecide
  <2>1. Reading \subseteq Kinds
    BY DEF Reading, Kinds
  <2> DEFINE active == ShouldRun(tick.snap, clock, Reading)
             to == IF active /\ ~last THEN "start"
                   ELSE IF MayContinue(tick.snap, clock, Reading) THEN "sleep" ELSE "ask"
  <2>2. active \in BOOLEAN
    BY DEF ShouldRun, Verdict
  <2>3. to \in {"start", "sleep", "ask"}
    OBVIOUS
  <2>4. /\ tick' = IF to = "sleep" THEN Resting ELSE [tick EXCEPT !.pc = to, !.read = Reading]
        /\ last' = IF to = "sleep" THEN active ELSE last
        /\ dismissed' = (dismissed /\ active)
        /\ UNCHANGED <<clock, world, sched, on, by, poll, added, spend>>
    BY <1>4 DEF TickDecide
  <2> HIDE DEF active, to
  <2>5. dismissed' \in BOOLEAN /\ last' \in BOOLEAN
    BY <2>2, <2>4, Zenon
  <2>6. tick' \in [pc : {"start", "sleep", "ask"}, snap : Schedules, read : SUBSET Kinds]
    BY <2>1, <2>3, <2>4
  <2> QED
    BY <2>4, <2>5, <2>6
<1>5. CASE TickStart
  BY <1>5, StartedBy DEF TickStart
<1>6. CASE TickAsk
  <2>1. dismissed' \in BOOLEAN /\ last' \in BOOLEAN
    BY <1>6, Zenon DEF TickAsk
  <2>2. tick' \in [pc : {"stop", "sleep"}, snap : Schedules, read : SUBSET Kinds]
    <3>1. tick' = [tick EXCEPT !.pc = "stop"] \/ tick' = Resting
      BY <1>6 DEF TickAsk
    <3> QED
      BY <3>1
  <2> QED
    BY <1>6, <2>1, <2>2 DEF TickAsk
<1>7. CASE TickStop
  BY <1>7 DEF TickStop, StopQueue
<1>8. CASE AddJob
  BY <1>8 DEF AddJob
<1>9. CASE AddedReads
  BY <1>9 DEF AddedReads
<1>10. CASE AddedProbes
  BY <1>10 DEF AddedProbes
<1>11. CASE AddedStarts
  BY <1>11, StartedBy DEF AddedStarts
<1>12. CASE UserStart
  BY <1>12, StartedBy DEF UserStart
<1>13. CASE UserStop
  BY <1>13 DEF UserStop, StopQueue
<1>14. ASSUME NEW s \in Schedules, UserEdit(s) PROVE TypeOK'
  BY <1>14 DEF UserEdit, Edited
<1>15. CASE RunEnds
  BY <1>15 DEF RunEnds
<1>16. CASE SpendWrites
  BY <1>16 DEF SpendWrites, Edited
<1>17. CASE ClockMoves
  BY <1>17, ScheduleAssumption DEF ClockMoves, Clocks, Times
<1>18. ASSUME NEW k \in Commands \cup (Available \ {"JobAdded", "Command"}), WorldChanges(k)
       PROVE  TypeOK'
  BY <1>18 DEF WorldChanges
<1>19. CASE UNCHANGED vars
  BY <1>19 DEF vars
<1> QED
  BY <1>1, <1>2, <1>3, <1>4, <1>5, <1>6, <1>7, <1>8, <1>9, <1>10, <1>11, <1>12, <1>13, <1>14,
     <1>15, <1>16, <1>17, <1>18, <1>19 DEF Next, Tick

(* A schedule that should run has not lapsed; one that lapsed may not go on,   *)
(* and one without a trigger is read the same by a queue at rest and a running *)
(* one.                                                                        *)
LEMMA RunsMeansNotLapsed ==
  ASSUME NEW s, NEW now, NEW read, "JobAdded" \notin read, ShouldRun(s, now, read)
  PROVE  ~Lapsed(s, read)
<1> SUFFICES ASSUME s.kind = "condition" PROVE ~Lapsed(s, read)
  BY DEF Lapsed
<1>1. Holds(s, read)
  BY DEF ShouldRun, Verdict
<1> QED
  BY <1>1 DEF Holds, Lapsed

LEMMA LapsedMayNotGoOn ==
  ASSUME NoLooseTrigger, NEW s \in Schedules, NEW now, NEW read, Lapsed(s, read)
  PROVE  ~MayContinue(s, now, read)
<1>1. s.kind = "condition" /\ (s.all \/ "JobAdded" \notin s.enabled \cap Available)
  BY DEF NoLooseTrigger, Lapsed
<1>2. ~Holds(s, read \cup {"JobAdded"})
  BY <1>1 DEF Holds, Lapsed
<1> QED
  BY <1>1, <1>2 DEF MayContinue, Verdict

LEMMA WithoutTrigger ==
  ASSUME NEW s, NEW now, NEW read, Stoppable(s)
  PROVE  MayContinue(s, now, read) => ShouldRun(s, now, read)
<1>1. Holds(s, read \cup {"JobAdded"}) => Holds(s, read)
  BY DEF Holds, Stoppable
<1> QED
  BY <1>1 DEF MayContinue, ShouldRun, Verdict, Stoppable

LEMMA EdgeStep == IInv /\ [Next]_vars => Edge'
<1> SUFFICES ASSUME IInv, [Next]_vars PROVE Edge'
  OBVIOUS
<1> USE DEF IInv, Edge
<1>a. tick \in [pc : {"sleep", "probe", "poll", "decide", "start", "ask", "stop"},
                snap : Schedules, read : SUBSET Kinds]
  BY DEF TypeOK
<1>b. "JobAdded" \notin Reading
  BY DEF Reading
<1>c. "JobAdded" \notin Commands
  BY ScheduleAssumption DEF Kinds
<1>1. CASE TickSnapshot
  BY <1>a, <1>1 DEF TickSnapshot, Resting
<1>2. CASE TickProbe
  <2>1. PICK r \in Probed(tick.snap) : tick' = [tick EXCEPT !.pc = "poll", !.read = r]
    BY <1>2 DEF TickProbe
  <2>2. "JobAdded" \notin r
    BY <2>1 DEF Probed
  <2>3. tick'.pc = "poll" /\ tick'.read = r
    BY <1>a, <2>1
  <2> QED
    BY <1>2, <2>2, <2>3 DEF TickProbe
<1>3. CASE TickPoll
  <2>1. tick'.pc = "decide" /\ tick'.read = tick.read
    BY <1>a, <1>3 DEF TickPoll
  <2> QED
    BY <1>3, <2>1 DEF TickPoll
<1>4. CASE TickDecide
  <2> DEFINE active == ShouldRun(tick.snap, clock, Reading)
             to == IF active /\ ~last THEN "start"
                   ELSE IF MayContinue(tick.snap, clock, Reading) THEN "sleep" ELSE "ask"
  <2>1. /\ tick' = IF to = "sleep" THEN Resting ELSE [tick EXCEPT !.pc = to, !.read = Reading]
        /\ last' = IF to = "sleep" THEN active ELSE last
        /\ dismissed' = (dismissed /\ active)
        /\ UNCHANGED <<world, poll>>
    BY <1>4 DEF TickDecide
  <2>2. CASE to = "sleep"
    <3>1. tick' = Resting /\ last' = active
      BY <2>1, <2>2
    <3>2. dismissed' => last'
      BY <2>1, <3>1, Zenon
    <3>3. tick'.pc = "sleep" /\ tick'.read = {}
      BY <3>1 DEF Resting
    <3> QED
      BY <2>1, <3>2, <3>3
  <2>3. CASE to # "sleep"
    <3>1. tick' = [tick EXCEPT !.pc = to, !.read = Reading] /\ last' = last
      BY <2>1, <2>3
    <3>2. tick'.pc = to /\ tick'.read = Reading /\ tick'.snap = tick.snap
      BY <1>a, <3>1
    <3>3. Reading' = Reading
      BY <2>1, <3>2 DEF Reading
    <3>4. to = "start" => active /\ ~last
      OBVIOUS
    <3>5. active => ~Lapsed(tick.snap, Reading)
      BY <1>b, RunsMeansNotLapsed
    <3>6. (tick.pc = "start")' => ~last' /\ ~Lapsed(tick.snap', Reading')
      BY <3>1, <3>2, <3>3, <3>4, <3>5
    <3>7. "JobAdded" \notin world' \cup tick'.read
      BY <1>b, <2>1, <3>2
    <3>8. dismissed' => last'
      <4>1. dismissed' = (dismissed /\ active)
        BY <1>4 DEF TickDecide
      <4>2. dismissed' => dismissed
        BY <4>1, Zenon
      <4>3. last => last'
        <5>1. last' = last
          BY <3>1
        <5> QED
          BY <5>1, Zenon
      <4> QED
        BY <4>2, <4>3
    <3> QED
      BY <3>6, <3>7, <3>8 DEF Lapsed
  <2> QED
    BY <2>2, <2>3
<1>5. CASE TickStart
  BY <1>5 DEF TickStart, Resting
<1>6. CASE TickAsk
  <2>1. tick' = Resting \/ tick' = [tick EXCEPT !.pc = "stop"]
    BY <1>6 DEF TickAsk
  <2>2. tick'.pc # "start" /\ "JobAdded" \notin tick'.read
    BY <1>a, <2>1 DEF Resting
  <2>3. dismissed' => last'
    BY <1>6 DEF TickAsk
  <2> QED
    BY <1>6, <2>2, <2>3 DEF TickAsk
<1>7. CASE TickStop
  BY <1>7 DEF TickStop, Resting
<1>d. ASSUME UNCHANGED <<tick, last, poll, world>>, dismissed' => dismissed \/ last'
      PROVE  Edge'
  BY <1>d DEF Reading
<1>8. CASE AddJob
  BY <1>8, <1>d DEF AddJob
<1>9. CASE AddedReads
  BY <1>9, <1>d DEF AddedReads
<1>10. CASE AddedProbes
  BY <1>10, <1>d DEF AddedProbes
<1>11. CASE AddedStarts
  BY <1>11, <1>d DEF AddedStarts
<1>12. CASE UserStart
  BY <1>12, <1>d DEF UserStart
<1>13. CASE UserStop
  BY <1>13, <1>d DEF UserStop
<1>14. ASSUME NEW s \in Schedules, UserEdit(s) PROVE Edge'
  BY <1>14, <1>d DEF UserEdit, Edited
<1>15. CASE RunEnds
  BY <1>15, <1>d DEF RunEnds
<1>16. CASE SpendWrites
  BY <1>16, <1>d DEF SpendWrites, Edited
<1>17. CASE ClockMoves
  BY <1>17, <1>d DEF ClockMoves
<1>18. ASSUME NEW k \in Commands \cup (Available \ {"JobAdded", "Command"}), WorldChanges(k)
       PROVE  Edge'
  BY <1>18, <1>c DEF WorldChanges, Reading
<1>19. CASE UNCHANGED vars
  BY <1>19, <1>d DEF vars
<1> QED
  BY <1>1, <1>2, <1>3, <1>4, <1>5, <1>6, <1>7, <1>8, <1>9, <1>10, <1>11, <1>12, <1>13, <1>14,
     <1>15, <1>16, <1>17, <1>18, <1>19 DEF Next, Tick

LEMMA VerdictStep == IInv /\ [Next]_vars => VerdictIsOfItsCommand'
<1> SUFFICES ASSUME IInv, [Next]_vars PROVE VerdictIsOfItsCommand'
  OBVIOUS
<1> USE DEF IInv, VerdictIsOfItsCommand
<1>a. tick \in [pc : {"sleep", "probe", "poll", "decide", "start", "ask", "stop"},
                snap : Schedules, read : SUBSET Kinds]
  BY DEF TypeOK
<1>1. CASE TickPoll
  <2>1. tick'.pc = "decide" /\ tick'.snap = tick.snap
    BY <1>a, <1>1 DEF TickPoll
  <2>2. ASSUME HasCommand(tick.snap), "Command" \in Available
        PROVE  poll' # Nil /\ poll'.cmd = tick.snap.command
    <3>1. CASE Fresh(tick.snap.command) /\ UNCHANGED poll
      BY <3>1 DEF Fresh
    <3>2. CASE poll' = [cmd |-> tick.snap.command, ok |-> tick.snap.command \in world]
      <4>1. poll' # Nil
        <5>1. tick.snap.command \in Commands
          BY <1>a, <2>2, CommandKnown
        <5>2. (tick.snap.command \in world) \in BOOLEAN
          OBVIOUS
        <5>3. poll' \in Polls
          BY <3>2, <5>1, <5>2, Zenon DEF Polls
        <5> QED
          BY <5>3, ScheduleAssumption
      <4> QED
        BY <3>2, <4>1
    <3> QED
      BY <1>1, <2>2, <3>1, <3>2 DEF TickPoll
  <2> QED
    BY <2>1, <2>2 DEF HasCommand
<1>2. CASE tick'.pc # "decide"
  BY <1>2
<1>3. CASE UNCHANGED <<tick, poll>>
  BY <1>3 DEF HasCommand
<1>4. ASSUME Tick, ~TickPoll PROVE tick'.pc # "decide"
  <2>1. CASE TickSnapshot
    BY <1>a, <2>1 DEF TickSnapshot, Resting
  <2>2. CASE TickProbe
    BY <1>a, <2>2 DEF TickProbe
  <2>3. CASE TickDecide
    <3> DEFINE to == IF ShouldRun(tick.snap, clock, Reading) /\ ~last THEN "start"
                     ELSE IF MayContinue(tick.snap, clock, Reading) THEN "sleep" ELSE "ask"
    <3>1. tick' = IF to = "sleep" THEN Resting ELSE [tick EXCEPT !.pc = to, !.read = Reading]
      BY <2>3 DEF TickDecide
    <3>2. to \in {"start", "sleep", "ask"}
      OBVIOUS
    <3> HIDE DEF to
    <3> QED
      BY <1>a, <3>1, <3>2 DEF Resting
  <2>4. CASE TickStart \/ TickStop
    BY <2>4 DEF TickStart, TickStop, Resting
  <2>5. CASE TickAsk
    BY <1>a, <2>5 DEF TickAsk, Resting
  <2> QED
    BY <1>4, <2>1, <2>2, <2>3, <2>4, <2>5 DEF Tick
<1>5. ASSUME ~Tick PROVE UNCHANGED <<tick, poll>>
  BY <1>5 DEF Next, vars, AddJob, AddedReads, AddedProbes, AddedStarts, UserStart, UserStop,
     UserEdit, RunEnds, SpendWrites, ClockMoves, WorldChanges
<1> QED
  BY <1>1, <1>2, <1>3, <1>4, <1>5

LEMMA RememberedStep == IInv /\ [Next]_vars => RunIsRemembered'
<1> SUFFICES ASSUME IInv, [Next]_vars PROVE RunIsRemembered'
  OBVIOUS
<1> USE DEF IInv, RunIsRemembered
<1>a. /\ on \in BOOLEAN /\ last \in BOOLEAN
      /\ tick \in [pc : {"sleep", "probe", "poll", "decide", "start", "ask", "stop"},
                   snap : Schedules, read : SUBSET Kinds]
  BY DEF TypeOK
<1>1. CASE TickSnapshot
  BY <1>a, <1>1 DEF TickSnapshot, Resting
<1>2. CASE TickProbe
  BY <1>a, <1>2 DEF TickProbe
<1>3. CASE TickPoll
  BY <1>a, <1>3 DEF TickPoll
<1>4. CASE TickDecide
  <2> DEFINE active == ShouldRun(tick.snap, clock, Reading)
             to == IF active /\ ~last THEN "start"
                   ELSE IF MayContinue(tick.snap, clock, Reading) THEN "sleep" ELSE "ask"
  <2>1. /\ tick.pc = "decide"
        /\ tick' = IF to = "sleep" THEN Resting ELSE [tick EXCEPT !.pc = to, !.read = Reading]
        /\ last' = IF to = "sleep" THEN active ELSE last
        /\ UNCHANGED <<on, by, sched>>
    BY <1>4 DEF TickDecide
  <2>2. CASE to = "sleep"
    <3>1. tick'.pc = "sleep" /\ last' = active
      BY <2>1, <2>2 DEF Resting
    <3>2. active \/ MayContinue(tick.snap, clock, Reading)
      BY <2>2
    <3>3. ASSUME on, by = "tick", Stoppable(sched) PROVE active
      BY <2>1, <3>2, <3>3, WithoutTrigger
    <3>4. ASSUME on, by = "tick", Stoppable(sched) PROVE last'
      <4> HIDE DEF active
      <4> QED
        BY <3>1, <3>3, <3>4, Zenon
    <3> QED
      BY <2>1, <3>1, <3>4 DEF Stoppable
  <2>3. CASE to # "sleep"
    <3>1. tick' = [tick EXCEPT !.pc = to, !.read = Reading] /\ last' = last
      BY <2>1, <2>3
    <3>2. tick'.snap = tick.snap
      BY <1>a, <3>1
    <3> QED
      BY <2>1, <3>1, <3>2 DEF Stoppable
  <2> QED
    BY <2>2, <2>3
<1>5. CASE TickStart
  BY <1>5 DEF TickStart, Resting
<1>6. CASE TickAsk
  <2>1. tick' = Resting \/ tick' = [tick EXCEPT !.pc = "stop"]
    BY <1>6 DEF TickAsk
  <2>2. tick.pc = "ask" /\ (tick'.pc # "sleep" => tick'.snap = tick.snap)
    BY <1>6, <1>a, <2>1 DEF TickAsk, Resting
  <2>3. last => last'
    BY <1>6, Zenon DEF TickAsk
  <2> QED
    BY <1>6, <2>2, <2>3 DEF TickAsk, Stoppable
<1>7. CASE TickStop
  BY <1>7 DEF TickStop, StopQueue
<1>8. CASE AddJob \/ AddedReads \/ AddedProbes
  BY <1>8 DEF AddJob, AddedReads, AddedProbes, Stoppable
<1>9. CASE AddedStarts \/ UserStart
  <2>1. on' /\ by' = "tick" => on /\ by = "tick"
    <3>1. PICK who \in {"added", "user"} : StartQueue(who)
      BY <1>9 DEF AddedStarts, UserStart
    <3>2. CASE on' = TRUE /\ by' = IF on THEN by ELSE who
      BY <3>2
    <3>3. CASE UNCHANGED <<on, by>>
      BY <3>3
    <3> QED
      BY <3>1, <3>2, <3>3 DEF StartQueue
  <2>2. UNCHANGED <<tick, sched, last>>
    BY <1>9 DEF AddedStarts, UserStart
  <2> QED
    BY <2>1, <2>2 DEF Stoppable
<1>10. CASE UserStop \/ RunEnds
  BY <1>10 DEF UserStop, RunEnds, StopQueue
<1>11. ASSUME NEW s \in Schedules, UserEdit(s) PROVE RunIsRemembered'
  BY <1>11, <1>a DEF UserEdit, Edited
<1>12. CASE SpendWrites
  BY <1>12, <1>a DEF SpendWrites, Edited
<1>13. CASE ClockMoves
  BY <1>13 DEF ClockMoves, Stoppable
<1>14. ASSUME NEW k \in Commands \cup (Available \ {"JobAdded", "Command"}), WorldChanges(k)
       PROVE  RunIsRemembered'
  BY <1>14 DEF WorldChanges, Stoppable
<1>15. CASE UNCHANGED vars
  BY <1>15 DEF vars, Stoppable
<1> QED
  BY <1>1, <1>2, <1>3, <1>4, <1>5, <1>6, <1>7, <1>8, <1>9, <1>10, <1>11, <1>12, <1>13, <1>14,
     <1>15 DEF Next, Tick

LEMMA InitIInv == Init => IInv
<1> SUFFICES ASSUME Init PROVE IInv
  OBVIOUS
<1>1. tick.pc = "sleep" /\ tick.read = {} /\ ~on /\ ~dismissed
  BY DEF Init, Resting
<1>2. "JobAdded" \notin world
  BY ScheduleAssumption DEF Init, Kinds
<1> QED
  BY <1>1, <1>2, TypeInit DEF IInv, VerdictIsOfItsCommand, RunIsRemembered, Edge

LEMMA StepIInv == IInv /\ [Next]_vars => IInv'
  BY TypeStep, VerdictStep, RememberedStep, EdgeStep DEF IInv

-------------------------------------------------------------------------------
(* The theorems.                                                               *)

(* Whatever users, jobs and the machine do, the scheduler's state keeps its    *)
(* types.                                                                      *)
THEOREM TypeCorrect == Spec => []TypeOK
<1>1. IInv => TypeOK
  BY DEF IInv
<1> QED
  BY InitIInv, StepIInv, <1>1, PTL DEF Spec

(* daily_due is right at every moment: looking at today and yesterday misses   *)
(* no occurrence and invents none.                                             *)
THEOREM WindowCorrect == Spec => []DueIsTheWindow
<1>1. IInv => DueIsTheWindow
  <2> SUFFICES ASSUME IInv, NEW s \in Schedules \cap Daily
               PROVE  DailyDue(s, clock)
                      <=> \E d \in 0 .. clock.day : InOccurrence(s, d, clock)
    BY DEF DueIsTheWindow
  <2>1. clock \in Clocks /\ clock.day >= 1
    BY ScheduleAssumption DEF IInv, TypeOK, Clocks
  <2> QED
    BY <2>1, DailyDueCorrect
<1> QED
  BY InitIInv, StepIInv, <1>1, PTL DEF Spec

(* No decision is made on the verdict of a command that has been replaced.     *)
THEOREM VerdictCorrect == Spec => []VerdictIsOfItsCommand
<1>1. IInv => VerdictIsOfItsCommand
  BY DEF IInv
<1> QED
  BY InitIInv, StepIInv, <1>1, PTL DEF Spec

(* The tick does not put back a run the user stopped while the schedule went   *)
(* on saying "run".                                                            *)
THEOREM StoppedStaysStopped == Spec => UserStopHolds
<1>1. IInv /\ [Next]_vars => [tick.pc = "start" /\ tick'.pc = "sleep" => ~dismissed]_vars
  BY DEF IInv, Edge
<1> QED
  BY InitIInv, StepIInv, <1>1, PTL DEF Spec, UserStopHolds

(* Where no trigger can stand in for the other conditions, a run the tick      *)
(* started does not go on past a tick that saw its conditions lapse, however   *)
(* users edit, start and stop the queue meanwhile.                             *)
THEOREM LapseStopsTheRun == NoLooseTrigger => (Spec => LapseStops)
<1> SUFFICES ASSUME NoLooseTrigger PROVE Spec => LapseStops
  OBVIOUS
<1>1. ASSUME IInv, [Next]_vars, tick.pc # "sleep", tick'.pc = "sleep",
             Lapsed(tick.snap, Reading)
      PROVE  ~(on' /\ by' = "tick")
  <2>a. tick \in [pc : {"sleep", "probe", "poll", "decide", "start", "ask", "stop"},
                  snap : Schedules, read : SUBSET Kinds]
    BY <1>1 DEF IInv, TypeOK
  <2>b. "JobAdded" \notin Reading
    BY <1>1 DEF IInv, Edge, Reading
  <2>1. CASE TickDecide
    <3> DEFINE to == IF ShouldRun(tick.snap, clock, Reading) /\ ~last THEN "start"
                     ELSE IF MayContinue(tick.snap, clock, Reading) THEN "sleep" ELSE "ask"
    <3>1. tick' = IF to = "sleep" THEN Resting ELSE [tick EXCEPT !.pc = to, !.read = Reading]
      BY <2>1 DEF TickDecide
    <3>2. to = "ask"
      BY <1>1, <2>a, <2>b, RunsMeansNotLapsed, LapsedMayNotGoOn
    <3> QED
      BY <1>1, <2>a, <3>1, <3>2
  <2>2. CASE TickStart
    BY <1>1, <2>2 DEF TickStart, IInv, Edge
  <2>3. CASE TickAsk
    <3>1. UNCHANGED <<on, by, sched>> /\ tick.pc = "ask"
      BY <2>3 DEF TickAsk
    <3>2. ~last /\ ~("JobAdded" \in tick.snap.enabled /\ on)
      BY <1>1, <2>a, <2>3 DEF TickAsk, Lapsed
    <3> QED
      BY <1>1, <3>1, <3>2 DEF IInv, RunIsRemembered, Stoppable, Lapsed
  <2>4. CASE TickStop
    BY <2>4 DEF TickStop, StopQueue
  <2>5. CASE ~(TickDecide \/ TickStart \/ TickAsk \/ TickStop)
    BY <1>1, <2>5, <2>a DEF Next, Tick, TickSnapshot, TickProbe, TickPoll, vars, AddJob, AddedReads,
       AddedProbes, AddedStarts, UserStart, UserStop, UserEdit, RunEnds, SpendWrites, ClockMoves,
       WorldChanges
  <2> QED
    BY <2>1, <2>2, <2>3, <2>4, <2>5
<1>2. IInv /\ [Next]_vars
      => [(tick.pc # "sleep" /\ tick'.pc = "sleep" /\ Lapsed(tick.snap, Reading))
          => ~(on' /\ by' = "tick")]_vars
  BY <1>1
<1> QED
  BY InitIInv, StepIInv, <1>2, PTL DEF Spec, LapseStops

===============================================================================
