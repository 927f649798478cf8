---------------------------- MODULE MCQueueSchedule ----------------------------
(* TLC instances of QueueSchedule: the schedules a user may set.               *)
EXTENDS QueueSchedule, TLC

CONSTANTS
    Cmds,
    AnyTrigger,  (* also a trigger that any other condition may stand in for   *)
    Booked       (* also a booking of the last day                             *)

Every(start, stop, days) == [kind |-> "daily", start |-> start, stop |-> stop, days |-> days]
At(start) == [kind |-> "once", start |-> start, stop |-> Nil]
On(all, kinds, cmd) == [kind |-> "condition", all |-> all, enabled |-> kinds, command |-> cmd]

(* A whole day, and a moment whose grace reaches past midnight.                *)
MCDaily == {Every(1, 1, {6}), Every(DayLen - 1, Nil, {6})}

MCOnce ==
    {At([day |-> FirstDay, time |-> 1])}
    \cup (IF Booked THEN {At([day |-> LastDay, time |-> 1])} ELSE {})

MCConditions ==
    {On(TRUE, {"AcPower", "JobAdded"}, Nil)}
    \cup {On(FALSE, {"AcPower", "Command"}, c) : c \in Cmds}
    \cup (IF AnyTrigger THEN {On(FALSE, {"AcPower", "JobAdded"}, Nil)} ELSE {})

MCSchedules == {Manual} \cup MCDaily \cup MCOnce \cup MCConditions
===============================================================================
