------------------------------ MODULE PowerGuard ------------------------------
(* data/power.rs: the one-slot guard behind every destructive power action.    *)
(* Callers (queue hooks, completion actions, the countdown window) arm, cancel *)
(* and confirm from different threads; each accepted arming spawns a grace     *)
(* task that claims the slot when it wakes.  Everything under the `pending`    *)
(* mutex is one step; everything outside it (the event send after the unlock,  *)
(* the abort, the execution) is a step of its own.                             *)
(*                                                                             *)
(* Also here: the exit-app completion action, which looks at the slot, waits   *)
(* 250 ms and ends the process.                                                *)
EXTENDS Naturals

CONSTANTS MaxArms,    (* bound on the arm counter, for model checking          *)
          Disabled,   (* the DISABLE_ENV kill switch was set at construction   *)
          ExitApp     (* some job asks oxdm to exit when it completes          *)

ASSUME GuardAssumption ==
    /\ MaxArms \in Nat
    /\ Disabled \in BOOLEAN
    /\ ExitApp \in BOOLEAN

VARIABLES nextSeq,    (* pending.0: the monotonic arm counter                  *)
          slot,       (* pending.1: seq of the pending arming, 0 when None     *)
          fire,       (* the one-shot sender in pending.1                    *)
          task,       (* task[n]: the grace task of arming n                   *)
          outcome,    (* outcome[n]: how arming n left the slot                *)
          unsent,     (* events whose sender has dropped the lock, not sent    *)
          lastEvent,  (* the last power event every subscriber received        *)
          exit        (* the exit-app action's progress                        *)

vars == <<nextSeq, slot, fire, task, outcome, unsent, lastEvent, exit>>

Armings == 1 .. MaxArms
Event == [kind : {"pending", "cancelled"}, arming : Armings]
NoEvent == [kind |-> "none", arming |-> 0]

(* One type invariant: the mutex-protected pair, the grace tasks and the feed. *)
TypeOK ==
    /\ nextSeq \in 0 .. MaxArms
    /\ slot \in 0 .. MaxArms
    /\ fire \in {"held", "gone"}
    /\ task \in [Armings -> {"none", "sleeping", "woken", "claimed", "ended", "aborted"}]
    /\ outcome \in [Armings -> {"unmade", "kept", "withdrawn"}]
    /\ unsent \in SUBSET Event
    /\ lastEvent \in Event \cup {NoEvent}
    /\ exit \in {"idle", "checked", "exited"}

Init ==
    /\ nextSeq = 0
    /\ slot = 0
    /\ fire = "gone"
    /\ task = [n \in Armings |-> "none"]
    /\ outcome = [n \in Armings |-> "unmade"]
    /\ unsent = {}
    /\ lastEvent = NoEvent
    /\ exit = "idle"

-------------------------------------------------------------------------------
Arm_Stacks ==
    /\ ~Disabled
    /\ nextSeq < MaxArms
    /\ nextSeq' = nextSeq + 1
    /\ slot' = nextSeq'
    /\ fire' = "held"
    /\ task' = [task EXCEPT ![nextSeq'] = "sleeping"]
    /\ unsent' = unsent \cup {[kind |-> "pending", arming |-> nextSeq']}
    /\ UNCHANGED <<outcome, lastEvent, exit>>

(* PowerGuard::arm, the part under the mutex.  A disabled guard and a taken    *)
(* slot refuse and change nothing.                                             *)
Arm ==
    /\ ~Disabled
    /\ slot = 0
    /\ nextSeq < MaxArms
    /\ LET seq == nextSeq + 1 IN
       /\ nextSeq' = seq
       /\ slot' = seq
       /\ fire' = "held"
       /\ task' = [task EXCEPT ![seq] = "sleeping"]
       /\ unsent' = unsent \cup {[kind |-> "pending", arming |-> seq]}
    /\ UNCHANGED <<outcome, lastEvent, exit>>

Wake_OnlyConfirmed(n) ==
    /\ task[n] = "sleeping"
    /\ fire = "gone"
    /\ task' = [task EXCEPT ![n] = "woken"]
    /\ UNCHANGED <<nextSeq, slot, fire, outcome, unsent, lastEvent, exit>>

(* The select! of the grace task returns: the grace elapsed, or `fire` fired.  *)
Wake(n) ==
    /\ task[n] = "sleeping"
    /\ task' = [task EXCEPT ![n] = "woken"]
    /\ UNCHANGED <<nextSeq, slot, fire, outcome, unsent, lastEvent, exit>>

Claims_AnySlot(n) == slot # 0

Claims(n) == slot = n

(* The claim, under the mutex: the task takes the slot only if the slot still  *)
(* holds its own arming.                                                       *)
Claim(n) ==
    /\ task[n] = "woken"
    /\ \/ /\ Claims(n)
          /\ slot' = 0
          /\ fire' = "gone"
          /\ outcome' = [outcome EXCEPT ![slot] = "kept"]
          /\ task' = [task EXCEPT ![n] = "claimed"]
       \/ /\ ~Claims(n)
          /\ task' = [task EXCEPT ![n] = "ended"]
          /\ UNCHANGED <<slot, fire, outcome>>
    /\ UNCHANGED <<nextSeq, unsent, lastEvent, exit>>

(* execute() runs on the grace task, outside the mutex.                        *)
Execute(n) ==
    /\ task[n] = "claimed"
    /\ task' = [task EXCEPT ![n] = "ended"]
    /\ UNCHANGED <<nextSeq, slot, fire, outcome, unsent, lastEvent, exit>>

(* PowerGuard::cancel, the take under the mutex.                               *)
CancelTake ==
    /\ slot # 0
    /\ slot' = 0
    /\ fire' = "gone"
    /\ outcome' = [outcome EXCEPT ![slot] = "withdrawn"]
    /\ unsent' = unsent \cup {[kind |-> "cancelled", arming |-> slot]}
    /\ UNCHANGED <<nextSeq, task, lastEvent, exit>>

(* PowerGuard::confirm: consumes the one-shot sender.  The grace task would    *)
(* wake in any case; the slot stays taken until it claims it.                  *)
Confirm ==
    /\ fire = "held"
    /\ fire' = "gone"
    /\ UNCHANGED <<nextSeq, slot, task, outcome, unsent, lastEvent, exit>>

(* What follows the unlock in arm and cancel: cancel aborts the grace task     *)
(* (which only bites while it sleeps), and both then send their event.         *)
Send(e) ==
    /\ e \in unsent
    /\ unsent' = unsent \ {e}
    /\ lastEvent' = e
    /\ task' = IF e.kind = "cancelled" /\ task[e.arming] = "sleeping"
               THEN [task EXCEPT ![e.arming] = "aborted"]
               ELSE task
    /\ UNCHANGED <<nextSeq, slot, fire, outcome, exit>>

(* The exit_app completion action: refuse while an action is pending ...       *)
ExitCheck ==
    /\ ExitApp
    /\ exit = "idle"
    /\ slot = 0
    /\ exit' = "checked"
    /\ UNCHANGED <<nextSeq, slot, fire, task, outcome, unsent, lastEvent>>

(* ... and, 250 ms later, std::process::exit.                                  *)
ExitNow ==
    /\ exit = "checked"
    /\ exit' = "exited"
    /\ UNCHANGED <<nextSeq, slot, fire, task, outcome, unsent, lastEvent>>

Next ==
    \/ /\ exit # "exited"
       /\ \/ Arm \/ CancelTake \/ Confirm
          \/ \E n \in Armings : Wake(n) \/ Claim(n) \/ Execute(n)
          \/ \E e \in unsent : Send(e)
    \/ ExitCheck
    \/ ExitNow

Spec == Init /\ [][Next]_vars

(* The runtime keeps polling a spawned task, and a thread that left the mutex  *)
(* goes on to its send.  Callers owe nothing.                                  *)
Fairness ==
    /\ \A n \in Armings : WF_vars(exit # "exited" /\ (Wake(n) \/ Claim(n) \/ Execute(n)))
    /\ \A n \in Armings : WF_vars(exit # "exited" /\
           \E e \in unsent : e.arming = n /\ Send(e))

FairSpec == Spec /\ Fairness
-------------------------------------------------------------------------------
(* The promise each arming makes, read off the guard's state.                  *)
Promise(n) == IF slot = n THEN "standing" ELSE outcome[n]

Abstract == INSTANCE PowerPromise WITH promise <- [n \in Armings |-> Promise(n)]

(* power.rs refines the promise: two finishing queues never stack timers, and  *)
(* an arming is kept at most once or withdrawn, never both, even when a task   *)
(* of a cancelled arming wakes late beside a newer one.                        *)
KeepsPromises == Abstract!Spec

(* A cancel that answered in time means no action: the task that executes is   *)
(* the task of the arming that was claimed, never of a cancelled one.          *)
ExecutesOnlyOwnClaim ==
    \A n \in Armings : task[n] = "claimed" => outcome[n] = "kept"

(* Every accepted arming ends while the daemon lives: its action runs, or it   *)
(* was cancelled and its grace task is gone.                                   *)
ArmingEnds ==
    \A n \in Armings :
        (slot = n) ~> (exit = "exited" \/ (slot # n /\ task[n] \in {"ended", "aborted"}))

(* A pending power action is never dropped by the exit-app action: exiting     *)
(* "would kill the daemon-side grace task and silently drop the promised power *)
(* action" (completion_actions.rs).                                            *)
ExitDropsNothing == exit = "exited" => slot = 0

(* With no send outstanding, a subscriber of the feed shows the countdown that *)
(* is pending ("Surface the grace-countdown window whenever a destructive      *)
(* power action arms", daemon/mod.rs): the last event it saw, which for the    *)
(* window means close, is not the cancellation of an older arming.             *)
FeedShowsPending ==
    (slot # 0 /\ unsent = {}) => lastEvent = [kind |-> "pending", arming |-> slot]
===============================================================================
