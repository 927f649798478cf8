------------------------------- MODULE UpdateFlow -------------------------------
(* How oxdm replaces itself: the daemon's half (add_update_job, stage_update,    *)
(* install_update, cancel_update, fail_update in data/state.rs and the watcher   *)
(* in daemon/completion_actions.rs) and the helper process that does the swap    *)
(* once the daemon is gone (update_install.rs).                                  *)
(*                                                                               *)
(* Processes: the About window's requests, the download of each update, the one  *)
(* watcher of outcomes, the reader of each helper's output, the helpers.         *)
EXTENDS Naturals, Sequences, FiniteSets

CONSTANTS
    MaxUpdates,   (* bound on the update downloads asked for                     *)
    Mutes,        (* bound: updates whose helper may come without its output     *)
    Programs,     (* what the archive installs                                   *)
    App           (* the one of them that is oxdm itself                         *)

ASSUME UpdateAssumption ==
    /\ MaxUpdates \in Nat \ {0}
    /\ App \in Programs /\ IsFiniteSet(Programs)

VARIABLES
    job,       (* job[u]: the download of update u                               *)
    adding,    (* adding[u]: how far add_update_job has come                     *)
    hidden,    (* `hidden_jobs`                                                  *)
    pending,   (* `pending_update`, 0 for None                                   *)
    updater,   (* `updater`: whose helper the daemon holds, 0 for None           *)
    bus,       (* outcomes the watcher has not seen                              *)
    watcher,   (* what the watcher is doing, and for which update                *)
    cancel,    (* what cancel_update is doing, and to which update               *)
    daemon,    (* up, exiting, gone                                              *)
    helper,    (* helper[u]: the process that installs u                         *)
    stdin,     (* stdin[u]: what its pipe brings it                              *)
    mute,      (* helpers whose output nobody reads                              *)
    said,      (* helpers whose error the reader has not seen                    *)
    payload,   (* payload[u]: the programs still in its payload directory        *)
    disk,      (* disk[p]: which version of program p is installed               *)
    early,     (* history: helpers that stopped waiting for the daemon           *)
    refused,   (* history: helpers that could not start the app again            *)
    launched   (* an app has been started that found no other one running        *)

daemonVars == <<job, adding, hidden, pending, updater, bus, watcher, cancel>>
installVars == <<payload, disk, early, refused, launched>>
helperVars == <<helper, stdin, mute, said, installVars>>
vars == <<daemonVars, daemon, helperVars>>

Updates == 1 .. MaxUpdates
Going == {"running", "stopping"}
Alive == {"starting", "waiting", "leaving", "swapping", "prompt", "broken", "installed"}
Swapping == {"swapping", "prompt", "broken", "installed", "done"}

TypeOK ==
    /\ job \in [Updates -> {"none", "added", "running", "stopping", "stopped",
                            "completed", "failed", "removed"}]
    /\ adding \in [Updates -> {"none", "remember", "start", "done"}]
    /\ hidden \subseteq {u \in Updates : job[u] # "none"}
    /\ pending \in 0 .. MaxUpdates /\ updater \in 0 .. MaxUpdates
    /\ bus \in Seq([update : Updates, ok : BOOLEAN])
    /\ watcher \in [pc : {"idle", "stage", "unpack", "spawn", "fail"}, update : 0 .. MaxUpdates]
    /\ cancel \in [pc : {"none", "pending", "pause", "remove"}, update : 0 .. MaxUpdates]
    /\ daemon \in {"up", "exiting", "gone"}
    /\ helper \in [Updates -> Alive \cup {"none", "done", "cancelled", "killed", "died"}]
    /\ stdin \in [Updates -> {"open", "go", "closed"}]
    /\ mute \subseteq Updates /\ said \subseteq Updates
    /\ early \subseteq Updates /\ refused \subseteq Updates
    /\ payload \in [Updates -> SUBSET Programs]
    /\ disk \in [Programs -> {"old", "new", "none"}]
    /\ launched \in BOOLEAN

Init ==
    /\ job = [u \in Updates |-> "none"] /\ adding = [u \in Updates |-> "none"]
    /\ hidden = {} /\ pending = 0 /\ updater = 0 /\ bus = <<>>
    /\ watcher = [pc |-> "idle", update |-> 0]
    /\ cancel = [pc |-> "none", update |-> 0]
    /\ daemon = "up"
    /\ helper = [u \in Updates |-> "none"] /\ stdin = [u \in Updates |-> "open"]
    /\ mute = {} /\ said = {} /\ early = {} /\ refused = {}
    /\ payload = [u \in Updates |-> {}]
    /\ disk = [p \in Programs |-> "old"]
    /\ launched = FALSE

To(u, j) == job' = [job EXCEPT ![u] = j]

Becomes(u, h) == helper' = [helper EXCEPT ![u] = h]

Emits(u, ok) == bus' = Append(bus, [update |-> u, ok |-> ok])

--------------------------------------------------------------------------------
(* The download.  The button stays while the request is on its way, so a second  *)
(* press asks for a second one.                                                  *)

(* add_job, then the job is kept out of the list.                                *)
Add(u) ==
    /\ job[u] = "none" /\ (u > 1 => job[u - 1] # "none")
    /\ To(u, "added")
    /\ hidden' = hidden \cup {u}
    /\ adding' = [adding EXCEPT ![u] = "remember"]
    /\ UNCHANGED <<pending, updater, bus, watcher, cancel, daemon, helperVars>>

Remember(u) ==
    /\ adding[u] = "remember"
    /\ pending' = u
    /\ adding' = [adding EXCEPT ![u] = "start"]
    /\ UNCHANGED <<job, hidden, updater, bus, watcher, cancel, daemon, helperVars>>

(* start_job: refused for want of space, by an exit, or because it was removed.  *)
Start(u) ==
    /\ adding[u] = "start"
    /\ adding' = [adding EXCEPT ![u] = "done"]
    /\ \/ job[u] \in {"added", "stopped"} /\ daemon = "up" /\ To(u, "running")
       \/ job[u] \in {"added", "stopped"} /\ To(u, "stopped")
       \/ job[u] = "removed" /\ UNCHANGED job
    /\ UNCHANGED <<hidden, pending, updater, bus, watcher, cancel, daemon, helperVars>>

(* Pause all, the exit and the tray stop hidden downloads like any other.        *)
Stop(u) ==
    /\ job[u] = "running"
    /\ To(u, "stopping")
    /\ UNCHANGED <<adding, hidden, pending, updater, bus, watcher, cancel, daemon, helperVars>>

(* A run completes (its digest matched), fails, or heeds a stop; only the first  *)
(* two are announced.                                                            *)
RunEnds(u) ==
    /\ job[u] \in Going
    /\ \/ To(u, "completed") /\ Emits(u, TRUE)
       \/ To(u, "failed") /\ Emits(u, FALSE)
       \/ job[u] = "stopping" /\ To(u, "stopped") /\ UNCHANGED bus
    /\ UNCHANGED <<adding, hidden, pending, updater, watcher, cancel, daemon, helperVars>>

--------------------------------------------------------------------------------
(* The watcher of outcomes, and staging.                                         *)

Goes(pc, u) == watcher' = [pc |-> pc, update |-> u]

Recognise_OnlySuccess ==
    /\ watcher.pc = "idle" /\ bus # <<>>
    /\ bus' = Tail(bus)
    /\ IF pending = Head(bus).update /\ Head(bus).ok
       THEN Goes("stage", Head(bus).update) ELSE UNCHANGED watcher
    /\ UNCHANGED <<job, adding, hidden, pending, updater, cancel, daemon, helperVars>>

(* It takes an outcome for the update's if that is the download remembered.      *)
Recognise ==
    /\ watcher.pc = "idle" /\ bus # <<>>
    /\ bus' = Tail(bus)
    /\ LET e == Head(bus)
       IN IF pending = e.update
          THEN Goes(IF e.ok THEN "stage" ELSE "fail", e.update)
          ELSE UNCHANGED watcher
    /\ UNCHANGED <<job, adding, hidden, pending, updater, cancel, daemon, helperVars>>

StageBegin ==
    /\ watcher.pc = "stage"
    /\ IF pending = 0 THEN Goes("idle", 0) ELSE Goes("unpack", watcher.update)
    /\ UNCHANGED <<job, adding, hidden, pending, updater, bus, cancel, daemon, helperVars>>

(* Not writable, no copy of the program, nothing to unpack: or on to the helper. *)
Unpack ==
    /\ watcher.pc = "unpack"
    /\ \/ Goes("fail", watcher.update)
       \/ job[watcher.update] # "removed" /\ Goes("spawn", watcher.update)
    /\ UNCHANGED <<job, adding, hidden, pending, updater, bus, cancel, daemon, helperVars>>

(* The pipe of a helper that is let go of closes, behind what was written to it. *)
Closed(hs) ==
    [u \in Updates |-> IF u \in hs /\ stdin[u] = "open" THEN "closed" ELSE stdin[u]]

(* The helper is started and takes the place of the one before it.  Without its  *)
(* output the update is given up, and the helper stays.                          *)
SpawnHelper ==
    /\ watcher.pc = "spawn"
    /\ Becomes(watcher.update, "starting")
    /\ payload' = [payload EXCEPT ![watcher.update] = Programs]
    /\ stdin' = Closed({updater})
    /\ updater' = watcher.update
    /\ \/ Goes("idle", 0) /\ UNCHANGED mute
       \/ /\ watcher.update \in Mutes
          /\ mute' = mute \cup {watcher.update} /\ Goes("fail", watcher.update)
    /\ UNCHANGED <<job, adding, hidden, pending, bus, cancel, daemon, said, disk, early, refused,
                   launched>>

(* fail_update.                                                                  *)
Fail ==
    /\ watcher.pc = "fail"
    /\ pending' = 0
    /\ Goes("idle", 0)
    /\ UNCHANGED <<job, adding, hidden, updater, bus, cancel, daemon, helperVars>>

(* The reader of a helper's output hears that it gave up: fail_update.           *)
Hear(u) ==
    /\ u \in said
    /\ said' = said \ {u}
    /\ pending' = 0
    /\ UNCHANGED <<job, adding, hidden, updater, bus, watcher, cancel, daemon, helper, stdin,
                   mute, installVars>>

--------------------------------------------------------------------------------
(* install_update, cancel_update and the end of the daemon.                      *)

(* A helper that is there hears "go", and the daemon begins to quit.             *)
Install ==
    /\ updater # 0 /\ helper[updater] \in Alive
    /\ stdin' = [stdin EXCEPT ![updater] = "go"]
    /\ daemon' = "exiting"
    /\ UNCHANGED <<daemonVars, helper, mute, said, installVars>>

CancelTakeUpdater_Kills ==
    /\ cancel.pc = "none" /\ pending + updater # 0
    /\ helper' = [u \in Updates |->
                    IF u = updater /\ helper[u] \in Alive THEN "killed" ELSE helper[u]]
    /\ cancel' = [pc |-> "pending", update |-> 0]
    /\ UNCHANGED <<job, adding, hidden, pending, updater, bus, watcher, daemon, stdin, mute, said,
                   installVars>>

CancelTakeUpdater ==
    /\ cancel.pc = "none" /\ pending + updater # 0
    /\ helper' = [u \in Updates |->
                    IF u = updater /\ helper[u] \in Alive THEN "killed" ELSE helper[u]]
    /\ updater' = 0
    /\ cancel' = [pc |-> "pending", update |-> 0]
    /\ UNCHANGED <<job, adding, hidden, pending, bus, watcher, daemon, stdin, mute, said, installVars>>

CancelTakePending_Reads ==
    /\ cancel.pc = "pending"
    /\ cancel' = IF pending = 0 THEN [pc |-> "none", update |-> 0]
                 ELSE [pc |-> "pause", update |-> pending]
    /\ UNCHANGED <<job, adding, hidden, pending, updater, bus, watcher, daemon, helperVars>>

CancelTakePending ==
    /\ cancel.pc = "pending"
    /\ cancel' = IF pending = 0 THEN [pc |-> "none", update |-> 0]
                 ELSE [pc |-> "pause", update |-> pending]
    /\ pending' = 0
    /\ UNCHANGED <<job, adding, hidden, updater, bus, watcher, daemon, helperVars>>

(* The pause is refused while the file is being assembled.                       *)
CancelPause ==
    /\ cancel.pc = "pause"
    /\ cancel' = [cancel EXCEPT !.pc = "remove"]
    /\ LET u == cancel.update
       IN \/ job[u] = "running" /\ To(u, "stopping")
          \/ job[u] \in Going \cup {"removed"} /\ UNCHANGED job
          \/ job[u] \notin Going \cup {"removed"} /\ To(u, "stopped")
    /\ UNCHANGED <<adding, hidden, pending, updater, bus, watcher, daemon, helperVars>>

(* The run is over and the download goes, or ten seconds are over and it stays;  *)
(* either way it is no longer kept out of the list.                              *)
CancelRemove ==
    /\ cancel.pc = "remove"
    /\ LET u == cancel.update
       IN /\ IF job[u] \in Going THEN UNCHANGED job ELSE To(u, "removed")
          /\ hidden' = hidden \ {u}
    /\ cancel' = [pc |-> "none", update |-> 0]
    /\ UNCHANGED <<adding, pending, updater, bus, watcher, daemon, helperVars>>

(* The user quits; an install does so by itself.                                 *)
Quit ==
    /\ daemon = "up"
    /\ daemon' = "exiting"
    /\ UNCHANGED <<daemonVars, helperVars>>

(* The exit ends (module DaemonExit), and with it every pipe and all the daemon   *)
(* had in memory.                                                                *)
DaemonGone ==
    /\ daemon = "exiting"
    /\ daemon' = "gone"
    /\ stdin' = Closed(Updates)
    /\ job' = [u \in Updates |-> "none"] /\ adding' = [u \in Updates |-> "none"]
    /\ hidden' = {} /\ pending' = 0 /\ updater' = 0 /\ bus' = <<>>
    /\ watcher' = [pc |-> "idle", update |-> 0]
    /\ cancel' = [pc |-> "none", update |-> 0]
    /\ mute' = {} /\ said' = {}
    /\ UNCHANGED <<helper, installVars>>

--------------------------------------------------------------------------------
(* The helper: oxdm --install-update.                                            *)

(* Somebody is there to read it, or not.                                         *)
Says(u) == said' = IF daemon = "gone" \/ u \in mute THEN said ELSE said \cup {u}

Announce(u) ==
    /\ helper[u] = "starting"
    /\ Becomes(u, "waiting")
    /\ UNCHANGED <<daemonVars, daemon, stdin, mute, said, installVars>>

WaitForGo_AnyLine(u) ==
    /\ helper[u] = "waiting" /\ stdin[u] # "open"
    /\ Becomes(u, "leaving")
    /\ UNCHANGED <<daemonVars, daemon, stdin, mute, said, installVars>>

(* "go", or an end of file, which is "install cancelled".                        *)
WaitForGo(u) ==
    /\ helper[u] = "waiting"
    /\ \/ stdin[u] = "go" /\ Becomes(u, "leaving") /\ UNCHANGED said
       \/ stdin[u] = "closed" /\ Becomes(u, "cancelled") /\ Says(u)
    /\ UNCHANGED <<daemonVars, daemon, stdin, mute, installVars>>

(* Its arguments, its runtime or its pipe are no good: it says so and is gone.   *)
HelperFails(u) ==
    /\ helper[u] \in {"starting", "waiting"}
    /\ Becomes(u, "died")
    /\ Says(u)
    /\ UNCHANGED <<daemonVars, daemon, stdin, mute, installVars>>

(* It crashes or is killed from outside: its reader just comes to the end.       *)
HelperDies(u) ==
    /\ helper[u] \in Alive
    /\ Becomes(u, "died")
    /\ UNCHANGED <<daemonVars, daemon, stdin, mute, said, installVars>>

(* The daemon is gone, or thirty seconds are over.                               *)
WaitForPidExit(u) ==
    /\ helper[u] = "leaving"
    /\ Becomes(u, "swapping")
    /\ early' = IF daemon = "gone" THEN early ELSE early \cup {u}
    /\ UNCHANGED <<daemonVars, daemon, stdin, mute, said, payload, disk, refused, launched>>

(* One program after another is moved into place.                                *)
Swap(u) ==
    /\ helper[u] = "swapping"
    /\ \E p \in payload[u] :
          /\ payload' = [payload EXCEPT ![u] = @ \ {p}]
          /\ disk' = [disk EXCEPT ![p] = "new"]
          /\ IF payload[u] = {p} THEN Becomes(u, "installed") ELSE UNCHANGED helper
    /\ UNCHANGED <<daemonVars, daemon, stdin, mute, said, early, refused, launched>>

(* What a failed swap of one of them may leave: the old program, moved aside,    *)
(* could not be put back.                                                        *)
Holes(ps) == {disk} \cup {[disk EXCEPT ![p] = "none"] : p \in ps}

(* One cannot be.  It may have left the payload for the install directory by     *)
(* then.  Rights that are missing are asked for, anything else ends the install. *)
SwapFails(u) ==
    /\ helper[u] = "swapping"
    /\ \E p \in payload[u] :
          /\ \E left \in {{}, {p}} : payload' = [payload EXCEPT ![u] = @ \ left]
          /\ disk' \in Holes({p})
    /\ Becomes(u, "prompt") \/ Becomes(u, "broken")
    /\ UNCHANGED <<daemonVars, daemon, stdin, mute, said, early, refused, launched>>

(* The same swap as an administrator: all that is left, if anything is, or the   *)
(* part of it that went through before it failed or was turned down.             *)
Elevate(u) ==
    /\ helper[u] = "prompt"
    /\ \E ps \in SUBSET payload[u] :
          /\ payload' = [payload EXCEPT ![u] = @ \ ps]
          /\ \E d \in IF ps # {} /\ ps = payload[u] THEN {disk} ELSE Holes(payload[u] \ ps) :
                disk' = [p \in Programs |-> IF p \in ps THEN "new" ELSE d[p]]
          /\ Becomes(u, IF ps # {} /\ ps = payload[u] THEN "installed" ELSE "broken")
    /\ UNCHANGED <<daemonVars, daemon, stdin, mute, said, early, refused, launched>>

Launch(u) ==
    /\ disk[App] # "none"
    /\ launched' = (launched \/ daemon = "gone")
    /\ IF helper[u] = "broken" THEN Says(u) ELSE UNCHANGED said
    /\ UNCHANGED refused

(* The program is not there or is not started; nobody tries again.               *)
LaunchFails(u) ==
    /\ refused' = refused \cup {u}
    /\ Says(u)
    /\ UNCHANGED launched

Relaunch_OnSuccess(u) ==
    /\ helper[u] \in {"installed", "broken"}
    /\ Becomes(u, "done")
    /\ IF helper[u] = "installed" THEN Launch(u) \/ LaunchFails(u)
       ELSE Says(u) /\ UNCHANGED <<refused, launched>>
    /\ UNCHANGED <<daemonVars, daemon, stdin, mute, payload, disk, early>>

(* The app is started again, whether or not the install went through.  One that  *)
(* finds the daemon still there leaves again.                                    *)
Relaunch(u) ==
    /\ helper[u] \in {"installed", "broken"}
    /\ Becomes(u, "done")
    /\ Launch(u) \/ LaunchFails(u)
    /\ UNCHANGED <<daemonVars, daemon, stdin, mute, payload, disk, early>>

WatcherStep == daemon # "gone" /\ (Recognise \/ StageBegin \/ Unpack \/ SpawnHelper \/ Fail)

CancelStep == daemon # "gone" /\ (CancelTakePending \/ CancelPause \/ CancelRemove)

JobStep(u) ==
    daemon # "gone" /\ (Add(u) \/ Remember(u) \/ Start(u) \/ Stop(u) \/ RunEnds(u) \/ Hear(u))

HelperStep(u) ==
    \/ Announce(u) \/ WaitForGo(u) \/ WaitForPidExit(u) \/ Swap(u) \/ SwapFails(u) \/ Elevate(u)
    \/ Relaunch(u)

Next ==
    \/ \E u \in Updates : JobStep(u) \/ HelperStep(u) \/ HelperFails(u) \/ HelperDies(u)
    \/ WatcherStep \/ CancelStep
    \/ daemon # "gone" /\ (Install \/ CancelTakeUpdater)
    \/ Quit \/ DaemonGone

Spec == Init /\ [][Next]_vars

(* The watcher, a cancel that was asked for and the helpers are carried on by    *)
(* the system, a prompt for rights is answered in the end, and an exit ends      *)
(* (DaemonExit!QuitEnds).  Nothing is assumed of users or of downloads.          *)
FairSpec ==
    /\ Spec /\ WF_vars(WatcherStep) /\ WF_vars(CancelStep) /\ WF_vars(DaemonGone)
    /\ \A u \in Updates : WF_vars(HelperStep(u))

(* For TLC: what the steps to come and the properties of UF_update depend on.    *)
(* Left out are the order of a download's ends once it is not the pending one,   *)
(* the payload of a helper past its swap, and which version is installed.        *)
UpdateView ==
    <<[u \in Updates |->
          IF pending # u /\ adding[u] = "done" /\ job[u] \in {"completed", "failed"}
          THEN "stopped" ELSE job[u]],
      adding, pending, updater, bus, watcher, cancel, daemon, helper, stdin, mute, said,
      [u \in Updates |->
          IF helper[u] \in Alive \ {"broken", "installed"} THEN payload[u] ELSE {}],
      disk[App] = "none", early, refused, launched>>

--------------------------------------------------------------------------------
(* Properties.                                                                   *)

(* The daemon never names a download as the update in flight that is not there:  *)
(* About would poll a job that is gone (state.rs 1829, 5172-5192).               *)
PendingIsListed == pending # 0 => job[pending] \notin {"none", "removed"}

(* The helper behind "Staged" (state.rs 5177-5182) can still be told to go:      *)
(* neither a cancel, nor a second update, nor the daemon's own doing ends the    *)
(* helper it holds.  The exception is one that ended by itself, which nobody     *)
(* notices (1984-2003).                                                          *)
StagedIsInstallable ==
    daemon = "up" /\ pending # 0 /\ updater # 0 /\ helper[updater] # "died" =>
        helper[updater] \in {"starting", "waiting"} /\ stdin[updater] = "open"

(* No helper replaces a program unless an install request reached it, however    *)
(* its pipe and the daemon end (update_install.rs 251-266).                      *)
SwapOnlyIfAsked == \A u \in Updates : helper[u] \in Swapping => stdin[u] = "go"

(* The outcome of the download in flight is acted on: the update is staged, or   *)
(* it is given up and said so (completion_actions.rs 41-46).                     *)
OutcomeIsHandled ==
    \A u \in Updates :
        pending = u /\ job[u] \in {"completed", "failed"}
            ~> pending # u \/ updater = u \/ daemon = "gone"

(* Once the daemon has gone for an install there is an app again, new or old,    *)
(* whatever goes wrong with the swap (update_install.rs 152-160).  Assumed is    *)
(* that the helper lives and had waited, and that the program can be started.    *)
AppComesBack ==
    \A u \in Updates :
        daemon = "gone" /\ stdin[u] = "go" /\ helper[u] # "killed" /\ u \notin early
            ~> launched \/ helper[u] = "died" \/ u \in refused

(* The claim of state.rs 1989-1990 (offering to install is "honest" only while   *)
(* the helper waits) of what update_state says for the rest of the update.       *)
StagedIsHonest ==
    daemon = "up" /\ pending # 0 /\ updater # 0 => helper[updater] \in {"starting", "waiting"}

(* The claim of update_install.rs 244 ("The previous version has been left in    *)
(* place and restarted") and 156-157: a failure does not leave the user with no  *)
(* app at all.                                                                   *)
FailureLeavesApp ==
    \A u \in Updates :
        daemon = "gone" /\ helper[u] = "broken" /\ u \notin early
            ~> launched \/ helper[u] = "died"

(* The claim of state.rs 2006-2007: the helper replaces the executable once this *)
(* process is gone.                                                              *)
SwapAfterExit == \A u \in Updates : helper[u] \in Swapping => u \notin early

(* The claim of state.rs 5194-5195: a cancel kills the installer if one is       *)
(* waiting; nothing is left that could still be told to go.                      *)
CancelLeavesNoInstaller ==
    pending = 0 /\ cancel.pc = "none" /\ watcher.pc = "idle" /\ updater # 0
        => helper[updater] \notin {"starting", "waiting"}

(* The claim of state.rs 1683 ("stays out of the queue list") and of 5199 (the   *)
(* download is dropped): an update's download is never shown.                    *)
UpdateStaysHidden ==
    \A u \in Updates : job[u] \notin {"none", "removed"} => u \in hidden

(* The claim of update_install.rs 318-322 and 244 ("The previous version has     *)
(* been left in place"): the programs are replaced together or not at all.       *)
NoHalfInstall ==
    (\A u \in Updates : helper[u] \in {"none", "done"}) =>
        Cardinality({disk[p] : p \in Programs}) = 1

(* The claim of state.rs 1733-1735: an outcome belongs to the download it is of  *)
(* and no other, so a failure never ends an update that is still going.          *)
FailureIsItsOwn ==
    [][\A u \in Updates : pending = u /\ (Fail \/ \E h \in Updates : Hear(h)) =>
            job[u] \notin Going]_vars
===============================================================================
