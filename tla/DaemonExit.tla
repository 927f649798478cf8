------------------------------- MODULE DaemonExit -------------------------------
(* The orderly shutdown of the daemon (quit_daemon in daemon/tray/mod.rs with    *)
(* the exit half of data/state.rs) against the downloads it winds down.          *)
(*                                                                               *)
(* Processes: the quit sequence, the start and the run of every download, the    *)
(* pump that applies a run's events after it sent them, and one more caller who  *)
(* pauses.  A run follows the order of its phases; entry edits, removals and     *)
(* the caps are JobLifecycle's and QueueRuns' business.                          *)
EXTENDS Naturals, FiniteSets

CONSTANTS
    Jobs, Nil,
    Automatic,   (* downloads of queues that run, started by their queue         *)
    Pausable,    (* bound: the downloads a user may pause meanwhile              *)
    MayRefuse    (* the cache folder of a start may be unusable                  *)

ASSUME ExitAssumption ==
    /\ Nil \notin Jobs
    /\ Automatic \subseteq Jobs /\ Pausable \subseteq Jobs
    /\ MayRefuse \in BOOLEAN

VARIABLES
    at,        (* at[j]: how far the start and the run of j have come            *)
    phase,     (* phase[j]: the live phase; "resting" is any a run does not have *)
    running,   (* downloads whose `running` flag is set                          *)
    told,      (* downloads whose installed token has been cancelled             *)
    unseen,    (* assemblies whose PhaseChanged event the pump has not applied   *)
    owed,      (* history: ran when the exit was claimed, no row stored since    *)
    crossed,   (* history: assemblies whose news came while a user's pause was   *)
               (* past its look                                                  *)
    pausing,   (* pausing[p]: what each of the two pausers is doing              *)
    exiting,   (* AppState::exiting                                              *)
    quit,      (* the quit task                                                  *)
    clock      (* the two deadlines of the quit task, once they are set          *)

runVars == <<at, phase, running, told, unseen, owed, crossed>>
vars == <<runVars, pausing, exiting, quit, clock>>

Stages == {"idle", "asked", "claimed", "refused", "fetching", "copying", "verifying",
           "released", "done"}
Phases == {"resting", "Downloading", "Assembling", "Verifying"}
Busy == {"Downloading", "Assembling", "Verifying"}
Pausers == {"user", "quit"}
Resting == [pc |-> "idle", job |-> Nil, stale |-> FALSE]

TypeOK ==
    /\ at \in [Jobs -> Stages]
    /\ phase \in [Jobs -> Phases]
    /\ running \subseteq Jobs /\ told \subseteq Jobs /\ unseen \subseteq Jobs
    /\ owed \subseteq Jobs /\ crossed \subseteq Jobs
    /\ pausing \in [Pausers -> {Resting} \cup [pc : {"look", "tell", "mark"}, job : Jobs,
                                               stale : BOOLEAN]]
    /\ exiting \in BOOLEAN
    /\ quit \in [pc : {"none", "stop_queues", "pause_all", "arm", "count", "look", "wait",
                       "pause_again", "cancel", "grace", "gone"},
                 tried : SUBSET Jobs, todo : SUBSET Jobs, seen : SUBSET Jobs,
                 assembling : SUBSET Jobs, shown : SUBSET Jobs, woken : BOOLEAN]
    /\ clock \in {"unset", "early", "short_passed", "long_passed"}

Init ==
    /\ at = [j \in Jobs |-> "idle"]
    /\ phase = [j \in Jobs |-> "resting"]
    /\ running = {} /\ told = {} /\ unseen = {} /\ owed = {} /\ crossed = {}
    /\ pausing = [p \in Pausers |-> Resting]
    /\ exiting = FALSE
    /\ quit = [pc |-> "none", tried |-> {}, todo |-> {}, seen |-> {}, assembling |-> {},
               shown |-> {}, woken |-> FALSE]
    /\ clock = "unset"

Alive == quit.pc # "gone"

--------------------------------------------------------------------------------
(* A start and its run.                                                          *)

To(j, stage) == at' = [at EXCEPT ![j] = stage]

SetPhase(j, p) == phase' = [phase EXCEPT ![j] = p]

SetRunPhase(j, p) == IF j \in told THEN UNCHANGED phase ELSE SetPhase(j, p)

(* start_run is entered and finds that nothing is shutting down.  (One run per   *)
(* download: what a second one meets of the first is JobLifecycle's.)            *)
Ask(j) ==
    /\ ~exiting
    /\ at[j] = "idle"
    /\ To(j, "asked")
    /\ UNCHANGED <<phase, running, told, unseen, owed, crossed>>

Claim(j) ==
    /\ at[j] = "asked"
    /\ To(j, "claimed")
    /\ running' = running \cup {j}
    /\ SetPhase(j, "Downloading")
    /\ UNCHANGED <<told, unseen, owed, crossed>>

(* The cache folder cannot be created: the claim is given back, nothing signals. *)
SetUpFails(j) ==
    /\ MayRefuse
    /\ at[j] = "claimed"
    /\ To(j, "refused")
    /\ running' = running \ {j}
    /\ SetPhase(j, "resting")
    /\ UNCHANGED <<told, unseen, owed, crossed>>

(* The run gets a token of its own and a task.                                   *)
Spawn(j) ==
    /\ at[j] = "claimed"
    /\ To(j, "fetching")
    /\ told' = told \ {j}
    /\ UNCHANGED <<phase, running, unseen, owed, crossed>>

RunReports(j) ==
    /\ at[j] = "fetching"
    /\ SetRunPhase(j, "Downloading")
    /\ UNCHANGED <<at, running, told, unseen, owed, crossed>>

(* odl begins to copy the parts and says so; the pump applies that later.        *)
Assembles(j) ==
    /\ at[j] = "fetching"
    /\ To(j, "copying")
    /\ unseen' = unseen \cup {j}
    /\ UNCHANGED <<phase, running, told, owed, crossed>>

Pump(j) ==
    /\ j \in unseen
    /\ unseen' = unseen \ {j}
    /\ SetRunPhase(j, "Assembling")
    /\ crossed' = IF pausing["user"].job = j /\ pausing["user"].pc \in {"tell", "mark"}
                  THEN crossed \cup {j} ELSE crossed
    /\ UNCHANGED <<at, running, told, owed>>

Verifies(j) ==
    /\ at[j] = "copying" /\ j \notin unseen
    /\ To(j, "verifying")
    /\ SetRunPhase(j, "Verifying")
    /\ UNCHANGED <<running, told, unseen, owed, crossed>>

(* The run returns, its pump flushed; the epilogue writes the outcome and the    *)
(* row and lets go of the job ...                                                *)
RunEnds(j) ==
    /\ at[j] \in {"fetching", "copying", "verifying"} /\ j \notin unseen
    /\ To(j, "released")
    /\ running' = running \ {j}
    /\ SetPhase(j, "resting")
    /\ owed' = owed \ {j}
    /\ told' = told \ {j}
    /\ UNCHANGED <<unseen, crossed>>

(* ... and signals whoever waits for runs to end, as the last thing it does.     *)
Notify(j) ==
    /\ at[j] = "released"
    /\ To(j, "done")
    /\ quit' = [quit EXCEPT !.woken = quit.pc \in {"count", "look", "wait"}]
    /\ UNCHANGED <<phase, running, told, unseen, owed, crossed>>

RunStep(j) ==
    /\ Alive
    /\ \/ /\ \/ Ask(j) \/ Claim(j) \/ SetUpFails(j) \/ Spawn(j) \/ RunReports(j)
             \/ Assembles(j) \/ Pump(j) \/ Verifies(j) \/ RunEnds(j)
          /\ UNCHANGED quit
       \/ Notify(j)
    /\ UNCHANGED <<pausing, exiting, clock>>

--------------------------------------------------------------------------------
(* pause_in_place: a look, the cancel of the token it found, the mark.           *)

Tell(j) == told' = told \cup {j}

PauseLook_AnyPhase(p) ==
    /\ pausing[p].pc = "look"
    /\ LET j == pausing[p].job
       IN pausing' = [pausing EXCEPT ![p] =
              [pc |-> "tell", job |-> j, stale |-> at[j] \in {"asked", "claimed"}]]
    /\ UNCHANGED runVars

(* Refused while the job shows as assembling.  A token captured before the run   *)
(* installs its own is the previous run's.                                       *)
PauseLook(p) ==
    /\ pausing[p].pc = "look"
    /\ LET j == pausing[p].job
       IN pausing' = [pausing EXCEPT ![p] =
              IF phase[j] = "Assembling" THEN Resting
              ELSE [pc |-> "tell", job |-> j, stale |-> at[j] \in {"asked", "claimed"}]]
    /\ UNCHANGED runVars

PauseTell(p) ==
    /\ pausing[p].pc = "tell"
    /\ IF pausing[p].stale THEN UNCHANGED told ELSE Tell(pausing[p].job)
    /\ pausing' = [pausing EXCEPT ![p].pc = "mark"]
    /\ UNCHANGED <<at, phase, running, unseen, owed, crossed>>

(* Marks the job and stores its row.                                             *)
PauseMark(p) ==
    /\ pausing[p].pc = "mark"
    /\ SetPhase(pausing[p].job, "resting")
    /\ owed' = owed \ {pausing[p].job}
    /\ pausing' = [pausing EXCEPT ![p] = Resting]
    /\ UNCHANGED <<at, running, told, unseen, crossed>>

UserPauses(j) ==
    /\ Alive
    /\ j \in Pausable \cap running /\ pausing["user"] = Resting
    /\ pausing' = [pausing EXCEPT !["user"] = [Resting EXCEPT !.pc = "look", !.job = j]]
    /\ UNCHANGED <<runVars, exiting, quit, clock>>

PauseStep(p) ==
    /\ Alive
    /\ PauseLook(p) \/ PauseTell(p) \/ PauseMark(p)
    /\ UNCHANGED <<exiting, quit, clock>>

--------------------------------------------------------------------------------
(* The quit sequence.                                                            *)

(* begin_exit: a second request finds the flag set and is dropped.               *)
BeginExit ==
    /\ ~exiting
    /\ exiting' = TRUE
    /\ owed' = running
    /\ quit' = [quit EXCEPT !.pc = "stop_queues"]
    /\ UNCHANGED <<at, phase, running, told, unseen, crossed, pausing, clock>>

Targets_QueuesOnly == {j \in Automatic : phase[j] \in Busy \ {"Assembling"}}

(* What the sweep of a stopped queue and the sweep of Pause all go through.      *)
Targets ==
    IF quit.pc = "stop_queues"
    THEN {j \in Automatic : phase[j] \in Busy \ {"Assembling"}}
    ELSE {j \in running : phase[j] # "Assembling"}

AfterSweep == [stop_queues |-> "pause_all", pause_all |-> "arm", pause_again |-> "cancel"]

(* A pass over the list: what it has not tried yet, or the end of the sweep.     *)
(* Every job is offered once, so the sweep ends.                                 *)
SweepPass_Retries ==
    /\ quit.pc \in DOMAIN AfterSweep
    /\ quit.todo = {} /\ pausing["quit"] = Resting
    /\ IF Targets # {}
       THEN quit' = [quit EXCEPT !.todo = Targets] /\ UNCHANGED clock
       ELSE /\ quit' = [quit EXCEPT !.tried = {}, !.pc = AfterSweep[quit.pc]]
            /\ clock' = IF quit.pc = "pause_all" THEN "early" ELSE clock
    /\ UNCHANGED <<runVars, pausing, exiting>>

SweepPass ==
    /\ quit.pc \in DOMAIN AfterSweep
    /\ quit.todo = {} /\ pausing["quit"] = Resting
    /\ LET new == Targets \ quit.tried
       IN IF new # {}
          THEN quit' = [quit EXCEPT !.todo = new, !.tried = @ \cup new] /\ UNCHANGED clock
          ELSE /\ quit' = [quit EXCEPT !.tried = {}, !.pc = AfterSweep[quit.pc]]
               /\ clock' = IF quit.pc = "pause_all" THEN "early" ELSE clock
    /\ UNCHANGED <<runVars, pausing, exiting>>

SweepNext ==
    /\ quit.todo # {} /\ pausing["quit"] = Resting
    /\ \E j \in quit.todo :
          /\ quit' = [quit EXCEPT !.todo = @ \ {j}]
          /\ pausing' = [pausing EXCEPT !["quit"] = [Resting EXCEPT !.pc = "look", !.job = j]]
    /\ UNCHANGED <<runVars, exiting, clock>>

(* The signal is armed before the state it is about is read.                     *)
Arm ==
    /\ quit.pc = "arm"
    /\ quit' = [quit EXCEPT !.pc = "count", !.woken = FALSE, !.seen = {}, !.assembling = {}]
    /\ UNCHANGED <<runVars, pausing, exiting, clock>>

Count ==
    /\ quit.pc = "count"
    /\ quit' = [quit EXCEPT !.pc = "look", !.seen = running]
    /\ UNCHANGED <<runVars, pausing, exiting, clock>>

Look_ArmsLast ==
    /\ quit.pc = "look"
    /\ LET now == {j \in Jobs : phase[j] = "Assembling"}
       IN quit' = [quit EXCEPT !.assembling = now, !.shown = @ \cup now, !.woken = FALSE,
                               !.pc = IF quit.seen = {} THEN "pause_again" ELSE "wait"]
    /\ UNCHANGED <<runVars, pausing, exiting, clock>>

(* assembling_jobs; the window of each of them is opened, once.                  *)
Look ==
    /\ quit.pc = "look"
    /\ LET now == {j \in Jobs : phase[j] = "Assembling"}
       IN quit' = [quit EXCEPT !.assembling = now, !.shown = @ \cup now,
                               !.pc = IF quit.seen = {} THEN "pause_again" ELSE "wait"]
    /\ UNCHANGED <<runVars, pausing, exiting, clock>>

(* Five seconds, or five minutes when an assembly was seen; both counted from    *)
(* the end of the first sweep.                                                   *)
DeadlinePassed ==
    \/ clock = "long_passed"
    \/ clock = "short_passed" /\ quit.assembling = {}

Wait ==
    /\ quit.pc = "wait"
    /\ \/ quit.woken /\ quit' = [quit EXCEPT !.pc = "arm"]
       \/ ~quit.woken /\ DeadlinePassed /\ quit' = [quit EXCEPT !.pc = "pause_again"]
    /\ UNCHANGED <<runVars, pausing, exiting, clock>>

(* cancel_all_runners gives up when the list is locked.  (It also cancels tokens *)
(* no run holds any more.)                                                       *)
CancelAll ==
    /\ quit.pc = "cancel"
    /\ \/ told' = told \cup {j \in running : phase[j] # "Assembling"}
       \/ UNCHANGED told
    /\ quit' = [quit EXCEPT !.pc = "grace"]
    /\ UNCHANGED <<at, phase, running, unseen, owed, crossed, pausing, exiting, clock>>

(* 250 ms for the windows to go, then process::exit.                             *)
Exit ==
    /\ quit.pc = "grace"
    /\ quit' = [quit EXCEPT !.pc = "gone"]
    /\ UNCHANGED <<runVars, pausing, exiting, clock>>

QuitStep == SweepPass \/ SweepNext \/ Arm \/ Count \/ Look \/ Wait \/ CancelAll \/ Exit

(* Time that passes elsewhere is noticed at the next wait.                       *)
TimePasses ==
    /\ quit.pc = "wait"
    /\ clock \in {"early", "short_passed"}
    /\ clock' = IF clock = "early" THEN "short_passed" ELSE "long_passed"
    /\ UNCHANGED <<runVars, pausing, exiting, quit>>

Gone == ~Alive /\ UNCHANGED vars

Next ==
    \/ \E j \in Jobs : RunStep(j) \/ UserPauses(j)
    \/ \E p \in Pausers : PauseStep(p)
    \/ BeginExit \/ QuitStep \/ TimePasses \/ Gone

Spec == Init /\ [][Next]_vars

(* The quit task and its pauses are carried on by the runtime, and time passes.  *)
(* Nothing is assumed of a run: it may copy for hours and heed nothing.          *)
FairSpec == Spec /\ WF_vars(QuitStep) /\ WF_vars(PauseStep("quit")) /\ WF_vars(TimePasses)

--------------------------------------------------------------------------------
(* Properties.                                                                   *)

(* The wait of the exit never sleeps through a signal: while it waits and has    *)
(* not been woken, no run it counted has signalled its end (state.rs 886-891).   *)
WakeupNotLost ==
    quit.pc = "wait" /\ ~quit.woken => \A j \in quit.seen : at[j] # "done"

(* An assembly the exit opened a window for ("waiting for this one") is not      *)
(* told to stop, by the exit or by anybody, and if the exit counted it the       *)
(* process does not end while it copies before five minutes went by              *)
(* (tray/mod.rs 363-366, 406-417).  The exception is an assembly whose news      *)
(* came between the look and the mark of a user's pause.                         *)
ShownIsNotCut ==
    \A j \in quit.shown \ crossed :
        at[j] = "copying" =>
            /\ j \notin told
            /\ quit.pc = "gone" /\ j \in quit.seen => clock = "long_passed"

(* What ran when the exit was asked for has its row written before the process   *)
(* ends, unless it was past pausing (daemon/mod.rs 118-121).                     *)
InFlightIsSaved ==
    quit.pc = "gone" =>
        \A j \in owed : at[j] \in {"refused", "copying", "verifying"}

(* A quit that was asked for ends, whatever the runs do (tray/mod.rs 375-376).   *)
QuitEnds == exiting ~> quit.pc = "gone"

(* The claim of tray/mod.rs 363-366: the exit waits for a download being         *)
(* assembled, be it one whose assembly began after the exit last looked (up to   *)
(* the five minutes of its deadline).                                            *)
ExitWaitsForAssembly ==
    quit.pc = "gone" /\ clock # "long_passed" => \A j \in quit.seen \ told : at[j] # "copying"

(* The same claim of the assemblies the exit has shown, without the exception.   *)
ShownIsFinished ==
    quit.pc = "gone" /\ clock # "long_passed" =>
        \A j \in quit.shown \cap quit.seen : at[j] # "copying"

(* The claim of state.rs 879-881: whatever starts work refuses once the exit has *)
(* been claimed.                                                                 *)
NothingStartsLate == [][exiting => running' \subseteq running]_vars

(* The claim of tray/mod.rs 390-392: every run the exit counts signals when it   *)
(* ends, so the wait never hangs on runs that are over.                          *)
EveryEndSignals ==
    quit.pc = "wait" /\ ~quit.woken => \E j \in quit.seen : at[j] # "refused"
===============================================================================
