----------------------------- MODULE JobLifecycle -----------------------------
(* One download in data/state.rs: its registry entry, the calls that act on it *)
(* (start, pause, cancel, restart, remove), the run task a start spawns, the   *)
(* edits that rebuild the entry beneath all of them, and its database row.     *)
(*                                                                             *)
(* The registry maps the job to an Arc<JobEntry>.  An edit cannot change the   *)
(* Arc in place: it swaps in a copy (`clone_entry_with_job`), flags and token  *)
(* included, so whoever captured the previous Arc goes on reading and writing  *)
(* an orphan.  Each Arc is a generation here: `cur` is the one in the map, and *)
(* every caller and every run keeps the generation it captured.                *)
(*                                                                             *)
(* A step is what the code does under one lock, or between two awaits.         *)
EXTENDS Naturals, FiniteSets

CONSTANTS
    Callers,       (* concurrent IPC connections, tray, scheduler...           *)
    Ops,           (* the operations they may call                             *)
    MaxRuns,       (* bound on runs started                                    *)
    MaxGens,       (* bound on entry generations                               *)
    MaxEdits,      (* bound on edits made while the daemon runs                *)
    MaxCrashes,    (* bound on daemon crashes                                  *)
    GraceExpires   (* the 3 s in settle_previous_run may run out               *)

ASSUME LifecycleAssumption ==
    /\ Ops \subseteq {"start", "pause", "cancel", "restart", "remove"}
    /\ MaxRuns \in Nat
    /\ MaxGens \in Nat \ {0}
    /\ MaxEdits \in Nat
    /\ MaxCrashes \in Nat
    /\ GraceExpires \in BOOLEAN

VARIABLES
    top, cur,      (* generations made so far; the one in the map, 0 if gone   *)
    running,       (* generations whose `running` flag is set                  *)
    phase,         (* phase[g]: `live_phase`                                   *)
    token,         (* token[g]: `cancel`, named by the run that installed it   *)
    rooted,        (* generations whose job has a `work_root`                  *)
    cancelled,     (* tokens that have been cancelled                          *)
    nextRun, run,  (* runs claimed so far; run[r]: where run r is (`at`), the  *)
                   (* entry it captured (`ref`) and what it came back with     *)
    caller,        (* what each caller is doing (`pc`) for which operation, the*)
                   (* entry it captured last (`ref`), the one a restart keeps  *)
                   (* (`own`) and the run it has claimed (`mine`)              *)
    row, loaded,   (* the stored phase; the phase inside the entry's `job`     *)
    read, newest,  (* read[x]: the phase x has read and not stored yet; where  *)
                   (* the one read last has got to                             *)
    unsaved,       (* edits made whose job is still to be stored               *)
    edits, crashes (* how much of MaxEdits and MaxCrashes is used up           *)

registry == <<top, cur, running, phase, token, rooted>>
runs == <<nextRun, cancelled, run>>
disk == <<row, loaded, read, newest, unsaved>>
bounds == <<edits, crashes>>
vars == <<registry, runs, caller, disk, bounds>>

Gens == 1 .. MaxGens
Runs == 1 .. MaxRuns
NoRun == 0
Phases == {"Queued", "Evaluating", "Downloading", "Assembling",
           "Paused", "Completed", "Failed", "Conflict"}
RunningPhases == {"Evaluating", "Downloading", "Assembling"}
Outcomes == {"none", "ok", "cancelled", "failed", "conflict", "parked"}
PCs == {"idle", "settle", "admit", "token", "supersede", "setup", "root", "rootstore", "spawn",
        "pcheck", "pcancel", "pmark", "persist", "store", "requeue", "reset", "persist2",
        "store2", "rrow", "rlist"}
TaskStates == {"fetching", "assembling", "ended", "writing", "persisting", "storing",
               "parking", "releasing"}

(* Whoever runs persist_job; and where a phase read by one may be.             *)
CallerHand(c) == <<"caller", c>>
RunHand(r) == <<"run", r>>
Hands == {CallerHand(c) : c \in Callers} \cup {RunHand(r) : r \in Runs}
OnDisk == <<"disk", 0>>
Lost == <<"lost", 0>>

NotRun == [at |-> "none", ref |-> 0, out |-> "none"]
Over == [at |-> "done", ref |-> 0, out |-> "none"]
Idle == [pc |-> "idle", op |-> "none", ref |-> 0, own |-> 0, mine |-> NoRun]

RunStates == {NotRun, Over} \cup [at : {"setup"}, ref : {0}, out : {"none"}]
                             \cup [at : TaskStates, ref : Gens, out : Outcomes]
CallerStates == [pc : PCs, op : Ops \cup {"none"}, ref : {0} \cup Gens,
                 own : {0} \cup Gens, mine : {NoRun} \cup Runs]

(* A run that has claimed the job and not let go of it.                        *)
Live(r) == run[r].at \notin {"none", "done"}
NoneLive == \A r \in Runs : ~Live(r)
NoCalls == \A c \in Callers : caller[c].pc = "idle"

TypeOK ==
    /\ top \in Gens
    /\ cur \in 0 .. top
    /\ running \subseteq Gens
    /\ rooted \subseteq Gens
    /\ phase \in [Gens -> Phases]
    /\ token \in [Gens -> 0 .. MaxRuns]
    /\ cancelled \subseteq 0 .. MaxRuns
    /\ nextRun \in 0 .. MaxRuns
    /\ run \in [Runs -> RunStates]
    /\ caller \in [Callers -> CallerStates]
    /\ row \in Phases \cup {"absent"}
    /\ loaded \in Phases
    /\ read \in [Hands -> Phases \cup {"absent"}]
    /\ newest \in {OnDisk, Lost} \cup Hands
    /\ unsaved \in 0 .. edits
    /\ edits \in 0 .. MaxEdits
    /\ crashes \in 0 .. MaxCrashes

(* Store::into_job: a phase that cannot survive a restart comes back Paused.   *)
Demoted(p) == IF p \in RunningPhases THEN "Paused" ELSE p

(* A job as the daemon loads it: stopped, nothing installed but a fresh token. *)
Init ==
    /\ top = 1 /\ cur = 1
    /\ running = {}
    /\ row \in {"Queued", "Paused"}
    /\ loaded = row
    /\ phase = [g \in Gens |-> row]
    /\ token = [g \in Gens |-> NoRun]
    /\ rooted \in {{}, {1}}
    /\ cancelled = {}
    /\ nextRun = 0
    /\ run = [r \in Runs |-> NotRun]
    /\ caller = [c \in Callers |-> Idle]
    /\ read = [x \in Hands |-> "absent"]
    /\ newest = OnDisk
    /\ unsaved = 0 /\ edits = 0 /\ crashes = 0

-------------------------------------------------------------------------------
(* Entries.                                                                    *)

ToldToStop(g) == token[g] \in cancelled
WindingDown(g) == g \in running /\ (ToldToStop(g) \/ phase[g] \notin RunningPhases)

SetPhase(g, p) == phase' = [phase EXCEPT ![g] = p]

SetRunPhase_Late(g, p) == SetPhase(g, p)

(* JobEntry::set_run_phase: what a run told to stop still reports is ignored.  *)
SetRunPhase(g, p) == IF ToldToStop(g) THEN UNCHANGED phase ELSE SetPhase(g, p)

CopyRunning_Forgotten(g, new) == running

(* clone_entry_with_job(g), swapped into the map under the write lock.         *)
CopyRunning(g, new) == IF g \in running THEN running \cup {new} ELSE running

Replace(g) ==
    LET new == top + 1 IN
    /\ top < MaxGens
    /\ top' = new
    /\ cur' = new
    /\ running' = CopyRunning(g, new)
    /\ phase' = [phase EXCEPT ![new] = phase[g]]
    /\ token' = [token EXCEPT ![new] = token[g]]

Rebuild(g) ==
    Replace(g) /\ rooted' = IF g \in rooted THEN rooted \cup {top + 1} ELSE rooted

RebuildRooted(g) == Replace(g) /\ rooted' = rooted \cup {top + 1}

-------------------------------------------------------------------------------
(* The row.  `newest` follows the phase read last: a later write that does not *)
(* come from that reading, or the removal of the job, loses it.                *)

Overwritten == newest' = IF newest = OnDisk THEN Lost ELSE newest

ReadLive_Unspliced(x) ==
    /\ read' = [read EXCEPT ![x] = loaded]
    /\ newest' = x
    /\ UNCHANGED <<row, loaded, unsaved>>

(* persist_job reads the live state of the entry in the map, lets go of the    *)
(* registry ...                                                                *)
ReadLive(x) ==
    /\ read' = [read EXCEPT ![x] = phase[cur]]
    /\ newest' = x
    /\ UNCHANGED <<row, loaded, unsaved>>

(* ... and awaits the write of what it has read.                               *)
StoreRead(x) ==
    /\ row' = read[x]
    /\ read' = [read EXCEPT ![x] = "absent"]
    /\ IF newest = x THEN newest' = OnDisk ELSE Overwritten
    /\ UNCHANGED <<loaded, unsaved>>

(* The `job` of an entry, stored as it stands: its `status` is still the one   *)
(* read when the job was loaded.                                               *)
StoreLoaded ==
    /\ row' = loaded
    /\ Overwritten
    /\ UNCHANGED <<loaded, read>>

(* Every edit of a job (queue move, category, speed limit, adopted file name)  *)
(* rebuilds the entry, and stores the new `job` once the registry is unlocked. *)
Edit ==
    /\ cur # 0
    /\ edits < MaxEdits
    /\ Rebuild(cur)
    /\ unsaved' = unsaved + 1
    /\ edits' = edits + 1
    /\ UNCHANGED <<runs, caller, row, loaded, read, newest, crashes>>

StoreEdit ==
    /\ unsaved > 0
    /\ StoreLoaded
    /\ unsaved' = unsaved - 1
    /\ UNCHANGED <<registry, runs, caller, bounds>>

-------------------------------------------------------------------------------
(* Callers.                                                                    *)

At(c, label) == caller[c].pc = label
Goto(c, label) == caller' = [caller EXCEPT ![c].pc = label]
GotoWith(c, label, g) == caller' = [caller EXCEPT ![c].pc = label, ![c].ref = g]
Return(c) == caller' = [caller EXCEPT ![c] = Idle]

FirstPC == [start |-> "settle", pause |-> "pcancel", cancel |-> "pcancel",
            restart |-> "pcheck", remove |-> "rrow"]

(* A call arrives.  Each begins by looking the job up; pause and restart refuse*)
(* while the final file is assembled, remove while the job is running.         *)
Call(c, o) ==
    /\ At(c, "idle")
    /\ cur # 0
    /\ o \in {"pause", "cancel", "restart"} => phase[cur] # "Assembling"
    /\ o = "remove" => cur \notin running
    /\ caller' = [caller EXCEPT ![c] =
         [pc |-> FirstPC[o], op |-> o, ref |-> cur,
          own |-> IF o = "restart" THEN cur ELSE 0, mine |-> NoRun]]
    /\ UNCHANGED <<registry, runs, disk, bounds>>

MaySettle_NoGrace(c) == ~WindingDown(caller[c].ref) \/ cur = 0

(* settle_previous_run: wait while the captured entry is winding down, looking *)
(* it up again each round, until the grace runs out.                           *)
MaySettle(c) == ~WindingDown(caller[c].ref) \/ cur = 0 \/ GraceExpires

Settle(c) ==
    /\ At(c, "settle")
    /\ \/ MaySettle(c) /\ Goto(c, "admit")
       \/ /\ WindingDown(caller[c].ref)
          /\ cur \notin {0, caller[c].ref}
          /\ GotoWith(c, "settle", cur)
    /\ UNCHANGED <<registry, runs, disk, bounds>>

Claimable_Captured(c) == caller[c].ref

(* The claim is made on the entry the map holds now, not on the one captured.  *)
Claimable(c) == cur

(* The decision and the claim, under the admission and registry locks: a job   *)
(* that is gone or already running ends the call; a full cap defers it (the    *)
(* caps are another module's, here the answer is a choice).                    *)
Admit(c) ==
    LET g == Claimable(c) IN
    /\ At(c, "admit")
    /\ \/ /\ cur = 0 \/ g \in running
          /\ Return(c)
          /\ UNCHANGED <<phase, running, nextRun, run>>
       \/ /\ cur # 0 /\ g \notin running
          /\ SetPhase(g, "Queued")
          /\ Return(c)
          /\ UNCHANGED <<running, nextRun, run>>
       \/ /\ cur # 0 /\ g \notin running
          /\ nextRun < MaxRuns
          /\ running' = running \cup {g}
          /\ SetPhase(g, "Evaluating")
          /\ nextRun' = nextRun + 1
          /\ run' = [run EXCEPT ![nextRun'].at = "setup"]
          /\ caller' = [caller EXCEPT ![c].pc = "token", ![c].ref = g, ![c].mine = nextRun']
    /\ UNCHANGED <<top, cur, token, rooted, cancelled, disk, bounds>>

(* The fresh cancel token, once the locks are dropped, in the claimed entry.   *)
InstallToken(c) ==
    /\ At(c, "token")
    /\ token' = [token EXCEPT ![caller[c].ref] = caller[c].mine]
    /\ Goto(c, "supersede")
    /\ UNCHANGED <<top, cur, running, phase, rooted, runs, disk, bounds>>

(* supersede_last_run: when the last run left verdicts, the entry is rebuilt   *)
(* from the map's, or from the captured one when the job is gone.              *)
Supersede(c) ==
    /\ At(c, "supersede")
    /\ \/ Goto(c, "setup") /\ UNCHANGED registry
       \/ /\ Rebuild(IF cur = 0 THEN caller[c].ref ELSE cur)
          /\ GotoWith(c, "setup", top')
    /\ UNCHANGED <<runs, disk, bounds>>

CreateWorkDir_KeepsClaim(c) ==
    /\ At(c, "setup")
    /\ \/ /\ Goto(c, IF caller[c].ref \in rooted THEN "spawn" ELSE "root")
          /\ UNCHANGED <<phase, run>>
       \/ /\ SetPhase(caller[c].ref, "Queued")
          /\ run' = [run EXCEPT ![caller[c].mine] = Over]
          /\ Return(c)
    /\ UNCHANGED <<top, cur, running, token, rooted, nextRun, cancelled, disk, bounds>>

CreateWorkDir_KeepsPhase(c) ==
    /\ At(c, "setup")
    /\ \/ /\ Goto(c, IF caller[c].ref \in rooted THEN "spawn" ELSE "root")
          /\ UNCHANGED <<running, run>>
       \/ /\ running' = running \ {caller[c].ref}
          /\ run' = [run EXCEPT ![caller[c].mine] = Over]
          /\ Return(c)
    /\ UNCHANGED <<top, cur, phase, token, rooted, nextRun, cancelled, disk, bounds>>

(* The cache folder.  A folder that cannot be created undoes the claim.        *)
CreateWorkDir(c) ==
    LET g == caller[c].ref IN
    /\ At(c, "setup")
    /\ \/ /\ Goto(c, IF g \in rooted THEN "spawn" ELSE "root")
          /\ UNCHANGED <<running, phase, run>>
       \/ /\ running' = running \ {g}
          /\ SetPhase(g, "Queued")
          /\ run' = [run EXCEPT ![caller[c].mine] = Over]
          /\ Return(c)
    /\ UNCHANGED <<top, cur, token, rooted, nextRun, cancelled, disk, bounds>>

(* record_work_root: rebuild with the folder recorded, then store that job.    *)
RecordWorkRoot(c) ==
    /\ At(c, "root")
    /\ IF cur = 0 \/ cur \in rooted
       THEN GotoWith(c, "spawn", IF cur = 0 THEN caller[c].ref ELSE cur) /\ UNCHANGED registry
       ELSE RebuildRooted(cur) /\ GotoWith(c, "rootstore", top')
    /\ UNCHANGED <<runs, disk, bounds>>

StoreWorkRoot(c) ==
    /\ At(c, "rootstore")
    /\ StoreLoaded
    /\ Goto(c, "spawn")
    /\ UNCHANGED <<registry, runs, unsaved, bounds>>

(* tokio::spawn of the run task, which keeps the entry captured so far.        *)
Spawn(c) ==
    /\ At(c, "spawn")
    /\ run' = [run EXCEPT ![caller[c].mine].at = "fetching",
                          ![caller[c].mine].ref = caller[c].ref]
    /\ Return(c)
    /\ UNCHANGED <<registry, nextRun, cancelled, disk, bounds>>

(* The pause inside restart_job looks the job up again; its refusal is ignored.*)
PauseCheck(c) ==
    /\ At(c, "pcheck")
    /\ IF cur # 0 /\ phase[cur] # "Assembling"
       THEN GotoWith(c, "pcancel", cur)
       ELSE Goto(c, "reset")
    /\ UNCHANGED <<registry, runs, disk, bounds>>

(* pause_in_place: cancel the token of the entry captured for the refusal ...  *)
PauseCancel(c) ==
    /\ At(c, "pcancel")
    /\ cancelled' = cancelled \cup {token[caller[c].ref]}
    /\ Goto(c, "pmark")
    /\ UNCHANGED <<registry, nextRun, run, disk, bounds>>

(* ... then mark the entry the map holds by then, under the write lock.        *)
PauseMark(c) ==
    /\ At(c, "pmark")
    /\ IF cur = 0 THEN UNCHANGED phase ELSE SetPhase(cur, "Paused")
    /\ Goto(c, "persist")
    /\ UNCHANGED <<top, cur, running, token, rooted, runs, disk, bounds>>

(* What the calls built on a pause go on to.                                   *)
AfterPause(c) ==
    \/ caller[c].op = "cancel" /\ Goto(c, "requeue")
    \/ caller[c].op = "restart" /\ Goto(c, "reset")
    \/ caller[c].op \notin {"cancel", "restart"} /\ Return(c)

(* The end of a pause: persist_job, which does nothing once the entry is gone. *)
Persist(c) ==
    /\ At(c, "persist")
    /\ IF cur = 0 THEN AfterPause(c) /\ UNCHANGED disk
                  ELSE Goto(c, "store") /\ ReadLive(CallerHand(c))
    /\ UNCHANGED <<registry, runs, bounds>>

Store(c) ==
    /\ At(c, "store")
    /\ StoreRead(CallerHand(c))
    /\ AfterPause(c)
    /\ UNCHANGED <<registry, runs, bounds>>

(* cancel_to_queued, after its pause.                                          *)
Requeue(c) ==
    /\ At(c, "requeue")
    /\ IF cur = 0 THEN Return(c) /\ UNCHANGED phase
                  ELSE Goto(c, "persist2") /\ SetPhase(cur, "Queued")
    /\ UNCHANGED <<top, cur, running, token, rooted, runs, disk, bounds>>

(* restart_job, after its pause: delete the work directory and reset the entry *)
(* captured when the restart began.                                            *)
Reset(c) ==
    /\ At(c, "reset")
    /\ SetPhase(caller[c].own, "Queued")
    /\ Goto(c, "persist2")
    /\ UNCHANGED <<top, cur, running, token, rooted, runs, disk, bounds>>

(* Both persist again; a restart then starts the job.                          *)
AfterRequeue(c) ==
    IF caller[c].op = "restart" /\ cur # 0 THEN GotoWith(c, "settle", cur) ELSE Return(c)

PersistAgain(c) ==
    /\ At(c, "persist2")
    /\ IF cur = 0 THEN AfterRequeue(c) /\ UNCHANGED disk
                  ELSE Goto(c, "store2") /\ ReadLive(CallerHand(c))
    /\ UNCHANGED <<registry, runs, bounds>>

StoreAgain(c) ==
    /\ At(c, "store2")
    /\ StoreRead(CallerHand(c))
    /\ AfterRequeue(c)
    /\ UNCHANGED <<registry, runs, bounds>>

(* remove, after its check and the file deletions: the row, then the entry.    *)
RemoveRow(c) ==
    /\ At(c, "rrow")
    /\ row' = "absent"
    /\ Overwritten
    /\ Goto(c, "rlist")
    /\ UNCHANGED <<registry, runs, loaded, read, unsaved, bounds>>

RemoveEntry(c) ==
    /\ At(c, "rlist")
    /\ cur' = 0
    /\ newest' = Lost
    /\ Return(c)
    /\ UNCHANGED <<top, running, phase, token, rooted, runs, row, loaded, read, unsaved, bounds>>

-------------------------------------------------------------------------------
(* The run task.                                                               *)

RunTo(r, s) == run' = [run EXCEPT ![r].at = s]

(* An odl event of a transfer reaches the entry in the map (apply_to_job).     *)
RunReports(r) ==
    /\ run[r].at = "fetching"
    /\ cur # 0
    /\ SetRunPhase(cur, "Downloading")
    /\ UNCHANGED <<top, cur, running, token, rooted, runs, caller, disk, bounds>>

RunAssembles(r) ==
    /\ run[r].at = "fetching"
    /\ RunTo(r, "assembling")
    /\ IF cur = 0 THEN UNCHANGED phase ELSE SetRunPhase(cur, "Assembling")
    /\ UNCHANGED <<top, cur, running, token, rooted, nextRun, cancelled, caller, disk, bounds>>

(* JobRunner::run returns.  Only a run whose token was cancelled comes back    *)
(* cancelled, and its Cancelled event has marked the entry by then.            *)
RunEnds(r, o) ==
    /\ run[r].at \in {"fetching", "assembling"}
    /\ o = "cancelled" => r \in cancelled
    /\ run' = [run EXCEPT ![r].at = "ended", ![r].out = o]
    /\ IF o = "cancelled" /\ cur # 0 THEN SetPhase(cur, "Paused") ELSE UNCHANGED phase
    /\ UNCHANGED <<top, cur, running, token, rooted, nextRun, cancelled, caller, disk, bounds>>

Epilogue_MustFind(r) ==
    /\ run[r].at = "ended"
    /\ run' = [run EXCEPT ![r].at = "writing", ![r].ref = cur]
    /\ UNCHANGED <<registry, nextRun, cancelled, caller, disk, bounds>>

(* The epilogue looks the entry up once ...                                    *)
Epilogue(r) ==
    /\ run[r].at = "ended"
    /\ run' = [run EXCEPT ![r].at = "writing", ![r].ref = IF cur = 0 THEN @ ELSE cur]
    /\ UNCHANGED <<registry, nextRun, cancelled, caller, disk, bounds>>

(* ... writes the outcome into it ...                                          *)
WriteOutcome(r) ==
    /\ run[r].at = "writing"
    /\ SetPhase(run[r].ref, IF run[r].out = "ok" THEN "Completed"
                            ELSE IF run[r].out = "cancelled" THEN "Paused" ELSE "Failed")
    /\ RunTo(r, "persisting")
    /\ UNCHANGED <<top, cur, running, token, rooted, nextRun, cancelled, caller, disk, bounds>>

(* ... persists it, parking a conflict nobody has a window open to answer ...  *)
AfterOutcome(r) ==
    \/ RunTo(r, "releasing")
    \/ run[r].out = "conflict" /\ RunTo(r, "parking")

PersistOutcome(r) ==
    /\ run[r].at = "persisting"
    /\ IF cur = 0 THEN AfterOutcome(r) /\ UNCHANGED disk
                  ELSE RunTo(r, "storing") /\ ReadLive(RunHand(r))
    /\ UNCHANGED <<registry, nextRun, cancelled, caller, bounds>>

StoreOutcome(r) ==
    /\ run[r].at = "storing"
    /\ StoreRead(RunHand(r))
    /\ AfterOutcome(r)
    /\ UNCHANGED <<registry, nextRun, cancelled, caller, bounds>>

Park_Unstored(r) ==
    /\ run[r].at = "parking"
    /\ IF cur = 0 THEN UNCHANGED phase ELSE SetPhase(cur, "Conflict")
    /\ RunTo(r, "releasing")
    /\ UNCHANGED <<top, cur, running, token, rooted, nextRun, cancelled, caller, disk, bounds>>

(* ... (park_with_conflict: the map's entry, which is persisted once more) ... *)
Park(r) ==
    /\ run[r].at = "parking"
    /\ IF cur = 0 THEN UNCHANGED phase ELSE SetPhase(cur, "Conflict")
    /\ run' = [run EXCEPT ![r].at = "persisting", ![r].out = "parked"]
    /\ UNCHANGED <<top, cur, running, token, rooted, nextRun, cancelled, caller, disk, bounds>>

(* ... and only then lets go of the job.                                       *)
Release(r) ==
    /\ run[r].at = "releasing"
    /\ running' = running \ {run[r].ref}
    /\ run' = [run EXCEPT ![r] = Over]
    /\ UNCHANGED <<top, cur, phase, token, rooted, nextRun, cancelled, caller, disk, bounds>>

-------------------------------------------------------------------------------
(* The daemon dies and is started again: what the row says is what comes back. *)
Crash ==
    /\ crashes < MaxCrashes
    /\ row # "absent"
    /\ crashes' = crashes + 1
    /\ top' = 1 /\ cur' = 1
    /\ running' = {}
    /\ loaded' = Demoted(row)
    /\ phase' = [g \in Gens |-> loaded']
    /\ token' = [g \in Gens |-> NoRun]
    /\ rooted' = IF rooted = {} THEN {} ELSE {1}
    /\ cancelled' = {}
    /\ run' = [r \in Runs |-> IF r <= nextRun THEN Over ELSE NotRun]
    /\ caller' = [c \in Callers |-> Idle]
    /\ read' = [x \in Hands |-> "absent"]
    /\ newest' = OnDisk
    /\ unsaved' = 0
    /\ UNCHANGED <<nextRun, row, edits>>

CallerStep(c) ==
    \/ Settle(c) \/ Admit(c) \/ InstallToken(c) \/ Supersede(c)
    \/ CreateWorkDir(c) \/ RecordWorkRoot(c) \/ StoreWorkRoot(c) \/ Spawn(c)
    \/ PauseCheck(c) \/ PauseCancel(c) \/ PauseMark(c) \/ Persist(c) \/ Store(c)
    \/ Requeue(c) \/ Reset(c) \/ PersistAgain(c) \/ StoreAgain(c)
    \/ RemoveRow(c) \/ RemoveEntry(c)

RunStep(r) ==
    \/ RunReports(r) \/ RunAssembles(r)
    \/ \E o \in Outcomes \ {"none", "parked"} : RunEnds(r, o)
    \/ Epilogue(r) \/ WriteOutcome(r) \/ PersistOutcome(r) \/ StoreOutcome(r)
    \/ Park(r) \/ Release(r)

Next ==
    \/ \E c \in Callers : CallerStep(c) \/ \E o \in Ops : Call(c, o)
    \/ \E r \in Runs : RunStep(r)
    \/ Edit
    \/ StoreEdit
    \/ Crash

Spec == Init /\ [][Next]_vars

(* Only the calls themselves are fair: a call that arrived is carried on by    *)
(* its own task.  Nothing is assumed of a transfer, which may never end.       *)
FairSpec == Spec /\ \A c \in Callers : WF_vars(CallerStep(c))

-------------------------------------------------------------------------------
(* Properties.                                                                 *)

(* Two starts never drive one download: "a second Start would spawn a second   *)
(* runner over the same parts" (start_run).                                    *)
SingleRunner ==
    \A r, s \in Runs : Live(r) /\ Live(s) => r = s

(* The registry never says a download is idle while a run has it: that flag is *)
(* all that keeps Remove from deleting files beneath a run.                    *)
LiveRunIsRegistered ==
    (cur # 0 /\ ~NoneLive) => cur \in running

(* Once the run in the map has been told to stop, no event still queued from   *)
(* before the pause makes the job look busy; only a new claim does.            *)
StoppedRunStaysStopped ==
    [][(cur # 0 /\ ToldToStop(cur) /\ cur' = cur
          /\ phase'[cur] # phase[cur] /\ phase'[cur] \in RunningPhases)
       => nextRun' # nextRun]_vars

(* A run that is over gives the job back: the flag outlives no run.            *)
RunningReleased ==
    NoneLive => cur \notin running

(* The epilogue gives the job back, whatever was edited while it ran.          *)
EpilogueReleases ==
    [][\A r \in Runs : (run[r].at = "releasing" /\ run'[r].at = "done") => cur \notin running']_vars

(* A run that is over leaves its outcome in the entry windows read, never the  *)
(* last phase it reported while it was going.                                  *)
SettledPhase ==
    (cur # 0 /\ NoneLive) => phase[cur] \notin RunningPhases

(* A download that has stopped, with no run and no call left to change it.     *)
AtRest ==
    /\ NoneLive /\ NoCalls /\ unsaved = 0
    /\ cur # 0 /\ phase[cur] \in {"Paused", "Completed", "Failed", "Conflict"}

(* How a download stopped survives the daemon, wherever it was stopped from:   *)
(* everyone who stops it reads it again before they let go, so unless somebody *)
(* wrote over the phase read last, it comes back as what the window showed.    *)
StopIsOnDisk ==
    (AtRest /\ newest = OnDisk) => Demoted(row) = phase[cur]

(* The same with no exception: nothing writes over it ("the fields ... need to *)
(* keep showing accurate data after a restart", persist_job).                  *)
StopIsNeverLost ==
    (AtRest /\ row # "absent") => Demoted(row) = phase[cur]

(* Start, Resume and Restart always answer, even when the run they wait for    *)
(* never lets go of the job.                                                   *)
StartAnswers ==
    \A c \in Callers : At(c, "settle") ~> At(c, "idle")

(* Paused means paused: with no call in flight, a job shown as Paused has no   *)
(* run left that nobody told to stop.                                          *)
PausedMeansStopping ==
    (cur # 0 /\ phase[cur] = "Paused" /\ NoCalls)
    => \A r \in Runs : Live(r) => r \in cancelled

(* A job is removed only while no run has it.                                  *)
RemoveSparesLiveRun ==
    cur = 0 => NoneLive

(* A removed job is gone from the database too.                                *)
RemovedStaysRemoved ==
    (NoneLive /\ NoCalls /\ cur = 0) => row = "absent"

(* A start that answers Ok without claiming the job found a run that is going, *)
(* not one that has been told to stop.                                         *)
StartedMeansRunning ==
    [][\A c \in Callers :
         (At(c, "admit") /\ At(c, "idle")' /\ cur \in running) => ~ToldToStop(cur)]_vars

(* A job sent back to Queued is shown as Paused only if somebody pauses it.    *)
QueuedIsPausedOnlyByPause ==
    [][(cur # 0 /\ cur' = cur /\ phase[cur] = "Queued" /\ phase'[cur] = "Paused")
       => \E c \in Callers : At(c, "pmark") /\ At(c, "persist")']_vars

(* Restart never deletes the parts under a run that is copying them into the   *)
(* final file: refused "so no path - window, list, tray, IPC - can do it".     *)
RestartSparesAssembly ==
    [][(\E c \in Callers : At(c, "reset") /\ ~At(c, "reset")')
       => \A r \in Runs : run[r].at # "assembling"]_vars

(* A finished download is not paused: "pausing a finished download would       *)
(* unfinish it" (the command line, which asks its snapshot; pause does not ask).*)
FinishedStaysFinished ==
    [][(cur # 0 /\ cur' = cur /\ phase[cur] = "Completed") => phase'[cur] # "Paused"]_vars
===============================================================================
