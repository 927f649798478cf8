------------------------------- MODULE QueueRuns -------------------------------
(* Queue runs in data/state.rs: how downloads are started on a queue's behalf, *)
(* held back by the concurrency caps, fed one after another as slots free, and *)
(* taken back by Stop queue and Pause all.                                     *)
(*                                                                             *)
(* Processes are the calls users, the scheduler and the browser make, and one  *)
(* finisher per download: the task its epilogue spawns to hand on the slot.    *)
(* All of them start downloads through start_run (mark, admit, launch) and a   *)
(* step is what happens under one lock.  What one download's own calls do to   *)
(* its entry is module JobLifecycle's; here the list order is abstracted (any  *)
(* candidate may be next) and a pause is one step.                             *)
EXTENDS Naturals, FiniteSets

CONSTANTS
    Jobs, Queues, Nil,
    QueueOf,       (* the queue of each download                               *)
    GlobalCap,     (* Settings::max_concurrent_downloads                       *)
    QueueCap,      (* Queue::max_concurrent, 0 for None                        *)
    Users, Ops,    (* who makes calls, and which                               *)
    MaxCalls,      (* bound on calls made                                      *)
    MaxRuns,       (* bound on runs claimed                                    *)
    Unlisted,      (* downloads that may still be added                        *)
    MayRefuse      (* a start may be refused (disk space, cache folder)        *)

ASSUME QueueAssumption ==
    /\ Nil \notin Jobs \cup Queues
    /\ IsFiniteSet(Jobs)
    /\ QueueOf \in [Jobs -> Queues]
    /\ GlobalCap \in Nat \ {0}
    /\ QueueCap \in [Queues -> Nat]
    /\ Ops \subseteq {"start_queue", "stop_queue", "pause_all", "stop_all", "resume_all",
                      "play", "pause", "add"}
    /\ Users \cap Jobs = {}
    /\ MaxCalls \in Nat /\ MaxRuns \in Nat
    /\ Unlisted \subseteq Jobs
    /\ MayRefuse \in BOOLEAN

VARIABLES
    phase,       (* phase[j]: the live phase, Evaluating to Reconnecting as one*)
    at,          (* at[j]: where the run of j is; "none" when `running` is off *)
    told,        (* downloads whose installed token has been cancelled         *)
    manual,      (* `manual_run`: the user aimed the current run at this one   *)
    deferred,    (* `deferred_by_cap`                                          *)
    mode,        (* mode[q]: the QueueRunTally of q, if there is one           *)
    failedNow,   (* failedNow[q]: what failed during this run                  *)
    proc,        (* what each process is doing                                 *)
    calls, claims (* how much of MaxCalls and MaxRuns is used up               *)

jobVars == <<phase, at, told, manual, deferred>>
queueVars == <<mode, failedNow>>
bounds == <<calls, claims>>
vars == <<jobVars, queueVars, proc, bounds>>

Procs == Users \cup Jobs
Phases == {"unlisted", "Queued", "Downloading", "Assembling", "Paused", "Completed", "Failed"}
RunningPhases == {"Downloading", "Assembling"}
Startable == {"Queued", "Paused", "Failed"}
Modes == {"none", "counting", "running", "suspended"}

Resting == [pc |-> "idle", op |-> "none", queue |-> Nil, job |-> Nil, back |-> "idle",
            todo |-> {}, tried |-> {}, was |-> "no", some |-> "no", budget |-> 0]

PCs == {"idle", "mark", "admit", "launch", "snapshot", "declare", "start_next", "resume_list",
        "resume_next", "feeds", "fill", "serve", "busy", "close", "switch_off", "clear", "sweep",
        "stop_check", "drop"}

TypeOK ==
    /\ phase \in [Jobs -> Phases]
    /\ at \in [Jobs -> {"none", "claimed", "live", "ended"}]
    /\ told \subseteq Jobs /\ manual \subseteq Jobs /\ deferred \subseteq Jobs
    /\ mode \in [Queues -> Modes]
    /\ failedNow \in [Queues -> SUBSET Jobs]
    /\ proc \in [Procs -> [pc : PCs, op : Ops \cup {"none", "finish"},
                           queue : Queues \cup {Nil}, job : Jobs \cup {Nil}, back : PCs,
                           todo : SUBSET Jobs, tried : SUBSET Jobs,
                           was : {"yes", "no"}, some : {"yes", "no"},
                           budget : Nat]]
    /\ calls \in 0 .. MaxCalls /\ claims \in 0 .. MaxRuns

(* A daemon just started: nothing runs, no queue does.                         *)
Init ==
    /\ phase \in [Jobs -> {"unlisted", "Queued", "Failed"}]
    /\ \A j \in Jobs : phase[j] = "unlisted" <=> j \in Unlisted
    /\ at = [j \in Jobs |-> "none"]
    /\ told = {} /\ manual = {} /\ deferred = {}
    /\ mode = [q \in Queues |-> "none"]
    /\ failedNow = [q \in Queues |-> {}]
    /\ proc = [p \in Procs |-> Resting]
    /\ calls = 0 /\ claims = 0

-------------------------------------------------------------------------------
(* Reading the lists.                                                          *)

InQueue(q) == {j \in Jobs : QueueOf[j] = q}
Running == {j \in Jobs : phase[j] \in RunningPhases}
CapOf(q) == IF QueueCap[q] = 0 THEN GlobalCap ELSE QueueCap[q]
GlobalFull == Cardinality(Running) >= GlobalCap

(* slots_full.                                                                 *)
SlotsFull(q) ==
    \/ GlobalFull
    \/ QueueCap[q] # 0 /\ Cardinality(Running \cap InQueue(q)) >= QueueCap[q]

FeedsItself(q) == mode[q] = "running"
Halted(q) == mode[q] \in {"counting", "suspended"}
WindingDown(j) == at[j] # "none" /\ (j \in told \/ phase[j] \notin RunningPhases)

(* Moving a process on.                                                        *)
At(p, label) == proc[p].pc = label
Goto(p, label) == proc' = [proc EXCEPT ![p].pc = label]
Return(p) == proc' = [proc EXCEPT ![p] = Resting]
StartRun(p, j, back) ==
    proc' = [proc EXCEPT ![p].pc = "mark", ![p].job = j, ![p].back = back,
                         ![p].tried = @ \cup {j}, ![p].todo = @ \ {j}]

-------------------------------------------------------------------------------
(* start_run, with the mark_run_intent every caller makes before it.           *)

Mark(p) ==
    /\ At(p, "mark")
    /\ manual' = IF proc[p].op = "play" THEN manual \cup {proc[p].job}
                                        ELSE manual \ {proc[p].job}
    /\ Goto(p, "admit")
    /\ UNCHANGED <<phase, at, told, deferred, queueVars, bounds>>

Answer_Uncounted(p, ok) ==
    IF proc[p].back = "idle" THEN Return(p)
    ELSE proc' = [proc EXCEPT ![p].pc = proc[p].back, ![p].job = Nil, ![p].back = "idle",
                              ![p].some = IF ok \in {"ok", "deferred"} THEN "yes" ELSE @,
                              ![p].budget = IF ok = "ok" THEN @ - 1 ELSE @]

(* What the caller makes of the answer: start_queue counts it, a user's call   *)
(* ends, the loops just go on.                                                 *)
Answer(p, ok) ==
    IF proc[p].back = "idle" THEN Return(p)
    ELSE proc' = [proc EXCEPT ![p].pc = proc[p].back, ![p].job = Nil, ![p].back = "idle",
                              ![p].some = IF ok \in {"ok", "deferred"} THEN "yes" ELSE @,
                              ![p].budget = IF ok = "ok" /\ @ > 0 THEN @ - 1 ELSE @]

ClaimPhase_Later(j) == UNCHANGED phase

(* The phase goes with the claim: every cap is counted by phase.               *)
ClaimPhase(j) == phase' = [phase EXCEPT ![j] = "Downloading"]

(* Settle, then the admission decision and the claim.                          *)
Admit(p) ==
    LET j == proc[p].job IN
    /\ At(p, "admit")
    /\ ~WindingDown(j)
    /\ \/ /\ at[j] # "none"
          /\ Answer(p, "ok")
          /\ UNCHANGED <<phase, at, deferred, claims>>
       \/ /\ at[j] = "none" /\ j \notin manual /\ SlotsFull(QueueOf[j])
          /\ deferred' = deferred \cup {j}
          /\ phase' = [phase EXCEPT ![j] = "Queued"]
          /\ Answer(p, "deferred")
          /\ UNCHANGED <<at, claims>>
       \/ /\ at[j] = "none" /\ (j \in manual \/ ~SlotsFull(QueueOf[j]))
          /\ claims < MaxRuns
          /\ claims' = claims + 1
          /\ at' = [at EXCEPT ![j] = "claimed"]
          /\ deferred' = deferred \ {j}
          /\ ClaimPhase(j)
          /\ Goto(p, "launch")
    /\ UNCHANGED <<told, manual, queueVars, calls>>

(* Not enough room on the disk: the job is left as it was, but a deferred one  *)
(* the slot filler tried is not called deferred any more.                      *)
Refuse(p) ==
    /\ MayRefuse
    /\ At(p, "admit")
    /\ deferred' = IF proc[p].back = "serve" THEN deferred \ {proc[p].job} ELSE deferred
    /\ Answer(p, "refused")
    /\ UNCHANGED <<phase, at, told, manual, queueVars, bounds>>

(* The fresh token, the tally joined, the run task spawned.                    *)
Launch(p) ==
    LET j == proc[p].job
        q == QueueOf[j]
    IN
    /\ At(p, "launch")
    /\ \/ /\ told' = told \ {j}
          /\ at' = [at EXCEPT ![j] = "live"]
          /\ mode' = [mode EXCEPT ![q] = IF @ = "none" THEN "counting" ELSE @]
          /\ Answer(p, "ok")
          /\ UNCHANGED <<phase, deferred>>
       \/ /\ MayRefuse
          /\ at' = [at EXCEPT ![j] = "none"]
          /\ phase' = [phase EXCEPT ![j] = "Queued"]
          /\ deferred' = IF proc[p].back = "serve" THEN deferred \ {j} ELSE deferred
          /\ Answer(p, "refused")
          /\ UNCHANGED <<told, mode>>
    /\ UNCHANGED <<manual, failedNow, bounds>>

-------------------------------------------------------------------------------
(* Calls.  The ones that only walk a list begin with the list; a schedule that *)
(* fires, and a job added to a queue whose trigger is "job added", are         *)
(* start_queue calls too.                                                      *)

Begin(p, o, label, q, jobs) ==
    /\ At(p, "idle")
    /\ o \in Ops
    /\ calls < MaxCalls
    /\ calls' = calls + 1
    /\ proc' = [proc EXCEPT ![p].op = o, ![p].pc = label, ![p].queue = q, ![p].todo = jobs]
    /\ UNCHANGED <<at, told, manual, deferred, failedNow, claims>>

StartQueue(p, q) == Begin(p, "start_queue", "snapshot", q, {}) /\ UNCHANGED <<phase, mode>>
StopQueue(p, q) == Begin(p, "stop_queue", "switch_off", q, {}) /\ UNCHANGED <<phase, mode>>

Play(p, j) ==
    /\ At(p, "idle") /\ "play" \in Ops /\ calls < MaxCalls
    /\ phase[j] \in Startable
    /\ calls' = calls + 1
    /\ proc' = [proc EXCEPT ![p].op = "play", ![p].pc = "mark", ![p].job = j]
    /\ UNCHANGED <<jobVars, queueVars, claims>>

Pause(p, j) ==
    /\ phase[j] \in Startable \cup RunningPhases
    /\ Begin(p, "pause", "sweep", Nil, {j})
    /\ UNCHANGED <<phase, mode>>

(* pause_all: every run is suspended first.                                    *)
PauseAll(p) ==
    /\ Begin(p, "pause_all", "clear", Nil, {})
    /\ mode' = [q \in Queues |-> IF mode[q] = "running" THEN "suspended" ELSE mode[q]]
    /\ UNCHANGED phase

(* stop_all: every tally is dropped, then pause_all.                           *)
StopAll(p) ==
    /\ Begin(p, "stop_all", "clear", Nil, {})
    /\ mode' = [q \in Queues |-> "none"]
    /\ UNCHANGED phase

(* resume_all lifts the suspension, then reads the list.                       *)
ResumeAll(p) ==
    /\ Begin(p, "resume_all", "resume_list", Nil, {})
    /\ mode' = [q \in Queues |-> IF mode[q] = "suspended" THEN "running" ELSE mode[q]]
    /\ UNCHANGED phase

(* add_job, and queue_took_a_job for a queue that is running.                  *)
AddJob(p, j) ==
    LET q == QueueOf[j] IN
    /\ phase[j] = "unlisted"
    /\ At(p, "idle") /\ "add" \in Ops /\ calls < MaxCalls
    /\ calls' = calls + 1
    /\ phase' = [phase EXCEPT ![j] = "Queued"]
    /\ IF mode[q] \in {"running", "suspended"}
       THEN proc' = [proc EXCEPT ![p].op = "add", ![p].pc = "feeds", ![p].queue = q]
       ELSE UNCHANGED proc
    /\ UNCHANGED <<at, told, manual, deferred, queueVars, claims>>

-------------------------------------------------------------------------------
(* start_queue.  The list is read, and refused as a whole when the disk is     *)
(* short.                                                                      *)

Snapshot(p) ==
    LET q == proc[p].queue
        running == Cardinality(Running \cap InQueue(q))
    IN
    /\ At(p, "snapshot")
    /\ \/ proc' = [proc EXCEPT ![p].pc = "declare",
                               ![p].todo = {j \in InQueue(q) : phase[j] \in Startable},
                               ![p].budget = IF running >= CapOf(q) THEN 0 ELSE CapOf(q) - running]
       \/ MayRefuse /\ Return(p)
    /\ UNCHANGED <<jobVars, queueVars, bounds>>

(* The run is declared before its first job starts.                            *)
Declare(p) ==
    LET q == proc[p].queue IN
    /\ At(p, "declare")
    /\ mode' = [mode EXCEPT ![q] = "running"]
    /\ failedNow' = IF mode[q] = "none" THEN [failedNow EXCEPT ![q] = {}] ELSE failedNow
    /\ proc' = [proc EXCEPT ![p].pc = "start_next",
                            ![p].was = IF FeedsItself(q) \/ mode[q] = "suspended" THEN "yes" ELSE "no"]
    /\ UNCHANGED <<jobVars, bounds>>

(* The loop, and after it the rollback when nothing could be started.          *)
StartNext(p) ==
    /\ At(p, "start_next")
    /\ \/ /\ proc[p].budget > 0
          /\ \E j \in proc[p].todo : StartRun(p, j, "start_next")
          /\ UNCHANGED mode
       \/ /\ proc[p].budget = 0 \/ proc[p].todo = {}
          /\ mode' = IF proc[p].some = "no" /\ proc[p].was = "no"
                     THEN [mode EXCEPT ![proc[p].queue] = "none"] ELSE mode
          /\ Return(p)
    /\ UNCHANGED <<jobVars, failedNow, bounds>>

ResumeList(p) ==
    /\ At(p, "resume_list")
    /\ proc' = [proc EXCEPT ![p].pc = "resume_next", ![p].todo = {j \in Jobs : phase[j] \in Startable}]
    /\ UNCHANGED <<jobVars, queueVars, bounds>>

ResumeNext(p) ==
    /\ At(p, "resume_next")
    /\ \/ \E j \in proc[p].todo : StartRun(p, j, "resume_next")
       \/ proc[p].todo = {} /\ Return(p)
    /\ UNCHANGED <<jobVars, queueVars, bounds>>

-------------------------------------------------------------------------------
(* stop_queue, pause_all, stop_all.                                            *)

SwitchOff(p) ==
    LET q == proc[p].queue IN
    /\ At(p, "switch_off")
    /\ mode' = [mode EXCEPT ![q] = IF @ = "none" THEN "none" ELSE "counting"]
    /\ proc' = [proc EXCEPT ![p].pc = "clear", ![p].was = IF mode[q] = "none" THEN "no" ELSE "yes"]
    /\ UNCHANGED <<jobVars, failedNow, bounds>>

ClearDeferrals(p) ==
    /\ At(p, "clear")
    /\ deferred' = IF proc[p].op = "stop_queue" THEN deferred \ InQueue(proc[p].queue) ELSE {}
    /\ Goto(p, "sweep")
    /\ UNCHANGED <<phase, at, told, manual, queueVars, bounds>>

(* queue_stop_targets, and pause_all's own list.                               *)
Targets(p) ==
    IF proc[p].op = "stop_queue"
    THEN {j \in InQueue(proc[p].queue) : phase[j] = "Downloading"} \ manual
    ELSE {j \in Jobs : at[j] # "none" /\ phase[j] # "Assembling"}

(* The sweep: offered once each, until a pass turns up nothing new.            *)
Sweep(p) ==
    LET new == Targets(p) \ proc[p].tried IN
    /\ At(p, "sweep") /\ proc[p].todo = {}
    /\ IF new = {} \/ proc[p].op = "pause"
       THEN IF proc[p].op = "stop_queue" /\ proc[p].was = "yes"
            THEN Goto(p, "stop_check") ELSE Return(p)
       ELSE proc' = [proc EXCEPT ![p].todo = new, ![p].tried = @ \cup new]
    /\ UNCHANGED <<jobVars, queueVars, bounds>>

(* pause, of one download of the pass: refused while it is assembled.          *)
PauseOne(p) ==
    /\ At(p, "sweep")
    /\ \E j \in proc[p].todo :
         /\ proc' = [proc EXCEPT ![p].todo = @ \ {j}]
         /\ IF phase[j] = "Assembling"
            THEN UNCHANGED <<phase, told, deferred>>
            ELSE /\ told' = told \cup {j}
                 /\ phase' = [phase EXCEPT ![j] = "Paused"]
                 /\ deferred' = deferred \ {j}
    /\ UNCHANGED <<at, manual, queueVars, bounds>>

(* stop_queue's end: the tally stays for a hand-started run, else it goes.     *)
StopCheck(p) ==
    /\ At(p, "stop_check")
    /\ IF Running \cap InQueue(proc[p].queue) \cap manual # {}
       THEN Return(p) ELSE Goto(p, "drop")
    /\ UNCHANGED <<jobVars, queueVars, bounds>>

DropTally(p) ==
    /\ At(p, "drop")
    /\ mode' = [mode EXCEPT ![proc[p].queue] = "none"]
    /\ Return(p)
    /\ UNCHANGED <<jobVars, failedNow, bounds>>

-------------------------------------------------------------------------------
(* Handing on a slot: the finisher of a run, and a job added to a running queue.*)

(* fill_queue_slots reads the run flag and what failed in this run.            *)
Feeds(p) ==
    LET q == proc[p].queue IN
    /\ At(p, "feeds")
    /\ IF FeedsItself(q)
       THEN proc' = [proc EXCEPT ![p].pc = "fill", ![p].todo = failedNow[q]]
       ELSE IF proc[p].op = "add" THEN Return(p)
            ELSE proc' = [proc EXCEPT ![p].pc = "serve", ![p].tried = {}]
    /\ UNCHANGED <<jobVars, queueVars, bounds>>

Fillable(p) ==
    {j \in InQueue(proc[p].queue) \ proc[p].tried :
        phase[j] \in {"Queued", "Paused"} \/ (phase[j] = "Failed" /\ j \notin proc[p].todo)}

FillMayStart_KeepsOne(p) ==
    LET q == proc[p].queue IN
    /\ FeedsItself(q)
    /\ ~GlobalFull
    /\ Cardinality(Running \cap InQueue(q)) + 1 < CapOf(q)
    /\ Fillable(p) # {}

FillMayStart(p) ==
    LET q == proc[p].queue IN
    /\ FeedsItself(q)
    /\ ~GlobalFull
    /\ Cardinality(Running \cap InQueue(q)) < CapOf(q)
    /\ Fillable(p) # {}

(* One turn of its loop.                                                       *)
FillNext(p) ==
    /\ At(p, "fill")
    /\ IF FillMayStart(p)
       THEN \E j \in Fillable(p) :
              proc' = [proc EXCEPT ![p].pc = "mark", ![p].job = j, ![p].back = "fill",
                                   ![p].tried = @ \cup {j}]
       ELSE IF proc[p].op = "add" THEN Return(p)
            ELSE proc' = [proc EXCEPT ![p].pc = "serve", ![p].tried = {}, ![p].todo = {}]
    /\ UNCHANGED <<jobVars, queueVars, bounds>>

Waiting == {j \in deferred : phase[j] = "Queued" /\ at[j] = "none"}

ServeNext_Retries(p) ==
    LET candidates == Waiting \ proc[p].tried IN
    /\ At(p, "serve")
    /\ \/ candidates = {} /\ Goto(p, "busy")
       \/ \E j \in candidates :
            IF SlotsFull(QueueOf[j]) \/ Halted(QueueOf[j])
            THEN UNCHANGED proc
            ELSE StartRun(p, j, "serve")
    /\ UNCHANGED <<jobVars, queueVars, bounds>>

(* One turn of fill_deferred_slots: a job whose queue is full or halted is     *)
(* passed over.                                                                *)
ServeNext(p) ==
    LET candidates == Waiting \ proc[p].tried IN
    /\ At(p, "serve")
    /\ \/ candidates = {} /\ Goto(p, "busy")
       \/ \E j \in candidates :
            IF SlotsFull(QueueOf[j]) \/ Halted(QueueOf[j])
            THEN proc' = [proc EXCEPT ![p].tried = @ \cup {j}]
            ELSE StartRun(p, j, "serve")
    /\ UNCHANGED <<jobVars, queueVars, bounds>>

(* maybe_finish_queue: look at the list under its lock ...                     *)
CheckBusy(p) ==
    /\ At(p, "busy")
    /\ IF \E j \in InQueue(proc[p].queue) : at[j] # "none" \/ phase[j] = "Queued"
       THEN Return(p) ELSE Goto(p, "close")
    /\ UNCHANGED <<jobVars, queueVars, bounds>>

(* ... then drop the tally under its own, reporting a run as finished.         *)
CloseRun(p) ==
    /\ At(p, "close")
    /\ mode' = [mode EXCEPT ![proc[p].queue] = "none"]
    /\ Return(p)
    /\ UNCHANGED <<jobVars, failedNow, bounds>>

-------------------------------------------------------------------------------
(* Runs.                                                                       *)

(* An event of the transfer; one told to stop is not listened to.              *)
Report(j, ph) ==
    /\ at[j] = "live" /\ j \notin told
    /\ phase' = [phase EXCEPT ![j] = ph]
    /\ UNCHANGED <<at, told, manual, deferred, queueVars, proc, bounds>>

(* The run ends; its outcome is tallied and written, the flag still set.       *)
End(j, ph) ==
    LET q == QueueOf[j] IN
    /\ at[j] = "live"
    /\ ph = "Paused" => j \in told
    /\ phase' = [phase EXCEPT ![j] = ph]
    /\ at' = [at EXCEPT ![j] = "ended"]
    /\ failedNow' = IF mode[q] = "none" THEN failedNow
                    ELSE [failedNow EXCEPT ![q] = IF ph = "Failed" THEN @ \cup {j} ELSE @ \ {j}]
    /\ UNCHANGED <<told, manual, deferred, mode, proc, bounds>>

(* The flag is cleared and the finisher spawned (one at a time per download).  *)
Release(j) ==
    /\ at[j] = "ended" /\ At(j, "idle")
    /\ at' = [at EXCEPT ![j] = "none"]
    /\ proc' = [proc EXCEPT ![j].op = "finish", ![j].pc = "feeds", ![j].queue = QueueOf[j],
                            ![j].tried = {j}]
    /\ UNCHANGED <<phase, told, manual, deferred, queueVars, bounds>>

UserCalls(p) ==
    \/ \E q \in Queues : StartQueue(p, q) \/ StopQueue(p, q)
    \/ \E j \in Jobs : Play(p, j) \/ Pause(p, j) \/ AddJob(p, j)
    \/ PauseAll(p) \/ StopAll(p) \/ ResumeAll(p)

Step(p) ==
    \/ Mark(p) \/ Admit(p) \/ Refuse(p) \/ Launch(p)
    \/ Snapshot(p) \/ Declare(p) \/ StartNext(p) \/ ResumeList(p) \/ ResumeNext(p)
    \/ SwitchOff(p) \/ ClearDeferrals(p) \/ Sweep(p) \/ PauseOne(p) \/ StopCheck(p) \/ DropTally(p)
    \/ Feeds(p) \/ FillNext(p) \/ ServeNext(p) \/ CheckBusy(p) \/ CloseRun(p)

RunEnds(j) == Release(j) \/ \E ph \in {"Completed", "Failed", "Paused"} : End(j, ph)

Next ==
    \/ \E p \in Users : UserCalls(p)
    \/ \E p \in Procs : Step(p)
    \/ \E j \in Jobs : RunEnds(j) \/ \E ph \in RunningPhases : Report(j, ph)

Spec == Init /\ [][Next]_vars

(* Every call is carried on by its task, and a run that was told to stop ends. *)
FairSpec ==
    /\ Spec
    /\ \A p \in Procs : WF_vars(Step(p))
    /\ \A j \in Jobs : WF_vars((at[j] = "ended" \/ j \in told) /\ RunEnds(j))

-------------------------------------------------------------------------------
(* Properties.                                                                 *)

(* Nobody starts a download by hand, and nobody pauses one.                    *)
AutomationOnly == Ops \subseteq {"start_queue", "resume_all", "add"}

(* A queue that is below its own cap finds the global one below its own, too:  *)
(* there is one queue, or the global cap is at least the sum of the queues'.   *)
CapsLeaveRoom ==
    \A R \in SUBSET Jobs :
        (\A q \in Queues : Cardinality(R \cap InQueue(q)) <= CapOf(q))
        => \A q \in Queues :
               Cardinality(R \cap InQueue(q)) < CapOf(q) => Cardinality(R) < GlobalCap

(* What automation starts stays inside both caps: "the queue's own             *)
(* max_concurrent and the global max_concurrent_downloads across every queue". *)
RunsWithinCaps ==
    /\ Cardinality(Running) <= GlobalCap
    /\ \A q \in Queues : Cardinality(Running \cap InQueue(q)) <= CapOf(q)

Quiet == (\A p \in Procs : At(p, "idle")) /\ (\A j \in Jobs : at[j] = "none")

(* A queue run never stalls (state.rs 4534-4538): when nothing is going on any *)
(* more, a run that is still open and not suspended has no queued download left*)
(* to start.  It holds under CapsLeaveRoom when no start is refused.           *)
NoStall ==
    Quiet => \A q \in Queues : FeedsItself(q) => \A j \in InQueue(q) : phase[j] # "Queued"

(* Every call returns, the sweeps and the slot fillers included.               *)
CallsReturn ==
    \A p \in Procs : ~At(p, "idle") ~> At(p, "idle")

(* Nothing the caps sent back waits for ever: "a job deferred by the global    *)
(* cap during Resume all would sit Queued with nothing ever coming back".      *)
DeferredIsServed ==
    Quiet => Waiting = {}

(* A slot filler claims a download only for a run that is on, or while the stop*)
(* that ended it is still sweeping: what it claims must not "outlive the stop" *)
(* (stop_queue).                                                               *)
FillerStopsWithRun ==
    [][\A p \in Procs :
         LET q == proc[p].queue IN
         (At(p, "admit") /\ proc[p].back = "fill" /\ At(p, "launch")')
         => \/ mode[q] \notin {"none", "counting"}
            \/ \E s \in Users : proc[s].queue = q /\ proc[s].pc \in {"clear", "sweep"}]_vars

(* A run is reported finished only when no download of its queue is running or *)
(* queued: the report arms the on-finish hooks.                                *)
FinishedMeansDrained ==
    [][\A p \in Procs :
         (At(p, "close") /\ At(p, "idle")' /\ mode[proc[p].queue] \in {"running", "suspended"})
         => \A j \in InQueue(proc[p].queue) : at[j] = "none" /\ phase[j] # "Queued"]_vars

(* stop_queue ends the run it switched off, never one started since.           *)
StopEndsItsOwnRun ==
    [][\A p \in Procs :
         (At(p, "drop") /\ At(p, "idle")') => ~FeedsItself(proc[p].queue)]_vars

(* "The flag always describes the current run": what the user started by hand  *)
(* is not relabelled as the queue's while it runs.                             *)
HandStartedStaysManual ==
    [][\A j \in Jobs : (j \in manual /\ at[j] # "none" /\ at'[j] # "none") => j \in manual']_vars
===============================================================================
