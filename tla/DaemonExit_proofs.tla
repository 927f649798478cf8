--------------------------- MODULE DaemonExit_proofs ---------------------------
(* What holds of the shutdown for any number of downloads.                       *)
EXTENDS DaemonExit, TLAPS

(* A download is flagged as running from its claim to the end of its run.        *)
FlagIsARun == \A j \in running : at[j] \in {"claimed", "fetching", "copying", "verifying"}

(* WakeupNotLost from the moment the exit has counted: every run it counted that *)
(* is over by now has woken it.                                                  *)
CountedIsHeard ==
    quit.pc \in {"look", "wait"} /\ ~quit.woken => \A j \in quit.seen : at[j] # "done"

QuitType ==
    [pc : {"none", "stop_queues", "pause_all", "arm", "count", "look", "wait",
           "pause_again", "cancel", "grace", "gone"},
     tried : SUBSET Jobs, todo : SUBSET Jobs, seen : SUBSET Jobs,
     assembling : SUBSET Jobs, shown : SUBSET Jobs, woken : BOOLEAN]

Handle == {Resting} \cup [pc : {"look", "tell", "mark"}, job : Jobs, stale : BOOLEAN]

IInv == TypeOK /\ FlagIsARun /\ CountedIsHeard

LEMMA InitInv == Init => IInv
<1> SUFFICES ASSUME Init PROVE IInv
  OBVIOUS
<1>1. pausing \in [Pausers -> Handle]
  BY DEF Init, Handle
<1>2. quit \in QuitType
  BY DEF Init, QuitType
<1>3. TypeOK
  BY <1>1, <1>2 DEF Init, TypeOK, Handle, QuitType, Stages, Phases
<1>4. FlagIsARun /\ CountedIsHeard
  BY DEF Init, FlagIsARun, CountedIsHeard
<1> QED
  BY <1>3, <1>4 DEF IInv

(* A step of a run: the exit's record changes only with the signal.              *)
LEMMA RunInv ==
    ASSUME IInv, NEW j \in Jobs, RunStep(j)
    PROVE  IInv'
<1> USE DEF IInv, TypeOK, FlagIsARun, CountedIsHeard, Stages, Phases, To, SetPhase,
            SetRunPhase
<1>1. CASE Notify(j)
  <2>1. quit' = [quit EXCEPT !.woken = quit.pc \in {"count", "look", "wait"}]
    BY <1>1 DEF Notify
  <2> DEFINE waits == quit.pc \in {"count", "look", "wait"}
  <2>2. waits \in BOOLEAN /\ (quit.pc \in {"look", "wait"} => waits)
    OBVIOUS
  <2>3. quit' = [quit EXCEPT !.woken = waits]
    BY <2>1
  <2> HIDE DEF waits
  <2>4. quit' \in QuitType /\ quit'.pc = quit.pc /\ quit'.seen = quit.seen /\ quit'.woken = waits
    BY <2>2, <2>3 DEF QuitType
  <2>5. TypeOK'
    BY <1>1, <2>4 DEF Notify, RunStep, QuitType
  <2>6. FlagIsARun'
    BY <1>1 DEF Notify
  <2>7. CountedIsHeard'
    BY <2>2, <2>4
  <2> QED
    BY <2>5, <2>6, <2>7
<1>2. CASE Ask(j) /\ UNCHANGED quit
  BY <1>2 DEF Ask, RunStep
<1>3. CASE Claim(j) /\ UNCHANGED quit
  BY <1>3 DEF Claim, RunStep
<1>4. CASE SetUpFails(j) /\ UNCHANGED quit
  BY <1>4 DEF SetUpFails, RunStep
<1>5. CASE Spawn(j) /\ UNCHANGED quit
  BY <1>5 DEF Spawn, RunStep
<1>6. CASE RunReports(j) /\ UNCHANGED quit
  BY <1>6 DEF RunReports, RunStep
<1>7. CASE Assembles(j) /\ UNCHANGED quit
  BY <1>7 DEF Assembles, RunStep
<1>8. CASE Pump(j) /\ UNCHANGED quit
  BY <1>8 DEF Pump, RunStep
<1>9. CASE Verifies(j) /\ UNCHANGED quit
  BY <1>9 DEF Verifies, RunStep
<1>10. CASE RunEnds(j) /\ UNCHANGED quit
  BY <1>10 DEF RunEnds, RunStep
<1> QED
  BY <1>1, <1>2, <1>3, <1>4, <1>5, <1>6, <1>7, <1>8, <1>9, <1>10 DEF RunStep

(* A step of a pause.                                                            *)
LEMMA PauseInv ==
    ASSUME IInv, NEW p \in Pausers, PauseStep(p)
    PROVE  IInv'
<1> USE DEF IInv, TypeOK, FlagIsARun, CountedIsHeard, Phases
<1>1. pausing \in [Pausers -> Handle]
  BY DEF Handle
<1>2. CASE PauseLook(p)
  <2> DEFINE j == pausing[p].job
             late == at[j] \in {"asked", "claimed"}
             handle == IF phase[j] = "Assembling" THEN Resting
                       ELSE [pc |-> "tell", job |-> j, stale |-> late]
  <2>1. pausing' = [pausing EXCEPT ![p] = handle]
    BY <1>2 DEF PauseLook
  <2>2. j \in Jobs
    BY <1>1, <1>2 DEF PauseLook, Handle, Resting
  <2>3. late \in BOOLEAN
    OBVIOUS
  <2> HIDE DEF late
  <2>4. handle \in Handle
    BY <2>2, <2>3 DEF Handle
  <2> HIDE DEF handle
  <2>5. pausing' \in [Pausers -> Handle]
    BY <1>1, <2>1, <2>4
  <2> QED
    BY <1>2, <2>5 DEF PauseLook, PauseStep, runVars, Handle
<1>3. CASE PauseTell(p)
  <2>1. pausing[p] \in [pc : {"look", "tell", "mark"}, job : Jobs, stale : BOOLEAN]
    BY <1>1, <1>3 DEF PauseTell, Handle, Resting
  <2>2. [pausing[p] EXCEPT !.pc = "mark"] \in Handle
    BY <2>1 DEF Handle
  <2>3. pausing' = [pausing EXCEPT ![p] = [pausing[p] EXCEPT !.pc = "mark"]]
    BY <1>1, <1>3 DEF PauseTell
  <2>4. pausing' \in [Pausers -> Handle]
    BY <1>1, <2>2, <2>3
  <2>5. told' \subseteq Jobs
    BY <2>1, <1>3 DEF PauseTell, Tell
  <2> QED
    BY <1>3, <2>4, <2>5 DEF PauseTell, PauseStep, Handle
<1>4. CASE PauseMark(p)
  <2>1. pausing' \in [Pausers -> Handle]
    BY <1>1, <1>4 DEF PauseMark, Handle
  <2>2. phase' \in [Jobs -> Phases]
    BY <1>4 DEF PauseMark, SetPhase
  <2> QED
    BY <1>4, <2>1, <2>2 DEF PauseMark, PauseStep, Handle
<1> QED
  BY <1>2, <1>3, <1>4 DEF PauseStep

LEMMA UserPausesInv ==
    ASSUME IInv, NEW j \in Jobs, UserPauses(j)
    PROVE  IInv'
<1>1. [Resting EXCEPT !.pc = "look", !.job = j] \in Handle
  BY DEF Resting, Handle
<1>2. pausing' \in [Pausers -> Handle]
  BY <1>1 DEF UserPauses, IInv, TypeOK, Handle
<1> QED
  BY <1>2 DEF UserPauses, runVars, IInv, TypeOK, FlagIsARun, CountedIsHeard, Handle

(* A step of the quit task.                                                      *)
LEMMA QuitInv == IInv /\ (BeginExit \/ QuitStep \/ TimePasses) => IInv'
<1> SUFFICES ASSUME IInv, BeginExit \/ QuitStep \/ TimePasses PROVE IInv'
  OBVIOUS
<1> USE DEF IInv, TypeOK, FlagIsARun, CountedIsHeard, runVars
<1>1. CASE BeginExit
  BY <1>1 DEF BeginExit
<1>2. CASE SweepPass
  <2> DEFINE new == Targets \ quit.tried
  <2>1. Targets \subseteq Jobs
    BY ExitAssumption DEF Targets
  <2>2. quit.pc \in DOMAIN AfterSweep => AfterSweep[quit.pc] \in {"pause_all", "arm", "cancel"}
    BY DEF AfterSweep
  <2>3. CASE new # {}
    <3>1. quit' = [quit EXCEPT !.todo = new, !.tried = @ \cup new] /\ UNCHANGED clock
      BY <1>2, <2>3 DEF SweepPass
    <3>2. quit' \in QuitType /\ quit'.pc = quit.pc /\ quit'.seen = quit.seen
              /\ quit'.woken = quit.woken
      BY <2>1, <3>1 DEF QuitType
    <3> QED
      BY <1>2, <3>1, <3>2 DEF SweepPass, QuitType
  <2>4. CASE new = {}
    <3>1. quit' = [quit EXCEPT !.tried = {}, !.pc = AfterSweep[quit.pc]]
      BY <1>2, <2>4 DEF SweepPass
    <3>2. clock' = IF quit.pc = "pause_all" THEN "early" ELSE clock
      BY <1>2, <2>4 DEF SweepPass
    <3>3. quit' \in QuitType /\ quit'.pc \in {"pause_all", "arm", "cancel"}
      BY <1>2, <2>2, <3>1 DEF QuitType, SweepPass
    <3> QED
      BY <1>2, <3>2, <3>3 DEF SweepPass, QuitType
  <2> QED
    BY <2>3, <2>4
<1>3. CASE SweepNext
  <2>1. PICK j \in quit.todo :
            /\ quit' = [quit EXCEPT !.todo = @ \ {j}]
            /\ pausing' = [pausing EXCEPT !["quit"] = [Resting EXCEPT !.pc = "look", !.job = j]]
    BY <1>3 DEF SweepNext
  <2>2. [Resting EXCEPT !.pc = "look", !.job = j] \in Handle
    BY DEF Resting, Handle
  <2>3. pausing' \in [Pausers -> Handle]
    BY <2>1, <2>2 DEF Handle
  <2> QED
    BY <1>3, <2>1, <2>3 DEF SweepNext, Handle
<1>4. CASE Arm
  BY <1>4 DEF Arm
<1>5. CASE Count
  BY <1>5 DEF Count
<1>6. CASE Look
  BY <1>6 DEF Look
<1>7. CASE Wait
  BY <1>7 DEF Wait
<1>8. CASE CancelAll
  BY <1>8 DEF CancelAll
<1>9. CASE Exit
  BY <1>9 DEF Exit
<1>10. CASE TimePasses
  BY <1>10 DEF TimePasses
<1> QED
  BY <1>1, <1>2, <1>3, <1>4, <1>5, <1>6, <1>7, <1>8, <1>9, <1>10 DEF QuitStep

LEMMA NextInv == IInv /\ [Next]_vars => IInv'
<1> SUFFICES ASSUME IInv, [Next]_vars PROVE IInv'
  OBVIOUS
<1>1. CASE UNCHANGED vars
  BY <1>1 DEF vars, runVars, IInv, TypeOK, FlagIsARun, CountedIsHeard
<1> QED
  BY <1>1, RunInv, PauseInv, UserPausesInv, QuitInv DEF Next, Gone

(* Every variable keeps its type.                                                *)
THEOREM TypeCorrect == Spec => []TypeOK
<1>1. IInv => TypeOK
  BY DEF IInv
<1> QED
  BY InitInv, NextInv, <1>1, PTL DEF Spec

(* However many downloads end, and whenever they do, the exit is woken by every  *)
(* one it counted.                                                               *)
THEOREM NoSignalIsLost == Spec => []WakeupNotLost
<1>1. IInv => WakeupNotLost
  BY DEF IInv, CountedIsHeard, WakeupNotLost
<1> QED
  BY InitInv, NextInv, <1>1, PTL DEF Spec

--------------------------------------------------------------------------------
(* What the exit leaves behind.                                                  *)

Running == {"claimed", "fetching", "copying", "verifying"}

RunIsFlagged == \A j \in Jobs : at[j] \in Running => j \in running

(* A download shows as assembling from the pump's news to the end of its run.    *)
AssemblyIsNews ==
    \A j \in Jobs :
        /\ j \in unseen => at[j] = "copying"
        /\ phase[j] = "Assembling" => at[j] \in {"copying", "verifying"} /\ j \notin unseen

ShownWasAssembling ==
    \A j \in quit.shown : at[j] \in {"copying", "verifying", "released", "done"} /\ j \notin unseen

(* Between sweeps the quit task has nothing in hand.                             *)
HandsFree ==
    quit.pc \notin DOMAIN AfterSweep =>
        pausing["quit"] = Resting /\ quit.todo = {} /\ quit.tried = {}

(* Who is owed a row is not over, and cannot stop transferring unless it is      *)
(* paused, which the sweep of Pause all sees to.                                 *)
OwedIsGoing == \A j \in owed : at[j] \in Running \cup {"refused"}

StillTransferring == {j \in owed : at[j] \in {"claimed", "fetching"}}

PauseAllReaches ==
    /\ quit.pc = "pause_all" =>
           \A j \in StillTransferring :
               j \notin quit.tried \/ j \in quit.todo \/ pausing["quit"].job = j
    /\ quit.pc \in {"arm", "count", "look", "wait", "pause_again", "cancel", "grace", "gone"} =>
           StillTransferring = {}

ExitInv ==
    /\ RunIsFlagged /\ AssemblyIsNews /\ ShownWasAssembling /\ HandsFree
    /\ OwedIsGoing /\ PauseAllReaches

LEMMA InitExit == Init => ExitInv
<1> SUFFICES ASSUME Init PROVE ExitInv
  OBVIOUS
<1>1. RunIsFlagged /\ AssemblyIsNews /\ OwedIsGoing
  BY DEF Init, RunIsFlagged, AssemblyIsNews, OwedIsGoing, Running
<1>2. ShownWasAssembling /\ HandsFree
  BY DEF Init, ShownWasAssembling, HandsFree, Pausers
<1>3. PauseAllReaches
  BY DEF Init, PauseAllReaches
<1> QED
  BY <1>1, <1>2, <1>3 DEF ExitInv

(* A run writes nothing of the quit task but the signal.                         *)
SameQuit ==
    /\ quit'.pc = quit.pc /\ quit'.tried = quit.tried /\ quit'.todo = quit.todo
    /\ quit'.seen = quit.seen /\ quit'.assembling = quit.assembling
    /\ quit'.shown = quit.shown
    /\ UNCHANGED <<pausing, clock>>

OthersKeep(j) ==
    \A k \in Jobs \ {j} :
        /\ at'[k] = at[k] /\ phase'[k] = phase[k]
        /\ k \in unseen' <=> k \in unseen
        /\ k \in running' <=> k \in running
        /\ k \in told' <=> k \in told
        /\ k \in owed' <=> k \in owed
        /\ k \in crossed' <=> k \in crossed

LEMMA RunKeepsQuit ==
    ASSUME IInv, NEW j \in Jobs, RunStep(j)
    PROVE  SameQuit
<1>1. CASE Notify(j)
  <2> DEFINE waits == quit.pc \in {"count", "look", "wait"}
  <2>1. quit' = [quit EXCEPT !.woken = waits]
    BY <1>1 DEF Notify
  <2> HIDE DEF waits
  <2> QED
    BY <2>1 DEF RunStep, SameQuit, IInv, TypeOK
<1>2. CASE UNCHANGED quit
  BY <1>2 DEF RunStep, SameQuit
<1> QED
  BY <1>1, <1>2 DEF RunStep

LEMMA RunKeepsOthers ==
    ASSUME IInv, NEW j \in Jobs, RunStep(j)
    PROVE  OthersKeep(j)
<1> USE DEF IInv, TypeOK, To, SetPhase, SetRunPhase, OthersKeep
<1>1. CASE Notify(j)
  BY <1>1 DEF Notify
<1>2. CASE Ask(j)
  BY <1>2 DEF Ask
<1>3. CASE Claim(j)
  BY <1>3 DEF Claim
<1>4. CASE SetUpFails(j)
  BY <1>4 DEF SetUpFails
<1>5. CASE Spawn(j)
  BY <1>5 DEF Spawn
<1>6. CASE RunReports(j)
  BY <1>6 DEF RunReports
<1>7. CASE Assembles(j)
  BY <1>7 DEF Assembles
<1>8. CASE Pump(j)
  BY <1>8 DEF Pump
<1>9. CASE Verifies(j)
  BY <1>9 DEF Verifies
<1>10. CASE RunEnds(j)
  BY <1>10 DEF RunEnds
<1> QED
  BY <1>1, <1>2, <1>3, <1>4, <1>5, <1>6, <1>7, <1>8, <1>9, <1>10 DEF RunStep

(* What a step of the run of j does to j.                                        *)
Starts(j) ==
    /\ at[j] \in {"idle", "asked"} /\ at'[j] \in {"asked", "claimed"}
    /\ at[j] = "idle" => at'[j] = "asked" /\ phase'[j] = phase[j]
    /\ at[j] = "asked" => at'[j] = "claimed" /\ phase'[j] = "Downloading" /\ j \in running'
    /\ j \in unseen' <=> j \in unseen
    /\ j \in told' <=> j \in told
    /\ j \in owed' <=> j \in owed

Transfers(j) ==
    /\ at[j] \in {"claimed", "fetching"} /\ at'[j] \in {"fetching", "copying", "refused"}
    /\ phase'[j] \in {phase[j], "Downloading", "resting"}
    /\ j \in unseen' => j \in unseen \/ at'[j] = "copying"
    /\ at'[j] # "refused" => (j \in running' <=> j \in running)
    /\ j \in owed' <=> j \in owed

Splices(j) ==
    /\ at[j] = "copying" \/ j \in unseen
    /\ at'[j] \in {at[j], "verifying"}
    /\ phase'[j] = "Assembling" => phase[j] = "Assembling" \/ (j \in unseen /\ j \notin unseen')
    /\ j \in unseen' => FALSE
    /\ j \in running' <=> j \in running
    /\ j \in told' <=> j \in told
    /\ j \in owed' <=> j \in owed

Stops(j) ==
    /\ at[j] \in {"fetching", "copying", "verifying", "released"}
    /\ at'[j] \in {"released", "done"}
    /\ j \notin unseen' \/ at[j] = "released"
    /\ j \in unseen' => j \in unseen
    /\ at[j] = "released" => phase'[j] = phase[j] /\ (j \in owed' <=> j \in owed)
    /\ at[j] # "released" => phase'[j] = "resting" /\ j \notin owed'

LEMMA RunMoves ==
    ASSUME IInv, NEW j \in Jobs, RunStep(j)
    PROVE  Starts(j) \/ Transfers(j) \/ Splices(j) \/ Stops(j)
<1> USE DEF IInv, TypeOK, To, SetPhase, SetRunPhase
<1>1. CASE Ask(j) \/ Claim(j)
  BY <1>1 DEF Ask, Claim, Starts
<1>2. CASE SetUpFails(j) \/ Spawn(j) \/ RunReports(j) \/ Assembles(j)
  BY <1>2 DEF SetUpFails, Spawn, RunReports, Assembles, Transfers
<1>3. CASE Pump(j) \/ Verifies(j)
  BY <1>3 DEF Pump, Verifies, Splices
<1>4. CASE RunEnds(j) \/ Notify(j)
  BY <1>4 DEF RunEnds, Notify, Stops
<1> QED
  BY <1>1, <1>2, <1>3, <1>4 DEF RunStep

LEMMA RunExit ==
    ASSUME IInv, ExitInv, NEW j \in Jobs, RunStep(j)
    PROVE  ExitInv'
<1>1. SameQuit /\ OthersKeep(j) /\ (Starts(j) \/ Transfers(j) \/ Splices(j) \/ Stops(j))
  BY RunKeepsQuit, RunKeepsOthers, RunMoves
<1>2. /\ RunIsFlagged /\ AssemblyIsNews /\ ShownWasAssembling /\ HandsFree
      /\ OwedIsGoing /\ PauseAllReaches
  BY DEF ExitInv
<1>t. /\ running' \subseteq Jobs /\ told' \subseteq Jobs /\ unseen' \subseteq Jobs /\ owed' \subseteq Jobs
      /\ running \subseteq Jobs /\ told \subseteq Jobs /\ unseen \subseteq Jobs /\ owed \subseteq Jobs
      /\ quit.shown \subseteq Jobs /\ quit.seen \subseteq Jobs
  BY RunInv DEF IInv, TypeOK
<1> USE DEF OthersKeep, Running
<1>3. RunIsFlagged'
  BY <1>1, <1>2 DEF RunIsFlagged, AssemblyIsNews, Starts, Transfers, Splices, Stops
<1>4. AssemblyIsNews'
  BY <1>1, <1>2 DEF AssemblyIsNews, Starts, Transfers, Splices, Stops
<1>5. ShownWasAssembling'
  BY <1>1, <1>2, <1>t DEF ShownWasAssembling, SameQuit, Starts, Transfers, Splices, Stops
<1>6. HandsFree'
  BY <1>1, <1>2 DEF HandsFree, SameQuit, AfterSweep
<1>7. OwedIsGoing'
  BY <1>1, <1>2, <1>t DEF OwedIsGoing, Starts, Transfers, Splices, Stops
<1>8. \A k \in StillTransferring' : k \in StillTransferring
  BY <1>1, <1>2, <1>t DEF StillTransferring, OwedIsGoing, Starts, Transfers, Splices, Stops
<1>9. PauseAllReaches'
  BY <1>1, <1>2, <1>8 DEF PauseAllReaches, SameQuit
<1> QED
  BY <1>3, <1>4, <1>5, <1>6, <1>7, <1>9 DEF ExitInv

(* A pause moves no run; its mark puts the job to rest and writes its row.       *)
LEMMA PauseExit ==
    ASSUME IInv, ExitInv, NEW p \in Pausers, PauseStep(p)
    PROVE  ExitInv'
<1> DEFINE j == pausing[p].job
<1>1. /\ RunIsFlagged /\ AssemblyIsNews /\ ShownWasAssembling /\ HandsFree
      /\ OwedIsGoing /\ PauseAllReaches
  BY DEF ExitInv
<1>2. UNCHANGED <<at, running, unseen, quit, clock>>
  BY DEF PauseStep, PauseLook, PauseTell, PauseMark, runVars
<1>3. /\ phase \in [Jobs -> Phases] /\ pausing \in [Pausers -> Handle]
      /\ owed \subseteq Jobs /\ quit.shown \subseteq Jobs
  BY DEF IInv, TypeOK, Handle
<1>4. \A k \in Jobs : phase'[k] = phase[k] \/ phase'[k] = "resting"
  BY <1>3 DEF PauseStep, PauseLook, PauseTell, PauseMark, runVars, SetPhase
<1>5. owed' \subseteq owed /\ told \subseteq told'
  BY DEF PauseStep, PauseLook, PauseTell, PauseMark, runVars, Tell
<1>6. RunIsFlagged' /\ AssemblyIsNews' /\ ShownWasAssembling' /\ OwedIsGoing'
  BY <1>1, <1>2, <1>4, <1>5
     DEF RunIsFlagged, AssemblyIsNews, ShownWasAssembling, OwedIsGoing
<1>7. \A k \in StillTransferring' : k \in StillTransferring
  BY <1>2, <1>5 DEF StillTransferring
<1>9. pausing[p] # Resting /\ \A q \in Pausers \ {p} : pausing'[q] = pausing[q]
  BY <1>3 DEF PauseStep, PauseLook, PauseTell, PauseMark, Resting
<1>10. HandsFree'
  BY <1>1, <1>2, <1>9 DEF HandsFree, Pausers
<1>11. CASE p = "user"
  <2>1. pausing'["quit"] = pausing["quit"]
    BY <1>9, <1>11 DEF Pausers
  <2>2. PauseAllReaches'
    BY <1>1, <1>2, <1>7, <2>1 DEF PauseAllReaches
  <2> QED
    BY <1>6, <1>10, <2>2 DEF ExitInv
<1>12. CASE p = "quit"
  <2>1. quit.pc \in DOMAIN AfterSweep
    BY <1>1, <1>9, <1>12 DEF HandsFree
  <2>2. j \in Jobs /\ pausing[p] \in [pc : {"look", "tell", "mark"}, job : Jobs, stale : BOOLEAN]
    BY <1>3, <1>9 DEF Handle
  <2>3. ASSUME j \in StillTransferring'
        PROVE  pausing'[p].job = j
    <3>1. phase[j] # "Assembling" /\ j \in StillTransferring
      BY <1>1, <1>7, <2>2, <2>3 DEF AssemblyIsNews, StillTransferring
    <3>2. ~PauseMark(p)
      BY <2>3 DEF PauseMark, StillTransferring
    <3>3. CASE PauseLook(p)
      BY <1>3, <3>1, <3>3 DEF PauseLook
    <3>4. CASE PauseTell(p)
      BY <1>3, <2>2, <3>4 DEF PauseTell
    <3> QED
      BY <3>2, <3>3, <3>4 DEF PauseStep
  <2>4. PauseAllReaches'
    BY <1>1, <1>2, <1>7, <1>12, <2>1, <2>3 DEF PauseAllReaches, AfterSweep
  <2> QED
    BY <1>6, <1>10, <2>4 DEF ExitInv
<1> QED
  BY <1>11, <1>12 DEF Pausers

LEMMA UserPausesExit ==
    ASSUME IInv, ExitInv, NEW j \in Jobs, UserPauses(j)
    PROVE  ExitInv'
<1>1. UNCHANGED <<at, phase, running, told, unseen, owed, quit, clock>>
  BY DEF UserPauses, runVars
<1>2. pausing'["quit"] = pausing["quit"]
  BY DEF UserPauses, IInv, TypeOK, Pausers
<1> QED
  BY <1>1, <1>2 DEF ExitInv, RunIsFlagged, AssemblyIsNews, ShownWasAssembling, HandsFree, OwedIsGoing,
         PauseAllReaches, StillTransferring

(* The claim of the exit: what runs now is owed its row.                         *)
LEMMA BeginExitExit == IInv /\ ExitInv /\ BeginExit => ExitInv'
<1> SUFFICES ASSUME IInv, ExitInv, BeginExit PROVE ExitInv'
  OBVIOUS
<1>1. /\ quit'.pc = "stop_queues" /\ quit'.shown = quit.shown /\ owed' = running
      /\ UNCHANGED <<at, phase, running, told, unseen, pausing, clock>>
  BY DEF BeginExit, IInv, TypeOK
<1>2. OwedIsGoing'
  BY <1>1 DEF IInv, FlagIsARun, OwedIsGoing, Running
<1>3. HandsFree' /\ PauseAllReaches'
  BY <1>1 DEF HandsFree, PauseAllReaches, AfterSweep
<1>4. RunIsFlagged' /\ AssemblyIsNews' /\ ShownWasAssembling'
  BY <1>1 DEF ExitInv, RunIsFlagged, AssemblyIsNews, ShownWasAssembling
<1> QED
  BY <1>2, <1>3, <1>4 DEF ExitInv

(* A pass over the list leaves nothing untried, or moves on when nothing is.     *)
LEMMA SweepPassExit == IInv /\ ExitInv /\ SweepPass => ExitInv'
<1> SUFFICES ASSUME IInv, ExitInv, SweepPass PROVE ExitInv'
  OBVIOUS
<1> DEFINE new == Targets \ quit.tried
<1>1. /\ RunIsFlagged /\ AssemblyIsNews /\ ShownWasAssembling /\ HandsFree
      /\ OwedIsGoing /\ PauseAllReaches
  BY DEF ExitInv
<1>2. /\ quit.pc \in {"stop_queues", "pause_all", "pause_again"} /\ quit.todo = {}
      /\ pausing["quit"] = Resting
      /\ UNCHANGED <<at, phase, running, told, unseen, owed, pausing>>
  BY DEF SweepPass, AfterSweep, runVars
<1>3. /\ quit \in QuitType /\ owed \subseteq Jobs /\ quit.shown \subseteq Jobs
  BY DEF IInv, TypeOK, QuitType
<1>4. \A k \in Jobs : pausing["quit"].job # k
  BY <1>2, ExitAssumption DEF Resting
<1>5. StillTransferring' = StillTransferring
  BY <1>2 DEF StillTransferring
<1>6. CASE new # {}
  <2>1. quit' = [quit EXCEPT !.todo = new, !.tried = quit.tried \cup new] /\ UNCHANGED clock
    BY <1>6 DEF SweepPass
  <2>2. /\ quit'.pc = quit.pc /\ quit'.seen = quit.seen /\ quit'.shown = quit.shown
        /\ quit'.tried = quit.tried \cup new /\ quit'.todo = new
    BY <1>3, <2>1 DEF QuitType
  <2> HIDE DEF new
  <2>4. RunIsFlagged' /\ AssemblyIsNews' /\ ShownWasAssembling' /\ OwedIsGoing' /\ HandsFree'
    BY <1>1, <1>2, <2>2
       DEF RunIsFlagged, AssemblyIsNews, ShownWasAssembling, OwedIsGoing, HandsFree, AfterSweep
  <2>5. PauseAllReaches'
    BY <1>1, <1>2, <1>5, <2>2 DEF PauseAllReaches
  <2> QED
    BY <2>4, <2>5 DEF ExitInv
<1>7. CASE new = {}
  <2>1. quit' = [quit EXCEPT !.tried = {}, !.pc = AfterSweep[quit.pc]]
    BY <1>7 DEF SweepPass
  <2>2. quit.pc = "pause_all" \/ clock' = clock
    BY <1>7 DEF SweepPass
  <2>3. /\ quit'.pc = AfterSweep[quit.pc] /\ quit'.seen = quit.seen /\ quit'.shown = quit.shown
        /\ quit'.tried = {} /\ quit'.todo = {}
    BY <1>2, <1>3, <2>1 DEF QuitType
  <2>4. Targets \subseteq quit.tried
    BY <1>7
  <2>6. RunIsFlagged' /\ AssemblyIsNews' /\ ShownWasAssembling' /\ OwedIsGoing' /\ HandsFree'
    BY <1>1, <1>2, <2>3
       DEF RunIsFlagged, AssemblyIsNews, ShownWasAssembling, OwedIsGoing, HandsFree, AfterSweep
  <2>7. CASE quit.pc = "stop_queues"
    <3>1. quit'.pc = "pause_all"
      BY <2>3, <2>7 DEF AfterSweep
    <3>2. PauseAllReaches'
      BY <2>3, <3>1 DEF PauseAllReaches
    <3> QED
      BY <2>6, <3>2 DEF ExitInv
  <2>8. CASE quit.pc = "pause_all"
    <3>1. quit'.pc = "arm"
      BY <2>3, <2>8 DEF AfterSweep
    <3>2. StillTransferring = {}
      <4>1. ASSUME NEW k \in StillTransferring PROVE FALSE
        <5>1. k \in Jobs /\ k \in running /\ phase[k] # "Assembling"
          BY <1>1, <1>3, <4>1 DEF StillTransferring, RunIsFlagged, AssemblyIsNews, Running
        <5>2. k \in quit.tried
          BY <2>4, <2>8, <5>1 DEF Targets
        <5> QED
          BY <1>1, <1>2, <1>4, <2>8, <5>1, <5>2 DEF PauseAllReaches
      <4> QED
        BY <4>1
    <3>3. PauseAllReaches'
      BY <1>5, <3>1, <3>2 DEF PauseAllReaches
    <3> QED
      BY <2>6, <3>3 DEF ExitInv
  <2>9. CASE quit.pc = "pause_again"
    <3>1. quit'.pc = "cancel"
      BY <2>3, <2>9 DEF AfterSweep
    <3>3. PauseAllReaches'
      BY <1>1, <1>5, <2>9, <3>1 DEF PauseAllReaches
    <3> QED
      BY <2>6, <3>3 DEF ExitInv
  <2> QED
    BY <1>2, <2>7, <2>8, <2>9
<1> QED
  BY <1>6, <1>7

LEMMA SweepNextExit == IInv /\ ExitInv /\ SweepNext => ExitInv'
<1> SUFFICES ASSUME IInv, ExitInv, SweepNext PROVE ExitInv'
  OBVIOUS
<1>1. /\ RunIsFlagged /\ AssemblyIsNews /\ ShownWasAssembling /\ HandsFree
      /\ OwedIsGoing /\ PauseAllReaches
  BY DEF ExitInv
<1>2. PICK j \in quit.todo :
          /\ quit' = [quit EXCEPT !.todo = @ \ {j}]
          /\ pausing' = [pausing EXCEPT !["quit"] = [Resting EXCEPT !.pc = "look", !.job = j]]
  BY DEF SweepNext
<1>3. pausing["quit"] = Resting /\ UNCHANGED <<at, phase, running, told, unseen, owed, clock>>
  BY DEF SweepNext, runVars
<1>4. /\ quit'.pc = quit.pc /\ quit'.seen = quit.seen /\ quit'.shown = quit.shown
      /\ quit'.tried = quit.tried /\ quit'.todo = quit.todo \ {j}
      /\ quit'.assembling = quit.assembling
  BY <1>2 DEF IInv, TypeOK
<1>5. pausing'["quit"].job = j /\ pausing'["quit"].pc = "look" /\ ~pausing'["quit"].stale
  BY <1>2 DEF IInv, TypeOK, Pausers, Resting
<1>6. \A k \in Jobs : pausing["quit"].job # k
  BY <1>3, ExitAssumption DEF Resting
<1>7. quit.pc \in DOMAIN AfterSweep
  BY <1>1, <1>2 DEF HandsFree
<1>8. StillTransferring' = StillTransferring
  BY <1>3, <1>4 DEF StillTransferring
<1>9. owed \subseteq Jobs /\ quit.shown \subseteq Jobs
  BY DEF IInv, TypeOK
<1>10. RunIsFlagged' /\ AssemblyIsNews' /\ ShownWasAssembling' /\ OwedIsGoing' /\ HandsFree'
  BY <1>1, <1>3, <1>4, <1>7
     DEF RunIsFlagged, AssemblyIsNews, ShownWasAssembling, OwedIsGoing, HandsFree
<1>11. PauseAllReaches'
  BY <1>1, <1>4, <1>5, <1>6, <1>7, <1>8, <1>9 DEF PauseAllReaches, StillTransferring, AfterSweep
<1> QED
  BY <1>10, <1>11 DEF ExitInv

(* The wait: what it has seen when it gives up, and the exit itself.             *)
LEMMA WaitExit ==
    IInv /\ ExitInv /\ (Arm \/ Count \/ Look \/ Wait \/ CancelAll \/ Exit \/ TimePasses) => ExitInv'
<1> SUFFICES ASSUME IInv, ExitInv,
                    Arm \/ Count \/ Look \/ Wait \/ CancelAll \/ Exit \/ TimePasses
             PROVE  ExitInv'
  OBVIOUS
<1>1. /\ RunIsFlagged /\ AssemblyIsNews /\ ShownWasAssembling /\ HandsFree
      /\ OwedIsGoing /\ PauseAllReaches
  BY DEF ExitInv
<1> DEFINE Late == {"arm", "count", "look", "wait", "pause_again", "cancel", "grace", "gone"}
<1>2. /\ UNCHANGED <<at, phase, running, unseen, owed, pausing>> /\ told \subseteq told'
      /\ CancelAll \/ told' = told
  BY DEF Arm, Count, Look, Wait, CancelAll, Exit, TimePasses, runVars
<1>3. quit.pc \in Late /\ quit'.pc \in Late /\ quit.pc \notin DOMAIN AfterSweep \cup {"pause_again"}
  BY DEF Arm, Count, Look, Wait, CancelAll, Exit, TimePasses, AfterSweep, IInv, TypeOK
<1>4. quit'.todo = quit.todo /\ quit'.tried = quit.tried
  BY DEF Arm, Count, Look, Wait, CancelAll, Exit, TimePasses, IInv, TypeOK
<1>5. ASSUME NEW j \in quit'.shown PROVE j \in quit.shown \/ (j \in Jobs /\ phase[j] = "Assembling")
  <2>1. CASE Look
    <3> DEFINE now == {k \in Jobs : phase[k] = "Assembling"}
    <3>1. quit'.shown = quit.shown \cup now
      BY <2>1 DEF Look, IInv, TypeOK
    <3> QED
      BY <1>5, <3>1
  <2>2. CASE Arm \/ Count \/ Wait \/ CancelAll \/ Exit \/ TimePasses
    <3>1. quit'.shown = quit.shown
      BY <2>2 DEF Arm, Count, Wait, CancelAll, Exit, TimePasses, IInv, TypeOK
    <3> QED
      BY <1>5, <3>1
  <2> QED
    BY <2>1, <2>2
<1>6. RunIsFlagged' /\ AssemblyIsNews' /\ OwedIsGoing'
  BY <1>1, <1>2 DEF RunIsFlagged, AssemblyIsNews, OwedIsGoing
<1>7. ShownWasAssembling'
  BY <1>1, <1>2, <1>5 DEF ShownWasAssembling, AssemblyIsNews
<1>8. HandsFree'
  BY <1>1, <1>2, <1>3, <1>4 DEF HandsFree
<1>9. StillTransferring' = StillTransferring
  BY <1>2 DEF StillTransferring
<1>10. PauseAllReaches'
  BY <1>1, <1>3, <1>9 DEF PauseAllReaches
<1> QED
  BY <1>6, <1>7, <1>8, <1>10 DEF ExitInv

LEMMA NextExit == IInv /\ ExitInv /\ [Next]_vars => ExitInv'
<1> SUFFICES ASSUME IInv, ExitInv, [Next]_vars PROVE ExitInv'
  OBVIOUS
<1>1. CASE UNCHANGED vars
  BY <1>1 DEF vars, runVars, ExitInv, RunIsFlagged, AssemblyIsNews, ShownWasAssembling, HandsFree,
              OwedIsGoing, PauseAllReaches, StillTransferring
<1> QED
  BY <1>1, RunExit, PauseExit, UserPausesExit, BeginExitExit, SweepPassExit, SweepNextExit, WaitExit
     DEF Next, QuitStep, Gone

--------------------------------------------------------------------------------
(* The assemblies the exit has shown.                                            *)

Past == {"tell", "mark"}

(* A user's pause that is past its look meets no assembly but one that crossed   *)
(* it.                                                                           *)
UserMeetsNone ==
    \A j \in Jobs \ crossed :
        pausing["user"].job = j /\ pausing["user"].pc \in Past => phase[j] # "Assembling"

(* What shows as assembling has not been told to stop, but by a sweep that is    *)
(* about to mark it.                                                             *)
UntoldWhileShowing ==
    \A j \in Jobs \ crossed :
        phase[j] = "Assembling" /\ j \in told =>
            pausing["quit"].job = j /\ pausing["quit"].pc = "mark"

(* Assemblies that a window was opened for and that no user's pause crossed.     *)
Showing == {j \in quit.shown \ crossed : at[j] = "copying"}

(* They go on showing, and the last sweep leaves them alone.                     *)
ShowingStaysUp ==
    \A j \in Showing :
        phase[j] = "Assembling" /\ ~(pausing["quit"].job = j /\ pausing["quit"].pc \in Past)

(* So the wait of the exit is for them.                                          *)
WaitIsForShowing ==
    /\ quit.pc = "wait" => Showing \subseteq quit.assembling
    /\ quit.pc \in {"pause_again", "cancel", "grace", "gone"} /\ clock # "long_passed" =>
           Showing \cap quit.seen = {}

ShownInv == UserMeetsNone /\ UntoldWhileShowing /\ ShowingStaysUp /\ WaitIsForShowing

LEMMA InitShown == Init => ShownInv
  BY DEF Init, ShownInv, UserMeetsNone, UntoldWhileShowing, ShowingStaysUp, WaitIsForShowing, Showing

(* What the news of an assembly meets.                                           *)
LEMMA RunNews ==
    ASSUME IInv, NEW j \in Jobs, RunStep(j)
    PROVE  /\ j \in crossed => j \in crossed'
           /\ j \in told' => j \in told
           /\ phase'[j] = "Assembling" /\ j \notin crossed' =>
                  \/ phase[j] = "Assembling"
                  \/ j \notin told /\ ~(pausing["user"].job = j /\ pausing["user"].pc \in Past)
           /\ phase'[j] = "Assembling" /\ j \in told' => phase[j] = "Assembling"
           /\ at[j] = "copying" /\ j \notin unseen => at'[j] # "copying"
<1> USE DEF IInv, TypeOK, To, SetPhase, SetRunPhase, Past
<1>1. CASE Ask(j) \/ Claim(j) \/ SetUpFails(j) \/ Spawn(j)
  BY <1>1 DEF Ask, Claim, SetUpFails, Spawn
<1>2. CASE RunReports(j) \/ Assembles(j) \/ Pump(j)
  BY <1>2 DEF RunReports, Assembles, Pump
<1>3. CASE Verifies(j) \/ RunEnds(j) \/ Notify(j)
  BY <1>3 DEF Verifies, RunEnds, Notify
<1> QED
  BY <1>1, <1>2, <1>3 DEF RunStep

LEMMA RunShown ==
    ASSUME IInv, ExitInv, ShownInv, NEW j \in Jobs, RunStep(j)
    PROVE  ShownInv'
<1>1. SameQuit /\ OthersKeep(j)
  BY RunKeepsQuit, RunKeepsOthers
<1>2. UserMeetsNone /\ UntoldWhileShowing /\ ShowingStaysUp /\ WaitIsForShowing
  BY DEF ShownInv
<1>3. quit.shown \subseteq Jobs /\ \A k \in quit.shown : at[k] = "copying" => k \notin unseen
  BY DEF IInv, TypeOK, ExitInv, ShownWasAssembling
<1>4. UserMeetsNone'
  BY <1>1, <1>2, RunNews DEF UserMeetsNone, SameQuit, OthersKeep
<1>5. UntoldWhileShowing'
  BY <1>1, <1>2, RunNews DEF UntoldWhileShowing, SameQuit, OthersKeep
<1>6. ASSUME NEW k \in Showing' PROVE k \in Showing /\ k # j
  <2>1. k \in quit.shown /\ k \notin crossed' /\ at'[k] = "copying"
    BY <1>1 DEF Showing, SameQuit
  <2>2. CASE k = j
    <3>1. at[j] = "copying" \/ at[j] \in {"verifying", "released", "done"}
      BY <2>1, <2>2 DEF ExitInv, ShownWasAssembling
    <3>2. at'[j] # "copying"
      BY <1>3, <2>1, <2>2, <3>1, RunMoves, RunNews DEF Starts, Transfers, Splices, Stops
    <3> QED
      BY <2>1, <2>2, <3>2
  <2>3. CASE k # j
    BY <1>1, <1>3, <2>1, <2>3 DEF Showing, OthersKeep
  <2> QED
    BY <2>2, <2>3
<1>7. ShowingStaysUp'
  BY <1>1, <1>2, <1>3, <1>6 DEF ShowingStaysUp, Showing, SameQuit, OthersKeep
<1>8. WaitIsForShowing'
  BY <1>1, <1>2, <1>6 DEF WaitIsForShowing, SameQuit
<1> QED
  BY <1>4, <1>5, <1>7, <1>8 DEF ShownInv

LEMMA PauseShown ==
    ASSUME IInv, ShownInv, NEW p \in Pausers, PauseStep(p)
    PROVE  ShownInv'
<1> DEFINE j == pausing[p].job
<1>1. UserMeetsNone /\ UntoldWhileShowing /\ ShowingStaysUp /\ WaitIsForShowing
  BY DEF ShownInv
<1>2. UNCHANGED <<at, crossed, quit, clock>>
  BY DEF PauseStep, PauseLook, PauseTell, PauseMark, runVars
<1>3. /\ phase \in [Jobs -> Phases] /\ pausing \in [Pausers -> Handle] /\ quit.shown \subseteq Jobs
      /\ told \subseteq Jobs
  BY DEF IInv, TypeOK, Handle
<1>4. Showing' = Showing /\ Showing \subseteq Jobs \ crossed
  BY <1>2, <1>3 DEF Showing
<1>5. WaitIsForShowing'
  BY <1>1, <1>2, <1>4 DEF WaitIsForShowing
<1>6. \A q \in Pausers \ {p} : pausing'[q] = pausing[q]
  BY <1>3 DEF PauseStep, PauseLook, PauseTell, PauseMark
<1>7. \A k \in Jobs : k # Nil
  BY ExitAssumption
<1>8. CASE PauseLook(p)
  <2>1. UNCHANGED <<phase, told>>
    BY <1>8 DEF PauseLook, runVars
  <2>2. \/ pausing'[p] = Resting
        \/ phase[j] # "Assembling" /\ pausing'[p].job = j
    BY <1>3, <1>8 DEF PauseLook
  <2>3. pausing[p].pc = "look"
    BY <1>8 DEF PauseLook
  <2> QED
    BY <1>1, <1>2, <1>4, <1>5, <1>6, <1>7, <2>1, <2>2, <2>3
       DEF ShownInv, UserMeetsNone, UntoldWhileShowing, ShowingStaysUp, Past, Pausers, Resting
<1>9. CASE PauseTell(p)
  <2>1. /\ pausing[p].pc = "tell" /\ pausing'[p].pc = "mark" /\ pausing'[p].job = j
        /\ told' \subseteq told \cup {j} /\ phase' = phase
    BY <1>3, <1>9 DEF PauseTell, Tell, Handle, Resting
  <2> QED
    BY <1>1, <1>2, <1>4, <1>5, <1>6, <2>1
       DEF ShownInv, UserMeetsNone, UntoldWhileShowing, ShowingStaysUp, Past, Pausers
<1>10. CASE PauseMark(p)
  <2>1. /\ pausing[p].pc = "mark" /\ pausing'[p] = Resting /\ told' = told
        /\ \A k \in Jobs : phase'[k] = IF k = j THEN "resting" ELSE phase[k]
    BY <1>3, <1>10 DEF PauseMark, SetPhase
  <2> QED
    BY <1>1, <1>2, <1>4, <1>5, <1>6, <1>7, <2>1
       DEF ShownInv, UserMeetsNone, UntoldWhileShowing, ShowingStaysUp, Past, Pausers, Resting
<1> QED
  BY <1>8, <1>9, <1>10 DEF PauseStep

LEMMA UserPausesShown ==
    ASSUME IInv, ShownInv, NEW j \in Jobs, UserPauses(j)
    PROVE  ShownInv'
<1>1. UNCHANGED <<at, phase, told, crossed, quit, clock>>
  BY DEF UserPauses, runVars
<1>2. pausing'["quit"] = pausing["quit"] /\ pausing'["user"].pc = "look"
  BY DEF UserPauses, IInv, TypeOK, Pausers, Resting
<1> QED
  BY <1>1, <1>2 DEF ShownInv, UserMeetsNone, UntoldWhileShowing, ShowingStaysUp, WaitIsForShowing,
                    Showing, Past

(* The exit's own steps: it shows what assembles, waits for it, and passes it    *)
(* over when it pauses and cancels the rest.                                     *)
LEMMA QuitShown == IInv /\ ExitInv /\ ShownInv /\ (BeginExit \/ QuitStep \/ TimePasses) => ShownInv'
<1> SUFFICES ASSUME IInv, ExitInv, ShownInv, BeginExit \/ QuitStep \/ TimePasses PROVE ShownInv'
  OBVIOUS
<1>1. UserMeetsNone /\ UntoldWhileShowing /\ ShowingStaysUp /\ WaitIsForShowing
  BY DEF ShownInv
<1>2. UNCHANGED <<at, phase, crossed>>
  BY DEF BeginExit, QuitStep, SweepPass, SweepNext, Arm, Count, Look, Wait, CancelAll, Exit,
         TimePasses, runVars
<1>3. quit \in QuitType /\ told \subseteq Jobs /\ running \subseteq Jobs
  BY DEF IInv, TypeOK, QuitType
<1>4. CASE BeginExit
  <2>1. /\ quit'.pc = "stop_queues" /\ quit'.shown = quit.shown
        /\ UNCHANGED <<told, pausing>>
    BY <1>3, <1>4 DEF BeginExit, QuitType
  <2> QED
    BY <1>1, <1>2, <2>1
       DEF ShownInv, UserMeetsNone, UntoldWhileShowing, ShowingStaysUp, WaitIsForShowing, Showing
<1>5. CASE SweepPass
  <2>1. /\ quit'.shown = quit.shown /\ quit'.seen = quit.seen /\ UNCHANGED <<told, pausing>>
        /\ \/ quit'.pc = quit.pc /\ UNCHANGED clock
           \/ quit'.pc \in {"pause_all", "arm"}
           \/ quit.pc = "pause_again" /\ quit'.pc = "cancel" /\ UNCHANGED clock
        /\ quit.pc # "wait"
    <3>1. quit.pc \in {"stop_queues", "pause_all", "pause_again"} /\ UNCHANGED <<told, pausing>>
      BY <1>5 DEF SweepPass, AfterSweep, runVars
    <3>2. CASE UNCHANGED clock /\ \E new : quit' = [quit EXCEPT !.todo = new, !.tried = @ \cup new]
      BY <1>3, <3>1, <3>2 DEF QuitType
    <3>3. CASE /\ quit' = [quit EXCEPT !.tried = {}, !.pc = AfterSweep[quit.pc]]
               /\ clock' = IF quit.pc = "pause_all" THEN "early" ELSE clock
      <4>1. quit'.shown = quit.shown /\ quit'.seen = quit.seen /\ quit'.pc = AfterSweep[quit.pc]
        BY <1>3, <3>3 DEF QuitType
      <4> QED
        BY <3>1, <3>3, <4>1 DEF AfterSweep
    <3> QED
      BY <1>5, <3>2, <3>3 DEF SweepPass
  <2> QED
    BY <1>1, <1>2, <2>1
       DEF ShownInv, UserMeetsNone, UntoldWhileShowing, ShowingStaysUp, WaitIsForShowing, Showing
<1>6. CASE SweepNext
  <2>1. PICK k \in quit.todo :
            /\ quit' = [quit EXCEPT !.todo = @ \ {k}]
            /\ pausing' = [pausing EXCEPT !["quit"] = [Resting EXCEPT !.pc = "look", !.job = k]]
    BY <1>6 DEF SweepNext
  <2>2. /\ pausing["quit"] = Resting /\ UNCHANGED <<told, clock>>
        /\ quit'.pc = quit.pc /\ quit'.shown = quit.shown /\ quit'.seen = quit.seen
        /\ quit'.assembling = quit.assembling
    BY <1>3, <1>6, <2>1 DEF SweepNext, QuitType, runVars
  <2>3. pausing'["user"] = pausing["user"] /\ pausing'["quit"].pc = "look"
    BY <2>1 DEF IInv, TypeOK, Pausers, Resting
  <2> QED
    BY <1>1, <1>2, <2>2, <2>3
       DEF ShownInv, UserMeetsNone, UntoldWhileShowing, ShowingStaysUp, WaitIsForShowing, Showing,
           Past, Resting
<1>7. CASE Arm \/ Count \/ Exit
  <2>1. /\ quit'.shown = quit.shown /\ UNCHANGED <<told, pausing, clock>>
        /\ \/ quit'.pc \in {"count", "look"}
           \/ quit.pc = "grace" /\ quit'.pc = "gone" /\ quit'.seen = quit.seen
    BY <1>3, <1>7 DEF Arm, Count, Exit, QuitType, runVars
  <2> QED
    BY <1>1, <1>2, <2>1
       DEF ShownInv, UserMeetsNone, UntoldWhileShowing, ShowingStaysUp, WaitIsForShowing, Showing
<1>8. CASE Look
  <2> DEFINE now == {k \in Jobs : phase[k] = "Assembling"}
  <2>1. /\ quit'.assembling = now /\ quit'.shown = quit.shown \cup now /\ quit'.seen = quit.seen
        /\ quit'.pc = IF quit.seen = {} THEN "pause_again" ELSE "wait"
        /\ UNCHANGED <<told, pausing, clock>>
    BY <1>3, <1>8 DEF Look, QuitType, runVars
  <2>2. pausing["quit"] = Resting
    BY <1>8 DEF Look, ExitInv, HandsFree, AfterSweep
  <2>3. quit.shown \subseteq Jobs
    BY <1>3 DEF QuitType
  <2>4. \A k \in Showing' : k \in now
    BY <1>1, <1>2, <2>1, <2>3 DEF Showing, ShowingStaysUp
  <2>5. ShowingStaysUp'
    BY <1>2, <2>1, <2>2, <2>4 DEF ShowingStaysUp, Past, Resting
  <2>6. WaitIsForShowing'
    BY <2>1, <2>4 DEF WaitIsForShowing
  <2> QED
    BY <1>1, <1>2, <2>1, <2>5, <2>6 DEF ShownInv, UserMeetsNone, UntoldWhileShowing
<1>9. CASE Wait
  <2>1. /\ quit'.shown = quit.shown /\ quit'.seen = quit.seen /\ quit.pc = "wait"
        /\ quit'.pc = "arm" \/ (quit'.pc = "pause_again" /\ DeadlinePassed)
        /\ UNCHANGED <<told, pausing, clock>>
    BY <1>3, <1>9 DEF Wait, QuitType, runVars
  <2>2. Showing' = Showing
    BY <1>2, <2>1 DEF Showing
  <2>3. WaitIsForShowing'
    BY <1>1, <2>1, <2>2 DEF WaitIsForShowing, DeadlinePassed
  <2> QED
    BY <1>1, <1>2, <2>1, <2>2, <2>3
       DEF ShownInv, UserMeetsNone, UntoldWhileShowing, ShowingStaysUp
<1>10. CASE CancelAll
  <2>1. /\ quit'.shown = quit.shown /\ quit'.seen = quit.seen
        /\ quit.pc = "cancel" /\ quit'.pc = "grace" /\ UNCHANGED <<pausing, clock>>
        /\ \A k \in told' : k \in told \/ phase[k] # "Assembling"
    BY <1>3, <1>10 DEF CancelAll, QuitType
  <2> QED
    BY <1>1, <1>2, <2>1
       DEF ShownInv, UserMeetsNone, UntoldWhileShowing, ShowingStaysUp, WaitIsForShowing, Showing
<1>11. CASE TimePasses
  <2>1. quit' = quit /\ quit.pc = "wait" /\ UNCHANGED <<told, pausing>>
    BY <1>11 DEF TimePasses, runVars
  <2> QED
    BY <1>1, <1>2, <2>1
       DEF ShownInv, UserMeetsNone, UntoldWhileShowing, ShowingStaysUp, WaitIsForShowing, Showing
<1> QED
  BY <1>4, <1>5, <1>6, <1>7, <1>8, <1>9, <1>10, <1>11 DEF QuitStep

LEMMA NextShown == IInv /\ ExitInv /\ ShownInv /\ [Next]_vars => ShownInv'
<1> SUFFICES ASSUME IInv, ExitInv, ShownInv, [Next]_vars PROVE ShownInv'
  OBVIOUS
<1>1. CASE UNCHANGED vars
  BY <1>1 DEF vars, runVars, ShownInv, UserMeetsNone, UntoldWhileShowing, ShowingStaysUp,
              WaitIsForShowing, Showing
<1> QED
  BY <1>1, RunShown, PauseShown, UserPausesShown, QuitShown DEF Next, Gone

(* An assembly the exit opened a window for is told to stop by nobody, the exit  *)
(* included, and the process does not end on one it counted before the five      *)
(* minutes are over: but for an assembly that crossed a user's pause.            *)
THEOREM ShownAssemblyIsKept == Spec => []ShownIsNotCut
<1>1. ASSUME IInv, ShownInv PROVE ShownIsNotCut
  <2> SUFFICES ASSUME NEW j \in quit.shown \ crossed, at[j] = "copying"
               PROVE  /\ j \notin told
                      /\ quit.pc = "gone" /\ j \in quit.seen => clock = "long_passed"
    BY DEF ShownIsNotCut
  <2>1. j \in Showing /\ j \in Jobs
    BY <1>1 DEF Showing, IInv, TypeOK
  <2>2. phase[j] = "Assembling" /\ ~(pausing["quit"].job = j /\ pausing["quit"].pc \in Past)
    BY <1>1, <2>1 DEF ShownInv, ShowingStaysUp
  <2>3. j \notin told
    BY <1>1, <2>1, <2>2 DEF ShownInv, UntoldWhileShowing, Past
  <2>4. quit.pc = "gone" /\ j \in quit.seen => clock = "long_passed"
    BY <1>1, <2>1 DEF ShownInv, WaitIsForShowing
  <2> QED
    BY <2>3, <2>4
<1> QED
  BY InitInv, NextInv, InitExit, NextExit, InitShown, NextShown, <1>1, PTL DEF Spec

(* Every download that ran when the exit was asked for has its row written       *)
(* before the process ends, but for those that were past pausing.                *)
THEOREM InFlightGetsItsRow == Spec => []InFlightIsSaved
<1>1. ExitInv => InFlightIsSaved
  BY DEF ExitInv, PauseAllReaches, StillTransferring, OwedIsGoing, Running, InFlightIsSaved
<1> QED
  BY InitInv, NextInv, InitExit, NextExit, <1>1, PTL DEF Spec
================================================================================
