------------------------- MODULE JobLifecycle_proofs -------------------------
(* Theorems about one download's registry entry, for any number of concurrent  *)
(* callers, runs, entry generations, edits and crashes.                        *)
EXTENDS JobLifecycle, TLAPS

(* Where a call is while it holds a claim its run task has not taken over yet. *)
SetupPCs == {"token", "supersede", "setup", "root", "rootstore", "spawn"}

(* A call that is setting a run up holds exactly that run, knows an entry, and *)
(* until the entry may be rebuilt knows one that is flagged as running.        *)
ClaimsHeld ==
    \A c \in Callers :
        /\ caller[c].pc \in SetupPCs =>
              /\ caller[c].ref # 0
              /\ caller[c].mine \in Runs
              /\ run[caller[c].mine].at = "setup"
        /\ caller[c].pc \in {"token", "supersede"} => caller[c].ref \in running
        /\ caller[c].pc = "pcancel" => caller[c].ref # 0

OneClaimant ==
    \A c, d \in Callers :
        /\ caller[c].pc \in SetupPCs
        /\ caller[d].pc \in SetupPCs
        /\ caller[c].mine = caller[d].mine
        => c = d

(* What makes the two registry properties inductive: every live run is known   *)
(* to exactly one holder, and the holder's entry is the flagged one.           *)
Held ==
    /\ SingleRunner
    /\ LiveRunIsRegistered
    /\ ClaimsHeld
    /\ OneClaimant

IInv == TypeOK /\ Held

LEMMA InitIInv == Init => IInv
  BY LifecycleAssumption
     DEF Init, IInv, Held, TypeOK, SingleRunner, LiveRunIsRegistered, ClaimsHeld, OneClaimant,
         Live, NoneLive, NotRun, Over, Idle, NoRun, Gens, Runs, Phases, Outcomes, PCs, SetupPCs,
         RunStates, CallerStates, Hands

-------------------------------------------------------------------------------
(* What the helpers the actions are built from do to the typed state.          *)

Others(c) == \A d \in Callers \ {c} : caller'[d] = caller[d]

LEMMA GotoEffect ==
  ASSUME TypeOK, NEW c \in Callers, NEW l \in PCs, Goto(c, l)
  PROVE  /\ caller' \in [Callers -> CallerStates]
         /\ caller'[c].pc = l
         /\ caller'[c].ref = caller[c].ref
         /\ caller'[c].mine = caller[c].mine
         /\ Others(c)
  BY DEF TypeOK, Goto, CallerStates, Others

LEMMA GotoWithEffect ==
  ASSUME TypeOK, NEW c \in Callers, NEW l \in PCs, NEW g \in {0} \cup Gens, GotoWith(c, l, g)
  PROVE  /\ caller' \in [Callers -> CallerStates]
         /\ caller'[c].pc = l
         /\ caller'[c].ref = g
         /\ caller'[c].mine = caller[c].mine
         /\ Others(c)
  BY DEF TypeOK, GotoWith, CallerStates, Others

LEMMA ReturnEffect ==
  ASSUME TypeOK, NEW c \in Callers, Return(c)
  PROVE  /\ caller' \in [Callers -> CallerStates]
         /\ caller'[c].pc = "idle"
         /\ Others(c)
  BY DEF TypeOK, Return, Idle, CallerStates, Others, PCs, NoRun

LEMMA RunToEffect ==
  ASSUME TypeOK, NEW r \in Runs, NEW s \in TaskStates, run[r].at \in TaskStates, RunTo(r, s)
  PROVE  /\ run' \in [Runs -> RunStates]
         /\ run'[r].at = s
         /\ \A q \in Runs \ {r} : run'[q] = run[q]
  BY DEF TypeOK, RunTo, RunStates, TaskStates, NotRun, Over

LEMMA OverEffect ==
  ASSUME TypeOK, NEW r \in Runs, run' = [run EXCEPT ![r] = Over]
  PROVE  /\ run' \in [Runs -> RunStates]
         /\ run'[r].at = "done"
         /\ \A q \in Runs \ {r} : run'[q] = run[q]
  BY DEF TypeOK, RunStates, Over

LEMMA ReplaceEffect ==
  ASSUME TypeOK, NEW g \in Gens, Replace(g)
  PROVE  /\ top' \in Gens
         /\ cur' = top' /\ cur' # cur
         /\ running' \subseteq Gens
         /\ running \subseteq running'
         /\ g \in running => cur' \in running'
         /\ phase' \in [Gens -> Phases]
         /\ token' \in [Gens -> 0 .. MaxRuns]
  BY LifecycleAssumption DEF TypeOK, Replace, CopyRunning, Gens

LEMMA SetPhaseTyped ==
  ASSUME TypeOK, NEW g, NEW p \in Phases, SetPhase(g, p)
  PROVE  phase' \in [Gens -> Phases]
  BY DEF TypeOK, SetPhase

LEMMA CurTyped == TypeOK => cur \in {0} \cup Gens
  BY LifecycleAssumption DEF TypeOK, Gens

(* The row, and what is on its way there.                                      *)
DiskTyped ==
    /\ row \in Phases \cup {"absent"}
    /\ loaded \in Phases
    /\ read \in [Hands -> Phases \cup {"absent"}]
    /\ newest \in {OnDisk, Lost} \cup Hands

LEMMA KeptTyped == ASSUME TypeOK, UNCHANGED disk PROVE DiskTyped' /\ unsaved' = unsaved
  BY DEF TypeOK, DiskTyped, disk

LEMMA ReadTyped ==
  ASSUME TypeOK, NEW x \in Hands, cur # 0, ReadLive(x)
  PROVE  DiskTyped' /\ unsaved' = unsaved
<1>1. phase[cur] \in Phases
  BY CurTyped DEF TypeOK
<1>2. read' \in [Hands -> Phases \cup {"absent"}]
  BY <1>1 DEF TypeOK, ReadLive
<1> QED
  BY <1>2 DEF TypeOK, DiskTyped, ReadLive

LEMMA StoreTyped ==
  ASSUME TypeOK, NEW x \in Hands, StoreRead(x)
  PROVE  DiskTyped' /\ unsaved' = unsaved
<1>1. row' \in Phases \cup {"absent"} /\ read' \in [Hands -> Phases \cup {"absent"}]
  BY DEF TypeOK, StoreRead
<1> QED
  BY <1>1 DEF TypeOK, DiskTyped, StoreRead, Overwritten

LEMMA LoadedTyped == ASSUME TypeOK, StoreLoaded PROVE DiskTyped'
  BY DEF TypeOK, DiskTyped, StoreLoaded, Overwritten

LEMMA HandsTyped ==
    /\ \A c \in Callers : CallerHand(c) \in Hands
    /\ \A r \in Runs : RunHand(r) \in Hands
  BY DEF Hands

-------------------------------------------------------------------------------
(* Four ways a step can touch what Held is about.                              *)

(* A call that holds no claim moves on; the registry's flags stay put.         *)
LEMMA CallerMoves ==
  ASSUME IInv, NEW c \in Callers, Others(c), UNCHANGED <<cur, running, run>>,
         caller'[c].pc \notin SetupPCs,
         caller'[c].pc = "pcancel" => caller'[c].ref # 0
  PROVE  Held'
  BY DEF IInv, Held, SingleRunner, LiveRunIsRegistered, ClaimsHeld, OneClaimant, Live, NoneLive,
         Others, SetupPCs

(* A call that holds a claim moves on with it; entries may be rebuilt.         *)
LEMMA ClaimMoves ==
  ASSUME IInv, NEW c \in Callers, Others(c), UNCHANGED run,
         caller[c].pc \in SetupPCs, caller'[c].pc \in SetupPCs \ {"token"},
         caller'[c].mine = caller[c].mine, caller'[c].ref # 0,
         caller'[c].pc = "supersede" => caller'[c].ref \in running',
         running \subseteq running', cur' # 0 => cur' \in running'
  PROVE  Held'
  BY DEF IInv, Held, SingleRunner, LiveRunIsRegistered, ClaimsHeld, OneClaimant, Live, NoneLive,
         Others, SetupPCs

(* A run task moves on.                                                        *)
LEMMA RunMoves ==
  ASSUME IInv, NEW r \in Runs, run[r].at \in TaskStates, run'[r].at \in TaskStates,
         \A q \in Runs \ {r} : run'[q] = run[q], UNCHANGED <<cur, running, caller>>
  PROVE  Held'
  BY DEF IInv, Held, SingleRunner, LiveRunIsRegistered, ClaimsHeld, OneClaimant, Live, NoneLive,
         TaskStates

(* The one live run lets go: no call holds a claim then.                       *)
LEMMA RunLetsGo ==
  ASSUME IInv, NEW r \in Runs, Live(r), run'[r].at = "done",
         \A q \in Runs \ {r} : run'[q] = run[q],
         \A c \in Callers : /\ caller'[c].pc \notin SetupPCs
                            /\ caller'[c].pc = "pcancel" => caller'[c].ref # 0
  PROVE  Held'
<1>1. \A q \in Runs : run'[q].at \in {"none", "done"}
  BY DEF IInv, Held, SingleRunner, Live
<1> QED
  BY <1>1 DEF Held, SingleRunner, LiveRunIsRegistered, ClaimsHeld, OneClaimant, Live, NoneLive,
              SetupPCs

(* The holder of a live run's claim is the only call in its setup.             *)
LEMMA OnlyClaimant ==
  ASSUME IInv, NEW c \in Callers, caller[c].pc \in SetupPCs
  PROVE  /\ caller[c].mine \in Runs
         /\ Live(caller[c].mine)
         /\ cur # 0 => cur \in running
         /\ \A d \in Callers \ {c} : caller[d].pc \notin SetupPCs
  BY DEF IInv, Held, SingleRunner, LiveRunIsRegistered, ClaimsHeld, OneClaimant, Live, NoneLive

LEMMA NoClaimant ==
  ASSUME IInv, NEW r \in Runs, run[r].at \in TaskStates
  PROVE  /\ Live(r)
         /\ \A c \in Callers : caller[c].pc \notin SetupPCs
  BY DEF IInv, Held, SingleRunner, ClaimsHeld, Live, TaskStates

-------------------------------------------------------------------------------
(* The calls.                                                                  *)

LEMMA SettleStep == ASSUME IInv, NEW c \in Callers, Settle(c) PROVE IInv'
<1>1. /\ caller' \in [Callers -> CallerStates] /\ Others(c)
      /\ caller'[c].pc \in {"settle", "admit"}
  <2>1. CASE Goto(c, "admit")
    BY <2>1, GotoEffect DEF IInv, PCs
  <2>2. CASE cur \notin {0, caller[c].ref} /\ GotoWith(c, "settle", cur)
    BY <2>2, CurTyped, GotoWithEffect DEF IInv, PCs
  <2> QED
    BY <2>1, <2>2 DEF Settle
<1>2. Held'
  BY <1>1, CallerMoves DEF Settle, registry, runs, SetupPCs
<1>3. TypeOK'
  BY <1>1 DEF IInv, TypeOK, Settle, registry, runs, disk, bounds
<1> QED
  BY <1>2, <1>3 DEF IInv

LEMMA AdmitStep == ASSUME IInv, NEW c \in Callers, Admit(c) PROVE IInv'
<1> USE DEF Claimable
<1>1. CASE Return(c) /\ UNCHANGED <<running, nextRun, run>> /\ phase' \in [Gens -> Phases]
  <2>1. caller' \in [Callers -> CallerStates] /\ Others(c) /\ caller'[c].pc = "idle"
    BY <1>1, ReturnEffect DEF IInv
  <2>2. Held'
    BY <1>1, <2>1, CallerMoves DEF Admit, SetupPCs
  <2>3. TypeOK'
    BY <1>1, <2>1 DEF IInv, TypeOK, Admit, disk, bounds
  <2> QED
    BY <2>2, <2>3 DEF IInv
<1>2. CASE /\ cur # 0 /\ cur \notin running /\ nextRun < MaxRuns
           /\ running' = running \cup {cur}
           /\ SetPhase(cur, "Evaluating")
           /\ nextRun' = nextRun + 1
           /\ run' = [run EXCEPT ![nextRun'].at = "setup"]
           /\ caller' = [caller EXCEPT ![c].pc = "token", ![c].ref = cur, ![c].mine = nextRun']
  <2> DEFINE r == nextRun + 1
  <2>1. r \in Runs /\ cur \in Gens
    BY <1>2, LifecycleAssumption DEF IInv, TypeOK, Runs, Gens
  <2>2. \A q \in Runs : ~Live(q)
    BY <1>2 DEF IInv, Held, LiveRunIsRegistered, NoneLive
  <2>3. \A d \in Callers : caller[d].pc \notin SetupPCs
    BY <2>2, OnlyClaimant
  <2>4. /\ run' \in [Runs -> RunStates]
        /\ run'[r].at = "setup"
        /\ \A q \in Runs \ {r} : run'[q] = run[q]
    <3>1. run[r] \in {NotRun, Over}
      BY <2>1, <2>2 DEF IInv, TypeOK, RunStates, Live, TaskStates, NotRun, Over
    <3> QED
      BY <1>2, <2>1, <3>1 DEF IInv, TypeOK, RunStates, NotRun, Over
  <2>5. /\ caller' \in [Callers -> CallerStates]
        /\ caller'[c].pc = "token" /\ caller'[c].ref = cur /\ caller'[c].mine = r
        /\ Others(c)
    <3>1. caller[c] \in CallerStates /\ "token" \in PCs /\ cur \in {0} \cup Gens
      BY <2>1 DEF IInv, TypeOK, PCs
    <3>2. caller' = [caller EXCEPT ![c] = [caller[c] EXCEPT !.pc = "token", !.ref = cur,
                                                            !.mine = r]]
      BY <1>2 DEF IInv, TypeOK
    <3> QED
      BY <2>1, <3>1, <3>2 DEF IInv, TypeOK, CallerStates, Others
  <2>6. SingleRunner' /\ LiveRunIsRegistered'
    BY <1>2, <2>1, <2>2, <2>4 DEF Admit, SingleRunner, LiveRunIsRegistered, Live
  <2>7. ClaimsHeld' /\ OneClaimant'
    BY <1>2, <2>1, <2>3, <2>4, <2>5
       DEF IInv, Held, ClaimsHeld, OneClaimant, Others, SetupPCs
  <2>8. phase' \in [Gens -> Phases]
    BY <1>2, SetPhaseTyped DEF IInv, Phases
  <2>9. DiskTyped' /\ unsaved' \in 0 .. edits' /\ edits' \in 0 .. MaxEdits
    BY KeptTyped DEF IInv, TypeOK, Admit, bounds
  <2>10. running' \subseteq Gens /\ nextRun' \in 0 .. MaxRuns
    BY <1>2, <2>1 DEF IInv, TypeOK, Runs
  <2>11. UNCHANGED <<top, cur, token, rooted, cancelled, crashes>>
    BY DEF Admit, bounds
  <2>12. TypeOK'
    BY <2>4, <2>5, <2>8, <2>9, <2>10, <2>11 DEF IInv, TypeOK, DiskTyped
  <2> QED
    BY <2>6, <2>7, <2>12 DEF IInv, Held
<1>3. CASE SetPhase(cur, "Queued") /\ Return(c) /\ UNCHANGED <<running, nextRun, run>>
  BY <1>1, <1>3, SetPhaseTyped DEF IInv, Phases
<1>4. CASE Return(c) /\ UNCHANGED <<phase, running, nextRun, run>>
  BY <1>1, <1>4 DEF IInv, TypeOK
<1> QED
  BY <1>2, <1>3, <1>4 DEF Admit

LEMMA InstallTokenStep == ASSUME IInv, NEW c \in Callers, InstallToken(c) PROVE IInv'
<1>1. /\ caller' \in [Callers -> CallerStates] /\ Others(c)
      /\ caller'[c].pc = "supersede" /\ caller'[c].ref = caller[c].ref
      /\ caller'[c].mine = caller[c].mine
  BY GotoEffect DEF IInv, InstallToken, PCs
<1>2. /\ caller[c].pc \in SetupPCs /\ caller[c].ref \in running /\ caller[c].ref # 0
      /\ caller[c].mine \in Runs
  BY DEF IInv, Held, ClaimsHeld, InstallToken, At, SetupPCs
<1>3. Held'
  BY <1>1, <1>2, ClaimMoves, OnlyClaimant DEF InstallToken, runs, SetupPCs
<1>4. token' \in [Gens -> 0 .. MaxRuns]
  BY <1>2, LifecycleAssumption DEF IInv, TypeOK, InstallToken, Runs
<1>5. TypeOK'
  BY <1>1, <1>4 DEF IInv, TypeOK, InstallToken, runs, disk, bounds
<1> QED
  BY <1>3, <1>5 DEF IInv

LEMMA SupersedeStep == ASSUME IInv, NEW c \in Callers, Supersede(c) PROVE IInv'
<1>1. /\ caller[c].pc \in SetupPCs /\ caller[c].ref \in running /\ caller[c].ref # 0
      /\ caller[c].ref \in Gens
  BY DEF IInv, TypeOK, Held, ClaimsHeld, Supersede, At, SetupPCs, CallerStates
<1>2. CASE Goto(c, "setup") /\ UNCHANGED registry
  <2>1. /\ caller' \in [Callers -> CallerStates] /\ Others(c)
        /\ caller'[c].pc = "setup" /\ caller'[c].ref = caller[c].ref
        /\ caller'[c].mine = caller[c].mine
    BY <1>2, GotoEffect DEF IInv, PCs
  <2>2. Held'
    BY <1>1, <1>2, <2>1, ClaimMoves, OnlyClaimant DEF Supersede, registry, runs, SetupPCs
  <2>3. TypeOK'
    BY <1>2, <2>1 DEF IInv, TypeOK, Supersede, registry, runs, disk, bounds
  <2> QED
    BY <2>2, <2>3 DEF IInv
<1>3. CASE /\ Rebuild(IF cur = 0 THEN caller[c].ref ELSE cur)
           /\ GotoWith(c, "setup", top')
  <2> DEFINE g == IF cur = 0 THEN caller[c].ref ELSE cur
  <2>1. g \in Gens /\ g \in running
    BY <1>1, OnlyClaimant, LifecycleAssumption DEF IInv, TypeOK, Gens
  <2>2. /\ top' \in Gens /\ cur' = top'
        /\ running' \subseteq Gens /\ running \subseteq running' /\ cur' \in running'
        /\ phase' \in [Gens -> Phases] /\ token' \in [Gens -> 0 .. MaxRuns]
    BY <1>3, <2>1, ReplaceEffect DEF IInv, Rebuild
  <2>3. /\ caller' \in [Callers -> CallerStates] /\ Others(c)
        /\ caller'[c].pc = "setup" /\ caller'[c].ref = top'
        /\ caller'[c].mine = caller[c].mine
    BY <1>3, <2>2, GotoWithEffect DEF IInv, PCs
  <2>4. Held'
    BY <1>1, <2>2, <2>3, ClaimMoves DEF Supersede, runs, SetupPCs, Gens
  <2>5. rooted' \subseteq Gens
    BY <1>3, <2>2, LifecycleAssumption DEF IInv, TypeOK, Rebuild, Replace, Gens
  <2>6. TypeOK'
    BY <2>2, <2>3, <2>5, LifecycleAssumption DEF IInv, TypeOK, Supersede, runs, disk, bounds, Gens
  <2> QED
    BY <2>4, <2>6 DEF IInv
<1> QED
  BY <1>2, <1>3 DEF Supersede

LEMMA CreateWorkDirStep == ASSUME IInv, NEW c \in Callers, CreateWorkDir(c) PROVE IInv'
<1>1. caller[c].pc \in SetupPCs /\ caller[c].ref # 0 /\ caller[c].mine \in Runs
  BY DEF IInv, Held, ClaimsHeld, CreateWorkDir, At, SetupPCs
<1>2. CASE /\ Goto(c, IF caller[c].ref \in rooted THEN "spawn" ELSE "root")
           /\ UNCHANGED <<running, phase, run>>
  <2>1. /\ caller' \in [Callers -> CallerStates] /\ Others(c)
        /\ caller'[c].pc \in {"spawn", "root"} /\ caller'[c].ref = caller[c].ref
        /\ caller'[c].mine = caller[c].mine
    BY <1>2, GotoEffect DEF IInv, PCs
  <2>2. Held'
    BY <1>1, <1>2, <2>1, ClaimMoves, OnlyClaimant DEF CreateWorkDir, SetupPCs
  <2>3. TypeOK'
    BY <1>2, <2>1 DEF IInv, TypeOK, CreateWorkDir, disk, bounds
  <2> QED
    BY <2>2, <2>3 DEF IInv
<1>3. CASE /\ running' = running \ {caller[c].ref}
           /\ SetPhase(caller[c].ref, "Queued")
           /\ run' = [run EXCEPT ![caller[c].mine] = Over]
           /\ Return(c)
  <2>1. caller' \in [Callers -> CallerStates] /\ Others(c) /\ caller'[c].pc = "idle"
    BY <1>3, ReturnEffect DEF IInv
  <2>2. /\ run' \in [Runs -> RunStates]
        /\ run'[caller[c].mine].at = "done"
        /\ \A q \in Runs \ {caller[c].mine} : run'[q] = run[q]
    BY <1>1, <1>3, OverEffect DEF IInv
  <2>3. \A d \in Callers : /\ caller'[d].pc \notin SetupPCs
                           /\ caller'[d].pc = "pcancel" => caller'[d].ref # 0
    BY <1>1, <2>1, OnlyClaimant DEF IInv, Held, ClaimsHeld, Others, SetupPCs
  <2>4. Held'
    BY <1>1, <2>2, <2>3, RunLetsGo, OnlyClaimant
  <2>5. phase' \in [Gens -> Phases]
    BY <1>3, SetPhaseTyped DEF IInv, Phases
  <2>6. TypeOK'
    BY <1>3, <2>1, <2>2, <2>5 DEF IInv, TypeOK, CreateWorkDir, disk, bounds
  <2> QED
    BY <2>4, <2>6 DEF IInv
<1> QED
  BY <1>2, <1>3 DEF CreateWorkDir

LEMMA RecordWorkRootStep == ASSUME IInv, NEW c \in Callers, RecordWorkRoot(c) PROVE IInv'
<1>1. /\ caller[c].pc \in SetupPCs /\ caller[c].ref # 0 /\ caller[c].ref \in Gens
      /\ cur # 0 => cur \in running
  BY OnlyClaimant DEF IInv, TypeOK, Held, ClaimsHeld, RecordWorkRoot, At, SetupPCs, CallerStates
<1>2. CASE cur = 0 \/ cur \in rooted
  <2> DEFINE g == IF cur = 0 THEN caller[c].ref ELSE cur
  <2>1. g \in {0} \cup Gens /\ g # 0 /\ GotoWith(c, "spawn", g) /\ UNCHANGED registry
    BY <1>1, <1>2, CurTyped DEF IInv, RecordWorkRoot
  <2>2. /\ caller' \in [Callers -> CallerStates] /\ Others(c)
        /\ caller'[c].pc = "spawn" /\ caller'[c].ref = g
        /\ caller'[c].mine = caller[c].mine
    BY <2>1, GotoWithEffect DEF IInv, PCs
  <2>3. Held'
    BY <1>1, <2>1, <2>2, ClaimMoves DEF RecordWorkRoot, registry, runs, SetupPCs
  <2>4. TypeOK'
    BY <2>1, <2>2 DEF IInv, TypeOK, RecordWorkRoot, registry, runs, disk, bounds
  <2> QED
    BY <2>3, <2>4 DEF IInv
<1>3. CASE ~(cur = 0 \/ cur \in rooted)
  <2>1. cur \in Gens /\ RebuildRooted(cur) /\ GotoWith(c, "rootstore", top')
    BY <1>3, CurTyped DEF IInv, RecordWorkRoot
  <2>2. /\ top' \in Gens /\ cur' = top'
        /\ running' \subseteq Gens /\ running \subseteq running' /\ cur' \in running'
        /\ phase' \in [Gens -> Phases] /\ token' \in [Gens -> 0 .. MaxRuns]
    BY <1>1, <1>3, <2>1, ReplaceEffect DEF IInv, RebuildRooted
  <2>3. /\ caller' \in [Callers -> CallerStates] /\ Others(c)
        /\ caller'[c].pc = "rootstore" /\ caller'[c].ref = top'
        /\ caller'[c].mine = caller[c].mine
    BY <2>1, <2>2, GotoWithEffect DEF IInv, PCs
  <2>4. Held'
    BY <1>1, <2>2, <2>3, ClaimMoves DEF RecordWorkRoot, runs, SetupPCs, Gens
  <2>5. rooted' \subseteq Gens
    BY <2>1, <2>2 DEF IInv, TypeOK, RebuildRooted, Replace
  <2>6. TypeOK'
    BY <2>1, <2>2, <2>3, <2>5, LifecycleAssumption
       DEF IInv, TypeOK, RecordWorkRoot, runs, disk, bounds, Gens
  <2> QED
    BY <2>4, <2>6 DEF IInv
<1> QED
  BY <1>2, <1>3

LEMMA StoreWorkRootStep == ASSUME IInv, NEW c \in Callers, StoreWorkRoot(c) PROVE IInv'
<1>1. caller[c].pc \in SetupPCs /\ caller[c].ref # 0
  BY DEF IInv, Held, ClaimsHeld, StoreWorkRoot, At, SetupPCs
<1>2. /\ caller' \in [Callers -> CallerStates] /\ Others(c)
      /\ caller'[c].pc = "spawn" /\ caller'[c].ref = caller[c].ref
      /\ caller'[c].mine = caller[c].mine
  BY GotoEffect DEF IInv, StoreWorkRoot, PCs
<1>3. Held'
  BY <1>1, <1>2, ClaimMoves, OnlyClaimant DEF StoreWorkRoot, registry, runs, SetupPCs
<1>4. DiskTyped'
  BY LoadedTyped DEF IInv, StoreWorkRoot
<1>5. TypeOK'
  BY <1>2, <1>4 DEF IInv, TypeOK, DiskTyped, StoreWorkRoot, registry, runs, bounds
<1> QED
  BY <1>3, <1>5 DEF IInv

LEMMA SpawnStep == ASSUME IInv, NEW c \in Callers, Spawn(c) PROVE IInv'
<1> DEFINE r == caller[c].mine
<1>1. /\ caller[c].pc \in SetupPCs /\ caller[c].ref \in Gens /\ r \in Runs
      /\ run[r].at = "setup" /\ run[r] \in RunStates
      /\ \A q \in Runs \ {r} : ~Live(q)
      /\ cur # 0 => cur \in running
  BY OnlyClaimant
     DEF IInv, TypeOK, Held, SingleRunner, ClaimsHeld, Spawn, At, SetupPCs, CallerStates
<1>2. caller' \in [Callers -> CallerStates] /\ Others(c) /\ caller'[c].pc = "idle"
  BY ReturnEffect DEF IInv, Spawn
<1>3. run' = [run EXCEPT ![r] = [run[r] EXCEPT !.at = "fetching", !.ref = caller[c].ref]]
  BY <1>1 DEF IInv, TypeOK, Spawn
<1>4. run[r] \in [at : {"setup"}, ref : {0}, out : {"none"}]
  BY <1>1 DEF RunStates, TaskStates, NotRun, Over
<1>5. /\ run' \in [Runs -> RunStates]
      /\ \A q \in Runs \ {r} : run'[q] = run[q]
  BY <1>1, <1>3, <1>4 DEF IInv, TypeOK, RunStates, TaskStates, Outcomes
<1>6. \A d \in Callers : /\ caller'[d].pc \notin SetupPCs
                         /\ caller'[d].pc = "pcancel" => caller'[d].ref # 0
  BY <1>1, <1>2, OnlyClaimant DEF IInv, Held, ClaimsHeld, Others, SetupPCs
<1>7. SingleRunner' /\ LiveRunIsRegistered'
  BY <1>1, <1>5 DEF SingleRunner, LiveRunIsRegistered, Live, NoneLive, Spawn, registry
<1>8. Held'
  BY <1>6, <1>7 DEF Held, ClaimsHeld, OneClaimant, SetupPCs
<1>9. TypeOK'
  BY <1>2, <1>5 DEF IInv, TypeOK, Spawn, registry, disk, bounds
<1> QED
  BY <1>8, <1>9 DEF IInv

(* The calls that only move on, write a phase, cancel a token or store the row.*)
LEMMA PlainCall ==
  ASSUME IInv, NEW c \in Callers,
         caller' \in [Callers -> CallerStates], Others(c), caller'[c].pc \notin SetupPCs,
         caller'[c].pc = "pcancel" => caller'[c].ref # 0,
         UNCHANGED <<top, cur, running, token, rooted, nextRun, run, unsaved, edits, crashes>>,
         phase' \in [Gens -> Phases], cancelled' \subseteq 0 .. MaxRuns, DiskTyped'
  PROVE  IInv'
<1>1. Held'
  BY CallerMoves
<1>2. TypeOK'
  BY DEF IInv, TypeOK, DiskTyped
<1> QED
  BY <1>1, <1>2 DEF IInv

LEMMA CallStep == ASSUME IInv, NEW c \in Callers, NEW o \in Ops, Call(c, o) PROVE IInv'
<1>1. FirstPC[o] \in PCs \ SetupPCs
  BY LifecycleAssumption DEF FirstPC, PCs, SetupPCs
<1>2. cur \in Gens
  BY CurTyped DEF IInv, Call
<1>3. /\ caller' \in [Callers -> CallerStates] /\ Others(c)
      /\ caller'[c].pc = FirstPC[o] /\ caller'[c].ref = cur
  BY <1>1, <1>2 DEF IInv, TypeOK, Call, CallerStates, Others, NoRun
<1> QED
  BY <1>1, <1>2, <1>3, KeptTyped, PlainCall DEF IInv, TypeOK, Call, registry, runs, bounds, Gens

LEMMA PauseCheckStep == ASSUME IInv, NEW c \in Callers, PauseCheck(c) PROVE IInv'
<1>1. CASE cur # 0 /\ GotoWith(c, "pcancel", cur)
  BY <1>1, CurTyped, KeptTyped, GotoWithEffect, PlainCall
     DEF IInv, TypeOK, PauseCheck, PCs, SetupPCs, registry, runs, bounds
<1>2. CASE Goto(c, "reset")
  BY <1>2, KeptTyped, GotoEffect, PlainCall
     DEF IInv, TypeOK, PauseCheck, PCs, SetupPCs, registry, runs, bounds
<1> QED
  BY <1>1, <1>2 DEF PauseCheck

LEMMA PauseCancelStep == ASSUME IInv, NEW c \in Callers, PauseCancel(c) PROVE IInv'
<1>1. caller[c].ref \in Gens
  BY DEF IInv, TypeOK, Held, ClaimsHeld, PauseCancel, At, CallerStates
<1>2. cancelled' \subseteq 0 .. MaxRuns
  BY <1>1 DEF IInv, TypeOK, PauseCancel
<1> QED
  BY <1>2, KeptTyped, GotoEffect, PlainCall
     DEF IInv, TypeOK, PauseCancel, PCs, SetupPCs, registry, bounds

LEMMA PauseMarkStep == ASSUME IInv, NEW c \in Callers, PauseMark(c) PROVE IInv'
<1>1. phase' \in [Gens -> Phases]
  BY SetPhaseTyped DEF IInv, TypeOK, PauseMark, Phases
<1> QED
  BY <1>1, KeptTyped, GotoEffect, PlainCall DEF IInv, TypeOK, PauseMark, PCs, SetupPCs, runs, bounds

LEMMA AfterPauseEffect ==
  ASSUME TypeOK, NEW c \in Callers, AfterPause(c)
  PROVE  /\ caller' \in [Callers -> CallerStates] /\ Others(c)
         /\ caller'[c].pc \in {"requeue", "reset", "idle"}
  BY GotoEffect, ReturnEffect DEF AfterPause, PCs

LEMMA AfterRequeueEffect ==
  ASSUME TypeOK, NEW c \in Callers, AfterRequeue(c)
  PROVE  /\ caller' \in [Callers -> CallerStates] /\ Others(c)
         /\ caller'[c].pc \in {"settle", "idle"}
  BY CurTyped, GotoWithEffect, ReturnEffect DEF AfterRequeue, PCs

LEMMA PersistStep == ASSUME IInv, NEW c \in Callers, Persist(c) PROVE IInv'
<1>1. DiskTyped' /\ unsaved' = unsaved
  BY KeptTyped, ReadTyped, HandsTyped DEF IInv, Persist
<1>2. /\ caller' \in [Callers -> CallerStates] /\ Others(c)
      /\ caller'[c].pc \in {"store", "requeue", "reset", "idle"}
  BY GotoEffect, AfterPauseEffect DEF IInv, Persist, PCs
<1> QED
  BY <1>1, <1>2, PlainCall DEF IInv, TypeOK, Persist, SetupPCs, registry, runs, bounds

LEMMA StoreStep == ASSUME IInv, NEW c \in Callers, Store(c) PROVE IInv'
<1>1. DiskTyped' /\ unsaved' = unsaved
  BY StoreTyped, HandsTyped DEF IInv, Store
<1> QED
  BY <1>1, AfterPauseEffect, PlainCall DEF IInv, TypeOK, Store, SetupPCs, registry, runs, bounds

LEMMA RequeueStep == ASSUME IInv, NEW c \in Callers, Requeue(c) PROVE IInv'
<1>1. phase' \in [Gens -> Phases]
  BY SetPhaseTyped DEF IInv, TypeOK, Requeue, Phases
<1>2. /\ caller' \in [Callers -> CallerStates] /\ Others(c)
      /\ caller'[c].pc \in {"persist2", "idle"}
  BY GotoEffect, ReturnEffect DEF IInv, Requeue, PCs
<1> QED
  BY <1>1, <1>2, KeptTyped, PlainCall DEF IInv, TypeOK, Requeue, SetupPCs, runs, bounds

LEMMA ResetStep == ASSUME IInv, NEW c \in Callers, Reset(c) PROVE IInv'
<1>1. phase' \in [Gens -> Phases]
  BY SetPhaseTyped DEF IInv, Reset, Phases
<1> QED
  BY <1>1, KeptTyped, GotoEffect, PlainCall DEF IInv, TypeOK, Reset, PCs, SetupPCs, runs, bounds

LEMMA PersistAgainStep == ASSUME IInv, NEW c \in Callers, PersistAgain(c) PROVE IInv'
<1>1. DiskTyped' /\ unsaved' = unsaved
  BY KeptTyped, ReadTyped, HandsTyped DEF IInv, PersistAgain
<1>2. /\ caller' \in [Callers -> CallerStates] /\ Others(c)
      /\ caller'[c].pc \in {"store2", "settle", "idle"}
  BY GotoEffect, AfterRequeueEffect DEF IInv, PersistAgain, PCs
<1> QED
  BY <1>1, <1>2, PlainCall DEF IInv, TypeOK, PersistAgain, SetupPCs, registry, runs, bounds

LEMMA StoreAgainStep == ASSUME IInv, NEW c \in Callers, StoreAgain(c) PROVE IInv'
<1>1. DiskTyped' /\ unsaved' = unsaved
  BY StoreTyped, HandsTyped DEF IInv, StoreAgain
<1> QED
  BY <1>1, AfterRequeueEffect, PlainCall
     DEF IInv, TypeOK, StoreAgain, SetupPCs, registry, runs, bounds

LEMMA RemoveRowStep == ASSUME IInv, NEW c \in Callers, RemoveRow(c) PROVE IInv'
<1>1. DiskTyped'
  BY DEF IInv, TypeOK, DiskTyped, RemoveRow, Overwritten
<1> QED
  BY <1>1, GotoEffect, PlainCall DEF IInv, TypeOK, RemoveRow, PCs, SetupPCs, registry, runs, bounds

LEMMA RemoveEntryStep == ASSUME IInv, NEW c \in Callers, RemoveEntry(c) PROVE IInv'
<1>1. caller' \in [Callers -> CallerStates] /\ Others(c) /\ caller'[c].pc = "idle"
  BY ReturnEffect DEF IInv, RemoveEntry
<1>2. Held'
  BY <1>1 DEF IInv, Held, SingleRunner, LiveRunIsRegistered, ClaimsHeld, OneClaimant, Live,
              Others, SetupPCs, RemoveEntry, runs
<1>3. TypeOK'
  BY <1>1, LifecycleAssumption DEF IInv, TypeOK, RemoveEntry, runs, bounds, Gens
<1> QED
  BY <1>2, <1>3 DEF IInv

-------------------------------------------------------------------------------
(* The run task.                                                               *)

(* A run task that moves on, writes a phase or stores the row.                 *)
LEMMA PlainRun ==
  ASSUME IInv, NEW r \in Runs, run[r].at \in TaskStates, run'[r].at \in TaskStates,
         run' \in [Runs -> RunStates], \A q \in Runs \ {r} : run'[q] = run[q],
         UNCHANGED <<top, cur, running, token, rooted, nextRun, cancelled, caller, unsaved,
                     edits, crashes>>,
         phase' \in [Gens -> Phases], DiskTyped'
  PROVE  IInv'
<1>1. Held'
  BY RunMoves
<1>2. TypeOK'
  BY DEF IInv, TypeOK, DiskTyped
<1> QED
  BY <1>1, <1>2 DEF IInv

LEMMA SetRunPhaseTyped ==
  ASSUME TypeOK, NEW g, NEW p \in Phases, SetRunPhase(g, p)
  PROVE  phase' \in [Gens -> Phases]
  BY SetPhaseTyped DEF TypeOK, SetRunPhase

LEMMA RunReportsStep == ASSUME IInv, NEW r \in Runs, RunReports(r) PROVE IInv'
<1>1. phase' \in [Gens -> Phases]
  BY SetRunPhaseTyped DEF IInv, RunReports, Phases
<1> QED
  BY <1>1, KeptTyped, PlainRun DEF IInv, TypeOK, RunReports, runs, bounds, TaskStates

LEMMA RunAssemblesStep == ASSUME IInv, NEW r \in Runs, RunAssembles(r) PROVE IInv'
<1>1. phase' \in [Gens -> Phases]
  BY SetRunPhaseTyped DEF IInv, TypeOK, RunAssembles, Phases
<1> QED
  BY <1>1, KeptTyped, PlainRun, RunToEffect DEF IInv, TypeOK, RunAssembles, bounds, TaskStates

LEMMA RunEndsStep ==
  ASSUME IInv, NEW r \in Runs, NEW o \in Outcomes, RunEnds(r, o) PROVE IInv'
<1>1. phase' \in [Gens -> Phases]
  BY SetPhaseTyped DEF IInv, TypeOK, RunEnds, Phases
<1>2. run[r] \in [at : TaskStates, ref : Gens, out : Outcomes]
  BY DEF IInv, TypeOK, RunEnds, RunStates, NotRun, Over
<1>3. run' = [run EXCEPT ![r] = [run[r] EXCEPT !.at = "ended", !.out = o]]
  BY DEF IInv, TypeOK, RunEnds
<1>4. /\ run' \in [Runs -> RunStates] /\ run'[r].at = "ended"
      /\ \A q \in Runs \ {r} : run'[q] = run[q]
  BY <1>2, <1>3 DEF IInv, TypeOK, RunStates, TaskStates
<1> QED
  BY <1>1, <1>2, <1>4, KeptTyped, PlainRun DEF IInv, TypeOK, RunEnds, bounds, TaskStates

LEMMA EpilogueStep == ASSUME IInv, NEW r \in Runs, Epilogue(r) PROVE IInv'
<1> DEFINE g == IF cur = 0 THEN run[r].ref ELSE cur
<1>1. run[r] \in [at : TaskStates, ref : Gens, out : Outcomes]
  BY DEF IInv, TypeOK, Epilogue, RunStates, NotRun, Over
<1>2. g \in Gens
  BY <1>1, CurTyped DEF IInv
<1>3. run' = [run EXCEPT ![r] = [run[r] EXCEPT !.at = "writing", !.ref = g]]
  BY DEF IInv, TypeOK, Epilogue
<1>4. /\ run' \in [Runs -> RunStates] /\ run'[r].at = "writing"
      /\ \A q \in Runs \ {r} : run'[q] = run[q]
  BY <1>1, <1>2, <1>3 DEF IInv, TypeOK, RunStates, TaskStates
<1> QED
  BY <1>1, <1>4, KeptTyped, PlainRun DEF IInv, TypeOK, Epilogue, registry, bounds, TaskStates

LEMMA WriteOutcomeStep == ASSUME IInv, NEW r \in Runs, WriteOutcome(r) PROVE IInv'
<1>1. phase' \in [Gens -> Phases]
  BY SetPhaseTyped DEF IInv, WriteOutcome, Phases
<1> QED
  BY <1>1, KeptTyped, PlainRun, RunToEffect DEF IInv, TypeOK, WriteOutcome, bounds, TaskStates

LEMMA PersistOutcomeStep == ASSUME IInv, NEW r \in Runs, PersistOutcome(r) PROVE IInv'
<1>1. DiskTyped' /\ unsaved' = unsaved
  BY KeptTyped, ReadTyped, HandsTyped DEF IInv, PersistOutcome
<1>2. /\ run' \in [Runs -> RunStates] /\ run'[r].at \in TaskStates
      /\ \A q \in Runs \ {r} : run'[q] = run[q]
  BY RunToEffect DEF IInv, PersistOutcome, AfterOutcome, TaskStates
<1> QED
  BY <1>1, <1>2, PlainRun DEF IInv, TypeOK, PersistOutcome, registry, bounds, TaskStates

LEMMA StoreOutcomeStep == ASSUME IInv, NEW r \in Runs, StoreOutcome(r) PROVE IInv'
<1>1. DiskTyped' /\ unsaved' = unsaved
  BY StoreTyped, HandsTyped DEF IInv, StoreOutcome
<1>2. /\ run' \in [Runs -> RunStates] /\ run'[r].at \in TaskStates
      /\ \A q \in Runs \ {r} : run'[q] = run[q]
  BY RunToEffect DEF IInv, StoreOutcome, AfterOutcome, TaskStates
<1> QED
  BY <1>1, <1>2, PlainRun DEF IInv, TypeOK, StoreOutcome, registry, bounds, TaskStates

LEMMA ParkStep == ASSUME IInv, NEW r \in Runs, Park(r) PROVE IInv'
<1>1. phase' \in [Gens -> Phases]
  BY SetPhaseTyped DEF IInv, TypeOK, Park, Phases
<1>2. run[r] \in [at : TaskStates, ref : Gens, out : Outcomes]
  BY DEF IInv, TypeOK, Park, RunStates, NotRun, Over
<1>3. run' = [run EXCEPT ![r] = [run[r] EXCEPT !.at = "persisting", !.out = "parked"]]
  BY DEF IInv, TypeOK, Park
<1>4. /\ run' \in [Runs -> RunStates] /\ run'[r].at = "persisting"
      /\ \A q \in Runs \ {r} : run'[q] = run[q]
  BY <1>2, <1>3 DEF IInv, TypeOK, RunStates, TaskStates, Outcomes
<1> QED
  BY <1>1, <1>2, <1>4, KeptTyped, PlainRun DEF IInv, TypeOK, Park, bounds, TaskStates

LEMMA ReleaseStep == ASSUME IInv, NEW r \in Runs, Release(r) PROVE IInv'
<1>1. /\ run' \in [Runs -> RunStates] /\ run'[r].at = "done"
      /\ \A q \in Runs \ {r} : run'[q] = run[q]
  BY OverEffect DEF IInv, Release
<1>2. Live(r) /\ \A c \in Callers : caller[c].pc \notin SetupPCs
  BY NoClaimant DEF Release, TaskStates
<1>3. Held'
  BY <1>1, <1>2, RunLetsGo DEF IInv, Held, ClaimsHeld, Release
<1>4. TypeOK'
  BY <1>1 DEF IInv, TypeOK, Release, disk, bounds
<1> QED
  BY <1>3, <1>4 DEF IInv

-------------------------------------------------------------------------------
(* What happens beneath both.                                                  *)

LEMMA EditStep == ASSUME IInv, Edit PROVE IInv'
<1>1. cur \in Gens /\ Rebuild(cur)
  BY CurTyped DEF IInv, Edit
<1>2. /\ top' \in Gens /\ cur' = top'
      /\ running' \subseteq Gens /\ running \subseteq running'
      /\ cur \in running => cur' \in running'
      /\ phase' \in [Gens -> Phases] /\ token' \in [Gens -> 0 .. MaxRuns]
  BY <1>1, ReplaceEffect DEF IInv, Rebuild
<1>3. Held'
  BY <1>1, <1>2, LifecycleAssumption
     DEF IInv, Held, SingleRunner, LiveRunIsRegistered, ClaimsHeld, OneClaimant, Live, NoneLive,
         Edit, runs, Gens
<1>4. rooted' \subseteq Gens
  BY <1>1, <1>2 DEF IInv, TypeOK, Rebuild, Replace
<1>5. TypeOK'
  BY <1>2, <1>4, LifecycleAssumption DEF IInv, TypeOK, Edit, runs, Gens
<1> QED
  BY <1>3, <1>5 DEF IInv

LEMMA StoreEditStep == ASSUME IInv, StoreEdit PROVE IInv'
<1>1. DiskTyped' /\ unsaved' \in 0 .. edits
  BY LoadedTyped DEF IInv, TypeOK, StoreEdit
<1>2. TypeOK'
  BY <1>1 DEF IInv, TypeOK, DiskTyped, StoreEdit, registry, runs, bounds
<1>3. Held'
  BY DEF IInv, Held, SingleRunner, LiveRunIsRegistered, ClaimsHeld, OneClaimant, Live, NoneLive,
         StoreEdit, registry, runs
<1> QED
  BY <1>2, <1>3 DEF IInv

LEMMA CrashStep == ASSUME IInv, Crash PROVE IInv'
<1>1. \A r \in Runs : run'[r].at \in {"none", "done"}
  BY DEF Crash, NotRun, Over
<1>2. \A c \in Callers : caller'[c].pc = "idle"
  BY DEF Crash, Idle
<1>3. Held'
  BY <1>1, <1>2 DEF Held, SingleRunner, LiveRunIsRegistered, ClaimsHeld, OneClaimant, Live,
                    NoneLive, SetupPCs
<1>4. loaded' \in Phases
  BY DEF IInv, TypeOK, Crash, Demoted, Phases
<1>5. caller' \in [Callers -> CallerStates] /\ run' \in [Runs -> RunStates]
  BY DEF Crash, CallerStates, RunStates, Idle, NotRun, Over, PCs, NoRun
<1>6. read' \in [Hands -> Phases \cup {"absent"}] /\ unsaved' \in 0 .. edits'
  BY DEF IInv, TypeOK, Crash
<1>7. TypeOK'
  BY <1>4, <1>5, <1>6, LifecycleAssumption DEF IInv, TypeOK, Crash, Gens, NoRun
<1> QED
  BY <1>3, <1>7 DEF IInv

LEMMA StutterStep == ASSUME IInv, UNCHANGED vars PROVE IInv'
  BY DEF IInv, Held, TypeOK, SingleRunner, LiveRunIsRegistered, ClaimsHeld, OneClaimant, Live,
         NoneLive, vars, registry, runs, disk, bounds

LEMMA StepIInv == IInv /\ [Next]_vars => IInv'
<1> SUFFICES ASSUME IInv, [Next]_vars PROVE IInv'
  OBVIOUS
<1>1. ASSUME NEW c \in Callers, CallerStep(c) PROVE IInv'
  BY <1>1, SettleStep, AdmitStep, InstallTokenStep, SupersedeStep, CreateWorkDirStep,
     RecordWorkRootStep, StoreWorkRootStep, SpawnStep, PauseCheckStep, PauseCancelStep,
     PauseMarkStep, PersistStep, StoreStep, RequeueStep, ResetStep, PersistAgainStep,
     StoreAgainStep, RemoveRowStep, RemoveEntryStep
     DEF CallerStep
<1>2. ASSUME NEW r \in Runs, RunStep(r) PROVE IInv'
  BY <1>2, RunReportsStep, RunAssemblesStep, RunEndsStep, EpilogueStep, WriteOutcomeStep,
     PersistOutcomeStep, StoreOutcomeStep, ParkStep, ReleaseStep
     DEF RunStep
<1> QED
  BY <1>1, <1>2, CallStep, EditStep, StoreEditStep, CrashStep, StutterStep DEF Next

(* However many callers, runs, edits and crashes there are, the registry, the  *)
(* runs and the calls keep their types.                                        *)
THEOREM TypeCorrect == Spec => []TypeOK
<1>1. IInv => TypeOK
  BY DEF IInv
<1> QED
  BY InitIInv, StepIInv, <1>1, PTL DEF Spec

(* Two starts never drive one download, whatever rebuilds its entry meanwhile: *)
(* the claim start_run makes under the registry lock is enough.                *)
THEOREM OneRunner == Spec => []SingleRunner
<1>1. IInv => SingleRunner
  BY DEF IInv, Held
<1> QED
  BY InitIInv, StepIInv, <1>1, PTL DEF Spec

(* The entry in the map says `running` whenever a run has the download, however*)
(* often clone_entry_with_job replaces it.                                     *)
THEOREM RunIsRegistered == Spec => []LiveRunIsRegistered
<1>1. IInv => LiveRunIsRegistered
  BY DEF IInv, Held
<1> QED
  BY InitIInv, StepIInv, <1>1, PTL DEF Spec

-------------------------------------------------------------------------------
(* The step property: it names the definition the runs check.                  *)
StoppedStep ==
    (cur # 0 /\ ToldToStop(cur) /\ cur' = cur
       /\ phase'[cur] # phase[cur] /\ phase'[cur] \in RunningPhases)
    => nextRun' # nextRun

(* A phase written at the entry in the map, but not a running one, is none of  *)
(* its business.                                                               *)
LEMMA QuietWrite ==
  ASSUME TypeOK, NEW g, NEW p \in Phases \ RunningPhases, SetPhase(g, p)
  PROVE  StoppedStep
  BY CurTyped DEF TypeOK, SetPhase, StoppedStep

LEMMA StoppedHolds == IInv /\ [Next]_vars => StoppedStep
<1> SUFFICES ASSUME IInv, [Next]_vars PROVE StoppedStep
  OBVIOUS
<1>0. TypeOK
  BY DEF IInv
<1>1. ASSUME UNCHANGED phase PROVE StoppedStep
  BY <1>1 DEF StoppedStep
<1>2. ASSUME NEW g \in Gens, Replace(g) PROVE StoppedStep
  BY <1>0, <1>2, ReplaceEffect DEF StoppedStep
<1>3. ASSUME NEW p \in Phases, SetRunPhase(cur, p) PROVE StoppedStep
  BY <1>3 DEF SetRunPhase, StoppedStep
<1>4. ASSUME NEW c \in Callers, CallerStep(c) PROVE StoppedStep
  <2>1. CASE Admit(c)
    <3>1. CASE nextRun' = nextRun + 1
      BY <1>0, <3>1 DEF TypeOK, StoppedStep
    <3> QED
      BY <1>0, <1>1, <2>1, <3>1, QuietWrite DEF Admit, Claimable, Phases, RunningPhases
  <2>2. CASE Supersede(c)
    <3>1. ASSUME Rebuild(IF cur = 0 THEN caller[c].ref ELSE cur) PROVE StoppedStep
      <4>1. caller[c].ref \in Gens
        BY <1>0, <2>2 DEF IInv, TypeOK, Held, ClaimsHeld, Supersede, At, SetupPCs, CallerStates
      <4> QED
        BY <1>0, <1>2, <3>1, <4>1, CurTyped DEF Rebuild
    <3> QED
      BY <1>1, <2>2, <3>1 DEF Supersede, registry
  <2>3. CASE RecordWorkRoot(c)
    BY <1>0, <1>1, <1>2, <2>3, CurTyped DEF RecordWorkRoot, RebuildRooted, registry
  <2>4. CASE CreateWorkDir(c)
    BY <1>0, <1>1, <2>4, QuietWrite DEF CreateWorkDir, Phases, RunningPhases
  <2>5. CASE PauseMark(c) \/ Requeue(c) \/ Reset(c)
    BY <1>0, <1>1, <2>5, QuietWrite DEF PauseMark, Requeue, Reset, Phases, RunningPhases
  <2>6. CASE Settle(c) \/ InstallToken(c) \/ Spawn(c) \/ PauseCheck(c) \/ PauseCancel(c)
             \/ StoreWorkRoot(c) \/ Persist(c) \/ Store(c) \/ PersistAgain(c) \/ StoreAgain(c)
             \/ RemoveRow(c) \/ RemoveEntry(c)
    BY <1>1, <2>6 DEF Settle, InstallToken, Spawn, PauseCheck, PauseCancel, StoreWorkRoot, Persist,
                      Store, PersistAgain, StoreAgain, RemoveRow, RemoveEntry, registry
  <2> QED
    BY <1>4, <2>1, <2>2, <2>3, <2>4, <2>5, <2>6 DEF CallerStep
<1>5. ASSUME NEW r \in Runs, RunStep(r) PROVE StoppedStep
  <2>1. CASE RunReports(r) \/ RunAssembles(r)
    BY <1>1, <1>3, <2>1 DEF RunReports, RunAssembles, Phases
  <2>2. CASE (\E o \in Outcomes : RunEnds(r, o)) \/ WriteOutcome(r) \/ Park(r)
    BY <1>0, <1>1, <2>2, QuietWrite DEF RunEnds, WriteOutcome, Park, Phases, RunningPhases
  <2>3. CASE Epilogue(r) \/ PersistOutcome(r) \/ StoreOutcome(r) \/ Release(r)
    BY <1>1, <2>3 DEF Epilogue, PersistOutcome, StoreOutcome, Release, registry
  <2> QED
    BY <1>5, <2>1, <2>2, <2>3 DEF RunStep
<1>6. ASSUME NEW c \in Callers, NEW o \in Ops, Call(c, o) PROVE StoppedStep
  BY <1>1, <1>6 DEF Call, registry
<1>7. CASE Edit
  BY <1>0, <1>2, <1>7, CurTyped DEF Edit, Rebuild
<1>8. CASE Crash
  <2>1. loaded' \in Phases \ RunningPhases
    BY <1>0, <1>8 DEF TypeOK, Crash, Demoted, Phases, RunningPhases
  <2> QED
    BY <1>0, <1>8, <2>1, CurTyped DEF Crash, StoppedStep
<1>9. CASE StoreEdit \/ UNCHANGED vars
  BY <1>1, <1>9 DEF StoreEdit, vars, registry
<1> QED
  BY <1>4, <1>5, <1>6, <1>7, <1>8, <1>9 DEF Next

(* Once told to stop, the run in the map never looks busy again except through *)
(* a new claim: set_run_phase drops every event still in the pipe.             *)
THEOREM StopIsFinal == Spec => StoppedRunStaysStopped
<1>1. StoppedStep => [StoppedStep]_vars
  OBVIOUS
<1> QED
  BY InitIInv, StepIInv, StoppedHolds, <1>1, PTL DEF Spec, StoppedRunStaysStopped, StoppedStep

-------------------------------------------------------------------------------
(* What a run leaves behind, and which edits it survives.                      *)

Setting == {"token", "supersede", "setup"}
Transferring == {"fetching", "assembling", "ended"}
Closing == {"writing", "persisting", "storing", "parking", "releasing"}
Stopped == {"Paused", "Completed", "Failed", "Conflict"}

(* No edit falls between a claim and the end of its set-up, or between the     *)
(* epilogue's look at the map and its release.                                 *)
EditsKeepOff ==
    edits' # edits =>
        /\ \A c \in Callers : caller[c].pc \notin Setting
        /\ \A r \in Runs : run[r].at \notin Closing

(* Who is going to undo a claim, or to release it, has the entry in the map.   *)
HoldersFollow ==
    cur # 0 =>
        /\ \A c \in Callers : caller[c].pc \in Setting => caller[c].ref = cur
        /\ \A r \in Runs : run[r].at \in Closing => run[r].ref = cur

OutcomeIsWritten ==
    cur # 0 /\ (\E r \in Runs : run[r].at \in Closing \ {"writing"})
        => phase[cur] \notin RunningPhases

(* No generation is flagged before it is made.                                 *)
FlagsAreMade == running \subseteq 1 .. top

SettleInv == HoldersFollow /\ OutcomeIsWritten /\ RunningReleased /\ SettledPhase

(* There is one live run at most; what SettleInv asks of the state a step leads*)
(* to depends on where it is.                                                  *)
LEMMA SettledInSetup ==
  ASSUME IInv', NEW c \in Callers, caller'[c].pc \in SetupPCs,
         cur' # 0 /\ caller'[c].pc \in Setting => caller'[c].ref = cur'
  PROVE  SettleInv'
<1>1. \A d \in Callers \ {c} : caller'[d].pc \notin Setting
  BY DEF IInv, Held, SingleRunner, ClaimsHeld, OneClaimant, Live, Setting, SetupPCs
<1>2. /\ caller'[c].mine \in Runs /\ run'[caller'[c].mine].at = "setup"
  BY DEF IInv, Held, ClaimsHeld
<1>3. \A r \in Runs : run'[r].at \notin Closing
  BY <1>2 DEF IInv, Held, SingleRunner, Live, Closing
<1> QED
  BY <1>1, <1>2, <1>3
     DEF SettleInv, HoldersFollow, OutcomeIsWritten, RunningReleased, SettledPhase, NoneLive, Live

LEMMA SettledInTransfer ==
  ASSUME IInv', NEW r \in Runs, run'[r].at \in Transferring
  PROVE  SettleInv'
<1>1. \A c \in Callers : caller'[c].pc \notin Setting
  BY DEF IInv, Held, SingleRunner, ClaimsHeld, Live, Transferring, Setting, SetupPCs
<1>2. \A q \in Runs : run'[q].at \notin Closing
  BY DEF IInv, Held, SingleRunner, Live, Closing, Transferring
<1>3. ~NoneLive'
  BY DEF NoneLive, Live, Transferring
<1> QED
  BY <1>1, <1>2, <1>3
     DEF SettleInv, HoldersFollow, OutcomeIsWritten, RunningReleased, SettledPhase

LEMMA SettledInClosing ==
  ASSUME IInv', NEW r \in Runs, run'[r].at \in Closing,
         cur' # 0 => run'[r].ref = cur',
         cur' # 0 /\ run'[r].at # "writing" => phase'[cur'] \notin RunningPhases
  PROVE  SettleInv'
<1>1. \A c \in Callers : caller'[c].pc \notin Setting
  BY DEF IInv, Held, SingleRunner, ClaimsHeld, Live, Closing, Setting, SetupPCs
<1>2. \A q \in Runs : run'[q].at \in Closing => q = r
  BY DEF IInv, Held, SingleRunner, Live, Closing
<1>3. ~NoneLive'
  BY DEF NoneLive, Live, Closing
<1> QED
  BY <1>1, <1>2, <1>3
     DEF SettleInv, HoldersFollow, OutcomeIsWritten, RunningReleased, SettledPhase

LEMMA SettledAtRest ==
  ASSUME IInv', NoneLive', cur' # 0 => cur' \notin running' /\ phase'[cur'] \notin RunningPhases
  PROVE  SettleInv'
<1>1. \A r \in Runs : run'[r].at \notin Closing
  BY DEF NoneLive, Live, Closing
<1>2. \A c \in Callers : caller'[c].pc \notin Setting
  BY DEF IInv, Held, ClaimsHeld, NoneLive, Live, Setting, SetupPCs
<1>3. cur' \notin running'
  BY LifecycleAssumption DEF IInv, TypeOK, Gens
<1> QED
  BY <1>1, <1>2, <1>3
     DEF SettleInv, HoldersFollow, OutcomeIsWritten, RunningReleased, SettledPhase

(* A call that holds no claim leaves flags and runs alone, and never makes the *)
(* job look busy.                                                              *)
LEMMA SettledByCall ==
  ASSUME IInv, SettleInv, NEW c \in Callers, Others(c), caller'[c].pc \notin SetupPCs,
         UNCHANGED <<running, run>>, cur' \in {0, cur},
         cur # 0 => phase'[cur] = phase[cur] \/ phase'[cur] \notin RunningPhases
  PROVE  SettleInv'
<1>1. cur' = 0 => cur' \notin running'
  BY LifecycleAssumption DEF IInv, TypeOK, Gens
<1>2. HoldersFollow'
  BY DEF SettleInv, HoldersFollow, Others, SetupPCs, Setting
<1>3. OutcomeIsWritten'
  BY DEF SettleInv, OutcomeIsWritten
<1>4. RunningReleased' /\ SettledPhase'
  BY <1>1 DEF SettleInv, RunningReleased, SettledPhase, NoneLive, Live
<1> QED
  BY <1>2, <1>3, <1>4 DEF SettleInv

LEMMA ClaimantSettles ==
  ASSUME IInv, IInv', SettleInv, NEW c \in Callers, caller[c].pc \in SetupPCs, CallerStep(c)
  PROVE  SettleInv'
<1>1. TypeOK /\ caller[c].ref \in Gens /\ caller[c].mine \in Runs /\ cur \in {0} \cup Gens
  BY CurTyped DEF IInv, TypeOK, Held, ClaimsHeld, CallerStates
<1>2. cur # 0 /\ caller[c].pc \in Setting => caller[c].ref = cur
  BY DEF SettleInv, HoldersFollow
<1>3. CASE InstallToken(c)
  <2>1. caller'[c].pc = "supersede" /\ caller'[c].ref = caller[c].ref /\ cur' = cur
    BY <1>1, <1>3, GotoEffect DEF InstallToken, PCs
  <2> QED
    BY <1>2, <1>3, <2>1, SettledInSetup DEF InstallToken, At, Setting, SetupPCs
<1>4. CASE Supersede(c)
  <2>1. CASE Goto(c, "setup") /\ UNCHANGED registry
    <3>1. caller'[c].pc = "setup" /\ caller'[c].ref = caller[c].ref /\ cur' = cur
      BY <1>1, <2>1, GotoEffect DEF PCs, registry
    <3> QED
      BY <1>2, <1>4, <3>1, SettledInSetup DEF Supersede, At, Setting, SetupPCs
  <2>2. CASE Rebuild(IF cur = 0 THEN caller[c].ref ELSE cur) /\ GotoWith(c, "setup", top')
    <3>1. top' \in Gens /\ cur' = top'
      BY <1>1, <2>2, ReplaceEffect DEF Rebuild
    <3>2. caller'[c].pc = "setup" /\ caller'[c].ref = cur'
      BY <1>1, <2>2, <3>1, GotoWithEffect DEF PCs
    <3> QED
      BY <3>2, SettledInSetup DEF SetupPCs
  <2> QED
    BY <1>4, <2>1, <2>2 DEF Supersede
<1>5. CASE CreateWorkDir(c)
  <2>1. CASE Goto(c, IF caller[c].ref \in rooted THEN "spawn" ELSE "root")
    <3>1. caller'[c].pc \in {"spawn", "root"}
      BY <1>1, <2>1, GotoEffect DEF PCs
    <3> QED
      BY <3>1, SettledInSetup DEF Setting, SetupPCs
  <2>2. CASE /\ running' = running \ {caller[c].ref}
             /\ SetPhase(caller[c].ref, "Queued")
             /\ run' = [run EXCEPT ![caller[c].mine] = Over]
    <3>1. NoneLive'
      <4>1. Live(caller[c].mine)
        BY OnlyClaimant
      <4> QED
        BY <1>1, <2>2, <4>1, OverEffect DEF IInv, Held, SingleRunner, NoneLive, Live
    <3>2. cur' = cur /\ (cur # 0 => caller[c].ref = cur)
      BY <1>2, <1>5 DEF CreateWorkDir, At, Setting
    <3>3. cur # 0 => phase'[cur] = "Queued"
      BY <1>1, <2>2, <3>2 DEF TypeOK, SetPhase
    <3> QED
      BY <2>2, <3>1, <3>2, <3>3, SettledAtRest DEF RunningPhases
  <2> QED
    BY <1>5, <2>1, <2>2 DEF CreateWorkDir
<1>6. CASE RecordWorkRoot(c)
  <2>1. caller'[c].pc \in {"rootstore", "spawn"}
    <3>1. CASE cur = 0 \/ cur \in rooted
      BY <1>1, <1>6, <3>1, GotoWithEffect DEF RecordWorkRoot, PCs
    <3>2. CASE ~(cur = 0 \/ cur \in rooted)
      BY <1>1, <1>6, <3>2, ReplaceEffect, GotoWithEffect DEF RecordWorkRoot, RebuildRooted, PCs
    <3> QED
      BY <3>1, <3>2
  <2> QED
    BY <2>1, SettledInSetup DEF Setting, SetupPCs
<1>7. CASE Spawn(c)
  <2>1. run'[caller[c].mine].at = "fetching"
    BY <1>1, <1>7 DEF Spawn, TypeOK
  <2> QED
    BY <1>1, <2>1, SettledInTransfer DEF Transferring
<1>8. CASE StoreWorkRoot(c)
  <2>1. caller'[c].pc = "spawn"
    BY <1>1, <1>8, GotoEffect DEF StoreWorkRoot, PCs
  <2> QED
    BY <2>1, SettledInSetup DEF Setting, SetupPCs
<1> QED
  BY <1>3, <1>4, <1>5, <1>6, <1>7, <1>8
     DEF CallerStep, Settle, Admit, PauseCheck, PauseCancel, PauseMark, Persist, Store, Requeue,
         Reset, PersistAgain, StoreAgain, RemoveRow, RemoveEntry, At, SetupPCs

(* A call without a claim that does not make one now.                          *)
LEMMA BystanderSettles ==
  ASSUME IInv, IInv', SettleInv, NEW c \in Callers, caller[c].pc \notin SetupPCs, CallerStep(c)
  PROVE  SettleInv'
<1>1. TypeOK /\ cur \in {0} \cup Gens
  BY CurTyped DEF IInv
<1>2. CASE Settle(c)
  <2>1. Others(c) /\ caller'[c].pc \in {"settle", "admit"}
    <3>1. CASE Goto(c, "admit")
      BY <1>1, <3>1, GotoEffect DEF PCs
    <3>2. CASE GotoWith(c, "settle", cur)
      BY <1>1, <3>2, GotoWithEffect DEF PCs
    <3> QED
      BY <1>2, <3>1, <3>2 DEF Settle
  <2> QED
    BY <1>2, <2>1, SettledByCall DEF Settle, registry, runs, SetupPCs
<1>3. CASE Admit(c)
  <2>1. CASE Return(c) /\ UNCHANGED <<phase, running, nextRun, run>>
    BY <1>1, <1>3, <2>1, ReturnEffect, SettledByCall DEF Admit, SetupPCs
  <2>2. CASE SetPhase(cur, "Queued") /\ Return(c) /\ UNCHANGED <<running, nextRun, run>>
    <3>1. cur # 0 => phase'[cur] = "Queued"
      BY <1>1, <2>2 DEF TypeOK, SetPhase
    <3> QED
      BY <1>1, <1>3, <2>2, <3>1, ReturnEffect, SettledByCall DEF Admit, SetupPCs, RunningPhases
  <2>3. CASE caller' = [caller EXCEPT ![c].pc = "token", ![c].ref = cur, ![c].mine = nextRun']
    <3>1. caller'[c].pc = "token" /\ caller'[c].ref = cur /\ cur' = cur
      BY <1>1, <1>3, <2>3 DEF Admit, TypeOK, CallerStates
    <3> QED
      BY <3>1, SettledInSetup DEF SetupPCs
  <2> QED
    BY <1>3, <2>1, <2>2, <2>3 DEF Admit, Claimable
<1>4. CASE PauseCheck(c)
  <2>1. Others(c) /\ caller'[c].pc \in {"pcancel", "reset"}
    <3>1. CASE GotoWith(c, "pcancel", cur)
      BY <1>1, <3>1, GotoWithEffect DEF PCs
    <3>2. CASE Goto(c, "reset")
      BY <1>1, <3>2, GotoEffect DEF PCs
    <3> QED
      BY <1>4, <3>1, <3>2 DEF PauseCheck
  <2> QED
    BY <1>4, <2>1, SettledByCall DEF PauseCheck, registry, runs, SetupPCs
<1>5. CASE PauseCancel(c)
  BY <1>1, <1>5, GotoEffect, SettledByCall DEF PauseCancel, registry, SetupPCs, PCs
<1>6. CASE PauseMark(c)
  <2>1. cur # 0 => phase'[cur] = "Paused"
    BY <1>1, <1>6 DEF PauseMark, TypeOK, SetPhase
  <2> QED
    BY <1>1, <1>6, <2>1, GotoEffect, SettledByCall DEF PauseMark, runs, SetupPCs, PCs, RunningPhases
<1>7. CASE Persist(c) \/ Store(c)
  <2>1. Others(c) /\ caller'[c].pc \in {"store", "requeue", "reset", "idle"}
    BY <1>1, <1>7, GotoEffect, AfterPauseEffect DEF Persist, Store, PCs
  <2> QED
    BY <1>7, <2>1, SettledByCall DEF Persist, Store, registry, runs, SetupPCs
<1>8. CASE Requeue(c)
  <2>1. Others(c) /\ caller'[c].pc \in {"persist2", "idle"}
    BY <1>1, <1>8, GotoEffect, ReturnEffect DEF Requeue, PCs
  <2>2. cur # 0 => phase'[cur] = "Queued"
    BY <1>1, <1>8 DEF Requeue, TypeOK, SetPhase
  <2> QED
    BY <1>8, <2>1, <2>2, SettledByCall DEF Requeue, runs, SetupPCs, RunningPhases
<1>9. CASE Reset(c)
  <2>1. cur # 0 => phase'[cur] \in {phase[cur], "Queued"}
    BY <1>1, <1>9 DEF Reset, TypeOK, SetPhase
  <2> QED
    BY <1>1, <1>9, <2>1, GotoEffect, SettledByCall DEF Reset, runs, SetupPCs, PCs, RunningPhases
<1>10. CASE PersistAgain(c) \/ StoreAgain(c)
  <2>1. Others(c) /\ caller'[c].pc \in {"store2", "settle", "idle"}
    BY <1>1, <1>10, GotoEffect, AfterRequeueEffect DEF PersistAgain, StoreAgain, PCs
  <2> QED
    BY <1>10, <2>1, SettledByCall DEF PersistAgain, StoreAgain, registry, runs, SetupPCs
<1>11. CASE RemoveRow(c)
  BY <1>1, <1>11, GotoEffect, SettledByCall DEF RemoveRow, registry, runs, SetupPCs, PCs
<1>12. CASE RemoveEntry(c)
  BY <1>1, <1>12, ReturnEffect, SettledByCall DEF RemoveEntry, runs, SetupPCs
<1> QED
  BY <1>2, <1>3, <1>4, <1>5, <1>6, <1>7, <1>8, <1>9, <1>10, <1>11, <1>12
     DEF CallerStep, InstallToken, Supersede, CreateWorkDir, RecordWorkRoot, StoreWorkRoot, Spawn,
         At, SetupPCs

LEMMA ArrivalSettles ==
  ASSUME IInv, SettleInv, NEW c \in Callers, NEW o \in Ops, Call(c, o)
  PROVE  SettleInv'
<1>1. Others(c) /\ caller'[c].pc = FirstPC[o]
  BY DEF IInv, TypeOK, Call, Others
<1>2. FirstPC[o] \notin SetupPCs
  BY LifecycleAssumption DEF FirstPC, SetupPCs
<1> QED
  BY <1>1, <1>2, SettledByCall DEF Call, registry, runs

LEMMA RunSettles ==
  ASSUME IInv, IInv', SettleInv, NEW r \in Runs, RunStep(r)
  PROVE  SettleInv'
<1>1. TypeOK /\ cur \in {0} \cup Gens
  BY CurTyped DEF IInv
<1>2. cur # 0 /\ run[r].at \in Closing => run[r].ref = cur
  BY DEF SettleInv, HoldersFollow
<1>3. cur # 0 /\ run[r].at \in Closing \ {"writing"} => phase[cur] \notin RunningPhases
  BY DEF SettleInv, OutcomeIsWritten
<1>4. run[r].at # "none" /\ run[r].at # "done" /\ run[r].at # "setup"
  BY DEF RunStep, RunReports, RunAssembles, RunEnds, Epilogue, WriteOutcome, PersistOutcome,
         StoreOutcome, Park, Release
<1>5. run[r] \in [at : TaskStates, ref : Gens, out : Outcomes]
  BY <1>1, <1>4 DEF TypeOK, RunStates, NotRun, Over
<1>6. CASE RunReports(r)
  BY <1>6, SettledInTransfer DEF RunReports, runs, Transferring
<1>7. CASE RunAssembles(r)
  BY <1>1, <1>7, SettledInTransfer DEF RunAssembles, RunTo, TypeOK, Transferring
<1>8. CASE \E o \in Outcomes : RunEnds(r, o)
  <2>1. run'[r].at = "ended"
    BY <1>1, <1>5, <1>8 DEF RunEnds, TypeOK
  <2> QED
    BY <2>1, SettledInTransfer DEF Transferring
<1>9. CASE Epilogue(r)
  <2>1. run'[r].at = "writing" /\ cur' = cur /\ (cur # 0 => run'[r].ref = cur)
    BY <1>1, <1>5, <1>9 DEF Epilogue, TypeOK, registry
  <2> QED
    BY <2>1, SettledInClosing DEF Closing
<1>10. CASE WriteOutcome(r)
  <2>1. run'[r].at = "persisting" /\ run'[r].ref = run[r].ref /\ cur' = cur
    BY <1>1, <1>5, <1>10 DEF WriteOutcome, RunTo, TypeOK
  <2>2. cur # 0 => phase'[cur] \notin RunningPhases
    BY <1>1, <1>2, <1>10 DEF WriteOutcome, SetPhase, TypeOK, Closing, RunningPhases
  <2> QED
    BY <1>2, <1>10, <2>1, <2>2, SettledInClosing DEF WriteOutcome, Closing
<1>11. CASE PersistOutcome(r) \/ StoreOutcome(r)
  <2>1. run'[r].at \in {"releasing", "parking", "storing"} /\ run'[r].ref = run[r].ref
    BY <1>1, <1>5, <1>11 DEF PersistOutcome, StoreOutcome, AfterOutcome, RunTo, TypeOK
  <2> QED
    BY <1>2, <1>3, <1>11, <2>1, SettledInClosing DEF PersistOutcome, StoreOutcome, registry, Closing
<1>12. CASE Park(r)
  <2>1. run'[r].at = "persisting" /\ run'[r].ref = run[r].ref /\ cur' = cur
    BY <1>1, <1>5, <1>12 DEF Park, TypeOK
  <2>2. cur # 0 => phase'[cur] = "Conflict"
    BY <1>1, <1>12 DEF Park, SetPhase, TypeOK
  <2> QED
    BY <1>2, <1>12, <2>1, <2>2, SettledInClosing DEF Park, Closing, RunningPhases
<1>13. CASE Release(r)
  <2>1. NoneLive'
    <3>1. Live(r)
      BY <1>4 DEF Live
    <3> QED
      BY <1>1, <1>13, <3>1, OverEffect DEF Release, IInv, Held, SingleRunner, NoneLive, Live
  <2> QED
    BY <1>2, <1>3, <1>13, <2>1, SettledAtRest DEF Release, Closing
<1> QED
  BY <1>6, <1>7, <1>8, <1>9, <1>10, <1>11, <1>12, <1>13 DEF RunStep

LEMMA FlagsStayMade == IInv /\ FlagsAreMade /\ [Next]_vars => FlagsAreMade'
<1> SUFFICES ASSUME IInv, FlagsAreMade, [Next]_vars PROVE FlagsAreMade'
  OBVIOUS
<1>1. top \in Nat /\ 1 <= top /\ cur \in 0 .. top
  BY LifecycleAssumption DEF IInv, TypeOK, Gens
<1>2. ASSUME UNCHANGED top, running' \subseteq running PROVE FlagsAreMade'
  BY <1>2 DEF FlagsAreMade
<1>3. ASSUME NEW g, Replace(g) PROVE FlagsAreMade'
  BY <1>1, <1>3 DEF FlagsAreMade, Replace, CopyRunning
<1>4. ASSUME NEW c \in Callers, CallerStep(c) PROVE FlagsAreMade'
  <2>1. CASE Admit(c)
    BY <1>1, <2>1 DEF Admit, Claimable, FlagsAreMade
  <2>2. CASE Supersede(c)
    BY <1>2, <1>3, <2>2 DEF Supersede, Rebuild, registry
  <2>3. CASE RecordWorkRoot(c)
    BY <1>2, <1>3, <2>3 DEF RecordWorkRoot, RebuildRooted, registry
  <2>4. CASE CreateWorkDir(c)
    BY <1>2, <2>4 DEF CreateWorkDir
  <2>5. CASE \/ Settle(c) \/ InstallToken(c) \/ Spawn(c) \/ PauseCheck(c) \/ PauseCancel(c)
             \/ PauseMark(c) \/ Persist(c) \/ Store(c) \/ Requeue(c) \/ Reset(c) \/ PersistAgain(c)
             \/ StoreAgain(c) \/ StoreWorkRoot(c) \/ RemoveRow(c) \/ RemoveEntry(c)
    BY <1>2, <2>5 DEF Settle, InstallToken, Spawn, PauseCheck, PauseCancel, PauseMark, Persist,
                      Store, Requeue, Reset, PersistAgain, StoreAgain, StoreWorkRoot, RemoveRow,
                      RemoveEntry, registry
  <2> QED
    BY <1>4, <2>1, <2>2, <2>3, <2>4, <2>5 DEF CallerStep
<1>5. ASSUME NEW r \in Runs, RunStep(r) PROVE FlagsAreMade'
  BY <1>2, <1>5 DEF RunStep, RunReports, RunAssembles, RunEnds, Epilogue, WriteOutcome,
                    PersistOutcome, StoreOutcome, Park, Release, registry
<1>6. ASSUME NEW c \in Callers, NEW o \in Ops, Call(c, o) PROVE FlagsAreMade'
  BY <1>2, <1>6 DEF Call, registry
<1>7. CASE Edit
  BY <1>3, <1>7 DEF Edit, Rebuild
<1>8. CASE Crash
  BY <1>8 DEF Crash, FlagsAreMade
<1>9. CASE StoreEdit \/ UNCHANGED vars
  BY <1>2, <1>9 DEF StoreEdit, vars, registry
<1> QED
  BY <1>4, <1>5, <1>6, <1>7, <1>8, <1>9 DEF Next

LEMMA EditSettles ==
  ASSUME IInv, SettleInv, FlagsAreMade, Edit, EditsKeepOff
  PROVE  SettleInv'
<1>1. TypeOK /\ cur \in Gens
  BY CurTyped DEF IInv, Edit
<1>2. /\ \A c \in Callers : caller[c].pc \notin Setting
      /\ \A r \in Runs : run[r].at \notin Closing
  BY DEF Edit, EditsKeepOff, IInv, TypeOK
<1>3. UNCHANGED <<run, caller>>
  BY DEF Edit, runs
<1>4. HoldersFollow' /\ OutcomeIsWritten'
  BY <1>2, <1>3 DEF HoldersFollow, OutcomeIsWritten
<1>5. /\ cur' = top + 1 /\ cur' \in Gens /\ cur' \notin running /\ phase'[cur'] = phase[cur]
      /\ running' = IF cur \in running THEN running \cup {cur'} ELSE running
  BY <1>1, LifecycleAssumption
     DEF TypeOK, Edit, Rebuild, Replace, CopyRunning, Gens, FlagsAreMade
<1>6. NoneLive' => NoneLive
  BY <1>3 DEF NoneLive, Live
<1>7. RunningReleased' /\ SettledPhase'
  BY <1>1, <1>5, <1>6 DEF SettleInv, RunningReleased, SettledPhase, Gens
<1> QED
  BY <1>4, <1>7 DEF SettleInv

LEMMA CrashSettles == ASSUME IInv, IInv', Crash PROVE SettleInv'
<1>1. NoneLive' /\ running' = {}
  BY DEF Crash, NoneLive, Live, NotRun, Over
<1>2. phase'[cur'] \notin RunningPhases
  BY LifecycleAssumption DEF Crash, Demoted, Gens, RunningPhases
<1> QED
  BY <1>1, <1>2, SettledAtRest

LEMMA InitSettles == Init => SettleInv /\ FlagsAreMade
<1> SUFFICES ASSUME Init PROVE SettleInv /\ FlagsAreMade
  OBVIOUS
<1>1. phase[cur] \notin RunningPhases /\ running = {}
  BY LifecycleAssumption DEF Init, Gens, RunningPhases
<1> QED
  BY <1>1 DEF Init, SettleInv, FlagsAreMade, HoldersFollow, OutcomeIsWritten, RunningReleased,
              SettledPhase, Idle, NotRun, Setting, Closing

LEMMA StepSettles ==
    IInv /\ IInv' /\ SettleInv /\ FlagsAreMade /\ [Next]_vars /\ [EditsKeepOff]_vars => SettleInv'
<1> SUFFICES ASSUME IInv, IInv', SettleInv, FlagsAreMade, [Next]_vars, [EditsKeepOff]_vars
             PROVE  SettleInv'
  OBVIOUS
<1>1. ASSUME NEW c \in Callers, CallerStep(c) PROVE SettleInv'
  BY <1>1, ClaimantSettles, BystanderSettles
<1>2. ASSUME NEW r \in Runs, RunStep(r) PROVE SettleInv'
  BY <1>2, RunSettles
<1>3. ASSUME NEW c \in Callers, NEW o \in Ops, Call(c, o) PROVE SettleInv'
  BY <1>3, ArrivalSettles
<1>4. CASE Edit
  <2>1. edits' # edits
    BY <1>4 DEF Edit, IInv, TypeOK
  <2> QED
    BY <1>4, <2>1, EditSettles DEF vars, bounds
<1>5. CASE Crash
  BY <1>5, CrashSettles
<1>6. CASE StoreEdit \/ UNCHANGED vars
  BY <1>6 DEF StoreEdit, vars, registry, runs, SettleInv, HoldersFollow, OutcomeIsWritten,
              RunningReleased, SettledPhase, NoneLive, Live
<1> QED
  BY <1>1, <1>2, <1>3, <1>4, <1>5, <1>6 DEF Next

(* A run that is over has given the job back, for any number of callers, runs  *)
(* and crashes, and of edits that keep off the set-up of a run and its end.    *)
THEOREM RunGivesBack == Spec /\ [][EditsKeepOff]_vars => []RunningReleased
<1>1. SettleInv => RunningReleased
  BY DEF SettleInv
<1> QED
  BY InitIInv, StepIInv, InitSettles, FlagsStayMade, StepSettles, <1>1, PTL DEF Spec

(* ... and has left its outcome, not the last phase it reported.               *)
THEOREM RunLeavesOutcome == Spec /\ [][EditsKeepOff]_vars => []SettledPhase
<1>1. SettleInv => SettledPhase
  BY DEF SettleInv
<1> QED
  BY InitIInv, StepIInv, InitSettles, FlagsStayMade, StepSettles, <1>1, PTL DEF Spec

-------------------------------------------------------------------------------
(* What is stored.                                                             *)

(* Where a call or a run is that is going to read the entry once more.         *)
Rereading == {"ended", "writing", "persisting"}

ToBeRead ==
    \/ \E c \in Callers : caller[c].pc = "persist"
    \/ \E r \in Runs : run[r].at \in Rereading

(* A phase that has been read and not stored is in a hand that will store it.  *)
HandsStore ==
    /\ \A c \in Callers : newest = CallerHand(c) => caller[c].pc \in {"store", "store2"}
    /\ \A r \in Runs : newest = RunHand(r) => run[r].at = "storing"

(* A stop nobody is going to read again is what was read last.                 *)
StopIsRead ==
    cur # 0 /\ phase[cur] \in Stopped =>
        \/ ToBeRead
        \/ newest = Lost
        \/ newest = OnDisk /\ Demoted(row) = phase[cur]
        \/ newest \in Hands /\ read[newest] = phase[cur]

GoneIsLost == cur = 0 => newest = Lost

KeptInv == HandsStore /\ StopIsRead /\ GoneIsLost

LEMMA KeptWhenLost == ASSUME newest' = Lost PROVE KeptInv'
  BY DEF KeptInv, HandsStore, StopIsRead, GoneIsLost, Lost, CallerHand, RunHand

(* Whoever is about to read or to store stays where they are.                  *)
StorersStay ==
    /\ \A c \in Callers : caller[c].pc \in {"persist", "store", "store2"} => caller'[c] = caller[c]
    /\ \A r \in Runs : run[r].at \in Rereading \cup {"storing"} => run'[r] = run[r]

(* A step that stops nothing, and stores nothing that was read.                *)
LEMMA KeptMeanwhile ==
  ASSUME KeptInv, StorersStay, UNCHANGED <<row, newest>> \/ Overwritten, UNCHANGED read,
         cur' = 0 => cur = 0,
         cur # 0 /\ phase'[cur'] \in Stopped => phase'[cur'] = phase[cur]
  PROVE  KeptInv'
<1>1. CASE cur = 0 \/ newest = Lost
  <2>1. newest' = Lost
    BY <1>1 DEF KeptInv, GoneIsLost, Overwritten, OnDisk, Lost
  <2> QED
    BY <2>1, KeptWhenLost
<1>2. CASE cur # 0 /\ newest # Lost /\ newest' # Lost
  <2>1. newest' = newest /\ cur' # 0 /\ (newest = OnDisk => row' = row)
    BY <1>2 DEF Overwritten
  <2>2. HandsStore'
    BY <2>1 DEF KeptInv, HandsStore, StorersStay
  <2>3. ToBeRead => ToBeRead'
    BY DEF ToBeRead, StorersStay
  <2>4. StopIsRead'
    BY <1>2, <2>1, <2>3 DEF KeptInv, StopIsRead
  <2> QED
    BY <2>1, <2>2, <2>4 DEF KeptInv, GoneIsLost
<1> QED
  BY <1>1, <1>2, KeptWhenLost

(* A stop by somebody who goes on to read it.                                  *)
LEMMA KeptForReader ==
  ASSUME KeptInv, UNCHANGED <<newest, cur>>, ToBeRead',
         \A c \in Callers : caller[c].pc \in {"store", "store2"} => caller'[c] = caller[c],
         \A r \in Runs : run[r].at = "storing" => run'[r] = run[r]
  PROVE  KeptInv'
  BY DEF KeptInv, HandsStore, StopIsRead, GoneIsLost

LEMMA KeptByRead ==
  ASSUME TypeOK, NEW x \in Hands, ReadLive(x), UNCHANGED <<cur, phase>>, cur # 0,
         \A c \in Callers : x = CallerHand(c) => caller'[c].pc \in {"store", "store2"},
         \A r \in Runs : x = RunHand(r) => run'[r].at = "storing"
  PROVE  KeptInv'
<1>1. newest' = x /\ read'[x] = phase[cur]
  BY DEF TypeOK, ReadLive
<1> QED
  BY <1>1 DEF KeptInv, HandsStore, StopIsRead, GoneIsLost

LEMMA KeptByStore ==
  ASSUME TypeOK, KeptInv, NEW x \in Hands, StoreRead(x), UNCHANGED <<cur, phase>>,
         \A c \in Callers : x # CallerHand(c) => caller'[c] = caller[c],
         \A r \in Runs : x # RunHand(r) => run'[r] = run[r],
         \A c \in Callers : x = CallerHand(c) => caller[c].pc # "persist",
         \A r \in Runs : x = RunHand(r) => run[r].at \notin Rereading
  PROVE  KeptInv'
<1>1. x # Lost /\ x # OnDisk
  BY DEF Hands, Lost, OnDisk, CallerHand, RunHand
<1>2. ToBeRead => ToBeRead'
  BY DEF ToBeRead
<1>3. CASE newest = x
  <2>1. newest' = OnDisk /\ row' = read[x] /\ cur # 0
    BY <1>1, <1>3 DEF StoreRead, KeptInv, GoneIsLost
  <2>2. HandsStore'
    BY <2>1 DEF HandsStore, OnDisk, CallerHand, RunHand
  <2>3. cur # 0 /\ phase[cur] \in Stopped => ToBeRead \/ read[x] = phase[cur]
    BY <1>1, <1>3 DEF KeptInv, StopIsRead
  <2>4. phase[cur] \in Stopped => Demoted(phase[cur]) = phase[cur]
    BY DEF Stopped, Demoted, RunningPhases
  <2>5. StopIsRead'
    BY <1>2, <2>1, <2>3, <2>4 DEF StopIsRead, Demoted
  <2> QED
    BY <2>1, <2>2, <2>5 DEF KeptInv, GoneIsLost
<1>4. CASE newest # x /\ newest' # Lost
  <2>1. newest' = newest /\ newest # OnDisk
    BY <1>4 DEF StoreRead, Overwritten
  <2>2. newest \in Hands /\ read'[newest] = read[newest]
    BY <1>4, <2>1 DEF TypeOK, StoreRead
  <2>3. HandsStore'
    BY <1>4, <2>1 DEF KeptInv, HandsStore
  <2>4. StopIsRead'
    BY <1>2, <1>4, <2>1, <2>2 DEF KeptInv, StopIsRead
  <2> QED
    BY <2>1, <2>3, <2>4 DEF KeptInv, GoneIsLost
<1> QED
  BY <1>3, <1>4, KeptWhenLost

LEMMA HandsDiffer ==
    /\ \A c, d \in Callers : CallerHand(c) = CallerHand(d) => c = d
    /\ \A q, r \in Runs : RunHand(q) = RunHand(r) => q = r
    /\ \A c \in Callers, r \in Runs : CallerHand(c) # RunHand(r)
  BY DEF CallerHand, RunHand

(* Only a pause makes a call stop the job, and only the calls that persist     *)
(* read it.                                                                    *)
LEMMA CallKeeps ==
  ASSUME IInv, KeptInv, NEW c \in Callers, CallerStep(c)
  PROVE  KeptInv'
<1>1. TypeOK /\ cur \in {0} \cup Gens /\ CallerHand(c) \in Hands
  BY CurTyped, HandsTyped DEF IInv
<1>2. ASSUME Others(c), UNCHANGED run, caller[c].pc \notin {"persist", "store", "store2"}
      PROVE  StorersStay
  BY <1>2 DEF StorersStay, Others
<1>3. CASE Settle(c) \/ InstallToken(c) \/ PauseCheck(c) \/ PauseCancel(c)
  <2>1. Others(c) /\ caller[c].pc \notin {"persist", "store", "store2"}
    BY <1>1, <1>3 DEF Settle, InstallToken, PauseCheck, PauseCancel, At, Goto, GotoWith, Others,
                      TypeOK
  <2>2. UNCHANGED <<run, phase, cur, row, read, newest>>
    BY <1>3 DEF Settle, InstallToken, PauseCheck, PauseCancel, registry, runs, disk
  <2> QED
    BY <1>2, <2>1, <2>2, KeptMeanwhile
<1>4. CASE Admit(c)
  <2>1. Others(c) /\ caller[c].pc \notin {"persist", "store", "store2"}
    BY <1>1, <1>4 DEF Admit, At, Return, Others, TypeOK
  <2>2. UNCHANGED <<cur, row, read, newest>>
    BY <1>4 DEF Admit, disk
  <2>3. cur # 0 => phase'[cur] \in {phase[cur], "Queued", "Evaluating"}
    BY <1>1, <1>4 DEF Admit, Claimable, SetPhase, TypeOK
  <2>4. \A r \in Runs : run[r].at \in Rereading \cup {"storing"} => run'[r] = run[r]
    <3>1. CASE UNCHANGED run
      BY <3>1
    <3>2. CASE cur # 0 /\ cur \notin running
      BY <3>2 DEF IInv, Held, LiveRunIsRegistered, NoneLive, Live, Rereading
    <3> QED
      BY <1>4, <3>1, <3>2 DEF Admit, Claimable
  <2>5. StorersStay
    BY <2>1, <2>4 DEF StorersStay, Others
  <2> QED
    BY <2>2, <2>3, <2>5, KeptMeanwhile DEF Stopped
<1>5. CASE Supersede(c) \/ RecordWorkRoot(c) \/ StoreWorkRoot(c)
  <2>1. Others(c) /\ caller[c].pc \notin {"persist", "store", "store2"}
    BY <1>1, <1>5 DEF Supersede, RecordWorkRoot, StoreWorkRoot, At, Goto, GotoWith, Others, TypeOK
  <2>2. UNCHANGED <<run, read>> /\ (UNCHANGED <<row, newest>> \/ Overwritten)
    BY <1>5 DEF Supersede, RecordWorkRoot, StoreWorkRoot, StoreLoaded, runs, disk
  <2>3. (cur' = 0 => cur = 0) /\ (cur # 0 => phase'[cur'] = phase[cur])
    <3>1. CASE UNCHANGED registry
      BY <3>1 DEF registry
    <3>2. CASE cur # 0 /\ Replace(cur)
      BY <1>1, <3>2, LifecycleAssumption DEF TypeOK, Replace, Gens
    <3>3. CASE cur = 0 /\ Replace(caller[c].ref)
      <4>1. cur' = top + 1 /\ top \in Nat
        BY <1>1, <3>3, LifecycleAssumption DEF TypeOK, Replace, Gens
      <4> QED
        BY <3>3, <4>1
    <3> QED
      BY <1>5, <3>1, <3>2, <3>3
         DEF Supersede, RecordWorkRoot, StoreWorkRoot, Rebuild, RebuildRooted
  <2> QED
    BY <1>2, <2>1, <2>2, <2>3, KeptMeanwhile
<1>6. CASE CreateWorkDir(c) \/ Spawn(c)
  <2>1. Others(c) /\ caller[c].pc \notin {"persist", "store", "store2"}
    BY <1>1, <1>6 DEF CreateWorkDir, Spawn, At, Goto, Return, Others, TypeOK
  <2>2. UNCHANGED <<cur, row, read, newest>>
    BY <1>6 DEF CreateWorkDir, Spawn, registry, disk
  <2>3. cur # 0 => phase'[cur] \in {phase[cur], "Queued"}
    BY <1>1, <1>6 DEF CreateWorkDir, Spawn, SetPhase, TypeOK, registry
  <2>4. caller[c].mine \in Runs /\ run[caller[c].mine].at = "setup"
    BY <1>6 DEF IInv, Held, ClaimsHeld, CreateWorkDir, Spawn, At, SetupPCs
  <2>5. \A r \in Runs \ {caller[c].mine} : run'[r] = run[r]
    BY <1>1, <1>6, <2>4 DEF CreateWorkDir, Spawn, TypeOK
  <2>6. StorersStay
    BY <2>1, <2>4, <2>5 DEF StorersStay, Others, Rereading
  <2> QED
    BY <2>2, <2>3, <2>6, KeptMeanwhile DEF Stopped
<1>7. CASE PauseMark(c)
  <2>1. Others(c) /\ caller'[c].pc = "persist" /\ caller[c].pc = "pmark"
    BY <1>1, <1>7, GotoEffect DEF PauseMark, At, PCs
  <2>2. ToBeRead'
    BY <2>1 DEF ToBeRead
  <2> QED
    BY <1>7, <2>1, <2>2, KeptForReader DEF PauseMark, Others, runs, disk
<1>8. CASE (Persist(c) \/ PersistAgain(c)) /\ cur # 0
  <2>1. ReadLive(CallerHand(c)) /\ UNCHANGED <<cur, phase>> /\ caller'[c].pc \in {"store", "store2"}
    BY <1>1, <1>8, GotoEffect DEF Persist, PersistAgain, registry, PCs
  <2> QED
    BY <1>1, <1>8, <2>1, HandsDiffer, KeptByRead
<1>9. CASE (Persist(c) \/ PersistAgain(c)) /\ cur = 0
  BY <1>9, KeptWhenLost DEF Persist, PersistAgain, KeptInv, GoneIsLost, disk
<1>10. CASE Store(c) \/ StoreAgain(c)
  <2>1. StoreRead(CallerHand(c)) /\ UNCHANGED <<cur, phase, run>> /\ caller[c].pc # "persist"
    BY <1>10 DEF Store, StoreAgain, At, registry, runs
  <2>2. Others(c)
    BY <1>1, <1>10, AfterPauseEffect, AfterRequeueEffect DEF Store, StoreAgain
  <2>3. \A d \in Callers : CallerHand(c) # CallerHand(d) => caller'[d] = caller[d]
    BY <2>2 DEF Others
  <2>4. \A d \in Callers : CallerHand(c) = CallerHand(d) => caller[d].pc # "persist"
    BY <2>1, HandsDiffer
  <2> QED
    BY <1>1, <2>1, <2>3, <2>4, HandsDiffer, KeptByStore
<1>11. CASE Requeue(c) \/ Reset(c)
  <2>1. Others(c) /\ caller[c].pc \notin {"persist", "store", "store2"}
    BY <1>1, <1>11 DEF Requeue, Reset, At, Goto, Return, Others, TypeOK
  <2>2. UNCHANGED <<run, cur, row, read, newest>>
    BY <1>11 DEF Requeue, Reset, runs, disk
  <2>3. cur # 0 => phase'[cur] \in {phase[cur], "Queued"}
    BY <1>1, <1>11 DEF Requeue, Reset, SetPhase, TypeOK
  <2> QED
    BY <1>2, <2>1, <2>2, <2>3, KeptMeanwhile DEF Stopped
<1>12. CASE RemoveRow(c)
  <2>1. Others(c) /\ caller[c].pc \notin {"persist", "store", "store2"}
    BY <1>1, <1>12 DEF RemoveRow, At, Goto, Others, TypeOK
  <2> QED
    BY <1>2, <1>12, <2>1, KeptMeanwhile DEF RemoveRow, registry, runs
<1>13. CASE RemoveEntry(c)
  BY <1>13, KeptWhenLost DEF RemoveEntry
<1> QED
  BY <1>3, <1>4, <1>5, <1>6, <1>7, <1>8, <1>9, <1>10, <1>11, <1>12, <1>13 DEF CallerStep

(* A run that ends reads what it left, after every phase it writes.            *)
LEMMA RunKeeps ==
  ASSUME IInv, KeptInv, NEW r \in Runs, RunStep(r)
  PROVE  KeptInv'
<1>1. TypeOK /\ cur \in {0} \cup Gens /\ RunHand(r) \in Hands
  BY CurTyped, HandsTyped DEF IInv
<1>2. \A q \in Runs \ {r} : run'[q] = run[q]
  BY <1>1 DEF RunStep, RunReports, RunAssembles, RunEnds, Epilogue, WriteOutcome, PersistOutcome,
              StoreOutcome, AfterOutcome, Park, Release, RunTo, TypeOK, runs
<1>3. UNCHANGED caller
  BY DEF RunStep, RunReports, RunAssembles, RunEnds, Epilogue, WriteOutcome, PersistOutcome,
         StoreOutcome, Park, Release
<1>4. CASE RunReports(r) \/ RunAssembles(r) \/ Release(r)
  <2>1. StorersStay
    BY <1>2, <1>3, <1>4 DEF StorersStay, Rereading, RunReports, RunAssembles, Release
  <2>2. cur # 0 => phase'[cur] \in {phase[cur], "Downloading", "Assembling"}
    BY <1>1, <1>4 DEF RunReports, RunAssembles, Release, SetRunPhase, SetPhase, TypeOK
  <2> QED
    BY <1>4, <2>1, <2>2, KeptMeanwhile DEF RunReports, RunAssembles, Release, Stopped, disk
<1>5. CASE \/ \E o \in Outcomes : RunEnds(r, o)
           \/ Epilogue(r) \/ WriteOutcome(r) \/ Park(r)
  <2>1. run[r].at # "none" /\ run[r].at # "done" /\ run[r].at # "setup" /\ run[r].at # "storing"
    BY <1>5 DEF RunEnds, Epilogue, WriteOutcome, Park
  <2>2. run[r] \in [at : TaskStates, ref : Gens, out : Outcomes]
    BY <1>1, <2>1 DEF TypeOK, RunStates, NotRun, Over
  <2>3. run'[r].at \in Rereading
    BY <1>1, <1>5, <2>2 DEF RunEnds, Epilogue, WriteOutcome, Park, RunTo, TypeOK, Rereading
  <2>4. ToBeRead'
    BY <2>3 DEF ToBeRead
  <2>5. UNCHANGED <<newest, cur>>
    BY <1>5 DEF RunEnds, Epilogue, WriteOutcome, Park, registry, disk
  <2> QED
    BY <1>2, <1>3, <2>1, <2>4, <2>5, KeptForReader
<1>6. CASE PersistOutcome(r) /\ cur # 0
  <2>1. ReadLive(RunHand(r)) /\ UNCHANGED <<cur, phase>> /\ run'[r].at = "storing"
    BY <1>1, <1>6, RunToEffect DEF PersistOutcome, registry, TaskStates
  <2> QED
    BY <1>1, <1>6, <2>1, HandsDiffer, KeptByRead
<1>7. CASE PersistOutcome(r) /\ cur = 0
  BY <1>7, KeptWhenLost DEF PersistOutcome, KeptInv, GoneIsLost, disk
<1>8. CASE StoreOutcome(r)
  <2>1. StoreRead(RunHand(r)) /\ UNCHANGED <<cur, phase>> /\ run[r].at \notin Rereading
    BY <1>8 DEF StoreOutcome, registry, Rereading
  <2>2. \A q \in Runs : RunHand(r) # RunHand(q) => run'[q] = run[q]
    BY <1>2
  <2>3. \A q \in Runs : RunHand(r) = RunHand(q) => run[q].at \notin Rereading
    BY <2>1, HandsDiffer
  <2> QED
    BY <1>1, <1>3, <2>1, <2>2, <2>3, HandsDiffer, KeptByStore
<1> QED
  BY <1>4, <1>5, <1>6, <1>7, <1>8 DEF RunStep

LEMMA StepKeeps == IInv /\ KeptInv /\ [Next]_vars => KeptInv'
<1> SUFFICES ASSUME IInv, KeptInv, [Next]_vars PROVE KeptInv'
  OBVIOUS
<1>1. TypeOK /\ cur \in {0} \cup Gens
  BY CurTyped DEF IInv
<1>2. ASSUME NEW c \in Callers, NEW o \in Ops, Call(c, o) PROVE KeptInv'
  <2>1. Others(c) /\ caller[c].pc = "idle"
    BY <1>1, <1>2 DEF TypeOK, Call, At, Others
  <2>2. StorersStay
    BY <1>2, <2>1 DEF StorersStay, Others, Call, runs
  <2> QED
    BY <1>2, <2>2, KeptMeanwhile DEF Call, registry, disk
<1>3. CASE Edit
  <2>1. cur' # 0 /\ phase'[cur'] = phase[cur]
    BY <1>1, <1>3, LifecycleAssumption DEF Edit, Rebuild, Replace, TypeOK, Gens
  <2>2. StorersStay
    BY <1>3 DEF Edit, StorersStay, runs
  <2> QED
    BY <1>3, <2>1, <2>2, KeptMeanwhile DEF Edit
<1>4. CASE StoreEdit
  <2>1. StorersStay
    BY <1>4 DEF StoreEdit, StorersStay, runs
  <2> QED
    BY <1>4, <2>1, KeptMeanwhile DEF StoreEdit, StoreLoaded, registry
<1>5. CASE Crash
  <2>1. phase'[cur'] = Demoted(row') /\ newest' = OnDisk /\ cur' # 0
    BY <1>5, LifecycleAssumption DEF Crash, Gens
  <2> QED
    BY <2>1 DEF KeptInv, HandsStore, StopIsRead, GoneIsLost, OnDisk, CallerHand, RunHand
<1>6. CASE UNCHANGED vars
  <2>1. StorersStay
    BY <1>6 DEF vars, StorersStay, runs
  <2> QED
    BY <1>6, <2>1, KeptMeanwhile DEF vars, registry, disk
<1> QED
  BY <1>2, <1>3, <1>4, <1>5, <1>6, CallKeeps, RunKeeps DEF Next

LEMMA InitKeeps == Init => KeptInv
  BY LifecycleAssumption
     DEF Init, KeptInv, HandsStore, StopIsRead, GoneIsLost, Demoted, RunningPhases, Gens, OnDisk,
         CallerHand, RunHand

(* How a download stopped is on disk once everything has come to rest, for any *)
(* number of callers, runs, edits and crashes: every way to stop one reads the *)
(* entry once more, and only a write that does not come from the last reading  *)
(* can undo it.                                                                *)
THEOREM StopSurvives == Spec => []StopIsOnDisk
<1>1. KeptInv => StopIsOnDisk
  <2> SUFFICES ASSUME KeptInv, AtRest, newest = OnDisk PROVE Demoted(row) = phase[cur]
    BY DEF StopIsOnDisk
  <2>1. ~ToBeRead
    BY DEF AtRest, NoneLive, NoCalls, Live, ToBeRead, Rereading
  <2>2. newest # Lost /\ newest \notin Hands
    BY DEF OnDisk, Lost, Hands, CallerHand, RunHand
  <2> QED
    BY <2>1, <2>2 DEF AtRest, KeptInv, StopIsRead, Stopped
<1> QED
  BY InitIInv, StepIInv, InitKeeps, StepKeeps, <1>1, PTL DEF Spec
===============================================================================
