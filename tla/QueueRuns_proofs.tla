--------------------------- MODULE QueueRuns_proofs ---------------------------
(* Theorems about queue runs, for any number of downloads, queues, users, calls*)
(* and runs, and any caps.                                                     *)
EXTENDS QueueRuns, FiniteSetTheorems, TLAPS

ProcType ==
    [pc : PCs, op : Ops \cup {"none", "finish"}, queue : Queues \cup {Nil},
     job : Jobs \cup {Nil}, back : PCs, todo : SUBSET Jobs, tried : SUBSET Jobs,
     was : {"yes", "no"}, some : {"yes", "no"}, budget : Nat]

StartPCs == {"mark", "admit", "launch"}

(* The loop a process is in: while it starts a download, the one it comes back *)
(* to.                                                                         *)
Loop(p) == IF proc[p].pc \in StartPCs THEN proc[p].back ELSE proc[p].pc

(* What a process carries with it at each of its places.                       *)
Shape(p) ==
    /\ At(p, "idle") => proc[p] = Resting
    /\ proc[p].pc \in StartPCs =>
           /\ proc[p].job \in Jobs
           /\ proc[p].back \in {"idle", "start_next", "resume_next", "fill", "serve"}
    /\ proc[p].pc \in {"snapshot", "feeds"} => proc[p].queue \in Queues

TypedState == TypeOK /\ \A p \in Procs : Shape(p)

-------------------------------------------------------------------------------
(* The caps.  What automation never does ...                                   *)

PauseFree ==
    /\ told = {} /\ manual = {}
    /\ \A q \in Queues : mode[q] # "suspended"
    /\ \A p \in Procs : proc[p].pc \notin {"switch_off", "clear", "sweep", "stop_check", "drop"}

(* ... so that the phase says which downloads a run has.                       *)
RunningIsClaimed ==
    \A j \in Jobs : phase[j] \in RunningPhases <=> at[j] \in {"claimed", "live"}

(* Only a process that claimed a download launches it, and one at a time.      *)
LaunchIsOwn ==
    \A p \in Procs : At(p, "launch") =>
        /\ at[proc[p].job] = "claimed"
        /\ \A o \in Procs : At(o, "launch") /\ proc[o].job = proc[p].job => o = p

CapsInv == PauseFree /\ RunningIsClaimed /\ LaunchIsOwn /\ RunsWithinCaps

-------------------------------------------------------------------------------
(* The stall.  What is over has an outcome, and what start_queue goes through  *)
(* is in its queue.                                                            *)

EndedHasOutcome == \A j \in Jobs : at[j] = "ended" => phase[j] \in {"Completed", "Failed"}

StartQueueStays(p) ==
    /\ proc[p].pc \in {"snapshot", "declare"} => proc[p].some = "no"
    /\ At(p, "declare") \/ Loop(p) = "start_next" => proc[p].todo \subseteq InQueue(proc[p].queue)
    /\ proc[p].pc \in StartPCs /\ proc[p].back = "start_next" =>
           QueueOf[proc[p].job] = proc[p].queue

(* A filler of the queue of j has not passed it over.                          *)
ComesFor(p, j) ==
    /\ proc[p].queue = QueueOf[j] /\ Loop(p) \in {"feeds", "fill"}
    /\ j \notin proc[p].tried \/ (proc[p].pc \in StartPCs /\ proc[p].job = j)

(* A start_queue that has started nothing yet ends the run if it never does.   *)
DecidesOn(p, q) ==
    /\ proc[p].queue = q /\ Loop(p) = "start_next"
    /\ proc[p].was = "no" /\ proc[p].some = "no"

RunGoesOn(q) == \E k \in InQueue(q) : at[k] # "none"

CaredFor(j) ==
    RunGoesOn(QueueOf[j]) \/ \E p \in Procs : ComesFor(p, j) \/ DecidesOn(p, QueueOf[j])

(* A queued download of an open run is not forgotten.                          *)
QueuedIsCaredFor ==
    \A j \in Jobs : phase[j] = "Queued" /\ FeedsItself(QueueOf[j]) => CaredFor(j)

StallInv == EndedHasOutcome /\ (\A p \in Procs : StartQueueStays(p)) /\ QueuedIsCaredFor

-------------------------------------------------------------------------------
(* How the helpers move a process on.                                          *)

Others(p) == \A o \in Procs \ {p} : proc'[o] = proc[o]

SameCall(p) ==
    /\ proc'[p].op = proc[p].op /\ proc'[p].queue = proc[p].queue
    /\ proc'[p].was = proc[p].was

LEMMA RestingTyped == Resting \in ProcType
  BY DEF Resting, ProcType, PCs

LEMMA GotoEffect ==
    ASSUME TypeOK, NEW p \in Procs, NEW l \in PCs, Goto(p, l)
    PROVE  /\ proc' \in [Procs -> ProcType] /\ Others(p) /\ SameCall(p)
           /\ proc'[p].pc = l /\ proc'[p].job = proc[p].job /\ proc'[p].back = proc[p].back
           /\ proc'[p].todo = proc[p].todo /\ proc'[p].tried = proc[p].tried
           /\ proc'[p].some = proc[p].some
  BY DEF TypeOK, Goto, ProcType, Others, SameCall

LEMMA ReturnEffect ==
    ASSUME TypeOK, NEW p \in Procs, Return(p)
    PROVE  proc' \in [Procs -> ProcType] /\ Others(p) /\ proc'[p] = Resting
  BY RestingTyped DEF TypeOK, Return, ProcType, Others

(* One field of a process at a time.                                           *)
LEMMA FieldTyped ==
    ASSUME NEW r \in ProcType
    PROVE  /\ \A v \in PCs : [r EXCEPT !.pc = v] \in ProcType /\ [r EXCEPT !.back = v] \in ProcType
           /\ \A v \in Jobs \cup {Nil} : [r EXCEPT !.job = v] \in ProcType
           /\ \A v \in Queues \cup {Nil} : [r EXCEPT !.queue = v] \in ProcType
           /\ \A v \in Ops \cup {"none", "finish"} : [r EXCEPT !.op = v] \in ProcType
           /\ \A v \in SUBSET Jobs : [r EXCEPT !.todo = v] \in ProcType
           /\ \A v \in SUBSET Jobs : [r EXCEPT !.tried = v] \in ProcType
           /\ \A v \in {"yes", "no"} : [r EXCEPT !.some = v] \in ProcType
           /\ \A v \in {"yes", "no"} : [r EXCEPT !.was = v] \in ProcType
           /\ \A v \in Nat : [r EXCEPT !.budget = v] \in ProcType
  BY DEF ProcType

LEMMA SetProc ==
    ASSUME TypeOK, NEW p \in Procs, NEW r \in ProcType, proc' = [proc EXCEPT ![p] = r]
    PROVE  proc' \in [Procs -> ProcType] /\ Others(p) /\ proc'[p] = r
  BY DEF TypeOK, ProcType, Others

LEMMA StartRunEffect ==
    ASSUME TypeOK, NEW p \in Procs, NEW j \in Jobs, NEW b \in PCs, StartRun(p, j, b)
    PROVE  /\ proc' \in [Procs -> ProcType] /\ Others(p) /\ SameCall(p)
           /\ proc'[p].pc = "mark" /\ proc'[p].job = j /\ proc'[p].back = b
           /\ proc'[p].todo = proc[p].todo \ {j} /\ proc'[p].tried = proc[p].tried \cup {j}
           /\ proc'[p].some = proc[p].some
<1> DEFINE r == proc[p]
           r1 == [r EXCEPT !.pc = "mark"]
           r2 == [r1 EXCEPT !.job = j]
           r3 == [r2 EXCEPT !.back = b]
           r4 == [r3 EXCEPT !.tried = r.tried \cup {j}]
           r5 == [r4 EXCEPT !.todo = r.todo \ {j}]
<1>1. r \in ProcType /\ proc \in [Procs -> ProcType]
  BY DEF TypeOK, ProcType
<1>2. r.tried \cup {j} \in SUBSET Jobs /\ r.todo \ {j} \in SUBSET Jobs /\ "mark" \in PCs
  BY <1>1 DEF ProcType, PCs
<1>3. proc' = [proc EXCEPT ![p] = r5]
  BY <1>1 DEF StartRun
<1>4. r5 \in ProcType
  BY <1>1, <1>2, FieldTyped
<1>5. /\ r5.op = r.op /\ r5.queue = r.queue /\ r5.was = r.was /\ r5.pc = "mark" /\ r5.job = j
      /\ r5.back = b /\ r5.todo = r.todo \ {j} /\ r5.tried = r.tried \cup {j} /\ r5.some = r.some
  BY <1>1 DEF ProcType
<1> HIDE DEF r5
<1>6. proc'[p] = r5 /\ proc' \in [Procs -> ProcType] /\ Others(p)
  BY <1>3, <1>4, SetProc
<1> QED
  BY <1>5, <1>6 DEF SameCall

LEMMA AnswerEffect ==
    ASSUME TypeOK, NEW p \in Procs, NEW ok \in {"ok", "deferred", "refused"}, Answer(p, ok)
    PROVE  /\ proc' \in [Procs -> ProcType] /\ Others(p)
           /\ proc[p].back = "idle" => proc'[p] = Resting
           /\ proc[p].back # "idle" =>
                  /\ SameCall(p)
                  /\ proc'[p].pc = proc[p].back /\ proc'[p].back = "idle"
                  /\ proc'[p].todo = proc[p].todo /\ proc'[p].tried = proc[p].tried
                  /\ proc'[p].some = IF ok = "refused" THEN proc[p].some ELSE "yes"
<1>1. CASE proc[p].back = "idle"
  BY <1>1, ReturnEffect DEF Answer
<1>2. CASE proc[p].back # "idle"
  <2> DEFINE r == proc[p]
             r1 == [r EXCEPT !.pc = r.back]
             r2 == [r1 EXCEPT !.job = Nil]
             r3 == [r2 EXCEPT !.back = "idle"]
             some == IF ok \in {"ok", "deferred"} THEN "yes" ELSE r.some
             r4 == [r3 EXCEPT !.some = some]
             left == IF ok = "ok" /\ r.budget > 0 THEN r.budget - 1 ELSE r.budget
             r5 == [r4 EXCEPT !.budget = left]
  <2>1. r \in ProcType /\ proc \in [Procs -> ProcType]
    BY DEF TypeOK, ProcType
  <2>2. left \in Nat /\ some \in {"yes", "no"} /\ "idle" \in PCs /\ r.back \in PCs
    BY <2>1 DEF ProcType, PCs
  <2>3. proc' = [proc EXCEPT ![p] = r5]
    BY <1>2, <2>1 DEF Answer
  <2>4. some = IF ok = "refused" THEN r.some ELSE "yes"
    OBVIOUS
  <2> HIDE DEF left, some
  <2>5. r5 \in ProcType
    BY <2>1, <2>2, FieldTyped
  <2>6. /\ r5.op = r.op /\ r5.queue = r.queue /\ r5.was = r.was /\ r5.pc = r.back
        /\ r5.back = "idle" /\ r5.todo = r.todo /\ r5.tried = r.tried /\ r5.some = some
    BY <2>1 DEF ProcType
  <2> HIDE DEF r5
  <2>7. proc'[p] = r5 /\ proc' \in [Procs -> ProcType] /\ Others(p)
    BY <2>3, <2>5, SetProc
  <2> QED
    BY <1>2, <2>4, <2>6, <2>7 DEF SameCall
<1> QED
  BY <1>1, <1>2

LEMMA BeginEffect ==
    ASSUME TypedState, NEW p \in Procs, NEW o \in Ops, NEW l \in PCs, NEW q \in Queues \cup {Nil},
           NEW J \in SUBSET Jobs, Begin(p, o, l, q, J)
    PROVE  /\ proc' \in [Procs -> ProcType] /\ Others(p)
           /\ proc'[p].op = o /\ proc'[p].queue = q /\ proc'[p].pc = l /\ proc'[p].todo = J
           /\ proc'[p].was = "no" /\ proc'[p].some = "no" /\ proc'[p].back = "idle"
           /\ proc'[p].tried = {}
<1> DEFINE r1 == [Resting EXCEPT !.op = o]
           r2 == [r1 EXCEPT !.pc = l]
           r3 == [r2 EXCEPT !.queue = q]
           r4 == [r3 EXCEPT !.todo = J]
<1>1. TypeOK /\ proc \in [Procs -> ProcType] /\ proc[p] = Resting
  BY DEF TypedState, TypeOK, ProcType, Shape, Begin
<1>2. proc' = [proc EXCEPT ![p] = r4]
  BY <1>1 DEF Begin
<1>3. r4 \in ProcType
  BY RestingTyped, FieldTyped
<1>4. /\ r4.op = o /\ r4.queue = q /\ r4.pc = l /\ r4.todo = J
      /\ r4.was = "no" /\ r4.some = "no" /\ r4.back = "idle" /\ r4.tried = {}
  BY DEF Resting
<1> HIDE DEF r4
<1>5. proc'[p] = r4 /\ proc' \in [Procs -> ProcType] /\ Others(p)
  BY <1>1, <1>2, <1>3, SetProc
<1> QED
  BY <1>4, <1>5

LEMMA SnapshotEffect ==
    ASSUME TypedState, QueueAssumption, NEW p \in Procs, Snapshot(p)
    PROVE  /\ proc' \in [Procs -> ProcType] /\ Others(p)
           /\ \/ /\ SameCall(p) /\ proc'[p].pc = "declare" /\ proc'[p].some = proc[p].some
                 /\ proc'[p].todo = {j \in InQueue(proc[p].queue) : phase[j] \in Startable}
              \/ MayRefuse /\ proc'[p] = Resting
<1> DEFINE r == proc[p]
           q == r.queue
           running == Cardinality(Running \cap InQueue(q))
           list == {j \in InQueue(q) : phase[j] \in Startable}
           left == IF running >= CapOf(q) THEN 0 ELSE CapOf(q) - running
<1>1. TypeOK /\ proc \in [Procs -> ProcType] /\ r \in ProcType
  BY DEF TypedState, TypeOK, ProcType
<1>2. CASE Return(p) /\ MayRefuse
  BY <1>1, <1>2, ReturnEffect
<1>3. CASE proc' = [proc EXCEPT ![p].pc = "declare", ![p].todo = list, ![p].budget = left]
  <2> DEFINE r1 == [r EXCEPT !.pc = "declare"]
             r2 == [r1 EXCEPT !.todo = list]
             r3 == [r2 EXCEPT !.budget = left]
  <2>1. proc' = [proc EXCEPT ![p] = r3]
    BY <1>1, <1>3
  <2>2. left \in Nat
    <3>1. running \in Nat
      BY FS_CardinalityType, FS_Subset DEF QueueAssumption, Running
    <3>2. CapOf(q) \in Nat
      BY DEF TypedState, Shape, Snapshot, At, CapOf, QueueAssumption
    <3> QED
      BY <3>1, <3>2
  <2>3. list \in SUBSET Jobs /\ "declare" \in PCs
    BY DEF InQueue, PCs
  <2> HIDE DEF list, left
  <2>4. r3 \in ProcType
    BY <1>1, <2>2, <2>3, FieldTyped
  <2>5. /\ r3.op = r.op /\ r3.queue = r.queue /\ r3.was = r.was /\ r3.pc = "declare"
        /\ r3.todo = list /\ r3.some = r.some
    BY <1>1 DEF ProcType
  <2> HIDE DEF r3
  <2>6. proc'[p] = r3 /\ proc' \in [Procs -> ProcType] /\ Others(p)
    BY <1>1, <2>1, <2>4, SetProc
  <2> QED
    BY <2>5, <2>6 DEF SameCall, list
<1> QED
  BY <1>2, <1>3 DEF Snapshot

(* Two fields of a process at a time.                                          *)
LEMMA ToWithTodo ==
    ASSUME TypeOK, NEW p \in Procs, NEW l \in PCs, NEW J \in SUBSET Jobs,
           proc' = [proc EXCEPT ![p].pc = l, ![p].todo = J]
    PROVE  /\ proc' \in [Procs -> ProcType] /\ Others(p) /\ SameCall(p)
           /\ proc'[p].pc = l /\ proc'[p].todo = J /\ proc'[p].tried = proc[p].tried
           /\ proc'[p].some = proc[p].some
<1> DEFINE r == proc[p]
           r1 == [r EXCEPT !.pc = l]
           r2 == [r1 EXCEPT !.todo = J]
<1>1. r \in ProcType /\ proc \in [Procs -> ProcType]
  BY DEF TypeOK, ProcType
<1>2. proc' = [proc EXCEPT ![p] = r2]
  BY <1>1
<1>3. r2 \in ProcType
  BY <1>1, FieldTyped
<1>4. /\ r2.op = r.op /\ r2.queue = r.queue /\ r2.was = r.was /\ r2.pc = l
      /\ r2.todo = J /\ r2.tried = r.tried /\ r2.some = r.some
  BY <1>1 DEF ProcType
<1> HIDE DEF r2
<1>5. proc'[p] = r2 /\ proc' \in [Procs -> ProcType] /\ Others(p)
  BY <1>2, <1>3, SetProc
<1> QED
  BY <1>4, <1>5 DEF SameCall

LEMMA ToWithTried ==
    ASSUME TypeOK, NEW p \in Procs, NEW l \in PCs, NEW J \in SUBSET Jobs,
           proc' = [proc EXCEPT ![p].pc = l, ![p].tried = J]
    PROVE  /\ proc' \in [Procs -> ProcType] /\ Others(p) /\ SameCall(p)
           /\ proc'[p].pc = l /\ proc'[p].todo = proc[p].todo /\ proc'[p].tried = J
           /\ proc'[p].some = proc[p].some
<1> DEFINE r == proc[p]
           r1 == [r EXCEPT !.pc = l]
           r2 == [r1 EXCEPT !.tried = J]
<1>1. r \in ProcType /\ proc \in [Procs -> ProcType]
  BY DEF TypeOK, ProcType
<1>2. proc' = [proc EXCEPT ![p] = r2]
  BY <1>1
<1>3. r2 \in ProcType
  BY <1>1, FieldTyped
<1>4. /\ r2.op = r.op /\ r2.queue = r.queue /\ r2.was = r.was /\ r2.pc = l
      /\ r2.todo = r.todo /\ r2.tried = J /\ r2.some = r.some
  BY <1>1 DEF ProcType
<1> HIDE DEF r2
<1>5. proc'[p] = r2 /\ proc' \in [Procs -> ProcType] /\ Others(p)
  BY <1>2, <1>3, SetProc
<1> QED
  BY <1>4, <1>5 DEF SameCall

LEMMA ToWithWas ==
    ASSUME TypeOK, NEW p \in Procs, NEW l \in PCs, NEW w \in {"yes", "no"},
           proc' = [proc EXCEPT ![p].pc = l, ![p].was = w]
    PROVE  /\ proc' \in [Procs -> ProcType] /\ Others(p)
           /\ proc'[p].op = proc[p].op /\ proc'[p].queue = proc[p].queue /\ proc'[p].was = w
           /\ proc'[p].pc = l /\ proc'[p].todo = proc[p].todo /\ proc'[p].tried = proc[p].tried
           /\ proc'[p].some = proc[p].some
<1> DEFINE r == proc[p]
           r1 == [r EXCEPT !.pc = l]
           r2 == [r1 EXCEPT !.was = w]
<1>1. r \in ProcType /\ proc \in [Procs -> ProcType]
  BY DEF TypeOK, ProcType
<1>2. proc' = [proc EXCEPT ![p] = r2]
  BY <1>1
<1>3. r2 \in ProcType
  BY <1>1, FieldTyped
<1>4. /\ r2.op = r.op /\ r2.queue = r.queue /\ r2.was = w /\ r2.pc = l
      /\ r2.todo = r.todo /\ r2.tried = r.tried /\ r2.some = r.some
  BY <1>1 DEF ProcType
<1> HIDE DEF r2
<1>5. proc'[p] = r2 /\ proc' \in [Procs -> ProcType] /\ Others(p)
  BY <1>2, <1>3, SetProc
<1> QED
  BY <1>4, <1>5 DEF SameCall

LEMMA WithTodo ==
    ASSUME TypeOK, NEW p \in Procs, NEW J \in SUBSET Jobs, NEW K \in SUBSET Jobs,
           \/ proc' = [proc EXCEPT ![p].todo = J]
           \/ proc' = [proc EXCEPT ![p].todo = J, ![p].tried = K]
    PROVE  /\ proc' \in [Procs -> ProcType] /\ Others(p) /\ SameCall(p)
           /\ proc'[p].pc = proc[p].pc
  BY DEF TypeOK, ProcType, Others, SameCall

FillStart(p, j) ==
    proc' = [proc EXCEPT ![p].pc = "mark", ![p].job = j, ![p].back = "fill",
                         ![p].tried = @ \cup {j}]

LEMMA FillStartEffect ==
    ASSUME TypedState, NEW p \in Procs, NEW j \in Jobs, FillStart(p, j)
    PROVE  /\ proc' \in [Procs -> ProcType] /\ Others(p)
           /\ proc'[p].op = proc[p].op /\ proc'[p].queue = proc[p].queue /\ proc'[p].pc = "mark"
           /\ proc'[p].job = j /\ proc'[p].back = "fill" /\ proc'[p].todo = proc[p].todo
           /\ proc'[p].tried = proc[p].tried \cup {j} /\ proc'[p].was = proc[p].was /\ proc'[p].some = proc[p].some
<1> DEFINE r == proc[p]
           r1 == [r EXCEPT !.pc = "mark"]
           r2 == [r1 EXCEPT !.job = j]
           r3 == [r2 EXCEPT !.back = "fill"]
           r4 == [r3 EXCEPT !.tried = proc[p].tried \cup {j}]
<1>1. TypeOK /\ proc \in [Procs -> ProcType] /\ r \in ProcType /\ proc[p] = r
  BY RestingTyped DEF TypedState, TypeOK, ProcType, Shape, At
<1>2. proc' = [proc EXCEPT ![p] = r4]
  BY <1>1 DEF FillStart
<1>3. r4 \in ProcType
  <2>1. "mark" \in PCs /\ "fill" \in PCs /\ r.tried \cup {j} \in SUBSET Jobs
    BY <1>1 DEF ProcType, PCs
  <2> QED
    BY <1>1, <2>1, FieldTyped
<1>4. /\ r4.op = proc[p].op /\ r4.queue = proc[p].queue /\ r4.pc = "mark"
      /\ r4.job = j /\ r4.back = "fill" /\ r4.todo = proc[p].todo
      /\ r4.tried = proc[p].tried \cup {j} /\ r4.was = proc[p].was /\ r4.some = proc[p].some
  BY <1>1 DEF ProcType, Resting
<1> HIDE DEF r4
<1>5. proc'[p] = r4 /\ proc' \in [Procs -> ProcType] /\ Others(p)
  BY <1>1, <1>2, <1>3, SetProc
<1> QED
  BY <1>4, <1>5

LEMMA FillStopEffect ==
    ASSUME TypedState, NEW p \in Procs,
           proc' = [proc EXCEPT ![p].pc = "serve", ![p].tried = {}, ![p].todo = {}]
    PROVE  /\ proc' \in [Procs -> ProcType] /\ Others(p)
           /\ proc'[p].op = proc[p].op /\ proc'[p].queue = proc[p].queue /\ proc'[p].pc = "serve"
           /\ proc'[p].job = proc[p].job /\ proc'[p].back = proc[p].back /\ proc'[p].todo = {}
           /\ proc'[p].tried = {} /\ proc'[p].was = proc[p].was /\ proc'[p].some = proc[p].some
<1> DEFINE r == proc[p]
           r1 == [r EXCEPT !.pc = "serve"]
           r2 == [r1 EXCEPT !.tried = {}]
           r3 == [r2 EXCEPT !.todo = {}]
<1>1. TypeOK /\ proc \in [Procs -> ProcType] /\ r \in ProcType /\ proc[p] = r
  BY RestingTyped DEF TypedState, TypeOK, ProcType, Shape, At
<1>2. proc' = [proc EXCEPT ![p] = r3]
  BY <1>1
<1>3. r3 \in ProcType
  <2>1. "serve" \in PCs
    BY <1>1 DEF ProcType, PCs
  <2> QED
    BY <1>1, <2>1, FieldTyped
<1>4. /\ r3.op = proc[p].op /\ r3.queue = proc[p].queue /\ r3.pc = "serve"
      /\ r3.job = proc[p].job /\ r3.back = proc[p].back /\ r3.todo = {}
      /\ r3.tried = {} /\ r3.was = proc[p].was /\ r3.some = proc[p].some
  BY <1>1 DEF ProcType, Resting
<1> HIDE DEF r3
<1>5. proc'[p] = r3 /\ proc' \in [Procs -> ProcType] /\ Others(p)
  BY <1>1, <1>2, <1>3, SetProc
<1> QED
  BY <1>4, <1>5

LEMMA ReleaseEffect ==
    ASSUME TypedState, QueueAssumption, NEW p \in Jobs, At(p, "idle"),
           p \in Procs,
           proc' = [proc EXCEPT ![p].op = "finish", ![p].pc = "feeds", ![p].queue = QueueOf[p],
                                ![p].tried = {p}]
    PROVE  /\ proc' \in [Procs -> ProcType] /\ Others(p)
           /\ proc'[p].op = "finish" /\ proc'[p].queue = QueueOf[p] /\ proc'[p].pc = "feeds"
           /\ proc'[p].job = Nil /\ proc'[p].back = "idle" /\ proc'[p].todo = {}
           /\ proc'[p].tried = {p} /\ proc'[p].was = "no" /\ proc'[p].some = "no"
<1> DEFINE r == Resting
           r1 == [r EXCEPT !.op = "finish"]
           r2 == [r1 EXCEPT !.pc = "feeds"]
           r3 == [r2 EXCEPT !.queue = QueueOf[p]]
           r4 == [r3 EXCEPT !.tried = {p}]
<1>1. TypeOK /\ proc \in [Procs -> ProcType] /\ r \in ProcType /\ proc[p] = r
  BY RestingTyped DEF TypedState, TypeOK, ProcType, Shape, At
<1>2. proc' = [proc EXCEPT ![p] = r4]
  BY <1>1
<1>3. r4 \in ProcType
  <2>1. "feeds" \in PCs /\ QueueOf[p] \in Queues
    BY DEF QueueAssumption, PCs
  <2> QED
    BY <1>1, <2>1, FieldTyped
<1>4. /\ r4.op = "finish" /\ r4.queue = QueueOf[p] /\ r4.pc = "feeds"
      /\ r4.job = Nil /\ r4.back = "idle" /\ r4.todo = {}
      /\ r4.tried = {p} /\ r4.was = "no" /\ r4.some = "no"
  BY <1>1 DEF ProcType, Resting
<1> HIDE DEF r4
<1>5. proc'[p] = r4 /\ proc' \in [Procs -> ProcType] /\ Others(p)
  BY <1>1, <1>2, <1>3, SetProc
<1> QED
  BY <1>4, <1>5

LEMMA AddEffect ==
    ASSUME TypedState, NEW p \in Procs, NEW q \in Queues, At(p, "idle"), "add" \in Ops,
           proc' = [proc EXCEPT ![p].op = "add", ![p].pc = "feeds", ![p].queue = q]
    PROVE  /\ proc' \in [Procs -> ProcType] /\ Others(p)
           /\ proc'[p].op = "add" /\ proc'[p].queue = q /\ proc'[p].pc = "feeds"
           /\ proc'[p].job = Nil /\ proc'[p].back = "idle" /\ proc'[p].todo = {}
           /\ proc'[p].tried = {} /\ proc'[p].was = "no" /\ proc'[p].some = "no"
<1> DEFINE r == Resting
           r1 == [r EXCEPT !.op = "add"]
           r2 == [r1 EXCEPT !.pc = "feeds"]
           r3 == [r2 EXCEPT !.queue = q]
<1>1. TypeOK /\ proc \in [Procs -> ProcType] /\ r \in ProcType /\ proc[p] = r
  BY RestingTyped DEF TypedState, TypeOK, ProcType, Shape, At
<1>2. proc' = [proc EXCEPT ![p] = r3]
  BY <1>1
<1>3. r3 \in ProcType
  <2>1. "feeds" \in PCs
    BY <1>1 DEF ProcType, PCs
  <2> QED
    BY <1>1, <2>1, FieldTyped
<1>4. /\ r3.op = "add" /\ r3.queue = q /\ r3.pc = "feeds"
      /\ r3.job = Nil /\ r3.back = "idle" /\ r3.todo = {}
      /\ r3.tried = {} /\ r3.was = "no" /\ r3.some = "no"
  BY <1>1 DEF ProcType, Resting
<1> HIDE DEF r3
<1>5. proc'[p] = r3 /\ proc' \in [Procs -> ProcType] /\ Others(p)
  BY <1>1, <1>2, <1>3, SetProc
<1> QED
  BY <1>4, <1>5

LEMMA PlayEffect ==
    ASSUME TypedState, NEW p \in Procs, NEW j \in Jobs, Play(p, j)
    PROVE  /\ proc' \in [Procs -> ProcType] /\ Others(p)
           /\ proc'[p].op = "play" /\ proc'[p].queue = Nil /\ proc'[p].pc = "mark"
           /\ proc'[p].job = j /\ proc'[p].back = "idle" /\ proc'[p].todo = {}
           /\ proc'[p].tried = {} /\ proc'[p].was = "no" /\ proc'[p].some = "no"
<1> DEFINE r == Resting
           r1 == [r EXCEPT !.op = "play"]
           r2 == [r1 EXCEPT !.pc = "mark"]
           r3 == [r2 EXCEPT !.job = j]
<1>1. TypeOK /\ proc \in [Procs -> ProcType] /\ r \in ProcType /\ proc[p] = r
  BY RestingTyped DEF TypedState, TypeOK, ProcType, Shape, Play, At
<1>2. proc' = [proc EXCEPT ![p] = r3]
  BY <1>1 DEF Play
<1>3. r3 \in ProcType
  <2>1. "mark" \in PCs /\ "play" \in Ops
    BY DEF Play, PCs
  <2> QED
    BY <1>1, <2>1, FieldTyped
<1>4. /\ r3.op = "play" /\ r3.queue = Nil /\ r3.pc = "mark"
      /\ r3.job = j /\ r3.back = "idle" /\ r3.todo = {}
      /\ r3.tried = {} /\ r3.was = "no" /\ r3.some = "no"
  BY <1>1 DEF ProcType, Resting
<1> HIDE DEF r3
<1>5. proc'[p] = r3 /\ proc' \in [Procs -> ProcType] /\ Others(p)
  BY <1>1, <1>2, <1>3, SetProc
<1> QED
  BY <1>4, <1>5

-------------------------------------------------------------------------------
(* Types.                                                                      *)

DataTyped ==
    /\ phase \in [Jobs -> Phases]
    /\ at \in [Jobs -> {"none", "claimed", "live", "ended"}]
    /\ told \subseteq Jobs /\ manual \subseteq Jobs /\ deferred \subseteq Jobs
    /\ mode \in [Queues -> Modes]
    /\ failedNow \in [Queues -> SUBSET Jobs]
    /\ calls \in 0 .. MaxCalls /\ claims \in 0 .. MaxRuns

LEMMA TypedSplit == TypeOK <=> DataTyped /\ proc \in [Procs -> ProcType]
  BY DEF TypeOK, DataTyped, ProcType

LEMMA TypedNext ==
    ASSUME TypedState, DataTyped', NEW p \in Procs, proc' \in [Procs -> ProcType], Others(p), Shape(p)'
    PROVE  TypedState'
<1>1. TypeOK'
  BY DEF TypeOK, DataTyped, ProcType
<1>2. \A o \in Procs : Shape(o)'
  <2>1. TAKE o \in Procs
  <2>2. CASE o = p
    BY <2>2
  <2>3. CASE o # p
    BY <2>3, Zenon DEF TypedState, Others, Shape, At
  <2> QED
    BY <2>2, <2>3
<1> QED
  BY <1>1, <1>2 DEF TypedState

LEMMA InitTyped == ASSUME QueueAssumption, Init PROVE TypedState
<1>1. TypeOK
  BY RestingTyped DEF Init, TypeOK, ProcType, Phases, Modes, QueueAssumption
<1>2. \A p \in Procs : Shape(p)
  BY DEF Init, Shape, At, Resting, StartPCs
<1> QED
  BY <1>1, <1>2 DEF TypedState

(* start_run.                                                                  *)
LEMMA TypedStart ==
    ASSUME TypedState, QueueAssumption, NEW p \in Procs,
           Mark(p) \/ Admit(p) \/ Refuse(p) \/ Launch(p)
    PROVE  TypedState'
<1>1. TypeOK /\ DataTyped /\ proc[p] \in ProcType /\ Shape(p)
  BY TypedSplit DEF TypedState
<1>2. /\ proc[p].pc \in StartPCs /\ proc[p].job \in Jobs
      /\ proc[p].back \in {"idle", "start_next", "resume_next", "fill", "serve"}
  BY <1>1 DEF Shape, Mark, Admit, Refuse, Launch, At, StartPCs
<1>3. CASE Mark(p)
  <2>1. DataTyped'
    BY <1>1, <1>2, <1>3 DEF Mark, DataTyped, queueVars, bounds
  <2>2. Goto(p, "admit") /\ "admit" \in PCs
    BY <1>3 DEF Mark, PCs
  <2>3. proc' \in [Procs -> ProcType] /\ Others(p) /\ Shape(p)'
    BY <1>1, <1>2, <2>2, GotoEffect DEF Shape, At, StartPCs
  <2> QED
    BY <2>1, <2>3, TypedNext
<1>4. ASSUME NEW ok \in {"ok", "deferred", "refused"}, Answer(p, ok)
      PROVE  proc' \in [Procs -> ProcType] /\ Others(p) /\ Shape(p)'
  <2>1. proc' \in [Procs -> ProcType] /\ Others(p)
    BY <1>1, <1>4, AnswerEffect
  <2>2. CASE proc[p].back = "idle"
    <3>1. proc'[p] = Resting
      BY <1>1, <1>4, <2>2, AnswerEffect
    <3> QED
      BY <2>1, <3>1 DEF Shape, At, StartPCs, Resting
  <2>3. CASE proc[p].back # "idle"
    <3>1. proc'[p].pc = proc[p].back
      BY <1>1, <1>4, <2>3, AnswerEffect
    <3> QED
      BY <1>2, <2>1, <2>3, <3>1 DEF Shape, At, StartPCs
  <2> QED
    BY <2>2, <2>3
<1>5. CASE Admit(p)
  <2>1. phase' \in [Jobs -> Phases]
    BY <1>1, <1>2, <1>5 DEF Admit, ClaimPhase, DataTyped, Phases
  <2>2. DataTyped'
    BY <1>1, <1>2, <1>5, <2>1 DEF Admit, DataTyped, queueVars, QueueAssumption
  <2>3. \/ \E ok \in {"ok", "deferred", "refused"} : Answer(p, ok)
        \/ Goto(p, "launch")
    BY <1>5, Zenon DEF Admit
  <2>4. CASE Goto(p, "launch")
    <3>1. "launch" \in PCs
      BY DEF PCs
    <3>2. proc' \in [Procs -> ProcType] /\ Others(p) /\ Shape(p)'
      BY <1>1, <1>2, <2>4, <3>1, GotoEffect DEF Shape, At, StartPCs
    <3> QED
      BY <2>2, <3>2, TypedNext
  <2> QED
    BY <1>4, <2>2, <2>3, <2>4, TypedNext
<1>6. CASE Refuse(p)
  <2>1. DataTyped' /\ Answer(p, "refused")
    BY <1>1, <1>2, <1>6 DEF Refuse, DataTyped, queueVars, bounds
  <2> QED
    BY <1>4, <2>1, TypedNext
<1>7. CASE Launch(p)
  <2>1. phase' \in [Jobs -> Phases] /\ at' \in [Jobs -> {"none", "claimed", "live", "ended"}]
    BY <1>1, <1>2, <1>7 DEF Launch, DataTyped, Phases
  <2>2. mode' \in [Queues -> Modes]
    BY <1>1, <1>2, <1>7 DEF Launch, DataTyped, Modes
  <2>3. DataTyped'
    BY <1>1, <1>2, <1>7, <2>1, <2>2 DEF Launch, DataTyped, bounds
  <2>4. \E ok \in {"ok", "deferred", "refused"} : Answer(p, ok)
    BY <1>7, Zenon DEF Launch
  <2> QED
    BY <1>4, <2>3, <2>4, TypedNext
<1> QED
  BY <1>3, <1>5, <1>6, <1>7

(* The calls.                                                                  *)
LEMMA TypedCalls ==
    ASSUME TypedState, QueueAssumption, NEW p \in Users, UserCalls(p)
    PROVE  TypedState'
<1>1. TypeOK /\ DataTyped /\ p \in Procs
  BY TypedSplit DEF TypedState, Procs
<1>2. ASSUME NEW o \in Ops, NEW l \in {"snapshot", "switch_off", "sweep", "clear", "resume_list"},
             NEW q \in Queues \cup {Nil}, NEW J \in SUBSET Jobs, Begin(p, o, l, q, J),
             l = "snapshot" => q \in Queues, phase' = phase, mode' \in [Queues -> Modes]
      PROVE  TypedState'
  <2>1. l \in PCs
    BY DEF PCs
  <2>2. proc' \in [Procs -> ProcType] /\ Others(p) /\ proc'[p].pc = l /\ proc'[p].queue = q
    BY <1>1, <1>2, <2>1, BeginEffect
  <2>3. Shape(p)'
    BY <1>2, <2>2 DEF Shape, At, StartPCs
  <2>4. DataTyped'
    BY <1>1, <1>2 DEF Begin, DataTyped, QueueAssumption
  <2> QED
    BY <1>1, <2>2, <2>3, <2>4, TypedNext
<1>3. ASSUME NEW q \in Queues, StartQueue(p, q) \/ StopQueue(p, q)
      PROVE  TypedState'
  <2>1. \E o \in Ops, l \in {"snapshot", "switch_off"} : Begin(p, o, l, q, {})
    BY <1>3 DEF StartQueue, StopQueue, Begin
  <2>2. phase' = phase /\ mode' \in [Queues -> Modes]
    BY <1>1, <1>3 DEF StartQueue, StopQueue, DataTyped
  <2> QED
    BY <1>2, <2>1, <2>2
<1>4. ASSUME NEW j \in Jobs, Pause(p, j)
      PROVE  TypedState'
  <2>1. Begin(p, "pause", "sweep", Nil, {j}) /\ "pause" \in Ops
    BY <1>4 DEF Pause, Begin
  <2>2. phase' = phase /\ mode' \in [Queues -> Modes]
    BY <1>1, <1>4 DEF Pause, DataTyped
  <2> QED
    BY <1>2, <2>1, <2>2
<1>5. CASE PauseAll(p) \/ StopAll(p) \/ ResumeAll(p)
  <2>1. mode' \in [Queues -> Modes] /\ phase' = phase
    BY <1>1, <1>5 DEF PauseAll, StopAll, ResumeAll, DataTyped, Modes
  <2> QED
    BY <1>2, <1>5, <2>1 DEF PauseAll, StopAll, ResumeAll, Begin
<1>6. ASSUME NEW j \in Jobs, Play(p, j)
      PROVE  TypedState'
  <2>1. proc' \in [Procs -> ProcType] /\ Others(p) /\ Shape(p)'
    <3>1. /\ proc' \in [Procs -> ProcType] /\ Others(p)
          /\ proc'[p].pc = "mark" /\ proc'[p].job = j /\ proc'[p].back = "idle"
      BY <1>1, <1>6, PlayEffect
    <3> QED
      BY <3>1 DEF Shape, At, StartPCs
  <2>2. DataTyped'
    BY <1>1, <1>6 DEF Play, DataTyped, jobVars, queueVars, QueueAssumption
  <2> QED
    BY <1>1, <2>1, <2>2, TypedNext
<1>7. ASSUME NEW j \in Jobs, AddJob(p, j)
      PROVE  TypedState'
  <2>1. DataTyped' /\ At(p, "idle") /\ "add" \in Ops /\ QueueOf[j] \in Queues
    BY <1>1, <1>7 DEF AddJob, DataTyped, Phases, queueVars, QueueAssumption
  <2>2. CASE mode[QueueOf[j]] \in {"running", "suspended"}
    <3>1. proc' \in [Procs -> ProcType] /\ Others(p) /\ Shape(p)'
      BY <1>1, <1>7, <2>1, <2>2, AddEffect DEF AddJob, Shape, At, StartPCs
    <3> QED
      BY <1>1, <2>1, <3>1, TypedNext
  <2>3. CASE mode[QueueOf[j]] \notin {"running", "suspended"}
    <3>1. proc' = proc
      BY <1>7, <2>3 DEF AddJob
    <3>2. proc' \in [Procs -> ProcType] /\ Others(p) /\ Shape(p)'
      BY <1>1, <3>1 DEF TypedState, TypeOK, ProcType, Others, Shape, At
    <3> QED
      BY <1>1, <2>1, <3>2, TypedNext
  <2> QED
    BY <2>2, <2>3
<1> QED
  BY <1>3, <1>4, <1>5, <1>6, <1>7 DEF UserCalls

(* Where the lists and the slot fillers of automation take a process.          *)
Calm(p) ==
    Others(p) /\ proc'[p].pc \in {"idle", "snapshot", "declare", "start_next", "resume_list",
                                  "resume_next", "mark", "admit", "feeds", "fill", "serve",
                                  "busy", "close"}

(* What start_queue and resume_all do with their lists.                        *)
LEMMA TypedLists ==
    ASSUME TypedState, QueueAssumption, NEW p \in Procs,
           \/ Snapshot(p) \/ Declare(p) \/ StartNext(p) \/ ResumeList(p) \/ ResumeNext(p)
    PROVE  TypedState' /\ Calm(p)
<1>1. TypeOK /\ DataTyped /\ proc[p] \in ProcType /\ Shape(p)
  BY TypedSplit DEF TypedState
<1>2. DataTyped'
  <2>1. mode' \in [Queues -> Modes]
    BY <1>1 DEF Snapshot, Declare, StartNext, ResumeList, ResumeNext, DataTyped, Modes, queueVars
  <2>2. failedNow' \in [Queues -> SUBSET Jobs]
    BY <1>1 DEF Snapshot, Declare, StartNext, ResumeList, ResumeNext, DataTyped, queueVars
  <2>3. UNCHANGED jobVars /\ UNCHANGED bounds
    BY DEF Snapshot, Declare, StartNext, ResumeList, ResumeNext
  <2> QED
    BY <1>1, <2>1, <2>2, <2>3 DEF DataTyped, jobVars, bounds
<1>3. CASE Return(p)
  <2>1. proc' \in [Procs -> ProcType] /\ Others(p) /\ proc'[p] = Resting
    BY <1>1, <1>3, ReturnEffect
  <2> QED
    BY <1>2, <2>1, TypedNext DEF Shape, At, Resting, StartPCs, Calm
<1>4. ASSUME NEW l \in {"declare", "start_next", "resume_next"}, Others(p),
             proc' \in [Procs -> ProcType], proc'[p].pc = l
      PROVE  TypedState' /\ Calm(p)
  <2>1. Shape(p)'
    BY <1>4 DEF Shape, At, StartPCs
  <2> QED
    BY <1>2, <1>4, <2>1, TypedNext DEF Calm
<1>5. ASSUME NEW j \in Jobs, NEW b \in {"start_next", "resume_next"}, StartRun(p, j, b)
      PROVE  TypedState' /\ Calm(p)
  <2>1. b \in PCs
    BY DEF PCs
  <2>2. /\ proc' \in [Procs -> ProcType] /\ Others(p) /\ proc'[p].pc = "mark"
        /\ proc'[p].job = j /\ proc'[p].back = b
    BY <1>1, <1>5, <2>1, StartRunEffect
  <2>3. Shape(p)'
    BY <2>2 DEF Shape, At, StartPCs
  <2> QED
    BY <1>2, <2>2, <2>3, TypedNext DEF Calm
<1>6. CASE Snapshot(p)
  <2>1. /\ proc' \in [Procs -> ProcType] /\ Others(p)
        /\ proc'[p].pc = "declare" \/ proc'[p] = Resting
    BY <1>6, SnapshotEffect
  <2>2. CASE proc'[p] = Resting
    BY <1>2, <2>1, <2>2, TypedNext DEF Shape, At, Resting, StartPCs, Calm
  <2> QED
    BY <1>4, <2>1, <2>2
<1>7. CASE Declare(p)
  <2>1. "start_next" \in PCs
    BY DEF PCs
  <2>2. proc' \in [Procs -> ProcType] /\ Others(p) /\ proc'[p].pc = "start_next"
    BY <1>1, <1>7, <2>1, ToWithWas DEF Declare
  <2> QED
    BY <1>4, <2>2
<1>8. CASE StartNext(p)
  <2>1. Return(p) \/ \E j \in proc[p].todo : StartRun(p, j, "start_next")
    BY <1>8 DEF StartNext
  <2>2. proc[p].todo \subseteq Jobs
    BY <1>1 DEF ProcType
  <2> QED
    BY <1>3, <1>5, <2>1, <2>2
<1>9. CASE ResumeList(p)
  <2>1. "resume_next" \in PCs /\ {j \in Jobs : phase[j] \in Startable} \in SUBSET Jobs
    BY DEF PCs
  <2>2. proc' \in [Procs -> ProcType] /\ Others(p) /\ proc'[p].pc = "resume_next"
    BY <1>1, <1>9, <2>1, ToWithTodo DEF ResumeList
  <2> QED
    BY <1>4, <2>2
<1>10. CASE ResumeNext(p)
  <2>1. Return(p) \/ \E j \in proc[p].todo : StartRun(p, j, "resume_next")
    BY <1>10 DEF ResumeNext
  <2>2. proc[p].todo \subseteq Jobs
    BY <1>1 DEF ProcType
  <2> QED
    BY <1>3, <1>5, <2>1, <2>2
<1> QED
  BY <1>6, <1>7, <1>8, <1>9, <1>10

(* The stops.                                                                  *)
LEMMA TypedStops ==
    ASSUME TypedState, QueueAssumption, NEW p \in Procs,
           \/ SwitchOff(p) \/ ClearDeferrals(p) \/ Sweep(p) \/ PauseOne(p)
           \/ StopCheck(p) \/ DropTally(p)
    PROVE  TypedState'
<1>1. TypeOK /\ DataTyped /\ proc[p] \in ProcType /\ Shape(p)
  BY TypedSplit DEF TypedState
<1>2. DataTyped'
  <2>1. mode' \in [Queues -> Modes]
    BY <1>1 DEF SwitchOff, ClearDeferrals, Sweep, PauseOne, StopCheck, DropTally, DataTyped, Modes, queueVars
  <2>2. phase' \in [Jobs -> Phases] /\ told' \subseteq Jobs /\ deferred' \subseteq Jobs
    BY <1>1 DEF SwitchOff, ClearDeferrals, Sweep, PauseOne, StopCheck, DropTally, DataTyped,
                Phases, ProcType, jobVars
  <2>3. at' = at /\ manual' = manual /\ failedNow' = failedNow /\ calls' = calls /\ claims' = claims
    BY DEF SwitchOff, ClearDeferrals, Sweep, PauseOne, StopCheck, DropTally, jobVars, queueVars, bounds
  <2> QED
    BY <1>1, <2>1, <2>2, <2>3 DEF DataTyped
<1>3. CASE Return(p)
  <2>1. proc' \in [Procs -> ProcType] /\ Others(p) /\ proc'[p] = Resting
    BY <1>1, <1>3, ReturnEffect
  <2> QED
    BY <1>2, <2>1, TypedNext DEF Shape, At, Resting, StartPCs
<1>4. ASSUME NEW l \in {"clear", "sweep", "stop_check", "drop"}, Others(p),
             proc' \in [Procs -> ProcType], proc'[p].pc = l
      PROVE  TypedState'
  <2>1. Shape(p)'
    BY <1>4 DEF Shape, At, StartPCs
  <2> QED
    BY <1>2, <1>4, <2>1, TypedNext
<1>5. ASSUME NEW l \in {"sweep", "stop_check", "drop"}, Goto(p, l)
      PROVE  TypedState'
  <2>1. l \in PCs
    BY DEF PCs
  <2> QED
    BY <1>1, <1>4, <1>5, <2>1, GotoEffect
<1>6. CASE SwitchOff(p)
  <2>1. "clear" \in PCs
    BY DEF PCs
  <2>2. proc' \in [Procs -> ProcType] /\ Others(p) /\ proc'[p].pc = "clear"
    BY <1>1, <1>6, <2>1, ToWithWas DEF SwitchOff
  <2> QED
    BY <1>4, <2>2
<1>7. CASE Sweep(p)
  <2> DEFINE new == Targets(p) \ proc[p].tried
  <2>1. \/ Return(p) \/ Goto(p, "stop_check")
        \/ proc' = [proc EXCEPT ![p].todo = new, ![p].tried = @ \cup new]
    BY <1>7 DEF Sweep
  <2>2. CASE proc' = [proc EXCEPT ![p].todo = new, ![p].tried = @ \cup new]
    <3>1. new \in SUBSET Jobs /\ proc[p].tried \cup new \in SUBSET Jobs
      BY <1>1 DEF Targets, InQueue, ProcType
    <3>2. proc' = [proc EXCEPT ![p].todo = new, ![p].tried = proc[p].tried \cup new]
      BY <1>1, <2>2
    <3> HIDE DEF new
    <3>3. proc' \in [Procs -> ProcType] /\ Others(p) /\ proc'[p].pc = proc[p].pc
      BY <1>1, <3>1, <3>2, WithTodo
    <3>4. proc[p].pc = "sweep"
      BY <1>7 DEF Sweep, At
    <3> QED
      BY <1>4, <3>3, <3>4
  <2> QED
    BY <1>3, <1>5, <2>1, <2>2
<1>8. CASE PauseOne(p)
  <2>1. PICK j \in proc[p].todo : proc' = [proc EXCEPT ![p].todo = @ \ {j}]
    BY <1>8 DEF PauseOne
  <2>2. proc[p].todo \ {j} \in SUBSET Jobs
    BY <1>1 DEF ProcType
  <2>3. proc' = [proc EXCEPT ![p].todo = proc[p].todo \ {j}]
    BY <1>1, <2>1
  <2>4. proc' \in [Procs -> ProcType] /\ Others(p) /\ proc'[p].pc = proc[p].pc
    BY <1>1, <2>2, <2>3, WithTodo
  <2>5. proc[p].pc = "sweep"
    BY <1>8 DEF PauseOne, At
  <2> QED
    BY <1>4, <2>4, <2>5
<1> QED
  BY <1>3, <1>5, <1>6, <1>7, <1>8 DEF ClearDeferrals, StopCheck, DropTally

(* The slot fillers.                                                           *)
LEMMA TypedFillers ==
    ASSUME TypedState, QueueAssumption, NEW p \in Procs,
           Feeds(p) \/ FillNext(p) \/ ServeNext(p) \/ CheckBusy(p) \/ CloseRun(p)
    PROVE  TypedState' /\ Calm(p)
<1>1. TypeOK /\ DataTyped /\ proc[p] \in ProcType /\ Shape(p)
  BY TypedSplit DEF TypedState
<1>2. DataTyped'
  <2>1. mode' \in [Queues -> Modes]
    BY <1>1 DEF Feeds, FillNext, ServeNext, CheckBusy, CloseRun, DataTyped, Modes, queueVars
  <2>2. UNCHANGED jobVars /\ UNCHANGED bounds /\ failedNow' = failedNow
    BY DEF Feeds, FillNext, ServeNext, CheckBusy, CloseRun, queueVars
  <2> QED
    BY <1>1, <2>1, <2>2 DEF DataTyped, jobVars, bounds
<1>3. CASE Return(p)
  <2>1. proc' \in [Procs -> ProcType] /\ Others(p) /\ proc'[p] = Resting
    BY <1>1, <1>3, ReturnEffect
  <2> QED
    BY <1>2, <2>1, TypedNext DEF Shape, At, Resting, StartPCs, Calm
<1>4. ASSUME NEW l \in {"fill", "serve", "busy", "close"}, Others(p),
             proc' \in [Procs -> ProcType], proc'[p].pc = l
      PROVE  TypedState' /\ Calm(p)
  <2>1. Shape(p)'
    BY <1>4 DEF Shape, At, StartPCs
  <2> QED
    BY <1>2, <1>4, <2>1, TypedNext DEF Calm
<1>5. ASSUME NEW l \in {"busy", "close"}, Goto(p, l)
      PROVE  TypedState' /\ Calm(p)
  <2>1. l \in PCs
    BY DEF PCs
  <2> QED
    BY <1>1, <1>4, <1>5, <2>1, GotoEffect
<1>6. ASSUME NEW j \in Jobs, NEW b \in {"fill", "serve"}, proc'[p].pc = "mark", proc'[p].job = j,
             proc'[p].back = b, Others(p), proc' \in [Procs -> ProcType]
      PROVE  TypedState' /\ Calm(p)
  <2>1. Shape(p)'
    BY <1>6 DEF Shape, At, StartPCs
  <2> QED
    BY <1>2, <1>6, <2>1, TypedNext DEF Calm
<1>7. CASE Feeds(p)
  <2>1. failedNow[proc[p].queue] \in SUBSET Jobs
    BY <1>1, <1>7 DEF Feeds, Shape, At, DataTyped
  <2>2. "fill" \in PCs /\ "serve" \in PCs
    BY DEF PCs
  <2>3. \/ Return(p)
        \/ proc' = [proc EXCEPT ![p].pc = "fill", ![p].todo = failedNow[proc[p].queue]]
        \/ proc' = [proc EXCEPT ![p].pc = "serve", ![p].tried = {}]
    BY <1>7 DEF Feeds
  <2>4. CASE proc' = [proc EXCEPT ![p].pc = "fill", ![p].todo = failedNow[proc[p].queue]]
    BY <1>1, <1>4, <2>1, <2>2, <2>4, ToWithTodo
  <2>5. CASE proc' = [proc EXCEPT ![p].pc = "serve", ![p].tried = {}]
    BY <1>1, <1>4, <2>2, <2>5, ToWithTried
  <2> QED
    BY <1>3, <2>3, <2>4, <2>5
<1>8. CASE FillNext(p)
  <2>1. ASSUME NEW j \in Fillable(p), FillStart(p, j)
        PROVE  TypedState' /\ Calm(p)
    <3>1. j \in Jobs
      BY DEF Fillable, InQueue
    <3>2. proc' \in [Procs -> ProcType] /\ Others(p) /\ proc'[p].pc = "mark" /\ proc'[p].job = j
          /\ proc'[p].back = "fill"
      BY <2>1, <3>1, FillStartEffect
    <3> QED
      BY <1>6, <3>1, <3>2
  <2>2. ASSUME proc' = [proc EXCEPT ![p].pc = "serve", ![p].tried = {}, ![p].todo = {}]
        PROVE  TypedState' /\ Calm(p)
    BY <1>4, <2>2, FillStopEffect
  <2> QED
    BY <1>3, <1>8, <2>1, <2>2 DEF FillNext, FillStart
<1>9. CASE ServeNext(p)
  <2>1. ASSUME NEW j \in Waiting, proc' = [proc EXCEPT ![p].tried = @ \cup {j}]
        PROVE  TypedState' /\ Calm(p)
    <3>1. j \in Jobs /\ "serve" \in PCs /\ proc[p].pc = "serve"
      BY <1>1, <1>9 DEF Waiting, DataTyped, PCs, ServeNext, At
    <3>2. proc' \in [Procs -> ProcType] /\ Others(p) /\ proc'[p].pc = "serve"
      BY <1>1, <2>1, <3>1 DEF TypeOK, ProcType, Others
    <3> QED
      BY <1>4, <3>2
  <2>2. ASSUME NEW j \in Waiting, StartRun(p, j, "serve")
        PROVE  TypedState' /\ Calm(p)
    <3>1. j \in Jobs /\ "serve" \in PCs
      BY <1>1 DEF Waiting, DataTyped, PCs
    <3> QED
      BY <1>1, <1>6, <2>2, <3>1, StartRunEffect
  <2> QED
    BY <1>5, <1>9, <2>1, <2>2 DEF ServeNext
<1> QED
  BY <1>3, <1>5, <1>7, <1>8, <1>9 DEF CheckBusy, CloseRun

(* The runs.                                                                   *)
LEMMA TypedRuns ==
    ASSUME TypedState, QueueAssumption, NEW j \in Jobs,
           RunEnds(j) \/ \E ph \in RunningPhases : Report(j, ph)
    PROVE  TypedState'
<1>1. TypeOK /\ DataTyped /\ j \in Procs
  BY TypedSplit DEF TypedState, Procs
<1>2. ASSUME proc' = proc, DataTyped'
      PROVE  TypedState'
  <2>1. proc' \in [Procs -> ProcType] /\ Others(j) /\ Shape(j)'
    BY <1>1, <1>2 DEF TypedState, TypeOK, ProcType, Others, Shape, At
  <2> QED
    BY <1>1, <1>2, <2>1, TypedNext
<1>3. CASE Release(j)
  <2>1. DataTyped' /\ At(j, "idle")
    BY <1>1, <1>3 DEF Release, DataTyped, queueVars, bounds
  <2>2. proc' \in [Procs -> ProcType] /\ Others(j) /\ proc'[j].pc = "feeds" /\ proc'[j].queue = QueueOf[j]
    BY <1>1, <1>3, <2>1, ReleaseEffect DEF Release
  <2>3. Shape(j)'
    BY <2>2 DEF Shape, At, StartPCs, QueueAssumption
  <2> QED
    BY <1>1, <2>1, <2>2, <2>3, TypedNext
<1>4. ASSUME NEW ph \in {"Completed", "Failed", "Paused"}, End(j, ph)
      PROVE  TypedState'
  <2>1. phase' \in [Jobs -> Phases] /\ at' \in [Jobs -> {"none", "claimed", "live", "ended"}]
    BY <1>1, <1>4 DEF End, DataTyped, Phases
  <2>2. failedNow' \in [Queues -> SUBSET Jobs]
    BY <1>1, <1>4 DEF End, DataTyped
  <2>3. DataTyped' /\ proc' = proc
    BY <1>1, <1>4, <2>1, <2>2 DEF End, DataTyped, bounds
  <2> QED
    BY <1>2, <2>3
<1>5. ASSUME NEW ph \in RunningPhases, Report(j, ph)
      PROVE  TypedState'
  <2>1. phase' \in [Jobs -> Phases]
    BY <1>1, <1>5 DEF Report, DataTyped, Phases, RunningPhases
  <2> QED
    BY <1>1, <1>2, <1>5, <2>1 DEF Report, DataTyped, queueVars, bounds
<1> QED
  BY <1>3, <1>4, <1>5 DEF RunEnds

LEMMA TypedStep == ASSUME TypedState, QueueAssumption, [Next]_vars PROVE TypedState'
<1>1. CASE UNCHANGED vars
  BY <1>1 DEF vars, jobVars, queueVars, bounds, TypedState, TypeOK, Shape, At
<1>2. CASE Next
  <2>1. ASSUME NEW p \in Procs, Step(p)
        PROVE  TypedState'
    BY <2>1, TypedStart, TypedLists, TypedStops, TypedFillers DEF Step
  <2> QED
    BY <1>2, <2>1, TypedCalls, TypedRuns DEF Next
<1> QED
  BY <1>1, <1>2

(* Every variable of queue runs keeps its type, whatever calls are made: each  *)
(* process of state.rs is at one of its places, with the download, the queue   *)
(* and the lists that place needs, and calls and claims stay in their bounds.  *)
THEOREM TypeCorrect == Spec => []TypeOK
<1>1. Init => TypedState
  BY InitTyped, QueueAssumption
<1>2. TypedState /\ [Next]_vars => TypedState'
  BY TypedStep, QueueAssumption
<1>3. TypedState => TypeOK
  BY DEF TypedState
<1> QED
  BY <1>1, <1>2, <1>3, PTL DEF Spec

-------------------------------------------------------------------------------
(* The caps.                                                                   *)

LEMMA Counted ==
    ASSUME QueueAssumption, NEW R \in SUBSET Jobs, NEW q
    PROVE  /\ IsFiniteSet(R) /\ IsFiniteSet(R \cap InQueue(q))
           /\ Cardinality(R) \in Nat /\ Cardinality(R \cap InQueue(q)) \in Nat
           /\ Cardinality(R \cap InQueue(q)) <= Cardinality(R)
  BY FS_Subset, FS_CardinalityType DEF QueueAssumption

LEMMA SubsetCounted ==
    ASSUME QueueAssumption, NEW R \in SUBSET Jobs, NEW T \in SUBSET R, NEW q
    PROVE  Cardinality(T) <= Cardinality(R) /\ Cardinality(T \cap InQueue(q)) <= Cardinality(R \cap InQueue(q))
<1>1. T \cap InQueue(q) \in SUBSET (R \cap InQueue(q))
  OBVIOUS
<1> QED
  BY <1>1, Counted, FS_Subset

LEMMA OneMoreCounted ==
    ASSUME QueueAssumption, NEW R \in SUBSET Jobs, NEW j \in Jobs \ R, NEW q
    PROVE  /\ Cardinality(R \cup {j}) = Cardinality(R) + 1
           /\ Cardinality((R \cup {j}) \cap InQueue(q)) =
                  Cardinality(R \cap InQueue(q)) + (IF QueueOf[j] = q THEN 1 ELSE 0)
<1>1. Cardinality(R \cup {j}) = Cardinality(R) + 1
  BY Counted, FS_AddElement
<1>2. CASE QueueOf[j] # q
  <2>1. (R \cup {j}) \cap InQueue(q) = R \cap InQueue(q)
    BY <1>2 DEF InQueue
  <2> QED
    BY <1>1, <1>2, <2>1, Counted
<1>3. CASE QueueOf[j] = q
  <2>1. (R \cup {j}) \cap InQueue(q) = (R \cap InQueue(q)) \cup {j}
    BY <1>3 DEF InQueue
  <2>2. j \notin R \cap InQueue(q) /\ IsFiniteSet(R \cap InQueue(q))
    BY Counted
  <2>3. Cardinality((R \cap InQueue(q)) \cup {j}) = Cardinality(R \cap InQueue(q)) + 1
    BY <2>2, FS_AddElement
  <2> QED
    BY <1>1, <1>3, <2>1, <2>3
<1> QED
  BY <1>2, <1>3

LEMMA CapsAreNat ==
    ASSUME QueueAssumption
    PROVE  /\ GlobalCap \in Nat
           /\ \A q \in Queues : CapOf(q) \in Nat /\ CapOf(q) > 0 /\ QueueCap[q] \in Nat
  BY DEF QueueAssumption, CapOf

(* Numbers only.                                                               *)
LEMMA AtMost ==
    ASSUME NEW a \in Nat, NEW b \in Nat, NEW c \in Nat, a <= b, b <= c
    PROVE  a <= c
  OBVIOUS

LEMMA OneMore ==
    ASSUME NEW a \in Nat, NEW b, NEW c \in Nat, b = a + 1, ~(a >= c)
    PROVE  b <= c
  OBVIOUS

LEMMA FewerRun ==
    ASSUME QueueAssumption, RunsWithinCaps, Running' \subseteq Running
    PROVE  RunsWithinCaps'
<1> DEFINE R == Running
           T == Running'
<1>1. R \in SUBSET Jobs /\ T \in SUBSET R
  BY DEF Running
<1>2. Cardinality(R) <= GlobalCap /\ \A q \in Queues : Cardinality(R \cap InQueue(q)) <= CapOf(q)
  BY DEF RunsWithinCaps
<1>3. RunsWithinCaps' <=> /\ Cardinality(T) <= GlobalCap
                          /\ \A q \in Queues : Cardinality(T \cap InQueue(q)) <= CapOf(q)
  BY DEF RunsWithinCaps, InQueue, CapOf
<1> HIDE DEF R, T
<1>4. T \in SUBSET Jobs
  BY <1>1
<1>5. ASSUME NEW q
      PROVE  /\ Cardinality(T) <= Cardinality(R) /\ Cardinality(T) \in Nat /\ Cardinality(R) \in Nat
             /\ Cardinality(T \cap InQueue(q)) <= Cardinality(R \cap InQueue(q))
             /\ Cardinality(T \cap InQueue(q)) \in Nat /\ Cardinality(R \cap InQueue(q)) \in Nat
  BY <1>1, <1>4, Counted, SubsetCounted
<1>6. Cardinality(T) <= GlobalCap
  BY <1>2, <1>5, CapsAreNat, AtMost
<1>7. ASSUME NEW q \in Queues
      PROVE  Cardinality(T \cap InQueue(q)) <= CapOf(q)
  <2>1. Cardinality(R \cap InQueue(q)) <= CapOf(q) /\ CapOf(q) \in Nat
    BY <1>2, CapsAreNat
  <2> QED
    BY <1>5, <2>1, AtMost
<1> QED
  BY <1>3, <1>6, <1>7

(* The claim: one more download runs, and its slots were not full.             *)
LEMMA OneMoreRuns ==
    ASSUME QueueAssumption, RunsWithinCaps, NEW j \in Jobs, j \notin Running,
           Running' = Running \cup {j}, ~SlotsFull(QueueOf[j])
    PROVE  RunsWithinCaps'
<1> DEFINE R == Running
           T == Running'
<1>1. R \in SUBSET Jobs /\ T = R \cup {j} /\ j \in Jobs \ R /\ QueueOf[j] \in Queues
  BY DEF Running, QueueAssumption
<1>2. Cardinality(R) <= GlobalCap /\ \A q \in Queues : Cardinality(R \cap InQueue(q)) <= CapOf(q)
  BY DEF RunsWithinCaps
<1>3. RunsWithinCaps' <=> /\ Cardinality(T) <= GlobalCap
                          /\ \A q \in Queues : Cardinality(T \cap InQueue(q)) <= CapOf(q)
  BY DEF RunsWithinCaps, InQueue, CapOf
<1>4. /\ ~(Cardinality(R) >= GlobalCap)
      /\ QueueCap[QueueOf[j]] # 0 => ~(Cardinality(R \cap InQueue(QueueOf[j])) >= QueueCap[QueueOf[j]])
  BY DEF SlotsFull, GlobalFull
<1> HIDE DEF R, T
<1>5. ASSUME NEW q
      PROVE  /\ Cardinality(R) \in Nat /\ Cardinality(R \cap InQueue(q)) \in Nat
             /\ Cardinality(R \cap InQueue(q)) <= Cardinality(R)
             /\ Cardinality(T) = Cardinality(R) + 1
             /\ Cardinality(T \cap InQueue(q)) =
                    Cardinality(R \cap InQueue(q)) + (IF QueueOf[j] = q THEN 1 ELSE 0)
  BY <1>1, Counted, OneMoreCounted
<1>6. Cardinality(T) <= GlobalCap
  BY <1>4, <1>5, CapsAreNat, OneMore
<1>7. ASSUME NEW q \in Queues
      PROVE  Cardinality(T \cap InQueue(q)) <= CapOf(q)
  <2> DEFINE r == Cardinality(R \cap InQueue(q))
             t == Cardinality(T \cap InQueue(q))
  <2>0. r \in Nat /\ r <= CapOf(q) /\ CapOf(q) \in Nat /\ t = r + (IF QueueOf[j] = q THEN 1 ELSE 0)
    BY <1>2, <1>5, CapsAreNat
  <2> SUFFICES t <= CapOf(q)
    OBVIOUS
  <2> HIDE DEF r, t
  <2>1. CASE QueueOf[j] # q
    <3>1. t = r
      BY <2>0, <2>1
    <3> QED
      BY <2>0, <3>1
  <2>2. CASE QueueOf[j] = q
    <3>1. CASE QueueCap[q] = 0
      <4>1. r <= Cardinality(R) /\ Cardinality(R) \in Nat /\ ~(Cardinality(R) >= GlobalCap)
        BY <1>4, <1>5 DEF r
      <4>2. ~(r >= GlobalCap) /\ CapOf(q) = GlobalCap
        BY <2>0, <3>1, <4>1, CapsAreNat DEF CapOf
      <4> QED
        BY <2>0, <2>2, <4>2, OneMore
    <3>2. CASE QueueCap[q] # 0
      <4>1. ~(r >= QueueCap[q]) /\ CapOf(q) = QueueCap[q]
        BY <1>4, <2>2, <3>2 DEF CapOf, r
      <4> QED
        BY <2>0, <2>2, <4>1, OneMore
    <3> QED
      BY <3>1, <3>2
  <2> QED
    BY <2>1, <2>2
<1> QED
  BY <1>3, <1>6, <1>7

LEMMA AutomationKnown ==
    ASSUME AutomationOnly, QueueAssumption
    PROVE  Ops \cap {"stop_queue", "pause_all", "stop_all", "play", "pause"} = {}
  BY DEF AutomationOnly

(* A step that starts nothing.                                                 *)
LEMMA CalmStep ==
    ASSUME TypedState, QueueAssumption, CapsInv, NEW p \in Procs, Calm(p) \/ proc' = proc,
           RunningIsClaimed', \A k \in Jobs : at[k] = "claimed" => at'[k] = "claimed",
           told' = {}, manual' = {}, Running' \subseteq Running,
           \A q \in Queues : mode'[q] # "suspended"
    PROVE  CapsInv'
<1>1. PauseFree'
  <2>1. ASSUME NEW o \in Procs
        PROVE  proc'[o].pc \notin {"switch_off", "clear", "sweep", "stop_check", "drop"}
    BY Zenon DEF Calm, Others, CapsInv, PauseFree
  <2> QED
    BY <2>1 DEF CapsInv, PauseFree
<1>2. LaunchIsOwn'
  <2>1. \A o \in Procs : proc'[o].pc = "launch" => proc'[o] = proc[o] /\ proc[o].job \in Jobs
    BY DEF Calm, Others, TypedState, Shape, StartPCs
  <2> QED
    BY <2>1 DEF CapsInv, LaunchIsOwn, At
<1>3. RunsWithinCaps'
  BY FewerRun DEF CapsInv
<1> QED
  BY <1>1, <1>2, <1>3 DEF CapsInv

LEMMA CapsCalls ==
    ASSUME TypedState, QueueAssumption, AutomationOnly, CapsInv, NEW p \in Users, UserCalls(p)
    PROVE  CapsInv'
<1>1. p \in Procs /\ told = {} /\ manual = {} /\ \A q \in Queues : mode[q] # "suspended"
  BY DEF Procs, CapsInv, PauseFree
<1>2. \/ \E q \in Queues : StartQueue(p, q)
      \/ \E j \in Jobs : AddJob(p, j)
      \/ ResumeAll(p)
  BY AutomationKnown DEF UserCalls, StopQueue, Play, Pause, PauseAll, StopAll, Begin
<1>3. CASE ResumeAll(p) \/ \E q \in Queues : StartQueue(p, q)
  <2>1. PICK o \in Ops, l \in {"snapshot", "resume_list"}, q \in Queues \cup {Nil} :
            Begin(p, o, l, q, {})
    BY <1>3 DEF StartQueue, ResumeAll, Begin
  <2>2. l \in PCs
    BY DEF PCs
  <2>3. Calm(p)
    BY <1>1, <2>1, <2>2, BeginEffect DEF Calm
  <2>4. UNCHANGED <<phase, at, told, manual>>
    BY <1>3 DEF StartQueue, ResumeAll, Begin
  <2>5. \A q1 \in Queues : mode'[q1] # "suspended"
    BY <1>1, <1>3 DEF StartQueue, ResumeAll
  <2>6. Running' = Running /\ RunningIsClaimed'
    BY <2>4 DEF Running, CapsInv, RunningIsClaimed
  <2> QED
    BY <1>1, <2>3, <2>4, <2>5, <2>6, CalmStep
<1>4. ASSUME NEW j \in Jobs, AddJob(p, j)
      PROVE  CapsInv'
  <2>1. UNCHANGED <<at, told, manual, mode>> /\ phase[j] = "unlisted"
    BY <1>4 DEF AddJob, queueVars
  <2>2. \A k \in Jobs : phase'[k] \in RunningPhases <=> phase[k] \in RunningPhases
    BY <1>4, <2>1 DEF AddJob, TypedState, TypeOK, RunningPhases
  <2>3. Running' = Running /\ RunningIsClaimed'
    BY <2>1, <2>2 DEF Running, CapsInv, RunningIsClaimed
  <2>4. Calm(p) \/ proc' = proc
    <3>1. CASE mode[QueueOf[j]] \in {"running", "suspended"}
      <4>1. QueueOf[j] \in Queues /\ At(p, "idle") /\ "add" \in Ops
        BY <1>4 DEF AddJob, QueueAssumption
      <4> QED
        BY <1>1, <1>4, <3>1, <4>1, AddEffect DEF AddJob, Calm
    <3> QED
      BY <1>4, <3>1 DEF AddJob
  <2> QED
    BY <1>1, <2>1, <2>3, <2>4, CalmStep
<1> QED
  BY <1>2, <1>3, <1>4

LEMMA CapsLists ==
    ASSUME TypedState, QueueAssumption, CapsInv, NEW p \in Procs,
           \/ Snapshot(p) \/ Declare(p) \/ StartNext(p) \/ ResumeList(p) \/ ResumeNext(p)
           \/ Feeds(p) \/ FillNext(p) \/ ServeNext(p) \/ CheckBusy(p) \/ CloseRun(p)
    PROVE  CapsInv'
<1>1. Calm(p)
  BY TypedLists, TypedFillers
<1>2. UNCHANGED jobVars
  BY DEF Snapshot, Declare, StartNext, ResumeList, ResumeNext, Feeds, FillNext, ServeNext,
         CheckBusy, CloseRun
<1>3. \A q \in Queues : mode'[q] # "suspended"
  BY DEF Snapshot, Declare, StartNext, ResumeList, ResumeNext, Feeds, FillNext, ServeNext,
         CheckBusy, CloseRun, queueVars, TypedState, TypeOK, CapsInv, PauseFree
<1>4. Running' = Running /\ RunningIsClaimed' /\ told' = {} /\ manual' = {} /\ at' = at
  BY <1>2 DEF Running, CapsInv, RunningIsClaimed, PauseFree, jobVars
<1> QED
  BY <1>1, <1>3, <1>4, CalmStep

LEMMA CapsRuns ==
    ASSUME TypedState, QueueAssumption, CapsInv, NEW j \in Jobs,
           RunEnds(j) \/ \E ph \in RunningPhases : Report(j, ph)
    PROVE  CapsInv'
<1>1. TypeOK /\ j \in Procs /\ told = {} /\ manual = {} /\ RunningIsClaimed
      /\ \A q \in Queues : mode[q] # "suspended"
  BY DEF TypedState, Procs, CapsInv, PauseFree
<1>2. UNCHANGED <<told, manual, mode>>
  BY DEF RunEnds, Release, End, Report, queueVars
<1>3. ASSUME RunningIsClaimed', \A k \in Jobs : at[k] = "claimed" => at'[k] = "claimed",
             Running' \subseteq Running, Calm(j) \/ proc' = proc
      PROVE  CapsInv'
  BY <1>1, <1>2, <1>3, CalmStep
<1>4. CASE Release(j)
  <2>1. RunningIsClaimed' /\ Running' = Running
    BY <1>1, <1>4 DEF Release, RunningIsClaimed, Running, TypeOK
  <2>2. \A k \in Jobs : at[k] = "claimed" => at'[k] = "claimed"
    BY <1>1, <1>4 DEF Release, TypeOK
  <2>3. Calm(j)
    BY <1>1, <1>4, ReleaseEffect DEF Release, Calm
  <2> QED
    BY <1>3, <2>1, <2>2, <2>3
<1>5. ASSUME NEW ph \in {"Completed", "Failed", "Paused"}, End(j, ph)
      PROVE  CapsInv'
  <2>1. RunningIsClaimed' /\ Running' \subseteq Running /\ proc' = proc
    BY <1>1, <1>5 DEF End, RunningIsClaimed, Running, RunningPhases, TypeOK
  <2>2. \A k \in Jobs : at[k] = "claimed" => at'[k] = "claimed"
    BY <1>1, <1>5 DEF End, TypeOK
  <2> QED
    BY <1>3, <2>1, <2>2
<1>6. ASSUME NEW ph \in RunningPhases, Report(j, ph)
      PROVE  CapsInv'
  <2>1. RunningIsClaimed' /\ Running' \subseteq Running /\ proc' = proc /\ at' = at
    BY <1>1, <1>6 DEF Report, RunningIsClaimed, Running, TypeOK
  <2> QED
    BY <1>3, <2>1
<1> QED
  BY <1>4, <1>5, <1>6 DEF RunEnds

LEMMA AnswerIsCalm ==
    ASSUME TypedState, NEW p \in Procs, proc[p].pc \in StartPCs,
           \E ok \in {"ok", "deferred", "refused"} : Answer(p, ok)
    PROVE  Calm(p)
<1>1. TypeOK /\ proc[p].back \in {"idle", "start_next", "resume_next", "fill", "serve"}
  BY DEF TypedState, Shape
<1>2. CASE proc[p].back = "idle"
  BY <1>1, <1>2, AnswerEffect DEF Calm, Resting
<1>3. CASE proc[p].back # "idle"
  BY <1>1, <1>3, AnswerEffect DEF Calm
<1> QED
  BY <1>2, <1>3

LEMMA CapsStart ==
    ASSUME TypedState, QueueAssumption, AutomationOnly, CapsInv, NEW p \in Procs,
           Mark(p) \/ Admit(p) \/ Refuse(p) \/ Launch(p)
    PROVE  CapsInv'
<1> DEFINE j == proc[p].job
<1>1. /\ TypeOK /\ told = {} /\ manual = {} /\ RunningIsClaimed /\ LaunchIsOwn /\ RunsWithinCaps
      /\ \A q \in Queues : mode[q] # "suspended"
  BY DEF TypedState, CapsInv, PauseFree
<1>2. proc[p].pc \in StartPCs /\ j \in Jobs /\ proc[p].op # "play" /\ QueueOf[j] \in Queues
  BY DEF TypedState, TypeOK, Shape, Mark, Admit, Refuse, Launch, At, StartPCs, AutomationOnly,
         QueueAssumption
<1>3. told' = {} /\ manual' = {} /\ \A q \in Queues : mode'[q] # "suspended"
  BY <1>1, <1>2 DEF Mark, Admit, Refuse, Launch, queueVars, TypeOK
<1>4. ASSUME RunningIsClaimed', \A k \in Jobs : at[k] = "claimed" => at'[k] = "claimed",
             Running' \subseteq Running,
             Calm(p) \/ \E ok \in {"ok", "deferred", "refused"} : Answer(p, ok)
      PROVE  CapsInv'
  BY <1>2, <1>3, <1>4, AnswerIsCalm, CalmStep
<1>5. CASE Mark(p)
  <2>1. "admit" \in PCs
    BY DEF PCs
  <2>2. Calm(p)
    BY <1>1, <1>5, <2>1, GotoEffect DEF Mark, Calm
  <2>3. RunningIsClaimed' /\ Running' \subseteq Running /\ at' = at
    BY <1>1, <1>5 DEF Mark, RunningIsClaimed, Running
  <2> QED
    BY <1>4, <2>2, <2>3
<1>6. CASE Refuse(p)
  <2>1. RunningIsClaimed' /\ Running' \subseteq Running /\ at' = at
    BY <1>1, <1>6 DEF Refuse, RunningIsClaimed, Running
  <2>2. \E ok \in {"ok", "deferred", "refused"} : Answer(p, ok)
    BY <1>6 DEF Refuse
  <2> QED
    BY <1>4, <2>1, <2>2
<1>7. CASE Admit(p)
  <2>1. CASE UNCHANGED <<phase, at>> /\ Answer(p, "ok")
    <3>1. RunningIsClaimed' /\ Running' \subseteq Running /\ at' = at
      BY <1>1, <2>1 DEF RunningIsClaimed, Running
    <3> QED
      BY <1>4, <2>1, <3>1
  <2>2. CASE /\ at[j] = "none" /\ at' = at /\ phase' = [phase EXCEPT ![j] = "Queued"]
             /\ Answer(p, "deferred")
    <3>1. RunningIsClaimed' /\ Running' \subseteq Running
      BY <1>1, <1>2, <2>2 DEF RunningIsClaimed, Running, RunningPhases, TypeOK
    <3> QED
      BY <1>4, <2>2, <3>1
  <2>3. CASE /\ at[j] = "none" /\ ~SlotsFull(QueueOf[j]) /\ at' = [at EXCEPT ![j] = "claimed"]
             /\ phase' = [phase EXCEPT ![j] = "Downloading"] /\ Goto(p, "launch")
    <3>1. "launch" \in PCs
      BY DEF PCs
    <3>2. Others(p) /\ proc'[p].pc = "launch" /\ proc'[p].job = j
      BY <1>1, <2>3, <3>1, GotoEffect
    <3>3. PauseFree'
      <4>1. ASSUME NEW o \in Procs
            PROVE  proc'[o].pc \notin {"switch_off", "clear", "sweep", "stop_check", "drop"}
        <5>1. CASE o = p
          BY <3>2, <5>1
        <5>2. CASE o # p
          BY <3>2, <5>2 DEF Others, CapsInv, PauseFree
        <5> QED
          BY <5>1, <5>2
      <4> QED
        BY <1>3, <4>1 DEF PauseFree
    <3>4. RunningIsClaimed'
      BY <1>1, <1>2, <2>3 DEF RunningIsClaimed, RunningPhases, TypeOK
    <3>5. Running' = Running \cup {j} /\ j \notin Running
      BY <1>1, <1>2, <2>3 DEF RunningIsClaimed, Running, RunningPhases, TypeOK
    <3>6. RunsWithinCaps'
      BY <1>1, <1>2, <2>3, <3>5, OneMoreRuns
    <3>7. LaunchIsOwn'
      <4>1. at'[j] = "claimed" /\ \A k \in Jobs : at[k] = "claimed" => at'[k] = "claimed"
        BY <1>1, <1>2, <2>3 DEF TypeOK
      <4>2. \A o \in Procs : proc'[o].pc = "launch" /\ o # p =>
                /\ proc'[o] = proc[o] /\ proc[o].job \in Jobs /\ proc[o].job # j
                /\ at[proc[o].job] = "claimed"
        BY <1>1, <2>3, <3>2 DEF Others, TypedState, Shape, StartPCs, LaunchIsOwn, At
      <4>3. ASSUME NEW o \in Procs, proc'[o].pc = "launch"
            PROVE  /\ at'[proc'[o].job] = "claimed"
                   /\ \A o2 \in Procs :
                          proc'[o2].pc = "launch" /\ proc'[o2].job = proc'[o].job => o2 = o
        <5>1. CASE o = p
          BY <3>2, <4>1, <4>2, <5>1
        <5>2. CASE o # p
          BY <1>1, <3>2, <4>1, <4>2, <4>3, <5>2 DEF LaunchIsOwn, At
        <5> QED
          BY <5>1, <5>2
      <4> QED
        BY <4>3 DEF LaunchIsOwn, At
    <3> QED
      BY <3>3, <3>4, <3>6, <3>7 DEF CapsInv
  <2> QED
    BY <1>1, <1>7, <2>1, <2>2, <2>3 DEF Admit, ClaimPhase
<1>8. CASE Launch(p)
  <2>1. at[j] = "claimed" /\ \A o \in Procs : proc[o].pc = "launch" /\ proc[o].job = j => o = p
    BY <1>1, <1>8 DEF LaunchIsOwn, Launch, At
  <2>2. \E ok \in {"ok", "deferred", "refused"} : Answer(p, ok)
    BY <1>8, Zenon DEF Launch
  <2>3. Calm(p)
    BY <1>2, <2>2, AnswerIsCalm
  <2>4. \A k \in Jobs : k # j => at'[k] = at[k]
    BY <1>1, <1>2, <1>8 DEF Launch, TypeOK
  <2>5. RunningIsClaimed' /\ Running' \subseteq Running
    BY <1>1, <1>2, <1>8, <2>1 DEF Launch, RunningIsClaimed, Running, RunningPhases, TypeOK
  <2>6. PauseFree'
    <3>1. ASSUME NEW o \in Procs
          PROVE  proc'[o].pc \notin {"switch_off", "clear", "sweep", "stop_check", "drop"}
      BY <2>3, Zenon DEF Calm, Others, CapsInv, PauseFree
    <3> QED
      BY <1>3, <3>1 DEF PauseFree
  <2>7. LaunchIsOwn'
    <3>1. \A o \in Procs : proc'[o].pc = "launch" =>
              o # p /\ proc'[o] = proc[o] /\ proc[o].job \in Jobs /\ proc[o].job # j
      BY <2>1, <2>3 DEF Calm, Others, TypedState, Shape, StartPCs
    <3> QED
      BY <1>1, <2>4, <3>1 DEF LaunchIsOwn, At
  <2>8. RunsWithinCaps'
    BY <1>1, <2>5, FewerRun
  <2> QED
    BY <2>5, <2>6, <2>7, <2>8 DEF CapsInv
<1> QED
  BY <1>5, <1>6, <1>7, <1>8

LEMMA CapsNext ==
    ASSUME TypedState, QueueAssumption, AutomationOnly, CapsInv, [Next]_vars
    PROVE  CapsInv'
<1>1. CASE UNCHANGED vars
  <2>1. UNCHANGED <<phase, at, told, manual, mode, proc>>
    BY <1>1 DEF vars, jobVars, queueVars
  <2> QED
    BY <2>1 DEF CapsInv, PauseFree, RunningIsClaimed, LaunchIsOwn, RunsWithinCaps, At, Running,
                InQueue, CapOf
<1>2. ASSUME NEW p \in Procs, Step(p)
      PROVE  CapsInv'
  <2>1. proc[p].pc \notin {"switch_off", "clear", "sweep", "stop_check", "drop"}
    BY DEF CapsInv, PauseFree
  <2> QED
    BY <1>2, <2>1, CapsStart, CapsLists
       DEF Step, SwitchOff, ClearDeferrals, Sweep, PauseOne, StopCheck, DropTally, At
<1> QED
  BY <1>1, <1>2, CapsCalls, CapsRuns DEF Next

LEMMA CapsInit ==
    ASSUME QueueAssumption, Init
    PROVE  CapsInv
<1>1. TypedState
  BY InitTyped
<1>2. PauseFree
  BY DEF Init, PauseFree, Resting
<1>3. RunningIsClaimed /\ Running = {}
  BY DEF Init, RunningIsClaimed, Running, RunningPhases
<1>4. LaunchIsOwn
  BY DEF Init, LaunchIsOwn, At, Resting
<1>5. \A q : Running \cap InQueue(q) = {}
  BY <1>3
<1>6. RunsWithinCaps
  BY <1>3, <1>5, CapsAreNat, FS_EmptySet DEF RunsWithinCaps
<1> QED
  BY <1>2, <1>3, <1>4, <1>6 DEF CapsInv

(* Downloads started by queues, by Resume all and by additions never exceed a  *)
(* queue's own cap nor the global one, however many slot fillers, queue starts *)
(* and resumes interleave between admission and launch (start_run's claim under*)
(* the admission lock).                                                        *)
THEOREM CapsRespected == AutomationOnly => (Spec => []RunsWithinCaps)
<1> SUFFICES ASSUME AutomationOnly
             PROVE  Spec => []RunsWithinCaps
  OBVIOUS
<1>1. Init => TypedState /\ CapsInv
  BY InitTyped, CapsInit, QueueAssumption
<1>2. TypedState /\ CapsInv /\ [Next]_vars => (TypedState /\ CapsInv)'
  BY TypedStep, CapsNext, QueueAssumption
<1>3. TypedState /\ CapsInv => RunsWithinCaps
  BY DEF CapsInv
<1> QED
  BY <1>1, <1>2, <1>3, PTL DEF Spec

-------------------------------------------------------------------------------
(* No stall.                                                                   *)

LEMMA NonEmpty ==
    ASSUME QueueAssumption, NEW R \in SUBSET Jobs, NEW q, Cardinality(R \cap InQueue(q)) > 0
    PROVE  \E k \in R : k \in InQueue(q)
<1>1. SUFFICES ASSUME R \cap InQueue(q) = {}
               PROVE  FALSE
  OBVIOUS
<1>2. Cardinality(R \cap InQueue(q)) = 0
  BY <1>1, FS_EmptySet
<1> QED
  BY <1>2

(* Where a queue's slots are full, one of its own downloads is running: when it*)
(* ends, its finisher comes.                                                   *)
LEMMA FullMeansGoingOn ==
    ASSUME QueueAssumption, CapsLeaveRoom, CapsInv, NEW q \in Queues,
           SlotsFull(q) \/ GlobalFull \/ ~(Cardinality(Running \cap InQueue(q)) < CapOf(q))
    PROVE  RunGoesOn(q)
<1> DEFINE n == Cardinality(Running \cap InQueue(q))
<1>1. Running \in SUBSET Jobs /\ RunsWithinCaps /\ RunningIsClaimed
  BY DEF Running, CapsInv
<1>2. n \in Nat /\ CapOf(q) \in Nat /\ CapOf(q) > 0 /\ Cardinality(Running) \in Nat /\ GlobalCap \in Nat
  BY <1>1, Counted, CapsAreNat
<1>3. n < CapOf(q) => Cardinality(Running) < GlobalCap
  BY <1>1 DEF CapsLeaveRoom, RunsWithinCaps
<1>4. ~(n < CapOf(q))
  <2>1. CASE GlobalFull
    BY <1>2, <1>3, <2>1 DEF GlobalFull
  <2>2. CASE QueueCap[q] # 0 /\ n >= QueueCap[q]
    <3>1. CapOf(q) = QueueCap[q]
      BY <2>2 DEF CapOf
    <3> HIDE DEF n
    <3> QED
      BY <1>2, <2>2, <3>1
  <2> QED
    BY <2>1, <2>2 DEF SlotsFull
<1>5. n > 0
  <2> HIDE DEF n
  <2> QED
    BY <1>2, <1>4
<1>6. \E k \in Running : k \in InQueue(q)
  BY <1>1, <1>5, NonEmpty
<1> QED
  BY <1>1, <1>6 DEF RunGoesOn, Running, RunningIsClaimed

(* Who is not moved still comes.                                               *)
LEMMA CareKept ==
    ASSUME NEW p \in Procs, Others(p), NEW j \in Jobs, CaredFor(j),
           \A k \in Jobs : at[k] # "none" => at'[k] # "none",
           ComesFor(p, j) \/ DecidesOn(p, QueueOf[j]) => CaredFor(j)'
    PROVE  CaredFor(j)'
<1>1. CASE RunGoesOn(QueueOf[j])
  BY <1>1 DEF RunGoesOn, CaredFor, InQueue
<1>2. ASSUME NEW o \in Procs, ComesFor(o, j) \/ DecidesOn(o, QueueOf[j])
      PROVE  CaredFor(j)'
  <2>1. CASE o = p
    BY <1>2, <2>1
  <2>2. CASE o # p
    <3>1. proc'[o] = proc[o]
      BY <2>2 DEF Others
    <3>2. (ComesFor(o, j) \/ DecidesOn(o, QueueOf[j]))'
      BY <1>2, <3>1, Zenon DEF ComesFor, DecidesOn, Loop
    <3> QED
      BY <3>2 DEF CaredFor
  <2> QED
    BY <2>1, <2>2
<1> QED
  BY <1>1, <1>2 DEF CaredFor

LEMMA StaysKept ==
    ASSUME NEW p \in Procs, Others(p), \A o \in Procs : StartQueueStays(o), StartQueueStays(p)'
    PROVE  \A o \in Procs : StartQueueStays(o)'
<1>1. ASSUME NEW o \in Procs, o # p
      PROVE  StartQueueStays(o)'
  <2>1. proc'[o] = proc[o]
    BY <1>1 DEF Others
  <2> QED
    BY <2>1, Zenon DEF StartQueueStays, At, Loop, InQueue
<1> QED
  BY <1>1

(* What stays a download's own when nobody is given a new phase.               *)
LEMMA OutcomeKept ==
    ASSUME EndedHasOutcome, UNCHANGED <<phase, at>>
    PROVE  EndedHasOutcome'
  BY DEF EndedHasOutcome

LEMMA StallStart ==
    ASSUME TypedState, QueueAssumption, CapsLeaveRoom, AutomationOnly, ~MayRefuse, CapsInv, StallInv,
           NEW p \in Procs, Mark(p) \/ Admit(p) \/ Refuse(p) \/ Launch(p)
    PROVE  StallInv'
<1> DEFINE i == proc[p].job
<1>1. /\ TypeOK /\ told = {} /\ manual = {} /\ EndedHasOutcome /\ QueuedIsCaredFor
      /\ \A o \in Procs : StartQueueStays(o)
  BY DEF TypedState, CapsInv, PauseFree, StallInv
<1>2. /\ proc[p].pc \in StartPCs /\ i \in Jobs /\ QueueOf[i] \in Queues /\ Loop(p) = proc[p].back
      /\ proc[p].back \in {"idle", "start_next", "resume_next", "fill", "serve"}
  BY DEF TypedState, Shape, Mark, Admit, Refuse, Launch, At, StartPCs, Loop, QueueAssumption
<1>3. ASSUME NEW l \in StartPCs, Goto(p, l)
      PROVE  /\ Others(p) /\ \A o \in Procs : StartQueueStays(o)'
             /\ \A j \in Jobs : ComesFor(p, j) \/ DecidesOn(p, QueueOf[j]) => CaredFor(j)'
  <2>1. l \in PCs
    BY DEF StartPCs, PCs
  <2>2. /\ Others(p) /\ SameCall(p) /\ proc'[p].pc = l /\ proc'[p].job = i
        /\ proc'[p].back = proc[p].back /\ proc'[p].todo = proc[p].todo
        /\ proc'[p].tried = proc[p].tried /\ proc'[p].some = proc[p].some
    BY <1>1, <1>3, <2>1, GotoEffect
  <2>3. Loop(p)' = proc[p].back /\ l \notin {"snapshot", "declare"}
    BY <1>3, <2>2 DEF Loop, StartPCs
  <2>4. StartQueueStays(p)'
    BY <1>1, <1>2, <2>2, <2>3 DEF StartQueueStays, At, SameCall, InQueue
  <2>5. ASSUME NEW j \in Jobs, ComesFor(p, j) \/ DecidesOn(p, QueueOf[j])
        PROVE  CaredFor(j)'
    BY <1>2, <1>3, <2>2, <2>3, <2>5 DEF ComesFor, DecidesOn, CaredFor, SameCall
  <2> QED
    BY <1>1, <2>2, <2>4, <2>5, StaysKept
(* An answer leaves the loops where they were, and what was answered for runs. *)
<1>4. ASSUME NEW ok \in {"ok", "deferred"}, Answer(p, ok)
      PROVE  /\ Others(p) /\ \A o \in Procs : StartQueueStays(o)'
             /\ \A j \in Jobs : ComesFor(p, j) => ComesFor(p, j)' \/ j = i
             /\ \A j \in Jobs : DecidesOn(p, QueueOf[j]) => QueueOf[j] = QueueOf[i]
  <2>1. Others(p)
    BY <1>1, <1>4, AnswerEffect
  <2>2. \A j \in Jobs : DecidesOn(p, QueueOf[j]) => QueueOf[j] = QueueOf[i]
    BY <1>1, <1>2 DEF DecidesOn, StartQueueStays
  <2>3. CASE proc[p].back = "idle"
    <3>1. proc'[p] = Resting
      BY <1>1, <1>4, <2>3, AnswerEffect
    <3>2. StartQueueStays(p)'
      BY <3>1 DEF StartQueueStays, At, Loop, StartPCs, Resting
    <3> QED
      BY <1>1, <1>2, <2>1, <2>2, <2>3, <3>2, StaysKept DEF ComesFor
  <2>4. CASE proc[p].back # "idle"
    <3>1. /\ SameCall(p) /\ proc'[p].pc = proc[p].back
          /\ proc'[p].todo = proc[p].todo /\ proc'[p].tried = proc[p].tried
      BY <1>1, <1>4, <2>4, AnswerEffect
    <3>2. Loop(p)' = proc[p].back /\ proc'[p].pc \notin StartPCs
      BY <1>2, <3>1 DEF Loop, StartPCs
    <3>3. StartQueueStays(p)'
      BY <1>1, <1>2, <3>1, <3>2 DEF StartQueueStays, At, SameCall, InQueue
    <3>4. \A j \in Jobs : ComesFor(p, j) => ComesFor(p, j)' \/ j = i
      BY <1>2, <3>1, <3>2 DEF ComesFor, SameCall
    <3> QED
      BY <1>1, <2>1, <2>2, <3>3, <3>4, StaysKept
  <2> QED
    BY <2>3, <2>4
<1>5. CASE Mark(p)
  <2>1. Goto(p, "admit") /\ "admit" \in StartPCs /\ UNCHANGED <<phase, at, mode>>
    BY <1>5 DEF Mark, StartPCs, queueVars
  <2>2. ASSUME NEW j \in Jobs, phase'[j] = "Queued", FeedsItself(QueueOf[j])'
        PROVE  CaredFor(j)'
    <3>1. CaredFor(j)
      BY <1>1, <2>1, <2>2 DEF QueuedIsCaredFor, FeedsItself
    <3> QED
      BY <1>3, <2>1, <3>1, CareKept
  <2> QED
    BY <1>1, <1>3, <2>1, <2>2, OutcomeKept DEF StallInv, QueuedIsCaredFor
<1>6. CASE Admit(p)
  <2>1. mode' = mode
    BY <1>6 DEF Admit, queueVars
  <2>2. CASE at[i] # "none" /\ UNCHANGED <<phase, at>> /\ Answer(p, "ok")
    <3>1. ASSUME NEW j \in Jobs, phase'[j] = "Queued", FeedsItself(QueueOf[j])'
          PROVE  CaredFor(j)'
      <4>1. CaredFor(j)
        BY <1>1, <2>1, <2>2, <3>1 DEF QueuedIsCaredFor, FeedsItself
      <4>2. QueueOf[j] = QueueOf[i] => CaredFor(j)'
        BY <1>2, <2>2 DEF CaredFor, RunGoesOn, InQueue
      <4>3. ComesFor(p, j) \/ DecidesOn(p, QueueOf[j]) => CaredFor(j)'
        BY <1>4, <2>2, <4>2 DEF CaredFor
      <4> QED
        BY <1>4, <2>2, <4>1, <4>3, CareKept
    <3> QED
      BY <1>1, <1>4, <2>2, <3>1, OutcomeKept DEF StallInv, QueuedIsCaredFor
  <2>3. CASE /\ at[i] = "none" /\ SlotsFull(QueueOf[i]) /\ at' = at
             /\ phase' = [phase EXCEPT ![i] = "Queued"] /\ Answer(p, "deferred")
    <3>1. ASSUME NEW j \in Jobs, phase'[j] = "Queued", FeedsItself(QueueOf[j])'
          PROVE  CaredFor(j)'
      <4>1. CASE QueueOf[j] = QueueOf[i]
        <5>1. RunGoesOn(QueueOf[i])
          BY <1>2, <2>3, FullMeansGoingOn
        <5> QED
          BY <2>3, <4>1, <5>1 DEF CaredFor, RunGoesOn, InQueue
      <4>2. CASE QueueOf[j] # QueueOf[i]
        <5>1. CaredFor(j)
          BY <1>1, <2>1, <2>3, <3>1, <4>2 DEF QueuedIsCaredFor, FeedsItself, TypeOK
        <5>2. ComesFor(p, j) \/ DecidesOn(p, QueueOf[j]) => CaredFor(j)'
          BY <1>4, <2>3, <4>2 DEF CaredFor
        <5> QED
          BY <1>4, <2>3, <5>1, <5>2, CareKept
      <4> QED
        BY <4>1, <4>2
    <3>2. EndedHasOutcome'
      BY <1>1, <2>3 DEF EndedHasOutcome, TypeOK
    <3> QED
      BY <1>4, <2>3, <3>1, <3>2 DEF StallInv, QueuedIsCaredFor
  <2>4. CASE /\ at[i] = "none" /\ at' = [at EXCEPT ![i] = "claimed"]
             /\ phase' = [phase EXCEPT ![i] = "Downloading"] /\ Goto(p, "launch")
    <3>1. "launch" \in StartPCs /\ \A k \in Jobs : at[k] # "none" => at'[k] # "none"
      BY <1>1, <2>4 DEF StartPCs, TypeOK
    <3>2. ASSUME NEW j \in Jobs, phase'[j] = "Queued", FeedsItself(QueueOf[j])'
          PROVE  CaredFor(j)'
      <4>1. CaredFor(j)
        BY <1>1, <2>1, <2>4, <3>2 DEF QueuedIsCaredFor, FeedsItself, TypeOK
      <4> QED
        BY <1>3, <2>4, <3>1, <4>1, CareKept
    <3>3. EndedHasOutcome'
      BY <1>1, <2>4 DEF EndedHasOutcome, TypeOK
    <3> QED
      BY <1>3, <2>4, <3>1, <3>2, <3>3 DEF StallInv, QueuedIsCaredFor
  <2> QED
    BY <1>1, <1>6, <2>2, <2>3, <2>4 DEF Admit, ClaimPhase
<1>7. CASE Launch(p)
  <2>1. /\ at' = [at EXCEPT ![i] = "live"] /\ phase' = phase /\ Answer(p, "ok")
        /\ mode' = [mode EXCEPT ![QueueOf[i]] = IF @ = "none" THEN "counting" ELSE @]
    BY <1>7 DEF Launch
  <2>2. \A k \in Jobs : at[k] # "none" => at'[k] # "none"
    BY <1>1, <2>1 DEF TypeOK
  <2>3. ASSUME NEW j \in Jobs, phase'[j] = "Queued", FeedsItself(QueueOf[j])'
        PROVE  CaredFor(j)'
    <3>1. CaredFor(j)
      BY <1>1, <2>1, <2>3 DEF QueuedIsCaredFor, FeedsItself, TypeOK, QueueAssumption
    <3>2. QueueOf[j] = QueueOf[i] => CaredFor(j)'
      BY <1>1, <1>2, <2>1 DEF CaredFor, RunGoesOn, InQueue, TypeOK
    <3>3. ComesFor(p, j) \/ DecidesOn(p, QueueOf[j]) => CaredFor(j)'
      BY <1>4, <2>1, <3>2 DEF CaredFor
    <3> QED
      BY <1>4, <2>1, <2>2, <3>1, <3>3, CareKept
  <2>4. EndedHasOutcome'
    BY <1>1, <2>1 DEF EndedHasOutcome, TypeOK
  <2> QED
    BY <1>4, <2>1, <2>3, <2>4 DEF StallInv, QueuedIsCaredFor
<1> QED
  BY <1>5, <1>6, <1>7 DEF Refuse

(* A step of a process that is in no loop the care depends on.                 *)
LEMMA StallAside ==
    ASSUME TypedState, StallInv, NEW p \in Procs, Others(p), StartQueueStays(p)',
           Loop(p) \notin {"feeds", "fill", "start_next"}, UNCHANGED <<phase, at>>,
           \A q \in Queues : mode'[q] = "running" => mode[q] = "running",
           QueueAssumption
    PROVE  StallInv'
<1>1. EndedHasOutcome /\ QueuedIsCaredFor /\ \A o \in Procs : StartQueueStays(o)
  BY DEF StallInv
<1>2. ASSUME NEW j \in Jobs, phase'[j] = "Queued", FeedsItself(QueueOf[j])'
      PROVE  CaredFor(j)'
  <2>1. CaredFor(j)
    BY <1>1, <1>2 DEF QueuedIsCaredFor, FeedsItself, QueueAssumption
  <2> QED
    BY <2>1, CareKept DEF ComesFor, DecidesOn
<1> QED
  BY <1>1, <1>2, StaysKept, OutcomeKept DEF StallInv, QueuedIsCaredFor

LEMMA StallCalls ==
    ASSUME TypedState, QueueAssumption, AutomationOnly, CapsInv, StallInv, NEW p \in Users, UserCalls(p)
    PROVE  StallInv'
<1>1. p \in Procs /\ \A q \in Queues : mode[q] # "suspended"
  BY DEF Procs, CapsInv, PauseFree
<1>2. At(p, "idle") /\ Loop(p) = "idle"
  BY DEF UserCalls, StartQueue, StopQueue, PauseAll, StopAll, ResumeAll, Play, Pause, AddJob, Begin,
         At, Loop, StartPCs
<1>3. \/ \E q \in Queues : StartQueue(p, q)
      \/ \E j \in Jobs : AddJob(p, j)
      \/ ResumeAll(p)
  BY AutomationKnown DEF UserCalls, StopQueue, Play, Pause, PauseAll, StopAll, Begin
<1>4. CASE ResumeAll(p) \/ \E q \in Queues : StartQueue(p, q)
  <2>1. PICK o \in Ops, l \in {"snapshot", "resume_list"}, q \in Queues \cup {Nil} :
            Begin(p, o, l, q, {})
    BY <1>4 DEF StartQueue, ResumeAll, Begin
  <2>2. l \in PCs
    BY DEF PCs
  <2>3. Others(p) /\ proc'[p].pc = l /\ proc'[p].some = "no"
    BY <1>1, <2>1, <2>2, BeginEffect
  <2>4. StartQueueStays(p)'
    BY <2>3 DEF StartQueueStays, At, Loop, StartPCs
  <2>5. UNCHANGED <<phase, at>> /\ \A q1 \in Queues : mode'[q1] = "running" => mode[q1] = "running"
    BY <1>1, <1>4 DEF StartQueue, ResumeAll, Begin
  <2> QED
    BY <1>1, <1>2, <2>3, <2>4, <2>5, StallAside
<1>5. ASSUME NEW i \in Jobs, AddJob(p, i)
      PROVE  StallInv'
  <2>1. /\ UNCHANGED <<at, mode>> /\ phase[i] = "unlisted" /\ phase' = [phase EXCEPT ![i] = "Queued"]
        /\ "add" \in Ops /\ QueueOf[i] \in Queues
    BY <1>5 DEF AddJob, queueVars, QueueAssumption
  <2>2. EndedHasOutcome' /\ QueuedIsCaredFor /\ \A o \in Procs : StartQueueStays(o)
    BY <2>1 DEF StallInv, EndedHasOutcome, TypedState, TypeOK
  <2>3. CASE mode[QueueOf[i]] \in {"running", "suspended"}
    <3>1. /\ Others(p) /\ proc'[p].pc = "feeds" /\ proc'[p].queue = QueueOf[i]
          /\ proc'[p].tried = {}
      BY <1>1, <1>2, <1>5, <2>1, <2>3, AddEffect DEF AddJob
    <3>2. StartQueueStays(p)'
      BY <3>1 DEF StartQueueStays, At, Loop, StartPCs
    <3>3. ASSUME NEW j \in Jobs, phase'[j] = "Queued", FeedsItself(QueueOf[j])'
          PROVE  CaredFor(j)'
      <4>1. CASE j = i
        <5>1. ComesFor(p, i)'
          BY <3>1 DEF ComesFor, Loop, StartPCs
        <5> QED
          BY <1>1, <4>1, <5>1 DEF CaredFor
      <4>2. CASE j # i
        <5>1. CaredFor(j)
          BY <2>1, <2>2, <3>3, <4>2 DEF QueuedIsCaredFor, FeedsItself, TypedState, TypeOK
        <5> QED
          BY <1>1, <1>2, <2>1, <3>1, <5>1, CareKept DEF ComesFor, DecidesOn
      <4> QED
        BY <4>1, <4>2
    <3> QED
      BY <1>1, <2>2, <3>1, <3>2, <3>3, StaysKept DEF StallInv, QueuedIsCaredFor
  <2>4. CASE mode[QueueOf[i]] \notin {"running", "suspended"}
    <3>1. proc' = proc
      BY <1>5, <2>4 DEF AddJob
    <3>2. ASSUME NEW j \in Jobs, phase'[j] = "Queued", FeedsItself(QueueOf[j])'
          PROVE  CaredFor(j)'
      <4>1. j # i /\ CaredFor(j)
        BY <2>1, <2>2, <2>4, <3>2 DEF QueuedIsCaredFor, FeedsItself, TypedState, TypeOK
      <4> QED
        BY <1>1, <1>2, <2>1, <3>1, <4>1, CareKept DEF ComesFor, DecidesOn, Others
    <3>3. \A o \in Procs : StartQueueStays(o)'
      BY <2>2, <3>1, Zenon DEF StartQueueStays, At, Loop, InQueue
    <3> QED
      BY <2>2, <3>2, <3>3 DEF StallInv, QueuedIsCaredFor
  <2> QED
    BY <2>3, <2>4
<1> QED
  BY <1>3, <1>4, <1>5

LEMMA StallRuns ==
    ASSUME TypedState, QueueAssumption, CapsInv, StallInv, NEW i \in Jobs,
           RunEnds(i) \/ \E ph \in RunningPhases : Report(i, ph)
    PROVE  StallInv'
<1>1. /\ TypeOK /\ i \in Procs /\ told = {} /\ EndedHasOutcome /\ QueuedIsCaredFor
      /\ \A o \in Procs : StartQueueStays(o)
  BY DEF TypedState, Procs, CapsInv, PauseFree, StallInv
<1>2. mode' = mode
  BY DEF RunEnds, Release, End, Report, queueVars
(* A report, or an end, of a run whose flag stays on.                          *)
<1>3. ASSUME NEW ph \in {"Downloading", "Assembling", "Completed", "Failed"},
             phase' = [phase EXCEPT ![i] = ph], proc' = proc, EndedHasOutcome',
             \A k \in Jobs : at[k] # "none" => at'[k] # "none"
      PROVE  StallInv'
  <2>1. ASSUME NEW j \in Jobs, phase'[j] = "Queued", FeedsItself(QueueOf[j])'
        PROVE  CaredFor(j)'
    <3>1. CaredFor(j)
      BY <1>1, <1>2, <1>3, <2>1 DEF QueuedIsCaredFor, FeedsItself, TypeOK
    <3>2. Others(i) /\ (ComesFor(i, j) \/ DecidesOn(i, QueueOf[j]) => CaredFor(j)')
      BY <1>1, <1>3 DEF Others, ComesFor, DecidesOn, CaredFor, Loop
    <3> QED
      BY <1>1, <1>3, <3>1, <3>2, CareKept
  <2>2. \A o \in Procs : StartQueueStays(o)'
    BY <1>1, <1>3, Zenon DEF StartQueueStays, At, Loop, InQueue
  <2> QED
    BY <1>3, <2>1, <2>2 DEF StallInv, QueuedIsCaredFor
<1>4. CASE Release(i)
  <2>1. /\ at[i] = "ended" /\ At(i, "idle") /\ Loop(i) = "idle" /\ phase[i] \in {"Completed", "Failed"}
        /\ at' = [at EXCEPT ![i] = "none"] /\ phase' = phase
    BY <1>1, <1>4 DEF Release, EndedHasOutcome, At, Loop, StartPCs
  <2>2. /\ Others(i) /\ proc'[i].pc = "feeds" /\ proc'[i].queue = QueueOf[i]
        /\ proc'[i].tried = {i}
    BY <1>1, <1>4, <2>1, ReleaseEffect DEF Release
  <2>3. StartQueueStays(i)'
    BY <2>2 DEF StartQueueStays, At, Loop, StartPCs
  <2>4. EndedHasOutcome'
    BY <1>1, <2>1 DEF EndedHasOutcome, TypeOK
  <2>5. ASSUME NEW j \in Jobs, phase'[j] = "Queued", FeedsItself(QueueOf[j])'
        PROVE  CaredFor(j)'
    <3>1. j # i /\ CaredFor(j)
      BY <1>1, <1>2, <2>1, <2>5 DEF QueuedIsCaredFor, FeedsItself
    <3>2. CASE QueueOf[j] = QueueOf[i]
      <4>1. ComesFor(i, j)'
        BY <2>2, <3>1, <3>2 DEF ComesFor, Loop, StartPCs
      <4> QED
        BY <1>1, <4>1 DEF CaredFor
    <3>3. CASE QueueOf[j] # QueueOf[i]
      <4>1. CASE RunGoesOn(QueueOf[j])
        <5>1. PICK k \in InQueue(QueueOf[j]) : at[k] # "none"
          BY <4>1 DEF RunGoesOn
        <5>2. k \in Jobs /\ k # i /\ at'[k] # "none"
          BY <1>1, <2>1, <3>3, <5>1 DEF InQueue, TypeOK
        <5> QED
          BY <5>1, <5>2 DEF CaredFor, RunGoesOn, InQueue
      <4>2. ASSUME NEW o \in Procs, ComesFor(o, j) \/ DecidesOn(o, QueueOf[j])
            PROVE  CaredFor(j)'
        <5>1. o # i
          BY <2>1, <4>2 DEF ComesFor, DecidesOn
        <5>2. proc'[o] = proc[o]
          BY <2>2, <5>1 DEF Others
        <5>3. (ComesFor(o, j) \/ DecidesOn(o, QueueOf[j]))'
          BY <4>2, <5>2, Zenon DEF ComesFor, DecidesOn, Loop
        <5> QED
          BY <5>3 DEF CaredFor
      <4> QED
        BY <3>1, <4>1, <4>2 DEF CaredFor
    <3> QED
      BY <3>2, <3>3
  <2> QED
    BY <1>1, <2>2, <2>3, <2>4, <2>5, StaysKept DEF StallInv, QueuedIsCaredFor
<1>5. ASSUME NEW ph \in {"Completed", "Failed", "Paused"}, End(i, ph)
      PROVE  StallInv'
  <2>1. /\ ph \in {"Completed", "Failed"} /\ at' = [at EXCEPT ![i] = "ended"]
        /\ phase' = [phase EXCEPT ![i] = ph] /\ proc' = proc
    BY <1>1, <1>5 DEF End
  <2>2. EndedHasOutcome' /\ \A k \in Jobs : at[k] # "none" => at'[k] # "none"
    BY <1>1, <2>1 DEF EndedHasOutcome, TypeOK
  <2> QED
    BY <1>3, <2>1, <2>2
<1>6. ASSUME NEW ph \in RunningPhases, Report(i, ph)
      PROVE  StallInv'
  <2>1. ph \in {"Downloading", "Assembling"} /\ at' = at /\ proc' = proc /\ at[i] = "live"
        /\ phase' = [phase EXCEPT ![i] = ph]
    BY <1>6 DEF Report, RunningPhases
  <2>2. EndedHasOutcome'
    BY <1>1, <2>1 DEF EndedHasOutcome, TypeOK
  <2> QED
    BY <1>3, <2>1, <2>2
<1> QED
  BY <1>4, <1>5, <1>6 DEF RunEnds

(* The lists and fillers whose care is nobody's: they pass a download on.      *)
LEMMA StallPassing ==
    ASSUME TypedState, QueueAssumption, CapsInv, StallInv, NEW p \in Procs,
           \/ Snapshot(p) \/ ResumeList(p) \/ ResumeNext(p)
           \/ ServeNext(p) \/ CheckBusy(p) \/ CloseRun(p)
    PROVE  StallInv'
<1>1. TypeOK /\ StartQueueStays(p) /\ proc[p] \in ProcType
  BY TypedSplit DEF TypedState, StallInv
<1>2. Loop(p) \notin {"feeds", "fill", "start_next"}
  BY DEF Snapshot, ResumeList, ResumeNext, ServeNext, CheckBusy, CloseRun, At, Loop, StartPCs
<1>3. UNCHANGED <<phase, at>> /\ \A q \in Queues : mode'[q] = "running" => mode[q] = "running"
  BY <1>1 DEF Snapshot, ResumeList, ResumeNext, ServeNext, CheckBusy, CloseRun, jobVars, queueVars,
              TypeOK
<1>4. ASSUME Others(p), proc'[p].pc \in {"idle", "resume_next", "busy", "close", "serve"}
      PROVE  StallInv'
  <2>1. StartQueueStays(p)'
    BY <1>4 DEF StartQueueStays, At, Loop, StartPCs
  <2> QED
    BY <1>2, <1>3, <1>4, <2>1, StallAside
<1>5. ASSUME NEW j \in Jobs, NEW b \in {"resume_next", "serve"}, StartRun(p, j, b)
      PROVE  StallInv'
  <2>1. b \in PCs
    BY DEF PCs
  <2>2. Others(p) /\ proc'[p].pc = "mark" /\ proc'[p].back = b
    BY <1>1, <1>5, <2>1, StartRunEffect
  <2>3. StartQueueStays(p)'
    BY <2>2 DEF StartQueueStays, At, Loop, StartPCs
  <2> QED
    BY <1>2, <1>3, <2>2, <2>3, StallAside
<1>6. CASE Snapshot(p)
  <2>1. /\ Others(p)
        /\ \/ proc'[p] = Resting
           \/ /\ SameCall(p) /\ proc'[p].pc = "declare" /\ proc'[p].some = proc[p].some
              /\ proc'[p].todo = {j \in InQueue(proc[p].queue) : phase[j] \in Startable}
    BY <1>6, SnapshotEffect
  <2>2. proc[p].some = "no"
    BY <1>1, <1>6 DEF StartQueueStays, Snapshot, At
  <2>3. StartQueueStays(p)'
    <3>1. CASE proc'[p] = Resting
      BY <3>1 DEF StartQueueStays, At, Loop, StartPCs, Resting
    <3>2. CASE /\ SameCall(p) /\ proc'[p].pc = "declare" /\ proc'[p].some = proc[p].some
               /\ proc'[p].todo = {j \in InQueue(proc[p].queue) : phase[j] \in Startable}
      <4>1. proc'[p].todo \subseteq InQueue(proc'[p].queue)
        BY <3>2 DEF SameCall
      <4> QED
        BY <2>2, <3>2, <4>1 DEF StartQueueStays, At, Loop, StartPCs, InQueue
    <3> QED
      BY <2>1, <3>1, <3>2
  <2> QED
    BY <1>2, <1>3, <2>1, <2>3, StallAside
<1>7. CASE ResumeList(p)
  <2>1. "resume_next" \in PCs /\ {j \in Jobs : phase[j] \in Startable} \in SUBSET Jobs
    BY DEF PCs
  <2> QED
    BY <1>1, <1>4, <1>7, <2>1, ToWithTodo DEF ResumeList
<1>8. ASSUME Return(p)
      PROVE  StallInv'
  BY <1>1, <1>4, <1>8, ReturnEffect DEF Resting
<1>9. CASE ResumeNext(p)
  <2>1. proc[p].todo \subseteq Jobs
    BY <1>1 DEF ProcType
  <2> QED
    BY <1>5, <1>8, <1>9, <2>1 DEF ResumeNext
<1>10. ASSUME NEW l \in {"busy", "close"}, Goto(p, l)
       PROVE  StallInv'
  <2>1. l \in PCs
    BY DEF PCs
  <2> QED
    BY <1>1, <1>4, <1>10, <2>1, GotoEffect
<1>11. CASE ServeNext(p)
  <2>1. ASSUME NEW j \in Waiting, proc' = [proc EXCEPT ![p].tried = @ \cup {j}]
        PROVE  StallInv'
    <3>1. proc[p].pc = "serve"
      BY <1>11 DEF ServeNext, At
    <3>2. Others(p) /\ proc'[p].pc = "serve"
      BY <1>1, <2>1, <3>1 DEF TypeOK, ProcType, Others
    <3> QED
      BY <1>4, <3>2
  <2>2. ASSUME NEW j \in Waiting, StartRun(p, j, "serve")
        PROVE  StallInv'
    <3>1. j \in Jobs
      BY <1>1 DEF Waiting, TypeOK
    <3> QED
      BY <1>5, <2>2, <3>1
  <2> QED
    BY <1>10, <1>11, <2>1, <2>2 DEF ServeNext
<1> QED
  BY <1>6, <1>7, <1>8, <1>9, <1>10, <1>11 DEF CheckBusy, CloseRun

(* start_queue answers for what it declared, or takes the run back.            *)
LEMMA StallDeclared ==
    ASSUME TypedState, QueueAssumption, CapsInv, StallInv, NEW p \in Procs, Declare(p) \/ StartNext(p)
    PROVE  StallInv'
<1>1. /\ TypeOK /\ EndedHasOutcome /\ QueuedIsCaredFor /\ \A o \in Procs : StartQueueStays(o)
      /\ StartQueueStays(p) /\ \A q \in Queues : mode[q] # "suspended"
  BY DEF TypedState, StallInv, CapsInv, PauseFree
<1>2. UNCHANGED <<phase, at>>
  BY DEF Declare, StartNext, jobVars
<1>3. CASE Declare(p)
  <2> DEFINE q == proc[p].queue
             w == IF FeedsItself(q) \/ mode[q] = "suspended" THEN "yes" ELSE "no"
  <2>1. "start_next" \in PCs /\ w \in {"yes", "no"} /\ proc[p].pc = "declare"
        /\ proc' = [proc EXCEPT ![p].pc = "start_next", ![p].was = w]
    BY <1>3 DEF Declare, PCs, At
  <2> HIDE DEF w
  <2>2. /\ Others(p) /\ proc'[p].queue = q /\ proc'[p].was = w /\ proc'[p].pc = "start_next"
        /\ proc'[p].todo = proc[p].todo /\ proc'[p].some = proc[p].some
    BY <1>1, <2>1, ToWithWas
  <2>3. proc[p].some = "no" /\ proc[p].todo \subseteq InQueue(q)
    BY <1>1, <2>1 DEF StartQueueStays, At
  <2>4. StartQueueStays(p)'
    BY <2>2, <2>3 DEF StartQueueStays, At, Loop, StartPCs, InQueue
  <2>5. ASSUME NEW j \in Jobs, phase'[j] = "Queued", FeedsItself(QueueOf[j])'
        PROVE  CaredFor(j)'
    <3>1. CASE FeedsItself(QueueOf[j])
      <4>1. CaredFor(j) /\ Loop(p) = "declare"
        BY <1>1, <1>2, <2>1, <2>5, <3>1 DEF QueuedIsCaredFor, Loop, StartPCs
      <4> QED
        BY <1>2, <2>2, <4>1, CareKept DEF ComesFor, DecidesOn
    <3>2. CASE ~FeedsItself(QueueOf[j])
      <4>1. QueueOf[j] = q /\ q \in Queues
        BY <1>1, <1>3, <2>5, <3>2 DEF Declare, FeedsItself, TypeOK, QueueAssumption
      <4>2. w = "no"
        BY <1>1, <3>2, <4>1 DEF w
      <4>3. DecidesOn(p, QueueOf[j])'
        BY <2>2, <2>3, <4>1, <4>2 DEF DecidesOn, Loop, StartPCs
      <4> QED
        BY <4>3 DEF CaredFor
    <3> QED
      BY <3>1, <3>2
  <2> QED
    BY <1>1, <1>2, <2>2, <2>4, <2>5, StaysKept, OutcomeKept DEF StallInv, QueuedIsCaredFor
<1>4. CASE StartNext(p)
  <2>0. Loop(p) = "start_next" /\ proc[p].pc = "start_next"
    BY <1>4 DEF StartNext, At, Loop, StartPCs
  <2>1. ASSUME NEW i \in proc[p].todo, StartRun(p, i, "start_next"), mode' = mode
        PROVE  StallInv'
    <3>1. proc[p].todo \subseteq InQueue(proc[p].queue) /\ i \in Jobs /\ QueueOf[i] = proc[p].queue
      BY <1>1, <2>0, <2>1 DEF StartQueueStays, InQueue
    <3>2. "start_next" \in PCs
      BY DEF PCs
    <3>3. /\ Others(p) /\ SameCall(p) /\ proc'[p].pc = "mark" /\ proc'[p].job = i
          /\ proc'[p].back = "start_next" /\ proc'[p].todo = proc[p].todo \ {i}
          /\ proc'[p].some = proc[p].some
      BY <1>1, <2>1, <3>1, <3>2, StartRunEffect
    <3>4. StartQueueStays(p)'
      BY <3>1, <3>3 DEF StartQueueStays, At, Loop, StartPCs, SameCall, InQueue
    <3>5. ASSUME NEW j \in Jobs, phase'[j] = "Queued", FeedsItself(QueueOf[j])'
          PROVE  CaredFor(j)'
      <4>1. CaredFor(j)
        BY <1>1, <1>2, <2>1, <3>5 DEF QueuedIsCaredFor, FeedsItself
      <4>2. ~ComesFor(p, j) /\ (DecidesOn(p, QueueOf[j]) => DecidesOn(p, QueueOf[j])')
        BY <2>0, <3>3 DEF ComesFor, DecidesOn, Loop, StartPCs, SameCall
      <4> QED
        BY <1>2, <3>3, <4>1, <4>2, CareKept DEF CaredFor
    <3> QED
      BY <1>1, <1>2, <3>3, <3>4, <3>5, StaysKept, OutcomeKept DEF StallInv, QueuedIsCaredFor
  <2>2. ASSUME Return(p), mode' = IF proc[p].some = "no" /\ proc[p].was = "no"
                                  THEN [mode EXCEPT ![proc[p].queue] = "none"] ELSE mode
        PROVE  StallInv'
    <3>1. Others(p) /\ proc'[p] = Resting
      BY <1>1, <2>2, ReturnEffect
    <3>2. StartQueueStays(p)'
      BY <3>1 DEF StartQueueStays, At, Loop, StartPCs, Resting
    <3>3. ASSUME NEW j \in Jobs, phase'[j] = "Queued", FeedsItself(QueueOf[j])'
          PROVE  CaredFor(j)'
      <4>1. CaredFor(j)
        BY <1>1, <1>2, <2>2, <3>3 DEF QueuedIsCaredFor, FeedsItself, TypeOK, QueueAssumption
      <4>2. ~ComesFor(p, j) /\ ~DecidesOn(p, QueueOf[j])
        BY <1>1, <2>0, <2>2, <3>3 DEF ComesFor, DecidesOn, FeedsItself, TypeOK, QueueAssumption
      <4> QED
        BY <1>2, <3>1, <4>1, <4>2, CareKept
    <3> QED
      BY <1>1, <1>2, <3>1, <3>2, <3>3, StaysKept, OutcomeKept DEF StallInv, QueuedIsCaredFor
  <2> QED
    BY <1>4, <2>1, <2>2 DEF StartNext
<1> QED
  BY <1>3, <1>4

(* A filler starts what its queue has, and stops when the slots are full.      *)
LEMMA StallFillers ==
    ASSUME TypedState, QueueAssumption, CapsLeaveRoom, CapsInv, StallInv, NEW p \in Procs,
           Feeds(p) \/ FillNext(p)
    PROVE  StallInv'
<1>1. /\ TypeOK /\ Shape(p) /\ EndedHasOutcome /\ QueuedIsCaredFor
      /\ \A o \in Procs : StartQueueStays(o)
  BY DEF TypedState, StallInv
<1>2. UNCHANGED <<phase, at, mode>>
  BY DEF Feeds, FillNext, jobVars, queueVars
<1>3. ASSUME Others(p),
             \/ proc'[p].pc \in {"idle", "serve", "fill"}
             \/ proc'[p].pc = "mark" /\ proc'[p].back = "fill",
             \A j \in Jobs : ComesFor(p, j) /\ phase[j] = "Queued" /\ FeedsItself(QueueOf[j])
                             => CaredFor(j)'
      PROVE  StallInv'
  <2>1. StartQueueStays(p)'
    BY <1>3 DEF StartQueueStays, At, Loop, StartPCs
  <2>2. ASSUME NEW j \in Jobs, phase'[j] = "Queued", FeedsItself(QueueOf[j])'
        PROVE  CaredFor(j)'
    <3>1. CaredFor(j) /\ phase[j] = "Queued" /\ FeedsItself(QueueOf[j])
      BY <1>1, <1>2, <2>2 DEF QueuedIsCaredFor, FeedsItself
    <3>2. ~DecidesOn(p, QueueOf[j])
      BY DEF DecidesOn, Feeds, FillNext, At, Loop, StartPCs
    <3> QED
      BY <1>2, <1>3, <3>1, <3>2, CareKept
  <2> QED
    BY <1>1, <1>2, <1>3, <2>1, <2>2, StaysKept, OutcomeKept DEF StallInv, QueuedIsCaredFor
<1>4. ASSUME Return(p), \A j \in Jobs : ComesFor(p, j) /\ phase[j] = "Queued"
                                        /\ FeedsItself(QueueOf[j]) => CaredFor(j)'
      PROVE  StallInv'
  BY <1>1, <1>3, <1>4, ReturnEffect DEF Resting
<1>5. CASE Feeds(p)
  <2>0. Loop(p) = "feeds" /\ proc[p].pc = "feeds" /\ proc[p].queue \in Queues
    BY <1>1, <1>5 DEF Feeds, At, Loop, StartPCs, Shape
  <2>1. CASE FeedsItself(proc[p].queue)
    <3>1. "fill" \in PCs /\ failedNow[proc[p].queue] \in SUBSET Jobs
          /\ proc' = [proc EXCEPT ![p].pc = "fill", ![p].todo = failedNow[proc[p].queue]]
      BY <1>1, <1>5, <2>0, <2>1 DEF Feeds, PCs, TypeOK
    <3>2. Others(p) /\ SameCall(p) /\ proc'[p].pc = "fill" /\ proc'[p].tried = proc[p].tried
      BY <1>1, <3>1, ToWithTodo
    <3>3. \A j \in Jobs : ComesFor(p, j) => ComesFor(p, j)'
      BY <2>0, <3>2 DEF ComesFor, SameCall, Loop, StartPCs
    <3> QED
      BY <1>3, <3>2, <3>3 DEF CaredFor
  <2>2. CASE ~FeedsItself(proc[p].queue)
    <3>1. \A j \in Jobs : ~(ComesFor(p, j) /\ FeedsItself(QueueOf[j]))
      BY <2>2 DEF ComesFor
    <3>2. "serve" \in PCs
      BY DEF PCs
    <3>3. CASE proc' = [proc EXCEPT ![p].pc = "serve", ![p].tried = {}]
      BY <1>1, <1>3, <3>1, <3>2, <3>3, ToWithTried
    <3> QED
      BY <1>4, <1>5, <2>2, <3>1, <3>3 DEF Feeds
  <2> QED
    BY <2>1, <2>2
<1>6. CASE FillNext(p)
  <2>0. Loop(p) = "fill" /\ proc[p].pc = "fill"
    BY <1>6 DEF FillNext, At, Loop, StartPCs
  <2>1. ASSUME NEW i \in Fillable(p), FillStart(p, i)
        PROVE  StallInv'
    <3>1. i \in Jobs
      BY DEF Fillable, InQueue
    <3>2. /\ Others(p) /\ proc'[p].queue = proc[p].queue /\ proc'[p].pc = "mark" /\ proc'[p].job = i
          /\ proc'[p].back = "fill" /\ proc'[p].tried = proc[p].tried \cup {i}
      BY <2>1, <3>1, FillStartEffect
    <3>3. \A j \in Jobs : ComesFor(p, j) => ComesFor(p, j)'
      BY <2>0, <3>2 DEF ComesFor, Loop, StartPCs
    <3> QED
      BY <1>3, <3>2, <3>3 DEF CaredFor
(* It stops for want of a slot, so the queue goes on.                          *)
  <2>2. ASSUME ~FillMayStart(p), NEW j \in Jobs, ComesFor(p, j), phase[j] = "Queued",
               FeedsItself(QueueOf[j])
        PROVE  CaredFor(j)'
    <3>1. QueueOf[j] = proc[p].queue /\ j \notin proc[p].tried /\ QueueOf[j] \in Queues
      BY <2>0, <2>2 DEF ComesFor, StartPCs, QueueAssumption
    <3>2. j \in Fillable(p)
      BY <2>2, <3>1 DEF Fillable, InQueue
    <3>3. GlobalFull \/ ~(Cardinality(Running \cap InQueue(QueueOf[j])) < CapOf(QueueOf[j]))
      BY <2>2, <3>1, <3>2 DEF FillMayStart
    <3>4. RunGoesOn(QueueOf[j])
      BY <3>1, <3>3, FullMeansGoingOn
    <3> QED
      BY <1>2, <3>4 DEF CaredFor, RunGoesOn, InQueue
  <2>3. ASSUME ~FillMayStart(p), proc' = [proc EXCEPT ![p].pc = "serve", ![p].tried = {}, ![p].todo = {}]
        PROVE  StallInv'
    <3>1. Others(p) /\ proc'[p].pc = "serve"
      BY <2>3, FillStopEffect
    <3> QED
      BY <1>3, <2>2, <2>3, <3>1
  <2>4. ASSUME ~FillMayStart(p), Return(p)
        PROVE  StallInv'
    BY <1>4, <2>2, <2>4
  <2> QED
    BY <1>6, <2>1, <2>3, <2>4 DEF FillNext, FillStart
<1> QED
  BY <1>5, <1>6

LEMMA StallNext ==
    ASSUME TypedState, QueueAssumption, AutomationOnly, CapsLeaveRoom, ~MayRefuse, CapsInv, StallInv,
           [Next]_vars
    PROVE  StallInv'
<1>1. CASE UNCHANGED vars
  <2>1. UNCHANGED <<phase, at, mode, proc>>
    BY <1>1 DEF vars, jobVars, queueVars
  <2> QED
    BY <2>1 DEF StallInv, EndedHasOutcome, StartQueueStays, QueuedIsCaredFor, FeedsItself, CaredFor,
                ComesFor, DecidesOn, RunGoesOn, Loop, At, InQueue
<1>2. ASSUME NEW p \in Procs, Step(p)
      PROVE  StallInv'
  <2>1. proc[p].pc \notin {"switch_off", "clear", "sweep", "stop_check", "drop"}
    BY DEF CapsInv, PauseFree
  <2> QED
    BY <1>2, <2>1, StallStart, StallPassing, StallDeclared, StallFillers
       DEF Step, SwitchOff, ClearDeferrals, Sweep, PauseOne, StopCheck, DropTally, At
<1> QED
  BY <1>1, <1>2, StallCalls, StallRuns DEF Next

LEMMA StallInit ==
    ASSUME QueueAssumption, Init
    PROVE  StallInv
<1>1. EndedHasOutcome
  BY DEF Init, EndedHasOutcome
<1>2. \A p \in Procs : StartQueueStays(p)
  BY DEF Init, StartQueueStays, At, Loop, StartPCs, Resting
<1>3. QueuedIsCaredFor
  BY DEF Init, QueuedIsCaredFor, FeedsItself, QueueAssumption
<1> QED
  BY <1>1, <1>2, <1>3 DEF StallInv

(* Where a queue below its own cap is below the global one too, and no start is*)
(* refused, a queue run started by automation never stalls with a download left*)
(* to start: the finishers of its own downloads feed it (state.rs 4534-4538).  *)
THEOREM RunsNeverStall == (AutomationOnly /\ CapsLeaveRoom /\ ~MayRefuse) => (Spec => []NoStall)
<1> SUFFICES ASSUME AutomationOnly, CapsLeaveRoom, ~MayRefuse
             PROVE  Spec => []NoStall
  OBVIOUS
<1>1. Init => TypedState /\ CapsInv /\ StallInv
  BY InitTyped, CapsInit, StallInit, QueueAssumption
<1>2. TypedState /\ CapsInv /\ StallInv /\ [Next]_vars => (TypedState /\ CapsInv /\ StallInv)'
  BY TypedStep, CapsNext, StallNext, QueueAssumption
<1>3. StallInv => NoStall
  BY DEF StallInv, NoStall, Quiet, QueuedIsCaredFor, CaredFor, ComesFor, DecidesOn, RunGoesOn, Loop,
         StartPCs, At, InQueue, FeedsItself
<1> QED
  BY <1>1, <1>2, <1>3, PTL DEF Spec
===============================================================================
