--------------------------- MODULE UpdateFlow_proofs ---------------------------
(* What holds of an update for any number of update downloads and programs.      *)
EXTENDS UpdateFlow, SequenceTheorems, TLAPS

(* A helper that has left its wait heard "go".                                   *)
LeavingHeardGo == \A u \in Updates : helper[u] \in Swapping \cup {"leaving"} => stdin[u] = "go"

CancelHas(u) == cancel.pc \in {"pause", "remove"} /\ cancel.update = u

(* add_update_job goes through its steps once; before it has remembered the      *)
(* download nobody else knows of it.                                             *)
AddsInOrder ==
    \A u \in Updates :
        /\ job[u] = "none" <=> adding[u] = "none"
        /\ adding[u] = "remember" => job[u] = "added"
        /\ adding[u] \in {"none", "remember"} => pending # u /\ ~CancelHas(u)
        /\ job[u] \in Going => adding[u] = "done"

(* What a cancel took is not the update in flight any more.                      *)
CancelTookIt ==
    cancel.pc \in {"pause", "remove"} => cancel.update \in Updates /\ pending # cancel.update

InBus(u) == \E i \in 1 .. Len(bus) : bus[i].update = u

Watched(u) == watcher.pc # "idle" /\ watcher.update = u

(* An outcome is on its way to the watcher, with the watcher, or has become a    *)
(* helper, and in one of these places only: a download ends once.                *)
OutcomeOnce ==
    /\ \A i, k \in 1 .. Len(bus) : bus[i].update = bus[k].update => i = k
    /\ watcher.pc # "idle" => watcher.update \in Updates
    /\ \A u \in Updates :
          /\ InBus(u) => ~Watched(u) /\ helper[u] = "none"
          /\ Watched(u) /\ watcher.pc # "fail" => helper[u] = "none"
          /\ daemon # "gone" /\ (InBus(u) \/ Watched(u) \/ helper[u] # "none")
                => adding[u] = "done" /\ job[u] \notin Going

(* While the daemon is up the helper it holds has an open pipe and waits on it,  *)
(* unless it ended by itself.                                                    *)
HeldWaits ==
    daemon = "up" =>
        /\ \A u \in Updates : helper[u] = "none" => stdin[u] = "open"
        /\ updater # 0 => helper[updater] \in {"starting", "waiting", "died"} /\ stdin[updater] = "open"

IInv ==
    /\ TypeOK /\ LeavingHeardGo /\ AddsInOrder /\ PendingIsListed /\ CancelTookIt
    /\ OutcomeOnce /\ HeldWaits

LEMMA InitInv == Init => IInv
<1> SUFFICES ASSUME Init PROVE IInv
  OBVIOUS
<1> USE UpdateAssumption
<1> DEFINE Outcomes == [update : Updates, ok : BOOLEAN]
<1>4. bus \in Seq(Outcomes)
  BY DEF Init
<1>5. /\ watcher \in [pc : {"idle", "stage", "unpack", "spawn", "fail"}, update : 0 .. MaxUpdates]
      /\ cancel \in [pc : {"none", "pending", "pause", "remove"}, update : 0 .. MaxUpdates]
  BY DEF Init
<1>1. TypeOK
  BY <1>4, <1>5 DEF Init, TypeOK, Updates, Alive
<1>2. LeavingHeardGo /\ AddsInOrder /\ PendingIsListed /\ CancelTookIt /\ HeldWaits
  BY DEF Init, LeavingHeardGo, AddsInOrder, PendingIsListed, CancelTookIt, HeldWaits,
         CancelHas, Updates, Going, Swapping
<1>3. OutcomeOnce
  BY DEF Init, OutcomeOnce, InBus, Watched, Updates
<1> QED
  BY <1>1, <1>2, <1>3 DEF IInv

(* A step that leaves the outcomes where they are.                               *)
LEMMA OutcomesKeep ==
    ASSUME OutcomeOnce, UNCHANGED <<bus, watcher, helper>>,
           daemon' # "gone" => daemon # "gone",
           \A u \in Updates : adding[u] = "done" /\ job[u] \notin Going
                              => adding'[u] = "done" /\ job'[u] \notin Going
    PROVE  OutcomeOnce'
<1>1. \A u \in Updates : InBus(u)' = InBus(u) /\ Watched(u)' = Watched(u)
  BY DEF InBus, Watched
<1> QED
  BY <1>1 DEF OutcomeOnce

--------------------------------------------------------------------------------
(* The download.                                                                 *)

LEMMA AddInv ==
    ASSUME IInv, NEW u \in Updates, Add(u)
    PROVE  IInv'
<1> USE UpdateAssumption DEF IInv, TypeOK, LeavingHeardGo, AddsInOrder, PendingIsListed,
        CancelTookIt, CancelHas, HeldWaits, Updates, Going, Swapping, Add, To, helperVars,
        installVars
<1>1. TypeOK' /\ LeavingHeardGo' /\ AddsInOrder' /\ PendingIsListed' /\ CancelTookIt' /\ HeldWaits'
  OBVIOUS
<1>2. OutcomeOnce'
  BY OutcomesKeep
<1> QED
  BY <1>1, <1>2

LEMMA RememberInv ==
    ASSUME IInv, NEW u \in Updates, Remember(u)
    PROVE  IInv'
<1> USE UpdateAssumption DEF IInv, TypeOK, LeavingHeardGo, AddsInOrder, PendingIsListed,
        CancelTookIt, CancelHas, HeldWaits, Updates, Going, Swapping, Remember, helperVars,
        installVars
<1>1. TypeOK' /\ LeavingHeardGo' /\ AddsInOrder' /\ PendingIsListed' /\ CancelTookIt' /\ HeldWaits'
  OBVIOUS
<1>2. OutcomeOnce'
  BY OutcomesKeep
<1> QED
  BY <1>1, <1>2

LEMMA StartInv ==
    ASSUME IInv, NEW u \in Updates, Start(u)
    PROVE  IInv'
<1> USE UpdateAssumption DEF IInv, TypeOK, LeavingHeardGo, AddsInOrder, PendingIsListed,
        CancelTookIt, CancelHas, HeldWaits, Updates, Going, Swapping, Start, To, helperVars,
        installVars
<1>1. TypeOK' /\ LeavingHeardGo' /\ AddsInOrder' /\ PendingIsListed' /\ CancelTookIt' /\ HeldWaits'
  OBVIOUS
<1>2. OutcomeOnce'
  BY OutcomesKeep
<1> QED
  BY <1>1, <1>2

LEMMA StopInv ==
    ASSUME IInv, NEW u \in Updates, Stop(u)
    PROVE  IInv'
<1> USE UpdateAssumption DEF IInv, TypeOK, LeavingHeardGo, AddsInOrder, PendingIsListed,
        CancelTookIt, CancelHas, HeldWaits, Updates, Going, Swapping, Stop, To, helperVars,
        installVars
<1>1. TypeOK' /\ LeavingHeardGo' /\ AddsInOrder' /\ PendingIsListed' /\ CancelTookIt' /\ HeldWaits'
  OBVIOUS
<1>2. OutcomeOnce'
  BY OutcomesKeep
<1> QED
  BY <1>1, <1>2

LEMMA RunEndsInv ==
    ASSUME IInv, NEW u \in Updates, RunEnds(u), daemon # "gone"
    PROVE  IInv'
<1> DEFINE Outcomes == [update : Updates, ok : BOOLEAN]
<1>1. bus \in Seq(Outcomes) /\ job \in [Updates -> {"none", "added", "running", "stopping",
          "stopped", "completed", "failed", "removed"}]
  BY DEF IInv, TypeOK
<1>2. /\ job[u] \in Going
      /\ \E end \in {"completed", "failed", "stopped"} : job' = [job EXCEPT ![u] = end]
      /\ UNCHANGED <<adding, hidden, pending, updater, watcher, cancel, daemon, helperVars>>
  BY DEF RunEnds, To
<1>3. bus' = bus \/ \E e \in Outcomes : e.update = u /\ bus' = Append(bus, e)
  BY DEF RunEnds, Emits
<1>4. bus' \in Seq(Outcomes)
  <2>1. ASSUME NEW e \in Outcomes, bus' = Append(bus, e) PROVE bus' \in Seq(Outcomes)
    BY <1>1, <2>1, AppendProperties
  <2> QED
    BY <1>1, <1>3, <2>1
<1>5. job'[u] \in {"completed", "failed", "stopped"} /\ \A v \in Updates \ {u} : job'[v] = job[v]
  BY <1>1, <1>2
<1>6. TypeOK'
  BY <1>1, <1>2, <1>4, <1>5 DEF IInv, TypeOK, Going, helperVars, installVars
<1>7. LeavingHeardGo' /\ CancelTookIt' /\ HeldWaits'
  BY <1>2 DEF IInv, LeavingHeardGo, CancelTookIt, HeldWaits, helperVars, installVars
<1>8. AddsInOrder' /\ adding'[u] = "done" /\ job'[u] \notin Going
  BY <1>2, <1>5 DEF IInv, AddsInOrder, CancelHas, Going
<1>9. PendingIsListed'
  BY <1>2, <1>5 DEF IInv, PendingIsListed, TypeOK, Updates
<1>10. \A v \in Updates : adding[v] = "done" /\ job[v] \notin Going
                          => adding'[v] = "done" /\ job'[v] \notin Going
  BY <1>2, <1>5
<1>11. CASE bus' = bus
  BY <1>2, <1>10, <1>11, OutcomesKeep, <1>6, <1>7, <1>8, <1>9 DEF IInv, helperVars, installVars
<1>12. ASSUME NEW e \in Outcomes, e.update = u, bus' = Append(bus, e) PROVE OutcomeOnce'
  <2>1. /\ Len(bus) \in Nat /\ Len(bus') = Len(bus) + 1
        /\ \A i \in 1 .. Len(bus) : bus'[i] = bus[i]
        /\ bus'[Len(bus) + 1].update = u
    BY <1>1, <1>12, AppendProperties, LenProperties
  <2>2. ~InBus(u) /\ ~Watched(u) /\ helper[u] = "none"
    BY <1>2 DEF IInv, OutcomeOnce
  <2>3. \A v \in Updates : InBus(v)' => InBus(v) \/ v = u
    <3> SUFFICES ASSUME NEW v \in Updates, NEW i \in 1 .. Len(bus'), bus'[i].update = v
                 PROVE  InBus(v) \/ v = u
      BY DEF InBus
    <3>1. i \in 1 .. Len(bus) \/ i = Len(bus) + 1
      BY <2>1
    <3> QED
      BY <2>1, <3>1 DEF InBus
  <2>4. \A i, k \in 1 .. Len(bus') : bus'[i].update = bus'[k].update => i = k
    <3> SUFFICES ASSUME NEW i \in 1 .. Len(bus'), NEW k \in 1 .. Len(bus'),
                        bus'[i].update = bus'[k].update
                 PROVE  i = k
      OBVIOUS
    <3>1. \A n \in 1 .. Len(bus) : bus[n].update # u
      BY <2>2 DEF InBus
    <3>2. (i \in 1 .. Len(bus) \/ i = Len(bus) + 1) /\ (k \in 1 .. Len(bus) \/ k = Len(bus) + 1)
      BY <2>1
    <3>3. \A n, m \in 1 .. Len(bus) : bus[n].update = bus[m].update => n = m
      BY DEF IInv, OutcomeOnce
    <3> QED
      BY <2>1, <3>1, <3>2, <3>3
  <2>5. \A v \in Updates : Watched(v)' = Watched(v) /\ helper'[v] = helper[v]
    BY <1>2 DEF Watched, helperVars, installVars
  <2>6. watcher'.pc # "idle" => watcher'.update \in Updates
    BY <1>2 DEF IInv, OutcomeOnce
  <2>7. UNCHANGED <<daemon, watcher>>
    BY <1>2
  <2>8. OutcomeOnce
    BY DEF IInv
  <2>9. ASSUME NEW v \in Updates
        PROVE  /\ InBus(v)' => ~Watched(v)' /\ helper'[v] = "none"
               /\ Watched(v)' /\ watcher'.pc # "fail" => helper'[v] = "none"
               /\ daemon' # "gone" /\ (InBus(v)' \/ Watched(v)' \/ helper'[v] # "none")
                     => adding'[v] = "done" /\ job'[v] \notin Going
    BY ONLY <1>8, <1>10, <2>2, <2>3, <2>5, <2>7, <2>8, v \in Updates, u \in Updates DEF OutcomeOnce
  <2> QED
    BY <2>4, <2>6, <2>9 DEF OutcomeOnce
<1> QED
  BY <1>3, <1>6, <1>7, <1>8, <1>9, <1>11, <1>12 DEF IInv

--------------------------------------------------------------------------------
(* The watcher and the helper it starts.                                         *)

(* A step of the watcher that neither takes an outcome nor starts a helper.      *)
LEMMA WatchesOn ==
    ASSUME OutcomeOnce, UNCHANGED <<bus, helper, job, adding, daemon>>,
           watcher'.pc # "idle" => watcher.pc # "idle" /\ watcher'.update = watcher.update,
           watcher'.pc \notin {"idle", "fail"} => watcher.pc # "fail"
    PROVE  OutcomeOnce'
<1>1. \A u \in Updates : InBus(u)' = InBus(u) /\ (Watched(u)' => Watched(u))
  BY DEF InBus, Watched
<1>2. watcher'.pc # "idle" => watcher'.update \in Updates
  BY DEF OutcomeOnce
<1>3. \A u \in Updates : Watched(u)' /\ watcher'.pc # "fail" => Watched(u) /\ watcher.pc # "fail"
  BY DEF Watched
<1> QED
  BY <1>1, <1>2, <1>3 DEF OutcomeOnce

LEMMA StageBeginInv ==
    ASSUME IInv, StageBegin
    PROVE  IInv'
<1> USE UpdateAssumption DEF IInv, TypeOK, LeavingHeardGo, AddsInOrder, PendingIsListed,
        CancelTookIt, CancelHas, HeldWaits, Updates, Going, Swapping, StageBegin, Goes, helperVars,
        installVars
<1>1. TypeOK' /\ LeavingHeardGo' /\ AddsInOrder' /\ PendingIsListed' /\ CancelTookIt' /\ HeldWaits'
  OBVIOUS
<1>2. OutcomeOnce'
  BY WatchesOn
<1> QED
  BY <1>1, <1>2

LEMMA UnpackInv ==
    ASSUME IInv, Unpack
    PROVE  IInv'
<1> USE UpdateAssumption DEF IInv, TypeOK, LeavingHeardGo, AddsInOrder, PendingIsListed,
        CancelTookIt, CancelHas, HeldWaits, Updates, Going, Swapping, Unpack, Goes, helperVars,
        installVars
<1>1. TypeOK' /\ LeavingHeardGo' /\ AddsInOrder' /\ PendingIsListed' /\ CancelTookIt' /\ HeldWaits'
  OBVIOUS
<1>2. OutcomeOnce'
  BY WatchesOn
<1> QED
  BY <1>1, <1>2

LEMMA FailInv ==
    ASSUME IInv, Fail
    PROVE  IInv'
<1> USE UpdateAssumption DEF IInv, TypeOK, LeavingHeardGo, AddsInOrder, PendingIsListed,
        CancelTookIt, CancelHas, HeldWaits, Updates, Going, Swapping, Fail, Goes, helperVars,
        installVars
<1>1. TypeOK' /\ LeavingHeardGo' /\ AddsInOrder' /\ PendingIsListed' /\ CancelTookIt' /\ HeldWaits'
  OBVIOUS
<1>2. OutcomeOnce'
  BY WatchesOn
<1> QED
  BY <1>1, <1>2

LEMMA RecogniseInv ==
    ASSUME IInv, Recognise, daemon # "gone"
    PROVE  IInv'
<1> DEFINE Outcomes == [update : Updates, ok : BOOLEAN]
           e == Head(bus)
<1>1. bus \in Seq(Outcomes) /\ bus # <<>> /\ bus' = Tail(bus)
  BY DEF IInv, TypeOK, Recognise
<1>2. Len(bus) \in Nat \ {0} /\ bus \in [1 .. Len(bus) -> Outcomes]
  BY <1>1, EmptySeq, LenProperties
<1>3. e = bus[1] /\ e \in Outcomes
  BY <1>1, <1>2
<1>4. /\ bus' \in Seq(Outcomes) /\ Len(bus') = Len(bus) - 1
      /\ \A i \in 1 .. Len(bus') : bus'[i] = bus[i + 1]
  BY <1>1, HeadTailProperties
<1>5. /\ watcher' = watcher \/ \E pc \in {"stage", "fail"} : watcher' = [pc |-> pc, update |-> e.update]
      /\ watcher.pc = "idle"
      /\ UNCHANGED <<job, adding, hidden, pending, updater, cancel, daemon, helperVars>>
  BY DEF Recognise, Goes
<1> HIDE DEF e
<1>6. InBus(e.update) /\ e.update \in Updates
  BY <1>2, <1>3 DEF InBus
<1>7. TypeOK'
  <2>1. watcher' \in [pc : {"idle", "stage", "unpack", "spawn", "fail"}, update : 0 .. MaxUpdates]
    BY <1>5, <1>6, UpdateAssumption DEF IInv, TypeOK, Updates
  <2> QED
    BY <1>4, <1>5, <2>1 DEF IInv, TypeOK, helperVars, installVars
<1>8. LeavingHeardGo' /\ AddsInOrder' /\ PendingIsListed' /\ CancelTookIt' /\ HeldWaits'
  BY <1>5 DEF IInv, LeavingHeardGo, AddsInOrder, PendingIsListed, CancelTookIt, CancelHas,
         HeldWaits, helperVars, installVars
<1>9. OutcomeOnce'
  <2>1. \A i, k \in 1 .. Len(bus) : bus[i].update = bus[k].update => i = k
    BY DEF IInv, OutcomeOnce
  <2>2. ASSUME NEW i \in 1 .. Len(bus') PROVE i + 1 \in 1 .. Len(bus) /\ bus'[i] = bus[i + 1]
    BY <1>2, <1>4
  <2>3. \A i, k \in 1 .. Len(bus') : bus'[i].update = bus'[k].update => i = k
    BY <1>2, <2>1, <2>2
  <2>4. \A u \in Updates : InBus(u)' => InBus(u) /\ u # e.update
    <3> SUFFICES ASSUME NEW i \in 1 .. Len(bus') PROVE InBus(bus'[i].update) /\ bus'[i].update # e.update
      BY DEF InBus
    <3>1. i + 1 # 1 /\ 1 \in 1 .. Len(bus)
      BY <1>2, <1>4
    <3> QED
      BY <1>3, <2>1, <2>2, <3>1 DEF InBus
  <2>5. \A u \in Updates : Watched(u)' => u = e.update
    BY <1>5 DEF Watched
  <2>6. watcher'.pc # "idle" => watcher'.update \in Updates
    BY <1>5, <1>6
  <2> QED
    BY <1>5, <1>6, <2>3, <2>4, <2>5, <2>6 DEF IInv, OutcomeOnce, helperVars, installVars
<1> QED
  BY <1>7, <1>8, <1>9 DEF IInv

LEMMA SpawnHelperInv ==
    ASSUME IInv, SpawnHelper, daemon # "gone"
    PROVE  IInv'
<1> DEFINE w == watcher.update
<1>1. /\ w \in Updates /\ Watched(w) /\ helper[w] = "none" /\ ~InBus(w)
      /\ adding[w] = "done" /\ job[w] \notin Going
  BY DEF IInv, OutcomeOnce, Watched, SpawnHelper
<1>2. /\ helper' = [helper EXCEPT ![w] = "starting"]
      /\ payload' = [payload EXCEPT ![w] = Programs]
      /\ stdin' = Closed({updater}) /\ updater' = w
      /\ watcher' = [pc |-> "idle", update |-> 0] \/ watcher' = [pc |-> "fail", update |-> w]
      /\ mute' = mute \/ mute' = mute \cup {w}
      /\ UNCHANGED <<job, adding, hidden, pending, bus, cancel, daemon, said, disk, early, refused,
                     launched>>
  BY DEF SpawnHelper, Becomes, Goes
<1> HIDE DEF w
<1>3. helper' \in [Updates -> Alive \cup {"none", "done", "cancelled", "killed", "died"}]
  BY <1>2 DEF Alive, IInv, TypeOK
<1>4. watcher' \in [pc : {"idle", "stage", "unpack", "spawn", "fail"}, update : 0 .. MaxUpdates]
  BY <1>1, <1>2, UpdateAssumption DEF Updates
<1>5. stdin' \in [Updates -> {"open", "go", "closed"}] /\ payload' \in [Updates -> SUBSET Programs]
      /\ updater' \in 0 .. MaxUpdates
  BY <1>1, <1>2, UpdateAssumption DEF Closed, IInv, TypeOK, Updates
<1>13. mute' \subseteq Updates
  BY <1>1, <1>2 DEF IInv, TypeOK
<1>6. TypeOK'
  BY <1>2, <1>3, <1>4, <1>5, <1>13 DEF IInv, TypeOK
<1>7. AddsInOrder' /\ PendingIsListed' /\ CancelTookIt'
  BY <1>2 DEF IInv, AddsInOrder, PendingIsListed, CancelTookIt, CancelHas
<1>8. /\ \A u \in Updates : helper'[u] = IF u = w THEN "starting" ELSE helper[u]
      /\ \A u \in Updates : stdin[u] # "open" \/ u # updater => stdin'[u] = stdin[u]
  BY <1>2 DEF Closed, IInv, TypeOK
<1>9. LeavingHeardGo'
  BY <1>8 DEF IInv, LeavingHeardGo, Swapping
<1>10. HeldWaits'
  <2>1. ASSUME daemon = "up", NEW u \in Updates, helper[u] = "none"
        PROVE  stdin'[u] = "open"
    <3>1. stdin[u] = "open"
      BY <2>1 DEF IInv, HeldWaits
    <3>2. u # updater
      <4>1. u # 0
        BY UpdateAssumption DEF Updates
      <4> QED
        BY <2>1, <4>1 DEF IInv, HeldWaits
    <3> QED
      BY <3>1, <3>2, <1>8
  <2> QED
    BY <1>1, <1>2, <1>8, <2>1 DEF HeldWaits
<1>11. \A u \in Updates : InBus(u)' = InBus(u) /\ (Watched(u)' => u = w)
  BY <1>2 DEF InBus, Watched
<1>12. OutcomeOnce'
  <2>1. OutcomeOnce
    BY DEF IInv
  <2>2. watcher'.pc # "idle" => watcher'.pc = "fail" /\ watcher'.update = w
    BY <1>2
  <2>3. ASSUME NEW u \in Updates
        PROVE  /\ InBus(u)' => ~Watched(u)' /\ helper'[u] = "none"
               /\ Watched(u)' /\ watcher'.pc # "fail" => helper'[u] = "none"
               /\ daemon' # "gone" /\ (InBus(u)' \/ Watched(u)' \/ helper'[u] # "none")
                     => adding'[u] = "done" /\ job'[u] \notin Going
    BY <1>1, <1>2, <1>8, <1>11, <2>1, <2>2 DEF OutcomeOnce, Watched
  <2>4. \A i, k \in 1 .. Len(bus') : bus'[i].update = bus'[k].update => i = k
    BY <1>2, <2>1 DEF OutcomeOnce
  <2> QED
    BY <1>1, <2>2, <2>3, <2>4 DEF OutcomeOnce
<1> QED
  BY <1>6, <1>7, <1>9, <1>10, <1>12 DEF IInv

LEMMA HearInv ==
    ASSUME IInv, NEW u \in Updates, Hear(u)
    PROVE  IInv'
<1> USE UpdateAssumption DEF IInv, TypeOK, LeavingHeardGo, AddsInOrder, PendingIsListed,
        CancelTookIt, CancelHas, HeldWaits, Updates, Going, Swapping, Hear,
        installVars
<1>1. TypeOK' /\ LeavingHeardGo' /\ AddsInOrder' /\ PendingIsListed' /\ CancelTookIt' /\ HeldWaits'
  OBVIOUS
<1>2. OutcomeOnce'
  BY OutcomesKeep
<1> QED
  BY <1>1, <1>2

--------------------------------------------------------------------------------
(* The requests and the end of the daemon.                                       *)

LEMMA CancelTakePendingInv ==
    ASSUME IInv, CancelTakePending
    PROVE  IInv'
<1> USE UpdateAssumption DEF IInv, TypeOK, LeavingHeardGo, AddsInOrder, PendingIsListed,
        CancelTookIt, CancelHas, HeldWaits, Updates, Going, Swapping, CancelTakePending, helperVars,
        installVars
<1>1. TypeOK' /\ LeavingHeardGo' /\ AddsInOrder' /\ PendingIsListed' /\ CancelTookIt' /\ HeldWaits'
  OBVIOUS
<1>2. OutcomeOnce'
  BY OutcomesKeep
<1> QED
  BY <1>1, <1>2

LEMMA CancelPauseInv ==
    ASSUME IInv, CancelPause
    PROVE  IInv'
<1> DEFINE u == cancel.update
<1>1. u \in Updates /\ pending # u /\ CancelHas(u)
  BY DEF IInv, CancelTookIt, CancelHas, CancelPause
<1>2. job' = job \/ \E end \in {"stopping", "stopped"} : job' = [job EXCEPT ![u] = end]
  BY DEF CancelPause, To
<1>3. /\ UNCHANGED <<adding, pending, updater, bus, watcher, daemon, helperVars>>
      /\ hidden' \subseteq hidden
      /\ cancel' \in [pc : {"none", "remove"}, update : 0 .. MaxUpdates]
      /\ cancel'.pc = "remove" => cancel'.update = u
  BY <1>1, UpdateAssumption DEF CancelPause, IInv, TypeOK, Updates
<1> HIDE DEF u
<1>4. job \in [Updates -> {"none", "added", "running", "stopping", "stopped",
                         "completed", "failed", "removed"}]
  BY DEF IInv, TypeOK
<1>5. /\ job' \in [Updates -> {"none", "added", "running", "stopping", "stopped",
                             "completed", "failed", "removed"}]
      /\ \A v \in Updates \ {u} : job'[v] = job[v]
      /\ job'[u] = job[u] \/ job'[u] \in {"stopping", "stopped"}
  BY <1>1, <1>2, <1>4
<1>6. adding[u] \notin {"none", "remember"} /\ job[u] # "none"
  BY <1>1, <1>4 DEF IInv, AddsInOrder
<1>9. job'[u] \in Going => job[u] \in Going
  BY <1>1, <1>5 DEF Going, CancelPause, To, u
<1>7. TypeOK'
  BY <1>3, <1>5, <1>6 DEF IInv, TypeOK, helperVars, installVars
<1>8. AddsInOrder'
  <2>1. \A v \in Updates : CancelHas(v)' => CancelHas(v)
    BY <1>1, <1>3 DEF CancelHas
  <2> QED
    BY <1>3, <1>5, <1>6, <1>9, <2>1 DEF IInv, AddsInOrder
<1>10. LeavingHeardGo' /\ PendingIsListed' /\ CancelTookIt' /\ HeldWaits'
  BY <1>1, <1>3, <1>5 DEF IInv, TypeOK, LeavingHeardGo, PendingIsListed, CancelTookIt, HeldWaits,
                      helperVars, installVars, Updates
<1>11. OutcomeOnce'
  BY <1>3, <1>5, <1>9, OutcomesKeep DEF IInv, helperVars, installVars
<1> QED
  BY <1>7, <1>8, <1>10, <1>11 DEF IInv

LEMMA CancelRemoveInv ==
    ASSUME IInv, CancelRemove
    PROVE  IInv'
<1> DEFINE u == cancel.update
<1>1. u \in Updates /\ pending # u /\ CancelHas(u)
  BY DEF IInv, CancelTookIt, CancelHas, CancelRemove
<1>2. job' = job \/ \E end \in {"removed"} : job' = [job EXCEPT ![u] = end]
  BY DEF CancelRemove, To
<1>3. /\ UNCHANGED <<adding, pending, updater, bus, watcher, daemon, helperVars>>
      /\ hidden' \subseteq hidden
      /\ cancel' \in [pc : {"none", "remove"}, update : 0 .. MaxUpdates]
      /\ cancel'.pc = "remove" => cancel'.update = u
  BY <1>1, UpdateAssumption DEF CancelRemove, IInv, TypeOK, Updates
<1> HIDE DEF u
<1>4. job \in [Updates -> {"none", "added", "running", "stopping", "stopped",
                         "completed", "failed", "removed"}]
  BY DEF IInv, TypeOK
<1>5. /\ job' \in [Updates -> {"none", "added", "running", "stopping", "stopped",
                             "completed", "failed", "removed"}]
      /\ \A v \in Updates \ {u} : job'[v] = job[v]
      /\ job'[u] = job[u] \/ job'[u] \in {"removed"}
  BY <1>1, <1>2, <1>4
<1>6. adding[u] \notin {"none", "remember"} /\ job[u] # "none"
  BY <1>1, <1>4 DEF IInv, AddsInOrder
<1>9. job'[u] \in Going => job[u] \in Going
  BY <1>1, <1>5 DEF Going
<1>7. TypeOK'
  BY <1>3, <1>5, <1>6 DEF IInv, TypeOK, helperVars, installVars
<1>8. AddsInOrder'
  <2>1. \A v \in Updates : CancelHas(v)' => CancelHas(v)
    BY <1>1, <1>3 DEF CancelHas
  <2> QED
    BY <1>3, <1>5, <1>6, <1>9, <2>1 DEF IInv, AddsInOrder
<1>10. LeavingHeardGo' /\ PendingIsListed' /\ CancelTookIt' /\ HeldWaits'
  BY <1>1, <1>3, <1>5 DEF IInv, TypeOK, LeavingHeardGo, PendingIsListed, CancelTookIt, HeldWaits,
                      helperVars, installVars, Updates
<1>11. OutcomeOnce'
  BY <1>3, <1>5, <1>9, OutcomesKeep DEF IInv, helperVars, installVars
<1> QED
  BY <1>7, <1>8, <1>10, <1>11 DEF IInv

LEMMA QuitInv ==
    ASSUME IInv, Quit
    PROVE  IInv'
<1> USE UpdateAssumption DEF IInv, TypeOK, LeavingHeardGo, AddsInOrder, PendingIsListed,
        CancelTookIt, CancelHas, HeldWaits, Updates, Going, Swapping, Quit, daemonVars, helperVars,
        installVars
<1>1. TypeOK' /\ LeavingHeardGo' /\ AddsInOrder' /\ PendingIsListed' /\ CancelTookIt' /\ HeldWaits'
  OBVIOUS
<1>2. OutcomeOnce'
  BY OutcomesKeep
<1> QED
  BY <1>1, <1>2

LEMMA DaemonGoneInv ==
    ASSUME IInv, DaemonGone
    PROVE  IInv'
<1> USE UpdateAssumption DEF DaemonGone, Updates, installVars
<1> DEFINE Outcomes == [update : Updates, ok : BOOLEAN]
<1>1. /\ bus' = <<>> /\ bus' \in Seq(Outcomes)
      /\ watcher' \in [pc : {"idle", "stage", "unpack", "spawn", "fail"}, update : 0 .. MaxUpdates]
      /\ cancel' \in [pc : {"none", "pending", "pause", "remove"}, update : 0 .. MaxUpdates]
      /\ cancel'.pc = "none" /\ watcher'.pc = "idle"
  OBVIOUS
<1>2. stdin' \in [Updates -> {"open", "go", "closed"}] /\ \A u \in Updates : stdin[u] = "go" => stdin'[u] = "go"
  BY DEF Closed, IInv, TypeOK
<1>3. TypeOK'
  BY <1>1, <1>2 DEF IInv, TypeOK
<1>4. LeavingHeardGo'
  BY <1>2 DEF IInv, LeavingHeardGo
<1>5. AddsInOrder' /\ PendingIsListed' /\ CancelTookIt' /\ HeldWaits'
  BY <1>1 DEF AddsInOrder, PendingIsListed, CancelTookIt, HeldWaits, CancelHas, Going
<1>6. OutcomeOnce'
  BY <1>1 DEF OutcomeOnce, InBus, Watched
<1> QED
  BY <1>3, <1>4, <1>5, <1>6 DEF IInv

LEMMA InstallInv ==
    ASSUME IInv, Install, daemon # "gone"
    PROVE  IInv'
<1> USE UpdateAssumption DEF IInv, TypeOK, LeavingHeardGo, AddsInOrder, PendingIsListed,
        CancelTookIt, CancelHas, HeldWaits, Updates, Going, Swapping, Install, daemonVars,
        installVars
<1>1. TypeOK' /\ LeavingHeardGo' /\ AddsInOrder' /\ PendingIsListed' /\ CancelTookIt' /\ HeldWaits'
  OBVIOUS
<1>2. OutcomeOnce'
  BY OutcomesKeep
<1> QED
  BY <1>1, <1>2

(* A step of the helpers alone, which starts none.                               *)
LEMMA HelpersMove ==
    ASSUME OutcomeOnce, UNCHANGED <<bus, watcher, job, adding, daemon>>,
           \A u \in Updates : helper'[u] = "none" <=> helper[u] = "none"
    PROVE  OutcomeOnce'
<1>1. \A u \in Updates : InBus(u)' = InBus(u) /\ Watched(u)' = Watched(u)
  BY DEF InBus, Watched
<1> QED
  BY <1>1 DEF OutcomeOnce

LEMMA CancelTakeUpdaterInv ==
    ASSUME IInv, CancelTakeUpdater
    PROVE  IInv'
<1> USE UpdateAssumption DEF IInv, TypeOK, LeavingHeardGo, AddsInOrder, PendingIsListed,
        CancelTookIt, CancelHas, HeldWaits, Updates, Going, Swapping, CancelTakeUpdater, Alive,
        installVars
<1>1. TypeOK' /\ LeavingHeardGo' /\ AddsInOrder' /\ PendingIsListed' /\ CancelTookIt' /\ HeldWaits'
  OBVIOUS
<1>2. OutcomeOnce'
  BY HelpersMove
<1> QED
  BY <1>1, <1>2

--------------------------------------------------------------------------------
(* The helper.                                                                   *)

(* What a step of one helper leaves alone, and what it may do.                   *)
LEMMA HelperMoves ==
    ASSUME IInv, NEW u \in Updates, helper[u] \in Alive,
           NEW h \in Alive \cup {"done", "cancelled", "died"},
           helper' = [helper EXCEPT ![u] = h],
           UNCHANGED <<daemonVars, daemon, stdin, mute>>,
           h \in Swapping \cup {"leaving"} =>
               helper[u] \in Swapping \cup {"leaving"} \/ stdin[u] = "go",
           h \in {"starting", "waiting", "died"} \/ helper[u] \notin {"starting", "waiting"}
               \/ stdin[u] # "open",
           said' = said \/ said' = said \cup {u},
           payload' \in [Updates -> SUBSET Programs],
           disk' \in [Programs -> {"old", "new", "none"}],
           early' = early \/ early' = early \cup {u},
           refused' = refused \/ refused' = refused \cup {u},
           launched' \in BOOLEAN
    PROVE  IInv'
<1>10. h \in {"starting", "waiting", "died"} \/ helper[u] \notin {"starting", "waiting"}
           \/ stdin[u] # "open"
  OBVIOUS
<1> USE DEF IInv, daemonVars
<1>1. said' \subseteq Updates /\ early' \subseteq Updates /\ refused' \subseteq Updates
  BY DEF TypeOK
<1>2. helper' \in [Updates -> Alive \cup {"none", "done", "cancelled", "killed", "died"}]
  BY DEF TypeOK
<1>3. TypeOK'
  <2>1. TypeOK
    OBVIOUS
  <2> QED
    BY ONLY <1>1, <1>2, <2>1, UNCHANGED <<daemonVars, daemon, stdin, mute>>,
       payload' \in [Updates -> SUBSET Programs], disk' \in [Programs -> {"old", "new", "none"}],
       launched' \in BOOLEAN DEF TypeOK, daemonVars
<1>4. \A v \in Updates : v # u => helper'[v] = helper[v]
  BY DEF TypeOK
<1>5. helper'[u] = h
  BY DEF TypeOK
<1>6. LeavingHeardGo'
  BY <1>4, <1>5 DEF LeavingHeardGo
<1>7. HeldWaits'
  <2>1. ASSUME daemon = "up", updater # 0
        PROVE  updater \in Updates /\ helper[updater] \in {"starting", "waiting", "died"} /\ stdin[updater] = "open"
    BY <2>1 DEF HeldWaits, TypeOK, Updates
  <2>2. ASSUME daemon = "up", updater # 0 PROVE helper'[updater] \in {"starting", "waiting", "died"}
    <3>1. CASE updater = u /\ helper[u] = "died"
      BY <3>1 DEF Alive
    <3>2. CASE updater = u /\ helper[u] # "died"
      BY ONLY <2>1, <2>2, <3>2, <1>5, <1>10
    <3>3. CASE updater # u
      BY <2>1, <2>2, <3>3, <1>4
    <3> QED
      BY <3>1, <3>2, <3>3
  <2>3. \A v \in Updates : helper'[v] = "none" => helper[v] = "none"
    BY <1>4, <1>5 DEF Alive
  <2> QED
    BY <2>1, <2>2, <2>3 DEF HeldWaits
<1>8. AddsInOrder' /\ PendingIsListed' /\ CancelTookIt'
  BY DEF AddsInOrder, PendingIsListed, CancelTookIt, CancelHas
<1>9. OutcomeOnce'
  BY <1>4, <1>5, HelpersMove DEF Alive
<1> QED
  BY <1>3, <1>6, <1>7, <1>8, <1>9

LEMMA HelperInv ==
    ASSUME IInv, NEW u \in Updates, HelperStep(u) \/ HelperFails(u) \/ HelperDies(u)
    PROVE  IInv'
<1> USE DEF Becomes, Swapping, Alive, installVars
<1>0. /\ payload \in [Updates -> SUBSET Programs] /\ disk \in [Programs -> {"old", "new", "none"}]
      /\ launched \in BOOLEAN
  BY DEF IInv, TypeOK
<1>10. Says(u) => said' = said \/ said' = said \cup {u}
  BY DEF Says
<1>1. CASE Announce(u)
  BY <1>0, <1>1, HelperMoves DEF Announce
<1>2. CASE WaitForGo(u)
  BY <1>0, <1>2, <1>10, HelperMoves DEF WaitForGo
<1>3. CASE WaitForPidExit(u)
  BY <1>0, <1>3, HelperMoves DEF WaitForPidExit
<1>4. CASE Swap(u)
  <2>1. /\ payload' \in [Updates -> SUBSET Programs]
        /\ disk' \in [Programs -> {"old", "new", "none"}]
        /\ helper' = [helper EXCEPT ![u] = "installed"] \/ helper' = [helper EXCEPT ![u] = "swapping"]
    BY <1>0, <1>4 DEF Swap, IInv, TypeOK
  <2> QED
    BY <1>0, <1>4, <2>1, HelperMoves DEF Swap
<1>11. ASSUME NEW ps \in SUBSET Programs
       PROVE  Holes(ps) \subseteq [Programs -> {"old", "new", "none"}]
  BY <1>0 DEF Holes
<1>5. CASE SwapFails(u)
  <2>1. /\ payload' \in [Updates -> SUBSET Programs]
        /\ disk' \in [Programs -> {"old", "new", "none"}]
    <3>1. PICK p \in payload[u] :
              /\ \E left \in {{}, {p}} : payload' = [payload EXCEPT ![u] = @ \ left]
              /\ disk' \in Holes({p})
      BY <1>5 DEF SwapFails
    <3>2. p \in Programs
      BY <1>0
    <3> QED
      BY <1>0, <1>11, <3>1, <3>2
  <2>2. \E h \in {"prompt", "broken"} : helper' = [helper EXCEPT ![u] = h]
    BY <1>5 DEF SwapFails
  <2>3. helper[u] = "swapping" /\ UNCHANGED <<daemonVars, daemon, stdin, mute, said, early, refused, launched>>
    BY <1>5 DEF SwapFails
  <2> QED
    BY <1>0, <2>1, <2>2, <2>3, HelperMoves
<1>6. CASE Elevate(u)
  <2>1. PICK ps \in SUBSET payload[u] :
            /\ payload' = [payload EXCEPT ![u] = @ \ ps]
            /\ \E d \in IF ps # {} /\ ps = payload[u] THEN {disk} ELSE Holes(payload[u] \ ps) :
                  disk' = [p \in Programs |-> IF p \in ps THEN "new" ELSE d[p]]
            /\ helper' = [helper EXCEPT ![u] = IF ps # {} /\ ps = payload[u] THEN "installed" ELSE "broken"]
    BY <1>6 DEF Elevate
  <2>2. payload[u] \in SUBSET Programs /\ payload[u] \ ps \in SUBSET Programs
    BY <1>0
  <2>3. PICK d \in [Programs -> {"old", "new", "none"}] :
            disk' = [p \in Programs |-> IF p \in ps THEN "new" ELSE d[p]]
    <3>1. Holes(payload[u] \ ps) \subseteq [Programs -> {"old", "new", "none"}]
      BY <1>11, <2>2
    <3> QED
      BY <1>0, <2>1, <3>1
  <2>4. /\ payload' \in [Updates -> SUBSET Programs]
        /\ disk' \in [Programs -> {"old", "new", "none"}]
    BY <1>0, <2>1, <2>2, <2>3
  <2>5. \E h \in {"installed", "broken"} : helper' = [helper EXCEPT ![u] = h]
    BY <2>1
  <2>6. helper[u] = "prompt" /\ UNCHANGED <<daemonVars, daemon, stdin, mute, said, early, refused, launched>>
    BY <1>6 DEF Elevate
  <2> QED
    BY <1>0, <2>4, <2>5, <2>6, HelperMoves
<1>7. CASE Relaunch(u)
  <2>1. launched' \in BOOLEAN
    BY <1>0, <1>7 DEF Relaunch, Launch, LaunchFails
  <2>2. said' = said \/ said' = said \cup {u}
    BY <1>7, <1>10 DEF Relaunch, Launch, LaunchFails
  <2>3. refused' = refused \/ refused' = refused \cup {u}
    BY <1>7 DEF Relaunch, Launch, LaunchFails
  <2> QED
    BY <1>0, <1>7, <2>1, <2>2, <2>3, HelperMoves DEF Relaunch
<1>8. CASE HelperFails(u)
  BY <1>0, <1>8, <1>10, HelperMoves DEF HelperFails
<1>9. CASE HelperDies(u)
  BY <1>0, <1>9, HelperMoves DEF HelperDies
<1> QED
  BY <1>1, <1>2, <1>3, <1>4, <1>5, <1>6, <1>7, <1>8, <1>9 DEF HelperStep

LEMMA NextInv == IInv /\ [Next]_vars => IInv'
<1> SUFFICES ASSUME IInv, [Next]_vars PROVE IInv'
  OBVIOUS
<1>1. ASSUME NEW u \in Updates, JobStep(u) PROVE IInv'
  BY <1>1, AddInv, RememberInv, StartInv, StopInv, RunEndsInv, HearInv DEF JobStep
<1>2. ASSUME NEW u \in Updates, HelperStep(u) \/ HelperFails(u) \/ HelperDies(u) PROVE IInv'
  BY <1>2, HelperInv
<1>3. CASE WatcherStep
  BY <1>3, RecogniseInv, StageBeginInv, UnpackInv, SpawnHelperInv, FailInv DEF WatcherStep
<1>4. CASE CancelStep
  BY <1>4, CancelTakePendingInv, CancelPauseInv, CancelRemoveInv DEF CancelStep
<1>5. CASE (daemon # "gone" /\ Install) \/ CancelTakeUpdater \/ Quit \/ DaemonGone
  BY <1>5, InstallInv, CancelTakeUpdaterInv, QuitInv, DaemonGoneInv
<1>6. CASE UNCHANGED vars
  <2> USE <1>6 DEF vars, daemonVars, helperVars, installVars
  <2>1. TypeOK' /\ LeavingHeardGo' /\ AddsInOrder' /\ PendingIsListed' /\ CancelTookIt' /\ HeldWaits'
    BY DEF IInv, TypeOK, LeavingHeardGo, AddsInOrder, PendingIsListed, CancelTookIt, CancelHas,
           HeldWaits
  <2>2. OutcomeOnce'
    BY OutcomesKeep DEF IInv
  <2> QED
    BY <2>1, <2>2 DEF IInv
<1> QED
  BY <1>1, <1>2, <1>3, <1>4, <1>5, <1>6 DEF Next

--------------------------------------------------------------------------------

THEOREM Invariant == Spec => []IInv
<1> QED
  BY InitInv, NextInv, PTL DEF Spec

(* The types of the flow hold for any number of updates and programs.            *)
THEOREM TypeCorrect == Spec => []TypeOK
<1>1. IInv => TypeOK
  BY DEF IInv
<1> QED
  BY Invariant, <1>1, PTL

(* The update in flight is a download that is there (PendingIsListed), however   *)
(* many were asked for and whenever one is cancelled.                            *)
THEOREM PendingIsThere == Spec => []PendingIsListed
<1>1. IInv => PendingIsListed
  BY DEF IInv
<1> QED
  BY Invariant, <1>1, PTL

(* What About calls staged can be installed (StagedIsInstallable): a helper is   *)
(* never started twice, and while the daemon is up nobody closes the pipe of the *)
(* one it holds; only the helper's own end is not noticed.                       *)
THEOREM StagedCanBeInstalled == Spec => []StagedIsInstallable
<1>1. IInv => StagedIsInstallable
  BY DEF IInv, HeldWaits, StagedIsInstallable
<1> QED
  BY Invariant, <1>1, PTL

(* No program is replaced unless an install was asked for (SwapOnlyIfAsked).     *)
THEOREM NoUnaskedSwap == Spec => []SwapOnlyIfAsked
<1>1. IInv => SwapOnlyIfAsked
  BY DEF IInv, LeavingHeardGo, SwapOnlyIfAsked
<1> QED
  BY Invariant, <1>1, PTL
=============================================================================
