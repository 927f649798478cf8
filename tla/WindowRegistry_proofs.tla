------------------------- MODULE WindowRegistry_proofs -------------------------
(* What holds of the windows of a kind for any number of windows and triggers.   *)
EXTENDS WindowRegistry, FiniteSetTheorems, TLAPS

(* Why OneStarting holds: a window that is starting is the last one forked, is   *)
(* recorded as a child, and keeps the spawn state, so that no trigger forks      *)
(* another.                                                                      *)
StartingIsGuarded ==
    ~misled => \A v \in Starting :
        pending = "spawning" /\ v \in children /\ \A u \in Forked : u <= v

(* Windows are numbered as they are forked, and connect after that.              *)
InOrder ==
    /\ \A u \in Forked, v \in Windows : v < u => v \in Forked
    /\ \A w \in Windows : conn[w] # "none" => w \in Forked

IInv == TypeOK /\ RegistryIsLive /\ LatestIsReachable /\ StartingIsGuarded /\ InOrder

LEMMA InitInv == Init => IInv
<1> SUFFICES ASSUME Init PROVE IInv
  OBVIOUS
<1>1. Live = {} /\ Forked = {}
  BY DEF Init, Live, Forked
<1>2. Starting = {} /\ Open = {}
  BY <1>1 DEF Starting, Open
<1>3. TypeOK
  BY DEF Init, TypeOK
<1>4. RegistryIsLive /\ LatestIsReachable /\ StartingIsGuarded
  BY <1>2 DEF Init, RegistryIsLive, LatestIsReachable, StartingIsGuarded
<1> QED
  BY <1>1, <1>3, <1>4 DEF Init, IInv, InOrder

(* A trigger closes what the registry names.                                     *)
LEMMA TryCloseInv ==
    ASSUME IInv, NEW t \in Triggers, TryClose(t)
    PROVE  IInv'
BY WindowAssumption DEF TryClose, IInv, TypeOK, RegistryIsLive, LatestIsReachable,
   StartingIsGuarded, InOrder, Windows, Forked, Live, Starting, Open, trayVars,
   RegistryFree, Queued, ChannelFull

(* A trigger forks only if nothing is starting.                                  *)
LEMMA TrySpawnInv ==
    ASSUME IInv, NEW t \in Triggers, TrySpawn(t)
    PROVE  IInv'
<1> USE WindowAssumption DEF IInv, TypeOK, Windows, InOrder
<1>1. CASE Refuse
  BY <1>1 DEF TrySpawn, Refuse, Recover, Reap, RegistryIsLive, LatestIsReachable,
     StartingIsGuarded, Forked, Live, Starting, Open
<1>2. CASE Recover(children) # "spawning"
  <2>1. ~misled => Starting = {}
    BY <1>2 DEF Recover, Reap, StartingIsGuarded, Starting
  <2>2. CASE ForkFails
    BY <1>2, <2>1, <2>2 DEF TrySpawn, ForkFails, Reap, RegistryIsLive, LatestIsReachable,
       StartingIsGuarded, Forked, Live, Starting, Open
  <2>4. CASE NothingToRun
    BY <1>2, <2>1, <2>4 DEF TrySpawn, NothingToRun, Recover, Reap, RegistryIsLive,
       LatestIsReachable, StartingIsGuarded, Forked, Live, Starting, Open
  <2>3. ASSUME NEW w \in Windows, Fork(w) PROVE IInv'
    <3>1. TypeOK'
      BY <2>3 DEF TrySpawn, Fork, Reap, Forked, Live
    <3>2. RegistryIsLive' /\ LatestIsReachable'
      BY <2>3 DEF TrySpawn, Fork, RegistryIsLive, LatestIsReachable, Forked, Live, Open
    <3>3. Starting' \subseteq Starting \cup {w} /\ Forked' = Forked \cup {w}
      BY <2>3 DEF TrySpawn, Fork, Starting, Live, Forked
    <3>4. \A u \in Forked' : u <= w
      <4>1. \A u \in Forked : ~(w < u)
        BY <2>3 DEF Fork
      <4> QED
        BY <4>1, <3>3 DEF Forked
    <3>5. StartingIsGuarded'
      BY <2>1, <2>3, <3>3, <3>4 DEF TrySpawn, Fork, StartingIsGuarded
    <3>6. InOrder'
      BY <2>3, <3>3, <3>4 DEF TrySpawn, Fork, Forked
    <3> QED
      BY <3>1, <3>2, <3>5, <3>6
  <2> QED
    BY <1>2, <2>2, <2>3, <2>4 DEF TrySpawn, Refuse
<1> QED
  BY <1>1, <1>2 DEF TrySpawn

(* The steps of a window and of the server for it.                               *)
LEMMA WindowInv ==
    ASSUME IInv, NEW w \in Windows,
           WindowStep(w) \/ Exit(w) \/ WindowFocused(w)
               \/ \E how \in {"gained", "lost"} : FocusMoves(w, how)
    PROVE  IInv'
<1> USE WindowAssumption DEF IInv, TypeOK, Windows, To, trayVars
<1> USE DEF InOrder, RegistryIsLive, LatestIsReachable, StartingIsGuarded
<1> USE DEF Forked, Live, Starting, Open
<1>1. CASE Subscribe(w)
  BY <1>1 DEF Subscribe
<1>2. CASE SayHello(w)
  BY <1>2 DEF SayHello
<1>3. CASE Exit(w)
  BY <1>3 DEF Exit
<1>4. CASE WindowFocused(w)
  BY <1>4 DEF WindowFocused
<1>5. ASSUME NEW how \in {"gained", "lost"}, FocusMoves(w, how) PROVE IInv'
  BY <1>5 DEF FocusMoves
<1> QED
  BY <1>1, <1>2, <1>3, <1>4, <1>5 DEF WindowStep, HearClose

LEMMA ServerInv ==
    ASSUME IInv, NEW w \in Windows, ServerStep(w)
    PROVE  IInv'
<1> USE WindowAssumption DEF IInv, TypeOK, Windows, To, trayVars
<1> USE DEF InOrder, RegistryIsLive, LatestIsReachable, StartingIsGuarded
<1> USE DEF Forked, Live, Starting, Open
<1>1. CASE Register(w)
  <2>1. w \in Forked /\ Forked' = Forked /\ Live' = Live /\ Starting' \subseteq Starting
    BY <1>1 DEF Register
  <2>2. TypeOK' /\ InOrder'
    BY <1>1, <2>1 DEF Register
  <2>3. RegistryIsLive' /\ LatestIsReachable'
    BY <1>1 DEF Register
  <2>4. StartingIsGuarded'
    BY <1>1, <2>1 DEF Register
  <2> QED
    BY <2>2, <2>3, <2>4
<1>2. CASE MarkRegistered(w)
  <2> DEFINE later == \E v \in Forked : v > w
  <2>10. misled' = (misled \/ later)
    BY <1>2 DEF MarkRegistered
  <2>11. ~later => \A v \in Forked : v <= w
    OBVIOUS
  <2> HIDE DEF later
  <2>12. later \in BOOLEAN
    BY DEF later
  <2>1. misled' \in BOOLEAN
    BY <2>10, <2>12, Zenon DEF IInv, TypeOK
  <2>13. ~misled' => ~misled /\ ~later
    BY <2>10, Zenon
  <2>2. ~misled' => ~misled /\ \A v \in Forked : v <= w
    BY <2>11, <2>13, Zenon
  <2>3. TypeOK'
    BY <1>2, <2>1 DEF MarkRegistered
  <2>4. RegistryIsLive' /\ LatestIsReachable'
    BY <1>2 DEF MarkRegistered
  <2>5. w \notin Starting /\ Starting' = Starting /\ Forked' = Forked
    BY <1>2 DEF MarkRegistered
  <2>6. ~misled' => Starting = {}
    <3> SUFFICES ASSUME ~misled', NEW v \in Starting PROVE FALSE
      OBVIOUS
    <3>1. v \in Forked /\ w \in Forked
      BY <1>2 DEF MarkRegistered
    <3>2. v <= w
      BY <2>2, <3>1
    <3>3. w <= v
      BY <2>2, <3>1
    <3> QED
      BY <3>1, <3>2, <3>3, <2>5
  <2>7. StartingIsGuarded'
    BY <2>5, <2>6
  <2>8. InOrder'
    BY <1>2, <2>5 DEF MarkRegistered
  <2> QED
    BY <2>3, <2>4, <2>7, <2>8
<1>3. CASE Deregister(w)
  <2>1. CASE conn[w] = "ready" /\ reg = w
    <3>1. TypeOK' /\ InOrder'
      BY <1>3, <2>1 DEF Deregister
    <3>2. RegistryIsLive' /\ LatestIsReachable' /\ StartingIsGuarded'
      BY <1>3, <2>1 DEF Deregister
    <3> QED
      BY <3>1, <3>2
  <2>2. CASE ~(conn[w] = "ready" /\ reg = w)
    BY <1>3, <2>2 DEF Deregister, RegistryFree
  <2> QED
    BY <2>1, <2>2
<1>4. CASE ClearPending(w)
  BY <1>4 DEF ClearPending
<1> QED
  BY <1>1, <1>2, <1>3, <1>4 DEF ServerStep

LEMMA NextInv == IInv /\ [Next]_vars => IInv'
<1> SUFFICES ASSUME IInv, [Next]_vars PROVE IInv'
  OBVIOUS
<1>1. CASE Next
  BY <1>1, TryCloseInv, TrySpawnInv, WindowInv, ServerInv DEF Next
<1>2. CASE UNCHANGED vars
  BY <1>2 DEF vars, trayVars, IInv, TypeOK, RegistryIsLive, LatestIsReachable,
     StartingIsGuarded, InOrder, Forked, Live, Starting, Open
<1> QED
  BY <1>1, <1>2

(* The inductive invariant holds of every behaviour.                             *)
THEOREM Invariant == Spec => []IInv
BY InitInv, NextInv, PTL DEF Spec

(* Every variable keeps its type.                                                *)
THEOREM TypeCorrect == Spec => []TypeOK
<1>1. IInv => TypeOK
  BY DEF IInv
<1> QED
  BY <1>1, Invariant, PTL

(* A Close is never queued to a connection that is down.                         *)
THEOREM RegistryNamesTheLiving == Spec => []RegistryIsLive
<1>1. IInv => RegistryIsLive
  BY DEF IInv
<1> QED
  BY <1>1, Invariant, PTL

(* The window that came up last can be closed until it is, or until a Close to   *)
(* it was dropped before its channel.                                            *)
THEOREM LatestCanBeClosed == Spec => []LatestIsReachable
<1>1. IInv => LatestIsReachable
  BY DEF IInv
<1> QED
  BY <1>1, Invariant, PTL

(* Clicks start one window at a time, whatever their number and timing.          *)
THEOREM OneStartsAtATime == Spec => []OneStarting
<1>1. IInv => OneStarting
  <2> SUFFICES ASSUME IInv, ~misled PROVE Cardinality(Starting) <= 1
    BY DEF OneStarting
  <2>1. \A u, v \in Starting : u \in Nat /\ v \in Nat /\ u <= v
    BY WindowAssumption DEF IInv, StartingIsGuarded, Starting, Live, Forked, Windows
  <2>2. CASE Starting = {}
    BY <2>2, FS_EmptySet
  <2>3. ASSUME NEW v \in Starting PROVE Cardinality(Starting) <= 1
    <3>1. \A u \in Starting : u = v
      BY <2>1, <2>3
    <3>2. Starting = {v}
      BY <2>3, <3>1
    <3> QED
      BY <3>2, FS_Singleton
  <2> QED
    BY <2>2, <2>3
<1> QED
  BY <1>1, Invariant, PTL
===============================================================================
