-------------------------- MODULE EventFeed_proofs --------------------------
(* What holds of the subscribers of the feed, a command that waits and the main  *)
(* window, for any number of downloads and changes and any sizes of the channels.*)
(* Both share the feed's variables; each theorem is about one of them.           *)
EXTENDS WaitCommand, MainWindow, SequenceTheorems, FunctionTheorems, FiniteSetTheorems, TLAPS

(* What changes the list is still to be heard: the event is to be sent, or on    *)
(* the bus, or behind a message that is a reason to look at everything.          *)
ListEvents == [kind : {"added", "removed"}, job : Jobs]

OnTheWay(d) ==
    \/ d \in owed
    \/ \E i \in 1..Len(bus) : bus[i] = d
    \/ \E i \in 1..Len(out) : out[i] = Changed

--------------------------------------------------------------------------------
(* The feed, whoever listens.                                                    *)

LEMMA FeedStarts == FeedInit => FeedTypeOK
<1> SUFFICES ASSUME FeedInit PROVE FeedTypeOK
  OBVIOUS
<1>1. BusCap \in Nat /\ Room \in Nat /\ 0 \in 0..MaxChanges
  BY FeedAssumption
<1>2. /\ bus \in Seq(DomainEvents) /\ Len(bus) <= BusCap
      /\ out \in Seq(Messages) /\ Len(out) <= Room
  BY <1>1, EmptySeq DEF FeedInit
<1>3. job \in [Jobs -> Phases \cup {"unborn", "gone"}]
  <2>1. job \in [Jobs -> {"going", "unborn"}]
    BY DEF FeedInit
  <2> QED
    BY ONLY <2>1 DEF Phases
<1>4. /\ owed \subseteq DomainEvents /\ changes \in 0..MaxChanges /\ tick \in Counters \cup {Nil}
      /\ sub \in {"none", "asked", "on"} /\ missed \in BOOLEAN
  BY <1>1 DEF FeedInit
<1> QED
  BY <1>2, <1>3, <1>4 DEF FeedTypeOK

(* A change is announced: its event is to be sent.                               *)
LEMMA ChangeFeed ==
    ASSUME FeedTypeOK, NEW j \in Jobs, NEW p \in Phases \cup {"gone"},
           NEW e \in {"added", "updated", "removed", "ended"}, Change(j, p, e)
    PROVE  /\ FeedTypeOK' /\ missed' = missed
           /\ job' = [job EXCEPT ![j] = p]
           /\ OnTheWay(Event(e, j))'
           /\ \A d : OnTheWay(d) => OnTheWay(d)'
<1> USE FeedAssumption DEF Change
<1>1. Event(e, j) \in DomainEvents
  BY DEF Event, DomainEvents
<1>2. job \in [Jobs -> Phases \cup {"unborn", "gone"}]
  BY DEF FeedTypeOK
<1>3. job' \in [Jobs -> Phases \cup {"unborn", "gone"}]
  BY <1>2
<1>4. FeedTypeOK'
  BY <1>1, <1>3 DEF FeedTypeOK
<1> QED
  BY <1>4 DEF OnTheWay

(* An event joins the end of the bus; what a full bus drops makes `missed` true  *)
(* if it changes the list.                                                       *)
LEMMA EmitFeed ==
    ASSUME FeedTypeOK, Sends
    PROVE  /\ FeedTypeOK'
           /\ ~missed' => \A d \in ListEvents : OnTheWay(d) => OnTheWay(d)'
<1> USE FeedAssumption
<1>1. PICK e \in owed : Emit(e)
  BY DEF Sends
<1>2. e \in DomainEvents /\ e.job \in Jobs
  BY DEF FeedTypeOK, DomainEvents
<1>3. bus \in Seq(DomainEvents) /\ Len(bus) \in Nat
  BY LenProperties DEF FeedTypeOK
<1>4. owed' \subseteq DomainEvents /\ owed \ {e} \subseteq owed'
  BY <1>1, <1>2 DEF FeedTypeOK, Emit, DomainEvents, Event
<1> DEFINE kept == IF Len(bus) = BusCap THEN Tail(bus) ELSE bus
<1>5. /\ kept \in Seq(DomainEvents) /\ Len(kept) \in Nat /\ Len(kept) < BusCap
  <2>1. CASE Len(bus) = BusCap
    <3>1. bus # <<>>
      BY <2>1, EmptySeq
    <3> QED
      BY <1>3, <2>1, <3>1, HeadTailProperties, LenProperties
  <2>2. CASE Len(bus) # BusCap
    BY <1>3, <2>2 DEF FeedTypeOK
  <2> QED
    BY <2>1, <2>2
<1>6. ASSUME NEW d \in ListEvents, NEW i \in 1..Len(bus), bus[i] = d, ~missed', sub = "on"
      PROVE  \E k \in 1..Len(kept) : kept[k] = d
  <2>1. CASE Len(bus) = BusCap
    <3>1. bus # <<>> /\ Head(bus) = bus[1]
      BY <1>3, <2>1, EmptySeq
    <3>2. i # 1
      BY <1>1, <1>6, <2>1, <3>1 DEF Emit, ListEvents
    <3>3. i - 1 \in 1..Len(Tail(bus)) /\ Tail(bus)[i - 1] = bus[i]
      BY <1>3, <3>1, <3>2, HeadTailProperties
    <3> QED
      BY <1>6, <2>1, <3>3
  <2> QED
    BY <1>6, <2>1
<1> HIDE DEF kept
<1>7. bus' = IF sub # "on" THEN bus ELSE Append(kept, e)
  BY <1>1 DEF Emit, kept
<1>8. bus' \in Seq(DomainEvents) /\ Len(bus') <= BusCap
  BY <1>2, <1>5, <1>7 DEF FeedTypeOK
<1>9. FeedTypeOK'
  BY <1>1, <1>4, <1>8 DEF Emit, FeedTypeOK
<1>10. ASSUME ~missed', NEW d \in ListEvents, OnTheWay(d) PROVE OnTheWay(d)'
  <2>1. out' = out
    BY <1>1 DEF Emit
  <2>2. CASE \E i \in 1..Len(out) : out[i] = Changed
    BY <2>1, <2>2 DEF OnTheWay
  <2>3. CASE d \in owed
    <3>1. CASE d # e
      BY <1>4, <2>3, <3>1 DEF OnTheWay
    <3>2. CASE d = e
      <4>1. sub = "on"
        BY <1>1, <1>10, <3>2 DEF Emit, ListEvents
      <4>2. Len(bus') = Len(kept) + 1 /\ bus'[Len(kept) + 1] = e
        BY <1>2, <1>5, <1>7, <4>1
      <4>3. Len(kept) + 1 \in 1..Len(bus')
        BY <1>5, <4>2
      <4> QED
        BY <3>2, <4>2, <4>3 DEF OnTheWay
    <3> QED
      BY <3>1, <3>2
  <2>4. ASSUME NEW i \in 1..Len(bus), bus[i] = d PROVE OnTheWay(d)'
    <3>1. CASE sub # "on"
      BY <1>7, <2>4, <3>1 DEF OnTheWay
    <3>2. CASE sub = "on"
      <4>1. PICK k \in 1..Len(kept) : kept[k] = d
        BY <1>6, <1>10, <2>4, <3>2
      <4>2. k \in 1..Len(bus') /\ bus'[k] = kept[k]
        BY <1>2, <1>5, <1>7, <3>2
      <4> QED
        BY <4>1, <4>2 DEF OnTheWay
    <3> QED
      BY <3>1, <3>2
  <2> QED
    BY <1>10, <2>2, <2>3, <2>4 DEF OnTheWay
<1> QED
  BY <1>9, <1>10

(* What is appended to the channel leaves what was on the way where it was.      *)
LEMMA AppendOut ==
    ASSUME FeedTypeOK, NEW m \in Messages, Len(out) < Room, out' = Append(out, m)
    PROVE  /\ out' \in Seq(Messages) /\ Len(out') <= Room
           /\ \A i \in 1..Len(out) : i \in 1..Len(out') /\ out'[i] = out[i]
           /\ Len(out) + 1 \in 1..Len(out') /\ out'[Len(out) + 1] = m
<1>1. out \in Seq(Messages) /\ Len(out) \in Nat /\ Room \in Nat
  BY LenProperties, FeedAssumption DEF FeedTypeOK
<1>2. out' \in Seq(Messages) /\ Len(out') = Len(out) + 1
  BY <1>1, AppendProperties
<1> QED
  BY <1>1, <1>2, AppendProperties

(* The forwarder turns a change of the list into a reason to look at everything. *)
LEMMA ForwardFeed ==
    ASSUME FeedTypeOK, Forward
    PROVE  FeedTypeOK' /\ \A d \in ListEvents : OnTheWay(d) => OnTheWay(d)'
<1> USE DEF Forward
<1>1. owed' = owed
  BY DEF daemonVars
<1>2. /\ bus \in Seq(DomainEvents) /\ Len(bus) \in Nat /\ BusCap \in Nat
      /\ bus # <<>> /\ Len(bus) <= BusCap
  BY LenProperties, FeedAssumption DEF FeedTypeOK
<1>3. /\ Head(bus) \in DomainEvents /\ Head(bus) = bus[1]
      /\ bus' \in Seq(DomainEvents) /\ Len(bus') = Len(bus) - 1
      /\ \A i \in 1..Len(bus') : bus'[i] = bus[i + 1]
  BY <1>2, HeadTailProperties
<1>4. MapDomainEvent(Head(bus)) \in Messages
  BY <1>3 DEF MapDomainEvent, DomainEvents, Messages, Changed
<1>5. /\ out' \in Seq(Messages) /\ Len(out') <= Room
      /\ \A i \in 1..Len(out) : i \in 1..Len(out') /\ out'[i] = out[i]
      /\ Len(out) + 1 \in 1..Len(out') /\ out'[Len(out) + 1] = MapDomainEvent(Head(bus))
  BY <1>4, AppendOut
<1>6. FeedTypeOK'
  BY <1>2, <1>3, <1>5 DEF FeedTypeOK, daemonVars, Counters
<1>7. ASSUME NEW d \in ListEvents, OnTheWay(d) PROVE OnTheWay(d)'
  <2>1. CASE d \in owed
    BY <1>1, <2>1 DEF OnTheWay
  <2>2. CASE \E i \in 1..Len(out) : out[i] = Changed
    BY <1>5, <2>2 DEF OnTheWay, Changed
  <2>3. ASSUME NEW i \in 1..Len(bus), bus[i] = d PROVE OnTheWay(d)'
    <3>1. CASE i = 1
      <4>1. MapDomainEvent(Head(bus)) = Changed
        BY <1>3, <2>3, <3>1 DEF MapDomainEvent, ListEvents
      <4> QED
        BY <1>5, <4>1 DEF OnTheWay, Changed
    <3>2. CASE i # 1
      <4>1. i - 1 \in 1..Len(bus') /\ bus'[i - 1] = bus[i]
        BY <1>2, <1>3, <3>2
      <4> QED
        BY <2>3, <4>1 DEF OnTheWay
    <3> QED
      BY <3>1, <3>2
  <2> QED
    BY <1>7, <2>1, <2>2, <2>3 DEF OnTheWay
<1> QED
  BY <1>6, <1>7

LEMMA TicksFeed ==
    ASSUME FeedTypeOK, CollectTick \/ SendTick
    PROVE  FeedTypeOK' /\ \A d : OnTheWay(d) => OnTheWay(d)'
<1>1. owed' = owed /\ bus' = bus
  BY DEF CollectTick, SendTick, daemonVars
<1>2. CASE CollectTick
  <2>1. CollectCounters \in Counters
    BY DEF CollectCounters, Counters, Listed
  <2>2. FeedTypeOK'
    BY <1>2, <2>1 DEF FeedTypeOK, CollectTick, daemonVars, Counters
  <2>3. \A d : OnTheWay(d) => OnTheWay(d)'
    BY <1>1, <1>2 DEF OnTheWay, CollectTick
  <2> QED
    BY <2>2, <2>3
<1>3. CASE SendTick
  <2> DEFINE m == [kind |-> "counters", at |-> tick]
  <2>1. m \in Messages
    BY <1>3 DEF SendTick, FeedTypeOK, Messages
  <2>2. /\ out' \in Seq(Messages) /\ Len(out') <= Room
        /\ \A i \in 1..Len(out) : i \in 1..Len(out') /\ out'[i] = out[i]
    BY <1>3, <2>1, AppendOut DEF SendTick
  <2>3. FeedTypeOK'
    BY <1>1, <1>3, <2>2 DEF FeedTypeOK, SendTick, daemonVars, Counters
  <2>4. \A d : OnTheWay(d) => OnTheWay(d)'
    BY <1>1, <2>2 DEF OnTheWay, Changed
  <2> QED
    BY <2>3, <2>4
<1> QED
  BY <1>2, <1>3

(* Of the steps of the feed itself none takes a change of the list off its way,  *)
(* unless it makes `missed` true.                                                *)
LEMMA FeedStep ==
    ASSUME FeedTypeOK, Sends \/ JoinBus \/ Forward \/ CollectTick \/ SendTick
    PROVE  /\ FeedTypeOK' /\ job' = job /\ (~missed' => ~missed)
           /\ ~missed' => \A d \in ListEvents : OnTheWay(d) => OnTheWay(d)'
<1>1. job' = job /\ (~missed' => ~missed)
  <2>1. CASE Sends
    <3>1. PICK e \in owed : Emit(e)
      BY <2>1 DEF Sends
    <3> QED
      BY <3>1 DEF Emit
  <2>2. CASE JoinBus \/ Forward \/ CollectTick \/ SendTick
    BY <2>2 DEF JoinBus, Forward, CollectTick, SendTick, daemonVars
  <2> QED
    BY <2>1, <2>2
<1>2. CASE JoinBus
  BY <1>1, <1>2 DEF JoinBus, FeedTypeOK, OnTheWay, daemonVars, Counters
<1> QED
  BY <1>1, <1>2, EmitFeed, ForwardFeed, TicksFeed

--------------------------------------------------------------------------------
(* A command that waits.                                                         *)

(* The command is told, is about to look, or has looked and not taken it in yet. *)
WillBeSeen(j) ==
    \/ OnTheWay(Event("removed", j))
    \/ j \in todo
    \/ answer # Nil /\ answer.job = j /\ answer.state = "removed"

RemovalOnTheWay ==
    pc \in {"look", "asked", "reading"} /\ ~missed =>
        \A j \in Pending : job[j] = "gone" => WillBeSeen(j)

(* The command follows downloads that were in the list, and reads on only when   *)
(* it has looked at what it had to.                                              *)
TrackedBorn == \A j \in Tracked : job[j] # "unborn"
LookedFirst == pc = "reading" => todo = {}

IInv == TypeOK /\ TrackedBorn /\ LookedFirst /\ RemovalOnTheWay

LEMMA InitInv == Init => IInv
<1> SUFFICES ASSUME Init PROVE IInv
  OBVIOUS
<1> USE WaitAssumption DEF Init
<1>1. TypeOK
  BY FeedStarts DEF TypeOK
<1>2. TrackedBorn /\ LookedFirst /\ RemovalOnTheWay
  BY DEF TrackedBorn, LookedFirst, RemovalOnTheWay
<1> QED
  BY <1>1, <1>2 DEF IInv

(* A removal is announced, whatever else changes.                                *)
LEMMA ChangeInv ==
    ASSUME IInv, UNCHANGED followVars,
           NEW j \in Jobs, NEW p \in Phases \cup {"gone"},
           NEW e \in {"added", "updated", "removed", "ended"},
           Change(j, p, e), p = "gone" => e = "removed"
    PROVE  IInv'
<1> USE WaitAssumption DEF IInv, followVars
<1>1. /\ FeedTypeOK' /\ missed' = missed /\ job' = [job EXCEPT ![j] = p]
      /\ OnTheWay(Event(e, j))' /\ \A d : OnTheWay(d) => OnTheWay(d)'
  BY ChangeFeed DEF TypeOK
<1>2. job \in [Jobs -> Phases \cup {"unborn", "gone"}]
  BY DEF TypeOK, FeedTypeOK
<1>3. TypeOK'
  BY <1>1 DEF TypeOK
<1>4. TrackedBorn'
  BY <1>1, <1>2 DEF TrackedBorn, Phases
<1>5. RemovalOnTheWay'
  <2> SUFFICES ASSUME pc \in {"look", "asked", "reading"}, ~missed,
                      NEW k \in Pending, job'[k] = "gone"
               PROVE  WillBeSeen(k)'
    BY <1>1 DEF RemovalOnTheWay, Pending
  <2>1. CASE k = j
    <3>1. p = "gone"
      BY <1>1, <1>2, <2>1
    <3> QED
      BY <1>1, <2>1, <3>1 DEF WillBeSeen, Event
  <2>2. CASE k # j
    <3>1. job[k] = "gone" /\ k \in Jobs
      BY <1>1, <1>2, <2>2 DEF Pending
    <3>2. WillBeSeen(k)
      BY <3>1 DEF RemovalOnTheWay
    <3> QED
      BY <1>1, <3>2 DEF WillBeSeen, Event
  <2> QED
    BY <2>1, <2>2
<1> QED
  BY <1>3, <1>4, <1>5 DEF LookedFirst

LEMMA DaemonInv ==
    ASSUME IInv, Beside(DaemonStep)
    PROVE  IInv'
<1> USE DEF Beside
<1>1. PICK j \in Jobs : Add(j) \/ Stop(j) \/ Resume(j) \/ Complete(j) \/ Remove(j)
  BY DEF DaemonStep
<1>2. CASE Add(j)
  BY <1>2, ChangeInv DEF Add, Phases
<1>3. CASE Stop(j)
  BY <1>3, ChangeInv DEF Stop, Phases
<1>4. CASE Resume(j)
  BY <1>4, ChangeInv DEF Resume, Phases
<1>5. CASE Complete(j)
  BY <1>5, ChangeInv DEF Complete, Phases
<1>6. CASE Remove(j)
  BY <1>6, ChangeInv DEF Remove, Phases
<1> QED
  BY <1>1, <1>2, <1>3, <1>4, <1>5, <1>6

(* What is known of the feed and of the command's looks carries over when        *)
(* nothing that was on the way is lost.                                          *)
LEMMA FeedInv ==
    ASSUME IInv, Beside(Sends \/ JoinBus \/ Forward \/ CollectTick \/ SendTick)
    PROVE  IInv'
<1> USE WaitAssumption DEF IInv, Beside, followVars
<1>1. /\ FeedTypeOK' /\ job' = job /\ (~missed' => ~missed)
      /\ ~missed' => \A d \in ListEvents : OnTheWay(d) => OnTheWay(d)'
  BY FeedStep DEF TypeOK
<1>2. TypeOK'
  BY <1>1 DEF TypeOK
<1>3. TrackedBorn' /\ LookedFirst'
  BY <1>1 DEF TrackedBorn, LookedFirst
<1>4. ASSUME pc \in {"look", "asked", "reading"}, ~missed', NEW k \in Pending, job[k] = "gone"
      PROVE  WillBeSeen(k)'
  <2>1. WillBeSeen(k) /\ Event("removed", k) \in ListEvents
    BY <1>1, <1>4 DEF RemovalOnTheWay, Pending, Event, ListEvents
  <2> QED
    BY <1>1, <1>4, <2>1 DEF WillBeSeen, Event
<1>5. RemovalOnTheWay'
  BY <1>1, <1>4 DEF RemovalOnTheWay, Pending
<1> QED
  BY <1>2, <1>3, <1>5

--------------------------------------------------------------------------------
(* Steps of the command.                                                         *)

(* It subscribes before it looks, and then it looks at everything.               *)
LEMMA BeginInv ==
    ASSUME IInv, Begin
    PROVE  IInv'
<1> USE WaitAssumption DEF Begin, SubscribeNow
<1>1. TypeOK'
  BY DEF IInv, TypeOK, FeedTypeOK, daemonVars, Counters
<1>2. TrackedBorn' /\ LookedFirst'
  BY DEF IInv, TrackedBorn, LookedFirst, daemonVars
<1>3. RemovalOnTheWay'
  BY DEF RemovalOnTheWay, WillBeSeen, Pending
<1> QED
  BY <1>1, <1>2, <1>3 DEF IInv

(* The daemon's answer about a download that has gone is that it was removed.    *)
LEMMA AskInv ==
    ASSUME IInv, NEW j \in Tracked, Ask(j)
    PROVE  IInv'
<1> USE WaitAssumption DEF Ask, feedVars, daemonVars
<1>1. j \in Jobs /\ job[j] # "unborn"
  BY DEF IInv, TrackedBorn
<1>2. JobEntry(j) \in Phases \cup {"removed"} /\ (job[j] = "gone" => JobEntry(j) = "removed")
  BY <1>1 DEF JobEntry, Listed, Phases
<1>3. answer' \in [job : Tracked, state : Phases \cup {"removed"}] /\ answer' # Nil
  BY <1>1, <1>2
<1>4. TypeOK'
  BY <1>3 DEF IInv, TypeOK, FeedTypeOK, Counters
<1>5. TrackedBorn' /\ LookedFirst'
  BY DEF IInv, TrackedBorn, LookedFirst
<1>6. ASSUME ~missed, NEW k \in Pending, job[k] = "gone" PROVE WillBeSeen(k)'
  <2>1. CASE k = j
    BY <1>2, <1>3, <1>6, <2>1 DEF WillBeSeen
  <2>2. CASE k # j
    <3>1. WillBeSeen(k)
      BY <1>6 DEF IInv, RemovalOnTheWay
    <3>2. answer = Nil
      BY DEF IInv, TypeOK
    <3> QED
      BY <2>2, <3>1, <3>2 DEF WillBeSeen, OnTheWay
  <2> QED
    BY <2>1, <2>2
<1>7. RemovalOnTheWay'
  BY <1>6 DEF RemovalOnTheWay, Pending
<1> QED
  BY <1>4, <1>5, <1>7 DEF IInv

(* Taken in, it is an outcome: the download is not waited for any more.          *)
LEMMA ObserveInv ==
    ASSUME IInv, Observe
    PROVE  IInv'
<1> USE DEF Observe, feedVars, daemonVars
<1>1. answer \in [job : Tracked, state : Phases \cup {"removed"}] /\ answer # Nil
  BY DEF IInv, TypeOK
<1>2. track \in [Tracked -> {"new", "going"} \cup Ends]
  BY DEF IInv, TypeOK
<1>3. track' \in [Tracked -> {"new", "going"} \cup Ends]
  BY <1>1, <1>2 DEF Phases, Ends
<1>4. TypeOK'
  BY <1>3 DEF IInv, TypeOK, FeedTypeOK, Counters
<1>5. TrackedBorn' /\ LookedFirst'
  BY DEF IInv, TrackedBorn, LookedFirst
<1>6. Pending' \subseteq Pending /\ (answer.state = "removed" => answer.job \notin Pending')
  BY <1>1, <1>2 DEF Pending, Ends
<1>7. ASSUME ~missed, NEW k \in Pending', job[k] = "gone" PROVE WillBeSeen(k)'
  <2>1. WillBeSeen(k)
    BY <1>6, <1>7 DEF IInv, RemovalOnTheWay
  <2>2. ~(answer.job = k /\ answer.state = "removed")
    BY <1>6, <1>7
  <2> QED
    BY <2>1, <2>2 DEF WillBeSeen, OnTheWay
<1>8. RemovalOnTheWay'
  BY <1>7 DEF RemovalOnTheWay
<1> QED
  BY <1>4, <1>5, <1>8 DEF IInv

LEMMA WaitInv ==
    ASSUME IInv, Wait
    PROVE  IInv'
<1> USE DEF Wait, feedVars, daemonVars
<1>1. TypeOK'
  BY DEF IInv, TypeOK, FeedTypeOK, Counters
<1>2. TrackedBorn' /\ LookedFirst'
  BY DEF IInv, TrackedBorn, LookedFirst
<1>3. RemovalOnTheWay'
  BY DEF IInv, RemovalOnTheWay, WillBeSeen, OnTheWay, Pending
<1> QED
  BY <1>1, <1>2, <1>3 DEF IInv

LEMMA LeavesInv ==
    ASSUME IInv, Finish \/ GiveUp
    PROVE  IInv'
<1> USE FeedAssumption DEF Finish, GiveUp, Leaves, HangUp, daemonVars
<1>1. /\ bus' \in Seq(DomainEvents) /\ Len(bus') <= BusCap
      /\ out' \in Seq(Messages) /\ Len(out') <= Room
  <2>1. bus' = <<>> /\ out' = <<>>
    OBVIOUS
  <2>2. BusCap \in Nat /\ Room \in Nat
    OBVIOUS
  <2> QED
    BY ONLY <2>1, <2>2, EmptySeq
<1>2. answer = Nil
  BY DEF IInv, TypeOK
<1>3. TypeOK'
  BY <1>1, <1>2 DEF IInv, TypeOK, FeedTypeOK, Counters
<1>4. TrackedBorn' /\ LookedFirst' /\ RemovalOnTheWay'
  BY DEF IInv, TrackedBorn, LookedFirst, RemovalOnTheWay
<1> QED
  BY <1>3, <1>4 DEF IInv

(* It reads a burst: a message that makes it look at everything is either in the *)
(* burst, and then it will look, or still in the channel.                        *)
LEMMA ReadInv ==
    ASSUME IInv, Read
    PROVE  IInv'
<1> USE DEF Read, daemonVars
<1>1. PICK n \in 1..Len(out) : todo' = Burst(n) /\ out' = SubSeq(out, n + 1, Len(out))
  OBVIOUS
<1>2. out \in Seq(Messages) /\ Len(out) \in Nat /\ Len(out) <= Room /\ Room \in Nat
  BY LenProperties, FeedAssumption DEF IInv, TypeOK, FeedTypeOK
<1>3. /\ out' \in Seq(Messages) /\ Len(out') = Len(out) - n
      /\ \A i \in 1..Len(out') : out'[i] = out[i + n]
  <2>1. n + 1 \in Int /\ Len(out) \in Int /\ \A i \in n + 1..Len(out) : out[i] \in Messages
    BY <1>1, <1>2, ElementOfSeq
  <2> QED
    BY ONLY <1>1, <1>2, <2>1, SubSeqProperties
<1>4. \A m \in Messages : Marks(m) \subseteq Tracked
  BY DEF Marks, Messages, Changed, Pending
<1>5. todo' \subseteq Tracked
  BY <1>1, <1>2, <1>4, ElementOfSeq DEF Burst
<1>6. TypeOK'
  BY <1>2, <1>3, <1>5 DEF IInv, TypeOK, FeedTypeOK, Counters
<1>7. TrackedBorn' /\ LookedFirst'
  BY DEF IInv, TrackedBorn, LookedFirst
<1>8. ASSUME ~missed, NEW k \in Pending, job[k] = "gone" PROVE WillBeSeen(k)'
  <2>1. answer = Nil /\ todo = {}
    BY DEF IInv, TypeOK, LookedFirst
  <2>2. OnTheWay(Event("removed", k))
    BY <1>8, <2>1 DEF IInv, RemovalOnTheWay, WillBeSeen
  <2>3. ASSUME NEW i \in 1..Len(out), out[i] = Changed PROVE WillBeSeen(k)'
    <3>1. CASE i <= n
      <4>1. Marks(out[i]) = Pending
        BY <2>3 DEF Marks, Changed
      <4>2. i \in 1..n
        BY <1>2, <3>1
      <4>3. k \in todo'
        BY <1>1, <1>8, <4>1, <4>2 DEF Burst
      <4> QED
        BY <4>3 DEF WillBeSeen
    <3>2. CASE i > n
      <4>1. i - n \in 1..Len(out') /\ out'[i - n] = out[i]
        BY <1>2, <1>3, <3>2
      <4> QED
        BY <2>3, <4>1 DEF WillBeSeen, OnTheWay, Changed
    <3> QED
      BY <1>2, <3>1, <3>2
  <2> QED
    BY <2>2, <2>3 DEF WillBeSeen, OnTheWay, Event
<1>9. RemovalOnTheWay'
  BY <1>8 DEF RemovalOnTheWay, Pending
<1> QED
  BY <1>6, <1>7, <1>9 DEF IInv

--------------------------------------------------------------------------------
(* The theorems.                                                                 *)

LEMMA StepInv == IInv /\ [Next]_vars => IInv'
<1> SUFFICES ASSUME IInv, [Next]_vars PROVE IInv'
  OBVIOUS
<1>1. CASE Beside(DaemonStep)
  BY <1>1, DaemonInv
<1>2. CASE Beside(Sends) \/ Beside(JoinBus) \/ Beside(Forward)
           \/ Beside(CollectTick) \/ Beside(SendTick)
  BY <1>2, FeedInv DEF Beside
<1>3. CASE Begin
  BY <1>3, BeginInv
<1>4. CASE FollowStep
  <2>1. CASE Observe
    BY <2>1, ObserveInv
  <2>2. CASE Wait
    BY <2>2, WaitInv
  <2>3. CASE Finish
    BY <2>3, LeavesInv
  <2>4. CASE Read
    BY <2>4, ReadInv
  <2>5. CASE \E j \in Tracked : Ask(j)
    BY <2>5, AskInv
  <2> QED
    BY <1>4, <2>1, <2>2, <2>3, <2>4, <2>5 DEF FollowStep
<1>5. CASE GiveUp
  BY <1>5, LeavesInv
<1>6. CASE UNCHANGED vars
  BY <1>6 DEF vars, feedVars, daemonVars, followVars, IInv, TypeOK, FeedTypeOK, Counters,
              TrackedBorn, LookedFirst, RemovalOnTheWay, WillBeSeen, OnTheWay, Pending
<1> QED
  BY <1>1, <1>2, <1>3, <1>4, <1>5, <1>6 DEF Next

(* A removal that the command does not know of is on its way to it, unless the   *)
(* event was lost before it reached the pump.                                    *)
THEOREM Invariant == Spec => []IInv
<1> QED
  BY InitInv, StepInv, PTL DEF Spec

(* Every variable keeps its type; the bus and the channels keep their capacity.  *)
THEOREM TypeCorrect == Spec => []TypeOK
<1>1. IInv => TypeOK
  BY DEF IInv
<1> QED
  BY <1>1, Invariant, PTL

(* A command that waits for the next event, with nothing on the way, has not     *)
(* overlooked that a download it waits for was removed (wait.rs 256-260), unless *)
(* the event was lost before it reached the pump.                                *)
THEOREM RemovalNoticed == Spec => []RemovalIsSeen
<1>1. IInv => RemovalIsSeen
  <2> SUFFICES ASSUME IInv, pc = "reading", FeedQuiet, ~missed, NEW j \in Pending
               PROVE  j \in Listed
    BY DEF RemovalIsSeen
  <2>1. j \in Jobs /\ job[j] \in Phases \cup {"gone"}
    BY WaitAssumption DEF IInv, TypeOK, FeedTypeOK, TrackedBorn, Pending
  <2>2. todo = {} /\ answer = Nil
    BY DEF IInv, TypeOK, LookedFirst
  <2>3. ~OnTheWay(Event("removed", j))
    BY EmptySeq DEF FeedQuiet, OnTheWay
  <2>4. job[j] # "gone"
    BY <2>2, <2>3 DEF IInv, RemovalOnTheWay, WillBeSeen
  <2> QED
    BY <2>1, <2>4 DEF Listed
<1> QED
  BY <1>1, Invariant, PTL

--------------------------------------------------------------------------------
(* The main window.                                                              *)

(* The list shown came with an answer, and answers carry what was read.          *)
AnswersRead ==
    /\ reads \in Nat /\ shown \in 0..reads
    /\ app # "connecting" => reads > 0
    /\ \A r \in Requests :
           /\ request[r].read \in 0..reads
           /\ request[r].pc \in {"counted", "read"} => request[r].counters \in Counters
           /\ request[r].pc = "read" => request[r].list \in Counters /\ request[r].read > 0

WindowTypes ==
    /\ FeedTypeOK
    /\ app \in {"connecting", "opened", "ready"}
    /\ request \in [Requests -> [pc : {"none", "asked", "counted", "read"},
                                 counters : Counters \cup {Nil},
                                 list : Counters \cup {Nil}, read : Nat]]
    /\ list \in Counters /\ counters \in Counters /\ prev = Size(list) /\ announced \in Nat
    /\ AnswersRead

(* The job list will be read again, or something is on the way that makes the    *)
(* window ask for it.                                                            *)
WillBeReread(j) ==
    \/ OnTheWay(Event("added", j)) \/ OnTheWay(Event("removed", j))
    \/ \E r \in Requests : request[r].pc \in {"asked", "counted"}

Current(l) == \A j \in Jobs : (l[j] # "absent" <=> j \in Listed) \/ WillBeReread(j)

(* What was read last is current, shown or still to be taken in.                 *)
LastReadIsCurrent ==
    ~missed =>
        /\ reads > 0 /\ shown = reads => Current(list)
        /\ \A r \in Requests :
               request[r].pc = "read" /\ request[r].read = reads => Current(request[r].list)

WindowInv == WindowTypes /\ LastReadIsCurrent

LEMMA SizeType ==
    ASSUME NEW l PROVE Size(l) \in Nat
<1>1. IsFiniteSet({j \in Jobs : l[j] # "absent"})
  BY WindowAssumption, FS_Subset
<1> QED
  BY <1>1, FS_CardinalityType DEF Size

LEMMA InitWindow == WindowInit => WindowInv
<1> SUFFICES ASSUME WindowInit PROVE WindowInv
  OBVIOUS
<1> USE DEF WindowInit
<1>1. FeedTypeOK
  BY FeedStarts
<1>2. Absent \in Counters /\ Size(Absent) = 0
  BY FS_EmptySet DEF Absent, Counters, Size
<1>3. request \in [Requests -> [pc : {"none", "asked", "counted", "read"},
                                counters : Counters \cup {Nil},
                                list : Counters \cup {Nil}, read : Nat]]
  BY DEF Asked, NoRequest
<1>4. \A r \in Requests : request[r].pc \in {"none", "asked"} /\ request[r].read = 0
  BY DEF Asked, NoRequest
<1>5. AnswersRead
  BY <1>4 DEF AnswersRead
<1>6. LastReadIsCurrent
  BY <1>4 DEF LastReadIsCurrent
<1> QED
  BY <1>1, <1>2, <1>3, <1>5, <1>6 DEF WindowInv, WindowTypes

(* A change of what is listed is announced.                                      *)
LEMMA ChangeWindow ==
    ASSUME WindowInv, UNCHANGED windowVars,
           NEW j \in Jobs, NEW p \in Phases \cup {"gone"},
           NEW e \in {"added", "updated", "removed", "ended"}, Change(j, p, e),
           (job[j] \in Phases <=> p \in Phases) \/ e \in {"added", "removed"}
    PROVE  WindowInv'
<1> USE DEF windowVars
<1>1. /\ FeedTypeOK' /\ missed' = missed /\ job' = [job EXCEPT ![j] = p]
      /\ OnTheWay(Event(e, j))' /\ \A d : OnTheWay(d) => OnTheWay(d)'
  BY ChangeFeed DEF WindowInv, WindowTypes
<1>2. job \in [Jobs -> Phases \cup {"unborn", "gone"}]
  BY DEF WindowInv, WindowTypes, FeedTypeOK
<1>3. WindowTypes'
  BY <1>1 DEF WindowInv, WindowTypes, AnswersRead, Size, Counters
<1>4. \A k \in Jobs : WillBeReread(k) => WillBeReread(k)'
  BY <1>1 DEF WillBeReread, Event
<1>5. \A k \in Jobs : (k \in Listed <=> k \in Listed') \/ WillBeReread(k)'
  BY <1>1, <1>2 DEF Listed, WillBeReread, Event
<1>6. \A l : Current(l) => Current(l)'
  BY <1>4, <1>5 DEF Current
<1>7. LastReadIsCurrent'
  BY <1>1, <1>6 DEF WindowInv, LastReadIsCurrent
<1> QED
  BY <1>3, <1>7 DEF WindowInv

LEMMA DaemonWindow ==
    ASSUME WindowInv, BesideWindow(DaemonStep)
    PROVE  WindowInv'
<1> USE DEF BesideWindow
<1>1. PICK j \in Jobs : Add(j) \/ Stop(j) \/ Resume(j) \/ Complete(j) \/ Remove(j)
  BY DEF DaemonStep
<1>2. CASE Add(j)
  BY <1>2, ChangeWindow DEF Add, Phases
<1>3. CASE Stop(j)
  BY <1>3, ChangeWindow DEF Stop, Phases
<1>4. CASE Resume(j)
  BY <1>4, ChangeWindow DEF Resume, Phases
<1>5. CASE Complete(j)
  BY <1>5, ChangeWindow DEF Complete, Phases
<1>6. CASE Remove(j)
  BY <1>6, ChangeWindow DEF Remove, Phases
<1> QED
  BY <1>1, <1>2, <1>3, <1>4, <1>5, <1>6

LEMMA FeedWindow ==
    ASSUME WindowInv,
           BesideWindow(Sends \/ JoinBus \/ Forward \/ CollectTick \/ SendTick)
    PROVE  WindowInv'
<1> USE DEF BesideWindow, windowVars
<1>1. /\ FeedTypeOK' /\ job' = job /\ (~missed' => ~missed)
      /\ ~missed' => \A d \in ListEvents : OnTheWay(d) => OnTheWay(d)'
  BY FeedStep DEF WindowInv, WindowTypes
<1>2. WindowTypes'
  BY <1>1 DEF WindowInv, WindowTypes, AnswersRead, Size, Counters
<1>3. ASSUME ~missed', NEW j \in Jobs, WillBeReread(j) PROVE WillBeReread(j)'
  <2>1. Event("added", j) \in ListEvents /\ Event("removed", j) \in ListEvents
    BY DEF Event, ListEvents
  <2> QED
    BY <1>1, <1>3, <2>1 DEF WillBeReread, Event
<1>4. ASSUME ~missed', NEW l, Current(l) PROVE Current(l)'
  BY <1>1, <1>3, <1>4 DEF Current, Listed
<1>5. LastReadIsCurrent'
  BY <1>1, <1>4 DEF WindowInv, LastReadIsCurrent
<1> QED
  BY <1>2, <1>5 DEF WindowInv

(* What a request has read so far leaves what will be read again as it was.      *)
LEMMA CountersWindow ==
    ASSUME WindowInv, NEW r \in Requests, ReadCounters(r)
    PROVE  WindowInv'
<1> USE DEF ReadCounters, Set, feedVars, daemonVars
<1>1. CollectCounters \in Counters
  BY DEF CollectCounters, Counters, Listed
<1>2. /\ request \in [Requests -> [pc : {"none", "asked", "counted", "read"},
                                   counters : Counters \cup {Nil},
                                   list : Counters \cup {Nil}, read : Nat]]
      /\ AnswersRead
  BY DEF WindowInv, WindowTypes
<1>3. request' \in [Requests -> [pc : {"none", "asked", "counted", "read"},
                                 counters : Counters \cup {Nil},
                                 list : Counters \cup {Nil}, read : Nat]]
  BY <1>1, <1>2
<1>4. /\ request'[r].pc = "counted" /\ request'[r].counters \in Counters
      /\ \A q \in Requests \ {r} : request'[q] = request[q]
  BY <1>1, <1>2
<1>5. AnswersRead'
  BY <1>2, <1>4 DEF AnswersRead, Counters
<1>6. WindowTypes'
  BY <1>3, <1>5 DEF WindowInv, WindowTypes, FeedTypeOK, Size, Counters
<1>7. \A j \in Jobs : WillBeReread(j) => WillBeReread(j)'
  BY <1>4 DEF WillBeReread, OnTheWay, Event
<1>8. \A l : Current(l) => Current(l)'
  BY <1>7 DEF Current, Listed
<1>9. LastReadIsCurrent'
  BY <1>4, <1>8 DEF WindowInv, LastReadIsCurrent
<1> QED
  BY <1>6, <1>9 DEF WindowInv

(* The list just read is the list there is; what was read before is not the last.*)
LEMMA ListWindow ==
    ASSUME WindowInv, NEW r \in Requests, ReadList(r)
    PROVE  WindowInv'
<1> USE DEF ReadList, Set, daemonVars
<1>1. CollectCounters \in Counters
  BY DEF CollectCounters, Counters, Listed
<1>2. /\ request \in [Requests -> [pc : {"none", "asked", "counted", "read"},
                                   counters : Counters \cup {Nil},
                                   list : Counters \cup {Nil}, read : Nat]]
      /\ AnswersRead /\ reads \in Nat
  BY DEF WindowInv, WindowTypes, AnswersRead
<1>3. request' \in [Requests -> [pc : {"none", "asked", "counted", "read"},
                                 counters : Counters \cup {Nil},
                                 list : Counters \cup {Nil}, read : Nat]]
  <2>1. [request[r] EXCEPT !.pc = "read", !.list = CollectCounters, !.read = reads + 1]
            \in [pc : {"none", "asked", "counted", "read"}, counters : Counters \cup {Nil},
                 list : Counters \cup {Nil}, read : Nat]
    <3>1. /\ request[r] \in [pc : {"none", "asked", "counted", "read"},
                             counters : Counters \cup {Nil}, list : Counters \cup {Nil}, read : Nat]
          /\ reads + 1 \in Nat
      BY <1>2
    <3> HIDE DEF ReadList
    <3> QED
      BY <1>1, <3>1
  <2> QED
    BY <1>2, <2>1
<1>4. /\ request'[r].pc = "read" /\ request'[r].counters = request[r].counters
      /\ request'[r].list = CollectCounters /\ request'[r].read = reads + 1
      /\ \A q \in Requests \ {r} : request'[q] = request[q]
  BY <1>1, <1>2
<1>5. AnswersRead'
  BY <1>1, <1>2, <1>4 DEF AnswersRead, Counters
<1>6. WindowTypes'
  BY <1>3, <1>5 DEF WindowInv, WindowTypes, FeedTypeOK, Size, Counters
<1>7. \A l : l = CollectCounters => Current(l)'
  BY <1>4 DEF Current, CollectCounters, Listed, Phases
<1>8. shown' # reads' /\ \A q \in Requests \ {r} :
          request'[q].pc = "read" => request'[q].read # reads'
  BY <1>2, <1>4 DEF AnswersRead
<1>9. LastReadIsCurrent'
  BY <1>7, <1>8 DEF LastReadIsCurrent
<1> QED
  BY <1>6, <1>9 DEF WindowInv

LEMMA SnapshotWindow ==
    ASSUME WindowInv, NEW r \in Requests, Snapshot(r)
    PROVE  WindowInv'
<1> USE DEF Snapshot, Set, Counted, feedVars, daemonVars
<1>1. /\ request \in [Requests -> [pc : {"none", "asked", "counted", "read"},
                                   counters : Counters \cup {Nil},
                                   list : Counters \cup {Nil}, read : Nat]]
      /\ AnswersRead /\ reads \in Nat /\ announced \in Nat /\ prev = Size(list)
  BY DEF WindowInv, WindowTypes, AnswersRead
<1>2. /\ list' \in Counters /\ counters' \in Counters
      /\ request[r].read \in 0..reads /\ reads > 0
  BY <1>1 DEF AnswersRead
<1>3. NoRequest \in [pc : {"none", "asked", "counted", "read"},
                     counters : Counters \cup {Nil}, list : Counters \cup {Nil}, read : Nat]
  BY DEF NoRequest
<1>4. /\ request' \in [Requests -> [pc : {"none", "asked", "counted", "read"},
                                    counters : Counters \cup {Nil},
                                    list : Counters \cup {Nil}, read : Nat]]
      /\ request'[r].pc = "none" /\ request'[r].read = 0
      /\ \A q \in Requests \ {r} : request'[q] = request[q]
  BY <1>1, <1>3 DEF NoRequest
<1>5. AnswersRead'
  BY <1>1, <1>2, <1>4 DEF AnswersRead, Counters
<1>6. announced' \in Nat /\ prev' = Size(list')
  <2>1. Size(list) \in Nat /\ Size(list') \in Nat
    BY SizeType
  <2> QED
    BY <1>1, <2>1
<1>7. WindowTypes'
  BY <1>2, <1>4, <1>5, <1>6 DEF WindowInv, WindowTypes, FeedTypeOK, Size, Counters
<1>8. \A j \in Jobs : WillBeReread(j) => WillBeReread(j)'
  BY <1>4 DEF WillBeReread, OnTheWay, Event
<1>9. \A l : Current(l) => Current(l)'
  BY <1>8 DEF Current, Listed
<1>10. LastReadIsCurrent'
  BY <1>1, <1>4, <1>9 DEF WindowInv, LastReadIsCurrent
<1> QED
  BY <1>7, <1>10 DEF WindowInv

LEMMA SubscribeWindow ==
    ASSUME WindowInv, Subscribe
    PROVE  WindowInv'
<1> USE DEF Subscribe, SubscribeNow, daemonVars
<1>1. WindowTypes'
  BY DEF WindowInv, WindowTypes, FeedTypeOK, AnswersRead, Size, Counters
<1>2. LastReadIsCurrent'
  BY DEF WindowInv, LastReadIsCurrent, Current, WillBeReread, OnTheWay, Listed
<1> QED
  BY <1>1, <1>2 DEF WindowInv

(* A message that is taken out of the channel because of a change of the list    *)
(* leaves a request behind.                                                      *)
LEMMA HearWindow ==
    ASSUME WindowInv, HearEvent
    PROVE  WindowInv'
<1> USE DEF HearEvent, daemonVars
<1> DEFINE m == Head(out)
<1>1. /\ out \in Seq(Messages) /\ Len(out) \in Nat /\ Len(out) <= Room /\ Room \in Nat
      /\ out # <<>>
  BY LenProperties, FeedAssumption DEF WindowInv, WindowTypes, FeedTypeOK
<1>2. /\ m \in Messages /\ m = out[1]
      /\ out' \in Seq(Messages) /\ Len(out') = Len(out) - 1
      /\ \A i \in 1..Len(out') : out'[i] = out[i + 1]
  BY <1>1, HeadTailProperties
<1>3. /\ request \in [Requests -> [pc : {"none", "asked", "counted", "read"},
                                   counters : Counters \cup {Nil},
                                   list : Counters \cup {Nil}, read : Nat]]
      /\ AnswersRead /\ counters \in Counters
  BY DEF WindowInv, WindowTypes
<1>4. /\ request' \in [Requests -> [pc : {"none", "asked", "counted", "read"},
                                    counters : Counters \cup {Nil},
                                    list : Counters \cup {Nil}, read : Nat]]
      /\ \A q \in Requests : request'[q] # request[q] =>
                                 request'[q].pc = "asked" /\ request'[q].read = 0
      /\ \A q \in Requests : request[q].pc \in {"asked", "counted"} =>
                                 request'[q].pc \in {"asked", "counted"}
      /\ m.kind = "changed" => \E q \in Requests : request'[q].pc = "asked"
  <2>1. CASE m.kind # "changed"
    BY <1>3, <2>1
  <2>2. CASE m.kind = "changed"
    <3> DEFINE r == CHOOSE q \in Free : TRUE
    <3>1. r \in Requests /\ request[r].pc = "none"
      BY <2>2 DEF Free
    <3>2. Asked \in [pc : {"none", "asked", "counted", "read"},
                     counters : Counters \cup {Nil}, list : Counters \cup {Nil}, read : Nat]
          /\ Asked.pc = "asked" /\ Asked.read = 0
      BY DEF Asked, NoRequest
    <3>3. request' = [request EXCEPT ![r] = Asked]
      BY <2>2 DEF Refresh, Set
    <3> HIDE DEF r
    <3> QED
      BY <1>3, <3>1, <3>2, <3>3
  <2> QED
    BY <2>1, <2>2
<1>5. counters' \in Counters
  <2>1. CASE m.kind # "counters"
    BY <1>3, <2>1
  <2>2. CASE m.kind = "counters"
    <3>1. m.at \in Counters
      BY <1>2, <2>2 DEF Messages, Changed
    <3>2. Merge(m.at) \in Counters
      BY <1>3, <3>1 DEF Merge, Counters
    <3> QED
      BY <2>2, <3>2
  <2> QED
    BY <2>1, <2>2
<1>6. AnswersRead'
  BY <1>3, <1>4 DEF AnswersRead, Counters
<1>7. FeedTypeOK'
  BY <1>1, <1>2 DEF WindowInv, WindowTypes, FeedTypeOK, Counters
<1>8. WindowTypes'
  BY <1>4, <1>5, <1>6, <1>7 DEF WindowInv, WindowTypes, Size, Counters
<1>9. ASSUME NEW j \in Jobs, WillBeReread(j) PROVE WillBeReread(j)'
  <2>1. ASSUME NEW d, OnTheWay(d) PROVE OnTheWay(d)' \/ m.kind = "changed"
    <3>1. ASSUME NEW i \in 1..Len(out), out[i] = Changed
          PROVE  OnTheWay(d)' \/ m.kind = "changed"
      <4>1. CASE i = 1
        BY <1>2, <3>1, <4>1 DEF Changed
      <4>2. CASE i # 1
        <5>1. i - 1 \in 1..Len(out') /\ out'[i - 1] = out[i]
          BY <1>1, <1>2, <4>2
        <5> QED
          BY <3>1, <5>1 DEF OnTheWay, Changed
      <4> QED
        BY <4>1, <4>2
    <3> QED
      BY <2>1, <3>1 DEF OnTheWay
  <2>2. CASE m.kind = "changed"
    BY <1>4, <2>2 DEF WillBeReread
  <2>3. CASE m.kind # "changed"
    BY <1>4, <1>9, <2>1, <2>3 DEF WillBeReread, Event
  <2> QED
    BY <2>2, <2>3
<1>10. \A l : Current(l) => Current(l)'
  BY <1>9 DEF Current, Listed
<1>11. LastReadIsCurrent'
  BY <1>4, <1>10 DEF WindowInv, LastReadIsCurrent
<1> QED
  BY <1>8, <1>11 DEF WindowInv

LEMMA StepWindow == WindowInv /\ [WindowNext]_viewVars => WindowInv'
<1> SUFFICES ASSUME WindowInv, [WindowNext]_viewVars PROVE WindowInv'
  OBVIOUS
<1>1. CASE BesideWindow(DaemonStep)
  BY <1>1, DaemonWindow
<1>2. CASE \/ BesideWindow(Sends) \/ BesideWindow(JoinBus) \/ BesideWindow(Forward)
           \/ BesideWindow(CollectTick) \/ BesideWindow(SendTick)
  BY <1>2, FeedWindow DEF BesideWindow
<1>3. CASE \E r \in Requests : ReadCounters(r) \/ ReadList(r) \/ Snapshot(r)
  BY <1>3, CountersWindow, ListWindow, SnapshotWindow
<1>4. CASE Subscribe
  BY <1>4, SubscribeWindow
<1>5. CASE HearEvent
  BY <1>5, HearWindow
<1>6. CASE UNCHANGED viewVars
  BY <1>6 DEF viewVars, windowVars, feedVars, daemonVars, WindowInv, WindowTypes, FeedTypeOK,
              AnswersRead, Size, Counters, LastReadIsCurrent, Current, WillBeReread, OnTheWay, Listed
<1> QED
  BY <1>1, <1>2, <1>3, <1>4, <1>5, <1>6 DEF WindowNext

(* With nothing on the way, the list the window shows names the downloads there  *)
(* are, if no event was lost and the answer shown is the one read last (main.rs  *)
(* 1177-1182), for any number of downloads, changes and requests.                *)
THEOREM SettledListIsCurrent == WindowSpec => []ListIsCurrent
<1>1. WindowInv => ListIsCurrent
  <2> SUFFICES ASSUME WindowInv, Settled, ~missed, shown = reads, NEW j \in Jobs
               PROVE  list[j] # "absent" <=> j \in Listed
    BY DEF ListIsCurrent, Listed
  <2>1. reads > 0
    BY DEF Settled, WindowInv, WindowTypes, AnswersRead
  <2>2. ~WillBeReread(j)
    <3>1. \A d : ~OnTheWay(d)
      BY EmptySeq DEF Settled, FeedQuiet, OnTheWay
    <3>2. \A r \in Requests : request[r].pc = "none"
      BY DEF Settled, Free
    <3> QED
      BY <3>1, <3>2 DEF WillBeReread
  <2> QED
    BY <2>1, <2>2 DEF WindowInv, LastReadIsCurrent, Current
<1> QED
  BY <1>1, InitWindow, StepWindow, PTL DEF WindowSpec

--------------------------------------------------------------------------------
(* What a change costs the window: at most one snapshot.                         *)

(* Where a sequence has a member of a set.                                       *)
Places(s, P) == {i \in 1..Len(s) : s[i] \in P}

LEMMA PlacesFinite ==
    ASSUME NEW S, NEW P, NEW s \in Seq(S)
    PROVE  IsFiniteSet(Places(s, P)) /\ Cardinality(Places(s, P)) \in Nat
<1>1. Len(s) \in Int /\ 1 \in Int /\ Places(s, P) \in SUBSET (1..Len(s))
  BY LenProperties DEF Places
<1> QED
  BY <1>1, FS_Interval, FS_Subset, FS_CardinalityType

LEMMA AppendPlaces ==
    ASSUME NEW S, NEW P, NEW s \in Seq(S), NEW x \in S
    PROVE  Cardinality(Places(Append(s, x), P))
               = Cardinality(Places(s, P)) + (IF x \in P THEN 1 ELSE 0)
<1> DEFINE t == Append(s, x)
<1>1. /\ Len(s) \in Nat /\ Len(t) = Len(s) + 1 /\ t[Len(s) + 1] = x
      /\ \A i \in 1..Len(s) : t[i] = s[i]
  BY LenProperties, AppendProperties
<1> HIDE DEF t
<1>2. IsFiniteSet(Places(s, P)) /\ Cardinality(Places(s, P)) \in Nat
  BY PlacesFinite
<1>3. CASE x \in P
  <2>1. Places(t, P) = Places(s, P) \cup {Len(s) + 1} /\ Len(s) + 1 \notin Places(s, P)
    BY <1>1, <1>3 DEF Places
  <2>2. Cardinality(Places(t, P)) = Cardinality(Places(s, P)) + 1
    BY <1>2, <2>1, FS_AddElement
  <2> QED
    BY <1>3, <2>2 DEF t
<1>4. CASE x \notin P
  <2>1. Places(t, P) = Places(s, P)
    BY <1>1, <1>4 DEF Places
  <2> QED
    BY <1>2, <1>4, <2>1 DEF t
<1> QED
  BY <1>3, <1>4

LEMMA TailPlaces ==
    ASSUME NEW S, NEW P, NEW s \in Seq(S), s # <<>>
    PROVE  Cardinality(Places(s, P))
               = Cardinality(Places(Tail(s), P)) + (IF Head(s) \in P THEN 1 ELSE 0)
<1> DEFINE t == Tail(s)
           A == Places(s, P) \ {1}
           B == Places(t, P)
           f == [i \in B |-> i + 1]
<1>1. /\ Len(s) \in Nat /\ Len(s) > 0 /\ t \in Seq(S) /\ Len(t) = Len(s) - 1
      /\ \A i \in 1..Len(t) : t[i] = s[i + 1]
      /\ Head(s) = s[1]
  BY LenProperties, EmptySeq, HeadTailProperties
<1> HIDE DEF t
<1>2. /\ IsFiniteSet(Places(s, P)) /\ Cardinality(Places(s, P)) \in Nat
      /\ IsFiniteSet(B) /\ Cardinality(B) \in Nat
  BY <1>1, PlacesFinite
<1>3. f \in Bijection(B, A)
  <2>1. \A i \in B : i + 1 \in A
    BY <1>1 DEF Places
  <2>2. \A k \in A : k - 1 \in B /\ f[k - 1] = k
    BY <1>1 DEF Places
  <2>3. \A i, k \in B : f[i] = f[k] => i = k
    BY <1>1 DEF Places
  <2>4. f \in [B -> A]
    BY <2>1
  <2> HIDE DEF f, A, B
  <2> QED
    BY <2>2, <2>3, <2>4, Fun_IsBij
<1>4. Cardinality(A) = Cardinality(B)
  <2>1. ExistsBijection(B, A)
    BY <1>3 DEF ExistsBijection
  <2> HIDE DEF f, A, B
  <2> QED
    BY <1>2, <2>1, FS_Bijection
<1>5. 1 \in Places(s, P) <=> Head(s) \in P
  BY <1>1 DEF Places
<1>6. Cardinality(A) = IF 1 \in Places(s, P) THEN Cardinality(Places(s, P)) - 1
                                            ELSE Cardinality(Places(s, P))
  BY <1>2, FS_RemoveElement
<1> HIDE DEF A, B
<1>7. Cardinality(Places(s, P)) = Cardinality(B) + (IF Head(s) \in P THEN 1 ELSE 0)
  BY <1>2, <1>4, <1>5, <1>6
<1> QED
  BY <1>7 DEF B, t

(* What may still make the window ask: each event but the end of a run, sent or  *)
(* not, and each message that says something changed.                            *)
Reasons ==
    Cardinality(owed)
    + Cardinality(Places(bus, {e \in DomainEvents : e.kind # "ended"}))
    + Cardinality(Places(out, {Changed}))

Asking == {r \in Requests : request[r].pc \in {"asked", "counted"}}
Answered == {r \in Requests : request[r].pc = "read"}

SnapshotsPaid ==
    /\ IsFiniteSet(owed)
    /\ reads + Cardinality(Asking) + Reasons <= changes + 1
    /\ Cardinality(Answered) <= reads

LEMMA ReasonsType ==
    ASSUME FeedTypeOK, IsFiniteSet(owed)
    PROVE  /\ Cardinality(owed) \in Nat
           /\ Cardinality(Places(bus, {e \in DomainEvents : e.kind # "ended"})) \in Nat
           /\ Cardinality(Places(out, {Changed})) \in Nat
           /\ Reasons \in Nat
<1>1. bus \in Seq(DomainEvents) /\ out \in Seq(Messages)
  BY DEF FeedTypeOK
<1>2. /\ Cardinality(owed) \in Nat
      /\ Cardinality(Places(bus, {e \in DomainEvents : e.kind # "ended"})) \in Nat
      /\ Cardinality(Places(out, {Changed})) \in Nat
  BY <1>1, FS_CardinalityType, PlacesFinite
<1> QED
  BY <1>2 DEF Reasons

LEMMA RequestsFinite ==
    /\ IsFiniteSet(Requests) /\ Cardinality(Requests) = MaxChanges + 1
    /\ \A S \in SUBSET Requests :
           IsFiniteSet(S) /\ Cardinality(S) \in Nat /\ Cardinality(S) <= MaxChanges + 1
<1>1. 1 \in Int /\ MaxReads \in Int /\ MaxReads = MaxChanges + 1 /\ MaxReads >= 1
  BY FeedAssumption DEF MaxReads
<1>2. IsFiniteSet(Requests) /\ Cardinality(Requests) = MaxChanges + 1
  BY <1>1, FS_Interval DEF Requests
<1> QED
  BY <1>2, FS_Subset, FS_CardinalityType

LEMMA AddOne ==
    ASSUME NEW S, NEW x, IsFiniteSet(S)
    PROVE  IsFiniteSet(S \cup {x}) /\ Cardinality(S \cup {x}) <= Cardinality(S) + 1
<1>1. Cardinality(S) \in Nat
  BY FS_CardinalityType
<1>2. /\ IsFiniteSet(S \cup {x})
      /\ Cardinality(S \cup {x}) = IF x \in S THEN Cardinality(S) ELSE Cardinality(S) + 1
  BY FS_AddElement
<1> QED
  BY <1>1, <1>2

(* A change adds one reason at most.                                             *)
LEMMA ChangePays ==
    ASSUME FeedTypeOK, IsFiniteSet(owed), DaemonStep
    PROVE  IsFiniteSet(owed') /\ Reasons' <= Reasons + 1 /\ changes' = changes + 1
<1>1. PICK j \in Jobs, p \in Phases \cup {"gone"}, e \in {"added", "updated", "removed", "ended"} :
          Change(j, p, e)
  BY DEF DaemonStep, Add, Stop, Resume, Complete, Remove, Phases
<1>2. owed' = owed \cup {Event(e, j)} /\ changes' = changes + 1 /\ bus' = bus /\ out' = out
  BY <1>1 DEF Change
<1>3. IsFiniteSet(owed') /\ Cardinality(owed') <= Cardinality(owed) + 1
  BY <1>2, ReasonsType, FS_AddElement
<1>4. Reasons' = Cardinality(owed')
          + Cardinality(Places(bus, {d \in DomainEvents : d.kind # "ended"}))
          + Cardinality(Places(out, {Changed}))
  BY <1>2 DEF Reasons
<1>5. Cardinality(owed') \in Nat
  BY <1>3, FS_CardinalityType
<1> QED
  BY <1>2, <1>3, <1>4, <1>5, ReasonsType DEF Reasons

(* An event that is sent moves; the end of a run becomes an update, and is not a *)
(* reason itself.                                                                *)
LEMMA EmitPays ==
    ASSUME FeedTypeOK, IsFiniteSet(owed), Sends
    PROVE  IsFiniteSet(owed') /\ Reasons' <= Reasons
<1> DEFINE P == {d \in DomainEvents : d.kind # "ended"}
           kept == IF Len(bus) = BusCap THEN Tail(bus) ELSE bus
<1>1. PICK e \in owed : Emit(e)
  BY DEF Sends
<1>2. e \in DomainEvents /\ bus \in Seq(DomainEvents) /\ out' = out
  BY <1>1 DEF FeedTypeOK, Emit
<1>3. IsFiniteSet(owed \ {e}) /\ Cardinality(owed \ {e}) = Cardinality(owed) - 1
  BY FS_RemoveElement
<1>4. IsFiniteSet(owed')
      /\ Cardinality(owed') <= Cardinality(owed) - (IF e \in P THEN 1 ELSE 0)
  <2>1. CASE e.kind # "ended"
    <3>1. owed' = owed \ {e}
      BY <1>1, <2>1 DEF Emit
    <3> QED
      BY <1>2, <1>3, <2>1, <3>1, ReasonsType
  <2>2. CASE e.kind = "ended"
    <3>1. owed' = (owed \ {e}) \cup {Event("updated", e.job)}
      BY <1>1, <2>2 DEF Emit
    <3>2. IsFiniteSet(owed') /\ Cardinality(owed') <= Cardinality(owed \ {e}) + 1
      <4> DEFINE T == owed \ {e}
                 x == Event("updated", e.job)
      <4>1. IsFiniteSet(T) /\ Cardinality(T) \in Nat /\ owed' = T \cup {x}
        BY <1>3, <3>1, FS_CardinalityType
      <4> HIDE DEF T, x
      <4>2. IsFiniteSet(T \cup {x}) /\ Cardinality(T \cup {x}) <= Cardinality(T) + 1
        BY ONLY <4>1, AddOne
      <4> QED
        BY <4>1, <4>2 DEF T
    <3> QED
      BY <1>3, <2>2, <3>2, ReasonsType
  <2> QED
    BY <2>1, <2>2
<1>5. /\ kept \in Seq(DomainEvents)
      /\ Cardinality(Places(kept, P)) <= Cardinality(Places(bus, P))
      /\ Cardinality(Places(kept, P)) \in Nat
  <2>1. CASE Len(bus) = BusCap
    <3>1. bus # <<>>
      BY <2>1, FeedAssumption, EmptySeq
    <3>2. Tail(bus) \in Seq(DomainEvents)
      BY <1>2, <3>1, HeadTailProperties
    <3>3. /\ Cardinality(Places(bus, P)) = Cardinality(Places(Tail(bus), P))
                 + (IF Head(bus) \in P THEN 1 ELSE 0)
          /\ Cardinality(Places(Tail(bus), P)) \in Nat
      BY <1>2, <3>1, <3>2, TailPlaces, PlacesFinite
    <3> QED
      BY <2>1, <3>2, <3>3
  <2>2. CASE Len(bus) # BusCap
    BY <1>2, <2>2, PlacesFinite
  <2> QED
    BY <2>1, <2>2
<1>6. /\ Cardinality(Places(bus', P)) \in Nat
      /\ Cardinality(Places(bus', P)) <=
             Cardinality(Places(bus, P)) + (IF e \in P THEN 1 ELSE 0)
  <2>1. CASE sub # "on"
    <3>1. bus' = bus
      BY <1>1, <2>1 DEF Emit
    <3> QED
      BY <1>2, <3>1, PlacesFinite
  <2>2. CASE sub = "on"
    <3>1. bus' = Append(kept, e)
      BY <1>1, <2>2 DEF Emit
    <3> HIDE DEF kept, P
    <3>2. Cardinality(Places(bus', P)) = Cardinality(Places(kept, P)) + (IF e \in P THEN 1 ELSE 0)
      BY <1>2, <1>5, <3>1, AppendPlaces
    <3>3. Cardinality(Places(bus, P)) \in Nat
      BY <1>2, PlacesFinite
    <3> QED
      BY <1>5, <3>2, <3>3
  <2> QED
    BY <2>1, <2>2
<1>7. Reasons' = Cardinality(owed') + Cardinality(Places(bus', P)) + Cardinality(Places(out, {Changed}))
  BY <1>2 DEF Reasons
<1>8. Reasons = Cardinality(owed) + Cardinality(Places(bus, P)) + Cardinality(Places(out, {Changed}))
  BY DEF Reasons
<1>9. Cardinality(owed') \in Nat /\ Cardinality(owed) \in Nat
      /\ Cardinality(Places(bus, P)) \in Nat /\ Cardinality(Places(out, {Changed})) \in Nat
  BY <1>4, FS_CardinalityType, ReasonsType
<1> HIDE DEF P
<1> QED
  BY <1>4, <1>6, <1>7, <1>8, <1>9

LEMMA ForwardPays ==
    ASSUME FeedTypeOK, IsFiniteSet(owed), Forward
    PROVE  owed' = owed /\ Reasons' <= Reasons
<1> DEFINE P == {d \in DomainEvents : d.kind # "ended"}
<1>1. /\ bus \in Seq(DomainEvents) /\ bus # <<>> /\ Head(bus) \in DomainEvents
      /\ bus' = Tail(bus) /\ bus' \in Seq(DomainEvents)
      /\ out' = Append(out, MapDomainEvent(Head(bus))) /\ out \in Seq(Messages)
      /\ owed' = owed
  BY HeadTailProperties DEF Forward, FeedTypeOK, daemonVars
<1>2. /\ MapDomainEvent(Head(bus)) \in Messages
      /\ MapDomainEvent(Head(bus)) = Changed <=> Head(bus) \in P
  BY <1>1 DEF MapDomainEvent, DomainEvents, Messages, Changed
<1>3. Cardinality(Places(bus, P)) = Cardinality(Places(bus', P)) + (IF Head(bus) \in P THEN 1 ELSE 0)
  BY <1>1, TailPlaces
<1>4. Cardinality(Places(out', {Changed}))
          = Cardinality(Places(out, {Changed})) + (IF Head(bus) \in P THEN 1 ELSE 0)
  BY <1>1, <1>2, AppendPlaces
<1>5. Cardinality(Places(bus', P)) \in Nat
  BY <1>1, PlacesFinite
<1>6. Reasons' = Cardinality(owed) + Cardinality(Places(bus', P)) + Cardinality(Places(out', {Changed}))
  BY <1>1 DEF Reasons
<1>7. Reasons = Cardinality(owed) + Cardinality(Places(bus, P)) + Cardinality(Places(out, {Changed}))
  BY DEF Reasons
<1>8. Cardinality(owed) \in Nat /\ Cardinality(Places(out, {Changed})) \in Nat
  BY ReasonsType
<1> HIDE DEF P
<1> QED
  BY <1>1, <1>3, <1>4, <1>5, <1>6, <1>7, <1>8

LEMMA FeedPays ==
    ASSUME FeedTypeOK, IsFiniteSet(owed), Sends \/ JoinBus \/ Forward \/ CollectTick \/ SendTick
    PROVE  IsFiniteSet(owed') /\ Reasons' <= Reasons /\ changes' = changes
<1>1. changes' = changes
  <2>1. CASE Sends
    <3>1. PICK e \in owed : Emit(e)
      BY <2>1 DEF Sends
    <3> QED
      BY <3>1 DEF Emit
  <2> QED
    BY <2>1 DEF JoinBus, Forward, CollectTick, SendTick, daemonVars
<1>2. CASE Sends
  BY <1>1, <1>2, EmitPays
<1>3. CASE Forward
  BY <1>1, <1>3, ForwardPays
<1>4. CASE JoinBus \/ CollectTick
  <2>1. owed' = owed /\ bus' = bus /\ out' = out
    BY <1>4 DEF JoinBus, CollectTick, daemonVars
  <2>2. Reasons' = Reasons
    BY <2>1 DEF Reasons
  <2> QED
    BY <1>1, <2>1, <2>2, ReasonsType
<1>5. CASE SendTick
  <2> DEFINE m == [kind |-> "counters", at |-> tick]
  <2>1. /\ m \in Messages /\ m # Changed /\ out \in Seq(Messages) /\ out' = Append(out, m)
        /\ owed' = owed /\ bus' = bus
    BY <1>5 DEF SendTick, FeedTypeOK, Messages, Changed, daemonVars
  <2> HIDE DEF m
  <2>2. Cardinality(Places(out', {Changed})) = Cardinality(Places(out, {Changed})) + 0
    BY <2>1, AppendPlaces
  <2>3. Reasons' = Cardinality(owed)
            + Cardinality(Places(bus, {e \in DomainEvents : e.kind # "ended"}))
            + Cardinality(Places(out', {Changed}))
    BY <2>1 DEF Reasons
  <2> QED
    BY <1>1, <2>1, <2>2, <2>3, ReasonsType DEF Reasons
<1> QED
  BY <1>2, <1>3, <1>4, <1>5

(* A request that goes on, is answered or is taken in, or a new one.             *)
LEMMA RequestMoves ==
    ASSUME NEW r \in Requests
    PROVE  \A S \in SUBSET Requests :
               /\ r \in S => Cardinality(S \ {r}) = Cardinality(S) - 1
               /\ r \notin S => Cardinality(S \cup {r}) = Cardinality(S) + 1
<1> QED
  BY RequestsFinite, FS_AddElement, FS_RemoveElement

LEMMA InitPays == WindowInit => SnapshotsPaid
<1> SUFFICES ASSUME WindowInit PROVE SnapshotsPaid
  OBVIOUS
<1> USE DEF WindowInit, FeedInit
<1>1. 1 \in Requests
  BY FeedAssumption DEF Requests, MaxReads
<1>2. Asking = {1} /\ Answered = {}
  BY <1>1 DEF Asking, Answered, Asked, NoRequest
<1>3. IsFiniteSet(owed) /\ Cardinality(owed) = 0
  BY FS_EmptySet
<1>4. Places(bus, {e \in DomainEvents : e.kind # "ended"}) = {} /\ Places(out, {Changed}) = {}
  BY EmptySeq DEF Places
<1>5. Reasons = 0
  <2>1. /\ Cardinality(Places(bus, {e \in DomainEvents : e.kind # "ended"})) = 0
        /\ Cardinality(Places(out, {Changed})) = 0
    BY <1>4, FS_EmptySet
  <2> HIDE DEF WindowInit, FeedInit
  <2> QED
    BY <1>3, <2>1 DEF Reasons
<1>6. Cardinality(Asking) = 1 /\ Cardinality(Answered) = 0
  BY <1>2, FS_Singleton, FS_EmptySet
<1> QED
  BY <1>3, <1>5, <1>6 DEF SnapshotsPaid

LEMMA FeedStepPays ==
    ASSUME WindowInv, SnapshotsPaid,
           \/ BesideWindow(DaemonStep)
           \/ BesideWindow(Sends \/ JoinBus \/ Forward \/ CollectTick \/ SendTick)
    PROVE  SnapshotsPaid'
<1> USE DEF BesideWindow, windowVars
<1>1. FeedTypeOK /\ IsFiniteSet(owed) /\ reads \in Nat /\ changes \in Nat
  BY FeedAssumption DEF WindowInv, WindowTypes, AnswersRead, FeedTypeOK, SnapshotsPaid
<1>2. Asking' = Asking /\ Answered' = Answered /\ reads' = reads
  BY DEF Asking, Answered
<1>3. Cardinality(Asking) \in Nat /\ Reasons \in Nat
  BY <1>1, RequestsFinite, ReasonsType DEF Asking
<1>4. FeedTypeOK' /\ IsFiniteSet(owed')
  <2>1. CASE DaemonStep
    <3>1. FeedTypeOK'
      BY <2>1, DaemonWindow DEF WindowInv, WindowTypes
    <3> QED
      BY <1>1, <2>1, <3>1, ChangePays
  <2>2. CASE ~DaemonStep
    BY <1>1, <2>2, FeedStep, FeedPays
  <2> QED
    BY <2>1, <2>2
<1>5. Reasons' <= Reasons + (changes' - changes) /\ changes' \in Nat
  <2>1. CASE DaemonStep
    BY <1>1, <2>1, ChangePays
  <2>2. CASE ~DaemonStep
    BY <1>1, <1>3, <2>2, FeedPays
  <2> QED
    BY <2>1, <2>2
<1>6. Reasons' \in Nat
  <2>1. Cardinality(owed') \in Nat
    BY <1>4, FS_CardinalityType
  <2>2. bus' \in Seq(DomainEvents) /\ out' \in Seq(Messages)
    BY <1>4 DEF FeedTypeOK, Messages, Counters, Changed
  <2>3. /\ Cardinality(Places(bus', {e \in DomainEvents : e.kind # "ended"})) \in Nat
        /\ Cardinality(Places(out', {Changed})) \in Nat
    BY <2>2, PlacesFinite
  <2> QED
    BY <2>1, <2>3 DEF Reasons
<1>7. Cardinality(Asking') = Cardinality(Asking) /\ Cardinality(Answered') = Cardinality(Answered)
  BY <1>2
<1>8. /\ reads + Cardinality(Asking) + Reasons <= changes + 1
      /\ Cardinality(Answered) <= reads
  BY DEF SnapshotsPaid
<1>9. reads' + Cardinality(Asking') + Reasons' <= changes' + 1
  <2>1. ASSUME NEW a \in Nat, NEW b \in Nat, NEW c \in Nat, NEW d \in Nat,
               NEW u \in Nat, NEW v \in Nat, a + b + c <= u + 1, d <= c + (v - u)
        PROVE  a + b + d <= v + 1
    BY <2>1
  <2> QED
    BY <1>1, <1>2, <1>3, <1>5, <1>6, <1>7, <1>8, <2>1
<1>10. Cardinality(Answered') <= reads'
  BY <1>2, <1>7, <1>8
<1> QED
  BY <1>4, <1>9, <1>10 DEF SnapshotsPaid

LEMMA RequestPays ==
    ASSUME WindowInv, SnapshotsPaid, NEW r \in Requests,
           ReadCounters(r) \/ ReadList(r) \/ Snapshot(r)
    PROVE  SnapshotsPaid'
<1> USE DEF ReadCounters, ReadList, Snapshot, Set, feedVars, daemonVars
<1>1. reads \in Nat /\ changes \in Nat /\ request = [q \in Requests |-> request[q]]
  BY FeedAssumption DEF WindowInv, WindowTypes, AnswersRead, FeedTypeOK
<1>2. owed' = owed /\ Reasons' = Reasons /\ changes' = changes
  BY DEF Reasons
<1>3. Cardinality(Asking) \in Nat /\ Cardinality(Answered) \in Nat /\ Reasons \in Nat
  BY RequestsFinite, ReasonsType DEF Asking, Answered, WindowInv, WindowTypes, SnapshotsPaid
<1>4. Asking \in SUBSET Requests /\ Answered \in SUBSET Requests
  BY DEF Asking, Answered
<1>5. CASE ReadCounters(r)
  <2>1. Asking' = Asking /\ Answered' = Answered /\ reads' = reads
    BY <1>1, <1>5 DEF Asking, Answered
  <2> HIDE DEF ReadCounters, ReadList, Snapshot, Set
  <2> QED
    BY <1>2, <2>1 DEF SnapshotsPaid
<1>6. CASE ReadList(r)
  <2>1. r \in Asking /\ r \notin Answered /\ reads' = reads + 1
    BY <1>6 DEF Asking, Answered
  <2>2. Asking' = Asking \ {r} /\ Answered' = Answered \cup {r}
    BY <1>1, <1>6 DEF Asking, Answered
  <2>3. Cardinality(Asking') = Cardinality(Asking) - 1
        /\ Cardinality(Answered') = Cardinality(Answered) + 1
    BY <1>4, <2>1, <2>2, RequestMoves
  <2> QED
    BY <1>1, <1>2, <1>3, <2>1, <2>3 DEF SnapshotsPaid
<1>7. CASE Snapshot(r)
  <2>1. r \in Answered /\ reads' = reads
    BY <1>7 DEF Answered
  <2>2. Asking' = Asking /\ Answered' = Answered \ {r}
    BY <1>1, <1>7 DEF Asking, Answered, NoRequest
  <2>3. Cardinality(Answered') = Cardinality(Answered) - 1
    BY <1>4, <2>1, <2>2, RequestMoves
  <2> QED
    BY <1>1, <1>2, <1>3, <2>1, <2>2, <2>3 DEF SnapshotsPaid
<1> QED
  BY <1>5, <1>6, <1>7

LEMMA HearPays ==
    ASSUME WindowInv, SnapshotsPaid, HearEvent
    PROVE  SnapshotsPaid'
<1> USE DEF HearEvent, daemonVars
<1>1. /\ reads \in Nat /\ changes \in Nat /\ request = [q \in Requests |-> request[q]]
      /\ out \in Seq(Messages) /\ out # <<>> /\ FeedTypeOK
  BY FeedAssumption DEF WindowInv, WindowTypes, AnswersRead, FeedTypeOK
<1>2. Head(out) \in Messages /\ out' = Tail(out) /\ out' \in Seq(Messages)
  BY <1>1, HeadTailProperties
<1>3. Head(out).kind = "changed" <=> Head(out) \in {Changed}
  BY <1>2 DEF Messages, Changed
<1>4. Cardinality(Places(out, {Changed}))
          = Cardinality(Places(out', {Changed})) + (IF Head(out) \in {Changed} THEN 1 ELSE 0)
  BY <1>1, <1>2, TailPlaces
<1>5. Cardinality(Places(out', {Changed})) \in Nat
  BY <1>2, PlacesFinite
<1>6. Reasons' = Cardinality(owed)
          + Cardinality(Places(bus, {e \in DomainEvents : e.kind # "ended"}))
          + Cardinality(Places(out', {Changed}))
  BY DEF Reasons
<1>7. Reasons' = Reasons - (IF Head(out).kind = "changed" THEN 1 ELSE 0) /\ Reasons \in Nat
  BY <1>1, <1>3, <1>4, <1>5, <1>6, ReasonsType DEF Reasons, SnapshotsPaid
<1>8. Cardinality(Asking) \in Nat /\ Asking \in SUBSET Requests
  BY RequestsFinite DEF Asking
<1>9. /\ Cardinality(Asking') <= Cardinality(Asking) + (IF Head(out).kind = "changed" THEN 1 ELSE 0)
      /\ Cardinality(Asking') \in Nat /\ Answered' = Answered
  <2>1. CASE Head(out).kind # "changed"
    BY <1>8, <2>1 DEF Asking, Answered
  <2>2. CASE Head(out).kind = "changed"
    <3> DEFINE r == CHOOSE q \in Free : TRUE
    <3>1. r \in Requests /\ request[r].pc = "none"
      BY <2>2 DEF Free
    <3>2. request' = [request EXCEPT ![r] = Asked] /\ Asked.pc = "asked"
      BY <2>2 DEF Refresh, Set, Asked, NoRequest
    <3> HIDE DEF r
    <3>3. r \notin Asking /\ Asking' = Asking \cup {r} /\ Answered' = Answered
      BY <1>1, <3>1, <3>2 DEF Asking, Answered
    <3> QED
      BY <1>8, <2>2, <3>1, <3>3, RequestMoves
  <2> QED
    BY <2>1, <2>2
<1> QED
  BY <1>1, <1>7, <1>8, <1>9 DEF SnapshotsPaid

LEMMA StepPays == WindowInv /\ SnapshotsPaid /\ [WindowNext]_viewVars => SnapshotsPaid'
<1> SUFFICES ASSUME WindowInv, SnapshotsPaid, [WindowNext]_viewVars PROVE SnapshotsPaid'
  OBVIOUS
<1>1. CASE \/ BesideWindow(DaemonStep) \/ BesideWindow(Sends)
           \/ BesideWindow(JoinBus) \/ BesideWindow(Forward)
           \/ BesideWindow(CollectTick) \/ BesideWindow(SendTick)
  BY <1>1, FeedStepPays DEF BesideWindow
<1>2. CASE \E r \in Requests : ReadCounters(r) \/ ReadList(r) \/ Snapshot(r)
  BY <1>2, RequestPays
<1>3. CASE Subscribe \/ UNCHANGED viewVars
  BY <1>3 DEF Subscribe, viewVars, windowVars, feedVars, daemonVars, SnapshotsPaid, Reasons,
              Asking, Answered
<1>4. CASE HearEvent
  BY <1>4, HearPays
<1> QED
  BY <1>1, <1>2, <1>3, <1>4 DEF WindowNext

(* Every variable of the window keeps its type; it never has more snapshots read *)
(* than the one for opening and one for each change, and never announces against *)
(* anything but the list it shows.                                               *)
THEOREM WindowTypeCorrect == WindowSpec => []WindowTypeOK
<1>1. WindowInv /\ SnapshotsPaid => WindowTypeOK
  <2> SUFFICES ASSUME WindowInv, SnapshotsPaid PROVE WindowTypeOK
    OBVIOUS
  <2>1. /\ reads \in Nat /\ changes \in Nat /\ changes <= MaxChanges /\ MaxChanges \in Nat
    BY FeedAssumption DEF WindowInv, WindowTypes, AnswersRead, FeedTypeOK
  <2>2. Cardinality(Asking) \in Nat /\ Reasons \in Nat
    BY RequestsFinite, ReasonsType DEF Asking, WindowInv, WindowTypes, SnapshotsPaid
  <2>3. reads \in 0..MaxReads
    BY <2>1, <2>2 DEF SnapshotsPaid, MaxReads
  <2>4. \A r \in Requests : request[r] \in [pc : {"none", "asked", "counted", "read"},
                                counters : Counters \cup {Nil},
                                list : Counters \cup {Nil}, read : 0..MaxReads]
    BY <2>1, <2>3 DEF WindowInv, WindowTypes, AnswersRead, MaxReads
  <2>5. request \in [Requests -> [pc : {"none", "asked", "counted", "read"},
                                counters : Counters \cup {Nil},
                                list : Counters \cup {Nil}, read : 0..MaxReads]]
    BY <2>4 DEF WindowInv, WindowTypes
  <2> QED
    BY <2>3, <2>5 DEF WindowInv, WindowTypes, AnswersRead, WindowTypeOK
<1> QED
  BY <1>1, InitWindow, StepWindow, InitPays, StepPays, PTL DEF WindowSpec

(* The bound on requests holds nobody up: when a message makes the window ask    *)
(* for the list, a request is free.                                              *)
RequestIsFree == out # <<>> /\ Head(out) = Changed => Free # {}

THEOREM RefreshIsNeverHeldUp == WindowSpec => []RequestIsFree
<1>1. WindowInv /\ SnapshotsPaid => RequestIsFree
  <2> SUFFICES ASSUME WindowInv, SnapshotsPaid, out # <<>>, Head(out) = Changed, Free = {}
               PROVE  FALSE
    BY DEF RequestIsFree
  <2>1. /\ FeedTypeOK /\ out \in Seq(Messages) /\ reads \in Nat
        /\ changes \in Nat /\ changes <= MaxChanges /\ MaxChanges \in Nat
    BY FeedAssumption DEF WindowInv, WindowTypes, AnswersRead, FeedTypeOK
  <2>2. Tail(out) \in Seq(Messages)
    BY <2>1, HeadTailProperties
  <2>3. /\ Cardinality(Places(out, {Changed})) = Cardinality(Places(Tail(out), {Changed})) + 1
        /\ Cardinality(Places(Tail(out), {Changed})) \in Nat
    BY <2>1, <2>2, TailPlaces, PlacesFinite
  <2>4. Reasons >= 1 /\ Reasons \in Nat
    BY <2>1, <2>3, ReasonsType DEF Reasons, SnapshotsPaid
  <2>5. Requests = Asking \cup Answered
    BY DEF Free, Asking, Answered, WindowInv, WindowTypes
  <2>6. /\ IsFiniteSet(Asking) /\ Cardinality(Asking) \in Nat
        /\ IsFiniteSet(Answered) /\ Cardinality(Answered) \in Nat
    BY RequestsFinite DEF Asking, Answered
  <2>7. Cardinality(Asking \cap Answered) \in Nat
    BY <2>6, FS_Intersection, FS_CardinalityType
  <2>8. Cardinality(Requests) <= Cardinality(Asking) + Cardinality(Answered)
    <3>1. Cardinality(Asking \cup Answered)
              = Cardinality(Asking) + Cardinality(Answered) - Cardinality(Asking \cap Answered)
      BY <2>6, FS_Union
    <3> QED
      BY <2>5, <2>6, <2>7, <3>1
  <2> QED
    BY <2>1, <2>4, <2>6, <2>8, RequestsFinite DEF SnapshotsPaid
<1> QED
  BY <1>1, InitWindow, StepWindow, InitPays, StepPays, PTL DEF WindowSpec
===============================================================================
