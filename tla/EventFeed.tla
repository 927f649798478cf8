------------------------------- MODULE EventFeed -------------------------------
(* How a change of a download reaches a subscriber of the local socket: the      *)
(* domain bus (a bounded broadcast), the pump of one connection                  *)
(* (ipc_local/server.rs) and the bounded channels behind it.  The subscribers    *)
(* are in modules of their own: WaitCommand and MainWindow.                      *)
EXTENDS Naturals, Sequences

CONSTANTS
    Jobs, Nil,
    BusCap,    (* capacity of the broadcast; 1024 in the code                    *)
    Room,      (* capacity of all channels from the pump to the reader, one      *)
               (* after the other: 512 in the server, 256 in the client          *)
    MaxChanges (* bound: changes of downloads during a behaviour                 *)

ASSUME FeedAssumption ==
    /\ Nil \notin Jobs
    /\ BusCap \in Nat \ {0} /\ Room \in Nat \ {0} /\ MaxChanges \in Nat

VARIABLES
    job,      (* job[j]: the phase of download j, or where it is not listed      *)
    owed,     (* events whose change is made and which are still to be sent      *)
    changes,  (* how many changes there were                                     *)
    sub,      (* the pump: none, its tasks spawned, its forwarder on the bus     *)
    bus,      (* what the forwarder has still to receive                         *)
    tick,     (* counters the counter pump has collected and not sent, or Nil    *)
    out,      (* what the subscriber has still to receive                        *)
    missed    (* history: a change of the list since the subscriber began to     *)
              (* look, of which its forwarder never hears                        *)

daemonVars == <<job, owed, changes>>
feedVars == <<daemonVars, sub, bus, tick, out, missed>>

(* "going" is any phase a download leaves on its own, waiting ones included.     *)
Phases == {"going", "paused", "completed"}
Listed == {j \in Jobs : job[j] \in Phases}

Event(kind, j) == [kind |-> kind, job |-> j]
DomainEvents == [kind : {"added", "updated", "removed", "ended"}, job : Jobs]

Counters == [Jobs -> Phases \cup {"absent"}]
Changed == [kind |-> "changed"]
Messages ==
    {Changed} \cup [kind : {"ended"}, job : Jobs] \cup [kind : {"counters"}, at : Counters]

FeedTypeOK ==
    /\ job \in [Jobs -> Phases \cup {"unborn", "gone"}]
    /\ owed \subseteq DomainEvents
    /\ changes \in 0..MaxChanges
    /\ sub \in {"none", "asked", "on"}
    /\ bus \in Seq(DomainEvents) /\ Len(bus) <= BusCap
    /\ tick \in Counters \cup {Nil}
    /\ out \in Seq(Messages) /\ Len(out) <= Room
    /\ missed \in BOOLEAN

FeedInit ==
    /\ job \in [Jobs -> {"going", "unborn"}]
    /\ owed = {} /\ changes = 0 /\ sub = "none" /\ bus = <<>> /\ tick = Nil /\ out = <<>>
    /\ missed = FALSE

--------------------------------------------------------------------------------
(* The daemon changes a download first and sends the event afterwards.           *)

Change(j, p, e) ==
    /\ changes < MaxChanges
    /\ changes' = changes + 1
    /\ job' = [job EXCEPT ![j] = p]
    /\ owed' = owed \cup {Event(e, j)}
    /\ UNCHANGED <<sub, bus, tick, out, missed>>

Add(j) == job[j] = "unborn" /\ Change(j, "going", "added")
Stop(j) == job[j] = "going" /\ Change(j, "paused", "updated")
Resume(j) == job[j] = "paused" /\ Change(j, "going", "updated")
Complete(j) == job[j] = "going" /\ Change(j, "completed", "ended")
Remove(j) == j \in Listed /\ Change(j, "gone", "removed")

(* The end of a run is followed by a JobUpdated.  A broadcast that is full drops *)
(* what its slowest reader has not received, the oldest first.                   *)
Emit(e) ==
    /\ e \in owed
    /\ owed' = (owed \ {e}) \cup (IF e.kind = "ended" THEN {Event("updated", e.job)} ELSE {})
    /\ bus' = IF sub # "on" THEN bus
              ELSE Append(IF Len(bus) = BusCap THEN Tail(bus) ELSE bus, e)
    /\ missed' = \/ missed
                 \/ sub # "on" /\ e.kind \in {"added", "removed"}
                 \/ sub = "on" /\ Len(bus) = BusCap /\ Head(bus).kind \in {"added", "removed"}
    /\ UNCHANGED <<job, changes, sub, tick, out>>

--------------------------------------------------------------------------------
(* The pump of the subscriber's connection.                                      *)

(* Subscribe is answered once the pump's tasks are spawned.                        *)
SubscribeNow == sub = "none" /\ sub' = "asked"

(* The forwarder's first step puts it on the bus.                                *)
JoinBus ==
    /\ sub = "asked"
    /\ sub' = "on"
    /\ UNCHANGED <<daemonVars, bus, tick, out, missed>>

(* The tasks of a connection end with it.                                        *)
HangUp == sub' = "none" /\ bus' = <<>> /\ tick' = Nil /\ out' = <<>>

MapDomainEvent(e) == IF e.kind = "ended" THEN e ELSE Changed

Forward ==
    /\ bus # <<>>
    /\ Len(out) < Room
    /\ bus' = Tail(bus)
    /\ out' = Append(out, MapDomainEvent(Head(bus)))
    /\ UNCHANGED <<daemonVars, sub, tick, missed>>

(* A bug: only downloads that run have counters worth sending.                   *)
CollectCounters_Running == [j \in Jobs |-> IF job[j] = "going" THEN "going" ELSE "absent"]

(* collect_counters: every listed download, whatever its phase.                  *)
CollectCounters == [j \in Jobs |-> IF j \in Listed THEN job[j] ELSE "absent"]

CollectTick ==
    /\ sub # "none"
    /\ tick = Nil
    /\ Listed # {}
    /\ tick' = CollectCounters
    /\ UNCHANGED <<daemonVars, sub, bus, out, missed>>

SendTick ==
    /\ tick # Nil
    /\ Len(out) < Room
    /\ tick' = Nil
    /\ out' = Append(out, [kind |-> "counters", at |-> tick])
    /\ UNCHANGED <<daemonVars, sub, bus, missed>>

DaemonStep == \E j \in Jobs : Add(j) \/ Stop(j) \/ Resume(j) \/ Complete(j) \/ Remove(j)

Sends == \E e \in owed : Emit(e)

(* Nothing about the downloads is on its way to the subscriber but counters.     *)
FeedQuiet == sub = "on" /\ owed = {} /\ bus = <<>> /\ Changed \notin {out[i] : i \in 1..Len(out)}
===============================================================================
