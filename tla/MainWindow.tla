------------------------------ MODULE MainWindow ------------------------------
(* The download list of the main window (gui/windows/main.rs): it asks for a     *)
(* snapshot when it opens and after every event that may have changed the list,  *)
(* takes phases from the counters, and shows whatever answer arrives.            *)
(*                                                                               *)
(* The server answers requests concurrently (ipc_local/server.rs): of two        *)
(* snapshots, either may be read first and either may arrive first.              *)
EXTENDS EventFeed, FiniteSets

CONSTANT Fresh   (* downloads that are not there when the window opens           *)

ASSUME WindowAssumption == Fresh \subseteq Jobs /\ IsFiniteSet(Jobs)

(* Opening costs one snapshot, every change at most one.                         *)
MaxReads == MaxChanges + 1
Requests == 1..MaxReads

VARIABLES
    app,        (* the window: connecting, opened, ready for events              *)
    request,    (* request[r]: how far a snapshot that was asked for has come    *)
    list,       (* m.snap.jobs: the phase in the list shown, or "absent"         *)
    counters,   (* m.counters                                                    *)
    prev,       (* m.prev_job_count                                              *)
    announced,  (* how many adds the window has announced                        *)
    reads,      (* history: how many job lists were read for this window         *)
    shown       (* history: which of them the list shown is                      *)

windowVars == <<app, request, list, counters, prev, announced, reads, shown>>
viewVars == <<feedVars, windowVars>>

NoRequest == [pc |-> "none", counters |-> Nil, list |-> Nil, read |-> 0]
Asked == [NoRequest EXCEPT !.pc = "asked"]
Absent == [j \in Jobs |-> "absent"]
Size(l) == Cardinality({j \in Jobs : l[j] # "absent"})

WindowTypeOK ==
    /\ FeedTypeOK
    /\ app \in {"connecting", "opened", "ready"}
    /\ request \in [Requests -> [pc : {"none", "asked", "counted", "read"},
                                 counters : Counters \cup {Nil},
                                 list : Counters \cup {Nil}, read : 0..MaxReads]]
    /\ list \in Counters /\ counters \in Counters /\ prev = Size(list)
    /\ announced \in Nat /\ reads \in 0..MaxReads /\ shown \in 0..reads

WindowInit ==
    /\ FeedInit
    /\ Fresh = {j \in Jobs : job[j] = "unborn"}
    /\ app = "connecting"
    /\ request = [r \in Requests |-> IF r = 1 THEN Asked ELSE NoRequest]
    /\ list = Absent /\ counters = Absent
    /\ prev = 0 /\ announced = 0 /\ reads = 0 /\ shown = 0

--------------------------------------------------------------------------------
(* A request, answered by a task of its own: the counters, then the job list.    *)

Set(r, to) == request' = [request EXCEPT ![r] = to]

ReadCounters(r) ==
    /\ request[r].pc = "asked"
    /\ Set(r, [request[r] EXCEPT !.pc = "counted", !.counters = CollectCounters])
    /\ UNCHANGED <<feedVars, app, list, counters, prev, announced, reads, shown>>

ReadList(r) ==
    /\ request[r].pc = "counted"
    /\ reads' = reads + 1
    /\ Set(r, [request[r] EXCEPT !.pc = "read", !.list = CollectCounters, !.read = reads'])
    /\ missed' = (missed /\ reads > 0)
    /\ UNCHANGED <<daemonVars, sub, bus, tick, out, app, list, counters, prev, announced, shown>>

--------------------------------------------------------------------------------
(* The window.                                                                   *)

(* A bug: the announcement runs against a count that only grows.                 *)
Counted_Most(n) == IF n > prev THEN n ELSE prev

Counted(n) == n

(* An answer replaces what is shown, whatever that was.                          *)
Snapshot(r) ==
    /\ request[r].pc = "read"
    /\ list' = request[r].list /\ counters' = request[r].counters
    /\ prev' = Counted(Size(list'))
    /\ announced' = announced + (IF app # "connecting" /\ Size(list') > prev
                                 THEN Size(list') - prev ELSE 0)
    /\ shown' = request[r].read
    /\ app' = IF app = "connecting" THEN "opened" ELSE app
    /\ Set(r, NoRequest)
    /\ UNCHANGED <<feedVars, reads>>

(* Once there is a list to show, the event stream is opened.                     *)
Subscribe ==
    /\ app = "opened"
    /\ SubscribeNow
    /\ app' = "ready"
    /\ UNCHANGED <<daemonVars, bus, tick, out, missed,
                   request, list, counters, prev, announced, reads, shown>>

Free == {r \in Requests : request[r].pc = "none"}

(* A bug: no second snapshot is asked for while one is under way.                *)
Refresh_Once ==
    IF Free = Requests THEN Set(CHOOSE r \in Free : TRUE, Asked) ELSE UNCHANGED request

Refresh == Set(CHOOSE r \in Free : TRUE, Asked)

(* A bug: the counters of a download that stopped are not merged.                *)
Merge_Going(at) == [j \in Jobs |-> IF at[j] = "going" THEN at[j] ELSE counters[j]]

Merge(at) == [j \in Jobs |-> IF at[j] # "absent" THEN at[j] ELSE counters[j]]

HearEvent ==
    /\ app = "ready"
    /\ out # <<>>
    /\ out' = Tail(out)
    /\ LET m == Head(out) IN
       /\ IF m.kind = "changed" THEN Free # {} /\ Refresh ELSE UNCHANGED request
       /\ counters' = IF m.kind = "counters" THEN Merge(m.at) ELSE counters
    /\ UNCHANGED <<daemonVars, sub, bus, tick, missed, app, list, prev, announced, reads, shown>>

BesideWindow(A) == A /\ UNCHANGED windowVars

WindowNext ==
    \/ BesideWindow(DaemonStep) \/ BesideWindow(Sends)
    \/ BesideWindow(JoinBus) \/ BesideWindow(Forward)
    \/ BesideWindow(CollectTick) \/ BesideWindow(SendTick)
    \/ \E r \in Requests : ReadCounters(r) \/ ReadList(r) \/ Snapshot(r)
    \/ Subscribe \/ HearEvent

WindowSpec == WindowInit /\ [][WindowNext]_viewVars

(* As for a command that waits, and the window handles what it is sent.          *)
FairWindowSpec ==
    /\ WindowSpec
    /\ \A e \in DomainEvents : WF_viewVars(BesideWindow(Emit(e)))
    /\ WF_viewVars(BesideWindow(JoinBus)) /\ SF_viewVars(BesideWindow(Forward))
    /\ WF_viewVars(BesideWindow(CollectTick)) /\ SF_viewVars(BesideWindow(SendTick))
    /\ WF_viewVars(Subscribe) /\ WF_viewVars(HearEvent)
    /\ \A r \in Requests : WF_viewVars(ReadCounters(r) \/ ReadList(r) \/ Snapshot(r))

--------------------------------------------------------------------------------
(* Properties.                                                                   *)

Settled == app = "ready" /\ FeedQuiet /\ Free = Requests

Phase(j) == IF counters[j] # "absent" THEN counters[j] ELSE list[j]

(* With nothing on the way, the list shown names the downloads there are, if no  *)
(* event was lost and the answer shown is the one read last (main.rs 1177-1182). *)
ListIsCurrent ==
    Settled /\ ~missed /\ shown = reads => {j \in Jobs : list[j] # "absent"} = Listed

(* The phases shown catch up whatever was lost or arrived in the wrong order:    *)
(* the counters come again and again (main.rs 763-775, 1166-1170).               *)
PhasesCatchUp == <>[](\A j \in Listed : list[j] # "absent" => Phase(j) = job[j])

(* The claim of main.rs 563 ("genuine adds"): what is announced as added was     *)
(* added.                                                                        *)
AddsAreGenuine == announced <= Cardinality({j \in Fresh : job[j] # "unborn"})

(* What the re-fetch is for (main.rs 1171-1175), without the exceptions: the     *)
(* list does not stay as it was before the event.                                *)
ListIsNeverStale == Settled => {j \in Jobs : list[j] # "absent"} = Listed
===============================================================================
