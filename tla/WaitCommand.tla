------------------------------ MODULE WaitCommand ------------------------------
(* `oxdm wait` and `oxdm add --wait` (cli/wait.rs): follow some downloads over   *)
(* an event connection until each has finished, stopped, failed or gone.         *)
EXTENDS EventFeed

CONSTANT Tracked   (* the downloads the command was given                        *)

ASSUME WaitAssumption ==
    /\ Tracked \subseteq Jobs /\ Tracked # {}
    /\ Nil \notin [job : Jobs, state : Phases \cup {"removed"}]

VARIABLES
    pc,       (* follow: idle, look (at those in todo), asked, reading, done,    *)
              (* gave_up                                                         *)
    todo,     (* the downloads to look at before it reads on                     *)
    answer,   (* the look the daemon has answered, or Nil                        *)
    track     (* track[j]: the phase seen last; "new" before the first look      *)

followVars == <<pc, todo, answer, track>>
vars == <<feedVars, followVars>>

Ends == {"paused", "completed", "removed"}

TypeOK ==
    /\ FeedTypeOK
    /\ pc \in {"idle", "look", "asked", "reading", "done", "gave_up"}
    /\ todo \subseteq Tracked
    /\ answer \in {Nil} \cup [job : Tracked, state : Phases \cup {"removed"}]
    /\ track \in [Tracked -> {"new", "going"} \cup Ends]
    /\ pc = "asked" <=> answer # Nil

Init ==
    /\ FeedInit
    /\ \A j \in Tracked : job[j] = "going"
    /\ pc = "idle" /\ todo = {} /\ answer = Nil
    /\ track = [j \in Tracked |-> "new"]

(* Tracker::pending.                                                             *)
Pending == {j \in Tracked : track[j] \notin Ends}

--------------------------------------------------------------------------------

(* A connection of its own subscribes; only then are the downloads looked at.    *)
Begin ==
    /\ pc = "idle"
    /\ SubscribeNow
    /\ pc' = "look"
    /\ todo' = Tracked
    /\ missed' = FALSE
    /\ UNCHANGED <<daemonVars, bus, tick, out, answer, track>>

(* A bug: a download that left the list is reported as the registry last had it. *)
JobEntry_Raw(j) == job[j]

JobEntry(j) == IF j \in Listed THEN job[j] ELSE "removed"

(* refresh: a request on the other connection ...                                *)
Ask(j) ==
    /\ pc = "look"
    /\ j \in todo
    /\ pc' = "asked"
    /\ todo' = todo \ {j}
    /\ answer' = [job |-> j, state |-> JobEntry(j)]
    /\ UNCHANGED <<feedVars, track>>

(* ... whose answer counts unless the download has an outcome already.           *)
Observe ==
    /\ pc = "asked"
    /\ pc' = "look"
    /\ answer' = Nil
    /\ track' = IF answer.job \in Pending THEN [track EXCEPT ![answer.job] = answer.state]
                ELSE track
    /\ UNCHANGED <<feedVars, todo>>

Wait ==
    /\ pc = "look" /\ todo = {} /\ Pending # {}
    /\ pc' = "reading"
    /\ UNCHANGED <<feedVars, todo, answer, track>>

(* The command exits, and its connection goes with it.                           *)
Leaves(how) ==
    /\ pc' = how
    /\ HangUp
    /\ UNCHANGED <<daemonVars, missed, todo, answer, track>>

Finish == pc = "look" /\ todo = {} /\ Pending = {} /\ Leaves("done")

(* handle: which downloads a message is a reason to look at.                     *)
Marks(m) ==
    CASE m.kind = "changed" -> Pending
      [] m.kind = "ended" -> {m.job} \cap Tracked
      [] m.kind = "counters" -> {j \in Pending : m.at[j] \notin {"absent", track[j]}}

(* A bug: of a burst, only the last message is acted on.                         *)
Burst_Last(n) == Marks(out[n])

Burst(n) == UNION {Marks(out[i]) : i \in 1..n}

(* The next message, and what is queued behind it by then.                       *)
Read ==
    /\ pc = "reading"
    /\ \E n \in 1..Len(out) :
           /\ todo' = Burst(n)
           /\ out' = SubSeq(out, n + 1, Len(out))
    /\ pc' = "look"
    /\ UNCHANGED <<daemonVars, sub, bus, tick, missed, answer, track>>

(* The deadline or Ctrl-C; neither is looked at during a look.                   *)
GiveUp == pc = "reading" /\ Leaves("gave_up")

FollowStep == Observe \/ Wait \/ Finish \/ Read \/ \E j \in Tracked : Ask(j)

Beside(A) == A /\ UNCHANGED followVars

Next ==
    \/ Beside(DaemonStep) \/ Beside(Sends)
    \/ Beside(JoinBus) \/ Beside(Forward) \/ Beside(CollectTick) \/ Beside(SendTick)
    \/ Begin \/ FollowStep \/ GiveUp

Spec == Init /\ [][Next]_vars

(* Events are sent, the pump's tasks run, and both its producers get their turn  *)
(* at the channel (a tokio channel hands out its permits in order).  The command *)
(* runs on whenever it can; nobody has to interrupt it.                          *)
FairSpec ==
    /\ Spec
    /\ \A e \in DomainEvents : WF_vars(Beside(Emit(e)))
    /\ WF_vars(Beside(JoinBus)) /\ SF_vars(Beside(Forward))
    /\ WF_vars(Beside(CollectTick)) /\ SF_vars(Beside(SendTick))
    /\ WF_vars(FollowStep)

--------------------------------------------------------------------------------
(* Properties.                                                                   *)

(* A command that waits for the next event, with nothing on the way, has not     *)
(* overlooked that a download it waits for was removed (wait.rs 256-260), unless *)
(* the event was lost before it reached the pump.                                *)
RemovalIsSeen == pc = "reading" /\ FeedQuiet /\ ~missed => Pending \subseteq Listed

(* The command ends once its downloads have: a lost event is made up for by the  *)
(* counters, the loss of a removal is not (wait.rs 163-173, 319-321).            *)
WaitEnds ==
    <>[](pc # "idle" /\ ~missed /\ \A j \in Tracked : job[j] # "going")
        => <>(pc \in {"done", "gave_up"})

(* The claim of wait.rs 256-257 ("a change in between is seen twice rather than  *)
(* not at all"), without the exception.                                          *)
ChangeIsSeen == pc = "reading" /\ FeedQuiet => Pending \subseteq Listed
===============================================================================
