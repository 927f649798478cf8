---------------------------- MODULE WindowRegistry ----------------------------
(* The windows of one kind: processes the daemon forks (daemon/tray/mod.rs) that *)
(* announce themselves over the local socket (ipc_local/server.rs), and the      *)
(* triggers that close one and open the next.                                    *)
(*                                                                               *)
(* Two tables under two locks have to agree: the registry of live event          *)
(* connections, and the tray's spawn state with its list of children.            *)
EXTENDS Naturals, FiniteSets

CONSTANTS
    MaxWindows,   (* bound: how many windows of the kind are ever forked         *)
    Triggers,     (* clicks that may be under way at once                        *)
    Reporters,    (* bound: the windows that report the keyboard focus           *)
    Deaf,         (* bound: the windows that may stop reading their events       *)
    MayFail       (* a fork may fail                                             *)

ASSUME WindowAssumption == MaxWindows \in Nat /\ MayFail \in BOOLEAN

Windows == 1..MaxWindows

VARIABLES
    proc,      (* proc[w]: the process of window w                               *)
    conn,      (* conn[w]: how far its event connection has come                 *)
    reg,       (* registry(): the window a Close would reach, or 0               *)
    told,      (* windows a Close was queued for                                 *)
    pending,   (* State::pending of the kind                                     *)
    children,  (* State::children of the kind                                    *)
    trigger,   (* trigger[t]: between its try_close and its try_spawn?           *)
    focus,     (* focus_state() of the kind                                      *)
    report,    (* report[w]: the focus report still on its request connection    *)
    latest,    (* history: the window that entered the registry last             *)
    misled,    (* history: a window confirmed the spawn of a later one           *)
    missed     (* history: windows whose Close found their channel full          *)

trayVars == <<pending, children>>
vars == <<proc, conn, reg, told, trayVars, trigger, focus, report, latest, misled, missed>>

Live == {w \in Windows : proc[w] = "live"}
Forked == {w \in Windows : proc[w] # "unborn"}
Starting == {w \in Live : conn[w] \in {"none", "subscribed", "hello"}}
Open == {w \in Live : conn[w] \in {"inserted", "ready"} /\ w \notin told}

TypeOK ==
    /\ proc \in [Windows -> {"unborn", "live", "exited"}]
    /\ conn \in [Windows -> {"none", "subscribed", "hello", "inserted", "ready", "dropping",
                             "dropped"}]
    /\ reg \in {0} \cup Forked /\ latest \in {0} \cup Forked
    /\ told \subseteq Forked /\ children \subseteq Forked
    /\ pending \in {"none", "spawning", "registered"}
    /\ trigger \in [Triggers -> {"idle", "closed"}]
    /\ focus \in BOOLEAN /\ misled \in BOOLEAN
    /\ report \in [Windows -> {"none", "gained", "lost"}]
    /\ missed \subseteq Forked

Init ==
    /\ proc = [w \in Windows |-> "unborn"]
    /\ conn = [w \in Windows |-> "none"]
    /\ reg = 0 /\ latest = 0 /\ told = {} /\ children = {} /\ pending = "none"
    /\ trigger = [t \in Triggers |-> "idle"]
    /\ focus = FALSE /\ misled = FALSE /\ missed = {}
    /\ report = [w \in Windows |-> "none"]

To(w, stage) == conn' = [conn EXCEPT ![w] = stage]

(* A connection that goes down keeps the registry's lock until it has told the   *)
(* tray: the registry waits for it, the tray does not.                           *)
RegistryFree == \A w \in Windows : conn[w] # "dropping"

--------------------------------------------------------------------------------
(* The daemon: evict_and_spawn, the two halves of a trigger.                     *)

Queued == told' = told \cup ({reg} \ {0}) /\ UNCHANGED missed

(* The window has not read its events for long: nothing more goes in.            *)
ChannelFull == reg \in Deaf \ {0} /\ missed' = missed \cup {reg} /\ UNCHANGED told

(* The entry is gone whether its Close was queued or not: nobody looks.          *)
TryClose(t) ==
    /\ trigger[t] = "idle"
    /\ RegistryFree
    /\ trigger' = [trigger EXCEPT ![t] = "closed"]
    /\ reg' = 0
    /\ Queued \/ ChannelFull
    /\ UNCHANGED <<proc, conn, trayVars, focus, report, latest, misled>>

Reap(kids) == kids \cap Live

(* A bug: the reaping forgets the exited children but not the spawn state.     *)
Recover_Children(kids) == pending

(* A spawn state outlives its children no longer than to the next trigger.       *)
Recover(kids) == IF Reap(kids) = {} THEN "none" ELSE pending

Fork(w) ==
    /\ w \notin Forked /\ \A v \in Windows : v < w => v \in Forked
    /\ proc' = [proc EXCEPT ![w] = "live"]
    /\ pending' = "spawning"
    /\ children' = Reap(children) \cup {w}

(* The daemon cannot tell what to run: only the reaping is left of the trigger.  *)
NothingToRun ==
    /\ MayFail
    /\ pending' = Recover(children)
    /\ children' = Reap(children)
    /\ UNCHANGED proc

ForkFails ==
    /\ MayFail
    /\ pending' = "none"
    /\ children' = Reap(children)
    /\ UNCHANGED proc

Refuse ==
    /\ Recover(children) = "spawning"
    /\ pending' = "spawning"
    /\ children' = Reap(children)
    /\ UNCHANGED proc

TrySpawn(t) ==
    /\ trigger[t] = "closed"
    /\ trigger' = [trigger EXCEPT ![t] = "idle"]
    /\ \/ Refuse
       \/ /\ Recover(children) # "spawning"
          /\ NothingToRun \/ ForkFails \/ \E w \in Windows : Fork(w)
    /\ UNCHANGED <<conn, reg, told, focus, report, latest, misled, missed>>

--------------------------------------------------------------------------------
(* A window: its event connection subscribes, says Hello once that is answered,  *)
(* and waits for events; its other connection reports the keyboard focus.        *)

Subscribe(w) ==
    /\ w \in Live /\ conn[w] = "none"
    /\ To(w, "subscribed")
    /\ UNCHANGED <<proc, reg, told, trayVars, trigger, focus, report, latest, misled, missed>>

SayHello(w) ==
    /\ w \in Live /\ conn[w] = "subscribed"
    /\ To(w, "hello")
    /\ UNCHANGED <<proc, reg, told, trayVars, trigger, focus, report, latest, misled, missed>>

Exit(w) ==
    /\ w \in Live
    /\ proc' = [proc EXCEPT ![w] = "exited"]
    /\ UNCHANGED <<conn, reg, told, trayVars, trigger, focus, report, latest, misled, missed>>

HearClose(w) == w \in told /\ Exit(w)

FocusMoves(w, how) ==
    /\ w \in Live \cap Reporters /\ report[w] = "none"
    /\ report' = [report EXCEPT ![w] = how]
    /\ UNCHANGED <<proc, conn, reg, told, trayVars, trigger, focus, latest, misled, missed>>

--------------------------------------------------------------------------------
(* The server's side of the connections.  What was sent is handled, whatever has *)
(* become of the window since.                                                   *)

WindowFocused(w) ==
    /\ report[w] # "none"
    /\ focus' = (report[w] = "gained")
    /\ report' = [report EXCEPT ![w] = "none"]
    /\ UNCHANGED <<proc, conn, reg, told, trayVars, trigger, latest, misled, missed>>

(* register_if_ready: the registry first, then the tray.                         *)
Register(w) ==
    /\ conn[w] = "hello"
    /\ RegistryFree
    /\ To(w, "inserted")
    /\ reg' = w /\ latest' = w
    /\ UNCHANGED <<proc, told, trayVars, trigger, focus, report, misled, missed>>

MarkRegistered(w) ==
    /\ conn[w] = "inserted"
    /\ To(w, "ready")
    /\ pending' = "registered"
    /\ misled' = (misled \/ \E v \in Forked : v > w)
    /\ UNCHANGED <<proc, reg, told, children, trigger, focus, report, latest, missed>>

(* A bug: the connection trusts that the entry is its own.                     *)
Deregister_Any(w) ==
    /\ w \notin Live /\ conn[w] \in {"subscribed", "ready"}
    /\ RegistryFree
    /\ IF conn[w] = "ready"
       THEN reg' = 0 /\ focus' = FALSE /\ To(w, "dropping")
       ELSE UNCHANGED <<reg, focus>> /\ To(w, "dropped")
    /\ UNCHANGED <<proc, told, trayVars, trigger, report, latest, misled, missed>>

(* A bug: the connection leaves the entry to the next try_close.               *)
Deregister_Keeps(w) ==
    /\ w \notin Live /\ conn[w] \in {"subscribed", "ready"}
    /\ RegistryFree
    /\ To(w, IF conn[w] = "ready" /\ reg = w THEN "dropping" ELSE "dropped")
    /\ UNCHANGED <<proc, reg, focus, told, trayVars, trigger, report, latest, misled, missed>>

(* The connection of an exited window is dropped: it takes its own entry, and no *)
(* other, out of the registry.                                                 *)
Deregister(w) ==
    /\ w \notin Live /\ conn[w] \in {"subscribed", "ready"}
    /\ RegistryFree
    /\ IF conn[w] = "ready" /\ reg = w
       THEN reg' = 0 /\ focus' = FALSE /\ To(w, "dropping")
       ELSE UNCHANGED <<reg, focus>> /\ To(w, "dropped")
    /\ UNCHANGED <<proc, told, trayVars, trigger, report, latest, misled, missed>>

(* A bug: clear_pending without its check of the state.                        *)
ClearPending_Always(w) ==
    /\ conn[w] = "dropping"
    /\ To(w, "dropped")
    /\ pending' = "none"
    /\ UNCHANGED <<proc, reg, told, children, trigger, focus, report, latest, misled, missed>>

(* Last, it forgets the spawn it confirmed.                                    *)
ClearPending(w) ==
    /\ conn[w] = "dropping"
    /\ To(w, "dropped")
    /\ pending' = IF pending = "registered" THEN "none" ELSE pending
    /\ UNCHANGED <<proc, reg, told, children, trigger, focus, report, latest, misled, missed>>

WindowStep(w) == Subscribe(w) \/ SayHello(w) \/ HearClose(w)

ServerStep(w) == Register(w) \/ MarkRegistered(w) \/ Deregister(w) \/ ClearPending(w)

Next ==
    \/ \E t \in Triggers : TryClose(t) \/ TrySpawn(t)
    \/ \E w \in Windows :
           \/ WindowStep(w) \/ ServerStep(w) \/ WindowFocused(w) \/ Exit(w)
           \/ \E how \in {"gained", "lost"} : FocusMoves(w, how)

Spec == Init /\ [][Next]_vars

(* A window that has started connects or dies, the server handles what it got,   *)
(* and a trigger once pulled runs on.  Nobody has to click, close or crash.      *)
FairSpec ==
    /\ Spec
    /\ \A w \in Windows :
           WF_vars(WindowStep(w)) /\ WF_vars(ServerStep(w)) /\ WF_vars(WindowFocused(w))
    /\ \A t \in Triggers : WF_vars(TrySpawn(t))

--------------------------------------------------------------------------------
(* Properties.                                                                   *)

(* The registry never names a connection that has gone down: a Close sent there  *)
(* would reach nobody (server.rs 192-214).                                       *)
RegistryIsLive == reg # 0 => conn[reg] \in {"inserted", "ready"}

(* The window that came up last can be reached until it is told to close: the    *)
(* end of the one before it does not take its entry (server.rs 197-208).  The    *)
(* exception is a window whose entry went with a Close that was never queued.    *)
LatestIsReachable == latest \in Open \ missed => reg = latest

(* Clicks do not pile up processes: one window is starting at a time             *)
(* (tray/mod.rs 190-194), unless a window confirmed the spawn of a later one.    *)
OneStarting == ~misled => Cardinality(Starting) <= 1

(* The user is never left with neither: again and again there is a window on     *)
(* screen, or a click would open one (tray/mod.rs 92-100).                       *)
Blocked == Recover(children) = "spawning"
NeverShutOut == []<>(~Blocked \/ Open # {})

(* The claim of tray/mod.rs 219-220 ("closes any existing window ... and opens a *)
(* fresh one"): a trigger that is done leaves a window open or on its way.       *)
ClickOpens ==
    [][\A t \in Triggers :
           trigger[t] = "closed" /\ trigger'[t] = "idle" =>
               \E w \in Windows : proc'[w] = "live" /\ w \notin told]_vars

(* The claim of tray/mod.rs 219-220 of the window that came up last: the next    *)
(* trigger can close it, or one before has.                                      *)
LatestCloses == latest \in Open => reg = latest

(* The claim of tray/mod.rs 186 and 220 ("single instance"): no two windows of   *)
(* the kind stay open side by side.                                              *)
SingleInstance == Cardinality(Open) <= 1

(* The claim of tray/mod.rs 190-194 without the exception OneStarting makes.     *)
NeverTwoStarting == Cardinality(Starting) <= 1

(* The claim of server.rs 49-50 ("Is this window open *and* focused?"): the kind *)
(* is never taken for focused when nothing of it is open, once every report is   *)
(* in.                                                                           *)
FocusIsOfAWindow ==
    focus /\ (\A w \in Windows : report[w] = "none") => \E w \in Forked : conn[w] # "dropped"

===============================================================================
