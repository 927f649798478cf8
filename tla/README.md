# Formal models of oxdm

oxdm is a download manager in Rust: a daemon that owns the list of downloads,
their queues and their database, runs transfers through the `odl` library, and
serves windows, a tray, a command line and a browser extension over local IPC.
This directory holds TLA+ models of the parts where several actors touch the
same state (the daemon's tasks, its windows and command line, the process that
installs an update), the TLC runs that check them on small instances
and the TLAPS proofs of what was worth proving for every size.

Line numbers below are of `src/src/...`.

## 1. Inventory

| Part | Code | State it keeps | What makes it hard |
| --- | --- | --- | --- |
| Job registry and life cycle | `data/state.rs` (`JobEntry`, `start_run`, `pause`, `cancel_to_queued`, `restart_job`, `remove`, the edits) | a map from job to `Arc<JobEntry>`: `running`, `live_phase`, the cancel token, `job` itself | every edit replaces the `Arc` by a copy; a start spans a dozen awaits; a run task works on the entry it captured |
| Download run | `data/runner.rs`, `data/pause.rs`, `data/resolvers.rs` | the transfer in `odl`, a pump of progress events | its events and its end arrive after the stop that caused them |
| Queue runs | `data/state.rs` (`start_queue`, `stop_queue`, `fill_queue_slots`, `fill_deferred_slots`, `maybe_finish_queue`, `admit`) | `active_queues`: one `QueueRunTally` per queue; `deferred_by_cap`, `manual_run` per job | two caps, several fillers, sweeps racing fillers, tallies opened and dropped by several parties |
| Power guard | `data/power.rs`, `daemon/completion_actions.rs`, `gui/windows/power.rs` | the one pending destructive action, its grace task | a sleeping task that may be aborted, woken early, or wake too late; events sent after the unlock |
| Store | `data/store.rs` | a SQLite row per job, queue, setting | written from copies of entries, outside the registry lock; read back after a crash |
| Queue scheduler | `data/queue_scheduler.rs`, `data/conditions.rs`, `data/idle.rs`, `domain/queue.rs` | the verdict of the last tick, cached command verdicts | edge-triggered on its own memory; windows across midnight |
| Shared probes | `state.rs::probe_shared` | a slot per URL, a broadcast to those who wait | the leader may fail, be late, or disappear |
| Checksum verification | `state.rs::verify_checksums`, `domain/checksum.rs` | `verifying` per entry, `verify_pending` in the row | a flag on an entry that edits copy; a check owed across a crash |
| Update flow | `state.rs` (`add_update_job` ... `cancel_update`), `update_install.rs`, `data/update_*.rs`, `completion_actions.rs` | `pending_update`, `hidden_jobs`, `updater`; the installer process with its pipe, its payload and the programs on disk | cancel at any point of download and staging; two processes that each outlive the other's failure |
| Conflict resolution | `data/resolvers.rs`, `conflict_queue` | tokens waiting for an answer, a queue of questions | answers that come late or for another run |
| Daemon exit | `daemon/tray/mod.rs::quit_daemon`, `state.rs` (`begin_exit`, `halt_for_exit`, `run_finished`) | the exit flag, one waiter for the end of runs, two deadlines | starts in flight, assemblies that must be waited for, a signal that may be sent before it is waited for |
| Window registry | `ipc_local/server.rs` (`register_if_ready`, `Drop for ConnState`), `daemon/tray/mod.rs` (`try_spawn`, `mark_registered`, `clear_pending`) | which connection is the window of a kind; the spawn state and the children of a kind | two locks, a window and its successor alive at once, crashes at any point |
| Event feed | `data/events.rs`, `ipc_local/server.rs::spawn_event_pump` | a bounded broadcast and, per connection, a forwarder, a counter pump and a channel | overflow drops events; the answer to Subscribe comes before the subscription; answers overtake each other |
| Followers of the feed | `cli/wait.rs`, `gui/windows/main.rs` | what a command or the main window believes of the downloads | a belief that has to catch up with what it was not told |
| Hooks, file watch, notifications | `data/hooks.rs`, `data/file_watch.rs`, `daemon/*` | none that others read | processes and file-system events |
| Other IPC, commands, windows, native host | `ipc_local/*`, `ipc/*`, `cli/*`, `gui/*`, `bin/*` | connections, widgets | large, but without shared protocol state |
| Domain values | `domain/*` | none | pure functions |

How they interact: every request (window, CLI, tray, scheduler, extension)
becomes a call of an `AppState` method on its own tokio task. The methods take
`jobs` (a read-write lock on the map), `active_queues`, `admission` and a few
others one after the other and hold none of them across the whole operation.
A run is a task of its own; what it reports reaches `AppState` as odl events,
and its epilogue ends with a task that hands its slot on. All of them
broadcast `DomainEvent`s that windows and `completion_actions` receive.
Windows are processes of their own: the tray forks them, they register over
the local socket, follow the event feed there and are told to close through
it. The installer of an update is a process too, tied to the daemon by one
pipe and by waiting for the daemon's end.

## 2. Modules

| Module | Models | Checked by | Proved in |
| --- | --- | --- | --- |
| `PowerPromise` | what a caller of the power guard is promised | as `KeepsPromises` | |
| `PowerGuard` | `data/power.rs`, the exit-app action of `completion_actions.rs` | itself | `PowerGuard_proofs` |
| `JobLifecycle` | one job: its entry and copies of it, calls, runs, edits, its row, crashes | `MCJobLifecycle` | `JobLifecycle_proofs` |
| `QueueRuns` | many jobs and queues: the caps, the tallies, starting, feeding and stopping runs | `MCQueueRuns` | `QueueRuns_proofs` |
| `QueueSchedule` | one queue's schedule: the scheduler's tick, verdicts, starts by an arriving job, spent one-offs | `MCQueueSchedule` | `QueueSchedule_proofs` |
| `DaemonExit` | `quit_daemon` against the downloads it winds down | itself | `DaemonExit_proofs` |
| `UpdateFlow` | the daemon's half of a self-update and the helper process | itself | `UpdateFlow_proofs` |
| `WindowRegistry` | the windows of one kind: triggers, processes, connections, the registry and the spawn state | itself | `WindowRegistry_proofs` |
| `EventFeed` | the broadcast and the event pump of one connection | its clients | |
| `WaitCommand` | `oxdm wait`, a client of `EventFeed` | itself | `EventFeed_proofs` |
| `MainWindow` | the download list of the main window, a client of `EventFeed` | itself | `EventFeed_proofs` |

### PowerGuard

`slot` is `inner.slot` (sequence number of what is pending), a task per arming
is the grace task of `arm`: it sleeps, may be woken by `confirm` or aborted by a
newer `arm` or `cancel`, and then looks at the slot before it executes. The events are
sent after the unlock, so `Send` is a step of its own and windows see the order
of the sends. `ExitCheck` and `ExitNow` are the two ends of the 250 ms the
exit-app action sleeps. `PowerPromise` is the contract: at most one promise
stands, the first arming wins, and a promise is kept once or withdrawn.

### JobLifecycle

The registry maps the job to an `Arc<JobEntry>`. An edit swaps in a copy
(`clone_entry_with_job`), so each `Arc` is a *generation*: `cur` is the one in
the map, every caller and run remembers the one it captured (`ref`, `own`).
`phase`, `token` and membership in `running` and `rooted` are per generation. A
caller's `pc` names the place between two awaits of `start_run`, `pause`,
`cancel_to_queued`, `restart_job` or `remove`; a run goes from `fetching` over
`ended` through the epilogue (`writing`, `persisting`, `storing`, `parking`,
`releasing`). `row` and `loaded` are the phase in the database and the load-time
phase that lives inside the entry's `job` and is what edits store. Whoever
persists reads the live phase (`ReadLive`, into `read`) and writes it an await
later (`StoreRead`), and so rows can be written in another order than they were
read in; an edit and `record_work_root` swap the entry first and store the `job`
in a step of its own (`StoreEdit`, counted by `unsaved`, and `StoreWorkRoot`).
`newest` is history: where the phase that was read last has got to, in a hand, on
disk or written over. `Crash` forgets all but the row. The calls share their
common parts: `resume` is `start`, a pause is four steps (cancel the captured
token, mark the entry in the map, read it, store it).

Abstracted: byte counts, names, errors, checksum rows; a full cap (which defers
the start) is a choice in `Admit`, since caps are the business of `QueueRuns`.

### QueueRuns

`phase[j]` is the live phase, `at[j]` the run's place (`claimed`, `live`,
`ended`), `mode[q]` the tally of queue `q`: `running` feeds itself, `suspended`
is a run under Pause all, `counting` a tally that is no run (opened by a start
outside a run, or switched off). Processes are the users' calls and one
finisher per download; all of them start downloads through `Mark`, `Admit` and
`Launch`, and come back to the loop they were in (`back`).

Abstracted: the order of the list (any candidate may be the next one, which
includes the order the code picks), the exit flag, conflicts and the grace in
`settle_previous_run` (a start waits for the run that is winding down). A pause
is one step here and the reads of one loop turn are merged when nothing is
awaited on other state between them; what those windows allow is
`JobLifecycle`'s subject. A refused start stands for a full disk or a cache folder that
cannot be made; a start when `MaxRuns` is used up is never admitted. Downloads whose file failed
its checksum, which no automatic start takes, are left out.

### QueueSchedule

`tick.pc` is the place of the scheduler's task between two awaits: it copies
the queues (`TickSnapshot`), probes the machine (`TickProbe`), polls the
condition command unless a cached verdict is fresh (`TickPoll`), and compares
the verdict with the one it remembers (`TickDecide`, `last` is
`last_active[q]`). A rising edge starts the queue; a verdict that no longer
lets a run go on stops it, if the tick remembers starting it or `by_trigger`
answers yes (`TickAsk`). `added` is `queue_took_a_job` for a queue at rest,
`spend` the copy `spend_one_off_schedule` holds. `Verdict` is the function of
that name: moments that have passed count as met for a queue that runs.

What `start_queue` and `stop_queue` do to downloads is module `QueueRuns`'; here
a run is on or off, and a start may start nothing. Time is counted in moments,
`DayLen` to a day; the machine's state (`world`) changes at any time and a probe
may fail to read what holds. `by` and `dismissed` are history: who started the
run that is on, and whether the user stopped the run of the present verdict.

### DaemonExit

`at[j]` follows one start and its run (`start_run`, the run's phases, the
epilogue, and `Notify`, its last step, which wakes `run_finished`); `phase`,
`running` and `told` are the live phase, the flag and the cancelled token, and
`unseen` the assemblies whose event the pump has not applied, which is why a run can
be copying while it still shows as downloading. `quit` is the task of
`quit_daemon`: two sweeps (`stop_queues` over what the queues started,
`pause_all` over what runs), the loop `arm`, `count`, `look`, `wait`, a third
sweep, the cancel and the grace. `pausing` is `pause_in_place` as the quit task
and as a user call it, in its three steps. `clock` tells which of the two
deadlines have passed since the first sweep ended. `owed` is history: what ran
when the exit was asked for and has had no row written since; `crossed` is
history too: assemblies whose news came while a user's pause was past its look.

Each download runs once here; what a second run meets of the first is
`JobLifecycle`'s subject and the caps are `QueueRuns`'. The windows the exit
closes and opens are `shown`; closing them changes nothing it waits for.

### UpdateFlow

Per update `u`: its download `job[u]`, how far `add_update_job` has come
(`adding[u]`), and its helper `helper[u]` with what its pipe brings it
(`stdin[u]`), its `payload[u]` and whether the reader of its output has heard
of its failure (`said`), or is not there at all (`mute`: the updater came
without its output, state.rs 1974-1977). `pending`, `updater` and `hidden` are the fields of
`AppState`, `bus` the outcomes the watcher in `completion_actions.rs` has still
to receive, `watcher` where it is in `stage_update`, `cancel` where
`cancel_update` is. A pipe closes when the daemon lets go of the child
(`Closed`) or ends. `disk` is which version of each program is installed:
`Swap` moves one after the other, `SwapFails` and `Elevate` are what can go
wrong half-way, down to an old program that could not be put back (`Holes`).
`HelperFails` and `HelperDies` are a helper's own ends, before or after it is
told to go. `Relaunch` starts the app, or the system refuses to
(`LaunchFails`, remembered in `refused`). `early` (history) marks helpers whose
thirty seconds ran out before the daemon was gone. When the daemon is gone all
it had in memory is (`DaemonGone`).

The exit itself is `DaemonExit`'s: here it lasts as long as it likes. The
digest check is part of a download completing.

### WindowRegistry

One kind of window. A trigger is `evict_and_spawn`: `TryClose` under the
registry's lock, then `TrySpawn` under the tray's. A window `w` is a process
(`proc[w]`) and the server's side of its connection (`conn[w]`), which outlives
it: what was sent is handled, and the drop comes some time after the exit.
`Register` and `MarkRegistered` are the two locks of `register_if_ready`,
`Deregister` and `ClearPending` those of the drop, which keeps the first while
it takes the second (`RegistryFree`). `focus` is the flag download windows
report. A Close is `Queued` or finds the channel full (`ChannelFull`); the entry is
gone either way. `misled` and `missed` are history: a window confirmed the spawn of
a later one, and a window's Close was dropped.

### EventFeed, WaitCommand, MainWindow

`EventFeed` has the state every follower shares: the downloads (`job`), the
events whose change is made but which are not sent yet (`owed`), the broadcast
as its slowest reader sees it (`bus`), what the counter pump holds (`tick`) and
the channel to the reader (`out`), where the server's and the client's queue
are one after the other. `sub` tells apart that Subscribe was answered
(`asked`) and that the forwarder is on the bus (`on`), which happens later, in
its own task. `missed` is history: a change of the list which the forwarder never
hears of. A download is `going` in any phase it leaves by itself; a completion is
`JobCompleted` followed by `JobUpdated`, and a failure has the effects of the
second.

`WaitCommand` is `follow` in `cli/wait.rs`: subscribe, look at every download,
then read events in bursts and look again at what they mark. Its looks go over
another connection (`Ask`, `Observe`), so a full event queue does not hold them
up. `MainWindow` asks for a snapshot when it opens and whenever the list may
have changed; the server answers each request in a task of its own
(`ReadCounters`, `ReadList`), so answers can be read and arrive in any order. Its
specification is `WindowSpec`, so that one proof module can extend both clients.

## 3. Runs

| Run | Instance | Shows |
| --- | --- | --- |
| `PG_guard` | three armings, any number of cancels and confirms | only the claimed arming executes, refinement of `PowerPromise`, every arming ends |
| `JL_registry` | 2 callers (start, pause, remove), 2 runs, 1 edit, grace may expire | one run at a time, the map knows of it, a stopped run stays stopped |
| `JL_settles` | 2 callers (start, pause, remove), 2 runs, 1 crash, no edits | a run that is over gave the job back and left a settled phase; what a stopped job shows is on disk, unless the phase read last was written over |
| `JL_answers` | 1 caller (start, pause, cancel, restart), 2 runs, 1 crash, the grace may run out, fair calls | a start answers although the run it waits for may never end; settled phase and disk with cancel and restart |
| `QR_feed` | 2 queues, 3 downloads, global cap 2, queue cap 1, one download added at any time, 3 calls | automatic starts stay inside both caps; a run that is open when all is quiet has nothing left to start |
| `QR_returns` | 2 queues, 2 downloads, every call, refusals | sweeps and fillers terminate |
| `QS_tick` | 1 queue, 7 schedules of every kind, 2 days of 2 moments, 2 condition commands | the due computation is what a schedule means; a lapse stops what the tick started; a user's stop holds; no decision on another command's verdict |
| `DE_exit` | 2 downloads, one a queue's and pausable by hand, set-up may fail | the exit's wait loses no signal; an assembly it opened a window for is told to stop by nobody, and one it counted is not cut off before its five minutes; what ran has its row; the exit ends whatever the runs do |
| `UF_update` | 2 updates, an archive of 2 programs, one helper may come without its output | nothing is swapped that was not asked for; the download About is told of is there, and so is the helper unless it ended by itself; an outcome is acted on; an app comes back after a failed swap unless the system does not start it |
| `WR_windows` | 3 windows of one kind, 2 triggers, one window reports focus, one may stop reading its events, forks may fail | the registry names living connections; the latest window can be closed, or its Close was dropped; one window starts at a time; nobody is locked out |
| `EF_wait` | 2 downloads followed, broadcast of 1, channel of 2, 2 changes | a removal the pump heard of is noticed; the command ends when its downloads have |
| `EF_window` | 2 downloads, one added later, same channels, 2 changes | the list that settles names the downloads there are; phases catch up |

The type invariants of `PowerGuard`, `QueueSchedule`, `DaemonExit`,
`UpdateFlow` and `WindowRegistry` are theorems, so no run repeats them. In
`EF_window` the type invariant also says that the count adds are announced
against is the size of the list shown; in `EF_wait`, that a look reports a
phase the command knows what to do with.

### Further disagreements

These properties state what a comment or a doc of the repository says; the code
violates them. The `.cfg` named shows each within seconds (`tlc -config
JL_remove_live.cfg MCJobLifecycle`); "in" a `.cfg` means with the property in
place of that file's own. Most are narrow races. The first six are
the ones a user could meet.

| cfg | Property | What happens |
| --- | --- | --- |
| `JL_leak` | `EpilogueReleases` | an edit between the epilogue's lookup (state.rs 4400) and the release (4528): the copy in the map keeps `running`, the state 4374-4379 warns of |
| `JL_unspliced` | `StopIsNeverLost` | an edit stores the load-time phase (1110): a restart brings back an older phase, against 3136-3143 |
| in `JL_settles` | `StopIsNeverLost` | with no edit: a persist reads the entry (3144), lets go of the registry and writes its row (3148) after a later persist wrote its own, so a restart brings back the older phase, against 3136-3143 |
| `QR_starved` | `DeferredIsServed` | Resume all with a full cap: the second download is deferred and never looked at again, which 4002-4004 rules out |
| `QR_stall` | `NoStall` | two queues under a global cap that binds: the slot filler of a run finds it full and returns (state.rs 1505) without deferring anything, the end of the other queue's download feeds that queue and the deferred only, and a run stays open with a download queued, against 4534-4538 |
| `QS_lapse` | `LapseStops` | "any of: job added, AC power": the trigger counts as met for a running queue (queue_scheduler.rs 269), so unplugging never stops it, against 15-19 |
| `QS_by_hand` | `ByHandIsSpared` | a queue with a job-added trigger, started by hand, is stopped by the next tick (114), against 107-113 |
| `PG_exit` | `ExitDropsNothing` | an action armed during the 250 ms before the exit-app action exits is dropped |
| `PG_feed` | `FeedShowsPending` | the cancellation of an older arming is received after the newer arming |
| `JL_cancelled` | `QueuedIsPausedOnlyByPause` | the run's epilogue writes Paused over the Queued of `cancel_to_queued` |
| `JL_unfinished` | `FinishedStaysFinished` | a pause that found the download running marks it Paused (4680) after it completed |
| `JL_lost_pause` | `PausedMeansStopping` | a pause between the claim (4163) and the fresh token (4173) cancels the token of the run before |
| `JL_remove_live` | `RemoveSparesLiveRun` | a start claims the job between `remove`'s check (4846) and its deletions |
| `JL_remove_row` | `RemovedStaysRemoved` | a persist that read the entry before a remove writes the row after it |
| `JL_started` | `StartedMeansRunning` | a start whose grace ran out answers Ok and starts nothing |
| `JL_assembly` | `RestartSparesAssembly` | a restart deletes the work directory under an assembly its check (4775) missed |
| `QR_finish` | `FinishedMeansDrained` | a download is added between the two locks of `maybe_finish_queue` |
| `QR_restart` | `StopEndsItsOwnRun` | `stop_queue` drops the tally of a run started while it swept |
| `QR_manual` | `HandStartedStaysManual` | an automatic start that starts nothing relabels a hand-started run |
| `QR_outlives` | `FillerStopsWithRun` | a slot filler claims a download after Stop queue has swept |
| `QS_future` | `FutureIsUntouched` | a booking set while `spend_one_off_schedule` holds its copy is replaced by Manual (1644) |
| `DE_late` | `NothingStartsLate` | a start that passed the exit check (state.rs 4074) claims its job after the exit began, against 879-881 |
| in `DE_late` | `ExitWaitsForAssembly` | a run begins its assembly after the exit's last look and is cut off at the short deadline, against tray/mod.rs 363-366 |
| in `DE_exit` | `ShownIsFinished` | a user's pause looks before the fresh token is there and marks the assembly Paused once it shows: the exit, woken by another run, sees none assembling, keeps to the short deadline, cancels it (4669) and ends while it copies, against tray/mod.rs 363-366 |
| in `DE_exit` | `EveryEndSignals` | a start whose set-up fails (state.rs 4204-4219) gives its job back and wakes nobody: the exit waits out its deadline, against tray/mod.rs 390-392 |
| `UF_survivor` | `CancelLeavesNoInstaller` | a cancel before the helper is spawned finds none to kill (5201); staging goes on and leaves one waiting, against 5194-5195 |
| in `UF_survivor` | `SwapAfterExit` | the helper's thirty seconds (update_install.rs 269) are over before an exit that may take five minutes, against state.rs 2006-2007 |
| in `UF_survivor` | `UpdateStaysHidden` | the cancel gives up on a run after ten seconds and stops hiding its download (5222), against 1683 and 5199 |
| in `UF_survivor` | `NoHalfInstall` | one program is swapped and the next is refused: a mixed set stays, against update_install.rs 324-326 and 244 |
| in `UF_survivor` | `StagedIsHonest` | a helper fails or dies before it is told to go: its reader just ends (state.rs 1984-2003) and `updater` stays set, so About goes on offering an install nobody can do; `fail_update` (2075) leaves it too, and the next update shows as staged from its first byte; against 1989-1990 |
| in `UF_update` | `FailureLeavesApp` | the old program cannot be put back (update_install.rs 514) or the system does not start it (160), and nobody tries again: no app is left, against 156-157 and 244 |
| in `UF_update` | `FailureIsItsOwn` | a second update is asked for after the watcher recognised the failure of the first (completion_actions.rs 47): `fail_update` clears the one that is downloading (2075), against state.rs 1737-1739 |
| `WR_lost` | `ClickOpens` | a click between the insert and the mark of a registration closes that window (server.rs 180) and is refused a new one, against tray/mod.rs 219-220 |
| in `WR_lost` | `SingleInstance` | a click finds nothing to close, the window that was starting registers, and the second half of the click opens another beside it, against tray/mod.rs 219-220 |
| in `WR_lost` | `NeverTwoStarting` | a window in the middle of its registration exits, a click spawns the next, the late `mark_registered` (146) confirms that spawn, and another click spawns one more, against 190-194 |
| in `WR_lost` | `FocusIsOfAWindow` | a focus report handled after the entry is gone (server.rs 312) leaves the flag set with no window, against 49-50 |
| in `WR_lost` | `LatestCloses` | `try_close` takes the entry out before it queues the Close (server.rs 79-83), and nobody looks at its answer (tray/mod.rs 205): a window whose channel is full stays open and no later trigger reaches it, against tray/mod.rs 219-220 |
| in `EF_wait` | `ChangeIsSeen` | a removal between the answer to Subscribe and the forwarder's first step (server.rs 367) reaches nobody, against wait.rs 256-257 |
| `EF_adds` | `AddsAreGenuine` | a snapshot read before a removal is shown after the one read later: the count grows (main.rs 1143) and an add is announced that was none, against 563 |
| in `EF_adds` | `ListIsNeverStale` | a removal between the first snapshot and the forwarder's subscription, or a snapshot overtaken by an older one: nothing asks again, against 1172-1176 |

### Bounds

*Runs and calls.* Two callers and two runs are what the races of a job need: a
call that holds an old entry, one that moves on, and the run before the one
being claimed. `MaxGens` bounds copies; each start makes at most two (superseded
verdicts, the work root), so the bound never blocks a call of the run whose
liveness is checked. *Downloads.* Three in a queue with one slot are one that runs, one that waits,
and one that arrives; two queues, one with a cap of its own, tell the two caps
apart. `MaxCalls` and `MaxRuns` bound how much happens, not in which order.
*Time.* Two moments a day are enough for the edges of `daily_due`: a
whole-day window that runs into the next day and a grace that does; the days are the last of a week and the first of the
next, since schedules name weekdays. The days bound the clock, not the
theorems: `WindowCorrect` is about every day. *The exit.* Two downloads are one
that is assembling and one that keeps the exit waiting, or one in each sweep.
*Updates.* Two, so that a second press, a late outcome and a replaced helper
happen; two programs, so that a swap can end half-way; `Mutes` names the update whose
helper may come without its output, which the code pipes and so should not
happen. `UpdateView` leaves out of a state what no later step and no property of
`UF_update` depends on. *Windows.* Three of a
kind are one that goes down, its successor and the one a rapid click would add;
two triggers race each other. *The feed.* A broadcast of one and a channel of two overflow
within two changes, where the code has 1024, 512 and 256; two changes are an event and
the one that pushes it out, or a removal behind a completion. *Deadlock* is not checked: a system in which every call has returned, every run
is over and the bounds are used up may rest.

`LapseStops` passes for schedules in which no other condition may stand in for
a trigger (`NoLooseTrigger`, which the constants of `QS_tick` satisfy);
`QS_lapse` has one in which it may. `NoStall` passes where a queue below its own
cap finds the global one below its own too (`CapsLeaveRoom`, which the caps of
`QR_feed` satisfy); `QR_stall` has caps that do not. `RunsWithinCaps` is checked without Play, Pause and Stop: a hand start runs
whatever the caps say, and a pause that is lost (`JL_lost_pause`) leaves a run
that no cap counts.

### Fairness

Weak fairness on the steps of a call or a finisher: each is a tokio task, none
waits for anything but a lock that is released. `QueueRuns` also lets a run
that was told to stop, or is over, end: odl watches the token. Nothing is assumed of a
transfer, which may go on for ever, nor of a user. `PowerGuard` assumes that a
grace task that was not aborted wakes up and that a task carries on.
`DaemonExit` assumes the quit task and time go on, nothing of a run.
`UpdateFlow` assumes that the watcher and a helper carry on (that a helper dies
is possible at any time and never assumed) and that the exit, once
begun, ends, which `QuitEnds` shows of the exit's own steps. `WindowRegistry`
assumes that a window that started connects or dies and that the server handles
what it was sent; nobody has to click or close. The feed's producers share one channel: each gets
its turn (strong fairness), since tokio hands out a channel's permits in order.

## 4. Proofs

`PowerGuard_proofs`: `TypeCorrect`, `NoActionAfterCancel` and `Refinement`
(every step of the guard is a step of `PowerPromise` or leaves it unchanged),
for any number of armings. The argument is the slot's sequence number: a task
acts only when the slot holds its own.

`JobLifecycle_proofs`: `TypeCorrect`, `OneRunner`, `RunIsRegistered` and
`StopIsFinal`, for any number of callers, runs, entry copies, edits and crashes. `SingleRunner`
is not inductive: that a claim finds no run alive depends on the flag in the
map. The inductive invariant is

    IInv == TypeOK /\ SingleRunner /\ LiveRunIsRegistered /\ ClaimsHeld /\ OneClaimant

where `ClaimsHeld` says that a caller past its claim owns a run that is being
set up, and `OneClaimant` that no two callers own the same one. Each action has a lemma; those that change an
entry go through lemmas on what each kind of update leaves alone. The same
invariant gives `StopIsFinal`, a property of steps.

What a run leaves behind depends on edits, which put a copy of the entry in the
map while somebody holds the old one. The theorems say which edits do no harm:
`RunGivesBack` (`RunningReleased`) and `RunLeavesOutcome` (`SettledPhase`) hold
under `[][EditsKeepOff]_vars`: no edit falls between a claim and the end of its
set-up, nor between the epilogue's look at the map and its release. The edits they leave out are
those of `JL_leak`. On top of `IInv` the invariant is

    SettleInv == HoldersFollow /\ OutcomeIsWritten /\ RunningReleased /\ SettledPhase

`HoldersFollow` says that who will undo a claim or release it holds the entry in
the map: that is what an edit in the wrong place breaks, and an edit during the
transfer does not, since the epilogue looks the entry up again. There is one live run at
most (`SingleRunner`), so what `SettleInv` asks of a step's result depends only
on where that run is; each action has a lemma for that.

`StopSurvives` (`StopIsOnDisk`) assumes nothing of edits, crashes or the order of
writes: at rest, the row says how the job stopped whenever the phase read last
was the last to be written (`newest = OnDisk`). What it shows is that every way
to stop a job reads the entry once more afterwards; what it excepts is what
`StopIsNeverLost` asks for and the code does not give. Its invariant on top of `IInv`:

    KeptInv == HandsStore /\ StopIsRead /\ GoneIsLost

`StopIsRead`: a stop somebody is still going to read (a pause at its persist, a
run from its end to its own persist), or the phase read last is that stop, in the
hand of one who will write it (`HandsStore`) or in the row, or it was written
over; with the entry gone from the map it counts as written over (`GoneIsLost`),
since a call in its set-up may put an old copy back.

`QueueRuns_proofs`: `TypeCorrect` for every call; and for the calls of automation
(`AutomationOnly`: starts of queues, Resume all, additions) `CapsRespected`
(both caps hold) and `RunsNeverStall` (`NoStall`, given `CapsLeaveRoom` and that
no start is refused), for any number of downloads, queues and callers. Neither
property is inductive. The caps are counted by phase, so

    CapsInv == PauseFree /\ RunningIsClaimed /\ LaunchIsOwn /\ RunsWithinCaps

says that the phase shows exactly the downloads that are claimed or live, and that
a claim is launched by the process that made it; then the claim, made where the
slots were not full, is the only step that raises a count. A stall is excluded by
saying who will look at each queued download of an open run:

    StallInv == EndedHasOutcome /\ (\A p \in Procs : StartQueueStays(p)) /\ QueuedIsCaredFor

`QueuedIsCaredFor` names a run of the same queue that is still going, a filler that
has not passed the download over, or a `start_queue` that has started nothing
and will take the run back. A filler that stops leaves the first: where slots are full,
`CapsLeaveRoom` makes one of them a download of the queue itself
(`FullMeansGoingOn`), and that is where the proof fails without it: `QR_stall`
is what happens then.

`QueueSchedule_proofs`: `TypeCorrect`, `WindowCorrect` (looking at today and
yesterday decides a recurring schedule on any day, for any day length, grace
and window; the step is that an occurrence lasts at most a day),
`VerdictCorrect`, `StoppedStaysStopped` (the tick never puts back a run the
user stopped under the same verdict) and `LapseStopsTheRun`, the last under
`NoLooseTrigger`. The invariant is

    IInv == TypeOK /\ VerdictIsOfItsCommand /\ RunIsRemembered /\ Edge

`RunIsRemembered` says that a run the tick started is one it remembers (or is
about to remember), which makes `TickAsk` go on to the stop, and `Edge` that a
tick about to start has seen the verdict rise.

`DaemonExit_proofs`: `TypeCorrect`, `NoSignalIsLost`, `ShownAssemblyIsKept` and
`InFlightGetsItsRow`, for any number of downloads. That the wait misses
no signal rests on the order of arming and counting. The invariant is

    IInv == TypeOK /\ FlagIsARun /\ CountedIsHeard

`FlagIsARun` says that a download flagged as running has not signalled its end,
so what is counted has yet to do so, and `CountedIsHeard` is the property from
the counting on: the signal is armed by then and remembers. What the exit leaves
behind follows from where each sweep has got to:

    ExitInv == RunIsFlagged /\ AssemblyIsNews /\ ShownWasAssembling /\ HandsFree
               /\ OwedIsGoing /\ PauseAllReaches
    ShownInv == UserMeetsNone /\ UntoldWhileShowing /\ ShowingStaysUp /\ WaitIsForShowing

A download that is owed a row is still going (`OwedIsGoing`), and while it
transfers the sweep of Pause all has not tried it, has it on its list or in hand
(`PauseAllReaches`); after that sweep none is left. An assembly the exit has
shown, and that crossed no user's pause, goes on showing (`ShowingStaysUp`): a
user's pause past its look meets none of them (`UserMeetsNone`), the exit's
sweeps and its cancel pass over what shows, so it is not told to stop
(`UntoldWhileShowing`), and the wait is for it to the long deadline
(`WaitIsForShowing`). `AssemblyIsNews` ties what a download shows to what it does: the pump's news
comes late, and a mark made before it is overwritten by it.

`UpdateFlow_proofs`: `TypeCorrect`, `PendingIsThere`, `StagedCanBeInstalled`
and `NoUnaskedSwap`, for any number of updates and programs. The invariant is

    IInv == TypeOK /\ LeavingHeardGo /\ AddsInOrder /\ PendingIsListed
            /\ CancelTookIt /\ OutcomeOnce /\ HeldWaits

`LeavingHeardGo` gives the swap; `CancelTookIt` says that the download a cancel
is about to remove is not the pending one, since taking it was one step;
`OutcomeOnce` that the outcome of an update is in one place (the bus, the
watcher or a helper), so that no second helper of an update is spawned; and
`HeldWaits` that the helper the daemon holds has an open pipe while it is up, and
starts or waits unless it ended by itself.

`WindowRegistry_proofs`: `TypeCorrect`, `RegistryNamesTheLiving`,
`LatestCanBeClosed` and `OneStartsAtATime`, for any number of windows and
triggers. The invariant is

    IInv == TypeOK /\ RegistryIsLive /\ LatestIsReachable
            /\ StartingIsGuarded /\ InOrder

`LatestIsReachable` excepts the windows in `missed`: the code removes the entry
first, so a Close that found the channel full leaves a window nobody can reach.
The two properties of the registry are inductive with `InOrder` (windows are
numbered as they are forked and connect after that). `StartingIsGuarded` is why
one window starts at a time: it is the last one forked, one of the children,
and the spawn state is Spawning as long as it has not registered.

`EventFeed_proofs` is about both clients of the feed and shares the lemmas on the
feed's steps. Of `WaitCommand`: `TypeCorrect` and `RemovalNoticed`, for any number of
downloads and changes and any sizes of the bus and the channels. The invariant
is

    IInv == TypeOK /\ TrackedBorn /\ LookedFirst /\ RemovalOnTheWay

`RemovalOnTheWay` follows a removal the command does not know of through every
place it can be in: owed by the daemon, on the bus, a message in the channel
that makes the command look at everything, a look it has still to make, or an
answer it has not taken in. A step either moves it to the next place or makes
`missed` true. With the feed quiet and the command reading, no place is left.

Of `MainWindow`: `SettledListIsCurrent` (`ListIsCurrent`), `WindowTypeCorrect` and
`RefreshIsNeverHeldUp`, for any number of downloads and changes and any order in
which requests are answered. The invariant is

    WindowInv == WindowTypes /\ LastReadIsCurrent

`LastReadIsCurrent` says of the list that was read last, whether shown or still
in an answer, that each download it is wrong about is about to be read again: an
event of it is on the way, a message makes the window ask, or a request has not
read the list yet. Nothing is said of older answers, and with two requests under
way an older one can be shown last: that is the exception the property names. That a
change costs one snapshot at most is a count,

    SnapshotsPaid == reads + requests to be read + Reasons <= changes + 1  (and more)

where `Reasons` adds up what is owed, on the bus and in the channel; from it
follow the bound in `WindowTypeOK` and that the bound `MaxReads` of the model never
keeps the window from asking (`RefreshIsNeverHeldUp`).

The assumptions are the named ones of the modules (`LifecycleAssumption`, ...),
which every run evaluates.

Model-checked only: liveness (`ArmingEnds`, `StartAnswers`, `CallsReturn`,
`QuitEnds`, `OutcomeIsHandled`, `AppComesBack`, `NeverShutOut`, `WaitEnds`,
`PhasesCatchUp`), which the prover does not reach. Every invariant a passing run
checks is proved.

## 5. Not modelled, and the plan

Not modelled for good: the windows except the main window's list and the way
windows start and end, the commands that send one request and print its answer,
IPC framing and authentication, the tray menu, the native host, platform calls,
SQL, encryption: I/O and layout around the state above. Most of the
repository's lines are of this kind (a third of them are windows). The
arithmetic of progress and the retries inside `odl` are the library's. The periodic check for
updates and the archive of an update are a timer and a file format.

Left out of modules that are there: other ways for the process to end than
`quit_daemon` (the exit-app action is in `PowerGuard`; hooks and an environment change
exit the same way); a watcher of the domain bus that lags (`data/events.rs` 172) loses an
update's outcome, which `UpdateFlow` does not let happen; `try_focus`, which
nothing calls.

Planned, in this order:

1. `SharedProbe`: single flight with a leader that may disappear; abstract
   specification: everybody who asks gets an answer of a probe made since.
2. `ChecksumCheck`: single flight over a copied entry, the owed marker across crashes.
3. The conflict channel: tokens, late answers, the queue of questions.
4. `QueueRuns` extended by `trim_to_queue_cap`, list order and moving jobs.
