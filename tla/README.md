# A TLA+ verification of collei-agent

collei-agent is the agent of a server monitor: one Go process per machine that
registers with a backend, reports load and probe results over HTTP, runs the
tasks the answers carry, keeps WebSockets to the backend up for SSH, terminals
and files, and upgrades itself. This directory models the parts of it in which
goroutines, failures and restarts meet, checks them with TLC on small
instances, and proves the central ones with TLAPS for every value of the
constants.

    tlc -workers 2 -config MCConnManager.cfg ConnManager     # one run
    tlc -workers 2 -config MCFileApi.cfg MCFileApi           # with an MC module
    tlapm ConnManager_proofs.tla                             # one proof module

## 1. The system

| Part | State | Operations | Talks to |
|---|---|---|---|
| Agent (`internal/core/agent.go`) | `State`, the configuration in memory | `Run`, handshake, registration, approval polling, the report loop, its error paths, `shutdown` | everything below, from one goroutine |
| API client (`internal/api`) | none | `Register`, `Verify`, `Report`, `ReportTask`; turns answers into error kinds | the backend |
| Configuration (`internal/config`) | the YAML file | `Load`, `Save`, `ReloadHotFields` | agent, file watcher |
| Connection managers (`internal/tunnel`, `terminal`, `fileapi`) | `wanted`, `connected`, `loopCancel`, `doneCh` | `Connect`, `Disconnect`, `Stop`; the loop that dials and backs off | called by the agent; the backend can switch them off too |
| Tunnel sessions (`internal/tunnel`) | table of TCP connections, `pendingSessionID`, the socket's write lock | `open_tunnel`, `data`, `close_session`, bridges | backend and sshd |
| Terminal sessions (`internal/terminal`) | table of ConPTYs, `pendingSessionID` | the same for shells, on Windows | backend and shells |
| File API (`internal/fileapi`) | a pending upload | directory and file requests | backend and the file system |
| Task executor (`internal/task`) | `activeTasks`, the worker semaphore | `HandlePendingTasks`, one goroutine per task | agent, backend, processes |
| Network monitor (`internal/network`) | targets and their version, one goroutine per interval, `pendingResults` | `HandleDispatch`, `intervalLoop`, `fireProbes`, flush and requeue | agent; probe goroutines |
| Updater (`internal/updater`, `config/upgrade_state.go`) | the binary, `upgrade_state.json` | upgrade tasks, automatic updates, the boot check | GitHub, systemd, the executor |
| Verifier (`internal/auth`) | nonces with their expiry | `Verify`, `cleanupLoop` | terminal and file managers, which share one |
| Collector (`internal/collector`) | hardware cache, what was reported last, the counters' baseline, `net_state.json`, the NIC filter | the `Collect…` calls, `ConfirmNetReported`, `UpdateNICFilter` | agent, config watcher |
| Config watcher (`core/agent.go`, `cmd`) | the debounce timer | `reloadConfig`, on a timer's goroutine and on SIGHUP | configuration, collector |
| Service, command line, installers | none | start, stop, install | the operating system |

What is hard in it:

- **Two goroutines and a switch.** `Connect` returns when the previous loop has
  not closed `doneCh`; the loop looks at `wanted` at two points only.
- **Cleanup that races with creation.** `closeAll` closes the sessions in the
  table; those being opened are added afterwards, and `wg.Wait` waits for them.
- **Shared sockets.** Several goroutines write; the tunnel has a lock, the
  terminal has none.
- **A state machine whose error paths change its state.** A conflict retry in
  the report loop verifies again and leaves another `State` behind.
- **At-least-once everything.** Tasks are listed until a final report arrives,
  reports are requeued, registrations may have succeeded unseen; nothing but
  two files survives a crash.
- **A process that replaces itself**, with a task and a timer that may do so
  at once.
- **Two frames for one thing.** An upload's header and its bytes are told apart
  by their order alone, in front of a verifier that refuses some headers.
- **Lists that change under the goroutines that work through them**, with
  timers that are aligned to the wall clock.
- **One file with three writers** (the user, `Save`, whoever truncates it), read
  by a timer that may find it half written.
- **Reported or not?** Hardware is taken for reported when it is sent, traffic
  when it is answered.

For each part, correctness means: managers have at most one loop, report the
truth about their link, and end when told; sessions are never leaked and their
bytes never mixed; the agent stops only for its reasons, reports while it may,
and neither loses nor repeats probe results; a task runs once unless the
backend could not know, and never blocks others for ever; an upgrade leaves a
binary to start, and its answer reaches the backend; the targets that are
probed are those of the last list; a signed request takes effect once, on the
file it names; an edit of the configuration takes hold; a byte is reported once. `PROJECT.json` lists the
hazards, each at its line, with the properties that watch it, and those no
property covers yet.

## 2. The modules

| Module | Models | Main variables and actions |
|---|---|---|
| `OneLink` | abstract: a switch, one worker, a link only while there is one | `Switch Tell Begin Up Down Leave End` |
| `ConnManager` | `ssh_tunnel.go`, lines 94–284 (the terminal and file managers have the same text) | `wanted connected`; `gen` for `doneCh` and `loopCancel`; `pc[l]`, one action per locked section or blocking call of `maintainTunnel` |
| `Sessions` | abstract: sessions opened and closed once, over only when all are closed | `Open Close Finish` |
| `TunnelSessions` | `handleMessages` and `handleOpenTunnel` of the tunnel | `table conn mu`; `loop` for the reader, `pc[s]` per session |
| `TerminalSessions` | the same of the terminal manager, on Windows | `table shell closes`; being at a writing point means being inside `WriteMessage` |
| `ResultQueue` | abstract: a queue whose front is acknowledged or given up | `Produce Acknowledge GiveUp` |
| `Agent` | `core/agent.go` with the backend's verdicts, the configuration file and the result buffer | `st` is `State`; `pc` the blocking point of the main goroutine; `from` the call site of `doVerify` |
| `TaskExecutor` | `task/executor.go` | `active sem`; `job[g] pc[g] proc[g]` per goroutine |
| `Upgrade` | `execUpgrade`, `auto.go`, `updater.go`, `upgrade_state.go`, `checkUpgradeResult` | `bin old image` on disk, `file tmp`, `point[a]` for the task and the timer |
| `ProbeMonitor` | `network/monitor.go`: `HandleDispatch`, `intervalLoop`, `fireProbes`, `NextAlignedTick` | `version targets gen`; `pc[k] wait[k]` per group goroutine, `todo[k] flying[k]` for its round |
| `Verifier` | `auth/verifier.go` | `clock nonces`; `calls[c]`, a `Verify` between its two readings of the clock |
| `FileApi` | `fileapi/manager.go` (the read loop) and `handler.go`, on top of `Verifier` | `pending` is `pendingWrite`; `wire half up` the link, `fs` the disk |
| `ConfigReload` | `ReloadHotFields`, `Save`, the watcher, SIGHUP, `UpdateNICFilter` | `file mem collector`; `at[r] left[r]` per reload, `armed before` for the debounce |
| `Reporting` | the collector's caches and counters between a report loop and a backend | `prevNet currentNet saved`, `cachedHW lastHW`, `known` |
| `MCProbeMonitor`, `MCFileApi` | instances for TLC: target lists; paths, requests, an upload | |
| `…_proofs` | theorems: `Collector_proofs` about `Reporting` and `ConfigReload`, `Executor_proofs` about `TaskExecutor` and `Upgrade`, `FileApi_proofs` about `FileApi` and `Verifier`, the others about the module whose name they carry | |

A module's text is an action per section of code between two points at which
another goroutine, the backend or the operating system can intervene: a lock,
a channel, a request, a sleep, a read or write. Names are the code's where TLA+
allows. Logging, payloads, URLs and durations are left out; a sleep is a point
at which the process may stay for any finite time.

`Agent` meets `ResultQueue`, `ConnManager` meets `OneLink`, `TunnelSessions` and
`TerminalSessions` meet `Sessions`, each by an `INSTANCE` whose refinement
mapping stands at the end of the detailed module. `ConnManager` treats one call
of `handleMessages` as the points `serve` (in `ReadMessage`), `handle` (doing what
a message says, which may block for ever in a write), `drain`, `linger`; that a
drained connection ends, and that a held or lingering one may not, is what
`ClosedSocketEnds` and `WaitsOnlyForLate` of `TunnelSessions` show.

`FileApi` EXTENDS `Verifier` and calls its actions with the read loop as one of
the `Callers`; every behaviour of the pair is one of `VerifierSpec`
(`Composition`), so what holds of the verifier alone, called by anybody, holds
in it. `ProbeMonitor` and `Agent` divide the network monitor between them: the
first has the goroutines that produce results, the second the buffer they are
put in, and that second half is `ResultQueue`. `Agent` and `Reporting` divide the
report loop in the same way: the first has its errors and states, the second
what its requests carry.

Definitions whose comment says "mutation" are plausible bugs; no specification
uses them. `PROJECT.json` names, for every property, one that violates it.

## 3. The runs

Sizes are distinct states. A run checks deadlock only where the system may not
stop (`reporting`). All the others may come to rest, an agent that was stopped
for good, tasks that are done, a connection that is over, and their liveness
properties say that they do not rest in the wrong place. All searches are
exhaustive within the bounds, without symmetry.

| Run | Bounds | States | Shows |
|---|---|---|---|
| `conn_manager` | 3 loops | 2,062 | one loop at a time, refinement of `OneLink`, a wanted manager without a loop only for its reason, cancelled loops end unless they are held, wanted managers keep dialling |
| `agent` | 2 retries, 1 fault, 2 changes of the backend, 2 results | 508 k | results accounted for in queue order; one identity unless one could be lost; stops of itself only for its reasons; stops are obeyed; an approved agent keeps reporting |
| `tunnel_sessions` | 2 sessions | 33 k | no mixed frames, refinement of `Sessions`, termination unless a write is held |
| `terminal_sessions` | 2 sessions | 87 k | live handles, a second `Close` in one case only, refinement of `Sessions`, termination unless a shell or a write holds it |
| `task_executor` | 2 tasks, 1 worker, 3 executions, 1 lost report, 1 toggle | 146 k | exact `activeTasks`, repetition and starvation only for their reasons |
| `upgrade` | 3 releases, 2 failures | 68 k | the binary and the task's answer survive, the newest release is reached |
| `probe_monitor` | 2 targets, 3 possible lists, 2 versions, 2 reschedules, a pool of 1, a minute of 2 s | 34 k | the loops are the list, no round of an old list, the loops of old lists end, probing goes on |
| `file_api` | 3 requests (an upload of two parts and any other), 2 frames under way, 1 trouble, clock to 2 | 2.6 M | acceptance again only by clock drift, one effect per acceptance, whole uploads, bytes to their header, every request answered |
| `config_reload` | 2 filters, 2 edits, 1 `Save`, 1 SIGHUP; any reload and the `Save` may fail | 404 k | memory and collector agree with the file when nothing is due and it could be read; an edit takes hold unless a `Save` harmed it or nothing reads it |
| `reporting` | 2 hardwares, 3 bytes, 2 changes, 2 troubles | 950 k | every byte in one confirmed report; hardware becomes known unless a failed report carried it |

Why these bounds are enough to be worth something. Three loops let a manager be
abandoned, revived and abandoned again. Two retries distinguish "one too many"
from "one too few"; the code's 5 is the same loop, and the proofs take any
number. One fault at any point, in any of the restarts, covers each of crash,
failed save and lost registration; combinations of two are left to the proofs.
Two sessions are enough for one to interfere with another; a third plays the
part of the second. One worker and two tasks fill the pool; three executions
let a task come back while the other waits. Two failures let a Windows
replacement fail together with its rollback. Two reschedules leave loops of the
first list asleep or with probes in flight under the second, and the three
lists let a target stay, change its group or go; a pool of one makes the
second target wait for the first; the default interval is on the grid of the
minute (two seconds here), three seconds is not. Three requests are a first
and a second part with an intruder between, before or after them; the window
of the verifier is 1 and its expiry 2, in the proportion of the code's 30 and
60, so that a clock of 2 and a drift of 1 reach the one case in which a nonce
is forgotten too early. One `Save` and one SIGHUP overlap with every step of a
timer's reload, and two edits let the second meet the first under way. Two
troubles are a lost request and a lost answer, or either with a restart, an
interface that is made anew during an outage, or a sample that could not be
read in a report that fails or does not. The one trouble of `file_api` cannot
lose an acknowledgement and the part that is sent again; the theorems about it
take any number.

Two runs check one property each that a comment of the repository states and
the code does not keep; `PROJECT.json` quotes the comments.

| Run | What TLC finds |
|---|---|
| `wanted_is_served` | `Connect` meets the winding-down loop: wanted, and nobody there, until it is switched off |
| `expected_state` | a conflict retry fails with a network error: the agent ends with "unexpected state" |

### Other deviations met while modelling

The models contain these behaviours, as exceptions in their properties or as
nondeterminism, and no run of its own shows them.

- *Terminals.* One whose `terminal_ready` fails while somebody else takes it out
  of the table is closed twice (`terminal/manager.go:408`, against the comment at
  416–418); `ClosedTwiceOnlyAbandoned` says that nobody else closes twice. A
  cancel does not end a connection whose bridge waits for a shell that lives on
  (line 425).
- *Connections.* Closing the WebSocket is meant to end the read loop (the comment
  at `ssh_tunnel.go:294–296`, "让 ReadMessage 自然返回错误退出循环": let ReadMessage return
  an error and leave the loop), but no write has a deadline: a read loop that is
  in `conn.Write` to an sshd that does not read (line 327), or writes to the
  input of a shell, is not at `ReadMessage`. A cancelled loop may so never end
  (the exception in `CancelledLoopsEnd` and `ClosedSocketEnds`), and its manager
  never starts another.
  The goroutines write to one WebSocket without a lock (line 444), which the
  comment at `ssh_tunnel.go:68` says the library does not support.
- *Tasks and upgrades.* A descendant that holds the output outlives the timeout
  and keeps the worker (`executor.go:292`, against 265). An automatic update
  overwrites the state file of an upgrade task, which is then never answered
  (`auto.go:87`, against `executor.go:261`). On Windows `replaceBinary`, called
  atomic, leaves no binary between its two renames (`updater.go:325`).
- *Agent.* `--force` with a token that still verifies reports with an empty
  run_id (`agent.go:165`). As a Windows service, `RunWithContext` cancels the
  context of the probe monitor before it starts, and nothing is ever probed
  (line 158; the exception in `KeepsProbing`).
- *Probes.* `NextAlignedTick` gives the present second when it is a multiple of
  the interval (`monitor.go:38`), where its comment (line 31) speaks of the next
  tick: a round that ends within the second of a tick is followed by another in
  the same second. The model does the same, and no property is about it.
- *Configuration.* An edit of a field that is not reloaded, or of any field
  before the reload has seen it, is overwritten by the next `Save`
  (`config.go:235`; `overwritten` in `EditTakesHold`). An edit between `Load` and
  the start of the watcher is missed. `network_interface` is reloaded but never
  reaches the collector, nor `auto_update` the updater; when `auto_update` is
  removed from the file, memory keeps its value and `Save` writes it back. A
  file that is read while it is truncated clears the filter until the next
  event. A reload that cannot read or parse the file is not tried again
  (`config.go:348–356`, `agent.go:755–757`; `unread` in both properties), and a
  `Save` that fails after `os.WriteFile` has truncated the file leaves it so, and
  the filter empty, since its callers drop the error (`config.go:270–272`;
  `overwritten`).
- *Reporting.* Hardware that changed is in one report only: if that one fails,
  nobody repeats it before the next verification (`collector.go:150`; `unheard` in
  `HardwareIsKnown`). A verification tells hardware without `lastHW` learning of
  it (`contradicted`). The counters restored from `net_state.json` are never used,
  because `prevNetTime` is nil after a start; so the branch that the comment
  "系统重启：计数器重置" (system restart: counters reset; `collector.go:569`) explains
  is only reached by an interface that is made anew or a sample that is too
  small. When the configured interface is gone, or the counters cannot be read,
  the totals of all interfaces take its place, and zero if they cannot be read
  either (`collector.go:582–597`); such a sample becomes the baseline once it is
  confirmed, and the next reports give the difference to it as traffic: after
  the zero, the whole counter again (`strayed` in `EachByteOnce` and
  `NoPhantomBytes`). A lost
  *answer* makes the backend hear the same bytes twice. A clock that is set back
  makes one rate zero.
- *Files.* If the backend abandons an accepted upload header, the bytes of a
  write that is refused after it go to the abandoned header's file; the
  exception in `DataToItsHeader`.

### Fairness

What the Go scheduler and timeouts guarantee, nothing more. Goroutines that can
run do; dials, requests and sleeps return (the HTTP client has a timeout of
15 s, dials 5 and 10 s); a select on a cancelled context returns. No write to a
socket or a shell has a deadline: one to a WebSocket is only fair when the
socket is closed on our side or its peer has gone, one to sshd or a shell when
the connection is closed or the process has ended (`LoopHeld`, `Writing`). `Boot` is fair because the units restart what has ended
(`Restart=always` in `install.sh`, `unless-stopped` in `docker-compose.yml`).
Not fair, and so free never to happen: everything the backend, sshd, a shell, a
task's process or its descendants do, the failure of a link, a crash. In
`ConnManager` a healthy link need not end, nor what a message started return, nor
a lingering session end; the read of a socket that was closed fails, but the
read loop may be away handling a message each time one looks, hence the only
strong fairness of the project: who comes back to reading again and again works
off what was buffered, and then gets the error. The `capabilities` message, the first on its
socket, is taken to fit the socket's buffer. In `TunnelSessions` reading a connection closed on our side fails, and
that is fair. `Upgrade` is fair to the six-hour timer of the automatic updates.
In `ProbeMonitor` time passes, probes return (each has a timeout), goroutines
run, and reports to an agent with an old version are answered, once in a while,
with the list; the backend need not ever change it. In `ConfigReload` the
debounce timer fires, the reloads run, well or not, an edit in place is finished,
and `os.WriteFile` returns, with an error or without; nobody has to edit, save or
signal. In `Reporting` the hardware
cache expires and the main goroutine goes on; an outage ends because failures
are counted. `FileApi` and `Verifier` state no fairness: that a request is not
forgotten is there an invariant on where it may be.

## 4. What is proved

For every value of the constants; the only assumptions are the named `ASSUME`s:
bounds are natural numbers (`MaxLoops`, `MaxRetries`, `MaxWorkers`, `PoolSize`, the
minute positive), sets of targets and tasks are finite where they are counted,
null values are none of the values they stand beside, and an upload is a
sequence of writes to one path, each part once, at the offset of its position
(`UploadAssumption`).

`ConnManager_proofs`: `Typing`, `AtMostOneLoop`, `ConnectedMeansLinked`,
`ServedOrSkipped`, `Refinement`. `OneLoop` is not inductive:
`StartLoop` looks at `closed`, not at loops. The invariant adds what relates the
two: a loop that is alive is number `gen` and its channel is open; loops above
`gen` were never started; when the channel `gen` is open the loop is alive;
what was cancelled or closed was started. From it follow that `Exit` closes its
own channel and no other (no double close, which would panic), that `connected`
is true exactly at the linked points, and the step simulation of `OneLink`
action by action.

`Agent_proofs`: `Typing`, `Accounting`, `Identities`, `TransientErrors`, `Stops`,
`Refinement`. `ResultsAccounted` needs that what is queued has no duplicates and that
`inflight` is empty except while a report is out; `OneIdentity` needs that an
agent without an excuse has its identity in memory, in the file or in the flags
wherever it is going to ask `IsRegistered`; `Stops` needs that `streak` counts with
`tries` inside a conflict loop, and that `mainLoop` is entered in VERIFYING only
after the conflict retries of a report ended with another error. `Refinement` shows that
flush and requeue leave the concatenation of `inflight` and `pending` alone and
that every other step takes a prefix off it or appends to it.

`TunnelSessions_proofs`: `Typing`, `NoOrphans`, `HeaderFirst`, `Refinement`. Who is
between a header and its data is who has the lock, and wrote the last frame
(`Lock`); a connection is open exactly from the dial until it leaves the table
(`Table`); when `handleMessages` is over every session is (`Over`). With these,
each step is an `Open`, a `Close`, `Finish` or a stutter of `Sessions`.

`TerminalSessions_proofs`: `Typing`, `AloneWithHandle`, `SecondClose`, `Refinement`. There is no lock
here, and a terminal may be closed twice, by who takes it out of the table and
by its own goroutine. The invariant `Fits` counts the calls of `Close` at each
point of that goroutine: none while the terminal is in the table, one from the
moment somebody has taken it out, none by others once the goroutine has taken
it out itself and waits. So nobody frees the handle under `Wait` or before
`Close`; a second `Close` is the goroutine's whose `terminal_ready` failed
(`SecondClose`). The first `Close` of a session is the `Close` of `Sessions`, a
second one a stutter, so `Refinement` says that all are closed, not that each is
closed once.

`Executor_proofs`, of the executor: `Typing`, `Single`, `Exact`, `Again`. What
`activeTasks` holds is the tasks of goroutines that have not removed them, each
task that of one goroutine; the semaphore holds who is past acquiring it and
before its release, and is never over-full; a task whose final report has been
made is known to the backend and listed no more, or has an excuse (`Reported`).

`Executor_proofs`, of the upgrades: `UpgradeTyping`, `BinaryStays`, `AnswerOwed`. That a
binary is in place needs that only one upgrade is between its two renames and
that `.old` is there for it to go back to (`Swapping`). `AnswerAccounted` speaks of
the state file only while nobody works on the task; that it may, needs that
from the renames on the file names this task, unless an accident happened, and
that a file is removed only after its answer (`Owed`). `accident` is a history
variable, set where the code does lose an answer: a report that does not get
through, the end of the process before the file is the task's, and an automatic
update that takes the temporary file, replaces the state file or removes it.

`ProbeMonitor_proofs`: `Typing`, `Versions`, `LoopsMatch`, `Rounds`. The loops of
reschedules to come have not started, a loop has members exactly while it
lives, those of the present reschedule have the members of the present list;
the pool never has more probes in flight than slots.

`FileApi_proofs`: of the verifier alone, called by any number of goroutines,
`ReplaysOfAnyCaller`: two acceptances of a nonce are `TTL` apart because the table
keeps it so long, and each was within `Skew` of its timestamp, so a second one
needs `TTL - Skew` seconds of drift and delay together. Of the file API, `Typing`,
`Effects` (the effects of a request, with the header that is pending, never
outnumber its acceptances), and `Composition` (it implements `VerifierSpec`), from
which `Replays` follows.

`Answers` and `DataGoesHome` rest on one invariant (`Paired`) about the stream: what
is under way, with the data the backend holds back. Data in it stands right
behind its header, or is first, and then its header is being verified, was
taken, or was refused; a header is followed by its data unless that was
abandoned or lost; whoever waits for an answer has a frame in it. Each read
takes the first frame off, and the lemma `PairedTail` says what that leaves.

`UploadsWhole` speaks of the end of an upload, where nothing else touched the
file and each part was accepted once. Its invariant (`Uploading`) speaks of each
moment before: until part k+1 takes effect, the file is the parts 1 to k. It
needs that a part is signed only when those before it are acknowledged
(`InTurn`), that what is acknowledged has run (`AckedRan`), that data meets its own
header (`Paired`), and, of the operations on files, that a request leaves alone
what it does not touch (`Elsewhere`) and that a part is put behind the others
(`PartWritten`).

`Collector_proofs`, of the reload: `ReloadTyping`, `Quiet`. The invariant says of a
reload that began after the last event that it has read the present file and
writes nothing else (`Fresh`), and that whatever list is not up to date is still
to be written by one of them (`Due`), unless the file has changed unseen or the
reload that the change brought failed (`unread`).

`Collector_proofs`, of the reports: `Typing`, `BytesOnce`, `NoPhantoms`. What a report
under way says is the distance of its sample from the baseline, unless the
sample is not the interface's counter, and then it must be confirmed to do harm
(`Tiled`, `Carried`).

Every invariant, every action property and every refinement that a run checks
is a theorem. Only model-checked: the liveness
properties (`CancelledLoopsEnd`, `WantedKeepsTrying`, `StopHonoured`, `KeepsReporting`, `ClosedSocketEnds`,
`WaitsOnlyForLate`, `WaitsOnlyForShells`, `QueueStarvesOnlyIfHeldUp`,
`ConvergesToLatest`, `EarlierLoopsEnd`, `KeepsProbing`, `EditTakesHold`, `HardwareIsKnown`), since the
prover has no fairness. Four theorems (`NoOrphans`, `Single`, `NoPhantoms` and
`Versions`) state invariants that no run needs to repeat, since the properties
that are run follow from the same facts.

## 5. What is abstracted

- The backend is a verdict that may change at any time (`MaxChanges` times in a run); it uses a session id
  once, and lists tasks it has no final status of.
- A write on an open WebSocket may succeed after its peer has gone; a failed
  write does not make the later ones fail (the library's does: the model allows
  more).
- A save succeeds, fails, or leaves the beginning of the file: nothing, the
  URL, or the URL and the token. A line that was cut counts as missing. An
  installation whose URL was only in a file that lost it does not boot again
  (`KeepsReporting` says "with a URL"). The temporary state file of the updater
  is written in one step.
- An installation starts as `install.sh` leaves it (URL and token in the file)
  or as `docker-compose.yml` does (both in the environment), with or without a
  registration token and `--force`; other mixtures of the two are left out.
- Processes: the shell is killed at the deadline, its descendants are not.
- Intermediate task reports, output, resizing, the lengths of back-offs, the
  contents of probes and files are left out.
- `ProbeMonitor`: seconds, modulo a cycle that is a multiple of the aligned
  intervals; what is between two readings of the clock in one wait is within
  the second. A probe has a result or not, after any time.
- `TaskExecutor`: `SetEnabled` may be called at any time; nothing in the
  repository calls it.
- `FileApi`: the backend, which forwards several clients over one link, is
  assumed to send the data of a write right behind its header, or to abandon
  the header; nothing in the repository makes it. A file is the sequence of the parts written to it, an offset a
  position in it, a disk error leaves nothing, a truncated file or a part of
  the write. What changes nothing (`readdir`, `stat`, `read`, `ping`) is left out, so
  are renaming directories, symbolic links and an agent that has no verifier.
  The terminal's use of the same verifier is in `ReplaysOfAnyCaller`. The clock
  of the verifier does not go back.
- `ConfigReload`: of what is reloaded, the two lists of `nic_filter`; a file that
  was written in part counts as empty, and may fail to be read. A reload is
  short against the debounce of 500 ms: a timer fires after the reloads that
  were running at its event. Without this, two overlapping reloads could leave
  one list of the older file.
- `Reporting`: one direction of one interface, bytes for rates; the baseline is
  taken with the answer, as in the code, from the sample before the request.

Not modelled: installers and packaging, which are scripts; installing,
starting and stopping a service, the commands that print, and the platform
probes of the collector, which keep no state; payloads and URLs of the API
client beyond what reports and verifications carry.

## 6. Plan

1. `Managers`: the three managers driven by one agent, with directives, token
   changes and shutdown. It would cover the managers' stale token
   (`agent.go:574`) and the goroutine each link leaves behind
   (`ssh_tunnel.go:297`).
2. `Agent`: a property of run_id (`agent.go:165`); `Reporting` as a refinement of
   what `Agent` sends.
3. `TerminalSessions`: what unlocked writes do to the socket (`manager.go:444`).
4. Proofs: the safety parts of the liveness properties, that is, that a point
   from which nothing fair leads on is only reached for the reason the property
   names; with a change of the models above, their invariants again.
