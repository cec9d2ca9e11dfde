# Formal models of the Wardennet agent

TLA+ models, model-checking configurations and machine-checked proofs for the
agent of this repository (`src/agent`, Go).  The agent reads log files, scores
the addresses it sees, blocks the bad ones in a kernel ipset, unblocks them
after a time, and exchanges threat scores and whitelists with a cloud.

The definitions are translated from the Go source; `PROJECT.json` names the
lines each stands for.  This file says which part of the agent each module
models, what the runs check, what is proved, and what is left out.

Contents: 1 inventory, 2 modules and how they depend on each other, 3 modules
and code, 4 runs and bounds, 5 fairness, 6 disagreements between code and
documents, 7 proofs, 8 what is not modelled, 9 how to run.

## 1. Inventory

Paths are below `src/agent/`.  "State" is what a component remembers between
operations.

| Component | State | Operations | Talks to | Hard part |
|---|---|---|---|---|
| Blacklist manager `internal/ipsetutil/manager.go` | maps `blocked`, `whitelisted`, `localWL`; the kernel sets behind a client | Block, ForceBlock, Unblock, ApplyCloud, SyncLocalWhitelist, RebuildFromKernel | ipset commands; called by every part that blocks | no lock spans a call; batches fail half-way and fall back; kernel sets outlive the process |
| Firewall rules `internal/ipsetutil/iptables.go` | two rules of the INPUT chain | ensure, remove | iptables | order of the rules, failing listings, reloads |
| Block timers `internal/ttl` | table address -> expiry | Add, Remove, Sweep, Snapshot, Restore | calls back Unblock | callback after the lock is released |
| Snapshot `internal/snapshot` | `state.json` | Save, LoadAndRestore, auto save | reads and restores the timers | a kill between two saves, or in a write |
| Command line, socket `internal/cli`, `internal/unixsocket` | connections | blocklist add/del/status, reload | manager and timers | two calls without a common lock; shutdown with silent clients |
| Cloud synchronisation `internal/cloudsync/sync.go` | `globalBase`, `globalSeq`, `tenantSeq` | heartbeat, doDiff, commands, authenticate | plugin, decision engine, manager, timers | two loops run doDiff at once; errors are dropped |
| Decision engine `internal/cloudsync/decision.go` | weights | Decide, DecideAll, SetDecisionWeights | detector's scores | steps, caps and a fast path |
| Instance lock `internal/pidlock` | lock file, flock | Acquire, Release | kernel, file system | the name and the lock are two things |
| Log tail `internal/logparser/tail.go` | inode, offset, state file | poll, read, persist | bounded channel | rotation, truncation, restart, half lines, full channel |
| Log parsers `internal/logparser` | none | Parse | tail | none for a model |
| Detector `internal/detector` | windows, observations, baselines, identifiers per address, rings of requests | Process, confirm, evict, update, preload, Close | block trigger, reporter | confirmation across events, late lines, eviction by the clock |
| Port scan `internal/portscan` | windows per address, addresses that fired | read, record, count, evict, Close | block trigger | eviction racing a hit; Close with a full channel |
| Threat reporter `internal/threatreporter` | bounded buffer | Add, flush, Stop | plugin | concurrent flushes, a full buffer, Stop |
| Configuration `internal/config` | current configuration, modification time | Load, Watch, Reload | main | a change between stat and read |
| Feature lists `internal/features` | lists, version | sync, periodic sync | plugin | main never constructs it |
| Cloud plugin `internal/cloudplugin`, `internal/plugin` | token | HTTP calls | cloud | retries |
| Statistics `internal/stats` | bounded counters, ring of events | Record, report, Reset | event loop | two critical sections per event and per report |
| Logger `internal/logger` | files | | | output only |
| Main `cmd/wardennet` | | start, event loop, shutdown | all | order of the start and of the shutdown |

What makes them correct:

- **Manager.** No whitelisted address is on the kernel's blacklist except by
  force; the map agrees with the kernel; a caller's answer is true; every call
  ends.
- **Timers, snapshot, commands.** Every block has a timer; every timer leads to
  an unblock; a timer never unblocks what was refreshed; a restart loses neither.
- **Cloud.** What the agent's versions claim, it has applied; nothing the cloud
  publishes is lost; the whitelist becomes the tenant's; few tenants block nobody.
- **Lock, main.** One agent at a time; a dead agent never stops the next one; what
  runs finds open what it calls; the start ends.
- **Detector, port scan.** A block needs the confirmations the configuration
  asks for; counts are those of the window; a user is not taken for a scanner, nor
  a scanner for a user; a baseline follows neither silence nor attackers.
- **Log tail.** Every line is sent or counted as dropped, once, but for what a rotation
  takes away unread.
- **Reporter.** Every threat is sent, counted as dropped, or in the buffer; Stop
  leaves nothing behind.
- **Configuration, socket, rules.** A change of the file arrives; Stop ends and no
  command runs after it; the accept rule stands before the drop rule.

The hazards, each with its line and the properties that would catch it, are
listed in `PROJECT.json`.

## 2. Modules and how they depend on each other

The plan was: first the path from a decision to the kernel, with its proofs; then
what shares state with it (synchronisation, lock); then the detector, which
decides; then the services beside them.  All of it is done.

| Part | Modules | Composes, refines | Proofs |
|---|---|---|---|
| Enforcement | `Blacklist`, `IpsetManager`, `TtlManager`, `Enforcement` | `IpsetManager` implements the abstract `Blacklist`; `Enforcement` extends the manager, instantiates the timers and implements `IpsetManager!Spec` | `EnforcementProofs` |
| Cloud | `CloudSync`, `Decision` | increments reach the decision engine | `CloudSyncProofs` |
| Lock | `PidLock` | | `PlatformProofs` |
| Detector, pure parts | `Paths`, `Requests`, `Scorer`, `Consistency`, `Calls` | `Requests` reads paths through `Paths`; `Calls` calls each and `Decision` | `RequestProofs`, `DetectorProofs`, `CloudSyncProofs` |
| Detector, state | `Window`, `Baseline`, `ResourceBaseline`, `Detector` | `Window` counts what `Requests` classifies | `DetectorProofs`, `WindowProofs`, `CountersProofs` |
| Port scan, statistics | `PortScan`, `Stats` | | `CountersProofs`, `WindowProofs` |
| Services | `LogTail`, `Reporter`, `Settings`, `ConfigWatch`, `ControlSocket`, `Firewall`, `AgentMain` | `ConfigWatch` reads a file through `Settings`; `AgentMain` starts and ends all | `ServicesProofs`, `PlatformProofs` |
| For TLC | `MCIpsetManager`, `MCEnforcement`, `MCCloudSync`, `MCPidLock`, `MCDetector`, `MCServices` | instances | |

`MCDetector` and `MCServices` put parts that share no state into one run: each
behaviour is one part's (`part` chooses it), and the state space is the sum of
theirs, not the product.  Where components do share state (manager, timers, snapshot,
commands and cloud loops; stats and their reporter; the reporter and main's
shutdown) the composition is a module.

What could follow: an abstract stream of lines that `LogTail` implements; the
composition of `Detector` with `Enforcement` across the block trigger, whose answer
is nondeterministic here.

## 3. Modules and code

**`IpsetManager`** models `ipsetutil.Manager` and what `LinuxClient` does to the
kernel.  `kernel` maps each address to its remaining time: `Absent`, a number of
ticks, or `Forever`.  `Manager.mu` protects single accesses of the maps, never a
whole call, so a call is a record (`call[g]`: the operation, how far it is, its
target or batch, what is left of it, what failed) and each critical section and
each ipset command is one action.  `ReadToBlock`, `AddToKernel`/`AddFails` and
`CommitBlocked` are `blockInternal`; `ReadToUnblock`, `DelFromKernel`/`DelFails`
and `CommitUnblocked` are `Unblock`; `ApplyCloud` filters, `ApplyEntry`,
`BatchFails` and `EntryFails` are `applyBatchOrFallback` with the retries of
`applyWithRetry`, and `CommitCloud` is the final update of the maps.  The start
(`RebuildFromKernel`, `SyncLocalWhitelist`, `PreloadBlacklist`) is three steps,
because main runs it before any other goroutine.  `Crash` ends the process at any
point and keeps the kernel sets.  Addresses and subnets are model values;
`Covers` says which addresses a subnet covers.  The map of the whitelist knows an
address under two keys (`Key`): `SyncLocalWhitelist` writes it as a subnet of one
address, "a/32" (`LocalKey`), and `ApplyCloud` as it came, "a" (`CloudKey`).

Three history variables state the exceptions of the properties, so that a
property is not weaker than it must be: `exempt` (whitelisted addresses an
operator forced, or that a failed delete at the start left), `netBlocked`
(addresses of subnets that were blocked), `disturbed` (addresses two calls
touched at once, or for which a delete or an entry of a cloud batch failed).

**`Blacklist`** is what the manager promises its callers: one set of addresses that a
call reads or changes in one moment between its request and its answer, and that
outlives the process.  It models no code.  `IpsetManager` maps to it: `listed` is what
the kernel drops (`Dropped`), `asked` what each call in flight is about and was
answered (`Asked`), `unsure` is `disturbed`, and the moment of a call is its ipset
command or, if it gives none, its look at the map.  A batch is made part by part, as
the code promises no more of it.  `AtomicBlacklist` says that the manager implements
it; it holds of a set without timeouts, as entries of others leave without a call.

**`TtlManager`** is the timer table, one operator per critical section, written
as operators so that `Enforcement` can put each into the handler that calls it.
A timer is the time left, not the time of day.

**`Enforcement`** composes the two: block triggers (detector and port scan), the
commands `blocklist add` and `blocklist del`, the cloud loops, the sweep loop with
`onExpire`, the snapshot, the order of the start (the socket answers before the
timers are restored) and the end of the process.  A handler's step on the manager
and its step on the table are two actions.  Roles are disjoint sets of goroutines
(`Triggers`, `Operators`, `Clouds`, `Sweepers`): `Sweepers = {}` is the zero
sweep interval, `AutoSave = FALSE` the `Start` of the snapshot manager that main
does not call.

**`CloudSync`** models `doDiff` as both loops run it: it reads the versions, asks,
applies the snapshot, the increments and the whitelist, and writes the versions;
only the first and the last step hold `SyncEngine.mu`.  The cloud is external: it
publishes increments, folds them into bases and lets the tenant edit the
whitelist.  An increment is its number and an edit its address; the decision
engine is the set of increments it was given.  Two history variables note what a
failure lost: `lostIncrs` (a base whose snapshot was not fetched, though the agent
claims it) and `lostEdits` (addresses whose last change was not fetched or not
applied, until a later one repairs them).  Two more follow the versions of the
whitelist, which no code compares: `newest` is the newest version `doDiff` dealt with of
each address, and `overtaken` has the addresses that one loop set back from an older
answer (`Outdated`) after the other had applied a newer one.

**`Decision`** is `Decide` in integers: weights are tenths, confidence hundredths.
The multiplier of the votes, the fast path, the caps and the scores of the local
detector (neutral ones where main registers no source) are those of the code.

**`PidLock`** models `Acquire` and `Release`, one action per system call, of
processes that are started, released and killed.  A path names an inode, an inode
is locked by a process.  The history variable `replaced` notes that a Release has
removed the file or that the directory changed: until then one agent runs at a
time and the file names it; after that `lock_released` shows two.

**`Detector`** is `LocalDetector.Process` from the score of a request on: the order of
its checks (`Route`), the last corrections of the score, and the confirmation by
several requests (`shouldBlock`: `Merges`, `Expired`, `Counted`), the block trigger,
which may refuse, `clearObservation`, the eviction loop that goes by the clock, and
`Close`, after which the event loop still runs and writes to a table that is gone
(`panicked`).  Requests carry the time of their log line, which may be late.

**`Window`** is the sliding window: `Record` moves the anchor of all windows, finds or
makes the entry, writes the buckets and reads the counts, in four steps between which
the eviction loop may run.  `Requests` says what one request counts for, `Paths` how
a path is decoded, cleaned and looked up in the lists: a path is a sequence of tokens,
each under a number of encodings, never a string.  The token "%" is a percent sign that
begins no escape: `Unescape` then leaves the whole path as it is, as the library does.
`Requests` also has the body scanner: a body is a sequence of fields with a name and a
value (a form without "=" is a name); one that parses is searched value by value, any
other as raw text, names included.

**`Scorer`** is `ScoreWithDetail` with every cap, discount and bonus, in integer
arithmetic (deviations in tenths, rates in thousandths).  **`Consistency`** is the ring
of an address' last requests and the score of a user's shape of traffic.
**`Calls`** states what the detector and the decision engine promise of their pure
functions: `call` is a function's name and its arguments, `IsCall` what the code may
give it, and a behaviour one call after the other.
**`Baseline`** learns percentiles from the counters of all addresses, trims outliers,
floors them and decays them; it also has the preload from an old log.
**`ResourceBaseline`** counts distinct identifiers per address, pattern and window; its
`Check` is two critical sections, as in the code, with the eviction between them.

**`PortScan`** is the log source on Linux (it reads to the end, closes the log, sleeps,
opens it at its end), the channel, the consumer with its windows, the eviction and
`Close`.  **`Stats`** is the collector with the loop that feeds it and the goroutine
that reports and resets.

**`LogTail`** has the file as a sequence of half lines with an inode, so that rotation,
truncation in place, reopening and a half-written last line can happen between any two
of the tail's steps: stat, open, read, send or drop, persist.  A cancelled or killed
tail starts again from the state file.  The history `fate` says of each line how often
it was sent or dropped and whether it was cut or astray, and `passedBy` has the lines
that the tail left behind when it opened another file: the listed exceptions.

**`Reporter`** has `Add`, the loop, the goroutine `Add` starts when the buffer is full,
and `Stop`; each flush is its take under the lock and its call of the plugin.  `Threats`
are the events that have a source address: `Add` returns at once for the others.
**`Settings`** groups the options by the rule that merges them with the defaults and by
what `Validate` looks at; **`ConfigWatch`** has the editor, `Load`, the watcher and
`Reload`, which may fail on a valid file too (`NotLoaded`: the read, or a directory that
`Validate` looks at).  **`ControlSocket`** has the accept loop, a handler for each
connection and clients that ask, leave, stay silent, send what is no request, or do not
read: the kernel holds `HeldAnswers` answers for a client, and the handler that writes
one more is `Blocked`.  **`Firewall`** has the listings and changes of
`platformInit` and `platformShutdown`, other programs that move rules and reload the
chain, and kills.  **`AgentMain`** is the order of the start, the defers, what may fail
and exit, signals, and the attempts of `authenticate` with their back-off.

The `MC*` modules hold the instances for TLC; the `*Proofs` modules the proofs.
Definitions whose comment says "Mutant" are plausible bugs: putting one in the
place of the definition after it must break a property, which shows that the
property says something about the code.

## 4. Runs and bounds

| Run | Question | Instance |
|---|---|---|
| `manager_calls` | do the whitelist and the agreement of map and kernel survive two racing callers, failing commands, expiring entries and restarts? | 1 address, 1 subnet over it, 2 goroutines, 1 retry, a kernel set with timeouts |
| `manager_batches` | and cloud batches that fail half-way: are answers true, is the manager one atomic set to its callers, and does every call end? | 2 addresses, batches of two and three entries, 2 goroutines, a kernel set without timeouts |
| `timers` | does every block have its timer? | an operator, a cloud loop and a sweep loop on 1 address, a kernel set with timeouts |
| `unblock` | does every timed block end? | a trigger, an operator and a sweep loop; timers of 1 and 2 ticks; auto save |
| `cloud_two_loops` | do overwritten versions skip an increment or set the whitelist back, does each increment and edit arrive? | 2 loops; 3 increments and 2 bases, or 3 edits of 1 address; requests, snapshots and ipset commands fail |
| `lock_files` | is a lock that of a living process, and one agent at a time? | 3 processes, 3 files; release, kill, directory changes |
| `detection` | are scores, paths, verdicts, windows, baselines, confirmations, identifiers, port counts and statistics right, with late lines and eviction? | below |
| `services` | does what runs beside the detector survive rotation, full buffers, overlapping flushes, failed reads, silent clients, other programs and a bad start, and does it end? | below |
| `no_sweep`, `lock_released`, `idor`, `traversal` | the disagreements of section 6 | |

`Agreement` says both directions on a set without timeouts (the one the code
creates): what the kernel drops, the map knows, and what the map knows, the kernel
drops.  With timeouts only the first holds, because the map is not told when an
entry expires.  `manager_calls` checks the first; both are proved, and what they mean
to callers, that the answers and the blocked addresses are those of one set
(`HonestResult`, `AtomicBlacklist`), is checked in `manager_batches`.

**`detection`.**  The pure functions (`Scorer`, `Consistency`, `Paths`, `Requests`,
`Decision`) are evaluated on bounded inputs, each behaviour one call
(`Calls`; `MCDetector` lists the inputs: counts around each threshold, paths of up to a few
tokens, rings that wrapped around, votes on both sides of each step).  Confirmation:
2 addresses, two candidates needed (`ConfirmCount`), a window of 4 s
(`ObserveWindow`), a merge window of 1 s, lines up to 1 s late (`MaxLate`), at
most 5 requests (`MaxEvents`, of which one that is late, of another address or needs
no confirmation costs more, `OddCost`), a clock up to 9 (`MaxTime`): enough for
`2 * ConfirmCount - 1` candidates and for an observation to expire and begin anew.
Windows: the sizes of `MCSizes`, idle time 3, a clock up to 4, 3 writes.  Identifiers:
2 callers, 4 checks.  Ports: 1 address, 3 ports, 3 hits, channel of 1.  Statistics: 2
addresses, 5 records, a ring of 2, every second event sampled.  Baselines: the
counters of `MCCounterSets`, the logs of `MCLogs`, 3 updates.  The addresses are
symmetric.

**`services`.**  Tail: 2 lines, 2 files, a channel of 1, 2 starts.  Ports: 1 address, 2
ports, 2 hits, channel of 1.  Reporter: 3 threats, a buffer of 2, 2 loops (`Start` can
be called again), 2 goroutines of `Add`.  Configuration: 4 texts, 3 changes, times up
to 3.  Socket: 2 clients of 2 requests, 1 answer held for each, so
that the second may block.  Firewall: a chain of at most 5 rules, 3 starts.  Authentication:
a deadline of 600 s, a back-off of 3 to 60 s, attempts that fail at once or after 92 s
(three requests of 30 s with pauses).

Why this is enough: the manager treats each address alone, save in a batch and in
a subnet; one address with a subnet over it, and two addresses in a batch, are
the smallest instances with each of these relations.  A race needs two calls; a
third adds only another call on one of the same critical sections.  One retry
distinguishes a first attempt from a repeated one.  Two ticks distinguish a timer
that ran out, one about to, and one that did not.  An overtaken answer needs two
loops and two versions; three increments let a version go back and forth.
`cloud_two_loops` lets the cloud change one layer per behaviour (`layer`): `doDiff`
applies the global and the tenant layer one after the other, and neither reads what the
other wrote.  Of the whitelist, each address has its own entry, edits and commands, and
what the properties say they say of each address: one address is enough, and three edits
are two answers that agree with each other and one between that does not.  The
instance lock needs a holder, a process that waits with the old inode and one
that makes the new file.  A channel of one is full after one line; a buffer of two
distinguishes full, partly filled and empty; two files are a rotation and a third
would be the same step again.  A window of three slots is overwritten by a clock of
four.  The theorems of section 7 hold for any values.

Deadlock is checked in the runs of the manager, the enforcement and the cloud.  It is
not where a bound or the end of the system may stop it: `PidLock` (`MaxInode`), the
detector (bounded requests) and the services (a process that ended).  Other bounds:
`MaxChange`, `MaxBase`, `MaxEdits` (what the cloud publishes), `MaxTimeout`, `MaxTTL`
(the longest timer), `MaxNow`, `MaxSec`, `MaxPortClock`, `MaxFileTime` (clocks),
`MaxMinutes`, `MaxUpdates`, `MaxChecks`, `MaxHits`, `MaxRecords`, `MaxWrites`,
`MaxRequests`, `MaxRules`, `MaxInits` (operations).

## 5. Fairness

- `IpsetManager`, `FairSpec`: weak fairness of each goroutine's next step. An
  ipset command ends (it is run to completion by `exec`), sleeps between retries
  end, and the Go scheduler runs every goroutine.  Calls need not be made.
- `Enforcement`, `EFairSpec`: the same, and the passing of time, the start of the
  process (systemd restarts it, `configs/*.service`), and the ticker of the sweep
  loop where there is one.  Nothing is assumed of operators, triggers or the
  cloud.
- `CloudSync`: timers fire and requests end (weak fairness of `doDiff`); a cloud
  that is asked again and again answers at some time (strong fairness of `Diff`),
  without which nothing can arrive.
- `MCServices`, `FairSpec`: weak fairness of the steps of the agent's own
  goroutines, which are tickers, local reads, and sends that a `select` on the
  stop channel ends: the tail's `Stat`, `Poll`, `ReadLine`, `EndRead`, `ExitTail`; the
  port scan's source, consumer and, once called, `Close`; a flush that was begun and
  the ticks of the reporter's loops; the watcher's tick and reload; the server's
  close, accept error, handlers and return of `Stop`.  A handler's deadline is one of
  its steps, because the reads have one.  Nothing is assumed of clients: a handler may
  wait for ever to write to one that does not read, which `StopEnds` excepts by name
  (`NeverRead`).  Nothing is assumed of the log or of editors.

## 6. Disagreements between the code and its documents

Four are runs that are expected to find a violation; `PROJECT.json` quotes the
line of the document.

| Run | The code | The document |
|---|---|---|
| `no_sweep` | main starts the timer table without a sweep loop (`adapter.go:148`) | timers are swept every 30 s |
| `lock_released` | the file is removed after the unlock (`pidlock_linux.go:70`) | a second agent exits at once |
| `idor` | `Check` enters nil windows that `Evict` dereferences (`resource_baseline.go:140`) | paths no pattern matches are skipped |
| `traversal` | `ipWindow.record` does not add up `pathTraversal` (`window.go:425`) | traversals are counted on their own |

Others have no run of their own.  Some are where the exceptions of the passing
properties come from:

- A subnet is blocked without a look at the whitelisted addresses in it
  (`manager.go:240`): `netBlocked`.  `docs/AGENT_OPS.md:147` gives the whitelist
  absolute priority.
- A forced block of a whitelisted address is accepted (`manager.go:253`), but the
  accept rule stands before the drop rule (`platform_linux.go:31`); `docs/cli.md:92`
  says that force overrides the whitelist.
- The map of the whitelist has two keys for an address: the local whitelist is kept as
  "a/32" (`manager.go:122`, `:193`), what the cloud sends as "a" (`:411`).  A `white_del`
  of a locally whitelisted address removes the kernel entry, and "a/32" stays in the map,
  where the comment at `:107` says that it records what was written.  `Agreement` is about
  the key the cloud writes.  The kernel then no longer accepts the address, though
  `IsWhitelisted` still keeps the agent from blocking it.
- After a restart, the stale members of the kernel's whitelist are computed from
  an empty map (`manager.go:134`) and stay.
- With kernel timeouts, the map outlives the entry and Block answers
  `ErrAlreadyBlocked` (`manager.go:262`); and the kernel's timeout is always the
  default, not the time an operator asked for (`main.go:144`).
- An operator's unblock may remove the timer of a block that a trigger made
  between its two steps (`handler.go:171`), and Sweep may unblock what was
  refreshed after it collected (`ttl/manager.go:121`): exceptions of `TimedBlock`.
- A killed process leaves its blocks, because the set has no timeouts and timers are
  saved on a signal only (`client_linux.go:52`); `docs/AGENT_OPS.md:286` says they go
  also after a crash.
- `doDiff` ignores failures of the whitelist's ipset commands and of the tenant
  snapshot (`sync.go:514`): `lostEdits`.  A base is claimed although its fetch failed
  (`sync.go:358`): `lostIncrs`; `docs/AGENT_MANUAL.md:324` says the next round fetches
  it.  The heartbeat runs doDiff itself (`sync.go:253`), beside the loop it should wake.
  Neither loop compares the version of an answer with what it applied before: an older
  whitelist answer applied after a newer one undoes it, and stays until the address is
  named again: `overtaken`.
- Two agents started before and after `/run/wardennet` became writable lock two
  files (`pidlock.go:45`): `replaced`.
- On Linux the tail notices a rotation by the inode only: a truncation in place is
  seen where there are no inodes (`tail.go:257`), though the comment at `:123` says that
  a smaller size counts as a rotation, and `tail_test.go:163` that a file that was cut and
  written again is read from 0.
- A rotation that is noticed closes the old file with what was not yet read of it
  (`tail.go:241`), without a mark or a count; after one that happened while the agent was
  down, the saved offset is applied to the new file (`tail.go:276`), whose beginning is
  passed by if it is longer by then; `:123` says that a rotated file is read from 0.
  Both are `passedBy`, which `LinesOnce` excepts.
- A port scan log is reopened at its end after each pause (`source_linux.go:92`), and
  hits in between are lost.
- Once the detector is closed the event loop may write to the table `Close` removed
  (`detector.go:1121`), and panics: `Detector!panicked`, `AgentMain!Gone`.
- The watcher notes the time of the file before it loads it (`loader.go:100`): a reload
  that fails, be it of a valid file whose one read fails (`:130`), is not repeated before
  the file is touched again: `Unnoticed`, which `ChangeArrives` excepts.
- A connection to the control socket has a deadline for reads only (`server.go:162`, "so
  that no connection hangs for long"); the write of an answer (`:180`, `:191`) has none.
  A client that asks and never reads keeps its handler, and `Stop` waits for it:
  `NeverRead`, which `StopEnds` excepts.
- `Reporter.Start` "may be called again, only the first starts" (`reporter.go:98`), but each
  call starts a loop: the run has two.
- The rules that a path is decoded layer by layer and that a body is searched have
  exceptions the comments do not name.  One percent sign that begins no escape makes
  `PathUnescape` fail, and nothing of the path is percent-decoded (`decode.go:37`; the
  comments at `:1` and `:15` promise all layers): `Readable`.  Names of JSON members, names of
  form fields and forms without "=" are not searched (`body_scanner.go:192`, `:210`):
  `Searched`.
- The floors of the baseline are lower than their comments.  `baseline.go:16`, `:29` and
  `:133` say that the 95th percentile of the speed is never below `MIN_BASELINE_QPS`, 1.0;
  `computeMinQPS` (`:614`) returns down to 0.5, which is what `BaselineFloor` asks.
  `baseline.go:31`, `:249` and `:371` say that rates have a floor of 0.1% also after a
  preload; `PreloadFromLogFile` (`detector.go:977`) sets them without it, so `BaselineFloor`
  asks it after the first round only.
- A failed repair of the order of the rules, or a reload of the chain by another
  program, is not repaired before the next start: exceptions of `RulesInOrder`.
- A signal before `main.go:653`, that is during an authentication of up to 12 minutes,
  ends the process without its defers, and an exit in the preload (`main.go:369`) as
  well: the rules stay.  `Start` says "at most 10 minutes"; the last attempt and pause
  come on top.

The rest are findings of the reading that no property is about:

- The merge with the defaults (`config/loader.go:149`) drops
  `detector.honeypot_paths`, `trusted_subnets`, `consistency` and the options
  `allow_upload`, `custom_regex`, `regex_groups` of a log source, which
  `docs/AGENT_OPS.md:800` documents (`Settings!Unmerged`); an absent
  `detector.enabled` means disabled though the default is true; of a reload, main
  takes the log level alone.
- The statistics count every score above 0 as medium, where the comment tells medium
  from low (`stats/collector.go:154`); `RecentEvents` returns empty records while the ring is
  not full (`collector.go:311`).
- After a preload, an update with too few usable addresses makes the baseline unready
  again (`baseline.go:286`).
- With the neutral local scores and the default weights a block takes ten votes
  (`TenTenantsToBlock`).  Two votes weigh 0.70 and three 0.60 (`decision.go:150`,
  `:145`): the first is the default for an unknown number.
- `ReportFull` expects `[]interface{}` (`cloudplugin.go:533`) where the reporter passes
  `[]detector.Event`: nothing is sent and the batch counts as sent.
- A browser may have the few hits that `hasNoAttackFeature` allows: one bot-like agent,
  one sensitive path and one failed login in fifty requests score 61 where such hits are
  unusual, although a comment (`scorer.go:472`) says that a browser without attack
  features is "absolutely" never reported.  `UserIsNotHigh` is about users without hits.
- An address the port scan detector reported once is never reported again
  (`portscan/detector.go:108`), even if its block failed or ran out; the comment at `:106`
  announces a report "on the first time or after more than 5".  `ScannersAreTold` neither
  asks for a second report nor denies it.
- main reports and resets the statistics at every tick, also of an empty window
  (`main.go:604`); an event that is counted between the report and the reset is in no
  report.

## 7. Proofs

All theorems are checked by TLAPS without assumptions but the named ones of the
modules.  Type correctness is proved rather than listed in the runs.  An
invariant of the list is seldom inductive; what has to be added is the point of each
proof.

- `EnforcementProofs`.  The manager, from `ConstantsAssumption` and `CloudAssumption`.
  `TypeCorrect`: `TypeOK` is inductive as it stands.  `LocalWhitelist`:
  `WhitelistExempt` is not, because a goroutine that passed the whitelist check
  long ago may be about to add the address.  `WhitelistInv` adds that every call in
  flight that may still add an address is excused (`CallsExcused`), that what is left
  of a batch is a part of it, and that no call is in flight while the process starts.
  `MapsAgree` and `AnswersAreTrue`: `AgreementInv` says what is true of an address
  at each stage of the one call that changes it.  A local call may have done the
  kernel's half and not the map's (`LocalProgress`); of a batch, the entries that are
  no longer in `todo` hold in the kernel and the others as before (`CloudProgress`).
  At most one call touches an undisturbed address, and `disturbed` covers subnets and
  failed entries, which is why this is enough.
  Its users, also from `RolesAssumption`: `TimersTypeCorrect`;
  `EnforcementImplementsManager`: every step of the composition is a step of the
  manager or none, so that every property of the manager holds of the agent;
  `WhitelistOfTheAgent`, `AgreementOfTheAgent` and `AnswersOfTheAgent` are three.
  `BlocksAreTimed` proves `TimedBlock`: an address the maps hold has its timer, or a
  sweep loop has it to unblock, or the one call on it still owes the timer
  (`HasTimer`, `Settles`, `BlocksTimed`); it needs that a handler plays one role only
  (`RolesKept`) and works alone on an undisturbed address (`LoneCalls`).
  `ManagerIsAtomic`, and for the agent `AtomicBlacklistOfTheAgent`: the manager
  implements `Blacklist` when the set has no timeouts, each step of it being one of the
  list or a stutter.  `ListInv` adds to what `AgreementInv` knows of the stages of a
  call that a call has its answer from its moment on and no sooner (`Answered`), and
  that an unblock deletes what the map holds (`LoneCall`).  A block is then accepted
  of an address that is not listed, because at its add the maps and the kernel still
  agree that it is not (`BlockStep`); a batch is answered when each of its entries
  holds in the kernel (`CloudAnswer`); and the process that starts again takes over
  what is listed (`StartListed`).
- `CloudSyncProofs`, from `SyncAssumption`.  `SyncTypeCorrect`.  `NoIncrementSkipped`
  holds for any number of loops: `SyncInv` says of each loop what it asked for, was
  answered and consumed (`LoopOK`): an increment below an answered version was
  answered, was asked for as known, or is in the base; and what is known only grows,
  so that an old version written over a new one takes nothing back.
  `WhitelistFollows` holds for any number of loops too.  Its invariant says, of each
  address, that what was edited up to the claimed version was dealt with (`DealtFor`,
  `Dealt`): a loop that was answered a version carries all the edits since the version it
  asked for (`Complete`) and has those that are no longer in `todo` behind it
  (`Underway`), and what was dealt with is never forgotten.  The entry of an address that
  was neither lost nor overtaken is then that of the newest version dealt with
  (`WhitelistOK`), which is not below the one claimed, though a loop may write an older
  version over a newer.
  Of `Decision`, for all scores, votes and weights: `LoneTenantsBlockNobody`,
  `MoreIsNeverMilder`, and `BlocksTakeTenTenants`, whose hypothesis `ScoreHighIsModest`
  bounds `score_high` by 66: its default is 50, and a configuration that sets 67 or more
  lets the agent's scores make up for votes.  `EveryVerdictFair` states the three of any
  call of `Calls`, whose `CallsAssumption` says what a call is given; so do
  `EveryScoreFair`, `EveryUserTold` and `EveryRequestRead` below of what the run
  checks on inputs around the thresholds.
- `PlatformProofs`.  The lock, from `LockAssumption`: `LockTypeCorrect` and
  `LockAlwaysHeld` are proved together (`LockInv`).  `OneAgent` adds that every process
  uses the one file until something replaces it (`OneFile`), and two processes that run
  would both hold the lock of its inode; `PidFileNamesAgent` that only the holder of
  the lock writes the file (`PidIsWritten`).  The rules: `WhitelistBeforeBlacklist`
  states `RulesInOrder` for any number of starts and rules.  As long as no other program
  moved a rule and no repair failed, each step of `platformInit` and `platformShutdown`
  is followed through the chain: what it found or put there is still there, and the
  accept rule leads (`CalmInv`); and unless a failed listing may have repeated a rule,
  each is there at most once, so that a shutdown leaves none (`RepeatInv`).
- `DetectorProofs`, from `DetectorAssumption`.  `NoBlockAtOnce`: every observation began
  with a candidate of its address (`AnnouncedInv`).  `EveryBlockConfirmed`: while lines
  are in order, an observation stands for a chain of as many candidates as it counts,
  each independent of the one before (`Chain`, `ChainsHold`); a candidate that is not
  merged makes the chain longer by one (`ChainGrows`), and the last `ConfirmCount`
  of a long enough chain are the confirmation (`ChainConfirms`).  `PersistentAreBlocked`:
  while the lines of an address come in time and apart, and nothing blocked it since a time
  `w` of the observation window, its observation has followed the candidates since `w`
  (`Follows`): it counts all since it began, and fewer than `ConfirmCount` came before.
  So it is not stale (`EvictPersists`), is not cleared (`ClearPersists`), and at the
  `2 * ConfirmCount - 1`st candidate would count too many (`FollowsFew`).
  Of `Scorer`, from `ScorerAssumption`, for all counts, baselines and weights:
  `AttacksNeverHelp`, `SpeedAloneIsNotHigh` and `UsersAreNotHigh` are the three parts of
  `ScoresAreFair`, and together `EveryScoreFair`.  One count is `Worse` than another if of the same requests at least as
  many hit; every step of the formula keeps that order (`RelativeGrows`, `CappedGrows`,
  `BonusShrinks`, `WindowScoreGrows`).  For the other two the most that the mitigated
  dimensions can add is bounded (`WindowNotHigh`, `UserBound`).  Their hypotheses: `Referred`,
  an address has no more empty Referers than requests, which is what a window counts; and
  `ScoreHighIsUsual`, `score_high` is above 20 (its default is 50).
- `CountersProofs`, what the detector counts and learns over time.
  `WalkersAreCounted` (`ResourceAssumption`): an address that asks for identifiers is
  told how many, but for one at most that the eviction may take while `Check` is between
  its two critical sections (`KeepsAll`, `Lost`); an identifier's stamp is that of the
  first request in its window.  `ScannersReported` (`PortScanAssumption`), which is about every report: an entry is
  what the hits since it was made amount to, window by window, and what the eviction
  took away is older than the window (`Entries`, `EntryOk`, `Missed`).  Its hypothesis
  `WindowsEndFirst` says that no window is longer than the time after which an address
  is evicted: 300 s in the code, where the default windows are 5, 30 and 120 s but the
  configuration may set longer ones.
  `BaselineHasFloor` and `BaselineKeepsItsHead` (`BaselineAssumption`) state `BaselineFloor`
  and `BaselineIsRobust` for any samples and logs.  The sorted list of the code is the
  order statistic `Nth`: fewer than n samples lie below it and n or more up to it, and it
  exists (`NthIs`).  `BaseInv` adds to the floor of the speed that of the rates, which
  `QuietKeeps` needs: a round without samples applies the floors to what was learnt.  Fast
  addresses are removed because the slow ones hold the middle (`RestIsMost`), so that the
  median and the median deviation are theirs (`SpikesRemoved`), and that the deviation is
  not zero is what the property's last condition is for.
- `WindowProofs`, the totals the detector keeps and drops over time.
  `NothingCountsTwice` and `LinesInOrderCount`, which states `WindowCounts`
  (`WindowSizes`, `ClassAssumption`): an entry is what the requests written to it amount
  to (`Amounts`): a bucket holds the requests of its second that none of another second
  pushed out (`Held`, `BucketOk`), and the roots are those of the 4xx requests with the
  second of the last (`RootsOk`).  The live buckets hold disjoint sets of requests of the
  window, so the sum over buckets is one over requests (`SumIsTotal`,
  `CountedLiesWithin`); while lines are in order two seconds of a window never share a
  bucket, and it is one over all of them (`SameSecond`, `WithinIsCounted`).
  `LinesInOrderCount` has the hypothesis `WindowsAscend`: the roots are forgotten by the
  third window, and the code takes the three as configured.  `EvictionForgetsNothing`
  states `EvictForgetsNothing` under `IdleIsLonger`: no window is longer than the 300 s
  after which an entry is evicted, which holds of the default 10, 30 and 60 s; the
  configuration may set longer ones.
  `ReportsAreTrue` (`StatsAssumption`, which needs only finitely many addresses): the
  counters are the numbers of recorded events of their class (`CountersOf`), and the ring
  holds the last `RecentCap` in their order (`RingOk`, `Place`).
  Both rest on lemmas about the sum of a function over a finite set (`Total`), a fold:
  what it does to unions, parts and families of sets is proved without induction over
  data, by a smallest subset that fails (`Smallest`), and the tables of partial sums exist
  for the sets up to each size (`PartialSumsExist`).
- `RequestProofs`, what is read of any request, and of any run of requests.  The
  algorithms are folds over sequences.  A fold has a value for every set of positions
  (`FoldValues`), and the values for the first positions come one from the other
  (`FoldRuns`); what holds after each of them is then proved by the least position after
  which it fails, without induction over data.
  `SpellingsAreAlike`, `ClimbsAreSeen`, `TwiceIsOnce` and `BodiesAreSearched` are the
  four parts of `RequestsAreRead`, and together `EveryRequestRead`.  Those about paths are
  of `Readable` ones: at most three encodings, and no percent sign that begins no escape.
  Of such a path every escape is one (`EscapesOnly`), so the unescaping does not fail
  (`UndoIs`); a round of decoding leaves less of each token (`StripLess`) and undoes one
  encoding at least (`UndoneIs`), so the path is plain after three (`ReadableDecoded`),
  whatever encodings its tokens were under.  A segment of one token stands
  between separators, at the beginning or at the end (`OneToken`), so two dots that are
  a segment once they are decoded are what the code searches for.  A
  cleaned path, written and split again, yields its segments (`WrittenIs`), of which
  cleaning leaves all (`CleanedAgain`).  A body that does not parse is searched as it is,
  one that does field by field for its values, and either finds what fits of what it
  searches (`RawIsSearched`, `TextsAreSearched`).
  `RingsKeepLatest`, `WallsAreNotUsers` and `ScansAreNotUsers` are the three parts of
  `UsersAreTold`, and together `EveryUserTold`.  The ring holds the latest records, from its head on once it is full
  (`Held`).  One of the five paths that `TopK` yields is requested most (`TopFive`), so
  errors from a page that is asked for often enough count as those of a wall; and of
  a run in which each request has its own path the early third is a third and the
  late one all new (`EachHasItsOwn`, `EarlyIs`).  The penalties then outweigh all that
  may speak for the address: `WallsWeigh` and `ScansWeigh` say so of the thresholds.
  They hold of the defaults (`DefaultsWeigh`); a configuration may set others.
- `ServicesProofs`.  The reporter: `EventsAccounted` and `StopLeavesNothing`, from
  one invariant `ReporterInv`: batches of different flushes are disjoint and belong to a
  step that has one (`BatchesAreSent`), and `Stop` comes after the loops (`StopOrder`).
  The socket (`SocketAssumption`): `NoCommandAfterStop`; the accept loop ends only after
  `Stop` closed the listener, and `Stop` returns when the loop and all handlers have ended
  (`StopWaits`).  The process (`AgentAssumption`): `StartIsBounded`, with the bound on
  the pause between attempts (`AuthInv`).  `UsersEndFirst`: every deferred end lies above
  the ends of all that its component may use (`Stacked`), and while a component that
  uses others is open its own end is still deferred (`Covers`), so what it uses is not
  yet ended.
  The tail (`TailAssumption`): `TailTellsOnce` states `LinesOnce` for any
  number of lines, rotations, starts and any capacity of the channel.  A line is written
  once, into one file (`FileInv`, `UniqueInv`, `CellInv`); what lies behind the reader
  was told, cut off, or passed by as another file was opened (`SkipInv`, `OpenCovers`);
  what the last look found is read before the tail rests (`LookInv`); a line told twice
  lies behind a position that was set back (`OnceInv`, `Behind`, `Counted`).

Only model-checked:

- everything temporal (`CallsEnd`, `AutoUnblock`, `ThreatsArrive`,
  `WhitelistConverges`, `LinesArrive`, `CloseEnds`, `EventsLeave`, `ChangeArrives`,
  `StopEnds`): liveness under fairness is out of the prover's reach.

## 8. What is not modelled

- Log parsers (regular expressions over a line, without state), the logger (output),
  and the feature lists, whose manager main never constructs.
- HTTP, JSON, signatures and tokens of the cloud plugin; remote commands, which the
  agent only acknowledges (`HandleCommand`).
- Formats of addresses, commands, messages and log lines; the lists of patterns, which
  are data, and the wording of details.
- `SyncLocalWhitelist` at run time: no code calls it after the start.
- `isValidIP`: targets are valid (the configuration, the handlers and the
  detector validate them).
- The ports of the firewall rules; the in-memory client and the empty platform
  functions of other systems than Linux.
- Of the detector: the judgement about a reverse proxy in the preload, `SetWeights`,
  and seven of the eight rates of the baseline.  In a round the code treats them like the
  one in the model.  In a preload it does not: the rates of sensitive paths, bot agents
  and empty Referers are set to a 95th percentile of 1.0 with no samples, and that of HEAD
  requests to zero (`detector.go:983`); the model has one of the four that are computed.
- Of JSON members of one name the code keeps the last: bodies have distinct names here.
- Of the statistics: the counts per status and dimension and the top lists; and the last
  report (`main.go:659`), which main writes on its way out without a reset.  It changes
  nothing; if it comes between a report and its reset, it repeats that report.
- In `CloudSync`: the tenant's threat scores, which go through the same decision
  path as the global ones and have no version of their own.
- The conversions of the configuration in `adapter.go`, and the status of the agent.
- The replacement of the snapshot file by a rename (an option main does not set).

## 9. How to run

    tlc -workers 2 -config manager_calls.cfg MCIpsetManager.tla
    tlapm EnforcementProofs.tla

`PROJECT.json` names the module of each configuration.  The largest run
(`detection`) has 1.4 million distinct states and takes about two minutes; the proofs
take about as long each at most.
