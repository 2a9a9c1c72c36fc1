# Freshell: a verification development

Freshell is a server that keeps terminals and coding-agent sessions (claude,
codex, opencode) running and shows them to any number of browser tabs. Its hard
promise is *one writer per session*: a session's history is a file on disk, two
processes appending to it destroy it, and nearly everything that can go wrong
(a second tab, a resend, a restart, a slow spawn, a process that does not die)
ends in a second process. Its second promise is to the reader: what a terminal
printed reaches the pane that shows it, or the pane is told what it lost. This
development models the parts of the program that keep the two promises, checks
them with TLC on small instances and proves what matters most with TLAPS for
every instance.

Paths below are relative to the repository; `crates/` is the Rust workspace.

1. [Inventory](#1-inventory)
2. [Modules](#2-modules)
3. [Runs](#3-runs)
4. [Findings](#4-findings)
5. [Proofs](#5-proofs)
6. [Plan, and what is not modelled](#6-plan-and-what-is-not-modelled)

## 1. Inventory

For each part: its state, its operations, what makes it hard, and what makes it
correct.

**Runtime-ownership registry** (`crates/freshell-ownership/src/lib.rs`).
State: under one mutex, a record per (provider, session id): its lifecycle
state (`Vacant`, `Starting`, `Live`, `Handoff`, `Stopping`, `Fenced`,
`Aliased`), a per-key generation counter, the count and list of attach guards
in flight, and the witnesses of an operation in flight (cancellation,
settlement, partial runtime). All of it is lost at a restart, which draws a new
epoch. Operations: begin a start, handoff or stop, which grants a ticket with a
generation; commit, fail, abort or fence it; attach guards; four ways to move a
session to another id; release on exit; the operator's clear; the watchdog's
two sweeps. Hard: callers hold tickets, eras and guards over awaits, lose
races, call late or twice; aborted stops leave the counter ahead of the era;
guards survive the owner they were taken for. Correct: a generation names one
operation and one owner; nothing stale takes a key; attach windows exclude
competitors; forwarding ends; a runtime is under one id.

**Create guard and create lanes** (`crates/freshell-ws/src/create_dedupe.rs`,
`interactive_creates.rs`, `create_gate.rs`, with `terminal.rs` and the
terminal registry's keyed reservations). State: a server-wide map from
createRequestId to *in flight* (origin, waiters) or *settled* (terminal,
restore flag); per connection a queue and a serial worker for interactive
creates; a task per restore create behind a spawn gate; reserved request ids;
the shutdown latch. Operations: begin, settle and clear of the guard; the steps
of a create; the shutdown sweeps. Hard: the guard releases its mutex to probe
terminals; creates end in many ways; resends arrive on other connections and
with other flags; shutdown races a spawn. Correct: one running terminal per
request id, no leaked sentinel, no waiter without an answer, nothing running
after shutdown.

**Session lease** (`crates/freshell-freshagent/src/session_lease.rs`, its guard
in `lib.rs`, the claude lane in `claude.rs`). State: a lease per durable
session with a time to live and the spawned child's pid, a binding of the
session to the registered one; the lane's map of sessions, its index of durable
ids, its retained claim. Operations: claim, record the child, complete, fail,
force-release after a confirmed kill; the steps of a create, a consumer's exit,
a kill. Hard: expiry while the spawn is under way; exits, kills, the watchdog
and the fence probe race the handler; a panic drops the guard. Correct: at most
one process tree that nobody has set out to kill; a lease ends only over a tree
that is bound, condemned or gone.

**Tree reap** (`session_lease.rs`, `kill_and_confirm_tree_dead`). State:
recorded pairs of pid and start time, rounds and waits. Hard: pids are reused
between any two reads of `/proc`; members fork and die meanwhile. Correct: no
foreign process is signalled; "dead" is said only of a dead tree; every reap
answers.

**Delivery of terminal output** (`crates/freshell-terminal/src/registry.rs`,
`crates/freshell-ws/src/paced_replay.rs`, `terminal_delivery_queue.rs`,
`connection_writer.rs`; the pane: `src/components/TerminalView.tsx`,
`src/lib/paced-replay-consumption.ts`, `terminal-attach-seq-state.ts`). State:
a ring of sequence-numbered frames; per subscriber a deferral, a boundary, a
staged exit; a paced session with its credits; a drain task with its
reservation; the connection's lanes and overflow gaps; the pane's frontier,
window and pinned cursor. Hard: overflow against attach and replay; the exit
against a credited replay; a drain against new output. Correct: the pane is
sent every position or told of its loss, in one stretch, the exit last; a
replay stays within a page; a session ends.

**Supervisor and session host** (`crates/freshell-supervisor`,
`crates/freshell-session-host`). State: in SQLite, a row per soul (intent,
recovery state, evidence), per incarnation, a writer claim per native session,
a journal of inputs; in Docker, a container per incarnation with a host that
boots, is granted the execution and runs one worker. Operations: launch and
activation, stop, input, recovery with its probe and replacement, the startup
scan, the observer. Hard: a crash between any two transactions; a launch, a
client's probe or a read of output, which take no lock, beside a recovery,
which does; Docker restarting a host on its own; answers that are lost.
Correct: one worker of a soul; no replacement beside a live incarnation; an
input reaches a worker once; every recovery leaves a verdict.

**Ownership watchdog, fence probe, boot and shutdown**
(`crates/freshell-server/src/main.rs`). State: none of its own; drives the
registry's sweeps, cancels and reaps stale starts, probes fences. Hard: awaits
between reading a record and acting on it; a pid that says more than a
settlement. Correct: only a confirmed death reopens a key.

**Session handoff runner** (`crates/freshell-freshagent/src/session_handoff.rs`).
State: one running handoff per key, its ticket, the captured prior. Operations:
enter, stop the prior, start the target, commit; cleanup on every failure.
Hard: each step is an await against exit watchers, sweep and operator. Correct:
at no moment two writers; every end leaves Live, Vacant or a fence that says
why.

**Session lanes** (`codex.rs`, `opencode_ws.rs`, `terminal_tabs.rs` of
`freshell-freshagent`; the terminal registry's retained claims;
`identity_ownership.rs`). State: live sessions and their processes, retained
stamps and claims. Hard: rows go before processes die; exits race kills.
Correct: composed with the registry, at most one live writer per session.

**Pane ledger, reconcile** (`pane_ledger.rs`, `reconcile.rs`,
`create_limit.rs`, `tabs_store.rs`). State: durable bindings of panes to
sessions. Correct: a reconciling client is never told to start what runs.

**Client owner fold** (`src/store/freshAgentSlice.ts`). State: per session the
last owner frame. Hard: broadcasts, replays and replies in any order. Correct:
no regression within an epoch.

**Activity trackers** (`freshell-activity`): timer folds over provider logs.
**Protocols, provider clients, indexing, user interfaces**: see
`PROJECT.json`; message types, I/O and presentation.

Interactions. A create, an attach and a handoff each first ask the registry for
a ticket or guard, then the lease, act on processes, and commit or fail. Exit
watchers and the watchdog call the registry from their own tasks.
`terminal.create` passes the create guard before anything else, and settles it
after the reply. A terminal's output passes the ring, a subscriber's deferral
and the connection's queue; a pane's credits and repairs come back over the
same connection. Owner changes are broadcast to clients, whose next requests
carry the observed (epoch, generation) back as a fence. The supervisor is a
process of its own: it takes requests over a socket and acts through Docker.

## 2. Modules

| Module | Models |
| --- | --- |
| `OwnershipRegistry` | the registry's records and every method that changes one, with its guards |
| `Ownership` | the registry under its most general callers, and the properties |
| `CreateDedupe` | the create guard, both lanes, the keyed loop, spawn and settle, shutdown |
| `SessionLease` | the lease, the binding and the coordinator's claim of one session under the claude lane's creates, exits and kills |
| `TreeReap` | killing a process tree and confirming its death, against processes that fork, die and reuse pids |
| `StreamView` | the abstract specification of a terminal's output as a pane sees it |
| `TerminalDelivery` | ring, paced replay, drain, queue, writer and pane; implements `StreamView` |
| `SoulRecovery` | the supervisor's registry of one soul, its containers, and the tasks that launch, stop, recover and feed it |
| `MC...` | instances for TLC |
| `...Proofs`, `CreateDedupeOnce` | TLAPS proofs, section 5 |

### Ownership

`reg[k]` is the record of a key, or `None`. `state.tag` is the Rust enum's
variant, `generation` the counter, `inFlight` and `armed` the attach windows,
`settle`, `stopSettled` and `partial` the witnesses. An operation of
`OwnershipRegistry` is one method under the mutex; its guard is the method's
early returns, so a refused call is no step. `Ownership` adds what callers
hold: `granted` (every ticket of this boot), `lived` (every Live era), `guards`
(attach guards out). A call that carries a ticket or an era takes *any* of
these, however old: late, repeated and forgotten calls of every lane are
included, in any order, and so is every real caller. The exceptions are what
the types forbid: an operation id is new, a start from inside a window comes
from the terminal lane, only the watchdog ends the stop it made of a stale
start, and does so before its next stop sweep.

Abstractions: times are gone, so a record may be stale whenever the sweep
runs; initiators and logs are gone; the cancellation witness always comes with
its settlement, and `dropped` says which operations have dropped their guard.

### CreateDedupe

An *attempt* is one frame read off a socket; it names the terminal it may
spawn. `entries` is the guard's map (the attempt in a sentinel is the identity
of its age stamp, which the code compares by pointer); `job[a].pc` is where
the attempt's create is:

    probe -> decide          begin, phases 2 and 3 (phase 1 is Receive)
    admitted                 begin answered Proceed
    captured -> queued       interactive: Job::new, then try_send
    create <-> reserve       handle_create's keyed loop
    spawn -> spawned         a terminal of its own, an adopted or attached one
    probeOthers -> prune     settle, phases 2 and 3
    returned -> drop         interactive: after handle_create, then the guard
    returned -> cleared      restore: clear_if_in_flight, then the shutdown check
    done

`waiting` is what the properties need and the code does not store: who was
promised a reply and has not had one. `older` orders rows by creation.

Abstractions: `kill` takes row and process in one step; terminals owned by a
session host, which `kill_all` skips, are left out; a panic of the worker and
the retry the client makes on its own are left out (any frame may be sent again
at any time); the create's own waits are delays; the session claims inside
handle_create appear only as its freedom to fail, attach or be torn down. A
restore's gate is a delay too: FIFO order among restores is not relied on.

### SessionLease

An attempt is one create or attach that resumes the session, and gives its name
to the sidecar it spawns and to the session it registers. `pc[a]` walks
`spawn_and_create`: claim, kill of an expired holder, spawn, recorded child,
registration, completion, commit; each await of the code is a step. `owner` is
the operation that holds the coordinator's claim on the session (the record
itself is in `OwnershipRegistry`), `stamp` the Live claim the lane retained.
`condemned` holds the trees someone has signalled: a tree that is neither
condemned nor gone is one nobody means to kill, which is what the lease is to
keep unique. `probed` records that the fence probe has released a start whose
handler was still unwinding. `Coordinated`, `Detaches` and `Panics` switch a
lane without the coordinator, a CLI that outlives its sidecar, and panics of a
create's task.

### TreeReap

A process is an *incarnation*: it stands for its start time, and `pidOf` gives
the number it goes by. The reap scans `/proc` pid by pid, reads start times
after the scan, and signals through a pidfd in three steps (open, verify,
send); between any two, processes fork, die, and take freed pids. `Undumpable`
and `Yama` are the host's restrictions on reading a process' environment.
`calm` is chosen once: the tree stays as it is until it has been captured, then
forks no more. What the reap promises about the whole tree is conditional on
it, what it promises about a single signal is not. `Lineage(S)` is who descends
from `S` by living parents, as the least set closed under living children; the
code follows the parents one by one and gives up after 128 of them, which the
model leaves out. A scan that finds it cannot be complete answers at once, where
the code finishes its pass first: the answer is the same.

### StreamView and TerminalDelivery

`StreamView` has three variables: `head` and `alive` of the terminal, and
`view`, an attachment with its base, the positions covered so far, and a phase.
The server covers the stream in order and without holes, and ends it with the
exit.

`TerminalDelivery` follows a frame from the ring to the pane; its `TypeOK` also
says that nothing runs ahead of what the terminal printed. The dispatcher of
the connection runs attach, credit, drive and settle (`pc` between their
awaits); each attachment has a drain task (`drains[g]`), reserved against the
queue's watermark; `out` is the output lane, the overflow gaps and the frame
being written; `controls` the lane that preempts it; `up` what the pane has
sent and the dispatcher not read. `seen` is the one history variable: which
attachment the server serves and what the pane has been sent of it.

The refinement mapping computes `view` from it: the base is `seen.base`; a
position is covered when it was sent or is still queued, as a frame or within a
declared gap (`Covered`); the phase is open until the exit is queued. An
evicted frame moves from the lane into an overflow gap and so stays covered;
losing it silently, skipping a retention gap or queueing the exit early is a
step `StreamView` does not have. `StreamKept == Abstract!Spec` is the run's
property.

An admission that overruns the queue's limit evicts one frame after another
(`Sink`, `EvictOldest`, `Spilled`), as the loop of `evict_overflow` does.

Abstractions: a frame is one sequence position and one unit of the queue's
budget; one terminal per connection, so the writer's weights and classes are
gone; an item reaches the pane when its flush ends; the closes of an overfull
or stalled connection, the kill of a terminal and the limit on metadata are
left out. A pane that left does not come back.

### SoulRecovery

`soul`, `input`, `rows` and `claim` are the registry's tables, `boxes` the
containers with their host and worker. Stop, recovery and input hold the soul's
lifecycle lock, so they are one task, the *keeper*; a launch takes no lock, so
launchers interleave with it. Nor do a client's `ProbeRecovery`,
`terminal_read_output` and `fresh_agent_read_events`: they record the session
their host named, and its verified specification, in transactions of their own
(`RecordRead`, `StoreRead`), whatever became of the container since it
answered. One step is one registry transaction, one Docker call or one host
command. `at[t]` is where a task stands (in `activate_prepared`, for both
kinds), `plan` what the keeper is doing and to which incarnation. A crash
forgets `at` and `plan`; rows and containers stay, workers run on, and a
long-lived host may exit and be booted again by Docker.

Abstractions: the rollout mode is Legacy, so a definitive loss is Blocked; the
attempt id moves only under the lock and the intent revision only with the
intent, so neither is a variable; one input command; evidence of a session is
none, native or a resume specification, and the first launch may name a session
(`Init`). A grant whose spawn fails is used up (`SpawnFails`). An answer of a
container or host that may fail may always fail. A read in flight is not a
variable: its record may come at any time after the grant of its container was
committed, even after a crash, which is more than the code can do. A session
that the answer to an input names is recorded under the lock, and is one of
these.

## 3. Runs

| Run | Instance | Checks |
| --- | --- | --- |
| `OwnershipClaims` | 1 id, 3 operations, 2 boots | `TypeOK`, `GenerationNamesOneOperation`, `GenerationNamesOneOwner`, `StaleRequestTakesNothing`, `NoInheritedWitness` |
| `OwnershipWindows` | 2 ids, 2 operations, 1 guard | `GuardsBalanced`, `AttachWindowExcludes` |
| `OwnershipMoves` | 3 ids, 2 operations | `RuntimeHasOneKey`, `NoAliasCycle`, `ForwardingOnlyExtends` |
| `DedupeInteractive` | 3 plain frames, 1 request id, 2 connections, fair | `TypeOK`, `NoDuplicateTerminal`, `NewerAttemptKept`, `SettledKept`, `WaitersAnswered` |
| `DedupeMixed` | 3 frames of either flag, 1 request id, 2 connections | `SentinelHasWorker`, `WaitersHeld`, `ShutdownLeavesNothing` |
| `LeaseCoordinated` | 3 attempts, panics | `OneTreeUnlessProbed`, `OwnedUnlessProbed`, `DroppedLeaseRecovers`, `LeaseEndsOverNoRunningTree` |
| `TreeReap` | 3 processes of the tree, 1 foreign, 3 pids, 2 rounds, fair | `NoForeignSignal`, `ConfirmedMeansDead`, `SignalsReachTheirAim`, `ReapEnds` |
| `Delivery` | 4 frames, ring 3, page 2, queue 3, 2 attachments, fair | `TypeOK`, `ReplayBounded`, `StreamKept`, `DrainNeverSpills`, `SessionEnds` |
| `SoulRecovery` | 1 launcher, 2 incarnations of 2 boots, 1 crash | `TypeOK`, `OneWriter`, `EmptyStaysEmpty`, `ReplacedIsEmpty`, `WriterHoldsClaim`, `StopWins`, `InputReachesOneWorker`, `RecoveryHasAnOwner`, `BlankOnlyIfUntouched` |
| `LeaseStaleExit`, `DeliveryExitLost`, `RecoveryInterrupted` | | violations, see Findings |

Every property has a mutant of a mapped definition that TLC shows it to catch:
a rolled-back counter, a dropped window check, a late guard that clears any
sentinel, a start time that is not verified, an eviction that leaves no gap, a
grant given without looking at the row (`PROJECT.json`).

### Bounds, and why they suffice

*Registry.* Operations bound a behaviour: three on one id give every pair of an
operation that ended and one that follows, with a third that took the key
between; two are enough where a property relates a move to a competitor. A
cycle or a dangling chain needs two moves, hence three ids. `MaxEpoch` 2 gives
one restart between a fence and its use. The counter against one guard, moved
or orphaned, is what can go wrong; more guards only add copies.

*Create guard.* Three attempts: an original, a resend and a third that finds
what the two left. `QueueCap` 1 makes the full queue a common case. One of the
two connections negotiated `paneReconcileV1`, so creates meet with and without
the keyed loop.

*Lease.* Three attempts: a holder that is late, one that takes over, one that
finds what the two left. Expiry, exits, kills, panics and the watchdog's steps
are not bounded.

*Tree reap.* Four incarnations over three pids force a pid to be reused, by a
member or by the foreign process; one member is undumpable; two of the code's
24 rounds give a round that finds newcomers and one that does not.

*Delivery.* Four positions over a ring of three make retention gaps, a page of
two makes a replay of several pages, a queue of three overflows under live
output and not under one reservation. Two attachments: one superseded or
repaired while its session, its drain and its output are under way.

*Supervisor.* Two incarnations: a prior one and its replacement, or two
launches. Two boots of each: a host that Docker or a later launch boots again
after its grant. One crash, at any point. Larger instances were explored
besides: 1 launcher, 3 incarnations, 1 boot, 1 crash (6.5 million states); 2
launchers, 2 incarnations, 1 boot, 1 crash (3.0 million): no violation. A third,
2 launchers, 2 incarnations and 2 boots without a crash, was finished only
before the unlocked reads were added; with them it was stopped unfinished after
half an hour, with no violation found so far.

Launchers, operations, ids, guards, attempts and request ids are
interchangeable and symmetric; runs of liveness or refinement use no symmetry.
Deadlock is not checked where a behaviour ends when its operations, frames or
attempts are used up; it is checked in `SoulRecovery`.

### Fairness, and why the code justifies it

`WaitersAnswered`: weak fairness of each attempt's own steps and of each
connection's worker. Creates run in tokio tasks and on the blocking pool, whose
spawn returns; a connection's worker drains what was accepted even when its
connection is gone (`run_serial`); the keyed loop ends after 500 tries. Nothing
is assumed of terminals, clients or the shutdown. A wedged spawn, which the
code logs and does not bound, would break the assumption and the promise.

`ReapEnds`: weak fairness of the reaper, one task whose waits are timers. No
process is assumed to die of a signal.

`SessionEnds`, `ExitArrives`: weak fairness of the dispatcher's steps, of each
drain task, of the writer and of the pane's write queue. The terminal need not
print or exit, the user need not attach or leave, and the notification of a
staged exit, a paging hint on a lossy channel, may never be handled.

`RecoveryIsAutomatic` is refuted under `PatientSpec`: the keeper, the observer,
a restart and a client that keeps asking are weakly fair, and the steps that
probe and begin a recovery are strongly fair, so that errors pass.

## 4. Findings

Each is a run that TLC refutes, with the lines quoted in `PROJECT.json`.

1. `LeaseStaleExit`: the fence probe releases a stale start's key once its
   child is gone, while the start's handler may still be registering. It
   overwrites the index of durable ids, and its consumer's exit then clears the
   binding and takes the retained claim of the session the next create has made
   Live: both calls ask for the durable id only. A third create spawns beside
   the running session.
2. `DeliveryExitLost`: an exit staged during a credited replay extends the
   phase to the final head, and the server waits for a credit that reaches it;
   the pane clamps its credits at the window `attach.ready` announced. With
   output printed after the attach, neither the last pages nor `terminal.exit`
   is sent.
3. `RecoveryInterrupted`: a recovery cut off by a crash, by the startup scan's
   time limit or by an error leaves `recovering` on record, and every later
   recovery is refused as one already under way.

The following disagreements have their formula in the module but no run of
their own; the change that shows each is given.

| Formula | What the code does | Shown by |
| --- | --- | --- |
| `Ownership!GenerationNeverResets` | a rebind after aborted stops computes the old id's counter from its Live era, and the counter falls behind generations it granted | as an invariant of `OwnershipMoves.cfg` with three operations |
| `Ownership!LiveOwnerCanBeFenced` | after an aborted stop the Live era has the prior generation and the counter stays bumped; `fence_unconfirmed_live` (`lib.rs:2961`) compares the two and refuses, and the exit watcher (`codex.rs:9791`) discards the refusal | as an invariant of `OwnershipClaims.cfg` |
| `Ownership!NoHandoffInsideWindow` | the acknowledged start over a cleared fence enters a handoff inside another caller's attach window | as an invariant of `OwnershipWindows.cfg` |
| `CreateDedupe!NewerAttemptKept`, with restores | a finished restore create clears a newer attempt's sentinel (`create_gate.rs:260`), against the rule of `create_dedupe.rs:450` | as a property of `DedupeMixed.cfg` |
| `CreateDedupe!ResendSpawnsNothing` | a resend with the other restore flag replaces the settled entry of a running terminal; when it fails, the original frame sent again spawns a second terminal | as an invariant of `DedupeMixed.cfg` |
| `SessionLease!OneWriter` | a sidecar signalled to die may still start its CLI late, or leave it behind (`claude.rs:2299` releases the lease without confirming the death) | as an invariant of `LeaseCoordinated.cfg` |
| `SessionLease!OneRunningTree` | without the coordinator, two trees run after a late failure | `Coordinated = FALSE` in `LeaseStaleExit.cfg` |
| `SessionLease!BindingFollowsSession`, `DeadSessionsAreEvicted` | a session torn down at a refused commit keeps its binding; a consumer that read the end before its session was registered evicts nothing | as properties, with `FairSpec` and without symmetry |
| `TreeReap!NoForeignSignal`, `ConfirmedMeansDead`, without their `calm` | a pid reused between the scan and the reading of its start time is recorded, and signalled, as a member; a member forked after the last scan, or reparented and unreadable, survives a "dead" | the formula without its premise |
| `SoulRecovery!ClaimEndsWithRow` | `record_native_session` (`registry.rs:1048`) does not look at the row's state: a late launch takes the claim for a row already verified empty, nothing gives it back, and a later replacement meets `NativeIdentityConflict` | as an invariant of `SoulRecovery.cfg` |

Met while modelling, without a formula. In the delivery: a retention gap queued
ahead of frames that are evicted later is sent *after* their overflow gap, for
overflow gaps leave first (`connection_writer.rs:512` promises sequence order);
an attach of a client without paced replay to an exited terminal replays from
the front of the ring with no gap; an expired window past the target, with an
exit staged before the settle, leaves only a gap outstanding, which no pane
credits. In the supervisor: a container created but not started at a crash is
probed as an old runtime that is not empty, for ever; a stop that could not be
confirmed leaves a live worker in a `stopping` row, which `mark_recovery_live`
refuses; a replacement left `starting` by a crash cannot be reattached;
`prepare_replacement` refused by a concurrent launch leaves `recovering`; a
host that Docker booted again, with no worker, is taken for a reattached one,
since the probe does not compare its boot id; the launch of a stopped soul
leaves a `prepared` row active.

Three comments are out of date: `service.rs:58-60` says that a stop does not
take the lifecycle lock, so that it can preempt a recovery, but `stop` takes it
(`service.rs:1486-1487`): a stop waits until the recovery under way has ended,
and `BeginStop` follows the code; `main.rs:1468-1471` says a ticket's fail
releases a stale-start fence, which `fail` never does; the handoff's clear logs
"Vacant" where the record keeps a cleared fence.

Hazards of `PROJECT.json` without a property are either these (the property is
known to be false, and its formula is above) or belong to the handoff runner,
the terminal registry's retained claims and the client's fold, which are in the
plan.

## 5. Proofs

Everything below is proved for all values of the constants that satisfy the
assumptions named at the end, by induction over the steps, with one lemma per
action or group of actions. Where a definition recurs (the walk along forwards,
the queue's evictions) it is a recursive function, and what it computes is shown
by a least counterexample: `LeastNumber`, that a non-empty set of naturals has a
least member, rests on the library's well-foundedness of the naturals.

### `OwnershipProofs`

Any sets of ids, operations, windows; any bound of boots.

- `TypeCorrect`: `Spec => []TypeOK`, one lemma per group of methods.
- `ForwardingEnds`: `Spec => [](NoAliasCycle /\ AliasTargetExists)`. A forward
  is only ever written over a record that is not forwarding, onto a key that
  has a record and is not led back by; the step lemmas separate steps that
  leave forwards alone, steps that add one, and the placeholder's.
- `GenerationsAreUnique`: `Spec => []GenerationNamesOneOperation`. Not
  inductive alone: `TicketsBounded` says that the key of every
  ticket has a record and that, unless the record forwards to another key, the
  ticket's generation is at most the record's counter. A grant is made only on a
  key that does not forward and only at a generation above its counter, so the
  new ticket's generation differs from every earlier one of its key.

### `OwnershipHistoryProofs`

What a key's past can do to it. Every step of the registry is first reduced to
what it does to one record (`Change`: the record is kept, forwarded, claimed,
interrupted by a stop, goes Live, resumes, closes or appears); the lemma
`CallChanges` goes through the methods once, and the invariants below are
preserved because each kind of change preserves them.

- `WitnessesAreNeverInherited`: `Spec => []NoInheritedWitness`. A start is
  claimed with the registrations cleared, keeps its own, and takes them along
  when it moves; `ClaimIsCurrent` (a claimed record is in the generation of its
  claim) makes "its own" mean the one operation.
- `OneOwnerPerGeneration`: `Spec => []GenerationNamesOneOwner`. Not inductive:
  nothing in it stops an aborted stop from bringing back an era that another
  owner has used since. `EraBook` orders the eras of a key: none is above the
  published generation, a claim is above all of them, and a Live owner, or the
  owner a stop would restore, is the latest of them and on the books. So a new
  era has a generation that no earlier one had, and a restored one is the same
  era again.
- `StaleRequestsTakeNothing`: `Spec => []StaleRequestTakesNothing`. By
  `EraBook`, a fence that is not stale saw every era of the key when it was
  granted; by `TicketsBounded`, an era that begins later is not below the
  grant's generation.
- `WindowsAreBalanced`: `Spec => []GuardsBalanced`. The hard step is
  `rekey_starting`, which moves the record away from under its key's guards.
  `WindowBook` says that a fresh-agent start has no window; that needs
  `KindBook`, that the record's kind is the kind of its operation's ticket,
  since only a terminal's start may be claimed from inside a window. The
  counter is a cardinality: the proof uses the finiteness of the armed set.
- `AttachWindowsExclude`: the action property `AttachWindowExcludes`. Every
  granting method but the acknowledged one looks at the window counter, and by
  `WindowBook` the counter is the number of guards out: a grant made at zero is
  made with no guard out, and a start from inside a window names one that is
  open (`KeptOut`).
- `IdsResolve`: `Spec => []Resolved`. `resolve_canonical` takes at most as many
  turns as there are ids. `NoAliasCycle` speaks of sets that are closed under
  forwarding; from there to a loop that ends is a pigeonhole argument: a walk
  that is forwarded at every turn visits more positions than there are ids, so
  two of its positions are the same id, and the ids from one to the other
  forward among themselves. The ids must be finitely many (`KeysAssumption`), as
  those of a running server are.
- `ForwardingIsExtended`: the action property `ForwardingOnlyExtends`. Within a
  boot a forward is never taken back nor turned elsewhere, so the chain of an id
  stays and only its end may move on; by `Resolved`, before and after the step,
  both ends exist.
- `RuntimesHaveOneKey`: `Spec => []RuntimeHasOneKey`. Not inductive: a handoff's
  target is on no record's books until it commits, or fails and is fenced.
  `RuntimeBook` counts it: `Runtimes(k)` are the runtimes a record names and the
  one its operation may yet spawn; those of two keys are disjoint, and all are
  names that some ticket or era has used, so a fresh operation's is another's
  nowhere. Every step shrinks these sets, adds a fresh runtime to one key, hands
  a key's runtime to another key, or replaces it under another key. The stop that
  the watchdog makes of a stale start names the start's own runtime only because
  of `NoInheritedWitness`.

### `CreateDedupeProofs`

Any sets of frames, ids, connections; any flags. `DedupeInvariant` is the
inductive invariant: `TypeOK`; `Owned`, every sentinel belongs to a job that
stands where it will settle or clear, and an interactive job past `admitted`
has captured exactly that sentinel; `AllPlaced`; `QueueOK`, queued jobs are
queued once; `WaitersHeld`. From it `DedupeTypeCorrect`, `SentinelsAreOwned`
and `PromisesAreHeld`. The step lemmas reduce every action to one of three
facts: no new sentinel, no promise lost, one job moved.

`ShutdownsLeaveNothing` is about the terminals that creates spawn around and
after the sweep. Which create reaps such a terminal is not fixed: a resend may
adopt it and reap it in the place of the create that made it. `SweptInv`
therefore says that there is *some* one-to-one assignment (`ReapedBy`) of a
returning create of the same request id to every row. A spawn adds its own
create, an ending create takes its row with it or hands it on; when every create
has ended, no row is left to assign.

### `CreateDedupeOnce`

Where no frame carries the restore flag (with it, `ResendSpawnsNothing` fails):
`OneTerminalPerRequest` and `SettledEntriesStand`. The invariant `OnceInv` says
that a create holds its own sentinel until it settles; that a running terminal
is *named* by its request id's entry, as the settled one or as the attempt
about to settle; and that what `begin` or `settle` probed has its spawn behind
it, so that a probe's "dead" stays true. The last part is why acting on a stale
probe is safe, and why the re-check of the entry is enough. `NewerAttemptsKept`
(the action property `NewerAttemptKept`) follows from the same invariant:
whatever ends a sentinel is a step of the create that holds it.

### `SoulRecoveryProofs`

Any set of launchers; any bounds of incarnations, boots and crashes. `Types`,
`OneWriterHolds`, `EmptyStaysEmptyHolds`, `ReplacedIsEmptyHolds`,
`WriterHoldsClaimHolds`, `StopWinsHolds`, `InputReachesOneWorkerHolds`,
`RecoveryHasAnOwnerHolds` and the action property `BlankOnlyIfUntouchedHolds`
all follow from `Invariant`, `Spec => []IInv`.

No promise of the recovery is inductive alone, because a launcher may stand
anywhere in an activation, or a read before its record, while the keeper stops,
replaces and restarts around it. The argument is about rows. A row is *spent*
(`Spent`) when it is stopping, stopped or failed and its container is empty or
has booted since the boot its grant was committed for. A grant is accepted by a
host only for the boot it names, and committed only for a row that is created
or starting: nobody can start a worker in a spent row, and a spent row stays
spent. Then

- every row but the newest is spent (`OldRowsSpent`): a new row is inserted
  only when no row is active, and a row stops being active only through a
  verdict of "empty". Two workers would both be in the newest row: `OneWriter`;
- a verdict of "empty" is only written over a spent row (`StopOK`,
  `ReplaceOK`): `EmptyStaysEmpty`;
- after the stop intent no row is committed to run (`Halted`): `StopWins`;
- a row that replaces another rests on a prior row verified empty, and one that
  resumes a session holds the claim, until it is spent itself (`Lines`):
  `ReplacedIsEmpty`, `WriterHoldsClaim`;
- `Grants` says that a grant a task has still to send is the one on record for
  its row's boot; `InputOK` ties the journal to what was sent; `PlanOK` says
  which goal the keeper has at each step, and is what `RecoveryHasAnOwner`
  needs.

The steps are proved in four groups: steps of the keeper that leave rows and
containers alone, steps of an activation (which keep `RowMoves`: one row, one
container and one task change), steps on the keeper's target, and new rows
(`NewRow`). `NewestIsMax` and `PickedIsLast` say what the choice of the prior
incarnation returns.

### `SessionLeaseProofs`

Any set of attempts, under the coordinator (`Coordinated`). Two invariants.
`LeaseInv`: the fence probe only releases a start that has recorded its child,
so before that the coordinator's claim admits one attempt alone (`EarlyOK`).
This keeps every lease in order whatever probes and panics do: its holder has
recorded its child or is about to (`LeaseOK`), and a rival releases a lease only
over the victim it condemned (`RivalOK`). From it
`DroppedLeaseRecoversHolds` and the action property `LeaseEndsHolds`. `Orderly`,
as long as no probe has released a start and where no CLI outlives its sidecar
(`~Detaches`): the claim covers the whole create (`StartOK`), and every tree
that runs is found by the next create, as the session the index resolves to, by
the claim of the kill under way, or by the lease it was left (`TreeOK`). From it
`OneTreeHolds` and `OwnedHolds`. Both hypotheses are needed: `LeaseStaleExit`
is what a probe does to the live session, and section 4 names what a CLI that
stays behind does.

### `TreeReapProofs`

Any sets of processes and pids, any number of rounds. `Types` and the action
property `SignalsReachTheirAimHolds`, with no premise on the tree. What a pidfd
refers to holds the pid it was opened for or is gone for good (`PinOK`), because
an incarnation is started once; pids of running processes are distinct, so the
start time verified through the pid is the start time of what is pinned, or
what is pinned is dead and gets nothing. `FirstIsOne` says that the least of
some pids is one of them.

`NoForeignSignalHolds` and `ConfirmedMeansDeadHolds` are about a tree that stands
still until its capture (`calm`). `CalmInv` has a part for either side of that
moment. Before it (`Capturing`), every process of the tree runs and is in every
set that holds the root and is closed under living children (`ByRoot`), so a scan
that comes past one knows it (`OwnedIsKnown`), and none is lost between scan and
observation. After it (`Sweeping`), every member that runs is in the record with
its pid and start time (`RecordComplete`), and nothing foreign is in the record,
so every aim is a member; later rounds find no newcomers. The two theorems are
the two halves of "complete, and nothing foreign". That the tree stands still is
the hypothesis of the properties themselves, and what the reap promises without
it is `SignalsReachTheirAim`.

### `TerminalDeliveryProofs`

Any length of output, ring, page, queue and number of attachments, with pages
smaller than the queue (`DeliveryAssumption`). Four theorems rest on one
invariant, `DeliveryInv`, of six parts.

- `DeliveryTyped`: `Spec => []TypeOK`, from `Typed`. Types here are bounds: no
  page, gap, credit or cursor ever exceeds what the terminal printed.
- `Servers` says who serves the pane's current attachment: a paced session, else
  its drain, else the terminal itself. `Fresh` says that an attachment on its
  way is newer than everything the server has in use, and that nothing was yet
  received or credited for it. Superseded sessions and drains may still be under
  way, and these two keep them apart from the current one.
- `StreamIsKept`: `Spec => StreamKept`, that `TerminalDelivery` implements
  `StreamView`. What is needed is `Stretched`: what the pane was sent and what
  is still on its way (`Covered`) is one stretch without holes, from the base of
  the attachment to `Through`, where whoever serves it stands. The queue's
  lemmas say that an admission changes no coverage: an evicted frame is
  declared, and a joined overflow gap declares only what lies between two
  positions the queue carried, which by `Stretched` are covered. Then every
  action extends the stretch by the next positions, begins or ends an
  attachment, or stutters, as `StreamView` does.
- `DrainsFit`: `Spec => DrainNeverSpills`, from `RoomForPage`: a drain that has
  been let through to read still has room for its page. Nobody takes it away: a
  reservation counts the pages already promised, the terminal and the session
  leave a deferred attachment to its drain, and a superseded drain sinks
  nothing.
- `OnePageIsOut`: `Spec => []ReplayBounded`, from `Paged`: the frames of the
  session in the queue, on the wire and in the pane's inbox are in order
  (`InOrder`), all of them belong to the page that ends at the session's
  `pageEnd`, and no credit of that end is out while one of them is unread
  (`PageOut`). So a credit that `validate_credit` accepts finds the last page
  consumed.

Assumptions on constants: `NoneAssumption`, `NoRecordAssumption` (`None` is no
member of the sets it stands beside), `MaxEpochAssumption`,
`DedupeAssumption`, `BoundsAssumption`, `LeaseAssumption`,
`NoLeaseAssumption`, `ReapAssumption`, `KeysAssumption` (the ids are finitely
many), `DeliveryAssumption` (the sizes are positive, a page is smaller than the
queue); and, as hypotheses of the theorems that
need them, `Coordinated`, `~Detaches` and no restore flag in
`CreateDedupeOnce`.

Every safety property of the passing runs is proved, three of them where no
frame carries the restore flag, as their run has it. Only model-checked:
liveness (`WaitersAnswered`, `ReapEnds`, `SessionEnds`), which is beyond the
prover, and that each mutant breaks its property. The violations of section 4
are counterexamples and need no proof. What a theorem says, it says of the
model: the abstractions of section 2 limit it as they limit the runs.

## 6. Plan, and what is not modelled

Next, in this order; each module comes with its runs, then its proofs.

1. `SessionLanes`: `OwnershipRegistry` with real processes, lanes, exit
   watchers, retained claims, watchdog and fence probe between their awaits;
   kill in two steps. Abstract specification `SingleWriter` (a session is
   written by at most one process), shown to be implemented under confirmed
   deaths.
2. `SessionHandoff`: the runner's sequence over `SessionLanes`, with every
   failure exit; it ends, under fair tasks, in Live, Vacant or Fenced.
3. `OwnerFold`: server broadcasts, replays and the client's fold.
4. `PaneLedger`, `SessionHostJournal`, the supervisor's notice outbox; the
   trackers last.

Of the proofs, liveness is out of reach; what is wanted next is a statement
across modules: that the holder of a session's lease is the owner the registry
records, and with it one writer per session, which `SessionLanes` is to make.

Not modelled, and why. The codex and opencode lanes use the same lease, reap
and registry as the claude lane, around other provider protocols; their calls
of the registry are among those of the most general caller in `Ownership`. Of
the supervisor: certified loss and its cleanup, checkpoints, notices,
admission, settings, several inputs and clients' intent revisions. Of the
delivery: several terminals on one connection, the closes of a stalled one, the
metadata limit. Provider clients, indexers, platform probes and user interfaces
are I/O and parsing around external programs; protocol crates hold message
types only. `PROJECT.json` lists every component with its status.
