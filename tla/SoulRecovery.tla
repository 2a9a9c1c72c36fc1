----------------------------- MODULE SoulRecovery -----------------------------
(***************************************************************************)
(* The supervisor's registry of one soul, the containers of its            *)
(* incarnations, and the tasks that launch, stop, recover and feed it.     *)
(*                                                                         *)
(* Stop, recovery and input hold the soul's lifecycle lock: they are one   *)
(* task here, the keeper, with one step per registry transaction, Docker   *)
(* call or host command.  A launch takes no lock: launchers interleave     *)
(* with the keeper and with each other.  A client's probe or read of a     *)
(* worker's output holds no lock either, and records the session the host  *)
(* named.  A crash forgets every task and keeps the registry and the       *)
(* containers.                                                             *)
(*                                                                         *)
(* Rollout is Legacy: a definitive loss of every path is kept as BLOCKED.  *)
(* intent_revision moves only with desired_state, and recovery_attempt_id  *)
(* only under the lock, so neither has a variable of its own.  The soul    *)
(* has one input command.                                                  *)
(***************************************************************************)
EXTENDS Integers, FiniteSets

CONSTANTS
  Launchers,   \* launch requests in flight at once
  MaxIncs,     \* bound: incarnations of the soul
  MaxBoots,    \* bound: boots of one container's session host
  MaxCrashes   \* bound: crashes of the supervisor

ASSUME BoundsAssumption ==
  /\ MaxIncs \in Nat \ {0} /\ MaxBoots \in Nat \ {0} /\ MaxCrashes \in Nat
  /\ "keeper" \notin Launchers

VARIABLES
  soul,        \* the souls row: desired and recovery state, resume evidence
  input,       \* the state of its input command
  rows,        \* the incarnations table, in the order of creation
  claim,       \* the incarnation that holds the writer claim, or 0
  boxes,       \* the container of each incarnation: its host and worker
  sent,        \* how many times a worker received the input
  at,          \* where each task stands in activate_prepared, or elsewhere
  plan,        \* what the keeper is doing, and to which incarnation
  up,          \* the supervisor: "down", "scanning", "serving"
  crashes,
  interrupted  \* a recovery was cut off between two of its transactions

vars == <<soul, input, rows, claim, boxes, sent, at, plan, up, crashes,
          interrupted>>
registry == <<soul, input, rows, claim>>
world == <<boxes, sent>>

Incs == 1..MaxIncs
Tasks == Launchers \cup {"keeper"}
ActiveStates == {"prepared", "created", "starting", "running", "stopping"}

Row(state, prior, resume) ==
  [state |-> state, prior |-> prior, owned |-> FALSE, resume |-> resume,
   empty |-> FALSE, boot |-> 0]
NoRow == Row("none", 0, FALSE)
NoBox == [state |-> "none", boot |-> 0, granted |-> FALSE, worker |-> "none",
          longLived |-> FALSE]
At(pc, i) == [pc |-> pc, inc |-> i, boot |-> 0]
Idle == At("idle", 0)
NoPlan == [goal |-> "none", target |-> 0, resume |-> FALSE, empty |-> FALSE]

Made == {i \in Incs : rows[i].state # "none"}
Active(i) == rows[i].state \in ActiveStates
SomeActive == \E i \in Incs : Active(i)
Newest(S) == CHOOSE i \in S : \A j \in S : j <= i
\* Mutant: the rows are taken in the order of creation.
ActiveFirstOldest(S) == CHOOSE i \in S : \A j \in S : i <= j

ActiveFirst(S) ==
  LET A == {i \in S : Active(i)} IN Newest(IF A # {} THEN A ELSE S)

\* The rows whose container is on record.
Owned == {i \in Made : rows[i].owned}
Wanted == soul.desired = "running"
\* Mutant: only an input that was answered counts as dispatched.
NeverAnswered ==
  /\ input \notin {"completed", "ambiguous"}
  /\ soul.evidence = "none"

NeverDispatched ==
  /\ input \notin {"dispatching", "completed", "ambiguous"}
  /\ soul.evidence = "none"

Off(box) == IF box.state = "created" THEN box
            ELSE [box EXCEPT !.state = "exited", !.worker = "none", !.granted = FALSE]
IsEmpty(box) == box.state \in {"none", "exited"}

\* An incarnation is still free for the keeper's replacement.
Spare(n) ==
  Cardinality(Made) + n + (IF plan.goal = "replace" THEN 1 ELSE 0) <= MaxIncs

Keeper == at["keeper"]
KeeperFree == up = "serving" /\ Keeper.pc = "idle"
To(pc) == at' = [at EXCEPT !["keeper"].pc = pc]
Drop == at' = [at EXCEPT !["keeper"] = Idle] /\ plan' = NoPlan

\* The first launch may name the session it continues.
Init ==
  /\ \E known \in {"none", "native"} :
       soul = [desired |-> "running", recovery |-> "live", evidence |-> known]
  /\ input = "none"
  /\ rows = [i \in Incs |-> NoRow]
  /\ claim = 0
  /\ boxes = [i \in Incs |-> NoBox]
  /\ sent = 0
  /\ at = [t \in Tasks |-> Idle]
  /\ plan = NoPlan
  /\ up = "serving"
  /\ crashes = 0
  /\ interrupted = FALSE

-----------------------------------------------------------------------------
(* Launching: prepare_launch, then activate_prepared. *)

\* A new row; the claim is inserted when the native session is known.
Insert(i, prior, resume, known) ==
  /\ known => claim = 0
  /\ rows' = [rows EXCEPT ![i] = Row("prepared", prior, resume)]
  /\ claim' = IF known THEN i ELSE claim

LaunchNew(t) ==
  /\ up = "serving" /\ at[t].pc = "idle"
  /\ ~SomeActive
  /\ Spare(1)
  /\ Insert(Cardinality(Made) + 1, 0, FALSE, soul.evidence # "none")
  /\ at' = [at EXCEPT ![t] = At("prepared", Cardinality(Made) + 1)]
  /\ UNCHANGED <<soul, input, world, plan, up, crashes, interrupted>>

\* The same request again: activation goes on from the state on record, and
\* a running incarnation is adopted if its host answers.
LaunchAgain(t, i) ==
  /\ up = "serving" /\ at[t].pc = "idle"
  /\ rows[i].prior = 0
  /\ rows[i].state \in {"prepared", "created", "starting", "running"}
  /\ rows[i].state = "running" => boxes[i].state = "running"
  /\ at' = [at EXCEPT ![t] = At(CASE rows[i].state = "starting" -> "started"
                                   [] rows[i].state = "running" -> "ran"
                                   [] OTHER -> rows[i].state, i)]
  /\ UNCHANGED <<registry, world, plan, up, crashes, interrupted>>

Step(t, pc) == at' = [at EXCEPT ![t].pc = pc]

\* create_stopped and commit_created.
Register(t) ==
  LET i == at[t].inc IN
  /\ at[t].pc = "prepared"
  /\ rows[i].state = "prepared" /\ Wanted
  /\ rows' = [rows EXCEPT ![i].state = "created", ![i].owned = TRUE]
  /\ boxes' = [boxes EXCEPT ![i].state = "created"]
  /\ Step(t, "created")
  /\ UNCHANGED <<soul, input, claim, sent, plan, up, crashes, interrupted>>

Boot(box) == [state |-> "running", boot |-> box.boot + 1, granted |-> FALSE,
              worker |-> "none", longLived |-> box.longLived]

StartHost(t) ==
  LET i == at[t].inc IN
  /\ at[t].pc = "created"
  /\ boxes[i].state \in {"created", "exited", "running"}
  /\ boxes[i].state # "running" => boxes[i].boot < MaxBoots
  /\ boxes' = IF boxes[i].state = "running" THEN boxes
              ELSE [boxes EXCEPT ![i] = Boot(@)]
  /\ Step(t, "started")
  /\ UNCHANGED <<registry, sent, plan, up, crashes, interrupted>>

Authenticate(t) ==
  LET i == at[t].inc IN
  /\ at[t].pc = "started"
  /\ boxes[i].state = "running"
  /\ at' = [at EXCEPT ![t] = [pc |-> "met", inc |-> i, boot |-> boxes[i].boot]]
  /\ UNCHANGED <<registry, world, plan, up, crashes, interrupted>>

\* Mutant: a grant is given without looking at the row's state.
CommitGrantBlind(t) ==
  LET i == at[t].inc IN
  /\ at[t].pc = "met"
  /\ rows' = [rows EXCEPT ![i].boot = at[t].boot]
  /\ Step(t, "granted")
  /\ UNCHANGED <<soul, input, claim, world, plan, up, crashes, interrupted>>

\* A grant is bound to the boot it was first committed for.
CommitGrant(t) ==
  LET i == at[t].inc IN
  /\ at[t].pc = "met"
  /\ \/ rows[i].state = "starting" /\ rows[i].boot = at[t].boot /\ UNCHANGED rows
     \/ /\ rows[i].state = "created" /\ Wanted
        /\ rows' = [rows EXCEPT ![i].state = "starting", ![i].boot = at[t].boot]
  /\ Step(t, "granted")
  /\ UNCHANGED <<soul, input, claim, world, plan, up, crashes, interrupted>>

EnableLongLived(t) ==
  /\ at[t].pc = "granted"
  /\ boxes' = [boxes EXCEPT ![at[t].inc].longLived = TRUE]
  /\ Step(t, "armed")
  /\ UNCHANGED <<registry, sent, plan, up, crashes, interrupted>>

\* grant_execution in the host: one worker per boot, for the boot's own
\* grant.  The answer may be lost.
SendGrant(t) ==
  LET i == at[t].inc IN
  /\ at[t].pc = "armed"
  /\ boxes[i].state = "running" /\ boxes[i].boot = at[t].boot
  /\ \/ boxes[i].granted /\ boxes[i].worker # "none" /\ UNCHANGED boxes
     \/ /\ ~boxes[i].granted
        /\ boxes' = [boxes EXCEPT ![i].granted = TRUE, ![i].worker = "running"]
  /\ at' = [at EXCEPT ![t] = At("sent", i)]
  /\ UNCHANGED <<registry, sent, plan, up, crashes, interrupted>>

\* The host has the grant on record before it spawns: when the spawn fails,
\* the grant is used up, and the task's step fails.
SpawnFails(t) ==
  LET i == at[t].inc IN
  /\ at[t].pc = "armed"
  /\ boxes[i].state = "running" /\ boxes[i].boot = at[t].boot
  /\ ~boxes[i].granted
  /\ boxes' = [boxes EXCEPT ![i].granted = TRUE]
  /\ UNCHANGED <<registry, sent, at, plan, up, crashes, interrupted>>

MarkRunning(t) ==
  LET i == at[t].inc IN
  /\ at[t].pc = "sent"
  /\ rows[i].state = "starting" /\ Wanted
  /\ rows' = [rows EXCEPT ![i].state = "running"]
  /\ Step(t, "ran")
  /\ UNCHANGED <<soul, input, claim, world, plan, up, crashes, interrupted>>

\* Mutant: the last incarnation to report a native session takes the claim.
LearnAnyway(i) ==
  /\ claim' = i
  /\ soul' = [soul EXCEPT !.evidence = IF @ = "none" THEN "native" ELSE @]

\* record_native_session, which another incarnation's claim refuses.
Learn(i) ==
  /\ claim \in {0, i}
  /\ claim' = i
  /\ soul' = [soul EXCEPT !.evidence = IF @ = "none" THEN "native" ELSE @]

\* The host's answer to the grant may name the native session.
Launched(t) ==
  /\ at[t].pc = "ran"
  /\ Learn(at[t].inc) \/ UNCHANGED <<soul, claim>>
  /\ at' = [at EXCEPT ![t] = IF t = "keeper" THEN [@ EXCEPT !.pc = "confirm"]
                             ELSE Idle]
  /\ UNCHANGED <<input, rows, world, plan, up, crashes, interrupted>>

Activating == {"prepared", "created", "started", "met", "granted", "armed",
               "sent", "ran"}

\* Mutant: a recovery whose activation fails just returns the error.
ActivationFailsQuietly(t) ==
  /\ at[t].pc \in Activating
  /\ at' = [at EXCEPT ![t] = Idle]
  /\ plan' = IF t # "keeper" THEN plan ELSE NoPlan
  /\ UNCHANGED <<registry, world, up, crashes, interrupted>>

\* Any step of an activation may fail or be refused.  Only a recovery
\* cleans up after itself; a host may have spawned the worker all the same.
ActivationFails(t) ==
  /\ at[t].pc \in Activating
  /\ at' = [at EXCEPT ![t] =
              IF t # "keeper" THEN Idle
              ELSE [@ EXCEPT !.pc = IF rows[at[t].inc].owned THEN "stop" ELSE "block"]]
  /\ plan' = IF t # "keeper" THEN plan
             ELSE [plan EXCEPT !.goal = "cleanup", !.target = at[t].inc]
  /\ UNCHANGED <<registry, world, up, crashes, interrupted>>

-----------------------------------------------------------------------------
(* Recovery: recover, replace and what they call, under the lock. *)

Unhealthy(i) ==
  \/ boxes[i].state \in {"none", "exited"}
  \/ boxes[i].state = "running" /\ boxes[i].worker = "exited"

\* A client asks for a recovery.
Recover ==
  /\ KeeperFree /\ Made # {}
  /\ To("retire")
  /\ UNCHANGED <<registry, world, plan, up, crashes, interrupted>>

\* The observer asks for one, for a live soul only.
Observe ==
  /\ KeeperFree /\ Wanted /\ soul.recovery = "live"
  /\ \E i \in Incs : rows[i].state = "running" /\ Unhealthy(i)
  /\ To("retire")
  /\ UNCHANGED <<registry, world, plan, up, crashes, interrupted>>

\* The client's last word on an exhausted retry schedule.
GiveUp ==
  /\ Keeper.pc = "probe" /\ up = "serving"
  /\ To("block")
  /\ UNCHANGED <<registry, world, plan, up, crashes, interrupted>>

\* retire_unowned_prepared_replacement.
Retire ==
  LET P == {i \in Made : rows[i].state = "prepared" /\ rows[i].prior # 0} IN
  /\ Keeper.pc = "retire"
  /\ IF P = {} THEN UNCHANGED <<soul, rows, claim>>
     ELSE /\ rows' = [rows EXCEPT ![Newest(P)].state = "failed"]
          /\ claim' = IF claim = Newest(P) THEN 0 ELSE claim
          /\ soul' = [soul EXCEPT !.recovery =
                        IF @ = "recovering" THEN "blocked" ELSE @]
  /\ To("probe")
  /\ UNCHANGED <<input, world, plan, up, crashes, interrupted>>

\* What the probe may answer: STOP_INTENT ends the attempt, an inspection,
\* a host or a store that cannot be read blocks it.
ProbeStopped ==
  /\ Keeper.pc = "probe" /\ ~Wanted
  /\ Drop
  /\ UNCHANGED <<registry, world, up, crashes, interrupted>>

Path(resume) == plan' = [NoPlan EXCEPT !.resume = resume]

\* The container is gone, or its host does not answer and a resume
\* specification is on record.
ProbeOffline ==
  /\ Keeper.pc = "probe" /\ Wanted /\ Owned # {}
  /\ \/ IsEmpty(boxes[ActiveFirst(Owned)])
     \/ boxes[ActiveFirst(Owned)].state = "running" /\ soul.evidence = "spec"
  /\ IF soul.evidence = "spec" \/ NeverDispatched
     THEN To("begin") /\ Path(soul.evidence = "spec")
     ELSE To("block") /\ UNCHANGED plan
  /\ UNCHANGED <<registry, world, up, crashes, interrupted>>

\* The host answers: it may name the native session, and its store may
\* verify it.  With a live worker the soul is reattached.
ProbeHost ==
  LET i == ActiveFirst(Owned) IN
  /\ Keeper.pc = "probe" /\ Wanted /\ Owned # {}
  /\ boxes[i].state = "running"
  /\ \/ UNCHANGED <<soul, claim>>
     \/ boxes[i].worker # "none" /\ Learn(i)
     \/ /\ boxes[i].worker # "none" /\ claim \in {0, i}
        /\ claim' = i /\ soul' = [soul EXCEPT !.evidence = "spec"]
  /\ \/ /\ boxes[i].worker # "exited"
        /\ at' = [at EXCEPT !["keeper"] = At("reattach", i)]
        /\ UNCHANGED plan
     \/ /\ boxes[i].worker = "exited"
        /\ IF soul'.evidence = "spec" \/ NeverDispatched
           THEN To("begin") /\ Path(soul'.evidence = "spec")
           ELSE To("block") /\ UNCHANGED plan
  /\ UNCHANGED <<input, rows, world, up, crashes, interrupted>>

ProbeBlocked ==
  /\ Keeper.pc = "probe" /\ Wanted /\ Owned # {}
  /\ To("block")
  /\ UNCHANGED <<registry, world, plan, up, crashes, interrupted>>

\* mark_recovery_live.
Reattach ==
  /\ Keeper.pc = "reattach"
  /\ soul' = IF rows[Keeper.inc].state = "running" /\ Wanted
             THEN [soul EXCEPT !.recovery = "live"] ELSE soul
  /\ Drop
  /\ UNCHANGED <<input, rows, claim, world, up, crashes, interrupted>>

\* Mutant: an input cut off is given a state begin_input does not know.
UnsettledUnknown == IF input = "dispatching" THEN "lost" ELSE input

Unsettled == IF input = "dispatching" THEN "ambiguous" ELSE input

\* begin_recovery: refused while an attempt is on record; the prior
\* incarnation is chosen afresh.
Begin ==
  LET i == ActiveFirst(Owned) IN
  /\ Keeper.pc = "begin"
  /\ IF soul.recovery = "recovering"
     THEN Drop /\ UNCHANGED <<soul, input, rows>>
     ELSE /\ Spare(1)
          /\ soul' = [soul EXCEPT !.recovery = "recovering"]
          /\ rows' = IF rows[i].state \in {"created", "starting", "running"}
                     THEN [rows EXCEPT ![i].state = "stopping", ![i].empty = FALSE]
                     ELSE rows
          /\ input' = Unsettled
          /\ plan' = [plan EXCEPT !.goal = "replace", !.target = i]
          /\ To("stop")
  /\ UNCHANGED <<claim, world, up, crashes, interrupted>>

\* The window of successful recoveries is used up.
BudgetSpent ==
  /\ Keeper.pc = "begin" /\ soul.recovery # "recovering"
  /\ soul' = [soul EXCEPT !.recovery = "blocked"]
  /\ Drop
  /\ UNCHANGED <<input, rows, claim, world, up, crashes, interrupted>>

\* Mutant: a stop that was asked for is taken for a stop that was verified.
StopBoxUnverified ==
  LET i == plan.target IN
  /\ Keeper.pc = "stop"
  /\ boxes' \in {boxes, [boxes EXCEPT ![i] = Off(@)]}
  /\ plan' = [plan EXCEPT !.empty = TRUE]
  /\ To("mark")
  /\ UNCHANGED <<registry, sent, up, crashes, interrupted>>

\* Host stop, docker stop and kill, then the verdict on the container: it
\* may be empty and still not be known to be.
StopBox ==
  LET i == plan.target IN
  /\ Keeper.pc = "stop"
  /\ boxes' \in {boxes, [boxes EXCEPT ![i] = Off(@)]}
  /\ \E known \in BOOLEAN :
       /\ known => IsEmpty(boxes'[i])
       /\ plan' = [plan EXCEPT !.empty = known]
  /\ To("mark")
  /\ UNCHANGED <<registry, sent, up, crashes, interrupted>>

\* mark_stop_outcome.
MarkOutcome ==
  LET i == plan.target IN
  /\ Keeper.pc = "mark"
  /\ rows' = [rows EXCEPT ![i].state = IF plan.empty THEN "stopped" ELSE "stopping",
                          ![i].empty = plan.empty]
  /\ claim' = IF plan.empty /\ claim = i THEN 0 ELSE claim
  /\ soul' = IF plan.empty /\ ~Wanted THEN [soul EXCEPT !.recovery = "stopped"]
             ELSE soul
  /\ IF plan.goal = "stop" THEN Drop
     ELSE /\ To(IF plan.goal = "replace" /\ plan.empty THEN "prepare" ELSE "block")
          /\ UNCHANGED plan
  /\ UNCHANGED <<input, world, up, crashes, interrupted>>

\* prepare_replacement: only over a prior incarnation verified empty, and
\* with no other one active.
Prepare ==
  LET n == Cardinality(Made) + 1 IN
  /\ Keeper.pc = "prepare"
  /\ Wanted
  /\ rows[plan.target].state = "stopped" /\ rows[plan.target].empty
  /\ ~SomeActive
  /\ Insert(n, plan.target, plan.resume, plan.resume)
  /\ at' = [at EXCEPT !["keeper"] = At("prepared", n)]
  /\ plan' = [plan EXCEPT !.goal = "activate"]
  /\ UNCHANGED <<soul, input, world, up, crashes, interrupted>>

\* The replacement must resume the session it was given.
Confirm ==
  /\ Keeper.pc = "confirm"
  /\ \/ To("replay") /\ UNCHANGED plan
     \/ /\ plan.resume
        /\ To("stop")
        /\ plan' = [plan EXCEPT !.goal = "cleanup", !.target = Keeper.inc]
  /\ UNCHANGED <<registry, world, up, crashes, interrupted>>

\* replay_queued_inputs: what was queued and never dispatched.
Replay ==
  /\ Keeper.pc = "replay"
  /\ IF rows[Keeper.inc].state # "running" THEN To("block") /\ UNCHANGED input
     ELSE IF input = "queued" THEN To("send") /\ input' = "dispatching"
     ELSE To("succeed") /\ UNCHANGED input
  /\ UNCHANGED <<soul, rows, claim, world, plan, up, crashes, interrupted>>

\* mark_recovery_success.
Succeed ==
  /\ Keeper.pc = "succeed"
  /\ Wanted /\ rows[Keeper.inc].state = "running"
  /\ soul' = [soul EXCEPT !.recovery = "live"]
  /\ Drop
  /\ UNCHANGED <<input, rows, claim, world, up, crashes, interrupted>>

\* mark_recovery_blocked.
Block ==
  /\ Keeper.pc = "block"
  /\ soul' = IF Wanted THEN [soul EXCEPT !.recovery = "blocked"] ELSE soul
  /\ Drop
  /\ UNCHANGED <<input, rows, claim, world, up, crashes, interrupted>>

\* A registry or host error ends the task where it stands.
KeeperFails ==
  /\ Keeper.pc \in {"retire", "probe", "reattach", "begin", "mark", "prepare",
                    "confirm", "replay", "succeed", "block", "dispatch", "acked",
                    "lost"}
  /\ Drop
  /\ interrupted' = (interrupted \/ soul.recovery = "recovering")
  /\ UNCHANGED <<registry, world, up, crashes>>

-----------------------------------------------------------------------------
(* Stop and input, under the same lock. *)

\* Mutant: only a running incarnation is marked; one still starting is not.
BeginStopRunning ==
  LET i == ActiveFirst(Made) IN
  /\ KeeperFree /\ Made # {}
  /\ soul' = IF Wanted THEN [soul EXCEPT !.desired = "stopped", !.recovery = "stopped"]
             ELSE soul
  /\ rows' = IF rows[i].state # "running" THEN rows
             ELSE [rows EXCEPT ![i].state = "stopping", ![i].empty = FALSE]
  /\ input' = Unsettled
  /\ IF rows[i].owned
     THEN To("stop") /\ plan' = [NoPlan EXCEPT !.goal = "stop", !.target = i]
     ELSE UNCHANGED <<at, plan>>
  /\ UNCHANGED <<claim, world, up, crashes, interrupted>>

\* begin_stop: the intent is on record before anything is signalled.
BeginStop ==
  LET i == ActiveFirst(Made) IN
  /\ KeeperFree /\ Made # {}
  /\ soul' = IF Wanted THEN [soul EXCEPT !.desired = "stopped", !.recovery = "stopped"]
             ELSE soul
  /\ rows' = IF rows[i].state \in {"stopped", "failed"} THEN rows
             ELSE [rows EXCEPT ![i].state = "stopping", ![i].empty = FALSE]
  /\ input' = Unsettled
  /\ IF rows[i].owned
     THEN To("stop") /\ plan' = [NoPlan EXCEPT !.goal = "stop", !.target = i]
     ELSE UNCHANGED <<at, plan>>
  /\ UNCHANGED <<claim, world, up, crashes, interrupted>>

\* begin_input journals the command before anything reaches the host.
BeginInput ==
  LET R == {i \in Incs : rows[i].state = "running"} IN
  /\ KeeperFree /\ Wanted /\ soul.recovery = "live" /\ R # {}
  /\ input \in {"none", "queued"}
  /\ input' = "queued"
  /\ at' = [at EXCEPT !["keeper"] = At("dispatch", Newest(R))]
  /\ UNCHANGED <<soul, rows, claim, world, plan, up, crashes, interrupted>>

\* Mutant: the command stays queued in the journal while it is sent.
MarkDispatchingLate ==
  /\ Keeper.pc = "dispatch"
  /\ To("send")
  /\ UNCHANGED <<registry, world, plan, up, crashes, interrupted>>

MarkDispatching ==
  /\ Keeper.pc = "dispatch"
  /\ input' = "dispatching"
  /\ To("send")
  /\ UNCHANGED <<soul, rows, claim, world, plan, up, crashes, interrupted>>

\* The worker takes the input; the answer comes back, or is lost.
Deliver ==
  LET i == Keeper.inc IN
  /\ Keeper.pc = "send"
  /\ boxes[i].state = "running" /\ boxes[i].worker = "running"
  /\ sent' = sent + 1
  /\ To("acked") \/ To("lost")
  /\ UNCHANGED <<registry, boxes, plan, up, crashes, interrupted>>

DeliveryFails ==
  /\ Keeper.pc = "send"
  /\ To("lost")
  /\ UNCHANGED <<registry, world, plan, up, crashes, interrupted>>

\* mark_input_completed or mark_input_ambiguous.  A replay goes on with the
\* recovery, or blocks it.
Settle ==
  /\ Keeper.pc \in {"acked", "lost"}
  /\ input' = IF Keeper.pc = "acked" THEN "completed" ELSE "ambiguous"
  /\ IF plan.goal = "none" THEN Drop
     ELSE To(IF Keeper.pc = "acked" THEN "succeed" ELSE "block") /\ UNCHANGED plan
  /\ UNCHANGED <<soul, rows, claim, world, up, crashes, interrupted>>

-----------------------------------------------------------------------------
(* Reads: probe_recovery for a client, terminal_read_output,               *)
(* fresh_agent_read_events.  They take no lock, and record the session     *)
(* their host named in a transaction of their own: a host that was granted *)
(* the execution may have named it to a read that is recorded only now.    *)

RecordRead(i) ==
  /\ up = "serving" /\ rows[i].boot # 0
  /\ Learn(i)
  /\ UNCHANGED <<input, rows, world, at, plan, up, crashes, interrupted>>

\* store_verified_resume_spec, only for the session on record.
StoreRead(i) ==
  /\ up = "serving" /\ rows[i].boot # 0 /\ soul.evidence # "none"
  /\ soul' = [soul EXCEPT !.evidence = "spec"]
  /\ UNCHANGED <<input, rows, claim, world, at, plan, up, crashes, interrupted>>

-----------------------------------------------------------------------------
(* What the containers, and the supervisor itself, may do on their own. *)

WorkerExits(i) ==
  /\ boxes[i].worker = "running"
  /\ boxes' = [boxes EXCEPT ![i].worker = "exited"]
  /\ UNCHANGED <<registry, sent, at, plan, up, crashes, interrupted>>

\* Docker restarts a long-lived host that exits.
HostExits(i) ==
  /\ boxes[i].state = "running"
  /\ boxes' = [boxes EXCEPT ![i] =
                [Off(@) EXCEPT !.state = IF boxes[i].longLived THEN "restarting"
                                         ELSE "exited"]]
  /\ UNCHANGED <<registry, sent, at, plan, up, crashes, interrupted>>

DockerRestarts(i) ==
  /\ boxes[i].state = "restarting" /\ boxes[i].boot < MaxBoots
  /\ boxes' = [boxes EXCEPT ![i] = Boot(@)]
  /\ UNCHANGED <<registry, sent, at, plan, up, crashes, interrupted>>

Crash ==
  /\ up # "down" /\ crashes < MaxCrashes
  /\ crashes' = crashes + 1
  /\ up' = "down"
  /\ at' = [t \in Tasks |-> Idle]
  /\ plan' = NoPlan
  /\ interrupted' = (interrupted \/ soul.recovery = "recovering")
  /\ UNCHANGED <<registry, world>>

\* A restart recovers the soul before it serves.
Restart ==
  /\ up = "down"
  /\ up' = "scanning"
  /\ IF Wanted /\ Made # {} THEN To("retire") ELSE UNCHANGED at
  /\ UNCHANGED <<registry, world, plan, crashes, interrupted>>

\* The startup scan gives each soul a bounded time.
ScanTimesOut ==
  /\ up = "scanning" /\ Keeper.pc # "idle"
  /\ Drop
  /\ interrupted' = (interrupted \/ soul.recovery = "recovering")
  /\ UNCHANGED <<registry, world, up, crashes>>

Serve ==
  /\ up = "scanning" /\ Keeper.pc = "idle"
  /\ up' = "serving"
  /\ UNCHANGED <<registry, world, at, plan, crashes, interrupted>>

-----------------------------------------------------------------------------

Activate(t) ==
  \/ Register(t) \/ StartHost(t) \/ Authenticate(t) \/ CommitGrant(t)
  \/ EnableLongLived(t) \/ SendGrant(t) \/ SpawnFails(t) \/ MarkRunning(t)
  \/ Launched(t) \/ ActivationFails(t)

KeeperStep ==
  \/ Retire \/ ProbeStopped \/ ProbeOffline \/ ProbeHost \/ ProbeBlocked
  \/ Reattach \/ Begin \/ BudgetSpent \/ StopBox \/ MarkOutcome \/ Prepare
  \/ Confirm \/ Replay \/ Succeed \/ Block \/ MarkDispatching \/ Deliver
  \/ DeliveryFails \/ Settle \/ KeeperFails \/ Activate("keeper")

Next ==
  \/ \E t \in Launchers : LaunchNew(t) \/ Activate(t)
  \/ \E t \in Launchers, i \in Incs : LaunchAgain(t, i)
  \/ Recover \/ Observe \/ GiveUp \/ KeeperStep
  \/ BeginStop \/ BeginInput
  \/ \E i \in Incs : RecordRead(i) \/ StoreRead(i)
  \/ \E i \in Incs : WorkerExits(i) \/ HostExits(i) \/ DockerRestarts(i)
  \/ Crash \/ Restart \/ ScanTimesOut \/ Serve

Spec == Init /\ [][Next]_vars

\* A task that is running goes on, the observer runs, a supervisor that is
\* down is restarted; a client's recovery keeps being asked for.
FairSpec ==
  /\ Spec
  /\ WF_vars(KeeperStep) /\ WF_vars(Observe) /\ WF_vars(Recover)
  /\ WF_vars(Restart) /\ WF_vars(Serve)

\* And errors pass: a recovery that is asked for again and again is probed
\* and begun again and again.
PatientSpec ==
  /\ FairSpec
  /\ SF_vars(Retire) /\ SF_vars(ProbeOffline \/ ProbeHost) /\ SF_vars(Begin)
-----------------------------------------------------------------------------
(* Correctness. *)

Pcs == Activating \cup
  {"idle", "retire", "probe", "reattach", "begin", "stop", "mark", "prepare",
   "confirm", "replay", "succeed", "block", "dispatch", "send", "acked", "lost"}

TypeOK ==
  /\ soul \in [desired : {"running", "stopped"},
                recovery : {"live", "recovering", "blocked", "stopped"},
                evidence : {"none", "native", "spec"}]
  /\ input \in {"none", "queued", "dispatching", "completed", "ambiguous"}
  /\ rows \in [Incs -> [state : ActiveStates \cup {"none", "stopped", "failed"},
                        prior : 0..MaxIncs, owned : BOOLEAN, resume : BOOLEAN,
                        empty : BOOLEAN, boot : 0..MaxBoots]]
  /\ claim \in 0..MaxIncs
  /\ boxes \in [Incs -> [state : {"none", "created", "running", "exited", "restarting"},
                         boot : 0..MaxBoots, granted : BOOLEAN,
                         worker : {"none", "running", "exited"},
                         longLived : BOOLEAN]]
  /\ sent \in Nat
  /\ at \in [Tasks -> [pc : Pcs, inc : 0..MaxIncs, boot : 0..MaxBoots]]
  /\ plan \in [goal : {"none", "stop", "replace", "activate", "cleanup"},
               target : 0..MaxIncs, resume : BOOLEAN, empty : BOOLEAN]
  /\ up \in {"down", "scanning", "serving"}
  /\ crashes \in 0..MaxCrashes
  /\ interrupted \in BOOLEAN

Works(i) == boxes[i].worker = "running"

\* At most one worker of the soul runs, whatever launches, recoveries,
\* crashes and Docker restarts overlap: only a grant bound to the boot that
\* was authenticated starts one.
OneWriter == \A i, j \in Incs : Works(i) /\ Works(j) => i = j

\* A container reported verified empty has no worker, and never gets one:
\* neither by a launch that is still under way nor by Docker's restart.
EmptyStaysEmpty == \A i \in Incs : rows[i].empty => ~Works(i)

\* No replacement works before the incarnation it replaces
\* is verified empty, and that verdict is not taken back.
ReplacedIsEmpty ==
  \A i \in Incs : Works(i) /\ rows[i].prior # 0 => rows[rows[i].prior].empty

\* The writer claim is not held by one incarnation, in a host that was
\* granted the execution, while another incarnation writes; and a worker
\* that resumed a session holds the claim on it.
WriterHoldsClaim ==
  \A i \in Incs : Works(i) =>
    /\ claim \in {0, i} \/ ~boxes[claim].granted
    /\ rows[i].resume => claim = i

\* The stop intent wins: a worker of a stopped soul is in a row that is
\* still being stopped, never in one taken for running or for gone.
StopWins == \A i \in Incs : soul.desired = "stopped" /\ Works(i) => rows[i].state = "stopping"

\* The input reaches a worker at most once, across lost answers, crashes,
\* client retries and the replay after a recovery.
InputReachesOneWorker == sent <= 1

\* A soul that was given input is never replaced by a blank one.
BlankOnlyIfUntouched ==
  [][\A i \in Incs : rows[i].state = "none" /\ rows'[i].prior # 0 /\ ~rows'[i].resume
                     => sent = 0]_vars

\* A soul is under recovery only while a task is recovering it: every way
\* out of a recovery that is not cut off leaves a verdict.
RecoveryHasAnOwner ==
  soul.recovery = "recovering" =>
    interrupted \/ plan.goal \in {"replace", "activate", "cleanup"}

\* The claim ends with the row that holds it.  It does not: a launch that
\* records its native session late takes the claim for a row that a
\* recovery has already verified empty, and nothing gives it back.
ClaimEndsWithRow == claim # 0 => Active(claim)

\* What the plan promises: a soul under recovery does not stay there.  A
\* recovery that is cut off leaves its mark, which every later one takes
\* for an attempt still under way.
RecoveryIsAutomatic ==
  soul.recovery = "recovering" ~> soul.recovery # "recovering"
=============================================================================
