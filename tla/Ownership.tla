----------------------------- MODULE Ownership -----------------------------
(***************************************************************************)
(* The ownership registry under the most general callers: every lane,      *)
(* handoff, watcher, sweep and client of the server may call any method at *)
(* any time, late, twice or never, with any ticket, Live era or            *)
(* observation it ever held.  `granted` and `lived` remember those; the    *)
(* calls that carry one quantify over them.                                *)
(***************************************************************************)
EXTENDS OwnershipRegistry

CONSTANT MaxEpoch    \* bound: boots of the server in one behaviour

ASSUME MaxEpochAssumption == MaxEpoch \in Nat \ {0}

VARIABLES
    granted,   \* every ticket this boot handed out
    lived,     \* every Live era of every key in this boot
    guards     \* attach guards in callers' hands

vars == <<reg, epoch, dropped, granted, lived, guards>>

-----------------------------------------------------------------------------
Verbs == {"start", "handoff", "stop"}

(* What the winner of a begin holds until its operation ends; with it, the *)
(* fence the begin was decided under and the attach window it came from.   *)
Tickets == [key : Keys, op : Ops, gen : Nat, verb : Verbs, kind : Kinds,
            obs : Fences \cup {None}, window : Windows \cup {None}]

LiveEras == [key : Keys, owner : Owners, gen : Nat]

Guards == [key : Keys, window : Windows]

TypeOK ==
    /\ RegistryTypeOK
    /\ granted \subseteq Tickets
    /\ lived \subseteq LiveEras
    /\ guards \subseteq Guards

(* The runtime that the ticket's operation spawns and commits.             *)
SpawnedBy(t) == [kind |-> t.kind, rt |-> t.op, op |-> t.op]

(* Operation ids are UUIDs: a new operation has one nobody used.           *)
FreshOp(op) ==
    /\ \A t \in granted : t.op # op
    /\ \A e \in lived : e.owner.op # op

FreshWindow(w) == \A g \in guards : g.window # w

(* What a client may have read of a key: any generation up to its counter, *)
(* in this boot or, if its page outlived a restart, in an earlier one.     *)
Observations(k) ==
    [epoch : 1 .. epoch, gen : 0 .. RecordOf(k).generation]

EraFence(e) == [epoch |-> epoch, gen |-> e.gen]

(* The two descriptions of an owner a request may carry: its kind, or its  *)
(* kind and its runtime.                                                   *)
Descriptions(owner) ==
    [kind : {owner.kind}, rt : {None, owner.rt}]

LiveNow ==
    {[key |-> k, owner |-> reg[k].state.owner, gen |-> reg[k].state.gen] :
        k \in {j \in Keys : Is(j, "Live")}}

Grant(k, op, verb, kind, obs, w) ==
    granted' = granted \cup
        {[key |-> k, op |-> op, gen |-> reg'[k].generation, verb |-> verb,
          kind |-> kind, obs |-> obs, window |-> w]}

-----------------------------------------------------------------------------
Init ==
    /\ RegistryInit
    /\ granted = {}
    /\ lived = {}
    /\ guards = {}

(* A start, from outside or from inside the caller's own attach window.    *)
Start ==
    \E k \in Keys, kind \in Kinds, op \in Ops :
      \E obs \in Observations(k) \cup {None},
         w \in {g.window : g \in guards} \cup {None} :
        /\ FreshOp(op)
        /\ w # None => kind = "terminal"
        /\ BeginStart(k, kind, op, obs, w)
        /\ Grant(k, op, "start", kind, obs, w)
        /\ UNCHANGED guards

Handoff ==
    \E k \in Keys, to \in Kinds, op \in Ops :
      \E obs \in Observations(k) \cup {None} :
        /\ FreshOp(op)
        /\ BeginHandoff(k, to, op, obs)
        /\ Grant(k, op, "handoff", to, obs, None)
        /\ UNCHANGED guards

AcknowledgedHandoff ==
    \E k \in Keys, to \in Kinds, op \in Ops : \E obs \in Observations(k) :
        /\ FreshOp(op)
        /\ BeginHandoffAcknowledged(k, to, op, obs)
        /\ Grant(k, op, "handoff", to, obs, None)
        /\ UNCHANGED guards

Stop ==
    \E k \in Keys, op \in Ops, e \in lived :
      \E expected \in Descriptions(e.owner) :
        /\ FreshOp(op)
        /\ BeginStop(k, op, EraFence(e), expected)
        /\ Grant(k, op, "stop", expected.kind, EraFence(e), None)
        /\ UNCHANGED guards

Attach ==
    \E k \in Keys, w \in Windows :
        /\ FreshWindow(w)
        /\ \/ \E gen \in 0 .. RecordOf(k).generation :
                 BeginAttachGuard(k, w, gen)
           \/ BeginAttachGuard(k, w, None)
           \/ \E e \in lived : \E expected \in Descriptions(e.owner) :
                 BeginAdoptGuard(k, w, EraFence(e), expected)
        /\ guards' = guards \cup {[key |-> k, window |-> w]}
        /\ UNCHANGED granted

Detach ==
    \E g \in guards :
        /\ ReleaseWindow(g.key, g.window)
        /\ guards' = guards \ {g}
        /\ UNCHANGED granted

-----------------------------------------------------------------------------
(* Calls that carry a ticket.                                              *)

Commit ==
    \E t \in granted :
        /\ t.verb \in {"start", "handoff"}
        /\ \/ CommitLive(t.key, t.op, t.gen, SpawnedBy(t))
           \/ \E to \in Keys :
                CommitLiveRekey(t.key, to, t.op, t.gen, SpawnedBy(t))
        /\ UNCHANGED <<granted, guards>>

(* The ticket follows the record to its new key (rekey_session_id).        *)
RekeyStart ==
    \E t \in granted, to \in Keys :
        /\ t.kind = "fresh-agent"
        /\ RekeyStarting(t.key, to, t.op, t.gen)
        /\ granted' = granted \cup {[t EXCEPT !.key = to, !.obs = None, !.window = None]}
        /\ UNCHANGED guards

(* A rebind claims the new id, then moves the terminal that is Live under  *)
(* the old one; the terminal keeps running.                                *)
Rebind ==
    \E t \in granted, old \in Keys, e \in lived :
        /\ t.verb = "start"
        /\ t.kind = "terminal"
        /\ CommitLiveRekeyFromTerminal(t.key, old, t.op, t.gen, e.owner.rt,
               [kind |-> "terminal", rt |-> e.owner.rt, op |-> t.op])
        /\ UNCHANGED <<granted, guards>>

Fail ==
    \E t \in granted :
        /\ \/ t.verb = "start" /\ FailStart(t.key, t.op, t.gen)
           \/ /\ t.verb = "handoff"
              /\ \E alive \in BOOLEAN : FailHandoff(t.key, t.op, t.gen, alive)
           \/ t.verb = "stop" /\ CommitStop(t.key, t.op, t.gen)
           \/ t.verb = "stop" /\ AbortStop(t.key, t.op, t.gen)
        /\ UNCHANGED <<granted, guards>>

(* The runtime whose death a fencing handoff could not confirm: its own    *)
(* target, or (None) the prior it captured.                                *)
Unconfirmed(t) == {None, [owner |-> SpawnedBy(t), gen |-> t.gen]}

Fence ==
    /\ \/ \E t \in granted :
            \E reason \in {"WatcherFailed", "PlatformLimited"} :
              \/ /\ t.verb = "handoff"
                 /\ \E u \in Unconfirmed(t) :
                      FenceUnconfirmedHandoff(t.key, t.op, t.gen, reason, u)
              \/ t.verb = "stop" /\ FenceUnconfirmedStop(t.key, t.op, t.gen,
                                                         reason)
       \/ \E e \in lived :
            \E reason \in {"WatcherFailed", "PlatformLimited"} :
              FenceUnconfirmedLive(e.key, e.gen, e.owner, reason)
    /\ UNCHANGED <<granted, guards>>

(* A fence's operation confirms the runtime dead after all; the operation  *)
(* is a ticket's, or the one that committed the owner found dying.         *)
Confirm ==
    /\ \/ \E t \in granted : ReleaseFenced(t.key, t.op, t.gen)
       \/ \E e \in lived : ReleaseFenced(e.key, e.owner.op, e.gen)
    /\ UNCHANGED <<granted, guards>>

Clear ==
    /\ \E k \in Keys : \E obs \in Observations(k) :
         ForceReleasePlatformLimited(k, obs)
    /\ UNCHANGED <<granted, guards>>

(* Exit watchers, and the kill-before-release paths of the lanes.          *)
Exit ==
    /\ \/ \E e \in lived : Release(e.key, e.owner, e.gen)
       \/ \E e \in lived :
            ForceReleaseForConfirmedKill(e.key, e.owner.op, e.gen, e.owner)
       \/ \E t \in granted :
            \E owner \in {None} \cup {e.owner : e \in lived} :
              ForceReleaseForConfirmedKill(t.key, t.op, t.gen, owner)
    /\ UNCHANGED <<granted, guards>>

-----------------------------------------------------------------------------
(* Keys that move without a ticket.                                        *)

MoveLive ==
    \E e \in lived, to \in Keys, op \in Ops :
        /\ FreshOp(op)
        /\ e.owner.kind = "fresh-agent"
        /\ RekeyLive(e.key, to, e.owner.rt,
                     [kind |-> "fresh-agent", rt |-> op, op |-> op])
        /\ UNCHANGED <<granted, guards>>

AliasPlaceholder ==
    /\ \E k, to \in Keys : AliasVacantKey(k, to)
    /\ UNCHANGED <<granted, guards>>

-----------------------------------------------------------------------------
(* Witnesses, the watchdog, the process.                                   *)

Register ==
    /\ \E t \in granted :
         \/ /\ t.verb = "start"
            /\ \/ RegisterStartCancellation(t.key, t.op, t.gen)
               \/ RegisterPartialRuntime(t.key, t.op, t.gen, SpawnedBy(t))
         \/ t.verb = "stop" /\ RegisterStopSettlement(t.key, t.op, t.gen)
    /\ UNCHANGED <<granted, guards>>

Registered(op) ==
    \E k \in Keys : HasRecord(k) /\ op \in {reg[k].settle, reg[k].stopSettled}

Settle ==
    /\ \E op \in Ops : Registered(op) /\ DropSettlementGuard(op)
    /\ UNCHANGED <<granted, guards>>

(* A stop the watchdog made of a stale start: nobody else holds it, and    *)
(* the watchdog ends it before its next sweep.                             *)
Recovering(k) == Is(k, "Stopping") /\ reg[k].state.priorGen = None

Sweep ==
    /\ \/ \E k \in Keys : RecoverStaleStart(k)
       \/ /\ \A j \in Keys : ~Recovering(j)
          /\ \E k \in Keys : RecoverStaleStopping(k)
    /\ UNCHANGED <<granted, guards>>

(* The recovered start ends: confirmed dead (its registered settlement     *)
(* resolved and its partial runtime is gone), or fenced.                   *)
RecoverStart ==
    /\ \E k \in Keys :
         /\ Recovering(k)
         /\ LET s == reg[k].state
            IN  \/ reg[k].settle # None /\ CommitStop(k, s.op, s.gen)
                \/ FenceUnconfirmedStop(k, s.op, s.gen, "StaleStart")
    /\ UNCHANGED <<granted, guards>>

(* The registry is in memory: a new boot starts empty, under a new epoch.  *)
Restart ==
    /\ epoch < MaxEpoch
    /\ epoch' = epoch + 1
    /\ reg' = [k \in Keys |-> None]
    /\ dropped' = {} /\ granted' = {} /\ lived' = {} /\ guards' = {}

Call ==
    \/ Start \/ Handoff \/ AcknowledgedHandoff \/ Stop \/ Attach \/ Detach
    \/ Commit \/ RekeyStart \/ Rebind \/ Fail \/ Fence \/ Confirm \/ Clear
    \/ Exit \/ MoveLive \/ AliasPlaceholder \/ Register \/ Settle \/ Sweep
    \/ RecoverStart

Next == (Call /\ lived' = lived \cup LiveNow') \/ Restart

Spec == Init /\ [][Next]_vars

-----------------------------------------------------------------------------
(* Safety.                                                                 *)

(* A generation of a key belongs to one operation, so a ticket that names  *)
(* it cannot end another operation's claim: lib.rs calls staleness         *)
(* "identity-of-generation".                                               *)
GenerationNamesOneOperation ==
    \A a, b \in granted : a.key = b.key /\ a.gen = b.gen => a.op = b.op

(* A generation of a key was Live with one owner only, so an exit          *)
(* watcher's or a stop's claim cannot match a later runtime.               *)
GenerationNamesOneOwner ==
    \A a, b \in lived : a.key = b.key /\ a.gen = b.gen => a.owner = b.owner

(* A request cannot take a key whose ownership moved on after the moment   *)
(* the request was decided: no era it did not see was Live between its     *)
(* fence and its grant, and its fence is of this boot.                     *)
StaleRequestTakesNothing ==
    \A t \in granted : t.obs # None =>
        /\ t.obs.epoch = epoch
        /\ \A e \in lived :
             ~(e.key = t.key /\ t.obs.gen < e.gen /\ e.gen < t.gen)

(* The runtimes that a key's state names as running or unconfirmed.        *)
NamedRuntimes(k) ==
    CASE Is(k, "Starting") -> {reg[k].state.op}
      [] Is(k, "Live") -> {reg[k].state.owner.rt}
      [] Is(k, "Handoff") \/ Is(k, "Fenced") ->
           IF reg[k].state.prior = None THEN {}
                                        ELSE {reg[k].state.prior.owner.rt}
      [] Is(k, "Stopping") ->
           IF reg[k].state.owner = None THEN {} ELSE {reg[k].state.owner.rt}
      [] OTHER -> {}

(* A runtime is accounted for under one session id: the moves of a session *)
(* to a new id never leave "the interval where both keys name the writer". *)
RuntimeHasOneKey ==
    \A j, k \in Keys : j # k => NamedRuntimes(j) \cap NamedRuntimes(k) = {}

(* Forwarding records form no cycle: in any set of keys one does not       *)
(* forward into the set, so resolve_canonical ends at a session.           *)
NoAliasCycle ==
    \A S \in (SUBSET Keys) \ {{}} :
        \E k \in S : ~(Is(k, "Aliased") /\ AliasTarget(k) \in S)

(* Each forwarding record forwards to a key that has a record.             *)
AliasTargetExists ==
    \A k \in Keys : Is(k, "Aliased") => HasRecord(AliasTarget(k))

(* The window counter and the armed list of a record agree with the guards *)
(* that callers still hold, whatever became of the owner meanwhile.        *)
GuardsBalanced ==
    \A k \in Keys :
        LET held == {g.window : g \in {h \in guards : h.key = k}}
        IN  /\ RecordOf(k).inFlight = Cardinality(held)
            /\ RecordOf(k).armed = held

(* A start the watchdog may cancel and reap carries only what its own      *)
(* operation registered, not the witnesses of a start before it.           *)
NoInheritedWitness ==
    \A k \in Keys : Is(k, "Starting") =>
        /\ reg[k].settle \in {None, reg[k].state.op}
        /\ reg[k].partial # None => reg[k].partial.rt = reg[k].state.op

-----------------------------------------------------------------------------
(* Action properties.                                                      *)

(* While an attach guard is out on a key nobody is granted the key, except *)
(* a start from inside one of the key's own windows (ext r12 F2, r32 F1);  *)
(* a fenced key is the exception, see NoHandoffInsideWindow.               *)
AttachWindowExcludes ==
    [][\A t \in granted' \ granted :
          (~Is(t.key, "Fenced") /\ \E g \in guards : g.key = t.key) =>
              [key |-> t.key, window |-> t.window] \in guards]_vars

(* Where an id leads only moves on: a step can forward the key an id led   *)
(* to, never strand the id or lead it elsewhere.                           *)
ForwardingOnlyExtends ==
    [][epoch' = epoch =>
          \A k, c \in Keys :
              Is(k, "Aliased") /\ c = CanonicalKey(k) =>
                  CanonicalKey(k)' = CanonicalKey(c)']_vars

-----------------------------------------------------------------------------
(* What the comments say and the code does not.                            *)

(* "generation is per-key monotonic and never resets" (lib.rs:20): the     *)
(* counter of a key never falls behind a generation it granted.            *)
GenerationNeverResets ==
    \A t \in granted : t.gen <= RecordOf(t.key).generation

(* "the handoff CANNOT begin and commit inside the attach's [...] window"  *)
(* (lib.rs:1397).                                                          *)
NoHandoffInsideWindow == \A g \in guards : ~Is(g.key, "Handoff")

(* The exit watcher of the Live owner can always fence the key behind a    *)
(* process tree it could not confirm dead (fence_unconfirmed_live).        *)
LiveOwnerCanBeFenced ==
    \A k \in Keys : Is(k, "Live") =>
        ENABLED FenceUnconfirmedLive(k, reg[k].state.gen, reg[k].state.owner,
                                     "WatcherFailed")

=============================================================================
