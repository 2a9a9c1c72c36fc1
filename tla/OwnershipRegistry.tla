------------------------- MODULE OwnershipRegistry -------------------------
(***************************************************************************)
(* The runtime-ownership registry of freshell                              *)
(* (crates/freshell-ownership/src/lib.rs): one record per session key,     *)
(* saying who may run a writer for that session.  Every method takes the   *)
(* registry's one mutex for its whole body, so each is one atomic action   *)
(* here.  An action is the branch of its method that changes the registry; *)
(* the typed refusals change nothing and are its disabled guard.           *)
(*                                                                         *)
(* Abstractions.  One provider.  A runtime identity (terminal id, live     *)
(* session key, pid) is the name of the operation that spawned the         *)
(* process.  Time is absent: a sweep may find any record over-age.  A      *)
(* settlement flag, an Arc shared by a record and the guard of the         *)
(* operation that registered it, is that operation's name in the record;   *)
(* `dropped` holds the operations whose guard has been dropped.            *)
(***************************************************************************)
EXTENDS Naturals, FiniteSets

CONSTANTS
    Keys,      \* session ids of one provider
    Ops,       \* operation ids: UUIDs, each minted for one operation
    Windows,   \* operation ids of attach guards
    None       \* Rust's Option::None

ASSUME NoneAssumption ==
    /\ None \notin Keys /\ None \notin Ops /\ None \notin Windows

(* The ids a server meets in one boot.                                     *)
ASSUME KeysAssumption == IsFiniteSet(Keys)

VARIABLES
    reg,       \* key -> its record, or None before the first mutation
    epoch,     \* the registry's boot epoch
    dropped    \* operations whose settlement guard has been dropped

registryVars == <<reg, epoch, dropped>>

-----------------------------------------------------------------------------
(* Data.                                                                   *)

Kinds == {"terminal", "fresh-agent"}

(* Why a key is fenced.                                                    *)
FenceReasons == {"WatcherFailed", "PlatformLimited", "ClearedUnverified",
                 "StaleStart", "StaleStop"}

(* rt: the runtime, named by the operation that spawned it; op: the        *)
(* operation that committed this owner (ownership_id).                     *)
Owners == [kind : Kinds, rt : Ops, op : Ops]

(* An owner with the generation it was Live at.                            *)
Eras == [owner : Owners, gen : Nat]

OptOwner == Owners \cup {None}
OptEra   == Eras \cup {None}
OptGen   == Nat \cup {None}

(* The (epoch, generation) pair a request observed when it was decided.    *)
Fences == [epoch : Nat, gen : Nat]

States ==
    [tag : {"Vacant"}]
      \cup [tag : {"Starting"}, kind : Kinds, op : Ops, gen : Nat]
      \cup [tag : {"Live"}, owner : Owners, gen : Nat]
      \cup [tag : {"Handoff"}, prior : OptEra, to : Kinds, op : Ops, gen : Nat]
      \cup [tag : {"Stopping"}, owner : OptOwner, priorGen : OptGen,
            op : Ops, gen : Nat]
      \cup [tag : {"Fenced"}, prior : OptEra, reason : FenceReasons,
            op : Ops, gen : Nat]
      \cup [tag : {"Aliased"}, to : Keys, gen : Nat]

Vacant == [tag |-> "Vacant"]

Records ==
    [generation : Nat, state : States, settle : Ops \cup {None},
     stopSettled : Ops \cup {None}, partial : OptOwner,
     inFlight : Nat, armed : SUBSET Windows]

EmptyRecord ==
    [generation |-> 0, state |-> Vacant, settle |-> None,
     stopSettled |-> None, partial |-> None, inFlight |-> 0, armed |-> {}]

ASSUME NoRecordAssumption == None \notin Records

RegistryTypeOK ==
    /\ reg \in [Keys -> Records \cup {None}]
    /\ epoch \in Nat
    /\ dropped \subseteq Ops

RegistryInit ==
    /\ reg = [k \in Keys |-> None]
    /\ epoch = 1
    /\ dropped = {}

-----------------------------------------------------------------------------
(* Reading a record.                                                       *)

HasRecord(k) == reg[k] # None

Is(k, tag) == HasRecord(k) /\ reg[k].state.tag = tag

(* entry(key).or_default()                                                 *)
RecordOf(k) == IF HasRecord(k) THEN reg[k] ELSE EmptyRecord

(* The generation a snapshot publishes and a fence is compared with.       *)
SnapshotGeneration(r) ==
    IF r.state.tag = "Live" THEN r.state.gen ELSE r.generation

(* Mutant: a fence is compared with the boot only.                         *)
NotStaleEpochOnly(k, obs) == obs # None => obs.epoch = epoch

(* A begin without a fence is never stale; one with a fence must name this *)
(* boot and a generation at least the published one.                       *)
NotStale(k, obs) ==
    obs # None =>
        /\ obs.epoch = epoch
        /\ obs.gen >= SnapshotGeneration(RecordOf(k))

(* The record is in state `tag` for exactly this operation and generation. *)
Holds(k, tag, op, gen) ==
    /\ Is(k, tag)
    /\ reg[k].generation = gen
    /\ reg[k].state.op = op

SetState(k, s) == reg' = [reg EXCEPT ![k].state = s]

StartingState(kind, op, gen) ==
    [tag |-> "Starting", kind |-> kind, op |-> op, gen |-> gen]
LiveState(owner, gen) == [tag |-> "Live", owner |-> owner, gen |-> gen]
HandoffState(prior, to, op, gen) ==
    [tag |-> "Handoff", prior |-> prior, to |-> to, op |-> op, gen |-> gen]
StoppingState(owner, priorGen, op, gen) ==
    [tag |-> "Stopping", owner |-> owner, priorGen |-> priorGen, op |-> op,
     gen |-> gen]
FencedState(prior, reason, op, gen) ==
    [tag |-> "Fenced", prior |-> prior, reason |-> reason, op |-> op,
     gen |-> gen]
AliasedState(to, gen) == [tag |-> "Aliased", to |-> to, gen |-> gen]

-----------------------------------------------------------------------------
(* Begins: the claims.                                                     *)

(* Mutant: the registrations of the start before are left in the record.   *)
BeginStartKeepsWitnesses(k, kind, op, obs, window) ==
    LET r == RecordOf(k)
        gen == r.generation + 1
    IN  /\ NotStale(k, obs)
        /\ r.state.tag = "Vacant"
        /\ r.inFlight = 0 \/ window \in r.armed
        /\ reg' = [reg EXCEPT ![k] =
               [r EXCEPT !.generation = gen,
                         !.state = StartingState(kind, op, gen)]]
        /\ UNCHANGED <<epoch, dropped>>

(* Mutant: the record is rebuilt from the default, its windows forgotten.  *)
BeginStartRebuildsRecord(k, kind, op, obs, window) ==
    LET r == RecordOf(k)
        gen == r.generation + 1
    IN  /\ NotStale(k, obs)
        /\ r.state.tag = "Vacant"
        /\ r.inFlight = 0 \/ window \in r.armed
        /\ reg' = [reg EXCEPT ![k] =
               [EmptyRecord EXCEPT !.generation = gen,
                                   !.state = StartingState(kind, op, gen)]]
        /\ UNCHANGED <<epoch, dropped>>

(* Mutant: a superseded id may be claimed.                                 *)
BeginStartOverAlias(k, kind, op, obs, window) ==
    LET r == RecordOf(k)
        gen == r.generation + 1
    IN  /\ NotStale(k, obs)
        /\ r.state.tag \in {"Vacant", "Aliased"}
        /\ r.inFlight = 0 \/ window \in r.armed
        /\ reg' = [reg EXCEPT ![k] =
               [r EXCEPT !.generation = gen,
                         !.state = StartingState(kind, op, gen)]]
        /\ UNCHANGED <<epoch, dropped>>

(* A Vacant key is claimed with the next generation.  While an attach      *)
(* window is open on it only the window's holder, naming its window, may.  *)
BeginStart(k, kind, op, obs, window) ==
    LET r == RecordOf(k)
        gen == r.generation + 1
    IN  /\ NotStale(k, obs)
        /\ r.state.tag = "Vacant"
        /\ r.inFlight = 0 \/ window \in r.armed
        /\ reg' = [reg EXCEPT ![k] =
               [r EXCEPT !.generation = gen,
                         !.state = StartingState(kind, op, gen),
                         !.settle = None,
                         !.partial = None]]
        /\ UNCHANGED <<epoch, dropped>>

(* What a handoff would take over: the Live owner, nothing, or refused.    *)
HandoffPrior(r) ==
    IF r.state.tag = "Live"
      THEN [owner |-> r.state.owner, gen |-> r.state.gen]
      ELSE None

(* Mutant: the handoff reuses the generation it found.                     *)
EnterHandoffSameGeneration(k, r, prior, to, op) ==
    LET gen == r.generation
    IN  /\ reg' = [reg EXCEPT ![k] =
               [r EXCEPT !.state = HandoffState(prior, to, op, gen)]]
        /\ UNCHANGED <<epoch, dropped>>

EnterHandoff(k, r, prior, to, op) ==
    LET gen == r.generation + 1
    IN  /\ reg' = [reg EXCEPT ![k] =
               [r EXCEPT !.generation = gen,
                         !.state = HandoffState(prior, to, op, gen)]]
        /\ UNCHANGED <<epoch, dropped>>

(* Mutant: the attach windows are not asked.                               *)
BeginHandoffIgnoresWindows(k, to, op, obs) ==
    LET r == RecordOf(k)
    IN  /\ NotStale(k, obs)
        /\ r.state.tag \in {"Vacant", "Live"}
        /\ EnterHandoff(k, r, HandoffPrior(r), to, op)

BeginHandoff(k, to, op, obs) ==
    LET r == RecordOf(k)
    IN  /\ NotStale(k, obs)
        /\ r.state.tag \in {"Vacant", "Live"}
        /\ r.inFlight = 0
        /\ EnterHandoff(k, r, HandoffPrior(r), to, op)

(* The acknowledged start over a cleared-unverified fence: the observation *)
(* must be exact, and the unverified runtime becomes the prior to reap.    *)
BeginHandoffAcknowledged(k, to, op, obs) ==
    /\ Is(k, "Fenced")
    /\ obs = [epoch |-> epoch, gen |-> reg[k].generation]
    /\ reg[k].state.reason = "ClearedUnverified"
    /\ EnterHandoff(k, reg[k], reg[k].state.prior, to, op)

(* A stop names the exact Live era it means to end.                        *)
BeginStop(k, op, obs, expected) ==
    /\ Is(k, "Live")
    /\ reg[k].inFlight = 0
    /\ obs = [epoch |-> epoch, gen |-> reg[k].state.gen]
    /\ expected.kind = reg[k].state.owner.kind
    /\ expected.rt \in {None, reg[k].state.owner.rt}
    /\ LET r == reg[k]
           gen == r.generation + 1
       IN  reg' = [reg EXCEPT ![k] =
               [r EXCEPT !.generation = gen,
                         !.state = StoppingState(r.state.owner, r.state.gen,
                                                 op, gen)]]
    /\ UNCHANGED <<epoch, dropped>>

-----------------------------------------------------------------------------
(* Attach windows.                                                         *)

OpenWindow(k, w) ==
    /\ reg' = [reg EXCEPT ![k].inFlight = @ + 1, ![k].armed = @ \cup {w}]
    /\ UNCHANGED <<epoch, dropped>>

(* The generic window: any Live owner, an optional generation.             *)
BeginAttachGuard(k, w, obsGen) ==
    /\ Is(k, "Live")
    /\ obsGen # None => obsGen >= reg[k].state.gen
    /\ OpenWindow(k, w)

(* The adopt window: the exact observed era and the expected owner.        *)
BeginAdoptGuard(k, w, obs, expected) ==
    /\ Is(k, "Live")
    /\ obs = [epoch |-> epoch, gen |-> reg[k].state.gen]
    /\ expected.kind = reg[k].state.owner.kind
    /\ expected.rt \in {None, reg[k].state.owner.rt}
    /\ OpenWindow(k, w)

(* Dropping the guard closes the window on the key it was armed under.     *)
ReleaseWindow(k, w) ==
    /\ reg' = IF HasRecord(k)
                THEN [reg EXCEPT ![k].inFlight = IF @ = 0 THEN 0 ELSE @ - 1,
                                 ![k].armed = @ \ {w}]
                ELSE reg
    /\ UNCHANGED <<epoch, dropped>>

-----------------------------------------------------------------------------
(* Commits, and the moves of a session to a new key.                       *)

(* The operation's own Starting, or its own Handoff towards this kind.     *)
CommitLive(k, op, gen, owner) ==
    /\ \/ Holds(k, "Starting", op, gen)
       \/ Holds(k, "Handoff", op, gen) /\ reg[k].state.to = owner.kind
    /\ SetState(k, LiveState(owner, gen))
    /\ UNCHANGED <<epoch, dropped>>

(* A start commits under the id its runtime reported; the key it claimed   *)
(* keeps a forwarding record.  A record already under that id refuses it.  *)
CommitLiveRekey(k, to, op, gen, owner) ==
    /\ Holds(k, "Starting", op, gen)
    /\ ~HasRecord(to)
    /\ reg' = [reg EXCEPT
           ![k].state = AliasedState(to, gen),
           ![to] = [EmptyRecord EXCEPT !.generation = gen,
                                       !.state = LiveState(owner, gen)]]
    /\ UNCHANGED <<epoch, dropped>>

(* A start moves to the id just minted: the whole record goes, with every  *)
(* witness it registered, and stays Starting.                              *)
RekeyStarting(k, to, op, gen) ==
    /\ Holds(k, "Starting", op, gen)
    /\ ~HasRecord(to)
    /\ reg' = [reg EXCEPT
           ![k] = [EmptyRecord EXCEPT !.generation = gen,
                                      !.state = AliasedState(to, gen)],
           ![to] = reg[k]]
    /\ UNCHANGED <<epoch, dropped>>

(* A Live session moves to a new id with a replacement runtime; the        *)
(* generation advances on both keys.                                       *)
RekeyLive(k, to, expectedRt, owner) ==
    /\ Is(k, "Live")
    /\ reg[k].state.owner.kind = owner.kind
    /\ reg[k].state.owner.rt = expectedRt
    /\ ~HasRecord(to)
    /\ LET gen == reg[k].generation + 1
       IN  reg' = [reg EXCEPT
               ![k].generation = gen,
               ![k].state = AliasedState(to, gen),
               ![to] = [EmptyRecord EXCEPT !.generation = gen,
                                           !.state = LiveState(owner, gen)]]
    /\ UNCHANGED <<epoch, dropped>>

(* Mutant: the old key stays Live beside the new one.                      *)
CommitLiveRekeyKeepsOld(k, old, op, gen, expectedRt, owner) ==
    /\ Is(k, "Starting")
    /\ reg[k].state.op = op
    /\ reg[k].state.gen = gen
    /\ Is(old, "Live")
    /\ reg[old].state.owner.kind = "terminal"
    /\ reg[old].state.owner.rt = expectedRt
    /\ SetState(k, LiveState(owner, gen))
    /\ UNCHANGED <<epoch, dropped>>

(* The identity rebind: the start claimed on k goes Live with the terminal *)
(* that is Live on old, and old forwards to k.  The forwarding record gets *)
(* the old Live era's generation plus one.                                 *)
CommitLiveRekeyFromTerminal(k, old, op, gen, expectedRt, owner) ==
    /\ Is(k, "Starting")
    /\ reg[k].state.op = op
    /\ reg[k].state.gen = gen
    /\ Is(old, "Live")
    /\ reg[old].state.owner.kind = "terminal"
    /\ reg[old].state.owner.rt = expectedRt
    /\ LET aliased == reg[old].state.gen + 1
       IN  reg' = [reg EXCEPT
               ![k].state = LiveState(owner, gen),
               ![old].generation = aliased,
               ![old].state = AliasedState(k, aliased)]
    /\ UNCHANGED <<epoch, dropped>>

(* Mutant: an existing record is overwritten by the forwarding one.        *)
AliasVacantKeyOverwrites(k, to) ==
    /\ HasRecord(to)
    /\ k # to
    /\ LET gen == reg[to].generation
       IN  reg' = [reg EXCEPT ![k] =
               [EmptyRecord EXCEPT !.generation = gen,
                                   !.state = AliasedState(to, gen)]]
    /\ UNCHANGED <<epoch, dropped>>

(* A placeholder id that never held a record forwards to a real key.       *)
AliasVacantKey(k, to) ==
    /\ ~HasRecord(k)
    /\ HasRecord(to)
    /\ LET gen == reg[to].generation
       IN  reg' = [reg EXCEPT ![k] =
               [EmptyRecord EXCEPT !.generation = gen,
                                   !.state = AliasedState(to, gen)]]
    /\ UNCHANGED <<epoch, dropped>>

-----------------------------------------------------------------------------
(* Ends: failures, stops, releases.                                        *)

FailStart(k, op, gen) ==
    /\ Holds(k, "Starting", op, gen)
    /\ SetState(k, Vacant)
    /\ UNCHANGED <<epoch, dropped>>

(* A failed handoff restores its prior only when the caller confirms it    *)
(* live, and then at the handoff's own generation.                         *)
FailHandoff(k, op, gen, priorConfirmedLive) ==
    /\ Holds(k, "Handoff", op, gen)
    /\ LET prior == reg[k].state.prior
       IN  SetState(k, IF prior # None /\ priorConfirmedLive
                         THEN LiveState(prior.owner, reg[k].generation)
                         ELSE Vacant)
    /\ UNCHANGED <<epoch, dropped>>

CommitStop(k, op, gen) ==
    /\ Holds(k, "Stopping", op, gen)
    /\ SetState(k, Vacant)
    /\ UNCHANGED <<epoch, dropped>>

(* Mutant: the counter is rolled back with the era.                        *)
AbortStopRollsBack(k, op, gen) ==
    /\ Holds(k, "Stopping", op, gen)
    /\ reg[k].state.owner # None
    /\ reg[k].state.priorGen # None
    /\ LET s == reg[k].state
       IN  reg' = [reg EXCEPT
               ![k].generation = s.priorGen,
               ![k].state = LiveState(s.owner, s.priorGen)]
    /\ UNCHANGED <<epoch, dropped>>

(* A stop given up with the runtime alive restores the era it interrupted, *)
(* at that era's own generation; the counter stays where the stop put it.  *)
AbortStop(k, op, gen) ==
    /\ Holds(k, "Stopping", op, gen)
    /\ reg[k].state.owner # None
    /\ reg[k].state.priorGen # None
    /\ SetState(k, LiveState(reg[k].state.owner, reg[k].state.priorGen))
    /\ UNCHANGED <<epoch, dropped>>

(* A watcher's claim names the runtime, the operation that committed it    *)
(* and the generation it went Live at.                                     *)
LiveMatches(k, owner, gen) ==
    /\ Is(k, "Live")
    /\ reg[k].state.owner = owner
    /\ reg[k].state.gen = gen

Release(k, owner, gen) ==
    /\ LiveMatches(k, owner, gen)
    /\ SetState(k, Vacant)
    /\ UNCHANGED <<epoch, dropped>>

(* The lanes' kill-before-release paths: a Live claim that still matches,  *)
(* a stop this operation began on its own runtime, or its own bare start.  *)
ForceReleaseForConfirmedKill(k, op, gen, owner) ==
    /\ \/ LiveMatches(k, owner, gen) /\ owner.op = op
       \/ /\ Holds(k, "Stopping", op, gen)
          /\ \/ owner = None /\ reg[k].state.owner = None
             \/ owner # None /\ reg[k].state.owner = owner /\ owner.op = op
       \/ Holds(k, "Starting", op, gen) /\ owner = None
    /\ SetState(k, Vacant)
    /\ UNCHANGED <<epoch, dropped>>

-----------------------------------------------------------------------------
(* Fences: a key whose last runtime could not be confirmed dead.           *)

(* The unconfirmed runtime is the one the caller names (a target that was  *)
(* never committed), else the prior the handoff captured.                  *)
FenceUnconfirmedHandoff(k, op, gen, reason, unconfirmed) ==
    /\ Holds(k, "Handoff", op, gen)
    /\ LET prior == IF unconfirmed # None THEN unconfirmed
                                          ELSE reg[k].state.prior
       IN  SetState(k, FencedState(prior, reason, op, gen))
    /\ UNCHANGED <<epoch, dropped>>

(* Mutant: a stop without a runtime is fenced as if it had one.            *)
StoppedEraAlways(s, gen) ==
    [owner |-> s.owner,
     gen |-> IF s.priorGen # None THEN s.priorGen
             ELSE IF gen = 0 THEN 0 ELSE gen - 1]

(* unwrap_or(generation.saturating_sub(1)) for a stop without a Live era.  *)
StoppedEra(s, gen) ==
    IF s.owner = None THEN None
    ELSE [owner |-> s.owner,
          gen |-> IF s.priorGen # None THEN s.priorGen
                  ELSE IF gen = 0 THEN 0 ELSE gen - 1]

FenceUnconfirmedStop(k, op, gen, reason) ==
    /\ Holds(k, "Stopping", op, gen)
    /\ SetState(k, FencedState(StoppedEra(reg[k].state, gen), reason, op, gen))
    /\ UNCHANGED <<epoch, dropped>>

(* A natural exit whose process tree is unconfirmed.  The claim's          *)
(* generation is compared with the record's and with the Live era's.       *)
FenceUnconfirmedLive(k, gen, owner, reason) ==
    /\ LiveMatches(k, owner, gen)
    /\ reg[k].generation = gen
    /\ SetState(k, FencedState([owner |-> owner, gen |-> gen], reason,
                               owner.op, gen))
    /\ UNCHANGED <<epoch, dropped>>

(* Only the fencing operation's own confirmation reopens the key.          *)
ReleaseFenced(k, op, gen) ==
    /\ Holds(k, "Fenced", op, gen)
    /\ SetState(k, Vacant)
    /\ UNCHANGED <<epoch, dropped>>

(* The operator's clear of a fence nothing can confirm: still fenced.      *)
ForceReleasePlatformLimited(k, obs) ==
    /\ Is(k, "Fenced")
    /\ obs = [epoch |-> epoch, gen |-> reg[k].generation]
    /\ reg[k].state.reason \in {"PlatformLimited", "StaleStart", "StaleStop"}
    /\ reg' = [reg EXCEPT ![k].state.reason = "ClearedUnverified"]
    /\ UNCHANGED <<epoch, dropped>>

-----------------------------------------------------------------------------
(* Witnesses of a running operation, and the watchdog that reads them.     *)

(* A flag fires when the operation's guard is dropped, whoever holds it.   *)
DropSettlementGuard(op) ==
    /\ op \notin dropped
    /\ dropped' = dropped \cup {op}
    /\ UNCHANGED <<reg, epoch>>

RegisterStartCancellation(k, op, gen) ==
    /\ Is(k, "Starting")
    /\ reg[k].state.op = op
    /\ reg[k].state.gen = gen
    /\ reg' = [reg EXCEPT ![k].settle = op]
    /\ UNCHANGED <<epoch, dropped>>

RegisterPartialRuntime(k, op, gen, owner) ==
    /\ Is(k, "Starting")
    /\ reg[k].state.op = op
    /\ reg[k].state.gen = gen
    /\ reg' = [reg EXCEPT ![k].partial = owner]
    /\ UNCHANGED <<epoch, dropped>>

RegisterStopSettlement(k, op, gen) ==
    /\ Is(k, "Stopping")
    /\ reg[k].state.op = op
    /\ reg[k].state.gen = gen
    /\ reg' = [reg EXCEPT ![k].stopSettled = op]
    /\ UNCHANGED <<epoch, dropped>>

(* A registered flag that has not fired: the operation still runs.         *)
StillRunning(witness) == witness # None /\ witness \notin dropped

(* An over-age start that nothing shows running becomes a stop that only   *)
(* the watchdog can finish.                                                *)
RecoverStaleStart(k) ==
    /\ Is(k, "Starting")
    /\ ~StillRunning(reg[k].settle)
    /\ LET s == reg[k].state
       IN  reg' = [reg EXCEPT
               ![k].state = StoppingState(reg[k].partial, None, s.op, s.gen),
               ![k].partial = None]
    /\ UNCHANGED <<epoch, dropped>>

(* An over-age stop that nothing shows running is fenced.                  *)
RecoverStaleStopping(k) ==
    /\ Is(k, "Stopping")
    /\ ~StillRunning(reg[k].stopSettled)
    /\ LET s == reg[k].state
           prior == IF s.owner = None THEN None
                    ELSE [owner |-> s.owner,
                          gen |-> IF s.priorGen # None THEN s.priorGen
                                                       ELSE s.gen]
       IN  SetState(k, FencedState(prior, "StaleStop", s.op, s.gen))
    /\ UNCHANGED <<epoch, dropped>>

-----------------------------------------------------------------------------
(* Keys that were moved.                                                   *)

AliasTarget(k) == reg[k].state.to

(* resolve_canonical: follow the forwarding records to a key that is not   *)
(* forwarded, at most once through each key.                               *)
CanonicalKey(k) ==
    LET walk[n \in 0 .. Cardinality(Keys)] ==
            IF n = 0 THEN k
            ELSE LET c == walk[n - 1]
                 IN  IF Is(c, "Aliased") THEN AliasTarget(c) ELSE c
    IN  walk[Cardinality(Keys)]

=============================================================================
