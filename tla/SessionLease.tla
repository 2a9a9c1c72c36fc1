---------------------------- MODULE SessionLease ----------------------------
(***************************************************************************)
(* The create/resume lease of one durable session (freshell-freshagent     *)
(* session_lease.rs, its guard in lib.rs) under the creates, exits and     *)
(* kills of the claude lane (claude.rs).                                   *)
(*                                                                         *)
(* An attempt is one create or attach that resumes the session: it is the  *)
(* lease's holder_request_id, its sidecar's ownership tag and the key of   *)
(* the session it registers.  The sidecar starts the CLI, which is the     *)
(* process that writes the transcript.                                     *)
(*                                                                         *)
(* Abstractions.  The coordinator is the single claim it grants (its       *)
(* records are in OwnershipRegistry); a lease expires at any time; what    *)
(* the ledger and the naming do during a create is its freedom to fail.    *)
(***************************************************************************)
EXTENDS Naturals, FiniteSets

CONSTANTS
    Attempts,      \* creates and attaches: the bound of a behaviour
    Coordinated,   \* the lane is wired to the ownership coordinator
    Detaches,      \* a CLI may outlive its sidecar
    Panics,        \* a create's task may panic
    None

ASSUME LeaseAssumption ==
    /\ {Coordinated, Detaches, Panics} \subseteq BOOLEAN
    /\ None \notin Attempts

VARIABLES
    lease,      \* the lease of the session, or None
    binding,    \* the registered session a completed lease is bound to
    pc,         \* attempt -> where its handler is
    victim,     \* attempt -> the expired holder it kills
    armed,      \* attempts whose guard recorded a kill handle
    sessions,   \* attempts whose session is in the lane's map
    consumed,   \* attempts whose consumer has read the end of the output
    index,      \* cli_index: the session the durable id resolves to
    owner,      \* the attempt whose operation has the coordinator's claim
    stamp,      \* the operation whose Live claim the lane has retained
    sidecars,   \* attempts whose sidecar runs
    writers,    \* attempts whose CLI runs
    condemned,  \* attempts whose tree was signalled to die
    probed      \* the fence probe has released a stale start's key

vars == <<lease, binding, pc, victim, armed, sessions, consumed, index,
          owner, stamp, sidecars, writers, condemned, probed>>

maps == <<lease, binding>>
claims == <<owner, stamp>>
processes == <<sidecars, writers, condemned>>

-----------------------------------------------------------------------------
Pcs == {"idle", "claim", "killing", "release", "reclaim", "spawn", "spawned",
        "creating", "registered", "commit", "live", "stopping", "escalating",
        "done"}

Optional(S) == S \cup {None}

Leases == [holder : Attempts, handle : Optional(Attempts),
           expired : BOOLEAN, revoked : BOOLEAN]

ASSUME NoLeaseAssumption == None \notin Leases

TypeOK ==
    /\ lease \in Optional(Leases)
    /\ binding \in Optional(Attempts)
    /\ pc \in [Attempts -> Pcs]
    /\ victim \in [Attempts -> Optional(Attempts)]
    /\ armed \subseteq Attempts /\ sessions \subseteq Attempts
    /\ consumed \subseteq Attempts
    /\ {index, owner, stamp} \subseteq Optional(Attempts)
    /\ sidecars \subseteq Attempts /\ writers \subseteq Attempts
    /\ condemned \subseteq Attempts /\ probed \in BOOLEAN

Init ==
    /\ lease = None /\ binding = None /\ index = None /\ owner = None /\ stamp = None
    /\ pc = [a \in Attempts |-> "idle"]
    /\ victim = [a \in Attempts |-> None]
    /\ armed = {} /\ sessions = {} /\ consumed = {}
    /\ sidecars = {} /\ writers = {} /\ condemned = {} /\ probed = FALSE

GoTo(a, where) == pc' = [pc EXCEPT ![a] = where]

HoldsLease(a) == lease # None /\ lease.holder = a

(* The handler returns; its ticket, if it still counts, is dropped.        *)
End(a) ==
    /\ GoTo(a, "done")
    /\ owner' = IF owner = a THEN None ELSE owner
    /\ UNCHANGED stamp

(* fail: only the holder's own call releases, a revoked lease too.         *)
FailLease(a) == lease' = IF HoldsLease(a) THEN None ELSE lease

(* evict_cli_index_aliases                                                 *)
Unindex(a) == index' = IF index = a THEN None ELSE index

-----------------------------------------------------------------------------
(* A create or an attach.                                                  *)

(* has_live_session: the durable id resolves to a registered session.      *)
HasLive == index \in sessions

(* The coordinator's claim comes first.  A live session is adopted; if the *)
(* coordinator knew of none, the adopter's claim is committed for it.      *)
Begin(a) ==
    /\ pc[a] = "idle"
    /\ \/ /\ ~HasLive /\ (Coordinated => owner = None)
          /\ owner' = IF Coordinated THEN a ELSE None
          /\ GoTo(a, "claim")
          /\ UNCHANGED stamp
       \/ /\ HasLive /\ Coordinated /\ owner = None
          /\ owner' = a /\ stamp' = a
          /\ GoTo(a, "done")
       \/ /\ IF Coordinated THEN owner # None ELSE HasLive
          /\ GoTo(a, "done")
          /\ UNCHANGED claims
    /\ UNCHANGED <<probed, consumed, maps, victim, armed, sessions, index, processes>>

(* claim: the binding first, then the lease, in one lock scope.            *)
Claim(a) ==
    /\ pc[a] \in {"claim", "reclaim"}
    /\ \/ /\ binding = None /\ lease = None
          /\ lease' = [holder |-> a, handle |-> None,
                       expired |-> FALSE, revoked |-> FALSE]
          /\ GoTo(a, "spawn")
          /\ UNCHANGED <<victim, claims>>
       \/ /\ \/ binding # None
             \/ (lease # None /\ (~lease.expired \/ lease.revoked))
          /\ End(a)
          /\ UNCHANGED <<lease, victim>>
       \/ /\ binding = None /\ lease # None
          /\ lease.expired /\ ~lease.revoked
          /\ \/ /\ lease.handle = None
                /\ lease' = [lease EXCEPT !.revoked = TRUE]
                /\ End(a)
                /\ UNCHANGED victim
             \/ /\ lease.handle # None /\ pc[a] = "claim"
                /\ victim' = [victim EXCEPT ![a] = lease.handle]
                /\ GoTo(a, "killing")
                /\ UNCHANGED <<lease, claims>>
             \/ /\ lease.handle # None /\ pc[a] = "reclaim"
                /\ End(a)
                /\ UNCHANGED <<lease, victim>>
    /\ UNCHANGED <<probed, consumed, binding, armed, sessions, index, processes>>

(* Mutant: the lease is released before its holder is dead.                *)
ReleaseUnconfirmed(a) ==
    /\ pc[a] = "killing"
    /\ GoTo(a, "release")
    /\ UNCHANGED <<probed, consumed, maps, victim, armed, sessions, index, claims, processes>>

(* kill_and_confirm_tree_dead of the expired holder's tree.                *)
ConfirmKill(a) ==
    /\ pc[a] = "killing"
    /\ condemned' = condemned \cup {victim[a]}
    /\ \/ /\ sidecars' = sidecars \ {victim[a]}
          /\ writers' = writers \ {victim[a]}
          /\ GoTo(a, "release")
          /\ UNCHANGED claims
       \/ End(a) /\ UNCHANGED <<sidecars, writers>>
    /\ UNCHANGED <<probed, consumed, maps, victim, armed, sessions, index>>

(* force_release_after_confirmed_kill asks nobody whose lease it is.       *)
ForceRelease(a) ==
    /\ pc[a] = "release"
    /\ lease' = None /\ binding' = None
    /\ GoTo(a, "reclaim")
    /\ UNCHANGED <<probed, consumed, victim, armed, sessions, index, claims, processes>>

(* The spawn fails, and nothing runs.                                      *)
SpawnFails(a) ==
    /\ pc[a] = "spawn"
    /\ FailLease(a) /\ End(a)
    /\ UNCHANGED <<probed, consumed, binding, victim, armed, sessions, index, processes>>

Spawn(a) ==
    /\ pc[a] = "spawn"
    /\ sidecars' = sidecars \cup {a}
    /\ GoTo(a, "spawned")
    /\ UNCHANGED <<probed, consumed, maps, victim, armed, sessions, index, claims, writers, condemned>>

SetKillHandle(a) ==
    /\ pc[a] = "spawned"
    /\ lease' = IF HoldsLease(a) THEN [lease EXCEPT !.handle = a] ELSE lease
    /\ armed' = armed \cup {a}
    /\ GoTo(a, "creating")
    /\ UNCHANGED <<probed, consumed, binding, victim, sessions, index, claims, processes>>

(* Mutant: one of the failures releases the lease, its tree runs on.       *)
CreateFailsWithoutTeardown(a) ==
    /\ pc[a] \in {"creating", "registered"}
    /\ sessions' = sessions \ {a}
    /\ Unindex(a)
    /\ FailLease(a) /\ End(a)
    /\ UNCHANGED <<probed, consumed, binding, victim, armed, processes>>

(* Any failure before the lease is complete: the own tree is signalled,    *)
(* the session, if already registered, is removed, the lease is released.  *)
CreateFails(a) ==
    /\ pc[a] \in {"creating", "registered"}
    /\ condemned' = condemned \cup {a}
    /\ sessions' = sessions \ {a}
    /\ Unindex(a)
    /\ FailLease(a) /\ End(a)
    /\ UNCHANGED <<probed, consumed, binding, victim, armed, sidecars, writers>>

Register(a) ==
    /\ pc[a] = "creating"
    /\ index' = a
    /\ sessions' = sessions \cup {a}
    /\ GoTo(a, "registered")
    /\ UNCHANGED <<probed, consumed, maps, victim, armed, claims, processes>>

Keeps(a) == HoldsLease(a) /\ ~lease.revoked

(* complete binds and releases in one lock scope.                          *)
Complete(a) ==
    /\ pc[a] = "registered" /\ Keeps(a)
    /\ lease' = None /\ binding' = a
    /\ GoTo(a, "commit")
    /\ UNCHANGED <<probed, consumed, victim, armed, sessions, index, claims, processes>>

(* A lease lost or revoked meanwhile: the session is torn down.            *)
CompleteRefused(a) ==
    /\ pc[a] = "registered" /\ ~Keeps(a)
    /\ sessions' = sessions \ {a}
    /\ condemned' = condemned \cup {a}
    /\ Unindex(a)
    /\ FailLease(a) /\ End(a)
    /\ UNCHANGED <<probed, consumed, binding, victim, armed, sidecars, writers>>

(* commit_lane_claim_at; if the coordinator moved on, the session is torn  *)
(* down, and the binding is left as it is.                                 *)
Commit(a) ==
    /\ pc[a] = "commit"
    /\ \/ /\ Coordinated => owner = a
          /\ stamp' = IF Coordinated THEN a ELSE None
          /\ GoTo(a, "live")
          /\ UNCHANGED <<sessions, index, owner, condemned>>
       \/ /\ Coordinated /\ owner # a
          /\ sessions' = sessions \ {a}
          /\ condemned' = condemned \cup {a}
          /\ Unindex(a) /\ End(a)
    /\ UNCHANGED <<probed, consumed, maps, victim, armed, sidecars, writers>>

(* Mutant: the guard's drop never releases.                                *)
PanicKeepsLease(a) ==
    /\ Panics
    /\ pc[a] \in {"spawn", "creating", "registered"}
    /\ condemned' = IF a \in sessions THEN condemned ELSE condemned \cup {a}
    /\ End(a)
    /\ UNCHANGED <<probed, consumed, maps, victim, armed, sessions, index, sidecars, writers>>

(* The guard's drop: with a kill handle the lease is kept for the time to  *)
(* live to recover.  A child not yet registered is killed on drop.         *)
Panic(a) ==
    /\ Panics
    /\ pc[a] \in {"spawn", "creating", "registered"}
    /\ IF a \in armed THEN UNCHANGED lease ELSE FailLease(a)
    /\ condemned' = IF a \in sessions THEN condemned ELSE condemned \cup {a}
    /\ End(a)
    /\ UNCHANGED <<probed, consumed, binding, victim, armed, sessions, index, sidecars, writers>>

-----------------------------------------------------------------------------
(* The end of a session.                                                   *)

(* Mutant: the consumer clears the durable id it was started for, whether  *)
(* or not its session is still registered.                                 *)
ConsumerExitUnguarded(a) ==
    /\ pc[a] \in {"live", "done"} /\ a \notin sidecars /\ a \notin consumed
    /\ consumed' = consumed \cup {a}
    /\ sessions' = sessions \ {a}
    /\ index' = None /\ binding' = None
    /\ owner' = IF owner = stamp THEN None ELSE owner
    /\ stamp' = None
    /\ UNCHANGED <<probed, lease, pc, victim, armed, processes>>

(* The consumer reads the end of the sidecar's output: if the session is   *)
(* still registered it is evicted, and the durable id it was found under   *)
(* is unbound and released.                                                *)
ConsumerExit(a) ==
    /\ a \in sessions /\ a \notin sidecars /\ a \notin consumed
    /\ consumed' = consumed \cup {a}
    /\ sessions' = sessions \ {a}
    /\ Unindex(a)
    /\ binding' = IF index = a THEN None ELSE binding
    /\ owner' = IF index = a /\ owner = stamp THEN None ELSE owner
    /\ stamp' = IF index = a THEN None ELSE stamp
    /\ UNCHANGED <<probed, lease, pc, victim, armed, processes>>

(* The consumer is started before its session is registered: if the output *)
(* ends first, it finds nothing to evict, and has gone.                    *)
ConsumerMisses(a) ==
    /\ pc[a] = "creating" /\ a \notin sidecars /\ a \notin consumed
    /\ consumed' = consumed \cup {a}
    /\ UNCHANGED <<probed, maps, pc, victim, armed, sessions, index, claims, processes>>

(* handle_kill, up to its removal of the session.  The stop is granted for *)
(* the Live claim, or the coordinator holds none; a start or another stop  *)
(* in flight refuses it.                                                   *)
KillSession(a) ==
    /\ a \in sessions /\ pc[a] \in {"live", "done"}
    /\ owner # None => owner = stamp
    /\ owner' = IF owner = None THEN None ELSE a
    /\ stamp' = None
    /\ sessions' = sessions \ {a}
    /\ GoTo(a, "stopping")
    /\ UNCHANGED <<probed, consumed, maps, victim, armed, index, processes>>

TreeGone(a) ==
    sidecars' = sidecars \ {a} /\ writers' = writers \ {a} /\ End(a)

(* The teardown confirms the tree's death and the stop is committed; or it *)
(* does not, and the stop is left to a detached escalation.                *)
KillTeardown(a) ==
    /\ pc[a] = "stopping"
    /\ condemned' = condemned \cup {a}
    /\ Unindex(a)
    /\ \/ TreeGone(a)
       \/ GoTo(a, "escalating") /\ UNCHANGED <<claims, sidecars, writers>>
    /\ UNCHANGED <<probed, consumed, maps, victim, armed, sessions>>

Escalated(a) ==
    /\ pc[a] = "escalating"
    /\ TreeGone(a)
    /\ UNCHANGED <<probed, consumed, maps, victim, armed, sessions, index, condemned>>

-----------------------------------------------------------------------------
(* Time, the coordinator's watchdog, and the processes.                    *)

Expire ==
    /\ lease # None /\ ~lease.expired
    /\ lease' = [lease EXCEPT !.expired = TRUE]
    /\ UNCHANGED <<probed, consumed, binding, pc, victim, armed, sessions, index, claims, processes>>

InFlight == {"spawned", "creating", "registered", "commit"}

(* A start held too long is cancelled by a signal to its recorded child.   *)
(* If it does not settle it is fenced, and the fence probe releases the    *)
(* key once that child is gone, the handler being where it may.            *)
SweepStart(a) ==
    /\ Coordinated /\ owner = a /\ a \in armed /\ pc[a] \in InFlight
    /\ \/ condemned' = condemned \cup {a} /\ UNCHANGED <<claims, probed>>
       \/ /\ a \notin sidecars
          /\ owner' = None /\ probed' = TRUE /\ UNCHANGED <<stamp, condemned>>
    /\ UNCHANGED <<consumed, maps, pc, victim, armed, sessions, index, sidecars, writers>>

StartWriter(a) ==
    /\ a \in sidecars /\ a \notin condemned /\ a \notin writers
    /\ writers' = writers \cup {a}
    /\ UNCHANGED <<probed, consumed, maps, pc, victim, armed, sessions, index, claims, sidecars, condemned>>

SidecarDies(a) ==
    /\ a \in sidecars
    /\ sidecars' = sidecars \ {a}
    /\ writers' = IF Detaches THEN writers ELSE writers \ {a}
    /\ UNCHANGED <<probed, consumed, maps, pc, victim, armed, sessions, index, claims, condemned>>

WriterDies(a) ==
    /\ a \in writers
    /\ writers' = writers \ {a}
    /\ UNCHANGED <<probed, consumed, maps, pc, victim, armed, sessions, index, claims, sidecars, condemned>>

-----------------------------------------------------------------------------
Handler(a) ==
    \/ Begin(a) \/ Claim(a) \/ ConfirmKill(a) \/ ForceRelease(a)
    \/ SpawnFails(a) \/ Spawn(a) \/ SetKillHandle(a) \/ CreateFails(a)
    \/ Register(a) \/ Complete(a) \/ CompleteRefused(a) \/ Commit(a)

Next ==
    \/ \E a \in Attempts :
          \/ Handler(a) \/ Panic(a)
          \/ ConsumerExit(a) \/ ConsumerMisses(a) \/ KillSession(a) \/ KillTeardown(a) \/ Escalated(a)
          \/ SweepStart(a) \/ StartWriter(a) \/ SidecarDies(a) \/ WriterDies(a)
    \/ Expire

Spec == Init /\ [][Next]_vars

(* Handlers' awaits are bounded (spawn, create budget, kill rounds), a     *)
(* consumer reads the end of a closed pipe, and a tree that is killed      *)
(* dies.                                                                   *)
FairSpec ==
    /\ Spec
    /\ \A a \in Attempts :
          /\ WF_vars(pc[a] # "idle" /\ Handler(a))
          /\ WF_vars(ConsumerExit(a)) /\ WF_vars(KillTeardown(a))
          /\ WF_vars(a \in condemned /\ SidecarDies(a))

-----------------------------------------------------------------------------
(* Properties.                                                             *)

Running(a) == a \in (sidecars \cup writers) \ condemned

(* "at most ONE in-flight create/resume and at most ONE live bound         *)
(* session" (session_lease.rs): at most one process tree of the session    *)
(* runs that nobody has set out to kill, whatever leases expire, creates   *)
(* fail late and sweeps intervene (claim, complete, force release).        *)
OneRunningTree == \A a, b \in Attempts : Running(a) /\ Running(b) => a = b

(* The same as long as the fence probe has not released a start that was   *)
(* still unwinding.                                                        *)
OneTreeUnlessProbed == ~probed => OneRunningTree

(* A lease ends over its holder's tree only when that tree is bound,       *)
(* condemned or gone (force_release_after_confirmed_kill, fail, complete). *)
LeaseEndsOverNoRunningTree ==
    [][\A h \in Attempts :
          HoldsLease(h) /\ ~HoldsLease(h)' => (Running(h) => binding = h)']_vars

(* "A delayed eviction can never erase a newer owner" (claude.rs, consumer *)
(* exit): while the tree of a live session runs, the coordinator has a     *)
(* claim for it.                                                           *)
LiveSessionIsOwned ==
    \A a \in Attempts :
        pc[a] = "live" /\ Running(a) /\ Coordinated => owner # None

(* The same as long as the fence probe has not released a start that was   *)
(* still unwinding: late exits, kills and failures of older sidecars leave *)
(* the live session's claim alone.                                         *)
OwnedUnlessProbed == ~probed => LiveSessionIsOwned

(* "the transcript tolerates exactly one writer" (session_lease.rs).       *)
OneWriter == \A a, b \in writers : a = b

(* "session exit watchers MUST call this or the durable id stays           *)
(* adopt-only forever" (clear_binding): a binding does not outlive the     *)
(* session it names.                                                       *)
BindingFollowsSession ==
    \A a \in Attempts :
        binding = a /\ a \notin sessions ~> binding # a

(* "Consumer exit == this sidecar's stdout closed == sidecar death. Evict  *)
(* the dead session" (claude.rs): a registered session whose sidecar is    *)
(* gone does not stay registered.                                          *)
DeadSessionsAreEvicted ==
    \A a \in Attempts :
        a \in sessions /\ a \notin sidecars ~> a \notin sessions

(* "the lease stays held (TTL + tree-kill is the recovery path)" (the      *)
(* guard's drop): a lease whose holder is gone can be recovered.           *)
DroppedLeaseRecovers ==
    lease # None /\ pc[lease.holder] = "done" =>
        lease.handle # None /\ ~lease.revoked
=============================================================================
