------------------------- MODULE SessionLeaseProofs -------------------------
(***************************************************************************)
(* Proofs about SessionLease for every set of attempts.                    *)
(*                                                                         *)
(* Under the coordinator at most one attempt is in the early part of its   *)
(* create, where the fence probe cannot release its claim.  That alone     *)
(* keeps every lease in order, whatever probes and panics do: LeaseInv.    *)
(* As long as no probe has released a start, the claim also covers the     *)
(* rest of a create, and every tree that runs is found by the next one:    *)
(* Orderly, where no CLI outlives its sidecar.                             *)
(***************************************************************************)
EXTENDS SessionLease, TLAPS

(* The fence probe only releases an attempt that has recorded its child.   *)
Unspawned == {"idle", "claim", "killing", "release", "reclaim", "spawn"}
Early == (Unspawned \ {"idle"}) \cup {"spawned"}
Starting == Early \cup {"creating", "registered", "commit"}

(* Where the handler of a lease's holder may be.                           *)
Holding == {"spawn", "spawned", "creating", "registered", "stopping",
            "escalating", "done"}

HeldWithHandle(a) == HoldsLease(a) /\ lease.handle = a

EarlyOK(a) ==
    /\ pc[a] \in Early => owner = a
    /\ pc[a] \in Unspawned => a \notin sidecars \cup writers
    /\ pc[a] \in Unspawned \cup {"spawned"} => a \notin armed
    /\ pc[a] \in {"creating", "registered"} => a \in armed
    /\ a \in sessions => pc[a] \in {"registered", "commit", "live", "done"}

(* A lease is released by a rival only over its own condemned victim.      *)
RivalOK(a) ==
    /\ pc[a] \in {"killing", "release"} /\ lease # None =>
          lease.holder = victim[a] /\ lease.handle = victim[a]
    /\ pc[a] = "killing" => victim[a] \in Attempts
    /\ pc[a] = "release" => victim[a] \in condemned

LeaseOK ==
    lease # None =>
        /\ ~lease.revoked
        /\ pc[lease.holder] \in Holding
        /\ lease.handle \in {None, lease.holder}
        /\ lease.handle = None => pc[lease.holder] \in {"spawn", "spawned"}

StampOK == stamp # None => pc[stamp] \in {"live", "done"}

LeaseInv ==
    /\ TypeOK
    /\ \A a \in Attempts : EarlyOK(a) /\ RivalOK(a)
    /\ LeaseOK /\ StampOK

(* A create in order: it alone may run a tree, and the next one is kept    *)
(* out by the claim until the lease is bound.                              *)
StartOK(a) ==
    /\ pc[a] \in Starting => owner = a /\ sessions \subseteq {a}
    /\ pc[a] \in {"spawn", "spawned"} => HoldsLease(a)
    /\ pc[a] \in {"creating", "registered"} => HeldWithHandle(a)
    /\ pc[a] \in (Starting \ Unspawned) \cup {"spawn"} =>
          \A b \in Attempts \ {a} : ~Running(b)

(* A tree that runs is found: as the session the index resolves to, by the *)
(* claim of the kill under way, or by the lease it was left.               *)
TreeOK(a) ==
    /\ a \in sessions => index = a
    /\ Running(a) => pc[a] \in (Starting \ Unspawned) \cup {"live", "stopping", "done"}
    /\ Running(a) /\ pc[a] \in {"registered", "commit", "live"} => a \in sessions
    /\ Running(a) /\ pc[a] = "live" => owner = a /\ stamp = a
    /\ Running(a) /\ pc[a] = "done" => a \in sessions /\ HeldWithHandle(a)
    /\ Running(a) /\ pc[a] = "stopping" => owner = a \/ HeldWithHandle(a)

Orderly ==
    /\ writers \subseteq sidecars
    /\ \A a \in Attempts : StartOK(a) /\ TreeOK(a)
    /\ OneRunningTree

OrderlyUnlessProbed == ~probed => Orderly
-----------------------------------------------------------------------------
(* Every action keeps the leases in order.                                 *)
LEMMA ForceReleaseKeeps ==
    ASSUME LeaseInv, Coordinated, NEW a \in Attempts, ForceRelease(a) PROVE LeaseInv'
  <1>1. TypeOK'
    BY LeaseAssumption
       DEF LeaseInv, TypeOK, Optional, Leases, Pcs, ForceRelease, GoTo, claims, processes
  <1>2. \A b \in Attempts : EarlyOK(b)' /\ RivalOK(b)'
    BY LeaseAssumption, NoLeaseAssumption
       DEF LeaseInv, EarlyOK, RivalOK, LeaseOK, StampOK, TypeOK, Early, Unspawned,
           ForceRelease, GoTo, claims, processes
  <1>3. LeaseOK' /\ StampOK'
    BY LeaseAssumption, NoLeaseAssumption
       DEF LeaseInv, EarlyOK, LeaseOK, StampOK, TypeOK, Early, Unspawned, Holding,
           ForceRelease, GoTo, claims, processes
  <1> QED  BY <1>1, <1>2, <1>3 DEF LeaseInv

LEMMA SpawnFailsKeeps ==
    ASSUME LeaseInv, Coordinated, NEW a \in Attempts, SpawnFails(a) PROVE LeaseInv'
  <1>1. TypeOK'
    BY LeaseAssumption
       DEF LeaseInv, TypeOK, Optional, Leases, Pcs, SpawnFails, FailLease, HoldsLease, End,
           GoTo, processes
  <1>2. \A b \in Attempts : EarlyOK(b)' /\ RivalOK(b)'
    BY LeaseAssumption, NoLeaseAssumption
       DEF LeaseInv, EarlyOK, RivalOK, LeaseOK, StampOK, TypeOK, Early, Unspawned,
           SpawnFails, FailLease, HoldsLease, End, GoTo, processes
  <1>3. LeaseOK' /\ StampOK'
    BY LeaseAssumption, NoLeaseAssumption
       DEF LeaseInv, EarlyOK, LeaseOK, StampOK, TypeOK, Early, Unspawned, Holding,
           SpawnFails, FailLease, HoldsLease, End, GoTo, processes
  <1> QED  BY <1>1, <1>2, <1>3 DEF LeaseInv

LEMMA SpawnKeeps ==
    ASSUME LeaseInv, Coordinated, NEW a \in Attempts, Spawn(a) PROVE LeaseInv'
  <1>1. TypeOK'
    BY LeaseAssumption
       DEF LeaseInv, TypeOK, Optional, Leases, Pcs, Spawn, GoTo, claims, maps
  <1>2. \A b \in Attempts : EarlyOK(b)' /\ RivalOK(b)'
    BY LeaseAssumption, NoLeaseAssumption
       DEF LeaseInv, EarlyOK, RivalOK, LeaseOK, StampOK, TypeOK, Early, Unspawned, Spawn,
           GoTo, claims, maps
  <1>3. LeaseOK' /\ StampOK'
    BY LeaseAssumption, NoLeaseAssumption
       DEF LeaseInv, EarlyOK, LeaseOK, StampOK, TypeOK, Early, Unspawned, Holding, Spawn,
           GoTo, claims, maps
  <1> QED  BY <1>1, <1>2, <1>3 DEF LeaseInv

LEMMA SetKillHandleKeeps ==
    ASSUME LeaseInv, Coordinated, NEW a \in Attempts, SetKillHandle(a) PROVE LeaseInv'
  <1>1. TypeOK'
    BY LeaseAssumption
       DEF LeaseInv, TypeOK, Optional, Leases, Pcs, SetKillHandle, HoldsLease, GoTo, claims,
           processes
  <1>2. \A b \in Attempts : EarlyOK(b)' /\ RivalOK(b)'
    BY LeaseAssumption, NoLeaseAssumption
       DEF LeaseInv, EarlyOK, RivalOK, LeaseOK, StampOK, TypeOK, Early, Unspawned,
           SetKillHandle, HoldsLease, GoTo, claims, processes
  <1>3. LeaseOK' /\ StampOK'
    BY LeaseAssumption, NoLeaseAssumption
       DEF LeaseInv, EarlyOK, LeaseOK, StampOK, TypeOK, Early, Unspawned, Holding,
           SetKillHandle, HoldsLease, GoTo, claims, processes
  <1> QED  BY <1>1, <1>2, <1>3 DEF LeaseInv

LEMMA CreateFailsKeeps ==
    ASSUME LeaseInv, Coordinated, NEW a \in Attempts, CreateFails(a) PROVE LeaseInv'
  <1>1. TypeOK'
    BY LeaseAssumption
       DEF LeaseInv, TypeOK, Optional, Leases, Pcs, CreateFails, FailLease, HoldsLease, End,
           GoTo, Unindex
  <1>2. \A b \in Attempts : EarlyOK(b)' /\ RivalOK(b)'
    BY LeaseAssumption, NoLeaseAssumption
       DEF LeaseInv, EarlyOK, RivalOK, LeaseOK, StampOK, TypeOK, Early, Unspawned,
           CreateFails, FailLease, HoldsLease, End, GoTo, Unindex
  <1>3. LeaseOK' /\ StampOK'
    BY LeaseAssumption, NoLeaseAssumption
       DEF LeaseInv, EarlyOK, LeaseOK, StampOK, TypeOK, Early, Unspawned, Holding,
           CreateFails, FailLease, HoldsLease, End, GoTo, Unindex
  <1> QED  BY <1>1, <1>2, <1>3 DEF LeaseInv

LEMMA RegisterKeeps ==
    ASSUME LeaseInv, Coordinated, NEW a \in Attempts, Register(a) PROVE LeaseInv'
  <1>1. TypeOK'
    BY LeaseAssumption
       DEF LeaseInv, TypeOK, Optional, Leases, Pcs, Register, GoTo, claims, maps, processes
  <1>2. \A b \in Attempts : EarlyOK(b)' /\ RivalOK(b)'
    BY LeaseAssumption, NoLeaseAssumption
       DEF LeaseInv, EarlyOK, RivalOK, LeaseOK, StampOK, TypeOK, Early, Unspawned, Register,
           GoTo, claims, maps, processes
  <1>3. LeaseOK' /\ StampOK'
    BY LeaseAssumption, NoLeaseAssumption
       DEF LeaseInv, EarlyOK, LeaseOK, StampOK, TypeOK, Early, Unspawned, Holding, Register,
           GoTo, claims, maps, processes
  <1> QED  BY <1>1, <1>2, <1>3 DEF LeaseInv

LEMMA CompleteKeeps ==
    ASSUME LeaseInv, Coordinated, NEW a \in Attempts, Complete(a) PROVE LeaseInv'
  <1>1. TypeOK'
    BY LeaseAssumption
       DEF LeaseInv, TypeOK, Optional, Leases, Pcs, Complete, Keeps, HoldsLease, GoTo,
           claims, processes
  <1>2. \A b \in Attempts : EarlyOK(b)' /\ RivalOK(b)'
    BY LeaseAssumption, NoLeaseAssumption
       DEF LeaseInv, EarlyOK, RivalOK, LeaseOK, StampOK, TypeOK, Early, Unspawned, Complete,
           Keeps, HoldsLease, GoTo, claims, processes
  <1>3. LeaseOK' /\ StampOK'
    BY LeaseAssumption, NoLeaseAssumption
       DEF LeaseInv, EarlyOK, LeaseOK, StampOK, TypeOK, Early, Unspawned, Holding, Complete,
           Keeps, HoldsLease, GoTo, claims, processes
  <1> QED  BY <1>1, <1>2, <1>3 DEF LeaseInv

LEMMA CompleteRefusedKeeps ==
    ASSUME LeaseInv, Coordinated, NEW a \in Attempts, CompleteRefused(a)
    PROVE  LeaseInv'
  <1>1. TypeOK'
    BY LeaseAssumption
       DEF LeaseInv, TypeOK, Optional, Leases, Pcs, CompleteRefused, Keeps, HoldsLease,
           FailLease, End, GoTo, Unindex
  <1>2. \A b \in Attempts : EarlyOK(b)' /\ RivalOK(b)'
    BY LeaseAssumption, NoLeaseAssumption
       DEF LeaseInv, EarlyOK, RivalOK, LeaseOK, StampOK, TypeOK, Early, Unspawned,
           CompleteRefused, Keeps, HoldsLease, FailLease, End, GoTo, Unindex
  <1>3. LeaseOK' /\ StampOK'
    BY LeaseAssumption, NoLeaseAssumption
       DEF LeaseInv, EarlyOK, LeaseOK, StampOK, TypeOK, Early, Unspawned, Holding,
           CompleteRefused, Keeps, HoldsLease, FailLease, End, GoTo, Unindex
  <1> QED  BY <1>1, <1>2, <1>3 DEF LeaseInv

LEMMA PanicKeeps ==
    ASSUME LeaseInv, Coordinated, NEW a \in Attempts, Panic(a) PROVE LeaseInv'
  <1>1. TypeOK'
    BY LeaseAssumption
       DEF LeaseInv, TypeOK, Optional, Leases, Pcs, Panic, FailLease, HoldsLease, End, GoTo
  <1>2. \A b \in Attempts : EarlyOK(b)' /\ RivalOK(b)'
    BY LeaseAssumption, NoLeaseAssumption
       DEF LeaseInv, EarlyOK, RivalOK, LeaseOK, StampOK, TypeOK, Early, Unspawned, Panic,
           FailLease, HoldsLease, End, GoTo
  <1>3. LeaseOK' /\ StampOK'
    BY LeaseAssumption, NoLeaseAssumption
       DEF LeaseInv, EarlyOK, LeaseOK, StampOK, TypeOK, Early, Unspawned, Holding, Panic,
           FailLease, HoldsLease, End, GoTo
  <1> QED  BY <1>1, <1>2, <1>3 DEF LeaseInv

LEMMA ConsumerExitKeeps ==
    ASSUME LeaseInv, Coordinated, NEW a \in Attempts, ConsumerExit(a) PROVE LeaseInv'
  <1>1. TypeOK'
    BY LeaseAssumption
       DEF LeaseInv, TypeOK, Optional, Leases, Pcs, ConsumerExit, Unindex, processes
  <1>2. \A b \in Attempts : EarlyOK(b)' /\ RivalOK(b)'
    BY LeaseAssumption, NoLeaseAssumption
       DEF LeaseInv, EarlyOK, RivalOK, LeaseOK, StampOK, TypeOK, Early, Unspawned,
           ConsumerExit, Unindex, processes
  <1>3. LeaseOK' /\ StampOK'
    BY LeaseAssumption, NoLeaseAssumption
       DEF LeaseInv, EarlyOK, LeaseOK, StampOK, TypeOK, Early, Unspawned, Holding,
           ConsumerExit, Unindex, processes
  <1> QED  BY <1>1, <1>2, <1>3 DEF LeaseInv

LEMMA ConsumerMissesKeeps ==
    ASSUME LeaseInv, Coordinated, NEW a \in Attempts, ConsumerMisses(a)
    PROVE  LeaseInv'
  <1>1. TypeOK'
    BY LeaseAssumption
       DEF LeaseInv, TypeOK, Optional, Leases, Pcs, ConsumerMisses, maps, claims, processes
  <1>2. \A b \in Attempts : EarlyOK(b)' /\ RivalOK(b)'
    BY LeaseAssumption, NoLeaseAssumption
       DEF LeaseInv, EarlyOK, RivalOK, LeaseOK, StampOK, TypeOK, Early, Unspawned,
           ConsumerMisses, maps, claims, processes
  <1>3. LeaseOK' /\ StampOK'
    BY LeaseAssumption, NoLeaseAssumption
       DEF LeaseInv, EarlyOK, LeaseOK, StampOK, TypeOK, Early, Unspawned, Holding,
           ConsumerMisses, maps, claims, processes
  <1> QED  BY <1>1, <1>2, <1>3 DEF LeaseInv

LEMMA KillSessionKeeps ==
    ASSUME LeaseInv, Coordinated, NEW a \in Attempts, KillSession(a) PROVE LeaseInv'
  <1>1. TypeOK'
    BY LeaseAssumption
       DEF LeaseInv, TypeOK, Optional, Leases, Pcs, KillSession, GoTo, maps, processes
  <1>2. \A b \in Attempts : EarlyOK(b)' /\ RivalOK(b)'
    BY LeaseAssumption, NoLeaseAssumption
       DEF LeaseInv, EarlyOK, RivalOK, LeaseOK, StampOK, TypeOK, Early, Unspawned,
           KillSession, GoTo, maps, processes
  <1>3. LeaseOK' /\ StampOK'
    BY LeaseAssumption, NoLeaseAssumption
       DEF LeaseInv, EarlyOK, LeaseOK, StampOK, TypeOK, Early, Unspawned, Holding,
           KillSession, GoTo, maps, processes
  <1> QED  BY <1>1, <1>2, <1>3 DEF LeaseInv

LEMMA EscalatedKeeps ==
    ASSUME LeaseInv, Coordinated, NEW a \in Attempts, Escalated(a) PROVE LeaseInv'
  <1>1. TypeOK'
    BY LeaseAssumption
       DEF LeaseInv, TypeOK, Optional, Leases, Pcs, Escalated, TreeGone, End, GoTo, maps
  <1>2. \A b \in Attempts : EarlyOK(b)' /\ RivalOK(b)'
    BY LeaseAssumption, NoLeaseAssumption
       DEF LeaseInv, EarlyOK, RivalOK, LeaseOK, StampOK, TypeOK, Early, Unspawned,
           Escalated, TreeGone, End, GoTo, maps
  <1>3. LeaseOK' /\ StampOK'
    BY LeaseAssumption, NoLeaseAssumption
       DEF LeaseInv, EarlyOK, LeaseOK, StampOK, TypeOK, Early, Unspawned, Holding,
           Escalated, TreeGone, End, GoTo, maps
  <1> QED  BY <1>1, <1>2, <1>3 DEF LeaseInv

LEMMA SweepStartKeeps ==
    ASSUME LeaseInv, Coordinated, NEW a \in Attempts, SweepStart(a) PROVE LeaseInv'
  <1>1. TypeOK'
    BY LeaseAssumption
       DEF LeaseInv, TypeOK, Optional, Leases, Pcs, SweepStart, InFlight, claims, maps
  <1>2. \A b \in Attempts : EarlyOK(b)' /\ RivalOK(b)'
    BY LeaseAssumption, NoLeaseAssumption
       DEF LeaseInv, EarlyOK, RivalOK, LeaseOK, StampOK, TypeOK, Early, Unspawned,
           SweepStart, InFlight, claims, maps
  <1>3. LeaseOK' /\ StampOK'
    BY LeaseAssumption, NoLeaseAssumption
       DEF LeaseInv, EarlyOK, LeaseOK, StampOK, TypeOK, Early, Unspawned, Holding,
           SweepStart, InFlight, claims, maps
  <1> QED  BY <1>1, <1>2, <1>3 DEF LeaseInv

LEMMA StartWriterKeeps ==
    ASSUME LeaseInv, Coordinated, NEW a \in Attempts, StartWriter(a) PROVE LeaseInv'
  <1>1. TypeOK'
    BY LeaseAssumption
       DEF LeaseInv, TypeOK, Optional, Leases, Pcs, StartWriter, maps, claims
  <1>2. \A b \in Attempts : EarlyOK(b)' /\ RivalOK(b)'
    BY LeaseAssumption, NoLeaseAssumption
       DEF LeaseInv, EarlyOK, RivalOK, LeaseOK, StampOK, TypeOK, Early, Unspawned,
           StartWriter, maps, claims
  <1>3. LeaseOK' /\ StampOK'
    BY LeaseAssumption, NoLeaseAssumption
       DEF LeaseInv, EarlyOK, LeaseOK, StampOK, TypeOK, Early, Unspawned, Holding,
           StartWriter, maps, claims
  <1> QED  BY <1>1, <1>2, <1>3 DEF LeaseInv

LEMMA SidecarDiesKeeps ==
    ASSUME LeaseInv, Coordinated, NEW a \in Attempts, SidecarDies(a) PROVE LeaseInv'
  <1>1. TypeOK'
    BY LeaseAssumption
       DEF LeaseInv, TypeOK, Optional, Leases, Pcs, SidecarDies, maps, claims
  <1>2. \A b \in Attempts : EarlyOK(b)' /\ RivalOK(b)'
    BY LeaseAssumption, NoLeaseAssumption
       DEF LeaseInv, EarlyOK, RivalOK, LeaseOK, StampOK, TypeOK, Early, Unspawned,
           SidecarDies, maps, claims
  <1>3. LeaseOK' /\ StampOK'
    BY LeaseAssumption, NoLeaseAssumption
       DEF LeaseInv, EarlyOK, LeaseOK, StampOK, TypeOK, Early, Unspawned, Holding,
           SidecarDies, maps, claims
  <1> QED  BY <1>1, <1>2, <1>3 DEF LeaseInv

LEMMA WriterDiesKeeps ==
    ASSUME LeaseInv, Coordinated, NEW a \in Attempts, WriterDies(a) PROVE LeaseInv'
  <1>1. TypeOK'
    BY LeaseAssumption DEF LeaseInv, TypeOK, Optional, Leases, Pcs, WriterDies, maps, claims
  <1>2. \A b \in Attempts : EarlyOK(b)' /\ RivalOK(b)'
    BY LeaseAssumption, NoLeaseAssumption
       DEF LeaseInv, EarlyOK, RivalOK, LeaseOK, StampOK, TypeOK, Early, Unspawned,
           WriterDies, maps, claims
  <1>3. LeaseOK' /\ StampOK'
    BY LeaseAssumption, NoLeaseAssumption
       DEF LeaseInv, EarlyOK, LeaseOK, StampOK, TypeOK, Early, Unspawned, Holding,
           WriterDies, maps, claims
  <1> QED  BY <1>1, <1>2, <1>3 DEF LeaseInv
LEMMA BeginKeeps ==
    ASSUME LeaseInv, Coordinated, NEW a \in Attempts, Begin(a) PROVE LeaseInv'
  <1>1. TypeOK'
    BY LeaseAssumption
       DEF LeaseInv, TypeOK, Optional, Pcs, Begin, GoTo, claims, maps, processes
  <1>2. /\ pc[a] = "idle" /\ UNCHANGED <<maps, victim, armed, sessions, processes>>
        /\ \/ /\ owner = None /\ owner' = a /\ stamp' = stamp
              /\ pc' = [pc EXCEPT ![a] = "claim"]
           \/ owner = None /\ owner' = a /\ stamp' = a /\ pc' = [pc EXCEPT ![a] = "done"]
           \/ UNCHANGED <<owner, stamp>> /\ pc' = [pc EXCEPT ![a] = "done"]
    BY DEF Begin, GoTo, claims
  <1>3. ASSUME NEW b \in Attempts PROVE EarlyOK(b)' /\ RivalOK(b)'
    <2>1. CASE b = a
      BY <1>2, <2>1
         DEF LeaseInv, EarlyOK, RivalOK, TypeOK, Early, Unspawned, maps, processes
    <2>2. CASE b # a
      <3>1. pc'[b] = pc[b] /\ (pc[b] \in Early => owner' = b)
        BY <1>2, <2>2, LeaseAssumption DEF LeaseInv, EarlyOK, TypeOK
      <3> QED  BY <1>2, <3>1 DEF LeaseInv, EarlyOK, RivalOK, maps, processes
    <2> QED  BY <2>1, <2>2
  <1>4. LeaseOK' /\ StampOK'
    BY <1>2, LeaseAssumption, NoLeaseAssumption
       DEF LeaseInv, LeaseOK, StampOK, TypeOK, Optional, Leases, Holding, maps
  <1> QED  BY <1>1, <1>3, <1>4 DEF LeaseInv

LEMMA ClaimKeeps ==
    ASSUME LeaseInv, Coordinated, NEW a \in Attempts, Claim(a) PROVE LeaseInv'
  <1> DEFINE Fresh == [holder |-> a, handle |-> None, expired |-> FALSE, revoked |-> FALSE]
  <1>1. lease # None => lease.handle # None \/ lease.holder = a
    BY NoLeaseAssumption, LeaseAssumption
       DEF Claim, LeaseInv, LeaseOK, EarlyOK, TypeOK, Optional, Leases, Early, Unspawned
  <1>2. lease # None => lease.handle = lease.holder
    BY <1>1, NoLeaseAssumption, LeaseAssumption DEF Claim, LeaseInv, LeaseOK
  <1>3. /\ pc[a] \in {"claim", "reclaim"}
        /\ UNCHANGED <<armed, sessions, processes, binding, consumed, index, probed>>
        /\ \/ /\ lease' = Fresh /\ pc' = [pc EXCEPT ![a] = "spawn"]
              /\ UNCHANGED <<victim, owner, stamp>>
           \/ /\ UNCHANGED <<lease, victim>> /\ End(a)
           \/ /\ lease # None /\ pc' = [pc EXCEPT ![a] = "killing"]
              /\ victim' = [victim EXCEPT ![a] = lease.handle]
              /\ UNCHANGED <<lease, owner, stamp>>
    BY <1>2, LeaseAssumption, NoLeaseAssumption
       DEF Claim, GoTo, claims, LeaseInv, LeaseOK, TypeOK, Optional, Leases
  <1>4. TypeOK'
    <2>1. lease' \in Optional(Leases)
      <3>1. Fresh \in Leases
        BY DEF Leases, Optional
      <3> QED  BY <1>3, <3>1 DEF LeaseInv, TypeOK, Optional
    <2>2. /\ pc' \in [Attempts -> Pcs]
          /\ owner' \in Optional(Attempts) /\ stamp' \in Optional(Attempts)
      BY <1>3 DEF LeaseInv, TypeOK, Optional, Pcs, End, GoTo
    <2>3. victim' \in [Attempts -> Optional(Attempts)]
      BY <1>3 DEF LeaseInv, TypeOK, Optional, Leases
    <2> QED  BY <1>3, <2>1, <2>2, <2>3 DEF LeaseInv, TypeOK, processes
  <1>5. ASSUME NEW b \in Attempts PROVE EarlyOK(b)' /\ RivalOK(b)'
    <2>1. CASE b = a
      <3>1. EarlyOK(a)'
        BY <1>3 DEF LeaseInv, EarlyOK, TypeOK, Early, Unspawned, End, GoTo, processes
      <3>2. pc'[a] = "killing" =>
               lease.holder \in Attempts /\ lease' = lease /\ victim'[a] = lease.handle
        BY <1>3, NoLeaseAssumption DEF LeaseInv, TypeOK, End, GoTo, Optional, Leases
      <3>3. RivalOK(a)'
        BY <1>2, <1>3, <3>2 DEF LeaseInv, RivalOK, TypeOK, End, GoTo
      <3> QED  BY <2>1, <3>1, <3>3
    <2>2. CASE b # a
      <3>1. pc[b] \notin Early
        BY <1>3, <2>2 DEF LeaseInv, EarlyOK, Early, Unspawned
      <3>2. pc'[b] = pc[b]
        BY <1>3, <2>2 DEF LeaseInv, TypeOK, End, GoTo
      <3> QED  BY <1>3, <3>1, <3>2
               DEF LeaseInv, EarlyOK, RivalOK, Early, Unspawned, processes
    <2> QED  BY <2>1, <2>2
  <1>6. stamp # a
    BY <1>3, LeaseAssumption DEF LeaseInv, StampOK
  <1>7. LeaseOK'
    <2>1. CASE lease' = Fresh /\ pc' = [pc EXCEPT ![a] = "spawn"]
      BY <2>1 DEF LeaseInv, LeaseOK, TypeOK, Holding
    <2>2. CASE lease' = lease
      <3>1. lease # None => lease.holder # a
        BY <1>3 DEF LeaseInv, LeaseOK, Holding
      <3>2. \A b \in Attempts \ {a} : pc'[b] = pc[b]
        BY <1>3 DEF LeaseInv, TypeOK, End, GoTo
      <3> QED  BY <2>2, <3>1, <3>2, NoLeaseAssumption
                  DEF LeaseInv, LeaseOK, TypeOK, Optional, Leases
    <2> QED  BY <1>3, <2>1, <2>2
  <1>8. StampOK'
    BY <1>3, <1>6 DEF LeaseInv, StampOK, TypeOK, End, GoTo, Optional
  <1> QED  BY <1>4, <1>5, <1>7, <1>8 DEF LeaseInv

LEMMA ConfirmKillKeeps ==
    ASSUME LeaseInv, Coordinated, NEW a \in Attempts, ConfirmKill(a) PROVE LeaseInv'
  <1>1. /\ pc[a] = "killing"
        /\ UNCHANGED <<maps, victim, armed, sessions, consumed, index, probed>>
        /\ condemned' = condemned \cup {victim[a]}
        /\ sidecars' \subseteq sidecars /\ writers' \subseteq writers
        /\ \/ pc' = [pc EXCEPT ![a] = "release"] /\ UNCHANGED <<owner, stamp>>
           \/ End(a)
    BY DEF ConfirmKill, GoTo, claims
  <1>2. victim[a] \in Attempts
    BY <1>1 DEF LeaseInv, RivalOK
  <1>3. TypeOK'
    BY <1>1, <1>2 DEF LeaseInv, TypeOK, Optional, Pcs, End, GoTo, maps
  <1>4. ASSUME NEW b \in Attempts PROVE EarlyOK(b)' /\ RivalOK(b)'
    <2>1. CASE b = a
      BY <1>1, <2>1
         DEF LeaseInv, EarlyOK, RivalOK, TypeOK, Early, Unspawned, End, GoTo, maps
    <2>2. CASE b # a
      <3>1. pc'[b] = pc[b] /\ (owner = b => owner' = b)
        BY <1>1, <2>2 DEF LeaseInv, TypeOK, End, GoTo
      <3> QED  BY <1>1, <3>1 DEF LeaseInv, EarlyOK, RivalOK, maps
    <2> QED  BY <2>1, <2>2
  <1>5. LeaseOK' /\ StampOK'
    <2>1. lease # None => lease.holder # a
      BY <1>1 DEF LeaseInv, LeaseOK, Holding
    <2>2. stamp # a /\ stamp' = stamp /\ lease' = lease
      BY <1>1, LeaseAssumption DEF LeaseInv, StampOK, End, maps
    <2>3. \A b \in Attempts \ {a} : pc'[b] = pc[b]
      BY <1>1 DEF LeaseInv, TypeOK, End, GoTo
    <2> QED  BY <2>1, <2>2, <2>3, NoLeaseAssumption
             DEF LeaseInv, LeaseOK, StampOK, TypeOK, Optional, Leases
  <1> QED  BY <1>3, <1>4, <1>5 DEF LeaseInv

LEMMA CommitKeeps ==
    ASSUME LeaseInv, Coordinated, NEW a \in Attempts, Commit(a) PROVE LeaseInv'
  <1>1. TypeOK'
    BY LeaseAssumption
       DEF LeaseInv, TypeOK, Optional, Leases, Pcs, Commit, End, GoTo, Unindex, maps
  <1>2. \A b \in Attempts : EarlyOK(b)' /\ RivalOK(b)'
    BY LeaseAssumption, NoLeaseAssumption
       DEF LeaseInv, EarlyOK, RivalOK, TypeOK, Early, Unspawned, Commit, End,
           GoTo, Unindex, maps
  <1>3. LeaseOK' /\ StampOK'
    <2>1. /\ pc[a] = "commit" /\ lease' = lease
          /\ \/ stamp' = a /\ pc' = [pc EXCEPT ![a] = "live"]
             \/ stamp' = stamp /\ pc' = [pc EXCEPT ![a] = "done"]
      BY DEF Commit, End, GoTo, maps
    <2>2. lease # None => lease.holder # a
      BY <2>1 DEF LeaseInv, LeaseOK, Holding
    <2>3. \A b \in Attempts \ {a} : pc'[b] = pc[b]
      BY <2>1 DEF LeaseInv, TypeOK
    <2>4. stamp # a
      BY <2>1, LeaseAssumption DEF LeaseInv, StampOK
    <2> QED  BY <2>1, <2>2, <2>3, <2>4, NoLeaseAssumption
             DEF LeaseInv, LeaseOK, StampOK, TypeOK, Optional, Leases
  <1> QED  BY <1>1, <1>2, <1>3 DEF LeaseInv

LEMMA KillTeardownKeeps ==
    ASSUME LeaseInv, Coordinated, NEW a \in Attempts, KillTeardown(a) PROVE LeaseInv'
  <1>1. /\ pc[a] = "stopping" /\ UNCHANGED <<lease, stamp>>
        /\ \/ pc' = [pc EXCEPT ![a] = "done"]
           \/ pc' = [pc EXCEPT ![a] = "escalating"]
    BY DEF KillTeardown, TreeGone, End, GoTo, claims, maps
  <1>2. TypeOK'
    BY LeaseAssumption
       DEF LeaseInv, TypeOK, Optional, Leases, Pcs, KillTeardown, TreeGone,
           End, GoTo, Unindex, claims, maps
  <1>3. \A b \in Attempts : EarlyOK(b)' /\ RivalOK(b)'
    BY LeaseAssumption, NoLeaseAssumption
       DEF LeaseInv, EarlyOK, RivalOK, TypeOK, Early, Unspawned, KillTeardown, TreeGone,
           End, GoTo, Unindex, claims, maps
  <1>4. LeaseOK' /\ StampOK'
    <2>1. stamp # a
      BY <1>1, LeaseAssumption DEF LeaseInv, StampOK
    <2> QED  BY <1>1, <2>1, NoLeaseAssumption
             DEF LeaseInv, LeaseOK, StampOK, TypeOK, Optional, Leases, Holding
  <1> QED  BY <1>2, <1>3, <1>4 DEF LeaseInv
-----------------------------------------------------------------------------
(* And the creates, while no probe has released one.                       *)
LEMMA BeginOrderly ==
    ASSUME LeaseInv, Coordinated, ~Detaches, Orderly, ~probed', NEW a \in Attempts, Begin(a)
    PROVE Orderly'
  <1>1. writers' \subseteq sidecars'
    BY DEF Orderly, Begin, HasLive, GoTo, claims, maps, processes
  <1>2. \A b \in Attempts : StartOK(b)'
    BY LeaseAssumption, NoLeaseAssumption
       DEF LeaseInv, EarlyOK, TypeOK, Orderly, StartOK, TreeOK, Running, HeldWithHandle,
           HoldsLease, Starting, Early, Unspawned, Begin, HasLive, GoTo, claims, maps,
           processes
  <1>3. \A b \in Attempts : TreeOK(b)'
    BY LeaseAssumption, NoLeaseAssumption
       DEF LeaseInv, EarlyOK, LeaseOK, StampOK, TypeOK, Orderly, StartOK, TreeOK, Running,
           HeldWithHandle, HoldsLease, Starting, Early, Unspawned, Begin, HasLive, GoTo,
           claims, maps, processes
  <1>4. OneRunningTree'
    BY LeaseAssumption
       DEF LeaseInv, TypeOK, OneRunningTree, Orderly, StartOK, TreeOK, Running,
           HeldWithHandle, HoldsLease, Starting, Early, Unspawned, Begin, HasLive, GoTo,
           claims, maps, processes
  <1> QED  BY <1>1, <1>2, <1>3, <1>4 DEF Orderly

LEMMA ConfirmKillOrderly ==
    ASSUME LeaseInv, Coordinated, ~Detaches, Orderly, ~probed',
           NEW a \in Attempts, ConfirmKill(a)
    PROVE Orderly'
  <1>1. writers' \subseteq sidecars'
    BY DEF Orderly, ConfirmKill, End, GoTo, claims, maps
  <1>2. \A b \in Attempts : StartOK(b)'
    BY LeaseAssumption, NoLeaseAssumption
       DEF LeaseInv, EarlyOK, TypeOK, Orderly, StartOK, TreeOK, Running, HeldWithHandle,
           HoldsLease, Starting, Early, Unspawned, ConfirmKill, End, GoTo, claims, maps
  <1>3. \A b \in Attempts : TreeOK(b)'
    BY LeaseAssumption, NoLeaseAssumption
       DEF LeaseInv, EarlyOK, LeaseOK, StampOK, TypeOK, Orderly, StartOK, TreeOK, Running,
           HeldWithHandle, HoldsLease, Starting, Early, Unspawned, ConfirmKill, End, GoTo,
           claims, maps
  <1>4. OneRunningTree'
    BY LeaseAssumption
       DEF LeaseInv, TypeOK, OneRunningTree, Orderly, StartOK, TreeOK, Running,
           HeldWithHandle, HoldsLease, Starting, Early, Unspawned, ConfirmKill, End, GoTo,
           claims, maps
  <1> QED  BY <1>1, <1>2, <1>3, <1>4 DEF Orderly

LEMMA SpawnFailsOrderly ==
    ASSUME LeaseInv, Coordinated, ~Detaches, Orderly, ~probed',
           NEW a \in Attempts, SpawnFails(a)
    PROVE Orderly'
  <1>1. writers' \subseteq sidecars'
    BY DEF Orderly, SpawnFails, FailLease, HoldsLease, End, GoTo, processes
  <1>2. \A b \in Attempts : StartOK(b)'
    BY LeaseAssumption, NoLeaseAssumption
       DEF LeaseInv, EarlyOK, TypeOK, Orderly, StartOK, TreeOK, Running, HeldWithHandle,
           HoldsLease, Starting, Early, Unspawned, SpawnFails, FailLease, End, GoTo,
           processes
  <1>3. \A b \in Attempts : TreeOK(b)'
    BY LeaseAssumption, NoLeaseAssumption
       DEF LeaseInv, EarlyOK, LeaseOK, StampOK, TypeOK, Orderly, StartOK, TreeOK, Running,
           HeldWithHandle, HoldsLease, Starting, Early, Unspawned, SpawnFails, FailLease,
           End, GoTo, processes
  <1>4. OneRunningTree'
    BY LeaseAssumption
       DEF LeaseInv, TypeOK, OneRunningTree, Orderly, StartOK, TreeOK, Running,
           HeldWithHandle, HoldsLease, Starting, Early, Unspawned, SpawnFails, FailLease,
           End, GoTo, processes
  <1> QED  BY <1>1, <1>2, <1>3, <1>4 DEF Orderly

LEMMA SpawnOrderly ==
    ASSUME LeaseInv, Coordinated, ~Detaches, Orderly, ~probed', NEW a \in Attempts, Spawn(a)
    PROVE Orderly'
  <1>1. writers' \subseteq sidecars'
    BY DEF Orderly, Spawn, GoTo, claims, maps
  <1>2. \A b \in Attempts : StartOK(b)'
    BY LeaseAssumption, NoLeaseAssumption
       DEF LeaseInv, EarlyOK, TypeOK, Orderly, StartOK, TreeOK, Running, HeldWithHandle,
           HoldsLease, Starting, Early, Unspawned, Spawn, GoTo, claims, maps
  <1>3. \A b \in Attempts : TreeOK(b)'
    BY LeaseAssumption, NoLeaseAssumption
       DEF LeaseInv, EarlyOK, LeaseOK, StampOK, TypeOK, Orderly, StartOK, TreeOK, Running,
           HeldWithHandle, HoldsLease, Starting, Early, Unspawned, Spawn, GoTo, claims, maps
  <1>4. OneRunningTree'
    BY LeaseAssumption
       DEF LeaseInv, TypeOK, OneRunningTree, Orderly, StartOK, TreeOK, Running,
           HeldWithHandle, HoldsLease, Starting, Early, Unspawned, Spawn, GoTo, claims, maps
  <1> QED  BY <1>1, <1>2, <1>3, <1>4 DEF Orderly

LEMMA CreateFailsOrderly ==
    ASSUME LeaseInv, Coordinated, ~Detaches, Orderly, ~probed',
           NEW a \in Attempts, CreateFails(a)
    PROVE Orderly'
  <1>1. writers' \subseteq sidecars'
    BY DEF Orderly, CreateFails, FailLease, HoldsLease, End, GoTo, Unindex
  <1>2. \A b \in Attempts : StartOK(b)'
    BY LeaseAssumption, NoLeaseAssumption
       DEF LeaseInv, EarlyOK, TypeOK, Orderly, StartOK, TreeOK, Running, HeldWithHandle,
           HoldsLease, Starting, Early, Unspawned, CreateFails, FailLease, End, GoTo,
           Unindex
  <1>3. \A b \in Attempts : TreeOK(b)'
    BY LeaseAssumption, NoLeaseAssumption
       DEF LeaseInv, EarlyOK, LeaseOK, StampOK, TypeOK, Orderly, StartOK, TreeOK, Running,
           HeldWithHandle, HoldsLease, Starting, Early, Unspawned, CreateFails, FailLease,
           End, GoTo, Unindex
  <1>4. OneRunningTree'
    BY LeaseAssumption
       DEF LeaseInv, TypeOK, OneRunningTree, Orderly, StartOK, TreeOK, Running,
           HeldWithHandle, HoldsLease, Starting, Early, Unspawned, CreateFails, FailLease,
           End, GoTo, Unindex
  <1> QED  BY <1>1, <1>2, <1>3, <1>4 DEF Orderly

LEMMA RegisterOrderly ==
    ASSUME LeaseInv, Coordinated, ~Detaches, Orderly, ~probed',
           NEW a \in Attempts, Register(a)
    PROVE Orderly'
  <1>1. writers' \subseteq sidecars'
    BY DEF Orderly, Register, GoTo, claims, maps, processes
  <1>2. \A b \in Attempts : StartOK(b)'
    BY LeaseAssumption, NoLeaseAssumption
       DEF LeaseInv, EarlyOK, TypeOK, Orderly, StartOK, TreeOK, Running, HeldWithHandle,
           HoldsLease, Starting, Early, Unspawned, Register, GoTo, claims, maps, processes
  <1>3. \A b \in Attempts : TreeOK(b)'
    BY LeaseAssumption, NoLeaseAssumption
       DEF LeaseInv, EarlyOK, LeaseOK, StampOK, TypeOK, Orderly, StartOK, TreeOK, Running,
           HeldWithHandle, HoldsLease, Starting, Early, Unspawned, Register, GoTo, claims,
           maps, processes
  <1>4. OneRunningTree'
    BY LeaseAssumption
       DEF LeaseInv, TypeOK, OneRunningTree, Orderly, StartOK, TreeOK, Running,
           HeldWithHandle, HoldsLease, Starting, Early, Unspawned, Register, GoTo, claims,
           maps, processes
  <1> QED  BY <1>1, <1>2, <1>3, <1>4 DEF Orderly

LEMMA CompleteOrderly ==
    ASSUME LeaseInv, Coordinated, ~Detaches, Orderly, ~probed',
           NEW a \in Attempts, Complete(a)
    PROVE Orderly'
  <1>1. writers' \subseteq sidecars'
    BY DEF Orderly, Complete, Keeps, HoldsLease, GoTo, claims, processes
  <1>2. \A b \in Attempts : StartOK(b)'
    BY LeaseAssumption, NoLeaseAssumption
       DEF LeaseInv, EarlyOK, TypeOK, Orderly, StartOK, TreeOK, Running, HeldWithHandle,
           HoldsLease, Starting, Early, Unspawned, Complete, Keeps, GoTo, claims, processes
  <1>3. \A b \in Attempts : TreeOK(b)'
    BY LeaseAssumption, NoLeaseAssumption
       DEF LeaseInv, EarlyOK, LeaseOK, StampOK, TypeOK, Orderly, StartOK, TreeOK, Running,
           HeldWithHandle, HoldsLease, Starting, Early, Unspawned, Complete, Keeps, GoTo,
           claims, processes
  <1>4. OneRunningTree'
    BY LeaseAssumption
       DEF LeaseInv, TypeOK, OneRunningTree, Orderly, StartOK, TreeOK, Running,
           HeldWithHandle, HoldsLease, Starting, Early, Unspawned, Complete, Keeps, GoTo,
           claims, processes
  <1> QED  BY <1>1, <1>2, <1>3, <1>4 DEF Orderly

LEMMA CompleteRefusedOrderly ==
    ASSUME LeaseInv, Coordinated, ~Detaches, Orderly, ~probed',
           NEW a \in Attempts, CompleteRefused(a)
    PROVE Orderly'
  <1>1. writers' \subseteq sidecars'
    BY DEF Orderly, CompleteRefused, Keeps, HoldsLease, FailLease, End, GoTo, Unindex
  <1>2. \A b \in Attempts : StartOK(b)'
    BY LeaseAssumption, NoLeaseAssumption
       DEF LeaseInv, EarlyOK, TypeOK, Orderly, StartOK, TreeOK, Running, HeldWithHandle,
           HoldsLease, Starting, Early, Unspawned, CompleteRefused, Keeps, FailLease, End,
           GoTo, Unindex
  <1>3. \A b \in Attempts : TreeOK(b)'
    BY LeaseAssumption, NoLeaseAssumption
       DEF LeaseInv, EarlyOK, LeaseOK, StampOK, TypeOK, Orderly, StartOK, TreeOK, Running,
           HeldWithHandle, HoldsLease, Starting, Early, Unspawned, CompleteRefused, Keeps,
           FailLease, End, GoTo, Unindex
  <1>4. OneRunningTree'
    BY LeaseAssumption
       DEF LeaseInv, TypeOK, OneRunningTree, Orderly, StartOK, TreeOK, Running,
           HeldWithHandle, HoldsLease, Starting, Early, Unspawned, CompleteRefused, Keeps,
           FailLease, End, GoTo, Unindex
  <1> QED  BY <1>1, <1>2, <1>3, <1>4 DEF Orderly

LEMMA PanicOrderly ==
    ASSUME LeaseInv, Coordinated, ~Detaches, Orderly, ~probed', NEW a \in Attempts, Panic(a)
    PROVE Orderly'
  <1>1. writers' \subseteq sidecars'
    BY DEF Orderly, Panic, FailLease, HoldsLease, End, GoTo
  <1>2. \A b \in Attempts : StartOK(b)'
    BY LeaseAssumption, NoLeaseAssumption
       DEF LeaseInv, EarlyOK, TypeOK, Orderly, StartOK, TreeOK, Running, HeldWithHandle,
           HoldsLease, Starting, Early, Unspawned, Panic, FailLease, End, GoTo
  <1>3. \A b \in Attempts : TreeOK(b)'
    BY LeaseAssumption, NoLeaseAssumption
       DEF LeaseInv, EarlyOK, LeaseOK, StampOK, TypeOK, Orderly, StartOK, TreeOK, Running,
           HeldWithHandle, HoldsLease, Starting, Early, Unspawned, Panic, FailLease, End,
           GoTo
  <1>4. OneRunningTree'
    BY LeaseAssumption
       DEF LeaseInv, TypeOK, OneRunningTree, Orderly, StartOK, TreeOK, Running,
           HeldWithHandle, HoldsLease, Starting, Early, Unspawned, Panic, FailLease, End,
           GoTo
  <1> QED  BY <1>1, <1>2, <1>3, <1>4 DEF Orderly

LEMMA ConsumerMissesOrderly ==
    ASSUME LeaseInv, Coordinated, ~Detaches, Orderly, ~probed',
           NEW a \in Attempts, ConsumerMisses(a)
    PROVE Orderly'
  <1>1. writers' \subseteq sidecars'
    BY DEF Orderly, ConsumerMisses, maps, claims, processes
  <1>2. \A b \in Attempts : StartOK(b)'
    BY LeaseAssumption, NoLeaseAssumption
       DEF LeaseInv, EarlyOK, TypeOK, Orderly, StartOK, TreeOK, Running, HeldWithHandle,
           HoldsLease, Starting, Early, Unspawned, ConsumerMisses, maps, claims, processes
  <1>3. \A b \in Attempts : TreeOK(b)'
    BY LeaseAssumption, NoLeaseAssumption
       DEF LeaseInv, EarlyOK, LeaseOK, StampOK, TypeOK, Orderly, StartOK, TreeOK, Running,
           HeldWithHandle, HoldsLease, Starting, Early, Unspawned, ConsumerMisses, maps,
           claims, processes
  <1>4. OneRunningTree'
    BY LeaseAssumption
       DEF LeaseInv, TypeOK, OneRunningTree, Orderly, StartOK, TreeOK, Running,
           HeldWithHandle, HoldsLease, Starting, Early, Unspawned, ConsumerMisses, maps,
           claims, processes
  <1> QED  BY <1>1, <1>2, <1>3, <1>4 DEF Orderly

LEMMA KillSessionOrderly ==
    ASSUME LeaseInv, Coordinated, ~Detaches, Orderly, ~probed',
           NEW a \in Attempts, KillSession(a)
    PROVE Orderly'
  <1>1. writers' \subseteq sidecars'
    BY DEF Orderly, KillSession, GoTo, maps, processes
  <1>2. \A b \in Attempts : StartOK(b)'
    BY LeaseAssumption, NoLeaseAssumption
       DEF LeaseInv, EarlyOK, TypeOK, Orderly, StartOK, TreeOK, Running, HeldWithHandle,
           HoldsLease, Starting, Early, Unspawned, KillSession, GoTo, maps, processes
  <1>3. \A b \in Attempts : TreeOK(b)'
    BY LeaseAssumption, NoLeaseAssumption
       DEF LeaseInv, EarlyOK, LeaseOK, StampOK, TypeOK, Orderly, StartOK, TreeOK, Running,
           HeldWithHandle, HoldsLease, Starting, Early, Unspawned, KillSession, GoTo, maps,
           processes
  <1>4. OneRunningTree'
    BY LeaseAssumption
       DEF LeaseInv, TypeOK, OneRunningTree, Orderly, StartOK, TreeOK, Running,
           HeldWithHandle, HoldsLease, Starting, Early, Unspawned, KillSession, GoTo, maps,
           processes
  <1> QED  BY <1>1, <1>2, <1>3, <1>4 DEF Orderly

LEMMA KillTeardownOrderly ==
    ASSUME LeaseInv, Coordinated, ~Detaches, Orderly, ~probed',
           NEW a \in Attempts, KillTeardown(a)
    PROVE Orderly'
  <1>1. writers' \subseteq sidecars'
    BY DEF Orderly, KillTeardown, TreeGone,
           End, GoTo, Unindex, claims, maps
  <1>2. \A b \in Attempts : StartOK(b)'
    BY LeaseAssumption, NoLeaseAssumption
       DEF LeaseInv, EarlyOK, TypeOK, Orderly, StartOK, TreeOK, Running, HeldWithHandle,
           HoldsLease, Starting, Early, Unspawned, KillTeardown, TreeGone, End, GoTo,
           Unindex, claims, maps
  <1>3. \A b \in Attempts : TreeOK(b)'
    BY LeaseAssumption, NoLeaseAssumption
       DEF LeaseInv, EarlyOK, LeaseOK, StampOK, TypeOK, Orderly, StartOK, TreeOK, Running,
           HeldWithHandle, HoldsLease, Starting, Early, Unspawned, KillTeardown, TreeGone,
           End, GoTo, Unindex, claims, maps
  <1>4. OneRunningTree'
    BY LeaseAssumption
       DEF LeaseInv, TypeOK, OneRunningTree, Orderly, StartOK, TreeOK, Running,
           HeldWithHandle, HoldsLease, Starting, Early, Unspawned, KillTeardown, TreeGone,
           End, GoTo, Unindex, claims, maps
  <1> QED  BY <1>1, <1>2, <1>3, <1>4 DEF Orderly

LEMMA EscalatedOrderly ==
    ASSUME LeaseInv, Coordinated, ~Detaches, Orderly, ~probed',
           NEW a \in Attempts, Escalated(a)
    PROVE Orderly'
  <1>1. writers' \subseteq sidecars'
    BY DEF Orderly, Escalated, TreeGone, End, GoTo, maps
  <1>2. \A b \in Attempts : StartOK(b)'
    BY LeaseAssumption, NoLeaseAssumption
       DEF LeaseInv, EarlyOK, TypeOK, Orderly, StartOK, TreeOK, Running, HeldWithHandle,
           HoldsLease, Starting, Early, Unspawned, Escalated, TreeGone, End, GoTo, maps
  <1>3. \A b \in Attempts : TreeOK(b)'
    BY LeaseAssumption, NoLeaseAssumption
       DEF LeaseInv, EarlyOK, LeaseOK, StampOK, TypeOK, Orderly, StartOK, TreeOK, Running,
           HeldWithHandle, HoldsLease, Starting, Early, Unspawned, Escalated, TreeGone, End,
           GoTo, maps
  <1>4. OneRunningTree'
    BY LeaseAssumption
       DEF LeaseInv, TypeOK, OneRunningTree, Orderly, StartOK, TreeOK, Running,
           HeldWithHandle, HoldsLease, Starting, Early, Unspawned, Escalated, TreeGone, End,
           GoTo, maps
  <1> QED  BY <1>1, <1>2, <1>3, <1>4 DEF Orderly

LEMMA SweepStartOrderly ==
    ASSUME LeaseInv, Coordinated, ~Detaches, Orderly, ~probed',
           NEW a \in Attempts, SweepStart(a)
    PROVE Orderly'
  <1>1. writers' \subseteq sidecars'
    BY DEF Orderly, SweepStart, InFlight, claims, maps
  <1>2. \A b \in Attempts : StartOK(b)'
    BY LeaseAssumption, NoLeaseAssumption
       DEF LeaseInv, EarlyOK, TypeOK, Orderly, StartOK, TreeOK, Running, HeldWithHandle,
           HoldsLease, Starting, Early, Unspawned, SweepStart, InFlight, claims, maps
  <1>3. \A b \in Attempts : TreeOK(b)'
    BY LeaseAssumption, NoLeaseAssumption
       DEF LeaseInv, EarlyOK, LeaseOK, StampOK, TypeOK, Orderly, StartOK, TreeOK, Running,
           HeldWithHandle, HoldsLease, Starting, Early, Unspawned, SweepStart, InFlight,
           claims, maps
  <1>4. OneRunningTree'
    BY LeaseAssumption
       DEF LeaseInv, TypeOK, OneRunningTree, Orderly, StartOK, TreeOK, Running,
           HeldWithHandle, HoldsLease, Starting, Early, Unspawned, SweepStart, InFlight,
           claims, maps
  <1> QED  BY <1>1, <1>2, <1>3, <1>4 DEF Orderly

LEMMA StartWriterOrderly ==
    ASSUME LeaseInv, Coordinated, ~Detaches, Orderly, ~probed',
           NEW a \in Attempts, StartWriter(a)
    PROVE Orderly'
  <1>1. writers' \subseteq sidecars'
    BY DEF Orderly, StartWriter, maps, claims
  <1>2. \A b \in Attempts : StartOK(b)'
    BY LeaseAssumption, NoLeaseAssumption
       DEF LeaseInv, EarlyOK, TypeOK, Orderly, StartOK, TreeOK, Running, HeldWithHandle,
           HoldsLease, Starting, Early, Unspawned, StartWriter, maps, claims
  <1>3. \A b \in Attempts : TreeOK(b)'
    BY LeaseAssumption, NoLeaseAssumption
       DEF LeaseInv, EarlyOK, LeaseOK, StampOK, TypeOK, Orderly, StartOK, TreeOK, Running,
           HeldWithHandle, HoldsLease, Starting, Early, Unspawned, StartWriter, maps, claims
  <1>4. OneRunningTree'
    BY LeaseAssumption
       DEF LeaseInv, TypeOK, OneRunningTree, Orderly, StartOK, TreeOK, Running,
           HeldWithHandle, HoldsLease, Starting, Early, Unspawned, StartWriter, maps, claims
  <1> QED  BY <1>1, <1>2, <1>3, <1>4 DEF Orderly

LEMMA SidecarDiesOrderly ==
    ASSUME LeaseInv, Coordinated, ~Detaches, Orderly, ~probed',
           NEW a \in Attempts, SidecarDies(a)
    PROVE Orderly'
  <1>1. writers' \subseteq sidecars'
    BY DEF Orderly, SidecarDies, maps, claims
  <1>2. \A b \in Attempts : StartOK(b)'
    BY LeaseAssumption, NoLeaseAssumption
       DEF LeaseInv, EarlyOK, TypeOK, Orderly, StartOK, TreeOK, Running, HeldWithHandle,
           HoldsLease, Starting, Early, Unspawned, SidecarDies, maps, claims
  <1>3. \A b \in Attempts : TreeOK(b)'
    BY LeaseAssumption, NoLeaseAssumption
       DEF LeaseInv, EarlyOK, LeaseOK, StampOK, TypeOK, Orderly, StartOK, TreeOK, Running,
           HeldWithHandle, HoldsLease, Starting, Early, Unspawned, SidecarDies, maps, claims
  <1>4. OneRunningTree'
    BY LeaseAssumption
       DEF LeaseInv, TypeOK, OneRunningTree, Orderly, StartOK, TreeOK, Running,
           HeldWithHandle, HoldsLease, Starting, Early, Unspawned, SidecarDies, maps, claims
  <1> QED  BY <1>1, <1>2, <1>3, <1>4 DEF Orderly

LEMMA WriterDiesOrderly ==
    ASSUME LeaseInv, Coordinated, ~Detaches, Orderly, ~probed',
           NEW a \in Attempts, WriterDies(a)
    PROVE Orderly'
  <1>1. writers' \subseteq sidecars'
    BY DEF Orderly, WriterDies, maps, claims
  <1>2. \A b \in Attempts : StartOK(b)'
    BY LeaseAssumption, NoLeaseAssumption
       DEF LeaseInv, EarlyOK, TypeOK, Orderly, StartOK, TreeOK, Running, HeldWithHandle,
           HoldsLease, Starting, Early, Unspawned, WriterDies, maps, claims
  <1>3. \A b \in Attempts : TreeOK(b)'
    BY LeaseAssumption, NoLeaseAssumption
       DEF LeaseInv, EarlyOK, LeaseOK, StampOK, TypeOK, Orderly, StartOK, TreeOK, Running,
           HeldWithHandle, HoldsLease, Starting, Early, Unspawned, WriterDies, maps, claims
  <1>4. OneRunningTree'
    BY LeaseAssumption
       DEF LeaseInv, TypeOK, OneRunningTree, Orderly, StartOK, TreeOK, Running,
           HeldWithHandle, HoldsLease, Starting, Early, Unspawned, WriterDies, maps, claims
  <1> QED  BY <1>1, <1>2, <1>3, <1>4 DEF Orderly
(* A claim takes the free lease, is refused, or finds a rival to kill: the *)
(* lease it meets always has its handle, for its holder is past its start. *)
LEMMA ClaimCases ==
    ASSUME LeaseInv, Coordinated, NEW a \in Attempts, Claim(a)
    PROVE  /\ pc[a] \in {"claim", "reclaim"} /\ owner = a
           /\ UNCHANGED <<armed, sessions, processes, binding, consumed, index, probed>>
           /\ \/ /\ lease = None
                 /\ lease' = [holder |-> a, handle |-> None,
                              expired |-> FALSE, revoked |-> FALSE]
                 /\ pc' = [pc EXCEPT ![a] = "spawn"]
                 /\ UNCHANGED <<victim, owner, stamp>>
              \/ /\ UNCHANGED <<lease, victim>> /\ End(a)
              \/ /\ lease # None /\ lease.handle = lease.holder
                 /\ pc' = [pc EXCEPT ![a] = "killing"]
                 /\ victim' = [victim EXCEPT ![a] = lease.handle]
                 /\ UNCHANGED <<lease, owner, stamp>>
  <1>1. pc[a] \in {"claim", "reclaim"} /\ owner = a
    BY DEF Claim, LeaseInv, EarlyOK, Early, Unspawned
  <1>2. lease # None => lease.handle # None
    <2> SUFFICES ASSUME lease # None, lease.handle = None PROVE FALSE
      OBVIOUS
    <2>1. lease.holder \in Attempts /\ pc[lease.holder] \in {"spawn", "spawned"}
      BY NoLeaseAssumption DEF LeaseInv, LeaseOK, TypeOK, Optional, Leases
    <2>2. owner = lease.holder
      BY <2>1 DEF LeaseInv, EarlyOK, Early, Unspawned
    <2> QED  BY <1>1, <2>1, <2>2
  <1>3. lease # None => lease.handle = lease.holder
    BY <1>2 DEF LeaseInv, LeaseOK
  <1> QED  BY <1>1, <1>2, <1>3 DEF Claim, GoTo, claims

LEMMA ClaimOrderly ==
    ASSUME LeaseInv, Coordinated, ~Detaches, Orderly, ~probed', NEW a \in Attempts, Claim(a)
    PROVE Orderly'
  <1>1. writers' \subseteq sidecars'
    BY ClaimCases DEF Orderly, processes
  <1>2. ASSUME NEW b \in Attempts \ {a} PROVE StartOK(b)'
    <2>1. pc[b] \notin Starting /\ pc'[b] = pc[b]
      BY ClaimCases DEF Orderly, StartOK, LeaseInv, TypeOK, End, GoTo
    <2> QED  BY <2>1 DEF StartOK, Starting, Early, Unspawned
  <1>3. StartOK(a)'
    <2>1. CASE /\ lease = None
               /\ lease' = [holder |-> a, handle |-> None,
                            expired |-> FALSE, revoked |-> FALSE]
               /\ pc' = [pc EXCEPT ![a] = "spawn"]
               /\ UNCHANGED <<victim, owner, stamp>>
      <3>1. pc'[a] = "spawn" /\ pc[a] \in Starting
        BY <2>1, ClaimCases DEF LeaseInv, TypeOK, Starting, Early, Unspawned
      <3>2. HoldsLease(a)'
        <4>1. lease' \in Leases
          BY <2>1 DEF Leases, Optional
        <4> QED  BY <2>1, <4>1, NoLeaseAssumption DEF HoldsLease
      <3>3. ASSUME NEW c \in Attempts \ {a}, Running(c) PROVE FALSE
        BY <2>1, <3>1, <3>3, ClaimCases
           DEF Orderly, StartOK, TreeOK, HeldWithHandle, HoldsLease
      <3>4. \A c \in Attempts : Running(c)' <=> Running(c)
        BY ClaimCases DEF Running, processes
      <3> QED  BY <2>1, <3>1, <3>2, <3>3, <3>4, ClaimCases DEF Orderly, StartOK
    <2>2. CASE UNCHANGED <<lease, victim>> /\ End(a)
      <3>1. pc'[a] = "done"
        BY <2>2 DEF LeaseInv, TypeOK, End, GoTo
      <3> QED  BY <3>1 DEF StartOK, Starting, Early, Unspawned
    <2>3. CASE pc' = [pc EXCEPT ![a] = "killing"] /\ UNCHANGED <<lease, owner, stamp>>
      <3>1. pc'[a] = "killing" /\ pc[a] \in Starting
        BY <2>3, ClaimCases DEF LeaseInv, TypeOK, Starting, Early, Unspawned
      <3> QED  BY <2>3, <3>1, ClaimCases DEF Orderly, StartOK, Starting, Unspawned
    <2> QED  BY <2>1, <2>2, <2>3, ClaimCases
  <1>4. \A b \in Attempts : TreeOK(b)'
    BY LeaseAssumption, NoLeaseAssumption
       DEF LeaseInv, EarlyOK, LeaseOK, StampOK, TypeOK, Orderly, StartOK, TreeOK, Running,
           HeldWithHandle, HoldsLease, Starting, Early, Unspawned, Claim, End, GoTo, claims,
           processes
  <1>5. OneRunningTree'
    BY ClaimCases DEF Orderly, OneRunningTree, Running, processes
  <1> QED  BY <1>1, <1>2, <1>3, <1>4, <1>5 DEF Orderly

LEMMA ForceReleaseOrderly ==
    ASSUME LeaseInv, Coordinated, ~Detaches, Orderly, ~probed',
           NEW a \in Attempts, ForceRelease(a)
    PROVE Orderly'
  <1>1. /\ pc[a] = "release" /\ pc' = [pc EXCEPT ![a] = "reclaim"] /\ owner = a
        /\ lease' = None
        /\ UNCHANGED <<owner, stamp, sessions, index, sidecars, writers, condemned>>
    BY DEF ForceRelease, GoTo, claims, processes, LeaseInv, EarlyOK, Early, Unspawned
  <1>2. \A b \in Attempts : StartOK(b)'
    BY <1>1, LeaseAssumption
       DEF LeaseInv, TypeOK, Orderly, StartOK, Running, Starting, Early, Unspawned
  <1>3. ASSUME NEW b \in Attempts PROVE TreeOK(b)'
    <2>1. CASE b = a
      BY <1>1, <2>1
         DEF LeaseInv, EarlyOK, TypeOK, Orderly, StartOK, TreeOK, Running, Unspawned
    <2>2. CASE b # a
      <3>1. pc'[b] = pc[b] /\ b \notin sessions
        BY <1>1, <2>2 DEF LeaseInv, TypeOK, Orderly, StartOK, Starting, Early, Unspawned
      <3>2. Running(b) => ~HeldWithHandle(b)
        BY <1>1 DEF LeaseInv, RivalOK, Running, HeldWithHandle, HoldsLease
      <3> QED  BY <1>1, <3>1, <3>2 DEF Orderly, TreeOK, Running
    <2> QED  BY <2>1, <2>2
  <1>4. OneRunningTree' /\ writers' \subseteq sidecars'
    BY <1>1 DEF Orderly, OneRunningTree, Running
  <1> QED  BY <1>2, <1>3, <1>4 DEF Orderly

LEMMA SetKillHandleOrderly ==
    ASSUME LeaseInv, Coordinated, ~Detaches, Orderly, ~probed',
           NEW a \in Attempts, SetKillHandle(a)
    PROVE Orderly'
  <1>1. /\ pc[a] = "spawned" /\ pc' = [pc EXCEPT ![a] = "creating"]
        /\ HoldsLease(a) /\ lease' = [lease EXCEPT !.handle = a] /\ owner = a
        /\ UNCHANGED <<owner, stamp, sessions, index, sidecars, writers, condemned>>
    BY DEF SetKillHandle, GoTo, claims, processes, Orderly, StartOK, Starting, Early,
           Unspawned
  <1>2. lease \in Leases /\ lease' \in Leases
    BY <1>1, NoLeaseAssumption DEF LeaseInv, TypeOK, Optional, Leases, HoldsLease
  <1>3. HeldWithHandle(a)'
    BY <1>1, <1>2, NoLeaseAssumption DEF HeldWithHandle, HoldsLease, Leases
  <1>4. ASSUME NEW b \in Attempts PROVE StartOK(b)'
    <2>1. CASE b = a
      BY <1>1, <1>3, <2>1
         DEF LeaseInv, TypeOK, Orderly, StartOK, Running, Starting, Early, Unspawned
    <2>2. CASE b # a
      BY <1>1, <2>2 DEF LeaseInv, TypeOK, Orderly, StartOK, Starting, Early, Unspawned
    <2> QED  BY <2>1, <2>2
  <1>5. \A b \in Attempts : TreeOK(b)'
    BY LeaseAssumption, NoLeaseAssumption
       DEF LeaseInv, EarlyOK, LeaseOK, StampOK, TypeOK, Orderly, StartOK, TreeOK, Running,
           HeldWithHandle, HoldsLease, Starting, Early, Unspawned, SetKillHandle, GoTo,
           claims, processes
  <1>6. OneRunningTree' /\ writers' \subseteq sidecars'
    BY <1>1 DEF Orderly, OneRunningTree, Running
  <1> QED  BY <1>4, <1>5, <1>6 DEF Orderly

LEMMA CommitOrderly ==
    ASSUME LeaseInv, Coordinated, ~Detaches, Orderly, ~probed',
           NEW a \in Attempts, Commit(a)
    PROVE Orderly'
  <1>1. pc[a] = "commit" /\ owner = a
    BY DEF Commit, Orderly, StartOK, Starting, Early, Unspawned
  <1>2. /\ pc' = [pc EXCEPT ![a] = "live"] /\ stamp' = a
        /\ UNCHANGED <<lease, owner, sessions, index, sidecars, writers, condemned>>
    BY <1>1 DEF Commit, GoTo, maps
  <1>3. stamp \in Attempts => pc[stamp] \in {"live", "done"}
    BY LeaseAssumption DEF LeaseInv, StampOK
  <1>4. \A b \in Attempts : StartOK(b)'
    BY <1>1, <1>2
       DEF LeaseInv, TypeOK, Orderly, StartOK, HeldWithHandle, HoldsLease, Running,
           Starting, Early, Unspawned
  <1>5. ASSUME NEW b \in Attempts PROVE TreeOK(b)'
    <2>1. CASE b = a
      BY <1>1, <1>2, <2>1
         DEF LeaseInv, TypeOK, Orderly, TreeOK, Running, Starting, Unspawned
    <2>2. CASE b # a
      <3>1. ~Running(b)
        BY <1>1, <2>2 DEF Orderly, StartOK, Starting, Early, Unspawned
      <3> QED  BY <1>2, <3>1 DEF Orderly, TreeOK, Running
    <2> QED  BY <2>1, <2>2
  <1>6. OneRunningTree' /\ writers' \subseteq sidecars'
    BY <1>2 DEF Orderly, OneRunningTree, Running
  <1> QED  BY <1>4, <1>5, <1>6 DEF Orderly

LEMMA ConsumerExitOrderly ==
    ASSUME LeaseInv, Coordinated, ~Detaches, Orderly, ~probed',
           NEW a \in Attempts, ConsumerExit(a)
    PROVE Orderly'
  <1>1. /\ a \in sessions /\ a \notin sidecars /\ index = a
        /\ sessions' = sessions \ {a}
        /\ owner' = IF owner = stamp THEN None ELSE owner
        /\ UNCHANGED <<lease, pc, sidecars, writers, condemned, probed>>
    BY DEF ConsumerExit, processes, Orderly, TreeOK
  <1>2. \A b \in Attempts : Running(b)' <=> Running(b)
    BY <1>1 DEF Running
  <1>3. ~Running(a)
    BY <1>1 DEF Orderly, Running
  <1>4. ASSUME NEW b \in Attempts PROVE StartOK(b)'
    <2>1. pc[b] \in Starting => owner # stamp
      BY LeaseAssumption DEF LeaseInv, StampOK, Orderly, StartOK, Starting, Early, Unspawned
    <2> QED  BY <1>1, <1>2, <2>1 DEF Orderly, StartOK, HeldWithHandle, HoldsLease
  <1>5. ASSUME NEW b \in Attempts PROVE TreeOK(b)'
    BY <1>1, <1>2, <1>3, LeaseAssumption
       DEF LeaseInv, StampOK, TypeOK, Orderly, TreeOK, HeldWithHandle, HoldsLease,
           ConsumerExit, Unindex
  <1>6. OneRunningTree' /\ writers' \subseteq sidecars'
    BY <1>1, <1>2 DEF Orderly, OneRunningTree
  <1> QED  BY <1>4, <1>5, <1>6 DEF Orderly
-----------------------------------------------------------------------------
(* Expiry, stuttering, the initial state, and the whole step.              *)
LEMMA ExpireKeeps ==
    ASSUME LeaseInv, Expire
    PROVE  LeaseInv' /\ (Orderly => Orderly')
  <1>1. lease \in Leases /\ lease' = [lease EXCEPT !.expired = TRUE]
    BY NoLeaseAssumption DEF Expire, LeaseInv, TypeOK, Optional
  <1>2. /\ lease' \in Leases /\ lease' # None
        /\ lease'.holder = lease.holder /\ lease'.handle = lease.handle
        /\ lease'.revoked = lease.revoked
    BY <1>1, NoLeaseAssumption DEF Leases
  <1>3. UNCHANGED <<binding, pc, victim, armed, sessions, consumed, index, owner, stamp,
                    sidecars, writers, condemned, probed>>
    BY DEF Expire, claims, processes
  <1>4. LeaseInv'
    BY <1>1, <1>2, <1>3, NoLeaseAssumption
       DEF LeaseInv, TypeOK, Optional, EarlyOK, RivalOK, LeaseOK, StampOK
  <1>5. Orderly => Orderly'
    BY <1>1, <1>2, <1>3, NoLeaseAssumption
       DEF Orderly, StartOK, TreeOK, OneRunningTree, Running, HeldWithHandle, HoldsLease
  <1> QED  BY <1>4, <1>5

LEMMA StutterKeeps ==
    ASSUME LeaseInv, UNCHANGED vars
    PROVE  LeaseInv' /\ (Orderly => Orderly')
  <1>1. LeaseInv'
    BY DEF vars, LeaseInv, TypeOK, EarlyOK, RivalOK, LeaseOK, StampOK
  <1>2. Orderly => Orderly'
    BY DEF vars, Orderly, StartOK, TreeOK, OneRunningTree, Running, HeldWithHandle,
           HoldsLease
  <1> QED  BY <1>1, <1>2

LEMMA LeaseInit == Init => LeaseInv /\ Orderly
  <1> SUFFICES ASSUME Init PROVE LeaseInv /\ Orderly
    OBVIOUS
  <1>1. LeaseInv
    BY NoLeaseAssumption, LeaseAssumption
       DEF Init, LeaseInv, TypeOK, Optional, Pcs, EarlyOK, RivalOK, LeaseOK, StampOK,
           Early, Unspawned
  <1>2. Orderly
    BY DEF Init, Orderly, StartOK, TreeOK, OneRunningTree, Running, Starting, Early,
           Unspawned
  <1> QED  BY <1>1, <1>2

LEMMA LeaseNext ==
    ASSUME Coordinated, LeaseInv, [Next]_vars
    PROVE  LeaseInv'
  <1>1. CASE UNCHANGED vars
    BY <1>1, StutterKeeps
  <1>2. CASE Expire
    BY <1>2, ExpireKeeps
  <1>3. ASSUME NEW a \in Attempts, Handler(a) PROVE LeaseInv'
    BY <1>3, BeginKeeps, ClaimKeeps, ConfirmKillKeeps, ForceReleaseKeeps, SpawnFailsKeeps,
       SpawnKeeps, SetKillHandleKeeps, CreateFailsKeeps, RegisterKeeps, CompleteKeeps,
       CompleteRefusedKeeps, CommitKeeps DEF Handler
  <1>4. ASSUME NEW a \in Attempts,
               \/ Panic(a) \/ ConsumerExit(a) \/ ConsumerMisses(a) \/ KillSession(a)
               \/ KillTeardown(a) \/ Escalated(a) \/ SweepStart(a) \/ StartWriter(a)
               \/ SidecarDies(a) \/ WriterDies(a)
        PROVE  LeaseInv'
    BY <1>4, PanicKeeps, ConsumerExitKeeps, ConsumerMissesKeeps, KillSessionKeeps,
       KillTeardownKeeps, EscalatedKeeps, SweepStartKeeps, StartWriterKeeps,
       SidecarDiesKeeps, WriterDiesKeeps
  <1> QED  BY <1>1, <1>2, <1>3, <1>4 DEF Next

LEMMA OrderlyNext ==
    ASSUME Coordinated, ~Detaches, LeaseInv, Orderly, ~probed', [Next]_vars
    PROVE  Orderly'
  <1>1. CASE UNCHANGED vars
    BY <1>1, StutterKeeps
  <1>2. CASE Expire
    BY <1>2, ExpireKeeps
  <1>3. ASSUME NEW a \in Attempts, Handler(a) PROVE Orderly'
    BY <1>3, BeginOrderly, ClaimOrderly, ConfirmKillOrderly, ForceReleaseOrderly,
       SpawnFailsOrderly, SpawnOrderly, SetKillHandleOrderly, CreateFailsOrderly,
       RegisterOrderly, CompleteOrderly, CompleteRefusedOrderly, CommitOrderly DEF Handler
  <1>4. ASSUME NEW a \in Attempts,
               \/ Panic(a) \/ ConsumerExit(a) \/ ConsumerMisses(a) \/ KillSession(a)
               \/ KillTeardown(a) \/ Escalated(a) \/ SweepStart(a) \/ StartWriter(a)
               \/ SidecarDies(a) \/ WriterDies(a)
        PROVE  Orderly'
    BY <1>4, PanicOrderly, ConsumerExitOrderly, ConsumerMissesOrderly, KillSessionOrderly,
       KillTeardownOrderly, EscalatedOrderly, SweepStartOrderly, StartWriterOrderly,
       SidecarDiesOrderly, WriterDiesOrderly
  <1> QED  BY <1>1, <1>2, <1>3, <1>4 DEF Next

(* A probe's release of a start is never taken back.                       *)
LEMMA ProbedStays ==
    ASSUME [Next]_vars, probed
    PROVE  probed'
  BY DEF Next, Handler, Begin, Claim, ConfirmKill, ForceRelease, SpawnFails, Spawn,
         SetKillHandle, CreateFails, Register, Complete, CompleteRefused, Commit, Panic,
         ConsumerExit, ConsumerMisses, KillSession, KillTeardown, Escalated, SweepStart,
         StartWriter, SidecarDies, WriterDies, Expire, vars

-----------------------------------------------------------------------------
(* The theorems.                                                           *)
LEMMA Invariant ==
    ASSUME Coordinated
    PROVE  Spec => []LeaseInv
  <1>1. Init => LeaseInv
    BY LeaseInit
  <1>2. LeaseInv /\ [Next]_vars => LeaseInv'
    BY LeaseNext
  <1> QED  BY <1>1, <1>2, PTL DEF Spec

LEMMA OrderInvariant ==
    ASSUME Coordinated, ~Detaches
    PROVE  Spec => []OrderlyUnlessProbed
  <1>1. Init => OrderlyUnlessProbed
    BY LeaseInit DEF OrderlyUnlessProbed
  <1>2. LeaseInv /\ OrderlyUnlessProbed /\ [Next]_vars => OrderlyUnlessProbed'
    BY OrderlyNext, ProbedStays DEF OrderlyUnlessProbed
  <1> QED  BY <1>1, <1>2, Invariant, PTL DEF Spec

(* At most one process tree of a session runs that nobody has set out to   *)
(* kill, until the fence probe releases a start that still unwinds         *)
(* (session_lease.rs), whatever expires, fails late, panics or is killed.  *)
THEOREM OneTreeHolds ==
    ASSUME Coordinated, ~Detaches
    PROVE  Spec => []OneTreeUnlessProbed
  <1>1. OrderlyUnlessProbed => OneTreeUnlessProbed
    BY DEF OrderlyUnlessProbed, Orderly, OneTreeUnlessProbed
  <1> QED  BY <1>1, OrderInvariant, PTL

(* And the live session's claim is left alone by late exits, kills and     *)
(* failures of older sidecars (claude.rs, consumer exit).                  *)
THEOREM OwnedHolds ==
    ASSUME Coordinated, ~Detaches
    PROVE  Spec => []OwnedUnlessProbed
  <1>1. OrderlyUnlessProbed => OwnedUnlessProbed
    BY LeaseAssumption
       DEF OrderlyUnlessProbed, Orderly, TreeOK, OwnedUnlessProbed, LiveSessionIsOwned
  <1> QED  BY <1>1, OrderInvariant, PTL

(* A lease whose holder is gone can be recovered: it has a kill handle and *)
(* was never revoked (the guard's drop), probes or not.                    *)
THEOREM DroppedLeaseRecoversHolds ==
    ASSUME Coordinated
    PROVE  Spec => []DroppedLeaseRecovers
  <1>1. LeaseInv => DroppedLeaseRecovers
    BY DEF LeaseInv, LeaseOK, DroppedLeaseRecovers
  <1> QED  BY <1>1, Invariant, PTL

(* A lease ends only over a tree that is bound, condemned or gone (fail,   *)
(* complete, force_release_after_confirmed_kill), probes or not.           *)
THEOREM LeaseEndsHolds ==
    ASSUME Coordinated
    PROVE  Spec => LeaseEndsOverNoRunningTree
  <1> DEFINE Ends ==
        \A h \in Attempts : HoldsLease(h) /\ ~HoldsLease(h)' => (Running(h) => binding = h)'
  <1>1. ASSUME LeaseInv, [Next]_vars PROVE [Ends]_vars
    <2>1. ASSUME lease # None => lease' # None /\ lease'.holder = lease.holder
          PROVE  Ends
      BY <2>1 DEF HoldsLease
    <2>2. ASSUME NEW a \in Attempts, a \in condemned' \/ binding' = a,
                 lease' = None, lease # None => lease.holder = a
          PROVE  Ends
      BY <2>2 DEF HoldsLease, Running
    <2>3. ASSUME UNCHANGED lease PROVE Ends
      BY <2>3 DEF HoldsLease
    <2>4. ASSUME NEW a \in Attempts, FailLease(a),
                 a \in condemned' \/ a \notin (sidecars \cup writers)'
          PROVE  Ends
      BY <2>4, NoLeaseAssumption DEF FailLease, HoldsLease, Running
    <2>5. ASSUME NEW a \in Attempts, Handler(a) PROVE Ends
      <3>1. CASE Claim(a)
        BY <1>1, <2>1, <2>3, <3>1, ClaimCases, NoLeaseAssumption DEF Leases, Optional
      <3>2. CASE ForceRelease(a)
        <4>1. lease' = None /\ condemned' = condemned /\ pc[a] = "release"
          BY <3>2 DEF ForceRelease, processes
        <4>2. victim[a] \in condemned /\ (lease # None => lease.holder = victim[a])
          BY <1>1, <4>1 DEF LeaseInv, RivalOK
        <4> QED  BY <4>1, <4>2 DEF HoldsLease, Running
      <3>3. CASE SpawnFails(a)
        BY <1>1, <2>4, <3>3 DEF SpawnFails, LeaseInv, EarlyOK, Unspawned, processes
      <3>4. CASE CreateFails(a) \/ CompleteRefused(a)
        BY <2>4, <3>4 DEF CreateFails, CompleteRefused
      <3>5. CASE SetKillHandle(a)
        <4>1. lease # None => lease \in Leases
          BY <1>1 DEF LeaseInv, TypeOK, Optional
        <4>2. CASE HoldsLease(a)
          <5>1. lease # None /\ lease \in Leases /\ lease' = [lease EXCEPT !.handle = a]
            BY <3>5, <4>1, <4>2 DEF SetKillHandle, HoldsLease
          <5>2. lease' \in Leases
            BY <5>1 DEF Leases, Optional
          <5>3. lease'.holder = lease.holder
            BY <5>1 DEF Leases
          <5> QED  BY <2>1, <5>1, <5>2, <5>3, NoLeaseAssumption
        <4>3. CASE ~HoldsLease(a)
          BY <2>3, <3>5, <4>3 DEF SetKillHandle
        <4> QED  BY <4>2, <4>3
      <3>6. CASE Complete(a)
        BY <3>6 DEF Complete, Keeps, HoldsLease
      <3>7. CASE Begin(a) \/ ConfirmKill(a) \/ Spawn(a) \/ Register(a) \/ Commit(a)
        BY <2>3, <3>7 DEF Begin, ConfirmKill, Spawn, Register, Commit, maps
      <3> QED  BY <2>5, <3>1, <3>2, <3>3, <3>4, <3>5, <3>6, <3>7 DEF Handler
    <2>6. ASSUME NEW a \in Attempts, Panic(a) PROVE Ends
      <3>1. CASE a \in armed
        BY <2>3, <2>6, <3>1 DEF Panic
      <3>2. CASE a \notin armed
        <4>1. a \notin sessions
          BY <1>1, <2>6, <3>2 DEF Panic, LeaseInv, EarlyOK
        <4> QED  BY <2>4, <2>6, <3>2, <4>1 DEF Panic
      <3> QED  BY <3>1, <3>2
    <2>7. ASSUME NEW a \in Attempts,
                 \/ ConsumerExit(a) \/ ConsumerMisses(a) \/ KillSession(a)
                 \/ KillTeardown(a) \/ Escalated(a) \/ SweepStart(a) \/ StartWriter(a)
                 \/ SidecarDies(a) \/ WriterDies(a)
          PROVE  Ends
      BY <2>3, <2>7 DEF ConsumerExit, ConsumerMisses, KillSession, KillTeardown, Escalated,
                        SweepStart, StartWriter, SidecarDies, WriterDies, maps
    <2>8. CASE Expire
      <3>1. lease \in Leases
        BY <1>1, <2>8 DEF Expire, LeaseInv, TypeOK, Optional
      <3> QED  BY <2>8, <3>1, NoLeaseAssumption DEF Expire, HoldsLease, Leases
    <2> QED  BY <1>1, <2>5, <2>6, <2>7, <2>8 DEF Next
  <1> QED  BY <1>1, Invariant, PTL DEF Spec, LeaseEndsOverNoRunningTree
=============================================================================
