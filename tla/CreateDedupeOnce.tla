-------------------------- MODULE CreateDedupeOnce --------------------------
(***************************************************************************)
(* One running terminal per request id, proved of CreateDedupe where no    *)
(* frame carries the restore flag: for every set of frames, request ids    *)
(* and connections.                                                        *)
(*                                                                         *)
(* The invariant: a create has its own sentinel until it settles, and a    *)
(* running terminal is named by its request id's entry, as the settled     *)
(* one or as the attempt that is about to settle.  What a probe found dead *)
(* stays dead, for no terminal starts twice.                               *)
(***************************************************************************)
EXTENDS CreateDedupeProofs

Fresh == {"probe", "decide", "admitted", "captured", "queued", "create",
          "reserve", "spawn"}

Creating == {"admitted", "captured", "queued", "create", "reserve", "spawn",
             "spawned"}

(* t has its spawn behind it: it can only end from here on.                *)
Spawned(t) == t \in Attempts /\ job[t] # None /\ job[t].pc \notin Fresh

JobOK(a) ==
    job[a] # None =>
        /\ job[a].restore = FALSE
        /\ job[a].gen \in {a, None}
        /\ job[a].pc \in Creating =>
              /\ Holds(job[a].id, "InFlight")
              /\ entries[job[a].id].attempt = a
        /\ job[a].pc \in {"probe", "decide"} => Spawned(job[a].snap.term)
        /\ job[a].pc = "decide" =>
              job[a].alive \/ job[a].snap.term \notin running
        /\ job[a].pc = "spawned" => Spawned(job[a].term)
        /\ job[a].pc \in {"probeOthers", "prune"} =>
              \A p \in job[a].dead : Spawned(p[2])
        /\ job[a].pc = "prune" =>
              \A p \in job[a].dead : p[2] \notin running

EntryOK(i) ==
    Holds(i, "Settled") =>
        entries[i].restore = FALSE /\ Spawned(entries[i].term)

Named(t) ==
    LET i == job[t].id
    IN  \/ Holds(i, "Settled") /\ entries[i].term = t
        \/ /\ Holds(i, "InFlight") /\ entries[i].attempt = t
           /\ job[t].pc = "spawned" /\ job[t].term = t

OnceInv ==
    /\ \A a \in Attempts : JobOK(a)
    /\ \A i \in RequestIds : EntryOK(i)
    /\ \A t \in running : Spawned(t) /\ Named(t)

-----------------------------------------------------------------------------
(* A step of one attempt, or of none.                                      *)

(* No settled create of a running terminal is replaced.                    *)
SettledStand ==
    \A k \in RequestIds :
        /\ Holds(k, "Settled")
        /\ entries[k].term \in running /\ entries[k].term \in running'
        => entries'[k] = entries[k]

OthersStand(a) ==
    \A k \in RequestIds :
        Holds(k, "InFlight") /\ entries[k].attempt # a =>
            StandsNext(k) /\ entries'[k].attempt = entries[k].attempt

OthersStay(a) == \A b \in Attempts : b # a => job'[b] = job[b]

(* Only a starts, and only if its spawn is not behind it.                  *)
StartsOnly(a) ==
    /\ running' \subseteq running \cup {a}
    /\ Spawned(a) => Spawned(a)' /\ running' \subseteq running

NoNewSettled ==
    \A k \in RequestIds : Holds(k, "Settled")' => entries'[k] = entries[k]

Once == OnceInv' /\ SettledStand

LEMMA SpawnedStays ==
    ASSUME NEW a \in Attempts, OthersStay(a), StartsOnly(a)
    PROVE  /\ \A t \in Attempts : Spawned(t) => Spawned(t)'
           /\ \A t \in Attempts :
                 Spawned(t) /\ t \notin running => t \notin running'
  BY DEF OthersStay, StartsOnly, Spawned

LEMMA OnceStep ==
    ASSUME TypeOK, OnceInv, NEW a \in Attempts,
           OthersStay(a), StartsOnly(a), OthersStand(a), SettledStand,
           JobOK(a)', \A k \in RequestIds : EntryOK(k)',
           a \in running' => Spawned(a)' /\ Named(a)'
    PROVE  Once
  <1>1. \A b \in Attempts : JobOK(b)'
    <2> SUFFICES ASSUME NEW b \in Attempts, b # a, job[b] # None
                 PROVE  JobOK(b)'
      BY DEF OthersStay, JobOK
    <2>1. /\ JobOK(b) /\ job'[b] = job[b] /\ job[b] \in Jobs
          /\ job[b].id \in RequestIds
      BY DEF OnceInv, OthersStay, TypeOK, Jobs
    <2>2. /\ job[b].restore = FALSE
          /\ job[b].gen \in {b, None}
      BY <2>1 DEF JobOK
    <2>3. ASSUME job[b].pc \in Creating
          PROVE  Holds(job[b].id, "InFlight")' /\ entries'[job[b].id].attempt = b
      BY <2>1, <2>3 DEF JobOK, OthersStand, StandsNext, Holds
    <2>4. ASSUME job[b].pc \in {"probe", "decide"}
          PROVE  Spawned(job[b].snap.term)'
      <3>1. Spawned(job[b].snap.term) /\ job[b].snap.term \in Attempts
        BY <2>1, <2>4 DEF JobOK, Spawned
      <3>2. Spawned(job[b].snap.term)
              => job[job[b].snap.term] # None /\ job[job[b].snap.term].pc \notin Fresh
        BY DEF Spawned
      <3> QED  BY <2>1, <3>1, <3>2 DEF Spawned, OthersStay, StartsOnly
    <2>5. ASSUME job[b].pc = "decide"
          PROVE  job[b].alive \/ job[b].snap.term \notin running'
      BY <2>1, <2>5, SpawnedStays DEF JobOK, Spawned
    <2>6. ASSUME job[b].pc = "spawned"
          PROVE  Spawned(job[b].term)'
      BY <2>1, <2>6 DEF JobOK, Spawned, OthersStay, StartsOnly
    <2>7. ASSUME job[b].pc \in {"probeOthers", "prune"}, NEW p \in job[b].dead
          PROVE  Spawned(p[2])'
      BY <2>1, <2>7 DEF JobOK, Spawned, OthersStay, StartsOnly
    <2>8. ASSUME job[b].pc = "prune", NEW p \in job[b].dead
          PROVE  p[2] \notin running'
      BY <2>1, <2>8, SpawnedStays DEF JobOK, Spawned
    <2> QED
      BY <2>1, <2>2, <2>3, <2>4, <2>5, <2>6, <2>7, <2>8
         DEF JobOK, Spawned
  <1>2. \A t \in running' : Spawned(t)' /\ Named(t)'
    <2> SUFFICES ASSUME NEW t \in running', t # a
                 PROVE  Spawned(t)' /\ Named(t)'
      OBVIOUS
    <2>1. t \in running /\ Spawned(t) /\ Named(t)
      BY DEF StartsOnly, OnceInv
    <2>2. /\ t \in Attempts /\ job'[t] = job[t]
          /\ job[t].id \in RequestIds
      BY <2>1 DEF Spawned, OthersStay, TypeOK, Jobs
    <2>3. Spawned(t)'
      BY <2>1, <2>2 DEF Spawned
    <2>4. Named(t)'
      BY <2>1, <2>2 DEF Named, OthersStand, StandsNext, SettledStand, Holds
    <2> QED  BY <2>3, <2>4
  <1> QED  BY <1>1, <1>2 DEF Once, OnceInv

LEMMA EntriesOK ==
    ASSUME OnceInv, NEW a \in Attempts, OthersStay(a), StartsOnly(a),
           NoNewSettled
    PROVE  \A k \in RequestIds : EntryOK(k)'
  <1> SUFFICES ASSUME NEW k \in RequestIds, Holds(k, "Settled")'
               PROVE  entries'[k].restore = FALSE /\ Spawned(entries[k].term)'
    BY DEF EntryOK
  <1>1. entries'[k] = entries[k] /\ Holds(k, "Settled")
    BY DEF NoNewSettled, Holds
  <1>2. entries[k].restore = FALSE /\ Spawned(entries[k].term)
    BY <1>1 DEF OnceInv, EntryOK
  <1> QED  BY <1>1, <1>2, SpawnedStays DEF Spawned

(* The map is left alone, and no terminal starts.                          *)
LEMMA QuietStep ==
    ASSUME TypeOK, OnceInv, NEW a \in Attempts, NEW pc, Moves(a, pc),
           UNCHANGED entries, running' \subseteq running,
           Spawned(a) => pc \notin Fresh,
           job[a].pc = "spawned" => a \notin running',
           JobOK(a)'
    PROVE  Once
  <1>1. OthersStay(a) /\ job'[a] # None
    BY NoneAssumption DEF Moves, OthersStay
  <1>2. StartsOnly(a)
    BY <1>1 DEF StartsOnly, Spawned, Moves
  <1>3. OthersStand(a) /\ SettledStand /\ NoNewSettled
    BY DEF OthersStand, StandsNext, SettledStand, NoNewSettled, Holds
  <1>4. a \in running' => Spawned(a)' /\ Named(a)'
    <2> SUFFICES ASSUME a \in running'
                 PROVE  Spawned(a)' /\ Named(a)'
      OBVIOUS
    <2>1. Spawned(a) /\ Named(a) /\ job[a].pc # "spawned"
      BY DEF OnceInv
    <2> QED  BY <2>1, <1>2 DEF StartsOnly, Named, Moves, Holds
  <1> QED  BY <1>1, <1>2, <1>3, <1>4, EntriesOK, OnceStep

(* No job steps, and no terminal starts.                                   *)
LEMMA IdleStep ==
    ASSUME OnceInv, UNCHANGED <<entries, job>>, running' \subseteq running
    PROVE  Once
  <1>1. \A a \in Attempts : JobOK(a)'
    BY DEF OnceInv, JobOK, Spawned, Holds
  <1>2. \A k \in RequestIds : EntryOK(k)'
    BY DEF OnceInv, EntryOK, Spawned, Holds
  <1>3. \A t \in running' : Spawned(t)' /\ Named(t)'
    BY DEF OnceInv, Spawned, Named, Holds
  <1> QED  BY <1>1, <1>2, <1>3 DEF Once, OnceInv, SettledStand

-----------------------------------------------------------------------------
(* The fields of a job after a step.                                       *)

LEMMA GoToKeeps ==
    ASSUME TypeOK, NEW a \in Attempts, job[a] # None, NEW pc, GoTo(a, pc)
    PROVE  /\ job'[a].gen = job[a].gen /\ job'[a].term = job[a].term
           /\ job'[a].snap = job[a].snap /\ job'[a].alive = job[a].alive
           /\ job'[a].dead = job[a].dead
  BY DEF GoTo, TypeOK, Jobs

LEMMA RefreshKeeps ==
    ASSUME TypeOK, NEW a \in Attempts, NEW pc, Refresh(a, pc)
    PROVE  job'[a].gen = None
  BY DEF Refresh, Frame, TypeOK

LEMMA TermKeeps ==
    ASSUME TypeOK, NEW a \in Attempts, job[a] # None, NEW t,
           job' = [job EXCEPT ![a].term = t, ![a].pc = "spawned"]
    PROVE  job'[a].gen = job[a].gen /\ job'[a].term = t
  BY DEF TypeOK, Jobs

LEMMA ProbeKeeps ==
    ASSUME TypeOK, NEW a \in Attempts, Probe(a)
    PROVE  /\ job'[a].gen = job[a].gen /\ job'[a].snap = job[a].snap
           /\ job'[a].alive = (job[a].snap.term \in running)
  <1>1. job[a] \in Jobs
    BY DEF Probe, At, TypeOK
  <1>2. job'[a] = [job[a] EXCEPT !.alive = job[a].snap.term \in running,
                                 !.pc = "decide"]
    BY DEF Probe, TypeOK
  <1> QED  BY <1>1, <1>2 DEF Jobs

LEMMA SettleKeeps ==
    ASSUME TypeOK, NEW a \in Attempts, Settle(a)
    PROVE  /\ job'[a].gen = job[a].gen
           /\ \A p \in job'[a].dead :
                 \E k \in RequestIds : Holds(k, "Settled") /\ p[2] = entries[k].term
  <1> DEFINE i == job[a].id
             d == {<<k, entries[k].term>> :
                      k \in {n \in RequestIds \ {i} : Holds(n, "Settled")}}
  <1>1. job[a] \in Jobs
    BY DEF Settle, At, TypeOK
  <1>2. job'[a].gen = job[a].gen /\ job'[a].dead = d
    BY <1>1 DEF Settle, TypeOK, Jobs
  <1> QED  BY <1>2

LEMMA ProbeOthersKeeps ==
    ASSUME TypeOK, NEW a \in Attempts, ProbeOthers(a)
    PROVE  /\ job'[a].gen = job[a].gen
           /\ \A p \in job'[a].dead : p \in job[a].dead /\ p[2] \notin running
  <1>1. job[a] \in Jobs
    BY DEF ProbeOthers, At, TypeOK
  <1>2. /\ job'[a].gen = job[a].gen
        /\ job'[a].dead = {p \in job[a].dead : p[2] \notin running}
    BY <1>1 DEF ProbeOthers, TypeOK, Jobs
  <1> QED  BY <1>2

-----------------------------------------------------------------------------
(* Each action.                                                            *)

(* The job is not where its fields matter, or has its own sentinel there.  *)
LEMMA PlainJob ==
    ASSUME OnceInv, NEW a \in Attempts, NEW pc, Moves(a, pc),
           job'[a].gen \in {a, None},
           pc \notin {"probe", "decide", "spawned", "probeOthers", "prune"},
           \/ pc \notin Creating
           \/ UNCHANGED entries /\ job[a].pc \in Creating,
           job[a] # None
    PROVE  JobOK(a)'
  <1>1. JobOK(a)
    BY DEF OnceInv
  <1> QED  BY <1>1 DEF JobOK, Moves, Holds

(* Steps of the lanes that leave the map and the terminals alone.          *)
LEMMA WalkOnce ==
    ASSUME TypeOK, OnceInv, NEW a \in Attempts, NEW pc, job[a] # None,
           Moves(a, pc), job'[a].gen \in {a, None},
           UNCHANGED entries, running' \subseteq running,
           pc \notin {"probe", "decide", "spawned", "probeOthers", "prune"},
           pc \notin Creating \/ job[a].pc \in Creating,
           Spawned(a) => pc \notin Fresh,
           job[a].pc = "spawned" => a \notin running'
    PROVE  Once
  BY PlainJob, QuietStep

LEMMA ProbeOnce ==
    ASSUME DedupeInv, OnceInv, NEW a \in Attempts, Probe(a)
    PROVE  Once
  <1>1. TypeOK /\ UNCHANGED <<entries, running>> /\ job[a].pc = "probe"
        /\ job[a] # None
    BY DEF DedupeInv, Probe, At
  <1>2. Moves(a, "decide") /\ JobOK(a)
    BY <1>1, ProbeMoves DEF OnceInv
  <1>3. Spawned(job[a].snap.term)
    BY <1>1, <1>2 DEF JobOK
  <1>4. /\ job'[a].gen = job[a].gen /\ job'[a].snap = job[a].snap
        /\ job'[a].alive = (job[a].snap.term \in running)
    BY <1>1, ProbeKeeps
  <1> DEFINE t == job[a].snap.term
  <1>5. t \in Attempts /\ t # a /\ job[t] # None /\ job[t].pc \notin Fresh
    BY <1>1, <1>3 DEF Spawned, Fresh
  <1>6. job'[t] = job[t] /\ job'[a].snap.term = t
    BY <1>2, <1>4, <1>5 DEF Moves
  <1>7. Spawned(job[a].snap.term)'
    BY <1>5, <1>6 DEF Spawned
  <1>8. JobOK(a)'
    BY <1>1, <1>2, <1>4, <1>6, <1>7 DEF JobOK, Moves, Creating
  <1> QED  BY <1>1, <1>2, <1>8, QuietStep DEF Fresh, Spawned

LEMMA NoteKeeps ==
    ASSUME TypeOK, NEW c \in Conns, NEW i \in RequestIds,
           Holds(i, "InFlight"), NoteDuplicate(c, i)
    PROVE  /\ \A k \in RequestIds : k # i => entries'[k] = entries[k]
           /\ StandsNext(i) /\ entries'[i].attempt = entries[i].attempt
  <1>1. CASE UNCHANGED entries
    BY <1>1 DEF Holds, StandsNext
  <1>2. CASE entries' = [entries EXCEPT ![i].waiters = @ \cup {c}]
    <2>1. /\ entries'[i] = [entries[i] EXCEPT !.waiters = @ \cup {c}]
          /\ \A k \in RequestIds : k # i => entries'[k] = entries[k]
      BY <1>2 DEF TypeOK
    <2>2. /\ entries'[i] \in Entries /\ entries'[i].tag = "InFlight"
          /\ entries'[i].attempt = entries[i].attempt
      BY <2>1, InFlightFields DEF Entries
    <2> QED  BY <2>1, <2>2, NoneAssumption DEF StandsNext
  <1> QED  BY <1>1, <1>2 DEF NoteDuplicate

(* Another's sentinel at i gets a waiter.                                  *)
LEMMA NoteStands ==
    ASSUME TypeOK, NEW a \in Attempts, NEW c \in Conns, NEW i \in RequestIds,
           Holds(i, "InFlight"), NoteDuplicate(c, i)
    PROVE  OthersStand(a) /\ SettledStand /\ NoNewSettled
  <1>1. /\ \A k \in RequestIds : k # i => entries'[k] = entries[k]
        /\ StandsNext(i) /\ entries'[i].attempt = entries[i].attempt
    BY NoteKeeps
  <1> QED
    BY <1>1 DEF OthersStand, StandsNext, SettledStand, NoNewSettled, Holds

(* A new sentinel of a at i, where no running terminal is settled.         *)
LEMMA SentinelStands ==
    ASSUME TypeOK, NEW a \in Attempts, NEW c \in Conns, NEW i \in RequestIds,
           entries' = [entries EXCEPT ![i] = Sentinel(a, c)],
           ~Holds(i, "InFlight"),
           Holds(i, "Settled") => entries[i].term \notin running
    PROVE  /\ OthersStand(a) /\ SettledStand /\ NoNewSettled
           /\ StandsNext(i) /\ entries'[i].attempt = a
  <1>1. /\ Sentinel(a, c) \in Entries
        /\ Sentinel(a, c).tag = "InFlight" /\ Sentinel(a, c).attempt = a
    BY DEF Sentinel, Entries
  <1>2. /\ entries'[i] = Sentinel(a, c) /\ entries'[i] # None
        /\ \A k \in RequestIds : k # i => entries'[k] = entries[k]
    BY <1>1, NoneAssumption DEF TypeOK
  <1> QED
    BY <1>1, <1>2 DEF OthersStand, StandsNext, SettledStand, NoNewSettled, Holds

LEMMA ReceiveOnce ==
    ASSUME DedupeInv, OnceInv, NEW a \in Attempts, NEW c \in Conns,
           NEW i \in RequestIds, NEW r \in {FALSE}, Receive(a, c, i, r)
    PROVE  Once
  <1>1. TypeOK /\ job[a] = None /\ ~Spawned(a) /\ a \notin running
        /\ UNCHANGED running
    BY DEF DedupeInv, Receive, Spawned, OnceInv
  <1>2. ASSUME NEW j \in Jobs, job' = [job EXCEPT ![a] = j],
               OthersStand(a), SettledStand, NoNewSettled, JobOK(a)'
        PROVE  Once
    <2>1. OthersStay(a) /\ StartsOnly(a)
      BY <1>1, <1>2 DEF OthersStay, StartsOnly, TypeOK
    <2> QED  BY <1>1, <1>2, <2>1, EntriesOK, OnceStep
  <1>3. CASE /\ entries[i] = None
             /\ entries' = [entries EXCEPT ![i] = Sentinel(a, c)]
             /\ job' = [job EXCEPT ![a] = Frame(i, c, r, "admitted")]
    <2> DEFINE j == Frame(i, c, r, "admitted")
    <2>1. /\ j \in Jobs /\ j.id = i /\ j.restore = FALSE /\ j.gen = None
          /\ j.pc = "admitted"
      BY FrameTyped DEF Frame, Pcs
    <2>2. job'[a] = j
      BY <1>3 DEF TypeOK, DedupeInv
    <2> HIDE DEF j
    <2>3. /\ OthersStand(a) /\ SettledStand /\ NoNewSettled
          /\ StandsNext(i) /\ entries'[i].attempt = a
      BY <1>1, <1>3, SentinelStands DEF Holds
    <2>4. JobOK(a)'
      BY <2>1, <2>2, <2>3 DEF JobOK, StandsNext, Holds
    <2> QED  BY <1>2, <1>3, <2>1, <2>3, <2>4 DEF j
  <1>4. CASE /\ Holds(i, "InFlight") /\ NoteDuplicate(c, i)
             /\ job' = [job EXCEPT ![a] = Frame(i, c, r, "done")]
    <2> DEFINE j == Frame(i, c, r, "done")
    <2>1. /\ j \in Jobs /\ j.restore = FALSE /\ j.gen = None
          /\ j.pc = "done"
      BY FrameTyped DEF Frame, Pcs
    <2>2. job'[a] = j
      BY <1>4 DEF TypeOK, DedupeInv
    <2> HIDE DEF j
    <2>3. OthersStand(a) /\ SettledStand /\ NoNewSettled
      BY <1>1, <1>4, NoteStands
    <2>4. JobOK(a)'
      BY <2>1, <2>2 DEF JobOK, Creating
    <2> QED  BY <1>2, <1>4, <2>1, <2>3, <2>4 DEF j
  <1>5. CASE /\ Holds(i, "Settled") /\ UNCHANGED entries
             /\ job' = [job EXCEPT ![a] =
                           [Frame(i, c, r, "probe") EXCEPT !.snap = entries[i]]]
    <2> DEFINE j == [Frame(i, c, r, "probe") EXCEPT !.snap = entries[i]]
    <2>1. entries[i] \in Entries /\ r \in BOOLEAN /\ "probe" \in Pcs
      BY <1>1, <1>5, SettledFields DEF Pcs
    <2>2. /\ j \in Jobs /\ j.restore = FALSE /\ j.gen = None
          /\ j.pc = "probe" /\ j.snap = entries[i]
      BY <2>1, FrameTyped DEF Frame
    <2>3. job'[a] = j
      BY <1>5 DEF TypeOK, DedupeInv
    <2> HIDE DEF j
    <2>4. OthersStand(a) /\ SettledStand /\ NoNewSettled
      BY <1>5 DEF OthersStand, StandsNext, SettledStand, NoNewSettled, Holds
    <2>5. /\ Spawned(entries[i].term) /\ entries[i].term # a
          /\ entries[i].term \in Attempts
      BY <1>1, <1>5 DEF OnceInv, EntryOK, Spawned
    <2>6. job'[entries[i].term] = job[entries[i].term]
      BY <1>5, <2>5 DEF DedupeInv, TypeOK
    <2>7. Spawned(entries[i].term)'
      BY <1>5, <2>5, <2>6 DEF Spawned
    <2>8. JobOK(a)'
      BY <1>5, <2>2, <2>3, <2>7 DEF JobOK, Creating
    <2> QED  BY <1>2, <1>5, <2>2, <2>4, <2>8 DEF j
  <1> QED  BY <1>3, <1>4, <1>5 DEF Receive

LEMMA DecideOnce ==
    ASSUME DedupeInv, OnceInv, NEW a \in Attempts, Decide(a)
    PROVE  Once
  <1> DEFINE i == job[a].id
             c == job[a].conn
  <1>1. /\ TypeOK /\ job[a] # None /\ job[a] \in Jobs /\ job[a].pc = "decide"
        /\ i \in RequestIds /\ c \in Conns /\ UNCHANGED running
        /\ JobOK(a) /\ job[a].restore = FALSE /\ a \notin running
    BY DEF DedupeInv, TypeOK, Decide, At, Jobs, OnceInv, JobOK, Spawned, Fresh
  <1>2. ~Spawned(a)
    BY <1>1 DEF Spawned, Fresh
  <1>3. ASSUME NEW pc \in Pcs, Refresh(a, pc),
               pc \in {"done", "admitted"},
               OthersStand(a), SettledStand, NoNewSettled,
               pc = "admitted" => StandsNext(i) /\ entries'[i].attempt = a
        PROVE  Once
    <2>1. Moves(a, pc) /\ job'[a].gen = None
      BY <1>1, <1>3, RefreshMoves, RefreshKeeps
    <2>2. OthersStay(a) /\ StartsOnly(a)
      BY <1>1, <1>2, <2>1 DEF OthersStay, StartsOnly, Moves
    <2>3. JobOK(a)'
      <3>1. job'[a].restore = FALSE /\ job'[a].id = i /\ job'[a].pc = pc
        BY <1>1, <2>1 DEF Moves
      <3>2. /\ pc \in Creating => pc = "admitted"
            /\ pc \notin {"probe", "decide", "spawned", "probeOthers", "prune"}
        BY <1>3 DEF Creating
      <3> QED  BY <1>3, <2>1, <3>1, <3>2 DEF JobOK, StandsNext, Holds
    <2> QED  BY <1>1, <1>3, <2>2, <2>3, EntriesOK, OnceStep
  <1>4. CASE Holds(i, "InFlight") /\ NoteDuplicate(c, i) /\ Refresh(a, "done")
    BY <1>1, <1>3, <1>4, NoteStands DEF Pcs
  <1>5. CASE UNCHANGED entries /\ Refresh(a, "done")
    <2>1. OthersStand(a) /\ SettledStand /\ NoNewSettled
      BY <1>5 DEF OthersStand, StandsNext, SettledStand, NoNewSettled, Holds
    <2> QED  BY <1>3, <1>5, <2>1 DEF Pcs
  <1>6. CASE /\ ~Holds(i, "InFlight") /\ ~Replays(a)
             /\ entries' = [entries EXCEPT ![i] = Sentinel(a, c)]
             /\ Refresh(a, "admitted")
    <2>1. Holds(i, "Settled") => entries[i].term \notin running
      <3> SUFFICES ASSUME Holds(i, "Settled"), entries[i].term \in running
                   PROVE  FALSE
        OBVIOUS
      <3>1. entries[i].restore = job[a].restore
        BY <1>1 DEF OnceInv, EntryOK
      <3>2. entries[i] = job[a].snap /\ ~job[a].alive
        BY <1>6, <3>1 DEF Replays
      <3>3. job[a].alive \/ job[a].snap.term \notin running
        BY <1>1 DEF JobOK
      <3>4. job[a].snap.term = entries[i].term
        BY <3>2
      <3> QED  BY <3>2, <3>3, <3>4
    <2>2. /\ OthersStand(a) /\ SettledStand /\ NoNewSettled
          /\ StandsNext(i) /\ entries'[i].attempt = a
      BY <1>1, <1>6, <2>1, SentinelStands
    <2> QED  BY <1>3, <1>6, <2>2 DEF Pcs
  <1> QED  BY <1>4, <1>5, <1>6 DEF Decide

LEMMA LaneOnce ==
    ASSUME DedupeInv, OnceInv, NEW a \in Attempts,
           \/ Capture(a) \/ Enqueue(a) \/ AbandonRestore(a) \/ StartRestore(a)
    PROVE  Once
  <1>1. /\ TypeOK /\ job[a] # None /\ job[a] \in Jobs
        /\ job[a].id \in RequestIds
        /\ JobOK(a) /\ job[a].restore = FALSE /\ job[a].gen \in {a, None}
    BY DEF DedupeInv, TypeOK, Capture, Enqueue, AbandonRestore, StartRestore,
           At, Jobs, OnceInv, JobOK
  <1>2. /\ UNCHANGED <<entries, running>>
        /\ job[a].pc \in {"admitted", "captured"}
        /\ Capture(a) \/ Enqueue(a)
    BY <1>1 DEF Capture, Enqueue, AbandonRestore, StartRestore, At
  <1>3. job[a].pc \in Creating /\ ~Spawned(a) /\ job[a].pc # "spawned"
    BY <1>2 DEF Creating, Fresh, Spawned
  <1>4. CASE Capture(a)
    <2>1. Holds(job[a].id, "InFlight") /\ entries[job[a].id].attempt = a
      BY <1>1, <1>3 DEF JobOK
    <2>2. Moves(a, "captured") /\ job'[a].gen = a
      BY <1>1, <1>4, <2>1, CaptureMoves
    <2> QED  BY <1>1, <1>2, <1>3, <2>2, WalkOnce
  <1>5. CASE Enqueue(a)
    <2>1. PICK pc \in {"queued", "drop"} : GoTo(a, pc)
      BY <1>5 DEF Enqueue
    <2>2. Moves(a, pc) /\ job'[a].gen = job[a].gen
      BY <1>1, <2>1, GoToMoves DEF Pcs
    <2>3. pc \notin {"probe", "decide", "spawned", "probeOthers", "prune"}
      BY <2>1
    <2> QED  BY <1>1, <1>2, <1>3, <2>2, <2>3, WalkOnce
  <1> QED  BY <1>2, <1>4, <1>5

LEMMA AdoptOnce ==
    ASSUME DedupeInv, OnceInv, NEW a \in Attempts, job[a] # None,
           job[a].pc \in {"create", "spawn"}, NEW t \in running,
           job' = [job EXCEPT ![a].term = t, ![a].pc = "spawned"],
           UNCHANGED <<entries, running>>
    PROVE  Once
  <1>1. /\ TypeOK /\ JobOK(a) /\ t \in Attempts /\ Spawned(t)
        /\ ~Spawned(a) /\ job[a].pc \in Creating
    BY DEF DedupeInv, OnceInv, TypeOK, Spawned, Fresh, Creating
  <1>2. /\ Moves(a, "spawned") /\ job'[a].gen = job[a].gen
        /\ job'[a].term = t
    BY <1>1, TermMoves
  <1>3. Spawned(t)'
    BY <1>1, <1>2 DEF Spawned, Moves
  <1>4. JobOK(a)'
    BY <1>1, <1>2, <1>3 DEF JobOK, Moves, Holds
  <1> QED  BY <1>1, <1>2, <1>4, QuietStep

LEMMA SpawnOnce ==
    ASSUME DedupeInv, OnceInv, NEW a \in Attempts, Spawn(a)
    PROVE  Once
  <1>1. /\ TypeOK /\ JobOK(a) /\ job[a] # None /\ job[a].pc = "spawn"
        /\ job[a].pc \in Creating /\ ~Spawned(a)
        /\ UNCHANGED entries /\ running' = running \cup {a}
    BY DEF DedupeInv, OnceInv, Spawn, At, Spawned, Fresh, Creating
  <1>2. /\ Moves(a, "spawned") /\ job'[a].gen = job[a].gen
        /\ job'[a].term = a
    BY <1>1, TermMoves DEF Spawn
  <1>3. OthersStay(a) /\ StartsOnly(a) /\ Spawned(a)'
    BY <1>1, <1>2, NoneAssumption
       DEF OthersStay, StartsOnly, Moves, Spawned, Fresh
  <1>4. OthersStand(a) /\ SettledStand /\ NoNewSettled
    BY <1>1 DEF OthersStand, StandsNext, SettledStand, NoNewSettled, Holds
  <1>5. Holds(job[a].id, "InFlight") /\ entries[job[a].id].attempt = a
    BY <1>1 DEF JobOK
  <1>6. Named(a)'
    BY <1>1, <1>2, <1>5 DEF Named, Moves, Holds
  <1>7. JobOK(a)'
    BY <1>1, <1>2, <1>3, <1>5 DEF JobOK, Moves, Holds
  <1> QED  BY <1>1, <1>3, <1>4, <1>6, <1>7, EntriesOK, OnceStep

LEMMA CreateOnce ==
    ASSUME DedupeInv, OnceInv, NEW a \in Attempts,
           \/ LookForLive(a) \/ Reserve(a) \/ FailCreate(a)
           \/ AttachLive(a) \/ LoseSpawn(a)
    PROVE  Once
  <1>1. /\ TypeOK /\ job[a] # None /\ job[a] \in Jobs
        /\ job[a].pc \in {"create", "reserve", "spawn", "spawned"}
        /\ UNCHANGED entries
    BY DEF DedupeInv, LookForLive, Reserve, FailCreate, AttachLive, LoseSpawn,
           At, TypeOK
  <1>2. job[a].pc \in Creating /\ job[a].gen \in {a, None}
    BY <1>1 DEF Creating, OnceInv, JobOK
  <1>3. job[a].pc # "spawned" => ~Spawned(a)
    BY <1>1 DEF Spawned, Fresh
  <1>4. ASSUME NEW pc \in {"create", "reserve", "spawn"}, Moves(a, pc),
               job'[a].gen = job[a].gen, job[a].pc # "spawned",
               running' \subseteq running
        PROVE  Once
    BY <1>1, <1>2, <1>3, <1>4, WalkOnce
  <1>5. ASSUME Return(a), running' \subseteq running,
               job[a].pc = "spawned" => a \notin running'
        PROVE  Once
    <2>1. Moves(a, "returned") /\ job'[a].gen = job[a].gen
      BY <1>1, <1>5, ReturnMoves
    <2>2. "returned" \notin Fresh /\ "returned" \notin Creating
      BY DEF Fresh, Creating
    <2> QED  BY <1>1, <1>2, <1>5, <2>1, <2>2, WalkOnce
  <1>6. CASE LookForLive(a)
    <2>1. job[a].pc = "create" /\ UNCHANGED running
      BY <1>6 DEF LookForLive, At
    <2>2. CASE \E pc \in {"spawn", "reserve"} : GoTo(a, pc)
      <3>1. PICK pc \in {"spawn", "reserve"} : GoTo(a, pc)
        BY <2>2
      <3>2. Moves(a, pc) /\ job'[a].gen = job[a].gen
        BY <1>1, <3>1, GoToMoves DEF Pcs
      <3> QED  BY <1>4, <2>1, <3>2
    <2>3. CASE \E t \in running :
                  job' = [job EXCEPT ![a].term = t, ![a].pc = "spawned"]
      BY <1>1, <2>1, <2>3, AdoptOnce
    <2> QED  BY <1>6, <2>2, <2>3 DEF LookForLive, Newest
  <1>7. CASE Reserve(a)
    <2>1. job[a].pc = "reserve" /\ UNCHANGED running
      BY <1>7 DEF Reserve, At
    <2>2. /\ Moves(a, "spawn") \/ Moves(a, "create")
          /\ job'[a].gen = job[a].gen
      BY <1>1, <1>7, ReserveMoves
    <2> QED  BY <1>4, <2>1, <2>2
  <1>8. CASE FailCreate(a)
    BY <1>1, <1>5, <1>8 DEF FailCreate
  <1>9. CASE AttachLive(a)
    <2>1. job[a].pc = "spawn"
      BY <1>9 DEF AttachLive, At
    <2>2. CASE Return(a) /\ \E t \in running : Reap({t})
      BY <1>5, <2>1, <2>2 DEF Reap
    <2>3. CASE \E t \in running :
                  /\ job' = [job EXCEPT ![a].term = t, ![a].pc = "spawned"]
                  /\ UNCHANGED running
      BY <1>1, <2>1, <2>3, AdoptOnce
    <2> QED  BY <1>9, <2>2, <2>3 DEF AttachLive
  <1>10. CASE LoseSpawn(a)
    BY <1>5, <1>10 DEF LoseSpawn, Reap
  <1> QED  BY <1>6, <1>7, <1>8, <1>9, <1>10

LEMMA SettleOnce ==
    ASSUME DedupeInv, OnceInv, NEW a \in Attempts, Settle(a)
    PROVE  Once
  <1> DEFINE i == job[a].id
             e == [tag |-> "Settled", term |-> job[a].term,
                   restore |-> job[a].restore]
  <1>1. /\ TypeOK /\ JobOK(a) /\ job[a] # None /\ job[a] \in Jobs
        /\ i \in RequestIds /\ job[a].pc = "spawned" /\ UNCHANGED running
        /\ job[a].term \in Attempts /\ job[a].pc \in Creating
        /\ job[a].restore = FALSE
    BY DEF DedupeInv, OnceInv, TypeOK, Settle, At, Jobs, Creating,
           AllPlaced, Placed, JobOK
  <1>2. /\ Holds(i, "InFlight") /\ entries[i].attempt = a
        /\ Spawned(job[a].term) /\ Spawned(a)
    <2>1. Holds(i, "InFlight") /\ entries[i].attempt = a
      BY <1>1 DEF JobOK
    <2>2. Spawned(job[a].term)
      BY <1>1 DEF JobOK
    <2> QED  BY <1>1, <2>1, <2>2 DEF Spawned, Fresh
  <1>3. e \in Entries /\ e # None
    <2>1. e \in Entries
      BY <1>1 DEF Entries
    <2> QED  BY <2>1, NoneAssumption
  <1>4. /\ e.tag = "Settled" /\ e.term = job[a].term /\ e.restore = FALSE
        /\ entries' = [entries EXCEPT ![i] = e]
    BY <1>1 DEF Settle
  <1> HIDE DEF e
  <1>5. /\ entries'[i] = e
        /\ \A k \in RequestIds : k # i => entries'[k] = entries[k]
    BY <1>1, <1>4 DEF TypeOK
  <1>6. Moves(a, "probeOthers") /\ job'[a].gen = job[a].gen
    BY <1>1, SettleMoves, SettleKeeps
  <1>7. OthersStay(a) /\ StartsOnly(a) /\ Spawned(a)'
    BY <1>1, <1>6, NoneAssumption
       DEF OthersStay, StartsOnly, Moves, Spawned, Fresh
  <1>8. OthersStand(a) /\ SettledStand
    BY <1>2, <1>5 DEF OthersStand, StandsNext, SettledStand, Holds
  <1>9. \A k \in RequestIds : EntryOK(k)'
    <2> SUFFICES ASSUME NEW k \in RequestIds, Holds(k, "Settled")'
                 PROVE  entries'[k].restore = FALSE /\ Spawned(entries[k].term)'
      BY DEF EntryOK
    <2>1. \A t : Spawned(t) => Spawned(t)'
      BY <1>7 DEF Spawned, OthersStay
    <2>2. CASE k = i
      <3>1. entries'[k].restore = FALSE /\ entries'[k].term = job[a].term
        BY <1>4, <1>5, <2>2
      <3>2. Spawned(entries'[k].term)
        BY <1>2, <3>1
      <3> QED  BY <2>1, <3>1, <3>2 DEF Spawned
    <2>3. CASE k # i
      <3>1. entries'[k] = entries[k] /\ Holds(k, "Settled")
        BY <1>5, <2>3 DEF Holds
      <3>2. entries[k].restore = FALSE /\ Spawned(entries[k].term)
        BY <3>1 DEF OnceInv, EntryOK
      <3> QED  BY <2>1, <3>1, <3>2 DEF Spawned
    <2> QED  BY <2>2, <2>3
  <1>10. JobOK(a)'
    <2>1. \A p \in job'[a].dead : Spawned(p[2])
      BY <1>1, SettleKeeps DEF OnceInv, EntryOK
    <2>2. \A p \in job'[a].dead : Spawned(p[2])'
      BY <1>7, <2>1 DEF Spawned, OthersStay
    <2> QED  BY <1>1, <1>6, <2>2 DEF JobOK, Moves, Creating
  <1>11. a \in running' => Named(a)'
    <2> SUFFICES ASSUME a \in running
                 PROVE  Named(a)'
      BY <1>1
    <2>1. job[a].term = a
      BY <1>2 DEF OnceInv, Named, Holds
    <2>2. job'[a].id = i
      BY <1>6 DEF Moves
    <2> QED  BY <1>3, <1>4, <1>5, <2>1, <2>2 DEF Named, Holds
  <1> QED  BY <1>1, <1>7, <1>8, <1>9, <1>10, <1>11, OnceStep

LEMMA ProbeOthersOnce ==
    ASSUME DedupeInv, OnceInv, NEW a \in Attempts, ProbeOthers(a)
    PROVE  Once
  <1>1. /\ TypeOK /\ JobOK(a) /\ job[a] # None /\ job[a].pc = "probeOthers"
        /\ UNCHANGED <<entries, running>>
    BY DEF DedupeInv, OnceInv, ProbeOthers, At
  <1>2. /\ Moves(a, "prune") /\ job'[a].gen = job[a].gen
        /\ \A p \in job'[a].dead : p \in job[a].dead /\ p[2] \notin running
    BY <1>1, ProbeOthersMoves, ProbeOthersKeeps
  <1>3. \A t : Spawned(t) => Spawned(t)'
    BY <1>2, NoneAssumption DEF Spawned, Moves, Fresh
  <1>4. \A p \in job'[a].dead : Spawned(p[2])
    BY <1>1, <1>2 DEF JobOK
  <1>5. \A p \in job'[a].dead : Spawned(p[2])'
    BY <1>2, <1>4, NoneAssumption DEF Spawned, Moves, Fresh
  <1>6. JobOK(a)'
    BY <1>1, <1>2, <1>5 DEF JobOK, Moves, Creating
  <1> QED  BY <1>1, <1>2, <1>6, QuietStep DEF Fresh

LEMMA PruneOnce ==
    ASSUME DedupeInv, OnceInv, NEW a \in Attempts, Prune(a)
    PROVE  Once
  <1>1. /\ TypeOK /\ JobOK(a) /\ job[a] # None /\ job[a].pc = "prune"
        /\ Return(a) /\ UNCHANGED running
    BY DEF DedupeInv, OnceInv, Prune, At
  <1>2. /\ Moves(a, "returned") /\ job'[a].gen = job[a].gen
    BY <1>1, ReturnMoves
  <1>3. OthersStay(a) /\ StartsOnly(a)
    BY <1>1, <1>2, NoneAssumption
       DEF OthersStay, StartsOnly, Moves, Spawned, Fresh
  <1>4. \A k \in RequestIds :
           entries'[k] = IF Holds(k, "Settled") /\ <<k, entries[k].term>> \in job[a].dead
                         THEN None ELSE entries[k]
    BY DEF Prune
  <1>5. OthersStand(a) /\ NoNewSettled
    BY <1>4 DEF OthersStand, StandsNext, NoNewSettled, Holds
  <1>6. SettledStand
    <2> SUFFICES ASSUME NEW k \in RequestIds, Holds(k, "Settled"),
                        entries[k].term \in running
                 PROVE  entries'[k] = entries[k]
      BY DEF SettledStand
    <2>1. ASSUME <<k, entries[k].term>> \in job[a].dead
          PROVE  FALSE
      <3>1. \A p \in job[a].dead : p[2] \notin running
        BY <1>1 DEF JobOK
      <3> QED  BY <2>1, <3>1
    <2> QED  BY <1>4, <2>1
  <1>7. JobOK(a)'
    BY <1>1, <1>2 DEF JobOK, Moves, Creating
  <1>8. a \in running' => Spawned(a)' /\ Named(a)'
    <2> SUFFICES ASSUME a \in running
                 PROVE  Spawned(a)' /\ Named(a)'
      BY <1>1
    <2>1. Spawned(a) /\ Named(a) /\ job[a].id \in RequestIds
      BY <1>1, <1>2 DEF OnceInv, Moves, Jobs
    <2>2. Holds(job[a].id, "Settled") /\ entries[job[a].id].term = a
      BY <1>1, <2>1 DEF Named
    <2>3. entries'[job[a].id] = entries[job[a].id]
      BY <1>1, <1>6, <2>1, <2>2 DEF SettledStand
    <2> QED  BY <1>2, <1>3, <2>1, <2>2, <2>3 DEF StartsOnly, Named, Moves, Holds
  <1> QED  BY <1>1, <1>3, <1>5, <1>6, <1>7, <1>8, EntriesOK, OnceStep

LEMMA EndOnce ==
    ASSUME DedupeInv, OnceInv, NEW a \in Attempts,
           ClearRestore(a) \/ EndRestore(a) \/ EndInteractive(a) \/ DropJob(a)
    PROVE  Once
  <1>1. /\ TypeOK /\ JobOK(a) /\ job[a] # None /\ job[a] \in Jobs
        /\ job[a].id \in RequestIds
        /\ job[a].pc \in {"returned", "cleared", "drop"}
        /\ job[a].gen \in {a, None} /\ job[a].restore = FALSE
        /\ running' \subseteq running
    BY DEF DedupeInv, OnceInv, TypeOK, Jobs, ClearRestore, EndRestore,
           EndInteractive, DropJob, At, JobOK, Reap
  <1>2. {"done", "drop"} \cap (Fresh \cup Creating) = {}
    BY DEF Fresh, Creating
  <1>3. ~ClearRestore(a)
    BY <1>1 DEF ClearRestore
  <1>4. CASE EndRestore(a)
    <2>1. Moves(a, "done") /\ job'[a].gen = None /\ UNCHANGED entries
      BY <1>1, <1>4, RefreshMoves, RefreshKeeps DEF EndRestore, Pcs
    <2> QED  BY <1>1, <1>2, <2>1, WalkOnce
  <1>5. CASE EndInteractive(a)
    <2>1. /\ Moves(a, "drop") /\ job'[a].gen = job[a].gen
          /\ UNCHANGED entries
      BY <1>1, <1>5, GoToMoves DEF EndInteractive, Pcs
    <2> QED  BY <1>1, <1>2, <2>1, WalkOnce
  <1>6. CASE DropJob(a)
    <2>1. /\ Moves(a, "done") /\ job'[a].gen = None
          /\ job[a].pc = "drop" /\ UNCHANGED running
      BY <1>1, <1>6, RefreshMoves, RefreshKeeps DEF DropJob, Pcs, At
    <2>2. CASE UNCHANGED entries
      BY <1>1, <1>2, <2>1, <2>2, WalkOnce
    <2>3. CASE /\ Holds(job[a].id, "InFlight")
               /\ entries[job[a].id].attempt = job[a].gen
               /\ entries' = [entries EXCEPT ![job[a].id] = None]
      <3>1. entries[job[a].id].attempt = a
        BY <1>1, <2>3, InFlightFields, NoneAssumption
      <3>2. /\ entries'[job[a].id] = None
            /\ \A k \in RequestIds : k # job[a].id => entries'[k] = entries[k]
        BY <1>1, <2>3 DEF TypeOK
      <3>3. OthersStand(a) /\ SettledStand /\ NoNewSettled
        BY <2>3, <3>1, <3>2
           DEF OthersStand, StandsNext, SettledStand, NoNewSettled, Holds
      <3>4. OthersStay(a) /\ StartsOnly(a)
        BY <1>1, <2>1, NoneAssumption
           DEF OthersStay, StartsOnly, Moves, Spawned, Fresh
      <3>5. JobOK(a)'
        BY <1>1, <2>1 DEF JobOK, Moves, Creating
      <3>6. a \notin running
        BY <2>1, <2>3 DEF OnceInv, Named, Holds
      <3> QED  BY <1>1, <2>1, <3>3, <3>4, <3>5, <3>6, EntriesOK, OnceStep
    <2> QED
      BY <1>6, <2>2, <2>3 DEF DropJob, ClearMatching, ClearSentinel
  <1> QED  BY <1>3, <1>4, <1>5, <1>6

LEMMA StartJobOnce ==
    ASSUME DedupeInv, OnceInv, NEW c \in Conns, StartJob(c)
    PROVE  Once
  <1> DEFINE a == Head(queue[c])
  <1>1. TypeOK /\ UNCHANGED <<entries, running>>
    BY DEF DedupeInv, StartJob
  <1>2. queue[c] \in Seq(Attempts) /\ queue[c] # <<>>
    BY <1>1 DEF StartJob, TypeOK
  <1>3. a \in Attempts /\ a = queue[c][1] /\ 1 \in 1..Len(queue[c])
    BY <1>2
  <1>4. At(a, "queued")
    BY <1>3 DEF DedupeInv, QueueOK
  <1> HIDE DEF a
  <1>5. /\ job[a] # None /\ job[a].pc = "queued" /\ job[a].pc \in Creating
        /\ job[a].gen \in {a, None} /\ ~Spawned(a)
    BY <1>3, <1>4 DEF At, Creating, Spawned, Fresh, OnceInv, JobOK
  <1>6. PICK pc \in {"create", "drop"} : GoTo(a, pc)
    BY DEF StartJob, a
  <1>7. Moves(a, pc) /\ job'[a].gen = job[a].gen
    BY <1>1, <1>3, <1>5, <1>6, GoToMoves DEF Pcs
  <1>8. pc \notin {"probe", "decide", "spawned", "probeOthers", "prune"}
    BY <1>6
  <1> QED  BY <1>1, <1>3, <1>5, <1>7, <1>8, WalkOnce

-----------------------------------------------------------------------------
(* The theorems.                                                           *)

LEMMA OnceInit == ASSUME Init PROVE OnceInv
  BY NoneAssumption DEF Init, OnceInv, JobOK, EntryOK, Holds

LEMMA OnceNext ==
    ASSUME DedupeInv, OnceInv, [Next]_vars, Restores \subseteq {FALSE}
    PROVE  Once
  <1>1. ASSUME NEW a \in Attempts, NEW c \in Conns, NEW i \in RequestIds,
               NEW r \in Restores, Receive(a, c, i, r)
        PROVE  Once
    BY <1>1, ReceiveOnce
  <1>2. ASSUME NEW a \in Attempts, Work(a)
        PROVE  Once
    BY <1>2, ProbeOnce, DecideOnce, LaneOnce, CreateOnce, SpawnOnce,
       SettleOnce, ProbeOthersOnce, PruneOnce, EndOnce DEF Work
  <1>3. ASSUME NEW t \in Attempts, Exit(t)
        PROVE  Once
    BY <1>3, IdleStep DEF Exit, Reap
  <1>4. ASSUME NEW c \in Conns, StartJob(c)
        PROVE  Once
    BY <1>4, StartJobOnce
  <1>5. CASE BeginShutdown \/ Sweep \/ UNCHANGED vars
    BY <1>5, IdleStep DEF BeginShutdown, Sweep, Reap, vars
  <1> QED  BY <1>1, <1>2, <1>3, <1>4, <1>5 DEF Next

(* Where no restore flag is used, resends never make a second running      *)
(* terminal of one request id (create_dedupe.rs, begin and settle).        *)
THEOREM OneTerminalPerRequest ==
    ASSUME Restores \subseteq {FALSE}
    PROVE  Spec => []NoDuplicateTerminal
  <1>1. Init => OnceInv
    BY OnceInit
  <1>2. DedupeInv /\ OnceInv /\ [Next]_vars => OnceInv'
    BY OnceNext DEF Once
  <1>3. DedupeInv /\ OnceInv => NoDuplicateTerminal
    <2> SUFFICES ASSUME DedupeInv, OnceInv, NEW s \in running, NEW t \in running,
                        job[s].id = job[t].id
                 PROVE  s = t
      BY DEF NoDuplicateTerminal
    <2> QED  BY DEF OnceInv, Named, Holds
  <1> QED  BY <1>1, <1>2, <1>3, DedupeInvariant, PTL DEF Spec

(* And a settled create answers its resends for as long as its terminal    *)
(* runs: nothing evicts or replaces it (begin's and settle's re-check).    *)
THEOREM SettledEntriesStand ==
    ASSUME Restores \subseteq {FALSE}
    PROVE  Spec => SettledKept
  <1>1. Init => OnceInv
    BY OnceInit
  <1>2. DedupeInv /\ OnceInv /\ [Next]_vars => OnceInv'
    BY OnceNext DEF Once
  <1> DEFINE Kept ==
         \A i \in RequestIds :
           Holds(i, "Settled") /\ entries[i].term \in running /\ entries[i].term \in running'
              => entries'[i] = entries[i]
  <1>3. DedupeInv /\ OnceInv /\ [Next]_vars => [Kept]_vars
    BY OnceNext DEF Once, SettledStand
  <1> QED  BY <1>1, <1>2, <1>3, DedupeInvariant, PTL DEF Spec, SettledKept

-----------------------------------------------------------------------------
(* A sentinel is ended by its own attempt.                                 *)

(* i's sentinel is still there, or its attempt took a step.                *)
OwnEnd(i) ==
    \/ StandsNext(i) /\ entries'[i].attempt = entries[i].attempt
    \/ job'[entries[i].attempt].pc # job[entries[i].attempt].pc

LEMMA DecideEnds ==
    ASSUME DedupeInv, NEW a \in Attempts, Decide(a),
           NEW i \in RequestIds, Holds(i, "InFlight")
    PROVE  OwnEnd(i)
  <1> DEFINE k == job[a].id
  <1>1. /\ TypeOK /\ k \in RequestIds /\ job[a].conn \in Conns
    BY DEF DedupeInv, TypeOK, Decide, At, Jobs
  <1>2. CASE Holds(k, "InFlight") /\ NoteDuplicate(job[a].conn, k)
    BY <1>1, <1>2, NoteKeeps DEF OwnEnd, StandsNext, Holds
  <1>3. CASE UNCHANGED entries
    BY <1>3 DEF OwnEnd, StandsNext, Holds
  <1>4. CASE /\ ~Holds(k, "InFlight")
             /\ entries' = [entries EXCEPT ![k] = Sentinel(a, job[a].conn)]
    <2>1. i # k /\ entries'[i] = entries[i]
      BY <1>1, <1>4 DEF TypeOK
    <2> QED  BY <2>1 DEF OwnEnd, StandsNext, Holds
  <1> QED  BY <1>2, <1>3, <1>4 DEF Decide

LEMMA SettleEnds ==
    ASSUME DedupeInv, OnceInv, NEW a \in Attempts, Settle(a),
           NEW i \in RequestIds, Holds(i, "InFlight")
    PROVE  OwnEnd(i)
  <1>1. /\ TypeOK /\ job[a] # None /\ job[a].pc = "spawned"
        /\ job[a].id \in RequestIds
    BY DEF DedupeInv, TypeOK, Settle, At, Jobs
  <1>2. entries[job[a].id].attempt = a
    BY <1>1 DEF OnceInv, JobOK, Creating
  <1>3. job'[a].pc = "probeOthers"
    BY <1>1, SettleMoves DEF Moves
  <1>4. i # job[a].id => entries'[i] = entries[i]
    BY <1>1 DEF Settle, TypeOK
  <1> QED  BY <1>1, <1>2, <1>3, <1>4 DEF OwnEnd, StandsNext, Holds

LEMMA PruneEnds ==
    ASSUME NEW a \in Attempts, Prune(a),
           NEW i \in RequestIds, Holds(i, "InFlight")
    PROVE  OwnEnd(i)
  <1>1. entries'[i] = entries[i]
    BY DEF Prune, Holds
  <1> QED  BY <1>1 DEF OwnEnd, StandsNext, Holds

LEMMA DropEnds ==
    ASSUME DedupeInv, OnceInv, NEW a \in Attempts, DropJob(a),
           NEW i \in RequestIds, Holds(i, "InFlight")
    PROVE  OwnEnd(i)
  <1>1. /\ TypeOK /\ job[a] # None /\ job[a].pc = "drop"
        /\ job[a].id \in RequestIds /\ job[a].gen \in {a, None}
    BY DEF DedupeInv, TypeOK, DropJob, At, Jobs, OnceInv, JobOK
  <1>2. job'[a].pc = "done"
    BY <1>1, RefreshMoves DEF DropJob, Moves, Pcs
  <1>3. CASE UNCHANGED entries
    BY <1>3 DEF OwnEnd, StandsNext, Holds
  <1>4. CASE /\ entries' = [entries EXCEPT ![job[a].id] = None]
             /\ entries[job[a].id].attempt = job[a].gen
             /\ Holds(job[a].id, "InFlight")
    <2>1. entries[job[a].id].attempt = a
      <3>1. entries[job[a].id].attempt \in Attempts
        BY <1>1, <1>4, InFlightFields
      <3> QED  BY <1>1, <1>4, <3>1, NoneAssumption
    <2>2. i # job[a].id => entries'[i] = entries[i]
      BY <1>1, <1>4 DEF TypeOK
    <2> QED  BY <1>1, <1>2, <2>1, <2>2 DEF OwnEnd, StandsNext, Holds
  <1> QED  BY <1>3, <1>4 DEF DropJob, ClearMatching, ClearSentinel

LEMMA ReceiveEnds ==
    ASSUME TypeOK, NEW a \in Attempts, NEW c \in Conns, NEW k \in RequestIds,
           NEW r, Receive(a, c, k, r), NEW i \in RequestIds, Holds(i, "InFlight")
    PROVE  OwnEnd(i)
  <1>1. CASE entries[k] = None /\ entries' = [entries EXCEPT ![k] = Sentinel(a, c)]
    <2>1. i # k /\ entries'[i] = entries[i]
      BY <1>1 DEF TypeOK, Holds
    <2> QED  BY <2>1 DEF OwnEnd, StandsNext, Holds
  <1>2. CASE Holds(k, "InFlight") /\ NoteDuplicate(c, k)
    BY <1>2, NoteKeeps DEF OwnEnd, StandsNext, Holds
  <1>3. CASE UNCHANGED entries
    BY <1>3 DEF OwnEnd, StandsNext, Holds
  <1> QED  BY <1>1, <1>2, <1>3 DEF Receive

LEMMA StepEnds ==
    ASSUME DedupeInv, OnceInv, [Next]_vars, NEW i \in RequestIds,
           Holds(i, "InFlight")
    PROVE  OwnEnd(i)
  <1>1. UNCHANGED entries => OwnEnd(i)
    BY DEF OwnEnd, StandsNext, Holds
  <1>2. ASSUME NEW a \in Attempts, Work(a) PROVE OwnEnd(i)
    <2>1. \/ UNCHANGED entries
          \/ Decide(a) \/ Settle(a) \/ Prune(a) \/ DropJob(a)
          \/ AbandonRestore(a) \/ ClearRestore(a)
      BY <1>2 DEF Work, Probe, Capture, Enqueue, StartRestore, LookForLive,
                  Reserve, FailCreate, Spawn, AttachLive, LoseSpawn,
                  ProbeOthers, EndRestore, EndInteractive
    <2>2. ~AbandonRestore(a) /\ ~ClearRestore(a)
      BY DEF OnceInv, JobOK, AbandonRestore, ClearRestore, At
    <2> QED  BY <1>1, <2>1, <2>2, DecideEnds, SettleEnds, PruneEnds, DropEnds
  <1>3. ASSUME NEW a \in Attempts, NEW c \in Conns, NEW k \in RequestIds,
               NEW r \in Restores, Receive(a, c, k, r)
        PROVE  OwnEnd(i)
    BY <1>3, ReceiveEnds DEF DedupeInv
  <1>4. ASSUME NEW t \in Attempts, Exit(t) PROVE OwnEnd(i)
    BY <1>1, <1>4 DEF Exit
  <1>5. ASSUME NEW c \in Conns, StartJob(c) PROVE OwnEnd(i)
    BY <1>1, <1>5 DEF StartJob
  <1>6. BeginShutdown \/ Sweep \/ UNCHANGED vars => OwnEnd(i)
    BY <1>1 DEF BeginShutdown, Sweep, vars
  <1> QED  BY <1>2, <1>3, <1>4, <1>5, <1>6 DEF Next

(* A completed worker never clears a newer attempt's sentinel: only an     *)
(* attempt's own steps end it (clear_matching_generation, settle).         *)
THEOREM NewerAttemptsKept ==
    ASSUME Restores \subseteq {FALSE}
    PROVE  Spec => NewerAttemptKept
  <1> DEFINE Kept ==
         \A i \in RequestIds :
           Holds(i, "InFlight") =>
              \/ entries'[i] # None /\ entries'[i].tag = "InFlight"
                    /\ entries'[i].attempt = entries[i].attempt
              \/ job'[entries[i].attempt].pc # job[entries[i].attempt].pc
  <1>1. Init => OnceInv
    BY OnceInit
  <1>2. DedupeInv /\ OnceInv /\ [Next]_vars => OnceInv'
    BY OnceNext DEF Once
  <1>3. DedupeInv /\ OnceInv /\ [Next]_vars => [Kept]_vars
    BY StepEnds DEF OwnEnd, StandsNext
  <1> QED  BY <1>1, <1>2, <1>3, DedupeInvariant, PTL DEF Spec, NewerAttemptKept

=============================================================================
