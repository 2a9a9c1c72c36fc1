------------------------- MODULE CreateDedupeProofs -------------------------
(***************************************************************************)
(* Proofs about CreateDedupe, for every set of frames, request ids and     *)
(* connections, and whichever restore flags the frames carry.              *)
(***************************************************************************)
EXTENDS CreateDedupe, TLAPS

-----------------------------------------------------------------------------
(* One attempt takes a step to pc and stays the same frame.                *)
Moves(a, pc) ==
    /\ job[a] \in Jobs
    /\ job' \in [Attempts -> Jobs \cup {None}]
    /\ job'[a] \in Jobs
    /\ job'[a].pc = pc
    /\ job'[a].id = job[a].id
    /\ job'[a].conn = job[a].conn
    /\ job'[a].restore = job[a].restore
    /\ \A b \in Attempts : b # a => job'[b] = job[b]

LEMMA GoToMoves ==
    ASSUME TypeOK, NEW a \in Attempts, NEW pc \in Pcs, job[a] # None,
           GoTo(a, pc)
    PROVE  /\ Moves(a, pc)
           /\ job'[a].gen = job[a].gen
           /\ job'[a].waiters = job[a].waiters
  <1>1. job[a] \in Jobs
    BY DEF TypeOK
  <1>2. job'[a] = [job[a] EXCEPT !.pc = pc]
    BY DEF TypeOK, GoTo
  <1>3. job'[a] \in Jobs
    BY <1>1, <1>2 DEF Jobs
  <1> QED  BY <1>1, <1>2, <1>3 DEF TypeOK, GoTo, Moves, Jobs

LEMMA FrameTyped ==
    ASSUME NEW i \in RequestIds, NEW c \in Conns, NEW r \in BOOLEAN,
           NEW pc \in Pcs
    PROVE  /\ Frame(i, c, r, pc) \in Jobs
           /\ \A gen \in Attempts \cup {None} :
                 [Frame(i, c, r, pc) EXCEPT !.gen = gen] \in Jobs
           /\ \A e \in Entries :
                 [Frame(i, c, r, pc) EXCEPT !.snap = e] \in Jobs
  BY DEF Frame, Jobs

LEMMA RefreshMoves ==
    ASSUME TypeOK, NEW a \in Attempts, NEW pc \in Pcs, job[a] # None,
           Refresh(a, pc)
    PROVE  Moves(a, pc)
  <1>1. job[a] \in Jobs
    BY DEF TypeOK
  <1>2. job'[a] = Frame(job[a].id, job[a].conn, job[a].restore, pc)
    BY DEF TypeOK, Refresh
  <1>3. job'[a] \in Jobs
    <2>1. /\ job[a].id \in RequestIds /\ job[a].conn \in Conns
          /\ job[a].restore \in BOOLEAN
      BY <1>1 DEF Jobs
    <2> QED  BY <2>1, <1>2, FrameTyped
  <1> QED  BY <1>1, <1>2, <1>3 DEF TypeOK, Refresh, Moves, Jobs, Frame

LEMMA ReturnMoves ==
    ASSUME TypeOK, NEW a \in Attempts, job[a] # None, Return(a)
    PROVE  /\ Moves(a, "returned")
           /\ job'[a].gen = job[a].gen
           /\ keyed' \subseteq RequestIds
  <1>1. job[a] \in Jobs
    BY DEF TypeOK
  <1> DEFINE f == Frame(job[a].id, job[a].conn, job[a].restore, "returned")
  <1>2. job'[a] = [f EXCEPT !.gen = job[a].gen]
    BY DEF TypeOK, Return
  <1>3. job'[a] \in Jobs
    <2>1. /\ job[a].id \in RequestIds /\ job[a].conn \in Conns
          /\ job[a].restore \in BOOLEAN /\ job[a].gen \in Attempts \cup {None}
          /\ "returned" \in Pcs
      BY <1>1 DEF Jobs, Pcs
    <2> QED  BY <2>1, <1>2, FrameTyped
  <1>4. /\ job'[a].pc = "returned"
        /\ job'[a].id = job[a].id
        /\ job'[a].conn = job[a].conn
        /\ job'[a].restore = job[a].restore
        /\ job'[a].gen = job[a].gen
    BY <1>2 DEF Frame
  <1> QED  BY <1>1, <1>3, <1>4 DEF TypeOK, Return, Moves

-----------------------------------------------------------------------------
(* What the guard's map keeps over a step: every sentinel there is was     *)
(* there, and every promise there is was made and is still on its list.    *)
NoNewSentinel ==
    \A i \in RequestIds : Holds(i, "InFlight")' =>
        Holds(i, "InFlight") /\ entries'[i].attempt = entries[i].attempt

(* i has a sentinel after the step.                                        *)
StandsNext(i) == entries'[i] # None /\ entries'[i].tag = "InFlight"

Listed(p) == Holds(p[2], "InFlight") /\ p[1] \in entries[p[2]].waiters

PromisesKept ==
    \A p \in waiting' : Listed(p)' \/ (p \in waiting /\ ~Listed(p))

MapTyped ==
    /\ entries \in [RequestIds -> Entries \cup {None}]
    /\ waiting \subseteq Conns \X RequestIds

LEMMA InFlightFields ==
    ASSUME TypeOK, NEW i \in RequestIds, Holds(i, "InFlight")
    PROVE  /\ entries[i] \in [tag : {"InFlight"}, attempt : Attempts,
                               origin : Conns, waiters : SUBSET Conns]
           /\ entries[i] \in Entries
  BY DEF TypeOK, Holds, Entries

LEMMA SettledFields ==
    ASSUME TypeOK, NEW i \in RequestIds, Holds(i, "Settled")
    PROVE  /\ entries[i] \in [tag : {"Settled"}, term : Attempts,
                               restore : BOOLEAN]
           /\ entries[i] \in Entries
  BY DEF TypeOK, Holds, Entries

LEMMA UnchangedMap ==
    ASSUME TypeOK, UNCHANGED <<entries, waiting>>
    PROVE  NoNewSentinel /\ PromisesKept /\ MapTyped'
  BY DEF NoNewSentinel, PromisesKept, MapTyped, TypeOK, Holds, Listed

LEMMA NoteDuplicateFacts ==
    ASSUME TypeOK, NEW c \in Conns, NEW i \in RequestIds,
           Holds(i, "InFlight"), NoteDuplicate(c, i)
    PROVE  NoNewSentinel /\ PromisesKept /\ MapTyped'
  <1>1. CASE entries[i].origin = c
    BY <1>1, UnchangedMap DEF NoteDuplicate
  <1>2. CASE entries[i].origin # c
    <2> DEFINE e == [entries[i] EXCEPT !.waiters = @ \cup {c}]
    <2>1. /\ entries' = [entries EXCEPT ![i] = e]
          /\ waiting' = waiting \cup {<<c, i>>}
      BY <1>2 DEF NoteDuplicate
    <2>2. /\ e \in Entries /\ e # None
          /\ e.tag = "InFlight" /\ e.attempt = entries[i].attempt
          /\ e.waiters = entries[i].waiters \cup {c}
      BY InFlightFields, NoneAssumption DEF Entries
    <2> HIDE DEF e
    <2>3. /\ entries'[i] = e
          /\ \A k \in RequestIds : k # i => entries'[k] = entries[k]
      BY <2>1 DEF TypeOK
    <2>4. MapTyped'
      BY <2>1, <2>2 DEF MapTyped, TypeOK
    <2>5. NoNewSentinel
      BY <2>2, <2>3 DEF NoNewSentinel, Holds
    <2>6. PromisesKept
      <3> SUFFICES ASSUME NEW p \in waiting'
                   PROVE  Listed(p)' \/ (p \in waiting /\ ~Listed(p))
        BY DEF PromisesKept
      <3>1. p \in waiting \/ p = <<c, i>>
        BY <2>1
      <3>2. p \in waiting => p[2] \in RequestIds
        BY DEF TypeOK
      <3>3. CASE p = <<c, i>>
        BY <3>3, <2>2, <2>3 DEF Listed, Holds
      <3>4. CASE p \in waiting /\ p[2] = i
        BY <3>4, <2>2, <2>3 DEF Listed, Holds
      <3>5. CASE p \in waiting /\ p[2] # i
        BY <3>5, <3>2, <2>3 DEF Listed, Holds
      <3> QED  BY <3>1, <3>3, <3>4, <3>5
    <2> QED  BY <2>4, <2>5, <2>6
  <1> QED  BY <1>1, <1>2

LEMMA ClearSentinelFacts ==
    ASSUME TypeOK, NEW i \in RequestIds, Holds(i, "InFlight"),
           ClearSentinel(i)
    PROVE  /\ NoNewSentinel /\ PromisesKept /\ MapTyped'
           /\ ~StandsNext(i)
  <1>1. /\ entries'[i] = None
        /\ \A k \in RequestIds : k # i => entries'[k] = entries[k]
    BY DEF ClearSentinel, TypeOK
  <1>2. MapTyped'
    BY DEF ClearSentinel, MapTyped, TypeOK
  <1>3. NoNewSentinel /\ ~StandsNext(i)
    BY <1>1 DEF NoNewSentinel, Holds, StandsNext
  <1>4. PromisesKept
    <2> SUFFICES ASSUME NEW p \in waiting'
                 PROVE  Listed(p)' \/ (p \in waiting /\ ~Listed(p))
      BY DEF PromisesKept
    <2>1. /\ p \in waiting /\ p \notin (entries[i].waiters \X {i})
          /\ p \in Conns \X RequestIds
      BY DEF ClearSentinel, TypeOK
    <2>2. p = <<p[1], p[2]>> /\ p[2] \in RequestIds
      BY <2>1
    <2>3. CASE p[2] = i
      BY <2>1, <2>2, <2>3 DEF Listed
    <2>4. CASE p[2] # i
      BY <2>1, <2>2, <2>4, <1>1 DEF Listed, Holds
    <2> QED  BY <2>3, <2>4
  <1> QED  BY <1>2, <1>3, <1>4

LEMMA ClearIfInFlightFacts ==
    ASSUME TypeOK, NEW i \in RequestIds, ClearIfInFlight(i)
    PROVE  /\ NoNewSentinel /\ PromisesKept /\ MapTyped'
           /\ ~StandsNext(i)
  <1>1. CASE Holds(i, "InFlight")
    BY <1>1, ClearSentinelFacts DEF ClearIfInFlight
  <1>2. CASE ~Holds(i, "InFlight")
    BY <1>2, UnchangedMap DEF ClearIfInFlight, Holds, StandsNext
  <1> QED  BY <1>1, <1>2

LEMMA ClearMatchingFacts ==
    ASSUME TypeOK, NEW i \in RequestIds, NEW gen, ClearMatching(i, gen)
    PROVE  /\ NoNewSentinel /\ PromisesKept /\ MapTyped'
           /\ StandsNext(i) => entries[i].attempt # gen
  <1>1. CASE Holds(i, "InFlight") /\ entries[i].attempt = gen
    BY <1>1, ClearSentinelFacts DEF ClearMatching
  <1>2. CASE ~(Holds(i, "InFlight") /\ entries[i].attempt = gen)
    BY <1>2, UnchangedMap DEF ClearMatching, Holds, StandsNext
  <1> QED  BY <1>1, <1>2

-----------------------------------------------------------------------------
(* What each step of an attempt does to its job.                           *)

LEMMA UpdateMoves ==
    ASSUME TypeOK, NEW a \in Attempts, job[a] # None, NEW j \in Jobs,
           j.id = job[a].id, j.conn = job[a].conn,
           j.restore = job[a].restore,
           job' = [job EXCEPT ![a] = j]
    PROVE  Moves(a, j.pc)
  BY DEF TypeOK, Moves

LEMMA ProbeMoves ==
    ASSUME TypeOK, NEW a \in Attempts, Probe(a)
    PROVE  Moves(a, "decide")
  <1> DEFINE b == job[a].snap.term \in running
             j == [job[a] EXCEPT !.alive = b, !.pc = "decide"]
  <1>1. job[a] \in Jobs
    BY DEF TypeOK, Probe, At
  <1>2. b \in BOOLEAN
    OBVIOUS
  <1>3. job' = [job EXCEPT ![a] = j]
    BY DEF TypeOK, Probe
  <1> HIDE DEF b
  <1>4. /\ j \in Jobs /\ j.pc = "decide" /\ j.id = job[a].id
        /\ j.conn = job[a].conn /\ j.restore = job[a].restore
    BY <1>1, <1>2 DEF Jobs, Pcs
  <1> HIDE DEF j
  <1> QED  BY <1>1, <1>3, <1>4, UpdateMoves, NoneAssumption

LEMMA CaptureMoves ==
    ASSUME TypeOK, NEW a \in Attempts, Capture(a)
    PROVE  /\ Moves(a, "captured")
           /\ Holds(job[a].id, "InFlight") =>
                 job'[a].gen = entries[job[a].id].attempt
  <1> DEFINE g == IF Holds(job[a].id, "InFlight")
                  THEN entries[job[a].id].attempt ELSE None
             j == [job[a] EXCEPT !.pc = "captured", !.gen = g]
  <1>1. job[a] \in Jobs /\ job[a].id \in RequestIds
    BY DEF TypeOK, Capture, At, Jobs
  <1>2. g \in Attempts \cup {None}
    BY <1>1, InFlightFields
  <1>3. job' = [job EXCEPT ![a] = j]
    BY DEF TypeOK, Capture
  <1>4. Holds(job[a].id, "InFlight") => g = entries[job[a].id].attempt
    OBVIOUS
  <1> HIDE DEF g
  <1>5. /\ j \in Jobs /\ j.pc = "captured" /\ j.id = job[a].id
        /\ j.conn = job[a].conn /\ j.restore = job[a].restore
        /\ j.gen = g
    BY <1>1, <1>2 DEF Jobs, Pcs
  <1> HIDE DEF j
  <1>6. job'[a] = j
    BY <1>3 DEF TypeOK
  <1> QED  BY <1>1, <1>3, <1>4, <1>5, <1>6, UpdateMoves, NoneAssumption

(* A step that changes the terminal to answer with.                        *)
LEMMA TermMoves ==
    ASSUME TypeOK, NEW a \in Attempts, job[a] # None, NEW t \in Attempts,
           job' = [job EXCEPT ![a].term = t, ![a].pc = "spawned"]
    PROVE  /\ Moves(a, "spawned")
           /\ job'[a].gen = job[a].gen
           /\ job'[a].term = t
  <1> DEFINE j == [job[a] EXCEPT !.term = t, !.pc = "spawned"]
  <1>1. job[a] \in Jobs
    BY DEF TypeOK
  <1>2. job' = [job EXCEPT ![a] = j]
    BY DEF TypeOK
  <1>3. /\ j \in Jobs /\ j.pc = "spawned" /\ j.id = job[a].id
        /\ j.conn = job[a].conn /\ j.restore = job[a].restore
        /\ j.gen = job[a].gen /\ j.term = t
    BY <1>1 DEF Jobs, Pcs
  <1> HIDE DEF j
  <1>4. job'[a] = j
    BY <1>2 DEF TypeOK
  <1>5. Moves(a, j.pc)
    BY <1>1, <1>2, <1>3, UpdateMoves
  <1> QED  BY <1>3, <1>4, <1>5

LEMMA ReserveMoves ==
    ASSUME TypeOK, NEW a \in Attempts, Reserve(a)
    PROVE  /\ Moves(a, "spawn") \/ Moves(a, "create")
           /\ job'[a].gen = job[a].gen
           /\ keyed' \subseteq RequestIds
  <1>1. job[a] \in Jobs /\ job[a] # None
    BY DEF TypeOK, Reserve, At
  <1>2. CASE GoTo(a, "create") /\ keyed' = keyed
    BY <1>1, <1>2, GoToMoves DEF Pcs, TypeOK
  <1>3. CASE GoTo(a, "spawn") /\ keyed' = keyed
    BY <1>1, <1>3, GoToMoves DEF Pcs, TypeOK
  <1>4. CASE /\ keyed' = keyed \cup {job[a].id}
             /\ job' = [job EXCEPT ![a].keyed = TRUE, ![a].pc = "spawn"]
    <2> DEFINE j == [job[a] EXCEPT !.keyed = TRUE, !.pc = "spawn"]
    <2>1. job' = [job EXCEPT ![a] = j]
      BY <1>4 DEF TypeOK
    <2>2. /\ j \in Jobs /\ j.pc = "spawn" /\ j.id = job[a].id
          /\ j.conn = job[a].conn /\ j.restore = job[a].restore
          /\ j.gen = job[a].gen
      BY <1>1 DEF Jobs, Pcs
    <2> HIDE DEF j
    <2>3. job'[a] = j
      BY <2>1 DEF TypeOK
    <2>4. job[a].id \in RequestIds
      BY <1>1 DEF Jobs
    <2>5. Moves(a, j.pc)
      BY <1>1, <2>1, <2>2, UpdateMoves
    <2> QED  BY <1>4, <2>2, <2>3, <2>4, <2>5 DEF TypeOK
  <1> QED  BY <1>2, <1>3, <1>4 DEF Reserve

LEMMA SettleMoves ==
    ASSUME TypeOK, NEW a \in Attempts, Settle(a)
    PROVE  /\ Moves(a, "probeOthers")
           /\ Holds(job[a].id, "InFlight") =>
                 job'[a].waiters = entries[job[a].id].waiters
  <1> DEFINE i == job[a].id
             w == IF Holds(i, "InFlight") THEN entries[i].waiters ELSE {}
             d == {<<k, entries[k].term>> :
                      k \in {n \in RequestIds \ {i} : Holds(n, "Settled")}}
             j == [job[a] EXCEPT !.pc = "probeOthers", !.waiters = w,
                                 !.dead = d]
  <1>1. job[a] \in Jobs /\ i \in RequestIds
    BY DEF TypeOK, Settle, At, Jobs
  <1>2. w \in SUBSET Conns
    BY <1>1, InFlightFields
  <1>3. d \in SUBSET (RequestIds \X Attempts)
    BY SettledFields
  <1>4. job' = [job EXCEPT ![a] = j]
    BY DEF TypeOK, Settle
  <1>5. Holds(i, "InFlight") => w = entries[i].waiters
    OBVIOUS
  <1> HIDE DEF w, d
  <1>6. /\ j \in Jobs /\ j.pc = "probeOthers" /\ j.id = job[a].id
        /\ j.conn = job[a].conn /\ j.restore = job[a].restore
        /\ j.waiters = w
    BY <1>1, <1>2, <1>3 DEF Jobs, Pcs
  <1> HIDE DEF j
  <1>7. job'[a] = j
    BY <1>4 DEF TypeOK
  <1> QED  BY <1>1, <1>4, <1>5, <1>6, <1>7, UpdateMoves, NoneAssumption

LEMMA ProbeOthersMoves ==
    ASSUME TypeOK, NEW a \in Attempts, ProbeOthers(a)
    PROVE  /\ Moves(a, "prune")
           /\ job'[a].waiters = job[a].waiters
  <1> DEFINE d == {p \in job[a].dead : p[2] \notin running}
             j == [job[a] EXCEPT !.dead = d, !.pc = "prune"]
  <1>1. job[a] \in Jobs
    BY DEF TypeOK, ProbeOthers, At
  <1>2. d \in SUBSET (RequestIds \X Attempts)
    BY <1>1 DEF Jobs
  <1>3. job' = [job EXCEPT ![a] = j]
    BY DEF TypeOK, ProbeOthers
  <1> HIDE DEF d
  <1>4. /\ j \in Jobs /\ j.pc = "prune" /\ j.id = job[a].id
        /\ j.conn = job[a].conn /\ j.restore = job[a].restore
        /\ j.waiters = job[a].waiters
    BY <1>1, <1>2 DEF Jobs, Pcs
  <1> HIDE DEF j
  <1>5. job'[a] = j
    BY <1>3 DEF TypeOK
  <1> QED  BY <1>1, <1>3, <1>4, <1>5, UpdateMoves, NoneAssumption

-----------------------------------------------------------------------------
(* The inductive invariant.                                                *)

(* Where an attempt can be while its sentinel stands.                      *)
Owning == {"admitted", "captured", "queued", "create", "reserve", "spawn",
           "spawned", "returned", "drop"}

(* a is on its way with i's sentinel; an interactive job has captured it.  *)
OwnedBy(i, a) ==
    /\ job[a] # None /\ job[a].id = i /\ job[a].pc \in Owning
    /\ job[a].restore \/ job[a].pc = "admitted" \/ job[a].gen = a

Owned ==
    \A i \in RequestIds :
        Holds(i, "InFlight") => OwnedBy(i, entries[i].attempt)

InteractivePcs == {"captured", "queued", "drop"}

(* A job is in its frame's lane, and knows the terminal to answer with.    *)
Placed(a) ==
    job[a] # None =>
        /\ job[a].pc \in InteractivePcs => ~job[a].restore
        /\ job[a].pc = "spawned" => job[a].term \in Attempts

AllPlaced == \A a \in Attempts : Placed(a)

(* A queue holds jobs that wait in it, each once.                          *)
QueueOK ==
    \A c \in Conns :
        /\ \A n \in 1..Len(queue[c]) :
              At(queue[c][n], "queued") /\ job[queue[c][n]].conn = c
        /\ \A m, n \in 1..Len(queue[c]) :
              queue[c][m] = queue[c][n] => m = n

(* A settling create has taken the promise over.                           *)
Taken(p, a) ==
    /\ job[a] # None /\ job[a].id = p[2]
    /\ job[a].pc \in {"probeOthers", "prune"}
    /\ p[1] \in job[a].waiters

DedupeInv == TypeOK /\ Owned /\ AllPlaced /\ QueueOK /\ WaitersHeld

-----------------------------------------------------------------------------
(* One attempt's step keeps the invariant if it leaves the others' alone.  *)

Steps(a) ==
    /\ job'[a] \in Jobs
    /\ \A b \in Attempts : b # a => job'[b] = job[b]

SentinelsOf(a) ==
    \A i \in RequestIds : Holds(i, "InFlight")' =>
        \/ entries'[i].attempt = a /\ OwnedBy(i, a)'
        \/ /\ entries'[i].attempt # a
           /\ Holds(i, "InFlight") /\ entries'[i].attempt = entries[i].attempt

PromisesOf(a) ==
    \A p \in waiting' :
        \/ Listed(p)'
        \/ Taken(p, a)'
        \/ p \in waiting /\ ~Listed(p) /\ ~Taken(p, a)

LEMMA AttemptStep ==
    ASSUME TypeOK, Owned, AllPlaced, WaitersHeld, NEW a \in Attempts,
           Steps(a), SentinelsOf(a), PromisesOf(a), Placed(a)'
    PROVE  Owned' /\ AllPlaced' /\ WaitersHeld'
  <1>1. Owned'
    <2> SUFFICES ASSUME NEW i \in RequestIds, Holds(i, "InFlight")'
                 PROVE  OwnedBy(i, entries[i].attempt)'
      BY DEF Owned
    <2>1. CASE entries'[i].attempt = a /\ OwnedBy(i, a)'
      BY <2>1 DEF OwnedBy
    <2>2. CASE /\ entries'[i].attempt # a
               /\ Holds(i, "InFlight") /\ entries'[i].attempt = entries[i].attempt
      <3>1. entries[i].attempt \in Attempts /\ OwnedBy(i, entries[i].attempt)
        BY <2>2, InFlightFields DEF Owned
      <3> QED  BY <2>2, <3>1 DEF Steps, OwnedBy
    <2> QED  BY <2>1, <2>2 DEF SentinelsOf
  <1>2. AllPlaced'
    BY DEF AllPlaced, Placed, Steps
  <1>3. WaitersHeld'
    <2> SUFFICES ASSUME NEW p \in waiting'
                 PROVE  Listed(p)' \/ \E b \in Attempts : Taken(p, b)'
      BY DEF WaitersHeld, Listed, Taken
    <2>1. CASE p \in waiting /\ ~Listed(p) /\ ~Taken(p, a)
      <3>1. PICK b \in Attempts : Taken(p, b)
        BY <2>1 DEF WaitersHeld, Listed, Taken
      <3> QED  BY <2>1, <3>1 DEF Steps, Taken
    <2> QED  BY <2>1 DEF PromisesOf
  <1> QED  BY <1>1, <1>2, <1>3

(* The common case: the sentinel of a, if it stands, stays a's.            *)
LEMMA PlainAttemptStep ==
    ASSUME TypeOK, Owned, AllPlaced, WaitersHeld,
           NEW a \in Attempts, NEW pc \in Pcs, Moves(a, pc), job[a] # None,
           NoNewSentinel, PromisesKept,
           job[a].pc \notin {"probeOthers", "prune"},
           pc \in InteractivePcs => ~job[a].restore,
           pc = "spawned" => job'[a].term \in Attempts,
           \/ job[a].pc \notin Owning
           \/ ~StandsNext(job[a].id)
           \/ entries'[job[a].id].attempt # a
           \/ /\ pc \in Owning
              /\ job[a].restore \/ job'[a].gen = a
    PROVE  Owned' /\ AllPlaced' /\ WaitersHeld'
  <1>1. Steps(a) /\ Placed(a)'
    BY DEF Moves, Steps, Placed
  <1>2. SentinelsOf(a)
    <2> SUFFICES ASSUME NEW i \in RequestIds, Holds(i, "InFlight")'
                 PROVE  \/ entries'[i].attempt = a /\ OwnedBy(i, a)'
                        \/ /\ entries'[i].attempt # a
                           /\ Holds(i, "InFlight")
                           /\ entries'[i].attempt = entries[i].attempt
      BY DEF SentinelsOf
    <2>1. /\ Holds(i, "InFlight")
          /\ entries'[i].attempt = entries[i].attempt
          /\ OwnedBy(i, entries[i].attempt)
      BY DEF NoNewSentinel, Owned
    <2>2. CASE entries[i].attempt = a
      BY <2>1, <2>2, NoneAssumption DEF OwnedBy, Moves, StandsNext, Holds
    <2> QED  BY <2>1, <2>2
  <1>3. PromisesOf(a)
    BY DEF PromisesKept, PromisesOf, Taken
  <1> QED  BY <1>1, <1>2, <1>3, AttemptStep

(* The queues are left alone by a step of an attempt that is in none.      *)
LEMMA QueueStays ==
    ASSUME TypeOK, QueueOK, UNCHANGED queue,
           NEW a \in Attempts, ~At(a, "queued"),
           \A b \in Attempts : b # a => job'[b] = job[b]
    PROVE  QueueOK'
  <1> SUFFICES ASSUME NEW c \in Conns, NEW n \in 1..Len(queue[c])
               PROVE  At(queue[c][n], "queued")' /\ job'[queue[c][n]].conn = c
    BY DEF QueueOK
  <1>1. queue[c][n] \in Attempts
    BY DEF TypeOK
  <1>2. At(queue[c][n], "queued") /\ job[queue[c][n]].conn = c
    BY DEF QueueOK
  <1> QED  BY <1>1, <1>2 DEF At

RestTyped ==
    /\ keyed \subseteq RequestIds
    /\ rows \subseteq Attempts /\ running \subseteq Attempts
    /\ older \in [Attempts -> SUBSET Attempts]
    /\ shutdown \in {"no", "started", "swept"}

LEMMA PlainStepKeepsInv ==
    ASSUME DedupeInv, NEW a \in Attempts, NEW pc \in Pcs,
           Moves(a, pc), job[a] # None,
           NoNewSentinel, PromisesKept, MapTyped', RestTyped',
           UNCHANGED queue,
           job[a].pc \notin {"probeOthers", "prune", "queued"},
           pc \in InteractivePcs => ~job[a].restore,
           pc = "spawned" => job'[a].term \in Attempts,
           \/ job[a].pc \notin Owning
           \/ ~StandsNext(job[a].id)
           \/ entries'[job[a].id].attempt # a
           \/ /\ pc \in Owning
              /\ job[a].restore \/ job'[a].gen = a
    PROVE  DedupeInv'
  <1>1. TypeOK'
    BY DEF DedupeInv, TypeOK, Moves, MapTyped, RestTyped
  <1>2. Owned' /\ AllPlaced' /\ WaitersHeld'
    BY PlainAttemptStep DEF DedupeInv
  <1>3. QueueOK'
    BY QueueStays DEF DedupeInv, Moves, At
  <1> QED  BY <1>1, <1>2, <1>3 DEF DedupeInv

(* The owner of the sentinel at a's request id, if it is a.                *)
LEMMA OwnSentinel ==
    ASSUME DedupeInv, NEW a \in Attempts, job[a] # None, NoNewSentinel,
           StandsNext(job[a].id), entries'[job[a].id].attempt = a,
           job[a].id \in RequestIds
    PROVE  job[a].restore \/ job[a].pc = "admitted" \/ job[a].gen = a
  BY DEF DedupeInv, Owned, OwnedBy, NoNewSentinel, StandsNext, Holds

(* Steps between begin's and settle's that only go to another pc.          *)
LEMMA WalkKeepsInv ==
    ASSUME DedupeInv, NEW a \in Attempts, NEW pc \in Pcs,
           Moves(a, pc), job[a] # None, job'[a].gen = job[a].gen,
           UNCHANGED <<entries, waiting, queue>>, RestTyped',
           job[a].pc \in Owning \ {"admitted", "queued"},
           pc \in Owning, pc \in InteractivePcs => ~job[a].restore,
           pc = "spawned" => job'[a].term \in Attempts
    PROVE  DedupeInv'
  <1>1. NoNewSentinel /\ PromisesKept /\ MapTyped'
    BY UnchangedMap DEF DedupeInv
  <1>2. job[a].id \in RequestIds
    BY DEF Moves, Jobs
  <1>3. /\ job[a].pc \notin {"probeOthers", "prune", "queued"}
        /\ job[a].pc # "admitted"
    BY DEF Owning
  <1>4. \/ ~StandsNext(job[a].id)
        \/ entries'[job[a].id].attempt # a
        \/ /\ pc \in Owning
           /\ job[a].restore \/ job'[a].gen = a
    BY <1>1, <1>2, <1>3, OwnSentinel
  <1>5. UNCHANGED queue
    OBVIOUS
  <1> QED  BY <1>1, <1>3, <1>4, <1>5, PlainStepKeepsInv

-----------------------------------------------------------------------------
(* Each step of an attempt keeps the invariant.                            *)

LEMMA BeginKeepsInv ==
    ASSUME DedupeInv, NEW a \in Attempts, Probe(a) \/ Decide(a)
    PROVE  DedupeInv'
  <1> USE DEF DedupeInv
  <1>1. CASE Probe(a)
    <2>1. job[a] # None /\ job[a].pc = "probe" /\ UNCHANGED queue
      BY <1>1 DEF Probe, At
    <2>2. RestTyped'
      BY <1>1 DEF Probe, RestTyped, TypeOK
    <2>3. NoNewSentinel /\ PromisesKept /\ MapTyped'
      BY <1>1, UnchangedMap DEF Probe
    <2>4. Moves(a, "decide")
      BY <1>1, ProbeMoves
    <2> QED
      BY <2>1, <2>2, <2>3, <2>4, PlainStepKeepsInv
         DEF Pcs, Owning, InteractivePcs
  <1>2. CASE Decide(a)
    <2> DEFINE i == job[a].id
    <2>1. /\ job[a] # None /\ job[a].pc = "decide" /\ UNCHANGED queue
          /\ job[a] \in Jobs /\ i \in RequestIds /\ job[a].conn \in Conns
      BY <1>2 DEF Decide, At, TypeOK, Jobs
    <2>2. RestTyped'
      BY <1>2 DEF Decide, RestTyped, TypeOK
    <2>3. CASE /\ Refresh(a, "done")
               /\ NoNewSentinel /\ PromisesKept /\ MapTyped'
      <3>1. Moves(a, "done")
        BY <2>1, <2>3, RefreshMoves DEF Pcs
      <3> QED
        BY <2>1, <2>2, <2>3, <3>1, PlainStepKeepsInv
           DEF Pcs, Owning, InteractivePcs
    <2>4. CASE /\ ~Holds(i, "InFlight")
               /\ entries' = [entries EXCEPT ![i] = Sentinel(a, job[a].conn)]
               /\ Refresh(a, "admitted") /\ UNCHANGED waiting
      <3>1. Moves(a, "admitted")
        BY <2>1, <2>4, RefreshMoves DEF Pcs
      <3>2. /\ Sentinel(a, job[a].conn) \in Entries
            /\ Sentinel(a, job[a].conn).attempt = a
        BY <2>1 DEF Sentinel, Entries
      <3>3. /\ entries'[i] = Sentinel(a, job[a].conn)
            /\ \A k \in RequestIds : k # i => entries'[k] = entries[k]
        BY <2>1, <2>4 DEF TypeOK
      <3>4. TypeOK'
        BY <2>1, <2>2, <2>4, <3>1, <3>2 DEF TypeOK, Moves, RestTyped
      <3>5. Steps(a) /\ Placed(a)'
        BY <3>1 DEF Moves, Steps, Placed, InteractivePcs
      <3>6. SentinelsOf(a)
        <4> SUFFICES ASSUME NEW k \in RequestIds, Holds(k, "InFlight")'
                     PROVE  \/ entries'[k].attempt = a /\ OwnedBy(k, a)'
                            \/ /\ entries'[k].attempt # a
                               /\ Holds(k, "InFlight")
                               /\ entries'[k].attempt = entries[k].attempt
          BY DEF SentinelsOf
        <4>1. CASE k = i
          BY <4>1, <3>1, <3>2, <3>3, NoneAssumption
             DEF OwnedBy, Moves, Owning
        <4>2. CASE k # i
          <5>1. Holds(k, "InFlight") /\ entries'[k] = entries[k]
            BY <4>2, <3>3 DEF Holds
          <5>2. entries[k].attempt # a
            BY <5>1, <2>1 DEF Owned, OwnedBy, Owning
          <5> QED  BY <5>1, <5>2
        <4> QED  BY <4>1, <4>2
      <3>7. PromisesOf(a)
        <4> SUFFICES ASSUME NEW p \in waiting
                     PROVE  Listed(p)' \/ (~Listed(p) /\ ~Taken(p, a))
          BY <2>4 DEF PromisesOf
        <4>1. p[2] \in RequestIds
          BY DEF TypeOK
        <4> QED  BY <4>1, <2>1, <2>4, <3>3 DEF Listed, Taken, Holds
      <3>8. QueueOK'
        BY <2>1, <3>1, QueueStays DEF Moves, At
      <3> QED  BY <3>4, <3>5, <3>6, <3>7, <3>8, AttemptStep
    <2>5. Holds(i, "InFlight") /\ NoteDuplicate(job[a].conn, i) =>
             NoNewSentinel /\ PromisesKept /\ MapTyped'
      BY <2>1, NoteDuplicateFacts
    <2>6. UNCHANGED <<entries, waiting>> =>
             NoNewSentinel /\ PromisesKept /\ MapTyped'
      BY UnchangedMap
    <2> QED  BY <1>2, <2>3, <2>4, <2>5, <2>6 DEF Decide
  <1> QED  BY <1>1, <1>2

LEMMA LaneKeepsInv ==
    ASSUME DedupeInv, NEW a \in Attempts,
           Capture(a) \/ Enqueue(a) \/ AbandonRestore(a) \/ StartRestore(a)
    PROVE  DedupeInv'
  <1> USE DEF DedupeInv
  <1> DEFINE i == job[a].id
  <1>1. job[a] \in Jobs /\ i \in RequestIds /\ job[a] # None
    BY DEF Capture, Enqueue, AbandonRestore, StartRestore, At, TypeOK, Jobs
  <1>2. RestTyped'
    BY DEF Capture, Enqueue, AbandonRestore, StartRestore, RestTyped, TypeOK
  <1>3. CASE Capture(a)
    <2>1. job[a].pc = "admitted" /\ ~job[a].restore /\ UNCHANGED queue
      BY <1>3 DEF Capture, At
    <2>2. NoNewSentinel /\ PromisesKept /\ MapTyped'
      BY <1>3, UnchangedMap DEF Capture
    <2>3. /\ Moves(a, "captured")
          /\ Holds(i, "InFlight") => job'[a].gen = entries[i].attempt
      BY <1>3, CaptureMoves
    <2>4. \/ ~StandsNext(i)
          \/ entries'[i].attempt # a
          \/ job'[a].gen = a
      BY <1>1, <2>2, <2>3 DEF NoNewSentinel, StandsNext, Holds
    <2> QED
      BY <1>1, <1>2, <2>1, <2>2, <2>3, <2>4, PlainStepKeepsInv
         DEF Pcs, Owning, InteractivePcs
  <1>4. CASE Enqueue(a)
    <2>1. job[a].pc = "captured" /\ UNCHANGED <<entries, waiting>>
      BY <1>4 DEF Enqueue, At
    <2>2. ~job[a].restore
      BY <1>1, <2>1 DEF AllPlaced, Placed, InteractivePcs
    <2>3. CASE GoTo(a, "drop") /\ UNCHANGED queue
      <3>1. Moves(a, "drop") /\ job'[a].gen = job[a].gen
        BY <1>1, <2>3, GoToMoves DEF Pcs
      <3> QED
        BY <1>1, <1>2, <2>1, <2>2, <2>3, <3>1, WalkKeepsInv
           DEF Pcs, Owning, InteractivePcs
    <2>4. CASE /\ queue' = [queue EXCEPT ![job[a].conn] = Append(@, a)]
               /\ GoTo(a, "queued")
      <3> DEFINE c == job[a].conn
      <3>1. Moves(a, "queued") /\ job'[a].gen = job[a].gen
        BY <1>1, <2>4, GoToMoves DEF Pcs
      <3>2. NoNewSentinel /\ PromisesKept /\ MapTyped'
        BY <2>1, UnchangedMap
      <3>3. c \in Conns
        BY <1>1 DEF Jobs
      <3>4. queue' \in [Conns -> Seq(Attempts)]
        BY <2>4, <3>3 DEF TypeOK
      <3>5. TypeOK'
        BY <1>2, <3>1, <3>2, <3>4 DEF TypeOK, Moves, MapTyped, RestTyped
      <3>6. \/ ~StandsNext(i)
            \/ entries'[i].attempt # a
            \/ job[a].restore \/ job'[a].gen = a
        BY <1>1, <2>1, <3>1, <3>2, OwnSentinel
      <3>7. Owned' /\ AllPlaced' /\ WaitersHeld'
        BY <1>1, <2>1, <2>2, <3>1, <3>2, <3>6, PlainAttemptStep
           DEF Pcs, Owning, InteractivePcs
      <3>8. QueueOK'
        <4> SUFFICES ASSUME NEW d \in Conns
                     PROVE  /\ \A n \in 1..Len(queue'[d]) :
                                  /\ At(queue[d][n], "queued")'
                                  /\ job'[queue'[d][n]].conn = d
                            /\ \A m, n \in 1..Len(queue'[d]) :
                                  queue'[d][m] = queue'[d][n] => m = n
          BY DEF QueueOK
        <4>1. /\ \A n \in 1..Len(queue[d]) :
                    /\ queue[d][n] \in Attempts /\ queue[d][n] # a
                    /\ At(queue[d][n], "queued")
                    /\ job[queue[d][n]].conn = d
              /\ \A m, n \in 1..Len(queue[d]) :
                    queue[d][m] = queue[d][n] => m = n
          BY <2>1 DEF QueueOK, TypeOK, At
        <4>2. \A n \in 1..Len(queue[d]) :
                 /\ job'[queue[d][n]] # None
                 /\ job'[queue[d][n]].pc = "queued"
                 /\ job'[queue[d][n]].conn = d
          BY <4>1, <3>1 DEF Moves, At
        <4>3. CASE d # c
          BY <2>4, <3>3, <4>1, <4>2, <4>3 DEF TypeOK, At
        <4>4. CASE d = c
          <5>1. /\ queue'[d] = Append(queue[d], a)
                /\ queue[d] \in Seq(Attempts)
            BY <2>4, <3>3, <4>4 DEF TypeOK
          <5>2. /\ Len(queue'[d]) = Len(queue[d]) + 1
                /\ queue'[d][Len(queue[d]) + 1] = a
                /\ \A n \in 1..Len(queue[d]) : queue'[d][n] = queue[d][n]
                /\ Len(queue[d]) \in Nat
            BY <5>1
          <5>3. /\ job'[a] # None /\ job'[a].pc = "queued"
                /\ job'[a].conn = d
            BY <3>1, <4>4, NoneAssumption DEF Moves
          <5>4. \A n \in 1..Len(queue'[d]) :
                   \/ n = Len(queue[d]) + 1
                   \/ n \in 1..Len(queue[d])
            BY <5>2
          <5>5. \A n \in 1..Len(queue'[d]) :
                   /\ At(queue[d][n], "queued")'
                   /\ job'[queue'[d][n]].conn = d
            BY <4>2, <5>2, <5>3, <5>4 DEF At
          <5>6. \A m, n \in 1..Len(queue'[d]) :
                   queue'[d][m] = queue'[d][n] => m = n
            BY <4>1, <5>2, <5>4
          <5> QED  BY <5>5, <5>6
        <4> QED  BY <4>3, <4>4
      <3> QED  BY <3>5, <3>7, <3>8
    <2> QED  BY <1>4, <2>3, <2>4 DEF Enqueue
  <1>5. CASE AbandonRestore(a)
    <2>1. /\ job[a].pc = "admitted" /\ UNCHANGED queue
          /\ Refresh(a, "done") /\ ClearIfInFlight(i)
      BY <1>5 DEF AbandonRestore, At
    <2>2. /\ NoNewSentinel /\ PromisesKept /\ MapTyped'
          /\ ~StandsNext(i)
      BY <1>1, <2>1, ClearIfInFlightFacts
    <2>3. Moves(a, "done")
      BY <1>1, <2>1, RefreshMoves DEF Pcs
    <2> QED
      BY <1>1, <1>2, <2>1, <2>2, <2>3, PlainStepKeepsInv
         DEF Pcs, InteractivePcs
  <1>6. CASE StartRestore(a)
    <2>1. /\ job[a].pc = "admitted" /\ job[a].restore /\ UNCHANGED queue
          /\ GoTo(a, "create") /\ UNCHANGED <<entries, waiting>>
      BY <1>6 DEF StartRestore, At
    <2>2. NoNewSentinel /\ PromisesKept /\ MapTyped'
      BY <2>1, UnchangedMap
    <2>3. Moves(a, "create")
      BY <1>1, <2>1, GoToMoves DEF Pcs
    <2> QED
      BY <1>1, <1>2, <2>1, <2>2, <2>3, PlainStepKeepsInv
         DEF Pcs, Owning, InteractivePcs
  <1> QED  BY <1>3, <1>4, <1>5, <1>6

LEMMA CreateKeepsInv ==
    ASSUME DedupeInv, NEW a \in Attempts,
           \/ LookForLive(a) \/ Reserve(a) \/ FailCreate(a)
           \/ Spawn(a) \/ AttachLive(a) \/ LoseSpawn(a)
    PROVE  DedupeInv'
  <1> USE DEF DedupeInv
  <1>1. /\ job[a] \in Jobs /\ job[a] # None
        /\ job[a].pc \in {"create", "reserve", "spawn", "spawned"}
        /\ UNCHANGED <<entries, waiting, queue>>
    BY DEF LookForLive, Reserve, FailCreate, Spawn, AttachLive, LoseSpawn,
           At, TypeOK
  <1>2. /\ job[a].pc \in Owning \ {"admitted", "queued"}
        /\ {"create", "reserve", "spawn", "spawned", "returned"}
              \subseteq Owning \cap Pcs
        /\ {"create", "reserve", "spawn", "spawned", "returned"}
              \cap InteractivePcs = {}
    BY <1>1 DEF Owning, Pcs, InteractivePcs
  <1>3. CASE LookForLive(a)
    <2>1. RestTyped'
      BY <1>3 DEF LookForLive, RestTyped, TypeOK
    <2>2. CASE GoTo(a, "spawn")
      BY <1>1, <1>2, <2>1, <2>2, GoToMoves, WalkKeepsInv
    <2>3. CASE GoTo(a, "reserve")
      BY <1>1, <1>2, <2>1, <2>3, GoToMoves, WalkKeepsInv
    <2>4. CASE \E t \in Newest(Rows(job[a].id) \cap running) :
                  job' = [job EXCEPT ![a].term = t, ![a].pc = "spawned"]
      <3>1. PICK t \in Attempts :
               job' = [job EXCEPT ![a].term = t, ![a].pc = "spawned"]
        BY <2>4 DEF Newest, Rows, TypeOK
      <3>2. /\ Moves(a, "spawned") /\ job'[a].gen = job[a].gen
            /\ job'[a].term \in Attempts
        BY <1>1, <3>1, TermMoves
      <3> QED  BY <1>1, <1>2, <2>1, <3>2, WalkKeepsInv
    <2> QED  BY <1>3, <2>2, <2>3, <2>4 DEF LookForLive
  <1>4. CASE Reserve(a)
    <2>1. /\ Moves(a, "spawn") \/ Moves(a, "create")
          /\ job'[a].gen = job[a].gen
          /\ keyed' \subseteq RequestIds
      BY <1>4, ReserveMoves
    <2>2. RestTyped'
      BY <1>4, <2>1 DEF Reserve, RestTyped, TypeOK
    <2> QED  BY <1>1, <1>2, <2>1, <2>2, WalkKeepsInv
  <1>5. CASE FailCreate(a)
    <2>1. /\ Moves(a, "returned") /\ job'[a].gen = job[a].gen
          /\ keyed' \subseteq RequestIds
      BY <1>1, <1>5, ReturnMoves DEF FailCreate
    <2>2. RestTyped'
      BY <1>5, <2>1 DEF FailCreate, RestTyped, TypeOK
    <2> QED  BY <1>1, <1>2, <2>1, <2>2, WalkKeepsInv
  <1>6. CASE Spawn(a)
    <2>1. RestTyped'
      BY <1>6 DEF Spawn, RestTyped, TypeOK
    <2>2. /\ Moves(a, "spawned") /\ job'[a].gen = job[a].gen
          /\ job'[a].term = a
      BY <1>1, <1>6, TermMoves DEF Spawn
    <2> QED  BY <1>1, <1>2, <2>1, <2>2, WalkKeepsInv
  <1>7. CASE AttachLive(a)
    <2>1. CASE \E t \in running :
                  /\ job' = [job EXCEPT ![a].term = t, ![a].pc = "spawned"]
                  /\ UNCHANGED <<keyed, rows, running>>
      <3>1. PICK t \in Attempts :
               job' = [job EXCEPT ![a].term = t, ![a].pc = "spawned"]
        BY <2>1 DEF TypeOK
      <3>2. /\ Moves(a, "spawned") /\ job'[a].gen = job[a].gen
            /\ job'[a].term \in Attempts
        BY <1>1, <3>1, TermMoves
      <3>3. RestTyped'
        BY <1>7, <2>1 DEF AttachLive, RestTyped, TypeOK
      <3> QED  BY <1>1, <1>2, <3>2, <3>3, WalkKeepsInv
    <2>2. CASE Return(a) /\ \E t \in running : Reap({t})
      <3>1. /\ Moves(a, "returned") /\ job'[a].gen = job[a].gen
            /\ keyed' \subseteq RequestIds
        BY <1>1, <2>2, ReturnMoves
      <3>2. RestTyped'
        BY <1>7, <2>2, <3>1 DEF AttachLive, Reap, RestTyped, TypeOK
      <3> QED  BY <1>1, <1>2, <3>1, <3>2, WalkKeepsInv
    <2> QED  BY <1>7, <2>1, <2>2 DEF AttachLive
  <1>8. CASE LoseSpawn(a)
    <2>1. /\ Moves(a, "returned") /\ job'[a].gen = job[a].gen
          /\ keyed' \subseteq RequestIds
      BY <1>1, <1>8, ReturnMoves DEF LoseSpawn
    <2>2. RestTyped'
      BY <1>8, <2>1 DEF LoseSpawn, Reap, RestTyped, TypeOK
    <2> QED  BY <1>1, <1>2, <2>1, <2>2, WalkKeepsInv
  <1> QED  BY <1>3, <1>4, <1>5, <1>6, <1>7, <1>8

LEMMA SettleKeepsInv ==
    ASSUME DedupeInv, NEW a \in Attempts, Settle(a)
    PROVE  DedupeInv'
  <1> USE DEF DedupeInv
  <1> DEFINE i == job[a].id
             e == [tag |-> "Settled", term |-> job[a].term,
                   restore |-> job[a].restore]
  <1>1. /\ job[a] \in Jobs /\ i \in RequestIds /\ job[a].pc = "spawned"
        /\ job[a] # None /\ UNCHANGED <<waiting, queue>>
        /\ job[a].term \in Attempts
    BY DEF Settle, At, TypeOK, Jobs, AllPlaced, Placed
  <1>2. RestTyped'
    BY DEF Settle, RestTyped, TypeOK
  <1>3. e \in Entries /\ e.tag = "Settled"
    BY <1>1 DEF Entries, Jobs
  <1>4. entries' = [entries EXCEPT ![i] = e]
    BY DEF Settle
  <1> HIDE DEF e
  <1>5. /\ entries'[i].tag # "InFlight"
        /\ \A k \in RequestIds : k # i => entries'[k] = entries[k]
    BY <1>1, <1>3, <1>4 DEF TypeOK
  <1>6. /\ Moves(a, "probeOthers")
        /\ Holds(i, "InFlight") => job'[a].waiters = entries[i].waiters
    BY SettleMoves
  <1>7. TypeOK'
    BY <1>1, <1>2, <1>3, <1>4, <1>6 DEF TypeOK, Moves, RestTyped
  <1>8. Steps(a) /\ Placed(a)'
    BY <1>6 DEF Moves, Steps, Placed, InteractivePcs
  <1>9. SentinelsOf(a)
    <2> SUFFICES ASSUME NEW k \in RequestIds, Holds(k, "InFlight")'
                 PROVE  /\ entries'[k].attempt # a
                        /\ Holds(k, "InFlight")
                        /\ entries'[k].attempt = entries[k].attempt
      BY DEF SentinelsOf
    <2>1. k # i
      BY <1>5 DEF Holds
    <2>2. Holds(k, "InFlight") /\ entries'[k] = entries[k]
      BY <2>1, <1>5 DEF Holds
    <2>3. entries[k].attempt # a
      BY <2>1, <2>2 DEF Owned, OwnedBy
    <2> QED  BY <2>2, <2>3
  <1>10. PromisesOf(a)
    <2> SUFFICES ASSUME NEW p \in waiting
                 PROVE  \/ Listed(p)' \/ Taken(p, a)'
                        \/ ~Listed(p) /\ ~Taken(p, a)
      BY <1>1 DEF PromisesOf
    <2>1. p[2] \in RequestIds /\ ~Taken(p, a)
      BY <1>1 DEF TypeOK, Taken
    <2>2. CASE Listed(p) /\ p[2] = i
      <3>1. p[1] \in job'[a].waiters
        BY <1>6, <2>2 DEF Listed
      <3>2. job'[a] # None /\ job'[a].pc = "probeOthers" /\ job'[a].id = p[2]
        BY <1>6, <2>2, NoneAssumption DEF Moves
      <3> QED  BY <3>1, <3>2 DEF Taken
    <2>3. CASE Listed(p) /\ p[2] # i
      BY <1>5, <2>1, <2>3 DEF Listed, Holds
    <2> QED  BY <2>1, <2>2, <2>3
  <1>11. QueueOK'
    BY <1>1, <1>6, QueueStays DEF Moves, At
  <1> QED  BY <1>7, <1>8, <1>9, <1>10, <1>11, AttemptStep

LEMMA ProbeOthersKeepsInv ==
    ASSUME DedupeInv, NEW a \in Attempts, ProbeOthers(a)
    PROVE  DedupeInv'
  <1> USE DEF DedupeInv
  <1>1. /\ job[a] # None /\ job[a].pc = "probeOthers"
        /\ UNCHANGED <<entries, waiting, queue>>
    BY DEF ProbeOthers, At
  <1>2. RestTyped'
    BY DEF ProbeOthers, RestTyped, TypeOK
  <1>3. Moves(a, "prune") /\ job'[a].waiters = job[a].waiters
    BY ProbeOthersMoves
  <1>4. NoNewSentinel /\ PromisesKept /\ MapTyped'
    BY <1>1, UnchangedMap
  <1>5. TypeOK'
    BY <1>1, <1>2, <1>3, <1>4 DEF TypeOK, Moves, MapTyped, RestTyped
  <1>6. Steps(a) /\ Placed(a)'
    BY <1>3 DEF Moves, Steps, Placed, InteractivePcs
  <1>7. SentinelsOf(a)
    BY <1>1, <1>4 DEF SentinelsOf, NoNewSentinel, Owned, OwnedBy, Owning
  <1>8. PromisesOf(a)
    <2> SUFFICES ASSUME NEW p \in waiting
                 PROVE  \/ Listed(p)' \/ Taken(p, a)'
                        \/ ~Listed(p) /\ ~Taken(p, a)
      BY <1>1 DEF PromisesOf
    <2>1. Listed(p) => Listed(p)'
      BY <1>1 DEF Listed, Holds
    <2>2. Taken(p, a) => Taken(p, a)'
      BY <1>3, NoneAssumption DEF Taken, Moves
    <2> QED  BY <2>1, <2>2
  <1>9. QueueOK'
    BY <1>1, <1>3, QueueStays DEF Moves, At
  <1> QED  BY <1>5, <1>6, <1>7, <1>8, <1>9, AttemptStep

LEMMA PruneKeepsInv ==
    ASSUME DedupeInv, NEW a \in Attempts, Prune(a)
    PROVE  DedupeInv'
  <1> USE DEF DedupeInv
  <1> DEFINE i == job[a].id
  <1>1. /\ job[a] \in Jobs /\ job[a] # None /\ job[a].pc = "prune"
        /\ i \in RequestIds /\ UNCHANGED queue
    BY DEF Prune, At, TypeOK, Jobs
  <1>2. \A k \in RequestIds :
           \/ entries'[k] = entries[k]
           \/ Holds(k, "Settled") /\ entries'[k] = None
    BY DEF Prune
  <1>3. Moves(a, "returned") /\ keyed' \subseteq RequestIds
    BY <1>1, ReturnMoves DEF Prune
  <1>4. RestTyped'
    BY <1>3 DEF Prune, RestTyped, TypeOK
  <1>5. entries' \in [RequestIds -> Entries \cup {None}]
    BY <1>2 DEF Prune, TypeOK
  <1>6. TypeOK'
    BY <1>1, <1>3, <1>4, <1>5 DEF Prune, TypeOK, Moves, RestTyped
  <1>7. Steps(a) /\ Placed(a)'
    BY <1>3 DEF Moves, Steps, Placed, InteractivePcs
  <1>8. SentinelsOf(a)
    <2> SUFFICES ASSUME NEW k \in RequestIds, Holds(k, "InFlight")'
                 PROVE  /\ entries'[k].attempt # a
                        /\ Holds(k, "InFlight")
                        /\ entries'[k].attempt = entries[k].attempt
      BY DEF SentinelsOf
    <2>1. entries'[k] = entries[k] /\ Holds(k, "InFlight")
      BY <1>2 DEF Holds
    <2> QED  BY <1>1, <2>1 DEF Owned, OwnedBy, Owning
  <1>9. PromisesOf(a)
    <2> SUFFICES ASSUME NEW p \in waiting'
                 PROVE  \/ Listed(p)'
                        \/ p \in waiting /\ ~Listed(p) /\ ~Taken(p, a)
      BY DEF PromisesOf
    <2>1. /\ p \in waiting /\ p \notin (job[a].waiters \X {i})
          /\ p \in Conns \X RequestIds
      BY DEF Prune, TypeOK
    <2>2. p = <<p[1], p[2]>> /\ p[2] \in RequestIds
      BY <2>1
    <2>3. ~Taken(p, a)
      BY <2>1, <2>2 DEF Taken
    <2>4. Listed(p) => Listed(p)'
      BY <1>2, <2>2 DEF Listed, Holds
    <2> QED  BY <2>1, <2>3, <2>4
  <1>10. QueueOK'
    BY <1>1, <1>3, QueueStays DEF Moves, At
  <1> QED  BY <1>6, <1>7, <1>8, <1>9, <1>10, AttemptStep

LEMMA EndKeepsInv ==
    ASSUME DedupeInv, NEW a \in Attempts,
           \/ ClearRestore(a) \/ EndRestore(a)
           \/ EndInteractive(a) \/ DropJob(a)
    PROVE  DedupeInv'
  <1> USE DEF DedupeInv
  <1> DEFINE i == job[a].id
  <1>1. /\ job[a] \in Jobs /\ i \in RequestIds /\ job[a] # None
        /\ UNCHANGED queue
    BY DEF ClearRestore, EndRestore, EndInteractive, DropJob, At, TypeOK, Jobs
  <1>2. RestTyped'
    BY DEF ClearRestore, EndRestore, EndInteractive, DropJob, Reap, Newest,
           RestTyped, TypeOK
  <1>3. CASE ClearRestore(a)
    <2>1. /\ job[a].pc = "returned" /\ GoTo(a, "cleared")
          /\ ClearIfInFlight(i)
      BY <1>3 DEF ClearRestore, At
    <2>2. /\ NoNewSentinel /\ PromisesKept /\ MapTyped'
          /\ ~StandsNext(i)
      BY <1>1, <2>1, ClearIfInFlightFacts
    <2>3. Moves(a, "cleared")
      BY <1>1, <2>1, GoToMoves DEF Pcs
    <2> QED
      BY <1>1, <1>2, <2>1, <2>2, <2>3, PlainStepKeepsInv
         DEF Pcs, InteractivePcs
  <1>4. CASE EndRestore(a)
    <2>1. /\ job[a].pc = "cleared" /\ Refresh(a, "done")
          /\ UNCHANGED <<entries, waiting>>
      BY <1>4 DEF EndRestore, At
    <2>2. NoNewSentinel /\ PromisesKept /\ MapTyped'
      BY <2>1, UnchangedMap
    <2>3. Moves(a, "done")
      BY <1>1, <2>1, RefreshMoves DEF Pcs
    <2> QED
      BY <1>1, <1>2, <2>1, <2>2, <2>3, PlainStepKeepsInv
         DEF Pcs, Owning, InteractivePcs
  <1>5. CASE EndInteractive(a)
    <2>1. /\ job[a].pc = "returned" /\ ~job[a].restore /\ GoTo(a, "drop")
          /\ UNCHANGED <<entries, waiting, queue>>
      BY <1>5 DEF EndInteractive, At
    <2>2. Moves(a, "drop") /\ job'[a].gen = job[a].gen
      BY <1>1, <2>1, GoToMoves DEF Pcs
    <2> QED
      BY <1>1, <1>2, <2>1, <2>2, WalkKeepsInv
         DEF Pcs, Owning, InteractivePcs
  <1>6. CASE DropJob(a)
    <2>1. /\ job[a].pc = "drop" /\ Refresh(a, "done")
          /\ ClearMatching(i, job[a].gen)
      BY <1>6 DEF DropJob, At
    <2>2. /\ NoNewSentinel /\ PromisesKept /\ MapTyped'
          /\ StandsNext(i) => entries[i].attempt # job[a].gen
      BY <1>1, <2>1, ClearMatchingFacts
    <2>3. Moves(a, "done")
      BY <1>1, <2>1, RefreshMoves DEF Pcs
    <2>4. ~job[a].restore
      BY <1>1, <2>1 DEF AllPlaced, Placed, InteractivePcs
    <2>5. ~StandsNext(i) \/ entries'[i].attempt # a
      <3> SUFFICES ASSUME StandsNext(i), entries'[i].attempt = a
                   PROVE  FALSE
        OBVIOUS
      <3>1. job[a].gen = a
        BY <1>1, <2>1, <2>2, <2>4, OwnSentinel
      <3>2. entries'[i].attempt = entries[i].attempt
        BY <1>1, <2>2 DEF NoNewSentinel, StandsNext, Holds
      <3> QED  BY <2>2, <3>1, <3>2
    <2> QED
      BY <1>1, <1>2, <2>1, <2>2, <2>3, <2>5, PlainStepKeepsInv
         DEF Pcs, InteractivePcs
  <1> QED  BY <1>3, <1>4, <1>5, <1>6

LEMMA ReceiveKeepsInv ==
    ASSUME DedupeInv, NEW a \in Attempts, NEW c \in Conns,
           NEW i \in RequestIds, NEW r \in Restores, Receive(a, c, i, r)
    PROVE  DedupeInv'
  <1> USE DEF DedupeInv
  <1>1. job[a] = None /\ r \in BOOLEAN /\ UNCHANGED queue
    BY DedupeAssumption DEF Receive
  <1>2. RestTyped'
    BY DEF Receive, RestTyped, TypeOK
  <1>3. \A k \in RequestIds :
           Holds(k, "InFlight") => entries[k].attempt # a
    BY <1>1 DEF Owned, OwnedBy
  <1>4. ASSUME NEW j \in Jobs, job' = [job EXCEPT ![a] = j],
               j.pc \notin InteractivePcs \cup {"spawned"},
               MapTyped', SentinelsOf(a), PromisesKept
        PROVE  DedupeInv'
    <2>1. /\ job'[a] = j
          /\ \A b \in Attempts : b # a => job'[b] = job[b]
      BY <1>4 DEF TypeOK
    <2>2. TypeOK'
      BY <1>1, <1>2, <1>4 DEF TypeOK, MapTyped, RestTyped
    <2>3. Steps(a) /\ Placed(a)'
      BY <1>4, <2>1 DEF Steps, Placed
    <2>4. PromisesOf(a)
      BY <1>1, <1>4 DEF PromisesKept, PromisesOf, Taken
    <2>5. QueueOK'
      BY <1>1, <2>1, QueueStays DEF At
    <2> QED  BY <1>4, <2>2, <2>3, <2>4, <2>5, AttemptStep
  <1>5. ASSUME NoNewSentinel PROVE SentinelsOf(a)
    BY <1>3, <1>5 DEF NoNewSentinel, SentinelsOf
  <1>6. CASE /\ entries[i] = None
             /\ entries' = [entries EXCEPT ![i] = Sentinel(a, c)]
             /\ job' = [job EXCEPT ![a] = Frame(i, c, r, "admitted")]
             /\ UNCHANGED waiting
    <2> DEFINE j == Frame(i, c, r, "admitted")
    <2>1. /\ j \in Jobs /\ j # None /\ j.pc = "admitted" /\ j.id = i
          /\ j.restore = r
      <3>1. j \in Jobs
        BY <1>1, FrameTyped DEF Pcs
      <3>2. j.pc = "admitted" /\ j.id = i /\ j.restore = r
        BY DEF Frame
      <3> QED  BY <3>1, <3>2, NoneAssumption
    <2>2. /\ Sentinel(a, c) \in Entries /\ Sentinel(a, c) # None
          /\ Sentinel(a, c).attempt = a
      BY NoneAssumption DEF Sentinel, Entries
    <2>3. /\ entries'[i] = Sentinel(a, c) /\ job'[a] = j
          /\ \A k \in RequestIds : k # i => entries'[k] = entries[k]
      BY <1>6 DEF TypeOK
    <2>4. MapTyped'
      BY <1>6, <2>2 DEF MapTyped, TypeOK
    <2>5. SentinelsOf(a)
      <3> SUFFICES ASSUME NEW k \in RequestIds, Holds(k, "InFlight")'
                   PROVE  \/ entries'[k].attempt = a /\ OwnedBy(k, a)'
                          \/ /\ entries'[k].attempt # a
                             /\ Holds(k, "InFlight")
                             /\ entries'[k].attempt = entries[k].attempt
        BY DEF SentinelsOf
      <3>1. CASE k = i
        BY <2>1, <2>2, <2>3, <3>1 DEF OwnedBy, Owning
      <3>2. CASE k # i
        BY <1>3, <2>3, <3>2 DEF Holds
      <3> QED  BY <3>1, <3>2
    <2>6. PromisesKept
      <3> SUFFICES ASSUME NEW p \in waiting
                   PROVE  Listed(p)' \/ ~Listed(p)
        BY <1>6 DEF PromisesKept
      <3>1. p[2] \in RequestIds
        BY DEF TypeOK
      <3> QED  BY <1>6, <2>3, <3>1 DEF Listed, Holds
    <2>7. j.pc \notin InteractivePcs \cup {"spawned"}
      BY <2>1 DEF InteractivePcs
    <2> QED  BY <1>4, <1>6, <2>1, <2>4, <2>5, <2>6, <2>7
  <1>7. CASE /\ Holds(i, "InFlight")
             /\ NoteDuplicate(c, i)
             /\ job' = [job EXCEPT ![a] = Frame(i, c, r, "done")]
    <2>1. Frame(i, c, r, "done") \in Jobs
      BY <1>1, FrameTyped DEF Pcs
    <2>2. Frame(i, c, r, "done").pc \notin InteractivePcs \cup {"spawned"}
      BY DEF Frame, InteractivePcs
    <2>3. NoNewSentinel /\ PromisesKept /\ MapTyped'
      BY <1>7, NoteDuplicateFacts
    <2> QED  BY <1>4, <1>5, <1>7, <2>1, <2>2, <2>3
  <1>8. CASE /\ Holds(i, "Settled")
             /\ job' = [job EXCEPT ![a] =
                           [Frame(i, c, r, "probe") EXCEPT !.snap = entries[i]]]
             /\ UNCHANGED <<entries, waiting>>
    <2> DEFINE j == [Frame(i, c, r, "probe") EXCEPT !.snap = entries[i]]
    <2>1. j \in Jobs
      BY <1>1, <1>8, FrameTyped, SettledFields DEF Pcs
    <2>2. j.pc \notin InteractivePcs \cup {"spawned"}
      BY DEF Frame, InteractivePcs
    <2>3. NoNewSentinel /\ PromisesKept /\ MapTyped'
      BY <1>8, UnchangedMap
    <2> QED  BY <1>4, <1>5, <1>8, <2>1, <2>2, <2>3
  <1> QED  BY <1>6, <1>7, <1>8 DEF Receive

LEMMA StartJobKeepsInv ==
    ASSUME DedupeInv, NEW c \in Conns, StartJob(c)
    PROVE  DedupeInv'
  <1> USE DEF DedupeInv
  <1> DEFINE q == queue[c]
             a == Head(q)
  <1>1. /\ q \in Seq(Attempts) /\ q # <<>>
        /\ queue' = [queue EXCEPT ![c] = Tail(q)]
        /\ UNCHANGED <<entries, waiting>>
    BY DEF StartJob, TypeOK
  <1>2. a \in Attempts /\ a = q[1] /\ 1 \in 1..Len(q) /\ Len(q) \in Nat
    BY <1>1
  <1>3. At(a, "queued") /\ job[a].conn = c
    BY <1>2 DEF QueueOK
  <1>4. ~job[a].restore /\ job[a] # None /\ job[a].pc = "queued"
    BY <1>2, <1>3 DEF AllPlaced, Placed, At, InteractivePcs
  <1>5. PICK pc \in {"create", "drop"} : GoTo(a, pc)
    BY DEF StartJob
  <1>6. Moves(a, pc) /\ job'[a].gen = job[a].gen
    BY <1>2, <1>4, <1>5, GoToMoves DEF Pcs
  <1>7. NoNewSentinel /\ PromisesKept /\ MapTyped'
    BY <1>1, UnchangedMap
  <1>8. queue' \in [Conns -> Seq(Attempts)]
    BY <1>1 DEF TypeOK
  <1>9. TypeOK'
    BY <1>6, <1>7, <1>8 DEF StartJob, TypeOK, Moves, MapTyped
  <1>10. job[a].id \in RequestIds
    BY <1>6 DEF Moves, Jobs
  <1>11. Owned' /\ AllPlaced' /\ WaitersHeld'
    <2>1. \/ ~StandsNext(job[a].id)
          \/ entries'[job[a].id].attempt # a
          \/ job[a].restore \/ job'[a].gen = a
      BY <1>2, <1>4, <1>6, <1>7, <1>10, OwnSentinel
    <2> HIDE DEF a
    <2> QED
      BY <1>2, <1>4, <1>6, <1>7, <2>1, PlainAttemptStep
         DEF Pcs, Owning, InteractivePcs
  <1>12. QueueOK'
    <2> SUFFICES ASSUME NEW d \in Conns
                 PROVE  /\ \A n \in 1..Len(queue'[d]) :
                              /\ At(queue[d][n], "queued")'
                              /\ job'[queue'[d][n]].conn = d
                        /\ \A m, n \in 1..Len(queue'[d]) :
                              queue'[d][m] = queue'[d][n] => m = n
      BY DEF QueueOK
    <2>1. /\ \A n \in 1..Len(queue[d]) :
                /\ queue[d][n] \in Attempts
                /\ job[queue[d][n]] # None /\ job[queue[d][n]].pc = "queued"
                /\ job[queue[d][n]].conn = d
          /\ \A m, n \in 1..Len(queue[d]) :
                queue[d][m] = queue[d][n] => m = n
      BY DEF QueueOK, TypeOK, At
    <2>2. CASE d # c
      <3>1. queue'[d] = queue[d]
        BY <1>1, <2>2 DEF TypeOK
      <3>2. \A n \in 1..Len(queue[d]) :
               job'[queue[d][n]] = job[queue[d][n]]
        BY <1>3, <1>6, <2>1, <2>2 DEF Moves
      <3> QED  BY <2>1, <3>1, <3>2 DEF At
    <2>3. CASE d = c
      <3>1. /\ queue'[d] = Tail(q) /\ queue[d] = q
        BY <1>1, <2>3 DEF TypeOK
      <3>2. /\ Len(Tail(q)) = Len(q) - 1
            /\ \A n \in 1..Len(Tail(q)) : Tail(q)[n] = q[n + 1]
        BY <1>1
      <3>3. \A n \in 1..Len(Tail(q)) : n + 1 \in 1..Len(q) /\ n + 1 # 1
        BY <1>2, <3>2
      <3>4. \A n \in 1..Len(Tail(q)) :
               job'[q[n + 1]] = job[q[n + 1]]
        BY <1>2, <1>6, <2>1, <3>1, <3>3 DEF Moves
      <3>5. \A n \in 1..Len(queue'[d]) :
               /\ At(queue[d][n], "queued")'
               /\ job'[queue'[d][n]].conn = d
        BY <2>1, <3>1, <3>2, <3>3, <3>4 DEF At
      <3>6. \A m, n \in 1..Len(queue'[d]) :
               queue'[d][m] = queue'[d][n] => m = n
        BY <2>1, <3>1, <3>2, <3>3
      <3> QED  BY <3>5, <3>6
    <2> QED  BY <2>2, <2>3
  <1> QED  BY <1>9, <1>11, <1>12

-----------------------------------------------------------------------------
(* The theorems.                                                           *)

LEMMA DedupeInit == ASSUME Init PROVE DedupeInv
  <1>1. TypeOK
    BY DEF Init, TypeOK
  <1>2. /\ \A i \in RequestIds : entries[i] = None
        /\ \A a \in Attempts : job[a] = None
        /\ \A c \in Conns : queue[c] = <<>>
        /\ waiting = {}
    BY DEF Init
  <1>3. Owned /\ AllPlaced /\ WaitersHeld
    BY <1>2 DEF Owned, AllPlaced, Placed, WaitersHeld, Holds
  <1>4. QueueOK
    BY <1>2 DEF QueueOK
  <1> QED  BY <1>1, <1>3, <1>4 DEF DedupeInv

LEMMA DedupeStep == ASSUME DedupeInv, [Next]_vars PROVE DedupeInv'
  <1>1. ASSUME UNCHANGED <<entries, job, queue, waiting>>, RestTyped'
        PROVE  DedupeInv'
    <2>1. TypeOK'
      BY <1>1 DEF DedupeInv, TypeOK, RestTyped
    <2>2. Owned' /\ AllPlaced'
      BY <1>1 DEF DedupeInv, Owned, OwnedBy, AllPlaced, Placed, Holds
    <2>3. QueueOK' /\ WaitersHeld'
      BY <1>1 DEF DedupeInv, QueueOK, WaitersHeld, Holds, At
    <2> QED  BY <2>1, <2>2, <2>3 DEF DedupeInv
  <1>2. RestTyped
    BY DEF DedupeInv, TypeOK, RestTyped
  <1>3. ASSUME NEW a \in Attempts, NEW c \in Conns, NEW i \in RequestIds,
               NEW r \in Restores, Receive(a, c, i, r)
        PROVE  DedupeInv'
    BY <1>3, ReceiveKeepsInv
  <1>4. ASSUME NEW a \in Attempts, Work(a)
        PROVE  DedupeInv'
    BY <1>4, BeginKeepsInv, LaneKeepsInv, CreateKeepsInv, SettleKeepsInv,
       ProbeOthersKeepsInv, PruneKeepsInv, EndKeepsInv DEF Work
  <1>5. ASSUME NEW t \in Attempts, Exit(t)
        PROVE  DedupeInv'
    BY <1>1, <1>2, <1>5 DEF Exit, Reap, RestTyped
  <1>6. ASSUME NEW c \in Conns, StartJob(c)
        PROVE  DedupeInv'
    BY <1>6, StartJobKeepsInv
  <1>7. CASE BeginShutdown
    BY <1>1, <1>2, <1>7 DEF BeginShutdown, RestTyped
  <1>8. CASE Sweep
    BY <1>1, <1>2, <1>8 DEF Sweep, Reap, RestTyped
  <1>9. CASE UNCHANGED vars
    BY <1>1, <1>2, <1>9 DEF vars, RestTyped
  <1> QED  BY <1>3, <1>4, <1>5, <1>6, <1>7, <1>8, <1>9 DEF Next

(* What the guard, the lanes and the settling creates keep between them:   *)
(* sentinels have workers, queued jobs are queued once, promises are held. *)
THEOREM DedupeInvariant == Spec => []DedupeInv
  <1> QED  BY DedupeInit, DedupeStep, PTL DEF Spec

(* Whatever is called in whatever order, the guard's map and the jobs keep *)
(* their shape.                                                            *)
THEOREM DedupeTypeCorrect == Spec => []TypeOK
  <1>1. DedupeInv => TypeOK
    BY DEF DedupeInv
  <1> QED  BY <1>1, DedupeInvariant, PTL

(* No sentinel is leaked: each belongs to a create that will settle it or  *)
(* clear it.                                                               *)
THEOREM SentinelsAreOwned == Spec => []SentinelHasWorker
  <1>1. DedupeInv => SentinelHasWorker
    BY DEF DedupeInv, Owned, OwnedBy, Owning, SentinelHasWorker
  <1> QED  BY <1>1, DedupeInvariant, PTL

(* No promise of a reply is lost: the waiter is on the sentinel's list, or *)
(* on the list a settling create is about to answer.                       *)
THEOREM PromisesAreHeld == Spec => []WaitersHeld
  <1>1. DedupeInv => WaitersHeld
    BY DEF DedupeInv
  <1> QED  BY <1>1, DedupeInvariant, PTL

-----------------------------------------------------------------------------
(* What a shutdown leaves.  After a sweep every row of the registry has a  *)
(* create of its own that is still to return and to look at the shutdown:  *)
(* the row's own create, or, when that one reaped another row of the same  *)
(* request, the create that row had.                                       *)

Returning == {"spawned", "probeOthers", "prune", "returned", "cleared"}

Pending(a) == job[a] # None /\ job[a].pc \in Returning

ReapedBy(f) ==
    /\ f \in [rows -> Attempts]
    /\ \A s, t \in rows : f[s] = f[t] => s = t
    /\ \A t \in rows : /\ job[t] # None /\ Pending(f[t])
                       /\ job[f[t]].id = job[t].id

SweptInv ==
    /\ running \subseteq rows
    /\ shutdown = "swept" => \E f : ReapedBy(f)

Swept == DedupeInv /\ SweptInv

(* A create that does not end here, and no new row.                        *)
LEMMA StepKeepsSwept ==
    ASSUME Swept, rows' \subseteq rows, running' \subseteq rows',
           shutdown' = "swept" => shutdown = "swept",
           \A a \in Attempts : job[a] # None =>
               /\ job'[a] # None /\ job'[a].id = job[a].id
               /\ Pending(a) => Pending(a)'
    PROVE  SweptInv'
  <1> SUFFICES ASSUME shutdown' = "swept" PROVE \E f : ReapedBy(f)'
    BY DEF SweptInv
  <1>1. PICK f : ReapedBy(f)
    BY DEF Swept, SweptInv
  <1>2. rows \subseteq Attempts
    BY DEF Swept, DedupeInv, TypeOK
  <1>3. PICK g : g = [t \in rows' |-> f[t]]
    OBVIOUS
  <1>4. /\ \A t \in rows' : g[t] = f[t] /\ t \in rows /\ f[t] \in Attempts
        /\ g \in [rows' -> Attempts]
    BY <1>1, <1>3 DEF ReapedBy
  <1>5. ASSUME NEW t \in rows'
        PROVE  job'[t] # None /\ Pending(g[t])' /\ job'[g[t]].id = job'[t].id
    <2>1. g[t] = f[t] /\ t \in rows /\ t \in Attempts /\ f[t] \in Attempts
      BY <1>2, <1>4
    <2>2. job[t] # None /\ Pending(f[t]) /\ job[f[t]].id = job[t].id
      BY <1>1, <2>1 DEF ReapedBy
    <2>3. job[f[t]] # None
      BY <2>2 DEF Pending
    <2> QED  BY <2>1, <2>2, <2>3
  <1>6. \A s, t \in rows' : g[s] = g[t] => s = t
    BY <1>1, <1>4 DEF ReapedBy
  <1>7. ReapedBy(g)'
    BY <1>4, <1>5, <1>6 DEF ReapedBy
  <1> QED  BY <1>7

LEMMA MoveKeepsSwept ==
    ASSUME Swept, NEW a \in Attempts, NEW pc, job[a] # None, Moves(a, pc),
           job[a].pc \notin Returning \/ pc \in Returning,
           rows' \subseteq rows, running' \subseteq rows', UNCHANGED shutdown
    PROVE  SweptInv'
  <1>1. \A b \in Attempts : job[b] # None =>
               /\ job'[b] # None /\ job'[b].id = job[b].id
               /\ Pending(b) => Pending(b)'
    BY NoneAssumption DEF Moves, Pending
  <1> QED  BY <1>1, StepKeepsSwept

LEMMA BeginKeepsSwept ==
    ASSUME Swept, NEW a \in Attempts,
           \/ Probe(a) \/ Decide(a) \/ Capture(a) \/ Enqueue(a)
           \/ AbandonRestore(a) \/ StartRestore(a) \/ DropJob(a)
    PROVE  SweptInv'
  <1>1. /\ TypeOK /\ job[a] # None /\ job[a].pc \notin Returning
        /\ UNCHANGED <<rows, running, shutdown>> /\ running \subseteq rows
    BY DEF Swept, DedupeInv, SweptInv, Returning, Probe, Decide, Capture, Enqueue,
           AbandonRestore, StartRestore, DropJob, At
  <1>2. ASSUME NEW pc, Moves(a, pc) PROVE SweptInv'
    BY <1>1, <1>2, MoveKeepsSwept
  <1>3. ASSUME NEW pc \in Pcs, GoTo(a, pc) \/ Refresh(a, pc) PROVE SweptInv'
    BY <1>1, <1>2, <1>3, GoToMoves, RefreshMoves
  <1>4. {"done", "admitted", "queued", "drop", "create"} \subseteq Pcs
    BY DEF Pcs
  <1>5. Probe(a) \/ Capture(a) => SweptInv'
    BY <1>1, <1>2, ProbeMoves, CaptureMoves
  <1>6. Decide(a) => SweptInv'
    BY <1>3, <1>4 DEF Decide
  <1>7. Enqueue(a) \/ StartRestore(a) => SweptInv'
    BY <1>3, <1>4 DEF Enqueue, StartRestore
  <1>8. AbandonRestore(a) \/ DropJob(a) => SweptInv'
    BY <1>3, <1>4 DEF AbandonRestore, DropJob
  <1> QED  BY <1>5, <1>6, <1>7, <1>8

LEMMA CreateKeepsSwept ==
    ASSUME Swept, NEW a \in Attempts,
           \/ LookForLive(a) \/ Reserve(a) \/ FailCreate(a)
           \/ AttachLive(a) \/ LoseSpawn(a) \/ Settle(a)
           \/ ProbeOthers(a) \/ Prune(a) \/ ClearRestore(a)
    PROVE  SweptInv'
  <1>1. /\ TypeOK /\ job[a] # None /\ UNCHANGED shutdown
        /\ rows' \subseteq rows /\ running' \subseteq rows'
    <2>1. TypeOK /\ running \subseteq rows
      BY DEF Swept, DedupeInv, SweptInv
    <2>2. \/ UNCHANGED <<rows, running>>
          \/ \E terms : Reap(terms)
      BY DEF LookForLive, Reserve, FailCreate, AttachLive, LoseSpawn, Settle,
             ProbeOthers, Prune, ClearRestore
    <2>3. rows' \subseteq rows /\ running' \subseteq rows'
      BY <2>1, <2>2 DEF Reap
    <2>4. job[a] # None /\ UNCHANGED shutdown
      BY DEF LookForLive, Reserve, FailCreate, AttachLive, LoseSpawn, Settle,
             ProbeOthers, Prune, ClearRestore, At
    <2> QED  BY <2>1, <2>3, <2>4
  <1>2. ASSUME NEW pc, Moves(a, pc), pc \in Returning \/ job[a].pc \notin Returning
        PROVE  SweptInv'
    BY <1>1, <1>2, MoveKeepsSwept
  <1>3. {"spawned", "probeOthers", "prune", "returned", "cleared"} \subseteq Returning \cap Pcs
        /\ {"create", "reserve", "spawn"} \subseteq Pcs \ Returning
    BY DEF Pcs, Returning
  <1>4. CASE LookForLive(a)
    <2>1. job[a].pc = "create"
      BY <1>4 DEF LookForLive, At
    <2>2. ASSUME NEW pc \in Pcs, GoTo(a, pc) PROVE SweptInv'
      BY <1>1, <1>2, <1>3, <2>1, <2>2, GoToMoves
    <2>3. ASSUME NEW t \in Attempts,
                 job' = [job EXCEPT ![a].term = t, ![a].pc = "spawned"]
          PROVE  SweptInv'
      BY <1>1, <1>2, <1>3, <2>3, TermMoves
    <2>4. \A t \in Newest(Rows(job[a].id) \cap running) : t \in Attempts
      BY <1>1 DEF Newest, TypeOK
    <2> QED  BY <1>3, <1>4, <2>2, <2>3, <2>4 DEF LookForLive
  <1>5. CASE Reserve(a)
    <2>1. job[a].pc = "reserve"
      BY <1>5 DEF Reserve, At
    <2> QED  BY <1>1, <1>2, <1>3, <1>5, <2>1, ReserveMoves
  <1>6. Return(a) => SweptInv'
    BY <1>1, <1>2, <1>3, ReturnMoves
  <1>7. CASE AttachLive(a)
    <2>1. ASSUME NEW t \in running,
                 job' = [job EXCEPT ![a].term = t, ![a].pc = "spawned"]
          PROVE  SweptInv'
      <3>1. t \in Attempts
        BY <1>1 DEF TypeOK
      <3> QED  BY <1>1, <1>2, <1>3, <2>1, <3>1, TermMoves
    <2> QED  BY <1>6, <1>7, <2>1 DEF AttachLive
  <1>8. FailCreate(a) \/ LoseSpawn(a) \/ Prune(a) => SweptInv'
    BY <1>6 DEF FailCreate, LoseSpawn, Prune
  <1>9. Settle(a) \/ ProbeOthers(a) => SweptInv'
    BY <1>1, <1>2, <1>3, SettleMoves, ProbeOthersMoves
  <1>10. ClearRestore(a) => SweptInv'
    BY <1>1, <1>2, <1>3, GoToMoves DEF ClearRestore
  <1> QED  BY <1>4, <1>5, <1>7, <1>8, <1>9, <1>10

(* A new row is its own create's to reap.                                  *)
LEMMA SpawnKeepsSwept ==
    ASSUME Swept, NEW a \in Attempts, Spawn(a)
    PROVE  SweptInv'
  <1>1. /\ TypeOK /\ job[a] # None /\ job[a].pc = "spawn"
        /\ rows' = rows \cup {a} /\ running' = running \cup {a}
        /\ UNCHANGED shutdown
    BY DEF Swept, DedupeInv, Spawn, At
  <1>2. Moves(a, "spawned")
    BY <1>1, TermMoves DEF Spawn
  <1>3. running' \subseteq rows'
    BY <1>1 DEF Swept, SweptInv
  <1> SUFFICES ASSUME shutdown' = "swept" PROVE \E f : ReapedBy(f)'
    BY <1>3 DEF SweptInv
  <1>4. PICK f : ReapedBy(f)
    BY <1>1 DEF Swept, SweptInv
  <1>5. /\ rows \subseteq Attempts
        /\ job'[a] # None /\ job'[a].pc \in Returning /\ job'[a].id = job[a].id
        /\ \A b \in Attempts \ {a} : job'[b] = job[b]
    BY <1>1, <1>2, NoneAssumption DEF TypeOK, Moves, Returning
  <1>6. \A t \in rows : f[t] \in Attempts /\ f[t] # a
    BY <1>1, <1>4 DEF ReapedBy, Pending, Returning
  <1>0. PICK g : g = [t \in rows' |-> IF t = a THEN a ELSE f[t]]
    OBVIOUS
  <1>7. /\ g[a] = a /\ g \in [rows' -> Attempts]
        /\ \A t \in rows' \ {a} : g[t] = f[t] /\ t \in rows
    BY <1>1, <1>6, <1>0
  <1>8. ASSUME NEW s \in rows', NEW t \in rows', g[s] = g[t] PROVE s = t
    BY <1>4, <1>6, <1>7, <1>8 DEF ReapedBy
  <1>9. ASSUME NEW t \in rows'
        PROVE  job'[t] # None /\ Pending(g[t])' /\ job'[g[t]].id = job'[t].id
    <2>1. CASE t = a
      BY <2>1, <1>5, <1>7 DEF Pending
    <2>2. CASE t # a
      <3>1. /\ t \in rows /\ t \in Attempts /\ g[t] = f[t]
            /\ f[t] \in Attempts \ {a}
        BY <2>2, <1>5, <1>6, <1>7
      <3>2. job[t] # None /\ Pending(f[t]) /\ job[f[t]].id = job[t].id
        BY <3>1, <1>4 DEF ReapedBy
      <3> QED  BY <2>2, <3>1, <3>2, <1>5 DEF Pending
    <2> QED  BY <2>1, <2>2
  <1>10. ReapedBy(g)'
    BY <1>7, <1>8, <1>9 DEF ReapedBy
  <1> QED  BY <1>10

(* The worker may reap another row of its request than the one that counts *)
(* on it: that row takes over the create of the reaped one.                *)
LEMMA EndKeepsSwept ==
    ASSUME Swept, NEW a \in Attempts, EndInteractive(a) \/ EndRestore(a)
    PROVE  SweptInv'
  <1>1. /\ TypeOK /\ job[a] # None /\ job[a] \in Jobs
        /\ UNCHANGED shutdown /\ rows \subseteq Attempts /\ running \subseteq rows
    BY DEF Swept, DedupeInv, SweptInv, TypeOK, EndInteractive, EndRestore, At
  <1>2. \E pc : Moves(a, pc)
    BY <1>1, GoToMoves, RefreshMoves DEF EndInteractive, EndRestore, Pcs
  <1>3. running' \subseteq rows' /\ rows' \subseteq rows
    BY <1>1 DEF EndInteractive, EndRestore, Reap
  <1> SUFFICES ASSUME shutdown' = "swept" PROVE \E f : ReapedBy(f)'
    BY <1>3 DEF SweptInv
  <1>4. PICK f : ReapedBy(f)
    BY <1>1 DEF Swept, SweptInv
  <1>5. CASE rows' = {}
    <2>2. PICK g : g \in [rows' -> Attempts]
      <3>1. [t \in rows' |-> a] \in [rows' -> Attempts]
        OBVIOUS
      <3> QED  BY <3>1
    <2>3. ReapedBy(g)'
      BY <1>5, <2>2 DEF ReapedBy
    <2> QED  BY <2>3
  <1>6. CASE EndRestore(a)
    BY <1>1, <1>5, <1>6 DEF EndRestore, Reap
  <1>7. CASE EndInteractive(a)
    <2>1. /\ \A b \in Attempts : /\ job[b] # None => job'[b] # None
                                 /\ job'[b].id = job[b].id
          /\ \A b \in Attempts \ {a} : job'[b] = job[b]
      BY <1>2, NoneAssumption DEF Moves
    <2>2. CASE /\ rows' = rows
               /\ Rows(job[a].id) = {}
      <3>1. \A r \in rows : f[r] \in Attempts /\ f[r] # a
        BY <1>4, <2>2 DEF ReapedBy, Rows
      <3>2. ReapedBy(f)'
        BY <1>1, <1>4, <2>1, <2>2, <3>1 DEF ReapedBy, Pending
      <3> QED  BY <3>2
    <2>3. ASSUME NEW t \in Rows(job[a].id), rows' = rows \ {t}
          PROVE  \E g : ReapedBy(g)'
      <3>1. /\ t \in rows /\ job[t].id = job[a].id /\ f[t] \in Attempts
        BY <1>4, <2>3 DEF Rows, ReapedBy
      <3>0. PICK g : g = [r \in rows' |-> IF f[r] = a THEN f[t] ELSE f[r]]
        OBVIOUS
      <3>2. /\ g \in [rows' -> Attempts]
            /\ \A r \in rows' : g[r] = IF f[r] = a THEN f[t] ELSE f[r]
            /\ \A r \in rows' : r \in rows /\ r # t
        BY <1>4, <2>3, <3>1, <3>0 DEF ReapedBy
      <3>3. ASSUME NEW r \in rows', NEW s \in rows', g[r] = g[s] PROVE r = s
        BY <1>4, <3>1, <3>2, <3>3 DEF ReapedBy
      <3>4. ASSUME NEW r \in rows'
            PROVE  job'[r] # None /\ Pending(g[r])' /\ job'[g[r]].id = job'[r].id
        <4>1. r \in rows /\ r # t /\ r \in Attempts
          BY <1>1, <3>2
        <4>2. /\ job[r] # None /\ Pending(f[r]) /\ job[f[r]].id = job[r].id
              /\ f[r] \in Attempts /\ f[r] # f[t]
          BY <1>4, <3>1, <4>1 DEF ReapedBy
        <4>3. Pending(f[t]) /\ job[f[t]].id = job[t].id
          BY <1>4, <3>1 DEF ReapedBy
        <4>4. CASE f[r] = a
          BY <2>1, <3>1, <3>2, <4>1, <4>2, <4>3, <4>4 DEF Pending
        <4>5. CASE f[r] # a
          BY <2>1, <3>2, <4>1, <4>2, <4>5 DEF Pending
        <4> QED  BY <4>4, <4>5
      <3>5. ReapedBy(g)'
        BY <3>2, <3>3, <3>4 DEF ReapedBy
      <3> QED  BY <3>5
    <2>4. \/ rows' = rows /\ Rows(job[a].id) = {}
          \/ \E t \in Rows(job[a].id) : rows' = rows \ {t}
      BY <1>1, <1>7 DEF EndInteractive, Newest, Reap
    <2> QED  BY <2>2, <2>3, <2>4
  <1> QED  BY <1>6, <1>7

LEMMA SweptStep == ASSUME Swept, [Next]_vars PROVE SweptInv'
  <1>1. TypeOK /\ running \subseteq rows
    BY DEF Swept, DedupeInv, SweptInv
  <1>2. ASSUME UNCHANGED job, rows' \subseteq rows, running' \subseteq rows',
               shutdown' = "swept" => shutdown = "swept"
        PROVE  SweptInv'
    BY <1>2, StepKeepsSwept DEF Pending
  <1>3. ASSUME NEW a \in Attempts, NEW c \in Conns, NEW i \in RequestIds,
               NEW r \in Restores, Receive(a, c, i, r)
        PROVE  SweptInv'
    <2>1. /\ \A b \in Attempts : b # a => job'[b] = job[b]
          /\ job[a] = None /\ UNCHANGED <<rows, running, shutdown>>
      BY <1>1, <1>3 DEF Receive, TypeOK
    <2>2. \A b \in Attempts : job[b] # None => job'[b] = job[b]
      BY <2>1
    <2> QED  BY <1>1, <2>1, <2>2, StepKeepsSwept DEF Pending
  <1>4. ASSUME NEW a \in Attempts, Work(a) PROVE SweptInv'
    BY <1>4, BeginKeepsSwept, CreateKeepsSwept, SpawnKeepsSwept, EndKeepsSwept DEF Work
  <1>5. ASSUME NEW t \in Attempts, Exit(t) PROVE SweptInv'
    BY <1>1, <1>2, <1>5 DEF Exit, Reap
  <1>6. ASSUME NEW c \in Conns, StartJob(c) PROVE SweptInv'
    <2> DEFINE a == Head(queue[c])
    <2>1. queue[c] \in Seq(Attempts) /\ queue[c] # <<>>
      BY <1>1, <1>6 DEF StartJob, TypeOK
    <2>2. a \in Attempts /\ a = queue[c][1] /\ 1 \in 1..Len(queue[c])
      BY <2>1
    <2>3. At(a, "queued")
      BY <2>2 DEF Swept, DedupeInv, QueueOK
    <2> HIDE DEF a
    <2>4. PICK pc \in {"create", "drop"} : GoTo(a, pc)
      BY <1>6 DEF StartJob, a
    <2>5. Moves(a, pc) /\ job[a] # None /\ job[a].pc \notin Returning
      BY <1>1, <2>2, <2>3, <2>4, GoToMoves DEF At, Pcs, Returning
    <2>6. UNCHANGED <<rows, running, shutdown>>
      BY <1>6 DEF StartJob
    <2> QED  BY <1>1, <2>2, <2>5, <2>6, MoveKeepsSwept
  <1>7. CASE BeginShutdown
    BY <1>1, <1>2, <1>7 DEF BeginShutdown
  <1>8. CASE Sweep
    <2>1. rows' = {} /\ running' = {}
      BY <1>1, <1>8 DEF Sweep, Reap
    <2>2. PICK f : f = [t \in rows' |-> t]
      OBVIOUS
    <2>3. ReapedBy(f)'
      BY <2>1, <2>2 DEF ReapedBy
    <2> QED  BY <2>1, <2>3 DEF SweptInv
  <1>9. CASE UNCHANGED vars
    BY <1>1, <1>2, <1>9 DEF vars
  <1> QED  BY <1>3, <1>4, <1>5, <1>6, <1>7, <1>8, <1>9 DEF Next

(* Once a shutdown has swept and every create that was read has ended, no  *)
(* process is left: the late creates reaped themselves (main.rs, the       *)
(* restore task of terminal.rs and the worker of interactive_creates.rs).  *)
THEOREM ShutdownsLeaveNothing == Spec => []ShutdownLeavesNothing
  <1>1. Init => SweptInv
    BY DEF Init, SweptInv
  <1>2. DedupeInv /\ SweptInv /\ [Next]_vars => SweptInv'
    BY SweptStep DEF Swept
  <1>3. DedupeInv /\ SweptInv => ShutdownLeavesNothing
    <2> SUFFICES ASSUME DedupeInv, SweptInv, shutdown = "swept",
                        \A a \in Attempts : job[a] = None \/ At(a, "done")
                 PROVE  running = {}
      BY DEF ShutdownLeavesNothing
    <2>1. PICK f : ReapedBy(f)
      BY DEF SweptInv
    <2>2. rows = {}
      BY <2>1 DEF ReapedBy, Pending, Returning, At
    <2> QED  BY <2>2 DEF SweptInv
  <1> QED  BY <1>1, <1>2, <1>3, DedupeInvariant, PTL DEF Spec

=============================================================================
