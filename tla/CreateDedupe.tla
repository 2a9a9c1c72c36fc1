---------------------------- MODULE CreateDedupe ----------------------------
(***************************************************************************)
(* What becomes of a terminal.create frame: the server-wide requestId      *)
(* guard (freshell-ws create_dedupe.rs), the two lanes a create runs in    *)
(* (interactive_creates.rs, create_gate.rs), the keyed single-flight of    *)
(* handle_create (terminal.rs) and the shutdown sweeps (main.rs).          *)
(*                                                                         *)
(* The guard's mutex is released while a terminal is probed, so begin and  *)
(* settle are several actions each.  One attempt is one frame that was     *)
(* read off a socket; the terminal it spawns bears its name.               *)
(*                                                                         *)
(* Abstractions.  A reply is not modelled, only who is still owed one.     *)
(* The waits of a create (plan, permit, rate limit, session lease) appear  *)
(* as its freedom to fail, or to take its next step arbitrarily late.      *)
(***************************************************************************)
EXTENDS Naturals, Sequences

CONSTANTS
    Attempts,     \* create frames read off sockets: the bound of a behaviour
    RequestIds,   \* createRequestIds; a resend has its original's
    Conns,        \* connections
    Negotiated,   \* connections that negotiated paneReconcileV1
    Restores,     \* the restore flags that frames carry
    QueueCap,     \* bound: a connection's interactive queue (spawn_queue_cap)
    None

ASSUME DedupeAssumption ==
    /\ Negotiated \subseteq Conns
    /\ Restores \subseteq BOOLEAN
    /\ QueueCap \in Nat \ {0}

VARIABLES
    entries,      \* request id -> sentinel, settled create, or None
    job,          \* attempt -> what its create is doing, or None
    queue,        \* connection -> its queued interactive creates
    keyed,        \* request ids reserved by a keyed create
    rows,         \* the registry's terminals
    older,        \* terminal -> the rows there were when it was inserted
    running,      \* the terminals whose process runs
    waiting,      \* <<connection, request id>> that were promised a reply
    shutdown      \* "no", "started", or "swept": a kill_all has run since

vars == <<entries, job, queue, keyed, rows, older, running, waiting, shutdown>>

-----------------------------------------------------------------------------
Pcs == {"probe", "decide", "admitted", "captured", "queued", "create",
        "reserve", "spawn", "spawned", "probeOthers", "prune", "returned",
        "cleared", "drop", "done"}

Entries ==
    [tag : {"InFlight"}, attempt : Attempts, origin : Conns,
     waiters : SUBSET Conns]
      \cup [tag : {"Settled"}, term : Attempts, restore : BOOLEAN]

(* gen: the sentinel a Job's guard captured; snap and alive: what begin    *)
(* read and probed; term: the terminal to answer with; dead and waiters:   *)
(* what settle carries between its lock scopes.                            *)
Jobs ==
    [id : RequestIds, conn : Conns, restore : BOOLEAN, pc : Pcs,
     gen : Attempts \cup {None}, snap : Entries \cup {None}, alive : BOOLEAN,
     keyed : BOOLEAN, term : Attempts \cup {None},
     dead : SUBSET (RequestIds \X Attempts), waiters : SUBSET Conns]

ASSUME NoneAssumption ==
    None \notin Attempts /\ None \notin Entries /\ None \notin Jobs

TypeOK ==
    /\ entries \in [RequestIds -> Entries \cup {None}]
    /\ job \in [Attempts -> Jobs \cup {None}]
    /\ queue \in [Conns -> Seq(Attempts)]
    /\ keyed \subseteq RequestIds
    /\ rows \subseteq Attempts
    /\ older \in [Attempts -> SUBSET Attempts]
    /\ running \subseteq Attempts
    /\ waiting \subseteq Conns \X RequestIds
    /\ shutdown \in {"no", "started", "swept"}

Holds(i, tag) == entries[i] # None /\ entries[i].tag = tag

At(a, pc) == job[a] # None /\ job[a].pc = pc

(* fresh_sentinel: the age stamp's allocation is the attempt's identity.   *)
Sentinel(a, c) ==
    [tag |-> "InFlight", attempt |-> a, origin |-> c, waiters |-> {}]

Frame(i, c, r, pc) ==
    [id |-> i, conn |-> c, restore |-> r, pc |-> pc, gen |-> None,
     snap |-> None, alive |-> FALSE, keyed |-> FALSE, term |-> None,
     dead |-> {}, waiters |-> {}]

GoTo(a, pc) == job' = [job EXCEPT ![a].pc = pc]

(* The frame goes on with nothing but itself.                              *)
Refresh(a, pc) ==
    job' = [job EXCEPT ![a] = Frame(@.id, @.conn, @.restore, pc)]

Init ==
    /\ entries = [i \in RequestIds |-> None]
    /\ job = [a \in Attempts |-> None]
    /\ queue = [c \in Conns |-> <<>>]
    /\ keyed = {} /\ rows = {} /\ running = {} /\ waiting = {}
    /\ older = [a \in Attempts |-> {}]
    /\ shutdown = "no"

-----------------------------------------------------------------------------
(* begin, in the connection's reader.                                      *)

(* The reader takes one frame at a time, to its lane.                      *)
ReaderIdle(c) ==
    \A a \in Attempts : job[a] # None /\ job[a].conn = c =>
        /\ job[a].pc \notin {"probe", "decide", "captured"}
        /\ job[a].pc = "admitted" => job[a].restore

(* note_duplicate_in_flight: another connection than the sentinel's is     *)
(* owed the reply of the create in flight.                                 *)
NoteDuplicate(c, i) ==
    IF entries[i].origin = c
    THEN UNCHANGED <<entries, waiting>>
    ELSE /\ entries' = [entries EXCEPT ![i].waiters = @ \cup {c}]
         /\ waiting' = waiting \cup {<<c, i>>}

(* Phase 1.                                                                *)
Receive(a, c, i, r) ==
    /\ job[a] = None
    /\ ReaderIdle(c)
    /\ \/ /\ entries[i] = None
          /\ entries' = [entries EXCEPT ![i] = Sentinel(a, c)]
          /\ job' = [job EXCEPT ![a] = Frame(i, c, r, "admitted")]
          /\ UNCHANGED waiting
       \/ /\ Holds(i, "InFlight")
          /\ NoteDuplicate(c, i)
          /\ job' = [job EXCEPT ![a] = Frame(i, c, r, "done")]
       \/ /\ Holds(i, "Settled")
          /\ job' = [job EXCEPT ![a] =
                        [Frame(i, c, r, "probe") EXCEPT !.snap = entries[i]]]
          /\ UNCHANGED <<entries, waiting>>
    /\ UNCHANGED <<queue, keyed, rows, older, running, shutdown>>

(* Phase 2, without the lock.                                              *)
Probe(a) ==
    /\ At(a, "probe")
    /\ job' = [job EXCEPT ![a].alive = job[a].snap.term \in running,
                          ![a].pc = "decide"]
    /\ UNCHANGED <<entries, queue, keyed, rows, older, running, waiting, shutdown>>

(* Mutant: a probe of the terminal before evicts a create settled since.   *)
ReplaysByProbeOnly(a) ==
    LET j == job[a]
    IN  /\ Holds(j.id, "Settled")
        /\ entries[j.id].restore = j.restore
        /\ j.alive

(* The settled create answers the frame: same restore flag, and alive as   *)
(* far as the probe can tell.                                              *)
Replays(a) ==
    LET j == job[a]
    IN  /\ Holds(j.id, "Settled")
        /\ entries[j.id].restore = j.restore
        /\ entries[j.id] = j.snap => j.alive

(* Mutant: a create goes on over a dead terminal's entry, and leaves it.   *)
DecideWithoutSentinel(a) ==
    /\ At(a, "decide")
    /\ LET i == job[a].id
       IN  \/ /\ Holds(i, "InFlight")
              /\ NoteDuplicate(job[a].conn, i)
              /\ Refresh(a, "done")
           \/ /\ ~Holds(i, "InFlight")
              /\ Refresh(a, IF Replays(a) THEN "done" ELSE "admitted")
              /\ UNCHANGED <<entries, waiting>>
    /\ UNCHANGED <<queue, keyed, rows, older, running, shutdown>>

(* Phase 3, on the entry as it is now.                                     *)
Decide(a) ==
    /\ At(a, "decide")
    /\ LET i == job[a].id
       IN  \/ /\ Holds(i, "InFlight")
              /\ NoteDuplicate(job[a].conn, i)
              /\ Refresh(a, "done")
           \/ /\ Replays(a)
              /\ Refresh(a, "done")
              /\ UNCHANGED <<entries, waiting>>
           \/ /\ ~Holds(i, "InFlight") /\ ~Replays(a)
              /\ entries' = [entries EXCEPT ![i] = Sentinel(a, job[a].conn)]
              /\ Refresh(a, "admitted")
              /\ UNCHANGED waiting
    /\ UNCHANGED <<queue, keyed, rows, older, running, shutdown>>

-----------------------------------------------------------------------------
(* Clearing a sentinel that did not settle; its waiters get an error.      *)

(* Mutant: the waiters are dropped with the sentinel.                      *)
ClearSentinelSilently(i) ==
    /\ entries' = [entries EXCEPT ![i] = None]
    /\ UNCHANGED waiting

ClearSentinel(i) ==
    /\ entries' = [entries EXCEPT ![i] = None]
    /\ waiting' = waiting \ (entries[i].waiters \X {i})

(* clear_if_in_flight: whoever's sentinel it is.                           *)
ClearIfInFlight(i) ==
    IF Holds(i, "InFlight") THEN ClearSentinel(i)
                            ELSE UNCHANGED <<entries, waiting>>

(* clear_matching_generation: only the sentinel the guard captured.        *)
ClearMatching(i, gen) ==
    IF Holds(i, "InFlight") /\ entries[i].attempt = gen
    THEN ClearSentinel(i)
    ELSE UNCHANGED <<entries, waiting>>

-----------------------------------------------------------------------------
(* The interactive lane: a queue and a serial worker per connection.       *)

(* Job::new captures the sentinel in a lock scope after begin's.           *)
Capture(a) ==
    /\ At(a, "admitted") /\ ~job[a].restore
    /\ LET e == entries[job[a].id]
       IN  job' = [job EXCEPT ![a].pc = "captured",
                       ![a].gen = IF Holds(job[a].id, "InFlight")
                                  THEN e.attempt ELSE None]
    /\ UNCHANGED <<entries, queue, keyed, rows, older, running, waiting, shutdown>>

(* try_send; a full queue drops the job.                                   *)
Enqueue(a) ==
    /\ At(a, "captured")
    /\ LET c == job[a].conn
       IN  IF Len(queue[c]) < QueueCap
           THEN /\ queue' = [queue EXCEPT ![c] = Append(@, a)]
                /\ GoTo(a, "queued")
           ELSE GoTo(a, "drop") /\ UNCHANGED queue
    /\ UNCHANGED <<entries, keyed, rows, older, running, waiting, shutdown>>

Working == {"create", "reserve", "spawn", "spawned", "probeOthers", "prune",
            "returned", "cleared", "drop"}

WorkerIdle(c) ==
    \A a \in Attempts : job[a] # None /\ job[a].conn = c /\ ~job[a].restore =>
        job[a].pc \notin Working

StartJob(c) ==
    /\ queue[c] # <<>> /\ WorkerIdle(c)
    /\ GoTo(Head(queue[c]), IF shutdown = "no" THEN "create" ELSE "drop")
    /\ queue' = [queue EXCEPT ![c] = Tail(@)]
    /\ UNCHANGED <<entries, keyed, rows, older, running, waiting, shutdown>>

-----------------------------------------------------------------------------
(* The restore lane: a task of its own, behind the spawn gate.             *)

(* Mutant: one of the abandoning returns forgets the sentinel.             *)
AbandonRestoreLeaks(a) ==
    /\ At(a, "admitted") /\ job[a].restore
    /\ Refresh(a, "done")
    /\ UNCHANGED <<entries, queue, keyed, rows, older, running, waiting, shutdown>>

(* The plan failed, the gate was full, the client left, or the server is   *)
(* shutting down: nothing was spawned.                                     *)
AbandonRestore(a) ==
    /\ At(a, "admitted") /\ job[a].restore
    /\ ClearIfInFlight(job[a].id)
    /\ Refresh(a, "done")
    /\ UNCHANGED <<queue, keyed, rows, older, running, shutdown>>

StartRestore(a) ==
    /\ At(a, "admitted") /\ job[a].restore
    /\ shutdown = "no"
    /\ GoTo(a, "create")
    /\ UNCHANGED <<entries, queue, keyed, rows, older, running, waiting, shutdown>>

-----------------------------------------------------------------------------
(* handle_create.                                                          *)

Rows(i) == {t \in rows : job[t].id = i}

(* newest_by_create_request_id, newest_live_by_create_request_id           *)
Newest(terms) == {t \in terms : terms \ {t} \subseteq older[t]}

(* Mutant: the terminal found is not asked whether it runs.                *)
LookForRow(a) ==
    /\ At(a, "create")
    /\ job' = [job EXCEPT ![a].pc = "spawned",
                  ![a].term = CHOOSE t \in Newest(Rows(job[a].id)) \cup {None} :
                                 Rows(job[a].id) # {} => t # None]
    /\ UNCHANGED <<entries, queue, keyed, rows, older, running, waiting, shutdown>>

(* A reconciling connection adopts the id's live terminal if it has one,   *)
(* and else reserves the id before it spawns.                              *)
LookForLive(a) ==
    /\ At(a, "create")
    /\ LET live == Rows(job[a].id) \cap running
       IN  \/ /\ job[a].conn \notin Negotiated
              /\ GoTo(a, "spawn")
           \/ /\ job[a].conn \in Negotiated /\ live = {}
              /\ GoTo(a, "reserve")
           \/ /\ job[a].conn \in Negotiated
              /\ \E t \in Newest(live) :
                    job' = [job EXCEPT ![a].term = t, ![a].pc = "spawned"]
    /\ UNCHANGED <<entries, queue, keyed, rows, older, running, waiting, shutdown>>

(* begin_keyed_create; while another create holds the id, look again, and  *)
(* after the last attempt spawn without it (fail-open).                    *)
Reserve(a) ==
    /\ At(a, "reserve")
    /\ LET i == job[a].id
       IN  \/ /\ i \notin keyed
              /\ keyed' = keyed \cup {i}
              /\ job' = [job EXCEPT ![a].keyed = TRUE, ![a].pc = "spawn"]
           \/ /\ i \in keyed
              /\ GoTo(a, "create") \/ GoTo(a, "spawn")
              /\ UNCHANGED keyed
    /\ UNCHANGED <<entries, queue, rows, older, running, waiting, shutdown>>

(* The end of handle_create drops the keyed guard.                         *)
Return(a) ==
    /\ job' = [job EXCEPT ![a] = [Frame(@.id, @.conn, @.restore, "returned")
                                     EXCEPT !.gen = job[a].gen]]
    /\ keyed' = IF job[a].keyed THEN keyed \ {job[a].id} ELSE keyed

(* Any of the refusals and failures before a terminal exists.              *)
FailCreate(a) ==
    /\ job[a] # None /\ job[a].pc \in {"create", "spawn"}
    /\ Return(a)
    /\ UNCHANGED <<entries, queue, rows, older, running, waiting, shutdown>>

Spawn(a) ==
    /\ At(a, "spawn")
    /\ rows' = rows \cup {a}
    /\ older' = [older EXCEPT ![a] = rows]
    /\ running' = running \cup {a}
    /\ job' = [job EXCEPT ![a].term = a, ![a].pc = "spawned"]
    /\ UNCHANGED <<entries, queue, keyed, waiting, shutdown>>

(* kill removes the row of a terminal, then its process.                   *)
Reap(terms) ==
    /\ rows' = rows \ terms
    /\ running' = running \ terms

(* The session of the create has a live writer: its terminal answers,      *)
(* whichever request made it.  If the session has moved on, the writer is  *)
(* torn down.                                                              *)
AttachLive(a) ==
    /\ At(a, "spawn")
    /\ \E t \in running :
          \/ /\ job' = [job EXCEPT ![a].term = t, ![a].pc = "spawned"]
             /\ UNCHANGED <<keyed, rows, running>>
          \/ Return(a) /\ Reap({t})
    /\ UNCHANGED <<entries, queue, older, waiting, shutdown>>

(* The create lost the session while it spawned: teardown_unowned_spawn.   *)
LoseSpawn(a) ==
    /\ At(a, "spawned") /\ job[a].term = a
    /\ Reap({a})
    /\ Return(a)
    /\ UNCHANGED <<entries, queue, waiting, shutdown, older>>

(* Mutant: the sentinel is overwritten before its waiters are taken.       *)
SettleForgetsWaiters(a) ==
    /\ At(a, "spawned")
    /\ entries' = [entries EXCEPT ![job[a].id] =
           [tag |-> "Settled", term |-> job[a].term, restore |-> job[a].restore]]
    /\ GoTo(a, "prune")
    /\ UNCHANGED <<queue, keyed, rows, older, running, waiting, shutdown>>

(* The reply is out: settle, phase 1.                                      *)
Settle(a) ==
    /\ At(a, "spawned")
    /\ LET i == job[a].id
       IN  /\ entries' = [entries EXCEPT ![i] =
                  [tag |-> "Settled", term |-> job[a].term,
                   restore |-> job[a].restore]]
           /\ job' = [job EXCEPT
                  ![a].pc = "probeOthers",
                  ![a].waiters = IF Holds(i, "InFlight")
                                 THEN entries[i].waiters ELSE {},
                  ![a].dead = {<<k, entries[k].term>> :
                      k \in {n \in RequestIds \ {i} : Holds(n, "Settled")}}]
    /\ UNCHANGED <<queue, keyed, rows, older, running, waiting, shutdown>>

(* Phase 2, without the lock: which of the other settled creates are over. *)
ProbeOthers(a) ==
    /\ At(a, "probeOthers")
    /\ job' = [job EXCEPT ![a].dead = {p \in @ : p[2] \notin running},
                          ![a].pc = "prune"]
    /\ UNCHANGED <<entries, queue, keyed, rows, older, running, waiting, shutdown>>

(* Phase 3, and the waiters' reply.                                        *)
Prune(a) ==
    /\ At(a, "prune")
    /\ entries' = [i \in RequestIds |->
          IF Holds(i, "Settled") /\ <<i, entries[i].term>> \in job[a].dead
          THEN None ELSE entries[i]]
    /\ waiting' = waiting \ (job[a].waiters \X {job[a].id})
    /\ Return(a)
    /\ UNCHANGED <<queue, rows, older, running, shutdown>>

-----------------------------------------------------------------------------
(* After handle_create.                                                    *)

(* The restore task clears, then reaps everything if the server is going   *)
(* down.                                                                   *)
ClearRestore(a) ==
    /\ At(a, "returned") /\ job[a].restore
    /\ ClearIfInFlight(job[a].id)
    /\ GoTo(a, "cleared")
    /\ UNCHANGED <<queue, keyed, rows, older, running, shutdown>>

EndRestore(a) ==
    /\ At(a, "cleared")
    /\ IF shutdown = "no" THEN UNCHANGED <<rows, running>>
                          ELSE Reap(rows)
    /\ Refresh(a, "done")
    /\ UNCHANGED <<entries, queue, keyed, waiting, shutdown, older>>

(* Mutant: the worker does not look at the shutdown after a create.        *)
EndInteractiveUnaware(a) ==
    /\ At(a, "returned") /\ ~job[a].restore
    /\ GoTo(a, "drop")
    /\ UNCHANGED <<entries, queue, keyed, rows, older, running, waiting, shutdown>>

(* The interactive worker reaps the newest terminal of its request if the  *)
(* server is going down, then drops its job.                               *)
EndInteractive(a) ==
    /\ At(a, "returned") /\ ~job[a].restore
    /\ LET mine == Rows(job[a].id)
       IN  \/ /\ shutdown = "no" \/ mine = {}
              /\ UNCHANGED <<rows, running>>
           \/ /\ shutdown # "no"
              /\ \E t \in Newest(mine) : Reap({t})
    /\ GoTo(a, "drop")
    /\ UNCHANGED <<entries, queue, keyed, waiting, shutdown, older>>

(* Mutant: the guard drops whatever sentinel its request id has.           *)
DropJobAnySentinel(a) ==
    /\ At(a, "drop")
    /\ ClearIfInFlight(job[a].id)
    /\ Refresh(a, "done")
    /\ UNCHANGED <<queue, keyed, rows, older, running, shutdown>>

DropJob(a) ==
    /\ At(a, "drop")
    /\ ClearMatching(job[a].id, job[a].gen)
    /\ Refresh(a, "done")
    /\ UNCHANGED <<queue, keyed, rows, older, running, shutdown>>

-----------------------------------------------------------------------------
(* Terminals and the server.                                               *)

(* A terminal exits and keeps its row, or is killed.                       *)
Exit(t) ==
    /\ t \in running
    /\ \/ running' = running \ {t} /\ UNCHANGED rows
       \/ Reap({t})
    /\ UNCHANGED <<entries, job, queue, keyed, waiting, shutdown, older>>

BeginShutdown ==
    /\ shutdown = "no"
    /\ shutdown' = "started"
    /\ UNCHANGED <<entries, job, queue, keyed, rows, older, running, waiting>>

(* kill_all; main sweeps twice, here as often as it likes.                 *)
Sweep ==
    /\ shutdown # "no"
    /\ shutdown' = "swept"
    /\ Reap(rows)
    /\ UNCHANGED <<entries, job, queue, keyed, waiting, older>>

Work(a) ==
    \/ Probe(a) \/ Decide(a) \/ Capture(a) \/ Enqueue(a)
    \/ AbandonRestore(a) \/ StartRestore(a)
    \/ LookForLive(a) \/ Reserve(a) \/ FailCreate(a)
    \/ Spawn(a) \/ AttachLive(a)
    \/ LoseSpawn(a) \/ Settle(a) \/ ProbeOthers(a) \/ Prune(a)
    \/ ClearRestore(a) \/ EndRestore(a) \/ EndInteractive(a) \/ DropJob(a)

Next ==
    \/ \E a \in Attempts, c \in Conns, i \in RequestIds, r \in Restores :
          Receive(a, c, i, r)
    \/ \E a \in Attempts : Work(a) \/ Exit(a)
    \/ \E c \in Conns : StartJob(c)
    \/ BeginShutdown \/ Sweep

Spec == Init /\ [][Next]_vars

(* Tasks run: an admitted create is never silently parked forever.         *)
FairSpec ==
    /\ Spec
    /\ \A a \in Attempts : WF_vars(Work(a))
    /\ \A c \in Conns : WF_vars(StartJob(c))

-----------------------------------------------------------------------------
(* Properties.                                                             *)

(* The guard's promise, where no restore flag differs: a request id never  *)
(* has two running terminals, however often its frame is sent again.       *)
NoDuplicateTerminal ==
    \A s, t \in running : job[s].id = job[t].id => s = t

(* The same promise with restores about, as the guard's header words it:   *)
(* within a terminal's lifetime a resend of its frame spawns no other.     *)
ResendSpawnsNothing ==
    \A s, t \in running :
        job[s].id = job[t].id /\ job[s].restore = job[t].restore => s = t

(* A sentinel is the promise of an attempt that will still settle or clear *)
(* it: a leaked one would refuse its request id for ever.                  *)
SentinelHasWorker ==
    \A i \in RequestIds : Holds(i, "InFlight") =>
        LET a == entries[i].attempt
        IN  job[a] # None /\ job[a].id = i /\ job[a].pc # "done"

(* A connection that was told "in flight" is on a list that somebody will  *)
(* answer: the sentinel's, or the one a settling create has taken.         *)
WaitersHeld ==
    \A p \in waiting :
        \/ Holds(p[2], "InFlight") /\ p[1] \in entries[p[2]].waiters
        \/ \E a \in Attempts : /\ job[a] # None
                               /\ job[a].id = p[2]
                               /\ job[a].pc \in {"probeOthers", "prune"}
                               /\ p[1] \in job[a].waiters

(* Once the shutdown has swept and every create that was read has ended,   *)
(* no process is left: the late ones reaped themselves.                    *)
ShutdownLeavesNothing ==
    /\ shutdown = "swept"
    /\ \A a \in Attempts : job[a] = None \/ At(a, "done")
    => running = {}

(* Only an attempt's own steps end its sentinel: a completed worker must   *)
(* not clear a newer attempt.                                              *)
NewerAttemptKept ==
    [][\A i \in RequestIds :
         Holds(i, "InFlight") =>
            \/ entries'[i] # None /\ entries'[i].tag = "InFlight"
                  /\ entries'[i].attempt = entries[i].attempt
            \/ job'[entries[i].attempt].pc # job[entries[i].attempt].pc]_vars

(* A settled create answers for its id for as long as its terminal runs.   *)
SettledKept ==
    [][\A i \in RequestIds :
         Holds(i, "Settled") /\ entries[i].term \in running /\ entries[i].term \in running'
            => entries'[i] = entries[i]]_vars

(* Whoever was promised a reply gets one.                                  *)
WaitersAnswered ==
    \A c \in Conns, i \in RequestIds :
        <<c, i>> \in waiting ~> <<c, i>> \notin waiting

=============================================================================
