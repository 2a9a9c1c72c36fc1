------------------------------ MODULE TreeReap ------------------------------
(***************************************************************************)
(* Killing a sidecar's process tree and confirming its death               *)
(* (freshell-freshagent session_lease.rs, kill_and_confirm_tree_dead and   *)
(* its recorded-identity variant), against processes that die, fork and    *)
(* give their pids to others meanwhile.                                    *)
(*                                                                         *)
(* A process is an incarnation: it stands for its start time.  The tree    *)
(* is captured first, by its ownership tag; every signal goes through a    *)
(* pidfd in three steps, between which anything may happen.  The variant   *)
(* that records the tree first and kills later takes the same steps.       *)
(*                                                                         *)
(* Abstractions.  /proc/<pid>/stat can be read; a zombie has left its pid; *)
(* the chain of parents is shorter than the 128 the walk up allows; the    *)
(* waits of 25 ms are any delay.                                           *)
(***************************************************************************)
EXTENDS Naturals, FiniteSets

CONSTANTS
    Procs,       \* incarnations: the bound of a behaviour
    Root,        \* the sidecar, a child of the server
    Foreign,     \* processes that are not of the tree
    Undumpable,  \* processes whose environ nobody may read
    Pids,        \* numbers, in the order /proc lists them
    RootPid,     \* the pid of the lease's kill handle
    Yama,        \* environ is readable for descendants of the server only, as
                 \* the module's comments assume of a restricted host
    Rounds,      \* bound: rounds of the sweep (24)
    None

ASSUME ReapAssumption ==
    /\ Root \in Procs \ Foreign /\ Foreign \subseteq Procs
    /\ Undumpable \subseteq Procs
    /\ Pids \subseteq Nat /\ RootPid \in Pids
    /\ Yama \in BOOLEAN
    /\ Rounds \in Nat \ {0}
    /\ None \notin Procs \cup Pids

VARIABLES
    pidOf,     \* incarnation -> its pid while it runs, else None
    started,   \* incarnations there have been
    parent,    \* incarnation -> its parent while that runs, else None
    pc,
    todo,      \* pids the scan, the observation or the round has yet to take
    found,     \* tagged pids of this scan
    child,     \* the start time recorded for the kill handle's pid
    tree,      \* recorded pairs of pid and start time
    aim,       \* the pair that is being signalled
    pin,       \* what the pidfd refers to
    hit,       \* incarnations that got a signal
    forced,    \* the root was signalled again, by SIGKILL
    round,     \* 0 while the tree is captured and its root killed
    answer,    \* "pending", "dead" or "unconfirmed"
    calm       \* the tree stays as it is until captured, then forks no more:
               \* an assumption on the host, chosen once

procs == <<pidOf, started, parent, calm>>
vars == <<pidOf, started, parent, pc, todo, found, child, tree, aim, pin,
          hit, forced, round, answer, calm>>

Tagged == Procs \ Foreign
Alive(x) == pidOf[x] # None
Runs(p, x) == pidOf[x] = p

TypeOK ==
    /\ pidOf \in [Procs -> Pids \cup {None}]
    /\ \A x, y \in Procs : Alive(x) /\ pidOf[x] = pidOf[y] => x = y
    /\ started \subseteq Procs
    /\ parent \in [Procs -> Procs \cup {None}]
    /\ pc \in {"idle", "scan", "observe", "pin", "verify", "send", "wait",
               "retain", "round", "done"}
    /\ todo \subseteq Pids /\ found \subseteq Pids
    /\ child \in Procs \cup {None}
    /\ tree \subseteq Pids \X Procs
    /\ aim \in (Pids \X Procs) \cup {None}
    /\ pin \in Procs \cup {None}
    /\ hit \subseteq Procs
    /\ forced \in BOOLEAN /\ round \in 0 .. Rounds
    /\ answer \in {"pending", "dead", "unconfirmed"}
    /\ calm \in BOOLEAN

(* What holds a pid, if anything does.                                     *)
Occupants(p) == {x \in Procs : Runs(p, x)}

(* C has every living child of its members.                                *)
HasChildren(C) == \A x \in Procs : Alive(x) /\ parent[x] \in C => x \in C

(* The members of S and their descendants by the chain of living parents:  *)
(* the least set of that kind.                                             *)
Lineage(S) ==
    {x \in Procs : \A C \in SUBSET Procs : S \subseteq C /\ HasChildren(C) => x \in C}

Readable(x) ==
    x \notin Undumpable /\ (Yama => x \in Lineage({y \in {Root} : Alive(y)}))

(* The server knows the root by its pid.                                   *)
KnownOwned(x) == x \in Lineage(Occupants(RootPid))

Init ==
    /\ pidOf = [x \in Procs |-> IF x = Root THEN RootPid ELSE None]
    /\ started = {Root}
    /\ parent = [x \in Procs |-> None]
    /\ pc = "idle" /\ todo = {} /\ found = {} /\ child = None /\ tree = {}
    /\ aim = None /\ pin = None /\ hit = {} /\ forced = FALSE
    /\ round = 0
    /\ answer = "pending"
    /\ calm \in BOOLEAN

-----------------------------------------------------------------------------
Answer(a) == pc' = "done" /\ answer' = a

First(S) == CHOOSE p \in S : \A q \in S : p <= q

(* The start time of the pid in the kill handle, whoever has it now.       *)
ObserveChild ==
    /\ pc = "idle"
    /\ \E x \in Occupants(RootPid) \cup {None} :
          /\ x = None => Occupants(RootPid) = {}
          /\ child' = x
    /\ pc' = "scan" /\ todo' = Pids /\ found' = {}
    /\ UNCHANGED <<procs, tree, aim, pin, hit, forced, round, answer>>

(* scan_tagged_pids, pid by pid.  An unreadable process counts against the *)
(* scan only if it is known to descend from the root.                      *)
ScanPid ==
    /\ pc = "scan" /\ todo # {}
    /\ LET p == First(todo)
           here == Occupants(p)
       IN  \/ /\ \E x \in here : ~Readable(x) /\ KnownOwned(x)
              /\ Answer("unconfirmed")
              /\ UNCHANGED <<todo, found>>
           \/ /\ \A x \in here : Readable(x) \/ ~KnownOwned(x)
              /\ todo' = todo \ {p}
              /\ found' = IF \E x \in here : Readable(x) /\ x \in Tagged
                          THEN found \cup {p} ELSE found
              /\ UNCHANGED <<pc, answer>>
    /\ UNCHANGED <<procs, child, tree, aim, pin, hit, forced, round>>

(* Of a later scan only newcomers are observed.                            *)
ScanDone ==
    /\ pc = "scan" /\ todo = {}
    /\ todo' = {p \in found : round = 0 \/ \A x \in Procs : <<p, x>> \notin tree}
    /\ pc' = "observe"
    /\ UNCHANGED <<procs, found, child, tree, aim, pin, hit, forced, round, answer>>

(* The start time of a scanned pid is read after the scan.                 *)
ObservePid ==
    /\ pc = "observe" /\ todo # {}
    /\ LET p == First(todo)
       IN  /\ tree' = tree \cup ({p} \X Occupants(p))
           /\ todo' = todo \ {p}
    /\ UNCHANGED <<procs, pc, found, child, aim, pin, hit, forced, round, answer>>

(* The root belongs to the tree, tagged or not; it is signalled first.     *)
Captured ==
    /\ pc = "observe" /\ todo = {} /\ round = 0
    /\ IF child = None
       THEN /\ tree' = tree /\ pc' = "retain" /\ round' = 1 /\ aim' = None
       ELSE /\ tree' = IF \E x \in Procs : <<RootPid, x>> \in tree
                       THEN tree ELSE tree \cup {<<RootPid, child>>}
            /\ aim' = <<RootPid, child>>
            /\ pc' = "pin" /\ round' = 0
    /\ UNCHANGED <<procs, todo, found, child, pin, hit, forced, answer>>

-----------------------------------------------------------------------------
(* signal_recorded_incarnation                                             *)

(* Where the reap goes when a signal was sent, or when nobody is there.    *)
AfterSignal(sent) ==
    IF round = 0 THEN (IF sent THEN "wait" ELSE "retain") ELSE "round"

Aimed(sent) ==
    /\ pc' = AfterSignal(sent)
    /\ round' = IF round = 0 /\ ~sent THEN 1 ELSE round

(* pidfd_open; nobody there (ESRCH) is the end of it.                      *)
Pin ==
    /\ pc = "pin"
    /\ \/ \E x \in Occupants(aim[1]) :
             pin' = x /\ pc' = "verify" /\ UNCHANGED round
       \/ Occupants(aim[1]) = {} /\ Aimed(FALSE) /\ UNCHANGED pin
    /\ UNCHANGED <<procs, todo, found, child, tree, aim, hit, forced, answer>>

(* Mutant: the start time is not verified.                                 *)
PinOnly ==
    /\ pc = "verify"
    /\ pc' = "send"
    /\ UNCHANGED <<procs, todo, found, child, tree, aim, pin, hit, forced, round, answer>>

(* The start time of whoever holds the pid, read through the pid.          *)
Verify ==
    /\ pc = "verify"
    /\ IF Runs(aim[1], aim[2]) THEN pc' = "send" /\ UNCHANGED round
                               ELSE Aimed(FALSE)
    /\ UNCHANGED <<procs, todo, found, child, tree, aim, pin, hit, forced, answer>>

(* Mutant: the signal goes to the pid.                                     *)
SendToPid ==
    /\ pc = "send"
    /\ hit' = hit \cup Occupants(aim[1])
    /\ Aimed(Occupants(aim[1]) # {})
    /\ UNCHANGED <<procs, todo, found, child, tree, aim, pin, forced, answer>>

(* pidfd_send_signal: the process pinned, or nobody.                       *)
Send ==
    /\ pc = "send"
    /\ hit' = IF Alive(pin) THEN hit \cup {pin} ELSE hit
    /\ Aimed(Alive(pin))
    /\ UNCHANGED <<procs, todo, found, child, tree, aim, pin, forced, answer>>

(* Mutant: the root is waited for without a budget.                        *)
WaitForGone ==
    /\ pc = "wait" /\ ~Runs(RootPid, child)
    /\ pc' = "retain" /\ round' = 1
    /\ UNCHANGED <<procs, todo, found, child, tree, aim, pin, hit, forced, answer>>

(* wait_recorded_incarnation_gone, twice at most: after the budget of the  *)
(* first the root is signalled again, by SIGKILL.                          *)
WaitGone ==
    /\ pc = "wait"
    /\ \/ /\ ~Runs(RootPid, child)
          /\ pc' = "retain" /\ round' = 1
          /\ UNCHANGED <<forced, answer>>
       \/ /\ Runs(RootPid, child) /\ ~forced
          /\ pc' = "pin" /\ forced' = TRUE /\ UNCHANGED <<round, answer>>
       \/ /\ Runs(RootPid, child) /\ forced
          /\ Answer("unconfirmed") /\ UNCHANGED <<round, forced>>
    /\ UNCHANGED <<procs, todo, found, child, tree, aim, pin, hit>>

-----------------------------------------------------------------------------
(* sweep_captured_tree_until_dead                                          *)

(* Mutant: only those members stay that a scan still finds.                *)
RetainTagged ==
    /\ pc = "retain"
    /\ tree' = {m \in tree : Runs(m[1], m[2]) /\ Readable(m[2])}
    /\ pc' = "scan" /\ todo' = Pids /\ found' = {}
    /\ UNCHANGED <<procs, child, aim, pin, hit, forced, round, answer>>

(* A round begins: members whose start time is no longer there are gone.   *)
Retain ==
    /\ pc = "retain"
    /\ tree' = {m \in tree : Runs(m[1], m[2])}
    /\ pc' = "scan" /\ todo' = Pids /\ found' = {}
    /\ UNCHANGED <<procs, child, aim, pin, hit, forced, round, answer>>

(* Newcomers are in; an empty tree is the confirmation.                    *)
RoundBegins ==
    /\ pc = "observe" /\ todo = {} /\ round > 0
    /\ IF tree = {} THEN Answer("dead") /\ UNCHANGED todo
       ELSE pc' = "round" /\ todo' = {m[1] : m \in tree} /\ UNCHANGED answer
    /\ UNCHANGED <<procs, found, child, tree, aim, pin, hit, forced, round>>

SignalMember ==
    /\ pc = "round" /\ todo # {}
    /\ todo' = todo \ {First(todo)}
    /\ \E m \in tree : m[1] = First(todo) /\ aim' = m
    /\ pc' = "pin"
    /\ UNCHANGED <<procs, found, child, tree, pin, hit, forced, round, answer>>

(* After the last round the members are looked at once more.               *)
RoundEnds ==
    /\ pc = "round" /\ todo = {}
    /\ IF round < Rounds
       THEN pc' = "retain" /\ round' = round + 1 /\ UNCHANGED answer
       ELSE /\ Answer(IF \A m \in tree : ~Runs(m[1], m[2])
                      THEN "dead" ELSE "unconfirmed")
            /\ UNCHANGED round
    /\ UNCHANGED <<procs, todo, found, child, tree, aim, pin, hit, forced>>

-----------------------------------------------------------------------------
(* The processes.                                                          *)

Recorded == pc \notin {"idle", "scan", "observe"} \/ round > 0

FreePids == {p \in Pids : Occupants(p) = {}}

Appear(x, up) ==
    /\ x \notin started
    /\ \E p \in FreePids : pidOf' = [pidOf EXCEPT ![x] = p]
    /\ started' = started \cup {x}
    /\ parent' = [parent EXCEPT ![x] = up]

Fork(x) ==
    /\ Alive(x) /\ x \in Tagged
    /\ calm => pc = "idle"
    /\ \E y \in Tagged : Appear(y, x)
    /\ UNCHANGED <<calm, pc, todo, found, child, tree, aim, pin, hit, forced, round, answer>>

StartForeign ==
    /\ \E y \in Foreign : Appear(y, None)
    /\ UNCHANGED <<calm, pc, todo, found, child, tree, aim, pin, hit, forced, round, answer>>

(* Its children are reparented.                                            *)
Die(x) ==
    /\ Alive(x)
    /\ calm /\ x \in Tagged => Recorded
    /\ pidOf' = [pidOf EXCEPT ![x] = None]
    /\ parent' = [y \in Procs |-> IF parent[y] = x THEN None ELSE parent[y]]
    /\ UNCHANGED <<started, calm, pc, todo, found, child, tree, aim, pin, hit, forced, round, answer>>

-----------------------------------------------------------------------------
Reaper ==
    \/ ScanPid \/ ScanDone \/ ObservePid \/ Captured
    \/ Pin \/ Verify \/ Send \/ WaitGone
    \/ Retain \/ RoundBegins \/ SignalMember \/ RoundEnds

Next ==
    \/ ObserveChild \/ Reaper \/ StartForeign
    \/ \E x \in Procs : Fork(x) \/ Die(x)

Spec == Init /\ [][Next]_vars

(* The reaper is one task, whose waits are timers.  No process is assumed  *)
(* to die of a signal.                                                     *)
FairSpec == Spec /\ WF_vars(Reaper)

-----------------------------------------------------------------------------
(* Properties.                                                             *)

(* "a pid recycled between the verify and the send can never receive it":  *)
(* a signal reaches the very incarnation it was aimed at                   *)
(* (signal_recorded_incarnation), whatever happens to pids meanwhile.      *)
SignalsReachTheirAim ==
    [][\A x \in hit' \ hit : aim[2] = x]_vars

(* "never a signal to a possibly-unrelated occupant" (pinned_signal), if   *)
(* the tree stood still until it was captured.                             *)
NoForeignSignal == calm => hit \cap Foreign = {}

(* "the lease stays held until the caller confirms the holder's ENTIRE     *)
(* process tree is dead" (session_lease.rs): at that answer nothing that   *)
(* was started with the ownership tag runs, if the tree stood still until  *)
(* it was captured.                                                        *)
ConfirmedMeansDead ==
    [][calm /\ answer' = "dead" /\ answer # "dead" => \A x \in Tagged : ~Alive(x)]_vars

(* A reap that began ends with an answer (bounded waits and rounds).       *)
ReapEnds == pc = "scan" ~> pc = "done"
=============================================================================
