--------------------------- MODULE TreeReapProofs ---------------------------
(***************************************************************************)
(* Proofs about TreeReap for every set of processes and pids: the types,   *)
(* that a signal reaches the incarnation it was aimed at, and, of a tree   *)
(* that stood still until it was captured, that no foreign process is      *)
(* signalled and that the answer "dead" is true.                           *)
(***************************************************************************)
EXTENDS TreeReap, WellFoundedInduction, TLAPS

Aiming == {"pin", "verify", "send", "wait"}

(* What the pidfd refers to holds the pid that was opened, or is gone for  *)
(* good: an incarnation is started once.                                   *)
PinOK ==
    /\ pc \in Aiming => aim \in Pids \X Procs
    /\ pc \in {"verify", "send"} =>
          /\ pin \in Procs /\ pin \in started
          /\ Alive(pin) => Runs(aim[1], pin)
    /\ pc = "send" /\ Alive(pin) => pin = aim[2]

RunningStarted == \A x \in Procs : Alive(x) => x \in started

ReapInv == TypeOK /\ RunningStarted /\ PinOK

-----------------------------------------------------------------------------
(* /proc lists pids in order: the first of some pids is one of them.       *)
LEMMA FirstIsOne ==
    ASSUME NEW S \in SUBSET Pids, S # {}
    PROVE  First(S) \in S
  <1> DEFINE R == {pair \in Nat \X Nat : pair[1] < pair[2]}
  <1>1. IsWellFoundedOn(R, Nat)
    BY NatLessThanWellFounded DEF OpToRel
  <1>2. PICK m \in S : \A y \in S : <<y, m>> \notin R
    <2> HIDE DEF R
    <2> QED  BY <1>1, WFMin, ReapAssumption
  <1>3. ASSUME NEW y \in S PROVE m <= y
    <2>1. <<y, m>> \in Nat \X Nat /\ ~(y < m)
      BY <1>2, ReapAssumption
    <2> QED  BY <2>1
  <1> QED  BY <1>3 DEF First

LEMMA InitHolds == Init => ReapInv
  <1> SUFFICES ASSUME Init PROVE ReapInv
    OBVIOUS
  <1>1. TypeOK
    <2>1. pidOf \in [Procs -> Pids \cup {None}]
      BY ReapAssumption DEF Init
    <2>2. \A x, y \in Procs : Alive(x) /\ pidOf[x] = pidOf[y] => x = y
      BY ReapAssumption DEF Init, Alive
    <2>3. /\ started \subseteq Procs /\ 0 \in 0 .. Rounds
          /\ parent \in [Procs -> Procs \cup {None}]
      BY ReapAssumption DEF Init
    <2> QED  BY <2>1, <2>2, <2>3 DEF Init, TypeOK
  <1> QED  BY <1>1, ReapAssumption DEF Init, ReapInv, RunningStarted, PinOK, Aiming, Alive

(* The steps between two signals leave the processes alone.                *)
LEMMA CaptureKeeps ==
    ASSUME ReapInv, ObserveChild \/ ScanPid \/ ScanDone \/ ObservePid \/ Captured
    PROVE  ReapInv'
  <1>1. UNCHANGED <<procs, pin, hit, forced>> /\ pc' \notin {"verify", "send"}
    BY DEF ObserveChild, ScanPid, ScanDone, ObservePid, Captured, Answer
  <1>2. TypeOK' /\ (pc' \in Aiming => aim' \in Pids \X Procs)
    <2>1. CASE ObserveChild
      BY <2>1, <1>1 DEF ReapInv, TypeOK, Aiming, ObserveChild, Occupants, Alive, procs
    <2>2. CASE ScanPid
      BY <2>2, <1>1, FirstIsOne DEF ReapInv, TypeOK, Aiming, ScanPid, Answer, Alive, procs
    <2>3. CASE ScanDone
      BY <2>3, <1>1 DEF ReapInv, TypeOK, Aiming, ScanDone, Alive, procs
    <2>4. CASE ObservePid
      BY <2>4, <1>1, FirstIsOne
         DEF ReapInv, TypeOK, Aiming, ObservePid, Occupants, Alive, procs
    <2>5. CASE Captured
      <3>1. /\ UNCHANGED <<procs, todo, found, child, answer>>
            /\ round' \in {0, 1} /\ pc' \in {"retain", "pin"}
        BY <2>5 DEF Captured
      <3>2. tree' \subseteq Pids \X Procs
        <4>1. child # None => <<RootPid, child>> \in Pids \X Procs
          BY ReapAssumption DEF ReapInv, TypeOK
        <4>2. \/ tree' = tree
              \/ child # None /\ tree' = tree \cup {<<RootPid, child>>}
          <5>1. CASE child = None
            BY <2>5, <5>1 DEF Captured
          <5>2. CASE child # None
            BY <2>5, <5>2 DEF Captured
          <5> QED  BY <5>1, <5>2
        <4>3. tree \subseteq Pids \X Procs
          BY DEF ReapInv, TypeOK
        <4> QED  BY <4>1, <4>2, <4>3
      <3>3. aim' \in (Pids \X Procs) \cup {None} /\ (pc' = "pin" => aim' \in Pids \X Procs)
        BY <2>5, ReapAssumption DEF Captured, ReapInv, TypeOK
      <3>4. round' \in 0 .. Rounds
        BY <3>1, ReapAssumption
      <3> QED  BY <1>1, <3>1, <3>2, <3>3, <3>4 DEF ReapInv, TypeOK, Aiming, Alive, procs
    <2> QED  BY <2>1, <2>2, <2>3, <2>4, <2>5
  <1> QED  BY <1>1, <1>2 DEF ReapInv, RunningStarted, PinOK, Aiming, Alive, procs

LEMMA SweepKeeps ==
    ASSUME ReapInv, WaitGone \/ Retain \/ RoundBegins \/ SignalMember \/ RoundEnds
    PROVE  ReapInv'
  <1>1. UNCHANGED <<procs, pin, hit, child>> /\ pc' \notin {"verify", "send"}
    BY DEF WaitGone, Retain, RoundBegins, SignalMember, RoundEnds, Answer
  <1>2. TypeOK' /\ (pc' \in Aiming => aim' \in Pids \X Procs)
    <2>1. CASE WaitGone
      <3>1. /\ pc' \in {"retain", "pin", "done"} /\ round' \in {1, round}
            /\ forced' \in BOOLEAN /\ answer' \in {answer, "unconfirmed"}
            /\ UNCHANGED <<todo, found, tree, aim>>
        BY <2>1 DEF WaitGone, Answer, ReapInv, TypeOK
      <3>2. round' \in 0 .. Rounds
        BY <3>1, ReapAssumption DEF ReapInv, TypeOK
      <3>3. aim \in Pids \X Procs
        BY <2>1 DEF WaitGone, ReapInv, PinOK, Aiming
      <3> QED  BY <1>1, <3>1, <3>2, <3>3 DEF ReapInv, TypeOK, Alive, procs
    <2>2. CASE Retain
      BY <2>2, <1>1 DEF ReapInv, TypeOK, Aiming, Retain, Alive, procs
    <2>3. CASE RoundBegins
      BY <2>3, <1>1 DEF ReapInv, TypeOK, Aiming, RoundBegins, Answer, Alive, procs
    <2>4. CASE SignalMember
      <3>1. aim' \in Pids \X Procs /\ todo' \subseteq Pids /\ pc' = "pin"
        BY <2>4 DEF SignalMember, ReapInv, TypeOK
      <3>2. UNCHANGED <<found, tree, forced, round, answer>>
        BY <2>4 DEF SignalMember
      <3> QED  BY <1>1, <3>1, <3>2 DEF ReapInv, TypeOK, Alive, procs
    <2>5. CASE RoundEnds
      BY <2>5, <1>1, ReapAssumption
         DEF ReapInv, TypeOK, Aiming, RoundEnds, Answer, Alive, procs
    <2> QED  BY <2>1, <2>2, <2>3, <2>4, <2>5
  <1> QED  BY <1>1, <1>2 DEF ReapInv, RunningStarted, PinOK, Aiming, Alive, procs

LEMMA AimedEnds ==
    ASSUME ReapInv, NEW sent \in BOOLEAN, Aimed(sent)
    PROVE  pc' \in {"wait", "retain", "round"} /\ round' \in 0 .. Rounds
  BY ReapAssumption DEF ReapInv, TypeOK, Aimed, AfterSignal

LEMMA SignalKeeps ==
    ASSUME ReapInv, Pin \/ Verify \/ Send
    PROVE  ReapInv'
  <1>1. UNCHANGED <<procs, todo, found, child, tree, aim, forced, answer>>
    BY DEF Pin, Verify, Send
  <1>2. aim \in Pids \X Procs
    BY DEF ReapInv, PinOK, Aiming, Pin, Verify, Send
  <1>3. RunningStarted'
    BY <1>1 DEF ReapInv, RunningStarted, Alive, procs
  <1>4. CASE Pin
    <2>1. CASE Aimed(FALSE) /\ UNCHANGED <<pin, hit>>
      BY <1>1, <1>2, <1>3, <2>1, AimedEnds DEF ReapInv, TypeOK, PinOK, Aiming, Alive, procs
    <2>2. ASSUME NEW x \in Occupants(aim[1]), pin' = x, UNCHANGED <<round, hit>>,
                 pc' = "verify"
          PROVE  ReapInv'
      <3>1. x \in Procs /\ pidOf[x] = aim[1] /\ aim[1] \in Pids
        BY <1>4, <2>2 DEF Occupants, Runs, Pin, ReapInv, PinOK, Aiming
      <3>2. Alive(x) /\ x \in started
        BY <3>1, ReapAssumption DEF ReapInv, RunningStarted, Alive
      <3>3. TypeOK'
        BY <1>1, <2>2, <3>1 DEF ReapInv, TypeOK, Alive, procs
      <3> QED  BY <1>1, <1>2, <1>3, <2>2, <3>1, <3>2, <3>3
                  DEF ReapInv, PinOK, Aiming, Runs, procs
    <2> QED  BY <1>4, <2>1, <2>2 DEF Pin
  <1>5. CASE Verify
    <2>1. CASE Runs(aim[1], aim[2])
      <3>1. pc = "verify" /\ pc' = "send" /\ UNCHANGED <<procs, aim, pin, hit, round>>
        BY <1>5, <2>1 DEF Verify
      <3>2. Alive(pin) => pin = aim[2]
        <4> SUFFICES ASSUME Alive(pin) PROVE pin = aim[2]
          OBVIOUS
        <4>1. pidOf[pin] = pidOf[aim[2]] /\ pin \in Procs
          BY <2>1, <3>1 DEF ReapInv, PinOK, Aiming, Runs
        <4>2. aim \in Pids \X Procs
          BY <3>1 DEF ReapInv, PinOK, Aiming
        <4> QED  BY <4>1, <4>2 DEF ReapInv, TypeOK
      <3>3. TypeOK'
        BY <1>1, <3>1 DEF ReapInv, TypeOK, Alive, procs
      <3> QED  BY <1>3, <3>1, <3>2, <3>3 DEF ReapInv, PinOK, Aiming, Alive, Runs, procs
    <2>2. CASE Aimed(FALSE) /\ UNCHANGED <<pin, hit>>
      BY <1>1, <1>2, <1>3, <2>2, AimedEnds DEF ReapInv, TypeOK, PinOK, Aiming, Alive, procs
    <2> QED  BY <1>5, <2>1, <2>2 DEF Verify
  <1>6. CASE Send
    <2>1. Aimed(Alive(pin)) /\ Alive(pin) \in BOOLEAN
      BY <1>6 DEF Send, Alive
    <2>2. pin' = pin /\ hit' \subseteq Procs
      BY <1>6 DEF Send, ReapInv, TypeOK, PinOK, Aiming
    <2> QED  BY <1>1, <1>2, <1>3, <2>1, <2>2, AimedEnds
                DEF ReapInv, TypeOK, PinOK, Aiming, Alive, procs
  <1> QED  BY <1>4, <1>5, <1>6

(* A new process has a pid nobody holds, and is not what is pinned.        *)
LEMMA AppearKeeps ==
    ASSUME ReapInv, NEW y \in Procs, NEW up \in Procs \cup {None}, Appear(y, up),
           UNCHANGED <<calm, pc, todo, found, child, tree, aim, pin, hit, forced, round,
                       answer>>
    PROVE  ReapInv'
  <1>1. PICK p \in FreePids : pidOf' = [pidOf EXCEPT ![y] = p]
    BY DEF Appear
  <1>2. /\ p \in Pids /\ \A x \in Procs : pidOf[x] # p
        /\ y \notin started /\ started' = started \cup {y}
        /\ parent' = [parent EXCEPT ![y] = up]
    BY <1>1 DEF Appear, FreePids, Occupants, Runs
  <1>3. /\ pidOf' \in [Procs -> Pids \cup {None}] /\ pidOf'[y] = p
        /\ \A x \in Procs \ {y} : pidOf'[x] = pidOf[x]
    BY <1>1, <1>2 DEF ReapInv, TypeOK
  <1>4. TypeOK'
    BY <1>2, <1>3 DEF ReapInv, TypeOK, Alive
  <1>5. RunningStarted'
    BY <1>2, <1>3 DEF ReapInv, RunningStarted, Alive
  <1>6. PinOK'
    BY <1>2, <1>3 DEF ReapInv, PinOK, Aiming, Alive, Runs
  <1> QED  BY <1>4, <1>5, <1>6 DEF ReapInv

LEMMA DieKeeps ==
    ASSUME ReapInv, NEW x \in Procs, Die(x)
    PROVE  ReapInv'
  <1>1. /\ pidOf' \in [Procs -> Pids \cup {None}] /\ pidOf'[x] = None
        /\ \A y \in Procs \ {x} : pidOf'[y] = pidOf[y]
        /\ parent' \in [Procs -> Procs \cup {None}]
        /\ UNCHANGED <<started, calm, pc, todo, found, child, tree, aim, pin, hit, forced,
                       round, answer>>
    BY DEF ReapInv, TypeOK, Die
  <1>2. TypeOK'
    BY <1>1 DEF ReapInv, TypeOK, Alive
  <1>3. RunningStarted' /\ PinOK'
    BY <1>1 DEF ReapInv, RunningStarted, PinOK, Aiming, Alive, Runs
  <1> QED  BY <1>2, <1>3 DEF ReapInv

LEMMA NextKeeps ==
    ASSUME ReapInv, [Next]_vars
    PROVE  ReapInv'
  <1>1. CASE UNCHANGED vars
    BY <1>1 DEF vars, ReapInv, TypeOK, RunningStarted, PinOK, Aiming, Alive, Runs
  <1>2. CASE ObserveChild \/ Reaper
    BY <1>2, CaptureKeeps, SignalKeeps, SweepKeeps DEF Reaper
  <1>3. CASE StartForeign
    <2>1. PICK y \in Foreign : Appear(y, None)
      BY <1>3 DEF StartForeign
    <2> QED  BY <1>3, <2>1, AppearKeeps, ReapAssumption DEF StartForeign
  <1>4. ASSUME NEW x \in Procs, Fork(x) PROVE ReapInv'
    <2>1. PICK y \in Tagged : Appear(y, x)
      BY <1>4 DEF Fork
    <2> QED  BY <1>4, <2>1, AppearKeeps DEF Fork, Tagged
  <1> QED  BY <1>1, <1>2, <1>3, <1>4, DieKeeps DEF Next

-----------------------------------------------------------------------------
(* The reap's state has its types (kill_and_confirm_tree_dead); no two     *)
(* running processes share a pid.                                          *)
THEOREM Types == Spec => []TypeOK
  <1>1. ReapInv => TypeOK
    BY DEF ReapInv
  <1> QED  BY <1>1, InitHolds, NextKeeps, PTL DEF Spec

(* A signal reaches the incarnation it was aimed at, whoever has its pid   *)
(* by then (signal_recorded_incarnation).                                  *)
THEOREM SignalsReachTheirAimHolds == Spec => SignalsReachTheirAim
  <1> DEFINE Reaches == \A x \in hit' \ hit : aim[2] = x
  <1>1. ASSUME ReapInv, [Next]_vars PROVE [Reaches]_vars
    <2>1. CASE Send
      BY <1>1, <2>1 DEF ReapInv, PinOK, Send
    <2>2. CASE UNCHANGED hit
      BY <2>2
    <2>3. Send \/ UNCHANGED hit
      BY <1>1 DEF Next, Reaper, ObserveChild, ScanPid, ScanDone, ObservePid, Captured, Pin,
                  Verify, WaitGone, Retain, RoundBegins, SignalMember, RoundEnds, Fork,
                  StartForeign, Die, vars
    <2> QED  BY <2>1, <2>2, <2>3
  <1> QED  BY <1>1, InitHolds, NextKeeps, PTL DEF Spec, SignalsReachTheirAim

-----------------------------------------------------------------------------
(* A tree that stands still until it is captured (calm).  Until then every *)
(* process of it runs and descends from the root, so that the scan cannot  *)
(* pass over one; from then on the record holds every one that runs, and   *)
(* nothing else.                                                           *)

Owned == started \cap Tagged

ByRoot == \A C \in SUBSET Procs : Root \in C /\ HasChildren(C) => Owned \subseteq C

Standing ==
    /\ \A x \in Owned : Alive(x)
    /\ Root \in Owned /\ Runs(RootPid, Root)
    /\ ByRoot

PidsOfOwned == {pidOf[x] : x \in Owned}

Capturing ==
    /\ Standing
    /\ tree \subseteq Pids \X Tagged
    /\ pc # "idle" => child = Root
    /\ pc = "scan" => /\ found \subseteq PidsOfOwned
                      /\ \A x \in Owned : pidOf[x] \in todo \cup found
    /\ pc = "observe" => /\ todo \subseteq PidsOfOwned
                         /\ \A x \in Owned : pidOf[x] \in todo \/ <<pidOf[x], x>> \in tree

RecordComplete == \A x \in Tagged : Alive(x) => <<pidOf[x], x>> \in tree

Sweeping ==
    /\ child = Root
    /\ tree \subseteq Pids \X Tagged
    /\ RecordComplete
    /\ pc \in Aiming => aim[2] \in Tagged
    /\ pc = "scan" => \A p \in found : \E x \in Procs : <<p, x>> \in tree
    /\ pc = "observe" => todo = {}

ParentsTagged == \A x \in Procs : parent[x] \in Tagged \cup {None}

CalmInv ==
    /\ ParentsTagged
    /\ pc = "idle" => round = 0
    /\ pc = "retain" => round > 0
    /\ calm => /\ hit \subseteq Tagged
               /\ ~Recorded => Capturing
               /\ Recorded /\ pc # "done" => Sweeping

-----------------------------------------------------------------------------
LEMMA OnlyOccupant ==
    ASSUME ReapInv, NEW x \in Procs, Alive(x)
    PROVE  pidOf[x] \in Pids /\ Occupants(pidOf[x]) = {x}
  BY DEF ReapInv, TypeOK, Occupants, Runs, Alive

LEMMA OccupantRuns ==
    ASSUME ReapInv, NEW p \in Pids, NEW x \in Occupants(p)
    PROVE  x \in Procs /\ Alive(x) /\ pidOf[x] = p
  BY ReapAssumption DEF Occupants, Runs, Alive

(* A scan that comes past a process of the standing tree knows it is one.  *)
LEMMA OwnedIsKnown ==
    ASSUME ReapInv, Standing, NEW x \in Owned
    PROVE  KnownOwned(x)
  <1>1. Occupants(RootPid) = {Root}
    BY OnlyOccupant, ReapAssumption DEF Standing, Runs
  <1>2. x \in Procs
    BY DEF Owned, Tagged
  <1> QED  BY <1>1, <1>2 DEF KnownOwned, Lineage, Standing, ByRoot

LEMMA RunningIsOwned ==
    ASSUME ReapInv, NEW x \in Tagged, Alive(x)
    PROVE  x \in Owned
  BY DEF ReapInv, RunningStarted, Owned, Tagged

LEMMA StandingStays ==
    ASSUME Standing, UNCHANGED procs
    PROVE  Standing' /\ Owned' = Owned /\ PidsOfOwned' = PidsOfOwned
  <1>1. /\ UNCHANGED <<pidOf, started, parent>> /\ Owned' = Owned
        /\ PidsOfOwned' = PidsOfOwned
    BY DEF procs, Owned, PidsOfOwned
  <1>2. ByRoot'
    <2> SUFFICES ASSUME NEW C \in SUBSET Procs, Root \in C, HasChildren(C)'
                 PROVE  Owned' \subseteq C
      BY DEF ByRoot
    <2>1. HasChildren(C)
      BY <1>1 DEF HasChildren, Alive
    <2> QED  BY <1>1, <2>1 DEF Standing, ByRoot
  <1> QED  BY <1>1, <1>2 DEF Standing, Alive, Runs

(* The reaper answers, or goes on along the recorded pairs.                *)
LEMMA SweepingStays ==
    ASSUME Sweeping, UNCHANGED <<procs, child, tree>>,
           pc' \notin {"scan", "observe"}, pc' \in Aiming => aim'[2] \in Tagged
    PROVE  Sweeping'
  BY DEF Sweeping, RecordComplete, Aiming, Alive, procs

LEMMA InitCalm == Init => CalmInv
  <1> SUFFICES ASSUME Init PROVE CalmInv
    OBVIOUS
  <1>1. ParentsTagged /\ ~Recorded /\ hit = {} /\ round = 0 /\ pc = "idle" /\ tree = {}
    BY DEF Init, ParentsTagged, Recorded
  <1>2. Owned = {Root}
    BY ReapAssumption DEF Init, Owned, Tagged
  <1>3. Standing
    BY <1>2, ReapAssumption DEF Init, Standing, ByRoot, Alive, Runs
  <1> QED  BY <1>1, <1>3 DEF CalmInv, Capturing

-----------------------------------------------------------------------------
(* The capture.                                                            *)

LEMMA ObserveChildCalm ==
    ASSUME ReapInv, CalmInv, ObserveChild
    PROVE  CalmInv'
  <1>1. /\ UNCHANGED <<procs, calm, tree, hit, round>> /\ pc' = "scan"
        /\ todo' = Pids /\ found' = {} /\ round = 0 /\ ~Recorded /\ ~Recorded'
    BY DEF ObserveChild, CalmInv, Recorded, procs
  <1>2. ParentsTagged'
    BY <1>1 DEF CalmInv, ParentsTagged, procs
  <1>3. ASSUME calm PROVE Capturing'
    <2>1. Capturing /\ Standing
      BY <1>1, <1>3 DEF CalmInv, Capturing
    <2>2. Standing' /\ Owned' = Owned /\ PidsOfOwned' = PidsOfOwned
      BY <1>1, <2>1, StandingStays
    <2>3. Occupants(RootPid) = {Root}
      BY <2>1, OnlyOccupant, ReapAssumption DEF Standing, Runs
    <2>4. child' = Root
      BY <2>3, ReapAssumption DEF ObserveChild
    <2>5. \A x \in Owned' : pidOf'[x] \in todo'
      BY <1>1, <2>1, <2>2, OnlyOccupant DEF Standing, Owned, Tagged, procs
    <2> QED  BY <1>1, <2>1, <2>2, <2>4, <2>5 DEF Capturing
  <1> QED  BY <1>1, <1>2, <1>3 DEF CalmInv

LEMMA ScanPidCalm ==
    ASSUME ReapInv, CalmInv, ScanPid
    PROVE  CalmInv'
  <1> DEFINE p == First(todo)
  <1>1. /\ UNCHANGED <<procs, calm, tree, hit, round, child>>
        /\ pc = "scan" /\ pc' \in {"scan", "done"} /\ p \in todo /\ p \in Pids
    BY FirstIsOne DEF ScanPid, Answer, procs, ReapInv, TypeOK
  <1>2. ParentsTagged' /\ UNCHANGED <<pidOf, started, parent>>
    BY <1>1 DEF CalmInv, ParentsTagged, procs
  <1>3. ASSUME calm, pc' = "scan", ~Recorded' PROVE Capturing'
    <2>1. Capturing /\ Standing
      BY <1>1, <1>3 DEF CalmInv, Capturing, Recorded
    <2>2. Standing' /\ Owned' = Owned /\ PidsOfOwned' = PidsOfOwned
      BY <1>1, <2>1, StandingStays
    <2>3. /\ todo' = todo \ {p}
          /\ \A x \in Occupants(p) : Readable(x) \/ ~KnownOwned(x)
          /\ found' = IF \E x \in Occupants(p) : Readable(x) /\ x \in Tagged
                      THEN found \cup {p} ELSE found
      BY <1>1, <1>3 DEF ScanPid, Answer
    <2>4. ASSUME NEW x \in Owned PROVE pidOf[x] \in todo' \cup found'
      <3>1. /\ x \in Procs /\ x \in Tagged /\ Alive(x)
            /\ pidOf[x] \in todo \cup found
        BY <1>1, <2>1 DEF Standing, Capturing, Owned, Tagged
      <3>2. CASE pidOf[x] = p
        <4>1. Readable(x) /\ x \in Occupants(p)
          BY <2>1, <2>3, <3>1, <3>2, OnlyOccupant, OwnedIsKnown
        <4> QED  BY <2>3, <3>1, <3>2, <4>1
      <3> QED  BY <2>3, <3>1, <3>2
    <2>5. found' \subseteq PidsOfOwned
      <3>1. ASSUME NEW x \in Occupants(p), x \in Tagged PROVE p \in PidsOfOwned
        <4>1. Alive(x) /\ pidOf[x] = p /\ x \in Procs
          BY <1>1, OccupantRuns
        <4> QED  BY <3>1, <4>1, RunningIsOwned DEF PidsOfOwned
      <3> QED  BY <1>1, <2>1, <2>3, <3>1 DEF Capturing
    <2> QED  BY <1>1, <1>2, <1>3, <2>1, <2>2, <2>4, <2>5 DEF Capturing
  <1>4. ASSUME calm, pc' = "scan", Recorded' PROVE Sweeping'
    <2>1. Sweeping
      BY <1>1, <1>4 DEF CalmInv, Recorded
    <2>2. found' \subseteq found \cup {p}
      BY DEF ScanPid
    <2>3. p \in found' => p \in found \/ \E x \in Procs : <<p, x>> \in tree
      <3>1. ASSUME NEW x \in Occupants(p), x \in Tagged PROVE <<p, x>> \in tree
        <4>1. Alive(x) /\ pidOf[x] = p
          BY <1>1, OccupantRuns
        <4> QED  BY <2>1, <3>1, <4>1 DEF Sweeping, RecordComplete
      <3> QED  BY <1>1, <1>4, <3>1 DEF ScanPid, Answer, Occupants
    <2>4. \A q \in found' : \E x \in Procs : <<q, x>> \in tree
      BY <1>1, <2>1, <2>2, <2>3 DEF Sweeping
    <2>5. RecordComplete'
      BY <1>1, <1>2, <2>1 DEF Sweeping, RecordComplete, Alive
    <2> QED  BY <1>1, <1>4, <2>1, <2>4, <2>5 DEF Sweeping, Aiming
  <1> QED  BY <1>1, <1>2, <1>3, <1>4 DEF CalmInv, Recorded

LEMMA ScanDoneCalm ==
    ASSUME ReapInv, CalmInv, ScanDone
    PROVE  CalmInv'
  <1>1. /\ UNCHANGED <<procs, calm, tree, hit, round, child, found>>
        /\ pc = "scan" /\ pc' = "observe" /\ todo = {}
        /\ todo' = {p \in found : round = 0 \/ \A x \in Procs : <<p, x>> \notin tree}
        /\ (Recorded <=> round > 0) /\ (Recorded' <=> round > 0)
    BY DEF ScanDone, procs, Recorded
  <1>2. ParentsTagged' /\ UNCHANGED <<pidOf, started, parent>>
    BY <1>1 DEF CalmInv, ParentsTagged, procs
  <1>3. round \in Nat
    BY ReapAssumption DEF ReapInv, TypeOK
  <1>4. ASSUME calm, ~Recorded PROVE Capturing'
    <2>1. Capturing /\ Standing /\ round = 0
      BY <1>1, <1>3, <1>4 DEF CalmInv, Capturing
    <2>2. Standing' /\ Owned' = Owned /\ PidsOfOwned' = PidsOfOwned
      BY <1>1, <2>1, StandingStays
    <2>3. todo' = found
      BY <1>1, <2>1
    <2> QED  BY <1>1, <1>2, <2>1, <2>2, <2>3 DEF Capturing
  <1>5. ASSUME calm, Recorded PROVE Sweeping'
    <2>1. Sweeping /\ round # 0
      BY <1>1, <1>3, <1>5 DEF CalmInv
    <2>2. todo' = {}
      BY <1>1, <2>1 DEF Sweeping
    <2>3. RecordComplete'
      BY <1>1, <1>2, <2>1 DEF Sweeping, RecordComplete, Alive
    <2> QED  BY <1>1, <2>1, <2>2, <2>3 DEF Sweeping, Aiming
  <1> QED  BY <1>1, <1>2, <1>4, <1>5 DEF CalmInv

LEMMA ObservePidCalm ==
    ASSUME ReapInv, CalmInv, ObservePid
    PROVE  CalmInv'
  <1> DEFINE p == First(todo)
  <1>1. /\ UNCHANGED <<procs, calm, hit, round, child, found, pc>>
        /\ pc = "observe" /\ todo # {} /\ p \in todo
        /\ tree' = tree \cup ({p} \X Occupants(p)) /\ todo' = todo \ {p}
        /\ (Recorded' <=> Recorded)
    BY FirstIsOne DEF ObservePid, procs, Recorded, ReapInv, TypeOK
  <1>2. ParentsTagged' /\ UNCHANGED <<pidOf, started, parent>>
    BY <1>1 DEF CalmInv, ParentsTagged, procs
  <1>3. calm => ~Recorded
    BY <1>1 DEF CalmInv, Sweeping
  <1>4. ASSUME calm PROVE Capturing'
    <2>1. Capturing /\ Standing
      BY <1>3, <1>4 DEF CalmInv, Capturing
    <2>2. Standing' /\ Owned' = Owned /\ PidsOfOwned' = PidsOfOwned
      BY <1>1, <2>1, StandingStays
    <2>3. PICK y \in Owned : pidOf[y] = p
      BY <1>1, <2>1 DEF Capturing, PidsOfOwned
    <2>4. Occupants(p) = {y} /\ p \in Pids /\ y \in Tagged
      BY <2>1, <2>3, OnlyOccupant DEF Standing, Owned, Tagged
    <2>5. tree' = tree \cup {<<p, y>>}
      BY <1>1, <2>4
    <2>6. tree' \subseteq Pids \X Tagged
      BY <2>1, <2>4, <2>5 DEF Capturing
    <2>7. ASSUME NEW x \in Owned
          PROVE  pidOf[x] \in todo' \/ <<pidOf[x], x>> \in tree'
      <3>1. CASE pidOf[x] = p
        <4>1. x \in Procs /\ Alive(x)
          BY <2>1 DEF Standing, Owned, Tagged
        <4>2. x = y
          BY <2>4, <3>1, <4>1, OnlyOccupant
        <4> QED  BY <2>5, <3>1, <4>2
      <3>2. CASE pidOf[x] # p
        BY <1>1, <2>1, <2>5, <3>2 DEF Capturing
      <3> QED  BY <3>1, <3>2
    <2>8. todo' \subseteq PidsOfOwned
      BY <1>1, <2>1 DEF Capturing
    <2> QED  BY <1>1, <1>2, <2>1, <2>2, <2>6, <2>7, <2>8 DEF Capturing
  <1> QED  BY <1>1, <1>2, <1>3, <1>4 DEF CalmInv

LEMMA CapturedCalm ==
    ASSUME ReapInv, CalmInv, Captured
    PROVE  CalmInv'
  <1>1. /\ UNCHANGED <<procs, calm, hit, child>>
        /\ pc = "observe" /\ todo = {} /\ round = 0 /\ ~Recorded
        /\ pc' \in {"pin", "retain"} /\ Recorded'
        /\ pc' = "retain" => round' > 0
    BY DEF Captured, procs, Recorded
  <1>2. ParentsTagged' /\ UNCHANGED <<pidOf, started, parent>>
    BY <1>1 DEF CalmInv, ParentsTagged, procs
  <1>3. ASSUME calm PROVE Sweeping'
    <2>1. Capturing /\ child = Root /\ Root # None
      BY <1>1, <1>3, ReapAssumption DEF CalmInv, Capturing
    <2>2. /\ aim' = <<RootPid, Root>> /\ pc' = "pin"
          /\ tree' = tree \/ tree' = tree \cup {<<RootPid, Root>>}
      BY <2>1 DEF Captured
    <2>3. tree' \subseteq Pids \X Tagged
      <3>1. <<RootPid, Root>> \in Pids \X Tagged
        BY ReapAssumption DEF Tagged
      <3> QED  BY <2>1, <2>2, <3>1 DEF Capturing
    <2>4. RecordComplete'
      <3> SUFFICES ASSUME NEW x \in Tagged, Alive(x)
                   PROVE  <<pidOf[x], x>> \in tree'
        BY <1>2 DEF RecordComplete, Alive
      <3>1. <<pidOf[x], x>> \in tree
        BY <1>1, <2>1, RunningIsOwned DEF Capturing
      <3> QED  BY <2>2, <3>1
    <2>5. aim'[2] \in Tagged
      BY <2>2, ReapAssumption DEF Tagged
    <2> QED  BY <1>1, <2>1, <2>2, <2>3, <2>4, <2>5 DEF Sweeping
  <1> QED  BY <1>1, <1>2, <1>3 DEF CalmInv

-----------------------------------------------------------------------------
(* The kills and the rounds.                                               *)

LEMMA KillCalm ==
    ASSUME ReapInv, CalmInv,
           Pin \/ Verify \/ Send \/ WaitGone \/ SignalMember \/ RoundEnds
    PROVE  CalmInv'
  <1>1. /\ UNCHANGED <<procs, calm, child, tree>> /\ Recorded /\ pc # "done"
        /\ pc' \in {"pin", "verify", "send", "wait", "retain", "round", "done"}
    BY DEF Pin, Verify, Send, WaitGone, SignalMember, RoundEnds, Aimed, AfterSignal,
           Answer, Recorded, procs
  <1>2. ParentsTagged' /\ Recorded' /\ (pc' = "retain" => round' > 0)
    <2>1. ParentsTagged' /\ Recorded'
      BY <1>1 DEF CalmInv, ParentsTagged, Recorded, procs
    <2>2. round \in Nat
      BY ReapAssumption DEF ReapInv, TypeOK
    <2>3. pc' = "retain" => round' > 0
      BY <2>2 DEF Pin, Verify, Send, WaitGone, SignalMember, RoundEnds, Aimed, AfterSignal,
                  Answer
    <2> QED  BY <2>1, <2>3
  <1>3. ASSUME calm PROVE Sweeping' /\ hit' \subseteq Tagged
    <2>1. Sweeping /\ hit \subseteq Tagged
      BY <1>1, <1>3 DEF CalmInv
    <2>2. pc' \in Aiming => aim'[2] \in Tagged
      <3>1. CASE SignalMember
        <4>1. aim' \in tree
          BY <3>1 DEF SignalMember
        <4> QED  BY <2>1, <4>1 DEF Sweeping
      <3>2. CASE Pin \/ Verify \/ Send \/ WaitGone
        BY <2>1, <3>2 DEF Pin, Verify, Send, WaitGone, Sweeping, Aiming
      <3>3. CASE RoundEnds
        BY <3>3 DEF RoundEnds, Answer, Aiming
      <3> QED  BY <3>1, <3>2, <3>3
    <2>3. hit' \subseteq Tagged
      <3>1. CASE Send
        BY <2>1, <3>1 DEF Send, ReapInv, PinOK, Sweeping, Aiming
      <3> QED  BY <2>1, <3>1 DEF Pin, Verify, WaitGone, SignalMember, RoundEnds
    <2> QED  BY <1>1, <2>1, <2>2, <2>3, SweepingStays
  <1> QED  BY <1>1, <1>2, <1>3 DEF CalmInv, procs

LEMMA RoundCalm ==
    ASSUME ReapInv, CalmInv, Retain \/ RoundBegins
    PROVE  CalmInv'
  <1>1. /\ UNCHANGED <<procs, calm, child, hit, round>> /\ pc # "done" /\ pc' # "idle"
        /\ pc' # "retain"
    BY DEF Retain, RoundBegins, Answer, procs, Recorded
  <1>2. ParentsTagged' /\ UNCHANGED <<pidOf, started, parent>>
    BY <1>1 DEF CalmInv, ParentsTagged, procs
  <1>3. CASE RoundBegins
    <2>1. /\ Recorded /\ Recorded' /\ pc' \in {"round", "done"} /\ UNCHANGED tree
      BY <1>3 DEF RoundBegins, Answer, Recorded
    <2>2. calm => Sweeping'
      BY <1>1, <2>1, SweepingStays DEF CalmInv, Aiming
    <2> QED  BY <1>1, <1>2, <2>1, <2>2 DEF CalmInv
  <1>4. CASE Retain
    <2>1. /\ pc = "retain" /\ Recorded /\ pc' = "scan" /\ found' = {}
          /\ tree' = {m \in tree : Runs(m[1], m[2])}
      BY <1>4 DEF Retain, Recorded
    <2>2. ASSUME calm PROVE Sweeping'
      <3>1. Sweeping
        BY <1>1, <2>1, <2>2 DEF CalmInv
      <3>2. RecordComplete'
        <4> SUFFICES ASSUME NEW x \in Tagged, Alive(x)
                     PROVE  <<pidOf[x], x>> \in tree'
          BY <1>2 DEF RecordComplete, Alive
        <4>1. <<pidOf[x], x>> \in tree
          BY <3>1 DEF Sweeping, RecordComplete
        <4>2. Runs(<<pidOf[x], x>>[1], <<pidOf[x], x>>[2])
          BY DEF Runs
        <4> QED  BY <2>1, <4>1, <4>2
      <3> QED  BY <1>1, <2>1, <3>1, <3>2 DEF Sweeping, Aiming
    <2>3. Recorded'
      BY <1>1, <2>1 DEF CalmInv, Recorded
    <2> QED  BY <1>1, <1>2, <2>1, <2>2, <2>3 DEF CalmInv
  <1> QED  BY <1>3, <1>4

-----------------------------------------------------------------------------
(* The processes.  A tree that stands still only gains processes before    *)
(* the capture begins, each of a parent that is of the tree.               *)

LEMMA ForkCalm ==
    ASSUME ReapInv, CalmInv, NEW x \in Procs, Fork(x)
    PROVE  CalmInv'
  <1>1. PICK y \in Tagged : Appear(y, x)
    BY DEF Fork
  <1>2. PICK p \in FreePids : pidOf' = [pidOf EXCEPT ![y] = p]
    BY <1>1 DEF Appear
  <1>3. /\ UNCHANGED <<calm, pc, todo, found, child, tree, aim, hit, round>>
        /\ y \notin started /\ y \in Procs /\ y \in Tagged /\ started' = started \cup {y}
        /\ parent' = [parent EXCEPT ![y] = x]
        /\ Alive(x) /\ x \in Tagged /\ (calm => pc = "idle")
    BY <1>1 DEF Fork, Appear, Tagged
  <1>4. /\ ~Alive(y) /\ p \in Pids /\ pidOf'[y] = p /\ parent'[y] = x
        /\ \A z \in Procs \ {y} : pidOf'[z] = pidOf[z] /\ parent'[z] = parent[z]
    BY <1>2, <1>3 DEF ReapInv, TypeOK, RunningStarted, FreePids
  <1>5. ParentsTagged' /\ (Recorded' <=> Recorded)
    BY <1>3, <1>4 DEF CalmInv, ParentsTagged, Recorded
  <1>6. ASSUME calm PROVE Capturing' /\ ~Recorded
    <2>1. pc = "idle" /\ ~Recorded
      BY <1>3, <1>6 DEF CalmInv, Recorded
    <2>2. Capturing /\ Standing
      BY <1>6, <2>1 DEF CalmInv, Capturing
    <2>3. Owned' = Owned \cup {y} /\ y # Root
      BY <1>3, <2>2 DEF Owned, Standing
    <2>4. ByRoot'
      <3> SUFFICES ASSUME NEW C \in SUBSET Procs, Root \in C, HasChildren(C)'
                   PROVE  Owned' \subseteq C
        BY DEF ByRoot
      <3>1. HasChildren(C)
        BY <1>4 DEF HasChildren, Alive
      <3>2. Owned \subseteq C
        BY <2>2, <3>1 DEF Standing, ByRoot
      <3>3. x \in C
        BY <1>3, <3>2, RunningIsOwned
      <3>4. Alive(y)'
        BY <1>4, ReapAssumption DEF Alive
      <3>5. y \in C
        BY <1>3, <1>4, <3>3, <3>4 DEF HasChildren
      <3> QED  BY <2>3, <3>2, <3>5
    <2>5. \A z \in Owned' : Alive(z)'
      BY <1>3, <1>4, <2>2, <2>3, ReapAssumption DEF Standing, Alive, Owned, Tagged
    <2>6. Standing'
      BY <1>4, <2>2, <2>3, <2>4, <2>5, ReapAssumption DEF Standing, Runs
    <2> QED  BY <1>3, <2>1, <2>2, <2>6 DEF Capturing
  <1> QED  BY <1>3, <1>5, <1>6 DEF CalmInv

(* Another process starts or dies, or one of the tree once it is captured. *)
LEMMA OthersCalm ==
    ASSUME ReapInv, CalmInv,
           UNCHANGED <<calm, pc, todo, found, child, tree, aim, hit, round>>,
           Owned' = Owned, ParentsTagged',
           \A x \in Tagged : Alive(x)' => Alive(x),
           \A x \in Tagged : Alive(x)' \/ (calm /\ ~Recorded /\ Alive(x)) => pidOf'[x] = pidOf[x],
           calm /\ ~Recorded /\ Standing => ByRoot'
    PROVE  CalmInv'
  <1>1. Recorded' <=> Recorded
    BY DEF Recorded
  <1>2. ASSUME calm, ~Recorded PROVE Capturing'
    <2>1. Capturing /\ Standing
      BY <1>2 DEF CalmInv, Capturing
    <2>2. \A x \in Owned : x \in Tagged /\ Alive(x) /\ pidOf'[x] = pidOf[x]
      BY <1>2, <2>1 DEF Standing, Owned
    <2>3. Standing' /\ PidsOfOwned' = PidsOfOwned
      BY <1>2, <2>1, <2>2 DEF Standing, PidsOfOwned, Alive, Runs
    <2> QED  BY <2>1, <2>2, <2>3 DEF Capturing
  <1>3. ASSUME calm, Recorded, pc # "done" PROVE Sweeping'
    <2>1. Sweeping
      BY <1>3 DEF CalmInv
    <2>2. RecordComplete'
      BY <2>1 DEF Sweeping, RecordComplete
    <2> QED  BY <2>1, <2>2 DEF Sweeping, Aiming
  <1> QED  BY <1>1, <1>2, <1>3 DEF CalmInv

LEMMA StartForeignCalm ==
    ASSUME ReapInv, CalmInv, StartForeign
    PROVE  CalmInv'
  <1>1. PICK y \in Foreign : Appear(y, None)
    BY DEF StartForeign
  <1>2. PICK p \in FreePids : pidOf' = [pidOf EXCEPT ![y] = p]
    BY <1>1 DEF Appear
  <1>3. /\ UNCHANGED <<calm, pc, todo, found, child, tree, aim, hit, round>>
        /\ y \notin started /\ y \in Procs /\ y \notin Tagged
        /\ started' = started \cup {y} /\ parent' = [parent EXCEPT ![y] = None]
    BY <1>1, ReapAssumption DEF StartForeign, Appear, Tagged
  <1>4. /\ ~Alive(y) /\ parent'[y] = None
        /\ \A z \in Procs \ {y} : pidOf'[z] = pidOf[z] /\ parent'[z] = parent[z]
    BY <1>2, <1>3 DEF ReapInv, TypeOK, RunningStarted
  <1>5. ParentsTagged' /\ Owned' = Owned
    BY <1>3, <1>4 DEF CalmInv, ParentsTagged, Owned
  <1>6. \A x \in Tagged : pidOf'[x] = pidOf[x]
    BY <1>3, <1>4 DEF Tagged
  <1>7. Standing => ByRoot'
    <2> SUFFICES ASSUME Standing, NEW C \in SUBSET Procs, Root \in C, HasChildren(C)'
                 PROVE  Owned' \subseteq C
      BY DEF ByRoot
    <2>1. HasChildren(C)
      BY <1>4 DEF HasChildren, Alive
    <2> QED  BY <1>5, <2>1 DEF Standing, ByRoot
  <1> QED  BY <1>3, <1>5, <1>6, <1>7, OthersCalm DEF Alive

LEMMA DieCalm ==
    ASSUME ReapInv, CalmInv, NEW x \in Procs, Die(x)
    PROVE  CalmInv'
  <1>1. /\ UNCHANGED <<started, calm, pc, todo, found, child, tree, aim, hit, round>>
        /\ pidOf'[x] = None /\ \A z \in Procs \ {x} : pidOf'[z] = pidOf[z]
        /\ \A z \in Procs : parent'[z] = IF parent[z] = x THEN None ELSE parent[z]
        /\ calm /\ x \in Tagged => Recorded
    BY DEF Die, ReapInv, TypeOK
  <1>2. ParentsTagged' /\ Owned' = Owned
    BY <1>1 DEF CalmInv, ParentsTagged, Owned
  <1>3. /\ \A z \in Tagged : Alive(z)' => Alive(z) /\ pidOf'[z] = pidOf[z]
        /\ calm /\ ~Recorded => \A z \in Tagged : pidOf'[z] = pidOf[z]
    BY <1>1 DEF Alive, Tagged
  <1>4. ASSUME calm, ~Recorded, Standing PROVE ByRoot'
    <2> SUFFICES ASSUME NEW C \in SUBSET Procs, Root \in C, HasChildren(C)'
                 PROVE  Owned' \subseteq C
      BY DEF ByRoot
    <2>1. x \notin Tagged
      BY <1>1, <1>4
    <2>2. \A z \in Procs : parent'[z] = parent[z]
      BY <1>1, <2>1 DEF CalmInv, ParentsTagged
    <2>3. HasChildren(C \cup {x})
      <3> SUFFICES ASSUME NEW z \in Procs, Alive(z), parent[z] \in C \cup {x}, z # x
                   PROVE  z \in C
        BY DEF HasChildren
      <3>1. parent[z] # x
        BY <2>1, ReapAssumption DEF CalmInv, ParentsTagged
      <3> QED  BY <1>1, <2>2, <3>1 DEF HasChildren, Alive
    <2>4. Owned \subseteq C \cup {x}
      BY <1>4, <2>3 DEF Standing, ByRoot
    <2> QED  BY <1>2, <2>1, <2>4 DEF Owned
  <1> QED  BY <1>1, <1>2, <1>3, <1>4, OthersCalm

LEMMA NextCalm ==
    ASSUME ReapInv, CalmInv, [Next]_vars
    PROVE  CalmInv'
  <1>1. CASE UNCHANGED vars
    BY <1>1 DEF vars, CalmInv, ParentsTagged, Recorded, Capturing, Standing, ByRoot,
                HasChildren, Owned, PidsOfOwned, Sweeping, RecordComplete, Aiming, Alive, Runs
  <1>2. CASE ObserveChild \/ Reaper
    BY <1>2, ObserveChildCalm, ScanPidCalm, ScanDoneCalm, ObservePidCalm, CapturedCalm,
       KillCalm, RoundCalm DEF Reaper
  <1> QED  BY <1>1, <1>2, StartForeignCalm, ForkCalm, DieCalm DEF Next

-----------------------------------------------------------------------------
(* A tree that stood still until it was captured: no foreign process gets  *)
(* a signal, whatever becomes of the pids (pinned_signal).                 *)
THEOREM NoForeignSignalHolds == Spec => []NoForeignSignal
  <1>1. CalmInv => NoForeignSignal
    BY DEF CalmInv, NoForeignSignal, Tagged
  <1> QED  BY <1>1, InitHolds, NextKeeps, InitCalm, NextCalm, PTL DEF Spec

(* And the answer "dead" is the truth: at that answer nothing of the tree  *)
(* runs, whichever of its processes could be read, forked before the       *)
(* capture or outlived the root (kill_and_confirm_tree_dead).              *)
THEOREM ConfirmedMeansDeadHolds == Spec => ConfirmedMeansDead
  <1> DEFINE Confirms ==
        calm /\ answer' = "dead" /\ answer # "dead" => \A x \in Tagged : ~Alive(x)
  <1>1. ASSUME ReapInv, CalmInv, [Next]_vars PROVE [Confirms]_vars
    <2> SUFFICES ASSUME calm, answer' = "dead", answer # "dead", NEW x \in Tagged, Alive(x)
                 PROVE  FALSE
      OBVIOUS
    <2>1. RoundBegins \/ RoundEnds
      BY <1>1 DEF Next, Reaper, ObserveChild, ScanPid, ScanDone, ObservePid, Captured, Pin,
                  Verify, Send, WaitGone, Retain, SignalMember, Answer, Fork, StartForeign,
                  Die, vars
    <2>2. Recorded /\ pc # "done"
      BY <2>1 DEF RoundBegins, RoundEnds, Recorded
    <2>3. <<pidOf[x], x>> \in tree
      BY <1>1, <2>2 DEF CalmInv, Sweeping, RecordComplete
    <2>4. Runs(<<pidOf[x], x>>[1], <<pidOf[x], x>>[2])
      BY DEF Runs
    <2>5. CASE RoundBegins
      BY <2>3, <2>5 DEF RoundBegins, Answer
    <2>6. CASE RoundEnds
      BY <2>3, <2>4, <2>6 DEF RoundEnds, Answer
    <2> QED  BY <2>1, <2>5, <2>6
  <1> QED  BY <1>1, InitHolds, NextKeeps, InitCalm, NextCalm, PTL
           DEF Spec, ConfirmedMeansDead

=============================================================================
