------------------------ MODULE SoulRecoveryProofs ------------------------
(***************************************************************************)
(* Proofs about SoulRecovery, for every number of launch requests,         *)
(* incarnations, host boots and crashes.                                   *)
(*                                                                         *)
(* The argument: a row that is being stopped, or has been, and whose box   *)
(* is empty or has booted again since its grant can never work again: it   *)
(* is spent.  Every row but the newest is spent, so only the newest can    *)
(* work, and a verdict of empty is only written over a spent row.          *)
(***************************************************************************)
EXTENDS SoulRecovery, FiniteSetTheorems, WellFoundedInduction, TLAPS

USE BoundsAssumption

-----------------------------------------------------------------------------
(* The inductive invariant.                                                *)

RowType == [state : ActiveStates \cup {"none", "stopped", "failed"},
            prior : 0..MaxIncs, owned : BOOLEAN, resume : BOOLEAN,
            empty : BOOLEAN, boot : 0..MaxBoots]
BoxType == [state : {"none", "created", "running", "exited", "restarting"},
            boot : 0..MaxBoots, granted : BOOLEAN,
            worker : {"none", "running", "exited"}, longLived : BOOLEAN]
TaskType == [pc : Pcs, inc : 0..MaxIncs, boot : 0..MaxBoots]
PlanType == [goal : {"none", "stop", "replace", "activate", "cleanup"},
             target : 0..MaxIncs, resume : BOOLEAN, empty : BOOLEAN]

\* The grant of the row's boot can start no worker: the box is empty, or it
\* has booted again.
Silent(i) == IsEmpty(boxes[i]) \/ boxes[i].boot > rows[i].boot

Spent(i) == rows[i].state \in {"stopping", "stopped", "failed"} /\ Silent(i)

\* The rows are made in order, and a replacement under way has room.
Contiguous ==
  \E n \in 0..MaxIncs :
    /\ \A i \in Incs : rows[i].state # "none" <=> i <= n
    /\ plan.goal = "replace" => n < MaxIncs

RowOK(i) ==
  /\ rows[i].state = "none" => rows[i] = NoRow
  /\ ~rows[i].owned => /\ boxes[i].state = "none"
                       /\ rows[i].state \in {"none", "prepared", "stopping", "failed"}
  /\ rows[i].owned => rows[i].state \notin {"none", "prepared", "failed"}
  /\ rows[i].boot <= boxes[i].boot
  /\ boxes[i].worker # "none" => boxes[i].granted
  /\ boxes[i].granted => /\ boxes[i].state = "running" /\ boxes[i].boot = rows[i].boot
                         /\ rows[i].state \in {"starting", "running", "stopping"}
  /\ rows[i].empty <=> rows[i].state = "stopped"
  /\ rows[i].state = "stopped" => Silent(i)

\* A row resumed holds the claim, and replaces a row verified empty, until
\* it is spent itself.
LineOK(i) ==
  /\ rows[i].prior < i
  /\ rows[i].prior # 0 /\ ~Spent(i) => rows[rows[i].prior].empty
  /\ rows[i].resume /\ ~Spent(i) => claim = i

Rows == \A i \in Incs : RowOK(i)
Lines == \A i \in Incs : LineOK(i)

OldRowsSpent == \A i, j \in Incs : i < j /\ rows[j].state # "none" => Spent(i)

\* After a stop no row but a new, unregistered one is on its way to run.
Halted ==
  ~Wanted => /\ soul.recovery # "recovering"
             /\ \A i \in Incs : rows[i].state \notin {"created", "starting", "running"}

\* A grant that may still be sent is the one on record for its row.
TaskOK(t) ==
  LET i == at[t].inc IN
  /\ t \in Launchers => at[t].pc \in Activating \cup {"idle"}
  /\ at[t].pc \in Activating =>
       /\ i \in Incs /\ rows[i].state # "none"
       /\ t \in Launchers => rows[i].prior = 0
       /\ at[t].boot <= boxes[i].boot
  /\ at[t].pc \in {"granted", "armed"} =>
       /\ rows[i].boot = at[t].boot
       /\ rows[i].state \in {"starting", "running", "stopping", "stopped"}

Grants == \A t \in Tasks : TaskOK(t)

\* Where the keeper stands in a plan.
PlanOK ==
  LET pc == Keeper.pc IN
  /\ pc \in {"idle", "retire", "probe", "reattach", "begin", "dispatch"} =>
       plan.goal = "none"
  /\ pc \in {"send", "acked", "lost"} => plan.goal \in {"none", "activate"}
  /\ pc \in Activating \cup {"confirm", "replay", "succeed"} => plan.goal = "activate"
  /\ pc = "prepare" => plan.goal = "replace" /\ plan.target \in Incs
  /\ pc = "begin" => Wanted /\ Owned # {}
  /\ pc = "reattach" => Keeper.inc \in Incs
  /\ up = "down" => pc = "idle"

\* What the keeper stops has no replacement that could work.
StopOK ==
  LET j == plan.target IN
  /\ Keeper.pc \in {"stop", "mark"} =>
       /\ plan.goal \in {"stop", "replace", "cleanup"}
       /\ j \in Incs /\ rows[j].owned
       /\ IF plan.goal = "cleanup" THEN rows[j].prior # 0
          ELSE rows[j].state \in {"stopping", "stopped"}
       /\ \A k \in Incs : rows[k].prior = j => Spent(k)
  /\ Keeper.pc = "mark" /\ plan.empty => Silent(j)
  /\ Keeper.pc \in {"probe", "begin"} =>
       \A k \in Incs : rows[k].state = "prepared" => rows[k].prior = 0

\* The replacement the keeper activates is its own.
ReplaceOK ==
  LET i == Keeper.inc IN
  /\ \/ Keeper.pc \in Activating \cup {"confirm", "replay", "succeed"}
     \/ Keeper.pc \in {"send", "acked", "lost"} /\ plan.goal = "activate"
     => /\ i \in Incs /\ rows[i].prior # 0
        /\ rows[i].state \in {"prepared", "created", "starting", "running"}
  /\ Keeper.pc \in {"ran", "confirm"} => rows[i].state = "running"

\* The journal is ahead of the worker, and a blank replacement is only
\* planned for a soul whose worker received nothing.
InputOK ==
  /\ sent <= 1
  /\ input \in {"none", "queued"} => sent = 0
  /\ Keeper.pc = "dispatch" => sent = 0
  /\ Keeper.pc = "send" => sent = 0 /\ input = "dispatching"
  /\ ~plan.resume /\ (\/ Keeper.pc \in {"begin", "prepare"}
                      \/ Keeper.pc \in {"stop", "mark"} /\ plan.goal = "replace")
       => sent = 0

IInv ==
  /\ TypeOK /\ Contiguous /\ Rows /\ Lines /\ OldRowsSpent /\ Halted
  /\ Grants /\ PlanOK /\ StopOK /\ ReplaceOK /\ InputOK /\ RecoveryHasAnOwner

-----------------------------------------------------------------------------
Above(j) == {k \in Incs : k > j}

LEMMA NewestIsMax ==
  ASSUME NEW S \in SUBSET Incs, S # {}
  PROVE  Newest(S) \in S /\ \A j \in S : j <= Newest(S)
  <1>1. IsFiniteSet(Incs)
    BY FS_Interval, BoundsAssumption DEF Incs
  <1>2. IsWellFoundedOn(StrictSubsetOrdering(Incs), SUBSET Incs)
    BY <1>1, FS_StrictSubsetOrderingWellFounded, FS_FiniteSubsetsOfFinite
  <1>3. PICK T : T = {Above(j) : j \in S}
    OBVIOUS
  <1>4. T \subseteq SUBSET Incs /\ T # {}
    BY <1>3 DEF Above
  <1>5. PICK x \in T : \A y \in T : ~(<<y, x>> \in StrictSubsetOrdering(Incs))
    BY <1>2, <1>4, WFMin
  <1>6. PICK m \in S : x = Above(m)
    BY <1>3, <1>5
  <1>7. ASSUME NEW j \in S PROVE j <= m
    <2>1. SUFFICES ASSUME j > m PROVE FALSE
      BY BoundsAssumption DEF Incs
    <2>2. Above(j) \subseteq x /\ j \in x /\ j \notin Above(j)
      BY <1>6, <2>1, BoundsAssumption DEF Above, Incs
    <2>3. Above(j) \in T
      BY <1>3
    <2> QED BY <2>2, <2>3, <1>4, <1>5 DEF StrictSubsetOrdering
  <1> QED BY <1>7 DEF Newest

LEMMA CountOf ==
  ASSUME NEW n \in Nat, Made = 1..n
  PROVE  Cardinality(Made) = n
  BY FS_Interval

(* What a step touches.                                                    *)

OnlyTask(t) ==
  /\ at' \in [Tasks -> TaskType]
  /\ \A u \in Tasks : u # t => at'[u] = at[u]

OnlyRow(i) ==
  /\ rows' \in [Incs -> RowType]
  /\ \A k \in Incs : k # i => rows'[k] = rows[k]

OnlyBox(i) ==
  /\ boxes' \in [Incs -> BoxType]
  /\ \A k \in Incs : k # i => boxes'[k] = boxes[k]

\* A task takes a step to pc, in the same row and boot.
Moves(t, pc) ==
  /\ OnlyTask(t)
  /\ at'[t].pc = pc /\ at'[t].inc = at[t].inc /\ at'[t].boot = at[t].boot

LEMMA Typed ==
  ASSUME TypeOK
  PROVE  /\ rows \in [Incs -> RowType] /\ boxes \in [Incs -> BoxType]
         /\ at \in [Tasks -> TaskType]
         /\ \A i \in Incs : rows[i] \in RowType /\ boxes[i] \in BoxType
         /\ \A t \in Tasks : at[t] \in TaskType
         /\ plan \in PlanType
         /\ "keeper" \in Tasks /\ "keeper" \notin Launchers
  BY DEF TypeOK, RowType, BoxType, TaskType, PlanType, Tasks

LEMMA StepMoves ==
  ASSUME TypeOK, NEW t \in Tasks, NEW pc \in Pcs, Step(t, pc)
  PROVE  Moves(t, pc)
  <1>1. [at[t] EXCEPT !.pc = pc] \in TaskType
    BY Typed DEF TaskType
  <1> QED  BY <1>1, Typed DEF Step, Moves, OnlyTask, TaskType

LEMMA ToMoves ==
  ASSUME TypeOK, NEW pc \in Pcs, To(pc)
  PROVE  Moves("keeper", pc)
  BY StepMoves, Typed DEF Step, To

LEMMA DropMoves ==
  ASSUME TypeOK, Drop
  PROVE  /\ OnlyTask("keeper") /\ at'["keeper"] = Idle
         /\ plan' = NoPlan /\ plan' \in PlanType
  <1>1. Idle \in TaskType
    BY DEF Idle, At, TaskType, Pcs
  <1> QED  BY <1>1, Typed DEF Drop, OnlyTask, NoPlan, PlanType

\* The other tasks, rows and boxes of a step that only moves the keeper, to
\* where it activates nothing.
LEMMA KeeperMoves ==
  ASSUME IInv, UNCHANGED <<rows, boxes, claim>>, soul'.desired = soul.desired,
         OnlyTask("keeper"), at'["keeper"].pc \notin Activating,
         plan'.goal = "replace" => plan.goal = "replace",
         soul'.recovery = "recovering" => soul.recovery = "recovering"
  PROVE  Contiguous' /\ Rows' /\ Lines' /\ OldRowsSpent' /\ Halted' /\ Grants'
  <1> USE DEF IInv
  <1>1. Contiguous'
    BY DEF Contiguous
  <1>2. Rows'
    BY DEF Rows, RowOK, Silent, IsEmpty
  <1>3. Lines' /\ OldRowsSpent'
    BY DEF Lines, LineOK, OldRowsSpent, Spent, Silent, IsEmpty
  <1>4. Halted'
    BY DEF Halted, Wanted
  <1>5. Grants'
    <2> SUFFICES ASSUME NEW t \in Tasks PROVE TaskOK(t)'
      BY DEF Grants
    <2>1. CASE t = "keeper"
      BY <2>1, Typed DEF TaskOK, Activating
    <2>2. CASE t # "keeper"
      BY <2>2 DEF TaskOK, Grants, OnlyTask
    <2> QED  BY <2>1, <2>2
  <1> QED  BY <1>1, <1>2, <1>3, <1>4, <1>5

SoulType == [desired : {"running", "stopped"},
             recovery : {"live", "recovering", "blocked", "stopped"},
             evidence : {"none", "native", "spec"}]

LEMMA SoulMoves ==
  ASSUME TypeOK, NEW v \in {"live", "recovering", "blocked", "stopped"},
         soul' = [soul EXCEPT !.recovery = v]
  PROVE  /\ soul' \in SoulType
         /\ soul'.desired = soul.desired /\ soul'.recovery = v
         /\ soul'.evidence = soul.evidence
  BY DEF TypeOK, SoulType


\* A row that is not spent is replaced by none.
LEMMA NotReplaced ==
  ASSUME IInv, NEW j \in Incs, ~Spent(j), NEW k \in Incs
  PROVE  rows[k].prior # j
  <1>1. rows[k].prior < k /\ (rows[k].state = "none" => rows[k].prior = 0)
    BY DEF IInv, Lines, LineOK, Rows, RowOK, NoRow, Row
  <1>2. j < k => rows[k].state = "none"
    BY DEF IInv, OldRowsSpent
  <1> QED  BY <1>1, <1>2 DEF Incs
LEMMA RecoverStep == ASSUME IInv, Recover PROVE IInv'
  <1>1. Moves("keeper", "retire")
    BY ToMoves, DropMoves DEF IInv, Recover, Pcs, Keeper
  <1>2. TypeOK'
    BY <1>1 DEF IInv, Recover, Moves, registry, world, TypeOK, OnlyTask, TaskType
  <1>3. Contiguous' /\ Rows' /\ Lines' /\ OldRowsSpent' /\ Halted' /\ Grants'
    BY <1>1, KeeperMoves DEF Recover, Moves, registry, world, Activating
  <1>4. PlanOK' /\ StopOK' /\ ReplaceOK'
    BY <1>1, Typed
       DEF IInv, Recover, Moves, Keeper, KeeperFree, PlanOK, StopOK, ReplaceOK, Activating
  <1>5. InputOK'
    BY <1>1, Typed DEF IInv, Recover, Moves, registry, world, Keeper, InputOK
  <1>6. RecoveryHasAnOwner'
    BY <1>1 DEF IInv, Recover, registry, RecoveryHasAnOwner
  <1> QED  BY <1>2, <1>3, <1>4, <1>5, <1>6 DEF IInv

LEMMA ObserveStep == ASSUME IInv, Observe PROVE IInv'
  <1>1. Moves("keeper", "retire")
    BY ToMoves, DropMoves DEF IInv, Observe, Pcs, Keeper
  <1>2. TypeOK'
    BY <1>1 DEF IInv, Observe, Moves, registry, world, TypeOK, OnlyTask, TaskType
  <1>3. Contiguous' /\ Rows' /\ Lines' /\ OldRowsSpent' /\ Halted' /\ Grants'
    BY <1>1, KeeperMoves DEF Observe, Moves, registry, world, Activating
  <1>4. PlanOK' /\ StopOK' /\ ReplaceOK'
    BY <1>1, Typed
       DEF IInv, Observe, Moves, Keeper, KeeperFree, PlanOK, StopOK, ReplaceOK, Activating
  <1>5. InputOK'
    BY <1>1, Typed DEF IInv, Observe, Moves, registry, world, Keeper, InputOK
  <1>6. RecoveryHasAnOwner'
    BY <1>1 DEF IInv, Observe, registry, RecoveryHasAnOwner
  <1> QED  BY <1>2, <1>3, <1>4, <1>5, <1>6 DEF IInv

LEMMA GiveUpStep == ASSUME IInv, GiveUp PROVE IInv'
  <1>1. Moves("keeper", "block")
    BY ToMoves, DropMoves DEF IInv, GiveUp, Pcs, Keeper
  <1>2. TypeOK'
    BY <1>1 DEF IInv, GiveUp, Moves, registry, world, TypeOK, OnlyTask, TaskType
  <1>3. Contiguous' /\ Rows' /\ Lines' /\ OldRowsSpent' /\ Halted' /\ Grants'
    BY <1>1, KeeperMoves DEF GiveUp, Moves, registry, world, Activating
  <1>4. PlanOK' /\ StopOK' /\ ReplaceOK'
    BY <1>1, Typed
       DEF IInv, GiveUp, Moves, Keeper, KeeperFree, PlanOK, StopOK, ReplaceOK, Activating
  <1>5. InputOK'
    BY <1>1, Typed DEF IInv, GiveUp, Moves, registry, world, Keeper, InputOK
  <1>6. RecoveryHasAnOwner'
    BY <1>1 DEF IInv, GiveUp, registry, RecoveryHasAnOwner
  <1> QED  BY <1>2, <1>3, <1>4, <1>5, <1>6 DEF IInv

LEMMA ProbeStoppedStep == ASSUME IInv, ProbeStopped PROVE IInv'
  <1>1. OnlyTask("keeper") /\ at'["keeper"] = Idle /\ plan' = NoPlan
    BY ToMoves, DropMoves DEF IInv, ProbeStopped, Pcs, Keeper
  <1>2. TypeOK'
    BY <1>1 DEF IInv, ProbeStopped, NoPlan, registry, world, TypeOK, OnlyTask, TaskType
  <1>3. Contiguous' /\ Rows' /\ Lines' /\ OldRowsSpent' /\ Halted' /\ Grants'
    BY <1>1, KeeperMoves DEF ProbeStopped, Idle, At, NoPlan, registry, world, Activating
  <1>4. PlanOK' /\ StopOK' /\ ReplaceOK'
    BY <1>1, Typed DEF Idle, At, NoPlan, Keeper, PlanOK, StopOK, ReplaceOK, Activating
  <1>5. InputOK'
    BY <1>1, Typed DEF IInv, ProbeStopped, Idle, At, registry, world, Keeper, InputOK
  <1>6. RecoveryHasAnOwner'
    BY <1>1 DEF IInv, ProbeStopped, registry, RecoveryHasAnOwner, Halted
  <1> QED  BY <1>2, <1>3, <1>4, <1>5, <1>6 DEF IInv

LEMMA ProbeOfflineStep == ASSUME IInv, ProbeOffline PROVE IInv'
  <1>1. \/ /\ Moves("keeper", "begin") /\ plan' \in PlanType /\ plan'.goal = "none"
           /\ ~plan'.resume => NeverDispatched
        \/ Moves("keeper", "block") /\ plan' = plan
    <2>1. CASE soul.evidence = "spec" \/ NeverDispatched
      <3>1. Moves("keeper", "begin")
        BY <2>1, ToMoves DEF IInv, ProbeOffline, Pcs
      <3>2. CASE soul.evidence = "spec"
        <4>1. plan' = [goal |-> "none", target |-> 0, resume |-> TRUE, empty |-> FALSE]
          BY <3>2 DEF ProbeOffline, Path, NoPlan
        <4> QED  BY <3>1, <4>1 DEF PlanType
      <3>3. CASE soul.evidence # "spec"
        <4>1. plan' = [goal |-> "none", target |-> 0, resume |-> FALSE, empty |-> FALSE]
          BY <2>1, <3>3 DEF ProbeOffline, Path, NoPlan
        <4> QED  BY <2>1, <3>1, <3>3, <4>1 DEF PlanType
      <3> QED  BY <3>2, <3>3
    <2>2. CASE ~(soul.evidence = "spec" \/ NeverDispatched)
      BY <2>2, ToMoves DEF IInv, ProbeOffline, Pcs
    <2> QED  BY <2>1, <2>2
  <1>2. TypeOK'
    BY <1>1
       DEF IInv, ProbeOffline, Moves, registry, world, PlanType, TypeOK, OnlyTask, TaskType
  <1>3. Contiguous' /\ Rows' /\ Lines' /\ OldRowsSpent' /\ Halted' /\ Grants'
    BY <1>1, KeeperMoves DEF ProbeOffline, Moves, registry, world, Activating
  <1>4. PlanOK' /\ StopOK' /\ ReplaceOK'
    BY <1>1, Typed
       DEF IInv, ProbeOffline, Moves, registry, Keeper, Wanted, PlanOK, StopOK, ReplaceOK,
           Activating, Owned, Made
  <1>5. InputOK'
    BY <1>1, Typed
       DEF IInv, ProbeOffline, Moves, registry, world, Keeper, InputOK, NeverDispatched,
           TypeOK
  <1>6. RecoveryHasAnOwner'
    BY <1>1 DEF IInv, ProbeOffline, registry, RecoveryHasAnOwner, PlanOK
  <1> QED  BY <1>2, <1>3, <1>4, <1>5, <1>6 DEF IInv

LEMMA ProbeBlockedStep == ASSUME IInv, ProbeBlocked PROVE IInv'
  <1>1. Moves("keeper", "block")
    BY ToMoves, DropMoves DEF IInv, ProbeBlocked, Pcs, Keeper
  <1>2. TypeOK'
    BY <1>1 DEF IInv, ProbeBlocked, Moves, registry, world, TypeOK, OnlyTask, TaskType
  <1>3. Contiguous' /\ Rows' /\ Lines' /\ OldRowsSpent' /\ Halted' /\ Grants'
    BY <1>1, KeeperMoves DEF ProbeBlocked, Moves, registry, world, Activating
  <1>4. PlanOK' /\ StopOK' /\ ReplaceOK'
    BY <1>1, Typed
       DEF IInv, ProbeBlocked, Moves, Keeper, KeeperFree, PlanOK, StopOK, ReplaceOK,
           Activating
  <1>5. InputOK'
    BY <1>1, Typed DEF IInv, ProbeBlocked, Moves, registry, world, Keeper, InputOK
  <1>6. RecoveryHasAnOwner'
    BY <1>1 DEF IInv, ProbeBlocked, registry, RecoveryHasAnOwner
  <1> QED  BY <1>2, <1>3, <1>4, <1>5, <1>6 DEF IInv

LEMMA ReattachStep == ASSUME IInv, Reattach PROVE IInv'
  <1>1. OnlyTask("keeper") /\ at'["keeper"] = Idle /\ plan' = NoPlan
    BY ToMoves, DropMoves DEF IInv, Reattach, Pcs, Keeper
  <1>2. TypeOK'
    <2>1. soul' \in SoulType
      BY SoulMoves DEF IInv, Reattach, TypeOK, SoulType
    <2> QED  BY <1>1, <2>1 DEF IInv, Reattach, SoulType, TypeOK, OnlyTask, TaskType,
                               NoPlan, registry, world
  <1>3. Contiguous' /\ Rows' /\ Lines' /\ OldRowsSpent' /\ Halted' /\ Grants'
    BY <1>1, KeeperMoves DEF Reattach, Idle, At, NoPlan, world, Activating
  <1>4. PlanOK' /\ StopOK' /\ ReplaceOK'
    BY <1>1, Typed DEF Idle, At, NoPlan, Keeper, PlanOK, StopOK, ReplaceOK, Activating
  <1>5. InputOK'
    BY <1>1, Typed DEF IInv, Reattach, Idle, At, world, Keeper, InputOK
  <1>6. RecoveryHasAnOwner'
    BY <1>1 DEF IInv, Reattach, RecoveryHasAnOwner, PlanOK
  <1> QED  BY <1>2, <1>3, <1>4, <1>5, <1>6 DEF IInv

LEMMA BudgetSpentStep == ASSUME IInv, BudgetSpent PROVE IInv'
  <1>1. OnlyTask("keeper") /\ at'["keeper"] = Idle /\ plan' = NoPlan
    BY ToMoves, DropMoves DEF IInv, BudgetSpent, Pcs, Keeper
  <1>2. TypeOK'
    <2>1. soul' \in SoulType
      BY SoulMoves DEF IInv, BudgetSpent
    <2>2. /\ plan' \in PlanType
          /\ UNCHANGED <<input, rows, claim, boxes, sent, up, crashes, interrupted>>
      BY DropMoves DEF IInv, BudgetSpent, world
    <2> QED  BY <1>1, <2>1, <2>2
             DEF IInv, TypeOK, SoulType, OnlyTask, TaskType, PlanType
  <1>3. Contiguous' /\ Rows' /\ Lines' /\ OldRowsSpent' /\ Halted' /\ Grants'
    BY <1>1, KeeperMoves DEF BudgetSpent, Idle, At, NoPlan, world, Activating
  <1>4. PlanOK' /\ StopOK' /\ ReplaceOK'
    BY <1>1, Typed DEF Idle, At, NoPlan, Keeper, PlanOK, StopOK, ReplaceOK, Activating
  <1>5. InputOK'
    BY <1>1, Typed DEF IInv, BudgetSpent, Idle, At, world, Keeper, InputOK
  <1>6. RecoveryHasAnOwner'
    BY <1>1 DEF IInv, BudgetSpent, registry, RecoveryHasAnOwner
  <1> QED  BY <1>2, <1>3, <1>4, <1>5, <1>6 DEF IInv

LEMMA ConfirmStep == ASSUME IInv, Confirm PROVE IInv'
  <1>1. \/ Moves("keeper", "replay") /\ plan' = plan
        \/ /\ Moves("keeper", "stop") /\ plan' \in PlanType
           /\ plan'.goal = "cleanup" /\ plan'.target = Keeper.inc
    <2>1. CASE To("replay") /\ UNCHANGED plan
      BY <2>1, ToMoves DEF IInv, Pcs
    <2>2. CASE To("stop") /\ plan' = [plan EXCEPT !.goal = "cleanup",
                                                !.target = Keeper.inc]
      <3>1. Moves("keeper", "stop")
        BY <2>2, ToMoves DEF IInv, Pcs
      <3>2. plan' \in PlanType /\ plan'.goal = "cleanup" /\ plan'.target = Keeper.inc
        BY <2>2, Typed DEF IInv, PlanType, TaskType, Keeper
      <3> QED  BY <3>1, <3>2
    <2> QED  BY <2>1, <2>2 DEF Confirm
  <1>2. TypeOK'
    <2>1. plan' \in PlanType
      BY <1>1, Typed DEF IInv
    <2> QED  BY <1>1, <2>1 DEF IInv, Confirm, Moves, PlanType, TypeOK, OnlyTask,
                               TaskType, registry, world
  <1>3. Contiguous' /\ Rows' /\ Lines' /\ OldRowsSpent' /\ Halted' /\ Grants'
    BY <1>1, KeeperMoves DEF Confirm, Moves, registry, world, Activating
  <1>4. PlanOK' /\ StopOK' /\ ReplaceOK'
    <2>1. CASE Moves("keeper", "replay") /\ plan' = plan
      BY <2>1
         DEF IInv, Confirm, Moves, PlanOK, StopOK, ReplaceOK, Activating, Spent, Silent,
             IsEmpty, Owned, Made, registry, world, Incs, Keeper
    <2>2. CASE /\ Moves("keeper", "stop")
               /\ plan'.goal = "cleanup" /\ plan'.target = Keeper.inc
      <3>1. Keeper.inc \in Incs /\ rows[Keeper.inc].prior # 0
            /\ rows[Keeper.inc].state = "running" /\ ~Spent(Keeper.inc)
        BY DEF IInv, ReplaceOK, Confirm, Spent
      <3>2. rows[Keeper.inc].owned /\ \A k \in Incs : rows[k].prior # Keeper.inc
        BY <3>1, NotReplaced DEF IInv, Rows, RowOK
      <3> QED  BY <2>2, <3>1, <3>2
                  DEF IInv, Confirm, Moves, PlanOK, StopOK, ReplaceOK, Activating, Spent,
                      Silent, IsEmpty, Owned, Made, registry, world, Incs, Keeper
    <2> QED  BY <1>1, <2>1, <2>2
  <1>5. InputOK'
    BY <1>1, Typed DEF IInv, Confirm, Moves, registry, world, Keeper, InputOK
  <1>6. RecoveryHasAnOwner'
    BY <1>1 DEF IInv, Confirm, registry, RecoveryHasAnOwner
  <1> QED  BY <1>2, <1>3, <1>4, <1>5, <1>6 DEF IInv

LEMMA ReplayStep == ASSUME IInv, Replay PROVE IInv'
  <1>1. \/ Moves("keeper", "block") /\ input' = input
        \/ Moves("keeper", "send") /\ input = "queued" /\ input' = "dispatching"
        \/ Moves("keeper", "succeed") /\ input' = input
    BY ToMoves, DropMoves DEF IInv, Replay, Pcs, Keeper
  <1>2. TypeOK'
    BY <1>1 DEF IInv, Replay, Moves, registry, world, TypeOK, OnlyTask, TaskType
  <1>3. Contiguous' /\ Rows' /\ Lines' /\ OldRowsSpent' /\ Halted' /\ Grants'
    BY <1>1, KeeperMoves DEF Replay, Moves, registry, world, Activating
  <1>4. PlanOK' /\ StopOK' /\ ReplaceOK'
    BY <1>1, Typed
       DEF IInv, Replay, Moves, Keeper, KeeperFree, PlanOK, StopOK, ReplaceOK, Activating
  <1>5. InputOK'
    BY <1>1, Typed DEF IInv, Replay, Moves, registry, world, Keeper, InputOK
  <1>6. RecoveryHasAnOwner'
    BY <1>1 DEF IInv, Replay, registry, RecoveryHasAnOwner
  <1> QED  BY <1>2, <1>3, <1>4, <1>5, <1>6 DEF IInv

LEMMA SucceedStep == ASSUME IInv, Succeed PROVE IInv'
  <1>1. OnlyTask("keeper") /\ at'["keeper"] = Idle /\ plan' = NoPlan
    BY ToMoves, DropMoves DEF IInv, Succeed, Pcs, Keeper
  <1>2. TypeOK'
    <2>1. soul' \in SoulType
      BY SoulMoves DEF IInv, Succeed, TypeOK, SoulType
    <2> QED  BY <1>1, <2>1 DEF IInv, Succeed, SoulType, TypeOK, OnlyTask, TaskType,
                               NoPlan, registry, world
  <1>3. Contiguous' /\ Rows' /\ Lines' /\ OldRowsSpent' /\ Halted' /\ Grants'
    BY <1>1, KeeperMoves DEF Succeed, Idle, At, NoPlan, world, Activating
  <1>4. PlanOK' /\ StopOK' /\ ReplaceOK'
    BY <1>1, Typed DEF Idle, At, NoPlan, Keeper, PlanOK, StopOK, ReplaceOK, Activating
  <1>5. InputOK'
    BY <1>1, Typed DEF IInv, Succeed, Idle, At, world, Keeper, InputOK
  <1>6. RecoveryHasAnOwner'
    BY <1>1 DEF IInv, Succeed, registry, RecoveryHasAnOwner
  <1> QED  BY <1>2, <1>3, <1>4, <1>5, <1>6 DEF IInv

LEMMA BlockStep == ASSUME IInv, Block PROVE IInv'
  <1>1. OnlyTask("keeper") /\ at'["keeper"] = Idle /\ plan' = NoPlan
    BY ToMoves, DropMoves DEF IInv, Block, Pcs, Keeper
  <1>2. TypeOK'
    <2>1. soul' \in SoulType
      BY SoulMoves DEF IInv, Block, TypeOK, SoulType
    <2> QED  BY <1>1, <2>1 DEF IInv, Block, SoulType, TypeOK, OnlyTask, TaskType,
                               NoPlan, registry, world
  <1>3. Contiguous' /\ Rows' /\ Lines' /\ OldRowsSpent' /\ Halted' /\ Grants'
    BY <1>1, KeeperMoves DEF Block, Idle, At, NoPlan, world, Activating
  <1>4. PlanOK' /\ StopOK' /\ ReplaceOK'
    BY <1>1, Typed DEF Idle, At, NoPlan, Keeper, PlanOK, StopOK, ReplaceOK, Activating
  <1>5. InputOK'
    BY <1>1, Typed DEF IInv, Block, Idle, At, world, Keeper, InputOK
  <1>6. RecoveryHasAnOwner'
    BY <1>1 DEF IInv, Block, RecoveryHasAnOwner, Halted
  <1> QED  BY <1>2, <1>3, <1>4, <1>5, <1>6 DEF IInv

LEMMA KeeperFailsStep == ASSUME IInv, KeeperFails PROVE IInv'
  <1>1. OnlyTask("keeper") /\ at'["keeper"] = Idle /\ plan' = NoPlan
    BY ToMoves, DropMoves DEF IInv, KeeperFails, Pcs, Keeper
  <1>2. TypeOK'
    BY <1>1 DEF IInv, KeeperFails, NoPlan, registry, world, TypeOK, OnlyTask, TaskType
  <1>3. Contiguous' /\ Rows' /\ Lines' /\ OldRowsSpent' /\ Halted' /\ Grants'
    BY <1>1, KeeperMoves DEF KeeperFails, Idle, At, NoPlan, registry, world, Activating
  <1>4. PlanOK' /\ StopOK' /\ ReplaceOK'
    BY <1>1, Typed DEF Idle, At, NoPlan, Keeper, PlanOK, StopOK, ReplaceOK, Activating
  <1>5. InputOK'
    BY <1>1, Typed DEF IInv, KeeperFails, Idle, At, registry, world, Keeper, InputOK
  <1>6. RecoveryHasAnOwner'
    BY <1>1 DEF IInv, KeeperFails, registry, RecoveryHasAnOwner
  <1> QED  BY <1>2, <1>3, <1>4, <1>5, <1>6 DEF IInv

LEMMA BeginInputStep == ASSUME IInv, BeginInput PROVE IInv'
  <1>1. OnlyTask("keeper") /\ at'["keeper"].pc = "dispatch"
    <2>1. Newest({i \in Incs : rows[i].state = "running"}) \in Incs
      BY NewestIsMax DEF BeginInput
    <2>2. PICK n \in Incs : at' = [at EXCEPT !["keeper"] = At("dispatch", n)]
      BY <2>1 DEF BeginInput
    <2>3. At("dispatch", n) \in TaskType
      BY DEF At, TaskType, Pcs, Incs
    <2> QED  BY <2>2, <2>3, Typed DEF IInv, OnlyTask, At
  <1>2. TypeOK'
    BY <1>1 DEF IInv, BeginInput, Moves, registry, world, TypeOK, OnlyTask, TaskType
  <1>3. Contiguous' /\ Rows' /\ Lines' /\ OldRowsSpent' /\ Halted' /\ Grants'
    BY <1>1, KeeperMoves DEF BeginInput, Moves, registry, world, Activating
  <1>4. PlanOK' /\ StopOK' /\ ReplaceOK'
    BY <1>1, Typed
       DEF IInv, BeginInput, Moves, Keeper, KeeperFree, PlanOK, StopOK, ReplaceOK,
           Activating
  <1>5. InputOK'
    BY <1>1, Typed DEF IInv, BeginInput, Moves, registry, world, Keeper, InputOK
  <1>6. RecoveryHasAnOwner'
    BY <1>1 DEF IInv, BeginInput, registry, RecoveryHasAnOwner
  <1> QED  BY <1>2, <1>3, <1>4, <1>5, <1>6 DEF IInv

LEMMA MarkDispatchingStep == ASSUME IInv, MarkDispatching PROVE IInv'
  <1>1. Moves("keeper", "send")
    BY ToMoves, DropMoves DEF IInv, MarkDispatching, Pcs, Keeper
  <1>2. TypeOK'
    BY <1>1 DEF IInv, MarkDispatching, Moves, registry, world, TypeOK, OnlyTask, TaskType
  <1>3. Contiguous' /\ Rows' /\ Lines' /\ OldRowsSpent' /\ Halted' /\ Grants'
    BY <1>1, KeeperMoves DEF MarkDispatching, Moves, registry, world, Activating
  <1>4. PlanOK' /\ StopOK' /\ ReplaceOK'
    BY <1>1, Typed
       DEF IInv, MarkDispatching, Moves, Keeper, KeeperFree, PlanOK, StopOK, ReplaceOK,
           Activating
  <1>5. InputOK'
    BY <1>1, Typed DEF IInv, MarkDispatching, Moves, registry, world, Keeper, InputOK
  <1>6. RecoveryHasAnOwner'
    BY <1>1 DEF IInv, MarkDispatching, registry, RecoveryHasAnOwner
  <1> QED  BY <1>2, <1>3, <1>4, <1>5, <1>6 DEF IInv

LEMMA DeliverStep == ASSUME IInv, Deliver PROVE IInv'
  <1>1. \/ Moves("keeper", "acked")
        \/ Moves("keeper", "lost")
    BY ToMoves, DropMoves DEF IInv, Deliver, Pcs, Keeper
  <1>2. TypeOK'
    BY <1>1 DEF IInv, Deliver, Moves, registry, world, TypeOK, OnlyTask, TaskType
  <1>3. Contiguous' /\ Rows' /\ Lines' /\ OldRowsSpent' /\ Halted' /\ Grants'
    BY <1>1, KeeperMoves DEF Deliver, Moves, registry, world, Activating
  <1>4. PlanOK' /\ StopOK' /\ ReplaceOK'
    BY <1>1, Typed
       DEF IInv, Deliver, Moves, registry, Keeper, PlanOK, StopOK, ReplaceOK, Activating
  <1>5. InputOK'
    BY <1>1, Typed DEF IInv, Deliver, Moves, registry, world, Keeper, InputOK
  <1>6. RecoveryHasAnOwner'
    BY <1>1 DEF IInv, Deliver, registry, RecoveryHasAnOwner
  <1> QED  BY <1>2, <1>3, <1>4, <1>5, <1>6 DEF IInv

LEMMA DeliveryFailsStep == ASSUME IInv, DeliveryFails PROVE IInv'
  <1>1. Moves("keeper", "lost")
    BY ToMoves, DropMoves DEF IInv, DeliveryFails, Pcs, Keeper
  <1>2. TypeOK'
    BY <1>1 DEF IInv, DeliveryFails, Moves, registry, world, TypeOK, OnlyTask, TaskType
  <1>3. Contiguous' /\ Rows' /\ Lines' /\ OldRowsSpent' /\ Halted' /\ Grants'
    BY <1>1, KeeperMoves DEF DeliveryFails, Moves, registry, world, Activating
  <1>4. PlanOK' /\ StopOK' /\ ReplaceOK'
    BY <1>1, Typed
       DEF IInv, DeliveryFails, Moves, registry, Keeper, PlanOK, StopOK, ReplaceOK,
           Activating
  <1>5. InputOK'
    BY <1>1, Typed DEF IInv, DeliveryFails, Moves, registry, world, Keeper, InputOK
  <1>6. RecoveryHasAnOwner'
    BY <1>1 DEF IInv, DeliveryFails, registry, RecoveryHasAnOwner
  <1> QED  BY <1>2, <1>3, <1>4, <1>5, <1>6 DEF IInv

LEMMA SettleStep == ASSUME IInv, Settle PROVE IInv'
  <1>1. \/ OnlyTask("keeper") /\ at'["keeper"] = Idle /\ plan' = NoPlan
        \/ Moves("keeper", "succeed") /\ plan' = plan /\ plan.goal # "none"
        \/ Moves("keeper", "block") /\ plan' = plan /\ plan.goal # "none"
    BY ToMoves, DropMoves DEF IInv, Settle, Pcs, Keeper
  <1>2. TypeOK'
    <2>1. plan' \in PlanType
      <3>1. NoPlan \in PlanType
        BY DEF NoPlan, PlanType
      <3> QED  BY <1>1, <3>1, Typed DEF IInv
    <2>2. at' \in [Tasks -> TaskType]
      BY <1>1 DEF Moves, OnlyTask
    <2> QED  BY <2>1, <2>2 DEF IInv, Settle, PlanType, TaskType, TypeOK, world
  <1>3. Contiguous' /\ Rows' /\ Lines' /\ OldRowsSpent' /\ Halted' /\ Grants'
    BY <1>1, KeeperMoves DEF Settle, Moves, Idle, At, NoPlan, world, Activating
  <1>4. PlanOK' /\ StopOK' /\ ReplaceOK'
    <2>1. CASE at'["keeper"] = Idle /\ plan' = NoPlan
      BY <2>1
         DEF IInv, Settle, Idle, At, NoPlan, PlanOK, StopOK, ReplaceOK, Activating, Spent,
             Silent, IsEmpty, Owned, Made, registry, world, Incs, Keeper
    <2>2. CASE Moves("keeper", "succeed") /\ plan' = plan /\ plan.goal # "none"
      BY <2>2
         DEF IInv, Settle, Moves, PlanOK, StopOK, ReplaceOK, Activating, Spent, Silent,
             IsEmpty, Owned, Made, registry, world, Incs, Keeper
    <2>3. CASE Moves("keeper", "block") /\ plan' = plan /\ plan.goal # "none"
      BY <2>3
         DEF IInv, Settle, Moves, PlanOK, StopOK, ReplaceOK, Activating, Spent, Silent,
             IsEmpty, Owned, Made, registry, world, Incs, Keeper
    <2> QED  BY <1>1, <2>1, <2>2, <2>3
  <1>5. InputOK'
    BY <1>1, Typed DEF IInv, Settle, Moves, Idle, At, world, Keeper, InputOK
  <1>6. RecoveryHasAnOwner'
    BY <1>1 DEF IInv, Settle, registry, RecoveryHasAnOwner
  <1> QED  BY <1>2, <1>3, <1>4, <1>5, <1>6 DEF IInv

LEMMA ScanTimesOutStep == ASSUME IInv, ScanTimesOut PROVE IInv'
  <1>1. OnlyTask("keeper") /\ at'["keeper"] = Idle /\ plan' = NoPlan
    BY ToMoves, DropMoves DEF IInv, ScanTimesOut, Pcs, Keeper
  <1>2. TypeOK'
    BY <1>1 DEF IInv, ScanTimesOut, NoPlan, registry, world, TypeOK, OnlyTask, TaskType
  <1>3. Contiguous' /\ Rows' /\ Lines' /\ OldRowsSpent' /\ Halted' /\ Grants'
    BY <1>1, KeeperMoves DEF ScanTimesOut, Idle, At, NoPlan, registry, world, Activating
  <1>4. PlanOK' /\ StopOK' /\ ReplaceOK'
    BY <1>1, Typed DEF Idle, At, NoPlan, Keeper, PlanOK, StopOK, ReplaceOK, Activating
  <1>5. InputOK'
    BY <1>1, Typed DEF IInv, ScanTimesOut, Idle, At, registry, world, Keeper, InputOK
  <1>6. RecoveryHasAnOwner'
    BY <1>1 DEF IInv, ScanTimesOut, registry, RecoveryHasAnOwner
  <1> QED  BY <1>2, <1>3, <1>4, <1>5, <1>6 DEF IInv

LEMMA RestartStep == ASSUME IInv, Restart PROVE IInv'
  <1>1. \/ Moves("keeper", "retire")
        \/ OnlyTask("keeper") /\ at' = at
    <2>1. CASE Wanted /\ Made # {}
      BY <2>1, ToMoves DEF IInv, Restart, Pcs
    <2>2. CASE at' = at
      BY <2>2, Typed DEF IInv, OnlyTask
    <2> QED  BY <2>1, <2>2 DEF Restart
  <1>2. TypeOK'
    BY <1>1 DEF IInv, Restart, Moves, registry, world, TypeOK, OnlyTask, TaskType
  <1>3. Contiguous' /\ Rows' /\ Lines' /\ OldRowsSpent' /\ Halted' /\ Grants'
    BY <1>1, KeeperMoves
       DEF IInv, Restart, Moves, registry, world, Activating, PlanOK, Keeper
  <1>4. PlanOK' /\ StopOK' /\ ReplaceOK'
    BY <1>1, Typed
       DEF IInv, Restart, Moves, Keeper, KeeperFree, PlanOK, StopOK, ReplaceOK, Activating
  <1>5. InputOK'
    BY <1>1, Typed DEF IInv, Restart, Moves, registry, world, Keeper, InputOK
  <1>6. RecoveryHasAnOwner'
    BY <1>1 DEF IInv, Restart, registry, RecoveryHasAnOwner
  <1> QED  BY <1>2, <1>3, <1>4, <1>5, <1>6 DEF IInv

LEMMA ServeStep == ASSUME IInv, Serve PROVE IInv'
  <1>1. OnlyTask("keeper") /\ at' = at
    BY Typed DEF IInv, Serve, OnlyTask
  <1>2. TypeOK'
    BY <1>1 DEF IInv, Serve, Moves, registry, world, TypeOK, OnlyTask, TaskType
  <1>3. Contiguous' /\ Rows' /\ Lines' /\ OldRowsSpent' /\ Halted' /\ Grants'
    BY <1>1, KeeperMoves DEF Serve, registry, world, Activating, Keeper
  <1>4. PlanOK' /\ StopOK' /\ ReplaceOK'
    BY <1>1, Typed
       DEF IInv, Serve, Moves, Keeper, KeeperFree, PlanOK, StopOK, ReplaceOK, Activating
  <1>5. InputOK'
    BY <1>1, Typed DEF IInv, Serve, Moves, registry, world, Keeper, InputOK
  <1>6. RecoveryHasAnOwner'
    BY <1>1 DEF IInv, Serve, registry, RecoveryHasAnOwner
  <1> QED  BY <1>2, <1>3, <1>4, <1>5, <1>6 DEF IInv
-----------------------------------------------------------------------------
(* A step that touches one row and its box.                                *)

Granted == {"starting", "running", "stopping", "stopped"}

\* The row is not made, unmade or handed on, and its grant is kept.
Advances(i) ==
  /\ OnlyRow(i) /\ OnlyBox(i)
  /\ rows[i].state # "none" /\ rows'[i].state # "none"
  /\ rows'[i].prior = rows[i].prior /\ rows'[i].resume = rows[i].resume
  /\ boxes'[i].boot >= boxes[i].boot
  /\ rows[i].state \in Granted =>
       rows'[i].state \in Granted /\ rows'[i].boot = rows[i].boot

\* The claim is kept, taken by the row, or given back by a row spent.
ClaimOf(i) ==
  \/ claim' = claim
  \/ claim \in {0, i} /\ claim' = i
  \/ claim = i /\ Spent(i)'

LEMMA RowMoves ==
  ASSUME IInv, NEW i \in Incs, Advances(i), ClaimOf(i),
         RowOK(i)', Spent(i) => Spent(i)',
         \/ rows[i].empty => rows'[i].empty
         \/ \A k \in Incs : rows[k].prior = i => Spent(k)
  PROVE  /\ (plan'.goal = "replace" => plan.goal = "replace") => Contiguous'
         /\ Rows' /\ Lines' /\ OldRowsSpent'
         /\ \A k \in Incs : Spent(k) => Spent(k)'
  <1>1. \A k \in Incs : k # i => (Spent(k)' <=> Spent(k))
    BY DEF Advances, OnlyRow, OnlyBox, Spent, Silent, IsEmpty
  <1>2. \A k \in Incs : (rows'[k].state = "none") <=> (rows[k].state = "none")
    BY DEF Advances, OnlyRow
  <1>3. ASSUME plan'.goal = "replace" => plan.goal = "replace"
        PROVE Contiguous'
    BY <1>2, <1>3 DEF IInv, Contiguous
  <1>4. Rows'
    <2> SUFFICES ASSUME NEW k \in Incs, k # i PROVE RowOK(k)'
      BY DEF Rows
    <2> QED  BY DEF IInv, Rows, RowOK, Advances, OnlyRow, OnlyBox, Silent, IsEmpty
  <1>5. OldRowsSpent'
    BY <1>1, <1>2 DEF IInv, OldRowsSpent
  <1>6. Lines'
    <2> SUFFICES ASSUME NEW k \in Incs PROVE LineOK(k)'
      BY DEF Lines
    <2>1. /\ rows'[k].prior = rows[k].prior /\ rows'[k].resume = rows[k].resume
          /\ Spent(k) => Spent(k)'
      BY <1>1 DEF Advances, OnlyRow
    <2>2. rows'[k].prior < k
      BY <2>1 DEF IInv, Lines, LineOK
    <2>3. ASSUME rows'[k].prior # 0, ~Spent(k)' PROVE rows'[rows'[k].prior].empty
      <3>1. rows[k].prior \in Incs /\ rows[rows[k].prior].empty
        BY <2>1, <2>3, Typed DEF IInv, Lines, LineOK, Incs, RowType
      <3>2. CASE rows[k].prior = i
        BY <2>1, <2>3, <3>1, <3>2
      <3>3. CASE rows[k].prior # i
        BY <2>1, <3>1, <3>3 DEF Advances, OnlyRow
      <3> QED  BY <3>2, <3>3
    <2>4. ASSUME rows'[k].resume, ~Spent(k)' PROVE claim' = k
      <3>1. claim = k
        BY <2>1, <2>4 DEF IInv, Lines, LineOK
      <3> QED  BY <2>4, <3>1 DEF ClaimOf, Incs
    <2> QED  BY <2>2, <2>3, <2>4 DEF LineOK
  <1> QED  BY <1>1, <1>3, <1>4, <1>5, <1>6

LEMMA TaskKept ==
  ASSUME IInv, NEW i \in Incs, Advances(i), NEW u \in Tasks, at'[u] = at[u]
  PROVE  TaskOK(u)'
  <1>1. TaskOK(u)
    BY DEF IInv, Grants
  <1>2. CASE at[u].pc \notin Activating
    BY <1>1, <1>2, Typed DEF IInv, TaskOK, Activating
  <1>3. CASE at[u].pc \in Activating /\ at[u].inc # i
    BY <1>1, <1>3 DEF TaskOK, Advances, OnlyRow, OnlyBox
  <1>4. CASE at[u].pc \in Activating /\ at[u].inc = i
    <2>1. boxes'[i].boot \in Nat /\ boxes[i].boot \in Nat /\ at[u].boot \in Nat
      BY Typed DEF IInv, Advances, OnlyBox, BoxType, TaskType
    <2> QED  BY <1>1, <1>4, <2>1 DEF TaskOK, Advances, Granted
  <1> QED  BY <1>2, <1>3, <1>4

\* The keeper's own part, when another task moves a row that nothing
\* replaces and that is not being stopped.
LEMMA KeeperKept ==
  ASSUME IInv, at'["keeper"] = at["keeper"], UNCHANGED <<plan, up>>,
         soul'.desired = soul.desired,
         \A k \in Incs :
           /\ rows'[k].prior = rows[k].prior
           /\ rows[k].owned => rows'[k].owned
           /\ rows[k].state # "none" => rows'[k].state # "none"
           /\ \/ rows[k].prior # 0
              \/ rows[k].state \in {"stopping", "stopped", "failed"}
              => rows'[k] = rows[k]
           /\ rows'[k] = rows[k] /\ Silent(k) => Silent(k)'
  PROVE  PlanOK' /\ StopOK' /\ ReplaceOK'
  <1>1. \A k \in Incs : Spent(k) => Spent(k)'
    BY DEF Spent
  <1>2. PlanOK'
    BY DEF IInv, PlanOK, Keeper, Wanted, Owned, Made
  <1>3. StopOK'
    <2>1. ASSUME Keeper.pc \in {"stop", "mark"}
          PROVE  /\ plan.target \in Incs /\ rows'[plan.target] = rows[plan.target]
                 /\ \A k \in Incs : rows'[k].prior = plan.target => Spent(k)'
      BY <1>1, <2>1 DEF IInv, StopOK
    <2>2. ASSUME Keeper.pc \in {"probe", "begin"}
          PROVE \A k \in Incs : rows'[k].state = "prepared" => rows'[k].prior = 0
      BY <2>2 DEF IInv, StopOK
    <2> QED  BY <2>1, <2>2 DEF IInv, StopOK, Keeper
  <1>4. ReplaceOK'
    BY DEF IInv, ReplaceOK, Keeper, Activating
  <1> QED  BY <1>2, <1>3, <1>4

\* And the keeper's own step in an activation.
LEMMA KeeperActivates ==
  ASSUME IInv, Keeper.pc \in Activating,
         at'["keeper"].pc \in Activating \cup {"confirm"},
         at'["keeper"].inc = Keeper.inc, UNCHANGED <<plan, up>>,
         rows'[Keeper.inc].prior = rows[Keeper.inc].prior,
         rows'[Keeper.inc].state \in {"prepared", "created", "starting", "running"},
         at'["keeper"].pc \in {"ran", "confirm"} =>
           rows'[Keeper.inc].state = "running"
  PROVE  PlanOK' /\ StopOK' /\ ReplaceOK'
  BY Typed DEF IInv, PlanOK, StopOK, ReplaceOK, Keeper, Activating

LEMMA InputKept ==
  ASSUME IInv, UNCHANGED <<input, sent, plan>>,
         \/ at'["keeper"] = at["keeper"]
         \/ at'["keeper"].pc \in Activating \cup {"confirm"}
  PROVE  InputOK'
  BY DEF IInv, InputOK, Keeper, Activating

LEMMA Unmoved ==
  ASSUME TypeOK, NEW i
  PROVE  /\ rows' = rows => OnlyRow(i)
         /\ boxes' = boxes => OnlyBox(i)
  BY Typed DEF OnlyRow, OnlyBox

LEMMA Registers ==
  ASSUME rows \in [Incs -> RowType], NEW t, NEW i \in Incs, i = at[t].inc, Register(t)
  PROVE  /\ OnlyRow(i)
         /\ rows'[i].prior = rows[i].prior /\ rows'[i].resume = rows[i].resume
         /\ rows'[i].state = "created" /\ rows'[i].owned
         /\ rows'[i].empty = rows[i].empty /\ rows'[i].boot = rows[i].boot
  <1>1. rows' = [rows EXCEPT ![i].state = "created", ![i].owned = TRUE]
    BY DEF Register
  <1> QED  BY <1>1 DEF OnlyRow, RowType, ActiveStates

LEMMA Commits ==
  ASSUME rows \in [Incs -> RowType], NEW t, NEW i \in Incs, i = at[t].inc,
         at[t].boot \in 0..MaxBoots, CommitGrant(t)
  PROVE  /\ OnlyRow(i)
         /\ rows'[i].prior = rows[i].prior /\ rows'[i].resume = rows[i].resume
         /\ rows'[i].state = "starting" /\ rows'[i].boot = at[t].boot
         /\ rows'[i].owned = rows[i].owned /\ rows'[i].empty = rows[i].empty
  <1>1. CASE rows[i].state = "starting" /\ rows[i].boot = at[t].boot /\ rows' = rows
    BY <1>1 DEF OnlyRow
  <1>2. CASE rows' = [rows EXCEPT ![i].state = "starting", ![i].boot = at[t].boot]
    <2> DEFINE row == [rows[i] EXCEPT !.state = "starting", !.boot = at[t].boot]
    <2>1. /\ row \in RowType
          /\ row.prior = rows[i].prior /\ row.resume = rows[i].resume
          /\ row.state = "starting" /\ row.boot = at[t].boot
          /\ row.owned = rows[i].owned /\ row.empty = rows[i].empty
      BY DEF RowType, ActiveStates
    <2>2. rows' = [rows EXCEPT ![i] = row]
      BY <1>2
    <2> HIDE DEF row
    <2> QED  BY <2>1, <2>2 DEF OnlyRow
  <1> QED  BY <1>1, <1>2 DEF CommitGrant

\* The types of a step that keeps the soul, the input and the supervisor.
LEMMA TypesKept ==
  ASSUME TypeOK, rows' \in [Incs -> RowType], boxes' \in [Incs -> BoxType],
         at' \in [Tasks -> TaskType], claim' \in Incs \cup {0, claim},
         UNCHANGED <<soul, input, sent, plan, up, crashes, interrupted>>
  PROVE  TypeOK'
  <1>1. claim' \in 0..MaxIncs
    BY DEF TypeOK, Incs
  <1> QED  BY <1>1 DEF TypeOK, RowType, BoxType, TaskType

LEMMA BootOf ==
  ASSUME NEW box \in BoxType, box.boot < MaxBoots
  PROVE  /\ Boot(box) \in BoxType
         /\ Boot(box).state = "running" /\ Boot(box).boot = box.boot + 1
         /\ ~Boot(box).granted /\ Boot(box).worker = "none"
  BY DEF Boot, BoxType

LEMMA OffOf ==
  ASSUME NEW box \in BoxType
  PROVE  /\ Off(box) \in BoxType /\ Off(box).boot = box.boot
         /\ \/ box.state = "created" /\ Off(box) = box
            \/ /\ Off(box).state = "exited"
               /\ ~Off(box).granted /\ Off(box).worker = "none"
  BY DEF Off, BoxType

LEMMA Sends ==
  ASSUME boxes \in [Incs -> BoxType], NEW t, NEW i \in Incs, i = at[t].inc, SendGrant(t)
  PROVE  /\ OnlyBox(i)
         /\ \/ boxes' = boxes
            \/ /\ boxes'[i].state = boxes[i].state /\ boxes'[i].boot = boxes[i].boot
               /\ boxes'[i].granted /\ boxes'[i].worker = "running"
  <1>1. CASE boxes' = boxes
    BY <1>1 DEF OnlyBox
  <1>2. CASE boxes' = [boxes EXCEPT ![i].granted = TRUE, ![i].worker = "running"]
    <2>1. \A k \in Incs : k # i => boxes'[k] = boxes[k]
      BY <1>2
    <2>2. /\ boxes'[i].state = boxes[i].state /\ boxes'[i].boot = boxes[i].boot
          /\ boxes'[i].granted /\ boxes'[i].worker = "running"
          /\ boxes'[i].longLived = boxes[i].longLived
      BY <1>2 DEF BoxType
    <2>3. boxes[i] \in BoxType
      OBVIOUS
    <2>4. boxes'[i] \in BoxType
      <3> DEFINE g == [boxes[i] EXCEPT !.granted = TRUE]
      <3>1. g \in BoxType
        BY <2>3 DEF BoxType
      <3>2. [g EXCEPT !.worker = "running"] \in BoxType
        BY <3>1 DEF BoxType
      <3>3. boxes'[i] = [g EXCEPT !.worker = "running"]
        BY <1>2
      <3> QED  BY <3>2, <3>3
    <2>5. boxes' \in [Incs -> BoxType]
      BY <1>2, <2>4
    <2> QED  BY <2>1, <2>2, <2>5 DEF OnlyBox
  <1> QED  BY <1>1, <1>2 DEF SendGrant

LEMMA Learns ==
  ASSUME TypeOK, NEW i \in Incs,
         Learn(i) \/ UNCHANGED <<soul, claim>>
  PROVE  /\ soul' \in SoulType /\ soul'.desired = soul.desired
         /\ soul'.recovery = soul.recovery
         /\ ClaimOf(i) /\ claim' \in Incs \cup {0, claim}
  BY DEF TypeOK, SoulType, Learn, ClaimOf

\* Where only tasks and the claim move.
LEMMA Still ==
  ASSUME IInv, UNCHANGED <<rows, boxes>>, NEW i \in Incs, rows[i].state # "none"
  PROVE  /\ Advances(i) /\ RowOK(i)' /\ \A k \in Incs : Silent(k) => Silent(k)'
         /\ Spent(i) => Spent(i)'
  <1>1. OnlyRow(i) /\ OnlyBox(i)
    BY Unmoved DEF IInv
  <1>2. boxes'[i].boot >= boxes[i].boot
    BY Typed DEF IInv, BoxType
  <1>3. RowOK(i)'
    BY DEF IInv, Rows, RowOK, Silent, IsEmpty
  <1> QED  BY <1>1, <1>2, <1>3 DEF Advances, Silent, Spent, IsEmpty

LEMMA PlanFor ==
  ASSUME NEW p \in PlanType, NEW i \in Incs,
         NEW g \in {"stop", "replace", "cleanup"}
  PROVE  [p EXCEPT !.goal = g, !.target = i] \in PlanType
  <1> DEFINE q == [p EXCEPT !.goal = g]
  <1>1. q \in PlanType
    BY DEF PlanType
  <1> HIDE DEF q
  <1>2. [q EXCEPT !.target = i] \in PlanType
    BY <1>1 DEF PlanType, Incs
  <1> QED  BY <1>2 DEF q

\* A step of the world outside, on one box.
LEMMA BoxStep ==
  ASSUME IInv, NEW i \in Incs, rows[i].owned, OnlyBox(i),
         UNCHANGED <<registry, sent, at, plan, up, crashes, interrupted>>,
         RowOK(i)', boxes'[i].boot >= boxes[i].boot, Silent(i) => Silent(i)'
  PROVE  IInv'
  <1>1. UNCHANGED <<rows, claim, soul, input>>
    BY DEF registry
  <1>2. rows[i].state # "none"
    BY DEF IInv, Rows, RowOK
  <1>3. Advances(i) /\ ClaimOf(i) /\ (Spent(i) => Spent(i)')
    BY <1>1, <1>2, Unmoved DEF IInv, Advances, ClaimOf, Spent
  <1>4. Contiguous' /\ Rows' /\ Lines' /\ OldRowsSpent'
    BY <1>1, <1>3, RowMoves
  <1>5. Halted'
    BY <1>1 DEF IInv, Halted, Wanted
  <1>6. Grants'
    BY <1>3, TaskKept DEF Grants
  <1>7. \A k \in Incs : Silent(k) => Silent(k)'
    BY <1>1 DEF OnlyBox, Silent, IsEmpty
  <1>8. PlanOK' /\ StopOK' /\ ReplaceOK' /\ InputOK'
    BY <1>1, <1>7, KeeperKept, InputKept
  <1>9. TypeOK' /\ RecoveryHasAnOwner'
    BY <1>1, <1>3, Typed, TypesKept DEF IInv, RecoveryHasAnOwner, Advances, OnlyRow, OnlyBox
  <1> QED  BY <1>4, <1>5, <1>6, <1>8, <1>9 DEF IInv

LEMMA ActiveFirstIs ==
  ASSUME NEW S \in SUBSET Incs, S # {}
  PROVE  /\ ActiveFirst(S) \in S
         /\ \A k \in S : Active(k) => Active(ActiveFirst(S)) /\ k <= ActiveFirst(S)
  <1> DEFINE A == {i \in S : Active(i)}
  <1>1. CASE A # {}
    <2>1. ActiveFirst(S) = Newest(A)
      BY <1>1 DEF ActiveFirst
    <2> QED  BY <1>1, <2>1, NewestIsMax
  <1>2. CASE A = {}
    <2>1. ActiveFirst(S) = Newest(S)
      BY <1>2 DEF ActiveFirst
    <2> QED  BY <1>2, <2>1, NewestIsMax
  <1> QED  BY <1>1, <1>2

LEMMA RegisterStep == ASSUME IInv, NEW t \in Tasks, Register(t) PROVE IInv'
  <1>1. PICK i \in Incs :
        /\ i = at[t].inc /\ TaskOK(t) /\ at[t].pc \in Activating
        /\ rows[i] \in RowType /\ boxes[i] \in BoxType /\ at[t] \in TaskType
        /\ RowOK(i)
        /\ rows[i].state = "prepared" /\ Wanted
    BY Typed DEF IInv, Grants, Rows, TaskOK, Register, Activating
  <1>2. Moves(t, "created")
    BY StepMoves DEF IInv, Register, Pcs, Activating
  <1>3. /\ OnlyRow(i)
        /\ rows'[i].prior = rows[i].prior /\ rows'[i].resume = rows[i].resume
        /\ rows'[i].state = "created" /\ rows'[i].owned
        /\ rows'[i].empty = rows[i].empty /\ rows'[i].boot = rows[i].boot
    BY <1>1, Registers, Typed DEF IInv
  <1>4. /\ OnlyBox(i)
        /\ boxes'[i].state = "created"
        /\ boxes'[i].boot = boxes[i].boot /\ boxes'[i].granted = boxes[i].granted
        /\ boxes'[i].worker = boxes[i].worker
    BY <1>1, Typed DEF IInv, Register, OnlyBox, BoxType
  <1>5. Advances(i) /\ ClaimOf(i) /\ ~Spent(i) /\ ~rows[i].empty
    BY <1>1, <1>3, <1>4 DEF Register, Advances, ClaimOf, Granted, Spent, RowOK, BoxType
  <1>6. RowOK(i)'
    BY <1>1, <1>3, <1>4 DEF RowOK, TaskOK, BoxType, Silent, IsEmpty, Activating
  <1>7. Contiguous' /\ Rows' /\ Lines' /\ OldRowsSpent'
    BY <1>1, <1>5, <1>6, RowMoves DEF Register
  <1>8. Halted'
    BY <1>1, <1>3 DEF IInv, Register, Halted, Wanted, OnlyRow
  <1>9. Grants'
    <2> SUFFICES ASSUME NEW u \in Tasks PROVE TaskOK(u)'
      BY DEF Grants
    <2>1. CASE u = t
      BY <1>1, <1>2, <1>3, <1>4, <2>1 DEF TaskOK, Moves, Activating
    <2>2. CASE u # t
      BY <1>1, <1>2, <1>5, <2>2, TaskKept DEF Moves, OnlyTask
    <2> QED  BY <2>1, <2>2
  <1>10. PlanOK' /\ StopOK' /\ ReplaceOK' /\ InputOK'
    <2>1. CASE t = "keeper"
      <3>1. rows[i].state \in {"prepared", "created", "starting", "running"}
        BY <1>1
      <3> QED  BY <1>1, <1>2, <1>3, <2>1, KeeperActivates, InputKept
                  DEF Register, Moves, Keeper, Activating, world
    <2>2. CASE t # "keeper"
      <3>1. rows[i].prior = 0
        BY <1>1, <2>2 DEF TaskOK, Tasks
      <3>2. at'["keeper"] = at["keeper"]
        BY <1>2, <2>2, Typed DEF IInv, Moves, OnlyTask
      <3>3. \A k \in Incs :
              /\ rows'[k].prior = rows[k].prior
              /\ rows[k].owned => rows'[k].owned
              /\ rows[k].state # "none" => rows'[k].state # "none"
              /\ \/ rows[k].prior # 0
                 \/ rows[k].state \in {"stopping", "stopped", "failed"}
                 => rows'[k] = rows[k]
              /\ rows'[k] = rows[k] /\ Silent(k) => Silent(k)'
        BY <1>1, <1>3, <1>4, <3>1 DEF OnlyRow, OnlyBox, Silent, IsEmpty
      <3> QED  BY <3>2, <3>3, KeeperKept, InputKept DEF Register, world
    <2> QED  BY <2>1, <2>2
  <1>11. TypeOK' /\ RecoveryHasAnOwner'
    BY <1>2, <1>3, <1>4, TypesKept DEF IInv, Register, RecoveryHasAnOwner,
       Moves, OnlyTask, OnlyRow, OnlyBox, world
  <1> QED  BY <1>6, <1>7, <1>8, <1>9, <1>10, <1>11 DEF IInv

LEMMA CommitGrantStep == ASSUME IInv, NEW t \in Tasks, CommitGrant(t) PROVE IInv'
  <1>1. PICK i \in Incs :
        /\ i = at[t].inc /\ TaskOK(t) /\ at[t].pc \in Activating
        /\ rows[i] \in RowType /\ boxes[i] \in BoxType /\ at[t] \in TaskType
        /\ RowOK(i)
        /\ \/ rows[i].state = "starting" /\ rows[i].boot = at[t].boot
           \/ rows[i].state = "created" /\ Wanted
    BY Typed DEF IInv, Grants, Rows, TaskOK, CommitGrant, Activating
  <1>2. Moves(t, "granted")
    BY StepMoves DEF IInv, CommitGrant, Pcs, Activating
  <1>3. /\ OnlyRow(i)
        /\ rows'[i].prior = rows[i].prior /\ rows'[i].resume = rows[i].resume
        /\ rows'[i].state = "starting" /\ rows'[i].boot = at[t].boot
        /\ rows'[i].owned = rows[i].owned /\ rows'[i].empty = rows[i].empty
    BY <1>1, Commits, Typed DEF IInv, TaskType
  <1>4. /\ boxes' = boxes /\ OnlyBox(i)
    BY Unmoved DEF IInv, CommitGrant, world
  <1>5. Advances(i) /\ ClaimOf(i) /\ ~Spent(i) /\ ~rows[i].empty
    BY <1>1, <1>3, <1>4 DEF CommitGrant, Advances, ClaimOf, Granted, Spent, RowOK, BoxType
  <1>6. RowOK(i)'
    BY <1>1, <1>3, <1>4 DEF RowOK, TaskOK, BoxType, Silent, IsEmpty, Activating
  <1>7. Contiguous' /\ Rows' /\ Lines' /\ OldRowsSpent'
    BY <1>1, <1>5, <1>6, RowMoves DEF CommitGrant
  <1>8. Halted'
    BY <1>1, <1>3 DEF IInv, CommitGrant, Halted, Wanted, OnlyRow
  <1>9. Grants'
    <2> SUFFICES ASSUME NEW u \in Tasks PROVE TaskOK(u)'
      BY DEF Grants
    <2>1. CASE u = t
      BY <1>1, <1>2, <1>3, <1>4, <2>1 DEF TaskOK, Moves, Activating
    <2>2. CASE u # t
      BY <1>1, <1>2, <1>5, <2>2, TaskKept DEF Moves, OnlyTask
    <2> QED  BY <2>1, <2>2
  <1>10. PlanOK' /\ StopOK' /\ ReplaceOK' /\ InputOK'
    <2>1. CASE t = "keeper"
      <3>1. rows[i].state \in {"prepared", "created", "starting", "running"}
        BY <1>1
      <3> QED  BY <1>1, <1>2, <1>3, <2>1, KeeperActivates, InputKept
                  DEF CommitGrant, Moves, Keeper, Activating, world
    <2>2. CASE t # "keeper"
      <3>1. rows[i].prior = 0
        BY <1>1, <2>2 DEF TaskOK, Tasks
      <3>2. at'["keeper"] = at["keeper"]
        BY <1>2, <2>2, Typed DEF IInv, Moves, OnlyTask
      <3>3. \A k \in Incs :
              /\ rows'[k].prior = rows[k].prior
              /\ rows[k].owned => rows'[k].owned
              /\ rows[k].state # "none" => rows'[k].state # "none"
              /\ \/ rows[k].prior # 0
                 \/ rows[k].state \in {"stopping", "stopped", "failed"}
                 => rows'[k] = rows[k]
              /\ rows'[k] = rows[k] /\ Silent(k) => Silent(k)'
        BY <1>1, <1>3, <1>4, <3>1 DEF OnlyRow, OnlyBox, Silent, IsEmpty
      <3> QED  BY <3>2, <3>3, KeeperKept, InputKept DEF CommitGrant, world
    <2> QED  BY <2>1, <2>2
  <1>11. TypeOK' /\ RecoveryHasAnOwner'
    BY <1>2, <1>3, <1>4, TypesKept DEF IInv, CommitGrant, RecoveryHasAnOwner,
       Moves, OnlyTask, OnlyRow, OnlyBox, world
  <1> QED  BY <1>6, <1>7, <1>8, <1>9, <1>10, <1>11 DEF IInv

LEMMA MarkRunningStep == ASSUME IInv, NEW t \in Tasks, MarkRunning(t) PROVE IInv'
  <1>1. PICK i \in Incs :
        /\ i = at[t].inc /\ TaskOK(t) /\ at[t].pc \in Activating
        /\ rows[i] \in RowType /\ boxes[i] \in BoxType /\ at[t] \in TaskType
        /\ RowOK(i)
        /\ rows[i].state = "starting" /\ Wanted
    BY Typed DEF IInv, Grants, Rows, TaskOK, MarkRunning, Activating
  <1>2. Moves(t, "ran")
    BY StepMoves DEF IInv, MarkRunning, Pcs, Activating
  <1>3. /\ OnlyRow(i)
        /\ rows'[i].prior = rows[i].prior /\ rows'[i].resume = rows[i].resume
        /\ rows'[i].state = "running" /\ rows'[i].boot = rows[i].boot
        /\ rows'[i].owned = rows[i].owned /\ rows'[i].empty = rows[i].empty
    BY <1>1, Typed DEF IInv, MarkRunning, OnlyRow, RowType, ActiveStates, TaskType
  <1>4. /\ boxes' = boxes /\ OnlyBox(i)
    BY Unmoved DEF IInv, MarkRunning, world
  <1>5. Advances(i) /\ ClaimOf(i) /\ ~Spent(i) /\ ~rows[i].empty
    BY <1>1, <1>3, <1>4 DEF MarkRunning, Advances, ClaimOf, Granted, Spent, RowOK, BoxType
  <1>6. RowOK(i)'
    BY <1>1, <1>3, <1>4 DEF RowOK, TaskOK, BoxType, Silent, IsEmpty, Activating
  <1>7. Contiguous' /\ Rows' /\ Lines' /\ OldRowsSpent'
    BY <1>1, <1>5, <1>6, RowMoves DEF MarkRunning
  <1>8. Halted'
    BY <1>1, <1>3 DEF IInv, MarkRunning, Halted, Wanted, OnlyRow
  <1>9. Grants'
    <2> SUFFICES ASSUME NEW u \in Tasks PROVE TaskOK(u)'
      BY DEF Grants
    <2>1. CASE u = t
      BY <1>1, <1>2, <1>3, <1>4, <2>1 DEF TaskOK, Moves, Activating
    <2>2. CASE u # t
      BY <1>1, <1>2, <1>5, <2>2, TaskKept DEF Moves, OnlyTask
    <2> QED  BY <2>1, <2>2
  <1>10. PlanOK' /\ StopOK' /\ ReplaceOK' /\ InputOK'
    <2>1. CASE t = "keeper"
      <3>1. rows[i].state \in {"prepared", "created", "starting", "running"}
        BY <1>1
      <3> QED  BY <1>1, <1>2, <1>3, <2>1, KeeperActivates, InputKept
                  DEF MarkRunning, Moves, Keeper, Activating, world
    <2>2. CASE t # "keeper"
      <3>1. rows[i].prior = 0
        BY <1>1, <2>2 DEF TaskOK, Tasks
      <3>2. at'["keeper"] = at["keeper"]
        BY <1>2, <2>2, Typed DEF IInv, Moves, OnlyTask
      <3>3. \A k \in Incs :
              /\ rows'[k].prior = rows[k].prior
              /\ rows[k].owned => rows'[k].owned
              /\ rows[k].state # "none" => rows'[k].state # "none"
              /\ \/ rows[k].prior # 0
                 \/ rows[k].state \in {"stopping", "stopped", "failed"}
                 => rows'[k] = rows[k]
              /\ rows'[k] = rows[k] /\ Silent(k) => Silent(k)'
        BY <1>1, <1>3, <1>4, <3>1 DEF OnlyRow, OnlyBox, Silent, IsEmpty
      <3> QED  BY <3>2, <3>3, KeeperKept, InputKept DEF MarkRunning, world
    <2> QED  BY <2>1, <2>2
  <1>11. TypeOK' /\ RecoveryHasAnOwner'
    BY <1>2, <1>3, <1>4, TypesKept DEF IInv, MarkRunning, RecoveryHasAnOwner,
       Moves, OnlyTask, OnlyRow, OnlyBox, world
  <1> QED  BY <1>6, <1>7, <1>8, <1>9, <1>10, <1>11 DEF IInv
LEMMA StartHostStep == ASSUME IInv, NEW t \in Tasks, StartHost(t) PROVE IInv'
  <1>1. PICK i \in Incs :
        /\ i = at[t].inc /\ TaskOK(t) /\ at[t].pc \in Activating
        /\ rows[i] \in RowType /\ boxes[i] \in BoxType /\ at[t] \in TaskType
        /\ RowOK(i)
        /\ boxes[i].state \in {"created", "exited", "running"}
    BY Typed DEF IInv, Grants, Rows, TaskOK, StartHost, Activating
  <1>2. /\ OnlyTask(t) /\ at'[t].pc = "started" /\ at'[t].inc = i
        /\ at'[t].boot = at[t].boot
    BY <1>1, StepMoves DEF IInv, StartHost, Pcs, Activating, Moves
  <1>3. /\ rows' = rows /\ OnlyRow(i)
    BY Unmoved DEF IInv, StartHost, registry
  <1>4. /\ OnlyBox(i)
        /\ \/ boxes' = boxes
           \/ /\ boxes'[i].state = "running" /\ boxes'[i].boot = boxes[i].boot + 1
              /\ ~boxes'[i].granted /\ boxes'[i].worker = "none"
    <2>1. CASE boxes' = boxes
      BY <2>1, Unmoved DEF IInv
    <2>2. CASE boxes[i].boot < MaxBoots /\ boxes' = [boxes EXCEPT ![i] = Boot(@)]
      <3>1. /\ Boot(boxes[i]) \in BoxType
            /\ Boot(boxes[i]).state = "running" /\ Boot(boxes[i]).boot = boxes[i].boot + 1
            /\ ~Boot(boxes[i]).granted /\ Boot(boxes[i]).worker = "none"
        BY <1>1, <2>2, BootOf
      <3> QED  BY <2>2, <3>1, Typed DEF IInv, OnlyBox
    <2> QED  BY <1>1, <2>1, <2>2 DEF StartHost
  <1>5. boxes'[i].boot \in Nat /\ boxes[i].boot \in Nat /\ rows[i].boot \in Nat
    BY <1>1, <1>4 DEF OnlyBox, BoxType, RowType
  <1>6. Advances(i) /\ ClaimOf(i) /\ (Silent(i) => Silent(i)')
    BY <1>1, <1>3, <1>4, <1>5 DEF StartHost, registry, Advances, ClaimOf, RowOK, TaskOK,
       Activating, Silent, IsEmpty
  <1>7. RowOK(i)'
    BY <1>1, <1>3, <1>4, <1>5, <1>6
       DEF RowOK, TaskOK, BoxType, RowType, Activating, Silent, IsEmpty
  <1>8. Contiguous' /\ Rows' /\ Lines' /\ OldRowsSpent'
    BY <1>3, <1>6, <1>7, RowMoves DEF StartHost, Spent
  <1>9. Halted'
    BY <1>3 DEF IInv, StartHost, registry, Halted, Wanted
  <1>10. Grants'
    <2> SUFFICES ASSUME NEW u \in Tasks PROVE TaskOK(u)'
      BY DEF Grants
    <2>1. CASE u = t
      BY <1>1, <1>2, <1>3, <1>4, <2>1 DEF TaskOK, Activating, TaskType, BoxType
    <2>2. CASE u # t
      BY <1>1, <1>2, <1>6, <2>2, TaskKept DEF OnlyTask
    <2> QED  BY <2>1, <2>2
  <1>11. PlanOK' /\ StopOK' /\ ReplaceOK' /\ InputOK'
    <2>1. CASE t = "keeper"
      <3>1. rows[i].state \in {"prepared", "created", "starting", "running"}
        BY <1>1, <2>1 DEF IInv, ReplaceOK, Keeper
      <3> QED  BY <1>1, <1>2, <1>3, <2>1, <3>1, KeeperActivates, InputKept
                  DEF StartHost, Keeper, Activating, registry
    <2>2. CASE t # "keeper"
      <3>1. at'["keeper"] = at["keeper"]
        BY <1>2, <2>2, Typed DEF IInv, OnlyTask
      <3>2. \A k \in Incs : Silent(k) => Silent(k)'
        BY <1>3, <1>4, <1>6 DEF OnlyBox, Silent, IsEmpty
      <3> QED  BY <1>3, <3>1, <3>2, KeeperKept, InputKept DEF StartHost, registry
    <2> QED  BY <2>1, <2>2
  <1>12. TypeOK' /\ RecoveryHasAnOwner'
    BY <1>2, <1>3, <1>4, TypesKept DEF IInv, StartHost, RecoveryHasAnOwner,
       OnlyTask, OnlyRow, OnlyBox, registry
  <1> QED  BY <1>7, <1>8, <1>9, <1>10, <1>11, <1>12 DEF IInv

LEMMA EnableLongLivedStep == ASSUME IInv, NEW t \in Tasks, EnableLongLived(t) PROVE IInv'
  <1>1. PICK i \in Incs :
        /\ i = at[t].inc /\ TaskOK(t) /\ at[t].pc \in Activating
        /\ rows[i] \in RowType /\ boxes[i] \in BoxType /\ at[t] \in TaskType
        /\ RowOK(i)
        /\ at[t].pc = "granted"
    BY Typed DEF IInv, Grants, Rows, TaskOK, EnableLongLived, Activating
  <1>2. /\ OnlyTask(t) /\ at'[t].pc = "armed" /\ at'[t].inc = i
        /\ at'[t].boot = at[t].boot
    BY <1>1, StepMoves DEF IInv, EnableLongLived, Pcs, Activating, Moves
  <1>3. /\ rows' = rows /\ OnlyRow(i)
    BY Unmoved DEF IInv, EnableLongLived, registry
  <1>4. /\ OnlyBox(i)
        /\ boxes'[i].state = boxes[i].state /\ boxes'[i].boot = boxes[i].boot
        /\ boxes'[i].granted = boxes[i].granted /\ boxes'[i].worker = boxes[i].worker
    BY <1>1, Typed DEF IInv, EnableLongLived, OnlyBox, BoxType
  <1>5. boxes'[i].boot \in Nat /\ boxes[i].boot \in Nat /\ rows[i].boot \in Nat
    BY <1>1, <1>4 DEF OnlyBox, BoxType, RowType
  <1>6. Advances(i) /\ ClaimOf(i) /\ (Silent(i) => Silent(i)')
    BY <1>1, <1>3, <1>4, <1>5
       DEF EnableLongLived, registry, Advances, ClaimOf, RowOK, TaskOK,
       Activating, Silent, IsEmpty
  <1>7. RowOK(i)'
    BY <1>1, <1>3, <1>4, <1>5, <1>6
       DEF RowOK, TaskOK, BoxType, RowType, Activating, Silent, IsEmpty
  <1>8. Contiguous' /\ Rows' /\ Lines' /\ OldRowsSpent'
    BY <1>3, <1>6, <1>7, RowMoves DEF EnableLongLived, Spent
  <1>9. Halted'
    BY <1>3 DEF IInv, EnableLongLived, registry, Halted, Wanted
  <1>10. Grants'
    <2> SUFFICES ASSUME NEW u \in Tasks PROVE TaskOK(u)'
      BY DEF Grants
    <2>1. CASE u = t
      BY <1>1, <1>2, <1>3, <1>4, <2>1 DEF TaskOK, Activating, TaskType, BoxType
    <2>2. CASE u # t
      BY <1>1, <1>2, <1>6, <2>2, TaskKept DEF OnlyTask
    <2> QED  BY <2>1, <2>2
  <1>11. PlanOK' /\ StopOK' /\ ReplaceOK' /\ InputOK'
    <2>1. CASE t = "keeper"
      <3>1. rows[i].state \in {"prepared", "created", "starting", "running"}
        BY <1>1, <2>1 DEF IInv, ReplaceOK, Keeper
      <3> QED  BY <1>1, <1>2, <1>3, <2>1, <3>1, KeeperActivates, InputKept
                  DEF EnableLongLived, Keeper, Activating, registry
    <2>2. CASE t # "keeper"
      <3>1. at'["keeper"] = at["keeper"]
        BY <1>2, <2>2, Typed DEF IInv, OnlyTask
      <3>2. \A k \in Incs : Silent(k) => Silent(k)'
        BY <1>3, <1>4, <1>6 DEF OnlyBox, Silent, IsEmpty
      <3> QED  BY <1>3, <3>1, <3>2, KeeperKept, InputKept DEF EnableLongLived, registry
    <2> QED  BY <2>1, <2>2
  <1>12. TypeOK' /\ RecoveryHasAnOwner'
    BY <1>2, <1>3, <1>4, TypesKept DEF IInv, EnableLongLived, RecoveryHasAnOwner,
       OnlyTask, OnlyRow, OnlyBox, registry
  <1> QED  BY <1>7, <1>8, <1>9, <1>10, <1>11, <1>12 DEF IInv

LEMMA SendGrantStep == ASSUME IInv, NEW t \in Tasks, SendGrant(t) PROVE IInv'
  <1>1. PICK i \in Incs :
        /\ i = at[t].inc /\ TaskOK(t) /\ at[t].pc \in Activating
        /\ rows[i] \in RowType /\ boxes[i] \in BoxType /\ at[t] \in TaskType
        /\ RowOK(i)
        /\ at[t].pc = "armed" /\ boxes[i].state = "running"
        /\ boxes[i].boot = at[t].boot
    BY Typed DEF IInv, Grants, Rows, TaskOK, SendGrant, Activating
  <1>2. /\ OnlyTask(t) /\ at'[t].pc = "sent" /\ at'[t].inc = i
        /\ at'[t].boot = 0
    <2>1. at' = [at EXCEPT ![t] = At("sent", i)]
      BY <1>1 DEF SendGrant
    <2>2. At("sent", i) \in TaskType
      BY DEF At, TaskType, Pcs, Activating, Incs
    <2> QED  BY <2>1, <2>2, Typed DEF IInv, OnlyTask, At
  <1>3. /\ rows' = rows /\ OnlyRow(i)
    BY Unmoved DEF IInv, SendGrant, registry
  <1>4. /\ OnlyBox(i)
        /\ \/ boxes' = boxes
           \/ /\ boxes'[i].state = "running" /\ boxes'[i].boot = boxes[i].boot
              /\ boxes'[i].granted /\ boxes'[i].worker = "running"
    BY <1>1, Sends, Typed DEF IInv
  <1>5. boxes'[i].boot \in Nat /\ boxes[i].boot \in Nat /\ rows[i].boot \in Nat
    BY <1>1, <1>4 DEF OnlyBox, BoxType, RowType
  <1>6. Advances(i) /\ ClaimOf(i) /\ (Silent(i) => Silent(i)')
    BY <1>1, <1>3, <1>4, <1>5 DEF SendGrant, registry, Advances, ClaimOf, RowOK, TaskOK,
       Activating, Silent, IsEmpty
  <1>7. RowOK(i)'
    BY <1>1, <1>3, <1>4, <1>5, <1>6
       DEF RowOK, TaskOK, BoxType, RowType, Activating, Silent, IsEmpty
  <1>8. Contiguous' /\ Rows' /\ Lines' /\ OldRowsSpent'
    BY <1>3, <1>6, <1>7, RowMoves DEF SendGrant, Spent
  <1>9. Halted'
    BY <1>3 DEF IInv, SendGrant, registry, Halted, Wanted
  <1>10. Grants'
    <2> SUFFICES ASSUME NEW u \in Tasks PROVE TaskOK(u)'
      BY DEF Grants
    <2>1. CASE u = t
      BY <1>1, <1>2, <1>3, <1>4, <2>1 DEF TaskOK, Activating, TaskType, BoxType
    <2>2. CASE u # t
      BY <1>1, <1>2, <1>6, <2>2, TaskKept DEF OnlyTask
    <2> QED  BY <2>1, <2>2
  <1>11. PlanOK' /\ StopOK' /\ ReplaceOK' /\ InputOK'
    <2>1. CASE t = "keeper"
      <3>1. rows[i].state \in {"prepared", "created", "starting", "running"}
        BY <1>1, <2>1 DEF IInv, ReplaceOK, Keeper
      <3> QED  BY <1>1, <1>2, <1>3, <2>1, <3>1, KeeperActivates, InputKept
                  DEF SendGrant, Keeper, Activating, registry
    <2>2. CASE t # "keeper"
      <3>1. at'["keeper"] = at["keeper"]
        BY <1>2, <2>2, Typed DEF IInv, OnlyTask
      <3>2. \A k \in Incs : Silent(k) => Silent(k)'
        BY <1>3, <1>4, <1>6 DEF OnlyBox, Silent, IsEmpty
      <3> QED  BY <1>3, <3>1, <3>2, KeeperKept, InputKept DEF SendGrant, registry
    <2> QED  BY <2>1, <2>2
  <1>12. TypeOK' /\ RecoveryHasAnOwner'
    BY <1>2, <1>3, <1>4, TypesKept DEF IInv, SendGrant, RecoveryHasAnOwner,
       OnlyTask, OnlyRow, OnlyBox, registry
  <1> QED  BY <1>7, <1>8, <1>9, <1>10, <1>11, <1>12 DEF IInv
LEMMA AuthenticateStep == ASSUME IInv, NEW t \in Tasks, Authenticate(t) PROVE IInv'
  <1>1. PICK i \in Incs :
        /\ i = at[t].inc /\ TaskOK(t) /\ at[t].pc = "started" /\ rows[i].state # "none"
        /\ boxes[i] \in BoxType /\ boxes[i].state = "running"
    BY Typed DEF IInv, Grants, TaskOK, Authenticate, Activating
  <1>2. OnlyTask(t) /\ at'[t] = [pc |-> "met", inc |-> i, boot |-> boxes[i].boot]
    <2>1. [pc |-> "met", inc |-> i, boot |-> boxes[i].boot] \in TaskType
      BY <1>1 DEF TaskType, BoxType, Pcs, Activating, Incs
    <2> QED  BY <1>1, <2>1, Typed DEF IInv, OnlyTask, Authenticate
  <1>3. UNCHANGED <<rows, boxes, claim, soul, plan>>
    BY DEF Authenticate, registry, world
  <1>4. Advances(i) /\ ClaimOf(i) /\ RowOK(i)' /\ (Spent(i) => Spent(i)')
        /\ \A k \in Incs : Silent(k) => Silent(k)'
    BY <1>1, <1>3, Still DEF ClaimOf
  <1>5. Contiguous' /\ Rows' /\ Lines' /\ OldRowsSpent'
    BY <1>3, <1>4, RowMoves
  <1>6. Halted'
    BY <1>3 DEF IInv, Halted, Wanted
  <1>7. Grants'
    <2> SUFFICES ASSUME NEW u \in Tasks PROVE TaskOK(u)'
      BY DEF Grants
    <2>1. CASE u = t
      BY <1>1, <1>2, <1>3, <2>1 DEF TaskOK, Activating, BoxType
    <2>2. CASE u # t
      BY <1>2, <1>4, <2>2, TaskKept DEF OnlyTask
    <2> QED  BY <2>1, <2>2
  <1>8. PlanOK' /\ StopOK' /\ ReplaceOK' /\ InputOK'
    <2>1. CASE t = "keeper"
      <3>1. rows[i].state \in {"prepared", "created", "starting", "running"}
        BY <1>1, <2>1 DEF IInv, ReplaceOK, Keeper, Activating
      <3> QED  BY <1>1, <1>2, <1>3, <2>1, <3>1, KeeperActivates, InputKept
                  DEF Authenticate, Keeper, Activating, registry, world
    <2>2. CASE t # "keeper"
      <3>1. at'["keeper"] = at["keeper"]
        BY <1>2, <2>2, Typed DEF IInv, OnlyTask
      <3> QED  BY <1>3, <1>4, <3>1, KeeperKept, InputKept DEF Authenticate, registry, world
    <2> QED  BY <2>1, <2>2
  <1>9. TypeOK' /\ RecoveryHasAnOwner'
    BY <1>2, <1>3, <1>4, TypesKept DEF IInv, Authenticate, RecoveryHasAnOwner,
       OnlyTask, Advances, OnlyRow, OnlyBox, registry, world
  <1> QED  BY <1>4, <1>5, <1>6, <1>7, <1>8, <1>9 DEF IInv

LEMMA LaunchedStep == ASSUME IInv, NEW t \in Tasks, Launched(t) PROVE IInv'
  <1>1. PICK i \in Incs :
        i = at[t].inc /\ TaskOK(t) /\ at[t].pc = "ran" /\ rows[i].state # "none"
    BY DEF IInv, Grants, TaskOK, Launched, Activating
  <1>2. /\ OnlyTask(t)
        /\ IF t = "keeper" THEN Moves(t, "confirm") ELSE at'[t] = Idle
    <2>1. CASE t = "keeper"
      <3>1. [at[t] EXCEPT !.pc = "confirm"] \in TaskType
        BY Typed DEF IInv, TaskType, Pcs
      <3> QED  BY <2>1, <3>1, Typed DEF IInv, Launched, OnlyTask, Moves, TaskType
    <2>2. CASE t # "keeper"
      <3>1. Idle \in TaskType
        BY DEF Idle, At, TaskType, Pcs
      <3> QED  BY <2>2, <3>1, Typed DEF IInv, Launched, OnlyTask
    <2> QED  BY <2>1, <2>2
  <1>3. UNCHANGED <<rows, boxes, plan, up, input, sent, crashes, interrupted>>
    BY DEF Launched, world
  <1>4. /\ soul' \in SoulType /\ soul'.desired = soul.desired
        /\ soul'.recovery = soul.recovery
        /\ ClaimOf(i) /\ claim' \in Incs \cup {0, claim}
    BY <1>1, Learns DEF IInv, Launched
  <1>5. Advances(i) /\ RowOK(i)' /\ (Spent(i) => Spent(i)')
        /\ \A k \in Incs : Silent(k) => Silent(k)'
    BY <1>1, <1>3, Still
  <1>6. Contiguous' /\ Rows' /\ Lines' /\ OldRowsSpent'
    BY <1>3, <1>4, <1>5, RowMoves
  <1>7. Halted'
    BY <1>3, <1>4 DEF IInv, Halted, Wanted
  <1>8. Grants'
    <2> SUFFICES ASSUME NEW u \in Tasks PROVE TaskOK(u)'
      BY DEF Grants
    <2>1. CASE u = t
      BY <1>1, <1>2, <2>1, Typed DEF IInv, TaskOK, Activating, Moves, Idle, At
    <2>2. CASE u # t
      BY <1>2, <1>5, <2>2, TaskKept DEF OnlyTask
    <2> QED  BY <2>1, <2>2
  <1>9. PlanOK' /\ StopOK' /\ ReplaceOK' /\ InputOK'
    <2>1. CASE t = "keeper"
      <3>1. rows[i].state = "running"
        BY <1>1, <2>1 DEF IInv, ReplaceOK, Keeper
      <3> QED  BY <1>1, <1>2, <1>3, <2>1, <3>1, KeeperActivates, InputKept
                  DEF Keeper, Activating, Moves
    <2>2. CASE t # "keeper"
      <3>1. at'["keeper"] = at["keeper"]
        BY <1>2, <2>2, Typed DEF IInv, OnlyTask
      <3> QED  BY <1>3, <1>4, <1>5, <3>1, KeeperKept, InputKept
    <2> QED  BY <2>1, <2>2
  <1>10. TypeOK'
    <2>1. claim' \in 0..MaxIncs
      BY <1>4 DEF IInv, TypeOK, Incs
    <2> QED  BY <1>2, <1>3, <1>4, <2>1 DEF IInv, TypeOK, OnlyTask, SoulType, TaskType
  <1>11. RecoveryHasAnOwner'
    BY <1>3, <1>4 DEF IInv, RecoveryHasAnOwner
  <1> QED  BY <1>6, <1>7, <1>8, <1>9, <1>10, <1>11 DEF IInv

LEMMA ActivationFailsStep ==
  ASSUME IInv, NEW t \in Tasks, ActivationFails(t) PROVE IInv'
  <1>1. PICK i \in Incs :
        /\ i = at[t].inc /\ TaskOK(t) /\ at[t].pc \in Activating
        /\ rows[i].state # "none"
    BY DEF IInv, Grants, TaskOK, ActivationFails
  <1>2. UNCHANGED <<registry, world, up, crashes, interrupted>>
    BY DEF ActivationFails
  <1>3. CASE t = "keeper"
    <2>1. /\ OnlyTask("keeper") /\ at'["keeper"].inc = i
          /\ at'["keeper"].pc = IF rows[i].owned THEN "stop" ELSE "block"
      <3> DEFINE pc == IF rows[i].owned THEN "stop" ELSE "block"
      <3>1. pc \in Pcs /\ at' = [at EXCEPT !["keeper"] = [@ EXCEPT !.pc = pc]]
        BY <1>1, <1>3 DEF ActivationFails, Pcs
      <3> HIDE DEF pc
      <3>2. [at["keeper"] EXCEPT !.pc = pc] \in TaskType
        BY <3>1, Typed DEF IInv, TaskType
      <3>3. OnlyTask("keeper") /\ at'["keeper"].inc = i /\ at'["keeper"].pc = pc
        BY <1>1, <1>3, <3>1, <3>2, Typed DEF IInv, OnlyTask, TaskType
      <3> QED  BY <3>3 DEF pc
    <2>2. plan' \in PlanType /\ plan'.goal = "cleanup" /\ plan'.target = i
      <3>1. plan' = [plan EXCEPT !.goal = "cleanup", !.target = i]
        BY <1>1, <1>3 DEF ActivationFails
      <3>2. [plan EXCEPT !.goal = "cleanup", !.target = i] \in PlanType
        <4>1. plan \in PlanType
          BY Typed DEF IInv
        <4> QED  BY <4>1, PlanFor, Zenon
      <3>3. plan'.goal = "cleanup" /\ plan'.target = i
        BY <3>1, Typed DEF IInv, PlanType
      <3> QED  BY <3>1, <3>2, <3>3
    <2>3. /\ rows[i].prior # 0
          /\ rows[i].state \in {"prepared", "created", "starting", "running"}
          /\ plan.goal = "activate"
      BY <1>1, <1>3 DEF IInv, ReplaceOK, PlanOK, Keeper
    <2>4. \A k \in Incs : rows[k].prior # i
      BY <2>3, NotReplaced DEF Spent
    <2>5. Contiguous' /\ Rows' /\ Lines' /\ OldRowsSpent' /\ Halted' /\ Grants'
      BY <1>2, <2>1, <2>2, KeeperMoves DEF registry, world, Activating
    <2>6. PlanOK' /\ StopOK' /\ ReplaceOK' /\ InputOK'
      BY <1>1, <1>2, <2>1, <2>2, <2>3, <2>4, <1>3
         DEF IInv, PlanOK, StopOK, ReplaceOK, InputOK, Keeper, Activating, registry, world
    <2>7. TypeOK' /\ RecoveryHasAnOwner'
      BY <1>2, <2>1, <2>2 DEF IInv, TypeOK, RecoveryHasAnOwner, OnlyTask, PlanType,
         TaskType, registry, world
    <2> QED  BY <2>5, <2>6, <2>7 DEF IInv
  <1>4. CASE t # "keeper"
    <2>1. OnlyTask(t) /\ at'[t] = Idle /\ at'["keeper"] = at["keeper"] /\ plan' = plan
      <3>1. Idle \in TaskType
        BY DEF Idle, At, TaskType, Pcs
      <3> QED  BY <1>4, <3>1, Typed DEF IInv, ActivationFails, OnlyTask
    <2>2. UNCHANGED <<rows, boxes, claim, soul, input, sent>>
      BY <1>2 DEF registry, world
    <2>3. Advances(i) /\ ClaimOf(i) /\ RowOK(i)' /\ (Spent(i) => Spent(i)')
          /\ \A k \in Incs : Silent(k) => Silent(k)'
      BY <1>1, <2>2, Still DEF ClaimOf
    <2>4. Contiguous' /\ Rows' /\ Lines' /\ OldRowsSpent'
      BY <2>1, <2>2, <2>3, RowMoves
    <2>5. Halted'
      BY <2>2 DEF IInv, Halted, Wanted
    <2>6. Grants'
      <3> SUFFICES ASSUME NEW u \in Tasks PROVE TaskOK(u)'
        BY DEF Grants
      <3>1. CASE u = t
        BY <2>1, <3>1 DEF TaskOK, Activating, Idle, At
      <3>2. CASE u # t
        BY <2>1, <2>3, <3>2, TaskKept DEF OnlyTask
      <3> QED  BY <3>1, <3>2
    <2>7. PlanOK' /\ StopOK' /\ ReplaceOK' /\ InputOK'
      BY <1>2, <2>1, <2>2, <2>3, KeeperKept, InputKept
    <2>8. TypeOK' /\ RecoveryHasAnOwner'
      BY <1>2, <2>1, <2>2, <2>3, TypesKept DEF IInv, RecoveryHasAnOwner, OnlyTask,
         Advances, OnlyRow, OnlyBox
    <2> QED  BY <2>3, <2>4, <2>5, <2>6, <2>7, <2>8 DEF IInv
  <1> QED  BY <1>3, <1>4

LEMMA WorkerExitsStep ==
  ASSUME IInv, NEW i \in Incs, WorkerExits(i) PROVE IInv'
  <1>1. /\ OnlyBox(i) /\ boxes'[i].worker = "exited"
        /\ boxes'[i].state = boxes[i].state /\ boxes'[i].boot = boxes[i].boot
        /\ boxes'[i].granted = boxes[i].granted
    BY Typed DEF IInv, WorkerExits, OnlyBox, BoxType
  <1>2. rows' = rows
    BY DEF WorkerExits, registry
  <1>3. RowOK(i) /\ boxes[i].granted /\ rows[i].owned
    BY DEF IInv, Rows, RowOK, WorkerExits
  <1>4. RowOK(i)' /\ (Silent(i) => Silent(i)')
    BY <1>1, <1>2, <1>3 DEF RowOK, Silent, IsEmpty
  <1>5. boxes'[i].boot >= boxes[i].boot
    BY <1>1, Typed DEF IInv, BoxType
  <1> QED  BY <1>1, <1>3, <1>4, <1>5, BoxStep DEF WorkerExits

LEMMA SpawnFailsStep ==
  ASSUME IInv, NEW t \in Tasks, SpawnFails(t) PROVE IInv'
  <1>1. PICK i \in Incs :
        /\ i = at[t].inc /\ TaskOK(t) /\ at[t].pc = "armed" /\ RowOK(i)
        /\ boxes[i] \in BoxType /\ boxes[i].state = "running"
        /\ boxes[i].boot = at[t].boot
    BY Typed DEF IInv, Grants, Rows, TaskOK, SpawnFails, Activating
  <1>2. boxes' = [boxes EXCEPT ![i].granted = TRUE]
    BY <1>1 DEF SpawnFails
  <1>3. /\ OnlyBox(i) /\ boxes'[i].granted /\ boxes'[i].worker = boxes[i].worker
        /\ boxes'[i].state = "running" /\ boxes'[i].boot = boxes[i].boot
    BY <1>1, <1>2, Typed DEF IInv, OnlyBox, BoxType
  <1>4. rows' = rows
    BY DEF SpawnFails, registry
  <1>5. boxes[i].boot \in Nat /\ rows[i].boot \in Nat
    BY Typed DEF IInv, BoxType, RowType
  <1>6. rows[i].boot = boxes[i].boot /\ ~Silent(i) /\ rows[i].owned
        /\ rows[i].state \in {"starting", "running", "stopping"}
    BY <1>1, <1>5 DEF TaskOK, RowOK, Silent, IsEmpty
  <1>7. RowOK(i)'
    BY <1>1, <1>3, <1>4, <1>6 DEF RowOK, Silent, IsEmpty
  <1> QED  BY <1>3, <1>5, <1>6, <1>7, BoxStep DEF SpawnFails

LEMMA HostExitsStep ==
  ASSUME IInv, NEW i \in Incs, HostExits(i) PROVE IInv'
  <1>1. /\ Off(boxes[i]) \in BoxType /\ Off(boxes[i]).boot = boxes[i].boot
        /\ ~Off(boxes[i]).granted /\ Off(boxes[i]).worker = "none"
    BY OffOf, Typed DEF IInv, HostExits
  <1>2. PICK s \in {"restarting", "exited"} :
          boxes' = [boxes EXCEPT ![i] = [Off(@) EXCEPT !.state = s]]
    BY DEF HostExits
  <1>3. /\ OnlyBox(i) /\ boxes'[i].worker = "none" /\ ~boxes'[i].granted
        /\ boxes'[i].state = s /\ boxes'[i].boot = boxes[i].boot
    <2>1. [Off(boxes[i]) EXCEPT !.state = s] \in BoxType
      BY <1>1 DEF BoxType
    <2> QED  BY <1>1, <1>2, <2>1, Typed DEF IInv, OnlyBox, BoxType
  <1>4. rows' = rows
    BY DEF HostExits, registry
  <1>5. RowOK(i) /\ rows[i].owned /\ boxes[i].state = "running"
    BY DEF IInv, Rows, RowOK, HostExits
  <1>6. RowOK(i)' /\ (Silent(i) => Silent(i)')
    BY <1>3, <1>4, <1>5 DEF RowOK, Silent, IsEmpty
  <1>7. boxes'[i].boot >= boxes[i].boot
    BY <1>3, Typed DEF IInv, BoxType
  <1> QED  BY <1>3, <1>5, <1>6, <1>7, BoxStep DEF HostExits

LEMMA DockerRestartsStep ==
  ASSUME IInv, NEW i \in Incs, DockerRestarts(i) PROVE IInv'
  <1>1. /\ OnlyBox(i) /\ boxes'[i].worker = "none" /\ ~boxes'[i].granted
        /\ boxes'[i].state = "running" /\ boxes'[i].boot = boxes[i].boot + 1
    BY BootOf, Typed DEF IInv, DockerRestarts, OnlyBox
  <1>2. rows' = rows
    BY DEF DockerRestarts, registry
  <1>3. RowOK(i) /\ rows[i].owned
    BY DEF IInv, Rows, RowOK, DockerRestarts
  <1>4. boxes[i].boot \in Nat /\ rows[i].boot \in Nat
    BY Typed DEF IInv, BoxType, RowType
  <1>5. RowOK(i)' /\ Silent(i)' /\ boxes'[i].boot >= boxes[i].boot
    BY <1>1, <1>2, <1>3, <1>4 DEF RowOK, Silent, IsEmpty
  <1> QED  BY <1>1, <1>3, <1>5, BoxStep DEF DockerRestarts

LEMMA LaunchAgainStep ==
  ASSUME IInv, NEW t \in Launchers, NEW i \in Incs, LaunchAgain(t, i) PROVE IInv'
  <1>1. PICK pc \in {"prepared", "created", "started", "ran"} :
          at' = [at EXCEPT ![t] = At(pc, i)]
    BY DEF LaunchAgain
  <1>2. OnlyTask(t) /\ at'[t] = At(pc, i) /\ at'["keeper"] = at["keeper"]
    <2>1. At(pc, i) \in TaskType
      BY DEF At, TaskType, Pcs, Activating, Incs
    <2> QED  BY <1>1, <2>1, Typed DEF IInv, OnlyTask, Tasks
  <1>3. UNCHANGED <<rows, boxes, claim, soul, input, sent, plan, up, crashes, interrupted>>
    BY DEF LaunchAgain, registry, world
  <1>4. rows[i].state # "none" /\ rows[i].prior = 0
    BY DEF LaunchAgain
  <1>5. Advances(i) /\ ClaimOf(i) /\ RowOK(i)' /\ (Spent(i) => Spent(i)')
        /\ \A k \in Incs : Silent(k) => Silent(k)'
    BY <1>3, <1>4, Still DEF ClaimOf
  <1>6. Contiguous' /\ Rows' /\ Lines' /\ OldRowsSpent'
    BY <1>3, <1>5, RowMoves
  <1>7. Halted'
    BY <1>3 DEF IInv, Halted, Wanted
  <1>8. Grants'
    <2> SUFFICES ASSUME NEW u \in Tasks PROVE TaskOK(u)'
      BY DEF Grants
    <2>1. CASE u = t
      BY <1>2, <1>3, <1>4, <2>1, Typed DEF IInv, TaskOK, Activating, At, BoxType
    <2>2. CASE u # t
      BY <1>2, <1>5, <2>2, TaskKept DEF OnlyTask
    <2> QED  BY <2>1, <2>2
  <1>9. PlanOK' /\ StopOK' /\ ReplaceOK' /\ InputOK'
    BY <1>2, <1>3, <1>5, KeeperKept, InputKept
  <1>10. TypeOK' /\ RecoveryHasAnOwner'
    BY <1>2, <1>3, <1>5, TypesKept DEF IInv, RecoveryHasAnOwner, OnlyTask, Advances,
       OnlyRow, OnlyBox
  <1> QED  BY <1>6, <1>7, <1>8, <1>9, <1>10 DEF IInv

\* A read touches the claim and the evidence only.
LEMMA ReadStep ==
  ASSUME IInv, NEW i \in Incs, RecordRead(i) \/ StoreRead(i) PROVE IInv'
  <1>1. UNCHANGED <<rows, boxes, input, sent, at, plan, up, crashes, interrupted>>
    BY DEF RecordRead, StoreRead, world
  <1>2. /\ soul' \in SoulType /\ soul'.desired = soul.desired
        /\ soul'.recovery = soul.recovery
        /\ claim' \in 0..MaxIncs /\ \A k \in Incs : claim = k => claim' = k
    <2>1. CASE RecordRead(i)
      BY <2>1, Learns DEF IInv, RecordRead, Learn, Incs
    <2>2. CASE StoreRead(i)
      BY <2>2 DEF IInv, TypeOK, SoulType, StoreRead
    <2> QED  BY <2>1, <2>2
  <1>3. Contiguous' /\ Rows' /\ OldRowsSpent'
    BY <1>1 DEF IInv, Contiguous, Rows, RowOK, OldRowsSpent, Spent, Silent, IsEmpty
  <1>4. Lines'
    BY <1>1, <1>2 DEF IInv, Lines, LineOK, Spent, Silent, IsEmpty
  <1>5. Halted' /\ RecoveryHasAnOwner'
    BY <1>1, <1>2 DEF IInv, Halted, Wanted, RecoveryHasAnOwner
  <1>6. Grants'
    BY <1>1 DEF IInv, Grants, TaskOK
  <1>7. PlanOK' /\ StopOK' /\ ReplaceOK' /\ InputOK'
    BY <1>1, <1>2, KeeperKept, InputKept DEF Silent, IsEmpty
  <1>8. TypeOK'
    BY <1>1, <1>2 DEF IInv, TypeOK, SoulType
  <1> QED  BY <1>3, <1>4, <1>5, <1>6, <1>7, <1>8 DEF IInv

LEMMA CrashStep == ASSUME IInv, Crash PROVE IInv'
  <1>1. UNCHANGED <<rows, boxes, claim, soul, input, sent>>
    BY DEF Crash, registry, world
  <1>2. at' \in [Tasks -> TaskType] /\ \A t \in Tasks : at'[t].pc = "idle"
    <2>1. Idle \in TaskType
      BY DEF Idle, At, TaskType, Pcs
    <2> QED  BY <2>1 DEF Crash, Idle, At
  <1>3. plan' = NoPlan /\ plan'.goal = "none" /\ plan' \in PlanType
    BY DEF Crash, NoPlan, PlanType
  <1>4. Contiguous' /\ Rows' /\ Lines' /\ OldRowsSpent' /\ Halted'
    <2>1. Contiguous'
      BY <1>1, <1>3 DEF IInv, Contiguous
    <2>2. Rows'
      BY <1>1 DEF IInv, Rows, RowOK, Silent, IsEmpty
    <2>3. Lines' /\ OldRowsSpent'
      BY <1>1 DEF IInv, Lines, LineOK, OldRowsSpent, Spent, Silent, IsEmpty
    <2>4. Halted'
      BY <1>1 DEF IInv, Halted, Wanted
    <2> QED  BY <2>1, <2>2, <2>3, <2>4
  <1>5. Grants' /\ PlanOK' /\ StopOK' /\ ReplaceOK'
    BY <1>2, <1>3, Typed DEF IInv, Grants, TaskOK, PlanOK, StopOK, ReplaceOK, Keeper,
       Activating
  <1>6. InputOK'
    BY <1>1, <1>2, Typed DEF IInv, InputOK, Keeper
  <1>7. TypeOK' /\ RecoveryHasAnOwner'
    <2>1. crashes' \in 0..MaxCrashes
      BY DEF IInv, TypeOK, Crash
    <2>2. interrupted' \in BOOLEAN /\ (soul.recovery = "recovering" => interrupted')
      BY Zenon DEF Crash
    <2>3. up' = "down"
      BY DEF Crash
    <2> QED  BY <1>1, <1>2, <1>3, <2>1, <2>2, <2>3
             DEF IInv, TypeOK, RecoveryHasAnOwner, TaskType, PlanType
  <1> QED  BY <1>4, <1>5, <1>6, <1>7 DEF IInv

LEMMA StopBoxStep == ASSUME IInv, StopBox PROVE IInv'
  <1>1. PICK i \in Incs : i = plan.target /\ rows[i].owned
    BY DEF IInv, StopOK, StopBox
  <1>2. RowOK(i) /\ boxes[i] \in BoxType /\ rows[i].state # "none"
    BY <1>1, Typed DEF IInv, Rows, RowOK
  <1>3. UNCHANGED <<rows, claim, soul, input, sent, up, crashes, interrupted>>
    BY DEF StopBox, registry
  <1>4. /\ OnlyBox(i) /\ boxes'[i].boot = boxes[i].boot
        /\ \/ boxes'[i] = boxes[i]
           \/ /\ boxes'[i].state = "exited"
              /\ ~boxes'[i].granted /\ boxes'[i].worker = "none"
    <2>1. CASE boxes' = boxes
      BY <2>1, Unmoved DEF IInv
    <2>2. CASE boxes' = [boxes EXCEPT ![i] = Off(@)]
      BY <1>2, <2>2, OffOf, Typed DEF IInv, OnlyBox
    <2> QED  BY <1>1, <2>1, <2>2 DEF StopBox
  <1>5. RowOK(i)' /\ (Silent(i) => Silent(i)')
    BY <1>1, <1>2, <1>3, <1>4 DEF RowOK, Silent, IsEmpty
  <1>6. Advances(i) /\ ClaimOf(i) /\ (Spent(i) => Spent(i)')
    <2>1. boxes'[i].boot >= boxes[i].boot
      BY <1>2, <1>4 DEF BoxType
    <2> QED  BY <1>2, <1>3, <1>4, <1>5, <2>1, Unmoved DEF IInv, Advances, ClaimOf, Spent
  <1>7. PICK known \in BOOLEAN :
          (known => IsEmpty(boxes'[i])) /\ plan' = [plan EXCEPT !.empty = known]
    BY <1>1, Zenon DEF StopBox
  <1>8. /\ plan' \in PlanType /\ plan'.goal = plan.goal /\ plan'.target = i
        /\ plan'.resume = plan.resume /\ plan'.empty = known
    BY <1>1, <1>7, Typed DEF IInv, PlanType
  <1>9. Moves("keeper", "mark")
    BY ToMoves DEF IInv, StopBox, Pcs
  <1>10. /\ Contiguous' /\ Rows' /\ Lines' /\ OldRowsSpent'
         /\ \A k \in Incs : Spent(k) => Spent(k)'
    BY <1>3, <1>5, <1>6, <1>8, RowMoves
  <1>11. Halted'
    BY <1>3 DEF IInv, Halted, Wanted
  <1>12. Grants'
    <2> SUFFICES ASSUME NEW u \in Tasks PROVE TaskOK(u)'
      BY DEF Grants
    <2>1. CASE u = "keeper"
      BY <1>9, <2>1, Typed DEF IInv, TaskOK, Moves, Activating
    <2>2. CASE u # "keeper"
      BY <1>6, <1>9, <2>2, TaskKept DEF Moves, OnlyTask
    <2> QED  BY <2>1, <2>2
  <1>13. PlanOK' /\ ReplaceOK'
    BY <1>3, <1>9 DEF IInv, StopBox, PlanOK, ReplaceOK, Keeper, Moves, Activating
  <1>14. StopOK'
    <2>1. plan.goal \in {"stop", "replace", "cleanup"} /\ plan'.empty => Silent(i)'
      BY <1>7, <1>8 DEF Silent
    <2> QED
      BY <1>1, <1>3, <1>7, <1>8, <1>9, <1>10
         DEF IInv, StopOK, StopBox, Keeper, Moves, Silent
  <1>15. InputOK'
    BY <1>3, <1>8, <1>9 DEF IInv, InputOK, StopBox, Keeper, Moves
  <1>16. RecoveryHasAnOwner'
    BY <1>3, <1>8 DEF IInv, RecoveryHasAnOwner
  <1>17. TypeOK'
    <2>1. at' \in [Tasks -> TaskType] /\ boxes' \in [Incs -> BoxType]
      BY <1>4, <1>9 DEF Moves, OnlyTask, OnlyBox
    <2> QED  BY <1>3, <1>8, <2>1 DEF IInv, TypeOK, PlanType, TaskType, BoxType
  <1> QED
    BY <1>10, <1>11, <1>12, <1>13, <1>14, <1>15, <1>16, <1>17 DEF IInv

LEMMA MarkOutcomeStep == ASSUME IInv, MarkOutcome PROVE IInv'
  <1>1. PICK i \in Incs : i = plan.target /\ rows[i].owned
    BY DEF IInv, StopOK, MarkOutcome
  <1>2. /\ RowOK(i) /\ rows[i] \in RowType /\ rows[i].state # "none"
        /\ plan.empty \in BOOLEAN /\ (plan.empty => Silent(i))
        /\ \A k \in Incs : rows[k].prior = i => Spent(k)
    BY <1>1, Typed DEF IInv, Rows, RowOK, StopOK, MarkOutcome, PlanType
  <1>3. UNCHANGED <<boxes, input, sent, up, crashes, interrupted>>
    BY DEF MarkOutcome, world
  <1>4. /\ OnlyRow(i) /\ rows'[i].empty = plan.empty
        /\ rows'[i].state = IF plan.empty THEN "stopped" ELSE "stopping"
        /\ rows'[i].prior = rows[i].prior /\ rows'[i].resume = rows[i].resume
        /\ rows'[i].owned = rows[i].owned /\ rows'[i].boot = rows[i].boot
    BY <1>1, <1>2, Typed DEF IInv, MarkOutcome, OnlyRow, RowType, ActiveStates
  <1>5. RowOK(i)' /\ (Spent(i) => Spent(i)') /\ (plan.empty => Spent(i)')
    <2>1. boxes[i].boot \in Nat /\ rows[i].boot \in Nat
      BY <1>2, Typed DEF IInv, RowType, BoxType
    <2>2. CASE plan.empty
      BY <1>1, <1>2, <1>3, <1>4, <2>1, <2>2 DEF RowOK, Spent, Silent, IsEmpty
    <2>3. CASE ~plan.empty
      BY <1>1, <1>2, <1>3, <1>4, <2>1, <2>3 DEF RowOK, Spent, Silent, IsEmpty
    <2> QED  BY <2>2, <2>3
  <1>6. Advances(i) /\ ClaimOf(i)
    <2>1. boxes'[i].boot >= boxes[i].boot
      BY <1>3, Typed DEF IInv, BoxType
    <2> QED  BY <1>1, <1>2, <1>3, <1>4, <1>5, <2>1, Unmoved
             DEF IInv, Advances, ClaimOf, MarkOutcome, Granted
  <1>7. /\ soul' \in SoulType /\ soul'.desired = soul.desired
        /\ soul'.recovery \in {"stopped", soul.recovery}
    BY SoulMoves, Typed DEF IInv, MarkOutcome, TypeOK, SoulType
  <1>8. \/ OnlyTask("keeper") /\ at'["keeper"].pc = "idle" /\ plan' = NoPlan
           /\ plan.goal = "stop"
        \/ Moves("keeper", "prepare") /\ plan' = plan /\ plan.goal = "replace"
        \/ Moves("keeper", "block") /\ plan' = plan
    BY ToMoves, DropMoves DEF IInv, MarkOutcome, Pcs, Idle, At
  <1>9. Contiguous' /\ Rows' /\ Lines' /\ OldRowsSpent'
    BY <1>2, <1>5, <1>6, <1>8, RowMoves DEF NoPlan
  <1>10. Halted'
    BY <1>4, <1>7 DEF IInv, Halted, Wanted, OnlyRow
  <1>11. Grants'
    <2> SUFFICES ASSUME NEW u \in Tasks PROVE TaskOK(u)'
      BY DEF Grants
    <2>1. CASE u = "keeper"
      BY <1>8, <2>1, Typed DEF IInv, TaskOK, Moves, Activating
    <2>2. CASE u # "keeper"
      BY <1>6, <1>8, <2>2, TaskKept DEF Moves, OnlyTask
    <2> QED  BY <2>1, <2>2
  <1>12. PlanOK' /\ StopOK' /\ ReplaceOK'
    BY <1>1, <1>8 DEF IInv, PlanOK, StopOK, ReplaceOK, Keeper, Moves, Activating, NoPlan,
                     MarkOutcome
  <1>13. InputOK'
    BY <1>3, <1>8 DEF IInv, InputOK, Keeper, Moves, MarkOutcome
  <1>14. RecoveryHasAnOwner'
    BY <1>3, <1>7, <1>8 DEF IInv, RecoveryHasAnOwner
  <1>15. TypeOK'
    <2>1. at' \in [Tasks -> TaskType] /\ rows' \in [Incs -> RowType]
      BY <1>4, <1>8 DEF Moves, OnlyTask, OnlyRow
    <2>2. plan' \in PlanType /\ claim' \in 0..MaxIncs
      <3>1. NoPlan \in PlanType
        BY DEF NoPlan, PlanType
      <3>2. claim \in 0..MaxIncs
        BY DEF IInv, TypeOK
      <3> QED  BY <1>8, <3>1, <3>2, Typed DEF IInv, MarkOutcome
    <2> QED  BY <1>3, <1>7, <2>1, <2>2
             DEF IInv, TypeOK, PlanType, TaskType, RowType, SoulType
  <1> QED  BY <1>9, <1>10, <1>11, <1>12, <1>13, <1>14, <1>15 DEF IInv

LEMMA RetireStep == ASSUME IInv, Retire PROVE IInv'
  <1> DEFINE P == {k \in Made : rows[k].state = "prepared" /\ rows[k].prior # 0}
  <1>1. Moves("keeper", "probe")
    BY ToMoves DEF IInv, Retire, Pcs
  <1>2. /\ UNCHANGED <<boxes, input, sent, plan, up, crashes, interrupted>>
        /\ plan.goal = "none"
    BY DEF IInv, PlanOK, Retire, world
  <1>3. /\ soul' \in SoulType /\ soul'.desired = soul.desired
        /\ soul'.recovery \in {"blocked", soul.recovery}
        /\ soul'.recovery = "recovering" => soul.recovery = "recovering"
    BY DEF IInv, Retire, TypeOK, SoulType
  <1>4. PlanOK' /\ ReplaceOK' /\ InputOK' /\ RecoveryHasAnOwner'
    BY <1>1, <1>2, <1>3 DEF IInv, PlanOK, ReplaceOK, InputOK, RecoveryHasAnOwner, Keeper,
                            Moves, Activating, Retire
  <1>5. CASE P = {}
    <2>1. UNCHANGED <<soul, rows, claim>>
      BY <1>5 DEF Retire
    <2>2. Contiguous' /\ Rows' /\ Lines' /\ OldRowsSpent' /\ Halted' /\ Grants'
      BY <1>1, <1>2, <2>1, KeeperMoves DEF Moves, Activating
    <2>3. StopOK'
      BY <1>1, <1>2, <1>5, <2>1 DEF StopOK, Keeper, Moves, Made
    <2>4. TypeOK'
      BY <1>1, <1>2, <2>1 DEF IInv, TypeOK, Moves, OnlyTask, TaskType
    <2> QED  BY <1>4, <2>2, <2>3, <2>4 DEF IInv
  <1>6. CASE P # {}
    <2>1. PICK i \in P : i = Newest(P) /\ \A k \in P : k <= i
      BY <1>6, NewestIsMax DEF Made
    <2>2. /\ i \in Incs /\ RowOK(i) /\ rows[i] \in RowType /\ ~rows[i].owned
          /\ rows[i].state = "prepared"
      BY <2>1, Typed DEF IInv, Rows, RowOK, Made
    <2>3. /\ OnlyRow(i) /\ rows'[i].state = "failed"
          /\ rows'[i].prior = rows[i].prior /\ rows'[i].resume = rows[i].resume
          /\ rows'[i].owned = rows[i].owned /\ rows'[i].boot = rows[i].boot
          /\ rows'[i].empty = rows[i].empty
      BY <1>6, <2>1, <2>2, Typed DEF IInv, Retire, OnlyRow, RowType, ActiveStates
    <2>4. RowOK(i)' /\ Spent(i)' /\ ~Spent(i)
      BY <1>2, <2>2, <2>3 DEF RowOK, Spent, Silent, IsEmpty
    <2>5. Advances(i) /\ ClaimOf(i) /\ claim' \in {0, claim}
      <3>1. boxes'[i].boot >= boxes[i].boot
        BY <1>2, <2>2, Typed DEF IInv, BoxType
      <3>2. claim' = IF claim = i THEN 0 ELSE claim
        BY <1>6, <2>1 DEF Retire
      <3> QED  BY <1>2, <2>2, <2>3, <2>4, <3>1, <3>2, Unmoved
               DEF IInv, Advances, ClaimOf, Granted
    <2>6. Contiguous' /\ Rows' /\ Lines' /\ OldRowsSpent'
      BY <1>2, <2>2, <2>3, <2>4, <2>5, RowMoves
    <2>7. Halted'
      BY <1>3, <2>3 DEF IInv, Halted, Wanted, OnlyRow
    <2>8. Grants'
      <3> SUFFICES ASSUME NEW u \in Tasks PROVE TaskOK(u)'
        BY DEF Grants
      <3>1. CASE u = "keeper"
        BY <1>1, <3>1, Typed DEF IInv, TaskOK, Moves, Activating
      <3>2. CASE u # "keeper"
        BY <1>1, <2>2, <2>5, <3>2, TaskKept DEF Moves, OnlyTask
      <3> QED  BY <3>1, <3>2
    <2>9. StopOK'
      <3> SUFFICES ASSUME NEW k \in Incs, rows'[k].state = "prepared", rows'[k].prior # 0
                   PROVE FALSE
        BY <1>1 DEF StopOK, Keeper, Moves
      <3>1. k \in P /\ k < i
        <4>1. k # i /\ rows'[k] = rows[k]
          BY <2>3 DEF OnlyRow
        <4>2. k \in P
          BY <4>1 DEF Made
        <4> QED  BY <2>1, <2>2, <4>1, <4>2 DEF Incs
      <3>2. Spent(k)
        BY <2>2, <3>1 DEF IInv, OldRowsSpent
      <3> QED  BY <3>1, <3>2 DEF Spent
    <2>10. TypeOK'
      <3>1. at' \in [Tasks -> TaskType] /\ rows' \in [Incs -> RowType]
        BY <1>1, <2>3 DEF Moves, OnlyTask, OnlyRow
      <3>2. claim' \in 0..MaxIncs
        BY <2>5 DEF IInv, TypeOK
      <3> QED  BY <1>2, <1>3, <3>1, <3>2 DEF IInv, TypeOK, TaskType, RowType, SoulType
    <2> QED  BY <1>4, <2>6, <2>7, <2>8, <2>9, <2>10 DEF IInv
  <1> QED  BY <1>5, <1>6

\* The row a stop or a recovery picks is replaced by no row that could work.
LEMMA PickedIsLast ==
  ASSUME IInv, NEW S \in SUBSET Made, S # {}, NEW k \in Incs,
         rows[k].prior = ActiveFirst(S), rows[k].owned \/ Active(k) => k \in S
  PROVE  Spent(k)
  <1> DEFINE i == ActiveFirst(S)
  <1>1. i \in S /\ i \in Incs /\ (k \in S => (Active(k) => k <= i))
    BY ActiveFirstIs DEF Made
  <1>2. rows[k].prior < k /\ RowOK(k) /\ RowOK(i) /\ rows[k] \in RowType
    BY <1>1, Typed DEF IInv, Lines, LineOK, Rows
  <1>3. ~Active(k)
    BY <1>1, <1>2 DEF Incs
  <1>4. rows[k].state # "none"
    BY <1>1, <1>2 DEF RowOK, NoRow, Row, Incs
  <1>5. rows[k].state \in {"stopped", "failed"}
    BY <1>2, <1>3, <1>4 DEF RowType, Active, ActiveStates
  <1> QED  BY <1>2, <1>5 DEF RowOK, Spent, Silent, IsEmpty

LEMMA BeginStopStep == ASSUME IInv, BeginStop PROVE IInv'
  <1>1. PICK i \in Incs : i = ActiveFirst(Made) /\ rows[i].state # "none"
    BY ActiveFirstIs DEF BeginStop, Made
  <1>2. /\ RowOK(i) /\ rows[i] \in RowType /\ Keeper.pc = "idle" /\ plan.goal = "none"
        /\ up = "serving"
    BY Typed DEF IInv, Rows, BeginStop, KeeperFree, PlanOK
  <1>3. UNCHANGED <<boxes, claim, sent, up, crashes, interrupted>>
    BY DEF BeginStop, world
  <1>4. /\ OnlyRow(i)
        /\ \/ rows' = rows /\ rows[i].state \in {"stopped", "failed"}
           \/ /\ rows[i].state \notin {"stopped", "failed"}
              /\ rows'[i].state = "stopping" /\ ~rows'[i].empty
              /\ rows'[i].prior = rows[i].prior /\ rows'[i].resume = rows[i].resume
              /\ rows'[i].owned = rows[i].owned /\ rows'[i].boot = rows[i].boot
    <2>1. CASE rows[i].state \in {"stopped", "failed"}
      BY <1>1, <2>1, Unmoved DEF IInv, BeginStop
    <2>2. CASE rows[i].state \notin {"stopped", "failed"}
      BY <1>1, <1>2, <2>2, Typed DEF IInv, BeginStop, OnlyRow, RowType, ActiveStates
    <2> QED  BY <2>1, <2>2
  <1>5. RowOK(i)' /\ (Spent(i) => Spent(i)') /\ (rows[i].empty => rows'[i].empty)
    BY <1>1, <1>2, <1>3, <1>4 DEF RowOK, Spent, Silent, IsEmpty
  <1>6. Advances(i) /\ ClaimOf(i)
    <2>1. boxes'[i].boot >= boxes[i].boot
      BY <1>3, Typed DEF IInv, BoxType
    <2> QED  BY <1>1, <1>3, <1>4, <2>1, Unmoved DEF IInv, Advances, ClaimOf, Granted
  <1>7. /\ soul' \in SoulType /\ soul'.desired = "stopped"
        /\ soul'.recovery # "recovering"
    <2>1. CASE Wanted
      BY <1>1, <2>1 DEF IInv, BeginStop, TypeOK, SoulType
    <2>2. CASE ~Wanted
      BY <1>1, <2>2 DEF IInv, BeginStop, TypeOK, SoulType, Halted, Wanted
    <2> QED  BY <2>1, <2>2
  <1>8. \/ /\ OnlyTask("keeper") /\ at'["keeper"].pc = "stop"
           /\ plan' \in PlanType /\ plan'.goal = "stop" /\ plan'.target = i /\ rows[i].owned
        \/ OnlyTask("keeper") /\ at'["keeper"].pc = "idle" /\ plan' = plan
    <2>1. CASE rows[i].owned
      <3>1. plan' = [NoPlan EXCEPT !.goal = "stop", !.target = i] /\ To("stop")
        BY <1>1, <2>1 DEF BeginStop
      <3>2. NoPlan \in PlanType
        BY DEF NoPlan, PlanType
      <3>3. [NoPlan EXCEPT !.goal = "stop", !.target = i] \in PlanType
        BY <3>2, PlanFor, Zenon
      <3>4. plan'.goal = "stop" /\ plan'.target = i
        BY <3>1 DEF NoPlan
      <3>5. Moves("keeper", "stop")
        BY <3>1, ToMoves DEF IInv, Pcs
      <3> QED  BY <2>1, <3>1, <3>3, <3>4, <3>5 DEF Moves
    <2>2. CASE ~rows[i].owned
      BY <1>1, <1>2, <2>2, Typed DEF IInv, BeginStop, OnlyTask, Keeper
    <2> QED  BY <2>1, <2>2
  <1>9. /\ Contiguous' /\ Rows' /\ Lines' /\ OldRowsSpent'
        /\ \A k \in Incs : Spent(k) => Spent(k)'
    BY <1>2, <1>5, <1>6, <1>8, RowMoves
  <1>10. Halted'
    <2> SUFFICES ASSUME NEW k \in Incs,
                        rows'[k].state \in {"created", "starting", "running"}
                 PROVE  FALSE
      BY <1>7 DEF Halted, Wanted
    <2>1. k # i /\ rows[k].state \in {"created", "starting", "running"}
      BY <1>4 DEF OnlyRow
    <2>2. k \in Made /\ Active(k)
      BY <2>1 DEF Made, Active, ActiveStates
    <2>3. k < i
      BY <1>1, <2>1, <2>2, ActiveFirstIs DEF Made, Incs
    <2>4. Spent(k)
      BY <1>1, <2>3 DEF IInv, OldRowsSpent
    <2> QED  BY <2>1, <2>4 DEF Spent
  <1>11. Grants'
    <2> SUFFICES ASSUME NEW u \in Tasks PROVE TaskOK(u)'
      BY DEF Grants
    <2>1. CASE u = "keeper"
      BY <1>8, <2>1, Typed DEF IInv, TaskOK, Activating
    <2>2. CASE u # "keeper"
      BY <1>6, <1>8, <2>2, TaskKept DEF OnlyTask
    <2> QED  BY <2>1, <2>2
  <1>12. PlanOK' /\ ReplaceOK'
    BY <1>2, <1>3, <1>8 DEF PlanOK, ReplaceOK, Keeper, Activating
  <1>13. StopOK'
    <2>1. CASE at'["keeper"].pc = "idle"
      BY <2>1 DEF StopOK, Keeper
    <2>2. CASE at'["keeper"].pc = "stop" /\ plan'.goal = "stop" /\ plan'.target = i
               /\ rows[i].owned
      <3>1. rows'[i].owned /\ rows'[i].state \in {"stopping", "stopped"}
        BY <1>2, <1>4, <2>2 DEF RowOK
      <3>2. ASSUME NEW k \in Incs, rows'[k].prior = i PROVE Spent(k)'
        <4>1. rows[k].prior = i
          BY <1>4, <3>2 DEF OnlyRow
        <4>2. rows[k].owned \/ Active(k) => k \in Made
          BY DEF IInv, Rows, RowOK, Made, Active, ActiveStates
        <4>3. Spent(k)
          BY <1>1, <4>1, <4>2, PickedIsLast DEF BeginStop
        <4> QED  BY <1>9, <4>3
      <3> QED  BY <2>2, <3>1, <3>2 DEF StopOK, Keeper
    <2> QED  BY <1>8, <2>1, <2>2
  <1>14. InputOK' /\ RecoveryHasAnOwner'
    BY <1>3, <1>7, <1>8 DEF IInv, InputOK, RecoveryHasAnOwner, BeginStop, Unsettled, Keeper,
                            TypeOK
  <1>15. TypeOK'
    <2>1. at' \in [Tasks -> TaskType] /\ rows' \in [Incs -> RowType] /\ plan' \in PlanType
      BY <1>4, <1>8, Typed DEF IInv, OnlyTask, OnlyRow
    <2>2. input' \in {"none", "queued", "dispatching", "completed", "ambiguous"}
      BY DEF IInv, TypeOK, BeginStop, Unsettled
    <2> QED  BY <1>3, <1>7, <2>1, <2>2
             DEF IInv, TypeOK, PlanType, TaskType, RowType, SoulType
  <1> QED  BY <1>9, <1>10, <1>11, <1>12, <1>13, <1>14, <1>15 DEF IInv

LEMMA BeginStep == ASSUME IInv, Begin PROVE IInv'
  <1>1. PICK i \in Incs : i = ActiveFirst(Owned) /\ rows[i].owned
    <2>1. Owned \in SUBSET Incs /\ Owned # {}
      BY DEF IInv, PlanOK, Begin, Owned, Made
    <2>2. ActiveFirst(Owned) \in Owned
      BY <2>1, ActiveFirstIs
    <2> QED  BY <2>2 DEF Owned, Made
  <1>2. /\ RowOK(i) /\ rows[i] \in RowType /\ rows[i].state # "none"
        /\ Keeper.pc = "begin" /\ Wanted /\ plan.goal = "none" /\ up # "down"
    BY <1>1, Typed DEF IInv, Rows, RowOK, Begin, PlanOK
  <1>3. UNCHANGED <<claim, boxes, sent, up, crashes, interrupted>>
    BY DEF Begin, world
  <1>4. CASE soul.recovery = "recovering"
    <2>1. OnlyTask("keeper") /\ at'["keeper"] = Idle /\ plan' = NoPlan /\ plan' \in PlanType
      BY <1>4, DropMoves DEF IInv, Begin
    <2>2. UNCHANGED <<soul, input, rows>>
      BY <1>4 DEF Begin
    <2>3. Contiguous' /\ Rows' /\ Lines' /\ OldRowsSpent' /\ Halted' /\ Grants'
      BY <1>3, <2>1, <2>2, KeeperMoves DEF Activating, Idle, At, NoPlan
    <2>4. PlanOK' /\ StopOK' /\ ReplaceOK' /\ InputOK' /\ RecoveryHasAnOwner'
      BY <1>2, <1>3, <2>1, <2>2 DEF IInv, PlanOK, StopOK, ReplaceOK, InputOK,
         RecoveryHasAnOwner, Idle, At, NoPlan, Keeper, Activating
    <2>5. TypeOK'
      BY <1>3, <2>1, <2>2 DEF IInv, TypeOK, OnlyTask, TaskType, PlanType
    <2> QED  BY <2>3, <2>4, <2>5 DEF IInv
  <1>5. CASE soul.recovery # "recovering"
    <2>1. /\ OnlyRow(i)
          /\ \/ rows' = rows /\ rows[i].state \in {"stopping", "stopped"}
             \/ /\ rows[i].state \in {"created", "starting", "running"}
                /\ rows'[i].state = "stopping" /\ ~rows'[i].empty
                /\ rows'[i].prior = rows[i].prior /\ rows'[i].resume = rows[i].resume
                /\ rows'[i].owned = rows[i].owned /\ rows'[i].boot = rows[i].boot
      <3>1. CASE rows[i].state \in {"created", "starting", "running"}
        <4>1. rows' = [rows EXCEPT ![i].state = "stopping", ![i].empty = FALSE]
          BY <1>1, <1>5, <3>1 DEF Begin
        <4>2. rows \in [Incs -> RowType]
          BY Typed DEF IInv
        <4> QED  BY <3>1, <4>1, <4>2 DEF OnlyRow, RowType, ActiveStates
      <3>2. CASE rows[i].state \notin {"created", "starting", "running"}
        <4>1. rows' = rows
          BY <1>1, <1>5, <3>2 DEF Begin
        <4>2. rows[i].state \in {"stopping", "stopped"}
          BY <1>1, <1>2, <3>2 DEF RowOK, RowType, ActiveStates
        <4> QED  BY <4>1, <4>2, Unmoved DEF IInv
      <3> QED  BY <3>1, <3>2
    <2>2. RowOK(i)' /\ (Spent(i) => Spent(i)') /\ (rows[i].empty => rows'[i].empty)
      BY <1>1, <1>2, <1>3, <2>1 DEF RowOK, Spent, Silent, IsEmpty
    <2>3. Advances(i) /\ ClaimOf(i)
      <3>1. boxes'[i].boot >= boxes[i].boot
        BY <1>3, Typed DEF IInv, BoxType
      <3> QED  BY <1>2, <1>3, <2>1, <3>1, Unmoved DEF IInv, Advances, ClaimOf, Granted
    <2>4. soul' \in SoulType /\ soul'.desired = soul.desired
      BY <1>5, SoulMoves DEF IInv, Begin, TypeOK, SoulType
    <2>5. /\ plan' \in PlanType /\ plan'.goal = "replace" /\ plan'.target = i
          /\ plan'.resume = plan.resume
      <3>1. plan' = [plan EXCEPT !.goal = "replace", !.target = i]
        BY <1>1, <1>5 DEF Begin
      <3>2. plan \in PlanType
        BY Typed DEF IInv
      <3>3. [plan EXCEPT !.goal = "replace", !.target = i] \in PlanType
        BY <3>2, PlanFor, Zenon
      <3> QED  BY <3>1, <3>2, <3>3 DEF PlanType
    <2>6. Moves("keeper", "stop")
      BY <1>5, ToMoves DEF IInv, Begin, Pcs
    <2>7. /\ Rows' /\ Lines' /\ OldRowsSpent'
          /\ \A k \in Incs : Spent(k) => Spent(k)'
      BY <2>2, <2>3, RowMoves
    <2>8. Contiguous'
      <3>1. PICK n \in 0..MaxIncs : \A k \in Incs : rows[k].state # "none" <=> k <= n
        BY DEF IInv, Contiguous
      <3>2. Made = 1..n
        BY <3>1 DEF Made, Incs
      <3>3. Cardinality(Made) = n
        BY <3>2, CountOf
      <3>4. n < MaxIncs
        BY <1>2, <1>5, <3>3 DEF Begin, Spare
      <3>5. \A k \in Incs : rows'[k].state # "none" <=> k <= n
        BY <3>1, <2>3 DEF Advances, OnlyRow
      <3> QED  BY <3>4, <3>5 DEF Contiguous
    <2>9. Halted'
      BY <1>2, <2>4 DEF Halted, Wanted
    <2>10. Grants'
      <3> SUFFICES ASSUME NEW u \in Tasks PROVE TaskOK(u)'
        BY DEF Grants
      <3>1. CASE u = "keeper"
        BY <2>6, <3>1, Typed DEF IInv, TaskOK, Moves, Activating
      <3>2. CASE u # "keeper"
        BY <2>3, <2>6, <3>2, TaskKept DEF Moves, OnlyTask
      <3> QED  BY <3>1, <3>2
    <2>11. PlanOK' /\ ReplaceOK'
      BY <1>2, <1>3, <2>6 DEF PlanOK, ReplaceOK, Keeper, Moves, Activating
    <2>12. StopOK'
      <3>1. rows'[i].owned /\ rows'[i].state \in {"stopping", "stopped"}
        BY <1>1, <2>1
      <3>2. ASSUME NEW k \in Incs, rows'[k].prior = i PROVE Spent(k)'
        <4>1. rows[k].prior = i
          BY <2>1, <3>2 DEF OnlyRow
        <4>2. RowOK(k) /\ rows[k] \in RowType
          BY Typed DEF IInv, Rows
        <4>3. CASE Active(k) /\ ~rows[k].owned
          <5>1. rows[k].state = "stopping"
            <6>1. rows[k].state # "prepared"
              BY <1>2, <4>1 DEF IInv, StopOK, Incs
            <6> QED  BY <4>2, <4>3, <6>1 DEF RowOK, Active, ActiveStates
          <5>2. Spent(k)
            BY <4>2, <4>3, <5>1 DEF RowOK, Spent, Silent, IsEmpty
          <5> QED  BY <2>7, <5>2
        <4>4. CASE rows[k].owned \/ ~Active(k)
          <5>1. rows[k].owned \/ Active(k) => k \in Owned
            BY <4>2, <4>4 DEF RowOK, Owned, Made
          <5>2. Owned \in SUBSET Made /\ Owned # {}
            BY <1>2 DEF IInv, PlanOK, Owned
          <5>3. Spent(k)
            BY <1>1, <4>1, <5>1, <5>2, PickedIsLast
          <5> QED  BY <2>7, <5>3
        <4> QED  BY <4>3, <4>4
      <3> QED  BY <2>5, <2>6, <3>1, <3>2 DEF StopOK, Keeper, Moves
    <2>13. InputOK' /\ RecoveryHasAnOwner'
      BY <1>2, <1>3, <1>5, <2>5, <2>6
         DEF IInv, InputOK, RecoveryHasAnOwner, Begin, Unsettled,
         Keeper, Moves, TypeOK
    <2>14. TypeOK'
      <3>1. at' \in [Tasks -> TaskType] /\ rows' \in [Incs -> RowType]
        BY <2>1, <2>6 DEF Moves, OnlyTask, OnlyRow
      <3>2. input' \in {"none", "queued", "dispatching", "completed", "ambiguous"}
        BY <1>5 DEF IInv, TypeOK, Begin, Unsettled
      <3> QED  BY <1>3, <2>4, <2>5, <3>1, <3>2
               DEF IInv, TypeOK, PlanType, TaskType, RowType, SoulType
    <2> QED
      BY <2>7, <2>8, <2>9, <2>10, <2>11, <2>12, <2>13, <2>14 DEF IInv
  <1> QED  BY <1>4, <1>5

LEMMA ProbeHostStep == ASSUME IInv, ProbeHost PROVE IInv'
  <1>1. PICK i \in Incs : i = ActiveFirst(Owned) /\ rows[i].state # "none"
    <2>1. Owned \in SUBSET Incs /\ Owned # {}
      BY DEF ProbeHost, Owned, Made
    <2>2. ActiveFirst(Owned) \in Owned
      BY <2>1, ActiveFirstIs
    <2> QED  BY <2>2 DEF Owned, Made
  <1>2. /\ Keeper.pc = "probe" /\ Wanted /\ Owned # {} /\ plan.goal = "none" /\ up # "down"
        /\ UNCHANGED <<rows, boxes, input, sent, up, crashes, interrupted>>
    BY DEF IInv, PlanOK, ProbeHost, world
  <1>3. /\ soul' \in SoulType /\ soul'.desired = soul.desired
        /\ soul'.recovery = soul.recovery
        /\ ClaimOf(i) /\ claim' \in Incs \cup {0, claim}
        /\ soul'.evidence = "none" => soul.evidence = "none"
    <2>1. CASE Learn(i) \/ UNCHANGED <<soul, claim>>
      <3>1. soul'.evidence = "none" => soul.evidence = "none"
        BY <2>1 DEF IInv, TypeOK, Learn
      <3> QED  BY <2>1, <3>1, Learns DEF IInv
    <2>2. CASE /\ claim \in {0, i} /\ claim' = i
               /\ soul' = [soul EXCEPT !.evidence = "spec"]
      BY <2>2 DEF IInv, TypeOK, SoulType, ClaimOf
    <2> QED  BY <1>1, <2>1, <2>2 DEF ProbeHost
  <1>4. \/ OnlyTask("keeper") /\ at'["keeper"] = At("reattach", i) /\ plan' = plan
        \/ /\ Moves("keeper", "begin") /\ plan' \in PlanType /\ plan'.goal = "none"
           /\ ~plan'.resume => NeverDispatched
        \/ Moves("keeper", "block") /\ plan' = plan
    <2>1. CASE at' = [at EXCEPT !["keeper"] = At("reattach", i)] /\ UNCHANGED plan
      <3>1. At("reattach", i) \in TaskType
        BY DEF At, TaskType, Pcs, Incs
      <3> QED  BY <2>1, <3>1, Typed DEF IInv, OnlyTask
    <2>2. CASE To("begin") /\ Path(soul'.evidence = "spec")
               /\ (soul'.evidence = "spec" \/ NeverDispatched)
      <3>1. Moves("keeper", "begin")
        BY <2>2, ToMoves DEF IInv, Pcs
      <3>2. CASE soul'.evidence = "spec"
        <4>1. plan' = [goal |-> "none", target |-> 0, resume |-> TRUE, empty |-> FALSE]
          BY <2>2, <3>2 DEF Path, NoPlan
        <4> QED  BY <3>1, <4>1 DEF PlanType
      <3>3. CASE soul'.evidence # "spec"
        <4>1. plan' = [goal |-> "none", target |-> 0, resume |-> FALSE, empty |-> FALSE]
          BY <2>2, <3>3 DEF Path, NoPlan
        <4> QED  BY <2>2, <3>1, <3>3, <4>1 DEF PlanType
      <3> QED  BY <3>2, <3>3
    <2>3. CASE To("block") /\ UNCHANGED plan
      BY <2>3, ToMoves DEF IInv, Pcs
    <2> QED  BY <1>1, <2>1, <2>2, <2>3 DEF ProbeHost
  <1>5. Advances(i) /\ RowOK(i)' /\ (Spent(i) => Spent(i)')
    BY <1>1, <1>2, Still
  <1>6. Contiguous' /\ Rows' /\ Lines' /\ OldRowsSpent'
    BY <1>2, <1>3, <1>4, <1>5, RowMoves
  <1>7. Halted'
    BY <1>2, <1>3 DEF Halted, Wanted
  <1>8. Grants'
    <2> SUFFICES ASSUME NEW u \in Tasks PROVE TaskOK(u)'
      BY DEF Grants
    <2>1. CASE u = "keeper"
      BY <1>4, <2>1, Typed DEF IInv, TaskOK, Moves, Activating, At
    <2>2. CASE u # "keeper"
      BY <1>4, <1>5, <2>2, TaskKept DEF Moves, OnlyTask
    <2> QED  BY <2>1, <2>2
  <1>9. PlanOK' /\ StopOK' /\ ReplaceOK'
    <2>1. PlanOK' /\ ReplaceOK'
      BY <1>2, <1>3, <1>4 DEF PlanOK, ReplaceOK, Keeper, Moves, Activating, At, Wanted,
                              Owned, Made
    <2>2. StopOK'
      BY <1>2, <1>4 DEF IInv, StopOK, Keeper, Moves, At
    <2> QED  BY <2>1, <2>2
  <1>10. InputOK' /\ RecoveryHasAnOwner'
    BY <1>2, <1>3, <1>4
       DEF IInv, InputOK, RecoveryHasAnOwner, NeverDispatched, Keeper, Moves,
                            At, TypeOK
  <1>11. TypeOK'
    <2>1. at' \in [Tasks -> TaskType] /\ plan' \in PlanType
      BY <1>4, Typed DEF IInv, Moves, OnlyTask
    <2>2. claim' \in 0..MaxIncs
      BY <1>3 DEF IInv, TypeOK, Incs
    <2> QED  BY <1>2, <1>3, <2>1, <2>2 DEF IInv, TypeOK, PlanType, TaskType, SoulType
  <1> QED  BY <1>6, <1>7, <1>8, <1>9, <1>10, <1>11 DEF IInv

\* A new row, made when no other one is active.
LEMMA NewRow ==
  ASSUME IInv, NEW n \in Incs, \A k \in Incs : rows[k].state # "none" <=> k < n,
         ~SomeActive, NEW p \in 0..MaxIncs, p < n, p # 0 => rows[p].empty,
         NEW r \in BOOLEAN, rows' = [rows EXCEPT ![n] = Row("prepared", p, r)],
         boxes' = boxes, claim' = claim \/ claim' = n, r => claim' = n
  PROVE  /\ rows' \in [Incs -> RowType] /\ rows'[n] = Row("prepared", p, r)
         /\ \A k \in Incs : k # n => rows'[k] = rows[k]
         /\ \A k \in Incs : rows'[k].state # "none" <=> k <= n
         /\ Rows' /\ Lines' /\ OldRowsSpent'
         /\ \A k \in Incs : Spent(k) => Spent(k)'
         /\ rows[n] = NoRow
  <1>1. rows[n] = NoRow /\ RowOK(n) /\ ~rows[n].owned
    <2>1. rows[n].state = "none" /\ RowOK(n)
      BY DEF IInv, Rows, Incs
    <2> QED  BY <2>1 DEF RowOK, NoRow, Row
  <1>2. Row("prepared", p, r) \in RowType
    BY DEF Row, RowType, ActiveStates
  <1>3. /\ rows' \in [Incs -> RowType] /\ rows'[n] = Row("prepared", p, r)
        /\ \A k \in Incs : k # n => rows'[k] = rows[k]
    BY <1>2, Typed DEF IInv
  <1>4. ASSUME NEW k \in Incs, k < n PROVE Spent(k)
    <2>1. RowOK(k) /\ rows[k] \in RowType /\ rows[k].state # "none" /\ ~Active(k)
      BY <1>4, Typed DEF IInv, Rows, SomeActive
    <2> QED  BY <2>1 DEF RowOK, RowType, Active, ActiveStates, Spent, Silent, IsEmpty
  <1>5. ASSUME NEW k \in Incs, k # n PROVE Spent(k)' <=> Spent(k)
    BY <1>3, <1>5 DEF Spent, Silent, IsEmpty
  <1>6. \A k \in Incs : rows'[k].state # "none" <=> k <= n
    BY <1>3 DEF Row, Incs
  <1>7. Rows'
    <2> SUFFICES ASSUME NEW k \in Incs PROVE RowOK(k)'
      BY DEF Rows
    <2>1. CASE k = n
      BY <1>1, <1>3, <2>1, Typed DEF IInv, RowOK, Row, NoRow, BoxType
    <2>2. CASE k # n
      BY <1>3, <2>2 DEF IInv, Rows, RowOK, Silent, IsEmpty
    <2> QED  BY <2>1, <2>2
  <1>8. Lines'
    <2> SUFFICES ASSUME NEW k \in Incs PROVE LineOK(k)'
      BY DEF Lines
    <2>1. CASE k = n
      <3>1. p # 0 => rows'[p].empty
        BY <1>3 DEF Incs
      <3> QED  BY <1>3, <2>1, <3>1 DEF LineOK, Row
    <2>2. CASE k < n
      <3>1. Spent(k)' /\ rows'[k] = rows[k]
        BY <1>3, <1>4, <1>5, <2>2 DEF Incs
      <3> QED  BY <3>1 DEF IInv, Lines, LineOK
    <2>3. CASE k > n
      <3>1. rows'[k] = NoRow
        BY <1>3, <2>3 DEF IInv, Rows, RowOK, Incs
      <3> QED  BY <3>1 DEF LineOK, NoRow, Row, Incs
    <2> QED  BY <2>1, <2>2, <2>3 DEF Incs
  <1>9. OldRowsSpent'
    BY <1>4, <1>5, <1>6 DEF OldRowsSpent, Incs
  <1>10. \A k \in Incs : Spent(k) => Spent(k)'
    BY <1>1, <1>5 DEF Spent, NoRow, Row
  <1> QED  BY <1>1, <1>3, <1>6, <1>7, <1>8, <1>9, <1>10

LEMMA NextRow ==
  ASSUME IInv
  PROVE  \E m \in 0..MaxIncs :
           /\ Cardinality(Made) = m /\ \A k \in Incs : rows[k].state # "none" <=> k < m + 1
           /\ plan.goal = "replace" => m < MaxIncs
  <1>1. PICK m \in 0..MaxIncs :
          /\ \A k \in Incs : rows[k].state # "none" <=> k <= m
          /\ plan.goal = "replace" => m < MaxIncs
    BY DEF IInv, Contiguous
  <1>2. Made = 1..m
    BY <1>1 DEF Made, Incs
  <1>3. Cardinality(Made) = m
    BY <1>2, CountOf
  <1> QED  BY <1>1, <1>3 DEF Incs

LEMMA LaunchNewStep ==
  ASSUME IInv, NEW t \in Launchers, LaunchNew(t) PROVE IInv'
  <1>1. PICK m \in 0..MaxIncs :
           /\ Cardinality(Made) = m /\ \A k \in Incs : rows[k].state # "none" <=> k < m + 1
           /\ plan.goal = "replace" => m < MaxIncs
    BY NextRow
  <1>2. PICK n \in Incs : n = m + 1 /\ (plan.goal = "replace" => n < MaxIncs)
    BY <1>1 DEF LaunchNew, Spare, Incs
  <1>3. UNCHANGED <<boxes, soul, input, sent, plan, up, crashes, interrupted>>
    BY DEF LaunchNew, world
  <1>4. /\ rows' = [rows EXCEPT ![n] = Row("prepared", 0, FALSE)]
        /\ claim' = claim \/ claim' = n
    BY <1>1, <1>2 DEF LaunchNew, Insert
  <1>5. OnlyTask(t) /\ at'[t] = At("prepared", n) /\ at'["keeper"] = at["keeper"]
    <2>1. At("prepared", n) \in TaskType
      BY DEF At, TaskType, Pcs, Activating, Incs
    <2>2. at' = [at EXCEPT ![t] = At("prepared", n)]
      BY <1>1, <1>2 DEF LaunchNew
    <2> QED  BY <2>1, <2>2, Typed DEF IInv, OnlyTask, Tasks
  <1>6. /\ rows' \in [Incs -> RowType] /\ rows'[n] = Row("prepared", 0, FALSE)
        /\ \A k \in Incs : k # n => rows'[k] = rows[k]
        /\ \A k \in Incs : rows'[k].state # "none" <=> k <= n
        /\ Rows' /\ Lines' /\ OldRowsSpent'
        /\ \A k \in Incs : Spent(k) => Spent(k)'
        /\ rows[n] = NoRow
    <2>1. \A k \in Incs : rows[k].state # "none" <=> k < n
      BY <1>1, <1>2
    <2>2. ~SomeActive /\ 0 \in 0..MaxIncs /\ 0 < n
      BY DEF LaunchNew, Incs
    <2> QED  BY <1>3, <1>4, <2>1, <2>2, NewRow
  <1>7. Contiguous'
    <2>1. n \in 0..MaxIncs /\ (plan'.goal = "replace" => n < MaxIncs)
      BY <1>2, <1>3 DEF Incs
    <2> QED  BY <1>6, <2>1 DEF Contiguous
  <1>8. Halted'
    BY <1>3, <1>6 DEF IInv, Halted, Wanted, Row
  <1>9. Grants'
    <2> SUFFICES ASSUME NEW u \in Tasks PROVE TaskOK(u)'
      BY DEF Grants
    <2>1. CASE u = t
      BY <1>3, <1>5, <1>6, <2>1, Typed DEF IInv, TaskOK, Activating, At, Row, BoxType
    <2>2. CASE u # t
      BY <1>3, <1>5, <1>6, <2>2, Typed
         DEF IInv, Grants, TaskOK, Activating, OnlyTask, NoRow, Row
    <2> QED  BY <2>1, <2>2
  <1>10. PlanOK' /\ StopOK' /\ ReplaceOK' /\ InputOK'
    <2>1. \A k \in Incs :
           /\ rows'[k].prior = rows[k].prior
           /\ rows[k].owned => rows'[k].owned
           /\ rows[k].state # "none" => rows'[k].state # "none"
           /\ \/ rows[k].prior # 0
              \/ rows[k].state \in {"stopping", "stopped", "failed"}
              => rows'[k] = rows[k]
           /\ rows'[k] = rows[k] /\ Silent(k) => Silent(k)'
      BY <1>3, <1>6 DEF NoRow, Row, Silent, IsEmpty
    <2> QED  BY <1>3, <1>5, <2>1, KeeperKept, InputKept
  <1>11. TypeOK' /\ RecoveryHasAnOwner'
    BY <1>3, <1>4, <1>5, <1>6, Typed, TypesKept DEF IInv, RecoveryHasAnOwner, OnlyTask
  <1> QED  BY <1>6, <1>7, <1>8, <1>9, <1>10, <1>11 DEF IInv

LEMMA PrepareStep == ASSUME IInv, Prepare PROVE IInv'
  <1>1. PICK m \in 0..MaxIncs :
           /\ Cardinality(Made) = m /\ \A k \in Incs : rows[k].state # "none" <=> k < m + 1
           /\ plan.goal = "replace" => m < MaxIncs
    BY NextRow
  <1>2. /\ plan.goal = "replace" /\ plan.target \in Incs /\ up # "down"
        /\ plan \in PlanType
    BY Typed DEF IInv, PlanOK, Prepare
  <1>3. PICK n \in Incs : n = m + 1 /\ plan.target < n
    BY <1>1, <1>2 DEF Prepare, Incs
  <1>4. UNCHANGED <<boxes, soul, input, sent, up, crashes, interrupted>>
    BY DEF Prepare, world
  <1>5. /\ rows' = [rows EXCEPT ![n] = Row("prepared", plan.target, plan.resume)]
        /\ claim' = claim \/ claim' = n
        /\ plan.resume => claim' = n
    BY <1>1, <1>3 DEF Prepare, Insert
  <1>6. OnlyTask("keeper") /\ at'["keeper"] = At("prepared", n)
    <2>1. At("prepared", n) \in TaskType
      BY DEF At, TaskType, Pcs, Activating, Incs
    <2>2. at' = [at EXCEPT !["keeper"] = At("prepared", n)]
      BY <1>1, <1>3 DEF Prepare
    <2> QED  BY <2>1, <2>2, Typed DEF IInv, OnlyTask
  <1>7. plan' \in PlanType /\ plan'.goal = "activate"
    BY <1>2 DEF Prepare, PlanType
  <1>8. /\ rows' \in [Incs -> RowType]
        /\ rows'[n] = Row("prepared", plan.target, plan.resume)
        /\ \A k \in Incs : k # n => rows'[k] = rows[k]
        /\ \A k \in Incs : rows'[k].state # "none" <=> k <= n
        /\ Rows' /\ Lines' /\ OldRowsSpent'
        /\ \A k \in Incs : Spent(k) => Spent(k)'
        /\ rows[n] = NoRow
    <2>1. \A k \in Incs : rows[k].state # "none" <=> k < n
      BY <1>1, <1>3
    <2>2. /\ ~SomeActive /\ plan.target \in 0..MaxIncs /\ rows[plan.target].empty
          /\ plan.resume \in BOOLEAN
      BY <1>2 DEF Prepare, Incs, PlanType
    <2> QED  BY <1>3, <1>4, <1>5, <2>1, <2>2, NewRow
  <1>9. Contiguous'
    <2>1. n \in 0..MaxIncs /\ plan'.goal # "replace"
      BY <1>7 DEF Incs
    <2> QED  BY <1>8, <2>1 DEF Contiguous
  <1>10. Halted'
    BY <1>4, <1>8 DEF IInv, Halted, Wanted, Row
  <1>11. Grants'
    <2> SUFFICES ASSUME NEW u \in Tasks PROVE TaskOK(u)'
      BY DEF Grants
    <2>1. CASE u = "keeper"
      BY <1>4, <1>6, <1>8, <2>1, Typed DEF IInv, TaskOK, Activating, At, Row, BoxType
    <2>2. CASE u # "keeper"
      BY <1>4, <1>6, <1>8, <2>2, Typed
         DEF IInv, Grants, TaskOK, Activating, OnlyTask, NoRow, Row
    <2> QED  BY <2>1, <2>2
  <1>12. PlanOK' /\ StopOK' /\ ReplaceOK' /\ InputOK'
    BY <1>2, <1>4, <1>6, <1>7, <1>8
       DEF IInv, PlanOK, StopOK, ReplaceOK, InputOK, Keeper, Activating, At, Row, Incs
  <1>13. TypeOK' /\ RecoveryHasAnOwner'
    <2>1. claim' \in 0..MaxIncs
      BY <1>5 DEF IInv, TypeOK, Incs
    <2> QED  BY <1>4, <1>6, <1>7, <1>8, <2>1
             DEF IInv, TypeOK, RecoveryHasAnOwner, OnlyTask, PlanType, TaskType, RowType
  <1> QED  BY <1>8, <1>9, <1>10, <1>11, <1>12, <1>13 DEF IInv

-----------------------------------------------------------------------------
(* The invariant holds.                                                    *)

LEMMA InitIInv == Init => IInv
  <1> SUFFICES ASSUME Init PROVE IInv
    OBVIOUS
  <1>1. TypeOK
    <2>1. NoRow \in RowType /\ NoBox \in BoxType
      BY DEF NoRow, Row, NoBox, RowType, BoxType
    <2>2. Idle \in TaskType /\ NoPlan \in PlanType
      BY DEF Idle, At, NoPlan, TaskType, PlanType, Pcs
    <2>3. /\ rows \in [Incs -> RowType] /\ boxes \in [Incs -> BoxType]
          /\ at \in [Tasks -> TaskType] /\ plan \in PlanType
      BY <2>1, <2>2 DEF Init
    <2>4. soul \in SoulType /\ claim \in 0..MaxIncs /\ crashes \in 0..MaxCrashes
      BY DEF Init, SoulType
    <2> QED  BY <2>3, <2>4 DEF Init, TypeOK, RowType, BoxType, TaskType, PlanType, SoulType
  <1>2. \A i \in Incs : rows[i] = NoRow /\ boxes[i] = NoBox
    BY DEF Init
  <1>3. Keeper = Idle /\ \A t \in Tasks : at[t] = Idle
    BY DEF Init, Keeper, Tasks
  <1>4. Contiguous
    <2>1. \A i \in Incs : rows[i].state # "none" <=> i <= 0
      BY <1>2 DEF NoRow, Row, Incs
    <2>2. 0 \in 0..MaxIncs /\ plan.goal # "replace"
      BY DEF Init, NoPlan
    <2> QED  BY <2>1, <2>2 DEF Contiguous
  <1>5. Rows /\ Lines /\ OldRowsSpent
    BY <1>2 DEF Rows, RowOK, Lines, LineOK, OldRowsSpent, NoRow, Row, NoBox, Incs
  <1>6. Halted /\ Grants /\ RecoveryHasAnOwner
    BY <1>2, <1>3 DEF Init, Halted, Wanted, Grants, TaskOK, RecoveryHasAnOwner, Activating,
                      Idle, At
  <1>7. PlanOK /\ StopOK /\ ReplaceOK /\ InputOK
    BY <1>3 DEF Init, PlanOK, StopOK, ReplaceOK, InputOK, Idle, At, NoPlan, Activating
  <1> QED  BY <1>1, <1>4, <1>5, <1>6, <1>7 DEF IInv

LEMMA ActivateStep == ASSUME IInv, NEW t \in Tasks, Activate(t) PROVE IInv'
  BY RegisterStep, StartHostStep, AuthenticateStep, CommitGrantStep, EnableLongLivedStep,
     SendGrantStep, SpawnFailsStep, MarkRunningStep, LaunchedStep, ActivationFailsStep
     DEF Activate

LEMMA KeeperIInv == ASSUME IInv, KeeperStep PROVE IInv'
  <1>1. "keeper" \in Tasks
    BY DEF Tasks
  <1> QED
    BY <1>1, ActivateStep, RetireStep, ProbeStoppedStep, ProbeOfflineStep, ProbeHostStep,
       ProbeBlockedStep, ReattachStep, BeginStep, BudgetSpentStep, StopBoxStep,
       MarkOutcomeStep, PrepareStep, ConfirmStep, ReplayStep, SucceedStep, BlockStep,
       MarkDispatchingStep, DeliverStep, DeliveryFailsStep, SettleStep, KeeperFailsStep
       DEF KeeperStep

LEMMA StutterStep == ASSUME IInv, UNCHANGED vars PROVE IInv'
  <1>1. UNCHANGED <<soul, input, rows, claim, boxes, sent, at, plan, up, crashes,
                    interrupted>>
    BY DEF vars
  <1>2. TypeOK' /\ Contiguous' /\ Rows' /\ Lines' /\ OldRowsSpent' /\ Halted'
    BY <1>1 DEF IInv, TypeOK, Contiguous, Rows, RowOK, Lines, LineOK, OldRowsSpent, Halted,
                Spent, Silent, IsEmpty, Wanted
  <1>3. Grants' /\ PlanOK' /\ StopOK' /\ ReplaceOK' /\ InputOK' /\ RecoveryHasAnOwner'
    BY <1>1
       DEF IInv, Grants, TaskOK, PlanOK, StopOK, ReplaceOK, InputOK, RecoveryHasAnOwner,
                Keeper, Spent, Silent, IsEmpty, Wanted, Owned, Made
  <1> QED  BY <1>2, <1>3 DEF IInv

LEMMA NextIInv == IInv /\ [Next]_vars => IInv'
  <1> SUFFICES ASSUME IInv, [Next]_vars PROVE IInv'
    OBVIOUS
  <1>1. ASSUME NEW t \in Launchers, LaunchNew(t) \/ Activate(t) PROVE IInv'
    BY <1>1, LaunchNewStep, ActivateStep DEF Tasks
  <1>2. ASSUME NEW t \in Launchers, NEW i \in Incs, LaunchAgain(t, i) PROVE IInv'
    BY <1>2, LaunchAgainStep
  <1>3. ASSUME Recover \/ Observe \/ GiveUp \/ KeeperStep PROVE IInv'
    BY <1>3, RecoverStep, ObserveStep, GiveUpStep, KeeperIInv
  <1>4. ASSUME BeginStop \/ BeginInput PROVE IInv'
    BY <1>4, BeginStopStep, BeginInputStep
  <1>5. ASSUME NEW i \in Incs, WorkerExits(i) \/ HostExits(i) \/ DockerRestarts(i)
        PROVE IInv'
    BY <1>5, WorkerExitsStep, HostExitsStep, DockerRestartsStep
  <1>6. ASSUME Crash \/ Restart \/ ScanTimesOut \/ Serve PROVE IInv'
    BY <1>6, CrashStep, RestartStep, ScanTimesOutStep, ServeStep
  <1>7. ASSUME NEW i \in Incs, RecordRead(i) \/ StoreRead(i) PROVE IInv'
    BY <1>7, ReadStep
  <1>8. CASE UNCHANGED vars
    BY <1>8, StutterStep
  <1> QED  BY <1>1, <1>2, <1>3, <1>4, <1>5, <1>6, <1>7, <1>8 DEF Next

\* The inductive invariant of the registry, the keeper and the launchers, on
\* which the safety theorems rest.
THEOREM Invariant == Spec => []IInv
  BY InitIInv, NextIInv, PTL DEF Spec

-----------------------------------------------------------------------------
(* What follows from it.                                                   *)

LEMMA WorkerIsGranted ==
  ASSUME IInv, NEW i \in Incs, boxes[i].granted
  PROVE  /\ rows[i].state \in {"starting", "running", "stopping"}
         /\ ~Silent(i) /\ ~Spent(i)
  <1>1. RowOK(i) /\ boxes[i].boot \in Nat
    BY Typed DEF IInv, Rows, BoxType
  <1> QED  BY <1>1 DEF RowOK, Silent, Spent, IsEmpty

LEMMA WorkerOf ==
  ASSUME IInv, NEW i \in Incs, Works(i)
  PROVE  boxes[i].granted
  BY DEF IInv, Rows, RowOK, Works

\* Two boxes that were granted an execution are the same.
LEMMA GrantedOnce ==
  ASSUME IInv, NEW i \in Incs, NEW j \in Incs, boxes[i].granted, boxes[j].granted
  PROVE  i = j
  <1>1. ~Spent(i) /\ ~Spent(j) /\ rows[i].state # "none" /\ rows[j].state # "none"
    BY WorkerIsGranted
  <1> QED  BY <1>1 DEF IInv, OldRowsSpent, Incs

\* The types of the registry's rows, the claim, the boxes and the tasks
\* (registry.rs, recovery.rs), in every reachable state.
THEOREM Types == Spec => []TypeOK
  BY Invariant, PTL DEF IInv

\* At most one worker of the soul runs, whatever launches, recoveries and
\* restarts overlap (commit_execution_grant, recover): two boxes that
\* were granted an execution are the same box.
THEOREM OneWriterHolds == Spec => []OneWriter
  <1>1. IInv => OneWriter
    BY WorkerOf, GrantedOnce DEF OneWriter
  <1> QED  BY <1>1, Invariant, PTL

\* A container whose emptiness is on record (mark_stop_outcome) never
\* has a worker: such a row is silent, and a silent row has no grant.
THEOREM EmptyStaysEmptyHolds == Spec => []EmptyStaysEmpty
  <1>1. IInv => EmptyStaysEmpty
    <2> SUFFICES ASSUME IInv, NEW i \in Incs, rows[i].empty, Works(i) PROVE FALSE
      BY DEF EmptyStaysEmpty
    <2> QED  BY WorkerOf, WorkerIsGranted DEF IInv, Rows, RowOK
  <1> QED  BY <1>1, Invariant, PTL

\* A replacement (prepare_replacement) works only over a row verified empty.
THEOREM ReplacedIsEmptyHolds == Spec => []ReplacedIsEmpty
  <1>1. IInv => ReplacedIsEmpty
    BY WorkerOf, WorkerIsGranted DEF ReplacedIsEmpty, IInv, Lines, LineOK
  <1> QED  BY <1>1, Invariant, PTL

\* The writer claim (writer_claims): while a worker writes, no other granted
\* row holds it, and a worker that resumed a session holds it.
THEOREM WriterHoldsClaimHolds == Spec => []WriterHoldsClaim
  <1>1. IInv => WriterHoldsClaim
    <2> SUFFICES ASSUME IInv, NEW i \in Incs, Works(i)
                 PROVE  /\ claim \in {0, i} \/ ~boxes[claim].granted
                        /\ rows[i].resume => claim = i
      BY DEF WriterHoldsClaim
    <2>1. claim = 0 \/ claim \in Incs
      BY DEF IInv, TypeOK, Incs
    <2>2. claim \in {0, i} \/ ~boxes[claim].granted
      BY <2>1, WorkerOf, GrantedOnce
    <2>3. rows[i].resume => claim = i
      BY WorkerOf, WorkerIsGranted DEF IInv, Lines, LineOK
    <2> QED  BY <2>2, <2>3
  <1> QED  BY <1>1, Invariant, PTL

\* The stop intent wins (begin_stop_expected): a worker of a stopped soul is in
\* a row still being stopped.
THEOREM StopWinsHolds == Spec => []StopWins
  <1>1. IInv => StopWins
    <2> SUFFICES ASSUME IInv, NEW i \in Incs, soul.desired = "stopped", Works(i)
                 PROVE  rows[i].state = "stopping"
      BY DEF StopWins
    <2> QED  BY WorkerOf, WorkerIsGranted DEF IInv, Halted, Wanted
  <1> QED  BY <1>1, Invariant, PTL

\* The input reaches a worker at most once (mark_input_dispatching and the
\* replay after a recovery).
THEOREM InputReachesOneWorkerHolds == Spec => []InputReachesOneWorker
  BY Invariant, PTL DEF IInv, InputOK, InputReachesOneWorker

\* Every way out of a recovery (recover) that is not cut off leaves a
\* verdict.
THEOREM RecoveryHasAnOwnerHolds == Spec => []RecoveryHasAnOwner
  BY Invariant, PTL DEF IInv

\* A row is made with a row to replace only by prepare_replacement.
LEMMA PriorKept ==
  ASSUME IInv, [Next]_vars, ~Prepare
  PROVE  \A k \in Incs : rows'[k].prior = rows[k].prior
  <1>1. ASSUME NEW t \in Launchers, LaunchNew(t)
        PROVE  \A k \in Incs : rows'[k].prior = rows[k].prior
    <2>1. PICK m \in 0..MaxIncs :
            /\ Cardinality(Made) = m
            /\ \A k \in Incs : rows[k].state # "none" <=> k < m + 1
      BY NextRow
    <2>2. PICK n \in Incs : n = m + 1
      BY <1>1, <2>1 DEF LaunchNew, Spare, Incs
    <2>3. rows[n].prior = 0
      BY <2>1, <2>2 DEF IInv, Rows, RowOK, NoRow, Row, Incs
    <2>4. rows' = [rows EXCEPT ![n] = Row("prepared", 0, FALSE)]
      BY <1>1, <2>1, <2>2 DEF LaunchNew, Insert
    <2> QED  BY <2>3, <2>4, Typed DEF IInv, Row
  <1>2. ASSUME NEW t \in Tasks, Activate(t)
        PROVE  \A k \in Incs : rows'[k].prior = rows[k].prior
    <2>1. CASE Register(t)
      BY <2>1, Typed DEF IInv, Register, RowType
    <2>2. CASE CommitGrant(t)
      BY <2>2, Typed DEF IInv, CommitGrant, RowType
    <2>3. CASE MarkRunning(t)
      BY <2>3, Typed DEF IInv, MarkRunning, RowType
    <2>4. CASE ~(Register(t) \/ CommitGrant(t) \/ MarkRunning(t))
      BY <1>2, <2>4 DEF Activate, StartHost, Authenticate, EnableLongLived, SendGrant,
                        SpawnFails, Launched, ActivationFails, registry
    <2> QED  BY <2>1, <2>2, <2>3, <2>4
  <1>3. CASE Retire
    BY <1>3, Typed DEF IInv, Retire, RowType
  <1>4. CASE Begin
    BY <1>4, Typed DEF IInv, Begin, RowType
  <1>5. CASE MarkOutcome
    BY <1>5, Typed DEF IInv, MarkOutcome, RowType
  <1>6. CASE BeginStop
    BY <1>6, Typed DEF IInv, BeginStop, RowType
  <1>7. CASE KeeperStep /\ ~(Retire \/ Begin \/ MarkOutcome)
    <2>1. CASE Activate("keeper")
      BY <1>2, <2>1 DEF Tasks
    <2>2. CASE ~Activate("keeper")
      BY <1>7, <2>2
         DEF KeeperStep, ProbeStopped, ProbeOffline, ProbeHost, ProbeBlocked, Reattach,
             BudgetSpent, StopBox, Confirm, Replay, Succeed, Block, MarkDispatching,
             Deliver, DeliveryFails, Settle, KeeperFails, registry
    <2> QED  BY <2>1, <2>2
  <1>8. CASE \/ Recover \/ Observe \/ GiveUp \/ BeginInput
             \/ Crash \/ Restart \/ ScanTimesOut \/ Serve
    BY <1>8 DEF Recover, Observe, GiveUp, BeginInput, Crash, Restart, ScanTimesOut, Serve,
                registry
  <1>9. CASE \/ \E i \in Incs : WorkerExits(i) \/ HostExits(i) \/ DockerRestarts(i)
             \/ \E t \in Launchers, i \in Incs : LaunchAgain(t, i)
             \/ \E i \in Incs : RecordRead(i) \/ StoreRead(i)
    BY <1>9 DEF WorkerExits, HostExits, DockerRestarts, LaunchAgain, RecordRead,
                StoreRead, registry
  <1>10. CASE UNCHANGED vars
    BY <1>10 DEF vars
  <1> QED
    BY <1>1, <1>2, <1>3, <1>4, <1>5, <1>6, <1>7, <1>8, <1>9, <1>10 DEF Next, Tasks

\* A replacement that resumes nothing (prepare_replacement) is only made for
\* a soul whose worker received nothing.
THEOREM BlankOnlyIfUntouchedHolds == Spec => BlankOnlyIfUntouched
  <1> DEFINE Blank == \A i \in Incs : rows[i].state = "none" /\ rows'[i].prior # 0
                                     /\ ~rows'[i].resume => sent = 0
  <1>1. IInv /\ [Next]_vars => Blank
    <2> SUFFICES ASSUME IInv, [Next]_vars, NEW i \in Incs, rows[i].state = "none",
                        rows'[i].prior # 0, ~rows'[i].resume
                 PROVE  sent = 0
      OBVIOUS
    <2>1. rows[i].prior = 0
      BY DEF IInv, Rows, RowOK, NoRow, Row
    <2>2. Prepare
      BY <2>1, PriorKept
    <2>3. ~plan.resume
      <3>1. plan.resume \in BOOLEAN
        BY Typed DEF IInv, PlanType
      <3>2. rows'[i] # rows[i]
        BY <2>1
      <3>3. rows' = [rows EXCEPT ![Cardinality(Made) + 1]
                                   = Row("prepared", plan.target, plan.resume)]
        BY <2>2 DEF Prepare, Insert
      <3>4. rows'[i] = Row("prepared", plan.target, plan.resume)
        BY <3>2, <3>3, Typed DEF IInv
      <3> QED  BY <3>1, <3>4 DEF Row
    <2> QED  BY <2>2, <2>3 DEF IInv, InputOK, Prepare
  <1>2. IInv /\ [Next]_vars => [Blank]_vars
    BY <1>1
  <1> QED  BY <1>2, Invariant, PTL DEF Spec, BlankOnlyIfUntouched
============================================================================
