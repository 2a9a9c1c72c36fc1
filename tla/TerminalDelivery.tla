--------------------------- MODULE TerminalDelivery ---------------------------
(***************************************************************************)
(* The output of one terminal on its way to one pane: the terminal's       *)
(* replay ring and subscriber (freshell-terminal registry.rs), the paced   *)
(* replay session and its drain task (freshell-ws paced_replay.rs), the    *)
(* connection's output queue and writer (terminal_delivery_queue.rs,       *)
(* connection_writer.rs) and the pane's sequence state, credits and        *)
(* repairs (TerminalView.tsx and its two libraries).                       *)
(*                                                                         *)
(* Every output frame is one sequence position and costs one unit of the   *)
(* queue.  The connection negotiated paced replay.  A second terminal, the *)
(* closing of a stalled connection and the kill of a terminal are left     *)
(* out.                                                                    *)
(***************************************************************************)
EXTENDS Integers, Sequences, FiniteSets, SequencesExt, FiniteSetsExt

CONSTANTS
  MaxSeq,       \* bound: how much the terminal prints
  RingFrames,   \* frames the replay ring retains
  PageFrames,   \* frames of a replay page (the page budget)
  QueueLimit,   \* frames the connection's output queue may hold
  MaxGens       \* bound: attachments the pane makes

ASSUME DeliveryAssumption ==
  /\ {MaxSeq, RingFrames, PageFrames, QueueLimit, MaxGens} \subseteq Nat \ {0}
  /\ PageFrames < QueueLimit

VARIABLES
  head,      \* the terminal's last sequence position
  alive,     \* the process runs
  sub,       \* the connection's subscriber of the terminal; gen 0: none
  session,   \* the paced session in the connection's table; gen 0: none
  pc,        \* where the connection's dispatcher is
  notified,  \* a staged exit's notification waits for the dispatcher
  drains,    \* the drain task of each attachment
  out,       \* the connection's output: lane, overflow gaps, frame in flight
  controls,  \* the control lane, which preempts the output lane
  up,        \* what the pane sent and the dispatcher has not handled
  pane,      \* the pane
  seen       \* history: what the server's current attachment was sent

vars == <<head, alive, sub, session, pc, notified, drains, out, controls, up, pane, seen>>

Gens == 1 .. MaxGens

NoSub == [gen |-> 0, deferred |-> FALSE, boundary |-> 0, staged |-> FALSE]
NoSession == [gen |-> 0, target |-> 0, exitHead |-> 0, credited |-> 0, pageEnd |-> 0]
NoDrain == [at |-> "off", target |-> 0, cursor |-> 0, handing |-> FALSE, lostTo |-> 0]
NoPane == [gen |-> 0, open |-> FALSE, target |-> -1, frontier |-> 0, inbox |-> {},
           sent |-> 0, applied |-> 0, pin |-> 0, gaveUp |-> FALSE, exited |-> FALSE]
NoView == [gen |-> 0, base |-> 0, got |-> {}, open |-> FALSE, ended |-> FALSE]

Init ==
  /\ head = 0 /\ alive = TRUE
  /\ sub = NoSub /\ session = NoSession
  /\ pc = "idle" /\ notified = FALSE
  /\ drains = [g \in Gens |-> NoDrain]
  /\ out = [lane |-> <<>>, spill |-> <<>>, wire |-> <<>>]
  /\ controls = <<>> /\ up = <<>>
  /\ pane = NoPane
  /\ seen = NoView

-------------------------------------------------------------------------------
(* The connection's output queue.                                          *)

Item(kind, gen, from, to) == [kind |-> kind, gen |-> gen, from |-> from, to |-> to]
Frames(gen, from, to) == [i \in 1 .. (to - from) |-> Item("frame", gen, from + i, from + i)]
\* Mutant: an empty range is declared too.
GapAlways(kind, gen, from, to) == <<Item(kind, gen, from, to)>>
Gap(kind, gen, from, to) == IF from <= to THEN <<Item(kind, gen, from, to)>> ELSE <<>>
ExitItem(gen) == Item("exit", gen, 0, 0)

FramesAt(lane) == {i \in DOMAIN lane : lane[i].kind = "frame"}
\* The frame being written stays charged until its flush ends; sequenced gaps
\* and exits weigh nothing.
InFlight(q) == IF q.wire # <<>> /\ q.wire[1].kind \in {"frame", "overflow"} THEN 1 ELSE 0
Backlog(q) == Cardinality(FramesAt(q.lane)) + InFlight(q)

\* Mutant: an eviction leaves no gap.
SpilledSilently(spill, e) == spill

\* An evicted frame joins the last overflow gap when it follows it.
Spilled(spill, e) ==
  IF spill # <<>> /\ Last(spill).gen = e.gen /\ e.from <= Last(spill).to + 1
    THEN Append(Front(spill), Item("overflow", e.gen, Min({Last(spill).from, e.from}),
                                                      Max({Last(spill).to, e.to})))
    ELSE Append(spill, Item("overflow", e.gen, e.from, e.to))

\* The oldest queued frame; when only exits and gaps are left, none.
EvictOldest(q) ==
  LET i == Min(FramesAt(q.lane))
  IN IF FramesAt(q.lane) = {} THEN q
     ELSE [q EXCEPT !.lane = RemoveAt(@, i), !.spill = Spilled(@, q.lane[i])]

\* Admission never waits: it appends and evicts the oldest frames past the limit.
Sink(q, items) ==
  LET full == [q EXCEPT !.lane = @ \o items]
      over == Max({0, Backlog(full) - QueueLimit})
      turns[n \in 0 .. over] == IF n = 0 THEN full ELSE EvictOldest(turns[n - 1])
  IN turns[over]

\* attach.ready supersedes whatever the terminal still has queued.
Discard(q) == [q EXCEPT !.lane = <<>>, !.spill = <<>>]

-------------------------------------------------------------------------------
(* The terminal and its ring.                                              *)

Oldest == Max({1, head - RingFrames + 1})
\* The end of the page that starts after `from` in the window up to `to`.
PageEnd(from, to) == Max({from, Min({to, head, from + PageFrames})})

Produce ==
  /\ alive /\ head < MaxSeq
  /\ head' = head + 1
  /\ out' = IF sub.gen # 0 /\ ~sub.deferred
              THEN Sink(out, Frames(sub.gen, head, head + 1)) ELSE out
  /\ UNCHANGED <<alive, sub, session, pc, notified, drains, controls, up, pane, seen>>

\* The exit of a deferred subscriber is staged; any other is told and retired.
Exit ==
  /\ alive
  /\ alive' = FALSE
  /\ IF sub.deferred
       THEN /\ sub' = [sub EXCEPT !.staged = TRUE]
            /\ notified' = TRUE
            /\ UNCHANGED <<out, seen>>
       ELSE /\ out' = IF sub.gen # 0 THEN Sink(out, <<ExitItem(sub.gen)>>) ELSE out
            /\ seen' = [seen EXCEPT !.ended = @ \/ sub.gen # 0]
            /\ sub' = NoSub
            /\ UNCHANGED notified
  /\ UNCHANGED <<head, session, pc, drains, controls, up, pane>>

-------------------------------------------------------------------------------
(* The dispatcher: attach, the start of a session, credits.                *)

PhaseTarget(s) == Max({s.target, s.exitHead})
\* Extend the credited phase to the final head once an exit is staged.
Arm(s) == IF s.gen # 0 /\ sub.staged /\ s.exitHead = 0 THEN [s EXCEPT !.exitHead = head] ELSE s

Received(kind) == pc = "idle" /\ up # <<>> /\ Head(up).kind = kind /\ up' = Tail(up)

Ready(gen) == [gen |-> gen, target |-> head]

\* A running terminal: the subscriber is deferred, the ring is the staging.
AttachRunning ==
  /\ alive /\ Received("attach")
  /\ LET m == Head(up)
         base == Max({m.seq, Oldest - 1})
     IN /\ sub' = [NoSub EXCEPT !.gen = m.gen, !.deferred = TRUE]
        /\ session' = [gen |-> m.gen, target |-> head, exitHead |-> 0,
                       credited |-> base, pageEnd |-> PageEnd(base, head)]
        /\ out' = Sink(Discard(out), Gap("retention", m.gen, m.seq + 1, Oldest - 1))
        /\ controls' = Append(controls, Ready(m.gen))
        /\ seen' = [gen |-> m.gen, base |-> m.seq, got |-> {}, open |-> TRUE, ended |-> FALSE]
  /\ pc' = "start"
  /\ UNCHANGED <<head, alive, notified, drains, pane>>

\* An exited terminal: the whole retained replay and the exit, inline.
AttachExited ==
  /\ ~alive /\ Received("attach")
  /\ LET m == Head(up)
         base == Max({m.seq, Oldest - 1})
     IN /\ out' = Sink(Discard(out), Frames(m.gen, base, head) \o <<ExitItem(m.gen)>>)
        /\ controls' = Append(controls, Ready(m.gen))
        /\ seen' = [gen |-> m.gen, base |-> base, got |-> {}, open |-> TRUE, ended |-> TRUE]
  /\ sub' = NoSub /\ session' = NoSession
  /\ UNCHANGED <<head, alive, pc, notified, drains, pane>>

DetachPane ==
  /\ Received("detach")
  /\ sub' = NoSub /\ session' = NoSession
  /\ seen' = NoView
  /\ UNCHANGED <<head, alive, pc, notified, drains, out, controls, pane>>

\* The first page, built by the attach, is sunk; an uncredited one waits.
StartSession ==
  /\ pc = "start"
  /\ out' = Sink(out, Frames(session.gen, session.credited, session.pageEnd))
  /\ session' = Arm(session)
  /\ pc' = IF session.credited < session.pageEnd /\ session.pageEnd < PhaseTarget(Arm(session))
             THEN "idle" ELSE "drive"
  /\ UNCHANGED <<head, alive, sub, notified, drains, controls, up, pane, seen>>

\* Mutant: progress within the page grants the next one.
CreditAcceptedPartial(m) ==
  m.gen = session.gen /\ m.seq > session.credited /\ m.seq <= session.pageEnd

\* Only the end of the last page grants the next one.
CreditAccepted(m) ==
  /\ m.gen = session.gen
  /\ m.seq > session.credited
  /\ m.seq = session.pageEnd

Credit ==
  /\ Received("credit")
  /\ LET m == Head(up)
     IN IF CreditAccepted(m)
          THEN session' = Arm([session EXCEPT !.credited = m.seq]) /\ pc' = "drive"
          ELSE UNCHANGED <<session, pc>>
  /\ UNCHANGED <<head, alive, sub, notified, drains, out, controls, pane, seen>>

\* The notification only extends the phase of a session still in the table.
NotifyArm ==
  /\ pc = "idle" /\ notified
  /\ notified' = FALSE
  /\ session' = Arm(session)
  /\ UNCHANGED <<head, alive, sub, pc, drains, out, controls, up, pane, seen>>

\* One read of drive_session: a page, or the gap of an expired window.  The
\* drive of the settle's wedge guard ends with a page out, so the session stays.
Drive ==
  /\ pc \in {"drive", "guard"}
  /\ LET s == session
         to == PhaseTarget(s)
         end == PageEnd(s.pageEnd, to)
         covered(end_) == IF pc = "guard" THEN "idle" ELSE IF end_ < to THEN "active" ELSE "covered"
     IN \/ /\ s.pageEnd >= to
           /\ pc' = covered(to)
           /\ UNCHANGED <<session, out>>
        \/ /\ s.pageEnd < to /\ s.pageEnd + 1 < Oldest
           /\ out' = Sink(out, Gap("retention", s.gen, s.pageEnd + 1, Oldest - 1))
           /\ session' = [s EXCEPT !.pageEnd = Oldest - 1]
           /\ pc' = pc
        \/ /\ s.pageEnd < to /\ s.pageEnd + 1 >= Oldest
           /\ out' = Sink(out, Frames(s.gen, s.pageEnd, end))
           /\ session' = [s EXCEPT !.pageEnd = end]
           /\ pc' = covered(end)
  /\ UNCHANGED <<head, alive, sub, notified, drains, controls, up, pane, seen>>

\* The disposition, from one hold of the terminal's lock after the drive.
SettleStays ==
  /\ pc \in {"active", "covered"}
  /\ IF sub.staged THEN session.credited < session.pageEnd ELSE pc = "active"
  /\ session' = Arm(session) /\ pc' = "idle"
  /\ UNCHANGED <<head, alive, sub, notified, drains, out, controls, up, pane, seen>>

SettleGuards ==
  /\ pc \in {"active", "covered"} /\ sub.staged
  /\ session.credited = session.pageEnd /\ session.pageEnd < head
  /\ session' = Arm(session) /\ pc' = "guard"
  /\ UNCHANGED <<head, alive, sub, notified, drains, out, controls, up, pane, seen>>

\* Mutant: the session is dropped and no drain is spawned.
SettleTransfersNowhere ==
  /\ pc = "covered" /\ ~sub.staged
  /\ session' = NoSession /\ pc' = "idle"
  /\ UNCHANGED <<head, alive, sub, notified, drains, out, controls, up, pane, seen>>

SettleTransfers ==
  /\ pc \in {"active", "covered"}
  /\ IF sub.staged THEN session.credited = session.pageEnd /\ session.pageEnd >= head
                   ELSE pc = "covered"
  /\ drains' = [drains EXCEPT ![session.gen] =
                  [NoDrain EXCEPT !.at = "start", !.cursor = session.pageEnd]]
  /\ session' = NoSession /\ pc' = "idle"
  /\ UNCHANGED <<head, alive, sub, notified, out, controls, up, pane, seen>>

-------------------------------------------------------------------------------
(* The drain task of an attachment, off the dispatcher.                    *)

\* The fixed target is captured once.
DrainStart(g) ==
  /\ drains[g].at = "start"
  /\ drains' = [drains EXCEPT ![g] = [@ EXCEPT !.at = "wait", !.target = head]]
  /\ UNCHANGED <<head, alive, sub, session, pc, notified, out, controls, up, pane, seen>>

\* A page is reserved against the backlog and the other drains' pages before
\* the registry is asked for it.
Reserved == PageFrames * Cardinality({g \in Gens : drains[g].at \in {"read", "gap"}})
Watermark == Max({QueueLimit \div 2, PageFrames})

\* Mutant: the backlog is not counted.
CanReserveIgnoringBacklog == Reserved + PageFrames <= Watermark

CanReserve == Backlog(out) + Reserved + PageFrames <= Watermark

Reserve(g) ==
  /\ drains[g].at = "wait" /\ CanReserve
  /\ drains' = [drains EXCEPT ![g].at = "read"]
  /\ UNCHANGED <<head, alive, sub, session, pc, notified, out, controls, up, pane, seen>>

\* The registry refuses the drain of a superseded or detached attachment.
DrainGone(g) ==
  /\ drains[g].at = "read" /\ sub.gen # g
  /\ drains' = [drains EXCEPT ![g] = NoDrain]
  /\ UNCHANGED <<head, alive, sub, session, pc, notified, out, controls, up, pane, seen>>

\* The completing hold: the last items, the end of the deferral, a staged exit.
Completes(g, items) ==
  /\ out' = Sink(out, IF sub.staged THEN Append(items, ExitItem(g)) ELSE items)
  /\ sub' = IF sub.staged THEN NoSub ELSE [sub EXCEPT !.deferred = FALSE, !.boundary = 0]
  /\ seen' = [seen EXCEPT !.ended = sub.staged]
  /\ drains' = [drains EXCEPT ![g] = NoDrain]

\* A page that does not complete; covering the target fixes the boundary.
DrainsOn(g, end, covered) ==
  /\ out' = Sink(out, Frames(g, drains[g].cursor, end))
  /\ sub' = IF covered THEN [sub EXCEPT !.boundary = head] ELSE sub
  /\ drains' = [drains EXCEPT ![g] =
                  [drains[g] EXCEPT !.at = "wait", !.cursor = end, !.handing = @ \/ covered]]
  /\ UNCHANGED seen

\* Paging toward the target: complete_paced_tail.
DrainPages(g) ==
  /\ drains[g].at = "read" /\ sub.gen = g /\ ~drains[g].handing
  /\ LET from == drains[g].cursor
         end == PageEnd(from, drains[g].target)
     IN \/ from >= head /\ Completes(g, <<>>)
        \/ /\ from < head /\ from + 1 < Oldest
           /\ drains' = [drains EXCEPT ![g] = [@ EXCEPT !.at = "gap", !.lostTo = Oldest - 1]]
           /\ UNCHANGED <<sub, out, seen>>
        \/ /\ from < head /\ from + 1 >= Oldest
           /\ IF end >= head THEN Completes(g, Frames(g, from, end))
                             ELSE DrainsOn(g, end, end >= drains[g].target)
  /\ UNCHANGED <<head, alive, session, pc, notified, controls, up, pane>>

\* The gap of an expired read is sunk outside the terminal's lock.
DrainSinksGap(g) ==
  /\ drains[g].at = "gap"
  /\ out' = Sink(out, Gap("retention", g, drains[g].cursor + 1, drains[g].lostTo))
  /\ drains' = [drains EXCEPT ![g] = [@ EXCEPT !.at = "wait", !.cursor = drains[g].lostTo, !.lostTo = 0]]
  /\ UNCHANGED <<head, alive, sub, session, pc, notified, controls, up, pane, seen>>

\* Paging what was staged past the target, toward the fixed boundary only:
\* handoff_paced_tail.  What the ring holds past it is declared, not sent.
DrainHandsOff(g) ==
  /\ drains[g].at = "read" /\ sub.gen = g /\ drains[g].handing
  /\ LET from == drains[g].cursor
         end == PageEnd(from, sub.boundary)
     IN \/ /\ from + 1 < Oldest
           /\ Completes(g, Gap("retention", g, from + 1, Oldest - 1) \o Gap("residual", g, Oldest, head))
        \/ /\ from + 1 >= Oldest
           /\ IF end >= sub.boundary
                THEN Completes(g, Frames(g, from, end) \o Gap("residual", g, end + 1, head))
                ELSE DrainsOn(g, end, FALSE)
  /\ UNCHANGED <<head, alive, session, pc, notified, controls, up, pane>>

-------------------------------------------------------------------------------
(* The pane.                                                               *)

\* A new attachment: the cursor and the credits start at its base.
BeginAttach(p, since) ==
  [gen |-> p.gen + 1, open |-> TRUE, target |-> -1, frontier |-> since, inbox |-> {},
   sent |-> since, applied |-> since, pin |-> 0, gaveUp |-> FALSE, exited |-> FALSE]

Message(kind, gen, seq) == [kind |-> kind, gen |-> gen, seq |-> seq]

\* A lost range pins the applied cursor below it.
Pin(p, e) == [p EXCEPT !.pin = IF @ = 0 THEN e.from ELSE Min({@, e.from})]

\* The pane handles one item of its current attachment.  A delivery loss is
\* repaired by one new attachment from the applied cursor, while any are left.
Handle(e) ==
  IF pane.exited \/ ~pane.open \/ (e.kind # "exit" /\ e.gen # pane.gen)
    THEN UNCHANGED <<pane, up>>
  ELSE IF e.kind = "exit"
    THEN pane' = [pane EXCEPT !.exited = TRUE, !.inbox = {}] /\ UNCHANGED up
  ELSE IF e.kind = "frame"
    THEN pane' = [pane EXCEPT !.inbox = @ \cup {e.from}] /\ UNCHANGED up
  ELSE IF e.kind = "retention"
    THEN pane' = Pin(pane, e) /\ UNCHANGED up
  ELSE IF pane.gen < MaxGens
    THEN /\ pane' = BeginAttach(pane, pane.applied)
         /\ up' = Append(up, Message("attach", pane.gen + 1, pane.applied))
  ELSE pane' = [Pin(pane, e) EXCEPT !.gaveUp = TRUE] /\ UNCHANGED up

\* The writer: controls first, then overflow gaps, then the lane; one at a time.
SendControl ==
  /\ out.wire = <<>> /\ controls # <<>>
  /\ LET r == Head(controls)
     IN pane' = IF r.gen = pane.gen /\ pane.open THEN [pane EXCEPT !.target = r.target] ELSE pane
  /\ controls' = Tail(controls)
  /\ UNCHANGED <<head, alive, sub, session, pc, notified, drains, out, up, seen>>

Lease ==
  /\ out.wire = <<>> /\ controls = <<>>
  /\ IF out.spill # <<>>
       THEN out' = [out EXCEPT !.wire = <<Head(out.spill)>>, !.spill = Tail(@)]
       ELSE out.lane # <<>> /\ out' = [out EXCEPT !.wire = <<Head(out.lane)>>, !.lane = Tail(@)]
  /\ UNCHANGED <<head, alive, sub, session, pc, notified, drains, controls, up, pane, seen>>

SendDone ==
  /\ out.wire # <<>>
  /\ out' = [out EXCEPT !.wire = <<>>]
  /\ LET e == out.wire[1]
     IN /\ Handle(e)
        /\ seen' = IF e.gen = seen.gen /\ e.kind # "exit"
                     THEN [seen EXCEPT !.got = @ \cup (e.from .. e.to)] ELSE seen
  /\ UNCHANGED <<head, alive, sub, session, pc, notified, drains, controls>>

\* The write queue applies received frames in order and credits the frontier,
\* never past the window the attachment was announced with.
Consume ==
  /\ pane.open /\ ~pane.exited
  /\ \E n \in pane.inbox :
       LET credit == Min({n, pane.target})
           due == credit > pane.sent
       IN /\ pane' = [pane EXCEPT
                        !.frontier = n,
                        !.inbox = {m \in @ : m > n},
                        !.sent = IF due THEN credit ELSE @,
                        !.applied = IF pane.pin # 0 /\ n >= pane.pin
                                      THEN Max({@, pane.pin - 1}) ELSE n]
          /\ up' = IF due THEN Append(up, Message("credit", pane.gen, credit)) ELSE up
  /\ UNCHANGED <<head, alive, sub, session, pc, notified, drains, out, controls, seen>>

\* The pane attaches, or attaches anew, from its cursor or from the start.
Reattach ==
  /\ pane.gen < MaxGens /\ ~pane.exited
  /\ pane.open \/ pane.gen = 0
  /\ \E since \in {0, pane.applied} :
       /\ pane' = BeginAttach(pane, since)
       /\ up' = Append(up, Message("attach", pane.gen + 1, since))
  /\ UNCHANGED <<head, alive, sub, session, pc, notified, drains, out, controls, seen>>

\* A refresh detaches and attaches from the start in one breath.
Refresh ==
  /\ pane.gen < MaxGens /\ ~pane.exited /\ pane.open
  /\ pane' = BeginAttach(pane, 0)
  /\ up' = up \o <<Message("detach", pane.gen, 0), Message("attach", pane.gen + 1, 0)>>
  /\ UNCHANGED <<head, alive, sub, session, pc, notified, drains, out, controls, seen>>

\* The pane is closed for good; bound: not from its last attachment.
Leave ==
  /\ pane.open /\ ~pane.exited /\ pane.gen < MaxGens
  /\ pane' = [NoPane EXCEPT !.gen = pane.gen]
  /\ up' = Append(up, Message("detach", pane.gen, 0))
  /\ UNCHANGED <<head, alive, sub, session, pc, notified, drains, out, controls, seen>>

-------------------------------------------------------------------------------
Dispatch ==
  \/ AttachRunning \/ AttachExited \/ DetachPane \/ StartSession \/ Credit
  \/ Drive \/ SettleStays \/ SettleGuards \/ SettleTransfers
Drain(g) ==
  \/ DrainStart(g) \/ Reserve(g) \/ DrainGone(g) \/ DrainPages(g) \/ DrainSinksGap(g)
  \/ DrainHandsOff(g)
Pump == SendControl \/ Lease \/ SendDone

Next ==
  \/ Produce \/ Exit
  \/ Dispatch \/ NotifyArm
  \/ \E g \in Gens : Drain(g)
  \/ Pump
  \/ Consume \/ Reattach \/ Refresh \/ Leave

Spec == Init /\ [][Next]_vars

\* The dispatcher and the drains run on, the socket takes what it is given, and
\* an open pane applies what it received.  The terminal need not print or exit,
\* the user need not attach or leave, and a notification may never be handled:
\* it is a paging hint.
FairSpec ==
  /\ Spec
  /\ WF_vars(Dispatch)
  /\ \A g \in Gens : WF_vars(Drain(g))
  /\ WF_vars(Pump) /\ WF_vars(Consume)
-------------------------------------------------------------------------------
(* Properties.                                                             *)

Kinds == {"frame", "retention", "residual", "overflow", "exit"}
Positions == 0 .. head

\* A queued item is one frame, a range declared lost, or the exit.
Items ==
  {e \in [kind : Kinds, gen : Gens, from : Positions, to : Positions] :
     /\ e.from <= e.to
     /\ e.kind # "exit" => e.from > 0
     /\ e.kind = "frame" => e.from = e.to}

Messages == [kind : {"attach", "credit", "detach"}, gen : Gens, seq : Positions]

Subs == [gen : 0 .. MaxGens, deferred : BOOLEAN, boundary : Positions, staged : BOOLEAN]
Sessions == [gen : 0 .. MaxGens, target : Positions, exitHead : Positions,
             credited : Positions, pageEnd : Positions]
DrainTasks == [at : {"off", "start", "wait", "read", "gap"}, target : Positions,
               cursor : Positions, handing : BOOLEAN, lostTo : Positions]
Outputs == [lane : Seq(Items), spill : Seq(Items), wire : Seq(Items)]
Panes == [gen : 0 .. MaxGens, open : BOOLEAN, target : Positions \cup {-1},
          frontier : Positions, inbox : SUBSET (1 .. head), sent : Positions,
          applied : Positions, pin : Positions, gaveUp : BOOLEAN, exited : BOOLEAN]
Views == [gen : 0 .. MaxGens, base : Positions, got : SUBSET (1 .. head),
          open : BOOLEAN, ended : BOOLEAN]

\* Every variable keeps its type, a queue only holds well-formed ranges, and
\* nothing runs ahead of the terminal's output.
TypeOK ==
  /\ head \in 0 .. MaxSeq /\ alive \in BOOLEAN /\ notified \in BOOLEAN
  /\ pc \in {"idle", "start", "drive", "guard", "active", "covered"}
  /\ sub \in Subs
  /\ session \in Sessions
  /\ drains \in [Gens -> DrainTasks]
  /\ out \in Outputs /\ Len(out.wire) <= 1
  /\ controls \in Seq([gen : Gens, target : Positions])
  /\ up \in Seq(Messages)
  /\ pane \in Panes
  /\ seen \in Views

\* What the server's current attachment has been sent or still has queued.
InPipe(gen) == {e \in Range(out.lane) \cup Range(out.spill) \cup Range(out.wire) :
                  e.gen = gen /\ e.kind # "exit"}
Covered == seen.got \cup UNION {e.from .. e.to : e \in InPipe(seen.gen)}

Closed == [base |-> 0, covered |-> {}, phase |-> "closed"]
Abstract == INSTANCE StreamView WITH
  head <- head,
  alive <- alive,
  view <- IF ~seen.open THEN Closed
          ELSE [base |-> seen.base, covered |-> Covered,
                phase |-> IF seen.ended THEN "ended" ELSE "open"]

\* The delivery keeps StreamView's promise: pages, live output, retention gaps,
\* the residual gap and evictions together cover every position once in order,
\* nothing is dropped silently, and the exit follows the whole stream.
StreamKept == Abstract!Spec

\* While a session is credited, the frames its pane has not applied, wherever
\* they are, fit one page: validate_credit grants the next page only for the
\* end of the last one.
ReplayBounded ==
  session.gen # 0 =>
    Cardinality({e \in InPipe(session.gen) : e.kind = "frame"})
      + (IF pane.gen = session.gen THEN Cardinality(pane.inbox) ELSE 0) <= PageFrames

\* A drain never makes the queue spill: a page is only read under a reservation
\* that leaves room for it.
DrainNeverSpills ==
  [][\A g \in Gens : drains[g].at = "read" /\ drains'[g].at # "read" =>
       Len(out'.spill) <= Len(out.spill)]_vars

\* A paced session ends: its deferral is lifted, its terminal's exit is staged,
\* or its pane gave up.  A credit, a settle or a drain lost along the way would
\* leave the pane without live output for good.
SessionEnds ==
  sub.deferred ~> (~sub.deferred \/ sub.staged \/ pane.gaveUp)

\* A staged exit is told, unless the attachment is replaced or closed
\* (terminal-restore plan: exit delivery survives the deferral).
ExitArrives == sub.staged ~> ~sub.staged
===============================================================================
