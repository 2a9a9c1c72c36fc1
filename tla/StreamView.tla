------------------------------ MODULE StreamView ------------------------------
(***************************************************************************)
(* What a pane is promised about a terminal's output: the abstract         *)
(* specification that TerminalDelivery implements.                         *)
(*                                                                         *)
(* A terminal numbers its output 1, 2, 3, ... and then exits.  An          *)
(* attachment starts at a base the server declares.  From there the server *)
(* covers the stream in order and without holes: every position is either  *)
(* sent as output or declared lost, and the exit is the last thing said,   *)
(* after the whole stream.  Between being covered and reaching the pane a  *)
(* position may be spilled, but only into a declared loss.                 *)
(***************************************************************************)
EXTENDS Integers

VARIABLES
  head,   \* the last position the terminal produced
  alive,  \* its process runs
  view    \* the attachment: its base, the positions covered, its phase

vars == <<head, alive, view>>

Phases == {"closed", "open", "ended"}

\* The positions base+1 .. n, all of them.
Stretch(base, n) == (base + 1) .. n

Closed == [base |-> 0, covered |-> {}, phase |-> "closed"]

Init ==
  /\ head = 0
  /\ alive = TRUE
  /\ view = Closed

\* The attachment, covered through position n.
CoveredThrough(n) == [view EXCEPT !.covered = Stretch(view.base, n)]

\* The attachment may be covered further, up to n; never shortened.
Extends(n) == view.phase = "open" /\ view.covered \subseteq Stretch(view.base, n)

\* New output, which a pane that is up to date is sent at once.
Produce ==
  /\ alive
  /\ head' = head + 1
  /\ \/ view' = view
     \/ /\ Extends(head) /\ view.covered = Stretch(view.base, head)
        /\ view' = CoveredThrough(head + 1)
  /\ alive' = alive

\* The process exits; a pane that is up to date is told at once.
Die ==
  /\ alive
  /\ alive' = FALSE
  /\ \/ view' = view
     \/ /\ Extends(head) /\ view.covered = Stretch(view.base, head)
        /\ view' = [view EXCEPT !.phase = "ended"]
  /\ head' = head

\* An attachment opens or replaces another.  To a dead terminal it may be
\* told everything, and the exit, at once.
Attach ==
  /\ \E base \in 0 .. head : \E n \in base .. head, phase \in {"open", "ended"} :
       /\ phase = "ended" => ~alive /\ n = head
       /\ view' = [base |-> base, covered |-> Stretch(base, n), phase |-> phase]
  /\ UNCHANGED <<head, alive>>

\* The server covers the next positions, and says the exit only with the last.
Tell ==
  /\ \E n \in 0 .. head, phase \in {"open", "ended"} :
       /\ Extends(n)
       /\ phase = "ended" => ~alive /\ n = head
       /\ view' = [CoveredThrough(n) EXCEPT !.phase = phase]
  /\ UNCHANGED <<head, alive>>

Detach ==
  /\ view' = Closed
  /\ UNCHANGED <<head, alive>>

Next == Produce \/ Die \/ Attach \/ Tell \/ Detach

Spec == Init /\ [][Next]_vars
===============================================================================
