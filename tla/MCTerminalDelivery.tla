-------------------------- MODULE MCTerminalDelivery --------------------------
(* One terminal that prints up to four frames into a ring of three.        *)
EXTENDS TerminalDelivery
===============================================================================
