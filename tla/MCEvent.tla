------------------------------- MODULE MCEvent -------------------------------
(* The instances of Event that TLC checks.                                 *)
EXTENDS Event

CONSTANTS h1, h2

\* handlers of their own for the two events, or one handler for both
SomeUses == {<<{"r"}, h1>>, <<{"w"}, h2>>, <<{"r", "w"}, h1>>}
=============================================================================
