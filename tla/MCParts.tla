------------------------------- MODULE MCParts --------------------------------
(* The values of Detections that a configuration cannot write. *)
EXTENDS Parts

\* Three boxes in a row, each over the next by a third of their union, and the
\* first one for a second class.
MCKinds ==
  LET box(left) == [x |-> left, y |-> 0, w |-> 2, h |-> 2] IN
  {[class |-> 0, box |-> box(left)] : left \in 0..2} \cup {[class |-> 1, box |-> box(0)]}

MCPoints == -2..8
===============================================================================
