--------------------------- MODULE MCSubagentLoop ---------------------------
(* Finite instances of SubagentLoop: what the model answers. *)
EXTENDS SubagentLoop

\* A final answer that the output cap cut off, and three tools of which one must
\* not run twice and one does not exist.
MixedReplies ==
  { [uses |-> <<>>, cut |-> TRUE],
    [uses |-> <<"once", "unknown", "safe">>, cut |-> FALSE] }
=============================================================================
