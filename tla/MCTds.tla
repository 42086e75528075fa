------------------------------- MODULE MCTds -------------------------------
(* Instances of TdsWork for TLC.                                            *)
EXTENDS TdsWork

\* A byte of the first answer and one of the second are 0x55: a frame that
\* begins with the former reaches into the second answer for its value.
SomeHeaderLike == {2, 10}
==============================================================================
