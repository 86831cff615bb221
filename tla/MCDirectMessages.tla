-------------------------- MODULE MCDirectMessages --------------------------
(* Two peers have each signed one message.                                  *)
EXTENDS DirectMessages

DmWireValue == {[from |-> "p", id |-> "m", ts |-> 1], [from |-> "q", id |-> "n", ts |-> 1]}
=============================================================================
