----------------------------- MODULE MCPcbLists -----------------------------
(* An instance of the lists for TLC: two priorities, so that a PCB may go    *)
(* before, between and behind others, and one queue without priorities.      *)
EXTENDS PcbLists

State(e, k) == [exec |-> e, dpatch |-> "ACTIVE", cls |-> "USER", pri |-> k]
SomeStates == {State("READY", k) : k \in {0, 1}} \cup {State("BLOCKED", 0)}
=============================================================================
