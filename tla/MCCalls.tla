------------------------------- MODULE MCCalls -------------------------------
(* Instances of McpCalls: two scans, a create and two appends.             *)
EXTENDS McpCalls, TLC

CONSTANTS s1, s2, n1, a1, a2

MCTool == [c \in Calls |-> IF c = n1 THEN "create"
                           ELSE IF c \in {a1, a2} THEN "append" ELSE "scan"]

\* What they raise differs; an append that gives up raises a server error too.
MCEnds == [c \in Calls |->
              CASE c \in {s1, a1} -> {"ok", "exception"}
                [] c = s2 -> {"ok", "client_error"}
                [] OTHER -> {"ok"}]
=============================================================================
