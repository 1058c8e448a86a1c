------------------------------- MODULE Gateway -------------------------------
(***************************************************************************)
(* A request as a whole: HTTP in front (HttpRequests), a tool that reads   *)
(* the vault behind it (VaultReads), and the host beside both.             *)
(***************************************************************************)
EXTENDS HttpSafety, VaultSafety

CONSTANT Starts \* requests, each with its call, the vault it finds and its use of the bounds

\* A tree of entries: what is there is in a folder, or behind a link to one.
IsVault(v) ==
    /\ v = [p \in Paths |-> v[p]]
    /\ \A p \in Paths : v[p] # None =>
         /\ v[p].kind = "note" => IsNote(v[p])
         /\ \A q \in Above[p] \ {p} : v[q] # None /\ v[q].kind \in {"folder", "symlink"}

IsCall(c) ==
    \/ c.tool = "read_note" /\ c.path \in Paths
    \/ c.tool = "create" /\ c.candidates \in Seq(Paths)
    \/ c.tool = "summary"

ASSUME StartsAssumption ==
    \A s \in Starts :
        /\ s.request \in HttpRequest /\ s.enabled \in BOOLEAN
        /\ IsCall(s.call) /\ IsVault(s.vault)
        /\ s.used \in [host : Nat, faults : Nat, blind : SUBSET (Paths \union {Root})]

vars == <<httpVars, readVars>>

Init ==
    /\ \E s \in Starts :
         /\ request = s.request /\ enabled = s.enabled
         /\ call = s.call /\ vault = s.vault /\ used = s.used
    /\ InitHttp /\ InitReads

\* get_vault_summary checks its limit before it walks.
MinTagsLimit == 1
MaxTagsLimit == 200
LimitRefused == call.tool = "summary" /\ call.top_tags_limit \notin MinTagsLimit..MaxTagsLimit

Call ==
    /\ TransportCalls
    /\ IF LimitRefused
         THEN Answer([error |-> "VALIDATION_ERROR"]) /\ UNCHANGED <<locals, used>>
         ELSE StartTool

\* A tool goes on in its thread when its request has been cancelled.
Tool == pc # "idle" /\ ToolStep /\ UNCHANGED httpVars

Return == pc = "done" /\ TransportAnswers /\ UNCHANGED readVars

Host == pc \notin {"idle", "done"} /\ HostChange /\ UNCHANGED httpVars

Next ==
    \/ HttpStep /\ UNCHANGED readVars
    \/ Call \/ Tool \/ Return
    \/ Host

Spec == Init /\ [][Next]_vars
=============================================================================
