------------------------------ MODULE HostState ------------------------------
(***************************************************************************)
(* The two things of an AgentHost that its stop has to bring down in       *)
(* order: the task of its HTTP server, and the journal its handlers use.   *)
(***************************************************************************)

VARIABLES
    server,    \* _server_task: "none", "starting", "up", or how it is over:
               \* "ended", "failed" (it raised), "cancelled"
    journal    \* "open" or "closed"

\* The server's task is over.
ServerOver == server \in {"ended", "failed", "cancelled"}

\* The journal is closed after the server's task is over, though two stops may
\* overlap each other and the start (host.py:138-148).
JournalClosedLast == journal = "closed" => ServerOver
=============================================================================
