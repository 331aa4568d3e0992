------------------------------ MODULE AgentHost ------------------------------
(***************************************************************************)
(* host.py: run() in one task, and stop() also called by another task of   *)
(* the adopter at any time after the start has begun, around a uvicorn     *)
(* server that may fail to start, exit on a signal, or not exit at all.    *)
(*                                                                         *)
(* The server is modelled by what host.py sees of it: its `started` flag,  *)
(* which stays set, and whether its task has ended or was cancelled.       *)
(***************************************************************************)
EXTENDS HostState, Naturals

CONSTANTS
    AfterStart,   \* number of after_start hooks
    BeforeStop    \* number of before_stop hooks

ASSUME AgentHostAssumption == AfterStart \in Nat /\ BeforeStop \in Nat

Tasks == {"runner", "stopper"}

VARIABLES     \* besides the server's task and the journal
    up,        \* _server.started
    exit,      \* _server.should_exit
    pc,        \* where each task stands
    hook       \* hooks that each task has still to run

serving == <<server, up>>
vars    == <<serving, exit, journal, pc, hook>>

Init ==
    /\ server = "none"
    /\ up = FALSE
    /\ exit = FALSE
    /\ journal = "open"
    /\ pc = [t \in Tasks |-> "idle"]
    /\ hook = [t \in Tasks |-> 0]

Goto(t, l) == pc' = [pc EXCEPT ![t] = l]
-----------------------------------------------------------------------------
\* run() calls start(), which creates the server's task.
Start ==
    /\ pc["runner"] = "idle"
    /\ server' = "starting"
    /\ Goto("runner", "spin")
    /\ UNCHANGED <<up, exit, journal, hook>>

\* uvicorn listens.
ServerUp ==
    /\ server = "starting"
    /\ server' = "up"
    /\ up' = TRUE
    /\ UNCHANGED <<exit, journal, pc, hook>>

\* serve() ends before it listens, since the application's own start-up fails:
\* `started` stays False.  (A port that is taken ends the whole process.)
ServerFails ==
    /\ server = "starting"
    /\ server' \in {"ended", "failed"}
    /\ UNCHANGED <<up, exit, journal, pc, hook>>

\* serve() returns or raises: should_exit was set, or a signal was caught.
ServerEnds ==
    /\ server = "up"
    /\ server' \in {"ended", "failed"}
    /\ UNCHANGED <<up, exit, journal, pc, hook>>

\* (mutant)
StillServing == up /\ server = "up"

Listening == up

\* `while not self._server.started` ends.
Started ==
    /\ pc["runner"] = "spin"
    /\ Listening
    /\ Goto("runner", "after")
    /\ hook' = [hook EXCEPT !["runner"] = AfterStart]
    /\ UNCHANGED <<serving, exit, journal>>

\* An after_start hook is called; it returns, or start() and run() raise.
AfterHook ==
    /\ pc["runner"] = "after"
    /\ hook["runner"] > 0
    /\ \/ hook' = [hook EXCEPT !["runner"] = @ - 1] /\ UNCHANGED pc
       \/ Goto("runner", "raised") /\ UNCHANGED hook
    /\ UNCHANGED <<serving, exit, journal>>

StartReturns ==
    /\ pc["runner"] = "after"
    /\ hook["runner"] = 0
    /\ Goto("runner", "serve")
    /\ UNCHANGED <<serving, exit, journal, hook>>
-----------------------------------------------------------------------------
\* stop(): run() calls it when the server's task is over, the other task
\* whenever it likes.
Stop(t) ==
    /\ \/ t = "runner" /\ pc[t] = "serve" /\ ServerOver
       \/ t = "stopper" /\ pc[t] = "idle" /\ server # "none"
    /\ Goto(t, "before")
    /\ hook' = [hook EXCEPT ![t] = BeforeStop]
    /\ UNCHANGED <<serving, exit, journal>>

\* (mutant)
HookPasses(t) ==
    \/ hook' = [hook EXCEPT ![t] = @ - 1] /\ UNCHANGED pc
    \/ Goto(t, "raised") /\ UNCHANGED hook

\* A before_stop hook returns or raises; both count.
HookDone(t) == hook' = [hook EXCEPT ![t] = @ - 1] /\ UNCHANGED pc

BeforeHook(t) ==
    /\ pc[t] = "before"
    /\ hook[t] > 0
    /\ HookDone(t)
    /\ UNCHANGED <<serving, exit, journal>>

\* (mutant)
DoNotWait == "close"

AfterExit == "wait"

AskServer(t) ==
    /\ pc[t] = "before"
    /\ hook[t] = 0
    /\ exit' = TRUE
    /\ Goto(t, AfterExit)
    /\ UNCHANGED <<serving, journal, hook>>

\* wait_for returns, or raises what the server's task has raised; only a
\* TimeoutError is passed over.
Waited(t) ==
    /\ pc[t] = "wait"
    /\ ServerOver
    /\ Goto(t, IF server = "ended" THEN "close" ELSE "raised")
    /\ UNCHANGED <<serving, exit, journal, hook>>

\* After ten seconds wait_for cancels the server's task.
TimesOut(t) ==
    /\ pc[t] = "wait"
    /\ ~ServerOver
    /\ server' = "cancelled"
    /\ Goto(t, "close")
    /\ UNCHANGED <<up, exit, journal, hook>>

CloseJournal(t) ==
    /\ pc[t] = "close"
    /\ journal' = "closed"
    /\ Goto(t, "returned")
    /\ UNCHANGED <<serving, exit, hook>>
-----------------------------------------------------------------------------
Stopping(t) ==
    BeforeHook(t) \/ AskServer(t) \/ Waited(t) \/ TimesOut(t) \/ CloseJournal(t)

Running == Started \/ AfterHook \/ StartReturns \/ Stop("runner") \/ Stopping("runner")

Next ==
    \/ Start \/ ServerUp \/ ServerFails \/ ServerEnds
    \/ Running
    \/ Stop("stopper") \/ Stopping("stopper")

Spec == Init /\ [][Next]_vars

\* Hooks return, and asyncio runs what is ready; a starting server gets
\* somewhere, but one that is up may ignore should_exit (open connections).
FairSpec ==
    /\ Spec
    /\ WF_vars(Running)
    /\ WF_vars(Stopping("stopper"))
    /\ WF_vars(ServerUp \/ ServerFails)
-----------------------------------------------------------------------------
\* Every variable holds one of its values, and start() goes on only after the
\* server has listened (host.py:104-120).
TypeOK ==
    /\ server \in {"none", "starting", "up", "ended", "failed", "cancelled"}
    /\ up \in BOOLEAN
    /\ pc["runner"] \in {"after", "serve"} => up
    /\ exit \in BOOLEAN
    /\ journal \in {"open", "closed"}
    /\ pc \in [Tasks -> {"idle", "spin", "after", "serve", "before", "wait", "close",
                         "returned", "raised"}]
    /\ hook \in [Tasks -> 0 .. AfterStart + BeforeStop]

\* Once another task has called stop, the journal is closed in the end, even
\* if hooks raise, the server does not exit, or run() stops at the same time
\* and one of the two stops is thrown out by the other's cancellation.  Only
\* an exception of the server itself keeps the journal open (host.py:132-148).
StopCloses == pc["stopper"] # "idle" ~> (journal = "closed" \/ server = "failed")

\* The start comes to an end, though the server may be asked to exit, or be
\* cancelled, before its flag is next looked at, unless the server's task is
\* over without having listened: then the loop goes on for ever, against "return
\* once it's listening" (host.py, start).
StartEnds == pc["runner"] = "spin" ~> (pc["runner"] # "spin" \/ (ServerOver /\ ~up))
=============================================================================
