----------------------- MODULE MCSubagentCoordinator -----------------------
(* Instances of SubagentCoordinator for model checking.                    *)
EXTENDS SubagentCoordinator, TLC

CONSTANTS c1, c2, c3, c4, c5,   \* subagent ids
          s1, s2,               \* root sessions
          k1, k2, k3, k4, k5,   \* spawn calls
          m1, m2,               \* messages
          wf, turn, get         \* a workflow run, a prompt and a query

Task(id, parent) ==
    [id |-> id, parent |-> parent, run |-> NoRun, prompt |-> NoPrompt,
     background |-> TRUE, awaits |-> TRUE, defbg |-> FALSE]

\* Three background spawns of one session and two of another.
AdmissionRequest ==
    k1 :> Task(c1, s1) @@ k2 :> Task(c2, s1) @@ k3 :> Task(c3, s1)
    @@ k4 :> Task(c4, s2) @@ k5 :> Task(c5, s2)

\* Two background spawns of one session.
WakeRequest == k1 :> Task(c1, s1) @@ k2 :> Task(c2, s1)

\* Two foreground spawns of one turn; the second's agent definition says
\* background.
TurnRequest ==
    k1 :> [Task(c1, s1) EXCEPT !.background = FALSE, !.prompt = turn]
    @@ k2 :> [Task(c2, s1) EXCEPT !.background = FALSE, !.prompt = turn, !.defbg = TRUE]

\* A task and a spawn nested under it.
NestedRequest == k1 :> Task(c1, s1) @@ k2 :> Task(c2, c1)

\* The same, a task that may find the session at its limit, and a workflow agent
\* that awaits to completion.
MessagesRequest ==
    NestedRequest @@ k3 :> Task(c3, s1)
    @@ k4 :> [Task(c4, s1) EXCEPT !.background = FALSE, !.awaits = FALSE, !.run = wf]

NoMessage == [m \in {} |-> [to |-> c1, from |-> s1]]

OneMessage == m1 :> [to |-> c1, from |-> s1]

TwoMessages == OneMessage @@ m2 :> [to |-> c1, from |-> s1]

\* The root and the spawner both address the nested child.
LineageMessages ==
    m1 :> [to |-> c2, from |-> s1] @@ m2 :> [to |-> c2, from |-> c1]
============================================================================
