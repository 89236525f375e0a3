---------------------------- MODULE MCScheduler ----------------------------
(***************************************************************************)
(* Small instances of Scheduler.                                           *)
(***************************************************************************)
EXTENDS Scheduler

CONSTANTS a, o,     \* a recurring task and a one-shot
          p, q,     \* prompts
          c1, c2    \* subagent ids

MCSnapshot == Seq(Task)

RecurringLegacy == <<NewTask(a, p)>>

\* Only an older version of the program can have created a one-shot.
OneShotLegacy == <<NewTask(o, p)>>
============================================================================
