----------------------------- MODULE SleepGate -----------------------------
(***************************************************************************)
(* How a refresh is kept from straddling a suspend (manager/sleep_gate.rs).*)
(* The power listener of each process raises its gate when the system      *)
(* announces a sleep, and then holds the acknowledgement until the refresh *)
(* in flight drains or SLEEP_ACK_MAX_WAIT passes.  The system suspends     *)
(* once every listener has answered.  A wake event lowers the gate, but it *)
(* may be late or missed: a reader that finds the gate older than          *)
(* SLEEP_GATE_MAX lowers it itself.                                        *)
(*                                                                         *)
(* A gate is the number of the sleep that raised it, 0 when it is down:    *)
(* is_gated compares the two raises by their timestamp.                    *)
(***************************************************************************)
EXTENDS Integers

CONSTANTS Procs,      \* processes, each with its AuthManager
          Listening,  \* the interactive ones, which start the power listener
          MaxSleeps   \* bound: sleeps the system announces

ASSUME SleepAssumption == MaxSleeps \in Nat /\ Listening \subseteq Procs

VARIABLES power,   \* "awake", or "announced" until the suspend
          sleeps,  \* sleeps announced so far
          gate,    \* SleepGate.raised_at
          ack      \* the listener: "idle", "holding", "acked", "forced", or
                   \* "missed" if it registered after the announcement

gvars == <<power, sleeps, gate, ack>>

GateTypeOK ==
    /\ power \in {"awake", "announced"}
    /\ sleeps \in 0 .. MaxSleeps
    /\ gate \in [Procs -> 0 .. MaxSleeps]
    /\ ack \in [Procs -> {"idle", "holding", "acked", "forced", "missed"}]

GateInit ==
    /\ power = "awake"
    /\ sleeps = 0
    /\ gate = [p \in Procs |-> 0]
    /\ ack = [p \in Procs |-> "idle"]

\* SLEEP_GATE_MAX may have passed only once that sleep is over.
MayBeStale(p) == gate[p] # 0 /\ (gate[p] < sleeps \/ power = "awake")

AnnounceSleep ==
    /\ power = "awake" /\ sleeps < MaxSleeps
    /\ power' = "announced"
    /\ sleeps' = sleeps + 1
    /\ UNCHANGED <<gate, ack>>

\* set_system_sleep_imminent(true), up to its hold
RaiseGate(p) ==
    /\ p \in Listening
    /\ power = "announced" /\ ack[p] = "idle"
    /\ gate' = [gate EXCEPT ![p] = sleeps]
    /\ ack' = [ack EXCEPT ![p] = "holding"]
    /\ UNCHANGED <<power, sleeps>>

\* hold_sleep_ack_until_refresh_drains: no refresh is in flight
Drained(p, busy) ==
    /\ ack[p] = "holding" /\ ~busy
    /\ ack' = [ack EXCEPT ![p] = "acked"]
    /\ UNCHANGED <<power, sleeps, gate>>

\* hold_sleep_ack_until_refresh_drains: max elapsed
HoldExpires(p, busy) ==
    /\ ack[p] = "holding" /\ busy
    /\ ack' = [ack EXCEPT ![p] = "forced"]
    /\ UNCHANGED <<power, sleeps, gate>>

\* Nothing runs until the system wakes.
SuspendAndWake ==
    /\ power = "announced"
    /\ \A p \in Listening : ack[p] \in {"acked", "forced", "missed"}
    /\ power' = "awake"
    /\ ack' = [p \in Procs |-> "idle"]
    /\ UNCHANGED <<sleeps, gate>>

\* set_system_sleep_imminent(false)
DidWake(p) ==
    /\ power = "awake" /\ gate[p] # 0
    /\ gate' = [gate EXCEPT ![p] = 0]
    /\ UNCHANGED <<power, sleeps, ack>>

\* A new process: its gate is down.
StartUngated(p) ==
    /\ gate' = [gate EXCEPT ![p] = 0]
    /\ ack' = IF power = "announced" THEN [ack EXCEPT ![p] = "missed"] ELSE ack
    /\ UNCHANGED <<power, sleeps>>

LowerGate(p) ==
    /\ gate' = [gate EXCEPT ![p] = 0]
    /\ UNCHANGED <<power, sleeps, ack>>
=============================================================================
