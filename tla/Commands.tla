------------------------------- MODULE Commands -------------------------------
(***************************************************************************)
(* One run_command call: the processes it starts, the pumps that read      *)
(* their output, and the three things that can end it.                     *)
(* Source: crates/dark-tools/src/exec/{child,mod,args}.rs, and the timeout *)
(* the turn loop puts around every tool, dark-core turn/mod.rs.            *)
(*                                                                         *)
(* A line of output is one of a count.  Time is ticks; a tick passes only  *)
(* when no timer that fired, no cancellation and no line waits to be seen. *)
(***************************************************************************)
EXTENDS Naturals, FiniteSets

CONSTANTS
    Leader,      \* the direct child
    Descendants, \* what it may start
    Timeouts,    \* timeout_secs the model may ask for
    ToolTimeout, \* TurnConfig::tool_timeout
    Grace,       \* REAP_GRACE
    MaxLines,    \* bound on the lines written
    Horizon      \* bound on the clock, past every timer

ASSUME CommandsAssumption ==
    /\ Leader \notin Descendants
    /\ Timeouts \subseteq Nat \ {0}
    /\ ToolTimeout \in Nat \ {0} /\ Grace \in Nat \ {0} /\ MaxLines \in Nat /\ Horizon \in Nat

VARIABLES
    stage,     \* where the call stands
    clock,
    turnTimer, \* when the turn loop gives the call up
    timer,     \* when the wait for the child, and then the drain, gives up
    cancelled, \* the turn's token
    alive,     \* the processes that run
    group,     \* the processes in the leader's process group
    holders,   \* the processes with the pipe open
    written,   \* lines the processes have written
    collected, \* lines the collector has
    reply      \* what ended the wait, the lines answered; history, as the wait
               \* for the child ended: whether the pipe was open, and when

vars == <<stage, clock, turnTimer, timer, cancelled, alive, group, holders,
          written, collected, reply>>

Processes == {Leader} \union Descendants

world == <<alive, group, holders, written>>

Init ==
    /\ stage = "asked"
    /\ clock = 0
    /\ turnTimer = ToolTimeout
    /\ timer = 0
    /\ cancelled = FALSE
    /\ alive = {} /\ group = {} /\ holders = {}
    /\ written = 0 /\ collected = 0
    /\ reply = [outcome |-> "none", open |-> FALSE, at |-> 0, lines |-> 0]

-----------------------------------------------------------------------------
(* The processes.                                                          *)

Fork(parent, new) ==
    /\ parent \in alive /\ new \in Descendants \ (alive \union group)
    /\ alive' = alive \union {new}
    /\ group' = IF parent \in group THEN group \union {new} ELSE group
    /\ holders' = IF parent \in holders THEN holders \union {new} ELSE holders
    /\ UNCHANGED <<stage, clock, turnTimer, timer, cancelled, written, collected, reply>>

\* setpgid, or a new session.  The leader of a group cannot.
LeaveGroup(p) ==
    /\ p \in (alive \intersect group) \ {Leader}
    /\ group' = group \ {p}
    /\ UNCHANGED <<stage, clock, turnTimer, timer, cancelled, alive, holders, written,
                   collected, reply>>

Write(p) ==
    /\ p \in alive \intersect holders /\ written < MaxLines
    /\ written' = written + 1
    /\ UNCHANGED <<stage, clock, turnTimer, timer, cancelled, alive, group, holders,
                   collected, reply>>

CloseOutput(p) ==
    /\ p \in alive \intersect holders
    /\ holders' = holders \ {p}
    /\ UNCHANGED <<stage, clock, turnTimer, timer, cancelled, alive, group, written,
                   collected, reply>>

Exit(p) ==
    /\ p \in alive
    /\ alive' = alive \ {p}
    /\ holders' = holders \ {p}
    /\ UNCHANGED <<stage, clock, turnTimer, timer, cancelled, group, written, collected,
                   reply>>

Killed(ps) ==
    /\ alive' = alive \ ps
    /\ holders' = holders \ ps
    /\ UNCHANGED <<group, written>>

-----------------------------------------------------------------------------
(* The call.                                                               *)

Spawn ==
    /\ stage = "asked"
    /\ stage' = "waiting"
    /\ \E seconds \in Timeouts : timer' = clock + seconds
    /\ alive' = {Leader} /\ group' = {Leader} /\ holders' = {Leader}
    /\ UNCHANGED <<clock, turnTimer, cancelled, written, collected, reply>>

\* The pumps and the collector are tasks of their own and outlive the call.
Collect ==
    /\ collected < written
    /\ collected' = collected + 1
    /\ UNCHANGED <<stage, clock, turnTimer, timer, cancelled, world, reply>>

\* What the biased select sees first.
Outcome ==
    CASE cancelled -> "cancelled"
      [] ~cancelled /\ clock >= timer -> "timed out"
      [] ~cancelled /\ clock < timer /\ Leader \notin alive -> "exited"
      [] OTHER -> "none"

\* Mutant of KillTree: only the direct child is signalled.
KillChild == Killed({Leader})

\* killpg on the leader's group.
KillTree == Killed(group)

\* Mutant of DrainDeadline: the kill and the three tasks are timed one after another.
StackedDeadline == clock + 4 * Grace

DrainDeadline == clock + Grace

StopWaiting ==
    /\ stage = "waiting" /\ Outcome # "none"
    /\ stage' = "draining"
    /\ timer' = DrainDeadline
    /\ IF Outcome = "exited" THEN UNCHANGED world ELSE KillTree
    /\ reply' = [outcome |-> Outcome, open |-> holders' # {}, at |-> clock,
                  lines |-> 0]
    /\ UNCHANGED <<clock, turnTimer, cancelled, collected>>

EndOfFile == holders = {} /\ collected = written

\* Mutant of Drained: the call answers without waiting for the collector.
DrainedAtOnce == stage = "draining"

\* The pumps have ended and the collector has everything.
Drained == stage = "draining" /\ EndOfFile

Replied(lines) ==
    /\ stage' = "over"
    /\ reply' = [reply EXCEPT !.lines = lines]
    /\ UNCHANGED <<clock, turnTimer, timer, cancelled, world, collected>>

Answer == Drained /\ Replied(collected)

\* One deadline for the whole drain; what was collected goes with it.
DrainTimesOut == stage = "draining" /\ clock >= timer /\ ~EndOfFile /\ Replied(0)

\* The turn loop drops the call, and with it, kill_on_drop, the direct child.
TurnTimesOut ==
    /\ stage \in {"asked", "waiting", "draining"} /\ clock >= turnTimer
    /\ stage' = "over"
    /\ reply' = [outcome |-> "dropped", open |-> FALSE, at |-> 0, lines |-> 0]
    /\ Killed({Leader})
    /\ UNCHANGED <<clock, turnTimer, timer, cancelled, collected>>

Cancel ==
    /\ stage \in {"waiting", "draining"} /\ ~cancelled
    /\ cancelled' = TRUE
    /\ UNCHANGED <<stage, clock, turnTimer, timer, world, collected, reply>>

\* Something is ready to be seen now.
Due ==
    \/ stage = "asked"
    \/ collected < written
    \/ stage = "waiting" /\ Outcome # "none"
    \/ stage = "draining" /\ (EndOfFile \/ clock >= timer)
    \/ stage # "over" /\ clock >= turnTimer

Tick ==
    /\ ~Due /\ clock < Horizon
    /\ clock' = clock + 1
    /\ UNCHANGED <<stage, turnTimer, timer, cancelled, world, collected, reply>>

Call == Spawn \/ Collect \/ StopWaiting \/ Answer \/ DrainTimesOut \/ TurnTimesOut

Next ==
    \/ \E parent \in Processes, new \in Descendants : Fork(parent, new)
    \/ \E p \in Processes : LeaveGroup(p) \/ Write(p) \/ CloseOutput(p) \/ Exit(p)
    \/ Call \/ Cancel \/ Tick

Spec == Init /\ [][Next]_vars

-----------------------------------------------------------------------------
(* Properties.                                                             *)

Replies == [outcome : {"none", "exited", "timed out", "cancelled", "dropped"},
            open : BOOLEAN, at : 0 .. Horizon, lines : 0 .. MaxLines]

TypeOK ==
    /\ stage \in {"asked", "waiting", "draining", "over"}
    /\ clock \in 0 .. Horizon /\ turnTimer \in Nat /\ timer \in Nat
    /\ cancelled \in BOOLEAN
    /\ alive \subseteq Processes /\ group \subseteq Processes
    /\ holders \subseteq alive
    /\ written \in 0 .. MaxLines /\ collected \in 0 .. written
    /\ reply \in Replies

\* Once run_command stops waiting because of its own timeout or of the person, no
\* process of the group is left; only one that left the group is (kill_tree).
KilledGroupGone ==
    reply.outcome \in {"timed out", "cancelled"} => alive \intersect group = {}

\* A reply of run_command lacks lines that were written only when some process still
\* had the pipe open as the wait for the child ended (run, the drain).
LostOnlyToHolder ==
    stage = "over" /\ reply.outcome \notin {"none", "dropped"} /\ ~reply.open =>
        reply.lines = written

\* The drain never makes the turn loop give up a call that ended its wait with time
\* to spare (run, one deadline for the whole drain).
DrainInTime ==
    [][stage = "draining" /\ reply'.outcome = "dropped" =>
          reply.at + Grace >= turnTimer]_vars

\* What the plan of the tool says: a timeout kills the whole process group.
TimeoutKillsGroup ==
    reply.outcome \in {"timed out", "dropped"} => alive \intersect group = {}

\* What the drain says of itself: the child is gone, so its pipes have closed or will
\* very soon.
OutputAnswered ==
    stage = "over" /\ reply.outcome = "exited" => reply.lines > 0 \/ written = 0
=============================================================================
