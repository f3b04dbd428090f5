------------------------------- MODULE Wiring -------------------------------
(***************************************************************************)
(* The blocking edges of a charted map, from stage 7's answers to the      *)
(* edges write_map records (crates/dark-plan/src/chart/pipeline.rs:        *)
(* resolve_edges; crates/dark-plan/src/wire.rs: repair_wiring).  A ticket  *)
(* is its ordinal.  The model names blockers as it likes; which cycle and  *)
(* which implied edge a pass of the repair meets first is left open, where *)
(* the code takes the first in the order of its lists.                     *)
(***************************************************************************)
EXTENDS Integers, Sequences, FiniteSets, FiniteSetsExt

CONSTANTS
    TicketCount,   \* how many tickets stage 6 produced
    Name,          \* what a ticket may be called
    Namings        \* the namings of tickets that are considered

Ticket == 1..TicketCount

ASSUME WiringAssumption == /\ TicketCount \in Nat
                           /\ Namings \subseteq [Ticket -> Name]

VARIABLES
    edges,     \* the edge set under repair, pairs <<blocker, blocked>>
    broken,    \* WireRepairReport::cycles_broken
    implied,   \* WireRepairReport::transitive_edges_removed
    tries,     \* the iterations break_cycles has left
    phase      \* "breaking", "reducing", "done" or "empty_frontier"

vars == <<edges, broken, implied, tries, phase>>

\* resolve_edges: the first ticket of that name.
Bearer(naming, name) == Min({t \in Ticket : naming[t] = name})

\* An answer names other tickets' names only.
Answers(naming) ==
    { answer \in [Ticket -> SUBSET Name] :
        \A t \in Ticket : answer[t] \subseteq {naming[u] : u \in Ticket} \ {naming[t]} }

ResolveEdges(naming, answer) ==
    {e \in Ticket \X Ticket : \E name \in answer[e[2]] : Bearer(naming, name) = e[1]}

\* dedupe_edges.
DedupeEdges(raw) == {e \in raw : e[1] # e[2]}

\* Mutant of AttemptBudget: one attempt for a ticket.
BudgetByTicket(E) == TicketCount

\* The iterations of `for _ in 0..=attempt_budget`.
AttemptBudget(E) == Cardinality(E) + 2

Init ==
    \E naming \in Namings : \E answer \in Answers(naming) :
        /\ edges = DedupeEdges(ResolveEdges(naming, answer))
        /\ broken = {} /\ implied = {}
        /\ tries = AttemptBudget(edges) /\ phase = "breaking"
-----------------------------------------------------------------------------
\* The sequences of tickets detect_cycle may return: each blocks the next,
\* and the last the first.
After(c, i) == IF i = Len(c) THEN c[1] ELSE c[i + 1]
Cycle(E, c) == /\ \A i, j \in DOMAIN c : c[i] = c[j] => i = j
               /\ \A i \in DOMAIN c : <<c[i], After(c, i)>> \in E
Cycles(E) == UNION { {c \in [1..n -> Ticket] : Cycle(E, c)} : n \in 2..TicketCount }

\* A way from a to b over the edges of E, along distinct tickets.
Reachable(E, a, b) ==
    \E n \in 2..TicketCount : \E p \in [1..n -> Ticket] :
        /\ p[1] = a /\ p[n] = b
        /\ \A i, j \in 1..n : p[i] = p[j] => i = j
        /\ \A i \in 1..(n - 1) : <<p[i], p[i + 1]>> \in E

\* Mutant of Dropped: the blocker with the lowest ordinal.
DroppedLowest(c) == LET b == Min({c[i] : i \in DOMAIN c})
                    IN  CHOOSE e \in {<<c[i], After(c, i)>> : i \in DOMAIN c} : e[1] = b

\* The edge of the cycle whose blocker has the highest ordinal.
Dropped(c) == LET i == CHOOSE i \in DOMAIN c : \A j \in DOMAIN c : c[i] >= c[j]
              IN  <<c[i], After(c, i)>>

\* An attempt of break_cycles that finds a cycle.  Without an attempt left
\* the code fails with E_MAP_CYCLE: BudgetSuffices says it never does.
BreakCycle ==
    /\ phase = "breaking" /\ tries > 0
    /\ \E c \in Cycles(edges) :
          /\ edges'  = edges \ {Dropped(c)}
          /\ broken' = broken \cup {Dropped(c)}
    /\ tries' = tries - 1
    /\ UNCHANGED <<implied, phase>>

\* Mutant of NoCycleLeft: only two tickets that block each other are a cycle.
NoPairLeft ==
    /\ phase = "breaking" /\ tries > 0
    /\ \A e \in edges : <<e[2], e[1]>> \notin edges
    /\ phase' = "reducing"
    /\ UNCHANGED <<edges, broken, implied, tries>>

NoCycleLeft ==
    /\ phase = "breaking" /\ tries > 0 /\ Cycles(edges) = {}
    /\ phase' = "reducing"
    /\ UNCHANGED <<edges, broken, implied, tries>>

\* reachable_without.
Redundant(E, e) == Reachable(E \ {e}, e[1], e[2])

\* Mutant of Reduce: the search may use the edge it is about.
ReduceByItself ==
    /\ phase = "reducing"
    /\ \E e \in edges :
          /\ Reachable(edges, e[1], e[2])
          /\ edges' = edges \ {e} /\ implied' = implied \cup {e}
    /\ UNCHANGED <<broken, tries, phase>>

\* transitive_reduce: a scan removes one edge.
Reduce ==
    /\ phase = "reducing"
    /\ \E e \in edges :
          /\ Redundant(edges, e)
          /\ edges' = edges \ {e} /\ implied' = implied \cup {e}
    /\ UNCHANGED <<broken, tries, phase>>

Blocked(E) == {e[2] : e \in E}

\* Mutant of CheckFrontier: the scans end only when one removed something.
CheckFrontierOnceReduced ==
    /\ phase = "reducing" /\ implied # {} /\ \A e \in edges : ~Redundant(edges, e)
    /\ phase' = IF Ticket \ Blocked(edges) # {} THEN "done" ELSE "empty_frontier"
    /\ UNCHANGED <<edges, broken, implied, tries>>

\* cap_out_degree only reports; check_frontier decides.
CheckFrontier ==
    /\ phase = "reducing" /\ \A e \in edges : ~Redundant(edges, e)
    /\ phase' = IF Ticket \ Blocked(edges) # {} THEN "done" ELSE "empty_frontier"
    /\ UNCHANGED <<edges, broken, implied, tries>>

Next == BreakCycle \/ NoCycleLeft \/ Reduce \/ CheckFrontier

Spec == Init /\ [][Next]_vars /\ WF_vars(Next)
-----------------------------------------------------------------------------
Edge == Ticket \X Ticket

TypeOK ==
    /\ edges \subseteq Edge /\ broken \subseteq Edge /\ implied \subseteq Edge
    /\ tries \in Nat
    /\ phase \in {"breaking", "reducing", "done", "empty_frontier"}

\* A cycle is broken at an edge that points back: no edge from an earlier
\* ticket to a later one is ever given up for a cycle.
ForwardEdgesKept == \A e \in broken : e[1] > e[2]

\* The repair never runs out of attempts, "unreachable in ordinary use".
BudgetSuffices == phase = "breaking" => tries > 0

\* Once the cycles are broken none comes back.
StaysAcyclic == phase \in {"reducing", "done"} => Cycles(edges) = {}

\* The reduction keeps exactly the edges that no longer path implies, measured on the
\* graph before it: "a DAG's transitive reduction is unique".
ReductionIsUnique ==
    phase = "done" =>
        LET dag == edges \cup implied
        IN  edges = {e \in dag : ~Redundant(dag, e)}

\* "Every map must start with a takeable ticket": a map that has tickets does.
StartsTakeable == TicketCount > 0 => phase # "empty_frontier"

\* The repair comes to an end.
RepairEnds == <>(phase \in {"done", "empty_frontier"})
=============================================================================
