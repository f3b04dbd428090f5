---------------------------- MODULE MCCartograph ----------------------------
(* Small instances of Cartograph: who calls which operation in each run;    *)
(* and facts about what is read out of a map, which TLC evaluates before.  *)
EXTENDS Cartograph, SequencesExt, FiniteSetsExt, TLC

CONSTANTS s1, s2, t1, t2

OnlyCallers(callers) == [tool \in Tool |-> IF tool \in DOMAIN callers THEN callers[tool] ELSE {}]

\* Sessions race for claims; one of them also reaps.
ClaimCallers == OnlyCallers("ticket_claim" :> Session @@ "reap_expired" :> {s1})

\* A map grows and is worked: any session adds to it, claims, and closes
\* what it claimed; one of them wires it.
WorkCallers ==
    OnlyCallers("map_create" :> {s1} @@ "ticket_create" :> {s1} @@ "ticket_block" :> {s2}
             @@ "fog_write" :> {s2} @@ "fog_graduate" :> {s1}
             @@ "ticket_claim" :> Session @@ "ticket_resolve" :> Session
             @@ "ticket_invalidate" :> {s2})
WorkOwnOnly == {"ticket_resolve", "ticket_invalidate"}

\* One session charts and works while the other rebuilds, with failures.
RebuildCallers ==
    OnlyCallers("ticket_claim" :> {s2} @@ "ticket_resolve" :> {s2}
             @@ "write_map" :> {s1} @@ "map_create" :> {s1} @@ "map_rebuild" :> Session @@ "scope_exclude" :> {s2})

NoPlan == <<>>
PlanChain == << <<t1, t2>> >>

ClaimsAndCloses == OnlyCallers("ticket_claim" :> {s1} @@ "ticket_resolve" :> {s2})
ReaperAndWorker == OnlyCallers("ticket_claim" :> {s1} @@ "ticket_resolve" :> {s1}
                            @@ "reap_expired" :> {s2})
NoReaper == OnlyCallers("ticket_claim" :> {s1})
Wirers == OnlyCallers("ticket_block" :> Session)
Excluder == OnlyCallers("ticket_resolve" :> {s1} @@ "scope_exclude" :> {s1})
Resolver == OnlyCallers("ticket_resolve" :> {s1})
Charter == OnlyCallers("write_map" :> {s1})

Everyone == Session
Clients == Session \ {s1}
AllTickets == Ticket
OneTicket == {t1}
TwoTickets == {t1, t2}
ThirdTicket == Ticket \ TwoTickets
Nothing == {}

-----------------------------------------------------------------------------
(* What is read out of a map of three tickets, with room for a digest of   *)
(* twenty words that keeps one decision when it must.                      *)

Views == INSTANCE MapViews WITH DecisionsKept <- 1, Budget <- 34

Row(id, ordinal, status) ==
    [id |-> id, ordinal |-> ordinal, status |-> status, kind |-> "research", axis |-> "shape",
     resolvedAt |-> ordinal, gist |-> 2, tokens |-> 3 * ordinal, resolution |-> "text"]
MapOf(tickets, edges) ==
    [tickets |-> tickets, edges |-> edges, heading |-> 8, excluded |-> {},
     fog |-> {[id |-> 1, createdAt |-> 1, patch |-> 9, sentence |-> 2, graduated |-> FALSE]}]
Statuses == {"open", "claimed"} \cup Terminal
Maps == {MapOf({Row(k, 3 - k, statuses[k]) : k \in 1..3}, edges) :
            statuses \in [1..3 -> Statuses], edges \in SUBSET {<<1, 2>>, <<1, 3>>, <<2, 3>>}}

\* The tickets a digest shows as takeable and as blocked are the open ones, each once
\* (frontier, load_blocked), when no two tickets have the same ordinal.
ASSUME EveryOpenTicketIsShown ==
    \A map \in Maps :
        LET shown == [k \in DOMAIN Views!Frontier(map) |-> Views!Frontier(map)[k].id]
                     \o [k \in DOMAIN Views!Blocked(map) |-> Views!Blocked(map)[k].id]
        IN  IsInjective(shown) /\ ToSet(shown) = {t.id : t \in Views!Filtered(map, "open")}

\* Two tickets of one ordinal, which sessions that create at once can give them, are
\* each shown as often as they have blockers (load_blocked groups rows as they come).
ASSUME SharedOrdinalsRepeat ==
    LET map == MapOf({Row(k, IF k <= 2 THEN k ELSE 3, "open") : k \in 1..4}, {1, 2} \X {3, 4})
    IN  Len(Views!Blocked(map)) = 4

\* A digest leaves out no more than it must to fit, and at no step a takeable ticket or
\* the number of what it does not show; a step past the first makes it no longer, the
\* first may, for what it says instead of a decision (render_full).
ASSUME NoMoreIsLeftOut ==
    \A map \in Maps :
        LET chosen == Views!Compressed(map, 1)
            at(k) == Views!RenderAt(map, k)
        IN  /\ at(chosen).words <= 34 \/ chosen = Len(Views!Levels)
            /\ \A k \in 1..(chosen - 1) : at(k).words > 34
            /\ Len(at(1).decisions.shown) = at(1).decisions.total
            /\ \A k \in DOMAIN Views!Levels :
                  /\ at(k).frontier = at(1).frontier
                  /\ at(k).decisions.total = Cardinality(Views!Filtered(map, "resolved"))
                  /\ at(k).blocked.total = Len(at(1).blocked.shown)
                  /\ k > 2 => at(k).words <= at(k - 1).words

\* Half of the tickets used no more than the median, half no less, and what is kept of
\* the decisions is the newest (median_of_sorted, load_decisions).
ASSUME MedianIsInTheMiddle ==
    \A values \in SeqOf(0..3, 4) : values # << >> =>
        LET sorted == SortSeq(values, <)
            twice == Views!TwiceMedian(sorted)
        IN  /\ 2 * Cardinality({k \in DOMAIN values : 2 * values[k] <= twice}) >= Len(values)
            /\ 2 * Cardinality({k \in DOMAIN values : 2 * values[k] >= twice}) >= Len(values)
ASSUME NewestDecisionIsKept ==
    \A map \in Maps : \A t \in Views!Filtered(map, "resolved") :
        Views!DecisionsBlock(map, TRUE).shown[1].resolvedAt >= t.resolvedAt

\* The exports and the snapshot tell of the same edges, each once; the issues of a plan
\* are closed for every ticket the store takes no more updates of (require_not_terminal).
ASSUME ExportsAgree ==
    \A map \in Maps :
        LET plan == Views!GithubPlan(map)
            snapshot == Views!MapSnapshot(map)
        IN  /\ \A k \in DOMAIN plan :
                  /\ plan[k].id = snapshot[k].id /\ plan[k].blockedBy = snapshot[k].blockedBy
                  /\ plan[k].close = (snapshot[k].status \in Terminal)
                  /\ Views!Markdown(map)[k].ticked => plan[k].close
            /\ UNION {{<<blocker, plan[k].id>> : blocker \in ToSet(plan[k].blockedBy)} :
                         k \in DOMAIN plan} = ToSet(Views!Mermaid(map).arrows)
=============================================================================
