------------------------------- MODULE MapViews -------------------------------
(***************************************************************************)
(* What is read out of a map: the digest a model sees, the snapshot of the *)
(* fog map view, the health report, the exports, map_read and ticket_zoom. *)
(* Source: crates/dark-cartograph/src/{digest,export}/*.rs, health.rs,     *)
(* snapshot.rs, frontier.rs, tools/{map_read,ticket_zoom}.rs.              *)
(*                                                                         *)
(* A map is its rows: tickets and exclusions are sets of records, edges    *)
(* pairs <<blocker, blocked>> of ids, and ids numbers, ordered as they     *)
(* were made.  A text is its size in words; layout is left out.            *)
(***************************************************************************)
EXTENDS Integers, SequencesExt, FiniteSetsExt

CONSTANTS
    DecisionsKept,   \* DECISIONS_KEPT: ten
    Budget           \* ESTIMATED_BUDGET: 900 words

Absent == "absent"

\* ORDER BY: the rows by their keys, compared column by column.
Precedes(one, other) ==
    \E k \in DOMAIN one : one[k] < other[k] /\ \A j \in 1..(k - 1) : one[j] = other[j]
OrderedBy(rows, Key(_)) ==
    SetToSortSeq(rows, LAMBDA one, other : Precedes(Key(one), Key(other)))

Filtered(map, status) == {t \in map.tickets : t.status = status}
Row(map, id) == CHOOSE t \in map.tickets : t.id = id

ByOrdinal(rows) == OrderedBy(rows, LAMBDA t : <<t.ordinal, t.id>>)

-----------------------------------------------------------------------------
(* What is takeable, and what waits for what.                              *)

Unfinished(map, id) == Row(map, id).status \notin {"resolved", "out_of_scope"}

Frontier(map) ==
    ByOrdinal({t \in Filtered(map, "open") :
                  ~\E e \in map.edges : e[2] = t.id /\ Unfinished(map, e[1])})

\* Rows in order of the blocked ticket's ordinal and then of the blocker, whoever is
\* blocked by it.
BlockedRows(map) ==
    LET waiting == {e \in map.edges : Row(map, e[2]).status = "open" /\ Unfinished(map, e[1])}
    IN  OrderedBy({[ordinal |-> Row(map, e[2]).ordinal, blocker |-> e[1], id |-> e[2]] : e \in waiting},
                  LAMBDA row : <<row.ordinal, row.blocker, row.id>>)

\* A row joins the entry before it when that is of the same ticket.
Grouped(entries, row) ==
    IF entries # << >> /\ Last(entries).id = row.id
    THEN Append(Front(entries), [Last(entries) EXCEPT !.blockers = Append(@, row.blocker)])
    ELSE Append(entries, [id |-> row.id, blockers |-> <<row.blocker>>])
Blocked(map) == FoldLeft(Grouped, << >>, BlockedRows(map))

-----------------------------------------------------------------------------
(* The digest.                                                             *)

Decisions(map) ==
    OrderedBy(Filtered(map, "resolved"), LAMBDA t : <<-t.resolvedAt, t.id>>)

LoadFog(map) == OrderedBy({f \in map.fog : ~f.graduated}, LAMBDA f : <<f.createdAt, f.id>>)

\* How much a digest leaves out, by steps: decisions past the first ones; the names of
\* blocked tickets, then all but their number; all of a patch of fog but a sentence.
Levels == <<"full", "decisions", "edges", "count", "fog">>
Level(k) == [collapsed |-> k >= 2, blocked |-> IF k <= 2 THEN "full" ELSE IF k = 3 THEN "edges" ELSE "count",
             truncated |-> k = 5]

\* The sections of a digest: what each shows, and how many words it takes.
DecisionsBlock(map, collapsed) ==
    LET all == Decisions(map)
        shown == IF collapsed THEN SubSeq(all, 1, Min({DecisionsKept, Len(all)})) ELSE all
        note == IF Len(shown) < Len(all) THEN 4 ELSE 0
    IN  [total |-> Len(all), shown |-> shown,
         words |-> IF all = << >> THEN 0 ELSE 3 + FoldLeft(LAMBDA n, t : n + 2 + t.gist, note, shown)]

BlockedBlock(map, level) ==
    LET all == Blocked(map)
        cost(entry) == CASE level = "full" -> 5 + Len(entry.blockers)
                         [] level = "edges" -> 4 [] level = "count" -> 0
    IN  [total |-> Len(all), shown |-> IF level = "count" THEN << >> ELSE all,
         words |-> IF all = << >> THEN 0 ELSE 2 + FoldLeft(LAMBDA n, entry : n + cost(entry), 0, all)]

FogBlock(map, truncated) ==
    LET cost(f) == 1 + (IF truncated THEN f.sentence ELSE f.patch)
    IN  [shown |-> LoadFog(map),
         words |-> IF LoadFog(map) = << >> THEN 0 ELSE 4 + FoldLeft(LAMBDA n, f : n + cost(f), 0, LoadFog(map))]

FrontierWords(map) == 4 + 3 * Len(Frontier(map))
ExclusionWords(map) == IF map.excluded = {} THEN 0 ELSE 4 + 4 * Cardinality(map.excluded)

RenderAt(map, k) ==
    LET decisions == DecisionsBlock(map, Level(k).collapsed)
        blocked == BlockedBlock(map, Level(k).blocked)
        fog == FogBlock(map, Level(k).truncated)
    IN  [frontier |-> Frontier(map), decisions |-> decisions, blocked |-> blocked, fog |-> fog,
         words |-> map.heading + decisions.words + FrontierWords(map) + blocked.words
                   + fog.words + ExclusionWords(map)]

\* One step more is left out while the text is over the budget and a step is left.
RECURSIVE Compressed(_, _)
Compressed(map, k) ==
    IF RenderAt(map, k).words > Budget /\ k < Len(Levels) THEN Compressed(map, k + 1) ELSE k

Render(map, tier) ==
    CASE tier = "none" -> [words |-> 0]
      [] tier = "frontier_only" ->
           [frontier |-> Frontier(map), words |-> map.heading + FrontierWords(map)]
      [] tier = "full" -> RenderAt(map, Compressed(map, 1))

\* map_read: no map is looked for when nothing is asked; no name is the map updated last.
MapRead(maps, id, tier) ==
    LET last == Head(OrderedBy(maps, LAMBDA m : <<-m.updatedAt, -m.id>>))
    IN  CASE tier \notin {"full", "frontier_only", "none"} -> "E_TOOL_INVALID_ARGS"
          [] tier = "none" -> "nothing"
          [] tier \in {"full", "frontier_only"} /\ id = Absent ->
               IF maps = {} THEN "E_MAP_NOT_FOUND" ELSE last.id
          [] OTHER -> IF \E m \in maps : m.id = id THEN id ELSE "E_MAP_NOT_FOUND"

-----------------------------------------------------------------------------
(* The snapshot, and the health of a map.                                  *)

\* Every ticket, and every edge into it whatever has become of the blocker.
MapSnapshot(map) ==
    LET tickets == ByOrdinal(map.tickets)
        blockers(id) == OrderedBy({e[1] : e \in {e \in map.edges : e[2] = id}}, LAMBDA e : <<e>>)
    IN  [k \in DOMAIN tickets |-> [id |-> tickets[k].id, status |-> tickets[k].status,
                                   blockedBy |-> blockers(tickets[k].id)]]

\* Twice the middle value, so that it is whole.
TwiceMedian(sorted) ==
    LET n == Len(sorted)
    IN  IF n % 2 = 1 THEN 2 * sorted[n \div 2 + 1] ELSE sorted[n \div 2] + sorted[n \div 2 + 1]

TokenDistribution(map) ==
    LET used == {t \in Filtered(map, "resolved") : t.tokens # Absent}
        sorted == OrderedBy(used, LAMBDA t : <<t.tokens, t.id>>)
        values == [k \in DOMAIN sorted |-> sorted[k].tokens]
    IN  IF values = << >> THEN [count |-> 0]
        ELSE [count |-> Len(values), min |-> Head(values), max |-> Last(values),
              sum |-> FoldLeft(+, 0, values), twiceMedian |-> TwiceMedian(values)]

\* Only tickets of this map are reported as compacted, in the order they were given.
CompactedTickets(map, ids) == SelectSeq(ids, LAMBDA id : \E t \in map.tickets : t.id = id)

TypeRatio(map) ==
    [kind \in {"research", "grilling"} |-> Cardinality({t \in map.tickets : t.kind = kind})]

SilentAxes(map, known) == SelectSeq(known, LAMBDA axis : ~\E t \in map.tickets : t.axis = axis)

-----------------------------------------------------------------------------
(* Exports.                                                                *)

ExportEdges(map) ==
    OrderedBy(map.edges, LAMBDA e : <<Row(map, e[2]).ordinal, e[1], e[2]>>)

BlockersOf(map, id) == SelectSeq(ExportEdges(map), LAMBDA e : e[2] = id)

\* An issue for a ticket; one that is finished with is closed.
GithubPlan(map) ==
    LET tickets == ByOrdinal(map.tickets)
    IN  [k \in DOMAIN tickets |->
            [id |-> tickets[k].id,
             blockedBy |-> [j \in DOMAIN BlockersOf(map, tickets[k].id) |->
                               BlockersOf(map, tickets[k].id)[j][1]],
             close |-> tickets[k].status \in {"resolved", "out_of_scope", "invalidated"}]]

\* A list of tickets in Markdown; only a resolved one is ticked.
Markdown(map) ==
    LET plan == GithubPlan(map)
    IN  [k \in DOMAIN plan |-> [id |-> plan[k].id, blockedBy |-> plan[k].blockedBy,
                                ticked |-> Row(map, plan[k].id).status = "resolved"]]

\* A flowchart has a node for a ticket and an arrow for an edge.
Mermaid(map) == [nodes |-> ByOrdinal(map.tickets), arrows |-> ExportEdges(map)]

\* What ticket_zoom shows of a ticket.
Resolution(ticket) ==
    CASE ticket.resolution = Absent -> <<"not yet resolved">>
      [] ticket.resolution # Absent /\ ticket.gist = 0 -> <<ticket.resolution>>
      [] OTHER -> <<ticket.resolution, "gist">>
TicketZoom(map, id) ==
    IF ~\E t \in map.tickets : t.id = id THEN "E_MAP_NOT_FOUND"
    ELSE [resolution |-> Resolution(Row(map, id)), axis |-> Row(map, id).axis]
=============================================================================
