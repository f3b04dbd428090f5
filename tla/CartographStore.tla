--------------------------- MODULE CartographStore ---------------------------
(***************************************************************************)
(* The data of one map: journal events, the SQLite projection they build,  *)
(* replay, and the cycle check on blocking edges.                          *)
(*                                                                         *)
(* crates/dark-cartograph/src/{journal/event.rs, store/mod.rs,             *)
(* store/cycle.rs}.  Names, questions, resolutions' wording and ordinals   *)
(* are abstracted away; an update keeps who closed the ticket (text),      *)
(* because the question "whose reason does the ticket hold" is about it.   *)
(***************************************************************************)
EXTENDS Naturals, Sequences

CONSTANTS
    Session,   \* the harness sessions; a session's name is its session_id
    Ticket,    \* ticket identifiers
    Fog,       \* fog patch identifiers
    None       \* SQL NULL, and serde's absent field

ASSUME NoneIsNoIdentifier == None \notin Session \cup Ticket \cup Fog

Terminal == {"resolved", "out_of_scope", "invalidated"}
TicketStatus == {"open", "claimed"} \cup Terminal

ASSUME NoneIsNoStatus == None \notin TicketStatus

EventKind == {"map_created", "ticket_created", "ticket_updated", "edge_added",
              "fog_added", "fog_graduated", "scope_exclusion_added"}

\* One line of journal.jsonl.  A field the event does not carry is None (or
\* 0 for claimed_at: the model's clock starts at 1).
JournalEvent ==
    [kind : EventKind, id : Ticket \cup Fog \cup {None},
     blocked : Ticket \cup {None}, status : TicketStatus \cup {None},
     claimed_by : Session \cup {None}, claimed_at : Nat,
     resolution : Session \cup {None}, release_claim : BOOLEAN]

Event(kind, id) ==
    [kind |-> kind, id |-> id, blocked |-> None, status |-> None,
     claimed_by |-> None, claimed_at |-> 0, resolution |-> None,
     release_claim |-> FALSE]

\* Mutants of Closed and Claimed: the status in the wrong field too, the claim
\* time left out.
ClosedIntoResolution(t, status, by) ==
    [Event("ticket_updated", t) EXCEPT !.status = status, !.resolution = status]
ClaimedWithoutTime(t, by, now) ==
    [Event("ticket_updated", t) EXCEPT !.status = "claimed", !.claimed_by = by]

EdgeAdded(blocker, blocked) ==
    [Event("edge_added", blocker) EXCEPT !.blocked = blocked]
Closed(t, status, by) ==
    [Event("ticket_updated", t) EXCEPT !.status = status, !.resolution = by]
Claimed(t, by, now) ==
    [Event("ticket_updated", t) EXCEPT !.status = "claimed", !.claimed_by = by,
                                       !.claimed_at = now]
Reopened(t) ==
    [Event("ticket_updated", t) EXCEPT !.status = "open", !.release_claim = TRUE]

-----------------------------------------------------------------------------
(* The projection: .dark/cartograph.db *)

TicketRow == [status : TicketStatus \cup {"absent"}, claimed_by : Session \cup {None},
              claimed_at : Nat, resolution : Session \cup {None}]

Db == [map : BOOLEAN, tickets : [Ticket -> TicketRow],
       edges : SUBSET (Ticket \X Ticket), fog : [Fog -> {"absent", "patch", "graduated"}],
       excluded : SUBSET (Ticket \cup {None})]

NoTicket == [status |-> "absent", claimed_by |-> None, claimed_at |-> 0,
             resolution |-> None]
NewTicket == [NoTicket EXCEPT !.status = "open"]

EmptyDb == [map |-> FALSE, tickets |-> [t \in Ticket |-> NoTicket], edges |-> {},
            fog |-> [f \in Fog |-> "absent"], excluded |-> {}]

Coalesce(new, old) == IF new = None THEN old ELSE new

\* UPDATE tickets SET ...: None leaves a column alone, and release_claim
\* clears the two claim columns.
UpdateRow(row, e) ==
    [status     |-> Coalesce(e.status, row.status),
     claimed_by |-> IF e.release_claim THEN None
                    ELSE Coalesce(e.claimed_by, row.claimed_by),
     claimed_at |-> IF e.release_claim THEN 0
                    ELSE IF e.claimed_at = 0 THEN row.claimed_at ELSE e.claimed_at,
     resolution |-> Coalesce(e.resolution, row.resolution)]

Exists(db, t) == db.tickets[t].status # "absent"

\* The constraints SQLite enforces on the statement Store::apply runs:
\* primary keys on INSERT, foreign keys on tickets.map_id and on edges.
CanApply(db, e) ==
    CASE e.kind = "map_created"    -> ~db.map
      [] e.kind = "ticket_created" -> db.map /\ ~Exists(db, e.id)
      [] e.kind = "edge_added"     -> Exists(db, e.id) /\ Exists(db, e.blocked)
      [] e.kind = "fog_added"      -> db.fog[e.id] = "absent"
      [] OTHER                     -> TRUE

\* Store::apply.  An UPDATE of a row that does not exist changes nothing.
Apply(db, e) ==
    CASE e.kind = "map_created"    -> [db EXCEPT !.map = TRUE]
      [] e.kind = "ticket_created" -> [db EXCEPT !.tickets[e.id] = NewTicket]
      [] e.kind = "ticket_updated" ->
            IF Exists(db, e.id)
            THEN [db EXCEPT !.tickets[e.id] = UpdateRow(@, e)] ELSE db
      [] e.kind = "edge_added"     -> [db EXCEPT !.edges = @ \cup {<<e.id, e.blocked>>}]
      [] e.kind = "fog_added"      -> [db EXCEPT !.fog[e.id] = "patch"]
      [] e.kind = "fog_graduated"  ->
            IF db.fog[e.id] = "absent" THEN db
            ELSE [db EXCEPT !.fog[e.id] = "graduated"]
      [] e.kind = "scope_exclusion_added" -> [db EXCEPT !.excluded = @ \cup {e.id}]

\* The projections Store::rebuild passes through: rebuilt[n] is the database
\* after the first n events.
Rebuilt(log) ==
    LET rebuilt[n \in 0..Len(log)] ==
          IF n = 0 THEN EmptyDb
          ELSE LET before == rebuilt[n - 1]
               IN  IF CanApply(before, log[n]) THEN Apply(before, log[n]) ELSE before
    IN rebuilt

Replay(log) == Rebuilt(log)[Len(log)]

\* `dark map rebuild` finishes: no statement of the replay fails.
Replayable(log) ==
    LET rebuilt == Rebuilt(log)
    IN  \A n \in 1..Len(log) : CanApply(rebuilt[n - 1], log[n])

-----------------------------------------------------------------------------
(* Blocking edges *)

\* A set of tickets nothing leads out of.
ClosedUnder(S, edges) == \A e \in edges : e[1] \in S => e[2] \in S

\* There is a path, perhaps empty, from a to b: every closed set that holds
\* a holds b.  The breadth-first search of cycle.rs computes this.
Reaches(edges, a, b) ==
    \A S \in SUBSET Ticket : a \in S /\ ClosedUnder(S, edges) => b \in S

\* Mutants of ClosesCycle: only the reverse edge is looked for; the edge from
\* a ticket to itself is let through.
ClosesTwoCycle(edges, blocker, blocked) ==
    blocker = blocked \/ <<blocked, blocker>> \in edges
ClosesLongerCycle(edges, blocker, blocked) ==
    blocker # blocked /\ Reaches(edges, blocked, blocker)

\* find_cycle returns a path: adding the edge would close a cycle.
ClosesCycle(edges, blocker, blocked) == Reaches(edges, blocked, blocker)

Acyclic(edges) == \A e \in edges : ~Reaches(edges, e[2], e[1])

\* frontier(): open tickets that wait on nothing unresolved.
Frontier(db) ==
    {t \in Ticket :
        /\ db.tickets[t].status = "open"
        /\ \A e \in db.edges :
              e[2] = t => db.tickets[e[1]].status \in {"resolved", "out_of_scope"}}

=============================================================================
