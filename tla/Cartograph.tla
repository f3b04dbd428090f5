------------------------------ MODULE Cartograph ------------------------------
(***************************************************************************)
(* Harness sessions working one map: every ticket tool call is a short     *)
(* program of journal appends and SQLite statements, and the sessions'     *)
(* programs interleave step by step.                                       *)
(*                                                                         *)
(* crates/dark-cartograph/src/{tools/*.rs, frontier.rs, store/mod.rs} and  *)
(* write_map in crates/dark-cli/src/plan.rs.  A call first reads the       *)
(* database and decides (one action); what it decided to write is then     *)
(* carried out one append or one statement at a time (RunStep), with other *)
(* sessions' steps, crashes and failed writes in between.                  *)
(***************************************************************************)
EXTENDS CartographStore, FiniteSets, SequencesExt

CONSTANTS
    Research, Hitl,   \* ticket types that matter: research; prototype and grilling
    Humans,           \* sessions whose ToolCtx carries human_present
    Callers,          \* [Tool -> SUBSET Session]: who calls which operation
    OwnTicketsOnly,   \* the tools a session calls only on a ticket it claimed
    Charted,          \* tickets on the map at the start
    Planned,          \* a finished charting run's edges, as its checkpoints hold them
    Lease,            \* DEFAULT_LEASE_MS, in clock ticks
    Mortal,           \* sessions that may crash or see a write fail
    MaxClock, MaxJournal, MaxFaults   \* bounds of the instance

Tool == {"map_create", "ticket_create", "ticket_claim", "ticket_resolve",
         "ticket_invalidate", "ticket_block", "fog_write", "fog_graduate",
         "scope_exclude", "reap_expired", "map_rebuild", "write_map"}

ASSUME CartographAssumption ==
    /\ Research \subseteq Ticket /\ Hitl \subseteq Ticket \ Research
    /\ Humans \subseteq Session /\ Mortal \subseteq Session
    /\ Callers \in [Tool -> SUBSET Session]
    /\ OwnTicketsOnly \subseteq Tool
    /\ Charted \subseteq Ticket /\ IsFiniteSet(Ticket)
    /\ Planned \in Seq(Ticket \X Ticket)
    /\ Lease \in Nat \ {0}
    /\ MaxClock \in Nat /\ MaxJournal \in Nat /\ MaxFaults \in Nat

VARIABLES
    journal,     \* journal.jsonl of the map
    db,          \* what .dark/cartograph.db holds
    todo,        \* [Session -> the steps left of the call it is in]
    stale,       \* sessions whose open connection is to a deleted file
    dead,        \* crashed sessions
    lease,       \* [Session -> [Ticket -> expires_at it was told, 0 for none]]
    resolvedOne, \* sessions whose resolved_non_research flag is set
    clock, faults

vars == <<journal, db, todo, stale, dead, lease, resolvedOne, clock, faults>>

StepOp == {"check", "append", "apply", "replay"}
Step == [op : StepOp, ev : JournalEvent]
Do(op, e) == [op |-> op, ev |-> e]

\* Mutant of Record: the database first, the journal second.
RecordDerivedFirst(e) == <<Do("apply", e), Do("append", e)>>

\* journal_then_apply: durable first, derived second.
Record(e) == <<Do("append", e), Do("apply", e)>>

TypeOK ==
    /\ journal \in Seq(JournalEvent)
    /\ db \in Db
    /\ todo \in [Session -> Seq(Step)]
    /\ stale \subseteq Session /\ dead \subseteq Session
    /\ resolvedOne \subseteq Session
    /\ lease \in [Session -> [Ticket -> Nat]]
    /\ clock \in 1..(MaxClock + 1) /\ faults \in 0..MaxFaults

Opening ==
    IF Charted = {} THEN <<>>
    ELSE <<Event("map_created", None)>>
         \o [i \in 1..Cardinality(Charted) |->
                Event("ticket_created", SetToSeq(Charted)[i])]

Init ==
    /\ journal = Opening
    /\ db = Replay(Opening)
    /\ todo = [s \in Session |-> <<>>]
    /\ stale = {} /\ dead = {} /\ resolvedOne = {}
    /\ lease = [s \in Session |-> [t \in Ticket |-> 0]]
    /\ clock = 1 /\ faults = 0

-----------------------------------------------------------------------------
(* Tool calls: read, decide, and queue what to write. *)

Idle(s) == todo[s] = <<>> /\ s \notin dead

\* A call that has passed its checks: every call opens its own connection,
\* so the one it opens is to the current file.
Call(tool, s, steps) ==
    /\ s \in Callers[tool] /\ Idle(s)
    /\ tool # "reap_expired" => Len(journal) < MaxJournal
    /\ todo' = [todo EXCEPT ![s] = steps]
    /\ stale' = stale \ {s}
    /\ UNCHANGED <<journal, dead, lease, resolvedOne, clock, faults>>

Steps(steps) == {steps[i] : i \in 1..Len(steps)}

\* Events any session has written or is about to write.
Mentioned == Steps(journal) \cup {st.ev : st \in UNION {Steps(todo[s]) : s \in Session}}

\* new_id(): a ULID nobody has used.
Fresh(kind, id) == Event(kind, id) \notin Mentioned

\* Mutant of RequireNotTerminal: only an invalidated ticket is refused.
RequireNotInvalidated(t) == db.tickets[t].status # "invalidated"

RequireNotTerminal(t) == db.tickets[t].status \in {"open", "claimed"}

\* The caller's own order of work: dark-plan's claim-before-work.
OwnsIfAsked(tool, s, t) == tool \in OwnTicketsOnly => lease[s][t] # 0

MapCreate(s) ==
    /\ Fresh("map_created", None)
    /\ Call("map_create", s, Record(Event("map_created", None)))
    /\ UNCHANGED db

TicketCreate(s, t) ==
    /\ db.map /\ Fresh("ticket_created", t)
    /\ Call("ticket_create", s, Record(Event("ticket_created", t)))
    /\ UNCHANGED db

\* frontier::claim: the conditional UPDATE decides first, in the database;
\* only the winner appends.
TicketClaim(s, t) ==
    /\ db.tickets[t].status = "open"
    /\ Call("ticket_claim", s, <<Do("append", Claimed(t, s, clock))>>)
    /\ db' = [db EXCEPT !.tickets[t].status = "claimed",
                        !.tickets[t].claimed_by = s, !.tickets[t].claimed_at = clock]

\* Mutant of CheckSessionLimit: the flag is read for research tickets instead.
LimitResearchOnly(s, t) == t \notin Research \/ s \notin resolvedOne

CheckHitl(s, t) == t \in Hitl => s \in Humans
CheckSessionLimit(s, t) == t \in Research \/ s \notin resolvedOne

TicketResolve(s, t) ==
    /\ RequireNotTerminal(t) /\ CheckHitl(s, t) /\ CheckSessionLimit(s, t)
    /\ OwnsIfAsked("ticket_resolve", s, t)
    /\ Call("ticket_resolve", s, Record(Closed(t, "resolved", s)))
    /\ UNCHANGED db

TicketInvalidate(s, t) ==
    /\ RequireNotTerminal(t)
    /\ OwnsIfAsked("ticket_invalidate", s, t)
    /\ Call("ticket_invalidate", s, Record(Closed(t, "invalidated", s)))
    /\ UNCHANGED db

\* add_edge: find_cycle over the edges in the database, then the writes.
TicketBlock(s, blocker, blocked) ==
    /\ Exists(db, blocker) /\ Exists(db, blocked)
    /\ ~ClosesCycle(db.edges, blocker, blocked)
    /\ Call("ticket_block", s, Record(EdgeAdded(blocker, blocked)))
    /\ UNCHANGED db

FogWrite(s, f) ==
    /\ db.map /\ Fresh("fog_added", f)
    /\ Call("fog_write", s, Record(Event("fog_added", f)))
    /\ UNCHANGED db

FogGraduate(s, f) ==
    /\ db.fog[f] = "patch"
    /\ Call("fog_graduate", s, Record(Event("fog_graduated", f)))
    /\ UNCHANGED db

\* The exclusion row, then the ticket that raised it, when one did.
ScopeExclude(s, t) ==
    /\ db.map /\ (t # None => Exists(db, t))
    /\ t # None => OwnsIfAsked("scope_exclude", s, t)
    /\ Call("scope_exclude", s,
            Record(Event("scope_exclusion_added", t))
            \o IF t = None THEN <<>> ELSE Record(Closed(t, "out_of_scope", None)))
    /\ UNCHANGED db

\* Mutant of Expired: the lease length is forgotten, so any claim counts.
ExpiredAtOnce == {t \in Ticket : /\ db.tickets[t].status = "claimed"
                                 /\ db.tickets[t].claimed_at <= clock}

Expired == {t \in Ticket : /\ db.tickets[t].status = "claimed"
                           /\ db.tickets[t].claimed_at + Lease <= clock}

\* reap_expired lists the expired claims once, then reopens each in turn.
ReapExpired(s) ==
    /\ Expired # {}
    /\ Call("reap_expired", s,
            FlattenSeq([i \in 1..Cardinality(Expired) |->
                           Record(Reopened(SetToSeq(Expired)[i]))]))
    /\ UNCHANGED db

\* Store::rebuild deletes the file, reads the journal and replays it.  A
\* session in the middle of a call keeps its connection to the old file.
MapRebuild(s) ==
    /\ s \in Callers["map_rebuild"] /\ Idle(s)
    /\ db' = EmptyDb
    /\ todo' = [todo EXCEPT ![s] = [i \in 1..Len(journal) |-> Do("replay", journal[i])]]
    /\ stale' = (stale \cup {r \in Session : todo[r] # <<>>}) \ {s}
    /\ UNCHANGED <<journal, dead, lease, resolvedOne, clock, faults>>

\* dark plan, and dark plan resume: write_map of a charting run's output,
\* whose identifiers come from the run's checkpoints.
WriteMap(s) ==
    LET created == [i \in 1..Cardinality(Ticket) |->
                       Record(Event("ticket_created", SetToSeq(Ticket)[i]))]
        wired   == [i \in 1..Len(Planned) |->
                       LET e == EdgeAdded(Planned[i][1], Planned[i][2])
                       IN  <<Do("check", e)>> \o Record(e)]
    IN  /\ Call("write_map", s, Record(Event("map_created", None))
                                \o FlattenSeq(created) \o FlattenSeq(wired))
        /\ UNCHANGED db

-----------------------------------------------------------------------------
(* Carrying a call out *)

NextStep(s) == todo[s][1]
Advance(s) == todo' = [todo EXCEPT ![s] = Tail(@)]
Abandon(s) == todo' = [todo EXCEPT ![s] = <<>>]

\* The cycle check of an add_edge inside a longer call.
CheckEdge(s) ==
    /\ todo[s] # <<>> /\ NextStep(s).op = "check"
    /\ IF s \notin stale /\ ClosesCycle(db.edges, NextStep(s).ev.id, NextStep(s).ev.blocked)
       THEN Abandon(s) ELSE Advance(s)
    /\ UNCHANGED <<journal, db, stale, dead, lease, resolvedOne, clock, faults>>

\* journal::append.  For a claim this is the last step: the caller is told
\* it holds the ticket, and until when.
AppendLine(s) ==
    LET e == NextStep(s).ev
    IN  /\ todo[s] # <<>> /\ NextStep(s).op = "append"
        /\ journal' = Append(journal, e)
        /\ lease' = IF e.status = "claimed"
                    THEN [lease EXCEPT ![s][e.id] = e.claimed_at + Lease] ELSE lease
        /\ Advance(s)
        /\ UNCHANGED <<db, stale, dead, resolvedOne, clock, faults>>

\* Store::apply, live or in a replay.  A refused statement ends the call
\* with an error; a connection to a deleted file changes nothing here.  A
\* live resolve sets the session's Rule 20 flag once it is applied.
ApplyStatement(s) ==
    LET e == NextStep(s).ev
    IN  /\ todo[s] # <<>> /\ NextStep(s).op \in {"apply", "replay"}
        /\ IF s \in stale THEN db' = db /\ Advance(s)
           ELSE IF CanApply(db, e) THEN db' = Apply(db, e) /\ Advance(s)
           ELSE db' = db /\ Abandon(s)
        /\ resolvedOne' =
              IF NextStep(s).op = "apply" /\ e.status = "resolved" /\ e.id \notin Research
              THEN resolvedOne \cup {s} ELSE resolvedOne
        /\ UNCHANGED <<journal, stale, dead, lease, clock, faults>>

\* A write that fails (disk, or SQLITE_BUSY past the busy timeout): the call
\* returns the error and writes nothing more.
WriteFails(s) ==
    /\ s \in Mortal /\ faults < MaxFaults /\ todo[s] # <<>>
    /\ Abandon(s)
    /\ faults' = faults + 1
    /\ UNCHANGED <<journal, db, stale, dead, lease, resolvedOne, clock>>

Crash(s) ==
    /\ s \in Mortal \ dead /\ faults < MaxFaults
    /\ dead' = dead \cup {s}
    /\ Abandon(s)
    /\ faults' = faults + 1
    /\ UNCHANGED <<journal, db, stale, lease, resolvedOne, clock>>

Tick ==
    /\ clock <= MaxClock
    /\ clock' = clock + 1
    /\ UNCHANGED <<journal, db, todo, stale, dead, lease, resolvedOne, faults>>

ToolCall(s) ==
    \/ MapCreate(s)
    \/ \E t \in Ticket : \/ TicketCreate(s, t) \/ TicketClaim(s, t) \/ TicketResolve(s, t)
                         \/ TicketInvalidate(s, t)
    \/ \E t \in Ticket, u \in Ticket : TicketBlock(s, t, u)
    \/ \E f \in Fog : FogWrite(s, f) \/ FogGraduate(s, f)
    \/ \E t \in Ticket \cup {None} : ScopeExclude(s, t)
    \/ ReapExpired(s) \/ MapRebuild(s) \/ WriteMap(s)

RunStep(s) == CheckEdge(s) \/ AppendLine(s) \/ ApplyStatement(s)

Next == \/ \E s \in Session : ToolCall(s) \/ RunStep(s) \/ WriteFails(s) \/ Crash(s)
        \/ Tick

Spec == Init /\ [][Next]_vars

\* A session that is in a call keeps running it, time passes, and whoever
\* reaps keeps reaping.
Fairness == /\ \A s \in Session : WF_vars(RunStep(s)) /\ WF_vars(ReapExpired(s))
            /\ WF_vars(Tick)

FairSpec == Spec /\ Fairness

-----------------------------------------------------------------------------
(* Properties *)

Quiet == \A s \in Session : todo[s] = <<>>

\* s has won the ticket and its lease has not run out: it was told so, or it
\* is between the winning UPDATE and the append.
Holds(s, t) ==
    \/ lease[s][t] > clock
    \/ \E i \in 1..Len(todo[s]) :
          LET e == todo[s][i].ev
          IN  e.status = "claimed" /\ e.id = t /\ todo[s][i].op = "append"
              /\ e.claimed_at + Lease > clock

\* Two sessions never work the same ticket at once: whatever the order of the
\* conditional UPDATEs, the appends and one reaper's steps, at most one
\* session holds an unexpired claim on a ticket (frontier.rs, claim).
OneHolder == \A t \in Ticket : \A r, s \in Session : Holds(r, t) /\ Holds(s, t) => r = s

\* The database never shows a fact the journal does not also hold, with the
\* one exception the code names, a claim between its UPDATE and its append.
\* Crashes, failed writes and rebuilds in mid-call do not break it
\* (Store::apply after journal::append; Store::rebuild).
DbBacked ==
    LET written == Steps(journal)
    IN  /\ db.map => Event("map_created", None) \in written
        /\ \A t \in Ticket :
              LET status == db.tickets[t].status
              IN  \/ status = "absent"
                  \/ /\ status \in {"open", "claimed"}
                     /\ Event("ticket_created", t) \in written
                  \/ \E e \in written : e.id = t /\ e.status = status
        /\ \A e \in db.edges : EdgeAdded(e[1], e[2]) \in written
        /\ \A f \in Fog : db.fog[f] = "graduated" => Event("fog_graduated", f) \in written
        /\ \A t \in db.excluded : Event("scope_exclusion_added", t) \in written

\* When no call is running, a rebuild changes nothing: journal and database
\* agree about every row.
RebuildIsNoOp == Quiet => db = Replay(journal)

\* What a rebuild would show of a closed ticket never changes again, so no
\* later append, a late claim's above all, reopens a resolved ticket.
ClosedStaysClosed ==
    [][LET before == Replay(journal).tickets
           after  == Replay(journal').tickets
       IN  \A t \in Ticket : before[t].status \in Terminal => after[t] = before[t]]_journal

\* Rule 20 over the journal: a session resolves at most one ticket that is
\* not research, counted from what it wrote and not from its flag.
OneResolution ==
    \A s \in Session : \A t, u \in Ticket \ Research :
        {Closed(t, "resolved", s), Closed(u, "resolved", s)} \subseteq Steps(journal) => t = u

\* `dark map rebuild` succeeds on whatever the tools have written: no event
\* names a map or ticket that an earlier event did not create, and nothing is
\* created twice (Store::apply's keys, Store::rebuild).
AlwaysReplayable == Replayable(journal)

\* The blocking edges never form a cycle, in the database or in the journal
\* a later rebuild or merge reads (Store::add_edge).
EdgesAcyclic == Acyclic(db.edges) /\ Acyclic(Replay(journal).edges)

\* While open tickets are left and nothing is claimed or invalidated, the
\* frontier offers one: work cannot stop with every ticket waiting
\* (frontier(), which relies on the edges having no cycle).
FrontierNeverStuck ==
    /\ \A t \in Ticket : db.tickets[t].status \notin {"claimed", "invalidated"}
    /\ \E t \in Ticket : db.tickets[t].status = "open"
    => Frontier(db) # {}

\* A crashed session cannot hold a ticket forever (frontier.rs, module
\* documentation): an expired claim is released.
ExpiredClaimReleased == \A t \in Ticket : t \in Expired ~> t \notin Expired

\* What frontier.rs says of reap_expired: its UPDATE carries the 'claimed'
\* guard, so it never touches a ticket that has since been closed.
ReapSparesClosed ==
    [][\A t \in Ticket :
          db.tickets[t].status \in Terminal => db'.tickets[t].status # "open"]_db

\* What frontier.rs says of rebuilds: none invents a claim.  A ticket that a
\* replay shows as claimed is claimed, or its claim is being written.
NoInventedClaim ==
    \A t \in Ticket :
        (Quiet /\ Replay(journal).tickets[t].status = "claimed")
            => db.tickets[t].status = "claimed"

\* What tools/mod.rs says of require_not_terminal: a ticket the map already
\* closed keeps the reason it first closed for.
FirstReasonKept ==
    [][\A t \in Ticket :
          db.tickets[t].status \in Terminal
              => db'.tickets[t].status = db.tickets[t].status]_db

=============================================================================
