-------------------------- MODULE Cartograph_proofs --------------------------
(***************************************************************************)
(* Proofs about Cartograph, for every set of sessions, tickets and fog     *)
(* patches, every assignment of tools to sessions, and every number of     *)
(* events, faults and clock ticks.                                         *)
(***************************************************************************)
EXTENDS Cartograph, SequenceTheorems, FiniteSetTheorems, WellFoundedInduction, TLAPS

-----------------------------------------------------------------------------
(* Recursion over a log.                                                   *)

\* A set of naturals has a least element: their initial segments are ordered
\* by inclusion, which is well founded on finite sets.
LEMMA LeastNatural ==
    ASSUME NEW T \in SUBSET Nat, T # {}
    PROVE  \E x \in T : \A y \in T : x <= y
<1>. DEFINE Below == {1..x : x \in T}
<1>1. Below \subseteq FiniteSubsetsOf(Nat) /\ Below # {}
  <2>1. ASSUME NEW x \in T PROVE IsFiniteSet(1..x) /\ 1..x \in SUBSET Nat
    <3>1. x \in Int /\ 1 \in Int /\ 1..x \subseteq Nat
      OBVIOUS
    <3>. QED  BY <3>1, FS_Interval
  <2>2. \A c \in Below : c \in SUBSET Nat /\ IsFiniteSet(c)
    BY <2>1
  <2>. QED  BY <2>2 DEF FiniteSubsetsOf
<1>2. PICK b \in Below : \A c \in Below : <<c, b>> \notin StrictSubsetOrdering(Nat)
  BY <1>1, WFMin, FS_StrictSubsetOrderingWellFounded
<1>3. PICK x \in T : b = 1..x
  BY <1>2
<1>4. ASSUME NEW y \in T, ~(x <= y) PROVE FALSE
  <2>1. x \in Nat /\ y \in Nat /\ x > y
    BY <1>4
  <2>2. \A z \in 1..y : z \in 1..x
    BY <2>1
  <2>3. x \in 1..x /\ x \notin 1..y
    BY <2>1
  <2>4. 1..y # 1..x
    BY <2>3
  <2>5. 1..y \in SUBSET Nat /\ 1..x \in SUBSET Nat
    BY <2>1
  <2>6. <<1..y, 1..x>> \in StrictSubsetOrdering(Nat)
    BY <2>2, <2>4, <2>5 DEF StrictSubsetOrdering
  <2>. QED  BY <1>2, <1>3, <2>6
<1>. QED  BY <1>4

\* A set that holds 0 and, with each number below N, the next one, holds all
\* numbers up to N.
LEMMA UpTo ==
    ASSUME NEW N \in Nat, NEW T, 0 \in T, \A n \in 1..N : n - 1 \in T => n \in T
    PROVE  \A n \in 0..N : n \in T
<1>. DEFINE Left == {n \in 0..N : n \notin T}
<1>1. SUFFICES ASSUME Left # {} PROVE FALSE
  OBVIOUS
<1>2. Left \in SUBSET Nat
  OBVIOUS
<1>3. PICK x \in Left : \A y \in Left : x <= y
  <2>. HIDE DEF Left
  <2>. QED  BY <1>1, <1>2, LeastNatural
<1>4. x \in 1..N /\ x - 1 \in 0..N /\ ~(x <= x - 1)
  BY <1>3
<1>5. x - 1 \in T
  BY <1>3, <1>4
<1>. QED  BY <1>3, <1>4, <1>5

\* One event of a replay, as far as the database takes it.
Projected(before, e) == IF CanApply(before, e) THEN Apply(before, e) ELSE before

IsRebuilt(g, log) ==
    g = [n \in 0..Len(log) |-> IF n = 0 THEN EmptyDb ELSE Projected(g[n - 1], log[n])]

\* The recursion of Rebuilt has a solution.
LEMMA RebuiltExists ==
    ASSUME NEW log, Len(log) \in Nat
    PROVE  \E g : IsRebuilt(g, log)
<1>. DEFINE Body(g, n) == IF n = 0 THEN EmptyDb ELSE Projected(g[n - 1], log[n])
            T == {k \in 0..Len(log) : \E g : g = [n \in 0..k |-> Body(g, n)]}
<1>1. 0 \in T
  <2>. DEFINE g0 == [n \in 0..0 |-> EmptyDb]
  <2>1. \A n \in 0..0 : n = 0
    OBVIOUS
  <2>2. g0 = [n \in 0..0 |-> Body(g0, n)]
    BY <2>1
  <2>3. \E g : g = [n \in 0..0 |-> Body(g, n)]
    <3>. HIDE DEF g0, Body
    <3>. QED  BY <2>2
  <2>. QED  BY <2>3
<1>2. ASSUME NEW k \in 1..Len(log), k - 1 \in T PROVE k \in T
  <2>1. PICK g : g = [n \in 0..(k - 1) |-> Body(g, n)]
    BY <1>2
  <2>. DEFINE h == [n \in 0..k |-> IF n = k THEN Body(g, k) ELSE g[n]]
  <2>2. ASSUME NEW n \in 0..k PROVE h[n] = Body(h, n)
    <3>1. CASE n = 0
      <4>1. n # k /\ 0 \in 0..(k - 1)
        BY <3>1
      <4>2. g[0] = EmptyDb
        BY <2>1, <4>1
      <4>. QED  BY <3>1, <4>1, <4>2
    <3>2. CASE n # 0
      <4>1. n - 1 \in 0..k /\ n - 1 # k /\ n - 1 \in 0..(k - 1)
        BY <3>2
      <4>2. h[n - 1] = g[n - 1]
        BY <4>1
      <4>3. n # k => n \in 0..(k - 1)
        OBVIOUS
      <4>4. n # k => g[n] = Body(g, n)
        BY <2>1, <4>3
      <4>. QED  BY <3>2, <4>2, <4>4
    <3>. QED  BY <3>1, <3>2
  <2>3. h = [n \in 0..k |-> Body(h, n)]
    <3>. HIDE DEF Body
    <3>. QED  BY <2>2
  <2>4. \E f : f = [n \in 0..k |-> Body(f, n)]
    <3>. HIDE DEF h, Body
    <3>. QED  BY <2>3
  <2>. QED  BY <2>4
<1>3. \A n \in 0..Len(log) : n \in T
  <2>. HIDE DEF T
  <2>. QED  BY <1>1, <1>2, UpTo
<1>4. \E g : g = [n \in 0..Len(log) |-> Body(g, n)]
  <2>1. Len(log) \in T
    <3>1. Len(log) \in 0..Len(log)
      OBVIOUS
    <3>. HIDE DEF T
    <3>. QED  BY <1>3, <3>1
  <2>. HIDE DEF Body
  <2>. QED  BY <2>1
<1>. QED  BY <1>4, Zenon DEF IsRebuilt

\* A rebuild starts from an empty database and takes one event after another.
LEMMA RebuiltSteps ==
    ASSUME NEW log, Len(log) \in Nat
    PROVE  /\ Rebuilt(log)[0] = EmptyDb
           /\ \A n \in 1..Len(log) : Rebuilt(log)[n] = Projected(Rebuilt(log)[n - 1], log[n])
<1>1. IsRebuilt(Rebuilt(log), log)
  BY RebuiltExists, Zenon DEF Rebuilt, IsRebuilt, Projected
<1>. DEFINE g == Rebuilt(log)
<1>2. g = [n \in 0..Len(log) |-> IF n = 0 THEN EmptyDb ELSE Projected(g[n - 1], log[n])]
  BY <1>1 DEF IsRebuilt
<1>. HIDE DEF g
<1>3. g[0] = EmptyDb
  BY <1>2
<1>4. ASSUME NEW n \in 1..Len(log) PROVE g[n] = Projected(g[n - 1], log[n])
  <2>1. n \in 0..Len(log) /\ n # 0
    OBVIOUS
  <2>. QED  BY <1>2, <2>1
<1>. QED  BY <1>3, <1>4 DEF g

\* Logs that agree up to a point are rebuilt alike up to there.
LEMMA RebuiltPrefix ==
    ASSUME NEW log, NEW more, Len(log) \in Nat, Len(more) \in Nat, Len(log) <= Len(more),
           \A i \in 1..Len(log) : more[i] = log[i]
    PROVE  \A n \in 0..Len(log) : Rebuilt(more)[n] = Rebuilt(log)[n]
<1>. DEFINE T == {n \in 0..Len(log) : Rebuilt(more)[n] = Rebuilt(log)[n]}
<1>1. 0 \in T
  BY RebuiltSteps
<1>2. ASSUME NEW n \in 1..Len(log), n - 1 \in T PROVE n \in T
  <2>1. n \in 1..Len(more) /\ n \in 0..Len(log)
    OBVIOUS
  <2>. QED  BY <1>2, <2>1, RebuiltSteps
<1>3. \A n \in 0..Len(log) : n \in T
  <2>. HIDE DEF T
  <2>. QED  BY <1>1, <1>2, UpTo
<1>. QED  BY <1>3

\* Replaying one more event.
LEMMA ReplayAppend ==
    ASSUME NEW S, NEW log \in Seq(S), NEW e \in S
    PROVE  /\ Replay(Append(log, e)) = Projected(Replay(log), e)
           /\ Replayable(log) /\ CanApply(Replay(log), e) => Replayable(Append(log, e))
<1>. DEFINE more == Append(log, e)
<1>1. /\ Len(log) \in Nat /\ Len(more) = Len(log) + 1 /\ more[Len(log) + 1] = e
      /\ \A i \in 1..Len(log) : more[i] = log[i]
  OBVIOUS
<1>. HIDE DEF more
<1>2. Len(more) \in Nat /\ Len(log) <= Len(more) /\ Len(more) \in 1..Len(more)
      /\ Len(more) - 1 = Len(log) /\ Len(log) \in 0..Len(log)
  BY <1>1
<1>3. \A n \in 0..Len(log) : Rebuilt(more)[n] = Rebuilt(log)[n]
  BY <1>1, <1>2, RebuiltPrefix
<1>4. Rebuilt(more)[Len(more)] = Projected(Rebuilt(log)[Len(log)], e)
  BY <1>1, <1>2, <1>3, RebuiltSteps
<1>5. Replay(more) = Projected(Replay(log), e)
  BY <1>4 DEF Replay
<1>6. ASSUME Replayable(log), CanApply(Replay(log), e), NEW n \in 1..Len(more)
      PROVE  CanApply(Rebuilt(more)[n - 1], more[n])
  <2>1. CASE n = Len(more)
    BY <1>1, <1>2, <1>3, <1>6, <2>1 DEF Replay
  <2>2. CASE n # Len(more)
    <3>1. n \in 1..Len(log) /\ n - 1 \in 0..Len(log)
      BY <1>1, <2>2
    <3>. QED  BY <1>1, <1>3, <1>6, <3>1 DEF Replayable
  <2>. QED  BY <2>1, <2>2
<1>. QED  BY <1>5, <1>6 DEF Replayable, more

-----------------------------------------------------------------------------
(* Events and what they do to a database.                                  *)

\* The events the tools write.
Written ==
    {Event("map_created", None)}
    \cup {Event("ticket_created", t) : t \in Ticket}
    \cup {EdgeAdded(t, u) : t \in Ticket, u \in Ticket}
    \cup {Closed(t, status, by) : t \in Ticket, status \in Terminal, by \in Session \cup {None}}
    \cup {Claimed(t, s, n) : t \in Ticket, s \in Session, n \in Nat}
    \cup {Reopened(t) : t \in Ticket}
    \cup {Event("fog_added", f) : f \in Fog} \cup {Event("fog_graduated", f) : f \in Fog}
    \cup {Event("scope_exclusion_added", t) : t \in Ticket \cup {None}}

\* The same, by kind.
LEMMA WrittenKinds ==
    ASSUME NEW e \in Written
    PROVE  /\ e \in JournalEvent
           /\ \/ e = Event("map_created", None)
              \/ e.id \in Ticket /\ e = Event("ticket_created", e.id)
              \/ e.id \in Ticket /\ e.blocked \in Ticket /\ e = EdgeAdded(e.id, e.blocked)
              \/ e.id \in Ticket /\ e.kind = "ticket_updated"
              \/ e.id \in Fog /\ (e = Event("fog_added", e.id) \/ e = Event("fog_graduated", e.id))
              \/ e.id \in Ticket \cup {None} /\ e = Event("scope_exclusion_added", e.id)
<1>. USE DEF Event, JournalEvent, EventKind, TicketStatus, Terminal
<1>1. CASE e = Event("map_created", None)
  BY <1>1
<1>2. ASSUME NEW t \in Ticket, e = Event("ticket_created", t) PROVE e \in JournalEvent /\ e.id = t
  BY <1>2
<1>3. ASSUME NEW t \in Ticket, NEW u \in Ticket, e = EdgeAdded(t, u)
      PROVE  e \in JournalEvent /\ e.id = t /\ e.blocked = u
  BY <1>3 DEF EdgeAdded
<1>4. ASSUME NEW t \in Ticket, NEW status \in Terminal, NEW by \in Session \cup {None},
             e = Closed(t, status, by)
      PROVE  e \in JournalEvent /\ e.id = t /\ e.kind = "ticket_updated"
  BY <1>4 DEF Closed
<1>5. ASSUME NEW t \in Ticket, NEW s \in Session, NEW n \in Nat, e = Claimed(t, s, n)
      PROVE  e \in JournalEvent /\ e.id = t /\ e.kind = "ticket_updated"
  BY <1>5 DEF Claimed
<1>6. ASSUME NEW t \in Ticket, e = Reopened(t)
      PROVE  e \in JournalEvent /\ e.id = t /\ e.kind = "ticket_updated"
  BY <1>6 DEF Reopened
<1>7. ASSUME NEW f \in Fog, NEW kind \in {"fog_added", "fog_graduated"}, e = Event(kind, f)
      PROVE  e \in JournalEvent /\ e.id = f
  BY <1>7
<1>8. ASSUME NEW t \in Ticket \cup {None}, e = Event("scope_exclusion_added", t)
      PROVE  e \in JournalEvent /\ e.id = t
  BY <1>8
<1>. HIDE DEF Event, JournalEvent, EventKind, TicketStatus
<1>. QED  BY <1>1, <1>2, <1>3, <1>4, <1>5, <1>6, <1>7, <1>8 DEF Written

\* Everything a database shows is in a set of events: the ground on which the
\* journal can rebuild it.
BackedBy(d, W) ==
    /\ d.map => Event("map_created", None) \in W
    /\ \A t \in Ticket : d.tickets[t].status # "absent" => Event("ticket_created", t) \in W
    /\ \A t \in Ticket : d.tickets[t].status \in Terminal =>
          \E e \in W : e.id = t /\ e.status = d.tickets[t].status
    /\ \A e \in d.edges : EdgeAdded(e[1], e[2]) \in W
    /\ \A f \in Fog : d.fog[f] # "absent" => Event("fog_added", f) \in W
    /\ \A f \in Fog : d.fog[f] = "graduated" => Event("fog_graduated", f) \in W
    /\ \A t \in d.excluded : Event("scope_exclusion_added", t) \in W

LEMMA BackedByMore ==
    ASSUME NEW d, NEW W, NEW V, BackedBy(d, W), W \subseteq V
    PROVE  BackedBy(d, V)
BY DEF BackedBy

LEMMA EmptyDbBacked == EmptyDb \in Db /\ \A W : BackedBy(EmptyDb, W)
BY DEF EmptyDb, Db, NoTicket, TicketRow, BackedBy, Terminal

\* An update writes a row, and takes its status from the row or the event.
LEMMA RowUpdated ==
    ASSUME NEW row \in TicketRow, NEW e \in JournalEvent
    PROVE  /\ UpdateRow(row, e) \in TicketRow
           /\ UpdateRow(row, e).status = row.status \/ UpdateRow(row, e).status = e.status
<1>1. e.status \in TicketStatus \cup {None} /\ e.claimed_by \in Session \cup {None}
      /\ e.claimed_at \in Nat /\ e.resolution \in Session \cup {None}
  BY DEF JournalEvent
<1>2. row.status \in TicketStatus \cup {"absent"} /\ row.claimed_by \in Session \cup {None}
      /\ row.claimed_at \in Nat /\ row.resolution \in Session \cup {None}
  BY DEF TicketRow
<1>. QED  BY <1>1, <1>2 DEF UpdateRow, Coalesce, TicketRow

\* Applying an event keeps a database a database, backed by that event and
\* what backed it before.
LEMMA ApplyBacked ==
    ASSUME NEW d \in Db, NEW W, BackedBy(d, W), NEW e \in Written, e \in W
    PROVE  Apply(d, e) \in Db /\ BackedBy(Apply(d, e), W)
<1>0. e \in JournalEvent
  BY WrittenKinds
<1>1. CASE e = Event("map_created", None)
  <2>1. e.kind = "map_created"
    BY <1>1 DEF Event
  <2>2. Apply(d, e) = [d EXCEPT !.map = TRUE]
    BY <2>1 DEF Apply
  <2>. QED  BY <1>1, <2>2 DEF Db, BackedBy
<1>2. CASE e.id \in Ticket /\ e = Event("ticket_created", e.id)
  <2>1. e.kind = "ticket_created"
    BY <1>2 DEF Event
  <2>2. Apply(d, e) = [d EXCEPT !.tickets[e.id] = NewTicket]
    BY <2>1 DEF Apply
  <2>3. NewTicket \in TicketRow /\ NewTicket.status = "open" /\ "open" \notin Terminal
    BY DEF NewTicket, NoTicket, TicketRow, TicketStatus, Terminal
  <2>4. /\ Apply(d, e) \in Db
        /\ Apply(d, e).tickets[e.id] = NewTicket
        /\ \A t \in Ticket \ {e.id} : Apply(d, e).tickets[t] = d.tickets[t]
        /\ Apply(d, e).map = d.map /\ Apply(d, e).edges = d.edges
        /\ Apply(d, e).fog = d.fog /\ Apply(d, e).excluded = d.excluded
    BY <1>2, <2>2, <2>3 DEF Db
  <2>. QED  BY <1>2, <2>3, <2>4 DEF BackedBy
<1>3. CASE e.id \in Ticket /\ e.blocked \in Ticket /\ e = EdgeAdded(e.id, e.blocked)
  <2>1. e.kind = "edge_added"
    BY <1>3 DEF Event, EdgeAdded
  <2>2. Apply(d, e) = [d EXCEPT !.edges = @ \cup {<<e.id, e.blocked>>}]
    BY <2>1 DEF Apply
  <2>3. /\ Apply(d, e) \in Db /\ Apply(d, e).edges = d.edges \cup {<<e.id, e.blocked>>}
        /\ Apply(d, e).map = d.map /\ Apply(d, e).tickets = d.tickets
        /\ Apply(d, e).fog = d.fog /\ Apply(d, e).excluded = d.excluded
    BY <1>3, <2>2 DEF Db
  <2>. QED  BY <1>3, <2>3 DEF BackedBy
<1>4. CASE e.id \in Ticket /\ e.kind = "ticket_updated" /\ Exists(d, e.id)
  <2>1. Apply(d, e) = [d EXCEPT !.tickets[e.id] = UpdateRow(@, e)]
    BY <1>4 DEF Apply
  <2>2. d.tickets[e.id] \in TicketRow
    BY <1>4 DEF Db
  <2>3. UpdateRow(d.tickets[e.id], e) \in TicketRow
    BY <1>0, <2>2, RowUpdated
  <2>4. /\ Apply(d, e) \in Db
        /\ Apply(d, e).tickets[e.id] = UpdateRow(d.tickets[e.id], e)
        /\ \A t \in Ticket \ {e.id} : Apply(d, e).tickets[t] = d.tickets[t]
        /\ Apply(d, e).map = d.map /\ Apply(d, e).edges = d.edges
        /\ Apply(d, e).fog = d.fog /\ Apply(d, e).excluded = d.excluded
    BY <1>4, <2>1, <2>3 DEF Db
  <2>5. Event("ticket_created", e.id) \in W
    BY <1>4 DEF BackedBy, Exists
  <2>6. \/ UpdateRow(d.tickets[e.id], e).status = d.tickets[e.id].status
        \/ UpdateRow(d.tickets[e.id], e).status = e.status
    BY <1>0, <2>2, RowUpdated
  <2>. QED  BY <1>4, <2>4, <2>5, <2>6 DEF BackedBy
<1>5. CASE e.id \in Ticket /\ e.kind = "ticket_updated" /\ ~Exists(d, e.id)
  BY <1>5 DEF Apply
<1>6. CASE e.id \in Fog /\ e = Event("fog_added", e.id)
  <2>1. e.kind = "fog_added"
    BY <1>6 DEF Event
  <2>2. Apply(d, e) = [d EXCEPT !.fog[e.id] = "patch"]
    BY <2>1 DEF Apply
  <2>3. /\ Apply(d, e) \in Db /\ Apply(d, e).fog[e.id] = "patch"
        /\ \A f \in Fog \ {e.id} : Apply(d, e).fog[f] = d.fog[f]
        /\ Apply(d, e).map = d.map /\ Apply(d, e).tickets = d.tickets
        /\ Apply(d, e).edges = d.edges /\ Apply(d, e).excluded = d.excluded
    BY <1>6, <2>2 DEF Db
  <2>. QED  BY <1>6, <2>3 DEF BackedBy
<1>7. CASE e.id \in Fog /\ e = Event("fog_graduated", e.id)
  <2>1. e.kind = "fog_graduated"
    BY <1>7 DEF Event
  <2>2. CASE d.fog[e.id] = "absent"
    BY <2>1, <2>2 DEF Apply
  <2>3. CASE d.fog[e.id] # "absent"
    <3>1. Apply(d, e) = [d EXCEPT !.fog[e.id] = "graduated"]
      BY <2>1, <2>3 DEF Apply
    <3>2. /\ Apply(d, e) \in Db /\ Apply(d, e).fog[e.id] = "graduated"
          /\ \A f \in Fog \ {e.id} : Apply(d, e).fog[f] = d.fog[f]
          /\ Apply(d, e).map = d.map /\ Apply(d, e).tickets = d.tickets
          /\ Apply(d, e).edges = d.edges /\ Apply(d, e).excluded = d.excluded
      BY <1>7, <3>1 DEF Db
    <3>. QED  BY <1>7, <2>3, <3>2 DEF BackedBy
  <2>. QED  BY <2>2, <2>3
<1>8. CASE e.id \in Ticket \cup {None} /\ e = Event("scope_exclusion_added", e.id)
  <2>1. e.kind = "scope_exclusion_added"
    BY <1>8 DEF Event
  <2>2. Apply(d, e) = [d EXCEPT !.excluded = @ \cup {e.id}]
    BY <2>1 DEF Apply
  <2>3. /\ Apply(d, e) \in Db /\ Apply(d, e).excluded = d.excluded \cup {e.id}
        /\ Apply(d, e).map = d.map /\ Apply(d, e).tickets = d.tickets
        /\ Apply(d, e).fog = d.fog /\ Apply(d, e).edges = d.edges
    BY <1>8, <2>2 DEF Db
  <2>. QED  BY <1>8, <2>3 DEF BackedBy
<1>. QED  BY <1>1, <1>2, <1>3, <1>4, <1>5, <1>6, <1>7, <1>8, WrittenKinds

\* The conditional UPDATE of a claim writes one row.
WithClaim(d, t, s, n) == [d EXCEPT !.tickets[t].status = "claimed",
                                   !.tickets[t].claimed_by = s, !.tickets[t].claimed_at = n]

LEMMA ClaimedRow ==
    ASSUME NEW d \in Db, NEW t \in Ticket, NEW s \in Session, NEW n \in Nat
    PROVE  /\ WithClaim(d, t, s, n) \in Db
           /\ WithClaim(d, t, s, n).tickets[t].status = "claimed"
           /\ WithClaim(d, t, s, n).tickets[t].claimed_by = s
           /\ WithClaim(d, t, s, n).tickets[t].claimed_at = n
           /\ WithClaim(d, t, s, n).tickets[t].resolution = d.tickets[t].resolution
           /\ \A u \in Ticket \ {t} : WithClaim(d, t, s, n).tickets[u] = d.tickets[u]
           /\ WithClaim(d, t, s, n).map = d.map /\ WithClaim(d, t, s, n).edges = d.edges
           /\ WithClaim(d, t, s, n).fog = d.fog
           /\ WithClaim(d, t, s, n).excluded = d.excluded
<1>. DEFINE row == [d.tickets[t] EXCEPT !.status = "claimed", !.claimed_by = s, !.claimed_at = n]
            c == WithClaim(d, t, s, n)
<1>1. d.tickets \in [Ticket -> TicketRow] /\ d.tickets[t] \in TicketRow
  BY DEF Db
<1>2. row \in TicketRow /\ row.status = "claimed" /\ row.claimed_by = s /\ row.claimed_at = n
      /\ row.resolution = d.tickets[t].resolution
  BY <1>1 DEF TicketRow, TicketStatus
<1>3. c = [d EXCEPT !.tickets = [d.tickets EXCEPT ![t] = row]]
  BY <1>1 DEF Db, WithClaim
<1>. HIDE DEF row, c
<1>4. [d.tickets EXCEPT ![t] = row] \in [Ticket -> TicketRow]
  BY <1>1, <1>2
<1>5. /\ c \in Db /\ c.tickets = [d.tickets EXCEPT ![t] = row]
      /\ c.map = d.map /\ c.edges = d.edges /\ c.fog = d.fog /\ c.excluded = d.excluded
  BY <1>3, <1>4 DEF Db
<1>6. c.tickets[t] = row /\ \A u \in Ticket \ {t} : c.tickets[u] = d.tickets[u]
  BY <1>1, <1>5
<1>. QED  BY <1>2, <1>5, <1>6 DEF row, c

\* So every projection a rebuild passes through is backed by the log.
LEMMA RebuiltBacked ==
    ASSUME NEW log \in Seq(Written)
    PROVE  \A n \in 0..Len(log) : Rebuilt(log)[n] \in Db /\ BackedBy(Rebuilt(log)[n], Steps(log))
<1>. DEFINE T == {n \in 0..Len(log) :
                    Rebuilt(log)[n] \in Db /\ BackedBy(Rebuilt(log)[n], Steps(log))}
<1>0. Len(log) \in Nat
  OBVIOUS
<1>1. 0 \in T
  BY <1>0, RebuiltSteps, EmptyDbBacked
<1>2. ASSUME NEW n \in 1..Len(log), n - 1 \in T PROVE n \in T
  <2>1. Rebuilt(log)[n] = Projected(Rebuilt(log)[n - 1], log[n])
    BY <1>0, RebuiltSteps
  <2>2. log[n] \in Written /\ log[n] \in Steps(log) /\ n \in 0..Len(log)
    BY DEF Steps
  <2>3. Rebuilt(log)[n - 1] \in Db /\ BackedBy(Rebuilt(log)[n - 1], Steps(log))
    BY <1>2
  <2>4. Rebuilt(log)[n] \in Db /\ BackedBy(Rebuilt(log)[n], Steps(log))
    BY <2>1, <2>2, <2>3, ApplyBacked DEF Projected
  <2>. QED  BY <2>2, <2>4
<1>3. \A n \in 0..Len(log) : n \in T
  <2>. HIDE DEF T
  <2>. QED  BY <1>0, <1>1, <1>2, UpTo
<1>. QED  BY <1>3

-----------------------------------------------------------------------------
(* What a call has queued.                                                 *)

WrittenStep == [op : StepOp, ev : Written]

\* No event reaches the database before the journal has it: each statement
\* left writes an event of the journal, or comes after the append of its own.
Paired(steps, W) ==
    \A i \in 1..Len(steps) : steps[i].op \in {"apply", "replay"} =>
        \/ steps[i].ev \in W
        \/ \E j \in 1..(i - 1) : steps[j] = Do("append", steps[i].ev)

LEMMA DoTypes ==
    ASSUME NEW op \in StepOp, NEW e \in Written
    PROVE  Do(op, e) \in WrittenStep /\ Do(op, e).op = op /\ Do(op, e).ev = e
BY DEF Do, WrittenStep

LEMMA RecordPaired ==
    ASSUME NEW e \in Written, NEW W
    PROVE  Record(e) \in Seq(WrittenStep) /\ Paired(Record(e), W)
<1>1. Do("append", e) \in WrittenStep /\ Do("apply", e) \in WrittenStep
  BY DoTypes DEF StepOp
<1>2. Record(e) \in Seq(WrittenStep)
  BY <1>1 DEF Record
<1>3. Len(Record(e)) = 2 /\ Record(e)[1] = Do("append", e) /\ Record(e)[2] = Do("apply", e)
  BY DEF Record
<1>4. ASSUME NEW i \in 1..2, Record(e)[i].op \in {"apply", "replay"}
      PROVE  \E j \in 1..(i - 1) : Record(e)[j] = Do("append", Record(e)[i].ev)
  <2>1. i = 2
    <3>1. Do("append", e).op = "append"
      BY DEF Do
    <3>2. i = 1 \/ i = 2
      OBVIOUS
    <3>. QED  BY <1>3, <1>4, <3>1, <3>2
  <2>2. 1 \in 1..(i - 1) /\ Record(e)[i].ev = e
    BY <1>3, <2>1 DEF Do
  <2>. QED  BY <1>3, <2>2
<1>. QED  BY <1>2, <1>3, <1>4 DEF Paired

LEMMA PairedByMore ==
    ASSUME NEW steps, NEW W, NEW V, Paired(steps, W), W \subseteq V
    PROVE  Paired(steps, V)
BY DEF Paired

LEMMA EmptyPaired == <<>> \in Seq(WrittenStep) /\ \A W : Paired(<<>>, W)
<1>1. Len(<<>>) = 0 /\ \A i \in 1..0 : FALSE
  OBVIOUS
<1>. QED  BY <1>1 DEF Paired

LEMMA ConcatPaired ==
    ASSUME NEW a \in Seq(WrittenStep), NEW b \in Seq(WrittenStep), NEW W,
           Paired(a, W), Paired(b, W)
    PROVE  a \o b \in Seq(WrittenStep) /\ Paired(a \o b, W)
<1>. DEFINE c == a \o b
<1>1. /\ c \in Seq(WrittenStep) /\ Len(a) \in Nat /\ Len(b) \in Nat /\ Len(c) = Len(a) + Len(b)
      /\ \A i \in 1..Len(a) : c[i] = a[i]
  OBVIOUS
<1>2. \A i \in 1..Len(b) : c[Len(a) + i] = b[i]
  OBVIOUS
<1>. HIDE DEF c
<1>3. ASSUME NEW i \in 1..Len(c), c[i].op \in {"apply", "replay"}
      PROVE  c[i].ev \in W \/ \E j \in 1..(i - 1) : c[j] = Do("append", c[i].ev)
  <2>1. CASE i \in 1..Len(a)
    <3>1. c[i] = a[i] /\ \A j \in 1..(i - 1) : j \in 1..Len(a)
      BY <1>1, <2>1
    <3>. QED  BY <1>1, <1>3, <2>1, <3>1 DEF Paired
  <2>2. CASE i \notin 1..Len(a)
    <3>1. PICK k \in 1..Len(b) : i = Len(a) + k
      <4>1. i - Len(a) \in 1..Len(b) /\ i = Len(a) + (i - Len(a))
        BY <1>1, <1>3, <2>2
      <4>. QED  BY <4>1
    <3>2. c[i] = b[k]
      BY <1>2, <3>1
    <3>3. \A j \in 1..(k - 1) : /\ j \in 1..Len(b)
                                /\ Len(a) + j \in 1..(i - 1) /\ c[Len(a) + j] = b[j]
      BY <1>1, <1>2, <3>1
    <3>4. b[k].ev \in W \/ \E j \in 1..(k - 1) : b[j] = Do("append", b[k].ev)
      BY <1>3, <3>2 DEF Paired
    <3>. QED  BY <3>2, <3>3, <3>4
  <2>. QED  BY <2>1, <2>2
<1>. QED  BY <1>1, <1>3 DEF Paired, c

\* FlattenSeq one sequence after another.
LEMMA FlattenSteps ==
    ASSUME NEW S, NEW seqs \in Seq(Seq(S)), Len(seqs) # 0
    PROVE  \E g : /\ FlattenSeq(seqs) = g[Len(seqs)] /\ g[1] = seqs[1]
                  /\ \A i \in 2..Len(seqs) : g[i] = g[i - 1] \o seqs[i]
<1>. DEFINE Body(g, i) == IF i = 1 THEN seqs[i] ELSE g[i - 1] \o seqs[i]
            T == {k \in 0..Len(seqs) : \E g : g = [i \in 1..k |-> Body(g, i)]}
<1>0. Len(seqs) \in Nat /\ Len(seqs) \in 0..Len(seqs)
  OBVIOUS
<1>1. 0 \in T
  <2>. DEFINE g0 == [i \in 1..0 |-> <<>>]
  <2>1. g0 = [i \in 1..0 |-> Body(g0, i)]
    OBVIOUS
  <2>2. \E g : g = [i \in 1..0 |-> Body(g, i)]
    <3>. HIDE DEF g0, Body
    <3>. QED  BY <2>1
  <2>3. 0 \in 0..Len(seqs)
    BY <1>0
  <2>. HIDE DEF Body
  <2>. QED  BY <2>2, <2>3
<1>2. ASSUME NEW k \in 1..Len(seqs), k - 1 \in T PROVE k \in T
  <2>1. PICK g : g = [i \in 1..(k - 1) |-> Body(g, i)]
    BY <1>2
  <2>. DEFINE h == [i \in 1..k |-> IF i = k THEN Body(g, k) ELSE g[i]]
  <2>2. ASSUME NEW i \in 1..k PROVE h[i] = Body(h, i)
    <3>1. i # k => i \in 1..(k - 1) /\ h[i] = g[i]
      OBVIOUS
    <3>2. i # 1 => i - 1 \in 1..(k - 1) /\ i - 1 \in 1..k /\ i - 1 # k
      OBVIOUS
    <3>3. i # 1 => h[i - 1] = g[i - 1]
      BY <3>2
    <3>4. i # k => g[i] = Body(g, i)
      BY <2>1, <3>1
    <3>. QED  BY <3>1, <3>3, <3>4
  <2>3. h = [i \in 1..k |-> Body(h, i)]
    <3>. HIDE DEF Body
    <3>. QED  BY <2>2
  <2>4. \E f : f = [i \in 1..k |-> Body(f, i)]
    <3>. HIDE DEF h, Body
    <3>. QED  BY <2>3
  <2>5. k \in 0..Len(seqs)
    BY <1>0
  <2>. HIDE DEF Body
  <2>. QED  BY <2>4, <2>5
<1>3. Len(seqs) \in T
  <2>. HIDE DEF T
  <2>1. \A n \in 0..Len(seqs) : n \in T
    BY <1>0, <1>1, <1>2, UpTo
  <2>. QED  BY <1>0, <2>1
<1>4. \E g : g = [i \in 1..Len(seqs) |-> Body(g, i)]
  <2>. HIDE DEF Body
  <2>. QED  BY <1>3
<1>5. \E g : /\ FlattenSeq(seqs) = g[Len(seqs)]
             /\ g = [i \in 1..Len(seqs) |-> IF i = 1 THEN seqs[i] ELSE g[i - 1] \o seqs[i]]
  BY <1>4, Zenon DEF FlattenSeq
<1>6. PICK g : /\ FlattenSeq(seqs) = g[Len(seqs)]
               /\ g = [i \in 1..Len(seqs) |-> IF i = 1 THEN seqs[i] ELSE g[i - 1] \o seqs[i]]
  BY <1>5
<1>7. g[1] = seqs[1]
  <2>1. 1 \in 1..Len(seqs)
    BY <1>0
  <2>. QED  BY <1>6, <2>1
<1>8. \A i \in 2..Len(seqs) : g[i] = g[i - 1] \o seqs[i]
  <2>1. \A i \in 2..Len(seqs) : i \in 1..Len(seqs) /\ i # 1
    OBVIOUS
  <2>. QED  BY <1>6, <2>1
<1>. QED  BY <1>6, <1>7, <1>8

LEMMA FlattenPaired ==
    ASSUME NEW seqs \in Seq(Seq(WrittenStep)), NEW W, \A i \in 1..Len(seqs) : Paired(seqs[i], W)
    PROVE  FlattenSeq(seqs) \in Seq(WrittenStep) /\ Paired(FlattenSeq(seqs), W)
<1>0. Len(seqs) \in Nat
  OBVIOUS
<1>1. CASE Len(seqs) = 0
  <2>1. seqs = <<>> /\ FlattenSeq(seqs) = seqs
    BY <1>1 DEF FlattenSeq
  <2>. QED  BY <2>1, EmptyPaired
<1>2. CASE Len(seqs) # 0
  <2>1. PICK g : /\ FlattenSeq(seqs) = g[Len(seqs)] /\ g[1] = seqs[1]
                 /\ \A i \in 2..Len(seqs) : g[i] = g[i - 1] \o seqs[i]
    BY <1>2, FlattenSteps
  <2>. DEFINE T == {n \in 0..Len(seqs) : n = 0 \/ (g[n] \in Seq(WrittenStep) /\ Paired(g[n], W))}
  <2>2. ASSUME NEW n \in 1..Len(seqs), n - 1 \in T PROVE n \in T
    <3>0. seqs[n] \in Seq(WrittenStep) /\ Paired(seqs[n], W) /\ n \in 0..Len(seqs)
      OBVIOUS
    <3>1. CASE n = 1
      BY <2>1, <3>0, <3>1
    <3>2. CASE n # 1
      <4>1. n \in 2..Len(seqs) /\ n - 1 # 0
        BY <3>2
      <4>2. g[n - 1] \in Seq(WrittenStep) /\ Paired(g[n - 1], W)
        BY <2>2, <4>1
      <4>3. g[n] = g[n - 1] \o seqs[n]
        BY <2>1, <4>1
      <4>4. g[n] \in Seq(WrittenStep) /\ Paired(g[n], W)
        BY <3>0, <4>2, <4>3, ConcatPaired
      <4>. QED  BY <3>0, <4>4
    <3>. QED  BY <3>1, <3>2
  <2>3. Len(seqs) \in T
    <3>1. 0 \in T /\ Len(seqs) \in 0..Len(seqs)
      BY <1>0
    <3>. HIDE DEF T
    <3>2. \A n \in 0..Len(seqs) : n \in T
      BY <1>0, <2>2, <3>1, UpTo
    <3>. QED  BY <3>1, <3>2
  <2>. QED  BY <1>2, <2>1, <2>3
<1>. QED  BY <1>1, <1>2

\* SetToSeq numbers the elements of a finite set.
LEMMA Numbered ==
    ASSUME NEW S, IsFiniteSet(S)
    PROVE  /\ Cardinality(S) \in Nat /\ SetToSeq(S) \in [1..Cardinality(S) -> S]
           /\ \A i, j \in 1..Cardinality(S) : SetToSeq(S)[i] = SetToSeq(S)[j] => i = j
<1>1. Cardinality(S) \in Nat /\ ExistsBijection(1..Cardinality(S), S)
  BY FS_CardinalityType
<1>2. \E f \in [1..Cardinality(S) -> S] : IsInjective(f)
  BY <1>1 DEF ExistsBijection, Bijection, Injection, IsInjective
<1>3. SetToSeq(S) \in [1..Cardinality(S) -> S] /\ IsInjective(SetToSeq(S))
  BY <1>2, Zenon DEF SetToSeq
<1>. QED  BY <1>1, <1>3 DEF IsInjective

-----------------------------------------------------------------------------
(* The inductive invariant of DbBacked.                                    *)

\* The journal holds events of the tools, the calls write such events, the
\* journal backs the database, and what it does not back yet is not applied
\* before it is appended.
Inv ==
    /\ TypeOK
    /\ journal \in Seq(Written)
    /\ todo \in [Session -> Seq(WrittenStep)]
    /\ BackedBy(db, Steps(journal))
    /\ \A s \in Session : Paired(todo[s], Steps(journal))

LEMMA WrittenIsTyped == Written \subseteq JournalEvent /\ WrittenStep \subseteq Step
<1>1. Written \subseteq JournalEvent
  BY WrittenKinds
<1>. QED  BY <1>1 DEF WrittenStep, Step

LEMMA StepsGrow ==
    ASSUME NEW S, NEW log \in Seq(S), NEW e \in S
    PROVE  Append(log, e) \in Seq(S) /\ Steps(Append(log, e)) = Steps(log) \cup {e}
<1>. DEFINE more == Append(log, e)
<1>1. /\ more \in Seq(S) /\ Len(log) \in Nat /\ Len(more) = Len(log) + 1 /\ more[Len(log) + 1] = e
      /\ \A i \in 1..Len(log) : more[i] = log[i]
  OBVIOUS
<1>. HIDE DEF more
<1>2. /\ Len(log) + 1 \in 1..Len(more)
      /\ \A i \in 1..Len(more) : i \in 1..Len(log) \/ i = Len(log) + 1
      /\ \A i \in 1..Len(log) : i \in 1..Len(more)
  BY <1>1
<1>3. \A x \in Steps(more) : x \in Steps(log) \cup {e}
  BY <1>1, <1>2 DEF Steps
<1>4. \A x \in Steps(log) : x \in Steps(more)
  BY <1>1, <1>2 DEF Steps
<1>5. e \in Steps(more)
  BY <1>1, <1>2 DEF Steps
<1>. QED  BY <1>1, <1>3, <1>4, <1>5 DEF more

\* A typed program's tail, entry by entry.
LEMMA TailOf ==
    ASSUME NEW S, NEW steps \in Seq(S), steps # <<>>
    PROVE  /\ Tail(steps) \in Seq(S) /\ steps[1] \in S /\ Len(steps) \in Nat \ {0}
           /\ Len(Tail(steps)) = Len(steps) - 1
           /\ \A i \in 1..Len(Tail(steps)) : i + 1 \in 2..Len(steps) /\ Tail(steps)[i] = steps[i + 1]
OBVIOUS

\* Once the first step is done, the rest is still paired: an append has put
\* its event in the journal.
LEMMA TailPaired ==
    ASSUME NEW steps \in Seq(WrittenStep), steps # <<>>, NEW W, Paired(steps, W),
           NEW V, W \subseteq V, steps[1].op = "append" => steps[1].ev \in V
    PROVE  Tail(steps) \in Seq(WrittenStep) /\ Paired(Tail(steps), V)
<1>1. /\ Tail(steps) \in Seq(WrittenStep) /\ Len(steps) \in Nat
      /\ \A i \in 1..Len(Tail(steps)) : i + 1 \in 2..Len(steps) /\ Tail(steps)[i] = steps[i + 1]
  BY TailOf
<1>2. ASSUME NEW i \in 1..Len(Tail(steps)), Tail(steps)[i].op \in {"apply", "replay"}
      PROVE  \/ Tail(steps)[i].ev \in V
             \/ \E j \in 1..(i - 1) : Tail(steps)[j] = Do("append", Tail(steps)[i].ev)
  <2>1. i + 1 \in 1..Len(steps) /\ Tail(steps)[i] = steps[i + 1]
    BY <1>1
  <2>2. \/ steps[i + 1].ev \in W
        \/ \E j \in 1..((i + 1) - 1) : steps[j] = Do("append", steps[i + 1].ev)
    BY <1>2, <2>1 DEF Paired
  <2>3. CASE steps[i + 1].ev \in W
    BY <2>1, <2>3
  <2>4. ASSUME NEW j \in 1..((i + 1) - 1), steps[j] = Do("append", steps[i + 1].ev)
        PROVE  \/ Tail(steps)[i].ev \in V
               \/ \E k \in 1..(i - 1) : Tail(steps)[k] = Do("append", Tail(steps)[i].ev)
    <3>1. CASE j = 1
      BY <2>1, <2>4, <3>1 DEF Do
    <3>2. CASE j # 1
      <4>1. j - 1 \in 1..(i - 1) /\ j - 1 \in 1..Len(Tail(steps)) /\ (j - 1) + 1 = j
        BY <1>1, <3>2
      <4>2. Tail(steps)[j - 1] = steps[j]
        BY <1>1, <4>1
      <4>. QED  BY <2>1, <2>4, <4>1, <4>2
    <3>. QED  BY <3>1, <3>2
  <2>. QED  BY <2>2, <2>3, <2>4
<1>. QED  BY <1>1, <1>2 DEF Paired

\* A call that has decided what to write.
LEMMA CallKeeps ==
    ASSUME Inv, NEW s \in Session, NEW tool, NEW steps \in Seq(WrittenStep),
           Paired(steps, Steps(journal)), Call(tool, s, steps),
           db' \in Db, BackedBy(db', Steps(journal))
    PROVE  Inv'
<1>1. /\ todo' = [todo EXCEPT ![s] = steps] /\ stale' = stale \ {s}
      /\ journal' = journal /\ dead' = dead /\ lease' = lease /\ resolvedOne' = resolvedOne
      /\ clock' = clock /\ faults' = faults
  BY DEF Call
<1>2. todo' \in [Session -> Seq(WrittenStep)] /\ \A r \in Session : Paired(todo'[r], Steps(journal))
  BY <1>1 DEF Inv
<1>3. todo' \in [Session -> Seq(Step)]
  BY <1>2, WrittenIsTyped
<1>4. TypeOK'
  BY <1>1, <1>3 DEF Inv, TypeOK
<1>. QED  BY <1>1, <1>2, <1>4 DEF Inv, Steps

\* Every call, before it has written anything.
LEMMA ToolCallKeeps ==
    ASSUME Inv, NEW s \in Session, ToolCall(s)
    PROVE  Inv'
<1>. DEFINE W == Steps(journal)
<1>0. db \in Db /\ BackedBy(db, W)
  BY DEF Inv, TypeOK
<1>1. CASE MapCreate(s)
  <2>1. Event("map_created", None) \in Written
    BY DEF Written
  <2>. QED  BY <1>0, <1>1, <2>1, RecordPaired, CallKeeps DEF MapCreate
<1>2. ASSUME NEW t \in Ticket, TicketCreate(s, t) PROVE Inv'
  <2>1. Event("ticket_created", t) \in Written
    BY DEF Written
  <2>. QED  BY <1>0, <1>2, <2>1, RecordPaired, CallKeeps DEF TicketCreate
<1>3. ASSUME NEW t \in Ticket, TicketClaim(s, t) PROVE Inv'
  <2>. DEFINE steps == <<Do("append", Claimed(t, s, clock))>>
  <2>1. /\ db.tickets[t].status = "open" /\ Call("ticket_claim", s, steps)
        /\ db' = WithClaim(db, t, s, clock)
    BY <1>3 DEF TicketClaim, WithClaim
  <2>2. clock \in Nat
    BY DEF Inv, TypeOK
  <2>3. Claimed(t, s, clock) \in Written
    BY <2>2 DEF Written
  <2>4. Do("append", Claimed(t, s, clock)) \in WrittenStep
    BY <2>3, DoTypes DEF StepOp
  <2>5. steps \in Seq(WrittenStep)
    BY <2>4
  <2>6. Paired(steps, W)
    <3>1. \A i \in 1..Len(steps) : steps[i] = Do("append", Claimed(t, s, clock))
      OBVIOUS
    <3>. QED  BY <3>1 DEF Paired, Do
  <2>7. /\ db' \in Db /\ db'.tickets[t].status = "claimed"
        /\ \A u \in Ticket \ {t} : db'.tickets[u] = db.tickets[u]
        /\ db'.map = db.map /\ db'.edges = db.edges
        /\ db'.fog = db.fog /\ db'.excluded = db.excluded
    BY <1>0, <2>1, <2>2, ClaimedRow
  <2>8. BackedBy(db', W)
    BY <1>0, <2>1, <2>7 DEF BackedBy, Terminal
  <2>. QED  BY <2>1, <2>5, <2>6, <2>7, <2>8, CallKeeps
<1>4. ASSUME NEW t \in Ticket, TicketResolve(s, t) PROVE Inv'
  <2>1. Closed(t, "resolved", s) \in Written
    BY DEF Written, Terminal
  <2>. QED  BY <1>0, <1>4, <2>1, RecordPaired, CallKeeps DEF TicketResolve
<1>5. ASSUME NEW t \in Ticket, TicketInvalidate(s, t) PROVE Inv'
  <2>1. Closed(t, "invalidated", s) \in Written
    BY DEF Written, Terminal
  <2>. QED  BY <1>0, <1>5, <2>1, RecordPaired, CallKeeps DEF TicketInvalidate
<1>6. ASSUME NEW t \in Ticket, NEW u \in Ticket, TicketBlock(s, t, u) PROVE Inv'
  <2>1. EdgeAdded(t, u) \in Written
    BY DEF Written
  <2>. QED  BY <1>0, <1>6, <2>1, RecordPaired, CallKeeps DEF TicketBlock
<1>7. ASSUME NEW f \in Fog, FogWrite(s, f) \/ FogGraduate(s, f) PROVE Inv'
  <2>1. Event("fog_added", f) \in Written /\ Event("fog_graduated", f) \in Written
    BY DEF Written
  <2>. QED  BY <1>0, <1>7, <2>1, RecordPaired, CallKeeps DEF FogWrite, FogGraduate
<1>8. ASSUME NEW t \in Ticket \cup {None}, ScopeExclude(s, t) PROVE Inv'
  <2>. DEFINE close == IF t = None THEN <<>> ELSE Record(Closed(t, "out_of_scope", None))
              steps == Record(Event("scope_exclusion_added", t)) \o close
  <2>1. Event("scope_exclusion_added", t) \in Written
    BY DEF Written
  <2>2. t # None => Closed(t, "out_of_scope", None) \in Written
    BY DEF Written, Terminal
  <2>3. close \in Seq(WrittenStep) /\ Paired(close, W)
    BY <2>2, RecordPaired, EmptyPaired
  <2>4. steps \in Seq(WrittenStep) /\ Paired(steps, W)
    <3>. HIDE DEF close
    <3>. QED  BY <2>1, <2>3, RecordPaired, ConcatPaired
  <2>5. Call("scope_exclude", s, steps) /\ UNCHANGED db
    BY <1>8 DEF ScopeExclude
  <2>. HIDE DEF steps
  <2>. QED  BY <1>0, <2>4, <2>5, CallKeeps
<1>9. CASE ReapExpired(s)
  <2>. DEFINE n == Cardinality(Expired)
              seqs == [i \in 1..n |-> Record(Reopened(SetToSeq(Expired)[i]))]
  <2>1. Expired \in SUBSET Ticket /\ IsFiniteSet(Expired)
    BY CartographAssumption, FS_Subset DEF Expired
  <2>2. n \in Nat /\ SetToSeq(Expired) \in [1..n -> Expired]
    BY <2>1, Numbered
  <2>3. ASSUME NEW i \in 1..n
        PROVE  /\ Record(Reopened(SetToSeq(Expired)[i])) \in Seq(WrittenStep)
               /\ Paired(Record(Reopened(SetToSeq(Expired)[i])), W)
    <3>1. SetToSeq(Expired)[i] \in Ticket
      BY <2>1, <2>2
    <3>2. Reopened(SetToSeq(Expired)[i]) \in Written
      BY <3>1 DEF Written
    <3>. QED  BY <3>2, RecordPaired
  <2>4. seqs \in Seq(Seq(WrittenStep)) /\ Len(seqs) = n /\ \A i \in 1..n : Paired(seqs[i], W)
    BY <2>2, <2>3
  <2>5. FlattenSeq(seqs) \in Seq(WrittenStep) /\ Paired(FlattenSeq(seqs), W)
    <3>. HIDE DEF seqs, n, W
    <3>. QED  BY <2>4, FlattenPaired
  <2>6. Call("reap_expired", s, FlattenSeq(seqs)) /\ UNCHANGED db
    BY <1>9 DEF ReapExpired
  <2>. HIDE DEF seqs
  <2>. QED  BY <1>0, <2>5, <2>6, CallKeeps
<1>10. CASE MapRebuild(s)
  <2>. DEFINE steps == [i \in 1..Len(journal) |-> Do("replay", journal[i])]
  <2>1. /\ journal \in Seq(Written) /\ Len(journal) \in Nat
        /\ \A i \in 1..Len(journal) : journal[i] \in Written /\ journal[i] \in Steps(journal)
    BY DEF Inv, Steps
  <2>2. \A i \in 1..Len(journal) : /\ Do("replay", journal[i]) \in WrittenStep
                                   /\ Do("replay", journal[i]).ev = journal[i]
    BY <2>1, DoTypes DEF StepOp
  <2>3. steps \in Seq(WrittenStep) /\ Paired(steps, W)
    BY <2>1, <2>2 DEF Paired
  <2>4. /\ todo' = [todo EXCEPT ![s] = steps] /\ db' = EmptyDb
        /\ stale' = (stale \cup {r \in Session : todo[r] # <<>>}) \ {s}
        /\ UNCHANGED <<journal, dead, lease, resolvedOne, clock, faults>>
    BY <1>10 DEF MapRebuild
  <2>. HIDE DEF steps
  <2>5. todo' \in [Session -> Seq(WrittenStep)] /\ \A r \in Session : Paired(todo'[r], W)
    BY <2>3, <2>4 DEF Inv
  <2>6. todo' \in [Session -> Seq(Step)]
    BY <2>5, WrittenIsTyped
  <2>7. TypeOK'
    BY <2>4, <2>6, EmptyDbBacked DEF Inv, TypeOK
  <2>8. journal' = journal
    BY <2>4
  <2>9. Steps(journal)' = W
    BY <2>8 DEF Steps
  <2>. HIDE DEF W
  <2>. QED  BY <2>1, <2>4, <2>5, <2>7, <2>8, <2>9, EmptyDbBacked DEF Inv
<1>11. CASE WriteMap(s)
  <2>. DEFINE n == Cardinality(Ticket)
              created == [i \in 1..n |-> Record(Event("ticket_created", SetToSeq(Ticket)[i]))]
              edge(i) == EdgeAdded(Planned[i][1], Planned[i][2])
              wired == [i \in 1..Len(Planned) |-> <<Do("check", edge(i))>> \o Record(edge(i))]
              first == Record(Event("map_created", None))
  <2>1. n \in Nat /\ SetToSeq(Ticket) \in [1..n -> Ticket]
    BY CartographAssumption, Numbered
  <2>2. \A i \in 1..n : Event("ticket_created", SetToSeq(Ticket)[i]) \in Written
    BY <2>1 DEF Written
  <2>3. created \in Seq(Seq(WrittenStep)) /\ Len(created) = n
        /\ \A i \in 1..n : Paired(created[i], W)
    <3>1. \A i \in 1..n : /\ Record(Event("ticket_created", SetToSeq(Ticket)[i])) \in Seq(WrittenStep)
                          /\ Paired(Record(Event("ticket_created", SetToSeq(Ticket)[i])), W)
      BY <2>2, RecordPaired
    <3>. HIDE DEF n, W
    <3>. QED  BY <2>1, <3>1
  <2>4. Planned \in Seq(Ticket \X Ticket) /\ Len(Planned) \in Nat
    BY CartographAssumption
  <2>5. ASSUME NEW i \in 1..Len(Planned)
        PROVE  /\ <<Do("check", edge(i))>> \o Record(edge(i)) \in Seq(WrittenStep)
               /\ Paired(<<Do("check", edge(i))>> \o Record(edge(i)), W)
    <3>1. Planned[i][1] \in Ticket /\ Planned[i][2] \in Ticket
      BY <2>4
    <3>2. edge(i) \in Written
      BY <3>1 DEF Written
    <3>. HIDE DEF edge
    <3>3. Do("check", edge(i)) \in WrittenStep /\ Do("check", edge(i)).op = "check"
      BY <3>2, DoTypes DEF StepOp
    <3>4. <<Do("check", edge(i))>> \in Seq(WrittenStep)
      BY <3>3
    <3>5. Paired(<<Do("check", edge(i))>>, W)
      <4>1. \A k \in 1..Len(<<Do("check", edge(i))>>) : <<Do("check", edge(i))>>[k] = Do("check", edge(i))
        OBVIOUS
      <4>. QED  BY <3>3, <4>1 DEF Paired
    <3>. QED  BY <3>2, <3>4, <3>5, RecordPaired, ConcatPaired
  <2>6. wired \in Seq(Seq(WrittenStep)) /\ Len(wired) = Len(Planned)
        /\ \A i \in 1..Len(Planned) : Paired(wired[i], W)
    <3>. DEFINE writes(i) == <<Do("check", edge(i))>> \o Record(edge(i))
    <3>1. \A i \in 1..Len(Planned) : writes(i) \in Seq(WrittenStep) /\ Paired(writes(i), W)
      BY <2>5
    <3>2. wired = [i \in 1..Len(Planned) |-> writes(i)]
      OBVIOUS
    <3>. HIDE DEF writes, wired, W
    <3>. QED  BY <2>4, <3>1, <3>2
  <2>7. first \in Seq(WrittenStep) /\ Paired(first, W)
    <3>1. Event("map_created", None) \in Written
      BY DEF Written
    <3>. QED  BY <3>1, RecordPaired
  <2>8. Call("write_map", s, first \o FlattenSeq(created) \o FlattenSeq(wired)) /\ UNCHANGED db
    BY <1>11 DEF WriteMap
  <2>. HIDE DEF first, created, wired, W, n
  <2>9. FlattenSeq(created) \in Seq(WrittenStep) /\ Paired(FlattenSeq(created), W)
    BY <2>3, FlattenPaired
  <2>10. FlattenSeq(wired) \in Seq(WrittenStep) /\ Paired(FlattenSeq(wired), W)
    BY <2>6, FlattenPaired
  <2>11. first \o FlattenSeq(created) \in Seq(WrittenStep) /\ Paired(first \o FlattenSeq(created), W)
    BY <2>7, <2>9, ConcatPaired
  <2>12. /\ first \o FlattenSeq(created) \o FlattenSeq(wired) \in Seq(WrittenStep)
         /\ Paired(first \o FlattenSeq(created) \o FlattenSeq(wired), W)
    BY <2>10, <2>11, ConcatPaired
  <2>. QED  BY <1>0, <2>8, <2>12, CallKeeps DEF W
<1>. QED  BY <1>1, <1>2, <1>3, <1>4, <1>5, <1>6, <1>7, <1>8, <1>9, <1>10, <1>11 DEF ToolCall

\* A call that goes on or gives up.
LEMMA RunStepKeeps ==
    ASSUME Inv, NEW s \in Session, RunStep(s)
    PROVE  Inv'
<1>. DEFINE W == Steps(journal)
            e == NextStep(s).ev
<1>0. /\ db \in Db /\ BackedBy(db, W) /\ journal \in Seq(Written)
      /\ todo \in [Session -> Seq(WrittenStep)] /\ todo[s] \in Seq(WrittenStep)
      /\ \A r \in Session : Paired(todo[r], W)
  BY DEF Inv, TypeOK
<1>1. todo[s] # <<>>
  BY DEF RunStep, CheckEdge, AppendLine, ApplyStatement
<1>2. e \in Written /\ NextStep(s) \in WrittenStep
  <2>1. NextStep(s) \in WrittenStep
    BY <1>0, <1>1, TailOf DEF NextStep
  <2>. QED  BY <2>1 DEF WrittenStep
<1>3. ASSUME NEW V, W \subseteq V, NextStep(s).op = "append" => e \in V, Advance(s) \/ Abandon(s)
      PROVE  /\ todo' \in [Session -> Seq(WrittenStep)] /\ todo' \in [Session -> Seq(Step)]
             /\ \A r \in Session : Paired(todo'[r], V)
  <2>1. Tail(todo[s]) \in Seq(WrittenStep) /\ Paired(Tail(todo[s]), V)
    BY <1>0, <1>1, <1>3, TailPaired DEF NextStep
  <2>2. PICK rest \in Seq(WrittenStep) : todo' = [todo EXCEPT ![s] = rest] /\ Paired(rest, V)
    <3>1. CASE Advance(s)
      BY <2>1, <3>1 DEF Advance
    <3>2. CASE Abandon(s)
      BY <3>2, EmptyPaired DEF Abandon
    <3>. QED  BY <1>3, <3>1, <3>2
  <2>3. todo' \in [Session -> Seq(WrittenStep)] /\ \A r \in Session : Paired(todo'[r], V)
    <3>1. \A r \in Session : Paired(todo[r], V)
      BY <1>0, <1>3, PairedByMore
    <3>. QED  BY <1>0, <2>2, <3>1
  <2>. QED  BY <2>3, WrittenIsTyped
<1>4. CASE CheckEdge(s)
  <2>1. /\ NextStep(s).op = "check" /\ (Advance(s) \/ Abandon(s))
        /\ UNCHANGED <<journal, db, stale, dead, lease, resolvedOne, clock, faults>>
    BY <1>4 DEF CheckEdge
  <2>2. Steps(journal)' = W
    BY <2>1 DEF Steps
  <2>3. /\ todo' \in [Session -> Seq(WrittenStep)] /\ todo' \in [Session -> Seq(Step)]
        /\ \A r \in Session : Paired(todo'[r], W)
    <3>. HIDE DEF W
    <3>. QED  BY <1>3, <2>1
  <2>. QED  BY <1>0, <2>1, <2>2, <2>3 DEF Inv, TypeOK
<1>5. CASE AppendLine(s)
  <2>1. /\ NextStep(s).op = "append" /\ journal' = Append(journal, e) /\ Advance(s)
        /\ lease' = IF e.status = "claimed"
                    THEN [lease EXCEPT ![s][e.id] = e.claimed_at + Lease] ELSE lease
        /\ UNCHANGED <<db, stale, dead, resolvedOne, clock, faults>>
    BY <1>5 DEF AppendLine
  <2>2. journal' \in Seq(Written) /\ Steps(journal') = W \cup {e}
    BY <1>0, <1>2, <2>1, StepsGrow
  <2>3. /\ todo' \in [Session -> Seq(WrittenStep)] /\ todo' \in [Session -> Seq(Step)]
        /\ \A r \in Session : Paired(todo'[r], W \cup {e})
    <3>. HIDE DEF W
    <3>. QED  BY <1>3, <2>1
  <2>4. BackedBy(db, W \cup {e})
    BY <1>0, BackedByMore
  <2>5. lease' \in [Session -> [Ticket -> Nat]]
    <3>1. e.claimed_at \in Nat /\ Lease \in Nat
      BY <1>2, WrittenKinds, CartographAssumption DEF JournalEvent
    <3>2. e.claimed_at + Lease \in Nat
      BY <3>1
    <3>3. lease \in [Session -> [Ticket -> Nat]]
      BY DEF Inv, TypeOK
    <3>. QED  BY <2>1, <3>2, <3>3
  <2>6. journal' \in Seq(JournalEvent)
    BY <2>2, WrittenIsTyped
  <2>7. TypeOK'
    BY <2>1, <2>3, <2>5, <2>6 DEF Inv, TypeOK
  <2>8. Steps(journal)' = Steps(journal')
    BY DEF Steps
  <2>. QED  BY <2>1, <2>2, <2>3, <2>4, <2>7, <2>8 DEF Inv
<1>6. CASE ApplyStatement(s)
  <2>1. /\ NextStep(s).op \in {"apply", "replay"} /\ (Advance(s) \/ Abandon(s))
        /\ db' = db \/ db' = Apply(db, e)
        /\ resolvedOne' = resolvedOne \cup {s} \/ resolvedOne' = resolvedOne
        /\ UNCHANGED <<journal, stale, dead, lease, clock, faults>>
    BY <1>6 DEF ApplyStatement
  <2>2. e \in W
    <3>1. Len(todo[s]) \in Nat /\ 1 \in 1..Len(todo[s])
      BY <1>0, <1>1
    <3>2. \A j \in 1..(1 - 1) : FALSE
      OBVIOUS
    <3>. QED  BY <1>0, <2>1, <3>1, <3>2 DEF Paired, NextStep
  <2>3. db' \in Db /\ BackedBy(db', W)
    BY <1>0, <1>2, <2>1, <2>2, ApplyBacked
  <2>4. Steps(journal)' = W
    BY <2>1 DEF Steps
  <2>5. /\ todo' \in [Session -> Seq(WrittenStep)] /\ todo' \in [Session -> Seq(Step)]
        /\ \A r \in Session : Paired(todo'[r], W)
    <3>. HIDE DEF W
    <3>. QED  BY <1>3, <2>1, <2>2
  <2>6. resolvedOne' \subseteq Session
    BY <2>1 DEF Inv, TypeOK
  <2>. QED  BY <1>0, <2>1, <2>3, <2>4, <2>5, <2>6 DEF Inv, TypeOK
<1>. QED  BY <1>4, <1>5, <1>6 DEF RunStep

LEMMA StepKeeps ==
    ASSUME Inv, [Next]_vars
    PROVE  Inv'
<1>1. ASSUME NEW s \in Session, WriteFails(s) \/ Crash(s) PROVE Inv'
  <2>1. /\ todo' = [todo EXCEPT ![s] = <<>>]
        /\ dead' \subseteq Session /\ faults' = faults + 1 /\ faults < MaxFaults
        /\ UNCHANGED <<journal, db, stale, lease, resolvedOne, clock>>
    BY <1>1 DEF Inv, TypeOK, WriteFails, Crash, Abandon
  <2>2. /\ todo' \in [Session -> Seq(WrittenStep)]
        /\ \A r \in Session : Paired(todo'[r], Steps(journal))
    BY <2>1, EmptyPaired DEF Inv
  <2>3. todo' \in [Session -> Seq(Step)]
    BY <2>2, WrittenIsTyped
  <2>4. faults' \in 0..MaxFaults
    <3>1. MaxFaults \in Nat /\ faults \in 0..MaxFaults
      BY CartographAssumption DEF Inv, TypeOK
    <3>. QED  BY <2>1, <3>1
  <2>5. Steps(journal)' = Steps(journal)
    BY <2>1 DEF Steps
  <2>. QED  BY <2>1, <2>2, <2>3, <2>4, <2>5 DEF Inv, TypeOK
<1>2. CASE Tick
  <2>1. /\ clock' = clock + 1 /\ clock <= MaxClock
        /\ UNCHANGED <<journal, db, todo, stale, dead, lease, resolvedOne, faults>>
    BY <1>2 DEF Tick
  <2>2. clock' \in 1..(MaxClock + 1)
    <3>1. MaxClock \in Nat /\ clock \in 1..(MaxClock + 1)
      BY CartographAssumption DEF Inv, TypeOK
    <3>. QED  BY <2>1, <3>1
  <2>. QED  BY <2>1, <2>2 DEF Inv, TypeOK, Steps
<1>3. CASE UNCHANGED vars
  BY <1>3 DEF vars, Inv, TypeOK, Steps
<1>. QED  BY <1>1, <1>2, <1>3, ToolCallKeeps, RunStepKeeps DEF Next

LEMMA OpeningWritten == Opening \in Seq(Written)
<1>. DEFINE n == Cardinality(Charted)
            created == [i \in 1..n |-> Event("ticket_created", SetToSeq(Charted)[i])]
<1>1. Charted \in SUBSET Ticket /\ IsFiniteSet(Charted)
  BY CartographAssumption, FS_Subset
<1>2. n \in Nat /\ SetToSeq(Charted) \in [1..n -> Charted]
  BY <1>1, Numbered
<1>3. \A i \in 1..n : Event("ticket_created", SetToSeq(Charted)[i]) \in Written
  BY <1>1, <1>2 DEF Written
<1>4. created \in Seq(Written)
  <2>. HIDE DEF n
  <2>. QED  BY <1>2, <1>3
<1>5. <<Event("map_created", None)>> \in Seq(Written)
  BY DEF Written
<1>. HIDE DEF created
<1>6. <<Event("map_created", None)>> \o created \in Seq(Written)
  BY <1>4, <1>5
<1>. QED  BY <1>6 DEF Opening, created

LEMMA InitKeeps ==
    ASSUME Init
    PROVE  Inv
<1>1. journal \in Seq(Written) /\ db = Replay(journal)
  BY OpeningWritten DEF Init
<1>2. db \in Db /\ BackedBy(db, Steps(journal))
  <2>1. Len(journal) \in 0..Len(journal)
    BY <1>1
  <2>. QED  BY <1>1, <2>1, RebuiltBacked DEF Replay
<1>3. todo = [s \in Session |-> <<>>]
  BY DEF Init
<1>4. todo \in [Session -> Seq(WrittenStep)] /\ \A s \in Session : Paired(todo[s], Steps(journal))
  BY <1>3, EmptyPaired
<1>5. todo \in [Session -> Seq(Step)] /\ journal \in Seq(JournalEvent)
  BY <1>1, <1>4, WrittenIsTyped
<1>6. clock \in 1..(MaxClock + 1) /\ faults \in 0..MaxFaults
  <2>1. MaxClock \in Nat /\ MaxFaults \in Nat /\ clock = 1 /\ faults = 0
    BY CartographAssumption DEF Init
  <2>. QED  BY <2>1
<1>7. TypeOK
  BY <1>2, <1>5, <1>6 DEF Init, TypeOK
<1>. QED  BY <1>1, <1>2, <1>4, <1>7 DEF Inv

LEMMA InvHolds == Spec => []Inv
<1>1. Init => Inv
  BY InitKeeps
<1>2. Inv /\ [Next]_vars => Inv'
  BY StepKeeps
<1>. QED  BY <1>1, <1>2, PTL DEF Spec

\* Every row, program and lease stays one of its kind, for any number of
\* sessions and tickets (Store::apply, the ticket tools).
THEOREM TypeCorrect == Spec => []TypeOK
<1>1. Inv => TypeOK
  BY DEF Inv
<1>. QED  BY <1>1, InvHolds, PTL

\* The database never shows a fact the journal does not also hold, but for a
\* claim between its UPDATE and its append: whoever calls what, whatever
\* crashes, fails or is rebuilt in mid-call (Store::apply after
\* journal::append; Store::rebuild).
THEOREM NothingBeforeTheJournal == Spec => []DbBacked
<1>1. Inv => DbBacked
  <2>. SUFFICES ASSUME Inv PROVE DbBacked
    OBVIOUS
  <2>1. db \in Db /\ BackedBy(db, Steps(journal))
    BY DEF Inv, TypeOK
  <2>2. \A t \in Ticket : db.tickets[t].status \in {"absent", "open", "claimed"} \cup Terminal
    BY <2>1 DEF Db, TicketRow, TicketStatus
  <2>3. ASSUME NEW t \in Ticket
        PROVE  \/ db.tickets[t].status = "absent"
               \/ /\ db.tickets[t].status \in {"open", "claimed"}
                  /\ Event("ticket_created", t) \in Steps(journal)
               \/ \E e \in Steps(journal) : e.id = t /\ e.status = db.tickets[t].status
    BY <2>1, <2>2 DEF BackedBy
  <2>. QED  BY <2>1, <2>3 DEF DbBacked, BackedBy
<1>. QED  BY <1>1, InvHolds, PTL

-----------------------------------------------------------------------------
(* AlwaysReplayable: a log in which nothing is created twice, or before     *)
(* what it hangs on, replays to the end; and the calls write such a log,    *)
(* but for a charting run's write_map, which takes its identifiers from     *)
(* its checkpoints and so may write them again.                             *)

Creation == {Event("map_created", None)} \cup {Event("ticket_created", t) : t \in Ticket}
            \cup {Event("fog_added", f) : f \in Fog}

\* What an event hangs on is among the events W.
Supported(e, W) ==
    /\ e.kind = "ticket_created" => Event("map_created", None) \in W
    /\ e.kind = "edge_added" => /\ Event("ticket_created", e.id) \in W
                                /\ Event("ticket_created", e.blocked) \in W

FirstOf(log, n) == {log[i] : i \in 1..n}

\* Each event of a log comes after what it hangs on, and creates nothing
\* that is there.
Orderly(log) ==
    \A n \in 1..Len(log) : /\ Supported(log[n], FirstOf(log, n - 1))
                           /\ log[n] \in Creation => log[n] \notin FirstOf(log, n - 1)

\* A database shows everything that the events W create.
Complete(d, W) ==
    /\ Event("map_created", None) \in W => d.map
    /\ \A t \in Ticket : Event("ticket_created", t) \in W => d.tickets[t].status # "absent"
    /\ \A f \in Fog : Event("fog_added", f) \in W => d.fog[f] # "absent"

LEMMA EventsDiffer ==
    /\ \A k, m, x, y : Event(k, x) = Event(m, y) => k = m /\ x = y
    /\ \A k, x, t, u : Event(k, x) = EdgeAdded(t, u) => k = "edge_added"
    /\ \A k, x : Event(k, x).kind = k /\ Event(k, x).id = x
    /\ \A t, u : EdgeAdded(t, u).kind = "edge_added"
<1>1. \A k, x : Event(k, x).kind = k /\ Event(k, x).id = x
  BY DEF Event
<1>2. \A t, u : EdgeAdded(t, u).kind = "edge_added"
  BY DEF Event, EdgeAdded
<1>3. ASSUME NEW k, NEW m, NEW x, NEW y, Event(k, x) = Event(m, y) PROVE k = m /\ x = y
  <2>1. Event(k, x).kind = Event(m, y).kind /\ Event(k, x).id = Event(m, y).id
    BY <1>3
  <2>. QED  BY <1>1, <2>1
<1>4. ASSUME NEW k, NEW x, NEW t, NEW u, Event(k, x) = EdgeAdded(t, u) PROVE k = "edge_added"
  <2>1. Event(k, x).kind = EdgeAdded(t, u).kind
    BY <1>4
  <2>. QED  BY <1>1, <1>2, <2>1
<1>. QED  BY <1>1, <1>2, <1>3, <1>4

\* The constraints of the projection let such an event through.
LEMMA OrderlyApplies ==
    ASSUME NEW d \in Db, NEW W, BackedBy(d, W), Complete(d, W), NEW e \in Written,
           Supported(e, W), e \in Creation => e \notin W
    PROVE  CanApply(d, e)
<1>1. CASE e = Event("map_created", None)
  <2>1. e \in Creation /\ e.kind = "map_created"
    BY <1>1, EventsDiffer DEF Creation
  <2>. QED  BY <1>1, <2>1 DEF CanApply, BackedBy
<1>2. CASE e.id \in Ticket /\ e = Event("ticket_created", e.id)
  <2>1. e \in Creation /\ e.kind = "ticket_created"
    BY <1>2, EventsDiffer DEF Creation
  <2>. QED  BY <1>2, <2>1 DEF CanApply, Exists, BackedBy, Complete, Supported
<1>3. CASE e.id \in Ticket /\ e.blocked \in Ticket /\ e = EdgeAdded(e.id, e.blocked)
  <2>1. e.kind = "edge_added"
    BY <1>3, EventsDiffer
  <2>. QED  BY <1>3, <2>1 DEF CanApply, Exists, Complete, Supported
<1>4. CASE e.id \in Fog /\ e = Event("fog_added", e.id)
  <2>1. e \in Creation /\ e.kind = "fog_added"
    BY <1>4, EventsDiffer DEF Creation
  <2>. QED  BY <1>4, <2>1 DEF CanApply, BackedBy
<1>5. CASE e.kind \in {"ticket_updated", "fog_graduated", "scope_exclusion_added"}
  BY <1>5 DEF CanApply
<1>. QED  BY <1>1, <1>2, <1>3, <1>4, <1>5, WrittenKinds, EventsDiffer

\* And it shows then.
LEMMA ApplyComplete ==
    ASSUME NEW d \in Db, NEW W, Complete(d, W), NEW e \in Written
    PROVE  Complete(Apply(d, e), W \cup {e})
<1>0. e \in JournalEvent
  BY WrittenKinds
<1>. DEFINE c == Apply(d, e)
<1>1. CASE e = Event("map_created", None)
  <2>1. e.kind = "map_created"
    BY <1>1, EventsDiffer
  <2>2. c = [d EXCEPT !.map = TRUE]
    BY <2>1 DEF Apply
  <2>3. c.map /\ c.tickets = d.tickets /\ c.fog = d.fog
    BY <2>2 DEF Db
  <2>. QED  BY <1>1, <2>3, EventsDiffer DEF Complete
<1>2. CASE e.id \in Ticket /\ e = Event("ticket_created", e.id)
  <2>1. e.kind = "ticket_created"
    BY <1>2, EventsDiffer
  <2>2. c = [d EXCEPT !.tickets[e.id] = NewTicket]
    BY <2>1 DEF Apply
  <2>3. /\ c.map = d.map /\ c.fog = d.fog /\ c.tickets[e.id] = NewTicket
        /\ \A t \in Ticket \ {e.id} : c.tickets[t] = d.tickets[t]
    BY <1>2, <2>2 DEF Db
  <2>4. NewTicket.status # "absent"
    BY DEF NewTicket, NoTicket
  <2>. QED  BY <1>2, <2>3, <2>4, EventsDiffer DEF Complete
<1>3. CASE e.id \in Ticket /\ e.kind = "ticket_updated"
  <2>1. \A k, x : k # "ticket_updated" => e # Event(k, x)
    BY <1>3, EventsDiffer
  <2>2. CASE ~Exists(d, e.id)
    BY <1>3, <2>1, <2>2 DEF Apply, Complete
  <2>3. CASE Exists(d, e.id)
    <3>1. c = [d EXCEPT !.tickets[e.id] = UpdateRow(@, e)]
      BY <1>3, <2>3 DEF Apply
    <3>2. /\ c.map = d.map /\ c.fog = d.fog
          /\ c.tickets[e.id] = UpdateRow(d.tickets[e.id], e)
          /\ \A t \in Ticket \ {e.id} : c.tickets[t] = d.tickets[t]
      BY <1>3, <3>1 DEF Db
    <3>3. UpdateRow(d.tickets[e.id], e).status # "absent"
      <4>1. d.tickets[e.id].status # "absent"
        BY <2>3 DEF Exists
      <4>2. e.status \in TicketStatus \cup {None}
        BY <1>0 DEF JournalEvent
      <4>3. "absent" \notin TicketStatus
        BY DEF TicketStatus, Terminal
      <4>. QED  BY <4>1, <4>2, <4>3 DEF UpdateRow, Coalesce
    <3>. QED  BY <1>3, <2>1, <3>2, <3>3 DEF Complete
  <2>. QED  BY <2>2, <2>3
<1>4. CASE e.kind \in {"edge_added", "scope_exclusion_added"}
  <2>1. \A k, x : k \notin {"edge_added", "scope_exclusion_added"} => e # Event(k, x)
    BY <1>4, EventsDiffer
  <2>2. c.map = d.map /\ c.tickets = d.tickets /\ c.fog = d.fog
    BY <1>4 DEF Apply, Db
  <2>. QED  BY <2>1, <2>2 DEF Complete
<1>5. CASE e.id \in Fog /\ e = Event("fog_added", e.id)
  <2>1. e.kind = "fog_added"
    BY <1>5, EventsDiffer
  <2>2. c = [d EXCEPT !.fog[e.id] = "patch"]
    BY <2>1 DEF Apply
  <2>3. /\ c.map = d.map /\ c.tickets = d.tickets /\ c.fog[e.id] # "absent"
        /\ \A f \in Fog \ {e.id} : c.fog[f] = d.fog[f]
    BY <1>5, <2>2 DEF Db
  <2>. QED  BY <1>5, <2>3, EventsDiffer DEF Complete
<1>6. CASE e.id \in Fog /\ e = Event("fog_graduated", e.id)
  <2>1. e.kind = "fog_graduated" /\ \A k, x : k # "fog_graduated" => e # Event(k, x)
    BY <1>6, EventsDiffer
  <2>2. c = d \/ c = [d EXCEPT !.fog[e.id] = "graduated"]
    BY <2>1 DEF Apply
  <2>3. /\ c.map = d.map /\ c.tickets = d.tickets
        /\ \A f \in Fog : d.fog[f] # "absent" => c.fog[f] # "absent"
    BY <1>6, <2>2 DEF Db
  <2>. QED  BY <2>1, <2>3 DEF Complete
<1>. QED  BY <1>1, <1>2, <1>3, <1>4, <1>5, <1>6, WrittenKinds, EventsDiffer

\* An orderly log replays without a refused statement.
LEMMA OrderlyReplays ==
    ASSUME NEW log \in Seq(Written), Orderly(log)
    PROVE  Replayable(log)
<1>. DEFINE g == Rebuilt(log)
            T == {n \in 0..Len(log) : /\ g[n] \in Db /\ BackedBy(g[n], FirstOf(log, n))
                                      /\ Complete(g[n], FirstOf(log, n))
                                      /\ n # 0 => CanApply(g[n - 1], log[n])}
<1>0. Len(log) \in Nat
  OBVIOUS
<1>1. 0 \in T
  <2>1. FirstOf(log, 0) = {} /\ g[0] = EmptyDb
    BY <1>0, RebuiltSteps DEF FirstOf
  <2>2. Complete(EmptyDb, {})
    BY DEF Complete
  <2>3. 0 \in 0..Len(log)
    BY <1>0
  <2>. HIDE DEF g
  <2>. QED  BY <2>1, <2>2, <2>3, EmptyDbBacked
<1>2. ASSUME NEW n \in 1..Len(log), n - 1 \in T PROVE n \in T
  <2>. DEFINE W == FirstOf(log, n - 1)
              d == g[n - 1]
              e == log[n]
  <2>1. e \in Written /\ n \in 0..Len(log) /\ n # 0
    OBVIOUS
  <2>2. FirstOf(log, n) = W \cup {e}
    <3>1. \A i \in 1..n : i \in 1..(n - 1) \/ i = n
      OBVIOUS
    <3>2. \A i \in 1..(n - 1) : i \in 1..n
      OBVIOUS
    <3>3. n \in 1..n
      OBVIOUS
    <3>. QED  BY <3>1, <3>2, <3>3 DEF FirstOf
  <2>3. d \in Db /\ BackedBy(d, W) /\ Complete(d, W)
    BY <1>2
  <2>4. CanApply(d, e)
    <3>1. Supported(e, W) /\ (e \in Creation => e \notin W)
      BY DEF Orderly
    <3>. HIDE DEF d, e, W
    <3>. QED  BY <2>1, <2>3, <3>1, OrderlyApplies
  <2>5. g[n] = Apply(d, e)
    BY <1>0, <2>4, RebuiltSteps DEF Projected
  <2>6. Apply(d, e) \in Db /\ BackedBy(Apply(d, e), W \cup {e}) /\ Complete(Apply(d, e), W \cup {e})
    <3>. HIDE DEF d, e, W
    <3>1. BackedBy(d, W \cup {e})
      BY <2>3, BackedByMore
    <3>. QED  BY <2>1, <2>3, <3>1, ApplyBacked, ApplyComplete
  <2>. QED  BY <2>1, <2>2, <2>4, <2>5, <2>6
<1>3. \A n \in 0..Len(log) : n \in T
  <2>. HIDE DEF T
  <2>. QED  BY <1>0, <1>1, <1>2, UpTo
<1>4. \A n \in 1..Len(log) : n \in 0..Len(log) /\ n # 0
  OBVIOUS
<1>. QED  BY <1>3, <1>4 DEF Replayable

LEMMA OrderlyAppend ==
    ASSUME NEW log \in Seq(Written), Orderly(log), NEW e \in Written, Supported(e, Steps(log)),
           e \in Creation => e \notin Steps(log)
    PROVE  Orderly(Append(log, e))
<1>. DEFINE more == Append(log, e)
<1>1. /\ Len(log) \in Nat /\ Len(more) = Len(log) + 1 /\ more[Len(log) + 1] = e
      /\ \A i \in 1..Len(log) : more[i] = log[i]
  OBVIOUS
<1>. HIDE DEF more
<1>2. ASSUME NEW n \in 1..Len(more)
      PROVE  /\ Supported(more[n], FirstOf(more, n - 1))
             /\ more[n] \in Creation => more[n] \notin FirstOf(more, n - 1)
  <2>1. \A i \in 1..(n - 1) : i \in 1..Len(log)
    BY <1>1
  <2>2. FirstOf(more, n - 1) = FirstOf(log, n - 1)
    BY <1>1, <2>1 DEF FirstOf
  <2>3. CASE n = Len(log) + 1
    <3>1. FirstOf(log, n - 1) = Steps(log) /\ more[n] = e
      BY <1>1, <2>3 DEF FirstOf, Steps
    <3>. QED  BY <2>2, <3>1
  <2>4. CASE n # Len(log) + 1
    <3>1. n \in 1..Len(log) /\ more[n] = log[n]
      BY <1>1, <2>4
    <3>. QED  BY <2>2, <3>1 DEF Orderly
  <2>. QED  BY <2>3, <2>4
<1>. QED  BY <1>2 DEF Orderly, more

\* What a call has still to append hangs on what the journal holds; what it
\* has to create, which nobody else has, is all that it does.
Prepared(steps, W) ==
    \A i \in 1..Len(steps) : steps[i].op = "append" =>
        /\ Supported(steps[i].ev, W)
        /\ steps[i].ev \in Creation => steps[i].ev \notin W /\ steps = Record(steps[i].ev)

ReplayInv ==
    /\ Orderly(journal)
    /\ \A s \in Session : Prepared(todo[s], Steps(journal))
    /\ \A r, s \in Session : \A e \in Creation :
          todo[r] = Record(e) /\ todo[s] = Record(e) => r = s

LEMMA SupportedByMore ==
    ASSUME NEW e, NEW W, NEW V, Supported(e, W), W \subseteq V
    PROVE  Supported(e, V)
BY DEF Supported

LEMMA RecordSteps ==
    \A e : /\ Len(Record(e)) = 2 /\ Record(e)[1] = Do("append", e) /\ Record(e)[2] = Do("apply", e)
           /\ Record(e)[1].op = "append" /\ Record(e)[1].ev = e
           /\ Record(e)[2].op = "apply" /\ Record(e)[2].ev = e
           /\ \A i \in 1..2 : i = 1 \/ i = 2
BY DEF Record, Do

\* A creation that is left is the first step.
LEMMA CreationIsFirst ==
    ASSUME NEW steps, NEW W, Prepared(steps, W), NEW i \in 1..Len(steps),
           steps[i].op = "append", steps[i].ev \in Creation
    PROVE  i = 1
<1>1. steps = Record(steps[i].ev)
  BY DEF Prepared
<1>2. i \in 1..2
  BY <1>1, RecordSteps
<1>3. i # 2
  BY <1>1, RecordSteps
<1>. QED  BY <1>2, <1>3

\* What is left after a step.
LEMMA TailPrepared ==
    ASSUME NEW steps \in Seq(WrittenStep), steps # <<>>, NEW W, Prepared(steps, W),
           NEW V, W \subseteq V
    PROVE  /\ Prepared(Tail(steps), V)
           /\ \A e \in Creation : Tail(steps) # Record(e)
<1>1. ASSUME NEW i \in 1..Len(Tail(steps)), Tail(steps)[i].op = "append"
      PROVE  Supported(Tail(steps)[i].ev, V) /\ Tail(steps)[i].ev \notin Creation
  <2>1. i + 1 \in 1..Len(steps) /\ Tail(steps)[i] = steps[i + 1] /\ i + 1 # 1
    <3>1. i + 1 \in 2..Len(steps) /\ Tail(steps)[i] = steps[i + 1]
      BY TailOf
    <3>. QED  BY <3>1
  <2>2. Supported(steps[i + 1].ev, W)
    BY <1>1, <2>1 DEF Prepared
  <2>. QED  BY <1>1, <2>1, <2>2, SupportedByMore, CreationIsFirst
<1>2. ASSUME NEW e \in Creation, Tail(steps) = Record(e) PROVE FALSE
  <2>1. 1 \in 1..Len(Tail(steps)) /\ Tail(steps)[1].op = "append" /\ Tail(steps)[1].ev = e
    <3>1. Len(Tail(steps)) = Len(Record(e)) /\ 1 \in 1..2
      BY <1>2
    <3>0. Len(Record(e)) = 2
      BY RecordSteps
    <3>2. Tail(steps)[1].op = "append" /\ Tail(steps)[1].ev = e
      BY <1>2, RecordSteps
    <3>. QED  BY <3>0, <3>1, <3>2
  <2>. QED  BY <1>1, <1>2, <2>1
<1>. QED  BY <1>1, <1>2 DEF Prepared

\* A call that creates nothing, or something that nobody else does.
LEMMA ReplayCall ==
    ASSUME Inv, ReplayInv, NEW s \in Session, NEW steps,
           todo' = [todo EXCEPT ![s] = steps], journal' = journal,
           Prepared(steps, Steps(journal)),
           \A e \in Creation : steps = Record(e) => \A r \in Session : todo[r] # Record(e)
    PROVE  ReplayInv'
<1>1. todo \in [Session -> Seq(WrittenStep)]
  BY DEF Inv
<1>2. Steps(journal)' = Steps(journal) /\ Orderly(journal')
  BY DEF Steps, ReplayInv
<1>3. todo'[s] = steps /\ \A r \in Session \ {s} : todo'[r] = todo[r]
  BY <1>1
<1>4. \A r \in Session : Prepared(todo'[r], Steps(journal))
  BY <1>3 DEF ReplayInv
<1>5. ASSUME NEW q \in Session, NEW r \in Session, NEW e \in Creation,
             todo'[q] = Record(e), todo'[r] = Record(e)
      PROVE  q = r
  BY <1>3, <1>5 DEF ReplayInv
<1>. QED  BY <1>2, <1>4, <1>5 DEF ReplayInv

\* Programs that create nothing and wire nothing.
PlainStep == {st \in WrittenStep : st.ev.kind \notin {"map_created", "ticket_created", "fog_added",
                                                      "edge_added"}}

LEMMA CreationKinds ==
    \A e \in Creation : e.kind \in {"map_created", "ticket_created", "fog_added"}
BY EventsDiffer DEF Creation

LEMMA PlainPrepared ==
    ASSUME NEW steps \in Seq(PlainStep), NEW W
    PROVE  Prepared(steps, W) /\ \A e \in Creation : steps # Record(e)
<1>1. ASSUME NEW i \in 1..Len(steps)
      PROVE  /\ steps[i].ev.kind \notin {"map_created", "ticket_created", "fog_added", "edge_added"}
             /\ steps[i].ev \notin Creation
  <2>1. steps[i] \in PlainStep
    OBVIOUS
  <2>. QED  BY <2>1, CreationKinds DEF PlainStep
<1>2. ASSUME NEW e \in Creation, steps = Record(e) PROVE FALSE
  <2>1. 1 \in 1..Len(steps) /\ steps[1].ev = e
    <3>1. Len(steps) = 2 /\ 1 \in 1..2
      BY <1>2, RecordSteps
    <3>2. steps[1].ev = e
      BY <1>2, RecordSteps
    <3>. QED  BY <3>1, <3>2
  <2>. QED  BY <1>1, <2>1
<1>. QED  BY <1>1, <1>2 DEF Prepared, Supported

LEMMA RecordPlain ==
    ASSUME NEW e \in Written, e.kind \in {"ticket_updated", "fog_graduated", "scope_exclusion_added"}
    PROVE  Record(e) \in Seq(PlainStep)
<1>1. Do("append", e) \in WrittenStep /\ Do("apply", e) \in WrittenStep
      /\ Do("append", e).ev = e /\ Do("apply", e).ev = e
  BY DoTypes DEF StepOp
<1>2. Do("append", e) \in PlainStep /\ Do("apply", e) \in PlainStep
  BY <1>1 DEF PlainStep
<1>. QED  BY <1>2 DEF Record

\* The elements of a flattened sequence are those of its parts.
LEMMA FlattenType ==
    ASSUME NEW S, NEW seqs \in Seq(Seq(S))
    PROVE  FlattenSeq(seqs) \in Seq(S)
<1>0. Len(seqs) \in Nat
  OBVIOUS
<1>1. CASE Len(seqs) = 0
  <2>1. seqs = <<>> /\ FlattenSeq(seqs) = seqs
    BY <1>1 DEF FlattenSeq
  <2>2. <<>> \in Seq(S)
    OBVIOUS
  <2>3. FlattenSeq(seqs) = <<>>
    BY <2>1
  <2>. HIDE DEF FlattenSeq
  <2>. QED  BY <2>2, <2>3
<1>2. CASE Len(seqs) # 0
  <2>1. PICK g : /\ FlattenSeq(seqs) = g[Len(seqs)] /\ g[1] = seqs[1]
                 /\ \A i \in 2..Len(seqs) : g[i] = g[i - 1] \o seqs[i]
    BY <1>2, FlattenSteps
  <2>. DEFINE T == {n \in 0..Len(seqs) : n = 0 \/ g[n] \in Seq(S)}
  <2>2. ASSUME NEW n \in 1..Len(seqs), n - 1 \in T PROVE n \in T
    <3>0. seqs[n] \in Seq(S) /\ n \in 0..Len(seqs)
      OBVIOUS
    <3>1. CASE n = 1
      BY <2>1, <3>0, <3>1
    <3>2. CASE n # 1
      <4>1. n \in 2..Len(seqs) /\ n - 1 # 0
        BY <3>2
      <4>2. g[n - 1] \in Seq(S)
        BY <2>2, <4>1
      <4>3. g[n] = g[n - 1] \o seqs[n]
        BY <2>1, <4>1
      <4>4. g[n - 1] \o seqs[n] \in Seq(S)
        BY <3>0, <4>2
      <4>5. g[n] \in Seq(S)
        BY <4>3, <4>4
      <4>. QED  BY <3>0, <4>5
    <3>. QED  BY <3>1, <3>2
  <2>3. Len(seqs) \in T
    <3>1. 0 \in T /\ Len(seqs) \in 0..Len(seqs)
      BY <1>0
    <3>. HIDE DEF T
    <3>2. \A n \in 0..Len(seqs) : n \in T
      BY <1>0, <2>2, <3>1, UpTo
    <3>. QED  BY <3>1, <3>2
  <2>. QED  BY <1>2, <2>1, <2>3
<1>. QED  BY <1>1, <1>2

\* The three updates of a ticket, field by field.
LEMMA UpdateEvents ==
    /\ \A t, status, by :
          /\ Closed(t, status, by).kind = "ticket_updated" /\ Closed(t, status, by).id = t
          /\ Closed(t, status, by).status = status /\ Closed(t, status, by).resolution = by
          /\ Closed(t, status, by).claimed_by = None /\ Closed(t, status, by).claimed_at = 0
          /\ Closed(t, status, by).release_claim = FALSE
    /\ \A t, s, n :
          /\ Claimed(t, s, n).kind = "ticket_updated" /\ Claimed(t, s, n).id = t
          /\ Claimed(t, s, n).status = "claimed" /\ Claimed(t, s, n).resolution = None
          /\ Claimed(t, s, n).claimed_by = s /\ Claimed(t, s, n).claimed_at = n
          /\ Claimed(t, s, n).release_claim = FALSE
    /\ \A t :
          /\ Reopened(t).kind = "ticket_updated" /\ Reopened(t).id = t
          /\ Reopened(t).status = "open" /\ Reopened(t).release_claim = TRUE
    /\ \A t \in Ticket, status \in Terminal, by \in Session \cup {None} :
          Closed(t, status, by) \in Written
    /\ \A t \in Ticket, s \in Session, n \in Nat : Claimed(t, s, n) \in Written
    /\ \A t \in Ticket : Reopened(t) \in Written
<1>1. ASSUME NEW t, NEW status, NEW by
      PROVE  /\ Closed(t, status, by).kind = "ticket_updated" /\ Closed(t, status, by).id = t
             /\ Closed(t, status, by).status = status /\ Closed(t, status, by).resolution = by
             /\ Closed(t, status, by).claimed_by = None /\ Closed(t, status, by).claimed_at = 0
             /\ Closed(t, status, by).release_claim = FALSE
  BY DEF Closed, Event
<1>2. ASSUME NEW t, NEW s, NEW n
      PROVE  /\ Claimed(t, s, n).kind = "ticket_updated" /\ Claimed(t, s, n).id = t
             /\ Claimed(t, s, n).status = "claimed" /\ Claimed(t, s, n).resolution = None
             /\ Claimed(t, s, n).claimed_by = s /\ Claimed(t, s, n).claimed_at = n
             /\ Claimed(t, s, n).release_claim = FALSE
  BY DEF Claimed, Event
<1>3. ASSUME NEW t
      PROVE  /\ Reopened(t).kind = "ticket_updated" /\ Reopened(t).id = t
             /\ Reopened(t).status = "open" /\ Reopened(t).release_claim = TRUE
  BY DEF Reopened, Event
<1>4. /\ \A t \in Ticket, status \in Terminal, by \in Session \cup {None} :
            Closed(t, status, by) \in Written
      /\ \A t \in Ticket, s \in Session, n \in Nat : Claimed(t, s, n) \in Written
      /\ \A t \in Ticket : Reopened(t) \in Written
  BY DEF Written
<1>. QED  BY <1>1, <1>2, <1>3, <1>4

LEMMA ReplayToolCall ==
    ASSUME Inv, ReplayInv, NEW s \in Session, ToolCall(s), Callers["write_map"] = {}
    PROVE  ReplayInv'
<1>. DEFINE W == Steps(journal)
<1>1. BackedBy(db, W)
  BY DEF Inv
<1>2. ASSUME NEW tool, NEW steps \in Seq(PlainStep), Call(tool, s, steps) PROVE ReplayInv'
  BY <1>2, PlainPrepared, ReplayCall DEF Call
<1>3. ASSUME NEW tool, NEW kind, NEW id, Event(kind, id) \in Creation, Fresh(kind, id),
             Supported(Event(kind, id), W), Call(tool, s, Record(Event(kind, id)))
      PROVE  ReplayInv'
  <2>. DEFINE e == Event(kind, id)
  <2>1. e \notin W /\ \A r \in Session : \A i \in 1..Len(todo[r]) : todo[r][i].ev # e
    BY <1>3 DEF Fresh, Mentioned, Steps
  <2>2. ASSUME NEW r \in Session, todo[r] = Record(e) PROVE FALSE
    <3>0. Len(Record(e)) = 2 /\ Record(e)[1].ev = e
      BY RecordSteps
    <3>1. 1 \in 1..Len(todo[r]) /\ todo[r][1].ev = e
      BY <2>2, <3>0
    <3>. QED  BY <2>1, <3>1
  <2>3. Prepared(Record(e), W)
    <3>1. \A i \in 1..2 : Record(e)[i].ev = e
      BY RecordSteps
    <3>2. Len(Record(e)) = 2
      BY RecordSteps
    <3>. QED  BY <1>3, <2>1, <3>1, <3>2 DEF Prepared
  <2>4. \A d \in Creation : Record(e) = Record(d) => d = e
    BY RecordSteps
  <2>. QED  BY <1>3, <2>2, <2>3, <2>4, ReplayCall DEF Call
<1>4. CASE MapCreate(s)
  <2>1. Event("map_created", None) \in Creation /\ Supported(Event("map_created", None), W)
    BY EventsDiffer DEF Creation, Supported
  <2>. QED  BY <1>3, <1>4, <2>1 DEF MapCreate
<1>5. ASSUME NEW t \in Ticket, TicketCreate(s, t) PROVE ReplayInv'
  <2>1. Event("map_created", None) \in W
    BY <1>1, <1>5 DEF TicketCreate, BackedBy
  <2>2. Event("ticket_created", t) \in Creation /\ Supported(Event("ticket_created", t), W)
    BY <2>1, EventsDiffer DEF Creation, Supported
  <2>. QED  BY <1>3, <1>5, <2>2 DEF TicketCreate
<1>6. ASSUME NEW f \in Fog, FogWrite(s, f) PROVE ReplayInv'
  <2>1. Event("fog_added", f) \in Creation /\ Supported(Event("fog_added", f), W)
    BY EventsDiffer DEF Creation, Supported
  <2>. QED  BY <1>3, <1>6, <2>1 DEF FogWrite
<1>7. ASSUME NEW t \in Ticket, NEW u \in Ticket, TicketBlock(s, t, u) PROVE ReplayInv'
  <2>. DEFINE e == EdgeAdded(t, u)
  <2>1. e.kind = "edge_added" /\ e.id = t /\ e.blocked = u
    BY DEF EdgeAdded, Event
  <2>2. Event("ticket_created", t) \in W /\ Event("ticket_created", u) \in W
    BY <1>1, <1>7 DEF TicketBlock, Exists, BackedBy
  <2>3. Supported(e, W) /\ e \notin Creation
    <3>. HIDE DEF e, W
    <3>. QED  BY <2>1, <2>2, CreationKinds DEF Supported
  <2>4. Prepared(Record(e), W)
    <3>1. \A i \in 1..2 : Record(e)[i].ev = e
      BY RecordSteps
    <3>2. Len(Record(e)) = 2
      BY RecordSteps
    <3>. HIDE DEF e, W
    <3>. QED  BY <2>3, <3>1, <3>2 DEF Prepared
  <2>5. \A d \in Creation : Record(e) # Record(d)
    BY <2>3, RecordSteps
  <2>6. Call("ticket_block", s, Record(e))
    BY <1>7 DEF TicketBlock
  <2>. HIDE DEF e, W
  <2>. QED  BY <2>4, <2>5, <2>6, ReplayCall DEF Call, W
<1>8. ASSUME NEW t \in Ticket, TicketClaim(s, t) PROVE ReplayInv'
  <2>1. clock \in Nat
    BY DEF Inv, TypeOK
  <2>2. Claimed(t, s, clock) \in Written /\ Claimed(t, s, clock).kind = "ticket_updated"
    BY <2>1, UpdateEvents
  <2>3. Do("append", Claimed(t, s, clock)) \in PlainStep
    <3>1. /\ Do("append", Claimed(t, s, clock)) \in WrittenStep
          /\ Do("append", Claimed(t, s, clock)).ev = Claimed(t, s, clock)
      BY <2>2, DoTypes DEF StepOp
    <3>. QED  BY <2>2, <3>1 DEF PlainStep
  <2>4. <<Do("append", Claimed(t, s, clock))>> \in Seq(PlainStep)
    BY <2>3
  <2>5. Call("ticket_claim", s, <<Do("append", Claimed(t, s, clock))>>)
    BY <1>8 DEF TicketClaim
  <2>. QED  BY <1>2, <2>4, <2>5
<1>9. ASSUME NEW t \in Ticket, NEW status \in Terminal, NEW by \in Session \cup {None}
      PROVE  Record(Closed(t, status, by)) \in Seq(PlainStep)
  <2>1. Closed(t, status, by) \in Written /\ Closed(t, status, by).kind = "ticket_updated"
    BY UpdateEvents
  <2>. QED  BY <2>1, RecordPlain
<1>10. ASSUME NEW t \in Ticket, TicketResolve(s, t) \/ TicketInvalidate(s, t) PROVE ReplayInv'
  <2>1. "resolved" \in Terminal /\ "invalidated" \in Terminal
    BY DEF Terminal
  <2>. QED  BY <1>2, <1>9, <1>10, <2>1 DEF TicketResolve, TicketInvalidate
<1>11. ASSUME NEW f \in Fog, FogGraduate(s, f) PROVE ReplayInv'
  <2>1. Event("fog_graduated", f) \in Written /\ Event("fog_graduated", f).kind = "fog_graduated"
    BY EventsDiffer DEF Written
  <2>. QED  BY <1>2, <1>11, <2>1, RecordPlain DEF FogGraduate
<1>12. ASSUME NEW t \in Ticket \cup {None}, ScopeExclude(s, t) PROVE ReplayInv'
  <2>. DEFINE close == IF t = None THEN <<>> ELSE Record(Closed(t, "out_of_scope", None))
              first == Record(Event("scope_exclusion_added", t))
  <2>1. close \in Seq(PlainStep)
    <3>1. <<>> \in Seq(PlainStep) /\ "out_of_scope" \in Terminal
      BY DEF Terminal
    <3>. QED  BY <1>9, <3>1
  <2>2. first \in Seq(PlainStep)
    <3>1. /\ Event("scope_exclusion_added", t) \in Written
          /\ Event("scope_exclusion_added", t).kind = "scope_exclusion_added"
      BY EventsDiffer DEF Written
    <3>. QED  BY <3>1, RecordPlain
  <2>3. Call("scope_exclude", s, first \o close)
    BY <1>12 DEF ScopeExclude
  <2>. HIDE DEF close, first
  <2>4. first \o close \in Seq(PlainStep)
    BY <2>1, <2>2
  <2>. QED  BY <1>2, <2>3, <2>4
<1>13. CASE ReapExpired(s)
  <2>. DEFINE n == Cardinality(Expired)
              seqs == [i \in 1..n |-> Record(Reopened(SetToSeq(Expired)[i]))]
  <2>1. Expired \in SUBSET Ticket /\ IsFiniteSet(Expired)
    BY CartographAssumption, FS_Subset DEF Expired
  <2>2. n \in Nat /\ SetToSeq(Expired) \in [1..n -> Expired]
    BY <2>1, Numbered
  <2>3. ASSUME NEW t \in Ticket PROVE Record(Reopened(t)) \in Seq(PlainStep)
    <3>1. Reopened(t) \in Written /\ Reopened(t).kind = "ticket_updated"
      BY UpdateEvents
    <3>. QED  BY <3>1, RecordPlain
  <2>4. \A i \in 1..n : Record(Reopened(SetToSeq(Expired)[i])) \in Seq(PlainStep)
    BY <2>1, <2>2, <2>3
  <2>5. seqs \in Seq(Seq(PlainStep))
    <3>. HIDE DEF n
    <3>. QED  BY <2>2, <2>4
  <2>6. Call("reap_expired", s, FlattenSeq(seqs))
    BY <1>13 DEF ReapExpired
  <2>. HIDE DEF seqs
  <2>. QED  BY <1>2, <2>5, <2>6, FlattenType
<1>14. CASE MapRebuild(s)
  <2>. DEFINE steps == [i \in 1..Len(journal) |-> Do("replay", journal[i])]
  <2>1. todo' = [todo EXCEPT ![s] = steps] /\ journal' = journal
    BY <1>14 DEF MapRebuild
  <2>2. Len(steps) = Len(journal) /\ \A i \in 1..Len(steps) : steps[i].op = "replay"
    <3>1. Len(journal) \in Nat
      BY DEF Inv
    <3>. QED  BY <3>1 DEF Do
  <2>. HIDE DEF steps
  <2>3. Prepared(steps, W)
    BY <2>2 DEF Prepared
  <2>4. ASSUME NEW e \in Creation, steps = Record(e) PROVE FALSE
    <3>0. Len(Record(e)) = 2 /\ Record(e)[1].op = "append"
      BY RecordSteps
    <3>1. 1 \in 1..Len(steps) /\ steps[1].op = "append"
      BY <2>4, <3>0
    <3>. QED  BY <2>2, <3>1
  <2>. QED  BY <2>1, <2>3, <2>4, ReplayCall
<1>15. ~WriteMap(s)
  BY DEF WriteMap, Call
<1>. QED  BY <1>4, <1>5, <1>6, <1>7, <1>8, <1>10, <1>11, <1>12, <1>13, <1>14, <1>15 DEF ToolCall

LEMMA ReplayRunStep ==
    ASSUME Inv, ReplayInv, NEW s \in Session, RunStep(s)
    PROVE  ReplayInv'
<1>. DEFINE W == Steps(journal)
            e == NextStep(s).ev
<1>0. /\ journal \in Seq(Written) /\ todo \in [Session -> Seq(WrittenStep)]
      /\ todo[s] \in Seq(WrittenStep) /\ Prepared(todo[s], W)
  BY DEF Inv, ReplayInv
<1>1. todo[s] # <<>>
  BY DEF RunStep, CheckEdge, AppendLine, ApplyStatement
<1>2. NextStep(s) \in WrittenStep /\ 1 \in 1..Len(todo[s])
  <2>1. NextStep(s) \in WrittenStep /\ Len(todo[s]) \in Nat \ {0}
    BY <1>0, <1>1, TailOf DEF NextStep
  <2>. QED  BY <2>1
<1>3. e \in Written
  BY <1>2 DEF WrittenStep
<1>4. ASSUME NEW V, W \subseteq V, Advance(s) \/ Abandon(s)
      PROVE  /\ Prepared(todo'[s], V) /\ \A c \in Creation : todo'[s] # Record(c)
             /\ \A r \in Session \ {s} : todo'[r] = todo[r]
  <2>1. Prepared(Tail(todo[s]), V) /\ \A c \in Creation : Tail(todo[s]) # Record(c)
    BY <1>0, <1>1, <1>4, TailPrepared
  <2>2. Prepared(<<>>, V) /\ \A c \in Creation : <<>> # Record(c)
    <3>1. <<>> \in Seq(PlainStep)
      OBVIOUS
    <3>. QED  BY <3>1, PlainPrepared
  <2>3. PICK rest : /\ todo' = [todo EXCEPT ![s] = rest] /\ Prepared(rest, V)
                    /\ \A c \in Creation : rest # Record(c)
    BY <1>4, <2>1, <2>2 DEF Advance, Abandon
  <2>. QED  BY <1>0, <2>3
<1>5. ASSUME journal' = journal, Advance(s) \/ Abandon(s)
      PROVE  ReplayInv'
  <2>1. Steps(journal)' = W /\ Orderly(journal')
    BY <1>5 DEF Steps, ReplayInv
  <2>2. /\ Prepared(todo'[s], W) /\ \A c \in Creation : todo'[s] # Record(c)
        /\ \A r \in Session \ {s} : todo'[r] = todo[r]
    BY <1>4, <1>5
  <2>3. \A r \in Session : Prepared(todo'[r], W)
    BY <2>2 DEF ReplayInv
  <2>. HIDE DEF W
  <2>. QED  BY <2>1, <2>2, <2>3 DEF ReplayInv
<1>6. CASE CheckEdge(s) \/ ApplyStatement(s)
  BY <1>5, <1>6 DEF CheckEdge, ApplyStatement
<1>7. CASE AppendLine(s)
  <2>1. NextStep(s).op = "append" /\ journal' = Append(journal, e) /\ Advance(s)
    BY <1>7 DEF AppendLine
  <2>2. Supported(e, W) /\ (e \in Creation => e \notin W /\ todo[s] = Record(e))
    BY <1>0, <1>2, <2>1 DEF Prepared, NextStep
  <2>3. Orderly(journal')
    BY <1>0, <1>3, <2>1, <2>2, OrderlyAppend DEF ReplayInv
  <2>4. Steps(journal)' = W \cup {e}
    <3>1. Steps(journal') = W \cup {e}
      BY <1>0, <1>3, <2>1, StepsGrow
    <3>. QED  BY <3>1 DEF Steps
  <2>5. /\ Prepared(todo'[s], W \cup {e}) /\ \A c \in Creation : todo'[s] # Record(c)
        /\ \A r \in Session \ {s} : todo'[r] = todo[r]
    BY <1>4, <2>1
  <2>6. ASSUME NEW r \in Session \ {s} PROVE Prepared(todo[r], W \cup {e})
    <3>1. Prepared(todo[r], W)
      BY DEF ReplayInv
    <3>2. ASSUME NEW i \in 1..Len(todo[r]), todo[r][i].op = "append"
          PROVE  /\ Supported(todo[r][i].ev, W \cup {e})
                 /\ todo[r][i].ev \in Creation =>
                       todo[r][i].ev \notin W \cup {e} /\ todo[r] = Record(todo[r][i].ev)
      <4>1. /\ Supported(todo[r][i].ev, W)
            /\ todo[r][i].ev \in Creation =>
                  todo[r][i].ev \notin W /\ todo[r] = Record(todo[r][i].ev)
        BY <3>1, <3>2 DEF Prepared
      <4>2. Supported(todo[r][i].ev, W \cup {e})
        BY <4>1, SupportedByMore
      <4>3. todo[r][i].ev \in Creation => todo[r][i].ev # e
        BY <2>2, <4>1 DEF ReplayInv
      <4>. QED  BY <4>1, <4>2, <4>3
    <3>. QED  BY <3>2 DEF Prepared
  <2>7. \A r \in Session : Prepared(todo'[r], W \cup {e})
    BY <2>5, <2>6
  <2>. HIDE DEF W, e
  <2>. QED  BY <2>3, <2>4, <2>5, <2>7 DEF ReplayInv
<1>. QED  BY <1>6, <1>7 DEF RunStep

LEMMA ReplayStep ==
    ASSUME Inv, ReplayInv, [Next]_vars, Callers["write_map"] = {}
    PROVE  ReplayInv'
<1>1. ASSUME NEW s \in Session, WriteFails(s) \/ Crash(s) PROVE ReplayInv'
  <2>1. todo' = [todo EXCEPT ![s] = <<>>] /\ journal' = journal
    BY <1>1 DEF WriteFails, Crash, Abandon
  <2>2. <<>> \in Seq(PlainStep)
    OBVIOUS
  <2>. QED  BY <2>1, <2>2, PlainPrepared, ReplayCall
<1>2. CASE Tick \/ UNCHANGED vars
  <2>1. journal' = journal /\ todo' = todo
    BY <1>2 DEF Tick, vars
  <2>. QED  BY <2>1 DEF ReplayInv, Steps
<1>. QED  BY <1>1, <1>2, ReplayToolCall, ReplayRunStep DEF Next

LEMMA ReplayInit ==
    ASSUME Init
    PROVE  ReplayInv
<1>. DEFINE n == Cardinality(Charted)
            created == [i \in 1..n |-> Event("ticket_created", SetToSeq(Charted)[i])]
            first == <<Event("map_created", None)>>
            log == first \o created
<1>1. journal = Opening /\ todo = [s \in Session |-> <<>>]
  BY DEF Init
<1>2. ASSUME NEW s \in Session
      PROVE  /\ Prepared(todo[s], Steps(journal)) /\ \A e \in Creation : todo[s] # Record(e)
  <2>1. todo[s] = <<>> /\ <<>> \in Seq(PlainStep)
    BY <1>1
  <2>. QED  BY <2>1, PlainPrepared
<1>3. Orderly(<<>>)
  <2>1. \A i \in 1..Len(<<>>) : FALSE
    OBVIOUS
  <2>. QED  BY <2>1 DEF Orderly
<1>4. Orderly(log)
  <2>1. Charted \in SUBSET Ticket /\ IsFiniteSet(Charted)
    BY CartographAssumption, FS_Subset
  <2>2. /\ n \in Nat /\ SetToSeq(Charted) \in [1..n -> Charted]
        /\ \A i, j \in 1..n : SetToSeq(Charted)[i] = SetToSeq(Charted)[j] => i = j
    BY <2>1, Numbered
  <2>3. /\ Len(log) = n + 1 /\ log[1] = Event("map_created", None)
        /\ \A k \in 2..(n + 1) : /\ k - 1 \in 1..n
                                 /\ log[k] = Event("ticket_created", SetToSeq(Charted)[k - 1])
    <3>1. /\ Len(created) = n /\ Len(first) = 1 /\ first[1] = Event("map_created", None)
          /\ \A k \in 1..n : created[k] = Event("ticket_created", SetToSeq(Charted)[k])
      BY <2>2
    <3>2. created \in Seq({Event("ticket_created", t) : t \in Ticket})
      <4>1. \A k \in 1..n : Event("ticket_created", SetToSeq(Charted)[k]) \in
                               {Event("ticket_created", t) : t \in Ticket}
        BY <2>1, <2>2
      <4>. HIDE DEF n
      <4>. QED  BY <2>2, <4>1
    <3>3. first \in Seq({Event("map_created", None)})
      OBVIOUS
    <3>. HIDE DEF created, first, n
    <3>4. /\ Len(log) = Len(first) + Len(created)
          /\ \A k \in 1..(Len(first) + Len(created)) :
                log[k] = IF k <= Len(first) THEN first[k] ELSE created[k - Len(first)]
      BY <3>2, <3>3
    <3>. QED  BY <2>2, <3>1, <3>4
  <2>. HIDE DEF log, n
  <2>4. ASSUME NEW k \in 1..(n + 1)
        PROVE  /\ Supported(log[k], FirstOf(log, k - 1))
               /\ log[k] \notin FirstOf(log, k - 1)
    <3>1. CASE k = 1
      <4>1. FirstOf(log, k - 1) = {} /\ log[k].kind = "map_created"
        BY <2>3, <3>1, EventsDiffer DEF FirstOf
      <4>. QED  BY <4>1 DEF Supported
    <3>2. CASE k # 1
      <4>1. k \in 2..(n + 1) /\ 1 \in 1..(k - 1) /\ \A i \in 1..(k - 1) : i = 1 \/ i \in 2..(n + 1)
        BY <2>2, <3>2
      <4>2. log[k].kind = "ticket_created"
        BY <2>3, <4>1, EventsDiffer
      <4>3. Event("map_created", None) \in FirstOf(log, k - 1)
        BY <2>3, <4>1 DEF FirstOf
      <4>4. ASSUME NEW i \in 1..(k - 1), log[k] = log[i] PROVE FALSE
        <5>1. CASE i = 1
          BY <2>3, <4>1, <4>4, <5>1, EventsDiffer
        <5>2. CASE i \in 2..(n + 1)
          <6>1. SetToSeq(Charted)[k - 1] = SetToSeq(Charted)[i - 1]
            BY <2>3, <4>1, <4>4, <5>2, EventsDiffer
          <6>2. k - 1 = i - 1
            BY <2>2, <2>3, <4>1, <5>2, <6>1
          <6>. QED  BY <6>2
        <5>. QED  BY <4>1, <5>1, <5>2
      <4>. QED  BY <4>2, <4>3, <4>4 DEF Supported, FirstOf
    <3>. QED  BY <3>1, <3>2
  <2>. QED  BY <2>3, <2>4 DEF Orderly
<1>5. Orderly(Opening)
  <2>. HIDE DEF log
  <2>1. Opening = <<>> \/ Opening = log
    BY DEF Opening, log
  <2>. QED  BY <1>3, <1>4, <2>1
<1>. QED  BY <1>1, <1>2, <1>5 DEF ReplayInv

\* `dark map rebuild` succeeds on whatever the tools have written, when no
\* charting run writes its map a second time: no event names a map or ticket
\* that an earlier event did not create, and nothing is created twice, in
\* whatever order the sessions' calls, crashes, failures and rebuilds come
\* (Store::apply's keys, Store::rebuild).
THEOREM RebuildSucceeds ==
    ASSUME Callers["write_map"] = {}
    PROVE  Spec => []AlwaysReplayable
<1>1. Init => Inv /\ ReplayInv
  BY InitKeeps, ReplayInit
<1>2. Inv /\ ReplayInv /\ [Next]_vars => Inv' /\ ReplayInv'
  BY StepKeeps, ReplayStep
<1>3. Inv /\ ReplayInv => AlwaysReplayable
  BY OrderlyReplays DEF Inv, ReplayInv, AlwaysReplayable
<1>. QED  BY <1>1, <1>2, <1>3, PTL DEF Spec

-----------------------------------------------------------------------------
(* What the other two theorems need of the calls.                          *)

\* Events of everyday: all but claims, resolutions and reopenings.
Everyday(e) == e.kind = "ticket_updated" => e.status \in {"out_of_scope", "invalidated"}

LEMMA RecordOver ==
    ASSUME NEW S, NEW e, Do("append", e) \in S, Do("apply", e) \in S
    PROVE  Record(e) \in Seq(S)
BY DEF Record

\* A call writes everyday events, whatever it is, or is one of four; of six
\* when edges are told apart too.
LEMMA CallSteps ==
    ASSUME NEW s \in Session, ToolCall(s), NEW S, NEW wires \in BOOLEAN,
           \A e \in Written : Everyday(e) /\ (wires \/ e.kind # "edge_added") =>
               Do("check", e) \in S /\ Do("append", e) \in S /\ Do("apply", e) \in S
    PROVE  \/ \E tool, steps : steps \in Seq(S) /\ Call(tool, s, steps) /\ db' = db
           \/ ~wires /\ \E t, u \in Ticket : TicketBlock(s, t, u)
           \/ ~wires /\ WriteMap(s)
           \/ \E t \in Ticket : TicketClaim(s, t)
           \/ \E t \in Ticket : TicketResolve(s, t)
           \/ ReapExpired(s)
           \/ MapRebuild(s)
<1>. DEFINE Routine == \E tool, steps : steps \in Seq(S) /\ Call(tool, s, steps) /\ db' = db
<1>1. ASSUME NEW e \in Written, Everyday(e), wires \/ e.kind # "edge_added"
      PROVE  Record(e) \in Seq(S)
  BY <1>1, RecordOver
<1>2. ASSUME NEW k, NEW x, k \notin {"ticket_updated", "edge_added"}, Event(k, x) \in Written
      PROVE  Record(Event(k, x)) \in Seq(S)
  BY <1>1, <1>2, EventsDiffer DEF Everyday
<1>3. ASSUME NEW t \in Ticket, NEW u \in Ticket, wires
      PROVE  Record(EdgeAdded(t, u)) \in Seq(S) /\ Do("check", EdgeAdded(t, u)) \in S
  <2>1. EdgeAdded(t, u) \in Written
    BY DEF Written
  <2>2. Everyday(EdgeAdded(t, u))
    BY EventsDiffer DEF Everyday
  <2>. QED  BY <1>1, <1>3, <2>1, <2>2
<1>4. ASSUME NEW t \in Ticket, NEW status \in {"out_of_scope", "invalidated"},
             NEW by \in Session \cup {None}
      PROVE  Record(Closed(t, status, by)) \in Seq(S)
  <2>1. Closed(t, status, by) \in Written /\ Closed(t, status, by).status = status
       /\ Closed(t, status, by).kind = "ticket_updated"
    BY UpdateEvents DEF Terminal
  <2>2. Everyday(Closed(t, status, by))
    BY <2>1 DEF Everyday
  <2>. QED  BY <1>1, <2>1, <2>2
<1>5. /\ Event("map_created", None) \in Written
      /\ \A t \in Ticket : Event("ticket_created", t) \in Written
      /\ \A f \in Fog : Event("fog_added", f) \in Written /\ Event("fog_graduated", f) \in Written
      /\ \A t \in Ticket \cup {None} : Event("scope_exclusion_added", t) \in Written
  BY DEF Written
<1>6. CASE MapCreate(s)
  <2>1. Record(Event("map_created", None)) \in Seq(S)
    BY <1>2, <1>5
  <2>. QED  BY <1>6, <2>1 DEF MapCreate
<1>7. ASSUME NEW t \in Ticket, TicketCreate(s, t) PROVE Routine
  <2>1. Record(Event("ticket_created", t)) \in Seq(S)
    BY <1>2, <1>5
  <2>. QED  BY <1>7, <2>1 DEF TicketCreate
<1>8. ASSUME NEW t \in Ticket, TicketInvalidate(s, t) PROVE Routine
  <2>1. Record(Closed(t, "invalidated", s)) \in Seq(S)
    BY <1>4
  <2>. QED  BY <1>8, <2>1 DEF TicketInvalidate
<1>9. ASSUME NEW t \in Ticket, NEW u \in Ticket, wires, TicketBlock(s, t, u) PROVE Routine
  BY <1>3, <1>9 DEF TicketBlock
<1>10. ASSUME NEW f \in Fog, FogWrite(s, f) \/ FogGraduate(s, f) PROVE Routine
  <2>1. Record(Event("fog_added", f)) \in Seq(S) /\ Record(Event("fog_graduated", f)) \in Seq(S)
    BY <1>2, <1>5
  <2>. QED  BY <1>10, <2>1 DEF FogWrite, FogGraduate
<1>11. ASSUME NEW t \in Ticket \cup {None}, ScopeExclude(s, t) PROVE Routine
  <2>. DEFINE close == IF t = None THEN <<>> ELSE Record(Closed(t, "out_of_scope", None))
              first == Record(Event("scope_exclusion_added", t))
  <2>1. close \in Seq(S)
    <3>1. <<>> \in Seq(S)
      OBVIOUS
    <3>. QED  BY <1>4, <3>1
  <2>2. first \in Seq(S)
    BY <1>2, <1>5
  <2>3. Call("scope_exclude", s, first \o close) /\ db' = db
    BY <1>11 DEF ScopeExclude
  <2>. HIDE DEF close, first
  <2>4. first \o close \in Seq(S)
    BY <2>1, <2>2
  <2>. QED  BY <2>3, <2>4
<1>12. CASE wires /\ WriteMap(s)
  <2>. DEFINE n == Cardinality(Ticket)
              created == [i \in 1..n |-> Record(Event("ticket_created", SetToSeq(Ticket)[i]))]
              edge(i) == EdgeAdded(Planned[i][1], Planned[i][2])
              writes(i) == <<Do("check", edge(i))>> \o Record(edge(i))
              wired == [i \in 1..Len(Planned) |-> writes(i)]
              first == Record(Event("map_created", None))
  <2>1. n \in Nat /\ SetToSeq(Ticket) \in [1..n -> Ticket]
    BY CartographAssumption, Numbered
  <2>2. created \in Seq(Seq(S))
    <3>1. \A i \in 1..n : Record(Event("ticket_created", SetToSeq(Ticket)[i])) \in Seq(S)
      BY <1>2, <1>5, <2>1
    <3>. HIDE DEF n
    <3>. QED  BY <2>1, <3>1
  <2>3. wired \in Seq(Seq(S))
    <3>1. Planned \in Seq(Ticket \X Ticket) /\ Len(Planned) \in Nat
      BY CartographAssumption
    <3>2. ASSUME NEW i \in 1..Len(Planned) PROVE writes(i) \in Seq(S)
      <4>1. Planned[i][1] \in Ticket /\ Planned[i][2] \in Ticket
        BY <3>1
      <4>2. Record(edge(i)) \in Seq(S) /\ Do("check", edge(i)) \in S
        BY <1>3, <1>12, <4>1
      <4>3. <<Do("check", edge(i))>> \in Seq(S)
        BY <4>2
      <4>. HIDE DEF edge
      <4>. QED  BY <4>2, <4>3
    <3>. HIDE DEF writes
    <3>. QED  BY <3>1, <3>2
  <2>4. first \in Seq(S)
    BY <1>2, <1>5
  <2>5. Call("write_map", s, first \o FlattenSeq(created) \o FlattenSeq(wired)) /\ db' = db
    BY <1>12 DEF WriteMap
  <2>. HIDE DEF first, created, wired
  <2>6. FlattenSeq(created) \in Seq(S) /\ FlattenSeq(wired) \in Seq(S)
    BY <2>2, <2>3, FlattenType
  <2>7. first \o FlattenSeq(created) \o FlattenSeq(wired) \in Seq(S)
    BY <2>4, <2>6
  <2>. QED  BY <2>5, <2>7
<1>. QED  BY <1>6, <1>7, <1>8, <1>9, <1>10, <1>11, <1>12 DEF ToolCall

\* A reaper queues one reopening for each expired ticket.
LEMMA ReapSteps ==
    ASSUME NEW s \in Session, ReapExpired(s), NEW S,
           \A t \in Expired : Do("append", Reopened(t)) \in S /\ Do("apply", Reopened(t)) \in S
    PROVE  \E steps : /\ steps \in Seq(S) /\ Call("reap_expired", s, steps) /\ db' = db
                      /\ \E n \in Nat : \E f :
                            /\ \A i \in 1..n : f[i] \in Ticket
                            /\ \A i, j \in 1..n : f[i] = f[j] => i = j
                            /\ steps = FlattenSeq([i \in 1..n |-> Record(Reopened(f[i]))])
<1>. DEFINE n == Cardinality(Expired)
            f == SetToSeq(Expired)
            seqs == [i \in 1..n |-> Record(Reopened(f[i]))]
<1>1. Expired \in SUBSET Ticket /\ IsFiniteSet(Expired)
  BY CartographAssumption, FS_Subset DEF Expired
<1>2. n \in Nat /\ f \in [1..n -> Expired] /\ \A i, j \in 1..n : f[i] = f[j] => i = j
  BY <1>1, Numbered
<1>3. \A i \in 1..n : f[i] \in Expired /\ f[i] \in Ticket
  BY <1>1, <1>2
<1>4. \A i \in 1..n : Record(Reopened(f[i])) \in Seq(S)
  BY <1>3, RecordOver
<1>5. seqs \in Seq(Seq(S))
  <2>. HIDE DEF n, f
  <2>. QED  BY <1>2, <1>4
<1>6. Call("reap_expired", s, FlattenSeq(seqs)) /\ db' = db
  BY DEF ReapExpired
<1>7. FlattenSeq(seqs) \in Seq(S)
  <2>. HIDE DEF seqs
  <2>. QED  BY <1>5, FlattenType
<1>8. \E m \in Nat : \E h : /\ \A i \in 1..m : h[i] \in Ticket
                            /\ \A i, j \in 1..m : h[i] = h[j] => i = j
                            /\ FlattenSeq(seqs) = FlattenSeq([i \in 1..m |-> Record(Reopened(h[i]))])
  <2>. HIDE DEF n, f
  <2>. n \in Nat
    BY <1>2
  <2>. WITNESS n \in Nat
  <2>. WITNESS f
  <2>. QED  BY <1>2, <1>3
<1>. HIDE DEF seqs
<1>. QED  BY <1>6, <1>7, <1>8

-----------------------------------------------------------------------------
(* OneResolution: what a session has resolved is in its flag, or in the     *)
(* statement it is about to run.  A write that fails between the journal    *)
(* and that statement leaves the flag behind, hence the hypothesis.         *)

IsResolve(e) == e.kind = "ticket_updated" /\ e.status = "resolved"

\* A resolution to append is all that its call does, is the session's own,
\* and its first of a ticket that is not research.
Resolving(steps, s, done, W) ==
    \A i \in 1..Len(steps) : steps[i].op = "append" /\ IsResolve(steps[i].ev) =>
        /\ steps[i].ev.id \in Ticket /\ steps[i].ev = Closed(steps[i].ev.id, "resolved", s)
        /\ steps = Record(steps[i].ev)
        /\ steps[i].ev.id \notin Research =>
              s \notin done /\ \A u \in Ticket \ Research : Closed(u, "resolved", s) \notin W

Flagged(steps, s, done, W) ==
    \A t \in Ticket \ Research : Closed(t, "resolved", s) \in W =>
        s \in done \/ (steps # <<>> /\ steps[1] = Do("apply", Closed(t, "resolved", s)))

ResolveInv ==
    /\ OneResolution
    /\ \A s \in Session : /\ Resolving(todo[s], s, resolvedOne, Steps(journal))
                          /\ Flagged(todo[s], s, resolvedOne, Steps(journal))

LEMMA ResolvesDiffer ==
    /\ \A t, s : IsResolve(Closed(t, "resolved", s))
    /\ \A t, s, u, r : Closed(t, "resolved", s) = Closed(u, "resolved", r) => t = u /\ s = r
<1>1. ASSUME NEW t, NEW s, NEW u, NEW r, Closed(t, "resolved", s) = Closed(u, "resolved", r)
      PROVE  t = u /\ s = r
  <2>1. /\ Closed(t, "resolved", s).id = Closed(u, "resolved", r).id
        /\ Closed(t, "resolved", s).resolution = Closed(u, "resolved", r).resolution
    BY <1>1
  <2>2. /\ Closed(t, "resolved", s).id = t /\ Closed(u, "resolved", r).id = u
        /\ Closed(t, "resolved", s).resolution = s /\ Closed(u, "resolved", r).resolution = r
    BY UpdateEvents
  <2>. QED  BY <2>1, <2>2
<1>2. \A t, s : IsResolve(Closed(t, "resolved", s))
  BY UpdateEvents DEF IsResolve
<1>. QED  BY <1>1, <1>2

\* After a step there is no resolution left to append.
LEMMA TailResolves ==
    ASSUME NEW steps \in Seq(WrittenStep), steps # <<>>, NEW s, NEW done, NEW W,
           Resolving(steps, s, done, W), NEW more, NEW V
    PROVE  Resolving(Tail(steps), s, more, V)
<1>1. ASSUME NEW i \in 1..Len(Tail(steps)), Tail(steps)[i].op = "append",
             IsResolve(Tail(steps)[i].ev)
      PROVE  FALSE
  <2>1. i + 1 \in 2..Len(steps) /\ Tail(steps)[i] = steps[i + 1]
    BY TailOf
  <2>2. i + 1 \in 1..Len(steps) /\ i + 1 # 1
    BY <2>1
  <2>3. steps = Record(steps[i + 1].ev)
    BY <1>1, <2>1, <2>2 DEF Resolving
  <2>4. Len(steps) = 2 /\ steps[2].op = "apply"
    BY <2>3, RecordSteps
  <2>5. i + 1 = 2
    BY <2>1, <2>4
  <2>. QED  BY <1>1, <2>1, <2>4, <2>5
<1>. QED  BY <1>1 DEF Resolving

LEMMA ResolveCall ==
    ASSUME Inv, ResolveInv, NEW s \in Session, todo[s] = <<>>, NEW steps,
           todo' = [todo EXCEPT ![s] = steps], journal' = journal, resolvedOne' = resolvedOne,
           Resolving(steps, s, resolvedOne, Steps(journal))
    PROVE  ResolveInv'
<1>1. todo' [s] = steps /\ \A r \in Session \ {s} : todo'[r] = todo[r]
  BY DEF Inv
<1>2. Steps(journal)' = Steps(journal) /\ OneResolution'
  BY DEF Steps, ResolveInv, OneResolution
<1>3. Flagged(steps, s, resolvedOne, Steps(journal))
  BY DEF ResolveInv, Flagged
<1>4. \A r \in Session : /\ Resolving(todo'[r], r, resolvedOne, Steps(journal))
                         /\ Flagged(todo'[r], r, resolvedOne, Steps(journal))
  BY <1>1, <1>3 DEF ResolveInv
<1>. QED  BY <1>2, <1>4 DEF ResolveInv

LEMMA ResolveToolCall ==
    ASSUME Inv, ResolveInv, NEW s \in Session, ToolCall(s)
    PROVE  ResolveInv'
<1>. DEFINE S == {st \in WrittenStep : st.op = "append" => ~IsResolve(st.ev)}
            W == Steps(journal)
<1>1. ASSUME NEW op \in StepOp, NEW e \in Written, op = "append" => ~IsResolve(e)
      PROVE  Do(op, e) \in S
  BY <1>1, DoTypes
<1>2. ASSUME NEW tool, NEW steps \in Seq(S), Call(tool, s, steps) PROVE ResolveInv'
  <2>1. \A i \in 1..Len(steps) : steps[i] \in S
    OBVIOUS
  <2>2. Resolving(steps, s, resolvedOne, Steps(journal))
    BY <2>1 DEF Resolving
  <2>. QED  BY <1>2, <2>2, ResolveCall DEF Call, Idle
<1>3. ASSUME NEW t \in Ticket, TicketClaim(s, t) PROVE ResolveInv'
  <2>1. clock \in Nat
    BY DEF Inv, TypeOK
  <2>2. Claimed(t, s, clock) \in Written /\ ~IsResolve(Claimed(t, s, clock))
    BY <2>1, UpdateEvents DEF IsResolve
  <2>3. Do("append", Claimed(t, s, clock)) \in S
    <3>. HIDE DEF S
    <3>. QED  BY <1>1, <2>2 DEF StepOp
  <2>4. <<Do("append", Claimed(t, s, clock))>> \in Seq(S)
    <3>. HIDE DEF S
    <3>. QED  BY <2>3
  <2>5. Call("ticket_claim", s, <<Do("append", Claimed(t, s, clock))>>)
    BY <1>3 DEF TicketClaim
  <2>. QED  BY <1>2, <2>4, <2>5
<1>4. ASSUME NEW t \in Ticket, TicketResolve(s, t) PROVE ResolveInv'
  <2>. DEFINE e == Closed(t, "resolved", s)
  <2>1. Call("ticket_resolve", s, Record(e)) /\ CheckSessionLimit(s, t)
    BY <1>4 DEF TicketResolve
  <2>2. todo[s] = <<>>
    BY <2>1 DEF Call, Idle
  <2>3. t \notin Research =>
           s \notin resolvedOne /\ \A u \in Ticket \ Research : Closed(u, "resolved", s) \notin W
    BY <2>1, <2>2 DEF CheckSessionLimit, ResolveInv, Flagged
  <2>4. Resolving(Record(e), s, resolvedOne, W)
    <3>1. Len(Record(e)) = 2 /\ \A i \in 1..2 : Record(e)[i].ev = e
      BY RecordSteps
    <3>2. e.id = t
      BY UpdateEvents
    <3>. HIDE DEF W
    <3>. QED  BY <2>3, <3>1, <3>2 DEF Resolving
  <2>. QED  BY <2>1, <2>2, <2>4, ResolveCall DEF Call
<1>5. CASE ReapExpired(s)
  <2>1. ASSUME NEW t \in Expired PROVE Do("append", Reopened(t)) \in S /\ Do("apply", Reopened(t)) \in S
    <3>1. Reopened(t) \in Written /\ ~IsResolve(Reopened(t))
      BY UpdateEvents DEF IsResolve, Expired
    <3>. HIDE DEF S
    <3>. QED  BY <1>1, <3>1 DEF StepOp
  <2>2. \E steps : steps \in Seq(S) /\ Call("reap_expired", s, steps)
    <3>. HIDE DEF S
    <3>. QED  BY <1>5, <2>1, ReapSteps
  <2>. QED  BY <1>2, <2>2
<1>6. CASE MapRebuild(s)
  <2>. DEFINE steps == [i \in 1..Len(journal) |-> Do("replay", journal[i])]
  <2>1. /\ todo' = [todo EXCEPT ![s] = steps] /\ journal' = journal /\ todo[s] = <<>>
        /\ resolvedOne' = resolvedOne
    BY <1>6 DEF MapRebuild, Idle
  <2>2. Len(steps) = Len(journal) /\ \A i \in 1..Len(steps) : steps[i].op = "replay"
    <3>1. Len(journal) \in Nat
      BY DEF Inv
    <3>. QED  BY <3>1 DEF Do
  <2>. HIDE DEF steps
  <2>3. Resolving(steps, s, resolvedOne, W)
    BY <2>2 DEF Resolving
  <2>. QED  BY <2>1, <2>3, ResolveCall
<1>7. ASSUME NEW e \in Written, Everyday(e)
      PROVE  Do("check", e) \in S /\ Do("append", e) \in S /\ Do("apply", e) \in S
  <2>1. ~IsResolve(e)
    BY <1>7 DEF Everyday, IsResolve
  <2>. HIDE DEF S
  <2>. QED  BY <1>1, <2>1 DEF StepOp
<1>. HIDE DEF S
<1>8. TRUE \in BOOLEAN
  OBVIOUS
<1>. QED  BY <1>2, <1>3, <1>4, <1>5, <1>6, <1>7, <1>8, CallSteps

LEMMA ResolveRunStep ==
    ASSUME Inv, ResolveInv, NEW s \in Session, RunStep(s)
    PROVE  ResolveInv'
<1>. DEFINE W == Steps(journal)
            e == NextStep(s).ev
<1>0. /\ journal \in Seq(Written) /\ todo \in [Session -> Seq(WrittenStep)]
      /\ todo[s] \in Seq(WrittenStep) /\ Resolving(todo[s], s, resolvedOne, W)
      /\ Flagged(todo[s], s, resolvedOne, W)
  BY DEF Inv, ResolveInv
<1>1. todo[s] # <<>>
  BY DEF RunStep, CheckEdge, AppendLine, ApplyStatement
<1>2. NextStep(s) \in WrittenStep /\ 1 \in 1..Len(todo[s])
  <2>1. NextStep(s) \in WrittenStep /\ Len(todo[s]) \in Nat \ {0}
    BY <1>0, <1>1, TailOf DEF NextStep
  <2>. QED  BY <2>1
<1>3. e \in Written /\ NextStep(s).op \in StepOp
  BY <1>2 DEF WrittenStep
<1>4. ASSUME NEW done, NEW V, Advance(s) \/ Abandon(s)
      PROVE  /\ Resolving(todo'[s], s, done, V)
             /\ \A r \in Session \ {s} : todo'[r] = todo[r]
  <2>1. Resolving(Tail(todo[s]), s, done, V)
    BY <1>0, <1>1, TailResolves
  <2>2. Resolving(<<>>, s, done, V)
    <3>1. \A i \in 1..Len(<<>>) : FALSE
      OBVIOUS
    <3>. QED  BY <3>1 DEF Resolving
  <2>. QED  BY <1>0, <1>4, <2>1, <2>2 DEF Advance, Abandon
<1>5. CASE CheckEdge(s)
  <2>1. /\ NextStep(s).op = "check" /\ (Advance(s) \/ Abandon(s))
        /\ journal' = journal /\ resolvedOne' = resolvedOne
    BY <1>5 DEF CheckEdge
  <2>2. Steps(journal)' = W /\ OneResolution'
    BY <2>1 DEF Steps, ResolveInv, OneResolution
  <2>3. \A t \in Ticket \ Research : Closed(t, "resolved", s) \in W => s \in resolvedOne
    <3>1. \A t : NextStep(s) # Do("apply", Closed(t, "resolved", s))
      BY <2>1 DEF Do
    <3>. QED  BY <1>0, <3>1 DEF Flagged, NextStep
  <2>4. \A r \in Session : /\ Resolving(todo'[r], r, resolvedOne, W)
                           /\ Flagged(todo'[r], r, resolvedOne, W)
    BY <1>4, <2>1, <2>3 DEF Flagged, ResolveInv
  <2>. HIDE DEF W
  <2>. QED  BY <2>1, <2>2, <2>4 DEF ResolveInv
<1>6. CASE ApplyStatement(s)
  <2>1. /\ NextStep(s).op \in {"apply", "replay"} /\ (Advance(s) \/ Abandon(s))
        /\ resolvedOne' =
              IF NextStep(s).op = "apply" /\ e.status = "resolved" /\ e.id \notin Research
              THEN resolvedOne \cup {s} ELSE resolvedOne
        /\ journal' = journal
    BY <1>6 DEF ApplyStatement
  <2>2. Steps(journal)' = W /\ OneResolution'
    BY <2>1 DEF Steps, ResolveInv, OneResolution
  <2>3. ASSUME NEW t \in Ticket \ Research, Closed(t, "resolved", s) \in W PROVE s \in resolvedOne'
    <3>1. CASE s \in resolvedOne
      BY <2>1, <3>1
    <3>2. CASE NextStep(s) = Do("apply", Closed(t, "resolved", s))
      <4>1. NextStep(s).op = "apply" /\ e = Closed(t, "resolved", s)
        BY <3>2 DEF Do
      <4>2. e.status = "resolved" /\ e.id = t
        BY <4>1, UpdateEvents
      <4>. QED  BY <2>1, <4>1, <4>2
    <3>. QED  BY <1>0, <2>3, <3>1, <3>2 DEF Flagged, NextStep
  <2>4. /\ Resolving(todo'[s], s, resolvedOne', W) /\ Flagged(todo'[s], s, resolvedOne', W)
    BY <1>4, <2>1, <2>3 DEF Flagged
  <2>5. ASSUME NEW r \in Session \ {s}
        PROVE  Resolving(todo'[r], r, resolvedOne', W) /\ Flagged(todo'[r], r, resolvedOne', W)
    <3>1. r \in resolvedOne' <=> r \in resolvedOne
      BY <2>1
    <3>2. todo'[r] = todo[r]
      BY <1>4, <2>1
    <3>3. Resolving(todo[r], r, resolvedOne, W) /\ Flagged(todo[r], r, resolvedOne, W)
      BY DEF ResolveInv
    <3>. HIDE DEF W
    <3>. QED  BY <3>1, <3>2, <3>3 DEF Resolving, Flagged
  <2>. HIDE DEF W
  <2>. QED  BY <2>2, <2>4, <2>5 DEF ResolveInv
<1>7. CASE AppendLine(s)
  <2>1. /\ NextStep(s).op = "append" /\ journal' = Append(journal, e) /\ Advance(s)
        /\ resolvedOne' = resolvedOne
    BY <1>7 DEF AppendLine
  <2>. DEFINE V == W \cup {e}
  <2>2. Steps(journal)' = V
    <3>1. Steps(journal') = V
      BY <1>0, <1>3, <2>1, StepsGrow
    <3>. QED  BY <3>1 DEF Steps
  <2>3. \A t \in Ticket \ Research : Closed(t, "resolved", s) \in W => s \in resolvedOne
    <3>1. \A t : NextStep(s) # Do("apply", Closed(t, "resolved", s))
      BY <2>1 DEF Do
    <3>. QED  BY <1>0, <3>1 DEF Flagged, NextStep
  <2>4. /\ Resolving(todo'[s], s, resolvedOne, V)
        /\ \A r \in Session \ {s} : todo'[r] = todo[r] /\ Resolving(todo[r], r, resolvedOne, W)
                                    /\ Flagged(todo[r], r, resolvedOne, W)
    BY <1>4, <2>1 DEF ResolveInv
  <2>5. CASE ~IsResolve(e)
    <3>1. \A t, r : Closed(t, "resolved", r) \in V <=> Closed(t, "resolved", r) \in W
      BY <2>5, ResolvesDiffer
    <3>2. Flagged(todo'[s], s, resolvedOne, V)
      BY <2>3, <3>1 DEF Flagged
    <3>3. \A r \in Session \ {s} : Resolving(todo'[r], r, resolvedOne, V)
                                   /\ Flagged(todo'[r], r, resolvedOne, V)
      <4>. HIDE DEF V, W
      <4>. QED  BY <2>4, <3>1 DEF Resolving, Flagged
    <3>4. OneResolution'
      <4>1. OneResolution
        BY DEF ResolveInv
      <4>. HIDE DEF V
      <4>. QED  BY <2>2, <3>1, <4>1 DEF OneResolution
    <3>. HIDE DEF V, W
    <3>. QED  BY <2>1, <2>2, <2>4, <3>2, <3>3, <3>4 DEF ResolveInv
  <2>6. CASE IsResolve(e)
    <3>1. /\ e.id \in Ticket /\ e = Closed(e.id, "resolved", s) /\ todo[s] = Record(e)
          /\ e.id \notin Research => \A u \in Ticket \ Research : Closed(u, "resolved", s) \notin W
      BY <1>0, <1>2, <2>1, <2>6 DEF Resolving, NextStep
    <3>2. \A t, r : Closed(t, "resolved", r) = e => t = e.id /\ r = s
      BY <3>1, ResolvesDiffer
    <3>3. todo'[s] # <<>> /\ todo'[s][1] = Do("apply", e)
      <4>1. todo'[s] = Tail(todo[s])
        BY <1>0, <2>1 DEF Advance
      <4>2. Tail(Record(e)) # <<>> /\ Tail(Record(e))[1] = Do("apply", e)
        BY DEF Record
      <4>. QED  BY <3>1, <4>1, <4>2
    <3>4. Flagged(todo'[s], s, resolvedOne, V)
      <4>1. ASSUME NEW t \in Ticket \ Research, Closed(t, "resolved", s) \in V
            PROVE  s \in resolvedOne \/ (todo'[s] # <<>> /\ todo'[s][1] = Do("apply", Closed(t, "resolved", s)))
        <5>1. CASE Closed(t, "resolved", s) \in W
          BY <2>3, <5>1
        <5>2. CASE Closed(t, "resolved", s) = e
          BY <3>3, <5>2
        <5>. QED  BY <4>1, <5>1, <5>2
      <4>. QED  BY <4>1 DEF Flagged
    <3>5. ASSUME NEW r \in Session \ {s}
          PROVE  Resolving(todo'[r], r, resolvedOne, V) /\ Flagged(todo'[r], r, resolvedOne, V)
      <4>1. \A t : Closed(t, "resolved", r) \in V <=> Closed(t, "resolved", r) \in W
        BY <3>2
      <4>. HIDE DEF V, W
      <4>. QED  BY <2>4, <4>1 DEF Resolving, Flagged
    <3>6. OneResolution'
      <4>1. ASSUME NEW r \in Session, NEW t \in Ticket \ Research, NEW u \in Ticket \ Research,
                   Closed(t, "resolved", r) \in V, Closed(u, "resolved", r) \in V
            PROVE  t = u
        <5>1. CASE Closed(t, "resolved", r) \in W /\ Closed(u, "resolved", r) \in W
          BY <5>1 DEF ResolveInv, OneResolution
        <5>2. CASE Closed(t, "resolved", r) = e
          BY <3>1, <3>2, <4>1, <5>2
        <5>3. CASE Closed(u, "resolved", r) = e
          BY <3>1, <3>2, <4>1, <5>3
        <5>. QED  BY <4>1, <5>1, <5>2, <5>3
      <4>. HIDE DEF V
      <4>. QED  BY <2>2, <4>1 DEF OneResolution
    <3>. HIDE DEF V, W
    <3>. QED  BY <2>1, <2>2, <2>4, <3>4, <3>5, <3>6 DEF ResolveInv
  <2>. QED  BY <2>5, <2>6
<1>. QED  BY <1>5, <1>6, <1>7 DEF RunStep

\* No write fails and no session dies.
Faultless == Mortal = {} \/ MaxFaults = 0

LEMMA ResolveStep ==
    ASSUME Inv, ResolveInv, [Next]_vars, Faultless
    PROVE  ResolveInv'
<1>1. ASSUME NEW s \in Session, WriteFails(s) \/ Crash(s) PROVE FALSE
  <2>1. s \in Mortal /\ faults < MaxFaults /\ faults \in 0..MaxFaults
    BY <1>1 DEF WriteFails, Crash, Inv, TypeOK
  <2>. QED  BY <2>1 DEF Faultless
<1>2. CASE Tick \/ UNCHANGED vars
  <2>1. journal' = journal /\ todo' = todo /\ resolvedOne' = resolvedOne
    BY <1>2 DEF Tick, vars
  <2>2. Steps(journal)' = Steps(journal)
    BY <2>1 DEF Steps
  <2>3. OneResolution'
    BY <2>2 DEF ResolveInv, OneResolution
  <2>. QED  BY <2>1, <2>2, <2>3 DEF ResolveInv
<1>. QED  BY <1>1, <1>2, ResolveToolCall, ResolveRunStep DEF Next

LEMMA OpeningCreates ==
    \A i \in 1..Len(Opening) : Opening[i] \in Creation
<1>. DEFINE n == Cardinality(Charted)
            created == [i \in 1..n |-> Event("ticket_created", SetToSeq(Charted)[i])]
            first == <<Event("map_created", None)>>
<1>1. Charted \in SUBSET Ticket /\ IsFiniteSet(Charted)
  BY CartographAssumption, FS_Subset
<1>2. n \in Nat /\ SetToSeq(Charted) \in [1..n -> Charted]
  BY <1>1, Numbered
<1>3. \A i \in 1..n : Event("ticket_created", SetToSeq(Charted)[i]) \in Creation
  BY <1>1, <1>2 DEF Creation
<1>4. created \in Seq(Creation)
  <2>. HIDE DEF n
  <2>. QED  BY <1>2, <1>3
<1>5. first \in Seq(Creation) /\ <<>> \in Seq(Creation)
  BY DEF Creation
<1>6. Opening = <<>> \/ Opening = first \o created
  BY DEF Opening
<1>. HIDE DEF created, first
<1>7. first \o created \in Seq(Creation)
  BY <1>4, <1>5
<1>8. Opening \in Seq(Creation)
  BY <1>5, <1>6, <1>7
<1>. QED  BY <1>8

\* Rule 20, from the journal's side: while no write fails, a session resolves
\* at most one ticket that is not research, whatever else is called in
\* between, rebuilds and charting runs included (ticket_resolve's
\* check_session_limit reads a flag that is set only once the resolution is
\* in the journal and the database).
THEOREM RuleTwentyKept ==
    ASSUME Faultless
    PROVE  Spec => []OneResolution
<1>1. Init => Inv /\ ResolveInv
  <2>. SUFFICES ASSUME Init PROVE Inv /\ ResolveInv
    OBVIOUS
  <2>1. Inv /\ journal = Opening /\ \A s \in Session : todo[s] = <<>>
    BY InitKeeps DEF Init
  <2>2. ASSUME NEW t, NEW s, Closed(t, "resolved", s) \in Steps(journal) PROVE FALSE
    <3>1. Closed(t, "resolved", s) \in Creation
      BY <2>1, <2>2, OpeningCreates DEF Steps
    <3>2. Closed(t, "resolved", s).kind = "ticket_updated"
      BY UpdateEvents
    <3>. QED  BY <3>1, <3>2, CreationKinds
  <2>3. \A i \in 1..Len(<<>>) : FALSE
    OBVIOUS
  <2>4. OneResolution
    BY <2>2 DEF OneResolution
  <2>5. \A s \in Session : /\ Resolving(<<>>, s, resolvedOne, Steps(journal))
                           /\ Flagged(<<>>, s, resolvedOne, Steps(journal))
    BY <2>2, <2>3 DEF Resolving, Flagged
  <2>. QED  BY <2>1, <2>4, <2>5 DEF ResolveInv
<1>2. Inv /\ ResolveInv /\ [Next]_vars => Inv' /\ ResolveInv'
  BY StepKeeps, ResolveStep
<1>3. ResolveInv => OneResolution
  BY DEF ResolveInv
<1>. QED  BY <1>1, <1>2, <1>3, PTL DEF Spec

-----------------------------------------------------------------------------
(* OneHolder: an unexpired claim is in the ticket's row, which names one    *)
(* session.  A rebuild in mid-claim, or two reapers with the same list, can *)
(* take it out again, hence the hypothesis.                                 *)

OneReaperNoRebuild == Callers["map_rebuild"] = {} /\ \A r, s \in Callers["reap_expired"] : r = s

Held(row, s, x) ==
    row.claimed_by = s /\ row.claimed_at + Lease = x /\ row.status \notin {"open", "absent"}

Expiring(row, now) == row.status \notin {"open", "absent"} /\ row.claimed_at + Lease <= now

\* A claim still to append is in its row.
Claiming(steps, s, d, now) ==
    \A i \in 1..Len(steps) :
        (steps[i].op = "append" /\ steps[i].ev.status = "claimed"
            /\ steps[i].ev.claimed_at + Lease > now)
        => Held(d.tickets[steps[i].ev.id], s, steps[i].ev.claimed_at + Lease)

\* No statement left writes a claim; one that reopens a ticket is a reaper's,
\* finds it expired, and comes once.
Reopening(steps, s, d, now) ==
    \A i \in 1..Len(steps) :
        /\ steps[i].op # "replay"
        /\ steps[i].op = "apply" => steps[i].ev.status # "claimed"
        /\ steps[i].op = "apply" /\ steps[i].ev.status = "open" =>
              /\ s \in Callers["reap_expired"]
              /\ Expiring(d.tickets[steps[i].ev.id], now)
              /\ \A j \in 1..Len(steps) : steps[j] = steps[i] => j = i

HolderInv ==
    /\ \A s \in Session, t \in Ticket : lease[s][t] > clock => Held(db.tickets[t], s, lease[s][t])
    /\ \A s \in Session : Claiming(todo[s], s, db, clock) /\ Reopening(todo[s], s, db, clock)

\* Which events carry which status.
LEMMA StatusKinds ==
    ASSUME NEW e \in Written
    PROVE  /\ e.status = "claimed" => e.id \in Ticket /\ e.kind = "ticket_updated"
           /\ e.status = "open" => e.id \in Ticket /\ e = Reopened(e.id)
           /\ e.kind = "ticket_updated" =>
                 \/ e.status \in Terminal /\ e.claimed_by = None /\ e.claimed_at = 0
                    /\ e.release_claim = FALSE
                 \/ e.status \in {"claimed", "open"}
<1>0. None \notin {"claimed", "open"}
  BY NoneIsNoStatus DEF TicketStatus
<1>1. \A k, x : Event(k, x).status = None
  BY DEF Event
<1>2. \A t, u : EdgeAdded(t, u).status = None
  BY DEF Event, EdgeAdded
<1>3. "claimed" \notin Terminal /\ "open" \notin Terminal
  BY DEF Terminal
<1>4. CASE \E t \in Ticket, status \in Terminal, by \in Session \cup {None} : e = Closed(t, status, by)
  BY <1>3, <1>4, UpdateEvents
<1>5. CASE \E t \in Ticket, s \in Session, n \in Nat : e = Claimed(t, s, n)
  BY <1>5, UpdateEvents
<1>6. CASE \E t \in Ticket : e = Reopened(t)
  BY <1>6, UpdateEvents
<1>7. CASE e.status = None /\ e.kind # "ticket_updated"
  BY <1>0, <1>7
<1>8. ASSUME NEW k \in {"map_created", "ticket_created", "fog_added", "fog_graduated",
                        "scope_exclusion_added"}, NEW x, e = Event(k, x)
      PROVE  e.status = None /\ e.kind # "ticket_updated"
  <2>1. e.status = None /\ e.kind = k
    BY <1>1, <1>8, EventsDiffer
  <2>. QED  BY <2>1
<1>9. ASSUME NEW t, NEW u, e = EdgeAdded(t, u)
      PROVE  e.status = None /\ e.kind # "ticket_updated"
  <2>1. e.status = None /\ e.kind = "edge_added"
    BY <1>2, <1>9, EventsDiffer
  <2>. QED  BY <2>1
<1>10. \/ \E t \in Ticket, status \in Terminal, by \in Session \cup {None} : e = Closed(t, status, by)
       \/ \E t \in Ticket, s \in Session, n \in Nat : e = Claimed(t, s, n)
       \/ \E t \in Ticket : e = Reopened(t)
       \/ \E k \in {"map_created", "ticket_created", "fog_added", "fog_graduated",
                    "scope_exclusion_added"} : \E x : e = Event(k, x)
       \/ \E t, u : e = EdgeAdded(t, u)
  BY DEF Written
<1>11. CASE \/ \E k \in {"map_created", "ticket_created", "fog_added", "fog_graduated",
                         "scope_exclusion_added"} : \E x : e = Event(k, x)
            \/ \E t, u : e = EdgeAdded(t, u)
  <2>1. e.status = None /\ e.kind # "ticket_updated"
    BY <1>8, <1>9, <1>11
  <2>. QED  BY <1>7, <2>1
<1>. QED  BY <1>4, <1>5, <1>6, <1>10, <1>11

\* A statement that neither claims a ticket nor reopens it leaves who holds
\* it, and until when.
LEMMA RowKeepsHolder ==
    ASSUME NEW d \in Db, NEW e \in Written, CanApply(d, e), e.status # "claimed", NEW t \in Ticket,
           e.status = "open" => e.id # t
    PROVE  /\ \A s, x : Held(d.tickets[t], s, x) => Held(Apply(d, e).tickets[t], s, x)
           /\ \A now : Expiring(d.tickets[t], now) => Expiring(Apply(d, e).tickets[t], now)
<1>. DEFINE row == d.tickets[t]
            new == Apply(d, e).tickets[t]
<1>0. row \in TicketRow
  BY DEF Db
<1>1. CASE new = row
  BY <1>1
<1>2. CASE row.status = "absent"
  BY <1>2 DEF Held, Expiring
<1>3. CASE /\ new.claimed_by = row.claimed_by /\ new.claimed_at = row.claimed_at
           /\ new.status \notin {"open", "absent"}
  BY <1>3 DEF Held, Expiring
<1>4. CASE e.id \in Ticket /\ e.kind = "ticket_updated"
  <2>1. CASE ~Exists(d, e.id)
    BY <1>1, <1>4, <2>1 DEF Apply
  <2>2. CASE Exists(d, e.id)
    <3>1. Apply(d, e) = [d EXCEPT !.tickets[e.id] = UpdateRow(@, e)]
      BY <1>4, <2>2 DEF Apply
    <3>2. /\ Apply(d, e).tickets[e.id] = UpdateRow(d.tickets[e.id], e)
          /\ t # e.id => new = row
      BY <1>4, <3>1 DEF Db
    <3>3. CASE t = e.id
      <4>1. /\ e.status \in Terminal /\ e.claimed_by = None /\ e.claimed_at = 0
            /\ e.release_claim = FALSE
        BY <1>4, <3>3, StatusKinds
      <4>2. e.status # None /\ e.status \notin {"open", "absent"}
        BY <4>1, NoneIsNoStatus DEF Terminal, TicketStatus
      <4>3. new = UpdateRow(row, e)
        BY <3>2, <3>3
      <4>4. /\ new.claimed_by = row.claimed_by /\ new.claimed_at = row.claimed_at
            /\ new.status = e.status
        BY <4>1, <4>2, <4>3 DEF UpdateRow, Coalesce
      <4>. QED  BY <1>3, <4>2, <4>4
    <3>. QED  BY <1>1, <3>2, <3>3
  <2>. QED  BY <2>1, <2>2
<1>5. CASE e.id \in Ticket /\ e = Event("ticket_created", e.id)
  <2>1. e.kind = "ticket_created"
    BY <1>5, EventsDiffer
  <2>2. ~Exists(d, e.id) /\ Apply(d, e) = [d EXCEPT !.tickets[e.id] = NewTicket]
    BY <2>1 DEF CanApply, Apply
  <2>3. t # e.id => new = row
    BY <1>5, <2>2 DEF Db
  <2>. QED  BY <1>1, <1>2, <2>2, <2>3 DEF Exists
<1>6. CASE e.kind \in {"map_created", "edge_added", "fog_added", "fog_graduated",
                       "scope_exclusion_added"}
  <2>1. Apply(d, e).tickets = d.tickets
    BY <1>6 DEF Apply, Db
  <2>. QED  BY <1>1, <2>1
<1>. QED  BY <1>4, <1>5, <1>6, WrittenKinds, EventsDiffer

\* No statement of a program comes twice.
Once(steps) ==
    \A i, j \in 1..Len(steps) : steps[i].op = "apply" /\ steps[j] = steps[i] => j = i

LEMMA OnceAppended ==
    ASSUME NEW S, NEW a \in Seq(S), NEW e, Record(e) \in Seq(S), Once(a),
           \A i \in 1..Len(a) : a[i].ev # e
    PROVE  /\ Once(a \o Record(e))
           /\ \A i \in 1..Len(a \o Record(e)) :
                 (a \o Record(e))[i].ev = e \/ \E k \in 1..Len(a) : (a \o Record(e))[i] = a[k]
<1>. DEFINE b == Record(e)
            c == a \o b
<1>1. /\ Len(b) = 2 /\ b[1].op = "append" /\ b[1].ev = e /\ b[2].op = "apply" /\ b[2].ev = e
  BY RecordSteps
<1>. HIDE DEF b
<1>2. /\ Len(a) \in Nat /\ Len(c) = Len(a) + Len(b)
      /\ \A i \in 1..(Len(a) + Len(b)) : c[i] = IF i <= Len(a) THEN a[i] ELSE b[i - Len(a)]
  BY DEF b
<1>. HIDE DEF c
<1>3. /\ Len(c) = Len(a) + 2 /\ \A i \in 1..Len(a) : c[i] = a[i] /\ i \in 1..Len(c)
      /\ c[Len(a) + 1] = b[1] /\ c[Len(a) + 2] = b[2]
  BY <1>1, <1>2
<1>4. \A i \in 1..Len(c) : i \in 1..Len(a) \/ i = Len(a) + 1 \/ i = Len(a) + 2
  BY <1>2, <1>3
<1>5. \A i \in 1..Len(c) : c[i].ev = e \/ \E k \in 1..Len(a) : c[i] = a[k]
  BY <1>1, <1>3, <1>4
<1>6. ASSUME NEW i \in 1..Len(c), NEW j \in 1..Len(c), c[i].op = "apply", c[j] = c[i] PROVE j = i
  <2>1. CASE i \in 1..Len(a)
    <3>1. c[i].ev # e
      BY <1>3, <2>1
    <3>2. j \in 1..Len(a)
      BY <1>1, <1>3, <1>4, <1>6, <3>1
    <3>. QED  BY <1>3, <1>6, <2>1, <3>2 DEF Once
  <2>2. CASE i = Len(a) + 1
    BY <1>1, <1>3, <1>6, <2>2
  <2>3. CASE i = Len(a) + 2
    <3>1. c[i].ev = e
      BY <1>1, <1>3, <2>3
    <3>2. j \notin 1..Len(a)
      BY <1>3, <1>6, <3>1
    <3>3. j # Len(a) + 1
      BY <1>1, <1>3, <1>6
    <3>. QED  BY <1>4, <2>3, <3>2, <3>3
  <2>. QED  BY <1>4, <2>1, <2>2, <2>3
<1>. QED  BY <1>5, <1>6 DEF Once, c, b

\* A reaper reopens each ticket of its list once.
LEMMA ReopenedOnce ==
    ASSUME NEW n \in Nat, NEW f, \A i \in 1..n : f[i] \in Ticket,
           \A i, j \in 1..n : f[i] = f[j] => i = j
    PROVE  Once(FlattenSeq([i \in 1..n |-> Record(Reopened(f[i]))]))
<1>. DEFINE seqs == [i \in 1..n |-> Record(Reopened(f[i]))]
<1>1. \A i \in 1..n : Record(Reopened(f[i])) \in Seq(WrittenStep)
  BY UpdateEvents, RecordPaired
<1>2. seqs \in Seq(Seq(WrittenStep)) /\ Len(seqs) = n /\ \A i \in 1..n : seqs[i] = Record(Reopened(f[i]))
  BY <1>1
<1>. HIDE DEF seqs
<1>3. ASSUME NEW i \in 1..n, NEW j \in 1..n, Reopened(f[i]) = Reopened(f[j]) PROVE i = j
  <2>1. Reopened(f[i]).id = f[i] /\ Reopened(f[j]).id = f[j]
    BY UpdateEvents
  <2>. QED  BY <1>3, <2>1
<1>4. CASE n = 0
  <2>1. seqs = <<>> /\ FlattenSeq(seqs) = seqs
    BY <1>2, <1>4 DEF FlattenSeq
  <2>2. \A i \in 1..Len(<<>>) : FALSE
    OBVIOUS
  <2>3. Once(<<>>)
    BY <2>2 DEF Once
  <2>. QED  BY <2>1, <2>3 DEF seqs
<1>5. CASE n # 0
  <2>1. PICK g : /\ FlattenSeq(seqs) = g[Len(seqs)] /\ g[1] = seqs[1]
                 /\ \A i \in 2..Len(seqs) : g[i] = g[i - 1] \o seqs[i]
    BY <1>2, <1>5, FlattenSteps
  <2>. DEFINE Good(k) == /\ g[k] \in Seq(WrittenStep) /\ Once(g[k])
                         /\ \A i \in 1..Len(g[k]) : \E m \in 1..k : g[k][i].ev = Reopened(f[m])
              T == {k \in 0..n : k = 0 \/ Good(k)}
  <2>2. ASSUME NEW k \in 1..n, k - 1 \in T PROVE Good(k)
    <3>1. CASE k = 1
      <4>1. g[k] = Record(Reopened(f[k])) /\ g[k] \in Seq(WrittenStep)
        BY <1>1, <1>2, <2>1, <3>1
      <4>2. Len(g[k]) = 2 /\ g[k][1].op = "append" /\ g[k][2].op = "apply"
            /\ \A i \in 1..2 : g[k][i].ev = Reopened(f[k]) /\ (i = 1 \/ i = 2)
        BY <4>1, RecordSteps
      <4>3. Once(g[k])
        BY <4>2 DEF Once
      <4>4. k \in 1..k
        BY <3>1
      <4>. QED  BY <4>1, <4>2, <4>3, <4>4
    <3>2. CASE k # 1
      <4>1. k \in 2..Len(seqs) /\ k - 1 # 0 /\ k - 1 \in Nat /\ k \in 1..k
            /\ \A m \in 1..(k - 1) : m \in 1..n /\ m # k /\ m \in 1..k
        BY <1>2, <3>2
      <4>2. Good(k - 1)
        BY <2>2, <4>1
      <4>3. g[k] = g[k - 1] \o Record(Reopened(f[k])) /\ Record(Reopened(f[k])) \in Seq(WrittenStep)
        BY <1>1, <1>2, <2>1, <4>1
      <4>4. \A i \in 1..Len(g[k - 1]) : g[k - 1][i].ev # Reopened(f[k])
        BY <1>3, <4>1, <4>2
      <4>5. /\ Once(g[k - 1] \o Record(Reopened(f[k])))
            /\ \A i \in 1..Len(g[k - 1] \o Record(Reopened(f[k]))) :
                  \/ (g[k - 1] \o Record(Reopened(f[k])))[i].ev = Reopened(f[k])
                  \/ \E j \in 1..Len(g[k - 1]) : (g[k - 1] \o Record(Reopened(f[k])))[i] = g[k - 1][j]
        <5>. DEFINE a == g[k - 1]
                    e == Reopened(f[k])
        <5>1. /\ a \in Seq(WrittenStep) /\ Once(a) /\ Record(e) \in Seq(WrittenStep)
              /\ \A i \in 1..Len(a) : a[i].ev # e
          BY <4>2, <4>3, <4>4
        <5>. HIDE DEF a, e
        <5>2. /\ Once(a \o Record(e))
              /\ \A i \in 1..Len(a \o Record(e)) :
                    (a \o Record(e))[i].ev = e \/ \E j \in 1..Len(a) : (a \o Record(e))[i] = a[j]
          BY <5>1, OnceAppended
        <5>. QED  BY <5>2 DEF a, e
      <4>6. g[k - 1] \o Record(Reopened(f[k])) \in Seq(WrittenStep)
        <5>1. g[k - 1] \in Seq(WrittenStep)
          BY <4>2
        <5>. QED  BY <4>3, <5>1
      <4>7. \A i \in 1..Len(g[k]) : g[k][i].ev = Reopened(f[k])
                                     \/ \E j \in 1..Len(g[k - 1]) : g[k][i] = g[k - 1][j]
        BY <4>3, <4>5
      <4>8. ASSUME NEW i \in 1..Len(g[k]) PROVE \E m \in 1..k : g[k][i].ev = Reopened(f[m])
        <5>1. CASE g[k][i].ev = Reopened(f[k])
          BY <4>1, <5>1
        <5>2. ASSUME NEW j \in 1..Len(g[k - 1]), g[k][i] = g[k - 1][j]
              PROVE  \E m \in 1..k : g[k][i].ev = Reopened(f[m])
          <6>1. PICK m \in 1..(k - 1) : g[k - 1][j].ev = Reopened(f[m])
            BY <4>2
          <6>. QED  BY <4>1, <5>2, <6>1
        <5>. QED  BY <4>7, <5>1, <5>2
      <4>. QED  BY <4>3, <4>5, <4>6, <4>8
    <3>. QED  BY <3>1, <3>2
  <2>3. Good(n)
    <3>1. 0 \in T /\ n \in 0..n
      OBVIOUS
    <3>2. \A k \in 1..n : k - 1 \in T => k \in T
      <4>1. \A k \in 1..n : k \in 0..n
        OBVIOUS
      <4>. QED  BY <2>2, <4>1
    <3>3. \A k \in 0..n : k \in T
      <4>. HIDE DEF T
      <4>. QED  BY <3>1, <3>2, UpTo
    <3>. QED  BY <1>5, <3>1, <3>3
  <2>. QED  BY <1>2, <2>1, <2>3 DEF seqs
<1>. QED  BY <1>4, <1>5

LEMMA TailHolder ==
    ASSUME NEW steps \in Seq(WrittenStep), steps # <<>>, NEW s, NEW d, NEW now,
           Claiming(steps, s, d, now), Reopening(steps, s, d, now)
    PROVE  /\ Claiming(Tail(steps), s, d, now) /\ Reopening(Tail(steps), s, d, now)
           /\ steps[1].op = "apply" /\ steps[1].ev.status = "open" =>
                 \A i \in 1..Len(Tail(steps)) : Tail(steps)[i] # steps[1]
<1>1. \A i \in 1..Len(Tail(steps)) : /\ i + 1 \in 1..Len(steps) /\ i + 1 # 1
                                     /\ Tail(steps)[i] = steps[i + 1]
  <2>1. \A i \in 1..Len(Tail(steps)) : i + 1 \in 2..Len(steps) /\ Tail(steps)[i] = steps[i + 1]
    BY TailOf
  <2>. QED  BY <2>1
<1>2. \A i, j \in 1..Len(Tail(steps)) : i + 1 = j + 1 => i = j
  OBVIOUS
<1>3. Claiming(Tail(steps), s, d, now)
  BY <1>1 DEF Claiming
<1>4. Reopening(Tail(steps), s, d, now)
  BY <1>1, <1>2 DEF Reopening
<1>5. ASSUME NEW i \in 1..Len(Tail(steps)), steps[1].op = "apply", steps[1].ev.status = "open",
             Tail(steps)[i] = steps[1]
      PROVE  FALSE
  <2>1. 1 \in 1..Len(steps)
    BY <1>1
  <2>. QED  BY <1>1, <1>5, <2>1 DEF Reopening
<1>. QED  BY <1>3, <1>4, <1>5

\* A call that leaves the database, the leases and the clock alone.
LEMMA HolderCall ==
    ASSUME Inv, HolderInv, NEW s \in Session, NEW steps, todo' = [todo EXCEPT ![s] = steps],
           db' = db, lease' = lease, clock' = clock,
           Claiming(steps, s, db, clock), Reopening(steps, s, db, clock)
    PROVE  HolderInv'
<1>1. todo'[s] = steps /\ \A r \in Session \ {s} : todo'[r] = todo[r]
  BY DEF Inv
<1>2. \A r \in Session : Claiming(todo'[r], r, db, clock) /\ Reopening(todo'[r], r, db, clock)
  BY <1>1 DEF HolderInv
<1>3. \A r \in Session, t \in Ticket : lease[r][t] > clock => Held(db.tickets[t], r, lease[r][t])
  BY DEF HolderInv
<1>. QED  BY <1>2, <1>3 DEF HolderInv

LEMMA HolderToolCall ==
    ASSUME Inv, HolderInv, NEW s \in Session, ToolCall(s), OneReaperNoRebuild
    PROVE  HolderInv'
<1>. DEFINE S == {st \in WrittenStep : st.op # "replay" /\ st.ev.status \notin {"claimed", "open"}}
            R == {Do(op, Reopened(t)) : op \in {"append", "apply"}, t \in Expired}
<1>0. db \in Db /\ clock \in Nat /\ Lease \in Nat \ {0}
  BY CartographAssumption DEF Inv, TypeOK
<1>1. ASSUME NEW tool, NEW steps \in Seq(S), Call(tool, s, steps), db' = db PROVE HolderInv'
  <2>1. \A i \in 1..Len(steps) : steps[i] \in S
    OBVIOUS
  <2>2. Claiming(steps, s, db, clock) /\ Reopening(steps, s, db, clock)
    BY <2>1 DEF Claiming, Reopening
  <2>. QED  BY <1>1, <2>2, HolderCall DEF Call
<1>2. ASSUME NEW e \in Written, Everyday(e)
      PROVE  Do("check", e) \in S /\ Do("append", e) \in S /\ Do("apply", e) \in S
  <2>1. e.status # "claimed"
    BY <1>2, StatusKinds DEF Everyday
  <2>2. e.status # "open"
    <3>1. \A t : Reopened(t).kind = "ticket_updated"
      BY UpdateEvents
    <3>. QED  BY <1>2, <3>1, StatusKinds DEF Everyday
  <2>3. \A op \in StepOp : Do(op, e) \in WrittenStep /\ Do(op, e).op = op /\ Do(op, e).ev = e
    BY DoTypes
  <2>. QED  BY <2>1, <2>2, <2>3 DEF StepOp
<1>3. ASSUME NEW t \in Ticket, TicketClaim(s, t) PROVE HolderInv'
  <2>. DEFINE e == Claimed(t, s, clock)
              steps == <<Do("append", e)>>
  <2>1. /\ db.tickets[t].status = "open" /\ db' = WithClaim(db, t, s, clock)
        /\ todo' = [todo EXCEPT ![s] = steps] /\ lease' = lease /\ clock' = clock
    BY <1>3 DEF TicketClaim, WithClaim, Call
  <2>2. /\ db'.tickets[t].status = "claimed" /\ db'.tickets[t].claimed_by = s
        /\ db'.tickets[t].claimed_at = clock
        /\ \A u \in Ticket \ {t} : db'.tickets[u] = db.tickets[u]
    BY <1>0, <2>1, ClaimedRow
  <2>3. \A r, x : ~Held(db.tickets[t], r, x)
    BY <2>1 DEF Held
  <2>4. \A now : ~Expiring(db.tickets[t], now)
    BY <2>1 DEF Expiring
  <2>5. ASSUME NEW r \in Session, NEW u \in Ticket, lease[r][u] > clock
        PROVE  Held(db'.tickets[u], r, lease[r][u])
    BY <2>2, <2>3, <2>5 DEF HolderInv
  <2>6. ASSUME NEW r \in Session
        PROVE  Claiming(todo[r], r, db', clock) /\ Reopening(todo[r], r, db', clock)
    <3>1. Claiming(todo[r], r, db, clock) /\ Reopening(todo[r], r, db, clock)
      BY DEF HolderInv
    <3>2. \A i \in 1..Len(todo[r]) :
             /\ todo[r][i] \in WrittenStep
             /\ todo[r][i].ev.status \in {"claimed", "open"} => todo[r][i].ev.id \in Ticket
      <4>1. \A i \in 1..Len(todo[r]) : todo[r][i] \in WrittenStep
        BY DEF Inv
      <4>2. \A st \in WrittenStep : st.ev \in Written
        BY DEF WrittenStep
      <4>. QED  BY <4>1, <4>2, StatusKinds
    <3>3. Claiming(todo[r], r, db', clock)
      BY <2>2, <2>3, <3>1, <3>2 DEF Claiming
    <3>4. Reopening(todo[r], r, db', clock)
      BY <2>2, <2>4, <3>1, <3>2 DEF Reopening
    <3>. QED  BY <3>3, <3>4
  <2>7. Claiming(steps, s, db', clock) /\ Reopening(steps, s, db', clock)
    <3>1. /\ Len(steps) = 1 /\ steps[1].op = "append" /\ steps[1].ev = e
          /\ \A i \in 1..1 : i = 1
      BY DEF Do
    <3>2. e.id = t /\ e.claimed_at = clock
      BY UpdateEvents
    <3>3. Held(db'.tickets[t], s, clock + Lease)
      BY <2>2 DEF Held
    <3>. HIDE DEF steps, e
    <3>4. Claiming(steps, s, db', clock)
      BY <3>1, <3>2, <3>3 DEF Claiming
    <3>5. Reopening(steps, s, db', clock)
      BY <3>1 DEF Reopening
    <3>. QED  BY <3>4, <3>5
  <2>8. todo'[s] = steps /\ \A r \in Session \ {s} : todo'[r] = todo[r]
    BY <2>1 DEF Inv
  <2>. HIDE DEF steps
  <2>9. \A r \in Session : Claiming(todo'[r], r, db', clock) /\ Reopening(todo'[r], r, db', clock)
    BY <2>6, <2>7, <2>8
  <2>. QED  BY <2>1, <2>5, <2>9 DEF HolderInv
<1>4. ASSUME NEW t \in Ticket, TicketResolve(s, t) PROVE HolderInv'
  <2>1. Closed(t, "resolved", s) \in Written /\ Closed(t, "resolved", s).status = "resolved"
    BY UpdateEvents DEF Terminal
  <2>2. \A op \in StepOp : /\ Do(op, Closed(t, "resolved", s)) \in WrittenStep
                           /\ Do(op, Closed(t, "resolved", s)).op = op
                           /\ Do(op, Closed(t, "resolved", s)).ev = Closed(t, "resolved", s)
    BY <2>1, DoTypes
  <2>3. Do("append", Closed(t, "resolved", s)) \in S /\ Do("apply", Closed(t, "resolved", s)) \in S
    BY <2>1, <2>2 DEF StepOp
  <2>4. Record(Closed(t, "resolved", s)) \in Seq(S)
    <3>. HIDE DEF S
    <3>. QED  BY <2>3, RecordOver
  <2>5. Call("ticket_resolve", s, Record(Closed(t, "resolved", s))) /\ db' = db
    BY <1>4 DEF TicketResolve
  <2>. QED  BY <1>1, <2>4, <2>5
<1>5. CASE ReapExpired(s)
  <2>1. PICK steps : /\ steps \in Seq(R) /\ Call("reap_expired", s, steps) /\ db' = db
                     /\ \E n \in Nat : \E f :
                            /\ \A i \in 1..n : f[i] \in Ticket
                            /\ \A i, j \in 1..n : f[i] = f[j] => i = j
                            /\ steps = FlattenSeq([i \in 1..n |-> Record(Reopened(f[i]))])
    <3>1. \A t \in Expired : Do("append", Reopened(t)) \in R /\ Do("apply", Reopened(t)) \in R
      OBVIOUS
    <3>. HIDE DEF R
    <3>. QED  BY <1>5, <3>1, ReapSteps
  <2>2. Once(steps)
    BY <2>1, ReopenedOnce
  <2>3. s \in Callers["reap_expired"]
    BY <2>1 DEF Call
  <2>4. ASSUME NEW i \in 1..Len(steps)
        PROVE  /\ steps[i].op \in {"append", "apply"} /\ steps[i].ev.status = "open"
               /\ Expiring(db.tickets[steps[i].ev.id], clock)
    <3>1. steps[i] \in R
      <4>1. steps \in Seq(R)
        BY <2>1
      <4>. HIDE DEF R
      <4>. QED  BY <4>1
    <3>2. PICK op \in {"append", "apply"}, t \in Expired : steps[i] = Do(op, Reopened(t))
      BY <3>1
    <3>3. steps[i].op = op /\ steps[i].ev = Reopened(t)
      BY <3>2 DEF Do
    <3>4. Reopened(t).status = "open" /\ Reopened(t).id = t
      BY UpdateEvents
    <3>5. db.tickets[t].status = "claimed" /\ db.tickets[t].claimed_at + Lease <= clock
      BY DEF Expired
    <3>. QED  BY <3>3, <3>4, <3>5 DEF Expiring
  <2>5. Claiming(steps, s, db, clock)
    BY <2>4 DEF Claiming
  <2>6. Reopening(steps, s, db, clock)
    BY <2>2, <2>3, <2>4 DEF Reopening, Once
  <2>. QED  BY <2>1, <2>5, <2>6, HolderCall DEF Call
<1>6. ~MapRebuild(s)
  BY DEF OneReaperNoRebuild, MapRebuild
<1>7. TRUE \in BOOLEAN
  OBVIOUS
<1>. HIDE DEF S, R
<1>. QED  BY <1>1, <1>2, <1>3, <1>4, <1>5, <1>6, <1>7, CallSteps

\* Who holds what when a statement is carried out.
LEMMA HolderApply ==
    ASSUME Inv, HolderInv, NEW s \in Session, todo[s] # <<>>, NextStep(s).op = "apply",
           CanApply(db, NextStep(s).ev), db' = Apply(db, NextStep(s).ev), Advance(s),
           lease' = lease, clock' = clock, OneReaperNoRebuild
    PROVE  HolderInv'
<1>. DEFINE e == NextStep(s).ev
            d == Apply(db, e)
<1>0. /\ db \in Db /\ clock \in Nat /\ Lease \in Nat
      /\ todo \in [Session -> Seq(WrittenStep)] /\ todo[s] \in Seq(WrittenStep)
      /\ lease \in [Session -> [Ticket -> Nat]]
  BY CartographAssumption DEF Inv, TypeOK
<1>1. NextStep(s) \in WrittenStep /\ NextStep(s) = todo[s][1] /\ 1 \in 1..Len(todo[s])
  <2>1. NextStep(s) \in WrittenStep /\ Len(todo[s]) \in Nat \ {0}
    BY <1>0, TailOf DEF NextStep
  <2>. QED  BY <2>1 DEF NextStep
<1>2. e \in Written /\ NextStep(s) = Do("apply", e)
  BY <1>1 DEF WrittenStep, Do
<1>3. /\ e.status # "claimed"
      /\ e.status = "open" => /\ s \in Callers["reap_expired"] /\ e = Reopened(e.id) /\ e.id \in Ticket
                              /\ Expiring(db.tickets[e.id], clock)
  <2>1. Reopening(todo[s], s, db, clock)
    BY DEF HolderInv
  <2>2. /\ e.status # "claimed"
        /\ e.status = "open" => s \in Callers["reap_expired"] /\ Expiring(db.tickets[e.id], clock)
    BY <1>1, <2>1 DEF Reopening
  <2>. QED  BY <1>2, <2>2, StatusKinds
<1>4. ASSUME NEW t \in Ticket, e.status = "open" => e.id # t
      PROVE  /\ \A r, x : Held(db.tickets[t], r, x) => Held(d.tickets[t], r, x)
             /\ \A now : Expiring(db.tickets[t], now) => Expiring(d.tickets[t], now)
  BY <1>0, <1>2, <1>3, <1>4, RowKeepsHolder
<1>5. ASSUME NEW t \in Ticket, NEW r, NEW x \in Nat, Held(db.tickets[t], r, x), x > clock
      PROVE  Held(d.tickets[t], r, x)
  <2>1. CASE e.status = "open" /\ e.id = t
    <3>1. Expiring(db.tickets[t], clock)
      BY <1>3, <2>1
    <3>2. db.tickets[t].claimed_at + Lease <= clock /\ db.tickets[t].claimed_at + Lease = x
      BY <1>5, <3>1 DEF Held, Expiring
    <3>. QED  BY <1>0, <1>5, <3>2
  <2>. QED  BY <1>4, <1>5, <2>1
<1>6. \A r \in Session, t \in Ticket : lease[r][t] > clock => Held(d.tickets[t], r, lease[r][t])
  BY <1>0, <1>5 DEF HolderInv
<1>7. todo'[s] = Tail(todo[s]) /\ \A r \in Session \ {s} : todo'[r] = todo[r]
  BY <1>0 DEF Advance
<1>8. ASSUME NEW r \in Session
      PROVE  /\ todo'[r] \in Seq(WrittenStep)
             /\ Claiming(todo'[r], r, db, clock) /\ Reopening(todo'[r], r, db, clock)
             /\ e.status = "open" /\ r \in Callers["reap_expired"] =>
                   \A i \in 1..Len(todo'[r]) : todo'[r][i] # Do("apply", e)
  <2>1. Claiming(todo[r], r, db, clock) /\ Reopening(todo[r], r, db, clock)
    BY DEF HolderInv
  <2>2. CASE r = s
    <3>1. /\ Claiming(Tail(todo[s]), s, db, clock) /\ Reopening(Tail(todo[s]), s, db, clock)
          /\ todo[s][1].op = "apply" /\ todo[s][1].ev.status = "open" =>
                \A i \in 1..Len(Tail(todo[s])) : Tail(todo[s])[i] # todo[s][1]
      BY <1>0, <2>1, <2>2, TailHolder
    <3>2. Tail(todo[s]) \in Seq(WrittenStep)
      BY <1>0, TailOf
    <3>. QED  BY <1>1, <1>2, <1>7, <2>2, <3>1, <3>2
  <2>3. CASE r # s
    <3>1. e.status = "open" => r \notin Callers["reap_expired"]
      BY <1>3, <2>3 DEF OneReaperNoRebuild
    <3>2. todo'[r] = todo[r] /\ todo[r] \in Seq(WrittenStep)
      BY <1>0, <1>7, <2>3
    <3>. QED  BY <2>1, <3>1, <3>2
  <2>. QED  BY <2>2, <2>3
<1>9. ASSUME NEW r \in Session
      PROVE  Claiming(todo'[r], r, d, clock) /\ Reopening(todo'[r], r, d, clock)
  <2>. DEFINE steps == todo'[r]
  <2>1. /\ steps \in Seq(WrittenStep)
        /\ Claiming(steps, r, db, clock) /\ Reopening(steps, r, db, clock)
        /\ e.status = "open" /\ r \in Callers["reap_expired"] =>
              \A i \in 1..Len(steps) : steps[i] # Do("apply", e)
    BY <1>8
  <2>. HIDE DEF steps, d, e
  <2>2. ASSUME NEW i \in 1..Len(steps)
        PROVE  steps[i] \in WrittenStep /\ steps[i].ev \in Written /\ steps[i].ev.claimed_at \in Nat
    <3>1. steps[i] \in WrittenStep
      BY <2>1
    <3>2. steps[i].ev \in Written
      BY <3>1 DEF WrittenStep
    <3>3. steps[i].ev \in JournalEvent
      BY <3>2, WrittenKinds
    <3>. QED  BY <3>1, <3>2, <3>3 DEF JournalEvent
  <2>3. Claiming(steps, r, d, clock)
    <3>1. ASSUME NEW i \in 1..Len(steps), steps[i].op = "append", steps[i].ev.status = "claimed",
                 steps[i].ev.claimed_at + Lease > clock
          PROVE  Held(d.tickets[steps[i].ev.id], r, steps[i].ev.claimed_at + Lease)
      <4>1. Held(db.tickets[steps[i].ev.id], r, steps[i].ev.claimed_at + Lease)
        BY <2>1, <3>1 DEF Claiming
      <4>2. steps[i].ev.id \in Ticket
        BY <2>2, <3>1, StatusKinds
      <4>3. steps[i].ev.claimed_at + Lease \in Nat
        BY <1>0, <2>2
      <4>. QED  BY <1>5, <3>1, <4>1, <4>2, <4>3
    <3>. QED  BY <3>1 DEF Claiming
  <2>4. Reopening(steps, r, d, clock)
    <3>1. ASSUME NEW i \in 1..Len(steps), steps[i].op = "apply", steps[i].ev.status = "open"
          PROVE  Expiring(d.tickets[steps[i].ev.id], clock)
      <4>1. /\ r \in Callers["reap_expired"] /\ Expiring(db.tickets[steps[i].ev.id], clock)
        BY <2>1, <3>1 DEF Reopening
      <4>2. steps[i].ev.id \in Ticket /\ steps[i].ev = Reopened(steps[i].ev.id)
        BY <2>2, <3>1, StatusKinds
      <4>3. CASE e.status = "open" /\ e.id = steps[i].ev.id
        <5>1. steps[i].ev = e
          BY <1>3, <4>2, <4>3
        <5>2. steps[i] = Do("apply", e)
          BY <2>2, <3>1, <5>1 DEF WrittenStep, Do
        <5>. QED  BY <2>1, <4>1, <4>3, <5>2
      <4>. QED  BY <1>4, <4>1, <4>2, <4>3
    <3>. QED  BY <2>1, <3>1 DEF Reopening
  <2>. QED  BY <2>3, <2>4 DEF steps
<1>. QED  BY <1>6, <1>9 DEF HolderInv

LEMMA HolderRunStep ==
    ASSUME Inv, HolderInv, NEW s \in Session, RunStep(s), OneReaperNoRebuild
    PROVE  HolderInv'
<1>. DEFINE e == NextStep(s).ev
<1>0. /\ todo \in [Session -> Seq(WrittenStep)] /\ todo[s] \in Seq(WrittenStep)
      /\ Claiming(todo[s], s, db, clock) /\ Reopening(todo[s], s, db, clock)
      /\ lease \in [Session -> [Ticket -> Nat]]
  BY DEF Inv, TypeOK, HolderInv
<1>1. todo[s] # <<>>
  BY DEF RunStep, CheckEdge, AppendLine, ApplyStatement
<1>2. 1 \in 1..Len(todo[s]) /\ NextStep(s) = todo[s][1]
  <2>1. Len(todo[s]) \in Nat \ {0}
    BY <1>0, <1>1, TailOf
  <2>. QED  BY <2>1 DEF NextStep
<1>3. ASSUME Advance(s) \/ Abandon(s)
      PROVE  \E rest : /\ todo' = [todo EXCEPT ![s] = rest]
                       /\ Claiming(rest, s, db, clock) /\ Reopening(rest, s, db, clock)
  <2>1. Claiming(Tail(todo[s]), s, db, clock) /\ Reopening(Tail(todo[s]), s, db, clock)
    BY <1>0, <1>1, TailHolder
  <2>2. Claiming(<<>>, s, db, clock) /\ Reopening(<<>>, s, db, clock)
    <3>1. \A i \in 1..Len(<<>>) : FALSE
      OBVIOUS
    <3>. QED  BY <3>1 DEF Claiming, Reopening
  <2>. QED  BY <1>3, <2>1, <2>2 DEF Advance, Abandon
<1>4. ASSUME Advance(s) \/ Abandon(s), db' = db, lease' = lease, clock' = clock PROVE HolderInv'
  BY <1>3, <1>4, HolderCall
<1>5. CASE CheckEdge(s)
  BY <1>4, <1>5 DEF CheckEdge
<1>6. CASE ApplyStatement(s)
  <2>1. NextStep(s).op = "apply"
    BY <1>0, <1>2, <1>6 DEF ApplyStatement, Reopening
  <2>2. /\ lease' = lease /\ clock' = clock
        /\ \/ db' = db /\ (Advance(s) \/ Abandon(s))
           \/ CanApply(db, e) /\ db' = Apply(db, e) /\ Advance(s)
    BY <1>6 DEF ApplyStatement
  <2>. QED  BY <1>1, <1>4, <2>1, <2>2, HolderApply
<1>7. CASE AppendLine(s)
  <2>1. /\ NextStep(s).op = "append" /\ Advance(s) /\ db' = db /\ clock' = clock
        /\ lease' = IF e.status = "claimed"
                    THEN [lease EXCEPT ![s][e.id] = e.claimed_at + Lease] ELSE lease
    BY <1>7 DEF AppendLine
  <2>2. PICK rest : /\ todo' = [todo EXCEPT ![s] = rest]
                    /\ Claiming(rest, s, db, clock) /\ Reopening(rest, s, db, clock)
    BY <1>3, <2>1
  <2>3. \A r \in Session : Claiming(todo'[r], r, db, clock) /\ Reopening(todo'[r], r, db, clock)
    <3>1. todo'[s] = rest /\ \A r \in Session \ {s} : todo'[r] = todo[r]
      BY <1>0, <2>2
    <3>. QED  BY <2>2, <3>1 DEF HolderInv
  <2>4. ASSUME NEW r \in Session, NEW t \in Ticket, lease'[r][t] > clock
        PROVE  Held(db.tickets[t], r, lease'[r][t])
    <3>1. CASE lease'[r][t] = lease[r][t]
      BY <2>4, <3>1 DEF HolderInv
    <3>2. CASE e.status = "claimed" /\ r = s /\ t = e.id
      <4>1. lease'[r][t] = e.claimed_at + Lease
        BY <1>0, <2>1, <3>2
      <4>2. e.claimed_at + Lease > clock
        BY <2>4, <4>1
      <4>. QED  BY <1>0, <1>2, <2>1, <3>2, <4>1, <4>2 DEF Claiming
    <3>3. e.status # "claimed" => lease'[r][t] = lease[r][t]
      BY <2>1
    <3>4. r # s \/ t # e.id => lease'[r][t] = lease[r][t]
      BY <1>0, <2>1
    <3>. QED  BY <3>1, <3>2, <3>3, <3>4
  <2>. QED  BY <2>1, <2>3, <2>4 DEF HolderInv
<1>. QED  BY <1>5, <1>6, <1>7 DEF RunStep

LEMMA HolderStep ==
    ASSUME Inv, HolderInv, [Next]_vars, OneReaperNoRebuild
    PROVE  HolderInv'
<1>1. ASSUME NEW s \in Session, WriteFails(s) \/ Crash(s) PROVE HolderInv'
  <2>1. /\ todo' = [todo EXCEPT ![s] = <<>>] /\ db' = db /\ lease' = lease /\ clock' = clock
    BY <1>1 DEF WriteFails, Crash, Abandon
  <2>2. \A i \in 1..Len(<<>>) : FALSE
    OBVIOUS
  <2>3. Claiming(<<>>, s, db, clock) /\ Reopening(<<>>, s, db, clock)
    BY <2>2 DEF Claiming, Reopening
  <2>. QED  BY <2>1, <2>3, HolderCall
<1>2. CASE Tick
  <2>1. clock' = clock + 1 /\ db' = db /\ todo' = todo /\ lease' = lease
    BY <1>2 DEF Tick
  <2>2. /\ clock \in Nat /\ Lease \in Nat /\ db \in Db /\ lease \in [Session -> [Ticket -> Nat]]
        /\ todo \in [Session -> Seq(WrittenStep)]
    BY CartographAssumption DEF Inv, TypeOK
  <2>3. \A x \in Nat : (x > clock + 1 => x > clock) /\ (x <= clock => x <= clock + 1)
    BY <2>2
  <2>4. ASSUME NEW r \in Session, NEW t \in Ticket, lease[r][t] > clock + 1
        PROVE  Held(db.tickets[t], r, lease[r][t])
    <3>1. lease[r][t] \in Nat
      BY <2>2
    <3>2. lease[r][t] > clock
      BY <2>3, <2>4, <3>1
    <3>. QED  BY <3>2 DEF HolderInv
  <2>5. ASSUME NEW r \in Session
        PROVE  Claiming(todo[r], r, db, clock + 1) /\ Reopening(todo[r], r, db, clock + 1)
    <3>1. Claiming(todo[r], r, db, clock) /\ Reopening(todo[r], r, db, clock)
      BY DEF HolderInv
    <3>2. ASSUME NEW i \in 1..Len(todo[r])
          PROVE  todo[r][i].ev \in Written /\ todo[r][i].ev.claimed_at + Lease \in Nat
      <4>1. todo[r][i] \in WrittenStep
        BY <2>2
      <4>2. todo[r][i].ev \in Written
        BY <4>1 DEF WrittenStep
      <4>3. todo[r][i].ev \in JournalEvent
        BY <4>2, WrittenKinds
      <4>4. todo[r][i].ev.claimed_at \in Nat
        BY <4>3 DEF JournalEvent
      <4>. QED  BY <2>2, <4>2, <4>4
    <3>3. Claiming(todo[r], r, db, clock + 1)
      BY <2>3, <3>1, <3>2 DEF Claiming
    <3>4. ASSUME NEW t \in Ticket, Expiring(db.tickets[t], clock)
          PROVE  Expiring(db.tickets[t], clock + 1)
      <4>1. db.tickets[t].claimed_at \in Nat
        BY <2>2 DEF Db, TicketRow
      <4>2. db.tickets[t].claimed_at + Lease \in Nat
        BY <2>2, <4>1
      <4>. QED  BY <2>3, <3>4, <4>2 DEF Expiring
    <3>5. Reopening(todo[r], r, db, clock + 1)
      <4>1. \A i \in 1..Len(todo[r]) : todo[r][i].ev.status = "open" => todo[r][i].ev.id \in Ticket
        BY <3>2, StatusKinds
      <4>. QED  BY <3>1, <3>4, <4>1 DEF Reopening
    <3>. QED  BY <3>3, <3>5
  <2>. QED  BY <2>1, <2>4, <2>5 DEF HolderInv
<1>3. CASE UNCHANGED vars
  <2>1. clock' = clock /\ db' = db /\ todo' = todo /\ lease' = lease
    BY <1>3 DEF vars
  <2>. QED  BY <2>1 DEF HolderInv
<1>. QED  BY <1>1, <1>2, <1>3, HolderToolCall, HolderRunStep DEF Next

\* Two sessions never work the same ticket at once: however their calls,
\* crashes and failed writes interleave, with one reaper and no rebuild, the
\* conditional UPDATE and the lease leave one holder of a ticket
\* (frontier.rs, claim and reap_expired).
THEOREM OneHolderOnly ==
    ASSUME OneReaperNoRebuild
    PROVE  Spec => []OneHolder
<1>1. Init => Inv /\ HolderInv
  <2>. SUFFICES ASSUME Init PROVE Inv /\ HolderInv
    OBVIOUS
  <2>1. /\ Inv /\ clock = 1 /\ \A s \in Session : todo[s] = <<>>
        /\ \A s \in Session, t \in Ticket : lease[s][t] = 0
    BY InitKeeps DEF Init
  <2>2. \A i \in 1..Len(<<>>) : FALSE
    OBVIOUS
  <2>3. \A s \in Session : Claiming(todo[s], s, db, clock) /\ Reopening(todo[s], s, db, clock)
    BY <2>1, <2>2 DEF Claiming, Reopening
  <2>4. ~(0 > 1)
    OBVIOUS
  <2>. QED  BY <2>1, <2>3, <2>4 DEF HolderInv
<1>2. Inv /\ HolderInv /\ [Next]_vars => Inv' /\ HolderInv'
  BY StepKeeps, HolderStep
<1>3. Inv /\ HolderInv => OneHolder
  <2>. SUFFICES ASSUME Inv, HolderInv PROVE OneHolder
    OBVIOUS
  <2>1. ASSUME NEW s \in Session, NEW t \in Ticket, Holds(s, t)
        PROVE  db.tickets[t].claimed_by = s
    <3>1. CASE lease[s][t] > clock
      BY <3>1 DEF HolderInv, Held
    <3>2. ASSUME NEW i \in 1..Len(todo[s]), todo[s][i].ev.status = "claimed",
                 todo[s][i].ev.id = t, todo[s][i].op = "append",
                 todo[s][i].ev.claimed_at + Lease > clock
          PROVE  db.tickets[t].claimed_by = s
      BY <3>2 DEF HolderInv, Claiming, Held
    <3>. QED  BY <2>1, <3>1, <3>2 DEF Holds
  <2>. QED  BY <2>1 DEF OneHolder
<1>. QED  BY <1>1, <1>2, <1>3, PTL DEF Spec

-----------------------------------------------------------------------------
(* FrontierNeverStuck: one session wires the map, so no edge is added       *)
(* between its cycle check and its writes, and the edges stay acyclic.      *)

LEMMA ReachesClosed ==
    ASSUME NEW E \in SUBSET (Ticket \X Ticket), NEW a \in Ticket
    PROVE  /\ ClosedUnder({x \in Ticket : Reaches(E, a, x)}, E)
           /\ Reaches(E, a, a)
           /\ \A b, c : Reaches(E, a, b) /\ Reaches(E, b, c) => Reaches(E, a, c)
           /\ \A e \in E : Reaches(E, e[1], e[2])
<1>1. ASSUME NEW e \in E, Reaches(E, a, e[1]) PROVE e[2] \in Ticket /\ Reaches(E, a, e[2])
  BY <1>1 DEF Reaches, ClosedUnder
<1>. QED  BY <1>1 DEF Reaches, ClosedUnder

\* An edge that closes no cycle leaves none.
LEMMA AddAcyclic ==
    ASSUME NEW E \in SUBSET (Ticket \X Ticket), Acyclic(E), NEW b \in Ticket, NEW c \in Ticket,
           ~ClosesCycle(E, b, c)
    PROVE  Acyclic(E \cup {<<b, c>>})
<1>. DEFINE F == E \cup {<<b, c>>}
            From(x) == {y \in Ticket : Reaches(E, x, y)}
<1>1. \A x \in Ticket : From(x) \in SUBSET Ticket /\ ClosedUnder(From(x), E) /\ x \in From(x)
  BY ReachesClosed
<1>2. b \notin From(c)
  BY DEF ClosesCycle
<1>3. ClosedUnder(From(c), F)
  <2>1. \A e \in F : e \in E \/ (e[1] = b /\ e[2] = c)
    OBVIOUS
  <2>. HIDE DEF From, F
  <2>. QED  BY <1>1, <1>2, <2>1 DEF ClosedUnder
<1>4. ASSUME NEW e \in E, Reaches(F, e[2], e[1]) PROVE FALSE
  <2>. DEFINE u == e[1]
              v == e[2]
  <2>0. u \in Ticket /\ v \in Ticket /\ Reaches(E, u, v)
    BY ReachesClosed
  <2>1. u \notin From(v)
    BY DEF Acyclic
  <2>2. CASE b \notin From(v)
    <3>1. ClosedUnder(From(v), F)
      <4>1. \A g \in F : g \in E \/ (g[1] = b /\ g[2] = c)
        OBVIOUS
      <4>. HIDE DEF From, F, v
      <4>. QED  BY <1>1, <2>0, <2>2, <4>1 DEF ClosedUnder
    <3>. HIDE DEF From, F
    <3>. QED  BY <1>1, <1>4, <2>0, <2>1, <3>1 DEF Reaches
  <2>3. CASE b \in From(v)
    <3>1. u \notin From(c)
      <4>1. ASSUME Reaches(E, c, u) PROVE Reaches(E, c, b)
        <5>1. Reaches(E, c, v)
          BY <2>0, <4>1, ReachesClosed
        <5>. QED  BY <2>3, <5>1, ReachesClosed
      <4>. QED  BY <1>2, <4>1
    <3>2. ClosedUnder(From(v) \cup From(c), F)
      <4>1. \A g \in F : g \in E \/ (g[1] = b /\ g[2] = c)
        OBVIOUS
      <4>. HIDE DEF From, F, v
      <4>. QED  BY <1>1, <2>0, <4>1 DEF ClosedUnder
    <3>3. From(v) \cup From(c) \in SUBSET Ticket /\ v \in From(v) \cup From(c)
          /\ u \notin From(v) \cup From(c)
      <4>. HIDE DEF From, u, v
      <4>. QED  BY <1>1, <2>0, <2>1, <3>1
    <3>. HIDE DEF From, F
    <3>. QED  BY <1>4, <3>2, <3>3 DEF Reaches
  <2>. QED  BY <2>2, <2>3
<1>5. ~Reaches(F, c, b)
  <2>. HIDE DEF From, F
  <2>. QED  BY <1>1, <1>2, <1>3 DEF Reaches
<1>. QED  BY <1>4, <1>5 DEF Acyclic

\* Among finitely many tickets one waits on none of the others.
LEMMA AcyclicHasFirst ==
    ASSUME NEW E \in SUBSET (Ticket \X Ticket), Acyclic(E), NEW S \in SUBSET Ticket, S # {}
    PROVE  \E t \in S : \A e \in E : e[2] = t => e[1] \notin S
<1>. DEFINE Into(x) == {y \in Ticket : Reaches(E, y, x)}
            Sets == {Into(x) : x \in S}
<1>1. Sets \subseteq FiniteSubsetsOf(Ticket) /\ Sets # {}
  <2>1. \A x \in S : Into(x) \in SUBSET Ticket
    OBVIOUS
  <2>2. \A c \in SUBSET Ticket : IsFiniteSet(c)
    BY CartographAssumption, FS_Subset
  <2>. QED  BY <2>1, <2>2 DEF FiniteSubsetsOf
<1>2. PICK m \in Sets : \A c \in Sets : <<c, m>> \notin StrictSubsetOrdering(Ticket)
  BY <1>1, CartographAssumption, WFMin, FS_StrictSubsetOrderingWellFounded
<1>3. PICK t \in S : m = Into(t)
  BY <1>2
<1>4. ASSUME NEW e \in E, e[2] = t, e[1] \in S PROVE FALSE
  <2>. DEFINE b == e[1]
  <2>1. b \in Ticket /\ t \in Ticket /\ Reaches(E, b, t) /\ ~Reaches(E, t, b)
    BY <1>4, ReachesClosed DEF Acyclic
  <2>2. ASSUME NEW y \in Ticket, Reaches(E, y, b) PROVE Reaches(E, y, t)
    BY <2>1, <2>2, ReachesClosed
  <2>3. t \in Into(t) /\ t \notin Into(b)
    BY <2>1, ReachesClosed
  <2>4. Into(b) \subseteq Into(t) /\ Into(b) # Into(t)
    BY <2>2, <2>3
  <2>5. Into(b) \in Sets /\ Into(b) \in SUBSET Ticket /\ Into(t) \in SUBSET Ticket
    BY <1>4
  <2>. HIDE DEF Into, Sets
  <2>6. <<Into(b), Into(t)>> \in StrictSubsetOrdering(Ticket)
    BY <2>4, <2>5 DEF StrictSubsetOrdering
  <2>. QED  BY <1>2, <1>3, <2>5, <2>6
<1>. QED  BY <1>4

\* One session wires the map, no charting run does, and nobody rebuilds.
OneWirer ==
    /\ \A r, s \in Callers["ticket_block"] : r = s
    /\ Callers["write_map"] = {} /\ Callers["map_rebuild"] = {}

Wires(step) == step.op = "apply" /\ step.ev.kind = "edge_added"

\* An edge still to write closes no cycle with those that are there, and is
\* the only one: the session that wires is in the call that checked it.
Wiring(steps, s, d) ==
    \A i \in 1..Len(steps) :
        /\ steps[i].op # "replay"
        /\ Wires(steps[i]) =>
              /\ s \in Callers["ticket_block"]
              /\ Exists(d, steps[i].ev.id) /\ Exists(d, steps[i].ev.blocked)
              /\ ~ClosesCycle(d.edges, steps[i].ev.id, steps[i].ev.blocked)
              /\ \A j \in 1..Len(steps) : Wires(steps[j]) => j = i

WireInv ==
    /\ Acyclic(db.edges)
    /\ \A e \in db.edges : Exists(db, e[1]) /\ Exists(db, e[2])
    /\ \A s \in Session : Wiring(todo[s], s, db)

\* No statement takes a ticket away, and one kind adds an edge.
LEMMA ExistsStays ==
    ASSUME NEW d \in Db, NEW e \in Written, NEW t \in Ticket, Exists(d, t)
    PROVE  Exists(Apply(d, e), t)
<1>. DEFINE W == {Event("ticket_created", t)}
<1>1. \A u : Event("ticket_created", u) \in W => u = t
  BY EventsDiffer
<1>2. Event("map_created", None) \notin W /\ \A f : Event("fog_added", f) \notin W
  BY EventsDiffer
<1>3. Event("ticket_created", t) \in W
  OBVIOUS
<1>. HIDE DEF W
<1>4. Complete(d, W)
  BY <1>1, <1>2 DEF Complete, Exists
<1>5. Complete(Apply(d, e), W \cup {e})
  BY <1>4, ApplyComplete
<1>. QED  BY <1>3, <1>5 DEF Complete, Exists

LEMMA EdgesApplied ==
    ASSUME NEW d \in Db, NEW e \in Written
    PROVE  /\ e.kind # "edge_added" => Apply(d, e).edges = d.edges
           /\ e.kind = "edge_added" => Apply(d, e).edges = d.edges \cup {<<e.id, e.blocked>>}
<1>1. e.kind \in EventKind
  BY WrittenKinds DEF JournalEvent
<1>2. CASE e.kind = "edge_added"
  <2>1. Apply(d, e) = [d EXCEPT !.edges = @ \cup {<<e.id, e.blocked>>}]
    BY <1>2 DEF Apply
  <2>. QED  BY <1>2, <2>1 DEF Db
<1>3. CASE e.kind # "edge_added"
  BY <1>1, <1>3 DEF Apply, Db, EventKind
<1>. QED  BY <1>2, <1>3

\* A program's rest wires no more than it did, and nothing once it has wired.
LEMMA TailWiring ==
    ASSUME NEW steps \in Seq(WrittenStep), steps # <<>>, NEW s, NEW d, Wiring(steps, s, d)
    PROVE  /\ Wiring(Tail(steps), s, d)
           /\ Wires(steps[1]) => \A i \in 1..Len(Tail(steps)) : ~Wires(Tail(steps)[i])
<1>1. \A i \in 1..Len(Tail(steps)) : /\ i + 1 \in 1..Len(steps) /\ i + 1 # 1
                                     /\ Tail(steps)[i] = steps[i + 1]
  <2>1. \A i \in 1..Len(Tail(steps)) : i + 1 \in 2..Len(steps) /\ Tail(steps)[i] = steps[i + 1]
    BY TailOf
  <2>. QED  BY <2>1
<1>2. \A i, j \in 1..Len(Tail(steps)) : i + 1 = j + 1 => i = j
  OBVIOUS
<1>3. Wiring(Tail(steps), s, d)
  BY <1>1, <1>2 DEF Wiring
<1>4. ASSUME NEW i \in 1..Len(Tail(steps)), Wires(steps[1]), Wires(Tail(steps)[i]) PROVE FALSE
  <2>1. 1 \in 1..Len(steps)
    BY <1>1
  <2>. QED  BY <1>1, <1>4, <2>1 DEF Wiring
<1>. QED  BY <1>3, <1>4

\* A program that wires nothing, or in a database with the same edges, stays
\* as it is while tickets only come.
LEMMA WiringStays ==
    ASSUME NEW steps \in Seq(WrittenStep), NEW s, NEW d, NEW c, Wiring(steps, s, d),
           \A t \in Ticket : Exists(d, t) => Exists(c, t),
           \/ c.edges = d.edges
           \/ \A i \in 1..Len(steps) : ~Wires(steps[i])
    PROVE  Wiring(steps, s, c)
<1>1. ASSUME NEW i \in 1..Len(steps), Wires(steps[i])
      PROVE  steps[i].ev.id \in Ticket /\ steps[i].ev.blocked \in Ticket
  <2>1. steps[i] \in WrittenStep
    OBVIOUS
  <2>2. steps[i].ev \in Written
    BY <2>1 DEF WrittenStep
  <2>. QED  BY <1>1, <2>2, WrittenKinds, EventsDiffer DEF Wires
<1>. QED  BY <1>1 DEF Wiring

\* A call that leaves the edges and the tickets there.
LEMMA WireCall ==
    ASSUME Inv, WireInv, NEW s \in Session, NEW steps, todo' = [todo EXCEPT ![s] = steps],
           db'.edges = db.edges, \A t \in Ticket : Exists(db, t) => Exists(db', t),
           Wiring(steps, s, db')
    PROVE  WireInv'
<1>1. todo \in [Session -> Seq(WrittenStep)] /\ db \in Db
  BY DEF Inv, TypeOK
<1>2. todo'[s] = steps /\ \A r \in Session \ {s} : todo'[r] = todo[r]
  BY <1>1
<1>3. \A r \in Session : Wiring(todo'[r], r, db')
  BY <1>1, <1>2, WiringStays DEF WireInv
<1>4. \A e \in db.edges : e[1] \in Ticket /\ e[2] \in Ticket
  BY <1>1 DEF Db
<1>5. \A e \in db'.edges : Exists(db', e[1]) /\ Exists(db', e[2])
  BY <1>4 DEF WireInv
<1>. QED  BY <1>3, <1>5 DEF WireInv

LEMMA WireToolCall ==
    ASSUME Inv, WireInv, NEW s \in Session, ToolCall(s), OneWirer
    PROVE  WireInv'
<1>. DEFINE S == {st \in WrittenStep : st.op # "replay" /\ ~Wires(st)}
<1>0. db \in Db /\ clock \in Nat
  BY DEF Inv, TypeOK
<1>1. ASSUME NEW op \in {"check", "append", "apply"}, NEW e \in Written,
             op # "apply" \/ e.kind # "edge_added"
      PROVE  Do(op, e) \in S
  BY <1>1, DoTypes DEF StepOp, Wires
<1>2. ASSUME NEW steps \in Seq(S), NEW d PROVE Wiring(steps, s, d)
  <2>1. \A i \in 1..Len(steps) : steps[i] \in S
    OBVIOUS
  <2>. QED  BY <2>1 DEF Wiring
<1>3. ASSUME NEW tool, NEW steps \in Seq(S), Call(tool, s, steps), db' = db PROVE WireInv'
  BY <1>2, <1>3, WireCall DEF Call
<1>4. ASSUME NEW t \in Ticket, TicketClaim(s, t) PROVE WireInv'
  <2>. DEFINE e == Claimed(t, s, clock)
  <2>1. /\ db' = WithClaim(db, t, s, clock) /\ todo' = [todo EXCEPT ![s] = <<Do("append", e)>>]
    BY <1>4 DEF TicketClaim, WithClaim, Call
  <2>2. db'.edges = db.edges /\ \A u \in Ticket : Exists(db, u) => Exists(db', u)
    BY <1>0, <2>1, ClaimedRow DEF Exists
  <2>3. e \in Written
    BY <1>0, UpdateEvents
  <2>4. Do("append", e) \in S
    <3>. HIDE DEF S, e
    <3>. QED  BY <1>1, <2>3
  <2>5. <<Do("append", e)>> \in Seq(S)
    <3>. HIDE DEF S, e
    <3>. QED  BY <2>4
  <2>6. Wiring(<<Do("append", e)>>, s, db')
    <3>. HIDE DEF S, e
    <3>. QED  BY <1>2, <2>5
  <2>. HIDE DEF e
  <2>. QED  BY <2>1, <2>2, <2>6, WireCall
<1>5. ASSUME NEW t \in Ticket, TicketResolve(s, t) PROVE WireInv'
  <2>. DEFINE e == Closed(t, "resolved", s)
  <2>1. e \in Written /\ e.kind # "edge_added"
    BY UpdateEvents DEF Terminal
  <2>2. Do("append", e) \in S /\ Do("apply", e) \in S
    <3>. HIDE DEF S, e
    <3>. QED  BY <1>1, <2>1
  <2>3. Record(e) \in Seq(S)
    <3>. HIDE DEF S, e
    <3>. QED  BY <2>2, RecordOver
  <2>4. Call("ticket_resolve", s, Record(e)) /\ db' = db
    BY <1>5 DEF TicketResolve
  <2>. HIDE DEF e, S
  <2>. QED  BY <1>3, <2>3, <2>4
<1>6. CASE ReapExpired(s)
  <2>1. ASSUME NEW t \in Expired PROVE Do("append", Reopened(t)) \in S /\ Do("apply", Reopened(t)) \in S
    <3>1. Reopened(t) \in Written /\ Reopened(t).kind # "edge_added"
      BY UpdateEvents DEF Expired
    <3>. HIDE DEF S
    <3>. QED  BY <1>1, <3>1
  <2>. HIDE DEF S
  <2>2. \E steps : steps \in Seq(S) /\ Call("reap_expired", s, steps) /\ db' = db
    BY <1>6, <2>1, ReapSteps
  <2>. QED  BY <1>3, <2>2
<1>7. ASSUME NEW t \in Ticket, NEW u \in Ticket, TicketBlock(s, t, u) PROVE WireInv'
  <2>. DEFINE e == EdgeAdded(t, u)
  <2>1. /\ Exists(db, t) /\ Exists(db, u) /\ ~ClosesCycle(db.edges, t, u)
        /\ s \in Callers["ticket_block"] /\ todo' = [todo EXCEPT ![s] = Record(e)] /\ db' = db
    BY <1>7 DEF TicketBlock, Call
  <2>2. e.id = t /\ e.blocked = u
    BY DEF EdgeAdded, Event
  <2>. HIDE DEF e
  <2>3. Wiring(Record(e), s, db)
    BY <2>1, <2>2, RecordSteps DEF Wiring, Wires
  <2>. QED  BY <2>1, <2>3, WireCall
<1>8. ~MapRebuild(s) /\ ~WriteMap(s)
  BY DEF OneWirer, MapRebuild, WriteMap, Call
<1>9. ASSUME NEW e \in Written, Everyday(e), FALSE \/ e.kind # "edge_added"
      PROVE  Do("check", e) \in S /\ Do("append", e) \in S /\ Do("apply", e) \in S
  <2>. HIDE DEF S
  <2>. QED  BY <1>1, <1>9
<1>10. FALSE \in BOOLEAN
  OBVIOUS
<1>. HIDE DEF S
<1>. QED  BY <1>3, <1>4, <1>5, <1>6, <1>7, <1>8, <1>9, <1>10, CallSteps

LEMMA WireRunStep ==
    ASSUME Inv, WireInv, NEW s \in Session, RunStep(s), OneWirer
    PROVE  WireInv'
<1>. DEFINE e == NextStep(s).ev
<1>0. db \in Db /\ todo \in [Session -> Seq(WrittenStep)] /\ todo[s] \in Seq(WrittenStep)
  BY DEF Inv, TypeOK
<1>1. todo[s] # <<>>
  BY DEF RunStep, CheckEdge, AppendLine, ApplyStatement
<1>2. e \in Written /\ NextStep(s) = todo[s][1]
  <2>1. NextStep(s) \in WrittenStep
    BY <1>0, <1>1, TailOf DEF NextStep
  <2>. QED  BY <2>1 DEF WrittenStep, NextStep
<1>3. Wiring(todo[s], s, db)
  BY DEF WireInv
<1>4. Wiring(Tail(todo[s]), s, db)
  BY <1>0, <1>1, <1>3, TailWiring
<1>5. Wiring(<<>>, s, db)
  <2>1. \A i \in 1..Len(<<>>) : FALSE
    OBVIOUS
  <2>. QED  BY <2>1 DEF Wiring
<1>6. ASSUME Advance(s) \/ Abandon(s), db' = db PROVE WireInv'
  BY <1>4, <1>5, <1>6, WireCall DEF Advance, Abandon
<1>7. ASSUME Advance(s), CanApply(db, e), db' = Apply(db, e), NextStep(s).op \in {"apply", "replay"}
      PROVE  WireInv'
  <2>1. todo' = [todo EXCEPT ![s] = Tail(todo[s])]
    BY <1>7 DEF Advance
  <2>2. \A t \in Ticket : Exists(db, t) => Exists(db', t)
    BY <1>0, <1>2, <1>7, ExistsStays
  <2>3. Tail(todo[s]) \in Seq(WrittenStep)
    BY <1>0, <1>1, TailOf
  <2>4. CASE e.kind # "edge_added"
    <3>1. db'.edges = db.edges
      BY <1>0, <1>2, <1>7, <2>4, EdgesApplied
    <3>2. Wiring(Tail(todo[s]), s, db')
      BY <1>4, <2>2, <2>3, <3>1, WiringStays
    <3>. QED  BY <2>1, <2>2, <3>1, <3>2, WireCall
  <2>5. CASE e.kind = "edge_added"
    <3>1. 1 \in 1..Len(todo[s])
      <4>1. Len(todo[s]) \in Nat \ {0}
        BY <1>0, <1>1, TailOf
      <4>. QED  BY <4>1
    <3>2. Wires(todo[s][1])
      BY <1>2, <1>3, <1>7, <2>5, <3>1 DEF Wiring, Wires
    <3>3. /\ s \in Callers["ticket_block"] /\ Exists(db, e.id) /\ Exists(db, e.blocked)
          /\ ~ClosesCycle(db.edges, e.id, e.blocked)
      BY <1>2, <1>3, <3>1, <3>2 DEF Wiring
    <3>4. e.id \in Ticket /\ e.blocked \in Ticket
      BY <1>2, <2>5, WrittenKinds, EventsDiffer
    <3>5. db'.edges = db.edges \cup {<<e.id, e.blocked>>}
      BY <1>0, <1>2, <1>7, <2>5, EdgesApplied
    <3>6. db.edges \in SUBSET (Ticket \X Ticket)
      BY <1>0 DEF Db
    <3>. HIDE DEF e
    <3>7. Acyclic(db'.edges)
      BY <3>3, <3>4, <3>5, <3>6, AddAcyclic DEF WireInv
    <3>8. \A g \in db'.edges : Exists(db', g[1]) /\ Exists(db', g[2])
      <4>1. \A g \in db.edges : /\ g[1] \in Ticket /\ g[2] \in Ticket
                                /\ Exists(db, g[1]) /\ Exists(db, g[2])
        BY <3>6 DEF WireInv
      <4>. QED  BY <2>2, <3>3, <3>4, <3>5, <4>1
    <3>9. ASSUME NEW r \in Session PROVE Wiring(todo'[r], r, db')
      <4>1. CASE r = s
        <5>1. \A i \in 1..Len(Tail(todo[s])) : ~Wires(Tail(todo[s])[i])
          BY <1>0, <1>1, <1>3, <3>2, TailWiring
        <5>2. Wiring(Tail(todo[s]), s, db')
          BY <1>4, <2>2, <2>3, <5>1, WiringStays
        <5>. QED  BY <1>0, <2>1, <4>1, <5>2
      <4>2. CASE r # s
        <5>1. todo'[r] = todo[r] /\ todo[r] \in Seq(WrittenStep) /\ Wiring(todo[r], r, db)
          BY <1>0, <2>1, <4>2 DEF WireInv
        <5>2. \A i \in 1..Len(todo[r]) : ~Wires(todo[r][i])
          BY <3>3, <4>2, <5>1 DEF Wiring, OneWirer
        <5>. QED  BY <2>2, <5>1, <5>2, WiringStays
      <4>. QED  BY <4>1, <4>2
    <3>. QED  BY <3>7, <3>8, <3>9 DEF WireInv
  <2>. QED  BY <2>4, <2>5
<1>8. CASE CheckEdge(s)
  BY <1>6, <1>8 DEF CheckEdge
<1>9. CASE AppendLine(s)
  BY <1>6, <1>9 DEF AppendLine
<1>10. CASE ApplyStatement(s)
  BY <1>6, <1>7, <1>10 DEF ApplyStatement
<1>. QED  BY <1>8, <1>9, <1>10 DEF RunStep

LEMMA WireStep ==
    ASSUME Inv, WireInv, [Next]_vars, OneWirer
    PROVE  WireInv'
<1>1. ASSUME NEW s \in Session, WriteFails(s) \/ Crash(s) PROVE WireInv'
  <2>1. todo' = [todo EXCEPT ![s] = <<>>] /\ db' = db
    BY <1>1 DEF WriteFails, Crash, Abandon
  <2>2. \A i \in 1..Len(<<>>) : FALSE
    OBVIOUS
  <2>3. Wiring(<<>>, s, db)
    BY <2>2 DEF Wiring
  <2>. QED  BY <2>1, <2>3, WireCall
<1>2. CASE Tick \/ UNCHANGED vars
  <2>1. db' = db /\ todo' = todo
    BY <1>2 DEF Tick, vars
  <2>. QED  BY <2>1 DEF WireInv
<1>. QED  BY <1>1, <1>2, WireToolCall, WireRunStep DEF Next

\* Work never stops with every ticket waiting: while one session wires the
\* map, whatever the others do, crash or fail in between, the edges stay
\* acyclic (add_edge's find_cycle), so of the open tickets one waits on none
\* of the others, and frontier() offers it.
THEOREM FrontierOffersWork ==
    ASSUME OneWirer
    PROVE  Spec => []FrontierNeverStuck
<1>1. Init => Inv /\ WireInv
  <2>. SUFFICES ASSUME Init PROVE Inv /\ WireInv
    OBVIOUS
  <2>1. Inv /\ \A s \in Session : todo[s] = <<>>
    BY InitKeeps DEF Init
  <2>2. db.edges = {}
    <3>1. \A t, u : EdgeAdded(t, u) \notin Steps(journal)
      <4>1. \A t, u : EdgeAdded(t, u).kind = "edge_added"
        BY EventsDiffer
      <4>2. \A i \in 1..Len(journal) : journal[i] \in Creation
        BY OpeningCreates DEF Init
      <4>. QED  BY <4>1, <4>2, CreationKinds DEF Steps
    <3>. QED  BY <2>1, <3>1 DEF Inv, BackedBy
  <2>3. \A s \in Session : Wiring(<<>>, s, db)
    <3>1. \A i \in 1..Len(<<>>) : FALSE
      OBVIOUS
    <3>. QED  BY <3>1 DEF Wiring
  <2>. QED  BY <2>1, <2>2, <2>3 DEF WireInv, Acyclic
<1>2. Inv /\ WireInv /\ [Next]_vars => Inv' /\ WireInv'
  BY StepKeeps, WireStep
<1>3. Inv /\ WireInv => FrontierNeverStuck
  <2>. DEFINE Open == {t \in Ticket : db.tickets[t].status = "open"}
  <2>. SUFFICES ASSUME Inv, WireInv, Open # {},
                       \A t \in Ticket : db.tickets[t].status \notin {"claimed", "invalidated"}
                PROVE  Frontier(db) # {}
    BY DEF FrontierNeverStuck
  <2>1. db.edges \in SUBSET (Ticket \X Ticket) /\ db \in Db
    BY DEF Inv, TypeOK, Db
  <2>2. PICK t \in Open : \A e \in db.edges : e[2] = t => e[1] \notin Open
    <3>1. Open \in SUBSET Ticket
      OBVIOUS
    <3>. HIDE DEF Open
    <3>. QED  BY <2>1, <3>1, AcyclicHasFirst DEF WireInv
  <2>3. ASSUME NEW e \in db.edges, e[2] = t
        PROVE  db.tickets[e[1]].status \in {"resolved", "out_of_scope"}
    <3>1. e[1] \in Ticket /\ e[1] \notin Open /\ Exists(db, e[1])
      BY <2>1, <2>2, <2>3 DEF WireInv
    <3>2. db.tickets[e[1]].status \in TicketStatus \cup {"absent"}
      BY <2>1, <3>1 DEF Db, TicketRow
    <3>. QED  BY <3>1, <3>2 DEF Exists, TicketStatus, Terminal
  <2>. QED  BY <2>3 DEF Frontier
<1>. QED  BY <1>1, <1>2, <1>3, PTL DEF Spec

-----------------------------------------------------------------------------
(* RebuildIsNoOp and ClosedStaysClosed: while each session closes only what *)
(* it claimed, and no write fails, the database and a replay of the journal *)
(* differ by what one step of each running call is about to bring in line. *)

\* What an event does to the row of its ticket.
OnTicket(e, t) == e.kind \in {"ticket_created", "ticket_updated"} /\ e.id = t
RowAfter(row, e) == IF e.kind = "ticket_created" THEN NewTicket ELSE UpdateRow(row, e)

\* An event leaves what it is about in a state to which it fits.
FogFits(d, e) == /\ e.kind = "fog_added" => d.fog[e.id] = "absent"
                 /\ e.kind = "fog_graduated" => d.fog[e.id] # "absent"

LEMMA ApplyFields ==
    ASSUME NEW d \in Db, NEW e \in Written, FogFits(d, e),
           e.kind = "ticket_updated" => Exists(d, e.id)
    PROVE  /\ Apply(d, e).map = (d.map \/ e.kind = "map_created")
           /\ \A t \in Ticket : Apply(d, e).tickets[t] =
                 IF OnTicket(e, t) THEN RowAfter(d.tickets[t], e) ELSE d.tickets[t]
           /\ \A x : x \in Apply(d, e).edges <=>
                 x \in d.edges \/ (e.kind = "edge_added" /\ x = <<e.id, e.blocked>>)
           /\ \A f \in Fog : Apply(d, e).fog[f] =
                 IF e.kind = "fog_added" /\ e.id = f THEN "patch"
                 ELSE IF e.kind = "fog_graduated" /\ e.id = f THEN "graduated" ELSE d.fog[f]
           /\ \A x : x \in Apply(d, e).excluded <=>
                 x \in d.excluded \/ (e.kind = "scope_exclusion_added" /\ x = e.id)
<1>0. e.kind \in EventKind /\ d.map \in BOOLEAN
  BY WrittenKinds DEF JournalEvent, Db
<1>. USE DEF Db
<1>1. CASE e.kind = "map_created"
  <2>1. Apply(d, e) = [d EXCEPT !.map = TRUE]
    BY <1>1 DEF Apply
  <2>. QED  BY <1>1, <2>1 DEF OnTicket
<1>2. CASE e.kind = "ticket_created"
  <2>1. Apply(d, e) = [d EXCEPT !.tickets[e.id] = NewTicket]
    BY <1>2 DEF Apply
  <2>. QED  BY <1>0, <1>2, <2>1 DEF OnTicket, RowAfter
<1>3. CASE e.kind = "ticket_updated"
  <2>1. Apply(d, e) = [d EXCEPT !.tickets[e.id] = UpdateRow(@, e)]
    BY <1>3 DEF Apply
  <2>2. /\ Apply(d, e).map = d.map /\ Apply(d, e).edges = d.edges /\ Apply(d, e).fog = d.fog
        /\ Apply(d, e).excluded = d.excluded
    BY <2>1
  <2>3. \A t \in Ticket : Apply(d, e).tickets[t] =
           IF e.id = t THEN UpdateRow(d.tickets[t], e) ELSE d.tickets[t]
    BY <2>1
  <2>. QED  BY <1>0, <1>3, <2>2, <2>3 DEF OnTicket, RowAfter
<1>4. CASE e.kind = "edge_added"
  <2>1. Apply(d, e) = [d EXCEPT !.edges = @ \cup {<<e.id, e.blocked>>}]
    BY <1>4 DEF Apply
  <2>. QED  BY <1>0, <1>4, <2>1 DEF OnTicket
<1>5. CASE e.kind = "fog_added"
  <2>1. Apply(d, e) = [d EXCEPT !.fog[e.id] = "patch"]
    BY <1>5 DEF Apply
  <2>. QED  BY <1>0, <1>5, <2>1 DEF OnTicket
<1>6. CASE e.kind = "fog_graduated"
  <2>1. Apply(d, e) = [d EXCEPT !.fog[e.id] = "graduated"]
    BY <1>6 DEF Apply, FogFits
  <2>. QED  BY <1>0, <1>6, <2>1 DEF OnTicket
<1>7. CASE e.kind = "scope_exclusion_added"
  <2>1. Apply(d, e) = [d EXCEPT !.excluded = @ \cup {e.id}]
    BY <1>7 DEF Apply
  <2>. QED  BY <1>0, <1>7, <2>1 DEF OnTicket
<1>. QED  BY <1>0, <1>1, <1>2, <1>3, <1>4, <1>5, <1>6, <1>7 DEF EventKind

\* What a database can show beside its rows, each mark of one event.
Marks == {Event("map_created", None)} \cup {EdgeAdded(t, u) : t \in Ticket, u \in Ticket}
         \cup {Event("fog_added", f) : f \in Fog} \cup {Event("fog_graduated", f) : f \in Fog}
         \cup {Event("scope_exclusion_added", t) : t \in Ticket \cup {None}}

Shown(d, m) ==
    \/ m.kind = "map_created" /\ d.map
    \/ m.kind = "edge_added" /\ <<m.id, m.blocked>> \in d.edges
    \/ m.kind = "fog_added" /\ d.fog[m.id] # "absent"
    \/ m.kind = "fog_graduated" /\ d.fog[m.id] = "graduated"
    \/ m.kind = "scope_exclusion_added" /\ m.id \in d.excluded

\* Each mark has a field to be shown in.
LEMMA ShownIn ==
    ASSUME NEW d
    PROVE  /\ \A m : m.kind = "map_created" => (Shown(d, m) <=> d.map)
           /\ \A m : m.kind = "edge_added" => (Shown(d, m) <=> <<m.id, m.blocked>> \in d.edges)
           /\ \A m : m.kind = "fog_added" => (Shown(d, m) <=> d.fog[m.id] # "absent")
           /\ \A m : m.kind = "fog_graduated" => (Shown(d, m) <=> d.fog[m.id] = "graduated")
           /\ \A m : m.kind = "scope_exclusion_added" => (Shown(d, m) <=> m.id \in d.excluded)
<1>1. ASSUME NEW m, m.kind = "map_created" PROVE Shown(d, m) <=> d.map
  BY <1>1 DEF Shown
<1>2. ASSUME NEW m, m.kind = "edge_added" PROVE Shown(d, m) <=> <<m.id, m.blocked>> \in d.edges
  BY <1>2 DEF Shown
<1>3. ASSUME NEW m, m.kind = "fog_added" PROVE Shown(d, m) <=> d.fog[m.id] # "absent"
  BY <1>3 DEF Shown
<1>4. ASSUME NEW m, m.kind = "fog_graduated" PROVE Shown(d, m) <=> d.fog[m.id] = "graduated"
  BY <1>4 DEF Shown
<1>5. ASSUME NEW m, m.kind = "scope_exclusion_added" PROVE Shown(d, m) <=> m.id \in d.excluded
  BY <1>5 DEF Shown
<1>. QED  BY <1>1, <1>2, <1>3, <1>4, <1>5

LEMMA MarkKinds ==
    ASSUME NEW m \in Marks
    PROVE  /\ m \in Written
           /\ \/ m = Event("map_created", None) /\ m.kind = "map_created"
              \/ m.id \in Ticket /\ m.blocked \in Ticket /\ m = EdgeAdded(m.id, m.blocked)
                 /\ m.kind = "edge_added"
              \/ m.id \in Fog /\ m = Event("fog_added", m.id) /\ m.kind = "fog_added"
              \/ m.id \in Fog /\ m = Event("fog_graduated", m.id) /\ m.kind = "fog_graduated"
              \/ m.id \in Ticket \cup {None} /\ m = Event("scope_exclusion_added", m.id)
                 /\ m.kind = "scope_exclusion_added"
<1>1. \A t, u : EdgeAdded(t, u).id = t /\ EdgeAdded(t, u).blocked = u
  BY DEF EdgeAdded, Event
<1>. QED  BY <1>1, EventsDiffer DEF Marks, Written

\* An event adds its own mark and no other.
LEMMA ApplyShows ==
    ASSUME NEW d \in Db, NEW e \in Written, FogFits(d, e),
           e.kind = "ticket_updated" => Exists(d, e.id), NEW m \in Marks
    PROVE  Shown(Apply(d, e), m) <=> Shown(d, m) \/ m = e
<1>. DEFINE c == Apply(d, e)
<1>1. /\ c.map = (d.map \/ e.kind = "map_created")
      /\ \A x : x \in c.edges <=>
             x \in d.edges \/ (e.kind = "edge_added" /\ x = <<e.id, e.blocked>>)
      /\ \A f \in Fog : c.fog[f] =
             IF e.kind = "fog_added" /\ e.id = f THEN "patch"
             ELSE IF e.kind = "fog_graduated" /\ e.id = f THEN "graduated" ELSE d.fog[f]
      /\ \A x : x \in c.excluded <=>
             x \in d.excluded \/ (e.kind = "scope_exclusion_added" /\ x = e.id)
  BY ApplyFields
<1>. SUFFICES Shown(c, m) <=> Shown(d, m) \/ m = e
  OBVIOUS
<1>. HIDE DEF c
<1>2. /\ e.kind = "map_created" => e = Event("map_created", None)
      /\ e.kind = "edge_added" => e = EdgeAdded(e.id, e.blocked)
      /\ e.kind \in {"fog_added", "fog_graduated"} => e.id \in Fog /\ e = Event(e.kind, e.id)
      /\ e.kind = "scope_exclusion_added" => e = Event("scope_exclusion_added", e.id)
  BY WrittenKinds, EventsDiffer
<1>3. CASE m = Event("map_created", None) /\ m.kind = "map_created"
  <2>1. (Shown(c, m) <=> c.map) /\ (Shown(d, m) <=> d.map)
    BY <1>3, ShownIn
  <2>2. m = e <=> e.kind = "map_created"
    BY <1>2, <1>3
  <2>. QED  BY <1>1, <2>1, <2>2
<1>4. CASE m.id \in Ticket /\ m.blocked \in Ticket /\ m = EdgeAdded(m.id, m.blocked)
           /\ m.kind = "edge_added"
  <2>1. /\ Shown(c, m) <=> <<m.id, m.blocked>> \in c.edges
        /\ Shown(d, m) <=> <<m.id, m.blocked>> \in d.edges
    BY <1>4, ShownIn
  <2>2. m = e <=> e.kind = "edge_added" /\ <<m.id, m.blocked>> = <<e.id, e.blocked>>
    BY <1>2, <1>4
  <2>. QED  BY <1>1, <2>1, <2>2
<1>5. CASE m.id \in Fog /\ m = Event("fog_added", m.id) /\ m.kind = "fog_added"
  <2>1. /\ Shown(c, m) <=> c.fog[m.id] # "absent"
        /\ Shown(d, m) <=> d.fog[m.id] # "absent"
    BY <1>5, ShownIn
  <2>2. m = e <=> e.kind = "fog_added" /\ e.id = m.id
    BY <1>2, <1>5
  <2>3. e.kind = "fog_graduated" /\ e.id = m.id => d.fog[m.id] # "absent"
    BY DEF FogFits
  <2>. QED  BY <1>1, <1>5, <2>1, <2>2, <2>3
<1>6. CASE m.id \in Fog /\ m = Event("fog_graduated", m.id) /\ m.kind = "fog_graduated"
  <2>1. /\ Shown(c, m) <=> c.fog[m.id] = "graduated"
        /\ Shown(d, m) <=> d.fog[m.id] = "graduated"
    BY <1>6, ShownIn
  <2>2. m = e <=> e.kind = "fog_graduated" /\ e.id = m.id
    BY <1>2, <1>6
  <2>3. e.kind = "fog_added" /\ e.id = m.id => d.fog[m.id] = "absent"
    BY DEF FogFits
  <2>. QED  BY <1>1, <1>6, <2>1, <2>2, <2>3
<1>7. CASE m.id \in Ticket \cup {None} /\ m = Event("scope_exclusion_added", m.id)
           /\ m.kind = "scope_exclusion_added"
  <2>1. /\ Shown(c, m) <=> m.id \in c.excluded
        /\ Shown(d, m) <=> m.id \in d.excluded
    BY <1>7, ShownIn
  <2>2. m = e <=> e.kind = "scope_exclusion_added" /\ m.id = e.id
    BY <1>2, <1>7
  <2>. QED  BY <1>1, <2>1, <2>2
<1>. QED  BY <1>3, <1>4, <1>5, <1>6, <1>7, MarkKinds

\* Databases that show the same marks and the same rows are the same.
LEMMA SameShown ==
    ASSUME NEW d \in Db, NEW r \in Db, \A m \in Marks : Shown(d, m) <=> Shown(r, m),
           \A t \in Ticket : d.tickets[t] = r.tickets[t]
    PROVE  d = r
<1>1. /\ d.map \in BOOLEAN /\ r.map \in BOOLEAN
      /\ d.edges \in SUBSET (Ticket \X Ticket) /\ r.edges \in SUBSET (Ticket \X Ticket)
      /\ d.fog \in [Fog -> {"absent", "patch", "graduated"}]
      /\ r.fog \in [Fog -> {"absent", "patch", "graduated"}]
      /\ d.excluded \in SUBSET (Ticket \cup {None}) /\ r.excluded \in SUBSET (Ticket \cup {None})
      /\ d.tickets \in [Ticket -> TicketRow] /\ r.tickets \in [Ticket -> TicketRow]
  BY DEF Db
<1>2. d.map = r.map
  <2>1. Event("map_created", None) \in Marks
    BY DEF Marks
  <2>. QED  BY <1>1, <2>1, EventsDiffer, ShownIn
<1>3. d.edges = r.edges
  <2>1. ASSUME NEW t \in Ticket, NEW u \in Ticket
        PROVE  <<t, u>> \in d.edges <=> <<t, u>> \in r.edges
    <3>1. EdgeAdded(t, u) \in Marks
      BY DEF Marks
    <3>2. /\ EdgeAdded(t, u).kind = "edge_added"
          /\ EdgeAdded(t, u).id = t /\ EdgeAdded(t, u).blocked = u
      BY DEF EdgeAdded, Event
    <3>3. /\ Shown(d, EdgeAdded(t, u)) <=> <<t, u>> \in d.edges
          /\ Shown(r, EdgeAdded(t, u)) <=> <<t, u>> \in r.edges
      BY <3>2, ShownIn
    <3>. QED  BY <3>1, <3>3
  <2>2. \A x \in Ticket \X Ticket : x \in d.edges <=> x \in r.edges
    BY <2>1
  <2>. QED  BY <1>1, <2>2
<1>4. ASSUME NEW f \in Fog PROVE d.fog[f] = r.fog[f]
  <2>1. Event("fog_added", f) \in Marks /\ Event("fog_graduated", f) \in Marks
    BY DEF Marks
  <2>2. (d.fog[f] # "absent" <=> r.fog[f] # "absent")
        /\ (d.fog[f] = "graduated" <=> r.fog[f] = "graduated")
    BY <2>1, EventsDiffer, ShownIn
  <2>3. d.fog[f] \in {"absent", "patch", "graduated"} /\ r.fog[f] \in {"absent", "patch", "graduated"}
    BY <1>1
  <2>. QED  BY <2>2, <2>3
<1>5. d.excluded = r.excluded
  <2>1. ASSUME NEW t \in Ticket \cup {None} PROVE t \in d.excluded <=> t \in r.excluded
    <3>1. Event("scope_exclusion_added", t) \in Marks
      BY DEF Marks
    <3>. QED  BY <3>1, EventsDiffer, ShownIn
  <2>. QED  BY <1>1, <2>1
<1>6. d.tickets = r.tickets /\ d.fog = r.fog
  BY <1>1, <1>4
<1>. QED  BY <1>2, <1>3, <1>5, <1>6 DEF Db

-----------------------------------------------------------------------------
(* The running calls.                                                      *)

\* Each append is followed by the apply of its event, but for a claim, which
\* ends its call; an exclusion alone has more to write after it.
Shape(steps) ==
    \A i \in 1..Len(steps) :
        /\ steps[i].op \in {"append", "apply"} /\ steps[i].ev.status # "open"
        /\ steps[i].op = "append" =>
              IF steps[i].ev.status = "claimed" THEN i = Len(steps)
              ELSE i < Len(steps) /\ steps[i + 1] = Do("apply", steps[i].ev)
        /\ steps[i].op = "apply" =>
              /\ steps[i].ev.status # "claimed"
              /\ steps[i].ev.kind # "scope_exclusion_added" => i = Len(steps)
              /\ i < Len(steps) => steps[i + 1].op = "append" /\ steps[i + 1].ev.status # "claimed"

\* What a session has still to write fits the database: it creates what is
\* not there, builds on what is, and updates a ticket that it claimed.
Fits(st, s, d) ==
    /\ FogFits(d, st.ev)
    /\ st.ev.kind = "map_created" => ~d.map
    /\ st.ev.kind = "ticket_created" => d.map /\ ~Exists(d, st.ev.id)
    /\ st.ev.kind = "edge_added" => Exists(d, st.ev.id) /\ Exists(d, st.ev.blocked)
    /\ st.ev.kind = "ticket_updated" =>
          /\ Exists(d, st.ev.id) /\ d.tickets[st.ev.id].claimed_by = s
          /\ Callers["scope_exclude"] = {} /\ st.op = "append" /\ st.ev.status # "claimed" =>
                d.tickets[st.ev.id].status \notin Terminal

Heads(steps, op, e) == steps # <<>> /\ steps[1] = Do(op, e)

\* The rebuilt database r shows what d does and what is about to be applied.
MarksAgree(td, d, r) ==
    \A m \in Marks : Shown(r, m) <=> Shown(d, m) \/ \E s \in Session : Heads(td[s], "apply", m)

\* The first step is an update that the journal has and d has not, or a claim
\* that d has and the journal has not.
Writing(steps, t) ==
    /\ steps # <<>> /\ OnTicket(steps[1].ev, t)
    /\ steps[1].op = "apply" \/ steps[1].ev.status = "claimed"

RowsAgree(td, d, r) ==
    \A t \in Ticket :
        /\ \A s \in Session : Writing(td[s], t) =>
              IF td[s][1].op = "apply" THEN r.tickets[t] = RowAfter(d.tickets[t], td[s][1].ev)
              ELSE r.tickets[t].status = "open" /\ d.tickets[t] = RowAfter(r.tickets[t], td[s][1].ev)
        /\ (\A s \in Session : ~Writing(td[s], t)) => r.tickets[t] = d.tickets[t]

\* No two sessions create the same thing.
Distinct(td) ==
    \A q, s \in Session : \A i \in 1..Len(td[q]), j \in 1..Len(td[s]) :
        td[q][i].ev = td[s][j].ev /\ td[q][i].ev \in Creation => q = s

SettleInv ==
    /\ stale = {}
    /\ \A s \in Session : Shape(todo[s]) /\ \A i \in 1..Len(todo[s]) : Fits(todo[s][i], s, db)
    /\ Distinct(todo)
    /\ \A s \in Session, t \in Ticket :
          lease[s][t] # 0 => Exists(db, t) /\ db.tickets[t].claimed_by = s
    /\ \A t \in Ticket : db.tickets[t].status = "open" => db.tickets[t].claimed_by = None
    /\ MarksAgree(todo, db, Replay(journal))
    /\ RowsAgree(todo, db, Replay(journal))

\* Each session closes only what it claimed; nobody reaps, rebuilds or writes
\* a charted map.
OwnersClose ==
    /\ \A tool \in {"reap_expired", "map_rebuild", "write_map"} : Callers[tool] = {}
    /\ \A tool \in {"ticket_resolve", "ticket_invalidate", "scope_exclude"} :
          Callers[tool] = {} \/ tool \in OwnTicketsOnly

LEMMA ShapeRecord ==
    ASSUME NEW e, e.status \notin {"claimed", "open"}
    PROVE  Shape(Record(e))
<1>1. /\ Len(Record(e)) = 2 /\ Record(e)[1] = Do("append", e) /\ Record(e)[2] = Do("apply", e)
      /\ Record(e)[1].op = "append" /\ Record(e)[1].ev = e
      /\ Record(e)[2].op = "apply" /\ Record(e)[2].ev = e
  BY RecordSteps
<1>. DEFINE steps == Record(e)
<1>. HIDE DEF steps
<1>2. ASSUME NEW i \in 1..Len(steps) PROVE i = 1 \/ i = 2
  BY <1>1 DEF steps
<1>3. Shape(steps)
  <2>1. /\ Len(steps) = 2 /\ steps[2] = Do("apply", e) /\ steps[1].op = "append" /\ steps[1].ev = e
        /\ steps[2].op = "apply" /\ steps[2].ev = e
    BY <1>1 DEF steps
  <2>. QED  BY <1>2, <2>1 DEF Shape
<1>. QED  BY <1>3 DEF steps

LEMMA TailShape ==
    ASSUME NEW steps \in Seq(WrittenStep), steps # <<>>, Shape(steps)
    PROVE  /\ Shape(Tail(steps))
           /\ \A i \in 1..Len(Tail(steps)) : i + 1 \in 1..Len(steps) /\ Tail(steps)[i] = steps[i + 1]
           /\ Tail(steps) # <<>> => Tail(steps)[1] = steps[2] /\ Len(steps) > 1
           /\ 1 \in 1..Len(steps)
<1>1. /\ Tail(steps) \in Seq(WrittenStep) /\ Len(steps) \in Nat \ {0}
      /\ Len(Tail(steps)) = Len(steps) - 1
      /\ \A i \in 1..Len(Tail(steps)) : i + 1 \in 2..Len(steps) /\ Tail(steps)[i] = steps[i + 1]
  BY TailOf
<1>2. \A i \in 1..Len(Tail(steps)) : /\ i + 1 \in 1..Len(steps) /\ Tail(steps)[i] = steps[i + 1]
                                     /\ (i = Len(Tail(steps)) <=> i + 1 = Len(steps))
                                     /\ (i < Len(Tail(steps)) <=> i + 1 < Len(steps))
  BY <1>1
<1>3. \A i \in 1..Len(Tail(steps)) : i < Len(Tail(steps)) =>
          i + 1 \in 1..Len(Tail(steps)) /\ Tail(steps)[i + 1] = steps[(i + 1) + 1]
  BY <1>1
<1>4. Tail(steps) # <<>> => 1 \in 1..Len(Tail(steps)) /\ Len(steps) > 1 /\ 1 + 1 = 2
  BY <1>1
<1>5. ASSUME NEW tail, tail = Tail(steps) PROVE Shape(tail)
  <2>1. ASSUME NEW i \in 1..Len(tail)
        PROVE  /\ tail[i].op \in {"append", "apply"} /\ tail[i].ev.status # "open"
               /\ tail[i].op = "append" =>
                     IF tail[i].ev.status = "claimed" THEN i = Len(tail)
                     ELSE i < Len(tail) /\ tail[i + 1] = Do("apply", tail[i].ev)
               /\ tail[i].op = "apply" =>
                     /\ tail[i].ev.status # "claimed"
                     /\ tail[i].ev.kind # "scope_exclusion_added" => i = Len(tail)
                     /\ i < Len(tail) => tail[i + 1].op = "append" /\ tail[i + 1].ev.status # "claimed"
    <3>. DEFINE k == i + 1
    <3>1. /\ k \in 1..Len(steps) /\ tail[i] = steps[k]
          /\ (i = Len(tail) <=> k = Len(steps)) /\ (i < Len(tail) <=> k < Len(steps))
          /\ (i < Len(tail) => tail[i + 1] = steps[k + 1])
      BY <1>2, <1>3, <1>5
    <3>2. /\ steps[k].op \in {"append", "apply"} /\ steps[k].ev.status # "open"
          /\ steps[k].op = "append" =>
                IF steps[k].ev.status = "claimed" THEN k = Len(steps)
                ELSE k < Len(steps) /\ steps[k + 1] = Do("apply", steps[k].ev)
          /\ steps[k].op = "apply" =>
                /\ steps[k].ev.status # "claimed"
                /\ steps[k].ev.kind # "scope_exclusion_added" => k = Len(steps)
                /\ k < Len(steps) => steps[k + 1].op = "append" /\ steps[k + 1].ev.status # "claimed"
      <4>1. k \in 1..Len(steps)
        BY <3>1
      <4>. HIDE DEF k
      <4>. QED  BY <4>1 DEF Shape
    <3>. HIDE DEF k
    <3>. QED  BY <3>1, <3>2
  <2>. QED  BY <2>1 DEF Shape
<1>6. Tail(steps) # <<>> => Tail(steps)[1] = steps[2] /\ Len(steps) > 1
  <2>1. 1 \in 1..Len(Tail(steps)) => Tail(steps)[1] = steps[1 + 1]
    BY <1>2
  <2>. QED  BY <1>4, <2>1
<1>7. Shape(Tail(steps))
  BY <1>5
<1>8. 1 \in 1..Len(steps)
  BY <1>1
<1>9. \A i \in 1..Len(Tail(steps)) : i + 1 \in 1..Len(steps) /\ Tail(steps)[i] = steps[i + 1]
  BY <1>2
<1>. QED  BY <1>6, <1>7, <1>8, <1>9

\* What another call has to write still fits once an event is applied, and
\* so does what this call has to write after an exclusion.
LEMMA FitsStays ==
    ASSUME NEW d \in Db, NEW st \in WrittenStep, NEW r, Fits(st, r, d),
           NEW a \in WrittenStep, NEW s, Fits(a, s, d), a.op = "apply",
           st.ev = a.ev => a.ev \notin Creation,
           a.ev.kind = "ticket_updated" => r # s
    PROVE  Fits(st, r, Apply(d, a.ev))
<1>. DEFINE e == a.ev
            c == Apply(d, e)
            w == st.ev
<1>0. e \in Written /\ w \in Written
  BY DEF WrittenStep
<1>1. FogFits(d, e) /\ (e.kind = "ticket_updated" => Exists(d, e.id))
  BY DEF Fits
<1>2. /\ c.map = (d.map \/ e.kind = "map_created")
      /\ \A t \in Ticket : c.tickets[t] =
             IF OnTicket(e, t) THEN RowAfter(d.tickets[t], e) ELSE d.tickets[t]
      /\ \A f \in Fog : c.fog[f] =
             IF e.kind = "fog_added" /\ e.id = f THEN "patch"
             ELSE IF e.kind = "fog_graduated" /\ e.id = f THEN "graduated" ELSE d.fog[f]
  BY <1>0, <1>1, ApplyFields
<1>3. \A t \in Ticket : Exists(d, t) => Exists(c, t)
  BY <1>0, ExistsStays
<1>4. /\ e.kind = "map_created" => e = Event("map_created", None) /\ e \in Creation
      /\ e.kind = "ticket_created" =>
            e.id \in Ticket /\ e = Event("ticket_created", e.id) /\ e \in Creation
      /\ e.kind = "fog_added" => e.id \in Fog /\ e = Event("fog_added", e.id) /\ e \in Creation
      /\ e.kind = "ticket_updated" => e.id \in Ticket
  BY <1>0, WrittenKinds, EventsDiffer DEF Creation
<1>5. /\ w.kind = "map_created" => w = Event("map_created", None)
      /\ w.kind = "ticket_created" => w.id \in Ticket /\ w = Event("ticket_created", w.id)
      /\ w.kind \in {"fog_added", "fog_graduated"} => w.id \in Fog /\ w = Event(w.kind, w.id)
      /\ w.kind = "edge_added" => w.id \in Ticket /\ w.blocked \in Ticket
      /\ w.kind = "ticket_updated" => w.id \in Ticket
  BY <1>0, WrittenKinds, EventsDiffer
<1>6. /\ FogFits(d, w) /\ (w.kind = "map_created" => ~d.map)
      /\ w.kind = "ticket_created" => d.map /\ ~Exists(d, w.id)
      /\ w.kind = "edge_added" => Exists(d, w.id) /\ Exists(d, w.blocked)
      /\ w.kind = "ticket_updated" =>
          /\ Exists(d, w.id) /\ d.tickets[w.id].claimed_by = r
          /\ Callers["scope_exclude"] = {} /\ st.op = "append" /\ w.status # "claimed" =>
                d.tickets[w.id].status \notin Terminal
  BY DEF Fits
<1>7. /\ e.kind = "ticket_created" => ~Exists(d, e.id)
      /\ e.kind = "ticket_updated" => Exists(d, e.id) /\ d.tickets[e.id].claimed_by = s
  BY DEF Fits
<1>8. w = e => e \notin Creation
  OBVIOUS
<1>9. e.kind = "ticket_updated" => r # s
  OBVIOUS
<1>. HIDE DEF c, e, w
<1>10. FogFits(c, w)
  BY <1>1, <1>2, <1>4, <1>5, <1>6, <1>8 DEF FogFits
<1>11. w.kind = "map_created" => ~c.map
  BY <1>2, <1>4, <1>5, <1>6, <1>8
<1>12. ASSUME w.kind = "ticket_created" PROVE c.map /\ ~Exists(c, w.id)
  <2>1. ~OnTicket(e, w.id)
    BY <1>4, <1>5, <1>6, <1>7, <1>8, <1>12 DEF OnTicket
  <2>. QED  BY <1>2, <1>5, <1>6, <1>12, <2>1 DEF Exists
<1>13. w.kind = "edge_added" => Exists(c, w.id) /\ Exists(c, w.blocked)
  BY <1>3, <1>5, <1>6
<1>14. ASSUME w.kind = "ticket_updated" PROVE Exists(c, w.id) /\ c.tickets[w.id] = d.tickets[w.id]
  <2>1. ~OnTicket(e, w.id)
    BY <1>6, <1>7, <1>9, <1>14 DEF OnTicket
  <2>. QED  BY <1>2, <1>3, <1>5, <1>6, <1>14, <2>1
<1>15. w.kind = "ticket_updated" =>
          /\ Exists(c, w.id) /\ c.tickets[w.id].claimed_by = r
          /\ Callers["scope_exclude"] = {} /\ st.op = "append" /\ w.status # "claimed" =>
                c.tickets[w.id].status \notin Terminal
  BY <1>6, <1>14
<1>16. Fits(st, r, c)
  BY <1>10, <1>11, <1>12, <1>13, <1>15 DEF Fits, w
<1>. QED  BY <1>16 DEF c, e

\* An event that fits passes the database's checks.
LEMMA FitsApplies ==
    ASSUME NEW d, NEW st, NEW s, Fits(st, s, d)
    PROVE  CanApply(d, st.ev) /\ FogFits(d, st.ev)
           /\ (st.ev.kind = "ticket_updated" => Exists(d, st.ev.id))
BY DEF Fits, FogFits, CanApply

\* A ticket that one session is about to write no other is.
LEMMA SoleWriter ==
    ASSUME Inv, SettleInv, NEW q \in Session, NEW s \in Session, NEW t \in Ticket,
           NEW i \in 1..Len(todo[q]), NEW j \in 1..Len(todo[s]),
           OnTicket(todo[q][i].ev, t), OnTicket(todo[s][j].ev, t)
    PROVE  q = s
<1>1. Fits(todo[q][i], q, db) /\ Fits(todo[s][j], s, db)
  BY DEF SettleInv
<1>2. todo[q][i].ev \in Written /\ todo[s][j].ev \in Written
  <2>1. todo[q][i] \in WrittenStep /\ todo[s][j] \in WrittenStep
    BY DEF Inv
  <2>. QED  BY <2>1 DEF WrittenStep
<1>3. CASE todo[q][i].ev.kind = "ticket_created" /\ todo[s][j].ev.kind = "ticket_created"
  <2>1. todo[q][i].ev = Event("ticket_created", t) /\ todo[s][j].ev = Event("ticket_created", t)
    BY <1>2, <1>3, WrittenKinds, EventsDiffer DEF OnTicket
  <2>2. Event("ticket_created", t) \in Creation
    BY DEF Creation
  <2>. QED  BY <2>1, <2>2 DEF SettleInv, Distinct
<1>4. CASE todo[q][i].ev.kind # todo[s][j].ev.kind
  BY <1>1, <1>4 DEF OnTicket, Fits
<1>5. CASE todo[q][i].ev.kind = "ticket_updated" /\ todo[s][j].ev.kind = "ticket_updated"
  BY <1>1, <1>5 DEF OnTicket, Fits
<1>. QED  BY <1>3, <1>4, <1>5 DEF OnTicket

\* A call that leaves the database alone: what it writes fits, and is its own.
LEMMA SettleCall ==
    ASSUME Inv, SettleInv, NEW s \in Session, NEW steps, todo[s] = <<>>,
           todo' = [todo EXCEPT ![s] = steps], db' = db, journal' = journal, lease' = lease,
           stale' = stale \ {s}, Shape(steps), \A i \in 1..Len(steps) : Fits(steps[i], s, db),
           steps # <<>> => steps[1].op = "append" /\ steps[1].ev.status # "claimed",
           \A i \in 1..Len(steps) : steps[i].ev \in Creation => Fresh(steps[i].ev.kind, steps[i].ev.id)
    PROVE  SettleInv'
<1>1. todo'[s] = steps /\ \A r \in Session \ {s} : todo'[r] = todo[r]
  BY DEF Inv
<1>2. \A r \in Session : Shape(todo'[r]) /\ \A i \in 1..Len(todo'[r]) : Fits(todo'[r][i], r, db)
  BY <1>1 DEF SettleInv
<1>3. ASSUME NEW i \in 1..Len(steps), steps[i].ev \in Creation,
             NEW r \in Session, NEW j \in 1..Len(todo[r]), steps[i].ev = todo[r][j].ev
      PROVE  FALSE
  <2>1. steps[i].ev = Event(steps[i].ev.kind, steps[i].ev.id)
    BY <1>3, EventsDiffer DEF Creation
  <2>2. todo[r][j].ev \in Mentioned
    BY DEF Mentioned, Steps
  <2>. QED  BY <1>3, <2>1, <2>2 DEF Fresh
<1>4. Distinct(todo')
  <2>1. ASSUME NEW q \in Session, NEW r \in Session, NEW i \in 1..Len(todo'[q]),
               NEW j \in 1..Len(todo'[r]), todo'[q][i].ev = todo'[r][j].ev,
               todo'[q][i].ev \in Creation
        PROVE  q = r
    <3>1. CASE q # s /\ r # s
      BY <1>1, <2>1, <3>1 DEF SettleInv, Distinct
    <3>2. CASE q = s /\ r # s
      BY <1>1, <1>3, <2>1, <3>2
    <3>3. CASE q # s /\ r = s
      BY <1>1, <1>3, <2>1, <3>3
    <3>. QED  BY <3>1, <3>2, <3>3
  <2>. QED  BY <2>1 DEF Distinct
<1>5. \A r \in Session : \A m : Heads(todo'[r], "apply", m) <=> Heads(todo[r], "apply", m)
  <2>1. \A m : ~Heads(steps, "apply", m)
    BY DEF Heads, Do
  <2>. QED  BY <1>1, <2>1 DEF Heads
<1>6. MarksAgree(todo', db, Replay(journal))
  BY <1>5 DEF SettleInv, MarksAgree
<1>7. \A r \in Session, t \in Ticket : /\ Writing(todo'[r], t) <=> Writing(todo[r], t)
                                       /\ Writing(todo'[r], t) => todo'[r] = todo[r]
  <2>1. \A t \in Ticket : ~Writing(steps, t)
    BY DEF Writing
  <2>. QED  BY <1>1, <2>1 DEF Writing
<1>8. RowsAgree(todo', db, Replay(journal))
  BY <1>7 DEF SettleInv, RowsAgree
<1>. QED  BY <1>2, <1>4, <1>6, <1>8 DEF SettleInv

\* Two pairs of steps, one after the other.
LEMMA ConcatTwo ==
    ASSUME NEW S, NEW p \in Seq(S), NEW q \in Seq(S)
    PROVE  Len(p) = 2 /\ Len(q) = 2 =>
              /\ Len(p \o q) = 4 /\ (p \o q)[1] = p[1] /\ (p \o q)[2] = p[2]
              /\ (p \o q)[3] = q[1] /\ (p \o q)[4] = q[2]
<1>. DEFINE c == p \o q
<1>1. /\ Len(c) = Len(p) + Len(q) /\ \A i \in 1..Len(p) : c[i] = p[i]
  OBVIOUS
<1>2. \A i \in 1..Len(q) : c[Len(p) + i] = q[i]
  OBVIOUS
<1>. SUFFICES Len(p) = 2 /\ Len(q) = 2 =>
                 Len(c) = 4 /\ c[1] = p[1] /\ c[2] = p[2] /\ c[3] = q[1] /\ c[4] = q[2]
  OBVIOUS
<1>. HIDE DEF c
<1>3. /\ 1 \in 1..2 /\ 2 \in 1..2 /\ 2 + 1 = 3 /\ 2 + 2 = 4
  OBVIOUS
<1>. QED  BY <1>1, <1>2, <1>3

\* A closing is the session's own: it claimed the ticket.
LEMMA OwnerFits ==
    ASSUME Inv, SettleInv, NEW s \in Session, NEW t \in Ticket, lease[s][t] # 0,
           NEW status \in Terminal, NEW by, NEW op,
           Callers["scope_exclude"] = {} => db.tickets[t].status \notin Terminal
    PROVE  Fits(Do(op, Closed(t, status, by)), s, db)
<1>1. Exists(db, t) /\ db.tickets[t].claimed_by = s
  BY DEF SettleInv
<1>2. /\ Closed(t, status, by).kind = "ticket_updated" /\ Closed(t, status, by).id = t
      /\ Closed(t, status, by).status = status
  BY UpdateEvents
<1>3. Do(op, Closed(t, status, by)).ev = Closed(t, status, by)
  BY DEF Do
<1>. QED  BY <1>1, <1>2, <1>3 DEF Fits, FogFits

LEMMA SettleToolCall ==
    ASSUME Inv, SettleInv, NEW s \in Session, ToolCall(s), OwnersClose,
           \A t \in Ticket : ~TicketClaim(s, t)
    PROVE  SettleInv'
<1>0. /\ BackedBy(db, Steps(journal)) /\ db \in Db
      /\ \A e : e \notin Mentioned => e \notin Steps(journal)
  BY DEF Inv, TypeOK, Mentioned
<1>. DEFINE SteadyEvent(e) == e.status \notin {"claimed", "open"}
<1>1. ASSUME NEW e, SteadyEvent(e), NEW tool, Call(tool, s, Record(e)), db' = db,
             \A op \in {"append", "apply"} : Fits(Do(op, e), s, db),
             e \in Creation => Fresh(e.kind, e.id)
      PROVE  SettleInv'
  <2>1. Shape(Record(e))
    BY <1>1, ShapeRecord
  <2>2. ASSUME NEW i \in 1..Len(Record(e))
        PROVE  Record(e)[i].ev = e /\ Fits(Record(e)[i], s, db)
    <3>1. i \in 1..2
      BY RecordSteps
    <3>. QED  BY <1>1, <3>1, RecordSteps
  <2>3. Record(e)[1].op = "append" /\ Record(e)[1].ev = e
    BY RecordSteps
  <2>4. /\ todo[s] = <<>> /\ todo' = [todo EXCEPT ![s] = Record(e)] /\ journal' = journal
        /\ lease' = lease /\ stale' = stale \ {s}
    BY <1>1 DEF Call, Idle
  <2>. QED  BY <1>1, <2>1, <2>2, <2>3, <2>4, SettleCall
<1>2. ASSUME NEW k, NEW x PROVE SteadyEvent(Event(k, x)) /\ Event(k, x).kind = k /\ Event(k, x).id = x
  <2>1. Event(k, x).status = None
    BY DEF Event
  <2>2. None \notin {"claimed", "open"}
    BY NoneIsNoStatus DEF TicketStatus
  <2>. QED  BY <2>1, <2>2, EventsDiffer
<1>3. CASE MapCreate(s)
  <2>. DEFINE e == Event("map_created", None)
  <2>1. Call("map_create", s, Record(e)) /\ db' = db /\ Fresh("map_created", None)
    BY <1>3 DEF MapCreate
  <2>2. ~db.map
    BY <1>0, <2>1 DEF Fresh, BackedBy
  <2>3. \A op : Do(op, e).ev = e /\ e.kind = "map_created" /\ e.id = None
    BY <1>2 DEF Do
  <2>. HIDE DEF e
  <2>4. \A op : Fits(Do(op, e), s, db)
    BY <2>2, <2>3 DEF Fits, FogFits
  <2>5. SteadyEvent(e)
    BY <1>2 DEF e
  <2>. QED  BY <1>1, <2>1, <2>3, <2>4, <2>5
<1>4. ASSUME NEW t \in Ticket, TicketCreate(s, t) PROVE SettleInv'
  <2>. DEFINE e == Event("ticket_created", t)
  <2>1. /\ Call("ticket_create", s, Record(e)) /\ db' = db /\ Fresh("ticket_created", t) /\ db.map
    BY <1>4 DEF TicketCreate
  <2>2. ~Exists(db, t)
    BY <1>0, <2>1 DEF Fresh, BackedBy, Exists
  <2>3. \A op : Do(op, e).ev = e /\ e.kind = "ticket_created" /\ e.id = t
    BY <1>2 DEF Do
  <2>. HIDE DEF e
  <2>4. \A op : Fits(Do(op, e), s, db)
    BY <2>1, <2>2, <2>3 DEF Fits, FogFits
  <2>5. SteadyEvent(e)
    BY <1>2 DEF e
  <2>. QED  BY <1>1, <2>1, <2>3, <2>4, <2>5
<1>5. ASSUME NEW f \in Fog, FogWrite(s, f) PROVE SettleInv'
  <2>. DEFINE e == Event("fog_added", f)
  <2>1. Call("fog_write", s, Record(e)) /\ db' = db /\ Fresh("fog_added", f)
    BY <1>5 DEF FogWrite
  <2>2. db.fog[f] = "absent"
    BY <1>0, <2>1 DEF Fresh, BackedBy
  <2>3. \A op : Do(op, e).ev = e /\ e.kind = "fog_added" /\ e.id = f
    BY <1>2 DEF Do
  <2>. HIDE DEF e
  <2>4. \A op : Fits(Do(op, e), s, db)
    BY <2>2, <2>3 DEF Fits, FogFits
  <2>5. SteadyEvent(e)
    BY <1>2 DEF e
  <2>. QED  BY <1>1, <2>1, <2>3, <2>4, <2>5
<1>6. ASSUME NEW f \in Fog, FogGraduate(s, f) PROVE SettleInv'
  <2>. DEFINE e == Event("fog_graduated", f)
  <2>1. Call("fog_graduate", s, Record(e)) /\ db' = db /\ db.fog[f] = "patch"
    BY <1>6 DEF FogGraduate
  <2>3. \A op : Do(op, e).ev = e /\ e.kind = "fog_graduated" /\ e.id = f
    BY <1>2 DEF Do
  <2>. HIDE DEF e
  <2>4. \A op : Fits(Do(op, e), s, db)
    BY <2>1, <2>3 DEF Fits, FogFits
  <2>5. SteadyEvent(e) /\ e \notin Creation
    BY <1>2, <2>3, CreationKinds DEF e
  <2>. QED  BY <1>1, <2>1, <2>3, <2>4, <2>5
<1>7. ASSUME NEW t \in Ticket, NEW u \in Ticket, TicketBlock(s, t, u) PROVE SettleInv'
  <2>. DEFINE e == EdgeAdded(t, u)
  <2>1. Call("ticket_block", s, Record(e)) /\ db' = db /\ Exists(db, t) /\ Exists(db, u)
    BY <1>7 DEF TicketBlock
  <2>3. \A op : /\ Do(op, e).ev = e /\ e.kind = "edge_added" /\ e.id = t /\ e.blocked = u
                /\ e.status = None
    BY DEF Do, EdgeAdded, Event
  <2>. HIDE DEF e
  <2>4. \A op : Fits(Do(op, e), s, db)
    BY <2>1, <2>3 DEF Fits, FogFits
  <2>5. SteadyEvent(e) /\ e \notin Creation
    <3>1. None \notin {"claimed", "open"}
      BY NoneIsNoStatus DEF TicketStatus
    <3>. QED  BY <2>3, <3>1, CreationKinds
  <2>. QED  BY <1>1, <2>1, <2>4, <2>5
<1>8. ASSUME NEW t \in Ticket, TicketResolve(s, t) \/ TicketInvalidate(s, t) PROVE SettleInv'
  <2>1. PICK status \in {"resolved", "invalidated"}, tool \in {"ticket_resolve", "ticket_invalidate"} :
           /\ RequireNotTerminal(t) /\ OwnsIfAsked(tool, s, t)
           /\ Call(tool, s, Record(Closed(t, status, s))) /\ db' = db
    BY <1>8 DEF TicketResolve, TicketInvalidate
  <2>. DEFINE e == Closed(t, status, s)
  <2>2. lease[s][t] # 0
    <3>1. s \in Callers[tool]
      BY <2>1 DEF Call
    <3>. QED  BY <2>1, <3>1 DEF OwnersClose, OwnsIfAsked
  <2>3. db.tickets[t].status \notin Terminal
    BY <2>1 DEF RequireNotTerminal, Terminal
  <2>4. \A op : Fits(Do(op, e), s, db)
    <3>1. status \in Terminal
      BY DEF Terminal
    <3>. QED  BY <2>2, <2>3, <3>1, OwnerFits
  <2>5. SteadyEvent(e) /\ e \notin Creation
    <3>1. e.kind = "ticket_updated" /\ e.status \in {"resolved", "invalidated"}
      BY UpdateEvents
    <3>. QED  BY <3>1, CreationKinds
  <2>. HIDE DEF e
  <2>6. Call(tool, s, Record(e))
    BY <2>1 DEF e
  <2>. QED  BY <1>1, <2>1, <2>4, <2>5, <2>6
<1>9. ASSUME NEW t \in Ticket \cup {None}, ScopeExclude(s, t) PROVE SettleInv'
  <2>. DEFINE e == Event("scope_exclusion_added", t)
              c == Closed(t, "out_of_scope", None)
              close == IF t = None THEN <<>> ELSE Record(c)
  <2>1. /\ Call("scope_exclude", s, Record(e) \o close) /\ db' = db
        /\ t # None => OwnsIfAsked("scope_exclude", s, t)
    BY <1>9 DEF ScopeExclude
  <2>2. s \in Callers["scope_exclude"]
    BY <2>1 DEF Call
  <2>3. \A op : Do(op, e).ev = e /\ e.kind = "scope_exclusion_added"
    BY <1>2 DEF Do
  <2>4. SteadyEvent(e) /\ e \notin Creation
    BY <1>2, <2>3, CreationKinds
  <2>5. \A op : Fits(Do(op, e), s, db)
    <3>. HIDE DEF e
    <3>. QED  BY <2>3 DEF Fits, FogFits
  <2>6. CASE t = None
    <3>1. Record(e) \o close = Record(e)
      BY <2>6 DEF Record
    <3>2. Call("scope_exclude", s, Record(e)) /\ db' = db
      BY <2>1, <3>1
    <3>. HIDE DEF e
    <3>. QED  BY <1>1, <2>4, <2>5, <3>2
  <2>7. CASE t # None
    <3>. DEFINE steps == Record(e) \o Record(c)
    <3>1. Record(e) \o close = steps
      BY <2>7
    <3>2. lease[s][t] # 0 /\ t \in Ticket
      BY <2>1, <2>2, <2>7 DEF OwnersClose, OwnsIfAsked
    <3>3. \A op : Fits(Do(op, c), s, db) /\ Do(op, c).ev = c
      <4>1. "out_of_scope" \in Terminal /\ Callers["scope_exclude"] # {}
        BY <2>2 DEF Terminal
      <4>. QED  BY <3>2, <4>1, OwnerFits DEF Do
    <3>4. SteadyEvent(c) /\ c \notin Creation /\ c.kind = "ticket_updated"
      <4>1. c.kind = "ticket_updated" /\ c.status = "out_of_scope"
        BY UpdateEvents
      <4>. QED  BY <4>1, CreationKinds
    <3>. HIDE DEF e, c
    <3>5. /\ Len(steps) = 4 /\ steps[1] = Do("append", e) /\ steps[2] = Do("apply", e)
          /\ steps[3] = Do("append", c) /\ steps[4] = Do("apply", c)
          /\ \A i \in 1..4 : i = 1 \/ i = 2 \/ i = 3 \/ i = 4
      <4>. DEFINE D == {Do(op, x) : op \in {"append", "apply"}, x \in {e, c}}
      <4>1. Record(e) \in Seq(D) /\ Record(c) \in Seq(D)
        BY DEF Record
      <4>. HIDE DEF D
      <4>. QED  BY <4>1, RecordSteps, ConcatTwo
    <3>6. \A op, x : Do(op, x).op = op /\ Do(op, x).ev = x
      BY DEF Do
    <3>. HIDE DEF steps
    <3>7. Shape(steps)
      <4>1. ASSUME NEW i \in 1..Len(steps)
            PROVE  /\ steps[i].op \in {"append", "apply"} /\ SteadyEvent(steps[i].ev)
                   /\ steps[i].op = "append" => i < Len(steps) /\ steps[i + 1] = Do("apply", steps[i].ev)
                   /\ steps[i].op = "apply" =>
                         /\ steps[i].ev.kind # "scope_exclusion_added" => i = Len(steps)
                         /\ i < Len(steps) => steps[i + 1].op = "append" /\ SteadyEvent(steps[i + 1].ev)
        <5>1. CASE i = 1
          BY <2>3, <2>4, <3>5, <3>6, <5>1
        <5>2. CASE i = 2
          BY <2>3, <2>4, <3>4, <3>5, <3>6, <5>2
        <5>3. CASE i = 3
          BY <3>4, <3>5, <3>6, <5>3
        <5>4. CASE i = 4
          BY <3>4, <3>5, <3>6, <5>4
        <5>. QED  BY <3>5, <5>1, <5>2, <5>3, <5>4
      <4>. QED  BY <4>1 DEF Shape
    <3>8. \A i \in 1..Len(steps) : Fits(steps[i], s, db) /\ steps[i].ev \notin Creation
      BY <2>4, <2>5, <3>3, <3>4, <3>5, <3>6
    <3>9. /\ todo[s] = <<>> /\ todo' = [todo EXCEPT ![s] = steps] /\ journal' = journal
          /\ lease' = lease /\ stale' = stale \ {s}
      BY <2>1, <3>1 DEF Call, Idle
    <3>10. steps[1].op = "append" /\ steps[1].ev.status # "claimed"
      BY <2>4, <3>5, <3>6
    <3>. QED  BY <2>1, <3>7, <3>8, <3>9, <3>10, SettleCall
  <2>. QED  BY <2>6, <2>7
<1>10. ~ReapExpired(s) /\ ~MapRebuild(s) /\ ~WriteMap(s)
  BY DEF OwnersClose, ReapExpired, MapRebuild, WriteMap, Call
<1>. QED  BY <1>3, <1>4, <1>5, <1>6, <1>7, <1>8, <1>9, <1>10 DEF ToolCall

\* The winning UPDATE of a claim: the database has it, the journal not yet.
LEMMA SettleClaim ==
    ASSUME Inv, SettleInv, NEW s \in Session, NEW t \in Ticket, TicketClaim(s, t)
    PROVE  SettleInv'
<1>. DEFINE e == Claimed(t, s, clock)
            steps == <<Do("append", e)>>
            r == Replay(journal)
<1>0. db \in Db /\ clock \in Nat \ {0} /\ todo \in [Session -> Seq(WrittenStep)]
  BY DEF Inv, TypeOK
<1>1. /\ db.tickets[t].status = "open" /\ db' = WithClaim(db, t, s, clock)
      /\ todo' = [todo EXCEPT ![s] = steps] /\ todo[s] = <<>> /\ journal' = journal
      /\ lease' = lease /\ stale' = stale \ {s}
  BY DEF TicketClaim, WithClaim, Call, Idle
<1>2. /\ db' \in Db /\ db'.tickets[t].status = "claimed" /\ db'.tickets[t].claimed_by = s
      /\ db'.tickets[t].claimed_at = clock /\ db'.tickets[t].resolution = db.tickets[t].resolution
      /\ \A u \in Ticket \ {t} : db'.tickets[u] = db.tickets[u]
      /\ db'.map = db.map /\ db'.edges = db.edges /\ db'.fog = db.fog
      /\ db'.excluded = db.excluded
  BY <1>0, <1>1, ClaimedRow
<1>3. db.tickets[t].claimed_by = None /\ None \notin Session /\ Exists(db, t)
  BY <1>1, NoneIsNoIdentifier DEF SettleInv, Exists
<1>4. \A u \in Ticket : Exists(db, u) <=> Exists(db', u)
  BY <1>1, <1>2 DEF Exists
<1>5. /\ e \in Written /\ e.kind = "ticket_updated" /\ e.id = t /\ e.status = "claimed"
      /\ e.claimed_by = s /\ e.claimed_at = clock /\ e.resolution = None
      /\ e.release_claim = FALSE
  BY <1>0, UpdateEvents
<1>6. /\ Len(steps) = 1 /\ steps[1] = Do("append", e) /\ steps[1].op = "append" /\ steps[1].ev = e
      /\ steps # <<>> /\ \A i \in 1..1 : i = 1
  BY DEF Do
<1>7. todo'[s] = steps /\ \A q \in Session \ {s} : todo'[q] = todo[q]
  BY <1>0, <1>1
<1>. HIDE DEF e, steps
<1>8. ASSUME NEW q \in Session, NEW i \in 1..Len(todo[q])
      PROVE  /\ Fits(todo[q][i], q, db') /\ ~OnTicket(todo[q][i].ev, t)
  <2>1. todo[q][i] \in WrittenStep
    BY <1>0
  <2>2. todo[q][i].ev \in Written
    BY <2>1 DEF WrittenStep
  <2>. DEFINE st == todo[q][i]
  <2>3. Fits(st, q, db)
    BY DEF SettleInv
  <2>4. /\ st.ev.kind = "ticket_updated" => st.ev.id \in Ticket
        /\ st.ev.kind = "edge_added" => st.ev.id \in Ticket /\ st.ev.blocked \in Ticket
        /\ st.ev.kind = "ticket_created" => st.ev.id \in Ticket
    BY <2>2, WrittenKinds, EventsDiffer
  <2>. HIDE DEF st
  <2>5. ~OnTicket(st.ev, t)
    BY <1>3, <2>3 DEF Fits, OnTicket
  <2>6. Fits(st, q, db')
    BY <1>2, <1>4, <2>3, <2>4, <2>5 DEF Fits, FogFits, OnTicket
  <2>. QED  BY <2>5, <2>6 DEF st
<1>9. ASSUME NEW q \in Session
      PROVE  Shape(todo'[q]) /\ \A i \in 1..Len(todo'[q]) : Fits(todo'[q][i], q, db')
  <2>1. Shape(steps)
    BY <1>5, <1>6 DEF Shape
  <2>2. Fits(steps[1], s, db')
    BY <1>2, <1>3, <1>4, <1>5, <1>6 DEF Fits, FogFits
  <2>. QED  BY <1>6, <1>7, <1>8, <2>1, <2>2 DEF SettleInv
<1>10. Distinct(todo')
  <2>1. e \notin Creation
    BY <1>5, CreationKinds
  <2>. QED  BY <1>6, <1>7, <2>1 DEF SettleInv, Distinct
<1>11. \A q \in Session, u \in Ticket : lease[q][u] # 0 => Exists(db', u) /\ db'.tickets[u].claimed_by = q
  BY <1>2, <1>3, <1>4 DEF SettleInv
<1>12. \A u \in Ticket : db'.tickets[u].status = "open" => db'.tickets[u].claimed_by = None
  BY <1>2 DEF SettleInv
<1>13. MarksAgree(todo', db', r)
  <2>1. \A m : Shown(db', m) <=> Shown(db, m)
    BY <1>2 DEF Shown
  <2>2. \A m : ~Heads(steps, "apply", m) /\ ~Heads(todo[s], "apply", m)
    BY <1>1, <1>6 DEF Heads, Do
  <2>3. \A q \in Session : \A m : Heads(todo'[q], "apply", m) <=> Heads(todo[q], "apply", m)
    BY <1>7, <2>2
  <2>. QED  BY <2>1, <2>3 DEF SettleInv, MarksAgree
<1>14. RowsAgree(todo', db', r)
  <2>1. \A u \in Ticket \ {t} : ~Writing(steps, u) /\ ~Writing(todo[s], u)
    BY <1>1, <1>5, <1>6 DEF Writing, OnTicket
  <2>2. \A q \in Session : ~Writing(todo[q], t)
    <3>1. \A q \in Session : todo[q] # <<>> => 1 \in 1..Len(todo[q])
      <4>1. \A q \in Session : todo[q] # <<>> => Len(todo[q]) \in Nat \ {0}
        BY <1>0, TailOf
      <4>. QED  BY <4>1
    <3>. QED  BY <1>8, <3>1 DEF Writing
  <2>3. r.tickets[t] = db.tickets[t]
    BY <2>2 DEF SettleInv, RowsAgree
  <2>4. db'.tickets[t] = RowAfter(db.tickets[t], e)
    <3>1. RowAfter(db.tickets[t], e) = [status |-> "claimed", claimed_by |-> s, claimed_at |-> clock,
                                        resolution |-> db.tickets[t].resolution]
      <4>1. None # "claimed" /\ s # None /\ clock # 0
        BY <1>0, <1>3, NoneIsNoStatus DEF TicketStatus
      <4>. QED  BY <1>5, <4>1 DEF RowAfter, UpdateRow, Coalesce
    <3>2. db'.tickets[t] \in TicketRow
      BY <1>2 DEF Db
    <3>. QED  BY <1>2, <3>1, <3>2 DEF TicketRow
  <2>5. ASSUME NEW u \in Ticket, NEW q \in Session, Writing(todo'[q], u)
        PROVE  IF todo'[q][1].op = "apply" THEN r.tickets[u] = RowAfter(db'.tickets[u], todo'[q][1].ev)
               ELSE r.tickets[u].status = "open" /\ db'.tickets[u] = RowAfter(r.tickets[u], todo'[q][1].ev)
    <3>1. CASE q = s
      <4>1. u = t
        BY <1>7, <2>1, <2>5, <3>1
      <4>. QED  BY <1>1, <1>6, <1>7, <2>3, <2>4, <3>1, <4>1
    <3>2. CASE q # s
      <4>1. todo'[q] = todo[q] /\ u # t
        BY <1>7, <2>2, <2>5, <3>2
      <4>. QED  BY <1>2, <2>5, <4>1 DEF SettleInv, RowsAgree
    <3>. QED  BY <3>1, <3>2
  <2>6. ASSUME NEW u \in Ticket, \A q \in Session : ~Writing(todo'[q], u)
        PROVE  r.tickets[u] = db'.tickets[u]
    <3>1. u # t
      BY <1>5, <1>6, <1>7, <2>6 DEF Writing, OnTicket
    <3>2. \A q \in Session : ~Writing(todo[q], u)
      BY <1>7, <2>1, <2>6, <3>1
    <3>. QED  BY <1>2, <3>1, <3>2 DEF SettleInv, RowsAgree
  <2>. HIDE DEF r
  <2>. QED  BY <2>5, <2>6 DEF RowsAgree
<1>15. stale' = {}
  BY <1>1 DEF SettleInv
<1>. QED  BY <1>1, <1>9, <1>10, <1>11, <1>12, <1>13, <1>14, <1>15 DEF SettleInv

\* A log that replays to its end lets its last event through.
LEMMA LastApplies ==
    ASSUME NEW S, NEW log \in Seq(S), NEW e \in S, Replayable(Append(log, e))
    PROVE  CanApply(Replay(log), e) /\ Replay(Append(log, e)) = Apply(Replay(log), e)
<1>. DEFINE more == Append(log, e)
<1>1. /\ Len(log) \in Nat /\ Len(more) = Len(log) + 1 /\ more[Len(log) + 1] = e
      /\ \A i \in 1..Len(log) : more[i] = log[i]
  OBVIOUS
<1>2. Replay(more) = Projected(Replay(log), e)
  BY ReplayAppend
<1>. HIDE DEF more
<1>3. Len(log) + 1 \in 1..Len(more) /\ (Len(log) + 1) - 1 = Len(log) /\ Len(log) \in 0..Len(log)
      /\ Len(more) \in Nat /\ Len(log) <= Len(more)
  BY <1>1
<1>4. Rebuilt(more)[Len(log)] = Rebuilt(log)[Len(log)]
  BY <1>1, <1>3, RebuiltPrefix
<1>5. CanApply(Rebuilt(more)[Len(log)], e)
  <2>1. Replayable(more)
    BY DEF more
  <2>2. CanApply(Rebuilt(more)[(Len(log) + 1) - 1], more[Len(log) + 1])
    BY <1>3, <2>1 DEF Replayable
  <2>. QED  BY <1>1, <1>3, <2>2
<1>. QED  BY <1>2, <1>4, <1>5 DEF Replay, Projected, more

\* The replayed row of a ticket that a session is about to write in the
\* journal: the database's, or, for a claim, the open one before it.
LEMMA RowBefore ==
    ASSUME Inv, SettleInv, NEW s \in Session, todo[s] # <<>>, todo[s][1].op = "append",
           NEW t \in Ticket, OnTicket(todo[s][1].ev, t)
    PROVE  LET e == todo[s][1].ev
               row == Replay(journal).tickets[t]
           IN  /\ e.status # "claimed" => /\ row = db.tickets[t]
                                          /\ \A q \in Session : ~Writing(todo[q], t)
               /\ e.status = "claimed" => row.status = "open" /\ db.tickets[t] = RowAfter(row, e)
<1>1. \A q \in Session : todo[q] # <<>> => 1 \in 1..Len(todo[q])
  <2>1. \A q \in Session : todo[q] # <<>> => Len(todo[q]) \in Nat \ {0}
    BY TailOf DEF Inv
  <2>. QED  BY <2>1
<1>2. ASSUME todo[s][1].ev.status # "claimed", NEW q \in Session, Writing(todo[q], t) PROVE FALSE
  <2>1. q = s
    BY <1>1, <1>2, SoleWriter DEF Writing
  <2>. QED  BY <1>2, <2>1 DEF Writing
<1>3. CASE todo[s][1].ev.status # "claimed"
  BY <1>2, <1>3 DEF SettleInv, RowsAgree
<1>4. CASE todo[s][1].ev.status = "claimed"
  <2>1. Writing(todo[s], t) /\ todo[s][1].op # "apply"
    BY <1>4 DEF Writing
  <2>. QED  BY <1>4, <2>1 DEF SettleInv, RowsAgree
<1>. QED  BY <1>3, <1>4

\* One more line in the journal: the replayed database moves by its event.
LEMMA SettleAppend ==
    ASSUME Inv, SettleInv, NEW s \in Session, AppendLine(s), Replayable(journal')
    PROVE  SettleInv'
<1>. DEFINE e == NextStep(s).ev
            r == Replay(journal)
            c == Apply(r, e)
            rest == Tail(todo[s])
<1>0. /\ db \in Db /\ todo \in [Session -> Seq(WrittenStep)] /\ todo[s] \in Seq(WrittenStep)
      /\ lease \in [Session -> [Ticket -> Nat]] /\ journal \in Seq(Written)
  BY DEF Inv, TypeOK
<1>1. /\ todo[s] # <<>> /\ todo[s][1].op = "append" /\ journal' = Append(journal, e)
      /\ lease' = (IF e.status = "claimed"
                   THEN [lease EXCEPT ![s][e.id] = e.claimed_at + Lease] ELSE lease)
      /\ todo' = [todo EXCEPT ![s] = rest] /\ db' = db /\ stale' = stale
  BY DEF AppendLine, NextStep, Advance
<1>2. e = todo[s][1].ev /\ e \in Written /\ todo[s][1] \in WrittenStep
  <2>1. todo[s][1] \in WrittenStep
    BY <1>0, <1>1, TailOf
  <2>. QED  BY <2>1 DEF WrittenStep, NextStep
<1>3. /\ Shape(todo[s]) /\ \A i \in 1..Len(todo[s]) : Fits(todo[s][i], s, db)
  BY DEF SettleInv
<1>4. /\ Shape(rest) /\ 1 \in 1..Len(todo[s])
      /\ \A i \in 1..Len(rest) : i + 1 \in 1..Len(todo[s]) /\ rest[i] = todo[s][i + 1]
      /\ rest # <<>> => rest[1] = todo[s][2]
  BY <1>0, <1>1, <1>3, TailShape
<1>5. todo'[s] = rest /\ \A q \in Session \ {s} : todo'[q] = todo[q]
  BY <1>0, <1>1
<1>6. CanApply(r, e) /\ Replay(journal') = c
  <2>1. Replayable(Append(journal, e))
    BY <1>1
  <2>. HIDE DEF e
  <2>. QED  BY <1>0, <1>1, <1>2, <2>1, LastApplies
<1>7. r \in Db
  <2>1. Len(journal) \in 0..Len(journal)
    <3>1. Len(journal) \in Nat
      BY <1>0
    <3>. QED  BY <3>1
  <2>. QED  BY <1>0, <2>1, RebuiltBacked DEF Replay
<1>8. Fits(todo[s][1], s, db)
  BY <1>3, <1>4
<1>9. e.kind = "ticket_updated" => e.id \in Ticket
  BY <1>2, WrittenKinds, EventsDiffer
<1>10. ASSUME NEW t \in Ticket, OnTicket(e, t)
       PROVE  /\ e.status # "claimed" => /\ r.tickets[t] = db.tickets[t]
                                         /\ \A q \in Session : ~Writing(todo[q], t)
              /\ e.status = "claimed" => r.tickets[t].status = "open"
                                         /\ db.tickets[t] = RowAfter(r.tickets[t], e)
  BY <1>1, <1>2, <1>10, RowBefore
<1>11. FogFits(r, e)
  <2>1. e.kind = "fog_added" => r.fog[e.id] = "absent"
    BY <1>6 DEF CanApply
  <2>2. ASSUME e.kind = "fog_graduated" PROVE r.fog[e.id] # "absent"
    <3>. DEFINE m == Event("fog_added", e.id)
    <3>1. db.fog[e.id] # "absent"
      BY <1>2, <1>8, <2>2 DEF Fits, FogFits
    <3>2. m \in Marks
      <4>1. e.id \in Fog
        BY <1>2, <2>2, WrittenKinds, EventsDiffer
      <4>. QED  BY <4>1 DEF Marks
    <3>3. m.kind = "fog_added" /\ m.id = e.id
      BY EventsDiffer
    <3>. HIDE DEF m, e, r
    <3>4. Shown(r, m) <=> r.fog[m.id] # "absent"
      BY <3>3, ShownIn
    <3>5. Shown(db, m) <=> db.fog[m.id] # "absent"
      BY <3>3, ShownIn
    <3>6. Shown(db, m) => Shown(r, m)
      BY <3>2 DEF SettleInv, MarksAgree, r
    <3>. QED  BY <3>1, <3>3, <3>4, <3>5, <3>6
  <2>. QED  BY <2>1, <2>2 DEF FogFits
<1>12. e.kind = "ticket_updated" => Exists(r, e.id)
  <2>1. ASSUME e.kind = "ticket_updated" PROVE Exists(r, e.id)
    <3>1. OnTicket(e, e.id) /\ e.id \in Ticket
      BY <1>9, <2>1 DEF OnTicket
    <3>2. Exists(db, e.id)
      BY <1>2, <1>8, <2>1 DEF Fits
    <3>. HIDE DEF e, r
    <3>. QED  BY <1>10, <3>1, <3>2 DEF Exists
  <2>. QED  BY <2>1
<1>13. /\ \A t \in Ticket : c.tickets[t] =
              IF OnTicket(e, t) THEN RowAfter(r.tickets[t], e) ELSE r.tickets[t]
       /\ \A m \in Marks : Shown(c, m) <=> Shown(r, m) \/ m = e
  <2>. HIDE DEF e, r
  <2>. QED  BY <1>2, <1>7, <1>11, <1>12, ApplyFields, ApplyShows
<1>14. /\ MarksAgree(todo, db, r) /\ RowsAgree(todo, db, r) /\ Distinct(todo)
  BY DEF SettleInv
<1>. HIDE DEF e, r, c, rest
<1>15. ASSUME NEW q \in Session
       PROVE  Shape(todo'[q]) /\ \A i \in 1..Len(todo'[q]) : Fits(todo'[q][i], q, db)
  <2>1. CASE q = s
    BY <1>3, <1>4, <1>5, <2>1
  <2>2. CASE q # s
    BY <1>5, <2>2 DEF SettleInv
  <2>. QED  BY <2>1, <2>2
<1>16. Distinct(todo')
  <2>1. ASSUME NEW q \in Session, NEW i \in 1..Len(todo'[q])
        PROVE  \E k \in 1..Len(todo[q]) : todo'[q][i] = todo[q][k]
    <3>1. CASE q = s
      <4>1. i + 1 \in 1..Len(todo[s]) /\ todo'[s][i] = todo[s][i + 1]
        BY <1>4, <1>5, <3>1
      <4>. QED  BY <3>1, <4>1
    <3>2. CASE q # s
      BY <1>5, <3>2
    <3>. QED  BY <3>1, <3>2
  <2>2. ASSUME NEW q \in Session, NEW r1 \in Session, NEW i \in 1..Len(todo'[q]),
               NEW j \in 1..Len(todo'[r1]), todo'[q][i].ev = todo'[r1][j].ev,
               todo'[q][i].ev \in Creation
        PROVE  q = r1
    <3>1. PICK k \in 1..Len(todo[q]) : todo'[q][i] = todo[q][k]
      BY <2>1
    <3>2. PICK l \in 1..Len(todo[r1]) : todo'[r1][j] = todo[r1][l]
      BY <2>1
    <3>. QED  BY <1>14, <2>2, <3>1, <3>2 DEF Distinct
  <2>. QED  BY <2>2 DEF Distinct
<1>17. \A q \in Session, t \in Ticket :
          lease'[q][t] # 0 => Exists(db, t) /\ db.tickets[t].claimed_by = q
  <2>1. ASSUME NEW q \in Session, NEW t \in Ticket, lease'[q][t] # 0
        PROVE  Exists(db, t) /\ db.tickets[t].claimed_by = q
    <3>1. CASE lease[q][t] # 0
      BY <3>1 DEF SettleInv
    <3>2. CASE lease[q][t] = 0
      <4>1. e.status = "claimed" /\ q = s /\ t = e.id
        BY <1>0, <1>1, <2>1, <3>2
      <4>2. e.kind = "ticket_updated"
        BY <1>2, <4>1, StatusKinds
      <4>. QED  BY <1>2, <1>8, <4>1, <4>2 DEF Fits
    <3>. QED  BY <3>1, <3>2
  <2>. QED  BY <2>1
<1>18. CASE e.status = "claimed"
  <2>1. e.kind = "ticket_updated" /\ e.id \in Ticket
    BY <1>2, <1>18, StatusKinds
  <2>2. rest = <<>>
    <3>1. 1 = Len(todo[s])
      BY <1>1, <1>2, <1>3, <1>4, <1>18 DEF Shape
    <3>2. Len(Tail(todo[s])) = 0 /\ Tail(todo[s]) \in Seq(WrittenStep)
      BY <1>0, <1>1, <3>1, TailOf
    <3>3. \A x \in Seq(WrittenStep) : Len(x) = 0 => x = <<>>
      OBVIOUS
    <3>. QED  BY <3>2, <3>3 DEF rest
  <2>3. MarksAgree(todo', db, c)
    <3>1. \A m : ~Heads(todo[s], "apply", m) /\ ~Heads(todo'[s], "apply", m)
      BY <1>1, <1>5, <2>2 DEF Heads, Do
    <3>2. \A q \in Session : \A m : Heads(todo'[q], "apply", m) <=> Heads(todo[q], "apply", m)
      BY <1>5, <3>1
    <3>3. \A m \in Marks : m # e
      BY <2>1, MarkKinds
    <3>. QED  BY <1>13, <1>14, <3>2, <3>3 DEF MarksAgree
  <2>4. RowsAgree(todo', db, c)
    <3>1. \A t \in Ticket : OnTicket(e, t) <=> t = e.id
      BY <2>1 DEF OnTicket
    <3>2. c.tickets[e.id] = db.tickets[e.id]
      BY <1>10, <1>13, <1>18, <2>1, <3>1
    <3>3. ASSUME NEW q \in Session, Writing(todo'[q], e.id) PROVE FALSE
      <4>1. q # s /\ todo'[q] = todo[q]
        BY <1>5, <2>2, <3>3 DEF Writing
      <4>2. todo[q] # <<>> /\ OnTicket(todo[q][1].ev, e.id) /\ todo[q] \in Seq(WrittenStep)
        BY <1>0, <3>3, <4>1 DEF Writing
      <4>3. 1 \in 1..Len(todo[q])
        <5>1. Len(todo[q]) \in Nat \ {0}
          BY <4>2, TailOf
        <5>. QED  BY <5>1
      <4>. QED  BY <1>2, <1>4, <2>1, <3>1, <4>1, <4>2, <4>3, SoleWriter
    <3>4. ASSUME NEW t \in Ticket, t # e.id
          PROVE  c.tickets[t] = r.tickets[t] /\ ~Writing(todo[s], t) /\ ~Writing(todo'[s], t)
      <4>1. ~OnTicket(e, t)
        BY <3>1, <3>4
      <4>. QED  BY <1>2, <1>5, <1>13, <2>2, <4>1 DEF Writing
    <3>5. ASSUME NEW t \in Ticket, t # e.id
          PROVE  /\ \A q \in Session : Writing(todo'[q], t) =>
                      IF todo'[q][1].op = "apply"
                      THEN c.tickets[t] = RowAfter(db.tickets[t], todo'[q][1].ev)
                      ELSE c.tickets[t].status = "open"
                           /\ db.tickets[t] = RowAfter(c.tickets[t], todo'[q][1].ev)
                 /\ (\A q \in Session : ~Writing(todo'[q], t)) => c.tickets[t] = db.tickets[t]
      BY <1>5, <1>14, <3>4, <3>5 DEF RowsAgree
    <3>. QED  BY <3>2, <3>3, <3>5 DEF RowsAgree
  <2>. QED  BY <1>1, <1>6, <1>15, <1>16, <1>17, <2>3, <2>4 DEF SettleInv
<1>19. CASE e.status # "claimed"
  <2>1. rest # <<>> /\ rest[1] = Do("apply", e) /\ rest[1].op = "apply" /\ rest[1].ev = e
    <3>1. 1 < Len(todo[s]) /\ todo[s][1 + 1] = Do("apply", e)
      BY <1>1, <1>2, <1>3, <1>4, <1>19 DEF Shape
    <3>2. rest # <<>>
      <4>1. Len(rest) = Len(todo[s]) - 1 /\ Len(todo[s]) \in Nat
        BY <1>0, <1>1, TailOf DEF rest
      <4>2. Len(rest) # 0
        BY <3>1, <4>1
      <4>3. Len(<<>>) = 0
        OBVIOUS
      <4>. QED  BY <4>2, <4>3
    <3>3. rest[1] = Do("apply", e)
      <4>1. 1 + 1 = 2
        OBVIOUS
      <4>2. todo[s][2] = Do("apply", e)
        BY <3>1, <4>1
      <4>. QED  BY <1>4, <3>2, <4>2
    <3>. QED  BY <3>2, <3>3 DEF Do
  <2>2. MarksAgree(todo', db, c)
    <3>1. \A m : ~Heads(todo[s], "apply", m) /\ (Heads(todo'[s], "apply", m) <=> m = e)
      BY <1>1, <1>5, <2>1 DEF Heads, Do
    <3>2. \A q \in Session \ {s} : \A m : Heads(todo'[q], "apply", m) <=> Heads(todo[q], "apply", m)
      BY <1>5
    <3>3. ASSUME NEW m \in Marks
          PROVE  (\E q \in Session : Heads(todo'[q], "apply", m)) <=>
                 (m = e \/ \E q \in Session : Heads(todo[q], "apply", m))
      BY <3>1, <3>2
    <3>. QED  BY <1>13, <1>14, <3>3 DEF MarksAgree
  <2>3. RowsAgree(todo', db, c)
    <3>1. ASSUME NEW t \in Ticket, OnTicket(e, t)
          PROVE  /\ c.tickets[t] = RowAfter(db.tickets[t], e) /\ Writing(todo'[s], t)
                 /\ \A q \in Session \ {s} : ~Writing(todo'[q], t)
      BY <1>5, <1>10, <1>13, <1>19, <2>1, <3>1 DEF Writing
    <3>2. ASSUME NEW t \in Ticket, ~OnTicket(e, t)
          PROVE  c.tickets[t] = r.tickets[t] /\ ~Writing(todo[s], t) /\ ~Writing(todo'[s], t)
      BY <1>2, <1>5, <1>13, <2>1, <3>2 DEF Writing
    <3>3. ASSUME NEW t \in Ticket
          PROVE  /\ \A q \in Session : Writing(todo'[q], t) =>
                      IF todo'[q][1].op = "apply"
                      THEN c.tickets[t] = RowAfter(db.tickets[t], todo'[q][1].ev)
                      ELSE c.tickets[t].status = "open"
                           /\ db.tickets[t] = RowAfter(c.tickets[t], todo'[q][1].ev)
                 /\ (\A q \in Session : ~Writing(todo'[q], t)) => c.tickets[t] = db.tickets[t]
      <4>1. CASE OnTicket(e, t)
        <5>1. ASSUME NEW q \in Session, Writing(todo'[q], t)
              PROVE  todo'[q][1].op = "apply" /\ c.tickets[t] = RowAfter(db.tickets[t], todo'[q][1].ev)
          BY <1>5, <2>1, <3>1, <4>1, <5>1
        <5>. QED  BY <3>1, <4>1, <5>1
      <4>2. CASE ~OnTicket(e, t)
        BY <1>5, <1>14, <3>2, <4>2 DEF RowsAgree
      <4>. QED  BY <4>1, <4>2
    <3>. QED  BY <3>3 DEF RowsAgree
  <2>. QED  BY <1>1, <1>6, <1>15, <1>16, <1>17, <2>2, <2>3 DEF SettleInv
<1>. QED  BY <1>18, <1>19

\* One more statement in the database: it moves by the event that the
\* replayed database already shows.
LEMMA SettleApply ==
    ASSUME Inv, SettleInv, NEW s \in Session, ApplyStatement(s)
    PROVE  SettleInv'
<1>. DEFINE e == NextStep(s).ev
            r == Replay(journal)
            c == Apply(db, e)
            rest == Tail(todo[s])
<1>0. /\ db \in Db /\ todo \in [Session -> Seq(WrittenStep)] /\ todo[s] \in Seq(WrittenStep)
      /\ todo[s] # <<>>
  BY DEF Inv, TypeOK, ApplyStatement
<1>1. /\ Shape(todo[s]) /\ \A i \in 1..Len(todo[s]) : Fits(todo[s][i], s, db)
  BY DEF SettleInv
<1>2. /\ Shape(rest) /\ 1 \in 1..Len(todo[s])
      /\ \A i \in 1..Len(rest) : i + 1 \in 1..Len(todo[s]) /\ rest[i] = todo[s][i + 1]
      /\ rest # <<>> => rest[1] = todo[s][2] /\ Len(todo[s]) > 1
  BY <1>0, <1>1, TailShape
<1>3. todo[s][1].op = "apply"
  <2>1. todo[s][1].op \in {"append", "apply"}
    BY <1>1, <1>2 DEF Shape
  <2>. QED  BY <2>1 DEF ApplyStatement, NextStep
<1>4. e = todo[s][1].ev /\ e \in Written /\ todo[s][1] \in WrittenStep /\ todo[s][1] = Do("apply", e)
  <2>1. todo[s][1] \in WrittenStep
    BY <1>0, TailOf
  <2>. QED  BY <1>3, <2>1 DEF WrittenStep, NextStep, Do
<1>5. Fits(todo[s][1], s, db)
  BY <1>1, <1>2
<1>6. CanApply(db, e) /\ FogFits(db, e) /\ (e.kind = "ticket_updated" => Exists(db, e.id))
  BY <1>4, <1>5, FitsApplies
<1>7. /\ todo' = [todo EXCEPT ![s] = rest] /\ db' = c /\ journal' = journal /\ lease' = lease
      /\ stale' = stale
  BY <1>6 DEF ApplyStatement, Advance, SettleInv
<1>8. todo'[s] = rest /\ \A q \in Session \ {s} : todo'[q] = todo[q]
  BY <1>0, <1>7
<1>9. /\ e.status \notin {"open", "claimed"}
      /\ e.kind # "scope_exclusion_added" => rest = <<>>
      /\ rest # <<>> => rest[1].op = "append" /\ rest[1].ev.status # "claimed"
  <2>. DEFINE n == Len(todo[s])
  <2>. HIDE DEF e, n
  <2>1. todo[s][1].ev.status \notin {"open", "claimed"}
    BY <1>1, <1>2, <1>3 DEF Shape
  <2>2. todo[s][1].ev.kind # "scope_exclusion_added" => 1 = Len(todo[s])
    BY <1>1, <1>2, <1>3 DEF Shape
  <2>3. 1 < Len(todo[s]) => todo[s][1 + 1].op = "append" /\ todo[s][1 + 1].ev.status # "claimed"
    BY <1>1, <1>2, <1>3 DEF Shape
  <2>4. n \in Nat => 1 + 1 = 2 /\ (n > 1 => 1 < n /\ 1 # n)
    OBVIOUS
  <2>5. n \in Nat /\ n = Len(todo[s])
    BY <1>0, TailOf DEF n
  <2>. HIDE DEF rest
  <2>6. rest # <<>> => n > 1
    BY <1>2, <2>5
  <2>. QED  BY <1>2, <1>4, <2>1, <2>2, <2>3, <2>4, <2>5, <2>6
<1>10. /\ \A t \in Ticket : c.tickets[t] =
              IF OnTicket(e, t) THEN RowAfter(db.tickets[t], e) ELSE db.tickets[t]
       /\ \A m \in Marks : Shown(c, m) <=> Shown(db, m) \/ m = e
       /\ \A t \in Ticket : Exists(db, t) => Exists(c, t)
  BY <1>0, <1>4, <1>6, ApplyFields, ApplyShows, ExistsStays
<1>11. /\ e.kind = "ticket_created" => ~Exists(db, e.id)
       /\ e.kind = "ticket_updated" =>
             e.status \in Terminal /\ e.claimed_by = None /\ e.release_claim = FALSE
  <2>1. e.kind = "ticket_updated" =>
             e.status \in Terminal /\ e.claimed_by = None /\ e.release_claim = FALSE
    BY <1>4, <1>9, StatusKinds
  <2>. QED  BY <1>4, <1>5, <2>1 DEF Fits
<1>12. /\ MarksAgree(todo, db, r) /\ RowsAgree(todo, db, r) /\ Distinct(todo)
  BY DEF SettleInv
<1>13. ASSUME NEW q \in Session, NEW i \in 1..Len(todo[q]),
              q = s => e.kind = "scope_exclusion_added"
       PROVE  Fits(todo[q][i], q, c)
  <2>1. todo[q][i] \in WrittenStep
    BY <1>0
  <2>2. Fits(todo[q][i], q, db)
    BY DEF SettleInv
  <2>3. todo[q][i].ev = e => e \notin Creation
    <3>1. CASE q = s
      BY <1>13, <3>1, CreationKinds
    <3>2. CASE q # s
      BY <1>2, <1>4, <1>12, <3>2 DEF Distinct
    <3>. QED  BY <3>1, <3>2
  <2>4. e.kind = "ticket_updated" => q # s
    BY <1>13
  <2>. HIDE DEF e
  <2>. QED  BY <1>0, <1>3, <1>4, <1>5, <2>1, <2>2, <2>3, <2>4, FitsStays
<1>. HIDE DEF e, r, c, rest
<1>14. ASSUME NEW q \in Session
       PROVE  Shape(todo'[q]) /\ \A i \in 1..Len(todo'[q]) : Fits(todo'[q][i], q, c)
  <2>1. CASE q = s
    <3>1. ASSUME NEW i \in 1..Len(rest) PROVE Fits(rest[i], s, c)
      <4>1. rest # <<>>
        <5>1. Len(<<>>) = 0
          OBVIOUS
        <5>. QED  BY <5>1
      <4>. QED  BY <1>2, <1>9, <1>13, <4>1
    <3>. QED  BY <1>2, <1>8, <2>1, <3>1
  <2>2. CASE q # s
    BY <1>8, <1>13, <2>2 DEF SettleInv
  <2>. QED  BY <2>1, <2>2
<1>15. Distinct(todo')
  <2>1. ASSUME NEW q \in Session, NEW i \in 1..Len(todo'[q])
        PROVE  \E k \in 1..Len(todo[q]) : todo'[q][i] = todo[q][k]
    <3>1. CASE q = s
      <4>1. i + 1 \in 1..Len(todo[s]) /\ todo'[s][i] = todo[s][i + 1]
        BY <1>2, <1>8, <3>1
      <4>. QED  BY <3>1, <4>1
    <3>2. CASE q # s
      BY <1>8, <3>2
    <3>. QED  BY <3>1, <3>2
  <2>2. ASSUME NEW q \in Session, NEW p \in Session, NEW i \in 1..Len(todo'[q]),
               NEW j \in 1..Len(todo'[p]), todo'[q][i].ev = todo'[p][j].ev,
               todo'[q][i].ev \in Creation
        PROVE  q = p
    <3>1. PICK k \in 1..Len(todo[q]) : todo'[q][i] = todo[q][k]
      BY <2>1
    <3>2. PICK l \in 1..Len(todo[p]) : todo'[p][j] = todo[p][l]
      BY <2>1
    <3>. QED  BY <1>12, <2>2, <3>1, <3>2 DEF Distinct
  <2>. QED  BY <2>2 DEF Distinct
<1>16. \A q \in Session, t \in Ticket :
          lease[q][t] # 0 => Exists(c, t) /\ c.tickets[t].claimed_by = q
  <2>1. ASSUME NEW q \in Session, NEW t \in Ticket, lease[q][t] # 0
        PROVE  c.tickets[t].claimed_by = q /\ Exists(db, t)
    <3>1. Exists(db, t) /\ db.tickets[t].claimed_by = q
      BY <2>1 DEF SettleInv
    <3>2. CASE OnTicket(e, t)
      <4>1. e.kind = "ticket_updated"
        BY <1>11, <3>1, <3>2 DEF OnTicket
      <4>2. c.tickets[t] = UpdateRow(db.tickets[t], e)
        BY <1>10, <3>2, <4>1 DEF RowAfter
      <4>. QED  BY <1>11, <3>1, <4>1, <4>2 DEF UpdateRow, Coalesce
    <3>3. CASE ~OnTicket(e, t)
      BY <1>10, <3>1, <3>3
    <3>. QED  BY <3>1, <3>2, <3>3
  <2>. QED  BY <1>10, <2>1
<1>17. \A t \in Ticket : c.tickets[t].status = "open" => c.tickets[t].claimed_by = None
  <2>1. ASSUME NEW t \in Ticket, c.tickets[t].status = "open"
        PROVE  c.tickets[t].claimed_by = None
    <3>1. CASE OnTicket(e, t) /\ e.kind = "ticket_created"
      BY <1>10, <3>1 DEF RowAfter, NewTicket, NoTicket
    <3>2. CASE OnTicket(e, t) /\ e.kind = "ticket_updated"
      <4>1. c.tickets[t].status = e.status
        <5>1. e.status # None
          <6>1. e.status \in TicketStatus
            BY <1>11, <3>2 DEF TicketStatus
          <6>. QED  BY <6>1, NoneIsNoStatus
        <5>2. c.tickets[t] = UpdateRow(db.tickets[t], e)
          BY <1>10, <3>2 DEF RowAfter
        <5>3. UpdateRow(db.tickets[t], e).status = Coalesce(e.status, db.tickets[t].status)
          BY DEF UpdateRow
        <5>. QED  BY <5>1, <5>2, <5>3 DEF Coalesce
      <4>. QED  BY <1>11, <2>1, <3>2, <4>1 DEF Terminal
    <3>3. CASE ~OnTicket(e, t)
      BY <1>10, <2>1, <3>3 DEF SettleInv
    <3>. QED  BY <3>1, <3>2, <3>3 DEF OnTicket
  <2>. QED  BY <2>1
<1>18. MarksAgree(todo', c, r)
  <2>1. \A m : (Heads(todo[s], "apply", m) <=> m = e) /\ ~Heads(todo'[s], "apply", m)
    <3>1. \A m : Do("apply", m) = Do("apply", e) => m = e
      BY DEF Do
    <3>2. \A m : Do("apply", m).op = "apply"
      BY DEF Do
    <3>. QED  BY <1>0, <1>4, <1>8, <1>9, <3>1, <3>2 DEF Heads
  <2>2. \A q \in Session \ {s} : \A m : Heads(todo'[q], "apply", m) <=> Heads(todo[q], "apply", m)
    BY <1>8
  <2>3. ASSUME NEW m \in Marks
        PROVE  (\E q \in Session : Heads(todo[q], "apply", m)) <=>
               (m = e \/ \E q \in Session : Heads(todo'[q], "apply", m))
    BY <2>1, <2>2
  <2>. QED  BY <1>10, <1>12, <2>3 DEF MarksAgree
<1>19. RowsAgree(todo', c, r)
  <2>1. ASSUME NEW t \in Ticket, OnTicket(e, t)
        PROVE  r.tickets[t] = c.tickets[t] /\ \A q \in Session : ~Writing(todo'[q], t)
    <3>1. Writing(todo[s], t)
      BY <1>0, <1>3, <1>4, <2>1 DEF Writing
    <3>2. r.tickets[t] = RowAfter(db.tickets[t], e)
      BY <1>3, <1>4, <1>12, <3>1 DEF RowsAgree
    <3>3. rest = <<>>
      BY <1>9, <2>1 DEF OnTicket
    <3>4. ASSUME NEW q \in Session, Writing(todo'[q], t) PROVE FALSE
      <4>1. q # s /\ todo'[q] = todo[q]
        BY <1>8, <3>3, <3>4 DEF Writing
      <4>2. todo[q] # <<>> /\ OnTicket(todo[q][1].ev, t) /\ todo[q] \in Seq(WrittenStep)
        BY <1>0, <3>4, <4>1 DEF Writing
      <4>3. 1 \in 1..Len(todo[q])
        <5>1. Len(todo[q]) \in Nat \ {0}
          BY <4>2, TailOf
        <5>. QED  BY <5>1
      <4>. QED  BY <1>2, <1>4, <2>1, <4>1, <4>2, <4>3, SoleWriter
    <3>. QED  BY <1>10, <2>1, <3>2, <3>4
  <2>2. ASSUME NEW t \in Ticket, ~OnTicket(e, t)
        PROVE  c.tickets[t] = db.tickets[t] /\ ~Writing(todo[s], t) /\ ~Writing(todo'[s], t)
    BY <1>4, <1>8, <1>9, <1>10, <2>2 DEF Writing
  <2>3. ASSUME NEW t \in Ticket
        PROVE  /\ \A q \in Session : Writing(todo'[q], t) =>
                    IF todo'[q][1].op = "apply"
                    THEN r.tickets[t] = RowAfter(c.tickets[t], todo'[q][1].ev)
                    ELSE r.tickets[t].status = "open"
                         /\ c.tickets[t] = RowAfter(r.tickets[t], todo'[q][1].ev)
               /\ (\A q \in Session : ~Writing(todo'[q], t)) => r.tickets[t] = c.tickets[t]
    <3>1. CASE OnTicket(e, t)
      BY <2>1, <3>1
    <3>2. CASE ~OnTicket(e, t)
      BY <1>8, <1>12, <2>2, <3>2 DEF RowsAgree
    <3>. QED  BY <3>1, <3>2
  <2>. QED  BY <2>3 DEF RowsAgree
<1>. QED  BY <1>7, <1>14, <1>15, <1>16, <1>17, <1>18, <1>19 DEF SettleInv, r

LEMMA SettleStep ==
    ASSUME Inv, ReplayInv, SettleInv, [Next]_vars, OwnersClose, Faultless
    PROVE  SettleInv'
<1>1. ASSUME NEW s \in Session, WriteFails(s) \/ Crash(s) PROVE FALSE
  <2>1. s \in Mortal /\ faults < MaxFaults /\ faults \in 0..MaxFaults
    BY <1>1 DEF WriteFails, Crash, Inv, TypeOK
  <2>. QED  BY <2>1 DEF Faultless
<1>2. CASE Tick \/ UNCHANGED vars
  <2>1. journal' = journal /\ todo' = todo /\ db' = db /\ stale' = stale /\ lease' = lease
    BY <1>2 DEF Tick, vars
  <2>. QED  BY <2>1 DEF SettleInv
<1>3. ASSUME NEW s \in Session, RunStep(s) PROVE SettleInv'
  <2>1. ~CheckEdge(s)
    <3>1. ASSUME CheckEdge(s) PROVE FALSE
      <4>1. todo[s] # <<>> /\ todo[s][1].op = "check"
        BY <3>1 DEF CheckEdge, NextStep
      <4>2. 1 \in 1..Len(todo[s])
        <5>1. Len(todo[s]) \in Nat \ {0}
          BY <4>1, TailOf DEF Inv
        <5>. QED  BY <5>1
      <4>. QED  BY <4>1, <4>2 DEF SettleInv, Shape
    <3>. QED  BY <3>1
  <2>2. CASE AppendLine(s)
    <3>1. Orderly(journal') /\ journal' \in Seq(Written)
      <4>1. ReplayInv' /\ Inv'
        BY <1>3, ReplayRunStep, RunStepKeeps
      <4>. QED  BY <4>1 DEF ReplayInv, Inv
    <3>2. Replayable(journal')
      BY <3>1, OrderlyReplays
    <3>. QED  BY <2>2, <3>2, SettleAppend
  <2>. QED  BY <1>3, <2>1, <2>2, SettleApply DEF RunStep
<1>4. ASSUME NEW s \in Session, ToolCall(s) PROVE SettleInv'
  BY <1>4, SettleToolCall, SettleClaim
<1>. QED  BY <1>1, <1>2, <1>3, <1>4 DEF Next

\* The opening lines create tickets, and nobody has claimed one.
LEMMA OpeningUnclaimed ==
    \A t \in Ticket : Replay(Opening).tickets[t].claimed_by = None
<1>. DEFINE free(d) == \A t \in Ticket : d.tickets[t].claimed_by = None
            T == {n \in 0..Len(Opening) : free(Rebuilt(Opening)[n])}
<1>1. Opening \in Seq(Written) /\ Len(Opening) \in Nat
  BY OpeningWritten
<1>2. /\ Rebuilt(Opening)[0] = EmptyDb
      /\ \A n \in 1..Len(Opening) : Rebuilt(Opening)[n] = Projected(Rebuilt(Opening)[n - 1], Opening[n])
  BY <1>1, RebuiltSteps
<1>3. 0 \in T
  BY <1>1, <1>2 DEF EmptyDb, NoTicket
<1>4. ASSUME NEW n \in 1..Len(Opening), n - 1 \in T PROVE n \in T
  <2>. DEFINE d == Rebuilt(Opening)[n - 1]
              e == Opening[n]
  <2>1. d \in Db /\ free(d) /\ n \in 0..Len(Opening)
    <3>1. n - 1 \in 0..Len(Opening) /\ n \in 0..Len(Opening)
      BY <1>1
    <3>. QED  BY <1>1, <1>4, <3>1, RebuiltBacked
  <2>2. Rebuilt(Opening)[n] = Projected(d, e)
    BY <1>2
  <2>3. e \in Written /\ e \in Creation
    BY <1>1, OpeningCreates
  <2>. HIDE DEF d, e
  <2>4. CASE CanApply(d, e)
    <3>1. FogFits(d, e) /\ e.kind # "ticket_updated" /\ e.kind # "fog_graduated"
      BY <2>3, <2>4, CreationKinds DEF FogFits, CanApply
    <3>2. \A t \in Ticket : Apply(d, e).tickets[t] =
              IF OnTicket(e, t) THEN RowAfter(d.tickets[t], e) ELSE d.tickets[t]
      BY <2>1, <2>3, <3>1, ApplyFields
    <3>3. free(Apply(d, e))
      BY <2>1, <3>1, <3>2 DEF OnTicket, RowAfter, NewTicket, NoTicket
    <3>. QED  BY <2>1, <2>2, <2>4, <3>3 DEF Projected
  <2>5. CASE ~CanApply(d, e)
    BY <2>1, <2>2, <2>5 DEF Projected
  <2>. QED  BY <2>4, <2>5
<1>5. Len(Opening) \in T
  <2>1. Len(Opening) \in 0..Len(Opening)
    BY <1>1
  <2>. HIDE DEF T
  <2>. QED  BY <1>1, <1>3, <1>4, <2>1, UpTo
<1>. QED  BY <1>5 DEF Replay

LEMMA SettleInit ==
    ASSUME Init
    PROVE  SettleInv
<1>1. /\ journal = Opening /\ db = Replay(Opening) /\ stale = {}
      /\ \A s \in Session : todo[s] = <<>> /\ \A t \in Ticket : lease[s][t] = 0
  BY DEF Init
<1>2. \A i \in 1..Len(<<>>) : FALSE
  OBVIOUS
<1>3. \A s \in Session : Shape(todo[s]) /\ \A i \in 1..Len(todo[s]) : FALSE
  BY <1>1, <1>2 DEF Shape
<1>4. Distinct(todo)
  BY <1>3 DEF Distinct
<1>5. MarksAgree(todo, db, Replay(journal))
  BY <1>1 DEF MarksAgree, Heads
<1>6. RowsAgree(todo, db, Replay(journal))
  BY <1>1 DEF RowsAgree, Writing
<1>7. \A t \in Ticket : db.tickets[t].claimed_by = None
  BY <1>1, OpeningUnclaimed
<1>. QED  BY <1>1, <1>3, <1>4, <1>5, <1>6, <1>7 DEF SettleInv

\* An event changes no row but that of its ticket.
LEMMA OtherRowsStay ==
    ASSUME NEW d \in Db, NEW e \in Written, NEW t \in Ticket, ~OnTicket(e, t)
    PROVE  Apply(d, e).tickets[t] = d.tickets[t]
<1>0. e.kind \in EventKind
  BY WrittenKinds DEF JournalEvent
<1>1. CASE e.kind \in {"ticket_created", "ticket_updated"}
  <2>1. e.id # t
    BY <1>1 DEF OnTicket
  <2>2. CASE e.kind = "ticket_created"
    <3>1. Apply(d, e) = [d EXCEPT !.tickets[e.id] = NewTicket]
      BY <2>2 DEF Apply
    <3>. QED  BY <2>1, <3>1 DEF Db
  <2>3. CASE e.kind = "ticket_updated"
    <3>1. Apply(d, e) = d \/ Apply(d, e) = [d EXCEPT !.tickets[e.id] = UpdateRow(@, e)]
      BY <2>3 DEF Apply
    <3>. QED  BY <2>1, <3>1 DEF Db
  <2>. QED  BY <1>1, <2>2, <2>3
<1>2. CASE e.kind \notin {"ticket_created", "ticket_updated"}
  <2>1. \/ Apply(d, e) = d \/ Apply(d, e) = [d EXCEPT !.map = TRUE]
        \/ Apply(d, e) = [d EXCEPT !.edges = @ \cup {<<e.id, e.blocked>>}]
        \/ Apply(d, e) = [d EXCEPT !.fog[e.id] = "patch"]
        \/ Apply(d, e) = [d EXCEPT !.fog[e.id] = "graduated"]
        \/ Apply(d, e) = [d EXCEPT !.excluded = @ \cup {e.id}]
    BY <1>0, <1>2 DEF Apply, EventKind
  <2>. QED  BY <2>1 DEF Db
<1>. QED  BY <1>1, <1>2

\* Only an append changes the journal.
LEMMA JournalSteps ==
    ASSUME [Next]_vars, ~\E s \in Session : AppendLine(s)
    PROVE  journal' = journal
<1>1. ASSUME NEW s \in Session, ToolCall(s) PROVE journal' = journal
  BY <1>1 DEF ToolCall, MapCreate, TicketCreate, TicketClaim, TicketResolve, TicketInvalidate,
     TicketBlock, FogWrite, FogGraduate, ScopeExclude, ReapExpired, MapRebuild, WriteMap, Call
<1>2. ASSUME NEW s \in Session, CheckEdge(s) \/ ApplyStatement(s) \/ WriteFails(s) \/ Crash(s)
      PROVE  journal' = journal
  BY <1>2 DEF CheckEdge, ApplyStatement, WriteFails, Crash
<1>3. CASE Tick \/ UNCHANGED vars
  BY <1>3 DEF Tick, vars
<1>. QED  BY <1>1, <1>2, <1>3 DEF Next, RunStep

LEMMA SettleHolds ==
    ASSUME OwnersClose, Faultless
    PROVE  Spec => [](Inv /\ ReplayInv /\ SettleInv)
<1>1. Callers["write_map"] = {}
  BY DEF OwnersClose
<1>2. Init => Inv /\ ReplayInv /\ SettleInv
  BY InitKeeps, ReplayInit, SettleInit
<1>3. Inv /\ ReplayInv /\ SettleInv /\ [Next]_vars => (Inv /\ ReplayInv /\ SettleInv)'
  BY <1>1, StepKeeps, ReplayStep, SettleStep
<1>. QED  BY <1>2, <1>3, PTL DEF Spec

\* When no call is running, a rebuild changes nothing: the database is the
\* replay of the journal, after any interleaving of calls that went through,
\* if each session closes only what it claimed (Store::rebuild; the journal
\* is written first and the database follows, but for a claim).
THEOREM RebuildChangesNothing ==
    ASSUME OwnersClose, Faultless
    PROVE  Spec => []RebuildIsNoOp
<1>1. ASSUME Inv, SettleInv, Quiet PROVE db = Replay(journal)
  <2>. DEFINE r == Replay(journal)
  <2>1. db \in Db /\ r \in Db
    <3>1. journal \in Seq(Written) /\ Len(journal) \in 0..Len(journal)
      <4>1. journal \in Seq(Written)
        BY <1>1 DEF Inv
      <4>2. Len(journal) \in Nat
        BY <4>1
      <4>. QED  BY <4>1, <4>2
    <3>. QED  BY <1>1, <3>1, RebuiltBacked DEF Inv, TypeOK, Replay
  <2>2. \A m \in Marks : Shown(db, m) <=> Shown(r, m)
    BY <1>1 DEF SettleInv, MarksAgree, Heads, Quiet
  <2>3. \A t \in Ticket : db.tickets[t] = r.tickets[t]
    BY <1>1 DEF SettleInv, RowsAgree, Writing, Quiet
  <2>. HIDE DEF r
  <2>4. db = r
    BY <2>1, <2>2, <2>3, SameShown
  <2>. QED  BY <2>4 DEF r
<1>2. Inv /\ ReplayInv /\ SettleInv => RebuildIsNoOp
  BY <1>1 DEF RebuildIsNoOp
<1>. QED  BY <1>2, SettleHolds, PTL

\* What a rebuild would show of a closed ticket never changes again, while
\* nobody excludes a ticket and each session closes only what it claimed: a
\* late claim or a second closing is refused before it reaches the journal
\* (require_not_terminal; the conditional UPDATE of frontier.rs, claim).
THEOREM ClosedForGood ==
    ASSUME OwnersClose, Faultless, Callers["scope_exclude"] = {}
    PROVE  Spec => ClosedStaysClosed
<1>. DEFINE before == Replay(journal).tickets
            after  == Replay(journal').tickets
            Kept == \A t \in Ticket : before[t].status \in Terminal => after[t] = before[t]
<1>1. ASSUME Inv, ReplayInv, SettleInv, [Next]_vars PROVE journal' = journal \/ Kept
  <2>1. CASE \E s \in Session : AppendLine(s)
    <3>1. PICK s \in Session : AppendLine(s)
      BY <2>1
    <3>. DEFINE e == NextStep(s).ev
                r == Replay(journal)
    <3>2. todo[s] # <<>> /\ todo[s][1].op = "append" /\ journal' = Append(journal, e)
      BY <3>1 DEF AppendLine, NextStep
    <3>3. todo[s][1] \in WrittenStep /\ 1 \in 1..Len(todo[s]) /\ journal \in Seq(Written)
      <4>1. todo[s][1] \in WrittenStep /\ Len(todo[s]) \in Nat \ {0}
        BY <1>1, <3>2, TailOf DEF Inv
      <4>. QED  BY <1>1, <4>1 DEF Inv
    <3>4. e = todo[s][1].ev /\ e \in Written
      BY <3>3 DEF NextStep, WrittenStep
    <3>5. Fits(todo[s][1], s, db)
      BY <1>1, <3>3 DEF SettleInv
    <3>6. Replayable(Append(journal, e))
      <4>1. RunStep(s)
        BY <3>1 DEF RunStep
      <4>2. ReplayInv' /\ Inv'
        BY <1>1, <4>1, ReplayRunStep, RunStepKeeps
      <4>3. Orderly(journal') /\ journal' \in Seq(Written)
        BY <4>2 DEF ReplayInv, Inv
      <4>. QED  BY <3>2, <4>3, OrderlyReplays
    <3>7. CanApply(r, e) /\ Replay(journal') = Apply(r, e)
      <4>. HIDE DEF e
      <4>. QED  BY <3>2, <3>3, <3>4, <3>6, LastApplies
    <3>8. ASSUME NEW t \in Ticket, r.tickets[t].status \in Terminal
          PROVE  Apply(r, e).tickets[t] = r.tickets[t]
      <4>1. CASE OnTicket(e, t) /\ e.kind = "ticket_created"
        <5>1. r.tickets[t].status = "absent"
          BY <3>7, <4>1 DEF OnTicket, CanApply, Exists
        <5>. QED  BY <3>8, <5>1 DEF Terminal
      <4>2. CASE OnTicket(e, t) /\ e.kind = "ticket_updated"
        <5>1. /\ e.status # "claimed" => r.tickets[t] = db.tickets[t]
              /\ e.status = "claimed" => r.tickets[t].status = "open"
          BY <1>1, <3>2, <3>4, <4>2, RowBefore
        <5>2. e.status # "claimed" => db.tickets[t].status \notin Terminal
          BY <3>2, <3>4, <3>5, <4>2 DEF Fits, OnTicket
        <5>. QED  BY <3>8, <5>1, <5>2 DEF Terminal
      <4>3. CASE ~OnTicket(e, t)
        <5>1. Len(journal) \in 0..Len(journal)
          <6>1. Len(journal) \in Nat
            BY <3>3
          <6>. QED  BY <6>1
        <5>2. r \in Db
          BY <3>3, <5>1, RebuiltBacked DEF Replay
        <5>. HIDE DEF e, r
        <5>. QED  BY <3>4, <4>3, <5>2, OtherRowsStay
      <4>. QED  BY <4>1, <4>2, <4>3 DEF OnTicket
    <3>. QED  BY <3>7, <3>8
  <2>2. CASE ~\E s \in Session : AppendLine(s)
    BY <1>1, <2>2, JournalSteps
  <2>. QED  BY <2>1, <2>2
<1>2. Inv /\ ReplayInv /\ SettleInv /\ [Next]_vars => [Kept]_journal
  BY <1>1
<1>. QED  BY <1>2, SettleHolds, PTL DEF Spec, ClosedStaysClosed
=============================================================================
