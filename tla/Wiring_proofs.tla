---------------------------- MODULE Wiring_proofs ----------------------------
(***************************************************************************)
(* Theorems about Wiring, for every number of tickets, every naming and    *)
(* every answer.  The inductive invariant adds to the types that no edge   *)
(* joins a ticket to itself, and that the attempts left outnumber the      *)
(* edges left.                                                             *)
(***************************************************************************)
EXTENDS Wiring, FiniteSetTheorems, WellFoundedInduction, TLAPS

LEMMA NaturalOrder ==
  \E less : /\ IsWellFoundedOn(less, Nat)
            /\ \A a, b \in Nat : a < b => <<a, b>> \in less
<1>1. \A a, b \in Nat : a < b => <<a, b>> \in OpToRel(<, Nat)
  BY DEF OpToRel
<1> WITNESS OpToRel(<, Nat)
<1> QED
  BY <1>1, NatLessThanWellFounded

(* A set of naturals has a least element. *)
LEMMA LeastExists ==
  ASSUME NEW S, S \subseteq Nat, S # {}
  PROVE  \E x \in S : \A y \in S : x <= y
<1>1. PICK less : /\ IsWellFoundedOn(less, Nat)
                  /\ \A a, b \in Nat : a < b => <<a, b>> \in less
  BY NaturalOrder
<1>2. PICK x \in S : \A y \in S : ~ (<<y, x>> \in less)
  <2>1. IsWellFoundedOn(less, Nat) /\ S \subseteq Nat /\ S # {}
    BY <1>1
  <2> QED
    BY ONLY <2>1, WFMin, Zenon
<1>3. ASSUME NEW y \in S
      PROVE  x <= y
  <2>1. x \in Nat /\ y \in Nat
    OBVIOUS
  <2>2. ~ (y < x)
    BY <1>1, <1>2, <2>1
  <2> QED
    BY <2>1, <2>2
<1> QED
  BY <1>3

(* And one with a bound has a greatest. *)
LEMMA GreatestExists ==
  ASSUME NEW bound \in Nat, NEW S, S \subseteq 0..bound, S # {}
  PROVE  \E x \in S : \A y \in S : x >= y
<1> DEFINE T == {bound - x : x \in S}
<1>1. \A x \in S : x \in 0..bound /\ bound - x \in Nat
  OBVIOUS
<1>2. T \subseteq Nat /\ T # {}
  <2>1. PICK x \in S : TRUE
    OBVIOUS
  <2>2. bound - x \in T
    OBVIOUS
  <2> QED
    BY <1>1, <2>2
<1> HIDE DEF T
<1>3. PICK t \in T : \A u \in T : t <= u
  BY <1>2, LeastExists
<1>4. PICK x \in S : t = bound - x
  BY DEF T
<1>5. ASSUME NEW y \in S
      PROVE  x >= y
  <2>1. bound - y \in T
    BY DEF T
  <2> QED
    BY <1>1, <1>3, <1>4, <2>1
<1> QED
  BY <1>5

(* The tickets, and so the edges, are finitely many. *)
LEMMA EdgesFinite ==
  ASSUME NEW E, E \subseteq Edge
  PROVE  IsFiniteSet(E) /\ Cardinality(E) \in Nat
<1>1. IsFiniteSet(Ticket)
  BY FS_Interval, WiringAssumption DEF Ticket
<1>2. IsFiniteSet(Edge)
  BY <1>1, FS_Product DEF Edge
<1> QED
  BY <1>2, FS_Subset, FS_CardinalityType

(* A cycle is a sequence of at least two tickets, all different. *)
LEMMA CycleShape ==
  ASSUME NEW E, NEW c \in Cycles(E)
  PROVE  \E n \in 2..TicketCount :
           /\ c \in [1..n -> Ticket] /\ DOMAIN c = 1..n /\ Len(c) = n
           /\ \A i, j \in 1..n : c[i] = c[j] => i = j
           /\ \A i \in 1..n : <<c[i], After(c, i)>> \in E
<1>1. PICK n \in 2..TicketCount : c \in [1..n -> Ticket] /\ Cycle(E, c)
  BY DEF Cycles
<1>2. DOMAIN c = 1..n /\ n \in Nat
  BY <1>1
<1>3. c \in Seq(Ticket) /\ Len(c) = n
  BY <1>1, <1>2
<1> QED
  BY <1>1, <1>2, <1>3 DEF Cycle

(* The edge a pass drops is one of the cycle's, and points back. *)
LEMMA DroppedPointsBack ==
  ASSUME NEW E, E \subseteq Edge, NEW c \in Cycles(E)
  PROVE  Dropped(c) \in E /\ Dropped(c)[1] > Dropped(c)[2]
<1>1. PICK n \in 2..TicketCount :
        /\ c \in [1..n -> Ticket] /\ DOMAIN c = 1..n /\ Len(c) = n
        /\ \A i, j \in 1..n : c[i] = c[j] => i = j
        /\ \A i \in 1..n : <<c[i], After(c, i)>> \in E
  BY CycleShape
<1>2. TicketCount \in Nat /\ n \in Nat
  BY <1>1, WiringAssumption
<1> DEFINE S == {c[i] : i \in 1..n}
<1>3. S \subseteq 0..TicketCount /\ S # {}
  <2>1. \A i \in 1..n : c[i] \in 1..TicketCount
    BY <1>1 DEF Ticket
  <2>2. c[1] \in S
    BY <1>1, <1>2
  <2> QED
    BY <2>1, <2>2, <1>2
<1>4. PICK x \in S : \A y \in S : x >= y
  BY <1>2, <1>3, GreatestExists
<1>5. \E i \in DOMAIN c : \A j \in DOMAIN c : c[i] >= c[j]
  BY <1>1, <1>4
<1> DEFINE k == CHOOSE i \in DOMAIN c : \A j \in DOMAIN c : c[i] >= c[j]
<1>6. k \in 1..n /\ \A j \in 1..n : c[k] >= c[j]
  BY <1>1, <1>5
<1>7. Dropped(c) = <<c[k], After(c, k)>>
  BY DEF Dropped
<1> HIDE DEF k
<1>8. PICK j \in 1..n : After(c, k) = c[j] /\ j # k
  <2>1. CASE k = n
    BY <2>1, <1>1, <1>2 DEF After
  <2>2. CASE k # n
    <3>1. k + 1 \in 1..n /\ k + 1 # k
      BY <2>2, <1>2, <1>6
    <3> QED
      BY <2>2, <3>1, <1>1 DEF After
  <2> QED
    BY <2>1, <2>2
<1>9. c[k] \in Nat /\ c[j] \in Nat /\ c[k] # c[j] /\ c[k] >= c[j]
  BY <1>1, <1>2, <1>6, <1>8 DEF Ticket
<1> QED
  BY <1>1, <1>6, <1>7, <1>8, <1>9

(* Fewer edges, fewer cycles. *)
LEMMA CyclesShrink ==
  ASSUME NEW E, NEW F, F \subseteq E, Cycles(E) = {}
  PROVE  Cycles(F) = {}
<1> SUFFICES ASSUME NEW c \in Cycles(F)
             PROVE  c \in Cycles(E)
  OBVIOUS
<1> QED
  BY DEF Cycles, Cycle
-----------------------------------------------------------------------------
Loopless == \A e \in edges : e[1] # e[2]
Enough   == phase = "breaking" => tries >= Cardinality(edges) + 2

IInv == TypeOK /\ Loopless /\ Enough /\ ForwardEdgesKept /\ StaysAcyclic

LEMMA InitInv == Init => IInv
<1> SUFFICES ASSUME Init PROVE IInv
  OBVIOUS
<1>1. PICK naming \in Namings : \E answer \in Answers(naming) :
        /\ edges = DedupeEdges(ResolveEdges(naming, answer))
        /\ broken = {} /\ implied = {}
        /\ tries = AttemptBudget(edges) /\ phase = "breaking"
  BY DEF Init
<1>2. PICK answer \in Answers(naming) :
        /\ edges = DedupeEdges(ResolveEdges(naming, answer))
        /\ broken = {} /\ implied = {}
        /\ tries = AttemptBudget(edges) /\ phase = "breaking"
  BY <1>1
<1>3. edges \subseteq Edge /\ Loopless
  BY <1>2 DEF DedupeEdges, ResolveEdges, Edge, Loopless
<1>4. Cardinality(edges) \in Nat
  BY <1>3, EdgesFinite
<1> QED
  BY <1>2, <1>3, <1>4
  DEF IInv, TypeOK, Enough, ForwardEdgesKept, StaysAcyclic, AttemptBudget

LEMMA StepInv == IInv /\ [Next]_vars => IInv'
<1> SUFFICES ASSUME IInv, [Next]_vars PROVE IInv'
  OBVIOUS
<1> USE DEF IInv
<1>1. CASE BreakCycle
  <2>1. PICK c \in Cycles(edges) : /\ edges'  = edges \ {Dropped(c)}
                                   /\ broken' = broken \cup {Dropped(c)}
    BY <1>1 DEF BreakCycle
  <2>2. edges \subseteq Edge /\ broken \subseteq Edge
    BY DEF TypeOK
  <2>3. Dropped(c) \in edges /\ Dropped(c)[1] > Dropped(c)[2]
    BY <2>2, DroppedPointsBack
  <2>4. Cardinality(edges') = Cardinality(edges) - 1 /\ Cardinality(edges) \in Nat
    BY <2>1, <2>2, <2>3, EdgesFinite, FS_RemoveElement
  <2>5. Cardinality(edges') \in Nat
    BY <2>1, <2>2, EdgesFinite
  <2>6. tries' = tries - 1 /\ tries \in Nat /\ phase' = phase /\ phase = "breaking"
        /\ implied' = implied
    BY <1>1 DEF BreakCycle, TypeOK
  <2>7. Enough'
    BY <2>4, <2>5, <2>6 DEF Enough
  <2>8. TypeOK'
    <3>1. tries' \in Nat
      BY <1>1, <2>6 DEF BreakCycle
    <3> QED
      BY <2>1, <2>2, <2>3, <2>6, <3>1 DEF TypeOK
  <2>9. Loopless' /\ ForwardEdgesKept' /\ StaysAcyclic'
    BY <2>1, <2>3, <2>6 DEF Loopless, ForwardEdgesKept, StaysAcyclic
  <2> QED
    BY <2>7, <2>8, <2>9
<1>2. CASE NoCycleLeft
  BY <1>2 DEF NoCycleLeft, TypeOK, Loopless, Enough, ForwardEdgesKept, StaysAcyclic
<1>3. CASE Reduce
  <2>1. PICK e \in edges : edges' = edges \ {e} /\ implied' = implied \cup {e}
    BY <1>3 DEF Reduce
  <2>2. /\ phase = "reducing" /\ phase' = phase
        /\ broken' = broken /\ tries' = tries
    BY <1>3 DEF Reduce
  <2>3. Cycles(edges') = {}
    BY <2>1, <2>2, CyclesShrink DEF StaysAcyclic
  <2> QED
    BY <2>1, <2>2, <2>3 DEF TypeOK, Loopless, Enough, ForwardEdgesKept, StaysAcyclic
<1>4. CASE CheckFrontier
  <2>1. /\ phase = "reducing" /\ phase' \in {"done", "empty_frontier"}
        /\ edges' = edges /\ broken' = broken /\ implied' = implied /\ tries' = tries
    BY <1>4 DEF CheckFrontier
  <2> QED
    BY <2>1 DEF TypeOK, Loopless, Enough, ForwardEdgesKept, StaysAcyclic
<1>5. CASE UNCHANGED vars
  BY <1>5 DEF vars, TypeOK, Loopless, Enough, ForwardEdgesKept, StaysAcyclic
<1> QED
  BY <1>1, <1>2, <1>3, <1>4, <1>5 DEF Next

LEMMA Invariance == Spec => []IInv
BY InitInv, StepInv, PTL DEF Spec

(* For any tickets and answers, the cycles are broken at edges that point  *)
(* back, and the edges that point forward stay.                            *)
THEOREM OnlyBackEdgesBroken == Spec => []ForwardEdgesKept
<1>1. IInv => ForwardEdgesKept
  BY DEF IInv
<1> QED
  BY <1>1, Invariance, PTL

(* break_cycles never fails for want of attempts.                          *)
THEOREM BudgetIsEnough == Spec => []BudgetSuffices
<1>1. IInv => BudgetSuffices
  <2> SUFFICES ASSUME IInv, phase = "breaking" PROVE tries > 0
    BY DEF BudgetSuffices
  <2>1. Cardinality(edges) \in Nat
    BY EdgesFinite DEF IInv, TypeOK
  <2> QED
    BY <2>1 DEF IInv, TypeOK, Enough
<1> QED
  BY <1>1, Invariance, PTL

(* What the repair hands on has no cycle, so no ticket waits for itself.   *)
THEOREM RepairedAcyclic == Spec => []StaysAcyclic
<1>1. IInv => StaysAcyclic
  BY DEF IInv
<1> QED
  BY <1>1, Invariance, PTL
-----------------------------------------------------------------------------
(* A path of n different tickets along the edges.                          *)
Path(E, n, p) == /\ p \in [1..n -> Ticket]
                 /\ \A i, j \in 1..n : p[i] = p[j] => i = j
                 /\ \A i \in 1..(n - 1) : <<p[i], p[i + 1]>> \in E

(* A path is no longer than the tickets are many.                          *)
LEMMA PathsAreShort ==
  ASSUME NEW E, NEW n \in Nat, NEW p, Path(E, n, p)
  PROVE  n <= TicketCount
<1>1. TicketCount \in Nat
  BY WiringAssumption
<1>2. /\ IsFiniteSet(Ticket) /\ Cardinality(Ticket) = TicketCount
      /\ IsFiniteSet(1..n) /\ Cardinality(1..n) = n
  <2>1. \A m \in Nat : IsFiniteSet(1..m) /\ Cardinality(1..m) = m
    <3> SUFFICES ASSUME NEW m \in Nat PROVE IsFiniteSet(1..m) /\ Cardinality(1..m) = m
      OBVIOUS
    <3>1. /\ IsFiniteSet(1..m)
          /\ Cardinality(1..m) = IF 1 > m THEN 0 ELSE m - 1 + 1
      BY FS_Interval
    <3> QED
      BY <3>1
  <2> QED
    BY <1>1, <2>1 DEF Ticket
<1>3. p \in Injection(1..n, Ticket)
  BY DEF Path, Injection, IsInjective
<1> QED
  BY <1>2, <1>3, FS_Injection

(* In a graph without cycles some ticket is not blocked: at the start of a *)
(* longest path, a blocker would make it longer or close a cycle.          *)
LEMMA SourceExists ==
  ASSUME NEW E, E \subseteq Edge, \A e \in E : e[1] # e[2], Cycles(E) = {},
         TicketCount > 0
  PROVE  Ticket \ Blocked(E) # {}
<1> SUFFICES ASSUME \A t \in Ticket : t \in Blocked(E)
             PROVE  FALSE
  OBVIOUS
<1>1. TicketCount \in Nat /\ 1 \in Ticket
  BY WiringAssumption DEF Ticket
<1> DEFINE Lengths == {n \in 1..TicketCount : \E p : Path(E, n, p)}
<1>2. 1 \in Lengths
  <2>1. Path(E, 1, [i \in 1..1 |-> 1])
    BY <1>1 DEF Path
  <2> QED
    BY <1>1, <2>1
<1>3. Lengths \subseteq 0..TicketCount /\ Lengths # {}
  BY <1>1, <1>2
<1>4. PICK n \in Lengths : \A m \in Lengths : n >= m
  BY <1>1, <1>3, GreatestExists
<1>5. PICK p : Path(E, n, p)
  OBVIOUS
<1>6. n \in 1..TicketCount /\ n \in Nat
  BY <1>1
<1>7. p[1] \in Ticket
  BY <1>5, <1>6 DEF Path
<1>8. PICK t \in Ticket : <<t, p[1]>> \in E
  <2>1. PICK e \in E : p[1] = e[2]
    BY <1>7 DEF Blocked
  <2>2. e[1] \in Ticket /\ e = <<e[1], e[2]>>
    BY DEF Edge
  <2> QED
    BY <2>1, <2>2
<1>9. CASE \E k \in 1..n : p[k] = t
  <2>1. PICK k \in 1..n : p[k] = t
    BY <1>9
  <2>2. k # 1
    BY <1>8, <2>1
  <2>3. k \in 2..TicketCount /\ k \in Nat
    BY <2>1, <2>2, <1>6, <1>1
  <2> DEFINE c == [i \in 1..k |-> p[i]]
  <2>4. c \in [1..k -> Ticket] /\ DOMAIN c = 1..k
    BY <1>5, <1>6, <2>3 DEF Path
  <2>5. c \in Seq(Ticket) /\ Len(c) = k
    BY <2>3, <2>4
  <2>6. \A i, j \in 1..k : c[i] = c[j] => i = j
    BY <1>5, <1>6, <2>1 DEF Path
  <2>7. \A i \in 1..k : <<c[i], After(c, i)>> \in E
    <3> SUFFICES ASSUME NEW i \in 1..k PROVE <<c[i], After(c, i)>> \in E
      OBVIOUS
    <3>1. CASE i = k
      BY <3>1, <1>8, <2>1, <2>3, <2>5 DEF After
    <3>2. CASE i # k
      <4>1. i \in 1..(n - 1) /\ i + 1 \in 1..k
        BY <3>2, <1>6, <2>1, <2>3
      <4>2. <<p[i], p[i + 1]>> \in E
        BY <4>1, <1>5 DEF Path
      <4> QED
        BY <3>2, <4>1, <4>2, <2>5 DEF After
    <3> QED
      BY <3>1, <3>2
  <2> HIDE DEF c
  <2>8. Cycle(E, c)
    BY <2>4, <2>6, <2>7 DEF Cycle
  <2>9. c \in {d \in [1..k -> Ticket] : Cycle(E, d)}
    BY <2>4, <2>8
  <2>10. c \in Cycles(E)
    BY <2>3, <2>9, Zenon DEF Cycles
  <2> QED
    BY <2>10
<1>10. CASE \A k \in 1..n : p[k] # t
  <2> DEFINE q == [i \in 1..(n + 1) |-> IF i = 1 THEN t ELSE p[i - 1]]
  <2>1. q \in [1..(n + 1) -> Ticket]
    BY <1>5, <1>6, <1>8 DEF Path
  <2>2. \A i, j \in 1..(n + 1) : q[i] = q[j] => i = j
    <3> SUFFICES ASSUME NEW i \in 1..(n + 1), NEW j \in 1..(n + 1), q[i] = q[j]
                 PROVE  i = j
      OBVIOUS
    <3>1. \A m \in 1..(n + 1) : m # 1 => m - 1 \in 1..n
      BY <1>6
    <3>2. CASE i = 1 \/ j = 1
      BY <3>1, <3>2, <1>10
    <3>3. CASE i # 1 /\ j # 1
      <4>1. p[i - 1] = p[j - 1] /\ i - 1 \in 1..n /\ j - 1 \in 1..n
        BY <3>1, <3>3
      <4>2. i - 1 = j - 1
        BY <4>1, <1>5 DEF Path
      <4> QED
        BY <4>2, <1>6
    <3> QED
      BY <3>2, <3>3
  <2>3. \A i \in 1..((n + 1) - 1) : <<q[i], q[i + 1]>> \in E
    <3>0. (n + 1) - 1 = n
      BY <1>6
    <3> SUFFICES ASSUME NEW i \in 1..n PROVE <<q[i], q[i + 1]>> \in E
      BY <3>0, Zenon
    <3>1. q[i + 1] = p[i]
      BY <1>6
    <3>2. CASE i = 1
      BY <3>1, <3>2, <1>8, <1>6
    <3>3. CASE i # 1
      <4>1. i - 1 \in 1..(n - 1) /\ q[i] = p[i - 1] /\ (i - 1) + 1 = i
        BY <3>3, <1>6
      <4>2. <<p[i - 1], p[(i - 1) + 1]>> \in E
        BY <4>1, <1>5 DEF Path
      <4> QED
        BY <3>1, <4>1, <4>2
    <3> QED
      BY <3>2, <3>3
  <2> HIDE DEF q
  <2>4. Path(E, n + 1, q)
    BY <2>1, <2>2, <2>3 DEF Path
  <2>5. n + 1 <= TicketCount
    BY <2>4, <1>6, PathsAreShort
  <2>6. n + 1 \in Lengths
    BY <2>4, <2>5, <1>6, <1>1
  <2> QED
    BY <2>6, <1>4, <1>6
<1> QED
  BY <1>9, <1>10

(* A repaired map that has tickets has one that can be taken.              *)
THEOREM MapStartsTakeable == Spec => []StartsTakeable
<1>1. Init => StartsTakeable
  BY DEF Init, StartsTakeable
<1>2. IInv /\ StartsTakeable /\ [Next]_vars => StartsTakeable'
  <2> SUFFICES ASSUME IInv, StartsTakeable, [Next]_vars, TicketCount > 0
               PROVE  phase' # "empty_frontier"
    BY DEF StartsTakeable
  <2>1. CASE BreakCycle \/ NoCycleLeft \/ Reduce \/ UNCHANGED vars
    BY <2>1 DEF BreakCycle, NoCycleLeft, Reduce, vars, StartsTakeable
  <2>2. CASE CheckFrontier
    <3>1. Ticket \ Blocked(edges) # {}
      BY <2>2, SourceExists DEF CheckFrontier, IInv, TypeOK, Loopless, StaysAcyclic
    <3> QED
      BY <2>2, <3>1 DEF CheckFrontier
  <2> QED
    BY <2>1, <2>2 DEF Next
<1> QED
  BY <1>1, <1>2, Invariance, PTL DEF Spec
=============================================================================
